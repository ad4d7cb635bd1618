---------------------------- MODULE RunLifecycle ----------------------------
(***************************************************************************)
(* The run manager of milim's control plane: how a turn is accepted,       *)
(* queued, steered, started, run, finished and followed by the next one.   *)
(* Sources: crates/milim-server/src/control/{turns,queue,commands,mod,     *)
(* threads,journal}.rs and the tables user_sessions, user_runs and         *)
(* user_run_inbox of crates/milim-storage/src/db.rs.                       *)
(*                                                                         *)
(* Three kinds of actors interleave:                                       *)
(*  - a holder of a thread's lock: a command, or finish_run.  op[t] is the *)
(*    holder's program counter; its steps are split wherever a task, an    *)
(*    unlocked command or a process exit can come in between;              *)
(*  - the task of each run, which works without the thread lock until it   *)
(*    finishes;                                                            *)
(*  - what takes no thread lock: turn.stop, thread.delete, shutdown, and   *)
(*    the exit of the process followed by the start of a new one.          *)
(***************************************************************************)
CONSTANTS Threads,   \* thread ids
          Runs,      \* run ids (fresh UUIDs)
          Inputs,    \* accepted turns and inbox rows (fresh UUIDs)
          Deletable, \* threads a client may delete
          NoThread, NoRun, NoInput

ASSUME ConstantsAssumption ==
  /\ NoThread \notin Threads
  /\ NoRun \notin Runs
  /\ NoInput \notin Inputs
  /\ Deletable \subseteq Threads

VARIABLES
  exists,           \* durable: the user_sessions row of a thread
  runs,             \* durable: user_runs
  inbox,            \* durable: user_run_inbox
  before,           \* durable: the order COALESCE(sort_key, created_at) puts on inbox rows
  active,           \* RunManager.active: the run that holds a thread's slot
  queue_interrupts, \* RunManager.queue_interrupts
  op,               \* the holder of each thread's lock
  task,             \* the tokio task of each run
  deleting,         \* thread.delete commands past their check of `active`
  closing,          \* progress of RunManager::shutdown
  held,             \* the inputs a run's step has claimed and not yet sent to its model
  delivered,        \* history: the runs each input was handed to
  lost,             \* history: claimed inputs that an exit, or the end of the step that
                    \* claimed them, kept from any run
  stranded          \* history: threads whose interruption a panic in finish_run left behind

durable  == <<exists, runs, inbox, before>>
volatile == <<active, queue_interrupts, op, task, deleting, closing, held>>
history  == <<delivered, lost, stranded>>
vars     == <<durable, volatile, history>>

-----------------------------------------------------------------------------
(* Records.                                                                *)

Nonterminal == {"accepted", "running"}
Terminal    == {"completed", "failed", "cancelled", "interrupted"}

RunRecord == [status: {"none"} \cup Nonterminal \cup Terminal, completed: BOOLEAN,
              thread: Threads \cup {NoThread}, input: Inputs \cup {NoInput}]
NoRecord  == [status |-> "none", completed |-> FALSE, thread |-> NoThread, input |-> NoInput]

InboxRecord == [state: {"none", "pending", "claimed", "cancelled"},
                kind: {"none", "followup", "steer", "inject"},
                thread: Threads \cup {NoThread}, target: Runs \cup {NoRun}]
NoRow       == [state |-> "none", kind |-> "none", thread |-> NoThread, target |-> NoRun]

ActiveRun == [run: Runs \cup {NoRun}, steering: BOOLEAN, stop: BOOLEAN]
NoActive  == [run |-> NoRun, steering |-> FALSE, stop |-> FALSE]

\* What the holder of a thread's lock is doing: "start", "record" and "project"
\* are start_turn's steps, with the turn in hand (queued: claimed from the queue);
\* "finish", "retarget", "release" and "next" are finish_run's.
OpRecord ==
  [pc: {"free"}, run: {NoRun}, input: {NoInput}, queued: {FALSE}]
  \cup [pc: {"start"}, run: {NoRun}, input: Inputs, queued: BOOLEAN]
  \cup [pc: {"record", "project"}, run: Runs, input: Inputs, queued: BOOLEAN]
  \cup [pc: {"finish", "retarget", "release", "next"}, run: Runs, input: {NoInput}, queued: {FALSE}]
Free     == [pc |-> "free", run |-> NoRun, input |-> NoInput, queued |-> FALSE]

\* "guarding": RunTaskGuard's own finish_run, which no guard protects.
TaskRecord == [pc: {"none", "spawned", "running", "finishing", "guarding", "done"},
               thread: Threads \cup {NoThread},
               status: {"none", "completed", "failed", "cancelled"}, drain: BOOLEAN]
NoTask     == [pc |-> "none", thread |-> NoThread, status |-> "none", drain |-> FALSE]

TypeOK ==
  /\ exists \in [Threads -> BOOLEAN]
  /\ runs \in [Runs -> RunRecord]
  /\ inbox \in [Inputs -> InboxRecord]
  /\ before \in SUBSET (Inputs \X Inputs)
  /\ active \in [Threads -> ActiveRun]
  /\ queue_interrupts \in [Threads -> Inputs \cup {NoInput}]
  /\ op \in [Threads -> OpRecord]
  /\ task \in [Runs -> TaskRecord]
  /\ deleting \in SUBSET Threads
  /\ closing \in {"no", "cleared", "stopped", "timedout"}
  /\ held \in [Runs -> SUBSET Inputs]
  /\ delivered \in [Inputs -> SUBSET Runs]
  /\ lost \in SUBSET Inputs
  /\ stranded \in SUBSET Threads

Init ==
  /\ exists = [t \in Threads |-> TRUE]
  /\ runs = [r \in Runs |-> NoRecord]
  /\ inbox = [i \in Inputs |-> NoRow]
  /\ before = {}
  /\ active = [t \in Threads |-> NoActive]
  /\ queue_interrupts = [t \in Threads |-> NoInput]
  /\ op = [t \in Threads |-> Free]
  /\ task = [r \in Runs |-> NoTask]
  /\ deleting = {}
  /\ closing = "no"
  /\ held = [r \in Runs |-> {}]
  /\ delivered = [i \in Inputs |-> {}]
  /\ lost = {}
  /\ stranded = {}

-----------------------------------------------------------------------------
(* The queries the operations use.                                         *)

LockFree(t) == op[t].pc = "free"
Busy(t)     == active[t].run # NoRun

Pending(t)  == {i \in Inputs : inbox[i].state = "pending" /\ inbox[i].thread = t}
Queued(t)   == {i \in Pending(t) : inbox[i].kind = "followup"}
IsFirst(t, q) == \A p \in Queued(t) \ {q} : <<q, p>> \in before

\* UUIDs are fresh: no row, run, holder or delivery has used this id.
FreshInput(i) ==
  /\ inbox[i] = NoRow
  /\ delivered[i] = {}
  /\ \A r \in Runs : runs[r].input # i /\ i \notin held[r]
  /\ \A t \in Threads : op[t].input # i

FreshRun(r) ==
  /\ runs[r] = NoRecord
  /\ task[r] = NoTask /\ held[r] = {}
  /\ \A i \in Inputs : r \notin delivered[i]
  /\ \A t \in Threads : op[t].run # r

\* A new row sorts after every row its thread already has.
PutInbox(t, i, kind, target) ==
  /\ inbox' = [inbox EXCEPT ![i] = [state |-> "pending", kind |-> kind, thread |-> t,
                                    target |-> target]]
  /\ before' = before \cup {<<j, i>> : j \in {k \in Inputs : inbox[k].thread = t}}

-----------------------------------------------------------------------------
(* Commands that take the thread lock.                                     *)

\* turn.send on a busy thread: a future follow-up.
EnqueueTurn(t, i) ==
  /\ LockFree(t) /\ exists[t] /\ FreshInput(i)
  /\ Busy(t)
  /\ PutInbox(t, i, "followup", NoRun)
  /\ UNCHANGED <<exists, runs, volatile, history>>

\* turn.send on an idle thread (the turn is only in the command's hands until
\* the run record is written); turn.regenerate starts a turn the same way.
SendTurn(t, i) ==
  /\ LockFree(t) /\ exists[t] /\ FreshInput(i)
  /\ ~Busy(t)
  /\ op' = [op EXCEPT ![t] = [Free EXCEPT !.pc = "start", !.input = i]]
  /\ UNCHANGED <<durable, active, queue_interrupts, task, deleting, closing, held, history>>

SteerTurn(t, i) ==
  /\ LockFree(t) /\ exists[t] /\ FreshInput(i)
  /\ Busy(t) /\ active[t].steering
  /\ PutInbox(t, i, "steer", active[t].run)
  /\ UNCHANGED <<exists, runs, volatile, history>>

InjectContext(t, i) ==
  /\ LockFree(t) /\ exists[t] /\ FreshInput(i)
  /\ PutInbox(t, i, "inject", NoRun)
  /\ UNCHANGED <<exists, runs, volatile, history>>

CancelInbox(i) == inbox' = [inbox EXCEPT ![i] = [@ EXCEPT !.state = "cancelled"]]

DeleteInboxInput(t, i) ==
  /\ LockFree(t)
  /\ i \in Pending(t)
  /\ CancelInbox(i)
  /\ UNCHANGED <<exists, runs, before, volatile, history>>

\* queue_interrupts is left alone, even when it names this turn.
DeleteQueuedTurn(t, q) ==
  /\ LockFree(t)
  /\ q \in Queued(t)
  /\ CancelInbox(q)
  /\ UNCHANGED <<exists, runs, before, volatile, history>>

\* Every queued turn gets a new sort key just below now, so the queue as a
\* whole sorts after the thread's other rows; q lands next to its target.
MovedBefore(t, q, target, after) ==
  LET Q == Queued(t)
      Others == {i \in Inputs : inbox[i].thread = t} \ Q
      behindQ(p) == p # q /\ (<<target, p>> \in before \/ (p = target /\ ~after))
  IN  {e \in Inputs \X Inputs :
         \/ e \in before /\ e[1] \notin Q /\ e[2] \notin Q
         \/ e[1] \in Others /\ e[2] \in Q
         \/ e \in before /\ e[1] \in Q \ {q} /\ e[2] \in Q \ {q}
         \/ e[1] = q /\ e[2] \in Q /\ behindQ(e[2])
         \/ e[2] = q /\ e[1] \in Q \ {q} /\ ~behindQ(e[1])}

MoveQueuedTurn(t, q, target, after) ==
  /\ LockFree(t)
  /\ q # target /\ q \in Queued(t) /\ target \in Queued(t)
  /\ before' = MovedBefore(t, q, target, after)
  /\ UNCHANGED <<exists, runs, inbox, volatile, history>>

\* Mutant of InterruptForQueued: the thread lock is not taken.
InterruptForQueuedUnlocked(t, q) ==
  /\ Busy(t)
  /\ q \in Queued(t)
  /\ queue_interrupts[t] \in {NoInput, q}
  /\ queue_interrupts' = [queue_interrupts EXCEPT ![t] = q]
  /\ active' = [active EXCEPT ![t] = [@ EXCEPT !.stop = TRUE]]
  /\ UNCHANGED <<durable, op, task, deleting, closing, held, history>>

\* turn.queue_resume with interrupt_active on a busy thread.
InterruptForQueued(t, q) ==
  /\ LockFree(t)
  /\ Busy(t)
  /\ q \in Queued(t)
  /\ queue_interrupts[t] \in {NoInput, q}
  /\ queue_interrupts' = [queue_interrupts EXCEPT ![t] = q]
  /\ active' = [active EXCEPT ![t] = [@ EXCEPT !.stop = TRUE]]
  /\ UNCHANGED <<durable, op, task, deleting, closing, held, history>>

\* start_queued_turn up to start_turn: the row is claimed, the turn is in hand.
ClaimQueued(t, q) ==
  /\ inbox' = [inbox EXCEPT ![q] = [@ EXCEPT !.state = "claimed"]]
  /\ op' = [op EXCEPT ![t] = [Free EXCEPT !.pc = "start", !.input = q, !.queued = TRUE]]

ResumeQueuedTurn(t, q) ==
  /\ LockFree(t)
  /\ ~Busy(t)
  /\ q \in Queued(t)
  /\ ClaimQueued(t, q)
  /\ UNCHANGED <<exists, runs, before, active, queue_interrupts, task, deleting, closing,
                 held, history>>

-----------------------------------------------------------------------------
(* start_turn and launch_turn, under the lock of whoever called them.      *)

\* Mutant of StartFailed: a claimed turn is not put back.
StartFailedKeepsClaim(t) ==
  /\ op' = [op EXCEPT ![t] = Free]
  /\ UNCHANGED inbox

\* A start that failed: the slot is free again, and start_queued_turn puts a
\* claimed turn back where it was (a deleted thread has no row to put back).
StartFailed(t) ==
  /\ inbox' = IF op[t].queued /\ exists[t]
              THEN [inbox EXCEPT ![op[t].input] = [@ EXCEPT !.state = "pending"]]
              ELSE inbox
  /\ op' = [op EXCEPT ![t] = Free]

\* refresh_native_session_for_start, the restore fence or a taken slot.
StartRejected(t) ==
  /\ op[t].pc = "start"
  /\ StartFailed(t)
  /\ UNCHANGED <<exists, runs, before, active, queue_interrupts, task, deleting, closing,
                 held, history>>

ReserveSlot(t, r, steering) ==
  /\ op[t].pc = "start"
  /\ ~Busy(t)
  /\ FreshRun(r)
  /\ active' = [active EXCEPT ![t] = [run |-> r, steering |-> steering, stop |-> FALSE]]
  /\ op' = [op EXCEPT ![t] = [@ EXCEPT !.pc = "record", !.run = r]]
  /\ UNCHANGED <<durable, queue_interrupts, task, deleting, closing, held, history>>

RecordRun(t) ==
  /\ op[t].pc = "record"
  /\ exists[t]
  /\ runs' = [runs EXCEPT ![op[t].run] = [status |-> "accepted", completed |-> FALSE,
                                          thread |-> t, input |-> op[t].input]]
  /\ op' = [op EXCEPT ![t] = [@ EXCEPT !.pc = "project"]]
  /\ UNCHANGED <<exists, inbox, before, active, queue_interrupts, task, deleting, closing,
                 held, history>>

\* The composition event and the user message are written, the task spawned.
LaunchRun(t) ==
  /\ op[t].pc = "project"
  /\ exists[t]
  /\ task' = [task EXCEPT ![op[t].run] = [NoTask EXCEPT !.pc = "spawned", !.thread = t]]
  /\ delivered' = [delivered EXCEPT ![op[t].input] = @ \cup {op[t].run}]
  /\ op' = [op EXCEPT ![t] = Free]
  /\ UNCHANGED <<durable, active, queue_interrupts, deleting, closing, held, lost, stranded>>

\* A store error in launch_turn (a deleted thread is one): abandon_unlaunched_run.
LaunchFailed(t) ==
  /\ op[t].pc \in {"record", "project"}
  /\ active' = [active EXCEPT ![t] = NoActive]
  /\ runs' = [r \in Runs |-> IF r = op[t].run /\ runs[r].status # "none" /\ ~runs[r].completed
                             THEN [runs[r] EXCEPT !.status = "failed", !.completed = TRUE]
                             ELSE runs[r]]
  /\ StartFailed(t)
  /\ UNCHANGED <<exists, before, queue_interrupts, task, deleting, closing, held, history>>

-----------------------------------------------------------------------------
(* The task of a run.                                                      *)

\* A task at its end: what it passes to finish_run.
Ended(k, pc, status, drain) == [k EXCEPT !.pc = pc, !.status = status, !.drain = drain]

\* run_turn's first step; without its record the guard fails the run.
BeginRun(r) ==
  /\ task[r].pc = "spawned"
  /\ IF runs[r].status = "none"
     THEN /\ task' = [task EXCEPT ![r] = Ended(@, "guarding", "failed", TRUE)]
          /\ UNCHANGED runs
     ELSE /\ task' = [task EXCEPT ![r] = [@ EXCEPT !.pc = "running"]]
          /\ runs' = [runs EXCEPT ![r] = [@ EXCEPT !.status = "running"]]
  /\ UNCHANGED <<exists, inbox, before, active, queue_interrupts, op, deleting, closing, held,
                 history>>

\* Mutant of StepInputs: rows already claimed are read again.
StepInputsClaimedToo(r) ==
  {i \in Inputs : /\ inbox[i].thread = task[r].thread
                  /\ inbox[i].state \in {"pending", "claimed"}
                  /\ inbox[i].kind = "inject" \/ inbox[i].target = r}

\* prepare_model_step of a milim-owned agent run: its steers and all injects.
StepInputs(r) ==
  {i \in Pending(task[r].thread) :
      \/ inbox[i].kind = "steer" /\ inbox[i].target = r
      \/ inbox[i].kind = "inject"}

ClaimStepInputs(r) ==
  /\ task[r].pc = "running" /\ held[r] = {}
  /\ active[task[r].thread].steering
  /\ StepInputs(r) # {}
  /\ inbox' = [i \in Inputs |-> IF i \in StepInputs(r)
                                THEN [inbox[i] EXCEPT !.state = "claimed"] ELSE inbox[i]]
  /\ held' = [held EXCEPT ![r] = StepInputs(r)]
  /\ UNCHANGED <<exists, runs, before, active, queue_interrupts, op, task, deleting, closing,
                 history>>

\* The claimed inputs are among the step's messages and the request goes out.
DeliverStepInputs(r) ==
  /\ task[r].pc = "running" /\ held[r] # {}
  /\ delivered' = [i \in Inputs |-> IF i \in held[r] THEN delivered[i] \cup {r} ELSE delivered[i]]
  /\ held' = [held EXCEPT ![r] = {}]
  /\ UNCHANGED <<durable, active, queue_interrupts, op, task, deleting, closing, lost, stranded>>

\* The step goes down with what it claimed.
DropStepInputs(r) ==
  /\ lost' = lost \cup held[r]
  /\ held' = [held EXCEPT ![r] = {}]
  /\ UNCHANGED <<delivered, stranded>>

\* RunOutcome and the drain decision of run_turn.  A stopped run is cancelled;
\* an account runtime may also report turn_cancelled by itself.
Outcomes(r) ==
  {<<"completed", TRUE>>, <<"completed", FALSE>>, <<"failed", TRUE>>}
  \cup IF active[task[r].thread].stop \/ ~active[task[r].thread].steering
       THEN {<<"cancelled", FALSE>>} ELSE {}

EndRun(r, outcome) ==
  /\ task[r].pc = "running"
  /\ outcome \in Outcomes(r)
  /\ held[r] # {} => outcome[1] # "completed"
  /\ task' = [task EXCEPT ![r] = Ended(@, "finishing", outcome[1], outcome[2])]
  /\ DropStepInputs(r)
  /\ UNCHANGED <<durable, active, queue_interrupts, op, deleting, closing>>

\* The task panics, or the runtime drops it: RunTaskGuard fails the run.
PanicRun(r) ==
  /\ task[r].pc \in {"spawned", "running"}
  /\ task' = [task EXCEPT ![r] = Ended(@, "guarding", "failed", TRUE)]
  /\ DropStepInputs(r)
  /\ UNCHANGED <<durable, active, queue_interrupts, op, deleting, closing>>

-----------------------------------------------------------------------------
(* finish_run, under the thread lock.                                      *)

\* Mutant of BeginFinish: RunTaskGuard does not finish the run of a dead task.
BeginFinishUnguarded(r) ==
  /\ task[r].pc = "finishing"
  /\ LockFree(task[r].thread)
  /\ op' = [op EXCEPT ![task[r].thread] = [Free EXCEPT !.pc = "finish", !.run = r]]
  /\ UNCHANGED <<durable, active, queue_interrupts, task, deleting, closing, held, history>>

BeginFinish(r) ==
  /\ task[r].pc \in {"finishing", "guarding"}
  /\ LockFree(task[r].thread)
  /\ op' = [op EXCEPT ![task[r].thread] = [Free EXCEPT !.pc = "finish", !.run = r]]
  /\ UNCHANGED <<durable, active, queue_interrupts, task, deleting, closing, held, history>>

\* Mutant of FinishRecord: completed_at is not looked at.
FinishRecordOverwrites(t) ==
  /\ op[t].pc = "finish"
  /\ LET r == op[t].run
     IN  runs' = IF runs[r].status # "none"
                 THEN [runs EXCEPT ![r] = [@ EXCEPT !.status = task[r].status,
                                                      !.completed = TRUE]]
                 ELSE runs
  /\ op' = [op EXCEPT ![t] = [@ EXCEPT !.pc = "retarget"]]
  /\ UNCHANGED <<exists, inbox, before, active, queue_interrupts, task, deleting, closing,
                 held, history>>

\* A status the run already recorded is kept.
FinishRecord(t) ==
  /\ op[t].pc = "finish"
  /\ LET r == op[t].run
     IN  runs' = IF runs[r].status # "none" /\ ~runs[r].completed
                 THEN [runs EXCEPT ![r] = [@ EXCEPT !.status = task[r].status,
                                                      !.completed = TRUE]]
                 ELSE runs
  /\ op' = [op EXCEPT ![t] = [@ EXCEPT !.pc = "retarget"]]
  /\ UNCHANGED <<exists, inbox, before, active, queue_interrupts, task, deleting, closing,
                 held, history>>

\* Mutant of FinishRetarget: unclaimed steers keep their target.
FinishRetargetSkipped(t) ==
  /\ op[t].pc = "retarget"
  /\ op' = [op EXCEPT ![t] = [@ EXCEPT !.pc = "release"]]
  /\ UNCHANGED <<exists, runs, inbox, before, active, queue_interrupts, task, deleting,
                 closing, held, history>>

FinishRetarget(t) ==
  /\ op[t].pc = "retarget"
  /\ inbox' = [i \in Inputs |->
                 IF inbox[i].state = "pending" /\ inbox[i].kind = "steer"
                      /\ inbox[i].target = op[t].run
                 THEN [inbox[i] EXCEPT !.kind = "followup", !.target = NoRun] ELSE inbox[i]]
  /\ op' = [op EXCEPT ![t] = [@ EXCEPT !.pc = "release"]]
  /\ UNCHANGED <<exists, runs, before, active, queue_interrupts, task, deleting, closing,
                 held, history>>

\* What follows the run: the turn that interrupted it, or else, when the run
\* drains, the head of the queue; {} when nothing does.
NextTurns(t) ==
  IF queue_interrupts[t] # NoInput
  THEN {queue_interrupts[t]} \cap Queued(t)
  ELSE {q \in Queued(t) : task[op[t].run].drain /\ IsFirst(t, q)}

\* Mutant of FinishRelease: whatever run holds the slot is released.
FinishReleaseAny(t) ==
  /\ op[t].pc = "release"
  /\ active' = [active EXCEPT ![t] = NoActive]
  /\ op' = [op EXCEPT ![t] = [@ EXCEPT !.pc = "next"]]
  /\ UNCHANGED <<durable, queue_interrupts, task, deleting, closing, held, history>>

\* release_active_run; a run that no longer holds the slot is done with.
FinishRelease(t) ==
  /\ op[t].pc = "release"
  /\ IF active[t].run = op[t].run
     THEN /\ active' = [active EXCEPT ![t] = NoActive]
          /\ op' = [op EXCEPT ![t] = [@ EXCEPT !.pc = "next"]]
          /\ UNCHANGED task
     ELSE /\ op' = [op EXCEPT ![t] = Free]
          /\ task' = [task EXCEPT ![op[t].run] = [@ EXCEPT !.pc = "done"]]
          /\ UNCHANGED active
  /\ UNCHANGED <<durable, queue_interrupts, deleting, closing, held, history>>

\* The interruption is taken and the next turn, if any, is started.
FinishStartNext(t) ==
  /\ op[t].pc = "next"
  /\ task' = [task EXCEPT ![op[t].run] = [@ EXCEPT !.pc = "done"]]
  /\ queue_interrupts' = [queue_interrupts EXCEPT ![t] = NoInput]
  /\ \/ \E q \in NextTurns(t) : ClaimQueued(t, q)
     \/ /\ NextTurns(t) = {}
        /\ op' = [op EXCEPT ![t] = Free]
        /\ UNCHANGED inbox
  /\ stranded' = stranded \ {t}
  /\ UNCHANGED <<exists, runs, before, active, deleting, closing, held, delivered, lost>>

\* A panic inside finish_run unwinds the lock and leaves the rest to the guard,
\* which goes no further than a slot that is empty or the next run's.
FinishPanics(t) ==
  /\ op[t].pc \in {"finish", "retarget", "release", "next"}
  /\ task[op[t].run].pc = "finishing"
  /\ task' = [task EXCEPT ![op[t].run] = Ended(@, "guarding", "failed", TRUE)]
  /\ op' = [op EXCEPT ![t] = Free]
  /\ stranded' = IF op[t].pc = "next" THEN stranded \cup {t} ELSE stranded
  /\ UNCHANGED <<durable, active, queue_interrupts, deleting, closing, held, delivered, lost>>

-----------------------------------------------------------------------------
(* What takes no thread lock.                                              *)

StopTurn(t) ==
  /\ Busy(t)
  /\ active' = [active EXCEPT ![t] = [@ EXCEPT !.stop = TRUE]]
  /\ UNCHANGED <<durable, queue_interrupts, op, task, deleting, closing, held, history>>

\* thread.delete checks `active`, then deletes the row; runs and inbox rows
\* go with it (ON DELETE CASCADE).
DeleteThreadCheck(t) ==
  /\ t \in Deletable
  /\ exists[t] /\ ~Busy(t)
  /\ deleting' = deleting \cup {t}
  /\ UNCHANGED <<durable, active, queue_interrupts, op, task, closing, held, history>>

DeleteThreadCommit(t) ==
  /\ t \in deleting
  /\ deleting' = deleting \ {t}
  /\ exists' = [exists EXCEPT ![t] = FALSE]
  /\ runs' = [r \in Runs |-> IF runs[r].thread = t THEN NoRecord ELSE runs[r]]
  /\ inbox' = [i \in Inputs |-> IF inbox[i].thread = t THEN NoRow ELSE inbox[i]]
  /\ before' = {e \in before : inbox[e[1]].thread # t}
  /\ UNCHANGED <<active, queue_interrupts, op, task, closing, held, history>>

\* Mutant of Reconcile: runs that were only accepted are forgotten.
ReconcileRunningOnly ==
  /\ runs' = [r \in Runs |-> IF runs[r].status = "running"
                             THEN [runs[r] EXCEPT !.status = "interrupted", !.completed = TRUE]
                             ELSE runs[r]]
  /\ inbox' = [i \in Inputs |-> IF inbox[i].state = "pending" /\ inbox[i].kind = "steer"
                                THEN [inbox[i] EXCEPT !.kind = "followup", !.target = NoRun]
                                ELSE inbox[i]]

\* reconcile_control_startup: one transaction.  The runs are interrupted
\* first, so no pending steer still has a live target.
Reconcile ==
  /\ runs' = [r \in Runs |-> IF runs[r].status \in Nonterminal
                             THEN [runs[r] EXCEPT !.status = "interrupted", !.completed = TRUE]
                             ELSE runs[r]]
  /\ inbox' = [i \in Inputs |-> IF inbox[i].state = "pending" /\ inbox[i].kind = "steer"
                                THEN [inbox[i] EXCEPT !.kind = "followup", !.target = NoRun]
                                ELSE inbox[i]]

ShutdownClear ==
  /\ closing = "no"
  /\ closing' = "cleared"
  /\ queue_interrupts' = [t \in Threads |-> NoInput]
  /\ stranded' = {}
  /\ UNCHANGED <<durable, active, op, task, deleting, held, delivered, lost>>

ShutdownStop ==
  /\ closing = "cleared"
  /\ closing' = "stopped"
  /\ active' = [t \in Threads |-> IF Busy(t) THEN [active[t] EXCEPT !.stop = TRUE] ELSE active[t]]
  /\ UNCHANGED <<durable, queue_interrupts, op, task, deleting, held, history>>

\* The wait for `active` to empty timed out: reconcile with runs still live.
ShutdownTimeout ==
  /\ closing = "stopped"
  /\ \E t \in Threads : Busy(t)
  /\ closing' = "timedout"
  /\ Reconcile
  /\ UNCHANGED <<exists, before, active, queue_interrupts, op, task, deleting, held, history>>

\* The process exits at any point; the next one reconciles before it serves.
\* A queued turn claimed but not yet recorded as a run is gone with the exit, and
\* so is what a step claimed and has not sent.
Restart ==
  /\ Reconcile
  /\ active' = [t \in Threads |-> NoActive]
  /\ queue_interrupts' = [t \in Threads |-> NoInput]
  /\ op' = [t \in Threads |-> Free]
  /\ task' = [r \in Runs |-> NoTask]
  /\ deleting' = {}
  /\ closing' = "no"
  /\ held' = [r \in Runs |-> {}]
  /\ lost' = lost \cup {i \in Inputs : \/ \E r \in Runs : i \in held[r]
                                       \/ \E t \in Threads : /\ op[t].input = i /\ op[t].queued
                                                             /\ op[t].pc \in {"start", "record"}}
  /\ stranded' = {}
  /\ UNCHANGED <<exists, before, delivered>>

-----------------------------------------------------------------------------
(* The specification.                                                      *)

Command(t) ==
  \/ \E i \in Inputs :
       \/ EnqueueTurn(t, i)
       \/ SendTurn(t, i)
       \/ SteerTurn(t, i)
       \/ InjectContext(t, i)
       \/ DeleteInboxInput(t, i)
       \/ DeleteQueuedTurn(t, i)
       \/ InterruptForQueued(t, i)
       \/ ResumeQueuedTurn(t, i)
  \/ \E q, target \in Inputs, after \in BOOLEAN : MoveQueuedTurn(t, q, target, after)
  \/ StopTurn(t)
  \/ DeleteThreadCheck(t)
  \/ DeleteThreadCommit(t)

LockedStep(t) ==
  \/ StartRejected(t)
  \/ \E r \in Runs, steering \in BOOLEAN : ReserveSlot(t, r, steering)
  \/ RecordRun(t)
  \/ LaunchRun(t)
  \/ LaunchFailed(t)
  \/ FinishRecord(t)
  \/ FinishRetarget(t)
  \/ FinishRelease(t)
  \/ FinishStartNext(t)
  \/ FinishPanics(t)

TaskStep(r) ==
  \/ BeginRun(r)
  \/ ClaimStepInputs(r) \/ DeliverStepInputs(r)
  \/ \E outcome \in {"completed", "failed", "cancelled"} \X BOOLEAN : EndRun(r, outcome)
  \/ PanicRun(r)
  \/ BeginFinish(r)

Process == ShutdownClear \/ ShutdownStop \/ ShutdownTimeout \/ Restart

Next ==
  \/ \E t \in Threads : Command(t) \/ LockedStep(t)
  \/ \E r \in Runs : TaskStep(r)
  \/ Process

Spec == Init /\ [][Next]_vars

-----------------------------------------------------------------------------
(* Fairness.  A thread's lock is a tokio mutex, which hands itself over in *)
(* FIFO order, so a finishing run gets it even while commands keep taking  *)
(* it (SF); the holder never waits for anything (WF); a spawned task is    *)
(* polled and a stopped one leaves its select loop (WF).  Nothing is       *)
(* assumed of runs that are not stopped, of clients, or of the process.    *)

StoppedRunEnds(r) ==
  /\ active[task[r].thread].stop
  /\ \E outcome \in {"completed", "failed", "cancelled"} \X BOOLEAN : EndRun(r, outcome)

Fairness ==
  /\ \A t \in Threads : WF_vars(LockedStep(t))
  /\ \A r \in Runs : /\ WF_vars(BeginRun(r))
                     /\ WF_vars(task[r].thread # NoThread /\ StoppedRunEnds(r))
                     /\ SF_vars(BeginFinish(r))

FairSpec == Spec /\ Fairness

-----------------------------------------------------------------------------
(* Properties.                                                             *)

\* An unfinished run record belongs to the run that holds its thread's slot, so
\* a thread never has two unfinished runs and no dead run is listed as active;
\* a finished record never reads as unfinished, except after the reconciliation
\* of a shutdown that timed out under a task that had not begun yet.
SlotOwnsUnfinishedRun ==
  \A r \in Runs : runs[r].status \in Nonterminal =>
     IF runs[r].completed THEN closing = "timedout" ELSE active[runs[r].thread].run = r

\* A run's task works only while its run holds its thread's slot: two tasks never
\* work on one thread, although a guard may still finish a run whose slot the next
\* run has taken (release_active_run compares the ids).
WorkingTaskHoldsSlot ==
  \A r \in Runs : task[r].pc \in {"spawned", "running"} => active[task[r].thread].run = r

\* A pending steer always targets the run that holds its thread's slot and can
\* still claim it: completion turns unclaimed steers into queued turns before
\* it frees the slot (finish_run, control_retarget_pending_steers).
SteersTargetLiveRun ==
  \A i \in Inputs : inbox[i].state = "pending" /\ inbox[i].kind = "steer" =>
     /\ active[inbox[i].thread].run = inbox[i].target
     /\ active[inbox[i].thread].steering

\* An accepted interruption is never left behind: as long as it is recorded, the
\* thread has an active run that has been told to stop, or that run's finish is
\* about to take it (resume_queued_turn against finish_run and shutdown).  The
\* exception is a panic of finish_run between the slot and the interruption.
InterruptStopsActiveRun ==
  \A t \in Threads : queue_interrupts[t] # NoInput =>
     \/ Busy(t) /\ active[t].stop
     \/ op[t].pc = "next"
     \/ t \in stranded

\* No input reaches two runs: not as a turn twice (a failed start re-queues it),
\* not as a step input and then as a turn (a claim against a retarget).
HandedOverOnce ==
  \A i \in Inputs : \A r, s \in delivered[i] : r = s

\* A claimed inbox row is in the lock holder's or a step's hands, was handed to a
\* run, or is named by a run record.  Only an exit between the claim and the run
\* record (start_queued_turn), or an exit or the run's end between the claim and
\* the request of its step (prepare_model_step), can drop it.
ClaimedInputsAccountedFor ==
  \A i \in Inputs : inbox[i].state = "claimed" =>
     \/ delivered[i] # {}
     \/ \E t \in Threads : op[t].input = i
     \/ \E r \in Runs : runs[r].input = i \/ i \in held[r]
     \/ i \in lost

\* A terminal status is never replaced (a guard finishing after a panic, a late
\* BeginRun), outside the window a timed-out shutdown opens; deleting the
\* thread removes the record.
TerminalStatusIsFinal ==
  [][\A r \in Runs : runs[r].status \in Terminal /\ closing # "timedout"
        => runs'[r].status \in {runs[r].status, "none"}]_vars

\* A run that has been told to stop gives its thread's slot back.
StoppedRunsReleaseTheirThread ==
  \A t \in Threads, r \in Runs :
     (active[t].run = r /\ active[t].stop) ~> (active[t].run # r)

\* What finish_run's comment promises: a run that ends with `drain` leaves its
\* thread with an empty queue or with the next queued turn being started.
FinishedRunDrainsQueue ==
  [][\A t \in Threads :
       op[t].pc = "next" /\ task[op[t].run].drain /\ task'[op[t].run].pc = "done"
       => Queued(t) = {} \/ op'[t].pc = "start"]_vars


=============================================================================
