------------------------- MODULE RunLifecycleProofs -------------------------
(***************************************************************************)
(* Proofs about RunLifecycle, for any sets of threads, runs and inputs:    *)
(* its types, the slot of a thread (an unfinished run record belongs to    *)
(* the run in its thread's slot, and a terminal status stays) and its      *)
(* inbox (further below).                                                  *)
(*                                                                         *)
(* What is said of the slot is not inductive.  SlotInv adds what the lock  *)
(* holder, the task and the slot know of each other: who is starting a run *)
(* holds its slot and the run has no task yet; a working task holds its    *)
(* thread's slot, and one at its end has lost it only with its record      *)
(* closed; a taken slot has such a starter or such a task; no run holds    *)
(* two slots.                                                              *)
(***************************************************************************)
EXTENDS RunLifecycle, TLAPS

USE DEF history

-----------------------------------------------------------------------------
(* Type correctness.  The updates of a record stay in its record set; the  *)
(* record sets are then opaque in the proof that steps preserve TypeOK.    *)

\* The records that stand for "nothing here".
LEMMA NullRecordTypes ==
  /\ NoRecord \in RunRecord
  /\ NoRow \in InboxRecord
  /\ NoActive \in ActiveRun
  /\ Free \in OpRecord
  /\ NoTask \in TaskRecord
  BY DEF NoRecord, NoRow, NoActive, Free, NoTask, RunRecord, InboxRecord, ActiveRun,
         OpRecord, TaskRecord

\* The writes to a run record: run_turn's, and the terminal ones.
LEMMA RunUpdate ==
  ASSUME NEW x \in RunRecord
  PROVE  /\ [x EXCEPT !.status = "running"] \in RunRecord
         /\ \A s \in {"none", "completed", "failed", "cancelled", "interrupted"} :
               [x EXCEPT !.status = s, !.completed = TRUE] \in RunRecord
  BY DEF RunRecord, Nonterminal, Terminal

\* The record launch_turn writes.
LEMMA RunAccepted ==
  ASSUME NEW t \in Threads, NEW i \in Inputs \cup {NoInput}
  PROVE  [status |-> "accepted", completed |-> FALSE, thread |-> t, input |-> i] \in RunRecord
  BY DEF RunRecord, Nonterminal

\* The state changes of an inbox row and the retargeting of a steer.
LEMMA InboxUpdate ==
  ASSUME NEW x \in InboxRecord
  PROVE  /\ \A s \in {"pending", "claimed", "cancelled"} : [x EXCEPT !.state = s] \in InboxRecord
         /\ [x EXCEPT !.kind = "followup", !.target = NoRun] \in InboxRecord
  BY DEF InboxRecord

\* A new inbox row.
LEMMA InboxInsert ==
  ASSUME NEW t \in Threads, NEW kind \in {"followup", "steer", "inject"},
         NEW r \in Runs \cup {NoRun}
  PROVE  [state |-> "pending", kind |-> kind, thread |-> t, target |-> r] \in InboxRecord
  BY DEF InboxRecord

\* Stopping a run and filling a slot.
LEMMA ActiveUpdate ==
  /\ \A x \in ActiveRun : [x EXCEPT !.stop = TRUE] \in ActiveRun /\ x.run \in Runs \cup {NoRun}
  /\ \A r \in Runs, s \in BOOLEAN : [run |-> r, steering |-> s, stop |-> FALSE] \in ActiveRun
  BY DEF ActiveRun

\* The moves of a lock holder.
LEMMA OpUpdate ==
  /\ \A x \in OpRecord :
       /\ x.pc \in {"record", "project"} => x.run \in Runs /\ x.input \in Inputs
       /\ x.pc = "start" => x.input \in Inputs
       /\ x.pc \in {"finish", "retarget", "release", "next"} => x.run \in Runs
       /\ x.pc = "record" => [x EXCEPT !.pc = "project"] \in OpRecord
       /\ x.pc = "finish" => [x EXCEPT !.pc = "retarget"] \in OpRecord
       /\ x.pc = "retarget" => [x EXCEPT !.pc = "release"] \in OpRecord
       /\ x.pc = "release" => [x EXCEPT !.pc = "next"] \in OpRecord
       /\ x.pc = "start" => \A r \in Runs : [x EXCEPT !.pc = "record", !.run = r] \in OpRecord
  /\ \A i \in Inputs : /\ [Free EXCEPT !.pc = "start", !.input = i] \in OpRecord
                       /\ [Free EXCEPT !.pc = "start", !.input = i, !.queued = TRUE] \in OpRecord
  /\ \A r \in Runs : [Free EXCEPT !.pc = "finish", !.run = r] \in OpRecord
<1>1. ASSUME NEW x \in OpRecord
      PROVE  /\ x.pc \in {"record", "project"} => x.run \in Runs /\ x.input \in Inputs
             /\ x.pc = "start" => x.input \in Inputs
             /\ x.pc \in {"finish", "retarget", "release", "next"} => x.run \in Runs
  BY DEF OpRecord
<1>2. ASSUME NEW x \in OpRecord, x.pc = "record" PROVE [x EXCEPT !.pc = "project"] \in OpRecord
  BY <1>2 DEF OpRecord
<1>3. ASSUME NEW x \in OpRecord, x.pc = "finish" PROVE [x EXCEPT !.pc = "retarget"] \in OpRecord
  BY <1>3 DEF OpRecord
<1>4. ASSUME NEW x \in OpRecord, x.pc = "retarget" PROVE [x EXCEPT !.pc = "release"] \in OpRecord
  BY <1>4 DEF OpRecord
<1>5. ASSUME NEW x \in OpRecord, x.pc = "start", NEW r \in Runs
      PROVE  [x EXCEPT !.pc = "record", !.run = r] \in OpRecord
  BY <1>5 DEF OpRecord
<1>8. ASSUME NEW x \in OpRecord, x.pc = "release" PROVE [x EXCEPT !.pc = "next"] \in OpRecord
  BY <1>8 DEF OpRecord
<1>6. ASSUME NEW i \in Inputs
      PROVE  /\ [Free EXCEPT !.pc = "start", !.input = i] \in OpRecord
             /\ [Free EXCEPT !.pc = "start", !.input = i, !.queued = TRUE] \in OpRecord
  BY DEF OpRecord, Free
<1>7. ASSUME NEW r \in Runs PROVE [Free EXCEPT !.pc = "finish", !.run = r] \in OpRecord
  BY DEF OpRecord, Free
<1> QED
  BY <1>1, <1>2, <1>3, <1>4, <1>5, <1>6, <1>7, <1>8

\* The moves of a task.
LEMMA TaskUpdate ==
  /\ \A x \in TaskRecord : /\ x.status \in {"none", "completed", "failed", "cancelled"}
                          /\ [x EXCEPT !.pc = "running"] \in TaskRecord
                          /\ [x EXCEPT !.pc = "done"] \in TaskRecord
                          /\ Ended(x, "guarding", "failed", TRUE) \in TaskRecord
  /\ \A x \in TaskRecord, s \in {"completed", "failed", "cancelled"}, d \in BOOLEAN :
        Ended(x, "finishing", s, d) \in TaskRecord
  /\ \A t \in Threads : [NoTask EXCEPT !.pc = "spawned", !.thread = t] \in TaskRecord
  BY DEF TaskRecord, NoTask, Ended

\* control_put_inbox keeps the inbox and its order well typed.
LEMMA PutInboxType ==
  ASSUME TypeOK, NEW t \in Threads, NEW i \in Inputs, NEW kind \in {"followup", "steer", "inject"},
         NEW r \in Runs \cup {NoRun}, PutInbox(t, i, kind, r)
  PROVE  inbox' \in [Inputs -> InboxRecord] /\ before' \in SUBSET (Inputs \X Inputs)
<1>1. inbox' \in [Inputs -> InboxRecord]
  BY InboxInsert DEF TypeOK, PutInbox
<1>2. before' \in SUBSET (Inputs \X Inputs)
  BY DEF TypeOK, PutInbox
<1> QED
  BY <1>1, <1>2

\* Every step of the run manager preserves TypeOK.
LEMMA TypeStep == ASSUME TypeOK, [Next]_vars PROVE TypeOK'
<1>1. ASSUME NEW t \in Threads, NEW i \in Inputs, EnqueueTurn(t, i) PROVE TypeOK'
  BY <1>1, PutInboxType DEF TypeOK, EnqueueTurn, volatile
<1>2. ASSUME NEW t \in Threads, NEW i \in Inputs, SendTurn(t, i) PROVE TypeOK'
  BY <1>2, NullRecordTypes, OpUpdate DEF TypeOK, SendTurn, durable
<1>3. ASSUME NEW t \in Threads, NEW i \in Inputs, SteerTurn(t, i) PROVE TypeOK'
  BY <1>3, PutInboxType, ActiveUpdate DEF TypeOK, SteerTurn, volatile
<1>4. ASSUME NEW t \in Threads, NEW i \in Inputs, InjectContext(t, i) PROVE TypeOK'
  BY <1>4, PutInboxType DEF TypeOK, InjectContext, volatile
<1>5. ASSUME NEW t \in Threads, NEW i \in Inputs, DeleteInboxInput(t, i) PROVE TypeOK'
  BY <1>5, InboxUpdate DEF TypeOK, DeleteInboxInput, CancelInbox, volatile
<1>6. ASSUME NEW t \in Threads, NEW i \in Inputs, DeleteQueuedTurn(t, i) PROVE TypeOK'
  BY <1>6, InboxUpdate DEF TypeOK, DeleteQueuedTurn, CancelInbox, volatile
<1>7. ASSUME NEW t \in Threads, NEW i \in Inputs, InterruptForQueued(t, i) PROVE TypeOK'
  BY <1>7, ActiveUpdate DEF TypeOK, InterruptForQueued, durable
<1>8. ASSUME NEW t \in Threads, NEW i \in Inputs, ResumeQueuedTurn(t, i) PROVE TypeOK'
  BY <1>8, NullRecordTypes, OpUpdate, InboxUpdate DEF TypeOK, ResumeQueuedTurn, ClaimQueued
<1>9. ASSUME NEW t \in Threads, NEW q \in Inputs, NEW target \in Inputs, NEW after \in BOOLEAN,
            MoveQueuedTurn(t, q, target, after) PROVE TypeOK'
  <2>1. MovedBefore(t, q, target, after) \in SUBSET (Inputs \X Inputs)
    BY DEF MovedBefore
  <2> QED
    BY <1>9, <2>1 DEF TypeOK, MoveQueuedTurn, volatile
<1>10. ASSUME NEW t \in Threads, StopTurn(t) PROVE TypeOK'
  BY <1>10, ActiveUpdate DEF TypeOK, StopTurn, durable
<1>11. ASSUME NEW t \in Threads, DeleteThreadCheck(t) PROVE TypeOK'
  BY <1>11 DEF TypeOK, DeleteThreadCheck, durable
<1>12. ASSUME NEW t \in Threads, DeleteThreadCommit(t) PROVE TypeOK'
  BY <1>12, NullRecordTypes, OpUpdate DEF TypeOK, DeleteThreadCommit
<1>13. ASSUME NEW t \in Threads, StartRejected(t) PROVE TypeOK'
  BY <1>13, NullRecordTypes, OpUpdate, InboxUpdate DEF TypeOK, StartRejected, StartFailed
<1>14. ASSUME NEW t \in Threads, NEW r \in Runs, NEW steering \in BOOLEAN, ReserveSlot(t, r, steering) PROVE TypeOK'
  BY <1>14, NullRecordTypes, OpUpdate, ActiveUpdate DEF TypeOK, ReserveSlot, durable
<1>15. ASSUME NEW t \in Threads, RecordRun(t) PROVE TypeOK'
  BY <1>15, NullRecordTypes, OpUpdate, RunAccepted DEF TypeOK, RecordRun
<1>16. ASSUME NEW t \in Threads, LaunchRun(t) PROVE TypeOK'
  <2>1. op[t] \in OpRecord /\ op[t].run \in Runs /\ op[t].input \in Inputs
    BY <1>16, OpUpdate DEF TypeOK, LaunchRun
  <2>2. task' \in [Runs -> TaskRecord] /\ op' \in [Threads -> OpRecord]
    BY <1>16, NullRecordTypes, TaskUpdate DEF TypeOK, LaunchRun
  <2>3. delivered' \in [Inputs -> SUBSET Runs]
    BY <1>16, <2>1 DEF TypeOK, LaunchRun
  <2> QED
    BY <1>16, <2>2, <2>3 DEF TypeOK, LaunchRun, durable
<1>17. ASSUME NEW t \in Threads, LaunchFailed(t) PROVE TypeOK'
  BY <1>17, NullRecordTypes, OpUpdate, InboxUpdate, RunUpdate DEF TypeOK, LaunchFailed, StartFailed
<1>18. ASSUME NEW t \in Threads, FinishRecord(t) PROVE TypeOK'
  BY <1>18, NullRecordTypes, OpUpdate, RunUpdate, TaskUpdate DEF TypeOK, FinishRecord
<1>19. ASSUME NEW t \in Threads, FinishRetarget(t) PROVE TypeOK'
  BY <1>19, NullRecordTypes, OpUpdate, InboxUpdate DEF TypeOK, FinishRetarget
<1>20. ASSUME NEW t \in Threads, FinishPanics(t) PROVE TypeOK'
  BY <1>20, NullRecordTypes, OpUpdate, TaskUpdate DEF TypeOK, FinishPanics, durable
<1>21. ASSUME NEW t \in Threads, FinishRelease(t) PROVE TypeOK'
  <2>1. op[t].pc = "release" /\ op[t] \in OpRecord /\ op[t].run \in Runs
    BY <1>21, OpUpdate DEF TypeOK, FinishRelease
  <2>2. CASE active[t].run = op[t].run
    BY <1>21, <2>1, <2>2, NullRecordTypes, OpUpdate DEF TypeOK, FinishRelease, durable
  <2>3. CASE active[t].run # op[t].run
    <3>1. op' \in [Threads -> OpRecord] /\ UNCHANGED active
      BY <1>21, <2>3, NullRecordTypes DEF TypeOK, FinishRelease
    <3>2. task' \in [Runs -> TaskRecord]
      <4>1. task' = [task EXCEPT ![op[t].run] = [@ EXCEPT !.pc = "done"]]
        BY <1>21, <2>3 DEF FinishRelease
      <4>2. task \in [Runs -> TaskRecord] /\ [task[op[t].run] EXCEPT !.pc = "done"] \in TaskRecord
        BY <2>1, TaskUpdate DEF TypeOK
      <4> QED
        BY <2>1, <4>1, <4>2
    <3> QED
      BY <1>21, <3>1, <3>2 DEF TypeOK, FinishRelease, durable
  <2> QED
    BY <2>2, <2>3
<1>36. ASSUME NEW t \in Threads, FinishStartNext(t) PROVE TypeOK'
  <2>1. task' \in [Runs -> TaskRecord]
    BY <1>36, OpUpdate, TaskUpdate DEF TypeOK, FinishStartNext
  <2>2. queue_interrupts' \in [Threads -> Inputs \cup {NoInput}] /\ stranded' \in SUBSET Threads
    BY <1>36 DEF TypeOK, FinishStartNext
  <2>3. \A q \in NextTurns(t) : q \in Inputs
    BY DEF NextTurns, Queued, Pending
  <2>4. inbox' \in [Inputs -> InboxRecord] /\ op' \in [Threads -> OpRecord]
    <3>1. ASSUME NEW q \in NextTurns(t), ClaimQueued(t, q)
          PROVE  inbox' \in [Inputs -> InboxRecord] /\ op' \in [Threads -> OpRecord]
      BY <2>3, <3>1, InboxUpdate, OpUpdate DEF TypeOK, ClaimQueued
    <3>2. CASE op' = [op EXCEPT ![t] = Free] /\ UNCHANGED inbox
      BY <3>2, NullRecordTypes DEF TypeOK
    <3> QED
      BY <1>36, <3>1, <3>2 DEF FinishStartNext
  <2> QED
    BY <1>36, <2>1, <2>2, <2>4 DEF TypeOK, FinishStartNext
<1>22. ASSUME NEW r \in Runs, BeginRun(r) PROVE TypeOK'
  <2>1. task[r] \in TaskRecord /\ runs[r] \in RunRecord
    BY DEF TypeOK
  <2>2. CASE runs[r].status = "none"
    BY <1>22, <2>1, <2>2, TaskUpdate DEF TypeOK, BeginRun
  <2>3. CASE runs[r].status # "none"
    BY <1>22, <2>1, <2>3, TaskUpdate, RunUpdate DEF TypeOK, BeginRun
  <2> QED
    BY <2>2, <2>3
<1>23. ASSUME NEW r \in Runs, ClaimStepInputs(r) PROVE TypeOK'
  <2>1. StepInputs(r) \subseteq Inputs
    BY DEF StepInputs, Pending
  <2>2. inbox' \in [Inputs -> InboxRecord] /\ held' \in [Runs -> SUBSET Inputs]
    BY <1>23, <2>1, InboxUpdate DEF TypeOK, ClaimStepInputs
  <2> QED
    BY <1>23, <2>2 DEF TypeOK, ClaimStepInputs
<1>37. ASSUME NEW r \in Runs, DeliverStepInputs(r) PROVE TypeOK'
  <2>1. delivered' \in [Inputs -> SUBSET Runs] /\ held' \in [Runs -> SUBSET Inputs]
    BY <1>37 DEF TypeOK, DeliverStepInputs
  <2> QED
    BY <1>37, <2>1 DEF TypeOK, DeliverStepInputs, durable
<1>24. ASSUME NEW r \in Runs, NEW outcome \in {"completed", "failed", "cancelled"} \X BOOLEAN,
            EndRun(r, outcome) PROVE TypeOK'
  BY <1>24, TaskUpdate DEF TypeOK, EndRun, DropStepInputs, durable
<1>25. ASSUME NEW r \in Runs, PanicRun(r) PROVE TypeOK'
  BY <1>25, TaskUpdate DEF TypeOK, PanicRun, DropStepInputs, durable
<1>26. ASSUME NEW r \in Runs, BeginFinish(r) PROVE TypeOK'
  BY <1>26, NullRecordTypes, OpUpdate DEF TypeOK, BeginFinish, durable
<1>27. ASSUME ShutdownClear PROVE TypeOK'
  BY <1>27 DEF TypeOK, ShutdownClear, durable
<1>28. ASSUME ShutdownStop PROVE TypeOK'
  BY <1>28, ActiveUpdate DEF TypeOK, ShutdownStop, durable
<1>29. ASSUME ShutdownTimeout PROVE TypeOK'
  BY <1>29, InboxUpdate, RunUpdate DEF TypeOK, ShutdownTimeout, Reconcile
<1>30. ASSUME Restart PROVE TypeOK'
  BY <1>30, NullRecordTypes, OpUpdate, InboxUpdate, RunUpdate DEF TypeOK, Restart, Reconcile
<1>31. ASSUME UNCHANGED vars PROVE TypeOK'
  BY <1>31 DEF TypeOK, vars, durable, volatile
<1>32. ASSUME NEW t \in Threads, Command(t) PROVE TypeOK'
  BY <1>32, <1>1, <1>2, <1>3, <1>4, <1>5, <1>6, <1>7, <1>8, <1>9, <1>10, <1>11, <1>12 DEF Command
<1>33. ASSUME NEW t \in Threads, LockedStep(t) PROVE TypeOK'
  BY <1>33, <1>13, <1>14, <1>15, <1>16, <1>17, <1>18, <1>19, <1>21, <1>20, <1>36 DEF LockedStep
<1>34. ASSUME NEW r \in Runs, TaskStep(r) PROVE TypeOK'
  BY <1>34, <1>22, <1>23, <1>24, <1>25, <1>26, <1>37 DEF TaskStep
<1>35. ASSUME Process PROVE TypeOK'
  BY <1>35, <1>27, <1>28, <1>29, <1>30 DEF Process
<1> QED
  BY <1>31, <1>32, <1>33, <1>34, <1>35 DEF Next

\* Every reachable state of the run manager is well typed.
THEOREM TypeCorrect == Spec => []TypeOK
<1>1. Init => TypeOK
  BY NullRecordTypes DEF Init, TypeOK
<1>2. TypeOK /\ [Next]_vars => TypeOK'
  BY TypeStep
<1> QED
  BY <1>1, <1>2, PTL DEF Spec

-----------------------------------------------------------------------------
(* The slot of a thread.                                                   *)

\* A task that has not given its thread back.
Live == {"spawned", "running", "finishing", "guarding"}
Starting == {"record", "project"}
Finishing == {"finish", "retarget", "release", "next"}
Unfinished(r) == runs[r].status \in Nonterminal /\ ~runs[r].completed

\* A lock holder in start_turn: before it reserves the slot the slot is free,
\* afterwards the slot is its run's and the run has no task; the record appears
\* with control_put_run and only a timed-out shutdown can have completed it.
SlotStart ==
  \A t \in Threads :
    /\ op[t].pc = "start" => active[t].run = NoRun
    /\ op[t].pc \in Starting => active[t].run = op[t].run /\ task[op[t].run].pc = "none"
    /\ op[t].pc = "record" => runs[op[t].run].status = "none" /\ ~runs[op[t].run].completed
    /\ op[t].pc = "project" /\ runs[op[t].run].completed => closing = "timedout"

\* A lock holder in finish_run works for a task that is waiting for it, past
\* FinishRecord the run's record is no longer unfinished, and past FinishRelease
\* the slot is free.
SlotFinish ==
  \A t \in Threads :
    /\ op[t].pc \in Finishing => /\ task[op[t].run].pc \in {"finishing", "guarding"}
                                /\ task[op[t].run].thread = t
    /\ op[t].pc \in {"retarget", "release", "next"} => ~Unfinished(op[t].run)
    /\ op[t].pc = "next" => active[t].run = NoRun

\* A working task holds its thread's slot; one at its end carries a terminal status
\* and has lost the slot only if its record is no longer unfinished.
SlotTask ==
  \A r \in Runs :
    /\ task[r].pc \in Live => task[r].thread \in Threads
    /\ task[r].pc \in {"spawned", "running"} => active[task[r].thread].run = r
    /\ task[r].pc \in {"finishing", "guarding"} => active[task[r].thread].run = r \/ ~Unfinished(r)
    /\ task[r].pc \in {"finishing", "guarding"} => task[r].status \in Terminal
    /\ task[r].pc = "spawned" /\ runs[r].completed => closing = "timedout"

\* A taken slot is being filled by the lock holder or belongs to a live task.
SlotActive ==
  \A t \in Threads : active[t].run # NoRun =>
     \/ op[t].pc \in Starting /\ op[t].run = active[t].run
     \/ task[active[t].run].pc \in Live /\ task[active[t].run].thread = t

\* No run holds the slots of two threads.
SlotUnique ==
  \A t, u \in Threads : active[t].run = active[u].run /\ active[t].run # NoRun => t = u

\* Terminal statuses come with completed_at, unfinished ones with the slot.
SlotRun ==
  \A r \in Runs :
    /\ runs[r].status \in Terminal => runs[r].completed
    /\ runs[r].status \in Nonterminal /\ runs[r].completed => closing = "timedout"
    /\ Unfinished(r) => runs[r].thread \in Threads /\ active[runs[r].thread].run = r

SlotInv == SlotStart /\ SlotFinish /\ SlotTask /\ SlotActive /\ SlotUnique /\ SlotRun

\* What the fields of a well-typed state range over.
LEMMA Fields ==
  ASSUME TypeOK
  PROVE  /\ \A t \in Threads :
              /\ op[t].pc \in {"free", "start"} \cup Starting \cup Finishing
              /\ op[t].pc \in Starting \cup Finishing => op[t].run \in Runs
              /\ op[t].pc \in {"free", "start"} => op[t].run = NoRun
              /\ active[t].run \in Runs \cup {NoRun}
         /\ \A r \in Runs :
              /\ runs[r].status \in {"none"} \cup Nonterminal \cup Terminal
              /\ runs[r].completed \in BOOLEAN
              /\ task[r].pc \in {"none", "done"} \cup Live
<1>1. \A t \in Threads :
              /\ op[t].pc \in {"free", "start"} \cup Starting \cup Finishing
              /\ op[t].pc \in Starting \cup Finishing => op[t].run \in Runs
              /\ op[t].pc \in {"free", "start"} => op[t].run = NoRun
  BY DEF TypeOK, OpRecord, Starting, Finishing
<1>2. \A t \in Threads : active[t].run \in Runs \cup {NoRun}
  BY DEF TypeOK, ActiveRun
<1>3. \A r \in Runs :
              /\ runs[r].status \in {"none"} \cup Nonterminal \cup Terminal
              /\ runs[r].completed \in BOOLEAN
              /\ task[r].pc \in {"none", "done"} \cup Live
  BY DEF TypeOK, RunRecord, TaskRecord, Live
<1> QED
  BY <1>1, <1>2, <1>3

\* The lock of t passes to pc, working on run; other locks are untouched.
OpMoves(t, pc, run) ==
  /\ op'[t].pc = pc /\ op'[t].run = run
  /\ \A u \in Threads \ {t} : op'[u] = op[u]

\* What the assignments to op in the actions do.
LEMMA OpEffects ==
  ASSUME TypeOK, NEW t \in Threads
  PROVE  /\ op' = [op EXCEPT ![t] = Free] => OpMoves(t, "free", NoRun)
         /\ \A i : op' = [op EXCEPT ![t] = [Free EXCEPT !.pc = "start", !.input = i]]
                     => OpMoves(t, "start", NoRun)
         /\ \A q : op' = [op EXCEPT ![t] = [Free EXCEPT !.pc = "start", !.input = q, !.queued = TRUE]]
                     => OpMoves(t, "start", NoRun)
         /\ \A r \in Runs :
              /\ op' = [op EXCEPT ![t] = [Free EXCEPT !.pc = "finish", !.run = r]]
                     => OpMoves(t, "finish", r)
              /\ op' = [op EXCEPT ![t] = [@ EXCEPT !.pc = "record", !.run = r]]
                     => OpMoves(t, "record", r)
         /\ \A pc \in {"project", "retarget", "release", "next"} :
              op' = [op EXCEPT ![t] = [@ EXCEPT !.pc = pc]] => OpMoves(t, pc, op[t].run)
<1>1. /\ DOMAIN op = Threads
      /\ DOMAIN op[t] = {"pc", "run", "input", "queued"}
  BY DEF TypeOK, OpRecord
<1>2. ASSUME NEW x, op' = [op EXCEPT ![t] = x]
      PROVE  op'[t] = x /\ \A u \in Threads \ {t} : op'[u] = op[u]
  BY <1>1, <1>2
<1>3. ASSUME op' = [op EXCEPT ![t] = Free] PROVE OpMoves(t, "free", NoRun)
  BY <1>2, <1>3 DEF OpMoves, Free
<1>4. ASSUME NEW i, op' = [op EXCEPT ![t] = [Free EXCEPT !.pc = "start", !.input = i]]
      PROVE  OpMoves(t, "start", NoRun)
  BY <1>2, <1>4 DEF OpMoves, Free
<1>5. ASSUME NEW q,
             op' = [op EXCEPT ![t] = [Free EXCEPT !.pc = "start", !.input = q, !.queued = TRUE]]
      PROVE  OpMoves(t, "start", NoRun)
  BY <1>2, <1>5 DEF OpMoves, Free
<1>6. ASSUME NEW r \in Runs, op' = [op EXCEPT ![t] = [Free EXCEPT !.pc = "finish", !.run = r]]
      PROVE  OpMoves(t, "finish", r)
  BY <1>2, <1>6 DEF OpMoves, Free
<1>7. ASSUME NEW r \in Runs, op' = [op EXCEPT ![t] = [@ EXCEPT !.pc = "record", !.run = r]]
      PROVE  OpMoves(t, "record", r)
  BY <1>1, <1>2, <1>7 DEF OpMoves
<1>8. ASSUME NEW pc \in {"project", "retarget", "release", "next"},
             op' = [op EXCEPT ![t] = [@ EXCEPT !.pc = pc]]
      PROVE  OpMoves(t, pc, op[t].run)
  BY <1>1, <1>2, <1>8 DEF OpMoves
<1> QED
  BY <1>3, <1>4, <1>5, <1>6, <1>7, <1>8

\* The task of r moves on, or ends with a status; other tasks are untouched.
TaskMoves(r, pc) ==
  /\ task'[r].pc = pc /\ task'[r].thread = task[r].thread /\ task'[r].status = task[r].status
  /\ \A s \in Runs \ {r} : task'[s] = task[s]

TaskEnds(r, pc, status) ==
  /\ task'[r].pc = pc /\ task'[r].thread = task[r].thread /\ task'[r].status = status
  /\ \A s \in Runs \ {r} : task'[s] = task[s]

\* What the assignments to task in the actions do.
LEMMA TaskEffects ==
  ASSUME TypeOK, NEW r \in Runs
  PROVE  /\ \A pc \in {"running", "done"} :
              task' = [task EXCEPT ![r] = [@ EXCEPT !.pc = pc]] => TaskMoves(r, pc)
         /\ \A pc \in {"finishing", "guarding"} : \A s, d :
              task' = [task EXCEPT ![r] = Ended(@, pc, s, d)] => TaskEnds(r, pc, s)
<1>1. /\ DOMAIN task = Runs
      /\ DOMAIN task[r] = {"pc", "thread", "status", "drain"}
  BY DEF TypeOK, TaskRecord
<1> QED
  BY <1>1 DEF TaskMoves, TaskEnds, Ended

\* The record of r gets a status; other records are untouched.
RunMoves(r, status, completed) ==
  /\ runs'[r].status = status /\ runs'[r].completed = completed
  /\ runs'[r].thread = runs[r].thread
  /\ \A s \in Runs \ {r} : runs'[s] = runs[s]

\* What the writes of run_turn and of finish_run do to a run record.
LEMMA RunEffects ==
  ASSUME TypeOK, NEW r \in Runs
  PROVE  /\ runs' = [runs EXCEPT ![r] = [@ EXCEPT !.status = "running"]]
              => RunMoves(r, "running", runs[r].completed)
         /\ \A s : runs' = [runs EXCEPT ![r] = [@ EXCEPT !.status = s, !.completed = TRUE]]
              => RunMoves(r, s, TRUE)
<1>1. /\ DOMAIN runs = Runs
      /\ DOMAIN runs[r] = {"status", "completed", "thread", "input"}
  BY DEF TypeOK, RunRecord
<1> QED
  BY <1>1 DEF RunMoves

\* A step that leaves the run records, the lock holders and the tasks alone,
\* and moves no run in or out of a slot.
LEMMA SlotFrame ==
  ASSUME SlotInv, UNCHANGED <<runs, op, task>>, closing = "timedout" => closing' = "timedout",
         \A t \in Threads : active'[t].run = active[t].run
  PROVE  SlotInv'
<1>1. SlotStart' /\ SlotActive' /\ SlotUnique'
  BY DEF SlotInv, SlotStart, SlotActive, SlotUnique, SlotTask
<1>2. SlotFinish' /\ SlotTask' /\ SlotRun'
  BY DEF SlotInv, SlotFinish, SlotTask, SlotRun, Unfinished, Live
<1> QED
  BY <1>1, <1>2 DEF SlotInv

\* SlotInv after SendTurn: its effect on the slot's variables, then each conjunct.
LEMMA SlotSendTurn ==
  ASSUME TypeOK, SlotInv, NEW t \in Threads, NEW i \in Inputs,
         SendTurn(t, i)
  PROVE  SlotInv'
<1>e. /\ OpMoves(t, "start", NoRun)
      /\ op[t].pc = "free" /\ active[t].run = NoRun
      /\ UNCHANGED <<runs, active, task, closing>>
  BY OpEffects DEF SendTurn, LockFree, Busy, durable
<1>1. SlotStart'
  BY <1>e DEF SlotInv, SlotStart, Starting, OpMoves
<1>2. SlotFinish'
  BY <1>e DEF SlotInv, SlotFinish, Finishing, Unfinished, OpMoves
<1>3. SlotTask'
  BY <1>e DEF SlotInv, SlotTask, Live, Unfinished, OpMoves
<1>4. SlotActive'
  BY <1>e DEF SlotInv, SlotActive, Starting, Live, OpMoves
<1>5. SlotUnique'
  BY <1>e DEF SlotInv, SlotUnique, OpMoves
<1>6. SlotRun'
  BY <1>e DEF SlotInv, SlotRun, Unfinished, OpMoves
<1> QED
  BY <1>1, <1>2, <1>3, <1>4, <1>5, <1>6 DEF SlotInv

\* SlotInv after ResumeQueuedTurn: its effect on the slot's variables, then each conjunct.
LEMMA SlotResumeQueuedTurn ==
  ASSUME TypeOK, SlotInv, NEW t \in Threads, NEW i \in Inputs,
         ResumeQueuedTurn(t, i)
  PROVE  SlotInv'
<1>e. /\ OpMoves(t, "start", NoRun)
      /\ op[t].pc = "free" /\ active[t].run = NoRun
      /\ UNCHANGED <<runs, active, task, closing>>
  BY OpEffects DEF ResumeQueuedTurn, LockFree, Busy, ClaimQueued
<1>1. SlotStart'
  BY <1>e DEF SlotInv, SlotStart, Starting, OpMoves
<1>2. SlotFinish'
  BY <1>e DEF SlotInv, SlotFinish, Finishing, Unfinished, OpMoves
<1>3. SlotTask'
  BY <1>e DEF SlotInv, SlotTask, Live, Unfinished, OpMoves
<1>4. SlotActive'
  BY <1>e DEF SlotInv, SlotActive, Starting, Live, OpMoves
<1>5. SlotUnique'
  BY <1>e DEF SlotInv, SlotUnique, OpMoves
<1>6. SlotRun'
  BY <1>e DEF SlotInv, SlotRun, Unfinished, OpMoves
<1> QED
  BY <1>1, <1>2, <1>3, <1>4, <1>5, <1>6 DEF SlotInv

\* SlotInv after StartRejected: its effect on the slot's variables, then each conjunct.
LEMMA SlotStartRejected ==
  ASSUME TypeOK, SlotInv, NEW t \in Threads,
         StartRejected(t)
  PROVE  SlotInv'
<1>e. /\ OpMoves(t, "free", NoRun)
      /\ op[t].pc = "start"
      /\ UNCHANGED <<runs, active, task, closing>>
  BY OpEffects DEF StartRejected, StartFailed
<1>1. SlotStart'
  BY <1>e DEF SlotInv, SlotStart, Starting, OpMoves
<1>2. SlotFinish'
  BY <1>e DEF SlotInv, SlotFinish, Finishing, Unfinished, OpMoves
<1>3. SlotTask'
  BY <1>e DEF SlotInv, SlotTask, Live, Unfinished, OpMoves
<1>4. SlotActive'
  BY <1>e DEF SlotInv, SlotActive, Starting, Live, OpMoves
<1>5. SlotUnique'
  BY <1>e DEF SlotInv, SlotUnique, OpMoves
<1>6. SlotRun'
  BY <1>e DEF SlotInv, SlotRun, Unfinished, OpMoves
<1> QED
  BY <1>1, <1>2, <1>3, <1>4, <1>5, <1>6 DEF SlotInv

\* SlotInv after DeleteThreadCommit: its effect on the slot's variables, then each conjunct.
LEMMA SlotDeleteThreadCommit ==
  ASSUME TypeOK, SlotInv, NEW t \in Threads,
         DeleteThreadCommit(t)
  PROVE  SlotInv'
<1>e. /\ \A r \in Runs : \/ runs'[r].status = "none" /\ runs'[r].completed = FALSE
                         \/ runs'[r] = runs[r]
      /\ UNCHANGED <<active, op, task, closing>>
  BY DEF DeleteThreadCommit, NoRecord
<1>1. SlotStart'
  BY <1>e, Fields DEF SlotInv, SlotStart, SlotTask, Starting, Finishing, Live
<1>2. SlotFinish'
  BY <1>e, Fields DEF SlotInv, SlotFinish, SlotTask, SlotActive, Starting, Finishing, Live,
       Unfinished, Nonterminal, Terminal
<1>3. SlotTask'
  BY <1>e DEF SlotInv, SlotTask, Live, Unfinished, Nonterminal
<1>4. SlotActive'
  BY <1>e DEF SlotInv, SlotActive, Starting, Live
<1>5. SlotUnique'
  BY <1>e DEF SlotInv, SlotUnique
<1>6. SlotRun'
  BY <1>e DEF SlotInv, SlotRun, Unfinished, Nonterminal, Terminal
<1> QED
  BY <1>1, <1>2, <1>3, <1>4, <1>5, <1>6 DEF SlotInv

\* SlotInv after ReserveSlot: its effect on the slot's variables, then each conjunct.
LEMMA SlotReserveSlot ==
  ASSUME TypeOK, SlotInv, NEW t \in Threads, NEW r \in Runs, NEW steering \in BOOLEAN,
         ReserveSlot(t, r, steering)
  PROVE  SlotInv'
<1>e. /\ OpMoves(t, "record", r)
      /\ op[t].pc = "start" /\ \A u \in Threads : op[u].run # r
      /\ active[t].run = NoRun /\ active'[t].run = r /\ \A u \in Threads \ {t} : active'[u] = active[u]
      /\ runs[r].status = "none" /\ runs[r].completed = FALSE /\ task[r].pc = "none"
      /\ UNCHANGED <<runs, task, closing>>
  <2>1. OpMoves(t, "record", r)
    BY OpEffects DEF ReserveSlot
  <2>2. runs[r].status = "none" /\ runs[r].completed = FALSE /\ task[r].pc = "none"
    BY DEF ReserveSlot, FreshRun, NoRecord, NoTask
  <2>3. active[t].run = NoRun /\ active'[t].run = r /\ \A u \in Threads \ {t} : active'[u] = active[u]
    BY DEF ReserveSlot, Busy, TypeOK
  <2> QED
    BY <2>1, <2>2, <2>3 DEF ReserveSlot, FreshRun, durable
<1>1. SlotStart'
  BY <1>e DEF SlotInv, SlotStart, Starting, OpMoves
<1>2. SlotFinish'
  BY <1>e DEF SlotInv, SlotFinish, Finishing, Unfinished, OpMoves
<1>3. SlotTask'
  BY <1>e, Fields, ConstantsAssumption DEF SlotInv, SlotStart, SlotFinish, SlotTask,
       SlotActive, SlotRun, Starting, Finishing, Live, Unfinished, OpMoves
<1>4. SlotActive'
  BY <1>e DEF SlotInv, SlotActive, Starting, Live, OpMoves
<1>5. SlotUnique'
  BY <1>e, Fields DEF SlotInv, SlotTask, SlotActive, SlotUnique, Starting, Finishing, Live,
       Nonterminal, Terminal, OpMoves
<1>6. SlotRun'
  BY <1>e, Fields, ConstantsAssumption DEF SlotInv, SlotStart, SlotFinish, SlotTask,
       SlotActive, SlotRun, Starting, Finishing, Live, Unfinished, OpMoves
<1> QED
  BY <1>1, <1>2, <1>3, <1>4, <1>5, <1>6 DEF SlotInv

\* SlotInv after RecordRun: its effect on the slot's variables, then each conjunct.
LEMMA SlotRecordRun ==
  ASSUME TypeOK, SlotInv, NEW t \in Threads,
         RecordRun(t)
  PROVE  SlotInv'
<1>e. /\ OpMoves(t, "project", op[t].run)
      /\ op[t].pc = "record" /\ op[t].run \in Runs
      /\ /\ runs'[op[t].run].status = "accepted" /\ runs'[op[t].run].completed = FALSE
         /\ runs'[op[t].run].thread = t /\ \A s \in Runs \ {op[t].run} : runs'[s] = runs[s]
      /\ UNCHANGED <<active, task, closing>>
  BY OpEffects, Fields DEF RecordRun, Starting, TypeOK
<1>1. SlotStart'
  BY <1>e, Fields, ConstantsAssumption DEF SlotInv, SlotStart, SlotFinish, SlotTask,
       SlotActive, SlotUnique, SlotRun, Starting, Finishing, Live, Unfinished, Nonterminal,
       Terminal, OpMoves
<1>2. SlotFinish'
  BY <1>e, Fields, ConstantsAssumption DEF SlotInv, SlotStart, SlotFinish, SlotTask,
       SlotActive, SlotRun, Starting, Finishing, Live, Unfinished, OpMoves
<1>3. SlotTask'
  BY <1>e DEF SlotInv, SlotStart, SlotTask, Starting, Live, Unfinished, OpMoves
<1>4. SlotActive'
  BY <1>e DEF SlotInv, SlotActive, Starting, Live, OpMoves
<1>5. SlotUnique'
  BY <1>e DEF SlotInv, SlotUnique, OpMoves
<1>6. SlotRun'
  BY <1>e, Fields, ConstantsAssumption DEF SlotInv, SlotStart, SlotFinish, SlotTask,
       SlotActive, SlotUnique, SlotRun, Starting, Finishing, Live, Unfinished, Nonterminal,
       Terminal, OpMoves
<1> QED
  BY <1>1, <1>2, <1>3, <1>4, <1>5, <1>6 DEF SlotInv

\* SlotInv after LaunchRun: its effect on the slot's variables, then each conjunct.
LEMMA SlotLaunchRun ==
  ASSUME TypeOK, SlotInv, NEW t \in Threads,
         LaunchRun(t)
  PROVE  SlotInv'
<1>e. /\ OpMoves(t, "free", NoRun)
      /\ op[t].pc = "project" /\ op[t].run \in Runs
      /\ /\ task'[op[t].run].pc = "spawned" /\ task'[op[t].run].thread = t
         /\ \A s \in Runs \ {op[t].run} : task'[s] = task[s]
      /\ UNCHANGED <<active, runs, closing>>
  BY OpEffects, Fields DEF LaunchRun, Starting, TypeOK, NoTask, durable
<1>1. SlotStart'
  BY <1>e, Fields, ConstantsAssumption DEF SlotInv, SlotStart, SlotFinish, SlotTask,
       SlotActive, SlotUnique, SlotRun, Starting, Finishing, Live, Unfinished, Nonterminal,
       Terminal, OpMoves
<1>2. SlotFinish'
  BY <1>e, Fields, ConstantsAssumption DEF SlotInv, SlotStart, SlotFinish, SlotTask,
       SlotActive, SlotRun, Starting, Finishing, Live, Unfinished, OpMoves
<1>3. SlotTask'
  BY <1>e, Fields, ConstantsAssumption DEF SlotInv, SlotStart, SlotFinish, SlotTask,
       SlotActive, SlotRun, Starting, Finishing, Live, Unfinished, OpMoves
<1>4. SlotActive'
  BY <1>e, Fields, ConstantsAssumption DEF SlotInv, SlotStart, SlotFinish, SlotTask,
       SlotActive, SlotRun, Starting, Finishing, Live, Unfinished, OpMoves
<1>5. SlotUnique'
  BY <1>e DEF SlotInv, SlotUnique, OpMoves
<1>6. SlotRun'
  BY <1>e DEF SlotInv, SlotRun, Unfinished, OpMoves
<1> QED
  BY <1>1, <1>2, <1>3, <1>4, <1>5, <1>6 DEF SlotInv

\* SlotInv after LaunchFailed: its effect on the slot's variables, then each conjunct.
LEMMA SlotLaunchFailed ==
  ASSUME TypeOK, SlotInv, NEW t \in Threads,
         LaunchFailed(t)
  PROVE  SlotInv'
<1>e. /\ OpMoves(t, "free", NoRun)
      /\ op[t].pc \in Starting /\ op[t].run \in Runs
      /\ active'[t].run = NoRun /\ \A u \in Threads \ {t} : active'[u] = active[u]
      /\ \A s \in Runs \ {op[t].run} : runs'[s] = runs[s]
      /\ \/ runs[op[t].run].status # "none" /\ ~runs[op[t].run].completed /\ runs'[op[t].run].status = "failed" /\ runs'[op[t].run].completed = TRUE
         \/ (runs[op[t].run].status = "none" \/ runs[op[t].run].completed) /\ runs'[op[t].run] = runs[op[t].run]
      /\ UNCHANGED <<task, closing>>
  BY ZenonT(40), OpEffects, Fields DEF LaunchFailed, Starting, TypeOK, StartFailed, NoActive, RunRecord
<1>1. SlotStart'
  BY <1>e, Fields, ConstantsAssumption DEF SlotInv, SlotStart, SlotFinish, SlotTask,
       SlotActive, SlotUnique, SlotRun, Starting, Finishing, Live, Unfinished, Nonterminal,
       Terminal, OpMoves
<1>2. SlotFinish'
  BY <1>e, Fields DEF SlotInv, SlotFinish, SlotTask, Starting, Finishing, Live, Unfinished,
       OpMoves
<1>3. SlotTask'
  BY <1>e, Fields, ConstantsAssumption DEF SlotInv, SlotStart, SlotFinish, SlotTask,
       SlotActive, SlotRun, Starting, Finishing, Live, Unfinished, OpMoves
<1>4. SlotActive'
  BY <1>e DEF SlotInv, SlotActive, Starting, Live, OpMoves
<1>5. SlotUnique'
  BY <1>e DEF SlotInv, SlotUnique, OpMoves
<1>6. SlotRun'
  BY <1>e, Fields, ConstantsAssumption DEF SlotInv, SlotStart, SlotFinish, SlotTask,
       SlotActive, SlotUnique, SlotRun, Starting, Finishing, Live, Unfinished, Nonterminal,
       Terminal, OpMoves
<1> QED
  BY <1>1, <1>2, <1>3, <1>4, <1>5, <1>6 DEF SlotInv

\* SlotInv after FinishRecord: its effect on the slot's variables, then each conjunct.
LEMMA SlotFinishRecord ==
  ASSUME TypeOK, SlotInv, NEW t \in Threads,
         FinishRecord(t)
  PROVE  SlotInv'
<1>e. /\ OpMoves(t, "retarget", op[t].run)
      /\ op[t].pc = "finish" /\ op[t].run \in Runs
      /\ \/ runs[op[t].run].status # "none" /\ ~runs[op[t].run].completed /\ RunMoves(op[t].run, task[op[t].run].status, TRUE)
         \/ (runs[op[t].run].status = "none" \/ runs[op[t].run].completed) /\ runs' = runs
      /\ UNCHANGED <<active, task, closing>>
  BY OpEffects, Fields, RunEffects DEF FinishRecord, Finishing
<1>1. SlotStart'
  BY <1>e, Fields, ConstantsAssumption DEF SlotInv, SlotStart, SlotFinish, SlotTask,
       SlotActive, SlotRun, Starting, Finishing, Live, Unfinished, OpMoves, RunMoves
<1>2. SlotFinish'
  BY <1>e, Fields DEF SlotInv, SlotFinish, SlotTask, SlotActive, Starting, Finishing, Live,
       Unfinished, Nonterminal, Terminal, OpMoves, RunMoves
<1>3. SlotTask'
  BY <1>e, Fields, ConstantsAssumption DEF SlotInv, SlotStart, SlotFinish, SlotTask,
       SlotActive, SlotRun, Starting, Finishing, Live, Unfinished, OpMoves, RunMoves
<1>4. SlotActive'
  BY <1>e DEF SlotInv, SlotActive, Starting, Live, OpMoves, RunMoves
<1>5. SlotUnique'
  BY <1>e DEF SlotInv, SlotUnique, OpMoves, RunMoves
<1>6. SlotRun'
  BY <1>e, Fields, ConstantsAssumption DEF SlotInv, SlotStart, SlotFinish, SlotTask,
       SlotActive, SlotUnique, SlotRun, Starting, Finishing, Live, Unfinished, Nonterminal,
       Terminal, OpMoves, RunMoves
<1> QED
  BY <1>1, <1>2, <1>3, <1>4, <1>5, <1>6 DEF SlotInv

\* SlotInv after FinishRetarget: its effect on the slot's variables, then each conjunct.
LEMMA SlotFinishRetarget ==
  ASSUME TypeOK, SlotInv, NEW t \in Threads,
         FinishRetarget(t)
  PROVE  SlotInv'
<1>e. /\ OpMoves(t, "release", op[t].run)
      /\ op[t].pc = "retarget" /\ op[t].run \in Runs
      /\ UNCHANGED <<active, runs, task, closing>>
  BY OpEffects, Fields DEF FinishRetarget, Finishing
<1>1. SlotStart'
  BY <1>e DEF SlotInv, SlotStart, Starting, OpMoves
<1>2. SlotFinish'
  BY <1>e DEF SlotInv, SlotFinish, Finishing, Unfinished, OpMoves
<1>3. SlotTask'
  BY <1>e DEF SlotInv, SlotTask, Live, Unfinished, OpMoves
<1>4. SlotActive'
  BY <1>e DEF SlotInv, SlotActive, Starting, Live, OpMoves
<1>5. SlotUnique'
  BY <1>e DEF SlotInv, SlotUnique, OpMoves
<1>6. SlotRun'
  BY <1>e DEF SlotInv, SlotRun, Unfinished, OpMoves
<1> QED
  BY <1>1, <1>2, <1>3, <1>4, <1>5, <1>6 DEF SlotInv

\* SlotInv after FinishPanics: its effect on the slot's variables, then each conjunct.
LEMMA SlotFinishPanics ==
  ASSUME TypeOK, SlotInv, NEW t \in Threads,
         FinishPanics(t)
  PROVE  SlotInv'
<1>e. /\ OpMoves(t, "free", NoRun)
      /\ op[t].pc \in Finishing /\ op[t].run \in Runs
      /\ TaskEnds(op[t].run, "guarding", "failed")
      /\ UNCHANGED <<active, runs, closing>>
  BY OpEffects, Fields, TaskEffects DEF FinishPanics, Finishing, durable
<1>1. SlotStart'
  BY <1>e, Fields, ConstantsAssumption DEF SlotInv, SlotStart, SlotFinish, SlotTask,
       SlotActive, SlotRun, Starting, Finishing, Live, Unfinished, OpMoves, TaskEnds
<1>2. SlotFinish'
  BY <1>e, Fields DEF SlotInv, SlotFinish, SlotTask, Starting, Finishing, Live, Unfinished,
       OpMoves, TaskEnds
<1>3. SlotTask'
  BY <1>e, Fields, ConstantsAssumption DEF SlotInv, SlotStart, SlotFinish, SlotTask,
       SlotActive, SlotUnique, SlotRun, Starting, Finishing, Live, Unfinished, Nonterminal,
       Terminal, OpMoves, TaskEnds
<1>4. SlotActive'
  BY <1>e, Fields DEF SlotInv, SlotTask, SlotActive, Starting, Finishing, Live, OpMoves,
       TaskEnds
<1>5. SlotUnique'
  BY <1>e DEF SlotInv, SlotUnique, OpMoves, TaskEnds
<1>6. SlotRun'
  BY <1>e DEF SlotInv, SlotRun, Unfinished, OpMoves, TaskEnds
<1> QED
  BY <1>1, <1>2, <1>3, <1>4, <1>5, <1>6 DEF SlotInv

\* SlotInv after FinishRelease: the slot is freed, or it is another run's.
LEMMA SlotFinishRelease ==
  ASSUME TypeOK, SlotInv, NEW t \in Threads,
         FinishRelease(t)
  PROVE  SlotInv'
<1>a. op[t].pc = "release" /\ op[t].run \in Runs /\ UNCHANGED <<runs, closing>>
  BY Fields DEF FinishRelease, Finishing, durable
<1>b. ASSUME active[t].run = op[t].run PROVE SlotInv'
  <2>e. /\ OpMoves(t, "next", op[t].run)
        /\ active'[t].run = NoRun /\ \A u \in Threads \ {t} : active'[u] = active[u]
        /\ UNCHANGED task
    <3>1. /\ active' = [active EXCEPT ![t] = NoActive]
          /\ op' = [op EXCEPT ![t] = [@ EXCEPT !.pc = "next"]] /\ UNCHANGED task
      BY <1>b DEF FinishRelease
    <3>2. OpMoves(t, "next", op[t].run)
      BY <3>1, OpEffects
    <3>3. active'[t].run = NoRun /\ \A u \in Threads \ {t} : active'[u] = active[u]
      BY <3>1 DEF TypeOK, NoActive
    <3> QED
      BY <3>1, <3>2, <3>3
  <2>1. SlotStart'
    BY <1>a, <1>b, <2>e, Fields, ConstantsAssumption DEF SlotInv, SlotStart, SlotFinish, SlotTask,
         SlotActive, SlotUnique, SlotRun, Starting, Finishing, Live, Unfinished, OpMoves
  <2>2. SlotFinish'
    BY <1>a, <1>b, <2>e, Fields, ConstantsAssumption DEF SlotInv, SlotStart, SlotFinish, SlotTask,
         SlotActive, SlotUnique, SlotRun, Starting, Finishing, Live, Unfinished, OpMoves
  <2>3. SlotTask'
    BY <1>a, <1>b, <2>e, Fields, ConstantsAssumption DEF SlotInv, SlotStart, SlotFinish, SlotTask,
         SlotActive, SlotUnique, SlotRun, Starting, Finishing, Live, Unfinished, OpMoves
  <2>4. SlotActive'
    BY <1>a, <1>b, <2>e, Fields, ConstantsAssumption DEF SlotInv, SlotStart, SlotFinish, SlotTask,
         SlotActive, SlotUnique, SlotRun, Starting, Finishing, Live, Unfinished, OpMoves
  <2>5. SlotUnique'
    BY <1>a, <1>b, <2>e, Fields, ConstantsAssumption DEF SlotInv, SlotStart, SlotFinish, SlotTask,
         SlotActive, SlotUnique, SlotRun, Starting, Finishing, Live, Unfinished, OpMoves
  <2>6. SlotRun'
    BY <1>a, <1>b, <2>e, Fields, ConstantsAssumption DEF SlotInv, SlotStart, SlotFinish, SlotTask,
         SlotActive, SlotUnique, SlotRun, Starting, Finishing, Live, Unfinished, OpMoves
  <2> QED
    BY <2>1, <2>2, <2>3, <2>4, <2>5, <2>6 DEF SlotInv
<1>c. ASSUME active[t].run # op[t].run PROVE SlotInv'
  <2>e. OpMoves(t, "free", NoRun) /\ TaskMoves(op[t].run, "done") /\ UNCHANGED active
    BY <1>a, <1>c, OpEffects, TaskEffects DEF FinishRelease
  <2>1. SlotStart'
    BY <1>a, <1>c, <2>e, Fields, ConstantsAssumption DEF SlotInv, SlotStart, SlotFinish, SlotTask,
         SlotActive, SlotUnique, SlotRun, Starting, Finishing, Live, Unfinished, OpMoves, TaskMoves
  <2>2. SlotFinish'
    BY <1>a, <1>c, <2>e, Fields, ConstantsAssumption DEF SlotInv, SlotStart, SlotFinish, SlotTask,
         SlotActive, SlotUnique, SlotRun, Starting, Finishing, Live, Unfinished, OpMoves, TaskMoves
  <2>3. SlotTask'
    BY <1>a, <1>c, <2>e, Fields, ConstantsAssumption DEF SlotInv, SlotStart, SlotFinish, SlotTask,
         SlotActive, SlotUnique, SlotRun, Starting, Finishing, Live, Unfinished, OpMoves, TaskMoves
  <2>4. SlotActive'
    BY <1>a, <1>c, <2>e, Fields, ConstantsAssumption DEF SlotInv, SlotStart, SlotFinish, SlotTask,
         SlotActive, SlotUnique, SlotRun, Starting, Finishing, Live, Unfinished, OpMoves, TaskMoves
  <2>5. SlotUnique'
    BY <1>a, <1>c, <2>e, Fields, ConstantsAssumption DEF SlotInv, SlotStart, SlotFinish, SlotTask,
         SlotActive, SlotUnique, SlotRun, Starting, Finishing, Live, Unfinished, OpMoves, TaskMoves
  <2>6. SlotRun'
    BY <1>a, <1>c, <2>e, Fields, ConstantsAssumption DEF SlotInv, SlotStart, SlotFinish, SlotTask,
         SlotActive, SlotUnique, SlotRun, Starting, Finishing, Live, Unfinished, OpMoves, TaskMoves
  <2> QED
    BY <2>1, <2>2, <2>3, <2>4, <2>5, <2>6 DEF SlotInv
<1> QED
  BY <1>b, <1>c

\* SlotInv after FinishStartNext: the slot is free.
LEMMA SlotFinishStartNext ==
  ASSUME TypeOK, SlotInv, NEW t \in Threads,
         FinishStartNext(t)
  PROVE  SlotInv'
<1>e. /\ OpMoves(t, "free", NoRun) \/ OpMoves(t, "start", NoRun)
      /\ op[t].pc = "next" /\ op[t].run \in Runs
      /\ TaskMoves(op[t].run, "done")
      /\ active[t].run = NoRun
      /\ UNCHANGED <<active, runs, closing>>
  <2>1. op[t].pc = "next" /\ op[t].run \in Runs
    BY Fields DEF FinishStartNext, Finishing
  <2>2. active[t].run = NoRun
    BY <2>1 DEF SlotInv, SlotFinish
  <2>3. TaskMoves(op[t].run, "done")
    BY <2>1, TaskEffects DEF FinishStartNext
  <2>4. OpMoves(t, "free", NoRun) \/ OpMoves(t, "start", NoRun)
    BY OpEffects DEF FinishStartNext, ClaimQueued
  <2> QED
    BY <2>1, <2>2, <2>3, <2>4 DEF FinishStartNext
<1>1. SlotStart'
  BY <1>e, Fields, ConstantsAssumption DEF SlotInv, SlotStart, SlotFinish, SlotTask,
       SlotActive, SlotUnique, SlotRun, Starting, Finishing, Live, Unfinished, OpMoves, TaskMoves
<1>2. SlotFinish'
  BY <1>e, Fields, ConstantsAssumption DEF SlotInv, SlotStart, SlotFinish, SlotTask,
       SlotActive, SlotUnique, SlotRun, Starting, Finishing, Live, Unfinished, OpMoves, TaskMoves
<1>3. SlotTask'
  BY <1>e, Fields, ConstantsAssumption DEF SlotInv, SlotStart, SlotFinish, SlotTask,
       SlotActive, SlotUnique, SlotRun, Starting, Finishing, Live, Unfinished, OpMoves, TaskMoves
<1>4. SlotActive'
  BY <1>e, Fields, ConstantsAssumption DEF SlotInv, SlotStart, SlotFinish, SlotTask,
       SlotActive, SlotUnique, SlotRun, Starting, Finishing, Live, Unfinished, OpMoves, TaskMoves
<1>5. SlotUnique'
  BY <1>e, Fields, ConstantsAssumption DEF SlotInv, SlotStart, SlotFinish, SlotTask,
       SlotActive, SlotUnique, SlotRun, Starting, Finishing, Live, Unfinished, OpMoves, TaskMoves
<1>6. SlotRun'
  BY <1>e, Fields, ConstantsAssumption DEF SlotInv, SlotStart, SlotFinish, SlotTask,
       SlotActive, SlotUnique, SlotRun, Starting, Finishing, Live, Unfinished, OpMoves, TaskMoves
<1> QED
  BY <1>1, <1>2, <1>3, <1>4, <1>5, <1>6 DEF SlotInv

\* SlotInv after BeginRun: its effect on the slot's variables, then each conjunct.
LEMMA SlotBeginRun ==
  ASSUME TypeOK, SlotInv, NEW r \in Runs,
         BeginRun(r)
  PROVE  SlotInv'
<1>e. /\ task[r].pc = "spawned"
      /\ \/ runs[r].status = "none" /\ TaskEnds(r, "guarding", "failed") /\ UNCHANGED runs
         \/ runs[r].status # "none" /\ TaskMoves(r, "running") /\ RunMoves(r, "running", runs[r].completed)
      /\ UNCHANGED <<active, op, closing>>
  BY TaskEffects, RunEffects DEF BeginRun
<1>1. SlotStart'
  BY <1>e, Fields DEF SlotInv, SlotStart, SlotTask, Starting, Finishing, Live, TaskMoves,
       TaskEnds, RunMoves
<1>2. SlotFinish'
  BY <1>e, Fields DEF SlotInv, SlotFinish, SlotTask, Starting, Finishing, Live, Unfinished,
       TaskMoves, TaskEnds, RunMoves
<1>3. SlotTask'
  BY <1>e DEF SlotInv, SlotTask, Live, Unfinished, Nonterminal, Terminal, TaskMoves, TaskEnds, RunMoves
<1>4. SlotActive'
  BY <1>e, Fields DEF SlotInv, SlotTask, SlotActive, Starting, Finishing, Live, TaskMoves,
       TaskEnds, RunMoves
<1>5. SlotUnique'
  BY <1>e DEF SlotInv, SlotUnique, TaskMoves, TaskEnds, RunMoves
<1>6. SlotRun'
  BY <1>e, Fields DEF SlotInv, SlotTask, SlotActive, SlotRun, Starting, Finishing, Live,
       Unfinished, Nonterminal, Terminal, TaskMoves, TaskEnds, RunMoves
<1> QED
  BY <1>1, <1>2, <1>3, <1>4, <1>5, <1>6 DEF SlotInv

\* SlotInv after EndRun: its effect on the slot's variables, then each conjunct.
LEMMA SlotEndRun ==
  ASSUME TypeOK, SlotInv, NEW r \in Runs, NEW outcome \in {"completed", "failed", "cancelled"} \X BOOLEAN,
         EndRun(r, outcome)
  PROVE  SlotInv'
<1>e. /\ task[r].pc = "running"
      /\ TaskEnds(r, "finishing", outcome[1]) /\ outcome[1] \in Terminal
      /\ UNCHANGED <<runs, active, op, closing>>
  BY TaskEffects DEF EndRun, durable, Terminal
<1>1. SlotStart'
  BY <1>e, Fields DEF SlotInv, SlotStart, SlotTask, Starting, Finishing, Live, TaskEnds
<1>2. SlotFinish'
  BY <1>e, Fields DEF SlotInv, SlotFinish, SlotTask, Starting, Finishing, Live, Unfinished,
       TaskEnds
<1>3. SlotTask'
  BY <1>e DEF SlotInv, SlotTask, Live, Unfinished, TaskEnds
<1>4. SlotActive'
  BY <1>e, Fields DEF SlotInv, SlotTask, SlotActive, Starting, Finishing, Live, TaskEnds
<1>5. SlotUnique'
  BY <1>e DEF SlotInv, SlotUnique, TaskEnds
<1>6. SlotRun'
  BY <1>e DEF SlotInv, SlotRun, Unfinished, TaskEnds
<1> QED
  BY <1>1, <1>2, <1>3, <1>4, <1>5, <1>6 DEF SlotInv

\* SlotInv after PanicRun: its effect on the slot's variables, then each conjunct.
LEMMA SlotPanicRun ==
  ASSUME TypeOK, SlotInv, NEW r \in Runs,
         PanicRun(r)
  PROVE  SlotInv'
<1>e. /\ task[r].pc \in {"spawned", "running"}
      /\ TaskEnds(r, "guarding", "failed")
      /\ UNCHANGED <<runs, active, op, closing>>
  BY TaskEffects DEF PanicRun, durable
<1>1. SlotStart'
  BY <1>e, Fields DEF SlotInv, SlotStart, SlotTask, Starting, Finishing, Live, TaskEnds
<1>2. SlotFinish'
  BY <1>e, Fields DEF SlotInv, SlotFinish, SlotTask, Starting, Finishing, Live, Unfinished,
       TaskEnds
<1>3. SlotTask'
  BY <1>e DEF SlotInv, SlotTask, Live, Unfinished, Nonterminal, Terminal, TaskEnds
<1>4. SlotActive'
  BY <1>e, Fields DEF SlotInv, SlotTask, SlotActive, Starting, Finishing, Live, TaskEnds
<1>5. SlotUnique'
  BY <1>e DEF SlotInv, SlotUnique, TaskEnds
<1>6. SlotRun'
  BY <1>e DEF SlotInv, SlotRun, Unfinished, TaskEnds
<1> QED
  BY <1>1, <1>2, <1>3, <1>4, <1>5, <1>6 DEF SlotInv

\* SlotInv after BeginFinish: its effect on the slot's variables, then each conjunct.
LEMMA SlotBeginFinish ==
  ASSUME TypeOK, SlotInv, NEW r \in Runs,
         BeginFinish(r)
  PROVE  SlotInv'
<1>e. /\ task[r].pc \in {"finishing", "guarding"} /\ task[r].thread \in Threads
      /\ op[task[r].thread].pc = "free"
      /\ OpMoves(task[r].thread, "finish", r)
      /\ UNCHANGED <<runs, active, task, closing>>
  BY OpEffects DEF BeginFinish, durable, LockFree, SlotInv, SlotTask, Live
<1>1. SlotStart'
  BY <1>e DEF SlotInv, SlotStart, Starting, OpMoves
<1>2. SlotFinish'
  BY <1>e DEF SlotInv, SlotFinish, Finishing, Unfinished, OpMoves
<1>3. SlotTask'
  BY <1>e DEF SlotInv, SlotTask, Live, Unfinished, OpMoves
<1>4. SlotActive'
  BY <1>e DEF SlotInv, SlotActive, Starting, Live, OpMoves
<1>5. SlotUnique'
  BY <1>e DEF SlotInv, SlotUnique, OpMoves
<1>6. SlotRun'
  BY <1>e DEF SlotInv, SlotRun, Unfinished, OpMoves
<1> QED
  BY <1>1, <1>2, <1>3, <1>4, <1>5, <1>6 DEF SlotInv

\* SlotInv after ShutdownTimeout: its effect on the slot's variables, then each conjunct.
LEMMA SlotShutdownTimeout ==
  ASSUME TypeOK, SlotInv,
         ShutdownTimeout
  PROVE  SlotInv'
<1>e. /\ \A r \in Runs : IF runs[r].status \in Nonterminal
                      THEN runs'[r].status = "interrupted" /\ runs'[r].completed = TRUE
                      ELSE runs'[r] = runs[r]
      /\ closing' = "timedout"
      /\ UNCHANGED <<active, op, task>>
  BY DEF ShutdownTimeout, Reconcile, TypeOK, RunRecord, Nonterminal, Terminal
<1>1. SlotStart'
  BY <1>e, Fields DEF SlotInv, SlotStart, SlotTask, SlotActive, Starting, Finishing, Live,
       Nonterminal, Terminal
<1>2. SlotFinish'
  BY <1>e, Fields DEF SlotInv, SlotFinish, SlotTask, Starting, Finishing, Live, Unfinished
<1>3. SlotTask'
  BY <1>e DEF SlotInv, SlotTask, Live, Unfinished
<1>4. SlotActive'
  BY <1>e DEF SlotInv, SlotActive, Starting, Live
<1>5. SlotUnique'
  BY <1>e DEF SlotInv, SlotUnique
<1>6. SlotRun'
  BY <1>e DEF SlotInv, SlotRun, Unfinished
<1> QED
  BY <1>1, <1>2, <1>3, <1>4, <1>5, <1>6 DEF SlotInv

\* SlotInv after Restart: its effect on the slot's variables, then each conjunct.
LEMMA SlotRestart ==
  ASSUME TypeOK, SlotInv,
         Restart
  PROVE  SlotInv'
<1>e. /\ \A r \in Runs : IF runs[r].status \in Nonterminal
                      THEN runs'[r].status = "interrupted" /\ runs'[r].completed = TRUE
                      ELSE runs'[r] = runs[r]
      /\ \A t \in Threads : op'[t].pc = "free" /\ active'[t].run = NoRun
      /\ \A r \in Runs : task'[r].pc = "none"
  BY DEF Restart, Reconcile, TypeOK, RunRecord, Free, NoActive, NoTask, Nonterminal, Terminal
<1>1. SlotStart'
  BY <1>e DEF SlotInv, SlotStart, Starting
<1>2. SlotFinish'
  BY <1>e DEF SlotInv, SlotFinish, Finishing, Unfinished
<1>3. SlotTask'
  BY <1>e DEF SlotInv, SlotTask, Live, Unfinished
<1>4. SlotActive'
  BY <1>e DEF SlotInv, SlotActive, Starting, Live
<1>5. SlotUnique'
  BY <1>e DEF SlotInv, SlotUnique
<1>6. SlotRun'
  BY <1>e DEF SlotInv, SlotRun, Unfinished, Nonterminal, Terminal
<1> QED
  BY <1>1, <1>2, <1>3, <1>4, <1>5, <1>6 DEF SlotInv
\* Every step of the run manager preserves SlotInv.
LEMMA SlotStep == ASSUME TypeOK, SlotInv, [Next]_vars PROVE SlotInv'
<1>1. ASSUME NEW t \in Threads, NEW i \in Inputs, EnqueueTurn(t, i) PROVE SlotInv'
  BY <1>1, SlotFrame DEF EnqueueTurn, volatile
<1>2. ASSUME NEW t \in Threads, NEW i \in Inputs, SendTurn(t, i) PROVE SlotInv'
  BY <1>2, SlotSendTurn
<1>3. ASSUME NEW t \in Threads, NEW i \in Inputs, SteerTurn(t, i) PROVE SlotInv'
  BY <1>3, SlotFrame DEF SteerTurn, volatile
<1>4. ASSUME NEW t \in Threads, NEW i \in Inputs, InjectContext(t, i) PROVE SlotInv'
  BY <1>4, SlotFrame DEF InjectContext, volatile
<1>5. ASSUME NEW t \in Threads, NEW i \in Inputs, DeleteInboxInput(t, i) PROVE SlotInv'
  BY <1>5, SlotFrame DEF DeleteInboxInput, volatile
<1>6. ASSUME NEW t \in Threads, NEW i \in Inputs, DeleteQueuedTurn(t, i) PROVE SlotInv'
  BY <1>6, SlotFrame DEF DeleteQueuedTurn, volatile
<1>7. ASSUME NEW t \in Threads, NEW i \in Inputs, InterruptForQueued(t, i) PROVE SlotInv'
  BY <1>7, SlotFrame DEF InterruptForQueued, durable, TypeOK, ActiveRun
<1>8. ASSUME NEW t \in Threads, NEW i \in Inputs, ResumeQueuedTurn(t, i) PROVE SlotInv'
  BY <1>8, SlotResumeQueuedTurn
<1>9. ASSUME NEW t \in Threads, NEW q \in Inputs, NEW target \in Inputs, NEW after \in BOOLEAN,
            MoveQueuedTurn(t, q, target, after) PROVE SlotInv'
  BY <1>9, SlotFrame DEF MoveQueuedTurn, volatile
<1>10. ASSUME NEW t \in Threads, StopTurn(t) PROVE SlotInv'
  BY <1>10, SlotFrame DEF StopTurn, durable, TypeOK, ActiveRun
<1>11. ASSUME NEW t \in Threads, DeleteThreadCheck(t) PROVE SlotInv'
  BY <1>11, SlotFrame DEF DeleteThreadCheck, durable
<1>12. ASSUME NEW t \in Threads, DeleteThreadCommit(t) PROVE SlotInv'
  BY <1>12, SlotDeleteThreadCommit
<1>13. ASSUME NEW t \in Threads, StartRejected(t) PROVE SlotInv'
  BY <1>13, SlotStartRejected
<1>14. ASSUME NEW t \in Threads, NEW r \in Runs, NEW steering \in BOOLEAN, ReserveSlot(t, r, steering) PROVE SlotInv'
  BY <1>14, SlotReserveSlot
<1>15. ASSUME NEW t \in Threads, RecordRun(t) PROVE SlotInv'
  BY <1>15, SlotRecordRun
<1>16. ASSUME NEW t \in Threads, LaunchRun(t) PROVE SlotInv'
  BY <1>16, SlotLaunchRun
<1>17. ASSUME NEW t \in Threads, LaunchFailed(t) PROVE SlotInv'
  BY <1>17, SlotLaunchFailed
<1>18. ASSUME NEW t \in Threads, FinishRecord(t) PROVE SlotInv'
  BY <1>18, SlotFinishRecord
<1>19. ASSUME NEW t \in Threads, FinishRetarget(t) PROVE SlotInv'
  BY <1>19, SlotFinishRetarget
<1>20. ASSUME NEW t \in Threads, FinishRelease(t) PROVE SlotInv'
  BY <1>20, SlotFinishRelease
<1>21. ASSUME NEW t \in Threads, FinishPanics(t) PROVE SlotInv'
  BY <1>21, SlotFinishPanics
<1>36. ASSUME NEW t \in Threads, FinishStartNext(t) PROVE SlotInv'
  BY <1>36, SlotFinishStartNext
<1>22. ASSUME NEW r \in Runs, BeginRun(r) PROVE SlotInv'
  BY <1>22, SlotBeginRun
<1>23. ASSUME NEW r \in Runs, ClaimStepInputs(r) PROVE SlotInv'
  BY <1>23, SlotFrame DEF ClaimStepInputs, volatile
<1>37. ASSUME NEW r \in Runs, DeliverStepInputs(r) PROVE SlotInv'
  BY <1>37, SlotFrame DEF DeliverStepInputs, durable
<1>24. ASSUME NEW r \in Runs, NEW outcome \in {"completed", "failed", "cancelled"} \X BOOLEAN,
            EndRun(r, outcome) PROVE SlotInv'
  BY <1>24, SlotEndRun
<1>25. ASSUME NEW r \in Runs, PanicRun(r) PROVE SlotInv'
  BY <1>25, SlotPanicRun
<1>26. ASSUME NEW r \in Runs, BeginFinish(r) PROVE SlotInv'
  BY <1>26, SlotBeginFinish
<1>27. ASSUME ShutdownClear PROVE SlotInv'
  BY <1>27, SlotFrame DEF ShutdownClear, durable
<1>28. ASSUME ShutdownStop PROVE SlotInv'
  BY <1>28, SlotFrame DEF ShutdownStop, durable, TypeOK, ActiveRun
<1>29. ASSUME ShutdownTimeout PROVE SlotInv'
  BY <1>29, SlotShutdownTimeout
<1>30. ASSUME Restart PROVE SlotInv'
  BY <1>30, SlotRestart
<1>31. ASSUME UNCHANGED vars PROVE SlotInv'
  BY <1>31, SlotFrame DEF vars, volatile, durable
<1>32. ASSUME NEW t \in Threads, Command(t) PROVE SlotInv'
  BY <1>32, <1>1, <1>2, <1>3, <1>4, <1>5, <1>6, <1>7, <1>8, <1>9, <1>10, <1>11, <1>12 DEF Command
<1>33. ASSUME NEW t \in Threads, LockedStep(t) PROVE SlotInv'
  BY <1>33, <1>13, <1>14, <1>15, <1>16, <1>17, <1>18, <1>19, <1>20, <1>21, <1>36 DEF LockedStep
<1>34. ASSUME NEW r \in Runs, TaskStep(r) PROVE SlotInv'
  BY <1>34, <1>22, <1>23, <1>24, <1>25, <1>26, <1>37 DEF TaskStep
<1>35. ASSUME Process PROVE SlotInv'
  BY <1>35, <1>27, <1>28, <1>29, <1>30 DEF Process
<1> QED
  BY <1>31, <1>32, <1>33, <1>34, <1>35 DEF Next

\* The initial state has no run, holder or task.
LEMMA SlotInit == Init => SlotInv
  BY ConstantsAssumption DEF Init, SlotInv, SlotStart, SlotFinish, SlotTask, SlotActive,
     SlotUnique, SlotRun, NoRecord, NoActive, Free, NoTask, Live, Starting, Finishing,
     Unfinished, Nonterminal, Terminal

\* An unfinished run record always belongs to the run in its thread's slot
\* (start_turn, finish_run, abandon_unlaunched_run, restart reconciliation).
THEOREM SlotOwnership == Spec => []SlotOwnsUnfinishedRun
<1>1. Init => TypeOK /\ SlotInv
  BY SlotInit, NullRecordTypes DEF Init, TypeOK
<1>2. TypeOK /\ SlotInv /\ [Next]_vars => (TypeOK /\ SlotInv)'
  BY TypeStep, SlotStep
<1>3. SlotInv => SlotOwnsUnfinishedRun
  BY DEF SlotInv, SlotRun, SlotOwnsUnfinishedRun, Unfinished
<1> QED
  BY <1>1, <1>2, <1>3, PTL DEF Spec

\* A run's task works only while its run holds the thread's slot, so two tasks
\* never work on one thread (start_turn, release_active_run, RunTaskGuard).
THEOREM WorkersHoldTheirSlot == Spec => []WorkingTaskHoldsSlot
<1>1. Init => TypeOK /\ SlotInv
  BY SlotInit, NullRecordTypes DEF Init, TypeOK
<1>2. TypeOK /\ SlotInv /\ [Next]_vars => (TypeOK /\ SlotInv)'
  BY TypeStep, SlotStep
<1>3. SlotInv => WorkingTaskHoldsSlot
  BY DEF SlotInv, SlotTask, WorkingTaskHoldsSlot, Live
<1> QED
  BY <1>1, <1>2, <1>3, PTL DEF Spec

\* No run in a slot sits in a second one, so two threads never share a run and
\* releasing a slot never frees another thread's (release_active_run).
THEOREM RunHoldsOneSlot == Spec => []SlotUnique
<1>1. Init => TypeOK /\ SlotInv
  BY SlotInit, NullRecordTypes DEF Init, TypeOK
<1>2. TypeOK /\ SlotInv /\ [Next]_vars => (TypeOK /\ SlotInv)'
  BY TypeStep, SlotStep
<1> QED
  BY <1>1, <1>2, PTL DEF Spec, SlotInv

\* The step formula of TerminalStatusIsFinal.
FinalStep == \A r \in Runs : runs[r].status \in Terminal /\ closing # "timedout"
                             => runs'[r].status \in {runs[r].status, "none"}

\* Every step from a state with SlotInv keeps terminal statuses.
LEMMA TerminalStep == ASSUME TypeOK, SlotInv, [Next]_vars PROVE FinalStep
<1>1. ASSUME NEW t \in Threads, NEW i \in Inputs, EnqueueTurn(t, i) PROVE FinalStep
  BY <1>1 DEF EnqueueTurn, FinalStep
<1>2. ASSUME NEW t \in Threads, NEW i \in Inputs, SendTurn(t, i) PROVE FinalStep
  BY <1>2 DEF SendTurn, FinalStep, durable
<1>3. ASSUME NEW t \in Threads, NEW i \in Inputs, SteerTurn(t, i) PROVE FinalStep
  BY <1>3 DEF SteerTurn, FinalStep
<1>4. ASSUME NEW t \in Threads, NEW i \in Inputs, InjectContext(t, i) PROVE FinalStep
  BY <1>4 DEF InjectContext, FinalStep
<1>5. ASSUME NEW t \in Threads, NEW i \in Inputs, DeleteInboxInput(t, i) PROVE FinalStep
  BY <1>5 DEF DeleteInboxInput, FinalStep
<1>6. ASSUME NEW t \in Threads, NEW i \in Inputs, DeleteQueuedTurn(t, i) PROVE FinalStep
  BY <1>6 DEF DeleteQueuedTurn, FinalStep
<1>7. ASSUME NEW t \in Threads, NEW i \in Inputs, InterruptForQueued(t, i) PROVE FinalStep
  BY <1>7 DEF InterruptForQueued, FinalStep, durable
<1>8. ASSUME NEW t \in Threads, NEW i \in Inputs, ResumeQueuedTurn(t, i) PROVE FinalStep
  BY <1>8 DEF ResumeQueuedTurn, FinalStep
<1>9. ASSUME NEW t \in Threads, NEW q \in Inputs, NEW target \in Inputs, NEW after \in BOOLEAN,
            MoveQueuedTurn(t, q, target, after) PROVE FinalStep
  BY <1>9 DEF MoveQueuedTurn, FinalStep
<1>10. ASSUME NEW t \in Threads, StopTurn(t) PROVE FinalStep
  BY <1>10 DEF StopTurn, FinalStep, durable
<1>11. ASSUME NEW t \in Threads, DeleteThreadCheck(t) PROVE FinalStep
  BY <1>11 DEF DeleteThreadCheck, FinalStep, durable
<1>12. ASSUME NEW t \in Threads, DeleteThreadCommit(t) PROVE FinalStep
  BY <1>12 DEF DeleteThreadCommit, FinalStep, NoRecord
<1>13. ASSUME NEW t \in Threads, StartRejected(t) PROVE FinalStep
  BY <1>13 DEF StartRejected, FinalStep
<1>14. ASSUME NEW t \in Threads, NEW r \in Runs, NEW steering \in BOOLEAN, ReserveSlot(t, r, steering) PROVE FinalStep
  BY <1>14 DEF ReserveSlot, FinalStep, durable
<1>15. ASSUME NEW t \in Threads, RecordRun(t) PROVE FinalStep
  <2>1. runs[op[t].run].status = "none" /\ op[t].run \in Runs
    BY <1>15, Fields DEF RecordRun, SlotInv, SlotStart, Starting
  <2> QED
    BY <1>15, <2>1 DEF RecordRun, FinalStep, TypeOK, Terminal
<1>16. ASSUME NEW t \in Threads, LaunchRun(t) PROVE FinalStep
  BY <1>16 DEF LaunchRun, FinalStep, durable
<1>17. ASSUME NEW t \in Threads, LaunchFailed(t) PROVE FinalStep
  <2>1. \A r \in Runs : runs[r].status \in Terminal => runs[r].completed
    BY DEF SlotInv, SlotRun
  <2> QED
    BY <1>17, <2>1 DEF LaunchFailed, FinalStep
<1>18. ASSUME NEW t \in Threads, FinishRecord(t) PROVE FinalStep
  <2>1. \A r \in Runs : runs[r].status \in Terminal => runs[r].completed
    BY DEF SlotInv, SlotRun
  <2>2. op[t].run \in Runs
    BY <1>18, Fields DEF FinishRecord, Finishing
  <2>3. CASE runs[op[t].run].status # "none" /\ ~runs[op[t].run].completed
    <3>1. RunMoves(op[t].run, task[op[t].run].status, TRUE)
      BY <1>18, <2>2, <2>3, RunEffects DEF FinishRecord
    <3> QED
      BY <2>1, <2>3, <3>1 DEF FinalStep, RunMoves
  <2>4. CASE ~(runs[op[t].run].status # "none" /\ ~runs[op[t].run].completed)
    BY <1>18, <2>4 DEF FinishRecord, FinalStep
  <2> QED
    BY <2>3, <2>4
<1>19. ASSUME NEW t \in Threads, FinishRetarget(t) PROVE FinalStep
  BY <1>19 DEF FinishRetarget, FinalStep
<1>20. ASSUME NEW t \in Threads, FinishRelease(t) PROVE FinalStep
  BY <1>20 DEF FinishRelease, FinalStep, durable
<1>36. ASSUME NEW t \in Threads, FinishStartNext(t) PROVE FinalStep
  BY <1>36 DEF FinishStartNext, FinalStep
<1>21. ASSUME NEW t \in Threads, FinishPanics(t) PROVE FinalStep
  BY <1>21 DEF FinishPanics, FinalStep, durable
<1>22. ASSUME NEW r \in Runs, BeginRun(r) PROVE FinalStep
  <2>1. runs[r].status \in Terminal => closing = "timedout"
    BY <1>22 DEF BeginRun, SlotInv, SlotRun, SlotTask
  <2>2. \A s \in Runs \ {r} : runs'[s] = runs[s]
    BY <1>22, RunEffects DEF BeginRun, RunMoves
  <2> QED
    BY <2>1, <2>2 DEF FinalStep
<1>23. ASSUME NEW r \in Runs, ClaimStepInputs(r) PROVE FinalStep
  BY <1>23 DEF ClaimStepInputs, FinalStep
<1>37. ASSUME NEW r \in Runs, DeliverStepInputs(r) PROVE FinalStep
  BY <1>37 DEF DeliverStepInputs, FinalStep, durable
<1>24. ASSUME NEW r \in Runs, NEW outcome \in {"completed", "failed", "cancelled"} \X BOOLEAN,
            EndRun(r, outcome) PROVE FinalStep
  BY <1>24 DEF EndRun, FinalStep, durable
<1>25. ASSUME NEW r \in Runs, PanicRun(r) PROVE FinalStep
  BY <1>25 DEF PanicRun, FinalStep, durable
<1>26. ASSUME NEW r \in Runs, BeginFinish(r) PROVE FinalStep
  BY <1>26 DEF BeginFinish, FinalStep, durable
<1>27. ASSUME ShutdownClear PROVE FinalStep
  BY <1>27 DEF ShutdownClear, FinalStep, durable
<1>28. ASSUME ShutdownStop PROVE FinalStep
  BY <1>28 DEF ShutdownStop, FinalStep, durable
<1>29. ASSUME ShutdownTimeout PROVE FinalStep
  BY <1>29 DEF ShutdownTimeout, Reconcile, FinalStep, Nonterminal, Terminal
<1>30. ASSUME Restart PROVE FinalStep
  BY <1>30 DEF Restart, Reconcile, FinalStep, Nonterminal, Terminal
<1>31. ASSUME UNCHANGED vars PROVE FinalStep
  BY <1>31 DEF FinalStep, vars, durable
<1>32. ASSUME NEW t \in Threads, Command(t) PROVE FinalStep
  BY <1>32, <1>1, <1>2, <1>3, <1>4, <1>5, <1>6, <1>7, <1>8, <1>9, <1>10, <1>11, <1>12 DEF Command
<1>33. ASSUME NEW t \in Threads, LockedStep(t) PROVE FinalStep
  BY <1>33, <1>13, <1>14, <1>15, <1>16, <1>17, <1>18, <1>19, <1>20, <1>21, <1>36 DEF LockedStep
<1>34. ASSUME NEW r \in Runs, TaskStep(r) PROVE FinalStep
  BY <1>34, <1>22, <1>23, <1>24, <1>25, <1>26, <1>37 DEF TaskStep
<1>35. ASSUME Process PROVE FinalStep
  BY <1>35, <1>27, <1>28, <1>29, <1>30 DEF Process
<1> QED
  BY <1>31, <1>32, <1>33, <1>34, <1>35 DEF Next

\* A terminal status is never replaced outside the window of a timed-out
\* shutdown, whatever guard, late task or reconciliation writes (finish_run,
\* run_turn, abandon_unlaunched_run).
THEOREM TerminalStatusStays == Spec => TerminalStatusIsFinal
<1>1. Init => TypeOK /\ SlotInv
  BY SlotInit, NullRecordTypes DEF Init, TypeOK
<1>2. TypeOK /\ SlotInv /\ [Next]_vars => (TypeOK /\ SlotInv)'
  BY TypeStep, SlotStep
<1>3. TypeOK /\ SlotInv /\ [Next]_vars => [FinalStep]_vars
  BY TerminalStep
<1> QED
  BY <1>1, <1>2, <1>3, PTL DEF Spec, TerminalStatusIsFinal, FinalStep


-----------------------------------------------------------------------------
(* The inbox of a thread: steers target a live run, an interruption stops  *)
(* it, an input reaches one run and a claimed row is accounted for.        *)
(*                                                                         *)
(* InboxInv adds what start_turn's caller knows of the input in its hands, *)
(* what a step knows of the inputs it has claimed, and which run records   *)
(* name an input.  It rests on SlotInv: who fills or empties a slot.       *)

\* The inbox rows there are.
Rows == {i \in Inputs : inbox[i].state # "none"}
PendingSteer(i) == inbox[i].state = "pending" /\ inbox[i].kind = "steer"
\* The lock holder of t is in start_turn, with an input in hand.
InStart(t) == op[t].pc \in {"start"} \cup Starting

\* An inbox row belongs to a thread that exists; a pending one was handed to no
\* run; what is no row is NoRow.
RowInv ==
  \A i \in Inputs :
    /\ inbox[i].state = "none" => inbox[i] = NoRow
    /\ inbox[i].state # "none" => inbox[i].thread \in Threads /\ exists[inbox[i].thread]
    /\ inbox[i].state = "pending" => delivered[i] = {}

\* The input in a lock holder's hands is in nobody else's and was handed to no
\* run; it is a claimed row of the thread's queue exactly when it came from the
\* queue and the thread still exists.
HandInv ==
  \A t \in Threads : InStart(t) =>
    /\ delivered[op[t].input] = {}
    /\ \A u \in Threads : InStart(u) /\ op[u].input = op[t].input => u = t
    /\ IF op[t].queued /\ exists[t]
       THEN /\ inbox[op[t].input].state = "claimed" /\ inbox[op[t].input].kind = "followup"
            /\ inbox[op[t].input].thread = t
       ELSE inbox[op[t].input].state = "none"

\* The run record of the input in hand names it, from control_put_run on.
RunInputInv ==
  /\ \A t \in Threads : op[t].pc = "project" /\ op[t].queued /\ exists[t] =>
        runs[op[t].run].input = op[t].input /\ runs[op[t].run].thread = t
  /\ \A r \in Runs :
        /\ runs[r].status = "none" => runs[r].input = NoInput
        /\ runs[r].input \in Rows => runs[r].thread = inbox[runs[r].input].thread

\* A pending steer targets the run in its thread's slot, and the lock holder is
\* neither filling that slot nor about to give it back for that run.
SteerInv ==
  \A i \in Inputs : PendingSteer(i) =>
    LET t == inbox[i].thread
    IN  /\ inbox[i].target # NoRun
        /\ active[t].run = inbox[i].target /\ active[t].steering
        /\ op[t].pc \notin Starting
        /\ op[t].pc = "release" => op[t].run # inbox[i].target

\* A recorded interruption has stopped the active run of its thread, which the
\* lock holder is not just filling the slot with; or it is about to be taken, or
\* was left behind by a panic.
InterruptInv ==
  \A t \in Threads : queue_interrupts[t] # NoInput =>
    \/ active[t].run # NoRun /\ active[t].stop /\ op[t].pc \notin Starting
    \/ op[t].pc = "next"
    \/ t \in stranded

\* What a step has claimed and not sent yet is in no other hands, was handed to
\* no run and is no longer pending.
HeldInv ==
  \A r \in Runs : \A i \in held[r] :
    /\ delivered[i] = {} /\ inbox[i].state # "pending"
    /\ \A t \in Threads : op[t].input # i
    /\ \A s \in Runs : i \in held[s] => s = r

InboxInv ==
  /\ RowInv /\ HandInv /\ RunInputInv /\ SteerInv /\ InterruptInv
  /\ HandedOverOnce /\ ClaimedInputsAccountedFor /\ HeldInv

-----------------------------------------------------------------------------
(* Fields and effects.                                                     *)

\* What the fields of rows, lock holders and run records range over.
LEMMA InboxFields ==
  ASSUME TypeOK
  PROVE  /\ \A i \in Inputs :
              /\ inbox[i].state \in {"none", "pending", "claimed", "cancelled"}
              /\ inbox[i].kind \in {"none", "followup", "steer", "inject"}
              /\ inbox[i].thread \in Threads \cup {NoThread}
              /\ inbox[i].target \in Runs \cup {NoRun}
         /\ \A t \in Threads :
              /\ op[t].pc \in {"free", "start"} \cup Starting \cup Finishing
              /\ InStart(t) => op[t].input \in Inputs /\ op[t].queued \in BOOLEAN
              /\ ~InStart(t) => op[t].input = NoInput /\ ~op[t].queued
         /\ \A r \in Runs : runs[r].input \in Inputs \cup {NoInput}
<1>1. \A i \in Inputs : /\ inbox[i].state \in {"none", "pending", "claimed", "cancelled"}
                        /\ inbox[i].kind \in {"none", "followup", "steer", "inject"}
                        /\ inbox[i].thread \in Threads \cup {NoThread}
                        /\ inbox[i].target \in Runs \cup {NoRun}
  BY DEF TypeOK, InboxRecord
<1>2. \A t \in Threads :
              /\ op[t].pc \in {"free", "start"} \cup Starting \cup Finishing
              /\ InStart(t) => op[t].input \in Inputs /\ op[t].queued \in BOOLEAN
              /\ ~InStart(t) => op[t].input = NoInput /\ ~op[t].queued
  BY DEF TypeOK, OpRecord, InStart, Starting, Finishing
<1>3. \A r \in Runs : runs[r].input \in Inputs \cup {NoInput}
  BY DEF TypeOK, RunRecord
<1> QED
  BY <1>1, <1>2, <1>3

\* The lock of t passes to pc with these hands; other locks are untouched.
Hands(t, pc, r, i, queued) ==
  /\ op'[t].pc = pc /\ op'[t].run = r /\ op'[t].input = i /\ op'[t].queued = queued
  /\ \A u \in Threads \ {t} : op'[u] = op[u]

\* What the assignments to op in the actions do.
LEMMA HandEffects ==
  ASSUME TypeOK, NEW t \in Threads
  PROVE  /\ op' = [op EXCEPT ![t] = Free] => Hands(t, "free", NoRun, NoInput, FALSE)
         /\ \A i : op' = [op EXCEPT ![t] = [Free EXCEPT !.pc = "start", !.input = i]]
                     => Hands(t, "start", NoRun, i, FALSE)
         /\ \A i : op' = [op EXCEPT ![t] = [Free EXCEPT !.pc = "start", !.input = i, !.queued = TRUE]]
                     => Hands(t, "start", NoRun, i, TRUE)
         /\ \A r : op' = [op EXCEPT ![t] = [Free EXCEPT !.pc = "finish", !.run = r]]
                     => Hands(t, "finish", r, NoInput, FALSE)
         /\ \A r : op' = [op EXCEPT ![t] = [@ EXCEPT !.pc = "record", !.run = r]]
                     => Hands(t, "record", r, op[t].input, op[t].queued)
         /\ \A pc \in {"project", "retarget", "release", "next"} :
              op' = [op EXCEPT ![t] = [@ EXCEPT !.pc = pc]]
                     => Hands(t, pc, op[t].run, op[t].input, op[t].queued)
<1>1. /\ DOMAIN op = Threads
      /\ DOMAIN op[t] = {"pc", "run", "input", "queued"}
  BY DEF TypeOK, OpRecord
<1>2. ASSUME NEW x, op' = [op EXCEPT ![t] = x]
      PROVE  op'[t] = x /\ \A u \in Threads \ {t} : op'[u] = op[u]
  BY <1>1, <1>2
<1>3. ASSUME op' = [op EXCEPT ![t] = Free] PROVE Hands(t, "free", NoRun, NoInput, FALSE)
  BY <1>2, <1>3 DEF Hands, Free
<1>4. ASSUME NEW i, op' = [op EXCEPT ![t] = [Free EXCEPT !.pc = "start", !.input = i]]
      PROVE  Hands(t, "start", NoRun, i, FALSE)
  BY <1>2, <1>4 DEF Hands, Free
<1>5. ASSUME NEW i,
             op' = [op EXCEPT ![t] = [Free EXCEPT !.pc = "start", !.input = i, !.queued = TRUE]]
      PROVE  Hands(t, "start", NoRun, i, TRUE)
  BY <1>2, <1>5 DEF Hands, Free
<1>6. ASSUME NEW r, op' = [op EXCEPT ![t] = [Free EXCEPT !.pc = "finish", !.run = r]]
      PROVE  Hands(t, "finish", r, NoInput, FALSE)
  BY <1>2, <1>6 DEF Hands, Free
<1>7. ASSUME NEW r, op' = [op EXCEPT ![t] = [@ EXCEPT !.pc = "record", !.run = r]]
      PROVE  Hands(t, "record", r, op[t].input, op[t].queued)
  BY <1>1, <1>2, <1>7 DEF Hands
<1>8. ASSUME NEW pc \in {"project", "retarget", "release", "next"},
             op' = [op EXCEPT ![t] = [@ EXCEPT !.pc = pc]]
      PROVE  Hands(t, pc, op[t].run, op[t].input, op[t].queued)
  BY <1>1, <1>2, <1>8 DEF Hands
<1> QED
  BY <1>3, <1>4, <1>5, <1>6, <1>7, <1>8

\* The row of i changes its state; other rows are untouched.
RowMoves(i, state) ==
  /\ inbox'[i].state = state /\ inbox'[i].kind = inbox[i].kind
  /\ inbox'[i].thread = inbox[i].thread /\ inbox'[i].target = inbox[i].target
  /\ \A j \in Inputs \ {i} : inbox'[j] = inbox[j]

\* What cancelling, claiming and putting back a row do.
LEMMA RowEffects ==
  ASSUME TypeOK, NEW i \in Inputs
  PROVE  \A state \in {"pending", "claimed", "cancelled"} :
           inbox' = [inbox EXCEPT ![i] = [@ EXCEPT !.state = state]] => RowMoves(i, state)
<1>1. DOMAIN inbox = Inputs /\ DOMAIN inbox[i] = {"state", "kind", "thread", "target"}
  BY DEF TypeOK, InboxRecord
<1> QED
  BY <1>1 DEF RowMoves

\* Unclaimed steers, of one run or of every run, become follow-ups.
Retargeted(i) ==
  /\ inbox'[i].state = "pending" /\ inbox'[i].kind = "followup"
  /\ inbox'[i].thread = inbox[i].thread /\ inbox'[i].target = NoRun

\* What control_retarget_pending_steers and the reconciliation do to the inbox.
LEMMA RetargetEffects ==
  ASSUME TypeOK, NEW i \in Inputs, inbox[i].state = "pending",
         inbox'[i] = [inbox[i] EXCEPT !.kind = "followup", !.target = NoRun]
  PROVE  Retargeted(i)
<1>1. DOMAIN inbox[i] = {"state", "kind", "thread", "target"}
  BY DEF TypeOK, InboxRecord
<1> QED
  BY <1>1 DEF Retargeted

\* Inputs, threads and owners of the run records stay.
RunsKeepInput ==
  \A r \in Runs : /\ runs'[r].input = runs[r].input /\ runs'[r].thread = runs[r].thread
                  /\ runs'[r].status = "none" <=> runs[r].status = "none"

\* A single status write keeps them.
LEMMA RunKeeps ==
  ASSUME TypeOK, NEW r \in Runs, runs[r].status # "none", NEW s, s # "none",
         \/ runs' = [runs EXCEPT ![r] = [@ EXCEPT !.status = s]]
         \/ runs' = [runs EXCEPT ![r] = [@ EXCEPT !.status = s, !.completed = TRUE]]
  PROVE  RunsKeepInput
<1>1. DOMAIN runs = Runs /\ DOMAIN runs[r] = {"status", "completed", "thread", "input"}
  BY DEF TypeOK, RunRecord
<1>2. runs'[r].input = runs[r].input /\ runs'[r].thread = runs[r].thread /\ runs'[r].status = s
  BY <1>1
<1>3. \A q \in Runs \ {r} : runs'[q] = runs[q]
  BY <1>1
<1> QED
  BY <1>2, <1>3 DEF RunsKeepInput

-----------------------------------------------------------------------------
(* Frames: steps that leave the rows alone.                                *)

\* A step that leaves the rows and every input in a lock holder's hands alone,
\* drops what a step has claimed only as lost, fills or empties no slot and
\* records no run.
LEMMA InboxFrame ==
  ASSUME TypeOK, InboxInv, InterruptInv', UNCHANGED <<exists, inbox, delivered>>, RunsKeepInput,
         \A r \in Runs : held'[r] \subseteq held[r] /\ held[r] \subseteq held'[r] \cup lost',
         lost \subseteq lost',
         \A t \in Threads : \/ op'[t] = op[t]
                            \/ /\ op[t].pc \in {"free"} \cup Finishing
                               /\ op'[t].pc \in {"free", "finish", "retarget"}
                               /\ op'[t].input = op[t].input,
         \A t \in Threads : active'[t].run = active[t].run /\ active'[t].steering = active[t].steering
  PROVE  InboxInv'
<1>0. \A t \in Threads : \/ op'[t] = op[t]
                         \/ ~InStart(t) /\ ~InStart(t)' /\ op'[t].pc # "release" /\ op[t].input = op'[t].input
  BY DEF InStart, Starting, Finishing
<1>1. RowInv'
  BY DEF InboxInv, RowInv
<1>2. HandInv'
  BY <1>0 DEF InboxInv, HandInv, InStart
<1>3. RunInputInv'
  <2>1. ASSUME NEW t \in Threads, op'[t].pc = "project", op'[t].queued, exists'[t]
        PROVE  runs'[op'[t].run].input = op'[t].input /\ runs'[op'[t].run].thread = t
    <3>1. op'[t] = op[t] /\ op[t].run \in Runs
      BY <1>0, <2>1, Fields DEF InStart, Starting
    <3> QED
      BY <2>1, <3>1 DEF InboxInv, RunInputInv, RunsKeepInput
  <2>2. ASSUME NEW r \in Runs
        PROVE  /\ runs'[r].status = "none" => runs'[r].input = NoInput
               /\ runs'[r].input \in Rows' => runs'[r].thread = inbox'[runs'[r].input].thread
    <3>1. Rows' = Rows
      BY DEF Rows
    <3> QED
      BY <3>1 DEF InboxInv, RunInputInv, RunsKeepInput
  <2> QED
    BY <2>1, <2>2 DEF RunInputInv
<1>4. SteerInv'
  <2> SUFFICES ASSUME NEW i \in Inputs, PendingSteer(i)
               PROVE  /\ inbox[i].target # NoRun
                      /\ active'[inbox[i].thread].run = inbox[i].target
                      /\ active'[inbox[i].thread].steering
                      /\ op'[inbox[i].thread].pc \notin Starting
                      /\ op'[inbox[i].thread].pc = "release" => op'[inbox[i].thread].run # inbox[i].target
    BY DEF SteerInv, PendingSteer
  <2>1. inbox[i].thread \in Threads
    BY DEF InboxInv, RowInv, PendingSteer
  <2> QED
    BY <1>0, <2>1 DEF InboxInv, SteerInv, InStart
<1>6. HandedOverOnce'
  BY DEF InboxInv, HandedOverOnce
<1>7. ClaimedInputsAccountedFor'
  BY <1>0 DEF InboxInv, ClaimedInputsAccountedFor, RunsKeepInput
<1>8. HeldInv'
  BY <1>0 DEF InboxInv, HeldInv
<1> QED
  BY <1>1, <1>2, <1>3, <1>4, <1>6, <1>7, <1>8 DEF InboxInv

-----------------------------------------------------------------------------
(* The steps of commands.                                                  *)

\* A new row: a follow-up, a steer of the active run or injected context.
LEMMA InboxPut ==
  ASSUME TypeOK, InboxInv, NEW t \in Threads, NEW i \in Inputs,
         NEW kind \in {"followup", "steer", "inject"}, NEW target \in Runs \cup {NoRun},
         LockFree(t), exists[t], FreshInput(i), PutInbox(t, i, kind, target),
         kind = "steer" => target = active[t].run /\ active[t].run # NoRun /\ active[t].steering,
         UNCHANGED <<exists, runs, active, queue_interrupts, op, delivered, held, lost, stranded>>
  PROVE  InboxInv'
<1>e. /\ inbox[i] = NoRow /\ inbox[i].state = "none" /\ delivered[i] = {} /\ op[t].pc = "free"
      /\ \A r \in Runs : runs[r].input # i /\ i \notin held[r]
      /\ \A u \in Threads : op[u].input # i
      /\ inbox'[i].state = "pending" /\ inbox'[i].kind = kind
      /\ inbox'[i].thread = t /\ inbox'[i].target = target
      /\ \A j \in Inputs \ {i} : inbox'[j] = inbox[j]
  BY DEF LockFree, FreshInput, NoRow, PutInbox, TypeOK
<1>1. RowInv'
  BY <1>e DEF InboxInv, RowInv
<1>2. HandInv'
  BY <1>e, InboxFields DEF InboxInv, HandInv, InStart
<1>3. RunInputInv'
  BY <1>e DEF InboxInv, RunInputInv, Rows
<1>4. SteerInv'
  <2> SUFFICES ASSUME NEW j \in Inputs, PendingSteer(j)'
               PROVE  /\ inbox'[j].target # NoRun
                      /\ active[inbox'[j].thread].run = inbox'[j].target
                      /\ active[inbox'[j].thread].steering
                      /\ op[inbox'[j].thread].pc \notin Starting
                      /\ op[inbox'[j].thread].pc = "release" => op[inbox'[j].thread].run # inbox'[j].target
    BY DEF SteerInv, PendingSteer
  <2>1. CASE j = i
    BY <1>e, <2>1 DEF PendingSteer, Starting
  <2>2. CASE j # i
    BY <1>e, <2>2 DEF InboxInv, SteerInv, PendingSteer
  <2> QED
    BY <2>1, <2>2
<1>5. InterruptInv'
  BY DEF InboxInv, InterruptInv
<1>6. HandedOverOnce'
  BY DEF InboxInv, HandedOverOnce
<1>7. ClaimedInputsAccountedFor'
  BY <1>e DEF InboxInv, ClaimedInputsAccountedFor
<1>8. HeldInv'
  <2>1. \A r \in Runs : \A j \in held[r] : j \in Inputs \ {i}
    BY <1>e DEF TypeOK
  <2>2. \A r \in Runs : \A j \in held[r] : inbox'[j] = inbox[j]
    BY <1>e, <2>1
  <2> QED
    BY <2>2 DEF InboxInv, HeldInv
<1> QED
  BY <1>1, <1>2, <1>3, <1>4, <1>5, <1>6, <1>7, <1>8 DEF InboxInv

\* A turn goes into the hands of an idle thread's lock holder.
LEMMA InboxSendTurn ==
  ASSUME TypeOK, InboxInv, NEW t \in Threads, NEW i \in Inputs, SendTurn(t, i)
  PROVE  InboxInv'
<1>e. /\ Hands(t, "start", NoRun, i, FALSE) /\ op[t].pc = "free" /\ op[t].input = NoInput
      /\ inbox[i].state = "none" /\ delivered[i] = {} /\ \A u \in Threads : op[u].input # i
      /\ \A r \in Runs : i \notin held[r]
      /\ UNCHANGED <<exists, runs, inbox, before, active, queue_interrupts, delivered, held, lost, stranded>>
  <2>1. Hands(t, "start", NoRun, i, FALSE)
    BY HandEffects DEF SendTurn
  <2>2. op[t].pc = "free" /\ op[t].input = NoInput
    BY InboxFields DEF SendTurn, LockFree, InStart, Starting
  <2>3. /\ inbox[i].state = "none" /\ delivered[i] = {} /\ \A u \in Threads : op[u].input # i
        /\ \A r \in Runs : i \notin held[r]
    BY DEF SendTurn, FreshInput, NoRow
  <2> QED
    BY <2>1, <2>2, <2>3 DEF SendTurn, durable
<1>1. RowInv'
  BY <1>e DEF InboxInv, RowInv
<1>2. HandInv'
  <2> SUFFICES ASSUME NEW u \in Threads, InStart(u)'
               PROVE  /\ delivered[op'[u].input] = {}
                      /\ \A v \in Threads : InStart(v)' /\ op'[v].input = op'[u].input => v = u
                      /\ IF op'[u].queued /\ exists[u]
                         THEN /\ inbox[op'[u].input].state = "claimed"
                              /\ inbox[op'[u].input].kind = "followup"
                              /\ inbox[op'[u].input].thread = u
                         ELSE inbox[op'[u].input].state = "none"
    BY <1>e DEF HandInv, InStart
  <2>1. CASE u = t
    BY <1>e, <2>1 DEF Hands
  <2>2. CASE u # t
    BY <1>e, <2>2 DEF Hands, InboxInv, HandInv, InStart
  <2> QED
    BY <2>1, <2>2
<1>3. RunInputInv'
  BY <1>e DEF InboxInv, RunInputInv, Hands, Rows
<1>4. SteerInv'
  BY <1>e DEF InboxInv, SteerInv, PendingSteer, RowInv, Hands, Starting
<1>5. InterruptInv'
  BY <1>e DEF InboxInv, InterruptInv, Hands, Starting
<1>6. HandedOverOnce'
  BY <1>e DEF InboxInv, HandedOverOnce
<1>7. ClaimedInputsAccountedFor'
  BY <1>e, ConstantsAssumption DEF InboxInv, ClaimedInputsAccountedFor, Hands
<1>8. HeldInv'
  BY <1>e, ConstantsAssumption DEF InboxInv, HeldInv, Hands, TypeOK
<1> QED
  BY <1>1, <1>2, <1>3, <1>4, <1>5, <1>6, <1>7, <1>8 DEF InboxInv

\* A pending row is deleted by its client.
LEMMA InboxCancel ==
  ASSUME TypeOK, InboxInv, NEW t \in Threads, NEW i \in Inputs,
         inbox[i].state = "pending", CancelInbox(i),
         UNCHANGED <<exists, runs, before, active, queue_interrupts, op, delivered, held, lost, stranded>>
  PROVE  InboxInv'
<1>e. RowMoves(i, "cancelled")
  BY RowEffects DEF CancelInbox
<1>1. RowInv'
  BY <1>e DEF InboxInv, RowInv, RowMoves
<1>2. HandInv'
  BY <1>e, InboxFields DEF InboxInv, HandInv, InStart, RowMoves
<1>3. RunInputInv'
  BY <1>e DEF InboxInv, RunInputInv, Rows, RowMoves
<1>4. SteerInv'
  BY <1>e DEF InboxInv, SteerInv, PendingSteer, RowMoves
<1>5. InterruptInv'
  BY DEF InboxInv, InterruptInv
<1>6. HandedOverOnce'
  BY DEF InboxInv, HandedOverOnce
<1>7. ClaimedInputsAccountedFor'
  BY <1>e DEF InboxInv, ClaimedInputsAccountedFor, RowMoves
<1>8. HeldInv'
  BY <1>e DEF InboxInv, HeldInv, RowMoves, TypeOK
<1> QED
  BY <1>1, <1>2, <1>3, <1>4, <1>5, <1>6, <1>7, <1>8 DEF InboxInv

\* A queued turn gets another place in the queue.
LEMMA InboxMove ==
  ASSUME TypeOK, InboxInv, NEW t \in Threads, NEW q \in Inputs, NEW target \in Inputs,
         NEW after \in BOOLEAN, MoveQueuedTurn(t, q, target, after)
  PROVE  InboxInv'
<1>e. UNCHANGED <<exists, runs, inbox, active, queue_interrupts, op, delivered, held, lost, stranded>>
  BY DEF MoveQueuedTurn, volatile
<1>1. RowInv' /\ HandInv'
  BY <1>e DEF InboxInv, RowInv, HandInv, InStart
<1>2. RunInputInv' /\ InterruptInv'
  BY <1>e DEF InboxInv, RunInputInv, Rows, InterruptInv
<1>3. SteerInv'
  BY <1>e DEF InboxInv, SteerInv, PendingSteer
<1>4. HandedOverOnce' /\ ClaimedInputsAccountedFor'
  BY <1>e DEF InboxInv, HandedOverOnce, ClaimedInputsAccountedFor
<1>5. HeldInv'
  BY <1>e DEF InboxInv, HeldInv
<1> QED
  BY <1>1, <1>2, <1>3, <1>4, <1>5 DEF InboxInv

\* A queued turn is claimed and goes into the hands of its thread's lock holder,
\* as a command or after the run that just gave its slot back.
LEMMA InboxClaimQueued ==
  ASSUME TypeOK, InboxInv, NEW t \in Threads, NEW q \in Queued(t), ClaimQueued(t, q),
         op[t].pc \in {"free"} \cup Finishing,
         \A i \in Inputs : PendingSteer(i) /\ inbox[i].thread = t => op[t].pc = "free" /\ active'[t] = active[t],
         InterruptInv',
         \A u \in Threads \ {t} : active'[u] = active[u],
         UNCHANGED <<exists, runs, delivered, held, lost>>
  PROVE  InboxInv'
<1>e. /\ q \in Inputs /\ inbox[q].state = "pending" /\ inbox[q].kind = "followup" /\ inbox[q].thread = t
      /\ Hands(t, "start", NoRun, q, TRUE) /\ RowMoves(q, "claimed")
      /\ ~InStart(t) /\ op[t].input = NoInput
  <2>1. q \in Inputs /\ inbox[q].state = "pending" /\ inbox[q].kind = "followup" /\ inbox[q].thread = t
    BY DEF Queued, Pending
  <2>2. ~InStart(t)
    BY DEF InStart, Starting, Finishing
  <2> QED
    BY <2>1, <2>2, HandEffects, RowEffects, InboxFields DEF ClaimQueued
<1>x. /\ delivered[q] = {} /\ exists[t] /\ \A u \in Threads : InStart(u) => op[u].input # q
      /\ \A r \in Runs : q \notin held[r]
  BY <1>e, InboxFields DEF InboxInv, RowInv, HandInv, HeldInv
<1>1. RowInv'
  BY <1>e DEF InboxInv, RowInv, RowMoves
<1>2. HandInv'
  <2> SUFFICES ASSUME NEW u \in Threads, InStart(u)'
               PROVE  /\ delivered[op'[u].input] = {}
                      /\ \A v \in Threads : InStart(v)' /\ op'[v].input = op'[u].input => v = u
                      /\ IF op'[u].queued /\ exists[u]
                         THEN /\ inbox'[op'[u].input].state = "claimed"
                              /\ inbox'[op'[u].input].kind = "followup"
                              /\ inbox'[op'[u].input].thread = u
                         ELSE inbox'[op'[u].input].state = "none"
    BY <1>e DEF HandInv, InStart
  <2>1. CASE u = t
    BY <1>e, <1>x, <2>1 DEF Hands, RowMoves, InStart
  <2>2. CASE u # t
    <3>1. op'[u] = op[u] /\ InStart(u) /\ op[u].input # q /\ op[u].input \in Inputs
      BY <1>e, <1>x, <2>2, InboxFields DEF Hands, InStart
    <3>2. inbox'[op[u].input] = inbox[op[u].input]
      BY <1>e, <3>1 DEF RowMoves
    <3> QED
      BY <1>e, <2>2, <3>1, <3>2 DEF Hands, InboxInv, HandInv, InStart
  <2> QED
    BY <2>1, <2>2
<1>3. RunInputInv'
  <2>1. Rows' = Rows
    BY <1>e DEF Rows, RowMoves
  <2>2. \A i \in Inputs : inbox'[i].thread = inbox[i].thread
    BY <1>e DEF RowMoves
  <2> QED
    BY <1>e, <2>1, <2>2 DEF InboxInv, RunInputInv, Hands, Rows
<1>4. SteerInv'
  <2> SUFFICES ASSUME NEW j \in Inputs, PendingSteer(j)'
               PROVE  /\ inbox'[j].target # NoRun
                      /\ active'[inbox'[j].thread].run = inbox'[j].target
                      /\ active'[inbox'[j].thread].steering
                      /\ op'[inbox'[j].thread].pc \notin Starting
                      /\ op'[inbox'[j].thread].pc = "release" => op'[inbox'[j].thread].run # inbox'[j].target
    BY DEF SteerInv, PendingSteer
  <2>1. inbox'[j] = inbox[j] /\ PendingSteer(j) /\ inbox[j].thread \in Threads
    BY <1>e DEF PendingSteer, RowMoves, InboxInv, RowInv
  <2>2. CASE inbox[j].thread = t
    BY <1>e, <2>1, <2>2 DEF InboxInv, SteerInv, Hands, Starting
  <2>3. CASE inbox[j].thread # t
    BY <1>e, <2>1, <2>3 DEF InboxInv, SteerInv, Hands
  <2> QED
    BY <2>2, <2>3
<1>6. HandedOverOnce'
  BY DEF InboxInv, HandedOverOnce
<1>7. ClaimedInputsAccountedFor'
  <2> SUFFICES ASSUME NEW i \in Inputs, inbox'[i].state = "claimed", delivered[i] = {}, i \notin lost,
                      \A r \in Runs : runs[r].input # i /\ i \notin held[r]
               PROVE  \E u \in Threads : op'[u].input = i
    BY DEF ClaimedInputsAccountedFor
  <2>1. CASE i = q
    BY <1>e, <2>1 DEF Hands
  <2>2. CASE i # q
    BY <1>e, <2>2, ConstantsAssumption DEF InboxInv, ClaimedInputsAccountedFor, Hands, RowMoves
  <2> QED
    BY <2>1, <2>2
<1>8. HeldInv'
  BY <1>e, <1>x DEF InboxInv, HeldInv, RowMoves, Hands, TypeOK
<1> QED
  BY <1>1, <1>2, <1>3, <1>4, <1>6, <1>7, <1>8 DEF InboxInv

\* The thread's rows and run records are deleted with it.
LEMMA InboxDeleteThread ==
  ASSUME TypeOK, InboxInv, NEW t \in Threads, DeleteThreadCommit(t)
  PROVE  InboxInv'
<1>e. /\ \A u \in Threads : exists'[u] = (IF u = t THEN FALSE ELSE exists[u])
      /\ \A r \in Runs : runs'[r] = (IF runs[r].thread = t THEN NoRecord ELSE runs[r])
      /\ \A i \in Inputs : inbox'[i] = (IF inbox[i].thread = t THEN NoRow ELSE inbox[i])
      /\ UNCHANGED <<active, queue_interrupts, op, delivered, held, lost, stranded>>
  BY DEF DeleteThreadCommit, TypeOK
<1>n. /\ NoRow.state = "none" /\ NoRow.thread = NoThread /\ NoThread \notin Threads
      /\ NoRecord.input = NoInput /\ NoInput \notin Inputs
  BY ConstantsAssumption DEF NoRow, NoRecord
<1>r. \A i \in Inputs : inbox'[i].state # "none" => inbox[i].thread # t /\ inbox'[i] = inbox[i]
  BY <1>e, <1>n
<1>1. RowInv'
  BY <1>e, <1>n DEF InboxInv, RowInv
<1>2. HandInv'
  <2> SUFFICES ASSUME NEW u \in Threads, InStart(u)
               PROVE  /\ delivered[op[u].input] = {}
                      /\ \A v \in Threads : InStart(v) /\ op[v].input = op[u].input => v = u
                      /\ IF op[u].queued /\ exists'[u]
                         THEN /\ inbox'[op[u].input].state = "claimed"
                              /\ inbox'[op[u].input].kind = "followup"
                              /\ inbox'[op[u].input].thread = u
                         ELSE inbox'[op[u].input].state = "none"
    BY <1>e DEF HandInv, InStart
  <2>1. op[u].input \in Inputs
    BY InboxFields
  <2>2. CASE u = t
    BY <1>e, <1>n, <2>1, <2>2 DEF InboxInv, HandInv
  <2>3. CASE u # t
    <3>1. exists'[u] = exists[u]
      BY <1>e, <2>3
    <3>2. CASE op[u].queued /\ exists[u]
      <4>1. inbox[op[u].input].state = "claimed" /\ inbox[op[u].input].kind = "followup"
            /\ inbox[op[u].input].thread = u
        BY <3>2 DEF InboxInv, HandInv
      <4>2. inbox'[op[u].input] = inbox[op[u].input]
        BY <1>e, <2>1, <2>3, <4>1
      <4> QED
        BY <3>1, <3>2, <4>1, <4>2 DEF InboxInv, HandInv
    <3>3. CASE ~(op[u].queued /\ exists[u])
      <4>1. inbox[op[u].input].state = "none"
        BY <3>3 DEF InboxInv, HandInv
      <4>2. inbox'[op[u].input].state = "none"
        BY <1>e, <1>n, <2>1, <4>1
      <4> QED
        BY <3>1, <3>3, <4>2 DEF InboxInv, HandInv
    <3> QED
      BY <3>2, <3>3
  <2> QED
    BY <2>2, <2>3
<1>3. RunInputInv'
  <2>1. ASSUME NEW u \in Threads, op[u].pc = "project", op[u].queued, exists'[u]
        PROVE  runs'[op[u].run].input = op[u].input /\ runs'[op[u].run].thread = u
    BY ZenonT(40), <1>e, <2>1, Fields DEF InboxInv, RunInputInv, Starting
  <2>2. ASSUME NEW r \in Runs
        PROVE  /\ runs'[r].status = "none" => runs'[r].input = NoInput
               /\ runs'[r].input \in Rows' => runs'[r].thread = inbox'[runs'[r].input].thread
    <3>1. Rows' \subseteq Rows /\ Rows' \subseteq Inputs
      BY <1>r DEF Rows
    <3>2. CASE runs[r].thread = t
      BY <1>e, <1>n, <3>1, <3>2
    <3>3. CASE runs[r].thread # t
      BY <1>e, <1>r, <3>1, <3>3 DEF InboxInv, RunInputInv, Rows
    <3> QED
      BY <3>2, <3>3
  <2> QED
    BY <1>e, <2>1, <2>2 DEF RunInputInv
<1>4. SteerInv'
  BY <1>e, <1>n, <1>r DEF InboxInv, SteerInv, PendingSteer
<1>5. InterruptInv'
  BY <1>e DEF InboxInv, InterruptInv
<1>6. HandedOverOnce'
  BY <1>e DEF InboxInv, HandedOverOnce
<1>7. ClaimedInputsAccountedFor'
  <2> SUFFICES ASSUME NEW i \in Inputs, inbox'[i].state = "claimed", delivered[i] = {}, i \notin lost,
                      \A u \in Threads : op[u].input # i, \A r \in Runs : i \notin held[r]
               PROVE  \E r \in Runs : runs'[r].input = i
    BY <1>e DEF ClaimedInputsAccountedFor
  <2>1. inbox[i].state = "claimed" /\ inbox[i].thread # t
    BY <1>r
  <2>2. PICK r \in Runs : runs[r].input = i
    BY <2>1 DEF InboxInv, ClaimedInputsAccountedFor
  <2>3. runs[r].thread = inbox[i].thread
    BY <2>1, <2>2 DEF InboxInv, RunInputInv, Rows
  <2> QED
    BY <1>e, <2>1, <2>2, <2>3
<1>8. HeldInv'
  <2>1. \A r \in Runs : \A i \in held[r] : inbox'[i].state # "pending"
    BY <1>r DEF InboxInv, HeldInv, TypeOK
  <2> QED
    BY <1>e, <2>1 DEF InboxInv, HeldInv
<1> QED
  BY <1>1, <1>2, <1>3, <1>4, <1>5, <1>6, <1>7, <1>8 DEF InboxInv

-----------------------------------------------------------------------------
(* The steps of a lock holder.                                             *)

\* A start that failed: the input leaves the hands, and a claimed turn of a thread
\* that still exists is pending again.  The slot is free afterwards.
LEMMA InboxStartFailed ==
  ASSUME TypeOK, InboxInv, NEW t \in Threads, InStart(t), StartFailed(t), RunsKeepInput,
         \A u \in Threads \ {t} : active'[u] = active[u],
         op[t].pc = "start" => active' = active,
         UNCHANGED <<exists, before, queue_interrupts, delivered, held, lost, stranded>>
  PROVE  InboxInv'
<1> DEFINE i == op[t].input
<1>e. /\ Hands(t, "free", NoRun, NoInput, FALSE)
      /\ i \in Inputs /\ delivered[i] = {}
      /\ \A u \in Threads : InStart(u) /\ op[u].input = i => u = t
  BY HandEffects, InboxFields DEF StartFailed, InboxInv, HandInv
<1>r. \/ /\ RowMoves(i, "pending") /\ inbox[i].state = "claimed" /\ inbox[i].kind = "followup"
         /\ exists[t] /\ inbox[i].thread = t
      \/ inbox' = inbox /\ inbox[i].state = "none"
  <2>1. CASE op[t].queued /\ exists[t]
    <3>1. inbox[i].state = "claimed" /\ inbox[i].kind = "followup" /\ inbox[i].thread = t
      BY <2>1 DEF InboxInv, HandInv
    <3>2. RowMoves(i, "pending")
      BY <1>e, <2>1, RowEffects DEF StartFailed
    <3> QED
      BY <2>1, <3>1, <3>2
  <2>2. CASE ~(op[t].queued /\ exists[t])
    BY <2>2 DEF StartFailed, InboxInv, HandInv
  <2> QED
    BY <2>1, <2>2
<1> HIDE DEF i
<1>s. \A j \in Inputs \ {i} : inbox'[j] = inbox[j]
  BY <1>r DEF RowMoves
<1>t. \A j \in Inputs : /\ inbox'[j].thread = inbox[j].thread
                        /\ inbox'[j].state = "none" <=> inbox[j].state = "none"
  BY <1>r DEF RowMoves
<1>1. RowInv'
  BY <1>e, <1>r, <1>s DEF InboxInv, RowInv, RowMoves
<1>2. HandInv'
  <2> SUFFICES ASSUME NEW u \in Threads, InStart(u)'
               PROVE  /\ delivered[op'[u].input] = {}
                      /\ \A v \in Threads : InStart(v)' /\ op'[v].input = op'[u].input => v = u
                      /\ IF op'[u].queued /\ exists[u]
                         THEN /\ inbox'[op'[u].input].state = "claimed"
                              /\ inbox'[op'[u].input].kind = "followup"
                              /\ inbox'[op'[u].input].thread = u
                         ELSE inbox'[op'[u].input].state = "none"
    BY <1>e DEF HandInv, InStart
  <2>1. u # t /\ op'[u] = op[u] /\ InStart(u)
    BY <1>e DEF Hands, InStart, Starting
  <2>2. op[u].input # i /\ op[u].input \in Inputs
    BY <1>e, <2>1, InboxFields
  <2>3. inbox'[op[u].input] = inbox[op[u].input]
    BY <1>s, <2>2
  <2> QED
    BY <1>e, <2>1, <2>3 DEF Hands, InboxInv, HandInv, InStart, Starting
<1>3. RunInputInv'
  <2>1. ASSUME NEW u \in Threads, op'[u].pc = "project", op'[u].queued, exists'[u]
        PROVE  runs'[op'[u].run].input = op'[u].input /\ runs'[op'[u].run].thread = u
    <3>1. op'[u] = op[u] /\ op[u].run \in Runs
      BY <1>e, <2>1, Fields DEF Hands, Starting
    <3> QED
      BY <2>1, <3>1 DEF InboxInv, RunInputInv, RunsKeepInput
  <2>2. Rows' = Rows
    BY <1>t DEF Rows
  <2> QED
    BY <1>t, <2>1, <2>2 DEF InboxInv, RunInputInv, RunsKeepInput, Rows
<1>4. SteerInv'
  <2> SUFFICES ASSUME NEW j \in Inputs, PendingSteer(j)'
               PROVE  /\ inbox'[j].target # NoRun
                      /\ active'[inbox'[j].thread].run = inbox'[j].target
                      /\ active'[inbox'[j].thread].steering
                      /\ op'[inbox'[j].thread].pc \notin Starting
                      /\ op'[inbox'[j].thread].pc = "release" => op'[inbox'[j].thread].run # inbox'[j].target
    BY DEF SteerInv, PendingSteer
  <2>1. inbox'[j] = inbox[j] /\ PendingSteer(j) /\ inbox[j].thread \in Threads
    BY <1>r, <1>s DEF PendingSteer, RowMoves, InboxInv, RowInv
  <2>2. CASE inbox[j].thread = t
    <3>1. op[t].pc = "start"
      BY <2>1, <2>2 DEF InboxInv, SteerInv, InStart
    <3> QED
      BY <1>e, <2>1, <2>2, <3>1 DEF InboxInv, SteerInv, Hands, Starting
  <2>3. CASE inbox[j].thread # t
    BY <1>e, <2>1, <2>3 DEF InboxInv, SteerInv, Hands
  <2> QED
    BY <2>2, <2>3
<1>5. InterruptInv'
  <2>1. queue_interrupts[t] # NoInput => (op[t].pc = "start" /\ active' = active) \/ t \in stranded
    BY DEF InboxInv, InterruptInv, InStart, Starting
  <2> QED
    BY <1>e, <2>1 DEF InboxInv, InterruptInv, Hands, Starting
<1>6. HandedOverOnce'
  BY DEF InboxInv, HandedOverOnce
<1>7. ClaimedInputsAccountedFor'
  <2> SUFFICES ASSUME NEW j \in Inputs, inbox'[j].state = "claimed", delivered[j] = {}, j \notin lost,
                      \A r \in Runs : runs'[r].input # j /\ j \notin held[r]
               PROVE  \E u \in Threads : op'[u].input = j
    BY DEF ClaimedInputsAccountedFor
  <2>1. j # i /\ inbox[j].state = "claimed"
    BY <1>r, <1>s DEF RowMoves
  <2>2. PICK u \in Threads : op[u].input = j
    BY <2>1 DEF InboxInv, ClaimedInputsAccountedFor, RunsKeepInput
  <2>3. u # t
    BY <2>1, <2>2 DEF i
  <2> QED
    BY <1>e, <2>2, <2>3 DEF Hands
<1>8. HeldInv'
  <2>1. \A r \in Runs : i \notin held[r] /\ held[r] \subseteq Inputs
    BY DEF InboxInv, HeldInv, TypeOK, i
  <2>2. \A r \in Runs : \A j \in held[r] : inbox'[j] = inbox[j]
    BY <1>s, <2>1
  <2> QED
    BY <1>e, <2>1, <2>2, ConstantsAssumption DEF InboxInv, HeldInv, Hands
<1> QED
  BY <1>1, <1>2, <1>3, <1>4, <1>5, <1>6, <1>7, <1>8 DEF InboxInv

\* The slot is reserved for the input in hand.
LEMMA InboxReserveSlot ==
  ASSUME TypeOK, InboxInv, NEW t \in Threads, NEW r \in Runs, NEW steering \in BOOLEAN,
         ReserveSlot(t, r, steering)
  PROVE  InboxInv'
<1>e. /\ Hands(t, "record", r, op[t].input, op[t].queued)
      /\ op[t].pc = "start" /\ active[t].run = NoRun /\ \A u \in Threads \ {t} : active'[u] = active[u]
      /\ UNCHANGED <<exists, runs, inbox, before, queue_interrupts, delivered, held, lost, stranded>>
  <2>1. Hands(t, "record", r, op[t].input, op[t].queued)
    BY HandEffects DEF ReserveSlot
  <2>2. active[t].run = NoRun /\ \A u \in Threads \ {t} : active'[u] = active[u]
    BY DEF ReserveSlot, Busy, TypeOK
  <2> QED
    BY <2>1, <2>2 DEF ReserveSlot, durable
<1>0. \A u \in Threads : /\ op'[u].input = op[u].input /\ op'[u].queued = op[u].queued
                         /\ InStart(u)' <=> InStart(u)
  BY <1>e DEF Hands, InStart, Starting
<1>1. RowInv' /\ HandedOverOnce'
  BY <1>e DEF InboxInv, RowInv, HandedOverOnce
<1>2. HandInv'
  BY <1>0, <1>e DEF InboxInv, HandInv
<1>3. RunInputInv'
  BY <1>e DEF InboxInv, RunInputInv, Hands, Rows
<1>4. SteerInv'
  <2> SUFFICES ASSUME NEW j \in Inputs, PendingSteer(j)
               PROVE  /\ inbox[j].target # NoRun
                      /\ active'[inbox[j].thread].run = inbox[j].target
                      /\ active'[inbox[j].thread].steering
                      /\ op'[inbox[j].thread].pc \notin Starting
                      /\ op'[inbox[j].thread].pc = "release" => op'[inbox[j].thread].run # inbox[j].target
    BY <1>e DEF SteerInv, PendingSteer
  <2>1. inbox[j].thread \in Threads
    BY DEF PendingSteer, InboxInv, RowInv
  <2>2. inbox[j].thread # t
    BY <1>e DEF InboxInv, SteerInv
  <2> QED
    BY <1>e, <2>1, <2>2 DEF InboxInv, SteerInv, Hands
<1>5. InterruptInv'
  <2>1. queue_interrupts[t] = NoInput \/ t \in stranded
    BY <1>e DEF InboxInv, InterruptInv
  <2> QED
    BY <1>e, <2>1 DEF InboxInv, InterruptInv, Hands
<1>7. ClaimedInputsAccountedFor'
  BY <1>0, <1>e DEF InboxInv, ClaimedInputsAccountedFor
<1>8. HeldInv'
  BY <1>0, <1>e DEF InboxInv, HeldInv
<1> QED
  BY <1>1, <1>2, <1>3, <1>4, <1>5, <1>7, <1>8 DEF InboxInv

\* The run record of the input in hand is written.
LEMMA InboxRecordRun ==
  ASSUME TypeOK, SlotInv, InboxInv, NEW t \in Threads, RecordRun(t)
  PROVE  InboxInv'
<1> DEFINE r == op[t].run
<1>e. /\ Hands(t, "project", r, op[t].input, op[t].queued)
      /\ op[t].pc = "record" /\ exists[t] /\ r \in Runs /\ op[t].input \in Inputs /\ InStart(t)
      /\ runs'[r].status = "accepted" /\ runs'[r].thread = t /\ runs'[r].input = op[t].input
      /\ \A s \in Runs \ {r} : runs'[s] = runs[s]
      /\ UNCHANGED <<exists, inbox, before, active, queue_interrupts, delivered, held, lost, stranded>>
  <2>1. Hands(t, "project", r, op[t].input, op[t].queued)
    BY HandEffects DEF RecordRun
  <2>2. InStart(t) /\ r \in Runs /\ op[t].input \in Inputs
    BY Fields, InboxFields DEF RecordRun, InStart, Starting
  <2>3. /\ runs'[r].status = "accepted" /\ runs'[r].thread = t /\ runs'[r].input = op[t].input
        /\ \A s \in Runs \ {r} : runs'[s] = runs[s]
    BY <2>2 DEF RecordRun, TypeOK
  <2> QED
    BY <2>1, <2>2, <2>3 DEF RecordRun
<1>f. runs[r].input = NoInput /\ \A u \in Threads \ {t} : op[u].pc = "project" => op[u].run # r
  <2>1. runs[r].input = NoInput
    BY <1>e DEF SlotInv, SlotStart, InboxInv, RunInputInv
  <2>2. active[t].run = r /\ active[t].run # NoRun
    BY <1>e, ConstantsAssumption DEF SlotInv, SlotStart, Starting
  <2>3. \A u \in Threads : op[u].pc = "project" => active[u].run = op[u].run
    BY DEF SlotInv, SlotStart, Starting
  <2> QED
    BY <2>1, <2>2, <2>3 DEF SlotInv, SlotUnique
<1> HIDE DEF r
<1>0. \A u \in Threads : /\ op'[u].input = op[u].input /\ op'[u].queued = op[u].queued
                         /\ InStart(u)' <=> InStart(u)
                         /\ op'[u].pc = "release" => op'[u] = op[u]
                         /\ op'[u].pc = "next" <=> op[u].pc = "next"
                         /\ op'[u].pc \in Starting <=> op[u].pc \in Starting
  BY <1>e DEF Hands, InStart, Starting
<1>1. RowInv' /\ HandedOverOnce'
  BY <1>e DEF InboxInv, RowInv, HandedOverOnce
<1>2. HandInv'
  BY <1>0, <1>e DEF InboxInv, HandInv
<1>3. RunInputInv'
  <2>1. ASSUME NEW u \in Threads, op'[u].pc = "project", op'[u].queued, exists'[u]
        PROVE  runs'[op'[u].run].input = op'[u].input /\ runs'[op'[u].run].thread = u
    <3>1. CASE u = t
      BY <1>e, <3>1 DEF Hands
    <3>2. CASE u # t
      <4>1. op'[u] = op[u] /\ op[u].run \in Runs /\ op[u].run # r
        BY <1>e, <1>f, <2>1, <3>2, Fields DEF Hands, Starting
      <4> QED
        BY <1>e, <2>1, <4>1 DEF InboxInv, RunInputInv
    <3> QED
      BY <3>1, <3>2
  <2>2. op[t].input \in Rows => inbox[op[t].input].thread = t
    BY <1>e DEF InboxInv, HandInv, Rows
  <2>3. Rows' = Rows
    BY <1>e DEF Rows
  <2>4. ASSUME NEW s \in Runs
        PROVE  /\ runs'[s].status = "none" => runs'[s].input = NoInput
               /\ runs'[s].input \in Rows' => runs'[s].thread = inbox'[runs'[s].input].thread
    BY <1>e, <2>2, <2>3 DEF InboxInv, RunInputInv
  <2> QED
    BY <2>1, <2>4 DEF RunInputInv
<1>4. SteerInv'
  BY <1>0, <1>e DEF InboxInv, SteerInv, PendingSteer, RowInv
<1>5. InterruptInv'
  BY <1>0, <1>e DEF InboxInv, InterruptInv
<1>7. ClaimedInputsAccountedFor'
  <2>1. \A s \in Runs, i \in Inputs : runs[s].input = i => runs'[s].input = i
    BY <1>e, <1>f, ConstantsAssumption
  <2> QED
    BY <1>0, <1>e, <2>1 DEF InboxInv, ClaimedInputsAccountedFor
<1>8. HeldInv'
  BY <1>0, <1>e DEF InboxInv, HeldInv
<1> QED
  BY <1>1, <1>2, <1>3, <1>4, <1>5, <1>7, <1>8 DEF InboxInv

\* The run is launched: the input in hand is handed over to it.
LEMMA InboxLaunchRun ==
  ASSUME TypeOK, InboxInv, NEW t \in Threads, LaunchRun(t)
  PROVE  InboxInv'
<1> DEFINE i == op[t].input
<1>e. /\ Hands(t, "free", NoRun, NoInput, FALSE) /\ InStart(t) /\ i \in Inputs
      /\ op[t].pc \in Starting
      /\ delivered[i] = {} /\ inbox[i].state \in {"none", "claimed"}
      /\ \A u \in Threads : InStart(u) /\ op[u].input = i => u = t
      /\ delivered'[i] = {op[t].run}
      /\ \A j \in Inputs \ {i} : delivered'[j] = delivered[j]
      /\ UNCHANGED <<exists, runs, inbox, before, active, queue_interrupts, held, lost, stranded>>
  <2>1. Hands(t, "free", NoRun, NoInput, FALSE)
    BY HandEffects DEF LaunchRun
  <2>2. InStart(t) /\ i \in Inputs /\ op[t].pc \in Starting
    BY InboxFields DEF LaunchRun, InStart, Starting
  <2>3. /\ delivered[i] = {} /\ inbox[i].state \in {"none", "claimed"}
        /\ \A u \in Threads : InStart(u) /\ op[u].input = i => u = t
    BY <2>2 DEF InboxInv, HandInv
  <2>4. delivered'[i] = {op[t].run} /\ \A j \in Inputs \ {i} : delivered'[j] = delivered[j]
    BY <2>2, <2>3 DEF LaunchRun, TypeOK
  <2> QED
    BY <2>1, <2>2, <2>3, <2>4 DEF LaunchRun, durable
<1> HIDE DEF i
<1>0. \A u \in Threads : InStart(u)' => u # t /\ op'[u] = op[u] /\ InStart(u) /\ op[u].input # i
                                       /\ op[u].input \in Inputs
  BY <1>e, InboxFields DEF Hands, InStart, Starting
<1>1. RowInv'
  BY <1>e DEF InboxInv, RowInv
<1>2. HandInv'
  BY <1>0, <1>e DEF InboxInv, HandInv
<1>3. RunInputInv'
  BY <1>0, <1>e DEF InboxInv, RunInputInv, Rows, InStart, Starting
<1>4. SteerInv'
  BY <1>e DEF InboxInv, SteerInv, PendingSteer, RowInv, Hands, Starting
<1>5. InterruptInv'
  BY <1>e DEF InboxInv, InterruptInv, Hands, Starting
<1>6. HandedOverOnce'
  <2> SUFFICES ASSUME NEW j \in Inputs PROVE \A r, s \in delivered'[j] : r = s
    BY DEF HandedOverOnce
  <2>1. CASE j = i
    BY <1>e, <2>1
  <2>2. CASE j # i
    BY <1>e, <2>2 DEF InboxInv, HandedOverOnce
  <2> QED
    BY <2>1, <2>2
<1>7. ClaimedInputsAccountedFor'
  <2> SUFFICES ASSUME NEW j \in Inputs, inbox[j].state = "claimed", delivered'[j] = {}, j \notin lost,
                      \A r \in Runs : runs[r].input # j /\ j \notin held[r]
               PROVE  \E u \in Threads : op'[u].input = j
    BY <1>e DEF ClaimedInputsAccountedFor
  <2>1. j # i /\ delivered[j] = {}
    BY <1>e
  <2>2. PICK u \in Threads : op[u].input = j
    BY <2>1 DEF InboxInv, ClaimedInputsAccountedFor
  <2>3. u # t
    BY <2>1, <2>2 DEF i
  <2> QED
    BY <1>e, <2>2, <2>3 DEF Hands
<1>8. HeldInv'
  <2>1. \A r \in Runs : i \notin held[r] /\ held[r] \subseteq Inputs
    BY DEF InboxInv, HeldInv, TypeOK, i
  <2> QED
    BY <1>e, <2>1, ConstantsAssumption DEF InboxInv, HeldInv, Hands
<1> QED
  BY <1>1, <1>2, <1>3, <1>4, <1>5, <1>6, <1>7, <1>8 DEF InboxInv

\* Unclaimed steers become queued turns; nothing else in the inbox changes.
RowsRetargeted == \A i \in Inputs : inbox'[i] = inbox[i] \/ (PendingSteer(i) /\ Retargeted(i))

\* What such a step leaves true by itself.
LEMMA RetargetKeeps ==
  ASSUME TypeOK, InboxInv, RowsRetargeted, UNCHANGED <<exists, delivered>>
  PROVE  /\ RowInv' /\ Rows' = Rows
         /\ \A i \in Inputs : /\ inbox'[i].state = inbox[i].state /\ inbox'[i].thread = inbox[i].thread
                              /\ inbox[i].state # "pending" => inbox'[i] = inbox[i]
<1>1. \A i \in Inputs : /\ inbox'[i].state = inbox[i].state /\ inbox'[i].thread = inbox[i].thread
                        /\ inbox[i].state # "pending" => inbox'[i] = inbox[i]
  BY DEF RowsRetargeted, Retargeted, PendingSteer
<1>2. RowInv'
  BY <1>1 DEF InboxInv, RowInv
<1>4. Rows' = Rows
  BY <1>1 DEF Rows
<1> QED
  BY <1>1, <1>2, <1>4

\* finish_run retargets the steers its run did not claim: none is left on the
\* thread, whose slot is the run's.
LEMMA InboxFinishRetarget ==
  ASSUME TypeOK, SlotInv, InboxInv, NEW t \in Threads, FinishRetarget(t)
  PROVE  InboxInv'
<1>e. /\ Hands(t, "release", op[t].run, op[t].input, op[t].queued) /\ op[t].pc = "retarget"
      /\ UNCHANGED <<exists, runs, before, active, queue_interrupts, delivered, held, lost, stranded>>
  <2>1. Hands(t, "release", op[t].run, op[t].input, op[t].queued)
    BY HandEffects DEF FinishRetarget
  <2>2. op[t].run \in Runs /\ op[t].pc = "retarget"
    BY Fields DEF FinishRetarget, Finishing
  <2> QED
    BY <2>1, <2>2 DEF FinishRetarget
<1>r. /\ RowsRetargeted
      /\ \A i \in Inputs : PendingSteer(i) /\ inbox[i].target = op[t].run => Retargeted(i)
  <2> SUFFICES ASSUME NEW i \in Inputs
               PROVE  /\ inbox'[i] = inbox[i] \/ (PendingSteer(i) /\ Retargeted(i))
                      /\ PendingSteer(i) /\ inbox[i].target = op[t].run => Retargeted(i)
    BY DEF RowsRetargeted
  <2>1. CASE PendingSteer(i) /\ inbox[i].target = op[t].run
    BY <2>1, RetargetEffects DEF FinishRetarget, PendingSteer
  <2>2. CASE ~(PendingSteer(i) /\ inbox[i].target = op[t].run)
    BY <2>2 DEF FinishRetarget, PendingSteer
  <2> QED
    BY <2>1, <2>2
<1>k. /\ RowInv' /\ Rows' = Rows
      /\ \A i \in Inputs : /\ inbox'[i].state = inbox[i].state /\ inbox'[i].thread = inbox[i].thread
                           /\ inbox[i].state # "pending" => inbox'[i] = inbox[i]
  BY <1>e, <1>r, RetargetKeeps
<1>0. \A u \in Threads : /\ op'[u].input = op[u].input /\ op'[u].queued = op[u].queued
                         /\ InStart(u)' <=> InStart(u)
                         /\ InStart(u)' => op'[u] = op[u]
  BY <1>e DEF Hands, InStart, Starting
<1>2. HandInv'
  <2>1. \A u \in Threads : InStart(u) => op[u].input \in Inputs /\ inbox[op[u].input].state # "pending"
    BY InboxFields DEF InboxInv, HandInv
  <2> QED
    BY <1>0, <1>e, <1>k, <2>1 DEF InboxInv, HandInv
<1>3. RunInputInv'
  BY <1>0, <1>e, <1>k DEF InboxInv, RunInputInv, InStart, Starting, Rows
<1>4. SteerInv'
  <2> SUFFICES ASSUME NEW j \in Inputs, PendingSteer(j)'
               PROVE  /\ inbox'[j].target # NoRun
                      /\ active[inbox'[j].thread].run = inbox'[j].target
                      /\ active[inbox'[j].thread].steering
                      /\ op'[inbox'[j].thread].pc \notin Starting
                      /\ op'[inbox'[j].thread].pc = "release" => op'[inbox'[j].thread].run # inbox'[j].target
    BY <1>e DEF SteerInv, PendingSteer
  <2>1. PendingSteer(j) /\ inbox'[j] = inbox[j] /\ inbox[j].target # op[t].run
    BY <1>r DEF RowsRetargeted, Retargeted, PendingSteer
  <2>2. inbox[j].thread \in Threads
    BY <2>1 DEF InboxInv, RowInv, PendingSteer
  <2> QED
    BY <1>e, <2>1, <2>2 DEF InboxInv, SteerInv, Hands, Starting
<1>5. InterruptInv'
  BY <1>e DEF InboxInv, InterruptInv, Hands, Starting
<1>6. HandedOverOnce'
  BY <1>e DEF InboxInv, HandedOverOnce
<1>7. ClaimedInputsAccountedFor'
  BY <1>0, <1>e, <1>k DEF InboxInv, ClaimedInputsAccountedFor
<1>8. HeldInv'
  <2>1. \A r \in Runs : held[r] \subseteq Inputs
    BY DEF TypeOK
  <2> QED
    BY <1>0, <1>e, <1>k, <2>1 DEF InboxInv, HeldInv
<1> QED
  BY <1>k, <1>2, <1>3, <1>4, <1>5, <1>6, <1>7, <1>8 DEF InboxInv

\* finish_run frees the slot, or leaves it to the run that holds it by now.
LEMMA InboxFinishRelease ==
  ASSUME TypeOK, SlotInv, InboxInv, NEW t \in Threads, FinishRelease(t)
  PROVE  InboxInv'
<1>e. /\ op[t].pc = "release" /\ op[t].run \in Runs /\ op[t].input = NoInput /\ ~InStart(t)
      /\ UNCHANGED <<exists, runs, inbox, queue_interrupts, delivered, held, lost, stranded>>
  BY Fields, InboxFields DEF FinishRelease, Finishing, InStart, Starting, durable
<1>1. ASSUME active[t].run = op[t].run PROVE InboxInv'
  <2>e. /\ Hands(t, "next", op[t].run, op[t].input, op[t].queued)
        /\ \A u \in Threads \ {t} : active'[u] = active[u]
    BY <1>1, HandEffects DEF FinishRelease, TypeOK
  <2>s. \A i \in Inputs : PendingSteer(i) => inbox[i].thread # t
    BY <1>e, <1>1 DEF InboxInv, SteerInv
  <2>0. \A u \in Threads : /\ op'[u].input = op[u].input
                           /\ InStart(u)' <=> InStart(u)
                           /\ op'[u] = op[u] \/ (u = t /\ op'[u].pc = "next" /\ ~InStart(u))
    BY <1>e, <2>e DEF Hands, InStart, Starting
  <2>1. RowInv' /\ HandedOverOnce' /\ HeldInv'
    BY <1>e, <2>0 DEF InboxInv, RowInv, HandedOverOnce, HeldInv
  <2>2. HandInv'
    BY <1>e, <2>0 DEF InboxInv, HandInv, InStart
  <2>3. RunInputInv'
    BY <1>e, <2>0 DEF InboxInv, RunInputInv, Rows, InStart
  <2>4. SteerInv'
    BY <1>e, <2>e, <2>s, <2>0 DEF InboxInv, SteerInv, PendingSteer, RowInv, InStart
  <2>5. InterruptInv'
    <3>1. op'[t].pc = "next" /\ \A u \in Threads \ {t} : op'[u] = op[u]
      BY <2>e DEF Hands
    <3> QED
      BY <1>e, <2>e, <3>1 DEF InboxInv, InterruptInv
  <2>7. ClaimedInputsAccountedFor'
    BY <1>e, <2>0 DEF InboxInv, ClaimedInputsAccountedFor
  <2> QED
    BY <2>1, <2>2, <2>3, <2>4, <2>5, <2>7 DEF InboxInv
<1>2. ASSUME active[t].run # op[t].run PROVE InboxInv'
  <2>e. Hands(t, "free", NoRun, NoInput, FALSE) /\ UNCHANGED active
    BY <1>2, HandEffects DEF FinishRelease
  <2>1. InterruptInv'
    BY <1>e, <2>e DEF InboxInv, InterruptInv, Hands, Starting
  <2>2. RunsKeepInput
    BY <1>e DEF RunsKeepInput
  <2> QED
    BY <1>e, <2>e, <2>1, <2>2, InboxFrame DEF Hands, Finishing
<1> QED
  BY <1>1, <1>2

\* finish_run takes the interruption and claims the next turn, or frees the lock.
LEMMA InboxFinishStartNext ==
  ASSUME TypeOK, SlotInv, InboxInv, NEW t \in Threads, FinishStartNext(t)
  PROVE  InboxInv'
<1>e. /\ op[t].pc = "next" /\ active[t].run = NoRun /\ op[t].input = NoInput
      /\ \A u \in Threads \ {t} : queue_interrupts'[u] = queue_interrupts[u]
      /\ queue_interrupts'[t] = NoInput
      /\ \A u \in Threads \ {t} : u \in stranded => u \in stranded'
      /\ \/ \E q \in NextTurns(t) : ClaimQueued(t, q)
         \/ op' = [op EXCEPT ![t] = Free] /\ UNCHANGED inbox
      /\ UNCHANGED <<exists, runs, active, delivered, held, lost>>
  <2>1. op[t].pc = "next" /\ op[t].input = NoInput
    BY InboxFields DEF FinishStartNext, InStart, Starting
  <2>2. active[t].run = NoRun
    BY <2>1 DEF SlotInv, SlotFinish
  <2>3. queue_interrupts' = [queue_interrupts EXCEPT ![t] = NoInput]
    BY DEF FinishStartNext
  <2>4. /\ \A u \in Threads \ {t} : queue_interrupts'[u] = queue_interrupts[u]
        /\ queue_interrupts'[t] = NoInput
    BY <2>3 DEF TypeOK
  <2> QED
    BY <2>1, <2>2, <2>4 DEF FinishStartNext
<1>s. \A i \in Inputs : PendingSteer(i) => inbox[i].thread # t
  BY <1>e DEF InboxInv, SteerInv
<1>1. ASSUME NEW q \in NextTurns(t), ClaimQueued(t, q) PROVE InboxInv'
  <2>1. q \in Queued(t)
    BY DEF NextTurns
  <2>2. Hands(t, "start", NoRun, q, TRUE)
    BY <1>1, HandEffects DEF ClaimQueued
  <2>3. InterruptInv'
    BY <1>e, <2>2 DEF InboxInv, InterruptInv, Hands
  <2> QED
    BY <1>1, <1>e, <1>s, <2>1, <2>3, InboxClaimQueued DEF Finishing
<1>2. ASSUME op' = [op EXCEPT ![t] = Free], UNCHANGED inbox PROVE InboxInv'
  <2>e. Hands(t, "free", NoRun, NoInput, FALSE)
    BY <1>2, HandEffects
  <2>1. InterruptInv'
    BY <1>e, <2>e DEF InboxInv, InterruptInv, Hands
  <2>2. RunsKeepInput
    BY <1>e DEF RunsKeepInput
  <2> QED
    BY <1>e, <1>2, <2>e, <2>1, <2>2, InboxFrame DEF Hands, Finishing
<1> QED
  BY <1>e, <1>1, <1>2

-----------------------------------------------------------------------------
(* The steps of a task and of the process.                                 *)

\* A step claims the run's steers and the injected context of its thread.
LEMMA InboxClaimStepInputs ==
  ASSUME TypeOK, InboxInv, NEW r \in Runs, ClaimStepInputs(r)
  PROVE  InboxInv'
<1> DEFINE S == StepInputs(r)
<1>e. /\ \A i \in S : /\ i \in Inputs /\ inbox[i].state = "pending" /\ delivered[i] = {}
                      /\ inbox'[i].state = "claimed" /\ inbox'[i].thread = inbox[i].thread
      /\ \A i \in Inputs \ S : inbox'[i] = inbox[i]
      /\ held[r] = {} /\ held'[r] = S /\ \A s \in Runs \ {r} : held'[s] = held[s]
      /\ UNCHANGED <<exists, runs, active, queue_interrupts, op, delivered, lost, stranded>>
  <2>1. ASSUME NEW i \in S
        PROVE  /\ i \in Inputs /\ inbox[i].state = "pending" /\ delivered[i] = {}
               /\ inbox'[i].state = "claimed" /\ inbox'[i].thread = inbox[i].thread
    <3>1. i \in Inputs /\ inbox[i].state = "pending"
      BY DEF StepInputs, Pending
    <3>2. delivered[i] = {}
      BY <3>1 DEF InboxInv, RowInv
    <3>3. inbox'[i] = [inbox[i] EXCEPT !.state = "claimed"]
      BY <3>1 DEF ClaimStepInputs
    <3>4. inbox'[i].state = "claimed" /\ inbox'[i].thread = inbox[i].thread
      BY <3>1, <3>3 DEF TypeOK, InboxRecord
    <3> QED
      BY <3>1, <3>2, <3>4
  <2>2. \A i \in Inputs \ S : inbox'[i] = inbox[i]
    BY DEF ClaimStepInputs
  <2>3. held[r] = {} /\ held'[r] = S /\ \A s \in Runs \ {r} : held'[s] = held[s]
    BY DEF ClaimStepInputs, TypeOK
  <2> QED
    BY <2>1, <2>2, <2>3 DEF ClaimStepInputs
<1> HIDE DEF S
<1>t. \A i \in Inputs : /\ inbox'[i].thread = inbox[i].thread
                        /\ inbox'[i].state = "none" <=> inbox[i].state = "none"
  BY <1>e
<1>h. \A u \in Threads : op[u].input \notin S
  <2>1. ASSUME NEW u \in Threads, op[u].input \in S PROVE FALSE
    <3>1. op[u].input \in Inputs /\ inbox[op[u].input].state = "pending"
      BY <1>e, <2>1
    <3>2. InStart(u)
      BY <3>1, InboxFields, ConstantsAssumption
    <3> QED
      BY <3>1, <3>2 DEF InboxInv, HandInv
  <2> QED
    BY <2>1
<1>1. RowInv'
  BY <1>e, <1>t DEF InboxInv, RowInv
<1>2. HandInv'
  <2>1. \A u \in Threads : InStart(u) => op[u].input \in Inputs \ S
    BY <1>h, InboxFields
  <2> QED
    BY <1>e, <2>1 DEF InboxInv, HandInv, InStart
<1>3. RunInputInv'
  <2>1. Rows' = Rows
    BY <1>t DEF Rows
  <2> QED
    BY <1>e, <1>t, <2>1 DEF InboxInv, RunInputInv, Rows
<1>4. SteerInv'
  <2>1. \A i \in Inputs : PendingSteer(i)' => PendingSteer(i) /\ inbox'[i] = inbox[i]
    BY <1>e DEF PendingSteer
  <2> QED
    BY <1>e, <2>1 DEF InboxInv, SteerInv
<1>5. InterruptInv' /\ HandedOverOnce'
  BY <1>e DEF InboxInv, InterruptInv, HandedOverOnce
<1>7. ClaimedInputsAccountedFor'
  <2> SUFFICES ASSUME NEW i \in Inputs, inbox'[i].state = "claimed", delivered[i] = {}, i \notin lost,
                      \A u \in Threads : op[u].input # i, \A s \in Runs : runs[s].input # i
               PROVE  \E s \in Runs : i \in held'[s]
    BY <1>e DEF ClaimedInputsAccountedFor
  <2>1. CASE i \in S
    BY <1>e, <2>1
  <2>2. CASE i \notin S
    <3>1. inbox[i].state = "claimed"
      BY <1>e, <2>2
    <3>2. PICK s \in Runs : i \in held[s]
      BY <3>1 DEF InboxInv, ClaimedInputsAccountedFor
    <3> QED
      BY <1>e, <3>2
  <2> QED
    BY <2>1, <2>2
<1>8. HeldInv'
  <2> SUFFICES ASSUME NEW s \in Runs, NEW i \in held'[s]
               PROVE  /\ delivered[i] = {} /\ inbox'[i].state # "pending"
                      /\ \A u \in Threads : op[u].input # i
                      /\ \A v \in Runs : i \in held'[v] => v = s
    BY <1>e DEF HeldInv
  <2>1. \A v \in Runs : held[v] \cap S = {} /\ held[v] \subseteq Inputs
    BY <1>e DEF InboxInv, HeldInv, TypeOK
  <2>2. CASE s = r
    BY <1>e, <1>h, <2>1, <2>2
  <2>3. CASE s # r
    BY <1>e, <2>1, <2>3 DEF InboxInv, HeldInv
  <2> QED
    BY <2>2, <2>3
<1> QED
  BY <1>1, <1>2, <1>3, <1>4, <1>5, <1>7, <1>8 DEF InboxInv

\* The claimed inputs go out with the step's request.
LEMMA InboxDeliverStepInputs ==
  ASSUME TypeOK, InboxInv, NEW r \in Runs, DeliverStepInputs(r)
  PROVE  InboxInv'
<1>e. /\ \A i \in held[r] : i \in Inputs /\ delivered'[i] = {r}
      /\ \A i \in Inputs : i \notin held[r] => delivered'[i] = delivered[i]
      /\ held'[r] = {} /\ \A s \in Runs \ {r} : held'[s] = held[s]
      /\ UNCHANGED <<exists, runs, inbox, active, queue_interrupts, op, lost, stranded>>
  <2>1. ASSUME NEW i \in held[r] PROVE i \in Inputs /\ delivered'[i] = {r}
    <3>1. i \in Inputs /\ delivered[i] = {}
      BY DEF InboxInv, HeldInv, TypeOK
    <3> QED
      BY <3>1 DEF DeliverStepInputs
  <2>2. \A i \in Inputs : i \notin held[r] => delivered'[i] = delivered[i]
    BY DEF DeliverStepInputs
  <2>3. held'[r] = {} /\ \A s \in Runs \ {r} : held'[s] = held[s]
    BY DEF DeliverStepInputs, TypeOK
  <2> QED
    BY <2>1, <2>2, <2>3 DEF DeliverStepInputs, durable
<1>1. RowInv'
  <2>1. \A i \in Inputs : inbox[i].state = "pending" => i \notin held[r]
    BY DEF InboxInv, HeldInv
  <2> QED
    BY <1>e, <2>1 DEF InboxInv, RowInv
<1>2. HandInv'
  <2>1. \A u \in Threads : InStart(u) => op[u].input \in Inputs /\ op[u].input \notin held[r]
    BY InboxFields DEF InboxInv, HeldInv
  <2> QED
    BY <1>e, <2>1 DEF InboxInv, HandInv, InStart
<1>3. RunInputInv' /\ InterruptInv'
  BY <1>e DEF InboxInv, RunInputInv, Rows, InterruptInv
<1>4. SteerInv'
  BY <1>e DEF InboxInv, SteerInv, PendingSteer
<1>6. HandedOverOnce'
  BY <1>e DEF InboxInv, HandedOverOnce
<1>7. ClaimedInputsAccountedFor'
  <2> SUFFICES ASSUME NEW i \in Inputs, inbox[i].state = "claimed", delivered'[i] = {}, i \notin lost,
                      \A u \in Threads : op[u].input # i, \A s \in Runs : runs[s].input # i
               PROVE  \E s \in Runs : i \in held'[s]
    BY <1>e DEF ClaimedInputsAccountedFor
  <2>1. i \notin held[r] /\ delivered[i] = {}
    BY <1>e
  <2>2. PICK s \in Runs : i \in held[s]
    BY <2>1 DEF InboxInv, ClaimedInputsAccountedFor
  <2> QED
    BY <1>e, <2>1, <2>2
<1>8. HeldInv'
  <2> SUFFICES ASSUME NEW s \in Runs, NEW i \in held'[s]
               PROVE  /\ delivered'[i] = {} /\ inbox[i].state # "pending"
                      /\ \A u \in Threads : op[u].input # i
                      /\ \A v \in Runs : i \in held'[v] => v = s
    BY <1>e DEF HeldInv
  <2>1. s # r /\ i \in held[s] /\ i \in Inputs
    BY <1>e DEF TypeOK
  <2>2. i \notin held[r]
    BY <2>1 DEF InboxInv, HeldInv
  <2> QED
    BY <1>e, <2>1, <2>2 DEF InboxInv, HeldInv
<1> QED
  BY <1>1, <1>2, <1>3, <1>4, <1>6, <1>7, <1>8 DEF InboxInv

\* The reconciliation interrupts the runs and leaves no pending steer.
LEMMA ReconcileKeeps ==
  ASSUME TypeOK, Reconcile
  PROVE  RunsKeepInput /\ RowsRetargeted /\ \A i \in Inputs : ~PendingSteer(i)'
<1>1. RunsKeepInput
  <2> SUFFICES ASSUME NEW r \in Runs
               PROVE  /\ runs'[r].input = runs[r].input /\ runs'[r].thread = runs[r].thread
                      /\ runs'[r].status = "none" <=> runs[r].status = "none"
    BY DEF RunsKeepInput
  <2>1. DOMAIN runs[r] = {"status", "completed", "thread", "input"}
    BY DEF TypeOK, RunRecord
  <2>2. CASE runs[r].status \in Nonterminal
    <3>1. runs'[r] = [runs[r] EXCEPT !.status = "interrupted", !.completed = TRUE]
      BY <2>2 DEF Reconcile
    <3> QED
      BY <2>1, <2>2, <3>1 DEF Nonterminal
  <2>3. CASE runs[r].status \notin Nonterminal
    BY <2>3 DEF Reconcile
  <2> QED
    BY <2>2, <2>3
<1>2. \A i \in Inputs : PendingSteer(i) => Retargeted(i)
  BY RetargetEffects DEF Reconcile, PendingSteer
<1>3. \A i \in Inputs : ~PendingSteer(i) => inbox'[i] = inbox[i]
  BY DEF Reconcile, PendingSteer
<1> QED
  BY <1>1, <1>2, <1>3 DEF RowsRetargeted, Retargeted, PendingSteer

\* The reconciliation of a shutdown that timed out, with runs still live.
LEMMA InboxShutdownTimeout ==
  ASSUME TypeOK, InboxInv, ShutdownTimeout
  PROVE  InboxInv'
<1>e. /\ RunsKeepInput /\ RowsRetargeted /\ \A i \in Inputs : ~PendingSteer(i)'
      /\ UNCHANGED <<exists, active, queue_interrupts, op, delivered, held, lost, stranded>>
  BY ReconcileKeeps DEF ShutdownTimeout
<1>k. /\ RowInv' /\ Rows' = Rows
      /\ \A i \in Inputs : /\ inbox'[i].state = inbox[i].state /\ inbox'[i].thread = inbox[i].thread
                           /\ inbox[i].state # "pending" => inbox'[i] = inbox[i]
  BY <1>e, RetargetKeeps
<1>2. HandInv'
  <2>1. \A u \in Threads : InStart(u) => op[u].input \in Inputs /\ inbox[op[u].input].state # "pending"
    BY InboxFields DEF InboxInv, HandInv
  <2> QED
    BY <1>e, <1>k, <2>1 DEF InboxInv, HandInv, InStart
<1>3. RunInputInv'
  <2>1. \A u \in Threads : op[u].pc = "project" => op[u].run \in Runs
    BY Fields DEF Starting
  <2> QED
    BY <1>e, <1>k, <2>1 DEF InboxInv, RunInputInv, RunsKeepInput, Rows
<1>4. SteerInv' /\ InterruptInv'
  BY <1>e DEF InboxInv, SteerInv, InterruptInv
<1>6. HandedOverOnce'
  BY <1>e DEF InboxInv, HandedOverOnce
<1>7. ClaimedInputsAccountedFor'
  BY <1>e, <1>k DEF InboxInv, ClaimedInputsAccountedFor, RunsKeepInput
<1>8. HeldInv'
  <2>1. \A r \in Runs : held[r] \subseteq Inputs
    BY DEF TypeOK
  <2> QED
    BY <1>e, <1>k, <2>1 DEF InboxInv, HeldInv
<1> QED
  BY <1>k, <1>2, <1>3, <1>4, <1>6, <1>7, <1>8 DEF InboxInv

\* The process exits and the next one reconciles: what was in hand is recorded in
\* a run, or lost.
LEMMA InboxRestart ==
  ASSUME TypeOK, InboxInv, Restart
  PROVE  InboxInv'
<1>e. /\ RunsKeepInput /\ RowsRetargeted /\ \A i \in Inputs : ~PendingSteer(i)'
      /\ \A t \in Threads : op'[t].pc = "free" /\ queue_interrupts'[t] = NoInput
      /\ (\A r \in Runs : held'[r] = {}) /\ UNCHANGED <<exists, delivered>>
  BY ReconcileKeeps DEF Restart, Free
<1>k. /\ RowInv' /\ Rows' = Rows
      /\ \A i \in Inputs : /\ inbox'[i].state = inbox[i].state /\ inbox'[i].thread = inbox[i].thread
                           /\ inbox[i].state # "pending" => inbox'[i] = inbox[i]
  BY <1>e, RetargetKeeps
<1>2. HandInv' /\ SteerInv' /\ InterruptInv' /\ HeldInv'
  BY <1>e DEF HandInv, SteerInv, InterruptInv, InStart, Starting, HeldInv
<1>3. RunInputInv'
  BY <1>e, <1>k DEF InboxInv, RunInputInv, RunsKeepInput, Rows
<1>6. HandedOverOnce'
  BY <1>e DEF InboxInv, HandedOverOnce
<1>7. ClaimedInputsAccountedFor'
  <2> SUFFICES ASSUME NEW i \in Inputs, inbox[i].state = "claimed", delivered[i] = {}, i \notin lost',
                      \A r \in Runs : runs[r].input # i
               PROVE  FALSE
    BY <1>e, <1>k DEF ClaimedInputsAccountedFor, RunsKeepInput
  <2>1. /\ i \notin lost /\ \A r \in Runs : i \notin held[r]
        /\ \A t \in Threads : ~(op[t].input = i /\ op[t].queued /\ op[t].pc \in {"start", "record"})
    BY DEF Restart
  <2>2. PICK t \in Threads : op[t].input = i
    BY <2>1 DEF InboxInv, ClaimedInputsAccountedFor
  <2>3. InStart(t)
    BY <2>2, InboxFields, ConstantsAssumption
  <2>4. op[t].queued /\ exists[t]
    BY <2>2, <2>3 DEF InboxInv, HandInv
  <2>5. op[t].pc = "project" /\ op[t].run \in Runs
    BY <2>1, <2>2, <2>3, <2>4, Fields DEF InStart, Starting
  <2> QED
    BY <2>2, <2>4, <2>5 DEF InboxInv, RunInputInv
<1> QED
  BY <1>k, <1>2, <1>3, <1>6, <1>7 DEF InboxInv

-----------------------------------------------------------------------------
(* The invariant and what follows from it.                                 *)

\* Every step keeps InboxInv, given who owns the slots.
LEMMA InboxStep == ASSUME TypeOK, SlotInv, InboxInv, [Next]_vars PROVE InboxInv'
<1>f. ASSUME UNCHANGED <<exists, runs, inbox, op, delivered>>,
             \A r \in Runs : held'[r] \subseteq held[r] /\ held[r] \subseteq held'[r] \cup lost',
             lost \subseteq lost',
             \A t \in Threads : active'[t].run = active[t].run /\ active'[t].steering = active[t].steering,
             \A t \in Threads : \/ queue_interrupts'[t] = NoInput
                                \/ /\ queue_interrupts'[t] = queue_interrupts[t]
                                   /\ active'[t].stop \in {active[t].stop, TRUE}
                                   /\ t \in stranded => t \in stranded'
                                \/ active[t].run # NoRun /\ active'[t].stop /\ op[t].pc \notin Starting
      PROVE  InboxInv'
  <2>1. RunsKeepInput
    BY <1>f DEF RunsKeepInput
  <2>2. \A t \in Threads : queue_interrupts[t] # NoInput =>
           \/ active[t].run # NoRun /\ active[t].stop /\ op[t].pc \notin Starting
           \/ op[t].pc = "next"
           \/ t \in stranded
    BY DEF InboxInv, InterruptInv
  <2>3. InterruptInv'
    BY <1>f, <2>2 DEF InterruptInv
  <2> QED
    BY <1>f, <2>1, <2>3, InboxFrame
<1>h. UNCHANGED <<held, lost>> => /\ \A r \in Runs : held'[r] \subseteq held[r] /\ held[r] \subseteq held'[r] \cup lost'
                                 /\ lost \subseteq lost'
  OBVIOUS
<1>d. ASSUME NEW r \in Runs, DropStepInputs(r)
      PROVE  /\ \A s \in Runs : held'[s] \subseteq held[s] /\ held[s] \subseteq held'[s] \cup lost'
             /\ lost \subseteq lost' /\ UNCHANGED <<delivered, stranded>>
  BY <1>d DEF DropStepInputs, TypeOK
<1>a. ASSUME NEW t \in Threads, active' = [active EXCEPT ![t] = [@ EXCEPT !.stop = TRUE]]
      PROVE  /\ active'[t].run = active[t].run /\ active'[t].steering = active[t].steering
             /\ active'[t].stop
             /\ \A u \in Threads \ {t} : active'[u] = active[u]
  BY <1>a DEF TypeOK, ActiveRun
<1>1. ASSUME NEW t \in Threads, NEW i \in Inputs, EnqueueTurn(t, i) PROVE InboxInv'
  BY <1>1, InboxPut DEF EnqueueTurn, volatile
<1>2. ASSUME NEW t \in Threads, NEW i \in Inputs, SendTurn(t, i) PROVE InboxInv'
  BY <1>2, InboxSendTurn
<1>3. ASSUME NEW t \in Threads, NEW i \in Inputs, SteerTurn(t, i) PROVE InboxInv'
  <2>1. active[t].run \in Runs \cup {NoRun} /\ active[t].run # NoRun
    BY <1>3, Fields DEF SteerTurn, Busy
  <2> QED
    BY <1>3, <2>1, InboxPut DEF SteerTurn, volatile
<1>4. ASSUME NEW t \in Threads, NEW i \in Inputs, InjectContext(t, i) PROVE InboxInv'
  BY <1>4, InboxPut DEF InjectContext, volatile
<1>5. ASSUME NEW t \in Threads, NEW i \in Inputs, DeleteInboxInput(t, i) PROVE InboxInv'
  BY <1>5, InboxCancel DEF DeleteInboxInput, Pending, volatile
<1>6. ASSUME NEW t \in Threads, NEW i \in Inputs, DeleteQueuedTurn(t, i) PROVE InboxInv'
  BY <1>6, InboxCancel DEF DeleteQueuedTurn, Queued, Pending, volatile
<1>7. ASSUME NEW t \in Threads, NEW i \in Inputs, InterruptForQueued(t, i) PROVE InboxInv'
  <2>1. /\ active' = [active EXCEPT ![t] = [@ EXCEPT !.stop = TRUE]]
        /\ active[t].run # NoRun /\ op[t].pc = "free"
        /\ UNCHANGED <<exists, runs, inbox, op, delivered, held, lost, stranded>>
    BY <1>7 DEF InterruptForQueued, LockFree, Busy, durable
  <2>2. \A u \in Threads \ {t} : queue_interrupts'[u] = queue_interrupts[u]
    BY <1>7 DEF InterruptForQueued, TypeOK
  <2> QED
    BY <1>a, <1>f, <1>h, <2>1, <2>2 DEF Starting
<1>8. ASSUME NEW t \in Threads, NEW i \in Inputs, ResumeQueuedTurn(t, i) PROVE InboxInv'
  <2>1. /\ op[t].pc = "free" /\ active[t].run = NoRun /\ i \in Queued(t) /\ ClaimQueued(t, i)
        /\ UNCHANGED <<exists, runs, active, queue_interrupts, delivered, held, lost, stranded>>
    BY <1>8 DEF ResumeQueuedTurn, LockFree, Busy
  <2>2. Hands(t, "start", NoRun, i, TRUE)
    BY <2>1, HandEffects DEF ClaimQueued
  <2>3. InterruptInv'
    BY <2>1, <2>2 DEF InboxInv, InterruptInv, Hands
  <2> QED
    BY <2>1, <2>3, InboxClaimQueued
<1>9. ASSUME NEW t \in Threads, NEW q \in Inputs, NEW target \in Inputs, NEW after \in BOOLEAN,
            MoveQueuedTurn(t, q, target, after) PROVE InboxInv'
  BY <1>9, InboxMove
<1>10. ASSUME NEW t \in Threads, StopTurn(t) PROVE InboxInv'
  <2>1. /\ active' = [active EXCEPT ![t] = [@ EXCEPT !.stop = TRUE]]
        /\ UNCHANGED <<exists, runs, inbox, op, delivered, held, lost, stranded, queue_interrupts>>
    BY <1>10 DEF StopTurn, durable
  <2> QED
    BY <1>a, <1>f, <1>h, <2>1
<1>11. ASSUME NEW t \in Threads, DeleteThreadCheck(t) PROVE InboxInv'
  BY <1>11, <1>f, <1>h DEF DeleteThreadCheck, durable
<1>12. ASSUME NEW t \in Threads, DeleteThreadCommit(t) PROVE InboxInv'
  BY <1>12, InboxDeleteThread
<1>13. ASSUME NEW t \in Threads, StartRejected(t) PROVE InboxInv'
  <2>1. RunsKeepInput /\ InStart(t)
    BY <1>13 DEF StartRejected, RunsKeepInput, InStart
  <2> QED
    BY <1>13, <2>1, InboxStartFailed DEF StartRejected
<1>14. ASSUME NEW t \in Threads, NEW r \in Runs, NEW steering \in BOOLEAN, ReserveSlot(t, r, steering)
       PROVE  InboxInv'
  BY <1>14, InboxReserveSlot
<1>15. ASSUME NEW t \in Threads, RecordRun(t) PROVE InboxInv'
  BY <1>15, InboxRecordRun
<1>16. ASSUME NEW t \in Threads, LaunchRun(t) PROVE InboxInv'
  BY <1>16, InboxLaunchRun
<1>17. ASSUME NEW t \in Threads, LaunchFailed(t) PROVE InboxInv'
  <2>1. RunsKeepInput
    <3> SUFFICES ASSUME NEW r \in Runs
                 PROVE  /\ runs'[r].input = runs[r].input /\ runs'[r].thread = runs[r].thread
                        /\ runs'[r].status = "none" <=> runs[r].status = "none"
      BY DEF RunsKeepInput
    <3>1. DOMAIN runs[r] = {"status", "completed", "thread", "input"}
      BY DEF TypeOK, RunRecord
    <3>2. \/ runs'[r] = runs[r]
          \/ /\ runs[r].status # "none"
             /\ runs'[r] = [runs[r] EXCEPT !.status = "failed", !.completed = TRUE]
      BY <1>17 DEF LaunchFailed
    <3> QED
      BY <3>1, <3>2
  <2>2. InStart(t) /\ op[t].pc # "start"
    BY <1>17 DEF LaunchFailed, InStart, Starting
  <2>3. \A u \in Threads \ {t} : active'[u] = active[u]
    BY <1>17 DEF LaunchFailed, TypeOK
  <2> QED
    BY <1>17, <2>1, <2>2, <2>3, InboxStartFailed DEF LaunchFailed
<1>18. ASSUME NEW t \in Threads, FinishRecord(t) PROVE InboxInv'
  <2>1. op[t].pc = "finish" /\ op[t].run \in Runs
    BY <1>18, Fields DEF FinishRecord, Finishing
  <2>2. RunsKeepInput
    <3>1. task[op[t].run].status # "none"
      BY <2>1 DEF SlotInv, SlotFinish, SlotTask, Finishing, Terminal
    <3>2. CASE runs' = runs
      BY <3>2 DEF RunsKeepInput
    <3>3. CASE runs' # runs
      BY <1>18, <2>1, <3>1, <3>3, RunKeeps DEF FinishRecord
    <3> QED
      BY <3>2, <3>3
  <2>3. Hands(t, "retarget", op[t].run, op[t].input, op[t].queued)
    BY <1>18, HandEffects DEF FinishRecord
  <2>4. InterruptInv'
    BY <1>18, <2>1, <2>3 DEF FinishRecord, InboxInv, InterruptInv, Hands, Starting
  <2> QED
    BY <1>18, <1>h, <2>1, <2>2, <2>3, <2>4, InboxFrame DEF FinishRecord, Hands, Finishing
<1>19. ASSUME NEW t \in Threads, FinishRetarget(t) PROVE InboxInv'
  BY <1>19, InboxFinishRetarget
<1>20. ASSUME NEW t \in Threads, FinishRelease(t) PROVE InboxInv'
  BY <1>20, InboxFinishRelease
<1>36. ASSUME NEW t \in Threads, FinishStartNext(t) PROVE InboxInv'
  BY <1>36, InboxFinishStartNext
<1>21. ASSUME NEW t \in Threads, FinishPanics(t) PROVE InboxInv'
  <2>1. RunsKeepInput
    BY <1>21 DEF FinishPanics, RunsKeepInput, durable
  <2>2. Hands(t, "free", NoRun, NoInput, FALSE) /\ op[t].pc \in Finishing /\ op[t].input = NoInput
    BY <1>21, HandEffects, InboxFields DEF FinishPanics, Finishing, InStart, Starting
  <2>3. InterruptInv'
    BY <1>21, <2>2 DEF FinishPanics, InboxInv, InterruptInv, Hands, Starting
  <2> QED
    BY <1>21, <1>h, <2>1, <2>2, <2>3, InboxFrame DEF FinishPanics, Hands, durable
<1>22. ASSUME NEW r \in Runs, BeginRun(r) PROVE InboxInv'
  <2>1. RunsKeepInput
    <3>1. CASE runs[r].status = "none"
      BY <1>22, <3>1 DEF BeginRun, RunsKeepInput
    <3>2. CASE runs[r].status # "none"
      BY <1>22, <3>2, RunKeeps DEF BeginRun
    <3> QED
      BY <3>1, <3>2
  <2>2. InterruptInv'
    BY <1>22 DEF BeginRun, InboxInv, InterruptInv
  <2> QED
    BY <1>22, <1>h, <2>1, <2>2, InboxFrame DEF BeginRun
<1>23. ASSUME NEW r \in Runs, ClaimStepInputs(r) PROVE InboxInv'
  BY <1>23, InboxClaimStepInputs
<1>37. ASSUME NEW r \in Runs, DeliverStepInputs(r) PROVE InboxInv'
  BY <1>37, InboxDeliverStepInputs
<1>24. ASSUME NEW r \in Runs, NEW outcome \in {"completed", "failed", "cancelled"} \X BOOLEAN,
            EndRun(r, outcome) PROVE InboxInv'
  BY <1>24, <1>d, <1>f DEF EndRun, durable
<1>25. ASSUME NEW r \in Runs, PanicRun(r) PROVE InboxInv'
  BY <1>25, <1>d, <1>f DEF PanicRun, durable
<1>26. ASSUME NEW r \in Runs, BeginFinish(r) PROVE InboxInv'
  <2>0. task[r].thread \in Threads
    BY <1>26 DEF BeginFinish, SlotInv, SlotTask, Live
  <2>1. RunsKeepInput
    BY <1>26 DEF BeginFinish, RunsKeepInput, durable
  <2>2. /\ Hands(task[r].thread, "finish", r, NoInput, FALSE)
        /\ op[task[r].thread].pc = "free" /\ op[task[r].thread].input = NoInput
    BY <1>26, <2>0, HandEffects, InboxFields DEF BeginFinish, LockFree, InStart, Starting
  <2>3. InterruptInv'
    BY <1>26, <2>0, <2>2 DEF BeginFinish, InboxInv, InterruptInv, Hands, Starting
  <2> QED
    BY <1>26, <1>h, <2>0, <2>1, <2>2, <2>3, InboxFrame DEF BeginFinish, Hands, durable
<1>27. ASSUME ShutdownClear PROVE InboxInv'
  BY <1>27, <1>f, <1>h DEF ShutdownClear, durable
<1>28. ASSUME ShutdownStop PROVE InboxInv'
  <2>1. \A t \in Threads : /\ active'[t].run = active[t].run /\ active'[t].steering = active[t].steering
                           /\ active'[t].stop \in {active[t].stop, TRUE}
    BY <1>28 DEF ShutdownStop, TypeOK, ActiveRun
  <2> QED
    BY <1>28, <1>f, <1>h, <2>1 DEF ShutdownStop, durable
<1>29. ASSUME ShutdownTimeout PROVE InboxInv'
  BY <1>29, InboxShutdownTimeout
<1>30. ASSUME Restart PROVE InboxInv'
  BY <1>30, InboxRestart
<1>31. ASSUME UNCHANGED vars PROVE InboxInv'
  BY <1>31, <1>f, <1>h DEF vars, durable, volatile
<1>32. ASSUME NEW t \in Threads, Command(t) PROVE InboxInv'
  BY <1>32, <1>1, <1>2, <1>3, <1>4, <1>5, <1>6, <1>7, <1>8, <1>9, <1>10, <1>11, <1>12 DEF Command
<1>33. ASSUME NEW t \in Threads, LockedStep(t) PROVE InboxInv'
  BY <1>33, <1>13, <1>14, <1>15, <1>16, <1>17, <1>18, <1>19, <1>20, <1>21, <1>36 DEF LockedStep
<1>34. ASSUME NEW r \in Runs, TaskStep(r) PROVE InboxInv'
  BY <1>34, <1>22, <1>23, <1>24, <1>25, <1>26, <1>37 DEF TaskStep
<1>35. ASSUME Process PROVE InboxInv'
  BY <1>35, <1>27, <1>28, <1>29, <1>30 DEF Process
<1> QED
  BY <1>31, <1>32, <1>33, <1>34, <1>35 DEF Next

\* No row, no hands, no interruption at the start.
LEMMA InboxInit == Init => InboxInv
<1> SUFFICES ASSUME Init PROVE InboxInv
  OBVIOUS
<1>1. /\ \A i \in Inputs : inbox[i] = NoRow /\ delivered[i] = {}
      /\ \A t \in Threads : op[t].pc = "free" /\ queue_interrupts[t] = NoInput
      /\ \A r \in Runs : runs[r].input = NoInput /\ held[r] = {}
  BY DEF Init, Free, NoRecord
<1>2. NoRow.state = "none"
  BY DEF NoRow
<1>3. Rows = {}
  BY <1>1, <1>2 DEF Rows
<1>5. RunInputInv
  BY <1>1, <1>3 DEF RunInputInv
<1> QED
  BY <1>1, <1>2, <1>5 DEF InboxInv, RowInv, HandInv, InStart, Starting, SteerInv, PendingSteer,
     InterruptInv, HandedOverOnce, ClaimedInputsAccountedFor, HeldInv

\* InboxInv is an invariant of the run manager.
THEOREM InboxInvariant == Spec => []InboxInv
<1>1. Init => TypeOK /\ SlotInv /\ InboxInv
  BY SlotInit, InboxInit, NullRecordTypes DEF Init, TypeOK
<1>2. TypeOK /\ SlotInv /\ InboxInv /\ [Next]_vars => (TypeOK /\ SlotInv /\ InboxInv)'
  BY TypeStep, SlotStep, InboxStep
<1> QED
  BY <1>1, <1>2, PTL DEF Spec

\* A pending steer targets the run that holds its thread's slot and can still
\* claim it: finish_run retargets before it frees the slot, and a start that fails
\* frees only a slot no steer was accepted for.
THEOREM SteersReachLiveRun == Spec => []SteersTargetLiveRun
<1>1. InboxInv => SteersTargetLiveRun
  BY DEF InboxInv, SteerInv, PendingSteer, SteersTargetLiveRun
<1> QED
  BY <1>1, InboxInvariant, PTL

\* A recorded interruption has an active run that was told to stop, or is about to
\* be taken by that run's finish, or was left behind by a panic in between
\* (resume_queued_turn against finish_run, abandon_unlaunched_run and shutdown).
THEOREM InterruptionsStop == Spec => []InterruptStopsActiveRun
<1>1. InboxInv => InterruptStopsActiveRun
  BY DEF InboxInv, InterruptInv, InterruptStopsActiveRun, Busy
<1> QED
  BY <1>1, InboxInvariant, PTL

\* No input reaches two runs, whatever fails to start, is put back, claimed by a
\* step or retargeted.
THEOREM InputsGoToOneRun == Spec => []HandedOverOnce
<1>1. InboxInv => HandedOverOnce
  BY DEF InboxInv
<1> QED
  BY <1>1, InboxInvariant, PTL

\* A claimed row is in a lock holder's or a step's hands, handed over, named by a
\* run record, or was lost: by an exit between the claim and the record
\* (start_queued_turn), or with the step that claimed it (prepare_model_step).
THEOREM ClaimsAreAccountedFor == Spec => []ClaimedInputsAccountedFor
<1>1. InboxInv => ClaimedInputsAccountedFor
  BY DEF InboxInv
<1> QED
  BY <1>1, InboxInvariant, PTL

=============================================================================
