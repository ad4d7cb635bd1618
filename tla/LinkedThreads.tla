---------------------------- MODULE LinkedThreads ----------------------------
(***************************************************************************)
(* Mail between linked threads: linked_thread_send, linked_thread_wait,    *)
(* the turns that mail starts or steers, the receipts they produce and the *)
(* claiming of receipts by the origin's later turns.                       *)
(* Sources: crates/milim-server/src/control/{linked_threads,turns,queue,   *)
(* journal}.rs and the table user_thread_mailbox of milim-storage/db.rs.   *)
(*                                                                         *)
(* One origin thread and one target thread.  The target's lock holder is   *)
(* `op`; its steps are split where the task of a run, the origin or an     *)
(* exit can come in between.  Turns without mail are reduced to taking and *)
(* giving back the target's slot; RunLifecycle models them in full.        *)
(***************************************************************************)
EXTENDS Naturals

CONSTANTS Exchanges,   \* mailbox exchange ids (fresh UUIDs)
          Runs,        \* runs of the target thread (fresh UUIDs)
          OriginRuns,  \* runs of the origin thread (fresh UUIDs)
          Cancellable, \* mail whose inbox row a client may delete
          MaxRestarts, \* bound on exits of the process
          NoMail, NoRun

ASSUME MailConstants ==
  /\ NoMail \notin Exchanges
  /\ NoRun \notin Runs \cup OriginRuns
  /\ Cancellable \subseteq Exchanges
  /\ MaxRestarts \in Nat

VARIABLES
  mail,      \* durable: user_thread_mailbox
  row,       \* durable: the mail's row in user_run_inbox
  runs,      \* durable: status of the target's user_runs
  slot,      \* RunManager.active of the target: its run and `steering`
  op,        \* the holder of the target's thread lock
  task,      \* the task of each target run
  origin,    \* the origin thread's run and what it is doing
  posting,   \* receipts written but not yet projected, with who projects them and
             \* whether the event or projected_at is next
  restarts,  \* exits so far
  handed,    \* history: the runs each mail was handed to
  shown,     \* history: <<mail, number of its receipt>> with a mailbox_reply event in
             \* the origin's timeline
  seen,      \* history: <<mail, number of its receipt, origin run>> that got it
  receipts,  \* history: number of receipts written for each mail
  dropped,   \* history: mail a client deleted, an exit took from its holder's
             \* hands, or a stale copy put back to running
  reopened   \* history: mail back in delivery after a receipt of it was projected

durable == <<mail, row, runs>>
history == <<handed, shown, seen, receipts, dropped, reopened>>
vars    == <<durable, slot, op, task, origin, posting, restarts, history>>

-----------------------------------------------------------------------------
Receipt == {"replied", "failed"}

MailRecord == [status: {"none", "queued", "running"} \cup Receipt,
               target: Runs \cup {NoRun}, origin: OriginRuns \cup {NoRun},
               consumed: BOOLEAN, projected: BOOLEAN]
NoExchange == [status |-> "none", target |-> NoRun, origin |-> NoRun, consumed |-> FALSE,
               projected |-> FALSE]

RowRecord == [state: {"none", "pending", "claimed", "cancelled"},
              kind: {"none", "steer", "followup"}, target: Runs \cup {NoRun}]
NoRow     == [state |-> "none", kind |-> "none", target |-> NoRun]

\* "deliver" and "settle" are linked_thread_send's; "start", "launch" and
\* "spawn" start_turn's, and "undo" its caller's once it failed; "fail",
\* "retarget" and "release" are finish_run's.  copy is the exchange as its
\* holder read or built it.
OpRecord == [pc: {"free", "deliver", "settle", "start", "launch", "spawn", "undo", "fail",
                  "retarget", "release"},
             mail: Exchanges \cup {NoMail}, run: Runs \cup {NoRun}, queued: BOOLEAN,
             copy: MailRecord]
Free     == [pc |-> "free", mail |-> NoMail, run |-> NoRun, queued |-> FALSE, copy |-> NoExchange]

TypeOK ==
  /\ mail \in [Exchanges -> MailRecord]
  /\ row \in [Exchanges -> RowRecord]
  /\ runs \in [Runs -> {"none", "accepted", "running", "completed", "failed", "cancelled",
                        "interrupted"}]
  /\ slot \in [run: Runs \cup {NoRun}, steering: BOOLEAN]
  /\ op \in OpRecord
  /\ task \in [Runs -> {"none", "running", "completed", "failed", "cancelled", "done"}]
  /\ origin \in [run: OriginRuns \cup {NoRun}, pc: {"idle", "launching", "running"},
                 claimed: SUBSET (Exchanges \X Nat)]
  /\ posting \subseteq Exchanges \X {"lock", "task"} \X {"event", "mark"}
  /\ restarts \in 0..MaxRestarts
  /\ handed \in [Exchanges -> SUBSET Runs]
  /\ shown \subseteq Exchanges \X Nat
  /\ seen \subseteq Exchanges \X Nat \X OriginRuns
  /\ receipts \in [Exchanges -> Nat]
  /\ dropped \subseteq Exchanges /\ reopened \subseteq Exchanges

EmptySlot == [run |-> NoRun, steering |-> FALSE]
Idle      == [run |-> NoRun, pc |-> "idle", claimed |-> {}]

Init ==
  /\ mail = [e \in Exchanges |-> NoExchange]
  /\ row = [e \in Exchanges |-> NoRow]
  /\ runs = [r \in Runs |-> "none"]
  /\ slot = EmptySlot
  /\ op = Free
  /\ task = [r \in Runs |-> "none"]
  /\ origin = Idle
  /\ posting = {}
  /\ restarts = 0
  /\ handed = [e \in Exchanges |-> {}]
  /\ shown = {} /\ seen = {} /\ dropped = {} /\ reopened = {}
  /\ receipts = [e \in Exchanges |-> 0]

-----------------------------------------------------------------------------
(* Reads and writes of the mailbox table.                                  *)

\* control_put_mailbox keeps a target that the new record leaves out.
PutMailbox(e, record) ==
  mail' = [mail EXCEPT ![e] = [record EXCEPT !.target = IF @ = NoRun THEN mail[e].target ELSE @]]

PendingSteer(e, r) == row[e].state = "pending" /\ row[e].kind = "steer" /\ row[e].target = r
QueuedMail == {e \in Exchanges : row[e].state = "pending" /\ row[e].kind = "followup"}

\* Mutant of Settled: receipts already written are written again.
SettledAgain(r) ==
  {e \in Exchanges : mail[e].status # "none" /\ mail[e].target = r /\ ~PendingSteer(e, r)}

\* The exchanges complete_mailbox_exchange settles for a run: those it targets,
\* without the steers it never saw and the receipts already written.
Settled(r) ==
  {e \in Exchanges : /\ mail[e].status \in {"queued", "running"}
                     /\ mail[e].target = r
                     /\ ~PendingSteer(e, r)}

\* The receipt of each mail in E, by the lock holder or by a run's task.  One
\* whose exchange reads projected is not projected again.
WriteReceipts(E, status, who) ==
  /\ mail' = [e \in Exchanges |-> IF e \in E THEN [mail[e] EXCEPT !.status = status] ELSE mail[e]]
  /\ receipts' = [e \in Exchanges |-> IF e \in E THEN receipts[e] + 1 ELSE receipts[e]]
  /\ posting' = posting \cup {<<e, who, "event">> : e \in {x \in E : ~mail[x].projected}}

Posting(who) == \E x \in posting : x[2] = who

\* project_mailbox_reply: the mailbox_reply event, then projected_at.
PostReply(e, who) ==
  /\ <<e, who, "event">> \in posting
  /\ shown' = shown \cup {<<e, receipts[e]>>}
  /\ posting' = (posting \ {<<e, who, "event">>}) \cup {<<e, who, "mark">>}
  /\ UNCHANGED <<durable, slot, op, task, origin, restarts, handed, seen, receipts, dropped,
                 reopened>>

MarkProjected(e, who) ==
  /\ <<e, who, "mark">> \in posting
  /\ posting' = posting \ {<<e, who, "mark">>}
  /\ mail' = [mail EXCEPT ![e].projected = @ \/ mail[e].status \in Receipt]
  /\ UNCHANGED <<row, runs, slot, op, task, origin, restarts, history>>

-----------------------------------------------------------------------------
(* linked_thread_send, called by a tool of the origin's run, under the     *)
(* target's thread lock.                                                   *)

\* The exchange as the target's state decides it: a steer of the active run,
\* queued behind it, or about to start a turn.
SendPut(e) ==
  /\ origin.pc = "running"
  /\ op.pc = "free"
  /\ mail[e] = NoExchange /\ row[e] = NoRow /\ receipts[e] = 0 /\ handed[e] = {}
  /\ LET steered == slot.run # NoRun /\ slot.steering
         first == [NoExchange EXCEPT
                     !.status = IF slot.run # NoRun /\ ~slot.steering THEN "queued" ELSE "running",
                     !.target = IF steered THEN slot.run ELSE NoRun,
                     !.origin = origin.run]
     IN  /\ PutMailbox(e, first)
         /\ op' = [Free EXCEPT !.pc = IF slot.run = NoRun THEN "start" ELSE "deliver",
                               !.mail = e, !.copy = first]
  /\ UNCHANGED <<row, runs, slot, task, origin, posting, restarts, history>>

\* The inbox row of a steer or of a queued turn.
SendDeliver ==
  /\ op.pc = "deliver"
  /\ row' = [row EXCEPT ![op.mail] =
                [state |-> "pending", target |-> op.copy.target,
                 kind |-> IF op.copy.status = "queued" THEN "followup" ELSE "steer"]]
  /\ op' = Free
  /\ UNCHANGED <<mail, runs, slot, task, origin, posting, restarts, history>>

\* The row could not be written: the exchange is deleted and the send fails.
SendUndone ==
  /\ op.pc = "deliver"
  /\ mail' = [mail EXCEPT ![op.mail] = NoExchange]
  /\ op' = Free
  /\ UNCHANGED <<row, runs, slot, task, origin, posting, restarts, history>>

\* A send that started a turn writes its own copy of the exchange again, with
\* the run it started.
SendSettle ==
  /\ op.pc = "settle"
  /\ PutMailbox(op.mail, op.copy)
  /\ op' = Free
  /\ dropped' = IF mail[op.mail].status \in Receipt THEN dropped \cup {op.mail} ELSE dropped
  /\ UNCHANGED <<row, runs, slot, task, origin, posting, restarts, handed, shown, seen, receipts,
                 reopened>>

-----------------------------------------------------------------------------
(* Turns of the target thread.                                             *)

FreshRun(r) == runs[r] = "none" /\ task[r] = "none" /\ \A e \in Exchanges : r \notin handed[e]

\* A turn of the target's own user.
StartTurn(r, steering) ==
  /\ op.pc = "free" /\ slot.run = NoRun
  /\ FreshRun(r)
  /\ slot' = [run |-> r, steering |-> steering]
  /\ runs' = [runs EXCEPT ![r] = "running"]
  /\ task' = [task EXCEPT ![r] = "running"]
  /\ UNCHANGED <<mail, row, op, origin, posting, restarts, history>>

\* start_queued_turn: the mail's row is claimed, its turn is in hand.
ClaimQueuedMail(e) ==
  /\ row' = [row EXCEPT ![e] = [@ EXCEPT !.state = "claimed"]]
  /\ op' = [Free EXCEPT !.pc = "start", !.mail = e, !.queued = TRUE]

ResumeQueuedMail(e) ==
  /\ op.pc = "free" /\ slot.run = NoRun
  /\ e \in QueuedMail
  /\ ClaimQueuedMail(e)
  /\ UNCHANGED <<mail, runs, slot, task, origin, posting, restarts, history>>

\* launch_turn up to its read of the exchange.
LaunchRecord(r, steering) ==
  /\ op.pc = "start" /\ ~Posting("lock")
  /\ FreshRun(r)
  /\ slot' = [run |-> r, steering |-> steering]
  /\ runs' = [runs EXCEPT ![r] = "accepted"]
  /\ op' = [op EXCEPT !.pc = "launch", !.run = r, !.copy = mail[op.mail]]
  /\ UNCHANGED <<mail, row, task, origin, posting, restarts, history>>

\* The exchange is running, whatever it was when it was read; projected_at stays.
LaunchMail ==
  /\ op.pc = "launch"
  /\ IF op.copy.status = "none"
     THEN UNCHANGED mail
     ELSE PutMailbox(op.mail, [op.copy EXCEPT !.status = "running", !.target = op.run])
  /\ reopened' = IF op.copy.projected THEN reopened \cup {op.mail} ELSE reopened
  /\ op' = [op EXCEPT !.pc = "spawn"]
  /\ UNCHANGED <<row, runs, slot, task, origin, posting, restarts, handed, shown, seen, receipts,
                 dropped>>

LaunchSpawn ==
  /\ op.pc = "spawn"
  /\ task' = [task EXCEPT ![op.run] = "running"]
  /\ runs' = [runs EXCEPT ![op.run] = "running"]
  /\ handed' = [handed EXCEPT ![op.mail] = @ \cup {op.run}]
  /\ op' = IF op.queued THEN Free
           ELSE [op EXCEPT !.pc = "settle", !.copy = [@ EXCEPT !.target = op.run]]
  /\ UNCHANGED <<mail, row, slot, origin, posting, restarts, shown, seen, receipts, dropped,
                 reopened>>

\* Mutant of StartFailed: a queued mail's failed start is only logged.
StartFailedSilently ==
  /\ mail' = IF op.queued THEN mail ELSE [mail EXCEPT ![op.mail] = NoExchange]
  /\ UNCHANGED <<receipts, posting>>
  /\ op' = Free

\* A start that failed: a send deletes its exchange, a queued mail's sender gets
\* a failure receipt.
StartFailed ==
  /\ IF op.queued
     THEN WriteReceipts({op.mail} \cap {e \in Exchanges : mail[e].status \in {"queued", "running"}},
                        "failed", "lock")
     ELSE /\ mail' = [mail EXCEPT ![op.mail] = NoExchange]
          /\ UNCHANGED <<receipts, posting>>
  /\ op' = Free

StartRejected ==
  /\ op.pc = "start" /\ ~Posting("lock")
  /\ StartFailed
  /\ UNCHANGED <<row, runs, slot, task, origin, restarts, handed, shown, seen, dropped, reopened>>

\* abandon_unlaunched_run; the caller has the exchange still to answer.
LaunchFailed ==
  /\ op.pc \in {"launch", "spawn"}
  /\ slot' = EmptySlot
  /\ runs' = [runs EXCEPT ![op.run] = "failed"]
  /\ op' = [op EXCEPT !.pc = "undo"]
  /\ UNCHANGED <<mail, row, task, origin, posting, restarts, history>>

StartUndone ==
  /\ op.pc = "undo"
  /\ StartFailed
  /\ UNCHANGED <<row, runs, slot, task, origin, restarts, handed, shown, seen, dropped, reopened>>

\* Mutant of ClaimSteers: the steers are read and their rows stay pending.
ClaimSteersUnmarked(r) ==
  LET read == {e \in Exchanges : PendingSteer(e, r) /\ r \notin handed[e]}
  IN  /\ task[r] = "running"
      /\ slot.steering /\ read # {}
      /\ handed' = [e \in Exchanges |-> IF e \in read THEN handed[e] \cup {r} ELSE handed[e]]
      /\ UNCHANGED <<durable, slot, op, task, origin, posting, restarts, shown, seen, receipts,
                     dropped, reopened>>

\* prepare_model_step claims the steers of its run.
ClaimSteers(r) ==
  LET claimed == {e \in Exchanges : PendingSteer(e, r)}
  IN  /\ task[r] = "running"
      /\ slot.steering /\ claimed # {}
      /\ row' = [e \in Exchanges |-> IF e \in claimed THEN [row[e] EXCEPT !.state = "claimed"]
                                    ELSE row[e]]
      /\ handed' = [e \in Exchanges |-> IF e \in claimed THEN handed[e] \cup {r} ELSE handed[e]]
      /\ UNCHANGED <<mail, runs, slot, op, task, origin, posting, restarts, shown, seen, receipts,
                     dropped, reopened>>

\* The final message answers the run's mail; what follows it may still fail.
RunReplies(r, outcome) ==
  /\ task[r] = "running"
  /\ outcome \in {"completed", "failed"}
  /\ WriteReceipts(Settled(r), "replied", "task")
  /\ task' = [task EXCEPT ![r] = outcome]
  /\ UNCHANGED <<row, runs, slot, op, origin, restarts, handed, shown, seen, dropped, reopened>>

\* The run ends without a final message.
RunEnds(r, outcome) ==
  /\ task[r] = "running"
  /\ outcome \in {"failed", "cancelled"}
  /\ task' = [task EXCEPT ![r] = outcome]
  /\ UNCHANGED <<durable, slot, op, origin, posting, restarts, history>>

\* finish_run: the run's record comes first.
FinishRecord(r) ==
  /\ op.pc = "free" /\ ~Posting("lock")
  /\ task[r] \in {"completed", "failed", "cancelled"} /\ ~Posting("task")
  /\ runs' = [runs EXCEPT ![r] = task[r]]
  /\ op' = [Free EXCEPT !.pc = IF task[r] = "completed" THEN "retarget" ELSE "fail", !.run = r]
  /\ UNCHANGED <<mail, row, slot, task, origin, posting, restarts, history>>

\* complete_mailbox_exchange: one exchange after the other gets its failure receipt.
FinishFail(e) ==
  /\ op.pc = "fail" /\ ~Posting("lock")
  /\ e \in Settled(op.run)
  /\ WriteReceipts({e}, "failed", "lock")
  /\ UNCHANGED <<row, runs, slot, op, task, origin, restarts, handed, shown, seen, dropped, reopened>>

FinishFailed ==
  /\ op.pc = "fail" /\ ~Posting("lock")
  /\ Settled(op.run) = {}
  /\ op' = [op EXCEPT !.pc = "retarget"]
  /\ UNCHANGED <<durable, slot, task, origin, posting, restarts, history>>

\* control_retarget_pending_steers: unclaimed steers and their exchanges are queued.
FinishRetarget ==
  /\ op.pc = "retarget"
  /\ LET missed == {e \in Exchanges : PendingSteer(e, op.run)}
     IN  /\ mail' = [e \in Exchanges |->
                       IF e \in missed /\ mail[e].status # "none"
                       THEN [mail[e] EXCEPT !.status = "queued", !.target = NoRun] ELSE mail[e]]
         /\ row' = [e \in Exchanges |->
                       IF e \in missed THEN [row[e] EXCEPT !.kind = "followup", !.target = NoRun]
                       ELSE row[e]]
         /\ reopened' = reopened \cup {e \in missed : mail[e].projected}
  /\ op' = [op EXCEPT !.pc = "release"]
  /\ UNCHANGED <<runs, slot, task, origin, posting, restarts, handed, shown, seen, receipts, dropped>>

\* The slot is free; the queue's head is mail, a turn without mail, or nothing
\* is drained.
FinishRelease ==
  /\ op.pc = "release"
  /\ slot' = EmptySlot
  /\ task' = [task EXCEPT ![op.run] = "done"]
  /\ \/ \E e \in QueuedMail : ClaimQueuedMail(e)
     \/ op' = Free /\ UNCHANGED row
  /\ UNCHANGED <<mail, runs, origin, posting, restarts, history>>

\* turn.queue_delete or turn.inbox_delete of a mail's row; the exchange is not
\* looked at.
DeleteRow(e) ==
  /\ e \in Cancellable
  /\ op.pc = "free"
  /\ row[e].state = "pending"
  /\ row' = [row EXCEPT ![e] = [@ EXCEPT !.state = "cancelled"]]
  /\ dropped' = dropped \cup {e}
  /\ UNCHANGED <<mail, runs, slot, op, task, origin, posting, restarts, handed, shown, seen,
                 receipts, reopened>>

-----------------------------------------------------------------------------
(* The origin thread.                                                      *)

\* Mutant of Unclaimed: receipts a wait consumed are claimed again.
UnclaimedOrConsumed == {e \in Exchanges : mail[e].status \in Receipt}

\* What control_claim_mailbox_replies selects.
Unclaimed == {e \in Exchanges : mail[e].status \in Receipt /\ ~mail[e].consumed}

FreshOriginRun(o) ==
  /\ \A e \in Exchanges : mail[e].origin # o
  /\ \A x \in seen : x[3] # o

\* launch_turn's first step: the thread's unclaimed receipts go to this run.
OriginClaim(o) ==
  /\ origin.pc = "idle"
  /\ FreshOriginRun(o)
  /\ mail' = [e \in Exchanges |-> IF e \in Unclaimed
                                  THEN [mail[e] EXCEPT !.consumed = TRUE, !.origin = o] ELSE mail[e]]
  /\ origin' = [run |-> o, pc |-> "launching", claimed |-> {<<e, receipts[e]>> : e \in Unclaimed}]
  /\ UNCHANGED <<row, runs, slot, op, task, posting, restarts, history>>

OriginStart ==
  /\ origin.pc = "launching"
  /\ origin' = [origin EXCEPT !.pc = "running", !.claimed = {}]
  /\ seen' = seen \cup {<<c[1], c[2], origin.run>> : c \in origin.claimed}
  /\ UNCHANGED <<durable, slot, op, task, posting, restarts, handed, shown, receipts, dropped,
                 reopened>>

\* A launch that fails after the claim, and the end of a run.
OriginEnd ==
  /\ origin.pc # "idle"
  /\ origin' = Idle
  /\ UNCHANGED <<durable, slot, op, task, posting, restarts, history>>

\* linked_thread_wait finds the receipt of a mail this run sent or claimed.
OriginWait(e) ==
  /\ origin.pc = "running"
  /\ mail[e].origin = origin.run
  /\ mail[e].status \in Receipt
  /\ mail' = [mail EXCEPT ![e] = [@ EXCEPT !.consumed = TRUE]]
  /\ seen' = seen \cup {<<e, receipts[e], origin.run>>}
  /\ UNCHANGED <<row, runs, slot, op, task, origin, posting, restarts, handed, shown, receipts,
                 dropped, reopened>>

-----------------------------------------------------------------------------
(* Exit and start of the process: reconcile_control_startup, then          *)
(* reconcile_mailbox_projections.                                          *)

Interrupted == {r \in Runs : runs[r] \in {"accepted", "running", "interrupted"}}

\* Mutant of Unposted: receipts an exit left unprojected stay so.
NoneUnposted(m) == {e \in Exchanges : FALSE}

\* The receipts among the exchanges m that are not in the origin's timeline.
Unposted(m) == {e \in Exchanges : m[e].status \in Receipt /\ ~m[e].projected}

\* Mail an exit takes from its holder's hands and start-up does not answer: the
\* turn it was to be, or the receipt of a run whose end is already recorded.
CutOff ==
  {e \in Exchanges :
     \/ op.mail = e /\ op.pc \in {"deliver", "start", "launch", "undo"}
     \/ op.pc = "fail" /\ e \in Settled(op.run)}

\* Only the exchanges of interrupted runs get a failure receipt.
Restart ==
  /\ restarts < MaxRestarts
  /\ restarts' = restarts + 1
  /\ runs' = [r \in Runs |-> IF r \in Interrupted THEN "interrupted" ELSE runs[r]]
  /\ row' = [e \in Exchanges |-> IF row[e].state = "pending"
                                 THEN [row[e] EXCEPT !.kind = "followup", !.target = NoRun]
                                 ELSE row[e]]
  /\ LET stopped == {e \in Exchanges : mail[e].status = "running" /\ mail[e].target \in Interrupted}
         failed  == [e \in Exchanges |-> IF e \in stopped THEN [mail[e] EXCEPT !.status = "failed"]
                                         ELSE mail[e]]
         count   == [e \in Exchanges |-> IF e \in stopped THEN receipts[e] + 1 ELSE receipts[e]]
     IN  /\ mail' = [e \in Exchanges |-> IF e \in Unposted(failed)
                                         THEN [failed[e] EXCEPT !.projected = TRUE] ELSE failed[e]]
         /\ receipts' = count
         /\ shown' = shown \cup {<<e, count[e]>> : e \in Unposted(failed)}
         /\ dropped' = dropped \cup (CutOff \ stopped)
  /\ slot' = EmptySlot /\ op' = Free /\ origin' = Idle /\ posting' = {}
  /\ task' = [r \in Runs |-> IF task[r] = "none" THEN "none" ELSE "done"]
  /\ UNCHANGED <<handed, seen, reopened>>

-----------------------------------------------------------------------------
Send    == (\E e \in Exchanges : SendPut(e)) \/ SendDeliver \/ SendUndone \/ SendSettle
Start   == \/ \E r \in Runs, steering \in BOOLEAN : StartTurn(r, steering) \/ LaunchRecord(r, steering)
           \/ \E e \in Exchanges : ResumeQueuedMail(e) \/ DeleteRow(e)
           \/ LaunchMail \/ LaunchSpawn \/ StartRejected \/ LaunchFailed \/ StartUndone
RunStep == \/ \E r \in Runs : ClaimSteers(r) \/ FinishRecord(r)
           \/ \E r \in Runs, outcome \in {"completed", "failed", "cancelled"} :
                 RunReplies(r, outcome) \/ RunEnds(r, outcome)
           \/ \E e \in Exchanges : FinishFail(e)
           \/ FinishFailed \/ FinishRetarget \/ FinishRelease
           \/ \E e \in Exchanges, who \in {"lock", "task"} : PostReply(e, who) \/ MarkProjected(e, who)
Origin  == \/ \E o \in OriginRuns : OriginClaim(o)
           \/ OriginStart \/ OriginEnd
           \/ \E e \in Exchanges : OriginWait(e)

Next == Send \/ Start \/ RunStep \/ Origin \/ Restart

Spec == Init /\ [][Next]_vars

-----------------------------------------------------------------------------
(* Properties.                                                             *)

InHand(e)    == op.mail = e /\ op.pc \in {"deliver", "start", "launch", "spawn", "undo"}
Pending(e)   == row[e].state = "pending"
LiveRun(e)   == mail[e].target # NoRun /\ task[mail[e].target] \in {"running", "completed", "failed", "cancelled"}

\* A message is handed to at most one run of the target: as a turn or as a
\* step input, never both and never again after a failed start or an exit.
MailHandedOverOnce == \A e \in Exchanges : \A r, s \in handed[e] : r = s

\* An exchange without a receipt has something that will produce one: its
\* pending row, a lock holder, or a run that is not yet finished with its mail.
\* The only ways to fall out are the three of `dropped`; one is an exit between
\* a run's record and its mail's receipt (finish_run, abandon_unlaunched_run),
\* which reconcile_control_startup does not make good.
AnswerIsComing ==
  \A e \in Exchanges : mail[e].status \in {"queued", "running"} =>
     Pending(e) \/ InHand(e) \/ LiveRun(e) \/ e \in dropped

\* A receipt is final once its mail is no longer in delivery: late failures of
\* the run, its finish and restarts leave it alone.
ReceiptIsFinal ==
  [][\A e \in Exchanges :
       mail[e].status \in Receipt /\ ~Pending(e) /\ op.mail # e
         => mail'[e].status = mail[e].status]_vars

\* No receipt is given to two runs of the origin: a wait consumes it before the
\* next turn can claim it.
ReceiptConsumedOnce ==
  \A x, y \in seen : x[1] = y[1] /\ x[2] = y[2] => x[3] = y[3]

\* Each receipt, a second one of the same mail too, reaches the origin's
\* timeline: its writer is posting it, or it is there, also when the process
\* exited between the two.  The exception is mail that was given a receipt while
\* its own row was still to be worked on, by a restart or by a run that replied
\* before the steer was there: project_mailbox_reply drops its real answer.
ReceiptReachesTimeline ==
  \A e \in Exchanges : mail[e].status \in Receipt =>
     \/ <<e, receipts[e]>> \in shown
     \/ \E who \in {"lock", "task"} : <<e, who, "event">> \in posting
     \/ e \in reopened

\* linked_thread_wait's description: a reply that arrives late still reaches the
\* origin.  So a running exchange has a run that can still answer it.
RunningMailHasRun ==
  \A e \in Exchanges : mail[e].status = "running" => InHand(e) \/ op.mail = e \/ LiveRun(e)
=============================================================================
