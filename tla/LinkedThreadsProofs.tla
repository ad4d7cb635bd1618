------------------------- MODULE LinkedThreadsProofs -------------------------
(***************************************************************************)
(* Proofs about the mail between linked threads, for any numbers of        *)
(* messages, runs and exits.  LinkedInv is inductive; its parts are the    *)
(* types, where a message waits for its first run (HandInv), where its     *)
(* receipt is on the way to the origin's timeline (PostInv), who got it    *)
(* (SeenInv), what the lock holder knows of the runs (RunInv), what it and *)
(* the row say of the exchange (ShapeInv), that a receipt being posted is  *)
(* the last of its mail (WriterInv), and what will answer it (AnswerInv).  *)
(***************************************************************************)
EXTENDS LinkedThreads, TLAPS

-----------------------------------------------------------------------------
(* Records.                                                                *)

\* The fields of an exchange, and what the table keeps of an update of them.
LEMMA ExchangeFields ==
  /\ NoExchange \in MailRecord /\ NoExchange.status = "none" /\ NoExchange.target = NoRun
  /\ NoExchange.consumed = FALSE /\ NoExchange.projected = FALSE
  /\ \A m \in MailRecord :
       /\ m.status \in {"none", "queued", "running"} \cup Receipt /\ m.target \in Runs \cup {NoRun}
       /\ m.origin \in OriginRuns \cup {NoRun} /\ m.consumed \in BOOLEAN /\ m.projected \in BOOLEAN
  BY DEF MailRecord, NoExchange

\* An exchange with another status.
LEMMA StatusEffect ==
  ASSUME NEW m \in MailRecord, NEW s \in {"none", "queued", "running"} \cup Receipt,
         NEW x, x = [m EXCEPT !.status = s]
  PROVE  /\ x \in MailRecord /\ x.status = s /\ x.target = m.target /\ x.origin = m.origin
         /\ x.consumed = m.consumed /\ x.projected = m.projected
  BY DEF MailRecord

\* An exchange with another target.
LEMMA TargetEffect ==
  ASSUME NEW m \in MailRecord, NEW r \in Runs \cup {NoRun},
         NEW x, x = [m EXCEPT !.target = r]
  PROVE  /\ x \in MailRecord /\ x.status = m.status /\ x.target = r /\ x.origin = m.origin
         /\ x.consumed = m.consumed /\ x.projected = m.projected
  BY DEF MailRecord

\* control_put_mailbox.
LEMMA PutEffect ==
  ASSUME mail \in [Exchanges -> MailRecord], NEW e \in Exchanges, NEW m \in MailRecord, PutMailbox(e, m)
  PROVE  /\ mail' \in [Exchanges -> MailRecord]
         /\ \A x \in Exchanges \ {e} : mail'[x] = mail[x]
         /\ mail'[e].status = m.status /\ mail'[e].origin = m.origin
         /\ mail'[e].consumed = m.consumed /\ mail'[e].projected = m.projected
         /\ mail'[e].target = IF m.target = NoRun THEN mail[e].target ELSE m.target
<1> DEFINE r == IF m.target = NoRun THEN mail[e].target ELSE m.target
<1>1. mail' = [mail EXCEPT ![e] = [m EXCEPT !.target = r]]
  BY DEF PutMailbox, MailRecord
<1>2. r \in Runs \cup {NoRun}
  BY ExchangeFields
<1>3. mail'[e] = [m EXCEPT !.target = r]
  BY <1>1
<1> HIDE DEF r
<1> QED
  BY <1>1, <1>2, <1>3, TargetEffect DEF r

\* A receipt that is to be projected, and one whose event is written.
Event(e, who) == <<e, who, "event">>
Mark(e, who)  == <<e, who, "mark">>

\* The receipts of a set of exchanges.
LEMMA ReceiptsEffect ==
  ASSUME mail \in [Exchanges -> MailRecord], receipts \in [Exchanges -> Nat], NEW E,
         NEW s \in Receipt, NEW who, WriteReceipts(E, s, who)
  PROVE  /\ mail' \in [Exchanges -> MailRecord] /\ receipts' \in [Exchanges -> Nat]
         /\ \A e \in Exchanges : e \notin E => mail'[e] = mail[e] /\ receipts'[e] = receipts[e]
         /\ \A e \in Exchanges : e \in E =>
              /\ mail'[e].status \in Receipt /\ mail'[e].target = mail[e].target /\ mail'[e].origin = mail[e].origin
              /\ mail'[e].consumed = mail[e].consumed /\ mail'[e].projected = mail[e].projected
              /\ receipts'[e] = receipts[e] + 1
              /\ ~mail[e].projected => Event(e, who) \in posting'
         /\ posting \subseteq posting'
         /\ \A y \in posting' : y \in posting \/ \E e \in E : y = Event(e, who)
<1>1. /\ mail' = [e \in Exchanges |-> IF e \in E THEN [mail[e] EXCEPT !.status = s] ELSE mail[e]]
      /\ receipts' = [e \in Exchanges |-> IF e \in E THEN receipts[e] + 1 ELSE receipts[e]]
      /\ posting' = posting \cup {Event(e, who) : e \in {x \in E : ~mail[x].projected}}
  BY DEF WriteReceipts, Event
<1>2. \A e \in Exchanges : LET x == [mail[e] EXCEPT !.status = s] IN
         /\ x \in MailRecord /\ x.status = s /\ x.target = mail[e].target /\ x.origin = mail[e].origin
         /\ x.consumed = mail[e].consumed /\ x.projected = mail[e].projected
  BY StatusEffect
<1>3. \A e \in Exchanges : e \notin E => mail'[e] = mail[e] /\ receipts'[e] = receipts[e]
  BY <1>1
<1>4. \A e \in Exchanges : e \in E => mail'[e] = [mail[e] EXCEPT !.status = s] /\ receipts'[e] = receipts[e] + 1
  BY <1>1
<1>5. mail' \in [Exchanges -> MailRecord] /\ receipts' \in [Exchanges -> Nat]
  BY <1>1, <1>2
<1>6. \A e \in Exchanges : e \in E /\ ~mail[e].projected => Event(e, who) \in posting'
  BY <1>1
<1>7. posting \subseteq posting' /\ \A y \in posting' : y \in posting \/ \E e \in E : y = Event(e, who)
  BY <1>1
<1> QED
  BY <1>2, <1>3, <1>4, <1>5, <1>6, <1>7

\* The lock holder's record at each of its steps.
LEMMA OpFields ==
  /\ Free \in OpRecord /\ Free.pc = "free" /\ Free.mail = NoMail /\ Free.run = NoRun
  /\ Free.queued = FALSE /\ Free.copy = NoExchange
  /\ \A o \in OpRecord :
       /\ o.pc \in {"free", "deliver", "settle", "start", "launch", "spawn", "undo", "fail", "retarget", "release"}
       /\ o.mail \in Exchanges \cup {NoMail} /\ o.run \in Runs \cup {NoRun}
       /\ o.queued \in BOOLEAN /\ o.copy \in MailRecord
  BY ExchangeFields DEF OpRecord, Free

\* The rows of the inbox.
LEMMA RowFields ==
  /\ NoRow \in RowRecord /\ NoRow.state = "none" /\ NoRow.kind = "none" /\ NoRow.target = NoRun
  /\ \A w \in RowRecord : /\ w.state \in {"none", "pending", "claimed", "cancelled"}
                          /\ w.kind \in {"none", "steer", "followup"} /\ w.target \in Runs \cup {NoRun}
  /\ \A k \in {"steer", "followup"}, r \in Runs \cup {NoRun} :
       LET x == [state |-> "pending", target |-> r, kind |-> k] IN
       x \in RowRecord /\ x.state = "pending" /\ x.target = r /\ x.kind = k
  /\ \A w \in RowRecord, s \in {"claimed", "cancelled"} :
       LET x == [w EXCEPT !.state = s] IN x \in RowRecord /\ x.state = s /\ x.kind = w.kind /\ x.target = w.target
  /\ \A w \in RowRecord :
       LET x == [w EXCEPT !.kind = "followup", !.target = NoRun] IN
       x \in RowRecord /\ x.state = w.state /\ x.kind = "followup" /\ x.target = NoRun
  BY Zenon DEF RowRecord, NoRow

-----------------------------------------------------------------------------
(* Type correctness.                                                       *)

\* Which mail and run the lock holder works on.
InSend    == {"deliver", "settle", "start", "launch", "spawn", "undo"}
WithRun   == {"launch", "spawn", "undo", "settle", "fail", "retarget", "release"}
Finishing == {"fail", "retarget", "release"}
OpOK ==
  /\ op.pc \in InSend => op.mail \in Exchanges
  /\ op.pc \in WithRun => op.run \in Runs
  /\ op.pc \notin InSend => op.mail = NoMail
  /\ op.pc = "deliver" => op.copy.status \in {"queued", "running"}

\* The origin's run.
OriginOK == origin.pc # "idle" => origin.run \in OriginRuns

LinkedType == TypeOK /\ OpOK /\ OriginOK

\* The table's and the lock holder's records in a well-typed state.
LEMMA Typed ==
  ASSUME LinkedType
  PROVE  /\ mail \in [Exchanges -> MailRecord] /\ row \in [Exchanges -> RowRecord] /\ op \in OpRecord
         /\ receipts \in [Exchanges -> Nat] /\ handed \in [Exchanges -> SUBSET Runs]
         /\ runs \in [Runs -> {"none", "accepted", "running", "completed", "failed", "cancelled", "interrupted"}]
         /\ task \in [Runs -> {"none", "running", "completed", "failed", "cancelled", "done"}]
         /\ slot.run \in Runs \cup {NoRun} /\ slot.steering \in BOOLEAN
         /\ origin.run \in OriginRuns \cup {NoRun} /\ origin.claimed \subseteq Exchanges \X Nat
         /\ origin.pc \in {"idle", "launching", "running"}
         /\ op.copy \in MailRecord
         /\ op.pc \in InSend => op.mail \in Exchanges
         /\ op.pc \in WithRun => op.run \in Runs
         /\ op.pc \notin InSend => op.mail = NoMail
         /\ op.pc = "deliver" => op.copy.status \in {"queued", "running"}
         /\ origin.pc # "idle" => origin.run \in OriginRuns
         /\ seen \subseteq Exchanges \X Nat \X OriginRuns /\ shown \subseteq Exchanges \X Nat
         /\ dropped \subseteq Exchanges /\ reopened \subseteq Exchanges
         /\ posting \subseteq Exchanges \X {"lock", "task"} \X {"event", "mark"}
         /\ restarts \in 0..MaxRestarts
  BY OpFields DEF LinkedType, TypeOK, OpOK, OriginOK

-----------------------------------------------------------------------------
(* What the steps do that write an exchange.                               *)

\* A new exchange and its holder.
LEMMA SendPutEffect ==
  ASSUME MailConstants, LinkedType, NEW e \in Exchanges, SendPut(e)
  PROVE  /\ mail' \in [Exchanges -> MailRecord] /\ \A x \in Exchanges \ {e} : mail'[x] = mail[x]
         /\ mail'[e].consumed = FALSE /\ mail'[e].projected = FALSE
         /\ mail'[e].status \in {"queued", "running"}
         /\ mail'[e].status = "queued" => mail'[e].target = NoRun
         /\ op' \in OpRecord /\ op'.pc \in {"start", "deliver"} /\ op'.mail = e /\ op'.run = NoRun
         /\ op'.queued = FALSE
         /\ op'.copy.status = mail'[e].status /\ op'.copy.projected = FALSE
         /\ op'.pc = "start" => mail'[e].status = "running" /\ mail'[e].target = NoRun
         /\ op'.pc = "deliver" /\ mail'[e].status = "running" =>
              mail'[e].target = op'.copy.target /\ op'.copy.target \in Runs /\ op'.copy.target = slot.run
<1> DEFINE s == IF slot.run # NoRun /\ ~slot.steering THEN "queued" ELSE "running"
           r == IF slot.run # NoRun /\ slot.steering THEN slot.run ELSE NoRun
           first == [NoExchange EXCEPT !.status = s, !.target = r, !.origin = origin.run]
           pc == IF slot.run = NoRun THEN "start" ELSE "deliver"
<1>1. /\ PutMailbox(e, first)
      /\ op' = [Free EXCEPT !.pc = pc, !.mail = e, !.copy = first]
      /\ mail[e] = NoExchange
  BY DEF SendPut
<1>2. /\ s \in {"queued", "running"} /\ r \in Runs \cup {NoRun} /\ pc \in {"start", "deliver"}
      /\ s = "queued" => r = NoRun /\ pc = "deliver"
      /\ pc = "deliver" /\ s = "running" => r \in Runs
      /\ pc = "start" => r = NoRun
  BY Typed
<1>6. pc = "deliver" /\ s = "running" => r = slot.run
  OBVIOUS
<1>3. /\ first \in MailRecord /\ first.status = s /\ first.target = r
      /\ first.consumed = FALSE /\ first.projected = FALSE
  <2>1. s \in {"queued", "running"} /\ r \in Runs \cup {NoRun} /\ origin.run \in OriginRuns \cup {NoRun}
    BY <1>2, Typed
  <2> HIDE DEF s, r
  <2> QED
    BY ONLY <2>1 DEF MailRecord, NoExchange, Receipt, first
<1>4. /\ mail' \in [Exchanges -> MailRecord] /\ \A x \in Exchanges \ {e} : mail'[x] = mail[x]
      /\ mail'[e].status = s /\ mail'[e].consumed = FALSE /\ mail'[e].projected = FALSE
      /\ mail'[e].target = r
  <2>1. PutMailbox(e, first) /\ first \in MailRecord /\ mail \in [Exchanges -> MailRecord]
    BY <1>1, <1>3, Typed
  <2> HIDE DEF first, r, s
  <2> QED
    BY <1>1, <1>3, <2>1, PutEffect, ExchangeFields
<1>5. /\ op' \in OpRecord /\ op'.pc = pc /\ op'.mail = e /\ op'.run = NoRun /\ op'.queued = FALSE
      /\ op'.copy = first
  <2> HIDE DEF first
  <2> QED
    BY <1>1, <1>2, <1>3, Typed, OpFields DEF OpRecord, Free
<1> HIDE DEF first, r, s, pc
<1> QED
  BY <1>2, <1>3, <1>4, <1>5, <1>6

\* An exchange its holder writes again.
LEMMA SendSettleEffect ==
  ASSUME LinkedType, SendSettle
  PROVE  /\ mail' \in [Exchanges -> MailRecord] /\ \A x \in Exchanges \ {op.mail} : mail'[x] = mail[x]
         /\ mail'[op.mail].status = op.copy.status /\ mail'[op.mail].projected = op.copy.projected
         /\ mail'[op.mail].target = IF op.copy.target = NoRun THEN mail[op.mail].target ELSE op.copy.target
         /\ op.pc = "settle" /\ op' = Free
  BY Typed, PutEffect DEF SendSettle, InSend

\* The run of a turn, with the exchange as it is read for it.
LEMMA LaunchRecordEffect ==
  ASSUME LinkedType, NEW r \in Runs, NEW steering, LaunchRecord(r, steering)
  PROVE  /\ op.pc = "start" /\ op.mail \in Exchanges
         /\ op' \in OpRecord /\ op'.pc = "launch" /\ op'.mail = op.mail /\ op'.run = r
         /\ op'.queued = op.queued /\ op'.copy = mail[op.mail]
<1>1. op.pc = "start" /\ op' = [op EXCEPT !.pc = "launch", !.run = r, !.copy = mail[op.mail]]
  BY DEF LaunchRecord
<1>2. op.mail \in Exchanges /\ op \in OpRecord /\ mail[op.mail] \in MailRecord
  BY <1>1, Typed DEF InSend
<1> QED
  BY <1>1, <1>2 DEF OpRecord

\* The exchange set to running, unless it was gone when it was read.
LEMMA LaunchMailEffect ==
  ASSUME MailConstants, LinkedType, LaunchMail
  PROVE  /\ op.pc = "launch" /\ op.mail \in Exchanges /\ op.run \in Runs
         /\ op' \in OpRecord /\ op'.pc = "spawn" /\ op'.mail = op.mail /\ op'.run = op.run
         /\ op'.queued = op.queued /\ op'.copy = op.copy
         /\ mail' \in [Exchanges -> MailRecord] /\ \A x \in Exchanges \ {op.mail} : mail'[x] = mail[x]
         /\ op.copy.status = "none" => mail' = mail
         /\ op.copy.status # "none" => /\ mail'[op.mail].status = "running" /\ mail'[op.mail].target = op.run
                                       /\ mail'[op.mail].projected = op.copy.projected
<1>1. op.pc = "launch" /\ op' = [op EXCEPT !.pc = "spawn"] /\ op.mail \in Exchanges /\ op.run \in Runs
      /\ op.copy \in MailRecord
  BY Typed DEF LaunchMail, InSend, WithRun
<1>2. /\ op' \in OpRecord /\ op'.pc = "spawn" /\ op'.mail = op.mail /\ op'.run = op.run
      /\ op'.queued = op.queued /\ op'.copy = op.copy
  BY <1>1, Typed DEF OpRecord
<1>3. CASE op.copy.status = "none"
  BY <1>1, <1>2, <1>3, Typed DEF LaunchMail
<1>4. CASE op.copy.status # "none"
  <2> DEFINE m == [op.copy EXCEPT !.status = "running", !.target = op.run]
  <2>1. PutMailbox(op.mail, m)
    BY <1>4 DEF LaunchMail
  <2>2. m \in MailRecord /\ m.status = "running" /\ m.target = op.run /\ m.projected = op.copy.projected
    BY <1>1 DEF MailRecord
  <2>3. op.run # NoRun
    BY <1>1 DEF MailConstants
  <2> HIDE DEF m
  <2>4. /\ mail' \in [Exchanges -> MailRecord] /\ \A x \in Exchanges \ {op.mail} : mail'[x] = mail[x]
        /\ mail'[op.mail].status = m.status /\ mail'[op.mail].projected = m.projected
        /\ mail'[op.mail].target = m.target
    BY <1>1, <2>1, <2>2, <2>3, Typed, PutEffect
  <2> QED
    BY <1>1, <1>2, <1>4, <2>2, <2>4
<1> QED
  BY <1>3, <1>4

\* The task that got the mail; a send goes on, a queued start is over.
LEMMA LaunchSpawnEffect ==
  ASSUME LinkedType, LaunchSpawn
  PROVE  /\ op.pc = "spawn" /\ op.mail \in Exchanges /\ op.run \in Runs
         /\ op.queued => op' = Free
         /\ ~op.queued => /\ op' \in OpRecord /\ op'.pc = "settle" /\ op'.mail = op.mail /\ op'.run = op.run
                          /\ op'.queued = op.queued /\ op'.copy.status = op.copy.status
                          /\ op'.copy.projected = op.copy.projected /\ op'.copy.target = op.run
<1>1. op.pc = "spawn" /\ op.mail \in Exchanges /\ op.run \in Runs /\ op \in OpRecord /\ op.copy \in MailRecord
  BY Typed DEF LaunchSpawn, InSend, WithRun
<1>2. CASE op.queued
  BY <1>1, <1>2 DEF LaunchSpawn
<1>3. CASE ~op.queued
  <2>1. op' = [op EXCEPT !.pc = "settle", !.copy = [@ EXCEPT !.target = op.run]]
    BY <1>3 DEF LaunchSpawn
  <2> QED
    <3> DEFINE m == [op.copy EXCEPT !.target = op.run]
    <3>1. m \in MailRecord /\ m.status = op.copy.status /\ m.projected = op.copy.projected /\ m.target = op.run
      BY <1>1 DEF MailRecord
    <3>2. op' = [op EXCEPT !.pc = "settle", !.copy = m]
      BY <1>1, <2>1 DEF OpRecord
    <3> HIDE DEF m
    <3> QED
      BY <1>1, <1>3, <3>1, <3>2 DEF OpRecord
<1> QED
  BY <1>2, <1>3

\* A start that failed leaves its exchange deleted or answered.
LEMMA StartFailedEffect ==
  ASSUME LinkedType, op.pc \in {"start", "undo"}, StartFailed
  PROVE  /\ op.mail \in Exchanges /\ op' = Free
         /\ mail' \in [Exchanges -> MailRecord] /\ \A x \in Exchanges \ {op.mail} : mail'[x] = mail[x]
         /\ receipts' \in [Exchanges -> Nat] /\ \A x \in Exchanges \ {op.mail} : receipts'[x] = receipts[x]
         /\ mail'[op.mail].status \notin {"queued", "running"}
         /\ posting \subseteq posting' /\ \A y \in posting' : y \in posting \/ y = Event(op.mail, "lock")
         /\ mail'[op.mail].target \in {mail[op.mail].target, NoRun}
         /\ \/ mail'[op.mail] = NoExchange /\ receipts' = receipts /\ posting' = posting
            \/ mail'[op.mail] = mail[op.mail] /\ receipts' = receipts /\ posting' = posting
            \/ /\ mail'[op.mail].status \in Receipt /\ receipts'[op.mail] = receipts[op.mail] + 1
               /\ mail[op.mail].status \in {"queued", "running"}
               /\ mail'[op.mail].projected = mail[op.mail].projected
               /\ ~mail[op.mail].projected => Event(op.mail, "lock") \in posting'
<1>1. op.mail \in Exchanges /\ op' = Free /\ mail \in [Exchanges -> MailRecord] /\ receipts \in [Exchanges -> Nat]
  BY Typed DEF StartFailed, InSend
<1>2. CASE op.queued
  <2> DEFINE E == {op.mail} \cap {e \in Exchanges : mail[e].status \in {"queued", "running"}}
  <2>1. WriteReceipts(E, "failed", "lock") /\ "failed" \in Receipt
    BY <1>2 DEF StartFailed, Receipt
  <2>2. \A x \in Exchanges : x \in E <=> x = op.mail /\ mail[x].status \in {"queued", "running"}
    BY <1>1
  <2>3. \A x \in E : x = op.mail
    OBVIOUS
  <2> HIDE DEF E
  <2>4. mail' \in [Exchanges -> MailRecord] /\ receipts' \in [Exchanges -> Nat]
    BY <1>1, <2>1, ReceiptsEffect
  <2>5. \A e \in Exchanges : e \notin E => mail'[e] = mail[e] /\ receipts'[e] = receipts[e]
    BY <1>1, <2>1, ReceiptsEffect
  <2>6. \A e \in Exchanges : e \in E => /\ mail'[e].status \in Receipt /\ mail'[e].target = mail[e].target
                                        /\ mail'[e].projected = mail[e].projected
    BY <1>1, <2>1, ReceiptsEffect
  <2>7. \A e \in Exchanges : e \in E => /\ receipts'[e] = receipts[e] + 1
                                        /\ ~mail[e].projected => Event(e, "lock") \in posting'
    BY <1>1, <2>1, ReceiptsEffect
  <2>8. posting \subseteq posting' /\ \A y \in posting' : y \in posting \/ \E e \in E : y = Event(e, "lock")
    BY <1>1, <2>1, ReceiptsEffect
  <2>9. /\ \A x \in Exchanges \ {op.mail} : mail'[x] = mail[x] /\ receipts'[x] = receipts[x]
        /\ \A y \in posting' : y \in posting \/ y = Event(op.mail, "lock")
    BY <2>3, <2>5, <2>8
  <2>10. CASE op.mail \in E
    BY <1>1, <2>2, <2>4, <2>6, <2>7, <2>8, <2>9, <2>10 DEF Receipt
  <2>11. CASE op.mail \notin E
    <3>1. receipts' = receipts
      BY <1>1, <2>3, <2>4, <2>5, <2>11
    <3>2. posting' = posting
      BY <2>3, <2>8, <2>11
    <3> QED
      BY <1>1, <2>2, <2>4, <2>5, <2>8, <2>9, <2>11, <3>1, <3>2
  <2> QED
    BY <2>10, <2>11
<1>3. CASE ~op.queued
  <2>1. mail' = [mail EXCEPT ![op.mail] = NoExchange] /\ receipts' = receipts /\ posting' = posting
    BY <1>3 DEF StartFailed
  <2> QED
    BY <1>1, <2>1, ExchangeFields
<1> QED
  BY <1>2, <1>3

\* A queued mail that is claimed to be started.
LEMMA ClaimEffectQ ==
  ASSUME LinkedType, NEW e \in Exchanges, ClaimQueuedMail(e)
  PROVE  /\ op' \in OpRecord /\ op'.pc = "start" /\ op'.mail = e /\ op'.run = NoRun /\ op'.queued = TRUE
         /\ op'.copy = NoExchange
         /\ row' \in [Exchanges -> RowRecord] /\ \A x \in Exchanges \ {e} : row'[x] = row[x]
         /\ row'[e].state = "claimed"
<1>1. /\ row' = [row EXCEPT ![e] = [@ EXCEPT !.state = "claimed"]]
      /\ op' = [Free EXCEPT !.pc = "start", !.mail = e, !.queued = TRUE]
  BY DEF ClaimQueuedMail
<1>2. /\ op' \in OpRecord /\ op'.pc = "start" /\ op'.mail = e /\ op'.run = NoRun /\ op'.queued = TRUE
      /\ op'.copy = NoExchange
  BY <1>1, OpFields, ExchangeFields DEF OpRecord, Free
<1>3. row \in [Exchanges -> RowRecord]
  BY Typed
<1>4. /\ row' \in [Exchanges -> RowRecord] /\ \A x \in Exchanges \ {e} : row'[x] = row[x]
      /\ row'[e].state = "claimed"
  BY Zenon, <1>1, <1>3, RowFields
<1> QED
  BY <1>2, <1>4

\* A launch that failed: its run's record and slot, and the exchange to be undone.
LEMMA LaunchFailedEffect ==
  ASSUME LinkedType, LaunchFailed
  PROVE  /\ op.pc \in {"launch", "spawn"} /\ op.mail \in Exchanges /\ op.run \in Runs
         /\ op' \in OpRecord /\ op'.pc = "undo" /\ op'.mail = op.mail /\ op'.run = op.run
         /\ op'.queued = op.queued /\ op'.copy = op.copy
  BY Typed DEF LaunchFailed, InSend, WithRun, OpRecord

\* The end of a run, recorded before its mail is answered.
LEMMA FinishRecordEffect ==
  ASSUME LinkedType, NEW r \in Runs, FinishRecord(r)
  PROVE  /\ op.pc = "free" /\ op' \in OpRecord /\ op'.mail = NoMail /\ op'.run = r
         /\ op'.copy = NoExchange
         /\ task[r] \in {"completed", "failed", "cancelled"}
         /\ op'.pc = IF task[r] = "completed" THEN "retarget" ELSE "fail"
         /\ runs' = [runs EXCEPT ![r] = task[r]]
         /\ UNCHANGED <<mail, row, slot, task, posting, shown, seen, receipts, handed, origin, dropped,
                        reopened>>
  BY ExchangeFields DEF FinishRecord, OpRecord, Free, history

\* All of a run's mail is answered.
LEMMA FinishFailedEffect ==
  ASSUME LinkedType, FinishFailed
  PROVE  /\ op.pc = "fail" /\ Settled(op.run) = {}
         /\ op' \in OpRecord /\ op'.pc = "retarget" /\ op'.mail = op.mail /\ op'.run = op.run
         /\ op'.queued = op.queued /\ op'.copy = op.copy
         /\ UNCHANGED <<mail, row, runs, slot, task, posting, shown, seen, receipts, handed, origin, dropped,
                        reopened>>
  BY Typed DEF FinishFailed, OpRecord, durable, history

\* The steers a finished run has not claimed, and their exchanges.
LEMMA RetargetEffect ==
  ASSUME LinkedType, FinishRetarget
  PROVE  /\ op.pc = "retarget" /\ op.run \in Runs
         /\ op' \in OpRecord /\ op'.pc = "release" /\ op'.mail = op.mail /\ op'.run = op.run
         /\ op'.copy = op.copy
         /\ mail' \in [Exchanges -> MailRecord] /\ row' \in [Exchanges -> RowRecord]
         /\ reopened \subseteq reopened' /\ reopened' \subseteq reopened \cup Exchanges
         /\ \A e \in Exchanges :
              /\ PendingSteer(e, op.run) /\ mail[e].projected => e \in reopened'
              /\ row'[e].state = row[e].state
              /\ PendingSteer(e, op.run) => row'[e].kind = "followup"
              /\ ~PendingSteer(e, op.run) => row'[e] = row[e]
              /\ mail'[e] = mail[e] \/ (/\ PendingSteer(e, op.run)
                                        /\ mail'[e].status = "queued" /\ mail'[e].target = NoRun
                                        /\ mail'[e].projected = mail[e].projected)
              /\ PendingSteer(e, op.run) => mail'[e].status \in {"none", "queued"} /\
                   (mail'[e].status = "queued" => mail'[e].target = NoRun)
<1> DEFINE missed == {e \in Exchanges : PendingSteer(e, op.run)}
           m(e) == [mail[e] EXCEPT !.status = "queued", !.target = NoRun]
           w(e) == [row[e] EXCEPT !.kind = "followup", !.target = NoRun]
<1>1. /\ op.pc = "retarget" /\ op' = [op EXCEPT !.pc = "release"]
      /\ mail' = [e \in Exchanges |-> IF e \in missed /\ mail[e].status # "none" THEN m(e) ELSE mail[e]]
      /\ row' = [e \in Exchanges |-> IF e \in missed THEN w(e) ELSE row[e]]
      /\ reopened' = reopened \cup {e \in missed : mail[e].projected}
  BY Zenon DEF FinishRetarget
<1>2. mail \in [Exchanges -> MailRecord] /\ row \in [Exchanges -> RowRecord] /\ op \in OpRecord /\ op.run \in Runs
  BY <1>1, Typed, Zenon DEF WithRun
<1>3. /\ op' \in OpRecord /\ op'.pc = "release" /\ op'.mail = op.mail /\ op'.run = op.run
      /\ op'.copy = op.copy
  BY <1>1, <1>2, Zenon DEF OpRecord
<1>4. \A e \in Exchanges : /\ m(e) \in MailRecord /\ m(e).status = "queued" /\ m(e).target = NoRun
                           /\ m(e).projected = mail[e].projected
  BY <1>2 DEF MailRecord
<1>5. \A e \in Exchanges : w(e) \in RowRecord /\ w(e).state = row[e].state /\ w(e).kind = "followup"
  BY Zenon, <1>2, RowFields
<1>6. missed \subseteq Exchanges /\ \A e \in Exchanges : e \in missed <=> PendingSteer(e, op.run)
  OBVIOUS
<1> HIDE DEF m, w, missed
<1>9. /\ reopened \subseteq reopened' /\ reopened' \subseteq reopened \cup Exchanges
      /\ \A e \in Exchanges : PendingSteer(e, op.run) /\ mail[e].projected => e \in reopened'
  BY <1>1, <1>6
<1>7. mail' \in [Exchanges -> MailRecord] /\ row' \in [Exchanges -> RowRecord]
  BY <1>1, <1>2, <1>4, <1>5
<1>8. \A e \in Exchanges : /\ mail'[e] = IF e \in missed /\ mail[e].status # "none" THEN m(e) ELSE mail[e]
                           /\ row'[e] = IF e \in missed THEN w(e) ELSE row[e]
  BY <1>1
<1> QED
  BY <1>1, <1>2, <1>3, <1>4, <1>5, <1>6, <1>7, <1>8, <1>9

\* The receipts the origin's next run claims.
LEMMA OriginClaimEffect ==
  ASSUME LinkedType, NEW o \in OriginRuns, OriginClaim(o)
  PROVE  /\ mail' \in [Exchanges -> MailRecord]
         /\ \A e \in Exchanges :
              /\ mail'[e].status = mail[e].status /\ mail'[e].target = mail[e].target
              /\ mail'[e].projected = mail[e].projected
              /\ e \in Unclaimed => mail'[e].consumed /\ mail'[e].origin = o
              /\ e \notin Unclaimed => mail'[e] = mail[e]
         /\ origin' = [run |-> o, pc |-> "launching", claimed |-> {<<e, receipts[e]>> : e \in Unclaimed}]
<1> DEFINE m(e) == [mail[e] EXCEPT !.consumed = TRUE, !.origin = o]
<1>1. /\ mail' = [e \in Exchanges |-> IF e \in Unclaimed THEN m(e) ELSE mail[e]]
      /\ origin' = [run |-> o, pc |-> "launching", claimed |-> {<<e, receipts[e]>> : e \in Unclaimed}]
  BY Zenon DEF OriginClaim
<1>2. mail \in [Exchanges -> MailRecord]
  BY Typed
<1>3. \A e \in Exchanges : /\ m(e) \in MailRecord /\ m(e).status = mail[e].status /\ m(e).target = mail[e].target
                           /\ m(e).projected = mail[e].projected /\ m(e).consumed = TRUE /\ m(e).origin = o
  BY <1>2 DEF MailRecord
<1> HIDE DEF m
<1>4. mail' \in [Exchanges -> MailRecord]
  BY <1>1, <1>2, <1>3
<1>5. \A e \in Exchanges : mail'[e] = IF e \in Unclaimed THEN m(e) ELSE mail[e]
  BY <1>1
<1> QED
  BY <1>1, <1>3, <1>4, <1>5

\* A receipt a wait consumes.
LEMMA OriginWaitEffect ==
  ASSUME LinkedType, NEW e \in Exchanges, OriginWait(e)
  PROVE  /\ mail' \in [Exchanges -> MailRecord] /\ \A x \in Exchanges \ {e} : mail'[x] = mail[x]
         /\ mail'[e].status = mail[e].status /\ mail'[e].target = mail[e].target
         /\ mail'[e].projected = mail[e].projected /\ mail'[e].origin = mail[e].origin
         /\ mail'[e].consumed = TRUE
<1>1. mail' = [mail EXCEPT ![e] = [mail[e] EXCEPT !.consumed = TRUE]]
  BY DEF OriginWait
<1>2. mail \in [Exchanges -> MailRecord]
  BY Typed
<1> DEFINE m == [mail[e] EXCEPT !.consumed = TRUE]
<1>3. /\ m \in MailRecord /\ m.status = mail[e].status /\ m.target = mail[e].target
      /\ m.projected = mail[e].projected /\ m.origin = mail[e].origin /\ m.consumed = TRUE
  BY <1>2 DEF MailRecord
<1> HIDE DEF m
<1> QED
  BY <1>1, <1>2, <1>3 DEF m

\* A receipt marked as projected.
LEMMA MarkProjectedEffect ==
  ASSUME LinkedType, NEW e \in Exchanges, NEW who, MarkProjected(e, who)
  PROVE  /\ mail' \in [Exchanges -> MailRecord] /\ \A x \in Exchanges \ {e} : mail'[x] = mail[x]
         /\ mail'[e].status = mail[e].status /\ mail'[e].target = mail[e].target
         /\ mail'[e].consumed = mail[e].consumed /\ mail'[e].origin = mail[e].origin
<1> DEFINE m == [mail[e] EXCEPT !.projected = mail[e].projected \/ mail[e].status \in Receipt]
<1>1. mail' = [mail EXCEPT ![e] = m]
  BY DEF MarkProjected
<1>2. mail \in [Exchanges -> MailRecord]
  BY Typed
<1>3. /\ m \in MailRecord /\ m.status = mail[e].status /\ m.target = mail[e].target
      /\ m.consumed = mail[e].consumed /\ m.origin = mail[e].origin
  BY <1>2 DEF MailRecord
<1> HIDE DEF m
<1> QED
  BY <1>1, <1>2, <1>3

\* Startup fails what was running, and projects every receipt that was not.
LEMMA RestartEffect ==
  ASSUME LinkedType, Restart
  PROVE  /\ mail' \in [Exchanges -> MailRecord] /\ row' \in [Exchanges -> RowRecord]
         /\ receipts' \in [Exchanges -> Nat]
         /\ \A e \in Exchanges :
              /\ row'[e].state = row[e].state /\ (row[e].state = "pending" => row'[e].kind = "followup")
              /\ mail'[e].target = mail[e].target
              /\ mail'[e].consumed = mail[e].consumed /\ mail'[e].origin = mail[e].origin
              /\ mail'[e].status \in Receipt => <<e, receipts'[e]>> \in shown' \/ mail[e].projected
              /\ mail'[e].projected => <<e, receipts'[e]>> \in shown' \/ mail[e].projected
              /\ mail'[e].projected => mail'[e].status \in Receipt \/ mail[e].projected
              /\ \/ mail'[e].status = mail[e].status /\ receipts'[e] = receipts[e]
                 \/ mail[e].status = "running" /\ mail'[e].status = "failed" /\ receipts'[e] = receipts[e] + 1
              /\ mail[e].status = "running" /\ mail[e].target \in Interrupted => mail'[e].status = "failed"
              /\ e \in CutOff => mail'[e].status = "failed" \/ e \in dropped'
         /\ shown \subseteq shown' /\ shown' \subseteq shown \cup (Exchanges \X Nat)
         /\ dropped \subseteq dropped' /\ dropped' \subseteq dropped \cup Exchanges
<1> DEFINE stopped == {e \in Exchanges : mail[e].status = "running" /\ mail[e].target \in Interrupted}
           f(e) == [mail[e] EXCEPT !.status = "failed"]
           failed == [e \in Exchanges |-> IF e \in stopped THEN f(e) ELSE mail[e]]
           count == [e \in Exchanges |-> IF e \in stopped THEN receipts[e] + 1 ELSE receipts[e]]
           p(e) == [failed[e] EXCEPT !.projected = TRUE]
           w(e) == [row[e] EXCEPT !.kind = "followup", !.target = NoRun]
<1>1. /\ mail' = [e \in Exchanges |-> IF e \in Unposted(failed) THEN p(e) ELSE failed[e]]
      /\ shown' = shown \cup {<<e, count[e]>> : e \in Unposted(failed)}
      /\ receipts' = count
      /\ row' = [e \in Exchanges |-> IF row[e].state = "pending" THEN w(e) ELSE row[e]]
      /\ dropped' = dropped \cup (CutOff \ stopped)
  BY Zenon DEF Restart
<1>2. mail \in [Exchanges -> MailRecord] /\ row \in [Exchanges -> RowRecord] /\ receipts \in [Exchanges -> Nat]
  BY Typed
<1>3. \A e \in Exchanges : /\ f(e) \in MailRecord /\ f(e).status = "failed" /\ f(e).target = mail[e].target
                           /\ f(e).projected = mail[e].projected /\ f(e).consumed = mail[e].consumed
                           /\ f(e).origin = mail[e].origin
  BY <1>2 DEF MailRecord, Receipt
<1>4. \A e \in Exchanges : /\ failed[e] = IF e \in stopped THEN f(e) ELSE mail[e]
                           /\ count[e] = IF e \in stopped THEN receipts[e] + 1 ELSE receipts[e]
  OBVIOUS
<1>5. \A e \in Exchanges : w(e) \in RowRecord /\ w(e).state = row[e].state /\ w(e).kind = "followup"
  BY Zenon, <1>2, RowFields
<1>6. \A e \in Exchanges : e \in stopped <=> mail[e].status = "running" /\ mail[e].target \in Interrupted
  OBVIOUS
<1>7. \A e \in Exchanges : e \in Unposted(failed) <=> failed[e].status \in Receipt /\ ~failed[e].projected
  BY DEF Unposted
<1>8. Unposted(failed) \subseteq Exchanges /\ CutOff \subseteq Exchanges
  BY DEF Unposted, CutOff
<1>9. \A e \in Exchanges : failed[e] \in MailRecord
  BY Zenon, <1>2, <1>3, <1>4
<1>18. count \in [Exchanges -> Nat]
  BY <1>2
<1> HIDE DEF f, w, stopped, failed, count
<1>10. \A e \in Exchanges : /\ p(e) \in MailRecord /\ p(e).status = failed[e].status
                            /\ p(e).target = failed[e].target
                            /\ p(e).consumed = failed[e].consumed /\ p(e).origin = failed[e].origin
  BY <1>9, Zenon DEF MailRecord
<1> HIDE DEF p
<1>11. \A e \in Exchanges :
         /\ mail'[e] = IF e \in Unposted(failed) THEN p(e) ELSE failed[e]
         /\ row'[e] = IF row[e].state = "pending" THEN w(e) ELSE row[e]
         /\ receipts'[e] = IF e \in stopped THEN receipts[e] + 1 ELSE receipts[e]
  BY <1>1, <1>4
<1>12. mail' \in [Exchanges -> MailRecord] /\ row' \in [Exchanges -> RowRecord] /\ receipts' \in [Exchanges -> Nat]
  BY <1>1, <1>2, <1>5, <1>9, <1>10, <1>18
<1>13. \A e \in Exchanges :
         /\ mail'[e].target = mail[e].target /\ mail'[e].consumed = mail[e].consumed /\ mail'[e].origin = mail[e].origin
         /\ e \in stopped => mail'[e].status = "failed"
         /\ e \notin stopped => mail'[e].status = mail[e].status
         /\ mail'[e].status = failed[e].status /\ failed[e].projected = mail[e].projected
  BY <1>3, <1>4, <1>10, <1>11
<1>14. \A e \in Exchanges : e \in Unposted(failed) => <<e, receipts'[e]>> \in shown'
  BY <1>1
<1>19. \A e \in Exchanges :
         /\ mail'[e].status \in Receipt => <<e, receipts'[e]>> \in shown' \/ mail[e].projected
         /\ mail'[e].projected => <<e, receipts'[e]>> \in shown' \/ mail[e].projected
         /\ mail'[e].projected => mail'[e].status \in Receipt \/ mail[e].projected
  <2> SUFFICES ASSUME NEW e \in Exchanges
               PROVE  /\ mail'[e].status \in Receipt => <<e, receipts'[e]>> \in shown' \/ mail[e].projected
                      /\ mail'[e].projected => <<e, receipts'[e]>> \in shown' \/ mail[e].projected
                      /\ mail'[e].projected => mail'[e].status \in Receipt \/ mail[e].projected
    BY Zenon
  <2>1. CASE e \in Unposted(failed)
    <3>1. failed[e].status \in Receipt /\ <<e, receipts'[e]>> \in shown'
      BY <1>7, <1>14, <2>1
    <3> QED
      BY <1>13, <3>1
  <2>2. CASE e \notin Unposted(failed)
    <3>1. mail'[e] = failed[e] /\ (failed[e].status \in Receipt => failed[e].projected)
      BY <1>7, <1>11, <2>2
    <3>2. failed[e].projected = mail[e].projected
      BY <1>13
    <3> QED
      BY <3>1, <3>2
  <2> QED
    BY <2>1, <2>2
<1>15. /\ shown \subseteq shown' /\ shown' \subseteq shown \cup (Exchanges \X Nat)
       /\ dropped \subseteq dropped' /\ dropped' \subseteq dropped \cup Exchanges
  BY <1>1, <1>8, <1>18
<1>16. \A e \in Exchanges : e \in CutOff => e \in stopped \/ e \in dropped'
  BY <1>1
<1>17. \A e \in Exchanges : /\ row'[e].state = row[e].state
                            /\ row[e].state = "pending" => row'[e].kind = "followup"
  BY <1>5, <1>11
<1> QED
  BY <1>6, <1>11, <1>12, <1>13, <1>15, <1>16, <1>17, <1>19

-----------------------------------------------------------------------------
(* Every step keeps the types.                                             *)

RunStatus   == {"none", "accepted", "running", "completed", "failed", "cancelled", "interrupted"}
TaskState   == {"none", "running", "completed", "failed", "cancelled", "done"}
OriginState == [run: OriginRuns \cup {NoRun}, pc: {"idle", "launching", "running"},
                claimed: SUBSET (Exchanges \X Nat)]

\* Well typed, one variable after the other.
LEMMA TypeByVariable ==
  LinkedType <=>
    /\ mail \in [Exchanges -> MailRecord]
    /\ row \in [Exchanges -> RowRecord]
    /\ runs \in [Runs -> RunStatus]
    /\ slot \in [run: Runs \cup {NoRun}, steering: BOOLEAN]
    /\ op \in OpRecord /\ OpOK
    /\ task \in [Runs -> TaskState]
    /\ origin \in OriginState /\ OriginOK
    /\ posting \subseteq Exchanges \X {"lock", "task"} \X {"event", "mark"}
    /\ restarts \in 0..MaxRestarts
    /\ handed \in [Exchanges -> SUBSET Runs]
    /\ shown \subseteq Exchanges \X Nat
    /\ seen \subseteq Exchanges \X Nat \X OriginRuns
    /\ receipts \in [Exchanges -> Nat]
    /\ dropped \subseteq Exchanges
    /\ reopened \subseteq Exchanges
  BY DEF LinkedType, TypeOK, RunStatus, TaskState, OriginState

\* The lock given back is a record of its own.
LEMMA OpIsFree == op' = Free => op' \in OpRecord /\ OpOK'
  BY OpFields DEF OpOK, InSend, WithRun

\* Every step keeps the variables well typed.
LEMMA TypeStep == ASSUME MailConstants, LinkedType, [Next]_vars PROVE LinkedType'
<1> USE DEF RunStatus, TaskState
<1>t. /\ mail \in [Exchanges -> MailRecord]
      /\ row \in [Exchanges -> RowRecord]
      /\ runs \in [Runs -> RunStatus]
      /\ slot \in [run: Runs \cup {NoRun}, steering: BOOLEAN]
      /\ op \in OpRecord /\ OpOK
      /\ task \in [Runs -> TaskState]
      /\ origin \in OriginState /\ OriginOK
      /\ posting \subseteq Exchanges \X {"lock", "task"} \X {"event", "mark"}
      /\ restarts \in 0..MaxRestarts
      /\ handed \in [Exchanges -> SUBSET Runs]
      /\ shown \subseteq Exchanges \X Nat
      /\ seen \subseteq Exchanges \X Nat \X OriginRuns
      /\ receipts \in [Exchanges -> Nat]
      /\ dropped \subseteq Exchanges
      /\ reopened \subseteq Exchanges
  BY TypeByVariable
<1>c. (/\ mail' \in [Exchanges -> MailRecord]
       /\ row' \in [Exchanges -> RowRecord]
       /\ runs' \in [Runs -> RunStatus]
       /\ slot' \in [run: Runs \cup {NoRun}, steering: BOOLEAN]
       /\ op' \in OpRecord /\ OpOK'
       /\ task' \in [Runs -> TaskState]
       /\ origin' \in OriginState /\ OriginOK'
       /\ posting' \subseteq Exchanges \X {"lock", "task"} \X {"event", "mark"}
       /\ restarts' \in 0..MaxRestarts
       /\ handed' \in [Exchanges -> SUBSET Runs]
       /\ shown' \subseteq Exchanges \X Nat
       /\ seen' \subseteq Exchanges \X Nat \X OriginRuns
       /\ receipts' \in [Exchanges -> Nat]
       /\ dropped' \subseteq Exchanges
       /\ reopened' \subseteq Exchanges) => LinkedType'
  BY DEF LinkedType, TypeOK, OriginState
<1>u. (op' = op => OpOK') /\ (origin' = origin => OriginOK')
  BY <1>t DEF OpOK, OriginOK, InSend, WithRun
<1>1. ASSUME NEW e \in Exchanges, SendPut(e) PROVE LinkedType'
  <2>0. UNCHANGED <<row, runs, slot, task, origin, posting, restarts, handed, shown, seen, receipts,
                    dropped, reopened>>
    BY <1>1 DEF SendPut, durable, history
  <2>1. mail' \in [Exchanges -> MailRecord]
    BY <1>1, SendPutEffect
  <2>2. op' \in OpRecord /\ OpOK'
    BY <1>1, SendPutEffect DEF OpOK, InSend, WithRun
  <2> QED
    BY ONLY <1>t, <1>c, <1>u, <2>0, <2>1, <2>2
<1>2. ASSUME SendDeliver PROVE LinkedType'
  <2>0. UNCHANGED <<mail, runs, slot, task, origin, posting, restarts, handed, shown, seen, receipts,
                    dropped, reopened>>
    BY <1>2 DEF SendDeliver, durable, history
  <2>a. \E w \in RowRecord : row' = [row EXCEPT ![op.mail] = w]
    <3>1. op.copy.target \in Runs \cup {NoRun}
      BY Typed, ExchangeFields
    <3> QED
      BY <1>2, <3>1, RowFields, Zenon DEF SendDeliver
  <2>1. row' \in [Exchanges -> RowRecord]
    BY <1>t, <2>a
  <2>2. op' \in OpRecord /\ OpOK'
    BY <1>2, OpIsFree DEF SendDeliver
  <2> QED
    BY ONLY <1>t, <1>c, <1>u, <2>0, <2>1, <2>2
<1>3. ASSUME SendUndone PROVE LinkedType'
  <2>0. UNCHANGED <<row, runs, slot, task, origin, posting, restarts, handed, shown, seen, receipts,
                    dropped, reopened>>
    BY <1>3 DEF SendUndone, durable, history
  <2>1. mail' \in [Exchanges -> MailRecord]
    BY <1>3, <1>t, ExchangeFields DEF SendUndone
  <2>2. op' \in OpRecord /\ OpOK'
    BY <1>3, OpIsFree DEF SendUndone
  <2> QED
    BY ONLY <1>t, <1>c, <1>u, <2>0, <2>1, <2>2
<1>4. ASSUME SendSettle PROVE LinkedType'
  <2>0. UNCHANGED <<row, runs, slot, task, origin, posting, restarts, handed, shown, seen, receipts, reopened>>
    BY <1>4 DEF SendSettle, durable, history
  <2>a. op.mail \in Exchanges /\ dropped' \in {dropped, dropped \cup {op.mail}}
    BY <1>4, Typed DEF SendSettle, InSend
  <2>1. mail' \in [Exchanges -> MailRecord]
    BY <1>4, SendSettleEffect
  <2>2. op' \in OpRecord /\ OpOK'
    BY <1>4, OpIsFree DEF SendSettle
  <2>3. dropped' \subseteq Exchanges
    BY <1>t, <2>a
  <2> QED
    BY ONLY <1>t, <1>c, <1>u, <2>0, <2>1, <2>2, <2>3
<1>5. ASSUME NEW r \in Runs, NEW steering \in BOOLEAN, StartTurn(r, steering) PROVE LinkedType'
  <2>0. UNCHANGED <<mail, row, op, origin, posting, restarts, handed, shown, seen, receipts, dropped, reopened>>
    BY <1>5 DEF StartTurn, durable, history
  <2>1. slot' \in [run: Runs \cup {NoRun}, steering: BOOLEAN]
    BY <1>5, <1>t, RowFields, ExchangeFields, Zenon DEF StartTurn
  <2>2. runs' \in [Runs -> RunStatus]
    BY <1>5, <1>t DEF StartTurn
  <2>3. task' \in [Runs -> TaskState]
    BY <1>5, <1>t DEF StartTurn
  <2> QED
    BY ONLY <1>t, <1>c, <1>u, <2>0, <2>1, <2>2, <2>3
<1>6. ASSUME NEW r \in Runs, NEW steering \in BOOLEAN, LaunchRecord(r, steering) PROVE LinkedType'
  <2>0. UNCHANGED <<mail, row, task, origin, posting, restarts, handed, shown, seen, receipts, dropped, reopened>>
    BY <1>6 DEF LaunchRecord, durable, history
  <2>1. slot' \in [run: Runs \cup {NoRun}, steering: BOOLEAN]
    BY <1>6, <1>t, RowFields, ExchangeFields, Zenon DEF LaunchRecord
  <2>2. runs' \in [Runs -> RunStatus]
    BY <1>6, <1>t DEF LaunchRecord
  <2>3. op' \in OpRecord /\ OpOK'
    BY <1>6, LaunchRecordEffect DEF OpOK, InSend, WithRun
  <2> QED
    BY ONLY <1>t, <1>c, <1>u, <2>0, <2>1, <2>2, <2>3
<1>7. ASSUME NEW e \in Exchanges, ResumeQueuedMail(e) PROVE LinkedType'
  <2>0. UNCHANGED <<mail, runs, slot, task, origin, posting, restarts, handed, shown, seen, receipts,
                    dropped, reopened>>
    BY <1>7 DEF ResumeQueuedMail, durable, history
  <2>1. row' \in [Exchanges -> RowRecord]
    BY <1>7, ClaimEffectQ DEF ResumeQueuedMail
  <2>2. op' \in OpRecord /\ OpOK'
    BY <1>7, ClaimEffectQ DEF ResumeQueuedMail, OpOK, InSend, WithRun
  <2> QED
    BY ONLY <1>t, <1>c, <1>u, <2>0, <2>1, <2>2
<1>8. ASSUME NEW e \in Exchanges, DeleteRow(e) PROVE LinkedType'
  <2>0. UNCHANGED <<mail, runs, slot, op, task, origin, posting, restarts, handed, shown, seen,
                    receipts, reopened>>
    BY <1>8 DEF DeleteRow, durable, history
  <2>a. (\E w \in RowRecord : row' = [row EXCEPT ![e] = w]) /\ dropped' = dropped \cup {e}
    <3>1. row[e] \in RowRecord
      BY <1>t
    <3> QED
      BY <1>8, <3>1, RowFields, Zenon DEF DeleteRow
  <2>1. row' \in [Exchanges -> RowRecord]
    BY <1>t, <2>a
  <2>2. dropped' \subseteq Exchanges
    BY <1>t, <2>a
  <2> QED
    BY ONLY <1>t, <1>c, <1>u, <2>0, <2>1, <2>2
<1>9. ASSUME LaunchMail PROVE LinkedType'
  <2>0. UNCHANGED <<row, runs, slot, task, origin, posting, restarts, handed, shown, seen, receipts,
                    dropped>>
    BY <1>9 DEF LaunchMail, durable, history
  <2>1. mail' \in [Exchanges -> MailRecord]
    BY <1>9, LaunchMailEffect
  <2>2. op' \in OpRecord /\ OpOK'
    BY <1>9, LaunchMailEffect DEF OpOK, InSend, WithRun
  <2>3. reopened' \subseteq Exchanges
    <3>1. op.mail \in Exchanges /\ reopened' \in {reopened, reopened \cup {op.mail}}
      BY <1>9, LaunchMailEffect DEF LaunchMail
    <3> QED
      BY <1>t, <3>1
  <2> QED
    BY ONLY <1>t, <1>c, <1>u, <2>0, <2>1, <2>2, <2>3
<1>10. ASSUME LaunchSpawn PROVE LinkedType'
  <2>0. UNCHANGED <<mail, row, slot, origin, posting, restarts, shown, seen, receipts, dropped, reopened>>
    BY <1>10 DEF LaunchSpawn, durable, history
  <2>a. op.run \in Runs /\ handed' = [handed EXCEPT ![op.mail] = @ \cup {op.run}]
    BY <1>10, LaunchSpawnEffect DEF LaunchSpawn
  <2>1. task' \in [Runs -> TaskState]
    BY <1>10, <1>t DEF LaunchSpawn
  <2>2. runs' \in [Runs -> RunStatus]
    BY <1>10, <1>t DEF LaunchSpawn
  <2>3. handed' \in [Exchanges -> SUBSET Runs]
    BY <1>t, <2>a
  <2>4. op' \in OpRecord /\ OpOK'
    BY <1>10, LaunchSpawnEffect, OpFields DEF OpOK, InSend, WithRun
  <2> QED
    BY ONLY <1>t, <1>c, <1>u, <2>0, <2>1, <2>2, <2>3, <2>4
<1>11. ASSUME StartRejected \/ StartUndone PROVE LinkedType'
  <2>0. UNCHANGED <<row, runs, slot, task, origin, restarts, handed, shown, seen, dropped, reopened>>
    BY <1>11 DEF StartRejected, StartUndone, durable, history
  <2>a. /\ op' = Free /\ mail' \in [Exchanges -> MailRecord] /\ receipts' \in [Exchanges -> Nat]
        /\ op.mail \in Exchanges /\ \A y \in posting' : y \in posting \/ y = Event(op.mail, "lock")
    BY <1>11, StartFailedEffect DEF StartRejected, StartUndone
  <2>1. mail' \in [Exchanges -> MailRecord]
    BY <2>a
  <2>2. receipts' \in [Exchanges -> Nat]
    BY <2>a
  <2>3. posting' \subseteq Exchanges \X {"lock", "task"} \X {"event", "mark"}
    BY <1>t, <2>a DEF Event
  <2>4. op' \in OpRecord /\ OpOK'
    BY <2>a, OpIsFree
  <2> QED
    BY ONLY <1>t, <1>c, <1>u, <2>0, <2>1, <2>2, <2>3, <2>4
<1>12. ASSUME LaunchFailed PROVE LinkedType'
  <2>0. UNCHANGED <<mail, row, task, origin, posting, restarts, handed, shown, seen, receipts, dropped,
                    reopened>>
    BY <1>12 DEF LaunchFailed, durable, history
  <2>1. op' \in OpRecord /\ OpOK'
    BY <1>12, LaunchFailedEffect DEF OpOK, InSend, WithRun
  <2>2. slot' \in [run: Runs \cup {NoRun}, steering: BOOLEAN]
    BY <1>12 DEF LaunchFailed, EmptySlot
  <2>3. runs' \in [Runs -> RunStatus]
    BY <1>12, <1>t DEF LaunchFailed
  <2> QED
    BY ONLY <1>t, <1>c, <1>u, <2>0, <2>1, <2>2, <2>3
<1>13. ASSUME NEW r \in Runs, ClaimSteers(r) PROVE LinkedType'
  <2>0. UNCHANGED <<mail, runs, slot, op, task, origin, posting, restarts, shown, seen, receipts,
                    dropped, reopened>>
    BY <1>13 DEF ClaimSteers, durable, history
  <2> DEFINE w(e) == [row[e] EXCEPT !.state = "claimed"]
  <2>a. \E E : row' = [e \in Exchanges |-> IF e \in E THEN w(e) ELSE row[e]]
    BY <1>13 DEF ClaimSteers
  <2>c. \A e \in Exchanges : w(e) \in RowRecord
    <3>1. \A e \in Exchanges : row[e] \in RowRecord
      BY <1>t
    <3> QED
      BY ONLY Zenon, <3>1, RowFields
  <2> HIDE DEF w
  <2>b. \E E : handed' = [e \in Exchanges |-> IF e \in E THEN handed[e] \cup {r} ELSE handed[e]]
    BY <1>13 DEF ClaimSteers
  <2>1. row' \in [Exchanges -> RowRecord]
    BY <1>t, <2>a, <2>c
  <2>2. handed' \in [Exchanges -> SUBSET Runs]
    BY <1>t, <2>b
  <2> QED
    BY ONLY <1>t, <1>c, <1>u, <2>0, <2>1, <2>2
<1>14. ASSUME NEW r \in Runs, FinishRecord(r) PROVE LinkedType'
  <2>0. UNCHANGED <<mail, row, slot, task, origin, posting, restarts, handed, shown, seen, receipts,
                    dropped, reopened>>
    BY <1>14 DEF FinishRecord, durable, history
  <2>1. op' \in OpRecord /\ OpOK'
    BY <1>14, FinishRecordEffect DEF OpOK, InSend, WithRun
  <2>2. runs' \in [Runs -> RunStatus]
    BY <1>14, <1>t DEF FinishRecord
  <2> QED
    BY ONLY <1>t, <1>c, <1>u, <2>0, <2>1, <2>2
<1>27. ASSUME NEW e \in Exchanges, FinishFail(e) PROVE LinkedType'
  <2>0. UNCHANGED <<row, runs, slot, op, task, origin, restarts, handed, shown, seen, dropped, reopened>>
    BY <1>27 DEF FinishFail
  <2>a. WriteReceipts({e}, "failed", "lock") /\ "failed" \in Receipt
    BY <1>27 DEF FinishFail, Receipt
  <2>b. \A y \in posting' : y \in posting \/ y = Event(e, "lock")
    BY <1>t, <2>a, ReceiptsEffect
  <2>1. mail' \in [Exchanges -> MailRecord]
    BY <1>t, <2>a, ReceiptsEffect
  <2>2. receipts' \in [Exchanges -> Nat]
    BY <1>t, <2>a, ReceiptsEffect
  <2>3. posting' \subseteq Exchanges \X {"lock", "task"} \X {"event", "mark"}
    BY <1>t, <2>b DEF Event
  <2> QED
    BY ONLY <1>t, <1>c, <1>u, <2>0, <2>1, <2>2, <2>3
<1>28. ASSUME FinishFailed PROVE LinkedType'
  <2>0. UNCHANGED <<mail, row, runs, slot, task, origin, posting, restarts, handed, shown, seen,
                    receipts, dropped, reopened>>
    BY <1>28 DEF FinishFailed, durable, history
  <2>1. op' \in OpRecord /\ OpOK'
    BY <1>28, FinishFailedEffect, Typed DEF OpOK, InSend, WithRun
  <2> QED
    BY ONLY <1>t, <1>c, <1>u, <2>0, <2>1
<1>15. ASSUME NEW r \in Runs, NEW outcome, RunReplies(r, outcome) PROVE LinkedType'
  <2>0. UNCHANGED <<row, runs, slot, op, origin, restarts, handed, shown, seen, dropped, reopened>>
    BY <1>15 DEF RunReplies, durable, history
  <2>b. /\ mail' \in [Exchanges -> MailRecord] /\ receipts' \in [Exchanges -> Nat]
        /\ \A y \in posting' : y \in posting \/ \E e \in Exchanges : y = Event(e, "task")
    <3>1. Settled(r) \subseteq Exchanges /\ "replied" \in Receipt /\ WriteReceipts(Settled(r), "replied", "task")
      BY <1>15 DEF Settled, Receipt, RunReplies
    <3>2. \A y \in posting' : y \in posting \/ \E e \in Settled(r) : y = Event(e, "task")
      BY <1>t, <3>1, ReceiptsEffect
    <3>3. mail' \in [Exchanges -> MailRecord] /\ receipts' \in [Exchanges -> Nat]
      BY <1>t, <3>1, ReceiptsEffect
    <3> QED
      BY <3>1, <3>2, <3>3
  <2>1. mail' \in [Exchanges -> MailRecord]
    BY <2>b
  <2>2. receipts' \in [Exchanges -> Nat]
    BY <2>b
  <2>3. posting' \subseteq Exchanges \X {"lock", "task"} \X {"event", "mark"}
    BY <1>t, <2>b DEF Event
  <2>4. task' \in [Runs -> TaskState]
    BY <1>15, <1>t DEF RunReplies
  <2> QED
    BY ONLY <1>t, <1>c, <1>u, <2>0, <2>1, <2>2, <2>3, <2>4
<1>16. ASSUME NEW r \in Runs, NEW outcome, RunEnds(r, outcome) PROVE LinkedType'
  <2>0. UNCHANGED <<mail, row, runs, slot, op, origin, posting, restarts, handed, shown, seen,
                    receipts, dropped, reopened>>
    BY <1>16 DEF RunEnds, durable, history
  <2>1. task' \in [Runs -> TaskState]
    BY <1>16, <1>t DEF RunEnds
  <2> QED
    BY ONLY <1>t, <1>c, <1>u, <2>0, <2>1
<1>17. ASSUME FinishRetarget PROVE LinkedType'
  <2>0. UNCHANGED <<runs, slot, task, origin, posting, restarts, handed, shown, seen, receipts,
                    dropped>>
    BY <1>17, Zenon DEF FinishRetarget, durable, history
  <2>1. mail' \in [Exchanges -> MailRecord]
    BY <1>17, RetargetEffect
  <2>2. row' \in [Exchanges -> RowRecord]
    BY <1>17, RetargetEffect
  <2>3. op' \in OpRecord /\ OpOK'
    BY <1>17, RetargetEffect, Typed DEF OpOK, InSend, WithRun
  <2>4. reopened' \subseteq Exchanges
    BY <1>17, <1>t, RetargetEffect
  <2> QED
    BY ONLY <1>t, <1>c, <1>u, <2>0, <2>1, <2>2, <2>3, <2>4
<1>18. ASSUME FinishRelease PROVE LinkedType'
  <2>0. UNCHANGED <<mail, runs, origin, posting, restarts, handed, shown, seen, receipts, dropped, reopened>>
    BY <1>18 DEF FinishRelease, durable, history
  <2>a. \/ \E e \in Exchanges : ClaimQueuedMail(e)
        \/ op' = Free /\ row' = row
    BY <1>18 DEF FinishRelease, QueuedMail
  <2>1. row' \in [Exchanges -> RowRecord]
    BY <1>t, <2>a, ClaimEffectQ
  <2>2. op' \in OpRecord /\ OpOK'
    BY <2>a, ClaimEffectQ, OpIsFree DEF OpOK, InSend, WithRun
  <2>3. task' \in [Runs -> TaskState]
    BY <1>18, <1>t DEF FinishRelease
  <2>4. slot' \in [run: Runs \cup {NoRun}, steering: BOOLEAN]
    BY <1>18 DEF FinishRelease, EmptySlot
  <2> QED
    BY ONLY <1>t, <1>c, <1>u, <2>0, <2>1, <2>2, <2>3, <2>4
<1>19. ASSUME NEW e \in Exchanges, NEW who \in {"lock", "task"}, PostReply(e, who) PROVE LinkedType'
  <2>0. UNCHANGED <<mail, row, runs, slot, op, task, origin, restarts, handed, seen, receipts, dropped, reopened>>
    BY <1>19 DEF PostReply, durable, history
  <2>a. /\ posting' \subseteq posting \cup {Mark(e, who)}
        /\ Mark(e, who) \in Exchanges \X {"lock", "task"} \X {"event", "mark"}
    BY <1>19 DEF PostReply, Mark
  <2>1. shown' \subseteq Exchanges \X Nat
    <3>1. shown' = shown \cup {<<e, receipts[e]>>} /\ receipts[e] \in Nat
      BY <1>19, <1>t DEF PostReply
    <3> QED
      BY <1>t, <3>1
  <2>2. posting' \subseteq Exchanges \X {"lock", "task"} \X {"event", "mark"}
    BY <1>t, <2>a
  <2> QED
    BY ONLY <1>t, <1>c, <1>u, <2>0, <2>1, <2>2
<1>20. ASSUME NEW e \in Exchanges, NEW who \in {"lock", "task"}, MarkProjected(e, who) PROVE LinkedType'
  <2>0. UNCHANGED <<row, runs, slot, op, task, origin, restarts, handed, shown, seen, receipts,
                    dropped, reopened>>
    BY <1>20 DEF MarkProjected, durable, history
  <2>a. posting' \subseteq posting
    BY <1>20 DEF MarkProjected
  <2>1. posting' \subseteq Exchanges \X {"lock", "task"} \X {"event", "mark"}
    BY <1>t, <2>a
  <2>2. mail' \in [Exchanges -> MailRecord]
    BY <1>20, MarkProjectedEffect
  <2> QED
    BY ONLY <1>t, <1>c, <1>u, <2>0, <2>1, <2>2
<1>21. ASSUME NEW o \in OriginRuns, OriginClaim(o) PROVE LinkedType'
  <2>0. UNCHANGED <<row, runs, slot, op, task, posting, restarts, handed, shown, seen, receipts,
                    dropped, reopened>>
    BY <1>21, Zenon DEF OriginClaim, durable, history
  <2>a. /\ origin' = [run |-> o, pc |-> "launching", claimed |-> {<<e, receipts[e]>> : e \in Unclaimed}]
        /\ {<<e, receipts[e]>> : e \in Unclaimed} \subseteq Exchanges \X Nat
    BY <1>21, <1>t, OriginClaimEffect DEF Unclaimed
  <2>1. mail' \in [Exchanges -> MailRecord]
    BY <1>21, OriginClaimEffect
  <2>2. origin' \in OriginState /\ OriginOK'
    BY <2>a DEF OriginState, OriginOK
  <2> QED
    BY ONLY <1>t, <1>c, <1>u, <2>0, <2>1, <2>2
<1>22. ASSUME OriginStart PROVE LinkedType'
  <2>0. UNCHANGED <<mail, row, runs, slot, op, task, posting, restarts, handed, shown, receipts,
                    dropped, reopened>>
    BY <1>22 DEF OriginStart, durable, history
  <2>a. /\ origin.pc = "launching" /\ origin' = [origin EXCEPT !.pc = "running", !.claimed = {}]
        /\ seen' = seen \cup {<<c[1], c[2], origin.run>> : c \in origin.claimed}
    BY <1>22 DEF OriginStart
  <2>b. {<<c[1], c[2], origin.run>> : c \in origin.claimed} \subseteq Exchanges \X Nat \X OriginRuns
    <3>1. origin.run \in OriginRuns /\ origin.claimed \subseteq Exchanges \X Nat
      BY <2>a, Typed
    <3> QED
      BY ONLY <3>1
  <2>1. origin' \in OriginState /\ OriginOK'
    BY <1>t, <2>a DEF OriginState, OriginOK
  <2>2. seen' \subseteq Exchanges \X Nat \X OriginRuns
    BY <1>t, <2>a, <2>b
  <2> QED
    BY ONLY <1>t, <1>c, <1>u, <2>0, <2>1, <2>2
<1>23. ASSUME OriginEnd PROVE LinkedType'
  <2>0. UNCHANGED <<mail, row, runs, slot, op, task, posting, restarts, handed, shown, seen, receipts,
                    dropped, reopened>>
    BY <1>23 DEF OriginEnd, durable, history
  <2>1. origin' \in OriginState /\ OriginOK'
    BY <1>23 DEF OriginEnd, Idle, OriginState, OriginOK
  <2> QED
    BY ONLY <1>t, <1>c, <1>u, <2>0, <2>1
<1>24. ASSUME NEW e \in Exchanges, OriginWait(e) PROVE LinkedType'
  <2>0. UNCHANGED <<row, runs, slot, op, task, origin, posting, restarts, handed, shown, receipts,
                    dropped, reopened>>
    BY <1>24 DEF OriginWait, durable, history
  <2>a. /\ seen' = seen \cup {<<e, receipts[e], origin.run>>}
        /\ <<e, receipts[e], origin.run>> \in Exchanges \X Nat \X OriginRuns
    <3>1. origin.run \in OriginRuns /\ receipts[e] \in Nat
      BY <1>24, <1>t, Typed DEF OriginWait
    <3> QED
      BY <1>24, <3>1 DEF OriginWait
  <2>1. mail' \in [Exchanges -> MailRecord]
    BY <1>24, OriginWaitEffect
  <2>2. seen' \subseteq Exchanges \X Nat \X OriginRuns
    BY <1>t, <2>a
  <2> QED
    BY ONLY <1>t, <1>c, <1>u, <2>0, <2>1, <2>2
<1>25. ASSUME Restart PROVE LinkedType'
  <2>0. UNCHANGED <<handed, seen, reopened>>
    BY <1>25, Zenon DEF Restart, durable, history
  <2>a. restarts' = restarts + 1 /\ restarts < MaxRestarts
    BY <1>25, Zenon DEF Restart
  <2>1. mail' \in [Exchanges -> MailRecord]
    BY <1>25, RestartEffect
  <2>2. row' \in [Exchanges -> RowRecord]
    BY <1>25, RestartEffect
  <2>3. receipts' \in [Exchanges -> Nat]
    BY <1>25, RestartEffect
  <2>4. op' \in OpRecord /\ OpOK'
    BY <1>25, OpIsFree, Zenon DEF Restart
  <2>5. shown' \subseteq Exchanges \X Nat
    BY <1>25, <1>t, RestartEffect
  <2>6. dropped' \subseteq Exchanges
    BY <1>25, <1>t, RestartEffect
  <2>7. runs' \in [Runs -> RunStatus]
    BY <1>25, <1>t, Zenon DEF Restart
  <2>8. task' \in [Runs -> TaskState]
    BY <1>25, <1>t, Zenon DEF Restart
  <2>9. slot' \in [run: Runs \cup {NoRun}, steering: BOOLEAN]
    BY <1>25, <1>t, Zenon DEF EmptySlot, Restart
  <2>10. origin' \in OriginState /\ OriginOK'
    BY <1>25, <1>t, Zenon DEF Idle, OriginState, OriginOK, Restart
  <2>11. posting' \subseteq Exchanges \X {"lock", "task"} \X {"event", "mark"}
    BY <1>25, <1>t, Zenon DEF Restart
  <2>12. restarts' \in 0..MaxRestarts
    BY ONLY <2>a, <1>t, MailConstants DEF MailConstants
  <2> QED
    BY ONLY <1>t, <1>c, <1>u, <2>0, <2>1, <2>2, <2>3, <2>4, <2>5, <2>6, <2>7, <2>8, <2>9, <2>10, <2>11,
       <2>12
<1>26. UNCHANGED vars => LinkedType'
  BY <1>t DEF vars, durable, history, LinkedType, TypeOK, OpOK, OriginOK
<1> QED
  BY <1>1, <1>2, <1>3, <1>4, <1>5, <1>6, <1>7, <1>8, <1>9, <1>10, <1>11, <1>12, <1>13, <1>14, <1>15,
     <1>16, <1>17, <1>18, <1>19, <1>20, <1>21, <1>22, <1>23, <1>24, <1>25, <1>26, <1>27, <1>28
  DEF Next, Send, Start, RunStep, Origin

-----------------------------------------------------------------------------
(* The inductive invariant.                                                *)

\* A mail waits for its first run, in its row or in hand, or it was handed over.
HandOK(e) ==
  /\ row[e].state = "pending" => handed[e] = {}
  /\ op.mail = e /\ op.pc \in InSend => row[e].state # "pending"
  /\ InHand(e) => handed[e] = {}
  /\ \A r, s \in handed[e] : r = s
HandInv == \A e \in Exchanges : HandOK(e)

\* An exchange that waits for its answer, and one whose last receipt is in the
\* timeline, unless it was delivered again after a first one.
Waiting(e) == mail[e].status \in {"queued", "running"}
Posted(e)  == <<e, receipts[e]>> \in shown \/ e \in reopened

\* A receipt that reads as projected, or is about to, is in the timeline.
PostOK(e) ==
  /\ mail[e].status \in Receipt => Posted(e) \/ \E who \in {"lock", "task"} : Event(e, who) \in posting
  /\ mail[e].projected => Posted(e)
  /\ \A who \in {"lock", "task"} : Mark(e, who) \in posting => Posted(e)
  /\ Waiting(e) /\ mail[e].projected => e \in reopened
  /\ op.mail = e /\ op.pc \in {"spawn", "settle"} /\ op.copy.projected => e \in reopened
PostInv == \A e \in Exchanges : PostOK(e)

\* Whoever got the receipt an exchange holds now is its origin, and took it from
\* the rest.
Held(e, n, o) == n = receipts[e] /\ mail[e].status \in Receipt => mail[e].consumed /\ mail[e].origin = o
SeenInv ==
  /\ \A x \in seen : x[2] <= receipts[x[1]] /\ Held(x[1], x[2], x[3])
  /\ \A c \in origin.claimed :
       /\ c[2] <= receipts[c[1]] /\ Held(c[1], c[2], origin.run)
       /\ \A x \in seen : ~(x[1] = c[1] /\ x[2] = c[2])
  /\ \A x, y \in seen : x[1] = y[1] /\ x[2] = y[2] => x[3] = y[3]
  /\ origin.claimed # {} => origin.pc = "launching"

\* The tasks of runs, what the lock holder has recorded of them, and the slot.
Live == {"running", "completed", "failed", "cancelled"}
RunOK(r) ==
  /\ task[r] \in Live => runs[r] = "running" \/ (op.pc \in Finishing /\ op.run = r)
  /\ op.run = r /\ op.pc \in {"launch", "spawn"} => task[r] = "none" /\ runs[r] = "accepted"
  /\ op.run = r /\ op.pc = "undo" => task[r] = "none"
  /\ op.run = r /\ op.pc \in Finishing => task[r] \in Live \ {"running"}
  /\ slot.run = r /\ task[r] = "none" => op.pc \in {"launch", "spawn"} /\ op.run = r
RunInv == \A r \in Runs : RunOK(r)

\* What an exchange looks like at each step of its holder.
ShapeOK(e) ==
  /\ mail[e].status \in {"none", "queued"} => mail[e].target = NoRun
  /\ row[e].state = "pending" => row[e].kind \in {"steer", "followup"}
  /\ row[e].state = "pending" /\ row[e].kind = "steer" =>
       row[e].target \in Runs /\ mail[e].target = row[e].target /\ task[row[e].target] # "none"
  /\ op.mail = e /\ op.pc = "deliver" /\ op.copy.status = "running" =>
       op.copy.target \in Runs /\ mail[e].target = op.copy.target /\ task[op.copy.target] # "none"
  /\ op.mail = e /\ op.pc = "deliver" =>
       mail[e].status # "none" /\ (op.copy.status = "queued" => mail[e].target = NoRun)
  /\ op.mail = e /\ op.pc \in {"start", "launch"} /\ ~op.queued => mail[e].status = "running" /\ mail[e].target = NoRun
  /\ op.mail = e /\ op.pc = "launch" => op.copy.status # "none" \/ mail[e].status = "none"
  /\ op.mail = e /\ op.pc \in {"launch", "spawn"} /\ ~op.queued => op.copy.status = "running"
  /\ op.mail = e /\ op.pc = "spawn" =>
       \/ op.queued /\ mail[e].status = "none"
       \/ mail[e].status = "running" /\ mail[e].target = op.run
  /\ op.mail = e /\ op.pc = "settle" =>
       /\ op.copy.status = "running" /\ op.copy.target = op.run
       /\ mail[e].status # "none" /\ mail[e].target = op.run
ShapeInv == \A e \in Exchanges : ShapeOK(e)

\* No run has the exchange, or one whose task is over; the lock holder's run has it.
Idles(e) == mail[e].target = NoRun \/ task[mail[e].target] = "done"
Own(e)   == mail[e].target = op.run

\* While a receipt is being posted, nobody can write the next one of its mail.
Quiet == {"launch", "spawn", "undo", "settle", "retarget", "release"}
LockPosts(e) == \E k \in {"event", "mark"} : <<e, "lock", k>> \in posting
TaskPosts(e) == \E k \in {"event", "mark"} : <<e, "task", k>> \in posting
Ended(r) == r \in Runs /\ task[r] \in {"completed", "failed"} /\ ~(op.pc \in Finishing /\ op.run = r)
WriterOK(e) ==
  /\ row[e].state = "pending" /\ row[e].kind = "followup" => Idles(e)
  /\ op.mail = e /\ op.pc \in {"start", "launch"} => Idles(e)
  /\ op.mail = e /\ op.pc \in {"spawn", "undo"} => Idles(e) \/ Own(e)
  /\ LockPosts(e) => ~Waiting(e) /\ receipts[e] # 0 /\ op.pc \notin Quiet
  /\ TaskPosts(e) =>
       /\ receipts[e] # 0
       /\ mail[e].status = "none" \/ Ended(mail[e].target)
       /\ ~(row[e].state = "pending" /\ row[e].kind = "followup")
       /\ ~(op.mail = e /\ op.pc \in {"start", "launch", "spawn", "undo"})
WriterInv == \A e \in Exchanges : WriterOK(e)

\* A run that will not answer its mail any more.
Answered == {"retarget", "release"}
Over(r)  == task[r] = "completed" \/ (op.pc \in Answered /\ op.run = r)

\* Something will answer an exchange that waits, and its run is not over.
AnswerOK(e) ==
  Waiting(e) =>
    \/ Pending(e) \/ InHand(e) \/ e \in dropped
    \/ LiveRun(e) /\ ~Over(mail[e].target)
AnswerInv == \A e \in Exchanges : AnswerOK(e)

-----------------------------------------------------------------------------
(* Handing a mail over.                                                    *)

\* Every step hands a mail over to its first run only.
LEMMA HandStep == ASSUME MailConstants, LinkedType, HandInv, [Next]_vars PROVE HandInv'
<1> SUFFICES ASSUME NEW e \in Exchanges PROVE HandOK(e)'
  BY DEF HandInv
<1>h. /\ row[e].state = "pending" => handed[e] = {}
      /\ op.mail = e /\ op.pc \in InSend => row[e].state # "pending"
      /\ op.mail = e /\ op.pc \in {"deliver", "start", "launch", "spawn", "undo"} => handed[e] = {}
      /\ \A r, s \in handed[e] : r = s
  BY DEF HandInv, HandOK, InHand
<1>g. (/\ row'[e].state = "pending" => handed'[e] = {}
       /\ op'.mail = e /\ op'.pc \in InSend => row'[e].state # "pending"
       /\ op'.mail = e /\ op'.pc \in {"deliver", "start", "launch", "spawn", "undo"} => handed'[e] = {}
       /\ \A r, s \in handed'[e] : r = s) => HandOK(e)'
  BY DEF HandOK, InHand
<1>f. op' = Free => op'.pc \notin InSend /\ op'.pc \notin {"deliver", "start", "launch", "spawn", "undo"}
  BY OpFields DEF InSend
<1>r. row \in [Exchanges -> RowRecord] /\ handed \in [Exchanges -> SUBSET Runs]
  BY Typed
\* The mail stays where it is.
<1>s. ASSUME row'[e] = row[e], handed'[e] = handed[e], \/ op' = Free \/ op'.mail # e \/ op' = op
      PROVE  HandOK(e)'
  BY <1>h, <1>g, <1>f, <1>s
<1>1. ASSUME NEW x \in Exchanges, SendPut(x) PROVE HandOK(e)'
  <2>1. /\ row' = row /\ handed' = handed /\ op'.mail = x
        /\ row[x] = NoRow /\ handed[x] = {}
    BY <1>1, SendPutEffect, Zenon DEF SendPut, history
  <2> QED
    BY Zenon, <1>g, <1>s, <2>1, RowFields
<1>2. ASSUME SendDeliver PROVE HandOK(e)'
  <2>1. /\ op' = Free /\ handed' = handed /\ op.mail \in Exchanges /\ op.pc = "deliver"
        /\ \A x \in Exchanges \ {op.mail} : row'[x] = row[x]
    BY <1>2, <1>r, Typed DEF SendDeliver, InSend, history
  <2>2. CASE e = op.mail
    BY <1>h, <1>g, <1>f, <2>1, <2>2
  <2>3. CASE e # op.mail
    BY <1>s, <2>1, <2>3
  <2> QED
    BY <2>2, <2>3
<1>3. ASSUME SendUndone \/ SendSettle PROVE HandOK(e)'
  BY <1>s, <1>3 DEF SendUndone, SendSettle, history
<1>4. ASSUME NEW r \in Runs, NEW steering \in BOOLEAN, LaunchRecord(r, steering) PROVE HandOK(e)'
  <2>1. row' = row /\ handed' = handed
    BY <1>4 DEF LaunchRecord, history
  <2> QED
    BY <1>4, <1>h, <1>g, <2>1, LaunchRecordEffect DEF InSend
<1>5. ASSUME NEW x \in Exchanges, row[x].state = "pending", ClaimQueuedMail(x), handed' = handed
      PROVE  HandOK(e)'
  <2>1. /\ op'.mail = x /\ row'[x].state = "claimed" /\ \A y \in Exchanges \ {x} : row'[y] = row[y]
    BY <1>5, ClaimEffectQ
  <2>2. CASE e = x
    BY <1>5, <1>h, <1>g, <2>1, <2>2
  <2>3. CASE e # x
    BY <1>5, <1>s, <2>1, <2>3
  <2> QED
    BY <2>2, <2>3
<1>6. ASSUME NEW x \in Exchanges, DeleteRow(x) PROVE HandOK(e)'
  <2>1. /\ op.pc = "free" /\ op' = op /\ handed' = handed
        /\ row' = [row EXCEPT ![x] = [@ EXCEPT !.state = "cancelled"]]
    BY <1>6 DEF DeleteRow
  <2>2. CASE e = x
    <3> DEFINE w == [row[e] EXCEPT !.state = "cancelled"]
    <3>2. row'[e] = w
      BY <1>r, <2>1, <2>2
    <3>3. w.state = "cancelled"
      <4>1. row[e] \in RowRecord
        BY <1>r
      <4> QED
        BY ONLY Zenon, <4>1, RowFields
    <3> HIDE DEF w
    <3>1. row'[e].state = "cancelled"
      BY <3>2, <3>3
    <3> QED
      BY <1>h, <1>g, <2>1, <3>1
  <2>3. CASE e # x
    BY <1>r, <1>s, <2>1, <2>3
  <2> QED
    BY <2>2, <2>3
<1>7. ASSUME LaunchMail PROVE HandOK(e)'
  <2>1. row' = row /\ handed' = handed
    BY <1>7 DEF LaunchMail, history
  <2> QED
    BY <1>7, <1>h, <1>g, <2>1, LaunchMailEffect DEF InSend
<1>8. ASSUME LaunchSpawn PROVE HandOK(e)'
  <2>1. /\ op.pc = "spawn" /\ op.mail \in Exchanges /\ row' = row
        /\ handed' = [handed EXCEPT ![op.mail] = @ \cup {op.run}]
        /\ op' = Free \/ (op'.pc = "settle" /\ op'.mail = op.mail)
    BY <1>8, LaunchSpawnEffect DEF LaunchSpawn
  <2>2. CASE e = op.mail
    BY <1>h, <1>g, <1>f, <1>r, <2>1, <2>2 DEF InSend
  <2>3. CASE e # op.mail
    BY <1>r, <1>s, <2>1, <2>3
  <2> QED
    BY <2>2, <2>3
<1>9. ASSUME StartRejected \/ StartUndone PROVE HandOK(e)'
  BY <1>s, <1>9 DEF StartRejected, StartUndone, StartFailed, history
<1>21. ASSUME LaunchFailed PROVE HandOK(e)'
  <2>1. row' = row /\ handed' = handed
    BY <1>21 DEF LaunchFailed, history
  <2> QED
    BY <1>21, <1>h, <1>g, <2>1, LaunchFailedEffect DEF InSend
<1>10. ASSUME NEW r \in Runs, ClaimSteers(r) PROVE HandOK(e)'
  <2> DEFINE w == [row[e] EXCEPT !.state = "claimed"]
  <2>1. /\ op' = op
        /\ PendingSteer(e, r) => row'[e] = w /\ handed'[e] = handed[e] \cup {r}
        /\ ~PendingSteer(e, r) => row'[e] = row[e] /\ handed'[e] = handed[e]
    BY <1>10 DEF ClaimSteers
  <2>2. w.state = "claimed"
    <3>1. row[e] \in RowRecord
      BY <1>r
    <3> QED
      BY ONLY Zenon, <3>1, RowFields
  <2> HIDE DEF w
  <2>3. CASE PendingSteer(e, r)
    <3>1. row[e].state = "pending" /\ row'[e].state = "claimed"
      BY <2>1, <2>2, <2>3 DEF PendingSteer
    <3> QED
      BY <1>h, <1>g, <2>1, <2>3, <3>1 DEF InSend
  <2>4. CASE ~PendingSteer(e, r)
    BY <1>s, <2>1, <2>4
  <2> QED
    BY <2>3, <2>4
<1>11. ASSUME NEW r \in Runs, FinishRecord(r) PROVE HandOK(e)'
  <2>1. row' = row /\ handed' = handed /\ op'.pc \in {"retarget", "fail"}
    BY <1>11, FinishRecordEffect
  <2> QED
    BY <1>h, <1>g, <2>1 DEF InSend
<1>22. ASSUME NEW x \in Exchanges, FinishFail(x) PROVE HandOK(e)'
  BY <1>s, <1>22 DEF FinishFail
<1>23. ASSUME FinishFailed PROVE HandOK(e)'
  <2>1. row' = row /\ handed' = handed /\ op'.pc = "retarget"
    BY <1>23, FinishFailedEffect
  <2> QED
    BY <1>h, <1>g, <2>1 DEF InSend
<1>12. ASSUME FinishRetarget PROVE HandOK(e)'
  <2>1. handed' = handed
    BY <1>12, Zenon DEF FinishRetarget
  <2>2. row'[e].state = row[e].state /\ op'.pc = "release"
    BY <1>12, RetargetEffect
  <2> QED
    BY <1>h, <1>g, <2>1, <2>2 DEF InSend
<1>13. ASSUME FinishRelease PROVE HandOK(e)'
  <2>1. handed' = handed /\ ((\E x \in QueuedMail : ClaimQueuedMail(x)) \/ (op' = Free /\ row' = row))
    BY <1>13 DEF FinishRelease, history
  <2> QED
    BY <1>5, <1>s, <2>1 DEF QueuedMail
<1>14. ASSUME NEW x \in Exchanges, ResumeQueuedMail(x) PROVE HandOK(e)'
  BY <1>5, <1>14 DEF ResumeQueuedMail, QueuedMail, history
<1>15. ASSUME Restart PROVE HandOK(e)'
  <2>1. row'[e].state = row[e].state /\ handed' = handed /\ op' = Free
    BY <1>15, RestartEffect, Zenon DEF Restart
  <2> QED
    BY <1>h, <1>g, <1>f, <2>1
<1>16. ASSUME NEW r \in Runs, NEW steering, StartTurn(r, steering) PROVE HandOK(e)'
  BY <1>s, <1>16 DEF StartTurn, history
<1>17. ASSUME NEW r \in Runs, NEW outcome, RunReplies(r, outcome) \/ RunEnds(r, outcome) PROVE HandOK(e)'
  BY <1>s, <1>17 DEF RunReplies, RunEnds, durable, history
<1>18. ASSUME NEW x \in Exchanges, NEW who, PostReply(x, who) \/ MarkProjected(x, who) PROVE HandOK(e)'
  BY <1>s, <1>18 DEF PostReply, MarkProjected, durable, history
<1>19. ASSUME Origin PROVE HandOK(e)'
  BY <1>s, <1>19, Zenon DEF Origin, OriginClaim, OriginStart, OriginEnd, OriginWait, durable, history
<1>20. ASSUME UNCHANGED vars PROVE HandOK(e)'
  BY <1>s, <1>20 DEF vars, durable, history
<1> QED
  BY <1>1, <1>2, <1>3, <1>4, <1>6, <1>7, <1>8, <1>9, <1>10, <1>11, <1>12, <1>13, <1>14, <1>15, <1>16,
     <1>17,
     <1>18, <1>19, <1>20, <1>21, <1>22, <1>23 DEF Next, Send, Start, RunStep

-----------------------------------------------------------------------------
(* The origin's timeline.                                                  *)

\* Nobody writes a receipt of a mail while its last one is being posted: neither
\* a run that replies, nor its finish, nor a start that failed.
LEMMA ReplyWritesAlone ==
  ASSUME WriterInv, NEW r, task[r] = "running", NEW e \in Settled(r)
  PROVE  Waiting(e) /\ ~LockPosts(e) /\ ~TaskPosts(e)
  BY DEF WriterInv, WriterOK, Settled, Waiting, Ended
LEMMA FinishWritesAlone ==
  ASSUME WriterInv, NEW e, FinishFail(e)
  PROVE  e \in Exchanges /\ Waiting(e) /\ ~LockPosts(e) /\ ~TaskPosts(e)
<1>1. /\ op.pc = "fail" /\ ~Posting("lock") /\ e \in Exchanges
      /\ mail[e].status \in {"queued", "running"} /\ mail[e].target = op.run
  BY DEF FinishFail, Settled
<1>2. ~LockPosts(e)
  BY <1>1 DEF Posting, LockPosts
<1>3. ~TaskPosts(e)
  BY <1>1 DEF WriterInv, WriterOK, Ended, Finishing
<1> QED
  BY <1>1, <1>2, <1>3 DEF Waiting
LEMMA StartWritesAlone ==
  ASSUME WriterInv, LinkedType, StartRejected \/ StartUndone
  PROVE  op.mail \in Exchanges /\ ~LockPosts(op.mail) /\ ~TaskPosts(op.mail)
<1>1. op.pc \in {"start", "undo"} /\ op.mail \in Exchanges /\ (op.pc = "undo" \/ ~Posting("lock"))
  BY Typed DEF StartRejected, StartUndone, InSend
<1>2. ~LockPosts(op.mail)
  <2>1. CASE op.pc = "undo"
    BY <1>1, <2>1 DEF WriterInv, WriterOK, Quiet
  <2>2. CASE ~Posting("lock")
    BY <2>2 DEF Posting, LockPosts
  <2> QED
    BY <1>1, <2>1, <2>2
<1>3. ~TaskPosts(op.mail)
  BY <1>1 DEF WriterInv, WriterOK
<1> QED
  BY <1>1, <1>2, <1>3

\* A receipt about to be marked is being posted.
LEMMA MarkPosts ==
  ASSUME NEW e, NEW who \in {"lock", "task"}, Mark(e, who) \in posting \/ Event(e, who) \in posting
  PROVE  (who = "lock" => LockPosts(e)) /\ (who = "task" => TaskPosts(e))
  BY DEF Mark, Event, LockPosts, TaskPosts

\* Every step keeps receipts on their way to the timeline.
LEMMA PostStep ==
  ASSUME MailConstants, LinkedType, ShapeInv, WriterInv, PostInv, [Next]_vars PROVE PostInv'
<1> SUFFICES ASSUME NEW e \in Exchanges PROVE PostOK(e)'
  BY DEF PostInv
<1> DEFINE Who == {"lock", "task"}
           p  == <<e, receipts[e]>> \in shown \/ e \in reopened
           p1 == <<e, receipts'[e]>> \in shown' \/ e \in reopened'
<1>h. /\ mail[e].status \in Receipt => p \/ \E who \in Who : Event(e, who) \in posting
      /\ mail[e].projected => p
      /\ \A who \in Who : Mark(e, who) \in posting => p
      /\ mail[e].status \in {"queued", "running"} /\ mail[e].projected => e \in reopened
      /\ op.mail = e /\ op.pc \in {"spawn", "settle"} /\ op.copy.projected => e \in reopened
  BY DEF PostInv, PostOK, Posted, Waiting
<1>g. (/\ mail'[e].status \in Receipt => p1 \/ \E who \in Who : Event(e, who) \in posting'
       /\ mail'[e].projected => p1
       /\ \A who \in Who : Mark(e, who) \in posting' => p1
       /\ mail'[e].status \in {"queued", "running"} /\ mail'[e].projected => e \in reopened'
       /\ op'.mail = e /\ op'.pc \in {"spawn", "settle"} /\ op'.copy.projected => e \in reopened') => PostOK(e)'
  BY DEF PostOK, Posted, Waiting, Event, Mark
<1>f. op' = Free => op'.mail # e
  BY OpFields DEF MailConstants
<1>r. mail \in [Exchanges -> MailRecord] /\ receipts \in [Exchanges -> Nat]
  BY Typed
<1>n. \A x, w, y, v : Mark(x, w) # Event(y, v)
  BY DEF Mark, Event
<1>k. receipts' = receipts /\ shown' = shown /\ reopened \subseteq reopened' => (p => p1)
  OBVIOUS
<1> HIDE DEF p, p1
\* No receipt is written and nothing is posted.
<1>s. ASSUME mail'[e].status = mail[e].status \/ mail'[e].status \notin Receipt,
             mail'[e].projected => mail[e].projected,
             mail'[e].status \in {"queued", "running"} => mail'[e].status = mail[e].status \/ ~mail'[e].projected,
             receipts' = receipts, shown' = shown, posting' = posting, reopened' = reopened,
             \/ op' = Free \/ op'.mail # e \/ op' = op \/ op'.pc \notin {"spawn", "settle"}
             \/ op'.mail = op.mail /\ op.pc \in {"spawn", "settle"} /\ op'.copy.projected = op.copy.projected
      PROVE  PostOK(e)'
  BY <1>h, <1>g, <1>f, <1>k, <1>s
\* The receipts of some mail are written, none of which is being posted.
<1>w. ASSUME NEW E, NEW s \in Receipt, NEW who \in Who, WriteReceipts(E, s, who), shown' = shown,
             reopened' = reopened, op' = op,
             e \in E => Waiting(e) /\ ~LockPosts(e) /\ ~TaskPosts(e)
      PROVE  PostOK(e)'
  <2>1. /\ posting \subseteq posting'
        /\ \A y \in posting' : y \in posting \/ \E x \in E : y = Event(x, who)
        /\ e \notin E => mail'[e] = mail[e] /\ receipts'[e] = receipts[e]
        /\ e \in E => /\ mail'[e].status \in Receipt /\ mail'[e].projected = mail[e].projected
                      /\ (mail[e].projected \/ Event(e, who) \in posting')
    <3>1. posting \subseteq posting' /\ \A y \in posting' : y \in posting \/ \E x \in E : y = Event(x, who)
      BY <1>r, <1>w, ReceiptsEffect
    <3>2. e \notin E => mail'[e] = mail[e] /\ receipts'[e] = receipts[e]
      BY <1>r, <1>w, ReceiptsEffect
    <3>3. e \in E => mail'[e].status \in Receipt /\ mail'[e].projected = mail[e].projected
      BY <1>r, <1>w, ReceiptsEffect
    <3>4. e \in E /\ ~mail[e].projected => Event(e, who) \in posting'
      BY <1>r, <1>w, ReceiptsEffect
    <3> QED
      BY <3>1, <3>2, <3>3, <3>4
  <2>2. \A v \in Who : Mark(e, v) \in posting' => Mark(e, v) \in posting
    BY <1>n, <2>1
  <2>3. CASE e \in E
    <3>1. \A v \in Who : Mark(e, v) \notin posting
      BY <1>w, <2>3, MarkPosts
    <3>2. mail[e].projected => e \in reopened
      BY <1>h, <1>w, <2>3 DEF Waiting
    <3>3. mail'[e].projected => p1
      BY <1>w, <2>1, <2>3, <3>2 DEF p1
    <3>4. mail'[e].status \notin {"queued", "running"}
      BY <2>1, <2>3 DEF Receipt
    <3> QED
      BY <1>h, <1>g, <1>w, <2>1, <2>2, <2>3, <3>1, <3>3, <3>4
  <2>4. CASE e \notin E
    <3>1. p => p1
      BY <1>w, <2>1, <2>4 DEF p, p1
    <3> QED
      BY <1>h, <1>g, <1>w, <2>1, <2>2, <2>4, <3>1
  <2> QED
    BY <2>3, <2>4
<1>1. ASSUME NEW x \in Exchanges, SendPut(x) PROVE PostOK(e)'
  <2>1. shown' = shown /\ posting' = posting /\ receipts' = receipts /\ reopened' = reopened
    BY <1>1 DEF SendPut, history
  <2> QED
    BY <1>1, <1>s, <2>1, SendPutEffect DEF Receipt
<1>2. ASSUME SendDeliver PROVE PostOK(e)'
  BY <1>2, <1>s DEF SendDeliver, history
<1>3. ASSUME SendUndone PROVE PostOK(e)'
  <2>1. /\ shown' = shown /\ posting' = posting /\ receipts' = receipts /\ reopened' = reopened
        /\ op' = Free /\ (mail'[e] = mail[e] \/ mail'[e] = NoExchange)
    BY <1>3, <1>r DEF SendUndone, history
  <2> QED
    BY <1>s, <2>1, ExchangeFields DEF Receipt
<1>4. ASSUME SendSettle PROVE PostOK(e)'
  <2>1. shown' = shown /\ posting' = posting /\ receipts' = receipts /\ reopened' = reopened /\ op' = Free
    BY <1>4 DEF SendSettle
  <2>2. CASE e = op.mail
    <3>1. op.copy.status = "running" /\ op.pc = "settle"
      BY <1>4, <2>2, SendSettleEffect DEF ShapeInv, ShapeOK
    <3>2. mail'[e].status \notin Receipt /\ (mail'[e].projected => e \in reopened')
      BY <1>4, <1>h, <2>1, <2>2, <3>1, SendSettleEffect DEF Receipt
    <3>3. p => p1
      BY <1>k, <2>1
    <3>4. mail'[e].projected => p1
      BY <3>2 DEF p1
    <3> QED
      BY <1>h, <1>g, <1>f, <2>1, <3>2, <3>3, <3>4
  <2>3. CASE e # op.mail
    BY <1>4, <1>s, <2>1, <2>3, SendSettleEffect
  <2> QED
    BY <2>2, <2>3
<1>5. ASSUME NEW r \in Runs, NEW steering \in BOOLEAN, LaunchRecord(r, steering) PROVE PostOK(e)'
  <2>1. /\ shown' = shown /\ posting' = posting /\ receipts' = receipts /\ reopened' = reopened
        /\ mail' = mail
    BY <1>5 DEF LaunchRecord, history
  <2>2. op'.pc = "launch"
    BY <1>5, LaunchRecordEffect
  <2> QED
    BY <1>s, <2>1, <2>2
<1>6. ASSUME NEW x \in Exchanges, ClaimQueuedMail(x),
             UNCHANGED <<mail, shown, posting, receipts, reopened>>
      PROVE  PostOK(e)'
  <2>1. op'.pc = "start"
    BY <1>6, ClaimEffectQ
  <2> QED
    BY <1>6, <1>s, <2>1
<1>7. ASSUME LaunchMail PROVE PostOK(e)'
  <2>1. /\ shown' = shown /\ posting' = posting /\ receipts' = receipts
        /\ reopened' = IF op.copy.projected THEN reopened \cup {op.mail} ELSE reopened
        /\ op'.mail = op.mail /\ op'.copy = op.copy
    BY <1>7, LaunchMailEffect DEF LaunchMail, history
  <2>2. (p => p1) /\ (e \in reopened => e \in reopened')
    BY <1>k, <2>1
  <2>3. op'.mail = e /\ op'.copy.projected => e \in reopened'
    BY <2>1
  <2>4. CASE e = op.mail /\ op.copy.status # "none"
    <3>1. mail'[e].status = "running" /\ mail'[e].projected = op.copy.projected
      BY <1>7, <2>4, LaunchMailEffect
    <3>2. mail'[e].projected => e \in reopened'
      BY <2>1, <2>4, <3>1
    <3>3. mail'[e].projected => p1
      BY <3>2 DEF p1
    <3>4. mail'[e].status \notin Receipt
      BY <3>1 DEF Receipt
    <3> QED
      BY <1>h, <1>g, <2>1, <2>2, <2>3, <3>2, <3>3, <3>4
  <2>5. CASE e # op.mail \/ op.copy.status = "none"
    <3>1. mail'[e] = mail[e]
      BY <1>7, <2>5, LaunchMailEffect
    <3> QED
      BY <1>h, <1>g, <2>1, <2>2, <2>3, <3>1
  <2> QED
    BY <2>4, <2>5
<1>8. ASSUME LaunchSpawn PROVE PostOK(e)'
  <2>1. /\ shown' = shown /\ posting' = posting /\ receipts' = receipts /\ reopened' = reopened
        /\ mail' = mail
    BY <1>8 DEF LaunchSpawn
  <2>2. op.pc = "spawn" /\ (op' = Free \/ (op'.mail = op.mail /\ op'.copy.projected = op.copy.projected))
    BY <1>8, LaunchSpawnEffect
  <2> QED
    BY <1>s, <2>1, <2>2
<1>9. ASSUME StartRejected \/ StartUndone PROVE PostOK(e)'
  <2>1. shown' = shown /\ reopened' = reopened /\ op.pc \in {"start", "undo"} /\ StartFailed
    BY <1>9 DEF StartRejected, StartUndone
  <2>2. /\ posting \subseteq posting' /\ \A y \in posting' : y \in posting \/ y = Event(op.mail, "lock")
        /\ op' = Free
    BY <2>1, StartFailedEffect
  <2>3. \A v \in Who : Mark(e, v) \in posting' => Mark(e, v) \in posting
    BY <1>n, <2>2
  <2>4. CASE mail'[e] = mail[e] /\ receipts'[e] = receipts[e]
    <3>1. p => p1
      BY <2>1, <2>4 DEF p, p1
    <3> QED
      BY <1>h, <1>g, <1>f, <2>1, <2>2, <2>3, <2>4, <3>1
  <2>5. CASE mail'[e] = NoExchange /\ receipts'[e] = receipts[e]
    <3>1. p => p1
      BY <2>1, <2>5 DEF p, p1
    <3> QED
      BY <1>h, <1>g, <1>f, <2>2, <2>3, <2>5, <3>1, ExchangeFields DEF Receipt
  <2>6. CASE e = op.mail /\ mail'[e].status \in Receipt /\ receipts'[e] = receipts[e] + 1
    <3>1. /\ mail'[e].projected = mail[e].projected /\ mail[e].status \in {"queued", "running"}
          /\ (mail[e].projected \/ Event(e, "lock") \in posting')
      <4>1. receipts' # receipts
        BY <1>r, <2>6
      <4> QED
        BY <2>1, <2>6, <4>1, StartFailedEffect
    <3>2. \A v \in Who : Mark(e, v) \notin posting
      BY <1>9, <2>6, StartWritesAlone, MarkPosts
    <3>3. mail'[e].projected => p1
      BY <1>h, <2>1, <3>1 DEF p1
    <3>4. mail'[e].status \notin {"queued", "running"}
      BY <2>6 DEF Receipt
    <3> QED
      BY <1>g, <1>f, <2>2, <2>3, <2>6, <3>1, <3>2, <3>3, <3>4
  <2>7. \/ mail'[e] = mail[e] /\ receipts'[e] = receipts[e]
        \/ mail'[e] = NoExchange /\ receipts'[e] = receipts[e]
        \/ e = op.mail /\ mail'[e].status \in Receipt /\ receipts'[e] = receipts[e] + 1
    BY <2>1, StartFailedEffect
  <2> QED
    BY <2>4, <2>5, <2>6, <2>7
<1>24. ASSUME LaunchFailed PROVE PostOK(e)'
  <2>1. UNCHANGED <<mail, shown, posting, receipts, reopened>>
    BY <1>24 DEF LaunchFailed, history
  <2>2. op'.pc = "undo"
    BY <1>24, LaunchFailedEffect
  <2> QED
    BY <1>s, <2>1, <2>2
<1>10. ASSUME NEW r \in Runs, FinishRecord(r) PROVE PostOK(e)'
  <2>1. UNCHANGED <<mail, shown, posting, receipts, reopened>> /\ op'.pc \in {"retarget", "fail"}
    BY <1>10, FinishRecordEffect
  <2> QED
    BY <1>s, <2>1
<1>25. ASSUME FinishFailed PROVE PostOK(e)'
  <2>1. UNCHANGED <<mail, shown, posting, receipts, reopened>> /\ op'.pc = "retarget"
    BY <1>25, FinishFailedEffect
  <2> QED
    BY <1>s, <2>1
<1>26. ASSUME NEW x \in Exchanges, FinishFail(x) PROVE PostOK(e)'
  <2>1. WriteReceipts({x}, "failed", "lock") /\ UNCHANGED <<shown, reopened, op>> /\ "failed" \in Receipt
    BY <1>26 DEF FinishFail, Receipt
  <2>2. e \in {x} => Waiting(e) /\ ~LockPosts(e) /\ ~TaskPosts(e)
    BY <1>26, FinishWritesAlone
  <2> QED
    BY <1>w, <2>1, <2>2
<1>11. ASSUME NEW r \in Runs, NEW outcome, RunReplies(r, outcome) PROVE PostOK(e)'
  <2>1. /\ WriteReceipts(Settled(r), "replied", "task") /\ UNCHANGED <<shown, reopened, op>>
        /\ "replied" \in Receipt /\ task[r] = "running"
    BY <1>11 DEF RunReplies, Receipt
  <2>2. e \in Settled(r) => Waiting(e) /\ ~LockPosts(e) /\ ~TaskPosts(e)
    BY <2>1, ReplyWritesAlone
  <2> QED
    BY <1>w, <2>1, <2>2
<1>12. ASSUME FinishRetarget PROVE PostOK(e)'
  <2>1. shown' = shown /\ posting' = posting /\ receipts' = receipts
    BY <1>12, Zenon DEF FinishRetarget, history
  <2>2. /\ op'.pc = "release" /\ reopened \subseteq reopened'
        /\ PendingSteer(e, op.run) /\ mail[e].projected => e \in reopened'
        /\ \/ mail'[e] = mail[e]
           \/ /\ PendingSteer(e, op.run) /\ mail'[e].status = "queued"
              /\ mail'[e].projected = mail[e].projected
    BY <1>12, RetargetEffect
  <2>3. p => p1
    BY <1>k, <2>1, <2>2
  <2>4. CASE mail'[e] = mail[e]
    BY <1>h, <1>g, <2>1, <2>2, <2>3, <2>4
  <2>5. CASE PendingSteer(e, op.run) /\ mail'[e].status = "queued" /\ mail'[e].projected = mail[e].projected
    <3>1. mail'[e].status \notin Receipt
      BY <2>5 DEF Receipt
    <3> QED
      BY <1>h, <1>g, <2>1, <2>2, <2>3, <2>5, <3>1
  <2> QED
    BY <2>2, <2>4, <2>5
<1>13. ASSUME FinishRelease PROVE PostOK(e)'
  <2>1. /\ UNCHANGED <<mail, shown, posting, receipts, reopened>>
        /\ ((\E x \in Exchanges : ClaimQueuedMail(x)) \/ op' = Free)
    BY <1>13 DEF FinishRelease, history, QueuedMail
  <2> QED
    BY <1>6, <1>s, <2>1
<1>14. ASSUME NEW x \in Exchanges, ResumeQueuedMail(x) PROVE PostOK(e)'
  BY <1>6, <1>14 DEF ResumeQueuedMail, history
<1>15. ASSUME NEW x \in Exchanges, NEW who \in Who, PostReply(x, who) PROVE PostOK(e)'
  <2>1. /\ mail' = mail /\ op' = op /\ receipts' = receipts /\ reopened' = reopened
        /\ shown' = shown \cup {<<x, receipts[x]>>} /\ Event(x, who) \in posting
        /\ posting' = (posting \ {Event(x, who)}) \cup {Mark(x, who)}
    BY <1>15 DEF PostReply, durable, Event, Mark
  <2>2. \A v \in Who : Event(e, v) = Event(x, who) \/ Mark(e, v) = Mark(x, who) => e = x
    BY DEF Event, Mark
  <2>3. (p => p1) /\ (e = x => p1)
    BY <2>1 DEF p, p1
  <2> QED
    BY <1>h, <1>g, <2>1, <2>2, <2>3
<1>16. ASSUME NEW x \in Exchanges, NEW who \in Who, MarkProjected(x, who) PROVE PostOK(e)'
  <2>1. /\ op' = op /\ shown' = shown /\ receipts' = receipts /\ reopened' = reopened
        /\ Mark(x, who) \in posting /\ posting' = posting \ {Mark(x, who)}
        /\ mail' = [mail EXCEPT ![x].projected = @ \/ mail[x].status \in Receipt]
    BY <1>16 DEF MarkProjected, Mark, history
  <2>2. mail'[e].status = mail[e].status /\ (e # x => mail'[e] = mail[e])
    BY <1>16, MarkProjectedEffect
  <2>3. e = x => (mail'[e].projected => mail[e].projected \/ mail[e].status \in Receipt)
    BY <1>r, <2>1 DEF MailRecord
  <2>4. p => p1
    BY <1>k, <2>1
  <2>5. mail[e].status \in {"queued", "running"} => mail[e].status \notin Receipt
    BY DEF Receipt
  <2> QED
    BY <1>h, <1>g, <1>n, <2>1, <2>2, <2>3, <2>4, <2>5
<1>17. ASSUME NEW o \in OriginRuns, OriginClaim(o) PROVE PostOK(e)'
  <2>1. op' = op /\ UNCHANGED <<shown, posting, receipts, reopened>>
    BY <1>17, Zenon DEF OriginClaim, history
  <2>2. mail'[e].status = mail[e].status /\ mail'[e].projected = mail[e].projected
    BY <1>17, OriginClaimEffect
  <2> QED
    BY <1>s, <2>1, <2>2
<1>18. ASSUME NEW x \in Exchanges, OriginWait(x) PROVE PostOK(e)'
  <2>1. op' = op /\ UNCHANGED <<shown, posting, receipts, reopened>>
    BY <1>18 DEF OriginWait
  <2>2. mail'[e].status = mail[e].status /\ mail'[e].projected = mail[e].projected
    BY <1>18, OriginWaitEffect
  <2> QED
    BY <1>s, <2>1, <2>2
<1>19. ASSUME Restart PROVE PostOK(e)'
  <2>1. op' = Free /\ posting' = {} /\ reopened' = reopened
    BY <1>19, Zenon DEF Restart
  <2>2. mail'[e].projected \/ mail'[e].status \in Receipt => <<e, receipts'[e]>> \in shown' \/ mail[e].projected
    BY <1>19, RestartEffect
  <2>3. /\ \/ mail'[e].status = mail[e].status /\ receipts'[e] = receipts[e]
           \/ mail[e].status = "running" /\ mail'[e].status = "failed"
        /\ mail'[e].projected => mail'[e].status \in Receipt \/ mail[e].projected
        /\ shown \subseteq shown'
    BY <1>19, RestartEffect
  <2>4. mail[e].projected => p1
    <3>1. CASE mail'[e].status = mail[e].status /\ receipts'[e] = receipts[e]
      BY <1>h, <2>1, <2>3, <3>1 DEF p, p1
    <3>2. CASE mail[e].status = "running"
      BY <1>h, <2>1, <3>2 DEF p1
    <3> QED
      BY <2>3, <3>1, <3>2
  <2>5. mail'[e].projected \/ mail'[e].status \in Receipt => p1
    BY <2>2, <2>4 DEF p1
  <2>6. mail'[e].status \in {"queued", "running"} => mail'[e].status \notin Receipt /\ mail'[e].status = mail[e].status
    BY <2>3 DEF Receipt
  <2> QED
    BY <1>h, <1>g, <1>f, <2>1, <2>3, <2>5, <2>6
<1>20. ASSUME NEW r \in Runs, NEW steering, NEW outcome,
              StartTurn(r, steering) \/ ClaimSteers(r) \/ RunEnds(r, outcome) PROVE PostOK(e)'
  BY <1>s, <1>20 DEF StartTurn, ClaimSteers, RunEnds, durable, history
<1>21. ASSUME NEW x \in Exchanges, DeleteRow(x) PROVE PostOK(e)'
  BY <1>s, <1>21 DEF DeleteRow
<1>22. ASSUME OriginStart \/ OriginEnd PROVE PostOK(e)'
  BY <1>s, <1>22 DEF OriginStart, OriginEnd, durable, history
<1>23. ASSUME UNCHANGED vars PROVE PostOK(e)'
  BY <1>s, <1>23 DEF vars, durable, history
<1> QED
  BY <1>1, <1>2, <1>3, <1>4, <1>5, <1>7, <1>8, <1>9, <1>10, <1>11, <1>12, <1>13, <1>14, <1>15, <1>16,
     <1>17, <1>18, <1>19, <1>20, <1>21, <1>22, <1>23, <1>24, <1>25, <1>26
  DEF Next, Send, Start, RunStep, Origin

-----------------------------------------------------------------------------
(* Who got a receipt.                                                      *)

\* A step that leaves the receipt of an exchange alone, or writes another.
Kept(e) ==
  \/ receipts'[e] = receipts[e] + 1
  \/ /\ receipts'[e] = receipts[e]
     /\ mail'[e].status \in Receipt =>
          mail[e].status \in Receipt /\ mail'[e].consumed = mail[e].consumed /\ mail'[e].origin = mail[e].origin

\* Such a step keeps what holds of the one who has the receipt.
LEMMA KeptHeld ==
  ASSUME NEW e, receipts[e] \in Nat, NEW n \in Nat, NEW o, n <= receipts[e], Held(e, n, o), Kept(e)
  PROVE  n <= receipts'[e] /\ Held(e, n, o)'
<1>1. CASE receipts'[e] = receipts[e] + 1
  <2>1. n <= receipts'[e] /\ n # receipts'[e]
    BY <1>1
  <2> QED
    BY <2>1 DEF Held
<1>2. CASE receipts'[e] = receipts[e]
  <2>1. receipts'[e] # receipts[e] + 1
    BY <1>2
  <2> QED
    BY <1>2, <2>1 DEF Held, Kept
<1> QED
  BY <1>1, <1>2 DEF Kept

\* What has been seen and claimed, one entry at a time.
LEMMA SeenEntries ==
  ASSUME LinkedType
  PROVE  /\ \A x \in seen : x[1] \in Exchanges /\ x[2] \in Nat /\ x[3] \in OriginRuns
         /\ \A c \in origin.claimed : c[1] \in Exchanges /\ c[2] \in Nat
         /\ receipts \in [Exchanges -> Nat]
<1>1. /\ seen \subseteq Exchanges \X Nat \X OriginRuns /\ origin.claimed \subseteq Exchanges \X Nat
      /\ receipts \in [Exchanges -> Nat]
  BY Typed
<1> QED
  BY ONLY <1>1

\* Every step gives a receipt to one run of the origin.
LEMMA SeenStep == ASSUME MailConstants, LinkedType, ShapeInv, SeenInv, [Next]_vars PROVE SeenInv'
<1>h. /\ \A x \in seen : x[2] <= receipts[x[1]] /\ Held(x[1], x[2], x[3])
      /\ \A c \in origin.claimed :
           /\ c[2] <= receipts[c[1]] /\ Held(c[1], c[2], origin.run)
           /\ \A x \in seen : ~(x[1] = c[1] /\ x[2] = c[2])
      /\ \A x, y \in seen : x[1] = y[1] /\ x[2] = y[2] => x[3] = y[3]
      /\ origin.claimed # {} => origin.pc = "launching"
  BY DEF SeenInv
<1>e. /\ \A x \in seen : x[1] \in Exchanges /\ x[2] \in Nat /\ x[3] \in OriginRuns
      /\ \A c \in origin.claimed : c[1] \in Exchanges /\ c[2] \in Nat
      /\ \A e \in Exchanges : receipts[e] \in Nat /\ mail[e] \in MailRecord
      /\ mail \in [Exchanges -> MailRecord] /\ receipts \in [Exchanges -> Nat]
  BY SeenEntries, Typed
<1>i. Idle.claimed = {}
  BY DEF Idle
\* No receipt is consumed or claimed.
<1>s. ASSUME seen' = seen, origin' = origin \/ origin' = Idle, \A e \in Exchanges : Kept(e)
      PROVE  SeenInv'
  <2>1. \A x \in seen : x[2] <= receipts'[x[1]] /\ (Held(x[1], x[2], x[3]))'
    <3> SUFFICES ASSUME NEW x \in seen PROVE x[2] <= receipts'[x[1]] /\ (Held(x[1], x[2], x[3]))'
      OBVIOUS
    <3> QED
      BY <1>h, <1>e, <1>s, KeptHeld
  <2>2. ASSUME origin' = origin, NEW c \in origin.claimed
        PROVE  c[2] <= receipts'[c[1]] /\ Held(c[1], c[2], origin.run)'
    <3>1. \A o : Held(c[1], c[2], o) => (Held(c[1], c[2], o))' /\ c[2] <= receipts'[c[1]]
      BY <1>h, <1>e, <1>s, KeptHeld
    <3> QED
      BY <1>h, <2>2, <3>1
  <2>3. CASE origin' = origin
    BY <1>h, <1>s, <2>1, <2>2, <2>3 DEF SeenInv
  <2>4. CASE origin' = Idle
    BY <1>h, <1>i, <1>s, <2>1, <2>4 DEF SeenInv
  <2> QED
    BY <1>s, <2>3, <2>4
<1>k. ASSUME NEW e \in Exchanges, mail'[e] = mail[e], receipts'[e] = receipts[e] PROVE Kept(e)
  BY <1>k DEF Kept
<1>n. ASSUME NEW e \in Exchanges, mail'[e].status \notin Receipt, receipts'[e] = receipts[e] PROVE Kept(e)
  BY <1>n DEF Kept
\* The receipts of some mail are written.
<1>w. ASSUME NEW E, NEW s \in Receipt, NEW who, WriteReceipts(E, s, who), seen' = seen, origin' = origin
      PROVE  SeenInv'
  <2>1. ASSUME NEW e \in Exchanges PROVE Kept(e)
    BY <1>e, <1>w, <1>k, ReceiptsEffect DEF Kept
  <2> QED
    BY <1>s, <1>w, <2>1
<1>1. ASSUME NEW x \in Exchanges, SendPut(x) PROVE SeenInv'
  <2>1. seen' = seen /\ origin' = origin /\ receipts' = receipts
    BY <1>1 DEF SendPut, history
  <2>2. mail'[x].status \notin Receipt /\ \A e \in Exchanges \ {x} : mail'[e] = mail[e]
    BY <1>1, SendPutEffect DEF Receipt
  <2> QED
    BY <1>s, <1>k, <1>n, <2>1, <2>2
<1>2. ASSUME SendUndone PROVE SeenInv'
  <2>1. /\ seen' = seen /\ origin' = origin /\ receipts' = receipts
        /\ \A e \in Exchanges : mail'[e] = mail[e] \/ mail'[e] = NoExchange
    BY <1>2, <1>e DEF SendUndone, history
  <2>2. NoExchange.status \notin Receipt
    BY DEF NoExchange, Receipt
  <2> QED
    BY <1>s, <1>k, <1>n, <2>1, <2>2
<1>3. ASSUME SendSettle PROVE SeenInv'
  <2>1. seen' = seen /\ origin' = origin /\ receipts' = receipts
    BY <1>3 DEF SendSettle
  <2>3. op.copy.status \notin Receipt
    BY <1>3, Typed DEF SendSettle, ShapeInv, ShapeOK, InSend, Receipt
  <2>2. mail'[op.mail].status \notin Receipt /\ \A e \in Exchanges \ {op.mail} : mail'[e] = mail[e]
    BY <1>3, <2>3, SendSettleEffect
  <2> QED
    BY <1>s, <1>k, <1>n, <2>1, <2>2
<1>4. ASSUME LaunchMail PROVE SeenInv'
  <2>1. seen' = seen /\ origin' = origin /\ receipts' = receipts
    BY <1>4 DEF LaunchMail, history
  <2>2. /\ mail'[op.mail].status \notin Receipt \/ mail' = mail
        /\ \A e \in Exchanges \ {op.mail} : mail'[e] = mail[e]
    BY <1>4, LaunchMailEffect DEF Receipt
  <2> QED
    BY <1>s, <1>k, <1>n, <2>1, <2>2
<1>5. ASSUME StartRejected \/ StartUndone PROVE SeenInv'
  <2>1. seen' = seen /\ origin' = origin /\ op.pc \in {"start", "undo"} /\ StartFailed
    BY <1>5 DEF StartRejected, StartUndone
  <2>2. ASSUME NEW e \in Exchanges PROVE Kept(e)
    <3>1. CASE e # op.mail
      BY <1>k, <2>1, <3>1, StartFailedEffect
    <3>2. CASE e = op.mail /\ mail'[e] = mail[e] /\ receipts' = receipts
      BY <1>k, <3>2
    <3>3. CASE e = op.mail /\ mail'[e] = NoExchange /\ receipts' = receipts
      BY <1>n, <3>3 DEF NoExchange, Receipt
    <3>4. CASE e = op.mail /\ receipts'[e] = receipts[e] + 1
      BY <3>4 DEF Kept
    <3> QED
      BY <2>1, <3>1, <3>2, <3>3, <3>4, StartFailedEffect
  <2> QED
    BY <1>s, <2>1, <2>2
<1>6. ASSUME NEW x \in Exchanges, FinishFail(x) PROVE SeenInv'
  BY <1>w, <1>6 DEF FinishFail, Receipt
<1>7. ASSUME NEW r \in Runs, NEW outcome, RunReplies(r, outcome) PROVE SeenInv'
  BY <1>w, <1>7 DEF RunReplies, Receipt
<1>8. ASSUME FinishRetarget PROVE SeenInv'
  <2>1. seen' = seen /\ origin' = origin /\ receipts' = receipts
    BY <1>8, Zenon DEF FinishRetarget, history
  <2>2. \A e \in Exchanges : mail'[e] = mail[e] \/ mail'[e].status \notin Receipt
    BY <1>8, RetargetEffect DEF Receipt
  <2> QED
    BY <1>s, <1>k, <1>n, <2>1, <2>2
<1>9. ASSUME NEW x \in Exchanges, NEW who, MarkProjected(x, who) PROVE SeenInv'
  <2>1. seen' = seen /\ origin' = origin /\ receipts' = receipts
    BY <1>9 DEF MarkProjected, history
  <2>2. ASSUME NEW e \in Exchanges PROVE Kept(e)
    BY <1>9, <2>1, MarkProjectedEffect DEF Kept
  <2> QED
    BY <1>s, <2>1, <2>2
<1>10. ASSUME NEW o \in OriginRuns, OriginClaim(o) PROVE SeenInv'
  <2>1. seen' = seen /\ receipts' = receipts
    BY <1>10, Zenon DEF OriginClaim, history
  <2>2. /\ origin'.run = o /\ origin'.pc = "launching"
        /\ origin'.claimed = {<<e, receipts[e]>> : e \in Unclaimed}
    BY <1>10, OriginClaimEffect
  <2>3. \A e \in Exchanges : e \in Unclaimed <=> mail[e].status \in Receipt /\ ~mail[e].consumed
    BY DEF Unclaimed
  <2>4. \A e \in Exchanges :
          /\ mail'[e].status = mail[e].status
          /\ e \in Unclaimed => mail'[e].consumed /\ mail'[e].origin = o
          /\ e \notin Unclaimed => mail'[e] = mail[e]
    BY <1>10, OriginClaimEffect
  <2>5. ASSUME NEW x \in seen PROVE (Held(x[1], x[2], x[3]))' /\ ~(x[1] \in Unclaimed /\ x[2] = receipts[x[1]])
    <3>1. x[1] \in Exchanges /\ Held(x[1], x[2], x[3])
      BY <1>h, <1>e
    <3>2. ~(x[1] \in Unclaimed /\ x[2] = receipts[x[1]])
      BY <2>3, <3>1 DEF Held
    <3>3. CASE x[1] \in Unclaimed
      BY <2>1, <3>2, <3>3 DEF Held
    <3>4. CASE x[1] \notin Unclaimed
      BY <2>1, <2>4, <3>1, <3>4 DEF Held
    <3> QED
      BY <3>2, <3>3, <3>4
  <2>6. ASSUME NEW c \in origin'.claimed
        PROVE  /\ c[2] <= receipts'[c[1]] /\ Held(c[1], c[2], o)'
               /\ \A x \in seen' : ~(x[1] = c[1] /\ x[2] = c[2])
    <3>1. PICK e \in Unclaimed : c = <<e, receipts[e]>>
      BY <2>2
    <3>2. e \in Exchanges /\ c[1] = e /\ c[2] = receipts[e]
      BY <3>1 DEF Unclaimed
    <3>3. c[2] <= receipts'[c[1]]
      BY <1>e, <2>1, <3>2
    <3>4. Held(c[1], c[2], o)'
      BY <2>4, <3>1, <3>2 DEF Held
    <3> QED
      BY <2>1, <2>5, <3>1, <3>2, <3>3, <3>4
  <2>7. \A x \in seen : x[2] <= receipts'[x[1]] /\ (Held(x[1], x[2], x[3]))'
    BY <1>h, <2>1, <2>5
  <2> QED
    BY <1>h, <2>1, <2>2, <2>6, <2>7 DEF SeenInv
<1>11. ASSUME OriginStart PROVE SeenInv'
  <2>1. /\ mail' = mail /\ receipts' = receipts /\ origin'.claimed = {}
        /\ seen' = seen \cup {<<c[1], c[2], origin.run>> : c \in origin.claimed}
    BY <1>11, Typed DEF OriginStart, durable
  <2>2. ASSUME NEW x \in seen'
        PROVE  x \in seen \/ \E c \in origin.claimed : x[1] = c[1] /\ x[2] = c[2] /\ x[3] = origin.run
    BY <2>1
  <2>3. ASSUME NEW x \in seen' PROVE x[2] <= receipts'[x[1]] /\ (Held(x[1], x[2], x[3]))'
    <3>1. x[2] <= receipts[x[1]] /\ Held(x[1], x[2], x[3])
      BY <1>h, <2>2
    <3> QED
      BY <2>1, <3>1 DEF Held
  <2>4. ASSUME NEW x \in seen', NEW y \in seen', x[1] = y[1], x[2] = y[2] PROVE x[3] = y[3]
    BY <1>h, <2>2, <2>4
  <2> QED
    BY <2>1, <2>3, <2>4 DEF SeenInv
<1>12. ASSUME NEW e \in Exchanges, OriginWait(e) PROVE SeenInv'
  <2>1. /\ origin' = origin /\ origin.pc = "running" /\ receipts' = receipts
        /\ mail[e].origin = origin.run /\ mail[e].status \in Receipt
        /\ seen' = seen \cup {<<e, receipts[e], origin.run>>}
    BY <1>12 DEF OriginWait
  <2>2. /\ mail'[e].consumed = TRUE /\ mail'[e].origin = mail[e].origin
        /\ \A x \in Exchanges \ {e} : mail'[x] = mail[x]
    BY <1>12, OriginWaitEffect
  <2>3. origin.claimed = {}
    BY <1>h, <2>1
  <2>4. ASSUME NEW x \in seen'
        PROVE  x \in seen \/ (x[1] = e /\ x[2] = receipts[e] /\ x[3] = origin.run)
    BY <2>1
  <2>5. ASSUME NEW x \in seen, x[1] = e, x[2] = receipts[e] PROVE x[3] = origin.run
    BY <1>h, <2>1, <2>5 DEF Held
  <2>6. ASSUME NEW x \in seen' PROVE x[2] <= receipts'[x[1]] /\ (Held(x[1], x[2], x[3]))'
    <3>1. CASE x[1] = e /\ x[2] = receipts[e] /\ x[3] = origin.run
      BY <1>e, <2>1, <2>2, <3>1 DEF Held
    <3>2. CASE x \in seen
      <4>1. x[1] \in Exchanges /\ x[2] <= receipts[x[1]] /\ Held(x[1], x[2], x[3])
        BY <1>h, <1>e, <3>2
      <4>2. CASE x[1] = e
        BY <2>1, <2>2, <2>5, <3>2, <4>1, <4>2 DEF Held
      <4>3. CASE x[1] # e
        BY <2>1, <2>2, <4>1, <4>3 DEF Held
      <4> QED
        BY <4>2, <4>3
    <3> QED
      BY <2>4, <3>1, <3>2
  <2>7. ASSUME NEW x \in seen', NEW y \in seen', x[1] = y[1], x[2] = y[2] PROVE x[3] = y[3]
    BY <1>h, <2>4, <2>5, <2>7
  <2> QED
    BY <2>1, <2>3, <2>6, <2>7 DEF SeenInv
<1>13. ASSUME Restart PROVE SeenInv'
  <2>1. seen' = seen /\ origin' = Idle
    BY <1>13, Zenon DEF Restart
  <2>2. ASSUME NEW e \in Exchanges PROVE Kept(e)
    BY <1>13, RestartEffect DEF Kept
  <2> QED
    BY <1>s, <2>1, <2>2
<1>14. ASSUME UNCHANGED <<mail, receipts, seen>>, origin' = origin \/ origin' = Idle PROVE SeenInv'
  BY <1>s, <1>k, <1>14
<1>15. ASSUME NEW r \in Runs, NEW steering, NEW outcome,
              StartTurn(r, steering) \/ LaunchRecord(r, steering) \/ ClaimSteers(r) \/ RunEnds(r, outcome)
       PROVE  SeenInv'
  BY <1>14, <1>15 DEF StartTurn, LaunchRecord, ClaimSteers, RunEnds, durable, history
<1>16. ASSUME NEW x \in Exchanges, NEW who, ResumeQueuedMail(x) \/ DeleteRow(x) \/ PostReply(x, who) PROVE SeenInv'
  BY <1>14, <1>16 DEF ResumeQueuedMail, DeleteRow, PostReply, durable, history
<1>17. ASSUME SendDeliver \/ LaunchSpawn \/ LaunchFailed \/ FinishFailed \/ FinishRelease \/ OriginEnd
              \/ UNCHANGED vars
       PROVE  SeenInv'
  BY <1>14, <1>17 DEF SendDeliver, LaunchSpawn, LaunchFailed, FinishFailed, FinishRelease, OriginEnd, vars,
     durable, history
<1>18. ASSUME NEW r \in Runs, FinishRecord(r) PROVE SeenInv'
  BY <1>14, <1>18 DEF FinishRecord, history
<1> QED
  BY <1>1, <1>2, <1>3, <1>4, <1>5, <1>6, <1>7, <1>8, <1>9, <1>10, <1>11, <1>12, <1>13, <1>15, <1>16,
     <1>17, <1>18
  DEF Next, Send, Start, RunStep, Origin

-----------------------------------------------------------------------------
(* Tasks.                                                                  *)

\* A task once started has been started.
LEMMA TaskStays ==
  ASSUME LinkedType, [Next]_vars, NEW r \in Runs, task[r] # "none"
  PROVE  task'[r] # "none"
<1>r. task \in [Runs -> {"none", "running", "completed", "failed", "cancelled", "done"}]
  BY Typed
<1>1. ASSUME NEW x, NEW v \in {"running", "completed", "failed", "cancelled", "done"},
             task' = [task EXCEPT ![x] = v]
      PROVE  task'[r] # "none"
  BY <1>r, <1>1
<1>2. ASSUME NEW x \in Runs, NEW steering, StartTurn(x, steering) PROVE task'[r] # "none"
  BY <1>1, <1>2 DEF StartTurn
<1>3. ASSUME NEW x \in Runs, NEW outcome \in {"completed", "failed", "cancelled"},
             RunReplies(x, outcome) \/ RunEnds(x, outcome) PROVE task'[r] # "none"
  BY <1>1, <1>3 DEF RunReplies, RunEnds
<1>4. ASSUME LaunchSpawn \/ FinishRelease PROVE task'[r] # "none"
  BY <1>1, <1>4 DEF LaunchSpawn, FinishRelease
<1>5. ASSUME Restart PROVE task'[r] # "none"
  BY <1>5, Zenon DEF Restart
<1>6. ASSUME task' = task PROVE task'[r] # "none"
  BY <1>6
<1>7. ASSUME NEW x \in Exchanges, NEW who,
             SendPut(x) \/ ResumeQueuedMail(x) \/ DeleteRow(x) \/ FinishFail(x) \/ PostReply(x, who) \/ MarkProjected(x, who)
      PROVE  task'[r] # "none"
  BY <1>6, <1>7 DEF SendPut, ResumeQueuedMail, DeleteRow, FinishFail, PostReply, MarkProjected
<1>8. ASSUME NEW x \in Runs, NEW steering, LaunchRecord(x, steering) \/ ClaimSteers(x) \/ FinishRecord(x)
      PROVE  task'[r] # "none"
  BY <1>6, <1>8 DEF LaunchRecord, ClaimSteers, FinishRecord
<1>9. ASSUME \/ SendDeliver \/ SendUndone \/ SendSettle \/ LaunchMail \/ StartRejected \/ LaunchFailed
             \/ StartUndone \/ FinishFailed \/ FinishRetarget \/ UNCHANGED vars
      PROVE  task'[r] # "none"
  BY <1>6, <1>9, Zenon DEF SendDeliver, SendUndone, SendSettle, LaunchMail, StartRejected, LaunchFailed,
     StartUndone, FinishFailed, FinishRetarget, vars
<1>10. ASSUME Origin PROVE task'[r] # "none"
  BY <1>6, <1>10, Zenon DEF Origin, OriginClaim, OriginStart, OriginEnd, OriginWait
<1> QED
  BY <1>2, <1>3, <1>4, <1>5, <1>7, <1>8, <1>9, <1>10 DEF Next, Send, Start, RunStep

\* Every step keeps what the lock holder knows of the runs.
LEMMA TaskStep == ASSUME MailConstants, LinkedType, RunInv, [Next]_vars PROVE RunInv'
<1> SUFFICES ASSUME NEW r \in Runs PROVE RunOK(r)'
  BY DEF RunInv
<1> DEFINE Launching == {"launch", "spawn"}
<1>h. /\ task[r] \in Live => runs[r] = "running" \/ (op.pc \in Finishing /\ op.run = r)
      /\ op.run = r /\ op.pc \in Launching => task[r] = "none" /\ runs[r] = "accepted"
      /\ op.run = r /\ op.pc = "undo" => task[r] = "none"
      /\ op.run = r /\ op.pc \in Finishing => task[r] \in Live \ {"running"}
      /\ slot.run = r /\ task[r] = "none" => op.pc \in Launching /\ op.run = r
  BY DEF RunInv, RunOK
<1>g. (/\ task'[r] \in Live => runs'[r] = "running" \/ (op'.pc \in Finishing /\ op'.run = r)
       /\ op'.run = r /\ op'.pc \in Launching => task'[r] = "none" /\ runs'[r] = "accepted"
       /\ op'.run = r /\ op'.pc = "undo" => task'[r] = "none"
       /\ op'.run = r /\ op'.pc \in Finishing => task'[r] \in Live \ {"running"}
       /\ slot'.run = r /\ task'[r] = "none" => op'.pc \in Launching /\ op'.run = r) => RunOK(r)'
  BY DEF RunOK
<1> DEFINE Busy == {"launch", "spawn", "undo"} \cup Finishing
<1>b. \A c : c \notin Busy <=> c \notin Launching /\ c # "undo" /\ c \notin Finishing
  OBVIOUS
<1>f. op' = Free => op'.pc \notin Busy
  BY OpFields DEF Finishing
<1>r. /\ runs \in [Runs -> {"none", "accepted", "running", "completed", "failed", "cancelled", "interrupted"}]
      /\ task \in [Runs -> {"none", "running", "completed", "failed", "cancelled", "done"}]
      /\ NoRun # r
  BY Typed DEF MailConstants
<1>e. EmptySlot.run # r
  BY <1>r DEF EmptySlot
<1> HIDE DEF Busy
\* The run is left alone, and the lock holder is no step further with it.
<1>s. ASSUME task'[r] = task[r], runs'[r] = runs[r], slot' = slot \/ slot'.run # r \/ task'[r] # "none",
             \/ op' = op
             \/ (op.pc \notin Finishing \cup Launching \/ op.run # r) /\ (op'.run # r \/ op'.pc \notin Busy)
      PROVE  RunOK(r)'
  BY <1>h, <1>g, <1>b, <1>s
<1>1. ASSUME NEW x \in Exchanges, SendPut(x) PROVE RunOK(r)'
  <2>1. task' = task /\ runs' = runs /\ slot' = slot /\ op.pc = "free" /\ op'.pc \in {"start", "deliver"}
    BY <1>1, SendPutEffect, Zenon DEF SendPut, history
  <2> QED
    BY <1>s, <2>1 DEF Finishing, Busy
<1>2. ASSUME SendDeliver \/ SendUndone \/ SendSettle PROVE RunOK(r)'
  <2>1. task' = task /\ runs' = runs /\ slot' = slot /\ op.pc \in {"deliver", "settle"} /\ op' = Free
    BY <1>2 DEF SendDeliver, SendUndone, SendSettle
  <2> QED
    BY <1>s, <1>f, <2>1 DEF Finishing
<1>3. ASSUME NEW x \in Runs, NEW steering, StartTurn(x, steering) PROVE RunOK(r)'
  <2>1. /\ op' = op /\ op.pc = "free" /\ slot'.run = x
        /\ runs' = [runs EXCEPT ![x] = "running"] /\ task' = [task EXCEPT ![x] = "running"]
    BY <1>3 DEF StartTurn
  <2>2. CASE r = x
    BY <1>r, <1>g, <2>1, <2>2 DEF Finishing
  <2>3. CASE r # x
    BY <1>s, <1>r, <2>1, <2>3
  <2> QED
    BY <2>2, <2>3
<1>4. ASSUME NEW x \in Runs, NEW steering \in BOOLEAN, LaunchRecord(x, steering) PROVE RunOK(r)'
  <2>1. /\ task' = task /\ task[x] = "none" /\ runs' = [runs EXCEPT ![x] = "accepted"]
        /\ slot' = [run |-> x, steering |-> steering]
    BY <1>4, Zenon DEF LaunchRecord, FreshRun
  <2>4. op.pc = "start" /\ op'.pc = "launch" /\ op'.run = x /\ slot'.run = x
    BY <1>4, <2>1, LaunchRecordEffect
  <2>2. CASE r = x
    BY <1>r, <1>g, <2>1, <2>2, <2>4 DEF Finishing, Live
  <2>3. CASE r # x
    BY <1>s, <1>r, <2>1, <2>3, <2>4 DEF Finishing
  <2> QED
    BY <2>2, <2>3
<1>5. ASSUME NEW x \in Exchanges, ClaimQueuedMail(x) PROVE op'.pc = "start"
  BY <1>5, ClaimEffectQ
<1>6. ASSUME NEW x \in Exchanges, ResumeQueuedMail(x) PROVE RunOK(r)'
  <2>1. task' = task /\ runs' = runs /\ slot' = slot /\ op.pc = "free" /\ op'.pc = "start"
    BY <1>5, <1>6 DEF ResumeQueuedMail
  <2> QED
    BY <1>s, <2>1 DEF Finishing, Busy
<1>7. ASSUME LaunchMail PROVE RunOK(r)'
  <2>1. /\ task' = task /\ runs' = runs /\ slot' = slot
        /\ op.pc = "launch" /\ op'.pc = "spawn" /\ op'.run = op.run
    BY <1>7, LaunchMailEffect DEF LaunchMail
  <2> QED
    BY <1>h, <1>g, <2>1 DEF Finishing
<1>8. ASSUME LaunchSpawn PROVE RunOK(r)'
  <2>1. /\ runs' = [runs EXCEPT ![op.run] = "running"] /\ task' = [task EXCEPT ![op.run] = "running"]
        /\ slot' = slot /\ op.pc = "spawn" /\ (op' = Free \/ op'.pc = "settle")
    BY <1>8, LaunchSpawnEffect DEF LaunchSpawn
  <2>2. op'.pc \notin Busy
    BY <1>f, <2>1 DEF Finishing, Busy
  <2>3. CASE r = op.run
    BY <1>r, <1>g, <1>b, <2>1, <2>2, <2>3
  <2>4. CASE r # op.run
    BY <1>s, <1>r, <2>1, <2>2, <2>4
  <2> QED
    BY <2>3, <2>4
<1>9. ASSUME StartRejected \/ StartUndone PROVE RunOK(r)'
  <2>1. task' = task /\ runs' = runs /\ slot' = slot /\ op.pc \in {"start", "undo"} /\ op' = Free
    BY <1>9 DEF StartRejected, StartUndone, StartFailed
  <2> QED
    BY <1>s, <1>f, <2>1 DEF Finishing
<1>10. ASSUME LaunchFailed PROVE RunOK(r)'
  <2>1. task' = task /\ runs' = [runs EXCEPT ![op.run] = "failed"] /\ slot' = EmptySlot
    BY <1>10 DEF LaunchFailed
  <2>2. op.pc \in Launching /\ op'.pc = "undo" /\ op'.run = op.run
    BY <1>10, LaunchFailedEffect
  <2>3. CASE r = op.run
    BY <1>h, <1>g, <1>e, <2>1, <2>2, <2>3 DEF Live, Finishing
  <2>4. CASE r # op.run
    BY <1>s, <1>r, <1>e, <2>1, <2>2, <2>4
  <2> QED
    BY <2>3, <2>4
<1>11. ASSUME NEW x \in Runs, FinishRecord(x) PROVE RunOK(r)'
  <2>1. /\ task' = task /\ slot' = slot /\ runs' = [runs EXCEPT ![x] = task[x]] /\ op.pc = "free"
        /\ task[x] \in {"completed", "failed", "cancelled"} /\ op'.pc \in {"retarget", "fail"} /\ op'.run = x
    BY <1>11, FinishRecordEffect
  <2>3. CASE r = x
    BY <1>h, <1>g, <2>1, <2>3 DEF Finishing, Live
  <2>4. CASE r # x
    BY <1>s, <1>r, <2>1, <2>4 DEF Finishing
  <2> QED
    BY <2>3, <2>4
<1>19. ASSUME FinishFailed PROVE RunOK(r)'
  <2>1. /\ task' = task /\ runs' = runs /\ slot' = slot
        /\ op.pc = "fail" /\ op'.pc = "retarget" /\ op'.run = op.run
    BY <1>19, FinishFailedEffect
  <2> QED
    BY <1>h, <1>g, <2>1 DEF Finishing
<1>12. ASSUME NEW x \in Runs, NEW outcome \in {"completed", "failed", "cancelled"},
              RunReplies(x, outcome) \/ RunEnds(x, outcome) PROVE RunOK(r)'
  <2>1. /\ task[x] = "running" /\ task' = [task EXCEPT ![x] = outcome]
        /\ runs' = runs /\ op' = op /\ slot' = slot
    BY <1>12 DEF RunReplies, RunEnds, durable
  <2>2. CASE r = x
    BY <1>h, <1>g, <1>r, <2>1, <2>2 DEF Live
  <2>3. CASE r # x
    BY <1>s, <1>r, <2>1, <2>3
  <2> QED
    BY <2>2, <2>3
<1>13. ASSUME FinishRetarget PROVE RunOK(r)'
  <2>1. task' = task /\ runs' = runs /\ slot' = slot
    BY <1>13, Zenon DEF FinishRetarget
  <2>2. op.pc = "retarget" /\ op'.pc = "release" /\ op'.run = op.run
    BY <1>13, RetargetEffect
  <2> QED
    BY <1>h, <1>g, <2>1, <2>2 DEF Finishing
<1>14. ASSUME FinishRelease PROVE RunOK(r)'
  <2>1. /\ op.pc = "release" /\ task' = [task EXCEPT ![op.run] = "done"] /\ runs' = runs
        /\ op'.pc = "start" \/ op' = Free
        /\ slot' = EmptySlot
    BY <1>5, <1>14 DEF FinishRelease, QueuedMail
  <2>2. op'.pc \notin Busy
    BY <1>f, <2>1 DEF Finishing, Busy
  <2>3. CASE r = op.run
    BY <1>g, <1>b, <1>r, <1>e, <2>1, <2>2, <2>3 DEF Live
  <2>4. CASE r # op.run
    BY <1>s, <1>r, <1>e, <2>1, <2>2, <2>4
  <2> QED
    BY <2>3, <2>4
<1>15. ASSUME Restart PROVE RunOK(r)'
  <2>1. op' = Free /\ task'[r] \in {"none", "done"} /\ slot' = EmptySlot
    BY <1>15, Zenon DEF Restart
  <2> QED
    BY <1>g, <1>f, <1>b, <1>e, <2>1 DEF Live
<1>16. ASSUME UNCHANGED <<task, runs, op, slot>> PROVE RunOK(r)'
  BY <1>s, <1>16
<1>17. ASSUME NEW x \in Exchanges, NEW who,
              DeleteRow(x) \/ FinishFail(x) \/ PostReply(x, who) \/ MarkProjected(x, who) PROVE RunOK(r)'
  BY <1>16, <1>17 DEF DeleteRow, FinishFail, PostReply, MarkProjected, durable
<1>18. ASSUME Origin \/ UNCHANGED vars \/ \E x \in Runs : ClaimSteers(x) PROVE RunOK(r)'
  BY <1>16, <1>18, Zenon DEF Origin, OriginClaim, OriginStart, OriginEnd, OriginWait, ClaimSteers, vars,
     durable
<1> QED
  BY <1>1, <1>2, <1>3, <1>4, <1>6, <1>7, <1>8, <1>9, <1>10, <1>11, <1>12, <1>13, <1>14, <1>15, <1>17,
     <1>18, <1>19
  DEF Next, Send, Start, RunStep

-----------------------------------------------------------------------------
(* The exchange and its holder.                                            *)

\* Every step keeps the exchange as its holder and its row say.
LEMMA ShapeStep ==
  ASSUME MailConstants, LinkedType, HandInv, RunInv, ShapeInv, [Next]_vars PROVE ShapeInv'
<1> SUFFICES ASSUME NEW e \in Exchanges PROVE ShapeOK(e)'
  BY DEF ShapeInv
<1>h. /\ mail[e].status \in {"none", "queued"} => mail[e].target = NoRun
      /\ row[e].state = "pending" => row[e].kind \in {"steer", "followup"}
      /\ row[e].state = "pending" /\ row[e].kind = "steer" =>
           row[e].target \in Runs /\ mail[e].target = row[e].target /\ task[row[e].target] # "none"
      /\ op.mail = e /\ op.pc = "deliver" /\ op.copy.status = "running" =>
           op.copy.target \in Runs /\ mail[e].target = op.copy.target /\ task[op.copy.target] # "none"
      /\ op.mail = e /\ op.pc = "deliver" =>
           mail[e].status # "none" /\ (op.copy.status = "queued" => mail[e].target = NoRun)
      /\ op.mail = e /\ op.pc \in {"start", "launch"} /\ ~op.queued =>
           mail[e].status = "running" /\ mail[e].target = NoRun
      /\ op.mail = e /\ op.pc = "launch" => op.copy.status # "none" \/ mail[e].status = "none"
      /\ op.mail = e /\ op.pc \in {"launch", "spawn"} /\ ~op.queued => op.copy.status = "running"
      /\ op.mail = e /\ op.pc = "spawn" =>
           \/ op.queued /\ mail[e].status = "none"
           \/ mail[e].status = "running" /\ mail[e].target = op.run
      /\ op.mail = e /\ op.pc = "settle" =>
           /\ op.copy.status = "running" /\ op.copy.target = op.run
           /\ mail[e].status # "none" /\ mail[e].target = op.run
  BY DEF ShapeInv, ShapeOK
<1>m. \A r \in Runs : task[r] # "none" => task'[r] # "none"
  BY TaskStays
<1> DEFINE Table ==
      /\ mail'[e].status \in {"none", "queued"} => mail'[e].target = NoRun
      /\ row'[e].state = "pending" => row'[e].kind \in {"steer", "followup"}
      /\ row'[e].state = "pending" /\ row'[e].kind = "steer" =>
           row'[e].target \in Runs /\ mail'[e].target = row'[e].target /\ task'[row'[e].target] # "none"
    Holder ==
      /\ op'.mail = e /\ op'.pc = "deliver" /\ op'.copy.status = "running" =>
           op'.copy.target \in Runs /\ mail'[e].target = op'.copy.target /\ task'[op'.copy.target] # "none"
      /\ op'.mail = e /\ op'.pc = "deliver" =>
           mail'[e].status # "none" /\ (op'.copy.status = "queued" => mail'[e].target = NoRun)
      /\ op'.mail = e /\ op'.pc \in {"start", "launch"} /\ ~op'.queued =>
           mail'[e].status = "running" /\ mail'[e].target = NoRun
      /\ op'.mail = e /\ op'.pc = "launch" => op'.copy.status # "none" \/ mail'[e].status = "none"
      /\ op'.mail = e /\ op'.pc \in {"launch", "spawn"} /\ ~op'.queued => op'.copy.status = "running"
      /\ op'.mail = e /\ op'.pc = "spawn" =>
           \/ op'.queued /\ mail'[e].status = "none"
           \/ mail'[e].status = "running" /\ mail'[e].target = op'.run
      /\ op'.mail = e /\ op'.pc = "settle" =>
           /\ op'.copy.status = "running" /\ op'.copy.target = op'.run
           /\ mail'[e].status # "none" /\ mail'[e].target = op'.run
<1>g. Table /\ Holder => ShapeOK(e)'
  BY DEF ShapeOK
<1>f. op'.mail # e \/ op'.pc \in {"free", "undo", "fail", "retarget", "release"} => Holder
  OBVIOUS
<1>p. op' = Free => op'.pc = "free" /\ op'.mail # e
  BY OpFields DEF MailConstants
<1>t. row'[e] = row[e] /\ mail'[e].status = mail[e].status /\ mail'[e].target = mail[e].target => Table
  BY <1>h, <1>m
<1>x. /\ mail \in [Exchanges -> MailRecord] /\ row \in [Exchanges -> RowRecord] /\ receipts \in [Exchanges -> Nat]
      /\ NoRun \notin Runs /\ slot.run \in Runs \cup {NoRun}
  BY Typed DEF MailConstants
<1>d. op.mail = e /\ op.pc \in InSend => row[e].state # "pending"
  BY DEF HandInv, HandOK
<1> HIDE DEF Table, Holder
\* The row, status and target stay, and the holder is the same or another.
<1>s. ASSUME row'[e] = row[e], mail'[e].status = mail[e].status, mail'[e].target = mail[e].target,
             op' = op \/ op' = Free \/ op'.mail # e
      PROVE  ShapeOK(e)'
  <2>1. CASE op' = op
    BY <1>h, <1>m, <1>g, <1>t, <1>s, <2>1 DEF Holder
  <2>2. CASE op' = Free \/ op'.mail # e
    BY <1>g, <1>t, <1>f, <1>p, <1>s, <2>2
  <2> QED
    BY <1>s, <2>1, <2>2
<1>1. ASSUME NEW x \in Exchanges, SendPut(x) PROVE ShapeOK(e)'
  <2>1. row' = row /\ row[x] = NoRow /\ op'.mail = x
    BY <1>1, SendPutEffect, Zenon DEF SendPut
  <2>2. CASE e = x
    <3>1. row'[e].state = "none"
      BY Zenon, <2>1, <2>2, RowFields
    <3>2. Table
      BY <1>1, <2>2, <3>1, SendPutEffect DEF Table
    <3>4. op.pc = "free" /\ task' = task
      BY <1>1 DEF SendPut
    <3>5. slot.run \in Runs => task'[slot.run] # "none"
      BY <3>4 DEF RunInv, RunOK
    <3>3. Holder
      BY <1>1, <2>2, <3>5, SendPutEffect DEF Holder
    <3> QED
      BY <1>g, <3>2, <3>3
  <2>3. CASE e # x
    BY <1>1, <1>s, <2>1, <2>3, SendPutEffect
  <2> QED
    BY <2>2, <2>3
<1>2. ASSUME SendDeliver PROVE ShapeOK(e)'
  <2> DEFINE w == [state |-> "pending", target |-> op.copy.target,
                   kind |-> IF op.copy.status = "queued" THEN "followup" ELSE "steer"]
  <2>1. /\ op.pc = "deliver" /\ op.mail \in Exchanges /\ op.copy.status \in {"queued", "running"}
        /\ op' = Free /\ mail' = mail /\ row' = [row EXCEPT ![op.mail] = w]
    BY <1>2, Typed DEF SendDeliver, InSend
  <2>2. CASE e = op.mail
    <3>1. row'[e] = w
      BY <1>x, <2>1, <2>2
    <3>2. /\ w.target = op.copy.target /\ (w.kind = "steer" => op.copy.status = "running")
          /\ w.kind \in {"steer", "followup"}
      BY <2>1
    <3> HIDE DEF w
    <3>3. Table
      BY <1>h, <1>m, <2>1, <2>2, <3>1, <3>2 DEF Table
    <3> QED
      BY <1>g, <1>f, <1>p, <2>1, <3>3
  <2>3. CASE e # op.mail
    BY <1>x, <1>s, <2>1, <2>3
  <2> QED
    BY <2>2, <2>3
<1>3. ASSUME SendUndone PROVE ShapeOK(e)'
  <2>1. /\ op.pc = "deliver" /\ op.mail \in Exchanges /\ op' = Free /\ row' = row
        /\ mail' = [mail EXCEPT ![op.mail] = NoExchange]
    BY <1>3, Typed DEF SendUndone, InSend
  <2>2. CASE e = op.mail
    <3>1. mail'[e] = NoExchange /\ row[e].state # "pending"
      BY <1>d, <1>x, <2>1, <2>2 DEF InSend
    <3>2. Table
      BY <2>1, <3>1, ExchangeFields DEF Table
    <3> QED
      BY <1>g, <1>f, <1>p, <2>1, <3>2
  <2>3. CASE e # op.mail
    BY <1>x, <1>s, <2>1, <2>3
  <2> QED
    BY <2>2, <2>3
<1>4. ASSUME SendSettle PROVE ShapeOK(e)'
  <2>1. op.pc = "settle" /\ op.mail \in Exchanges /\ op' = Free /\ row' = row
    BY <1>4, Typed DEF SendSettle, InSend
  <2>2. CASE e = op.mail
    <3>1. mail'[e].status = "running" /\ row[e].state # "pending"
      BY <1>4, <1>h, <1>d, <2>1, <2>2, SendSettleEffect DEF InSend
    <3>2. Table
      BY <2>1, <3>1 DEF Table
    <3> QED
      BY <1>g, <1>f, <1>p, <2>1, <3>2
  <2>3. CASE e # op.mail
    BY <1>4, <1>s, <2>1, <2>3, SendSettleEffect
  <2> QED
    BY <2>2, <2>3
<1>5. ASSUME NEW r \in Runs, NEW steering \in BOOLEAN, LaunchRecord(r, steering) PROVE ShapeOK(e)'
  <2>1. row' = row /\ mail' = mail
    BY <1>5 DEF LaunchRecord
  <2>2. op.pc = "start" /\ op'.pc = "launch" /\ op'.mail = op.mail /\ op'.queued = op.queued /\ op'.copy = mail[op.mail]
    BY <1>5, LaunchRecordEffect
  <2>3. Holder
    BY <1>h, <2>1, <2>2 DEF Holder
  <2> QED
    BY <1>g, <1>t, <2>1, <2>3
<1>6. ASSUME NEW x \in Exchanges, ClaimQueuedMail(x), mail' = mail PROVE ShapeOK(e)'
  <2>1. /\ op'.pc = "start" /\ op'.mail = x /\ op'.queued = TRUE
        /\ row'[x].state = "claimed" /\ \A y \in Exchanges \ {x} : row'[y] = row[y]
    BY <1>6, ClaimEffectQ
  <2>2. CASE e = x
    <3>1. Table
      BY <1>6, <1>h, <2>1, <2>2 DEF Table
    <3>2. Holder
      BY <2>1 DEF Holder
    <3> QED
      BY <1>g, <3>1, <3>2
  <2>3. CASE e # x
    BY <1>6, <1>s, <2>1, <2>3
  <2> QED
    BY <2>2, <2>3
<1>7. ASSUME NEW x \in Exchanges, DeleteRow(x) PROVE ShapeOK(e)'
  <2> DEFINE w == [row[x] EXCEPT !.state = "cancelled"]
  <2>1. op' = op /\ mail' = mail /\ row' = [row EXCEPT ![x] = w]
    BY <1>7 DEF DeleteRow
  <2>2. w.state = "cancelled"
    <3>1. row[x] \in RowRecord
      BY <1>x
    <3> QED
      BY ONLY Zenon, <3>1, RowFields
  <2> HIDE DEF w
  <2>3. CASE e = x
    <3>1. Table
      BY <1>h, <1>x, <2>1, <2>2, <2>3 DEF Table
    <3>2. Holder
      BY <1>h, <1>m, <2>1 DEF Holder
    <3> QED
      BY <1>g, <3>1, <3>2
  <2>4. CASE e # x
    BY <1>x, <1>s, <2>1, <2>4
  <2> QED
    BY <2>3, <2>4
<1>8. ASSUME LaunchMail PROVE ShapeOK(e)'
  <2>1. /\ op.pc = "launch" /\ op.mail \in Exchanges /\ op.run \in Runs /\ row' = row
        /\ op'.pc = "spawn" /\ op'.mail = op.mail /\ op'.run = op.run /\ op'.queued = op.queued /\ op'.copy = op.copy
    BY <1>8, LaunchMailEffect DEF LaunchMail
  <2>2. CASE e = op.mail /\ op.copy.status = "none"
    <3>1. mail' = mail
      BY <1>8, <2>2, LaunchMailEffect
    <3>2. Holder
      BY <1>h, <2>1, <2>2, <3>1 DEF Holder
    <3> QED
      BY <1>g, <1>t, <2>1, <3>1, <3>2
  <2>3. CASE e = op.mail /\ op.copy.status # "none"
    <3>1. mail'[e].status = "running" /\ mail'[e].target = op.run
      BY <1>8, <2>3, LaunchMailEffect
    <3>2. row[e].state # "pending"
      BY <1>d, <2>1, <2>3 DEF InSend
    <3>3. Table
      BY <2>1, <3>1, <3>2 DEF Table
    <3>4. Holder
      BY <1>h, <2>1, <2>3, <3>1 DEF Holder
    <3> QED
      BY <1>g, <3>3, <3>4
  <2>4. CASE e # op.mail
    BY <1>8, <1>s, <2>1, <2>4, LaunchMailEffect
  <2> QED
    BY <2>2, <2>3, <2>4
<1>9. ASSUME LaunchSpawn PROVE ShapeOK(e)'
  <2>1. row' = row /\ mail' = mail
    BY <1>9 DEF LaunchSpawn
  <2>2. CASE op.queued
    BY <1>9, <1>s, <2>1, <2>2, LaunchSpawnEffect
  <2>3. CASE ~op.queued
    <3>1. /\ op.pc = "spawn" /\ op'.pc = "settle" /\ op'.mail = op.mail /\ op'.run = op.run
          /\ op'.copy.status = op.copy.status /\ op'.copy.target = op.run
      BY <1>9, <2>3, LaunchSpawnEffect
    <3>2. Holder
      BY <1>h, <2>1, <2>3, <3>1 DEF Holder
    <3> QED
      BY <1>g, <1>t, <2>1, <3>2
  <2> QED
    BY <2>2, <2>3
<1>10. ASSUME StartRejected \/ StartUndone PROVE ShapeOK(e)'
  <2>1. row' = row /\ op.pc \in {"start", "undo"} /\ StartFailed
    BY <1>10 DEF StartRejected, StartUndone
  <2>2. op' = Free /\ op.mail \in Exchanges
    BY <2>1, StartFailedEffect
  <2>3. CASE e = op.mail
    <3>1. row[e].state # "pending"
      BY <1>d, <2>1, <2>3 DEF InSend
    <3>2. mail'[e].status \in {"none", "queued"} => mail'[e].target = NoRun
      <4>1. CASE mail'[e] = NoExchange
        BY <4>1, ExchangeFields
      <4>2. CASE mail'[e] = mail[e]
        BY <1>h, <4>2
      <4>3. CASE mail'[e].status \in Receipt
        BY <4>3 DEF Receipt
      <4> QED
        BY <2>1, <2>3, <4>1, <4>2, <4>3, StartFailedEffect
    <3>3. Table
      BY <2>1, <3>1, <3>2 DEF Table
    <3> QED
      BY <1>g, <1>f, <1>p, <2>2, <3>3
  <2>4. CASE e # op.mail
    BY <1>s, <2>1, <2>2, <2>4, StartFailedEffect
  <2> QED
    BY <2>3, <2>4
<1>25. ASSUME LaunchFailed PROVE ShapeOK(e)'
  <2>1. row' = row /\ mail' = mail
    BY <1>25 DEF LaunchFailed
  <2>2. op'.pc = "undo"
    BY <1>25, LaunchFailedEffect
  <2> QED
    BY <1>g, <1>t, <1>f, <2>1, <2>2
<1>11. ASSUME NEW r \in Runs, ClaimSteers(r) PROVE ShapeOK(e)'
  <2> DEFINE w == [row[e] EXCEPT !.state = "claimed"]
  <2>1. op' = op /\ mail' = mail /\ row'[e] \in {row[e], w}
    BY <1>11 DEF ClaimSteers
  <2>5. mail'[e] = mail[e]
    BY <2>1
  <2>2. w.state = "claimed"
    <3>1. row[e] \in RowRecord
      BY <1>x
    <3> QED
      BY ONLY Zenon, <3>1, RowFields
  <2> HIDE DEF w
  <2>3. Table
    BY <1>h, <1>m, <2>1, <2>2, <2>5 DEF Table
  <2>4. Holder
    BY <1>h, <1>m, <2>1 DEF Holder
  <2> QED
    BY <1>g, <2>3, <2>4
<1>12. ASSUME NEW r \in Runs, NEW E, E \subseteq Settled(r), NEW s \in Receipt, NEW who,
              WriteReceipts(E, s, who), row' = row
       PROVE  Table /\ mail'[e].target = mail[e].target
              /\ (mail'[e].status # mail[e].status =>
                    mail'[e].status # "none" /\ mail[e].target = r /\ mail[e].status # "none")
  <2>1. e \in E => mail[e].status \in {"queued", "running"} /\ mail[e].target = r
    BY <1>12 DEF Settled
  <2>2. /\ e \in E => mail'[e].status \in Receipt /\ mail'[e].target = mail[e].target
        /\ e \notin E => mail'[e] = mail[e]
    BY <1>12, <1>x, ReceiptsEffect
  <2>3. mail'[e].status \in {"none", "queued"} => mail'[e].status = mail[e].status
    BY <2>2 DEF Receipt
  <2>4. Table
    BY <1>h, <1>m, <1>12, <2>2, <2>3 DEF Table
  <2> QED
    BY <2>1, <2>2, <2>4 DEF Receipt
<1>13. ASSUME NEW r \in Runs, FinishRecord(r) PROVE ShapeOK(e)'
  <2>1. row' = row /\ mail' = mail /\ op'.pc \in {"retarget", "fail"}
    BY <1>13, FinishRecordEffect
  <2> QED
    BY <1>g, <1>t, <1>f, <2>1
<1>26. ASSUME FinishFailed PROVE ShapeOK(e)'
  <2>1. row' = row /\ mail' = mail /\ op'.pc = "retarget"
    BY <1>26, FinishFailedEffect
  <2> QED
    BY <1>g, <1>t, <1>f, <2>1
<1>27. ASSUME NEW x \in Exchanges, FinishFail(x) PROVE ShapeOK(e)'
  <2>1. /\ row' = row /\ op' = op /\ op.pc = "fail" /\ WriteReceipts({x}, "failed", "lock")
        /\ {x} \subseteq Settled(op.run) /\ op.run \in Runs /\ "failed" \in Receipt
    BY <1>27, Typed DEF FinishFail, WithRun, Receipt
  <2>2. Table
    BY <1>12, <2>1
  <2> QED
    BY <1>g, <1>f, <2>1, <2>2
<1>14. ASSUME NEW r \in Runs, NEW outcome, RunReplies(r, outcome) PROVE ShapeOK(e)'
  <2>1. row' = row /\ op' = op /\ task[r] = "running" /\ WriteReceipts(Settled(r), "replied", "task")
    BY <1>14 DEF RunReplies
  <2>2. /\ Table /\ mail'[e].target = mail[e].target
        /\ mail'[e].status # mail[e].status =>
             mail'[e].status # "none" /\ mail[e].target = r /\ mail[e].status # "none"
    BY <1>12, <2>1 DEF Receipt
  <2>3. op.mail = e /\ op.pc = "spawn" => op.run # r
    BY <2>1 DEF RunInv, RunOK
  <2>4. Holder
    BY <1>h, <1>m, <1>x, <2>1, <2>2, <2>3 DEF Holder
  <2> QED
    BY <1>g, <2>2, <2>4
<1>15. ASSUME FinishRetarget PROVE ShapeOK(e)'
  <2>1. op'.pc = "release"
    BY <1>15, RetargetEffect
  <2>2. /\ PendingSteer(e, op.run) => row'[e].kind = "followup"
        /\ ~PendingSteer(e, op.run) => row'[e] = row[e]
        /\ mail'[e] = mail[e] \/ (PendingSteer(e, op.run) /\ mail'[e].status = "queued" /\ mail'[e].target = NoRun)
    BY <1>15, RetargetEffect
  <2>4. PendingSteer(e, op.run) => mail'[e].status \in {"none", "queued"} /\
          (mail'[e].status = "queued" => mail'[e].target = NoRun)
    BY <1>15, RetargetEffect
  <2>3. Table
    BY <1>h, <1>m, <2>2, <2>4 DEF Table
  <2> QED
    BY <1>g, <1>f, <2>1, <2>3
<1>16. ASSUME FinishRelease PROVE ShapeOK(e)'
  <2>1. mail' = mail /\ ((\E x \in Exchanges : ClaimQueuedMail(x)) \/ (op' = Free /\ row' = row))
    BY <1>16 DEF FinishRelease, QueuedMail
  <2> QED
    BY <1>6, <1>s, <2>1
<1>17. ASSUME NEW x \in Exchanges, ResumeQueuedMail(x) PROVE ShapeOK(e)'
  BY <1>6, <1>17 DEF ResumeQueuedMail
<1>18. ASSUME NEW x \in Exchanges, NEW who, MarkProjected(x, who) PROVE ShapeOK(e)'
  <2>1. row' = row /\ op' = op
    BY <1>18 DEF MarkProjected
  <2>2. mail'[e].status = mail[e].status /\ mail'[e].target = mail[e].target
    BY <1>18, MarkProjectedEffect
  <2> QED
    BY <1>s, <2>1, <2>2
<1>19. ASSUME NEW o \in OriginRuns, OriginClaim(o) PROVE ShapeOK(e)'
  <2>1. row' = row /\ op' = op
    BY <1>19, Zenon DEF OriginClaim
  <2>2. mail'[e].status = mail[e].status /\ mail'[e].target = mail[e].target
    BY <1>19, OriginClaimEffect
  <2> QED
    BY <1>s, <2>1, <2>2
<1>20. ASSUME NEW x \in Exchanges, OriginWait(x) PROVE ShapeOK(e)'
  <2>1. row' = row /\ op' = op
    BY <1>20 DEF OriginWait
  <2>2. mail'[e].status = mail[e].status /\ mail'[e].target = mail[e].target
    BY <1>20, OriginWaitEffect
  <2> QED
    BY <1>s, <2>1, <2>2
<1>21. ASSUME Restart PROVE ShapeOK(e)'
  <2>1. op' = Free
    BY <1>21, Zenon DEF Restart
  <2>2. /\ row'[e].state = row[e].state /\ (row[e].state = "pending" => row'[e].kind = "followup")
        /\ mail'[e].target = mail[e].target
        /\ mail'[e].status = mail[e].status \/ mail'[e].status = "failed"
    BY <1>21, RestartEffect
  <2>3. Table
    BY <1>h, <1>m, <2>2 DEF Table
  <2> QED
    BY <1>g, <1>f, <1>p, <2>1, <2>3
<1>22. ASSUME NEW r \in Runs, NEW steering, NEW outcome, StartTurn(r, steering) \/ RunEnds(r, outcome)
       PROVE  ShapeOK(e)'
  BY <1>s, <1>22 DEF StartTurn, RunEnds, durable
<1>23. ASSUME NEW x \in Exchanges, NEW who, PostReply(x, who) PROVE ShapeOK(e)'
  BY <1>s, <1>23 DEF PostReply, durable
<1>24. ASSUME OriginStart \/ OriginEnd \/ UNCHANGED vars PROVE ShapeOK(e)'
  BY <1>s, <1>24 DEF OriginStart, OriginEnd, vars, durable
<1> QED
  BY <1>1, <1>2, <1>3, <1>4, <1>5, <1>7, <1>8, <1>9, <1>10, <1>11, <1>13, <1>14, <1>15, <1>16, <1>17,
     <1>18,
     <1>19, <1>20, <1>21, <1>22, <1>23, <1>24, <1>25, <1>26, <1>27 DEF Next, Send, Start, RunStep, Origin

-----------------------------------------------------------------------------
(* Who may write the next receipt.                                         *)

\* A task that is over stays so.
LEMMA DoneStays ==
  ASSUME LinkedType, RunInv, [Next]_vars, NEW r \in Runs, task[r] = "done" PROVE task'[r] = "done"
<1>t. task \in [Runs -> {"none", "running", "completed", "failed", "cancelled", "done"}]
  BY Typed
<1>1. CASE task' = task
  BY <1>1
<1>2. ASSUME NEW x \in Runs, NEW steering \in BOOLEAN, StartTurn(x, steering) PROVE task'[r] = "done"
  BY <1>t, <1>2 DEF StartTurn, FreshRun
<1>3. ASSUME LaunchSpawn PROVE task'[r] = "done"
  <2>1. op.pc = "spawn" /\ op.run \in Runs /\ task' = [task EXCEPT ![op.run] = "running"]
    BY <1>3, LaunchSpawnEffect DEF LaunchSpawn
  <2>2. task[op.run] = "none"
    BY <2>1 DEF RunInv, RunOK
  <2> QED
    BY <1>t, <2>1, <2>2
<1>4. ASSUME NEW x \in Runs, NEW outcome, RunReplies(x, outcome) \/ RunEnds(x, outcome)
      PROVE  task'[r] = "done"
  BY <1>t, <1>4 DEF RunReplies, RunEnds
<1>5. ASSUME FinishRelease PROVE task'[r] = "done"
  BY <1>t, <1>5 DEF FinishRelease
<1>6. ASSUME Restart PROVE task'[r] = "done"
  BY <1>6, Zenon DEF Restart
<1>7. ASSUME NEW x \in Runs, NEW s \in BOOLEAN, LaunchRecord(x, s) \/ ClaimSteers(x) \/ FinishRecord(x)
      PROVE  task' = task
  BY <1>7 DEF LaunchRecord, ClaimSteers, FinishRecord
<1>8. ASSUME NEW x \in Exchanges, NEW who,
             \/ SendPut(x) \/ ResumeQueuedMail(x) \/ DeleteRow(x) \/ FinishFail(x)
             \/ PostReply(x, who) \/ MarkProjected(x, who)
      PROVE  task' = task
  BY <1>8, Zenon DEF SendPut, ResumeQueuedMail, DeleteRow, FinishFail, PostReply, MarkProjected
<1>9. ASSUME \/ SendDeliver \/ SendUndone \/ SendSettle \/ LaunchMail \/ StartRejected \/ LaunchFailed
             \/ StartUndone \/ FinishFailed
      PROVE  task' = task
  BY <1>9, Zenon DEF SendDeliver, SendUndone, SendSettle, LaunchMail, StartRejected, LaunchFailed,
     StartUndone, FinishFailed
<1>10. ASSUME FinishRetarget \/ Origin \/ UNCHANGED vars PROVE task' = task
  BY <1>10, Zenon DEF FinishRetarget, Origin, OriginClaim, OriginStart, OriginEnd, OriginWait, vars
<1> QED
  BY <1>1, <1>2, <1>3, <1>4, <1>5, <1>6, <1>7, <1>8, <1>9, <1>10 DEF Next, Send, Start, RunStep

\* Every step keeps that a receipt being posted is the last of its mail.
LEMMA WriterStep ==
  ASSUME MailConstants, LinkedType, HandInv, RunInv, ShapeInv, WriterInv, [Next]_vars PROVE WriterInv'
<1> SUFFICES ASSUME NEW e \in Exchanges PROVE WriterOK(e)'
  BY DEF WriterInv
<1>h. /\ row[e].state = "pending" /\ row[e].kind = "followup" => Idles(e)
      /\ op.mail = e /\ op.pc \in {"start", "launch"} => Idles(e)
      /\ op.mail = e /\ op.pc \in {"spawn", "undo"} => Idles(e) \/ Own(e)
      /\ LockPosts(e) => ~Waiting(e) /\ receipts[e] # 0 /\ op.pc \notin Quiet
      /\ TaskPosts(e) =>
           /\ receipts[e] # 0
           /\ mail[e].status = "none" \/ Ended(mail[e].target)
           /\ ~(row[e].state = "pending" /\ row[e].kind = "followup")
           /\ ~(op.mail = e /\ op.pc \in {"start", "launch", "spawn", "undo"})
  BY DEF WriterInv, WriterOK
<1> DEFINE RowW == row'[e].state = "pending" /\ row'[e].kind = "followup" => Idles(e)'
    OpW == /\ op'.mail = e /\ op'.pc \in {"start", "launch"} => Idles(e)'
           /\ op'.mail = e /\ op'.pc \in {"spawn", "undo"} => Idles(e)' \/ Own(e)'
    LockW == LockPosts(e)' => ~Waiting(e)' /\ receipts'[e] # 0 /\ op'.pc \notin Quiet
    TaskW == TaskPosts(e)' =>
           /\ receipts'[e] # 0
           /\ mail'[e].status = "none" \/ Ended(mail[e].target)'
           /\ ~(row'[e].state = "pending" /\ row'[e].kind = "followup")
           /\ ~(op'.mail = e /\ op'.pc \in {"start", "launch", "spawn", "undo"})
<1>g. RowW /\ OpW /\ LockW /\ TaskW => WriterOK(e)'
  BY DEF WriterOK, Ended, Quiet
<1>x. /\ mail \in [Exchanges -> MailRecord] /\ row \in [Exchanges -> RowRecord] /\ receipts \in [Exchanges -> Nat]
      /\ NoRun \notin Runs /\ mail[e].target \in Runs \cup {NoRun}
      /\ task \in [Runs -> {"none", "running", "completed", "failed", "cancelled", "done"}]
  BY Typed, ExchangeFields DEF MailConstants
<1>y. mail \in [Exchanges -> MailRecord] /\ receipts \in [Exchanges -> Nat]
  BY <1>x
<1>i. /\ mail'[e].target = mail[e].target /\ Idles(e) => Idles(e)'
      /\ mail'[e].target = NoRun => Idles(e)'
  BY <1>x, DoneStays DEF Idles
<1>k. posting' = posting => (LockPosts(e)' => LockPosts(e)) /\ (TaskPosts(e)' => TaskPosts(e))
  BY DEF LockPosts, TaskPosts
<1>p. op' = Free => op'.pc = "free" /\ op'.mail # e
  BY OpFields DEF MailConstants
<1>d. op.mail = e /\ op.pc \in InSend => row[e].state # "pending"
  BY DEF HandInv, HandOK
<1> HIDE DEF RowW, OpW, LockW, TaskW
\* What the row and the target say stays.
<1>a. ASSUME row'[e] = row[e] \/ row'[e].state # "pending", mail'[e].target = mail[e].target PROVE RowW
  BY <1>a, <1>h, <1>i DEF RowW
<1>b. ASSUME \/ op'.mail # e \/ op'.pc \notin {"start", "launch", "spawn", "undo"}
             \/ op' = op /\ mail'[e].target = mail[e].target
      PROVE  OpW
  BY <1>b, <1>h, <1>i DEF OpW, Own
<1>c. ASSUME \/ ~LockPosts(e)'
             \/ /\ LockPosts(e)' => LockPosts(e)
                /\ mail'[e].status = mail[e].status \/ mail'[e].status \in {"none"} \cup Receipt
                /\ receipts'[e] = receipts[e]
                /\ op'.pc \notin Quiet \/ op'.pc = op.pc
      PROVE  LockW
  BY <1>c, <1>h DEF LockW, Waiting, Receipt
<1>e. ASSUME \/ ~TaskPosts(e)'
             \/ /\ TaskPosts(e)' => TaskPosts(e)
                /\ \/ mail'[e].status = "none"
                   \/ /\ mail'[e].status = mail[e].status \/ mail[e].status # "none"
                      /\ mail'[e].target = mail[e].target
                /\ receipts'[e] = receipts[e]
                /\ row'[e] = row[e] \/ row'[e].state # "pending"
                /\ op' = op \/ op'.mail # e \/ op'.pc \notin {"start", "launch", "spawn", "undo"}
                /\ Ended(mail[e].target) =>
                     /\ task'[mail[e].target] = task[mail[e].target]
                     /\ op'.pc \in Finishing /\ op'.run = mail[e].target => op.pc \in Finishing /\ op.run = op'.run
      PROVE  TaskW
  BY <1>e, <1>h DEF TaskW, Ended
\* Nothing about the exchange changes, and the holder is the same or another.
<1>s. ASSUME row'[e] = row[e] \/ row'[e].state # "pending",
             mail'[e].status = mail[e].status, mail'[e].target = mail[e].target, receipts'[e] = receipts[e],
             LockPosts(e)' => LockPosts(e), TaskPosts(e)' => TaskPosts(e),
             Ended(mail[e].target) => task'[mail[e].target] = task[mail[e].target],
             \/ op' = op
             \/ /\ op'.mail # e \/ op'.pc \notin {"start", "launch", "spawn", "undo"}
                /\ op'.pc \notin Quiet \/ op.pc \in Quiet \/ ~LockPosts(e)'
                /\ op'.pc \notin Finishing \/ (op.pc \in Finishing /\ op'.run = op.run) \/ ~TaskPosts(e)'
      PROVE  WriterOK(e)'
  <2>1. RowW /\ OpW
    BY <1>a, <1>b, <1>s
  <2>2. LockW
    <3>1. CASE op' = op
      BY <1>c, <1>s, <3>1
    <3>2. CASE op.pc \in Quiet
      BY <1>c, <1>h, <1>s, <3>2
    <3> QED
      BY <1>c, <1>s, <3>1, <3>2
  <2>3. TaskW
    BY <1>e, <1>s
  <2> QED
    BY <1>g, <2>1, <2>2, <2>3
<1>1. ASSUME NEW x \in Exchanges, SendPut(x) PROVE WriterOK(e)'
  <2>1. /\ row' = row /\ task' = task /\ posting' = posting /\ receipts' = receipts
        /\ row[x] = NoRow /\ receipts[x] = 0
    BY <1>1, Zenon DEF SendPut, history
  <2>2. op'.mail = x /\ op'.pc \in {"start", "deliver"}
    BY <1>1, SendPutEffect
  <2>3. CASE e = x
    <3>1. ~LockPosts(e)' /\ ~TaskPosts(e)'
      BY <1>h, <1>k, <2>1, <2>3
    <3>2. row'[e].state # "pending"
      BY Zenon, <2>1, <2>3, RowFields
    <3>3. op'.pc = "start" => mail'[e].target = NoRun
      BY <1>1, <2>3, SendPutEffect
    <3>4. RowW /\ OpW
      BY <1>i, <2>2, <3>2, <3>3 DEF RowW, OpW
    <3> QED
      BY <1>g, <1>c, <1>e, <3>1, <3>4
  <2>4. CASE e # x
    <3>1. mail'[e] = mail[e]
      BY <1>1, <2>4, SendPutEffect
    <3> QED
      BY <1>s, <1>k, <2>1, <2>2, <2>4, <3>1 DEF Quiet, Finishing
  <2> QED
    BY <2>3, <2>4
<1>2. ASSUME SendDeliver PROVE WriterOK(e)'
  <2> DEFINE w == [state |-> "pending", target |-> op.copy.target,
                   kind |-> IF op.copy.status = "queued" THEN "followup" ELSE "steer"]
  <2>1. /\ op.pc = "deliver" /\ op.mail \in Exchanges /\ op.copy.status \in {"queued", "running"}
        /\ op' = Free /\ mail' = mail /\ row' = [row EXCEPT ![op.mail] = w]
        /\ task' = task /\ posting' = posting /\ receipts' = receipts
    BY <1>2, Typed DEF SendDeliver, InSend, history
  <2>2. CASE e = op.mail
    <3>1. row'[e] = w
      BY <1>x, <2>1, <2>2
    <3>2. w.kind = "followup" => op.copy.status = "queued"
      BY <2>1
    <3> HIDE DEF w
    <3>3. mail[e].status # "none" /\ (op.copy.status = "queued" => mail[e].target = NoRun)
      BY <2>1, <2>2 DEF ShapeInv, ShapeOK
    <3>4. RowW
      BY <1>i, <2>1, <3>1, <3>2, <3>3 DEF RowW
    <3>5. OpW /\ LockW
      BY <1>b, <1>c, <1>k, <1>p, <2>1 DEF Quiet
    <3>6. TaskPosts(e)' => Ended(mail[e].target) /\ receipts[e] # 0 /\ mail[e].target # NoRun
      BY <1>h, <1>k, <1>x, <2>1, <3>3 DEF Ended
    <3>7. Ended(mail[e].target) => Ended(mail[e].target)'
      BY <1>p, <2>1 DEF Ended, Finishing
    <3>8. TaskW
      BY <1>p, <2>1, <3>1, <3>2, <3>3, <3>6, <3>7 DEF TaskW
    <3> QED
      BY <1>g, <3>4, <3>5, <3>8
  <2>3. CASE e # op.mail
    <3>1. row'[e] = row[e]
      BY <1>x, <2>1, <2>3
    <3> HIDE DEF w
    <3> QED
      BY <1>s, <1>k, <1>p, <2>1, <3>1 DEF Quiet, Finishing
  <2> QED
    BY <2>2, <2>3
<1>3. ASSUME SendUndone PROVE WriterOK(e)'
  <2>1. /\ op.pc = "deliver" /\ op.mail \in Exchanges /\ op' = Free /\ row' = row
        /\ mail' = [mail EXCEPT ![op.mail] = NoExchange]
        /\ task' = task /\ posting' = posting /\ receipts' = receipts
    BY <1>3, Typed DEF SendUndone, InSend, history
  <2>2. CASE e = op.mail
    <3>1. mail'[e].status = "none" /\ mail'[e].target = NoRun /\ row[e].state # "pending"
      BY <1>d, <1>x, <2>1, <2>2, ExchangeFields DEF InSend
    <3>2. RowW /\ OpW /\ LockW
      BY <1>b, <1>c, <1>i, <1>k, <1>p, <2>1, <3>1 DEF RowW, Quiet
    <3>3. TaskW
      BY <1>h, <1>k, <1>p, <2>1, <3>1 DEF TaskW
    <3> QED
      BY <1>g, <3>2, <3>3
  <2>3. CASE e # op.mail
    <3>1. mail'[e] = mail[e]
      BY <1>x, <2>1, <2>3
    <3> QED
      BY <1>s, <1>k, <1>p, <2>1, <3>1 DEF Quiet, Finishing
  <2> QED
    BY <2>2, <2>3
<1>4. ASSUME SendSettle PROVE WriterOK(e)'
  <2>1. /\ op.pc = "settle" /\ op.mail \in Exchanges /\ op' = Free /\ row' = row
        /\ task' = task /\ posting' = posting /\ receipts' = receipts
    BY <1>4, Typed DEF SendSettle, InSend
  <2>2. CASE e = op.mail
    <3>1. op.copy.target = op.run /\ mail[e].target = op.run /\ mail[e].status # "none"
      BY <2>1, <2>2 DEF ShapeInv, ShapeOK
    <3>2. mail'[e].target = mail[e].target
      BY <1>4, <2>2, <3>1, SendSettleEffect
    <3>3. ~LockPosts(e)'
      BY <1>h, <1>k, <2>1 DEF Quiet
    <3>4. RowW /\ OpW /\ LockW
      BY <1>a, <1>b, <1>c, <1>p, <2>1, <3>2, <3>3
    <3>5. TaskW
      BY <1>e, <1>k, <1>p, <2>1, <3>1, <3>2 DEF Finishing
    <3> QED
      BY <1>g, <3>4, <3>5
  <2>3. CASE e # op.mail
    <3>1. mail'[e] = mail[e]
      BY <1>4, <2>3, SendSettleEffect
    <3> QED
      BY <1>s, <1>k, <1>p, <2>1, <3>1 DEF Quiet, Finishing
  <2> QED
    BY <2>2, <2>3
<1>5. ASSUME NEW r \in Runs, NEW steering, StartTurn(r, steering) PROVE WriterOK(e)'
  <2>1. /\ mail' = mail /\ row' = row /\ op' = op /\ posting' = posting /\ receipts' = receipts
        /\ task[r] = "none" /\ task' = [task EXCEPT ![r] = "running"]
    BY <1>5 DEF StartTurn, FreshRun, history
  <2>2. Ended(mail[e].target) => task'[mail[e].target] = task[mail[e].target]
    BY <1>x, <2>1 DEF Ended
  <2> QED
    BY <1>s, <1>k, <2>1, <2>2
<1>6. ASSUME NEW r \in Runs, NEW steering \in BOOLEAN, LaunchRecord(r, steering) PROVE WriterOK(e)'
  <2>1. /\ mail' = mail /\ row' = row /\ task' = task /\ posting' = posting /\ receipts' = receipts
        /\ ~Posting("lock")
    BY <1>6 DEF LaunchRecord, history
  <2>2. op.pc = "start" /\ op'.pc = "launch" /\ op'.mail = op.mail
    BY <1>6, LaunchRecordEffect
  <2>3. ~LockPosts(e) /\ ~LockPosts(e)'
    BY <2>1 DEF LockPosts, Posting
  <2>4. CASE e = op.mail
    <3>1. ~TaskPosts(e)'
      BY <1>h, <1>k, <2>1, <2>2, <2>4
    <3>2. OpW
      BY <1>h, <1>i, <2>1, <2>2, <2>4 DEF OpW
    <3>3. RowW
      BY <1>a, <2>1
    <3> QED
      BY <1>g, <1>c, <1>e, <2>3, <3>1, <3>2, <3>3
  <2>5. CASE e # op.mail
    BY <1>s, <1>k, <2>1, <2>2, <2>3, <2>5 DEF Finishing
  <2> QED
    BY <2>4, <2>5
<1>7. ASSUME NEW x \in QueuedMail, ClaimQueuedMail(x), mail' = mail, posting' = posting, receipts' = receipts,
             Ended(mail[e].target) => task'[mail[e].target] = task[mail[e].target]
      PROVE  WriterOK(e)'
  <2>1. x \in Exchanges /\ row[x].state = "pending" /\ row[x].kind = "followup"
    BY DEF QueuedMail
  <2>2. /\ op'.pc = "start" /\ op'.mail = x
        /\ row'[x].state = "claimed" /\ \A y \in Exchanges \ {x} : row'[y] = row[y]
    BY <1>7, <2>1, ClaimEffectQ
  <2>3. CASE e = x
    <3>1. Idles(e)' /\ ~TaskPosts(e)'
      BY <1>7, <1>h, <1>i, <1>k, <2>1, <2>3
    <3>2. RowW /\ OpW
      BY <2>2, <2>3, <3>1 DEF RowW, OpW
    <3>3. LockW
      BY <1>7, <1>c, <1>k, <2>2 DEF Quiet
    <3> QED
      BY <1>g, <1>e, <3>1, <3>2, <3>3
  <2>4. CASE e # x
    <3>1. row'[e] = row[e] /\ op'.mail # e /\ op'.pc \notin Quiet /\ op'.pc \notin Finishing
      BY <2>2, <2>4 DEF Quiet, Finishing
    <3> QED
      BY <1>7, <1>s, <1>k, <3>1
  <2> QED
    BY <2>3, <2>4
<1>8. ASSUME NEW x \in Exchanges, ResumeQueuedMail(x) PROVE WriterOK(e)'
  BY <1>7, <1>8 DEF ResumeQueuedMail, history
<1>9. ASSUME NEW x \in Exchanges, DeleteRow(x) PROVE WriterOK(e)'
  <2> DEFINE w == [row[x] EXCEPT !.state = "cancelled"]
  <2>1. /\ op' = op /\ mail' = mail /\ task' = task /\ posting' = posting /\ receipts' = receipts
        /\ row' = [row EXCEPT ![x] = w]
    BY <1>9 DEF DeleteRow
  <2>2. w.state = "cancelled"
    <3>1. row[x] \in RowRecord
      BY <1>x
    <3> QED
      BY ONLY Zenon, <3>1, RowFields
  <2> HIDE DEF w
  <2>3. row'[e] = row[e] \/ row'[e].state # "pending"
    BY <1>x, <2>1, <2>2
  <2> QED
    BY <1>s, <1>k, <2>1, <2>3
<1>10. ASSUME LaunchMail PROVE WriterOK(e)'
  <2>1. row' = row /\ task' = task /\ posting' = posting /\ receipts' = receipts
    BY <1>10 DEF LaunchMail, history
  <2>2. /\ op.pc = "launch" /\ op'.pc = "spawn" /\ op'.mail = op.mail /\ op'.run = op.run
    BY <1>10, LaunchMailEffect
  <2>3. ~LockPosts(e)'
    BY <1>h, <1>k, <2>1, <2>2 DEF Quiet
  <2>4. CASE e = op.mail
    <3>1. ~TaskPosts(e)' /\ row'[e].state # "pending"
      BY <1>h, <1>d, <1>k, <2>1, <2>2, <2>4 DEF InSend
    <3>2. mail' = mail \/ mail'[e].target = op.run
      BY <1>10, <2>4, LaunchMailEffect
    <3>3. Idles(e)' \/ Own(e)'
      BY <1>h, <1>i, <2>2, <2>4, <3>2 DEF Own
    <3>4. RowW /\ OpW
      BY <2>2, <3>1, <3>3 DEF RowW, OpW
    <3> QED
      BY <1>g, <1>c, <1>e, <2>3, <3>1, <3>4
  <2>5. CASE e # op.mail
    <3>1. mail'[e] = mail[e]
      BY <1>10, <2>5, LaunchMailEffect
    <3> QED
      BY <1>s, <1>k, <2>1, <2>2, <2>3, <2>5, <3>1 DEF Finishing
  <2> QED
    BY <2>4, <2>5
<1>11. ASSUME LaunchSpawn PROVE WriterOK(e)'
  <2>1. /\ mail' = mail /\ row' = row /\ posting' = posting /\ receipts' = receipts
        /\ task' = [task EXCEPT ![op.run] = "running"]
        /\ op.pc = "spawn" /\ op.run \in Runs /\ (op' = Free \/ op'.pc = "settle")
    BY <1>11, LaunchSpawnEffect DEF LaunchSpawn
  <2>2. task[op.run] = "none"
    BY <2>1 DEF RunInv, RunOK
  <2>3. Ended(mail[e].target) => task'[mail[e].target] = task[mail[e].target]
    BY <1>x, <2>1, <2>2 DEF Ended
  <2>4. op.pc \in Quiet /\ op'.pc \notin {"start", "launch", "spawn", "undo"} /\ op'.pc \notin Finishing
    BY <1>p, <2>1 DEF Quiet, Finishing
  <2> QED
    BY <1>s, <1>k, <2>1, <2>3, <2>4
<1>12. ASSUME StartRejected \/ StartUndone PROVE WriterOK(e)'
  <2>1. /\ row' = row /\ task' = task /\ op.pc \in {"start", "undo"} /\ StartFailed
        /\ ~Posting("lock") \/ op.pc = "undo"
    BY <1>12 DEF StartRejected, StartUndone
  <2>2. /\ op' = Free /\ op.mail \in Exchanges
        /\ \A y \in posting' : y \in posting \/ y = Event(op.mail, "lock")
    BY <2>1, StartFailedEffect
  <2>3. ~LockPosts(e)
    BY <1>h, <2>1 DEF LockPosts, Posting, Quiet
  <2>4. TaskPosts(e)' => TaskPosts(e)
    BY <2>2 DEF TaskPosts, Event
  <2>5. CASE e = op.mail
    <3>1. ~TaskPosts(e)' /\ row'[e].state # "pending"
      BY <1>h, <1>d, <2>1, <2>4, <2>5 DEF InSend
    <3>2. RowW /\ OpW /\ TaskW
      BY <1>b, <1>e, <1>p, <2>2, <3>1 DEF RowW
    <3>3. CASE posting' = posting
      BY <1>g, <1>c, <1>k, <2>3, <3>2, <3>3
    <3>4. CASE mail'[e].status \in Receipt /\ receipts'[e] = receipts[e] + 1
      <4>1. receipts'[e] # 0
        BY <1>x, <3>4
      <4>2. LockW
        BY <1>p, <2>2, <3>4, <4>1 DEF LockW, Waiting, Receipt, Quiet
      <4> QED
        BY <1>g, <3>2, <4>2
    <3> QED
      BY <2>1, <2>5, <3>3, <3>4, StartFailedEffect
  <2>6. CASE e # op.mail
    <3>1. mail'[e] = mail[e] /\ receipts'[e] = receipts[e]
      BY <2>1, <2>6, StartFailedEffect
    <3>2. ~LockPosts(e)'
      BY <2>2, <2>3, <2>6 DEF LockPosts, Event
    <3> QED
      BY <1>s, <1>p, <2>1, <2>2, <2>4, <3>1, <3>2 DEF Finishing
  <2> QED
    BY <2>5, <2>6
<1>13. ASSUME LaunchFailed PROVE WriterOK(e)'
  <2>1. mail' = mail /\ row' = row /\ task' = task /\ posting' = posting /\ receipts' = receipts
    BY <1>13 DEF LaunchFailed, history
  <2>2. op.pc \in {"launch", "spawn"} /\ op'.pc = "undo" /\ op'.mail = op.mail /\ op'.run = op.run
    BY <1>13, LaunchFailedEffect
  <2>3. ~LockPosts(e)'
    BY <1>h, <1>k, <2>1, <2>2 DEF Quiet
  <2>4. CASE e = op.mail
    <3>1. ~TaskPosts(e)' /\ row'[e].state # "pending"
      BY <1>h, <1>d, <1>k, <2>1, <2>2, <2>4 DEF InSend
    <3>2. Idles(e)' \/ Own(e)'
      BY <1>h, <1>i, <2>1, <2>2, <2>4 DEF Own
    <3>3. RowW /\ OpW
      BY <2>2, <3>1, <3>2 DEF RowW, OpW
    <3> QED
      BY <1>g, <1>c, <1>e, <2>3, <3>1, <3>3
  <2>5. CASE e # op.mail
    BY <1>s, <1>k, <2>1, <2>2, <2>3, <2>5 DEF Finishing
  <2> QED
    BY <2>4, <2>5
<1>14. ASSUME NEW r \in Runs, ClaimSteers(r) PROVE WriterOK(e)'
  <2> DEFINE w == [row[e] EXCEPT !.state = "claimed"]
  <2>1. /\ op' = op /\ mail' = mail /\ task' = task /\ posting' = posting /\ receipts' = receipts
        /\ row'[e] \in {row[e], w}
    BY <1>14 DEF ClaimSteers
  <2>2. w.state = "claimed"
    <3>1. row[e] \in RowRecord
      BY <1>x
    <3> QED
      BY ONLY Zenon, <3>1, RowFields
  <2> HIDE DEF w
  <2> QED
    BY <1>s, <1>k, <2>1, <2>2
<1>15. ASSUME NEW r \in Runs, NEW outcome \in {"completed", "failed", "cancelled"}, RunReplies(r, outcome)
       PROVE  WriterOK(e)'
  <2>1. /\ row' = row /\ op' = op /\ task[r] = "running" /\ task' = [task EXCEPT ![r] = outcome]
        /\ outcome \in {"completed", "failed"}
        /\ WriteReceipts(Settled(r), "replied", "task") /\ "replied" \in Receipt
    BY <1>15 DEF RunReplies, Receipt
  <2>2. \A y \in posting' : y \in posting \/ \E x \in Settled(r) : y = Event(x, "task")
    BY <1>x, <2>1, ReceiptsEffect
  <2>3. LockPosts(e)' => LockPosts(e)
    BY <2>2 DEF LockPosts, Event
  <2>4. CASE e \in Settled(r)
    <3>1. Waiting(e) /\ mail[e].target = r
      BY <2>4 DEF Settled, Waiting
    <3>2. mail'[e].status \in Receipt /\ mail'[e].target = r /\ receipts'[e] = receipts[e] + 1
      <4>1. receipts'[e] = receipts[e] + 1
        BY <2>1, <2>4 DEF WriteReceipts
      <4>2. mail'[e].status \in Receipt /\ mail'[e].target = mail[e].target
        BY <1>y, <2>1, <2>4, ReceiptsEffect
      <4> QED
        BY <3>1, <4>1, <4>2
    <3>3. receipts'[e] # 0
      BY <1>x, <3>2
    <3>4. ~LockPosts(e)'
      BY <1>h, <2>3, <3>1
    <3>5. ~Idles(e) /\ task'[r] = outcome
      BY <1>x, <2>1, <3>1 DEF Idles
    <3>6. /\ ~(op.pc \in Finishing /\ op.run = r)
          /\ ~(op.pc \in {"spawn", "undo"} /\ op.run = r)
      BY <2>1 DEF RunInv, RunOK
    <3>7. /\ ~(row[e].state = "pending" /\ row[e].kind = "followup")
          /\ ~(op.mail = e /\ op.pc \in {"start", "launch", "spawn", "undo"})
      BY <1>h, <3>1, <3>5, <3>6 DEF Own
    <3>8. RowW /\ OpW
      BY <2>1, <3>7 DEF RowW, OpW
    <3>9. TaskW
      BY <2>1, <3>2, <3>3, <3>5, <3>6, <3>7 DEF TaskW, Ended
    <3> QED
      BY <1>g, <1>c, <3>4, <3>8, <3>9
  <2>5. CASE e \notin Settled(r)
    <3>1. mail'[e] = mail[e] /\ receipts'[e] = receipts[e]
      BY <2>1, <2>5 DEF WriteReceipts
    <3>2. TaskPosts(e)' => TaskPosts(e)
      BY <2>2, <2>5 DEF TaskPosts, Event
    <3>3. Ended(mail[e].target) => task'[mail[e].target] = task[mail[e].target]
      BY <1>x, <2>1 DEF Ended
    <3> QED
      BY <1>s, <2>1, <2>3, <3>1, <3>2, <3>3
  <2> QED
    BY <2>4, <2>5
<1>16. ASSUME NEW r \in Runs, NEW outcome, RunEnds(r, outcome) PROVE WriterOK(e)'
  <2>1. /\ mail' = mail /\ row' = row /\ op' = op /\ posting' = posting /\ receipts' = receipts
        /\ task[r] = "running" /\ task' = [task EXCEPT ![r] = outcome]
    BY <1>16 DEF RunEnds, durable, history
  <2>2. Ended(mail[e].target) => task'[mail[e].target] = task[mail[e].target]
    BY <1>x, <2>1 DEF Ended
  <2> QED
    BY <1>s, <1>k, <2>1, <2>2
<1>17. ASSUME NEW r \in Runs, FinishRecord(r) PROVE WriterOK(e)'
  <2>1. /\ mail' = mail /\ row' = row /\ task' = task /\ posting' = posting /\ receipts' = receipts
        /\ op'.mail = NoMail
    BY <1>17, FinishRecordEffect
  <2>2. ~LockPosts(e)' /\ ~TaskPosts(e)' /\ ~LockPosts(e)
    BY <1>17 DEF FinishRecord, Posting, LockPosts, TaskPosts
  <2>3. op'.mail # e
    BY <2>1 DEF MailConstants
  <2> QED
    BY <1>s, <2>1, <2>2, <2>3
<1>18. ASSUME NEW x \in Exchanges, FinishFail(x) PROVE WriterOK(e)'
  <2>1. /\ row' = row /\ op' = op /\ task' = task /\ op.pc = "fail" /\ op.run \in Runs
        /\ WriteReceipts({x}, "failed", "lock") /\ "failed" \in Receipt /\ x \in Settled(op.run)
    BY <1>18, Typed DEF FinishFail, WithRun, Receipt
  <2>2. \A y \in posting' : y \in posting \/ y = Event(x, "lock")
    BY <1>x, <2>1, ReceiptsEffect
  <2>3. TaskPosts(e)' => TaskPosts(e)
    BY <2>2 DEF TaskPosts, Event
  <2>4. CASE e = x
    <3>1. Waiting(e) /\ mail[e].target = op.run
      BY <2>1, <2>4 DEF Settled, Waiting
    <3>2. mail'[e].status \in Receipt /\ mail'[e].target = mail[e].target /\ receipts'[e] = receipts[e] + 1
      <4>1. receipts'[e] = receipts[e] + 1
        BY <2>1, <2>4 DEF WriteReceipts
      <4>2. mail'[e].status \in Receipt /\ mail'[e].target = mail[e].target
        BY <1>y, <2>1, <2>4, ReceiptsEffect
      <4> QED
        BY <4>1, <4>2
    <3>3. receipts'[e] # 0
      BY <1>x, <3>2
    <3>4. ~TaskPosts(e)'
      BY <1>h, <2>1, <2>3, <3>1 DEF Waiting, Ended, Finishing
    <3>5. LockW
      BY <2>1, <3>2, <3>3 DEF LockW, Waiting, Receipt, Quiet
    <3> QED
      BY <1>g, <1>a, <1>b, <1>e, <2>1, <3>2, <3>4, <3>5
  <2>5. CASE e # x
    <3>1. mail'[e] = mail[e] /\ receipts'[e] = receipts[e]
      BY <2>1, <2>5 DEF WriteReceipts
    <3>2. LockPosts(e)' => LockPosts(e)
      BY <2>2, <2>5 DEF LockPosts, Event
    <3> QED
      BY <1>s, <2>1, <2>3, <3>1, <3>2
  <2> QED
    BY <2>4, <2>5
<1>19. ASSUME FinishFailed PROVE WriterOK(e)'
  <2>1. /\ mail' = mail /\ row' = row /\ task' = task /\ posting' = posting /\ receipts' = receipts
        /\ op.pc = "fail" /\ op'.pc = "retarget" /\ op'.run = op.run
    BY <1>19, FinishFailedEffect
  <2>2. ~LockPosts(e)'
    BY <1>19, <2>1 DEF FinishFailed, Posting, LockPosts
  <2> QED
    BY <1>s, <1>k, <2>1, <2>2 DEF Finishing
<1>20. ASSUME FinishRetarget PROVE WriterOK(e)'
  <2>1. task' = task /\ posting' = posting /\ receipts' = receipts
    BY <1>20, Zenon DEF FinishRetarget
  <2>2. /\ op.pc = "retarget" /\ op.run \in Runs /\ op'.pc = "release" /\ op'.run = op.run
        /\ ~PendingSteer(e, op.run) => row'[e] = row[e] /\ mail'[e] = mail[e]
    BY <1>20, RetargetEffect
  <2>3. ~LockPosts(e)'
    BY <1>h, <1>k, <2>1, <2>2 DEF Quiet
  <2>4. CASE ~PendingSteer(e, op.run)
    BY <1>s, <1>k, <2>1, <2>2, <2>3, <2>4 DEF Quiet, Finishing
  <2>5. CASE PendingSteer(e, op.run)
    <3>1. mail[e].target = op.run /\ mail[e].status # "none"
      BY <1>x, <2>2, <2>5 DEF PendingSteer, ShapeInv, ShapeOK
    <3>2. ~TaskPosts(e)'
      BY <1>h, <1>k, <2>1, <2>2, <3>1 DEF Ended, Finishing
    <3>3. mail'[e].target = NoRun
      <4>1. /\ mail'[e] = mail[e] \/ mail'[e].target = NoRun
            /\ mail'[e].status \in {"none", "queued"}
            /\ mail'[e].status = "queued" => mail'[e].target = NoRun
        BY <1>20, <2>5, RetargetEffect
      <4> QED
        BY <3>1, <4>1
    <3>4. RowW /\ OpW
      BY <1>i, <2>2, <3>3 DEF RowW, OpW
    <3> QED
      BY <1>g, <1>c, <1>e, <2>3, <3>2, <3>4
  <2> QED
    BY <2>4, <2>5
<1>21. ASSUME FinishRelease PROVE WriterOK(e)'
  <2>1. /\ mail' = mail /\ posting' = posting /\ receipts' = receipts /\ op.pc = "release"
        /\ task' = [task EXCEPT ![op.run] = "done"]
        /\ (\E x \in QueuedMail : ClaimQueuedMail(x)) \/ (op' = Free /\ row' = row)
    BY <1>21 DEF FinishRelease, history
  <2>2. Ended(mail[e].target) => task'[mail[e].target] = task[mail[e].target]
    BY <1>x, <2>1 DEF Ended, Finishing
  <2>3. CASE op' = Free /\ row' = row
    BY <1>s, <1>k, <1>p, <2>1, <2>2, <2>3 DEF Quiet, Finishing
  <2> QED
    BY <1>7, <2>1, <2>2, <2>3
<1>22. ASSUME NEW x \in Exchanges, NEW who, PostReply(x, who) PROVE WriterOK(e)'
  <2>1. /\ mail' = mail /\ row' = row /\ op' = op /\ task' = task /\ receipts' = receipts
        /\ <<x, who, "event">> \in posting
        /\ posting' = (posting \ {<<x, who, "event">>}) \cup {<<x, who, "mark">>}
    BY <1>22 DEF PostReply, durable
  <2>2. (LockPosts(e)' => LockPosts(e)) /\ (TaskPosts(e)' => TaskPosts(e))
    BY <2>1 DEF LockPosts, TaskPosts
  <2> QED
    BY <1>s, <2>1, <2>2
<1>23. ASSUME NEW x \in Exchanges, NEW who, MarkProjected(x, who) PROVE WriterOK(e)'
  <2>1. /\ row' = row /\ op' = op /\ task' = task /\ receipts' = receipts /\ posting' \subseteq posting
    BY <1>23 DEF MarkProjected, history
  <2>2. mail'[e].status = mail[e].status /\ mail'[e].target = mail[e].target
    BY <1>23, MarkProjectedEffect
  <2>3. (LockPosts(e)' => LockPosts(e)) /\ (TaskPosts(e)' => TaskPosts(e))
    BY <2>1 DEF LockPosts, TaskPosts
  <2> QED
    BY <1>s, <2>1, <2>2, <2>3
<1>24. ASSUME NEW o \in OriginRuns, OriginClaim(o) PROVE WriterOK(e)'
  <2>1. row' = row /\ op' = op /\ task' = task /\ receipts' = receipts /\ posting' = posting
    BY <1>24, Zenon DEF OriginClaim, history
  <2>2. mail'[e].status = mail[e].status /\ mail'[e].target = mail[e].target
    BY <1>24, OriginClaimEffect
  <2> QED
    BY <1>s, <1>k, <2>1, <2>2
<1>25. ASSUME NEW x \in Exchanges, OriginWait(x) PROVE WriterOK(e)'
  <2>1. row' = row /\ op' = op /\ task' = task /\ receipts' = receipts /\ posting' = posting
    BY <1>25 DEF OriginWait
  <2>2. mail'[e].status = mail[e].status /\ mail'[e].target = mail[e].target
    BY <1>25, OriginWaitEffect
  <2> QED
    BY <1>s, <1>k, <2>1, <2>2
<1>26. ASSUME OriginStart \/ OriginEnd \/ UNCHANGED vars PROVE WriterOK(e)'
  BY <1>s, <1>k, <1>26 DEF OriginStart, OriginEnd, vars, durable, history
<1>27. ASSUME Restart PROVE WriterOK(e)'
  <2>1. op' = Free /\ posting' = {}
    BY <1>27, Zenon DEF Restart
  <2>2. row'[e].state = row[e].state /\ mail'[e].target = mail[e].target
    BY <1>27, RestartEffect
  <2>3. ~LockPosts(e)' /\ ~TaskPosts(e)'
    BY <2>1 DEF LockPosts, TaskPosts
  <2>4. \A r \in Runs : task[r] # "none" => task'[r] = "done"
    BY <1>27, Zenon DEF Restart
  <2>5. row[e].state = "pending" /\ row[e].kind = "steer" =>
          mail[e].target \in Runs /\ task[mail[e].target] # "none"
    BY DEF ShapeInv, ShapeOK
  <2>6. row[e].state = "pending" => row[e].kind \in {"steer", "followup"}
    BY DEF ShapeInv, ShapeOK
  <2>7. row[e].state = "pending" => Idles(e)'
    <3>1. CASE row[e].state = "pending" /\ row[e].kind = "steer"
      BY <2>2, <2>4, <2>5, <3>1 DEF Idles
    <3>2. CASE row[e].state = "pending" /\ row[e].kind = "followup"
      BY <1>h, <1>i, <2>2, <3>2
    <3> QED
      BY <2>6, <3>1, <3>2
  <2>8. RowW
    BY <2>2, <2>7 DEF RowW
  <2> QED
    BY <1>g, <1>b, <1>c, <1>e, <1>p, <2>1, <2>3, <2>8
<1> QED
  BY <1>1, <1>2, <1>3, <1>4, <1>5, <1>6, <1>8, <1>9, <1>10, <1>11, <1>12, <1>13, <1>14, <1>15, <1>16,
     <1>17, <1>18, <1>19, <1>20, <1>21, <1>22, <1>23, <1>24, <1>25, <1>26, <1>27
  DEF Next, Send, Start, RunStep, Origin

-----------------------------------------------------------------------------
(* The answer.                                                             *)

\* Every step leaves an exchange that waits with something that will answer it.
LEMMA AnswerStep ==
  ASSUME MailConstants, LinkedType, RunInv, ShapeInv, AnswerInv, [Next]_vars PROVE AnswerInv'
<1> SUFFICES ASSUME NEW e \in Exchanges PROVE AnswerOK(e)'
  BY DEF AnswerInv
<1> DEFINE Starting == {"deliver", "start", "launch", "spawn", "undo"}
           t  == mail[e].target
           t1 == mail'[e].target
<1>h. mail[e].status \in {"queued", "running"} =>
        \/ row[e].state = "pending" \/ (op.mail = e /\ op.pc \in Starting) \/ e \in dropped
        \/ t # NoRun /\ task[t] \in Live /\ ~(task[t] = "completed" \/ (op.pc \in Answered /\ op.run = t))
  BY DEF AnswerInv, AnswerOK, Waiting, Over, Pending, InHand, LiveRun, Live
<1>g. (mail'[e].status \in {"queued", "running"} =>
         \/ row'[e].state = "pending" \/ (op'.mail = e /\ op'.pc \in Starting) \/ e \in dropped'
         \/ t1 # NoRun /\ task'[t1] \in Live /\ ~(task'[t1] = "completed" \/ (op'.pc \in Answered /\ op'.run = t1)))
      => AnswerOK(e)'
  BY DEF AnswerOK, Waiting, Over, Pending, InHand, LiveRun, Live
<1>f. op' = Free => op'.pc = "free" /\ op'.pc \notin Answered
  BY OpFields DEF Answered
<1>x. /\ mail \in [Exchanges -> MailRecord] /\ row \in [Exchanges -> RowRecord] /\ receipts \in [Exchanges -> Nat]
      /\ NoRun \notin Runs /\ t \in Runs \cup {NoRun}
      /\ task \in [Runs -> {"none", "running", "completed", "failed", "cancelled", "done"}]
      /\ op.pc \in {"free", "deliver", "settle", "start", "launch", "spawn", "undo", "fail", "retarget", "release"}
  BY Typed, ExchangeFields, OpFields DEF MailConstants
<1>r. /\ \A r \in Runs : task[r] = "running" => ~(op.pc \in Answered /\ op.run = r)
      /\ \A r \in Runs : op.run = r /\ op.pc \in {"launch", "spawn"} => task[r] = "none" /\ runs[r] = "accepted"
      /\ \A r \in Runs : task[r] \in Live =>
           runs[r] = "running" \/ (op.pc \in Finishing /\ op.run = r)
  BY DEF RunInv, RunOK, Finishing, Answered
<1> HIDE DEF t, t1
\* The exchange waits no more, is dropped or has its row.
<1>n. ASSUME \/ mail'[e].status \notin {"queued", "running"} \/ row'[e].state = "pending" \/ e \in dropped'
             \/ op'.mail = e /\ op'.pc \in Starting
      PROVE  AnswerOK(e)'
  BY <1>g, <1>n
\* The exchange keeps what it has: its row, its holder or its run.
<1>s. ASSUME mail'[e].status \in {"queued", "running"} => mail'[e].status = mail[e].status, t1 = t,
             row'[e].state = row[e].state, dropped \subseteq dropped',
             t \in Runs => task'[t] = task[t],
             \/ op' = op
             \/ ~(op.mail = e /\ op.pc \in Starting) /\ op'.pc \notin Answered
      PROVE  AnswerOK(e)'
  BY <1>h, <1>g, <1>s, <1>x
<1>1. ASSUME NEW x \in Exchanges, SendPut(x) PROVE AnswerOK(e)'
  <2>1. row' = row /\ task' = task /\ dropped' = dropped /\ op.pc = "free"
    BY <1>1 DEF SendPut, history
  <2>2. op'.mail = x /\ op'.pc \in {"start", "deliver"}
    BY <1>1, SendPutEffect
  <2>3. CASE e = x
    BY <1>n, <2>2, <2>3
  <2>4. CASE e # x
    <3>1. mail'[e] = mail[e]
      BY <1>1, <2>4, SendPutEffect
    <3> QED
      BY <1>s, <2>1, <2>2, <3>1 DEF Answered, t, t1
  <2> QED
    BY <2>3, <2>4
<1>2. ASSUME SendDeliver PROVE AnswerOK(e)'
  <2> DEFINE w == [state |-> "pending", target |-> op.copy.target,
                   kind |-> IF op.copy.status = "queued" THEN "followup" ELSE "steer"]
  <2>1. /\ op.mail \in Exchanges /\ op' = Free /\ mail' = mail /\ task' = task /\ dropped' = dropped
        /\ row' = [row EXCEPT ![op.mail] = w]
    BY <1>2, Typed DEF SendDeliver, InSend, history
  <2>2. w.state = "pending"
    OBVIOUS
  <2> HIDE DEF w
  <2>3. CASE e = op.mail
    BY <1>x, <1>n, <2>1, <2>2, <2>3
  <2>4. CASE e # op.mail
    BY <1>x, <1>s, <1>f, <2>1, <2>4 DEF t, t1
  <2> QED
    BY <2>3, <2>4
<1>3. ASSUME SendUndone PROVE AnswerOK(e)'
  <2>1. /\ op.mail \in Exchanges /\ op' = Free /\ row' = row /\ task' = task /\ dropped' = dropped
        /\ mail' = [mail EXCEPT ![op.mail] = NoExchange]
    BY <1>3, Typed DEF SendUndone, InSend, history
  <2>2. CASE e = op.mail
    BY <1>x, <1>n, <2>1, <2>2, ExchangeFields
  <2>3. CASE e # op.mail
    BY <1>x, <1>s, <1>f, <2>1, <2>3 DEF t, t1
  <2> QED
    BY <2>2, <2>3
<1>4. ASSUME SendSettle PROVE AnswerOK(e)'
  <2>1. /\ op.pc = "settle" /\ op.mail \in Exchanges /\ op' = Free /\ row' = row /\ task' = task
        /\ dropped' = IF mail[op.mail].status \in Receipt THEN dropped \cup {op.mail} ELSE dropped
    BY <1>4, Typed DEF SendSettle, InSend
  <2>2. CASE e = op.mail /\ mail[e].status \in Receipt
    BY <1>n, <2>1, <2>2
  <2>3. CASE e = op.mail /\ mail[e].status \notin Receipt
    <3>1. op.copy.target = op.run /\ mail[e].target = op.run /\ mail[e].status # "none"
      BY <2>1, <2>3 DEF ShapeInv, ShapeOK
    <3>2. mail'[e].target = mail[e].target
      BY <1>4, <2>3, <3>1, SendSettleEffect
    <3>3. mail[e].status \in {"queued", "running"}
      BY <1>x, <2>3, <3>1, ExchangeFields
    <3>4. op'.pc \notin Answered
      BY <1>f, <2>1
    <3>5. \/ row'[e].state = "pending" \/ e \in dropped'
          \/ t1 # NoRun /\ task'[t1] \in Live /\ ~(task'[t1] = "completed")
      BY <1>h, <2>1, <2>3, <3>2, <3>3 DEF t, t1
    <3> QED
      BY <1>g, <3>4, <3>5
  <2>4. CASE e # op.mail
    <3>1. mail'[e] = mail[e] /\ dropped \subseteq dropped'
      BY <1>4, <2>1, <2>4, SendSettleEffect
    <3> QED
      BY <1>s, <1>f, <2>1, <2>4, <3>1 DEF t, t1
  <2> QED
    BY <2>2, <2>3, <2>4
<1>5. ASSUME NEW r \in Runs, NEW steering, StartTurn(r, steering) PROVE AnswerOK(e)'
  <2>1. /\ mail' = mail /\ row' = row /\ op' = op /\ dropped' = dropped
        /\ task[r] = "none" /\ task' = [task EXCEPT ![r] = "running"] /\ op.pc = "free"
    BY <1>5 DEF StartTurn, FreshRun, history
  <2>2. CASE t = r
    <3>1. ~(task[t] \in Live)
      BY <2>1, <2>2 DEF Live
    <3> QED
      BY <1>h, <1>n, <2>1, <3>1
  <2>3. CASE t # r
    BY <1>x, <1>s, <2>1, <2>3 DEF t, t1
  <2> QED
    BY <2>2, <2>3
<1>6. ASSUME NEW r \in Runs, NEW steering \in BOOLEAN, LaunchRecord(r, steering) PROVE AnswerOK(e)'
  <2>1. mail' = mail /\ row' = row /\ task' = task /\ dropped' = dropped
    BY <1>6 DEF LaunchRecord, history
  <2>2. op'.pc = "launch" /\ op'.mail = op.mail
    BY <1>6, LaunchRecordEffect
  <2>3. CASE e = op.mail
    BY <1>n, <2>2, <2>3
  <2>4. CASE e # op.mail
    BY <1>s, <2>1, <2>2, <2>4 DEF t, t1, Answered
  <2> QED
    BY <2>3, <2>4
<1>7. ASSUME NEW x \in Exchanges, ClaimQueuedMail(x) PROVE e = x => AnswerOK(e)'
  BY <1>n, <1>7, ClaimEffectQ
<1>8. ASSUME NEW x \in Exchanges, ResumeQueuedMail(x) PROVE AnswerOK(e)'
  <2>1. op.pc = "free" /\ ClaimQueuedMail(x) /\ mail' = mail /\ task' = task /\ dropped' = dropped
    BY <1>8 DEF ResumeQueuedMail, history
  <2>2. op'.pc = "start" /\ \A y \in Exchanges \ {x} : row'[y] = row[y]
    BY <2>1, ClaimEffectQ
  <2>3. CASE e # x
    BY <1>s, <2>1, <2>2, <2>3 DEF t, t1, Answered
  <2> QED
    BY <1>7, <2>1, <2>3
<1>9. ASSUME NEW x \in Exchanges, DeleteRow(x) PROVE AnswerOK(e)'
  <2>1. /\ op' = op /\ mail' = mail /\ task' = task /\ dropped' = dropped \cup {x}
        /\ \A y \in Exchanges \ {x} : row'[y] = row[y]
    BY <1>9, <1>x DEF DeleteRow
  <2>2. CASE e = x
    BY <1>n, <2>1, <2>2
  <2>3. CASE e # x
    BY <1>s, <2>1, <2>3 DEF t, t1
  <2> QED
    BY <2>2, <2>3
<1>10. ASSUME LaunchMail PROVE AnswerOK(e)'
  <2>1. row' = row /\ task' = task /\ dropped' = dropped
    BY <1>10 DEF LaunchMail, history
  <2>2. op'.pc = "spawn" /\ op'.mail = op.mail
    BY <1>10, LaunchMailEffect
  <2>3. CASE e = op.mail
    BY <1>n, <2>2, <2>3
  <2>4. CASE e # op.mail
    <3>1. mail'[e] = mail[e]
      BY <1>10, <2>4, LaunchMailEffect
    <3> QED
      BY <1>s, <2>1, <2>2, <2>4, <3>1 DEF t, t1, Answered
  <2> QED
    BY <2>3, <2>4
<1>11. ASSUME LaunchSpawn PROVE AnswerOK(e)'
  <2>1. /\ mail' = mail /\ row' = row /\ dropped' = dropped /\ task' = [task EXCEPT ![op.run] = "running"]
        /\ op.pc = "spawn" /\ op.run \in Runs /\ (op' = Free \/ op'.pc = "settle")
    BY <1>11, LaunchSpawnEffect DEF LaunchSpawn
  <2>2. op'.pc \notin Answered
    BY <1>f, <2>1 DEF Answered
  <2>3. CASE t = op.run
    <3>1. t1 # NoRun /\ task'[t1] = "running"
      BY <1>x, <2>1, <2>3 DEF t, t1
    <3> QED
      BY <1>g, <2>2, <3>1 DEF Live
  <2>4. CASE t # op.run /\ e = op.mail
    <3>1. mail[e].status = "none"
      BY <2>1, <2>4 DEF ShapeInv, ShapeOK, t
    <3> QED
      BY <1>n, <2>1, <3>1
  <2>5. CASE t # op.run /\ e # op.mail
    BY <1>x, <1>s, <2>1, <2>2, <2>5 DEF t, t1
  <2> QED
    BY <2>3, <2>4, <2>5
<1>12. ASSUME StartRejected \/ StartUndone PROVE AnswerOK(e)'
  <2>1. /\ row' = row /\ task' = task /\ dropped' = dropped
        /\ op.pc \in {"start", "undo"} /\ StartFailed
    BY <1>12 DEF StartRejected, StartUndone
  <2>2. CASE e = op.mail
    BY <1>n, <2>1, <2>2, StartFailedEffect
  <2>3. CASE e # op.mail
    <3>1. mail'[e] = mail[e] /\ op' = Free
      BY <2>1, <2>3, StartFailedEffect
    <3> QED
      BY <1>s, <1>f, <2>1, <2>3, <3>1 DEF t, t1
  <2> QED
    BY <2>2, <2>3
<1>26. ASSUME LaunchFailed PROVE AnswerOK(e)'
  <2>1. mail' = mail /\ row' = row /\ task' = task /\ dropped' = dropped
    BY <1>26 DEF LaunchFailed, history
  <2>2. op'.pc = "undo" /\ op'.mail = op.mail
    BY <1>26, LaunchFailedEffect
  <2>3. CASE e = op.mail
    BY <1>n, <2>2, <2>3
  <2>4. CASE e # op.mail
    BY <1>s, <2>1, <2>2, <2>4 DEF t, t1, Answered
  <2> QED
    BY <2>3, <2>4
<1>13. ASSUME NEW r \in Runs, ClaimSteers(r) PROVE AnswerOK(e)'
  <2>1. /\ op' = op /\ mail' = mail /\ task' = task /\ dropped' = dropped /\ task[r] = "running"
        /\ ~PendingSteer(e, r) => row'[e] = row[e]
    BY <1>13 DEF ClaimSteers
  <2>2. CASE PendingSteer(e, r)
    <3>1. t = r
      BY <2>2 DEF PendingSteer, ShapeInv, ShapeOK, t
    <3>2. t1 # NoRun /\ task'[t1] = "running" /\ ~(op'.pc \in Answered /\ op'.run = t1)
      BY <1>x, <1>r, <2>1, <3>1 DEF t, t1
    <3> QED
      BY <1>g, <3>2 DEF Live
  <2>3. CASE ~PendingSteer(e, r)
    BY <1>s, <2>1, <2>3 DEF t, t1
  <2> QED
    BY <2>2, <2>3
\* After the receipts of a run's mail, only its pending steers wait for it.
<1>14. ASSUME NEW r \in Runs, NEW s \in Receipt, NEW who, WriteReceipts(Settled(r), s, who), row' = row
       PROVE  /\ t1 = t
              /\ mail'[e].status \in {"queued", "running"} => mail'[e].status = mail[e].status
              /\ mail'[e].status \in {"queued", "running"} /\ t = r => row[e].state = "pending"
  <2>1. /\ e \in Settled(r) => mail'[e].status \in Receipt /\ mail'[e].target = mail[e].target
        /\ e \notin Settled(r) => mail'[e] = mail[e]
    BY <1>14, <1>x, ReceiptsEffect
  <2>2. e \notin Settled(r) => mail[e].status \notin {"queued", "running"} \/ t # r \/ row[e].state = "pending"
    BY DEF Settled, PendingSteer, t
  <2> QED
    BY <2>1, <2>2 DEF Receipt, t, t1
<1>15. ASSUME NEW r \in Runs, FinishRecord(r) PROVE AnswerOK(e)'
  <2>1. /\ mail' = mail /\ row' = row /\ task' = task /\ dropped' = dropped /\ op.pc = "free"
        /\ op'.run = r /\ op'.pc = IF task[r] = "completed" THEN "retarget" ELSE "fail"
    BY <1>15, FinishRecordEffect
  <2>2. CASE task[r] = "completed"
    BY <1>h, <1>g, <2>1, <2>2 DEF t, t1
  <2>3. CASE task[r] # "completed"
    <3>1. op'.pc \notin Answered
      BY <2>1, <2>3 DEF Answered
    <3> QED
      BY <1>s, <2>1, <3>1 DEF t, t1
  <2> QED
    BY <2>2, <2>3
<1>27. ASSUME NEW x \in Exchanges, FinishFail(x) PROVE AnswerOK(e)'
  <2>1. /\ row' = row /\ op' = op /\ task' = task /\ dropped' = dropped
        /\ WriteReceipts({x}, "failed", "lock") /\ "failed" \in Receipt
    BY <1>27 DEF FinishFail, Receipt
  <2>2. /\ e = x => mail'[e].status \in Receipt
        /\ e # x => mail'[e] = mail[e]
    <3>1. e = x => mail'[e].status \in Receipt
      BY <2>1, <1>x, ReceiptsEffect
    <3>2. e # x => mail'[e] = mail[e]
      BY <2>1 DEF WriteReceipts
    <3> QED
      BY <3>1, <3>2
  <2>3. CASE e = x
    BY <1>n, <2>2, <2>3 DEF Receipt
  <2>4. CASE e # x
    BY <1>s, <2>1, <2>2, <2>4 DEF t, t1
  <2> QED
    BY <2>3, <2>4
<1>28. ASSUME FinishFailed PROVE AnswerOK(e)'
  <2>1. /\ mail' = mail /\ row' = row /\ task' = task /\ dropped' = dropped /\ Settled(op.run) = {}
        /\ op.pc = "fail" /\ op'.pc = "retarget" /\ op'.run = op.run
    BY <1>28, FinishFailedEffect
  <2>2. mail[e].status \in {"queued", "running"} /\ t = op.run => row[e].state = "pending"
    BY <2>1 DEF Settled, PendingSteer, t
  <2> QED
    BY <1>h, <1>g, <2>1, <2>2 DEF Answered, t, t1
<1>16. ASSUME NEW r \in Runs, NEW outcome, RunReplies(r, outcome) PROVE AnswerOK(e)'
  <2>1. /\ row' = row /\ op' = op /\ dropped' = dropped /\ task' = [task EXCEPT ![r] = outcome]
        /\ WriteReceipts(Settled(r), "replied", "task") /\ "replied" \in Receipt
    BY <1>16 DEF RunReplies, Receipt
  <2>2. /\ t1 = t
        /\ mail'[e].status \in {"queued", "running"} => mail'[e].status = mail[e].status
        /\ mail'[e].status \in {"queued", "running"} /\ t = r => row[e].state = "pending"
    BY <1>14, <2>1
  <2>3. CASE t = r
    BY <1>n, <2>1, <2>2, <2>3
  <2>4. CASE t # r
    BY <1>x, <1>s, <2>1, <2>2, <2>4
  <2> QED
    BY <2>3, <2>4
<1>17. ASSUME NEW r \in Runs, NEW outcome, RunEnds(r, outcome) PROVE AnswerOK(e)'
  <2>1. /\ mail' = mail /\ row' = row /\ op' = op /\ dropped' = dropped /\ task' = [task EXCEPT ![r] = outcome]
        /\ outcome \in {"failed", "cancelled"} /\ task[r] = "running"
    BY <1>17 DEF RunEnds, durable, history
  <2>2. CASE t = r
    BY <1>h, <1>g, <1>x, <1>r, <2>1, <2>2 DEF Live, t, t1
  <2>3. CASE t # r
    BY <1>x, <1>s, <2>1, <2>3 DEF t, t1
  <2> QED
    BY <2>2, <2>3
<1>18. ASSUME FinishRetarget PROVE AnswerOK(e)'
  <2>1. /\ task' = task /\ dropped' = dropped
    BY <1>18, Zenon DEF FinishRetarget, history
  <2>2. /\ op.pc = "retarget" /\ op'.pc = "release" /\ op'.run = op.run
        /\ row'[e].state = row[e].state
        /\ mail'[e] = mail[e] \/ PendingSteer(e, op.run)
    BY <1>18, RetargetEffect
  <2>3. CASE PendingSteer(e, op.run)
    BY <1>n, <2>2, <2>3 DEF PendingSteer
  <2>4. CASE mail'[e] = mail[e]
    BY <1>h, <1>g, <2>1, <2>2, <2>4 DEF Answered, t, t1
  <2> QED
    BY <2>2, <2>3, <2>4
<1>19. ASSUME FinishRelease PROVE AnswerOK(e)'
  <2>1. /\ mail' = mail /\ dropped' = dropped /\ op.pc = "release" /\ task' = [task EXCEPT ![op.run] = "done"]
        /\ (\E x \in Exchanges : ClaimQueuedMail(x)) \/ (op' = Free /\ row' = row)
    BY <1>19 DEF FinishRelease, QueuedMail, history
  <2>2. ASSUME op'.pc \notin Answered, row'[e] = row[e] PROVE AnswerOK(e)'
    <3>1. CASE t = op.run
      BY <1>h, <1>n, <2>1, <2>2, <3>1 DEF Answered
    <3>2. CASE t # op.run
      BY <1>x, <1>s, <2>1, <2>2, <3>2 DEF t, t1
    <3> QED
      BY <3>1, <3>2
  <2>3. ASSUME NEW x \in Exchanges, ClaimQueuedMail(x) PROVE AnswerOK(e)'
    <3>1. op'.pc = "start" /\ \A y \in Exchanges \ {x} : row'[y] = row[y]
      BY <2>3, ClaimEffectQ
    <3> QED
      BY <1>7, <2>2, <2>3, <3>1 DEF Answered
  <2> QED
    BY <1>f, <2>1, <2>2, <2>3
<1>20. ASSUME NEW x \in Exchanges, NEW who, MarkProjected(x, who) PROVE AnswerOK(e)'
  <2>1. row' = row /\ op' = op /\ task' = task /\ dropped' = dropped
    BY <1>20 DEF MarkProjected, history
  <2>2. mail'[e].status = mail[e].status /\ mail'[e].target = mail[e].target
    BY <1>20, MarkProjectedEffect
  <2> QED
    BY <1>s, <2>1, <2>2 DEF t, t1
<1>21. ASSUME NEW o \in OriginRuns, OriginClaim(o) PROVE AnswerOK(e)'
  <2>1. row' = row /\ op' = op /\ task' = task /\ dropped' = dropped
    BY <1>21, Zenon DEF OriginClaim, history
  <2>2. mail'[e].status = mail[e].status /\ mail'[e].target = mail[e].target
    BY <1>21, OriginClaimEffect
  <2> QED
    BY <1>s, <2>1, <2>2 DEF t, t1
<1>22. ASSUME NEW x \in Exchanges, OriginWait(x) PROVE AnswerOK(e)'
  <2>1. row' = row /\ op' = op /\ task' = task /\ dropped' = dropped
    BY <1>22 DEF OriginWait
  <2>2. mail'[e].status = mail[e].status /\ mail'[e].target = mail[e].target
    BY <1>22, OriginWaitEffect
  <2> QED
    BY <1>s, <2>1, <2>2 DEF t, t1
<1>23. ASSUME Restart PROVE AnswerOK(e)'
  <2>1. /\ row'[e].state = row[e].state
        /\ mail[e].status = "running" /\ mail[e].target \in Interrupted => mail'[e].status = "failed"
        /\ mail[e].status # "running" => mail'[e].status = mail[e].status
        /\ e \in CutOff => mail'[e].status = "failed" \/ e \in dropped'
        /\ mail'[e].status = mail[e].status \/ mail'[e].status = "failed"
        /\ dropped \subseteq dropped'
    BY <1>23, RestartEffect
  <2>2. CASE mail[e].status \notin {"queued", "running"} \/ row[e].state = "pending" \/ e \in dropped
    BY <1>n, <2>1, <2>2
  <2>3. CASE e \in CutOff
    BY <1>n, <2>1, <2>3
  <2>4. CASE op.mail = e /\ op.pc \in {"deliver", "start", "launch", "undo"}
    BY <2>3, <2>4 DEF CutOff
  <2>5. CASE op.mail = e /\ op.pc = "spawn"
    <3>1. mail[e].status = "none" \/ (mail[e].status = "running" /\ mail[e].target = op.run)
      BY <2>5 DEF ShapeInv, ShapeOK
    <3>2. op.run \in Interrupted
      BY <1>r, <2>5, Typed DEF Interrupted, WithRun
    <3> QED
      BY <1>n, <2>1, <3>1, <3>2
  <2>6. CASE /\ mail[e].status \in {"queued", "running"} /\ t # NoRun /\ task[t] \in Live
             /\ ~(op.pc \in Answered /\ op.run = t)
    <3>1. mail[e].status = "running"
      BY <2>6 DEF ShapeInv, ShapeOK, t
    <3>2. CASE op.pc = "fail" /\ op.run = t
      <4>1. row[e].state = "pending" \/ e \in Settled(op.run)
        BY <2>6, <3>2 DEF Settled, PendingSteer, t
      <4> QED
        BY <2>2, <2>3, <3>2, <4>1 DEF CutOff
    <3>3. CASE ~(op.pc = "fail" /\ op.run = t)
      <4>1. t \in Interrupted
        BY <1>x, <1>r, <2>6, <3>3 DEF Interrupted, Finishing, Answered
      <4> QED
        BY <1>n, <2>1, <3>1, <4>1 DEF t
    <3> QED
      BY <3>2, <3>3
  <2> QED
    BY <1>h, <2>2, <2>4, <2>5, <2>6
<1>24. ASSUME NEW x \in Exchanges, NEW who, PostReply(x, who) PROVE AnswerOK(e)'
  BY <1>s, <1>24 DEF PostReply, durable, t, t1
<1>25. ASSUME OriginStart \/ OriginEnd \/ UNCHANGED vars PROVE AnswerOK(e)'
  BY <1>s, <1>25 DEF OriginStart, OriginEnd, vars, durable, history, t, t1
<1> QED
  BY <1>1, <1>2, <1>3, <1>4, <1>5, <1>6, <1>8, <1>9, <1>10, <1>11, <1>12, <1>13, <1>15, <1>16, <1>17,
     <1>18, <1>19,
     <1>20, <1>21, <1>22, <1>23, <1>24, <1>25, <1>26, <1>27, <1>28 DEF Next, Send, Start, RunStep, Origin

-----------------------------------------------------------------------------
(* The theorems.                                                           *)

LinkedInv == LinkedType /\ HandInv /\ PostInv /\ SeenInv /\ RunInv /\ ShapeInv /\ WriterInv /\ AnswerInv

\* It holds before the first message.
LEMMA LinkedInit == ASSUME MailConstants, Init PROVE LinkedInv
<1>1. /\ \A e \in Exchanges : mail[e] = NoExchange /\ row[e] = NoRow /\ handed[e] = {}
      /\ \A r \in Runs : task[r] = "none"
      /\ op = Free /\ op.pc = "free" /\ op.mail = NoMail /\ origin.pc = "idle" /\ origin.claimed = {}
      /\ posting = {} /\ seen = {}
  BY OpFields DEF Init, Idle
<1>2. \A e \in Exchanges : mail[e].status = "none" /\ mail[e].projected = FALSE /\ row[e].state = "none"
                           /\ op.mail # e
  BY <1>1, ExchangeFields, RowFields, Zenon DEF MailConstants
<1>3. LinkedType
  <2>1. mail \in [Exchanges -> MailRecord] /\ row \in [Exchanges -> RowRecord] /\ op \in OpRecord
    BY ExchangeFields, RowFields, OpFields, Zenon DEF Init
  <2>2. OpOK /\ OriginOK
    BY <1>1 DEF OpOK, OriginOK, InSend, WithRun
  <2>3. slot \in [run: Runs \cup {NoRun}, steering: BOOLEAN] /\ origin \in OriginState
    BY DEF Init, EmptySlot, Idle, OriginState
  <2>4. restarts \in 0..MaxRestarts
    BY DEF Init, MailConstants
  <2> QED
    BY <2>1, <2>2, <2>3, <2>4, TypeByVariable DEF Init, RunStatus, TaskState
<1>4. HandInv
  BY <1>1, <1>2, Zenon DEF HandInv, HandOK, InHand
<1>5. PostInv
  BY <1>1, <1>2, Zenon DEF PostInv, PostOK, Receipt, Waiting, Mark
<1>6. SeenInv
  BY <1>1 DEF SeenInv
<1>7. RunInv
  BY <1>1 DEF RunInv, RunOK, Live, Finishing, Init, EmptySlot, MailConstants
<1>8. ShapeInv
  BY <1>1, <1>2, ExchangeFields, Zenon DEF ShapeInv, ShapeOK
<1>9. AnswerInv
  BY <1>2 DEF AnswerInv, AnswerOK, Waiting
<1>10. WriterInv
  BY <1>1, <1>2, Zenon DEF WriterInv, WriterOK, LockPosts, TaskPosts
<1> QED
  BY <1>3, <1>4, <1>5, <1>6, <1>7, <1>8, <1>9, <1>10 DEF LinkedInv

\* The inductive invariant of the mail between linked threads: sends, launches,
\* runs, their finish, the origin's claims and exits keep it.
THEOREM LinkedInvariant == Spec => []LinkedInv
<1>1. Init => LinkedInv
  BY LinkedInit, MailConstants
<1>2. LinkedInv /\ [Next]_vars => LinkedInv'
  <2> SUFFICES ASSUME LinkedInv, [Next]_vars PROVE LinkedInv'
    OBVIOUS
  <2> USE MailConstants DEF LinkedInv
  <2>1. LinkedType'
    BY TypeStep
  <2>2. HandInv'
    BY HandStep
  <2>3. PostInv'
    BY PostStep
  <2>4. SeenInv'
    BY SeenStep
  <2>5. RunInv'
    BY TaskStep
  <2>6. ShapeInv'
    BY ShapeStep
  <2>7. WriterInv'
    BY WriterStep
  <2>8. AnswerInv'
    BY AnswerStep
  <2> QED
    BY <2>1, <2>2, <2>3, <2>4, <2>5, <2>6, <2>7, <2>8
<1> QED
  BY <1>1, <1>2, PTL DEF Spec

\* linked_thread_send and launch_turn: every variable keeps its type.
THEOREM LinkedTyped == Spec => []TypeOK
<1>1. LinkedInv => TypeOK
  BY DEF LinkedInv, LinkedType
<1> QED
  BY <1>1, LinkedInvariant, PTL

\* linked_thread_send, prepare_model_step and start_queued_turn: a message is
\* handed to at most one run of the target, across failed starts and exits.
THEOREM MailGoesToOneRun == Spec => []MailHandedOverOnce
<1>1. LinkedInv => MailHandedOverOnce
  BY DEF LinkedInv, HandInv, HandOK, MailHandedOverOnce
<1> QED
  BY <1>1, LinkedInvariant, PTL

\* complete_mailbox_exchange, finish_run and reconcile_control_startup: an
\* exchange without a receipt keeps something that will produce one, but for the
\* mail a client deleted, an exit cut off or a stale copy put back to running.
THEOREM MailGetsItsAnswer == Spec => []AnswerIsComing
<1>1. LinkedInv => AnswerIsComing
  BY DEF LinkedInv, AnswerInv, AnswerOK, AnswerIsComing, Waiting, Live, LiveRun
<1> QED
  BY <1>1, LinkedInvariant, PTL

\* project_mailbox_reply and reconcile_mailbox_projections: the last receipt of a
\* mail is in the origin's timeline or its writer is posting it, but for mail that
\* was back in delivery after a receipt of it had been projected.
THEOREM ReceiptIsPosted == Spec => []ReceiptReachesTimeline
<1>1. LinkedInv => ReceiptReachesTimeline
  BY DEF LinkedInv, PostInv, PostOK, Posted, ReceiptReachesTimeline, Event
<1> QED
  BY <1>1, LinkedInvariant, PTL

\* control_claim_mailbox_replies and linked_thread_wait: no receipt is given to
\* two runs of the origin.
THEOREM ReceiptGoesToOneRun == Spec => []ReceiptConsumedOnce
<1>1. LinkedInv => ReceiptConsumedOnce
  BY DEF LinkedInv, SeenInv, ReceiptConsumedOnce
<1> QED
  BY <1>1, LinkedInvariant, PTL

\* A receipt outside delivery keeps its status in a step.
LEMMA ReceiptStays ==
  ASSUME MailConstants, LinkedType, [Next]_vars, NEW e \in Exchanges,
         mail[e].status \in Receipt, ~Pending(e), op.mail # e
  PROVE  mail'[e].status = mail[e].status
<1> DEFINE Same == mail'[e].status = mail[e].status
<1>x. mail \in [Exchanges -> MailRecord] /\ receipts \in [Exchanges -> Nat]
  BY Typed
<1>1. ASSUME NEW x \in Exchanges, SendPut(x) PROVE Same
  <2>1. mail[x] = NoExchange
    BY <1>1 DEF SendPut
  <2>2. x # e
    BY <2>1, ExchangeFields DEF Receipt
  <2> QED
    BY <1>1, <2>2, SendPutEffect
<1>2. ASSUME SendUndone PROVE Same
  BY <1>2, <1>x DEF SendUndone
<1>3. ASSUME SendSettle PROVE Same
  BY <1>3, SendSettleEffect
<1>4. ASSUME LaunchMail PROVE Same
  BY <1>4, LaunchMailEffect
<1>5. ASSUME StartRejected \/ StartUndone PROVE Same
  BY <1>5, StartFailedEffect DEF StartRejected, StartUndone
<1>6. ASSUME NEW r, NEW E, E \subseteq Settled(r), NEW s, NEW who, WriteReceipts(E, s, who) PROVE Same
  <2>1. e \notin E
    BY <1>6 DEF Settled, Receipt
  <2> QED
    BY <1>6, <2>1 DEF WriteReceipts
<1>7. ASSUME NEW x \in Exchanges, FinishFail(x) PROVE Same
  BY <1>6, <1>7 DEF FinishFail
<1>8. ASSUME NEW r \in Runs, NEW outcome, RunReplies(r, outcome) PROVE Same
  BY <1>6, <1>8 DEF RunReplies
<1>9. ASSUME FinishRetarget PROVE Same
  <2>1. ~PendingSteer(e, op.run)
    BY DEF PendingSteer, Pending
  <2> QED
    BY <1>9, <2>1, RetargetEffect
<1>10. ASSUME NEW x \in Exchanges, NEW who, MarkProjected(x, who) PROVE Same
  BY <1>10, MarkProjectedEffect
<1>11. ASSUME NEW o \in OriginRuns, OriginClaim(o) PROVE Same
  BY <1>11, OriginClaimEffect
<1>12. ASSUME NEW x \in Exchanges, OriginWait(x) PROVE Same
  BY <1>12, OriginWaitEffect
<1>13. ASSUME Restart PROVE Same
  <2>1. mail[e].status # "running"
    BY DEF Receipt
  <2> QED
    BY <1>13, <2>1, RestartEffect
<1>14. ASSUME NEW r \in Runs, NEW steering, NEW outcome,
              \/ StartTurn(r, steering) \/ LaunchRecord(r, steering) \/ ClaimSteers(r) \/ RunEnds(r, outcome)
              \/ FinishRecord(r)
       PROVE  Same
  BY <1>14 DEF StartTurn, LaunchRecord, ClaimSteers, RunEnds, FinishRecord, durable
<1>15. ASSUME NEW x \in Exchanges, NEW who, ResumeQueuedMail(x) \/ DeleteRow(x) \/ PostReply(x, who) PROVE Same
  BY <1>15 DEF ResumeQueuedMail, DeleteRow, PostReply, durable
<1>16. ASSUME \/ SendDeliver \/ LaunchSpawn \/ LaunchFailed \/ FinishFailed \/ FinishRelease \/ OriginStart
              \/ OriginEnd \/ UNCHANGED vars
       PROVE  Same
  BY <1>16 DEF SendDeliver, LaunchSpawn, LaunchFailed, FinishFailed, FinishRelease, OriginStart, OriginEnd,
     vars, durable
<1> HIDE DEF Same
<1>17. Same
  BY <1>1, <1>2, <1>3, <1>4, <1>5, <1>7, <1>8, <1>9, <1>10, <1>11, <1>12, <1>13, <1>14, <1>15, <1>16
  DEF Next, Send, Start, RunStep, Origin
<1> QED
  BY <1>17 DEF Same

\* complete_mailbox_exchange and control_put_mailbox: no later failure, finish
\* or restart changes the receipt of a mail that is no longer in delivery.
THEOREM ReceiptsStayFinal == Spec => ReceiptIsFinal
<1>1. LinkedInv /\ [Next]_vars =>
        [\A e \in Exchanges : mail[e].status \in Receipt /\ ~Pending(e) /\ op.mail # e
                                => mail'[e].status = mail[e].status]_vars
  BY ReceiptStays, MailConstants DEF LinkedInv
<1> QED
  BY <1>1, LinkedInvariant, PTL DEF Spec, ReceiptIsFinal
=============================================================================
