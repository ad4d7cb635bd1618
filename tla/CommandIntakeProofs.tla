------------------------- MODULE CommandIntakeProofs -------------------------
(***************************************************************************)
(* Command intake, for every set of commands, requests and tokens: answers *)
(* are durable, a command whose receipt could be written takes effect      *)
(* once, a token clears one request, a used upload's command has its       *)
(* receipt, a committed restore stays as it was committed, and the intake  *)
(* implements OneReceipt.                                                  *)
(*                                                                         *)
(* None of these is inductive.  The invariant adds what the code keeps in  *)
(* its locals and guards: a request inside the command lock is its holder; *)
(* while it is cleared to apply there is neither an effect nor a receipt;  *)
(* an effect has a receipt, or a writer inside the lock; and a receipt on  *)
(* the blocking pool belongs to such a writer or to an orphaned command.   *)
(***************************************************************************)
EXTENDS CommandIntake, TLAPS

InLock == {"locked", "checked", "apply", "writing", "written"}

\* A request that arrived has a command; one that applied has a result.
RequestShape ==
  \A q \in Requests :
     /\ req[q].pc # "new" /\ answer[q] # "refused" => req[q].cmd \in Commands \/ answer[q] = "none"
     /\ req[q].pc \in Admitted => req[q].cmd \in Commands /\ answer[q] = "none"
     /\ req[q].pc \in {"new", "gone"} => answer[q] = "none"
     /\ answer[q] \in Result => req[q].cmd \in Commands
     /\ q \in writes => /\ req[q].cmd \in Commands /\ req[q].result \in Result
                       /\ req[q].pc \in {"writing", "gone"}
     /\ req[q].pc \in {"writing", "written"} => req[q].result \in Result
     /\ req[q].pc = "writing" => q \in writes

\* A restore and admitted requests exclude each other.
FenceExcludes == fence # "open" => \A q \in Requests : req[q].pc \notin Admitted

\* Requests inside the command lock hold it; the others do not.
LockHeld ==
  \A q \in Requests :
     /\ req[q].pc \in InLock => want[q] = req[q].cmd /\ holder[req[q].cmd] = q
     /\ req[q].pc = "waiting" => want[q] = req[q].cmd /\ holder[req[q].cmd] # q
     /\ req[q].pc \notin Admitted => want[q] = NoCommand
     /\ \A c \in Commands : holder[c] = q => req[q].pc \in InLock /\ req[q].cmd = c

\* A written receipt is the request's own result.
WrittenIsDurable ==
  \A q \in Requests : req[q].pc = "written" => receipt[req[q].cmd] = req[q].result

\* A receipt still to be written has its request inside the lock, or the command
\* is orphaned.
WritersAreKnown ==
  \A q \in Requests : q \in writes /\ req[q].pc = "gone" => req[q].cmd \in orphaned

\* Until it is orphaned, a command cleared to apply has neither effect nor
\* receipt, and an effect is single and has a receipt or its writer.
EffectIsAccountedFor ==
  \A c \in Commands : c \notin orphaned =>
     /\ effect[c] <= 1
     /\ \A q \in Requests : req[q].pc \in {"checked", "apply"} /\ req[q].cmd = c =>
           effect[c] = 0 /\ receipt[c] = "none"
     /\ effect[c] = 1 /\ receipt[c] = "none" =>
           \E q \in Requests : req[q].pc = "writing" /\ req[q].cmd = c

\* Tokens: a pending one was issued for its command, none is issued for two
\* commands, and one that was spent is pending no more and cleared one request.
TokenInv ==
  /\ \A c \in Commands : grant[c] # NoToken => <<c, grant[c]>> \in issued
  /\ \A c, d \in Commands, t \in Tokens : <<c, t>> \in issued /\ <<d, t>> \in issued => c = d
  /\ \A t \in Tokens, q \in Requests : <<t, q>> \in spent =>
        /\ \E c \in Commands : <<c, t>> \in issued
        /\ \A c \in Commands : grant[c] # t
  /\ \A t \in Tokens, p, q \in Requests : <<t, p>> \in spent /\ <<t, q>> \in spent => p = q

\* The parts about receipts, effects, locks and restores, which are inductive on
\* their own, and the whole invariant.
IntakeCore ==
  /\ TypeOK /\ RequestShape /\ FenceExcludes /\ LockHeld
  /\ WrittenIsDurable /\ AnswerIsDurable /\ WritersAreKnown /\ EffectIsAccountedFor

IntakeInv == IntakeCore /\ UploadKeptForRetry /\ TokenInv

\* A count of at most one that is not one is zero.
LEMMA ZeroOrOne == ASSUME NEW n \in Nat, n <= 1, n # 1 PROVE n = 0
OBVIOUS

\* The invariant holds in a fresh profile.
LEMMA IntakeInvInit == Init => IntakeInv
BY IntakeConstants DEF Init, Mutex!Init, NewReq, ReqRecord, Admitted, InLock, Result, IntakeInv, IntakeCore,
   TypeOK,    RequestShape, FenceExcludes, LockHeld, WrittenIsDurable, AnswerIsDurable, WritersAreKnown,
   EffectIsAccountedFor, UploadKeptForRetry, TokenInv

\* Every step keeps the types.
LEMMA TypeStep == IntakeCore /\ [Next]_vars => TypeOK'
<1> SUFFICES ASSUME IntakeCore, [Next]_vars PROVE TypeOK' OBVIOUS
<1> USE IntakeConstants DEF IntakeCore, TypeOK, ReqRecord, Admitted, Result, durable, lock, memory, history,
        RequestShape
<1>1. ASSUME NEW q \in Requests, Refuse(q) PROVE TypeOK'
      BY <1>1 DEF Refuse, Goto
<1>2. ASSUME NEW q \in Requests, EnterLock(q) PROVE TypeOK'
      BY <1>2 DEF EnterLock, Mutex!Enter, Goto
<1>3. ASSUME NEW q \in Requests, Replay(q) PROVE TypeOK'
  <2>0. req[q] \in ReqRecord /\ q \in Requests BY DEF ReqRecord
  <2>1. req' \in [Requests -> ReqRecord] BY <1>3, <2>0 DEF Replay, Finish, Mutex!Leave, Goto
  <2>2. /\ holder' \in [Commands -> Requests \cup {NoRequest}]
        /\ want' \in [Requests -> Commands \cup {NoCommand}]
        BY <1>3 DEF Replay, Finish, Mutex!Leave, Goto
  <2>3. answer' \in [Requests -> Result \cup {"none", "refused", "error", "confirm"}]
        BY <1>3 DEF Replay, Finish, Mutex!Leave, Goto
  <2> QED BY <1>3, <2>1, <2>2, <2>3 DEF Replay, Finish, Mutex!Leave, Goto
<1>4. ASSUME NEW q \in Requests, NoReceipt(q) PROVE TypeOK'
      BY <1>4 DEF NoReceipt, Goto
<1>5. ASSUME NEW q \in Requests, UploadMissing(q) PROVE TypeOK'
  <2>0. req[q] \in ReqRecord /\ q \in Requests BY DEF ReqRecord
  <2>1. req' \in [Requests -> ReqRecord] BY <1>5, <2>0 DEF UploadMissing, Finish, Mutex!Leave, Goto
  <2>2. /\ holder' \in [Commands -> Requests \cup {NoRequest}]
        /\ want' \in [Requests -> Commands \cup {NoCommand}]
        BY <1>5 DEF UploadMissing, Finish, Mutex!Leave, Goto
  <2>3. answer' \in [Requests -> Result \cup {"none", "refused", "error", "confirm"}]
        BY <1>5 DEF UploadMissing, Finish, Mutex!Leave, Goto
  <2> QED BY <1>5, <2>1, <2>2, <2>3 DEF UploadMissing, Finish, Mutex!Leave, Goto
<1>6. ASSUME NEW q \in Requests, NEW t \in Tokens, NeedsConfirmation(q, t)
      PROVE TypeOK'
      BY <1>6 DEF NeedsConfirmation, Finish, Mutex!Leave, Goto, TokenLeft, TokenValid
<1>7. ASSUME NEW q \in Requests, Cleared(q) PROVE TypeOK'
      BY <1>7 DEF Cleared, Goto, TokenLeft, TokenValid
<1>8. ASSUME NEW q \in Requests, NEW result \in Result, Apply(q, result) PROVE TypeOK'
  <2>1. req' \in [Requests -> ReqRecord]
    <3>1. req[q] \in ReqRecord OBVIOUS
    <3>2. [req[q] EXCEPT !.pc = "writing", !.result = result] \in ReqRecord BY <3>1
    <3> QED BY <1>8, <3>2 DEF Apply
  <2>2. effect' \in [Commands -> Nat]
    <3>1. req[q].cmd \in Commands BY <1>8 DEF Apply
    <3>2. effect[req[q].cmd] + 1 \in Nat BY <3>1
    <3> QED BY <1>8, <3>1, <3>2 DEF Apply
  <2> QED BY <1>8, <2>1, <2>2 DEF Apply
<1>9. ASSUME NEW q \in Requests, WriteReceipt(q) PROVE TypeOK'
  <2>0. req[q] \in ReqRecord /\ q \in Requests BY DEF ReqRecord
  <2>1. req' \in [Requests -> ReqRecord] BY <1>9, <2>0, SMTT(20) DEF WriteReceipt, Finish, Mutex!Leave, Goto
  <2>2. /\ holder' \in [Commands -> Requests \cup {NoRequest}]
        /\ want' \in [Requests -> Commands \cup {NoCommand}]
        BY <1>9 DEF WriteReceipt, Finish, Mutex!Leave, Goto
  <2>3. answer' \in [Requests -> Result \cup {"none", "refused", "error", "confirm"}]
        BY <1>9 DEF WriteReceipt, Finish, Mutex!Leave, Goto
  <2>4. receipt' \in [Commands -> Result \cup {"none"}] BY <1>9 DEF WriteReceipt
  <2> QED BY <1>9, <2>1, <2>2, <2>3, <2>4 DEF WriteReceipt, Finish, Mutex!Leave, Goto
<1>10. ASSUME NEW q \in Requests, Reply(q) PROVE TypeOK'
      BY <1>10 DEF Reply, Finish, Mutex!Leave, Goto
<1>11. ASSUME NEW q \in Requests, DropRequest(q) PROVE TypeOK'
      BY <1>11 DEF DropRequest, Mutex!Leave, Mutex!Abandon, Goto
<1>12. ASSUME NEW q \in Requests, NEW c \in Commands, NEW t \in Tokens \cup {NoToken}, Arrive(q, c, t)
      PROVE TypeOK'
      BY <1>12 DEF Arrive, Mutex!Request, NewReq
<1>13. ASSUME NEW c \in Commands, PutUpload(c) PROVE TypeOK'
      BY <1>13 DEF PutUpload
<1>14. ASSUME NEW c \in Commands, Expire(c) PROVE TypeOK'
      BY <1>14 DEF Expire
<1>15. CASE BeginRestore
      BY <1>15 DEF BeginRestore
<1>16. CASE CommitRestore
      BY <1>16 DEF CommitRestore
<1>17. CASE RestoreFails
      BY <1>17 DEF RestoreFails
<1>18. CASE Exit
  <2>1. {req[q].cmd : q \in writes} \subseteq Commands OBVIOUS
  <2>2. req' \in [Requests -> ReqRecord]
    <3>1. ASSUME NEW q \in Requests PROVE [req[q] EXCEPT !.pc = "gone"] \in ReqRecord
      <4>1. req[q] \in ReqRecord OBVIOUS
      <4> QED BY <4>1
    <3> QED BY <1>18, <3>1 DEF Exit
  <2> QED BY <1>18, <2>1, <2>2 DEF Exit
<1>19. CASE UNCHANGED vars BY <1>19 DEF vars, durable, lock, memory, history
<1> QED BY <1>1, <1>2, <1>3, <1>4, <1>5, <1>6, <1>7, <1>8, <1>9, <1>10,
           <1>11, <1>12, <1>13, <1>14, <1>15, <1>16, <1>17, <1>18, <1>19
       DEF Next, RequestStep

\* Every step keeps the shape of requests.
LEMMA ShapeStep == IntakeCore /\ [Next]_vars => RequestShape'
<1> SUFFICES ASSUME IntakeCore, [Next]_vars PROVE RequestShape' OBVIOUS
<1> USE IntakeConstants DEF IntakeCore, TypeOK, ReqRecord, Admitted, Result, durable, lock, memory, history,
        RequestShape
<1>1. ASSUME NEW q \in Requests, Refuse(q) PROVE RequestShape'
      BY <1>1 DEF Refuse, Goto
<1>2. ASSUME NEW q \in Requests, EnterLock(q) PROVE RequestShape'
      BY <1>2 DEF EnterLock, Mutex!Enter, Goto
<1>3. ASSUME NEW q \in Requests, Replay(q) PROVE RequestShape'
      BY <1>3 DEF Replay, Finish, Mutex!Leave, Goto
<1>4. ASSUME NEW q \in Requests, NoReceipt(q) PROVE RequestShape'
      BY <1>4 DEF NoReceipt, Goto
<1>5. ASSUME NEW q \in Requests, UploadMissing(q) PROVE RequestShape'
      BY <1>5 DEF UploadMissing, Finish, Mutex!Leave, Goto
<1>6. ASSUME NEW q \in Requests, NEW t \in Tokens, NeedsConfirmation(q, t)
      PROVE RequestShape'
      BY <1>6 DEF NeedsConfirmation, Finish, Mutex!Leave, Goto, TokenLeft, TokenValid
<1>7. ASSUME NEW q \in Requests, Cleared(q) PROVE RequestShape'
      BY <1>7 DEF Cleared, Goto, TokenLeft, TokenValid
<1>8. ASSUME NEW q \in Requests, NEW result \in Result, Apply(q, result) PROVE RequestShape'
      BY <1>8 DEF Apply
<1>9. ASSUME NEW q \in Requests, WriteReceipt(q) PROVE RequestShape'
      BY <1>9 DEF WriteReceipt, Finish, Mutex!Leave, Goto
<1>10. ASSUME NEW q \in Requests, Reply(q) PROVE RequestShape'
      BY <1>10 DEF Reply, Finish, Mutex!Leave, Goto
<1>11. ASSUME NEW q \in Requests, DropRequest(q) PROVE RequestShape'
      BY <1>11 DEF DropRequest, Mutex!Leave, Mutex!Abandon, Goto
<1>12. ASSUME NEW q \in Requests, NEW c \in Commands, NEW t \in Tokens \cup {NoToken}, Arrive(q, c, t)
      PROVE RequestShape'
      BY <1>12 DEF Arrive, Mutex!Request, NewReq
<1>13. ASSUME NEW c \in Commands, PutUpload(c) PROVE RequestShape'
      BY <1>13 DEF PutUpload
<1>14. ASSUME NEW c \in Commands, Expire(c) PROVE RequestShape'
      BY <1>14 DEF Expire
<1>15. CASE BeginRestore
      BY <1>15 DEF BeginRestore
<1>16. CASE CommitRestore
      BY <1>16 DEF CommitRestore
<1>17. CASE RestoreFails
      BY <1>17 DEF RestoreFails
<1>18. CASE Exit
      BY <1>18 DEF Exit
<1>19. CASE UNCHANGED vars BY <1>19 DEF vars, durable, lock, memory, history
<1> QED BY <1>1, <1>2, <1>3, <1>4, <1>5, <1>6, <1>7, <1>8, <1>9, <1>10,
           <1>11, <1>12, <1>13, <1>14, <1>15, <1>16, <1>17, <1>18, <1>19
       DEF Next, RequestStep

\* Admission and restore take the same lock.
LEMMA FenceStep == IntakeCore /\ [Next]_vars => FenceExcludes'
<1> SUFFICES ASSUME IntakeCore, [Next]_vars PROVE FenceExcludes' OBVIOUS
<1> USE IntakeConstants DEF IntakeCore, TypeOK, ReqRecord, Admitted, Result, durable, lock, memory, history,
        FenceExcludes
<1>1. ASSUME NEW q \in Requests, Refuse(q) PROVE FenceExcludes'
      BY <1>1 DEF Refuse, Goto
<1>2. ASSUME NEW q \in Requests, EnterLock(q) PROVE FenceExcludes'
      BY <1>2 DEF EnterLock, Mutex!Enter, Goto
<1>3. ASSUME NEW q \in Requests, Replay(q) PROVE FenceExcludes'
      BY <1>3 DEF Replay, Finish, Mutex!Leave, Goto
<1>4. ASSUME NEW q \in Requests, NoReceipt(q) PROVE FenceExcludes'
      BY <1>4 DEF NoReceipt, Goto
<1>5. ASSUME NEW q \in Requests, UploadMissing(q) PROVE FenceExcludes'
      BY <1>5 DEF UploadMissing, Finish, Mutex!Leave, Goto
<1>6. ASSUME NEW q \in Requests, NEW t \in Tokens, NeedsConfirmation(q, t)
      PROVE FenceExcludes'
      BY <1>6 DEF NeedsConfirmation, Finish, Mutex!Leave, Goto, TokenLeft, TokenValid
<1>7. ASSUME NEW q \in Requests, Cleared(q) PROVE FenceExcludes'
      BY <1>7 DEF Cleared, Goto, TokenLeft, TokenValid
<1>8. ASSUME NEW q \in Requests, NEW result \in Result, Apply(q, result) PROVE FenceExcludes'
      BY <1>8 DEF Apply
<1>9. ASSUME NEW q \in Requests, WriteReceipt(q) PROVE FenceExcludes'
      BY <1>9 DEF WriteReceipt, Finish, Mutex!Leave, Goto
<1>10. ASSUME NEW q \in Requests, Reply(q) PROVE FenceExcludes'
      BY <1>10 DEF Reply, Finish, Mutex!Leave, Goto
<1>11. ASSUME NEW q \in Requests, DropRequest(q) PROVE FenceExcludes'
      BY <1>11 DEF DropRequest, Mutex!Leave, Mutex!Abandon, Goto
<1>12. ASSUME NEW q \in Requests, NEW c \in Commands, NEW t \in Tokens \cup {NoToken}, Arrive(q, c, t)
      PROVE FenceExcludes'
      BY <1>12 DEF Arrive, Mutex!Request, NewReq
<1>13. ASSUME NEW c \in Commands, PutUpload(c) PROVE FenceExcludes'
      BY <1>13 DEF PutUpload
<1>14. ASSUME NEW c \in Commands, Expire(c) PROVE FenceExcludes'
      BY <1>14 DEF Expire
<1>15. CASE BeginRestore
      BY <1>15 DEF BeginRestore
<1>16. CASE CommitRestore
      BY <1>16 DEF CommitRestore
<1>17. CASE RestoreFails
      BY <1>17 DEF RestoreFails
<1>18. CASE Exit
      BY <1>18 DEF Exit
<1>19. CASE UNCHANGED vars BY <1>19 DEF vars, durable, lock, memory, history
<1> QED BY <1>1, <1>2, <1>3, <1>4, <1>5, <1>6, <1>7, <1>8, <1>9, <1>10,
           <1>11, <1>12, <1>13, <1>14, <1>15, <1>16, <1>17, <1>18, <1>19
       DEF Next, RequestStep

\* The command lock follows its requests.
LEMMA LockStep == IntakeCore /\ [Next]_vars => LockHeld'
<1> SUFFICES ASSUME IntakeCore, [Next]_vars PROVE LockHeld' OBVIOUS
<1> USE IntakeConstants DEF IntakeCore, TypeOK, ReqRecord, Admitted, Result, durable, lock, memory, history,
        RequestShape, LockHeld, InLock
<1>1. ASSUME NEW q \in Requests, Refuse(q) PROVE LockHeld'
      BY <1>1 DEF Refuse, Goto
<1>2. ASSUME NEW q \in Requests, EnterLock(q) PROVE LockHeld'
      BY <1>2 DEF EnterLock, Mutex!Enter, Goto
<1>3. ASSUME NEW q \in Requests, Replay(q) PROVE LockHeld'
      BY <1>3 DEF Replay, Finish, Mutex!Leave, Goto
<1>4. ASSUME NEW q \in Requests, NoReceipt(q) PROVE LockHeld'
      BY <1>4 DEF NoReceipt, Goto
<1>5. ASSUME NEW q \in Requests, UploadMissing(q) PROVE LockHeld'
      BY <1>5 DEF UploadMissing, Finish, Mutex!Leave, Goto
<1>6. ASSUME NEW q \in Requests, NEW t \in Tokens, NeedsConfirmation(q, t)
      PROVE LockHeld'
      BY <1>6 DEF NeedsConfirmation, Finish, Mutex!Leave, Goto, TokenLeft, TokenValid
<1>7. ASSUME NEW q \in Requests, Cleared(q) PROVE LockHeld'
      BY <1>7 DEF Cleared, Goto, TokenLeft, TokenValid
<1>8. ASSUME NEW q \in Requests, NEW result \in Result, Apply(q, result) PROVE LockHeld'
      BY <1>8 DEF Apply
<1>9. ASSUME NEW q \in Requests, WriteReceipt(q) PROVE LockHeld'
      BY <1>9 DEF WriteReceipt, Finish, Mutex!Leave, Goto
<1>10. ASSUME NEW q \in Requests, Reply(q) PROVE LockHeld'
      BY <1>10 DEF Reply, Finish, Mutex!Leave, Goto
<1>11. ASSUME NEW q \in Requests, DropRequest(q) PROVE LockHeld'
      BY <1>11 DEF DropRequest, Mutex!Leave, Mutex!Abandon, Goto
<1>12. ASSUME NEW q \in Requests, NEW c \in Commands, NEW t \in Tokens \cup {NoToken}, Arrive(q, c, t)
      PROVE LockHeld'
      BY <1>12 DEF Arrive, Mutex!Request, NewReq
<1>13. ASSUME NEW c \in Commands, PutUpload(c) PROVE LockHeld'
      BY <1>13 DEF PutUpload
<1>14. ASSUME NEW c \in Commands, Expire(c) PROVE LockHeld'
      BY <1>14 DEF Expire
<1>15. CASE BeginRestore
      BY <1>15 DEF BeginRestore
<1>16. CASE CommitRestore
      BY <1>16 DEF CommitRestore
<1>17. CASE RestoreFails
      BY <1>17 DEF RestoreFails
<1>18. CASE Exit
      BY <1>18 DEF Exit
<1>19. CASE UNCHANGED vars BY <1>19 DEF vars, durable, lock, memory, history
<1> QED BY <1>1, <1>2, <1>3, <1>4, <1>5, <1>6, <1>7, <1>8, <1>9, <1>10,
           <1>11, <1>12, <1>13, <1>14, <1>15, <1>16, <1>17, <1>18, <1>19
       DEF Next, RequestStep

\* A written receipt is not overwritten.
LEMMA WrittenStep == IntakeCore /\ [Next]_vars => WrittenIsDurable'
<1> SUFFICES ASSUME IntakeCore, [Next]_vars PROVE WrittenIsDurable' OBVIOUS
<1> USE IntakeConstants DEF IntakeCore, TypeOK, ReqRecord, Admitted, Result, durable, lock, memory, history,
        RequestShape, FenceExcludes, WrittenIsDurable
<1>1. ASSUME NEW q \in Requests, Refuse(q) PROVE WrittenIsDurable'
      BY <1>1 DEF Refuse, Goto
<1>2. ASSUME NEW q \in Requests, EnterLock(q) PROVE WrittenIsDurable'
      BY <1>2 DEF EnterLock, Mutex!Enter, Goto
<1>3. ASSUME NEW q \in Requests, Replay(q) PROVE WrittenIsDurable'
      BY <1>3 DEF Replay, Finish, Mutex!Leave, Goto
<1>4. ASSUME NEW q \in Requests, NoReceipt(q) PROVE WrittenIsDurable'
      BY <1>4 DEF NoReceipt, Goto
<1>5. ASSUME NEW q \in Requests, UploadMissing(q) PROVE WrittenIsDurable'
      BY <1>5 DEF UploadMissing, Finish, Mutex!Leave, Goto
<1>6. ASSUME NEW q \in Requests, NEW t \in Tokens, NeedsConfirmation(q, t)
      PROVE WrittenIsDurable'
      BY <1>6 DEF NeedsConfirmation, Finish, Mutex!Leave, Goto, TokenLeft, TokenValid
<1>7. ASSUME NEW q \in Requests, Cleared(q) PROVE WrittenIsDurable'
      BY <1>7 DEF Cleared, Goto, TokenLeft, TokenValid
<1>8. ASSUME NEW q \in Requests, NEW result \in Result, Apply(q, result) PROVE WrittenIsDurable'
      BY <1>8 DEF Apply
<1>9. ASSUME NEW q \in Requests, WriteReceipt(q) PROVE WrittenIsDurable'
      BY <1>9 DEF WriteReceipt, Finish, Mutex!Leave, Goto
<1>10. ASSUME NEW q \in Requests, Reply(q) PROVE WrittenIsDurable'
      BY <1>10 DEF Reply, Finish, Mutex!Leave, Goto
<1>11. ASSUME NEW q \in Requests, DropRequest(q) PROVE WrittenIsDurable'
      BY <1>11 DEF DropRequest, Mutex!Leave, Mutex!Abandon, Goto
<1>12. ASSUME NEW q \in Requests, NEW c \in Commands, NEW t \in Tokens \cup {NoToken}, Arrive(q, c, t)
      PROVE WrittenIsDurable'
      BY <1>12 DEF Arrive, Mutex!Request, NewReq
<1>13. ASSUME NEW c \in Commands, PutUpload(c) PROVE WrittenIsDurable'
      BY <1>13 DEF PutUpload
<1>14. ASSUME NEW c \in Commands, Expire(c) PROVE WrittenIsDurable'
      BY <1>14 DEF Expire
<1>15. CASE BeginRestore
      BY <1>15 DEF BeginRestore
<1>16. CASE CommitRestore
      BY <1>16 DEF CommitRestore
<1>17. CASE RestoreFails
      BY <1>17 DEF RestoreFails
<1>18. CASE Exit
      BY <1>18 DEF Exit
<1>19. CASE UNCHANGED vars BY <1>19 DEF vars, durable, lock, memory, history
<1> QED BY <1>1, <1>2, <1>3, <1>4, <1>5, <1>6, <1>7, <1>8, <1>9, <1>10,
           <1>11, <1>12, <1>13, <1>14, <1>15, <1>16, <1>17, <1>18, <1>19
       DEF Next, RequestStep

\* Answers come from receipts, and receipts stay.
LEMMA AnswerStep == IntakeCore /\ [Next]_vars => AnswerIsDurable'
<1> SUFFICES ASSUME IntakeCore, [Next]_vars PROVE AnswerIsDurable' OBVIOUS
<1> USE IntakeConstants DEF IntakeCore, TypeOK, ReqRecord, Admitted, Result, durable, lock, memory, history,
        RequestShape, WrittenIsDurable, AnswerIsDurable
<1>1. ASSUME NEW q \in Requests, Refuse(q) PROVE AnswerIsDurable'
      BY <1>1 DEF Refuse, Goto
<1>2. ASSUME NEW q \in Requests, EnterLock(q) PROVE AnswerIsDurable'
      BY <1>2 DEF EnterLock, Mutex!Enter, Goto
<1>3. ASSUME NEW q \in Requests, Replay(q) PROVE AnswerIsDurable'
      BY <1>3 DEF Replay, Finish, Mutex!Leave, Goto
<1>4. ASSUME NEW q \in Requests, NoReceipt(q) PROVE AnswerIsDurable'
      BY <1>4 DEF NoReceipt, Goto
<1>5. ASSUME NEW q \in Requests, UploadMissing(q) PROVE AnswerIsDurable'
      BY <1>5 DEF UploadMissing, Finish, Mutex!Leave, Goto
<1>6. ASSUME NEW q \in Requests, NEW t \in Tokens, NeedsConfirmation(q, t)
      PROVE AnswerIsDurable'
      BY <1>6 DEF NeedsConfirmation, Finish, Mutex!Leave, Goto, TokenLeft, TokenValid
<1>7. ASSUME NEW q \in Requests, Cleared(q) PROVE AnswerIsDurable'
      BY <1>7 DEF Cleared, Goto, TokenLeft, TokenValid
<1>8. ASSUME NEW q \in Requests, NEW result \in Result, Apply(q, result) PROVE AnswerIsDurable'
      BY <1>8 DEF Apply
<1>9. ASSUME NEW q \in Requests, WriteReceipt(q) PROVE AnswerIsDurable'
  <2> SUFFICES ASSUME NEW p \in Requests, answer'[p] \in Result PROVE receipt'[req'[p].cmd] = answer'[p]
      OBVIOUS
  <2>1. answer'[p] = answer[p] /\ req'[p].cmd = req[p].cmd BY <1>9 DEF WriteReceipt, Finish, Goto
  <2>2. receipt[req[p].cmd] = answer[p] /\ req[p].cmd \in Commands BY <2>1
  <2>3. receipt'[req[p].cmd] = receipt[req[p].cmd] BY <1>9, <2>1, <2>2 DEF WriteReceipt
  <2> QED BY <2>1, <2>2, <2>3
<1>10. ASSUME NEW q \in Requests, Reply(q) PROVE AnswerIsDurable'
      BY <1>10 DEF Reply, Finish, Mutex!Leave, Goto
<1>11. ASSUME NEW q \in Requests, DropRequest(q) PROVE AnswerIsDurable'
      BY <1>11 DEF DropRequest, Mutex!Leave, Mutex!Abandon, Goto
<1>12. ASSUME NEW q \in Requests, NEW c \in Commands, NEW t \in Tokens \cup {NoToken}, Arrive(q, c, t)
      PROVE AnswerIsDurable'
      BY <1>12 DEF Arrive, Mutex!Request, NewReq
<1>13. ASSUME NEW c \in Commands, PutUpload(c) PROVE AnswerIsDurable'
      BY <1>13 DEF PutUpload
<1>14. ASSUME NEW c \in Commands, Expire(c) PROVE AnswerIsDurable'
      BY <1>14 DEF Expire
<1>15. CASE BeginRestore
      BY <1>15 DEF BeginRestore
<1>16. CASE CommitRestore
      BY <1>16 DEF CommitRestore
<1>17. CASE RestoreFails
      BY <1>17 DEF RestoreFails
<1>18. CASE Exit
      BY <1>18 DEF Exit
<1>19. CASE UNCHANGED vars BY <1>19 DEF vars, durable, lock, memory, history
<1> QED BY <1>1, <1>2, <1>3, <1>4, <1>5, <1>6, <1>7, <1>8, <1>9, <1>10,
           <1>11, <1>12, <1>13, <1>14, <1>15, <1>16, <1>17, <1>18, <1>19
       DEF Next, RequestStep

\* A dropped writer orphans its command.
LEMMA WritersStep == IntakeCore /\ [Next]_vars => WritersAreKnown'
<1> SUFFICES ASSUME IntakeCore, [Next]_vars PROVE WritersAreKnown' OBVIOUS
<1> USE IntakeConstants DEF IntakeCore, TypeOK, ReqRecord, Admitted, Result, durable, lock, memory, history,
        RequestShape, WritersAreKnown
<1>1. ASSUME NEW q \in Requests, Refuse(q) PROVE WritersAreKnown'
      BY <1>1 DEF Refuse, Goto
<1>2. ASSUME NEW q \in Requests, EnterLock(q) PROVE WritersAreKnown'
      BY <1>2 DEF EnterLock, Mutex!Enter, Goto
<1>3. ASSUME NEW q \in Requests, Replay(q) PROVE WritersAreKnown'
      BY <1>3 DEF Replay, Finish, Mutex!Leave, Goto
<1>4. ASSUME NEW q \in Requests, NoReceipt(q) PROVE WritersAreKnown'
      BY <1>4 DEF NoReceipt, Goto
<1>5. ASSUME NEW q \in Requests, UploadMissing(q) PROVE WritersAreKnown'
      BY <1>5 DEF UploadMissing, Finish, Mutex!Leave, Goto
<1>6. ASSUME NEW q \in Requests, NEW t \in Tokens, NeedsConfirmation(q, t)
      PROVE WritersAreKnown'
      BY <1>6 DEF NeedsConfirmation, Finish, Mutex!Leave, Goto, TokenLeft, TokenValid
<1>7. ASSUME NEW q \in Requests, Cleared(q) PROVE WritersAreKnown'
      BY <1>7 DEF Cleared, Goto, TokenLeft, TokenValid
<1>8. ASSUME NEW q \in Requests, NEW result \in Result, Apply(q, result) PROVE WritersAreKnown'
      BY <1>8 DEF Apply
<1>9. ASSUME NEW q \in Requests, WriteReceipt(q) PROVE WritersAreKnown'
      BY <1>9 DEF WriteReceipt, Finish, Mutex!Leave, Goto
<1>10. ASSUME NEW q \in Requests, Reply(q) PROVE WritersAreKnown'
      BY <1>10 DEF Reply, Finish, Mutex!Leave, Goto
<1>11. ASSUME NEW q \in Requests, DropRequest(q) PROVE WritersAreKnown'
      BY <1>11 DEF DropRequest, Mutex!Leave, Mutex!Abandon, Goto
<1>12. ASSUME NEW q \in Requests, NEW c \in Commands, NEW t \in Tokens \cup {NoToken}, Arrive(q, c, t)
      PROVE WritersAreKnown'
      BY <1>12 DEF Arrive, Mutex!Request, NewReq
<1>13. ASSUME NEW c \in Commands, PutUpload(c) PROVE WritersAreKnown'
      BY <1>13 DEF PutUpload
<1>14. ASSUME NEW c \in Commands, Expire(c) PROVE WritersAreKnown'
      BY <1>14 DEF Expire
<1>15. CASE BeginRestore
      BY <1>15 DEF BeginRestore
<1>16. CASE CommitRestore
      BY <1>16 DEF CommitRestore
<1>17. CASE RestoreFails
      BY <1>17 DEF RestoreFails
<1>18. CASE Exit
      BY <1>18 DEF Exit
<1>19. CASE UNCHANGED vars BY <1>19 DEF vars, durable, lock, memory, history
<1> QED BY <1>1, <1>2, <1>3, <1>4, <1>5, <1>6, <1>7, <1>8, <1>9, <1>10,
           <1>11, <1>12, <1>13, <1>14, <1>15, <1>16, <1>17, <1>18, <1>19
       DEF Next, RequestStep

\* Effects stay accounted for.
LEMMA EffectStep == IntakeCore /\ [Next]_vars => EffectIsAccountedFor'
<1> SUFFICES ASSUME IntakeCore, [Next]_vars PROVE EffectIsAccountedFor' OBVIOUS
<1> USE IntakeConstants DEF IntakeCore, TypeOK, ReqRecord, Admitted, Result, durable, lock, memory, history,
        RequestShape, FenceExcludes, LockHeld, InLock, WrittenIsDurable, WritersAreKnown, EffectIsAccountedFor
<1>1. ASSUME NEW q \in Requests, Refuse(q) PROVE EffectIsAccountedFor'
      BY <1>1 DEF Refuse, Goto
<1>2. ASSUME NEW q \in Requests, EnterLock(q) PROVE EffectIsAccountedFor'
      BY <1>2 DEF EnterLock, Mutex!Enter, Goto
<1>3. ASSUME NEW q \in Requests, Replay(q) PROVE EffectIsAccountedFor'
      BY <1>3 DEF Replay, Finish, Mutex!Leave, Goto
<1>4. ASSUME NEW q \in Requests, NoReceipt(q) PROVE EffectIsAccountedFor'
  <2>1. req[q].cmd \in Commands /\ holder[req[q].cmd] = q BY <1>4 DEF NoReceipt
  <2>2. \A p \in Requests : req[p].pc = "writing" => req[p].cmd # req[q].cmd
        BY <1>4, <2>1 DEF NoReceipt
  <2>3. req[q].cmd \notin orphaned => effect[req[q].cmd] = 0
    <3> SUFFICES ASSUME req[q].cmd \notin orphaned PROVE effect[req[q].cmd] = 0 OBVIOUS
    <3>1. effect[req[q].cmd] \in Nat BY <2>1
    <3>2. effect[req[q].cmd] <= 1 BY <2>1
    <3>3. effect[req[q].cmd] # 1 BY <1>4, <2>1, <2>2 DEF NoReceipt
    <3> QED BY <3>1, <3>2, <3>3, ZeroOrOne
  <2>4. \A p \in Requests : req'[p].cmd = req[p].cmd /\ (p # q => req'[p] = req[p])
        BY <1>4 DEF NoReceipt, Goto
  <2>5. req[q].pc = "locked" /\ req'[q].pc = "checked" BY <1>4 DEF NoReceipt, Goto
  <2>6. effect' = effect /\ receipt' = receipt /\ orphaned' = orphaned /\ receipt[req[q].cmd] = "none"
        BY <1>4 DEF NoReceipt
  <2> SUFFICES ASSUME NEW c \in Commands, c \notin orphaned
               PROVE  /\ effect[c] <= 1
                      /\ \A p \in Requests : req'[p].pc \in {"checked", "apply"} /\ req'[p].cmd = c =>
                            effect[c] = 0 /\ receipt[c] = "none"
                      /\ effect[c] = 1 /\ receipt[c] = "none" =>
                            \E p \in Requests : req'[p].pc = "writing" /\ req'[p].cmd = c
      BY <2>6
  <2>7. effect[c] <= 1 OBVIOUS
  <2>8. ASSUME NEW p \in Requests, req'[p].pc \in {"checked", "apply"}, req'[p].cmd = c
        PROVE  effect[c] = 0 /\ receipt[c] = "none"
        BY <2>3, <2>4, <2>6, <2>8
  <2>9. ASSUME effect[c] = 1, receipt[c] = "none"
        PROVE  \E p \in Requests : req'[p].pc = "writing" /\ req'[p].cmd = c
    <3>1. PICK p \in Requests : req[p].pc = "writing" /\ req[p].cmd = c BY <2>9
    <3> QED BY <2>4, <2>5, <3>1
  <2> QED BY <2>7, <2>8, <2>9
<1>5. ASSUME NEW q \in Requests, UploadMissing(q) PROVE EffectIsAccountedFor'
      BY <1>5 DEF UploadMissing, Finish, Mutex!Leave, Goto
<1>6. ASSUME NEW q \in Requests, NEW t \in Tokens, NeedsConfirmation(q, t)
      PROVE EffectIsAccountedFor'
      BY <1>6 DEF NeedsConfirmation, Finish, Mutex!Leave, Goto, TokenLeft, TokenValid
<1>7. ASSUME NEW q \in Requests, Cleared(q) PROVE EffectIsAccountedFor'
      BY <1>7 DEF Cleared, Goto, TokenLeft, TokenValid
<1>8. ASSUME NEW q \in Requests, NEW result \in Result, Apply(q, result) PROVE EffectIsAccountedFor'
      BY <1>8 DEF Apply
<1>9. ASSUME NEW q \in Requests, WriteReceipt(q) PROVE EffectIsAccountedFor'
  <2>1. effect' = effect /\ orphaned' = orphaned /\ req[q].cmd \in Commands BY <1>9 DEF WriteReceipt
  <2>2. \A p \in Requests : req'[p].cmd = req[p].cmd /\ (p # q => req'[p] = req[p])
        BY <1>9 DEF WriteReceipt, Finish, Goto
  <2>3. req'[q].pc \in {"written", "done", "gone"} BY <1>9 DEF WriteReceipt, Finish, Goto
  <2>4. \A c \in Commands : c # req[q].cmd => receipt'[c] = receipt[c] BY <1>9 DEF WriteReceipt
  <2>5. receipt'[req[q].cmd] # "none" BY <1>9, <2>1 DEF WriteReceipt
  <2> SUFFICES ASSUME NEW c \in Commands, c \notin orphaned
               PROVE  /\ effect[c] <= 1
                      /\ \A p \in Requests : req'[p].pc \in {"checked", "apply"} /\ req'[p].cmd = c =>
                            effect[c] = 0 /\ receipt'[c] = "none"
                      /\ effect[c] = 1 /\ receipt'[c] = "none" =>
                            \E p \in Requests : req'[p].pc = "writing" /\ req'[p].cmd = c
      BY <2>1
  <2>6. effect[c] <= 1 OBVIOUS
  <2>7. CASE c = req[q].cmd
    <3>1. holder[c] = q BY <1>9, <2>7 DEF WriteReceipt
    <3>2. \A p \in Requests : req'[p].pc \in {"checked", "apply"} => req'[p].cmd # c
          BY <2>2, <2>3, <3>1
    <3> QED BY <2>5, <2>6, <2>7, <3>2
  <2>8. CASE c # req[q].cmd
    <3>1. ASSUME NEW p \in Requests, req'[p].pc \in {"checked", "apply"}, req'[p].cmd = c
          PROVE  effect[c] = 0 /\ receipt'[c] = "none"
          BY <2>2, <2>3, <2>4, <2>8, <3>1
    <3>2. ASSUME effect[c] = 1, receipt'[c] = "none"
          PROVE  \E p \in Requests : req'[p].pc = "writing" /\ req'[p].cmd = c
      <4>1. PICK p \in Requests : req[p].pc = "writing" /\ req[p].cmd = c BY <2>4, <2>8, <3>2
      <4> QED BY <2>2, <2>8, <4>1
    <3> QED BY <2>6, <3>1, <3>2
  <2> QED BY <2>7, <2>8
<1>10. ASSUME NEW q \in Requests, Reply(q) PROVE EffectIsAccountedFor'
      BY <1>10 DEF Reply, Finish, Mutex!Leave, Goto
<1>11. ASSUME NEW q \in Requests, DropRequest(q) PROVE EffectIsAccountedFor'
      BY <1>11 DEF DropRequest, Mutex!Leave, Mutex!Abandon, Goto
<1>12. ASSUME NEW q \in Requests, NEW c \in Commands, NEW t \in Tokens \cup {NoToken}, Arrive(q, c, t)
      PROVE EffectIsAccountedFor'
      BY <1>12 DEF Arrive, Mutex!Request, NewReq
<1>13. ASSUME NEW c \in Commands, PutUpload(c) PROVE EffectIsAccountedFor'
      BY <1>13 DEF PutUpload
<1>14. ASSUME NEW c \in Commands, Expire(c) PROVE EffectIsAccountedFor'
      BY <1>14 DEF Expire
<1>15. CASE BeginRestore
      BY <1>15 DEF BeginRestore
<1>16. CASE CommitRestore
      BY <1>16 DEF CommitRestore
<1>17. CASE RestoreFails
      BY <1>17 DEF RestoreFails
<1>18. CASE Exit
      BY <1>18 DEF Exit
<1>19. CASE UNCHANGED vars BY <1>19 DEF vars, durable, lock, memory, history
<1> QED BY <1>1, <1>2, <1>3, <1>4, <1>5, <1>6, <1>7, <1>8, <1>9, <1>10,
           <1>11, <1>12, <1>13, <1>14, <1>15, <1>16, <1>17, <1>18, <1>19
       DEF Next, RequestStep

\* A used upload's command keeps its receipt: receipts are only added, but by a
\* restore, and the upload is used after the receipt was written.
LEMMA UploadStep == IntakeInv /\ [Next]_vars => UploadKeptForRetry'
<1> SUFFICES ASSUME IntakeInv, [Next]_vars PROVE UploadKeptForRetry' OBVIOUS
<1> USE IntakeConstants DEF IntakeInv, IntakeCore, TypeOK, UploadKeptForRetry, durable, lock, memory, history
<1>1. ASSUME UNCHANGED <<receipt, consumed>> PROVE UploadKeptForRetry' BY <1>1
<1>2. ASSUME NEW q \in Requests, RequestStep(q) PROVE UploadKeptForRetry'
  <2>1. ASSUME WriteReceipt(q) PROVE UploadKeptForRetry'
    <3>1. req[q].cmd \in Commands BY <2>1 DEF WriteReceipt, RequestShape
    <3>2. \A c \in Commands : receipt[c] # "none" => receipt'[c] = receipt[c]
          BY <2>1, <3>1 DEF WriteReceipt
    <3>3. consumed' = consumed BY <2>1 DEF WriteReceipt
    <3> QED BY <3>2, <3>3
  <2>2. ASSUME Reply(q) PROVE UploadKeptForRetry'
    <3>1. receipt[req[q].cmd] = req[q].result /\ req[q].result \in Result
          BY <2>2 DEF Reply, WrittenIsDurable, RequestShape
    <3>2. receipt' = receipt /\ consumed' \subseteq consumed \cup {req[q].cmd} BY <2>2 DEF Reply
    <3> QED BY <3>1, <3>2 DEF Result
  <2>3. ASSUME NEW t \in Tokens, NeedsConfirmation(q, t) PROVE UNCHANGED <<receipt, consumed>>
        BY <2>3 DEF NeedsConfirmation
  <2>4. ASSUME NEW result \in Result, Apply(q, result) PROVE UNCHANGED <<receipt, consumed>>
        BY <2>4 DEF Apply
  <2>5. CASE Refuse(q) \/ EnterLock(q) \/ Replay(q) \/ NoReceipt(q) \/ UploadMissing(q) \/ Cleared(q)
        BY <1>1, <2>5 DEF Refuse, EnterLock, Replay, NoReceipt, UploadMissing, Cleared
  <2> QED BY <1>1, <1>2, <2>1, <2>2, <2>3, <2>4, <2>5 DEF RequestStep
<1>3. ASSUME NEW q \in Requests, DropRequest(q) PROVE UNCHANGED <<receipt, consumed>>
      BY <1>3 DEF DropRequest
<1>4. ASSUME NEW q \in Requests, NEW c \in Commands, NEW t \in Tokens \cup {NoToken}, Arrive(q, c, t)
      PROVE  UNCHANGED <<receipt, consumed>>
      BY <1>4 DEF Arrive
<1>5. ASSUME NEW c \in Commands, PutUpload(c) PROVE UploadKeptForRetry' BY <1>5 DEF PutUpload
<1>6. ASSUME NEW c \in Commands, Expire(c) PROVE UNCHANGED <<receipt, consumed>> BY <1>6 DEF Expire
<1>7. CASE CommitRestore BY <1>7 DEF CommitRestore
<1>8. CASE BeginRestore \/ RestoreFails \/ Exit BY <1>1, <1>8 DEF BeginRestore, RestoreFails, Exit
<1>9. CASE UNCHANGED vars BY <1>1, <1>9 DEF vars
<1> QED BY <1>1, <1>2, <1>3, <1>4, <1>5, <1>6, <1>7, <1>8, <1>9 DEF Next

\* A confirmation is issued for one command and used up by the request it clears.
LEMMA TokenStep == IntakeInv /\ [Next]_vars => TokenInv'
<1> SUFFICES ASSUME IntakeInv, [Next]_vars PROVE TokenInv' OBVIOUS
<1> USE IntakeConstants DEF IntakeInv, IntakeCore, TypeOK, TokenInv, durable, lock, memory, history
<1>0. grant \in [Commands -> Tokens \cup {NoToken}] /\ spent \subseteq Tokens \X Requests
      OBVIOUS
<1>1. ASSUME UNCHANGED <<issued, spent>>, \A c \in Commands : grant'[c] \in {grant[c], NoToken}
      PROVE  TokenInv'
  <2>1. \A c \in Commands : grant'[c] # NoToken => <<c, grant'[c]>> \in issued' BY <1>1
  <2>2. \A t \in Tokens, c \in Commands : grant[c] # t => grant'[c] # t BY <1>1
  <2> QED BY <1>1, <2>1, <2>2
<1>2. ASSUME UNCHANGED <<grant, issued, spent>> PROVE TokenInv' BY <1>2
<1>3. ASSUME NEW q \in Requests, RequestStep(q) PROVE TokenInv'
  <2>1. ASSUME NEW t \in Tokens, NeedsConfirmation(q, t) PROVE TokenInv'
    <3> DEFINE c == req[q].cmd
    <3>1. /\ c \in Commands /\ spent' = spent
          /\ grant' = [grant EXCEPT ![c] = t] /\ issued' = issued \cup {<<c, t>>}
          BY <2>1 DEF NeedsConfirmation, RequestShape, Admitted
    <3>2. (grant[c] = t /\ <<c, t>> \in issued) \/ \A x \in issued : x[2] # t
          BY <2>1, <3>1 DEF NeedsConfirmation, TokenLeft
    <3> HIDE DEF c
    <3>3. CASE grant[c] = t /\ <<c, t>> \in issued
      <4>1. grant' = grant /\ issued' = issued BY <3>1, <3>3
      <4> QED BY <1>2, <3>1, <4>1
    <3>4. CASE \A x \in issued : x[2] # t
      <4>1. \A d \in Commands : <<d, t>> \notin issued BY <3>4
      <4>2. \A p \in Requests : <<t, p>> \notin spent BY <4>1
      <4>3. \A d \in Commands : grant'[d] # NoToken => <<d, grant'[d]>> \in issued' BY <3>1
      <4>4. \A d, e \in Commands, s \in Tokens :
               <<d, s>> \in issued' /\ <<e, s>> \in issued' => d = e
            BY <3>1, <4>1
      <4>5. \A s \in Tokens, p \in Requests : <<s, p>> \in spent' =>
               /\ \E d \in Commands : <<d, s>> \in issued'
               /\ \A d \in Commands : grant'[d] # s
            BY <3>1, <4>2, ZenonT(40)
      <4> QED BY <3>1, <4>3, <4>4, <4>5
    <3> QED BY <3>2, <3>3, <3>4
  <2>2. ASSUME Cleared(q) PROVE TokenInv'
    <3> DEFINE c == req[q].cmd
    <3> DEFINE t == req[q].token
    <3>1. c \in Commands /\ issued' = issued
          BY <2>2 DEF Cleared, RequestShape, Admitted
    <3>2. \/ grant' = grant /\ spent' = spent
          \/ /\ t \in Tokens /\ grant[c] = t
             /\ grant' = [grant EXCEPT ![c] = NoToken] /\ spent' = spent \cup {<<t, q>>}
          BY <2>2 DEF Cleared, TokenValid, TokenLeft, ReqRecord
    <3> HIDE DEF c, t
    <3>3. CASE grant' = grant /\ spent' = spent BY <1>2, <3>1, <3>3
    <3>4. CASE /\ t \in Tokens /\ grant[c] = t
               /\ grant' = [grant EXCEPT ![c] = NoToken] /\ spent' = spent \cup {<<t, q>>}
      <4>1. <<c, t>> \in issued /\ t # NoToken BY <3>1, <3>4
      <4>2. \A p \in Requests : <<t, p>> \notin spent BY <3>1, <3>4
      <4>3. \A d \in Commands : grant'[d] # t BY <3>1, <3>4, <4>1, ZenonT(40)
      <4>4. \A d \in Commands : grant'[d] # NoToken => <<d, grant'[d]>> \in issued'
            BY <3>1, <3>4
      <4>5. \A s \in Tokens, p \in Requests : <<s, p>> \in spent' =>
               /\ \E d \in Commands : <<d, s>> \in issued'
               /\ \A d \in Commands : grant'[d] # s
        <5> SUFFICES ASSUME NEW s \in Tokens, NEW p \in Requests, <<s, p>> \in spent'
                     PROVE  /\ \E d \in Commands : <<d, s>> \in issued'
                            /\ \A d \in Commands : grant'[d] # s
            OBVIOUS
        <5>1. CASE s = t BY <3>1, <4>1, <4>3, <5>1
        <5>2. CASE s # t
          <6>1. <<s, p>> \in spent BY <3>4, <5>2
          <6>2. \A d \in Commands : grant'[d] = grant[d] \/ grant'[d] = NoToken BY <3>1, <3>4
          <6> QED BY <3>1, <6>1, <6>2, ZenonT(40)
        <5> QED BY <5>1, <5>2
      <4>6. \A s \in Tokens, p, r \in Requests :
               <<s, p>> \in spent' /\ <<s, r>> \in spent' => p = r
            BY <3>4, <4>2
      <4> QED BY <3>1, <4>4, <4>5, <4>6
    <3> QED BY <3>2, <3>3, <3>4
  <2>3. ASSUME NEW result \in Result, Apply(q, result) PROVE UNCHANGED <<grant, issued, spent>>
        BY <2>3 DEF Apply
  <2>4. CASE Refuse(q) \/ EnterLock(q) \/ Replay(q) \/ NoReceipt(q) \/ UploadMissing(q)
        BY <1>2, <2>4 DEF Refuse, EnterLock, Replay, NoReceipt, UploadMissing
  <2>5. CASE WriteReceipt(q) \/ Reply(q) BY <1>2, <2>5 DEF WriteReceipt, Reply
  <2> QED BY <1>2, <1>3, <2>1, <2>2, <2>3, <2>4, <2>5 DEF RequestStep
<1>4. ASSUME NEW q \in Requests, DropRequest(q) PROVE UNCHANGED <<grant, issued, spent>>
      BY <1>4 DEF DropRequest
<1>5. ASSUME NEW q \in Requests, NEW c \in Commands, NEW t \in Tokens \cup {NoToken}, Arrive(q, c, t)
      PROVE  UNCHANGED <<grant, issued, spent>>
      BY <1>5 DEF Arrive
<1>6. ASSUME NEW c \in Commands, PutUpload(c) PROVE UNCHANGED <<grant, issued, spent>>
      BY <1>6 DEF PutUpload
<1>7. ASSUME NEW c \in Commands, Expire(c) PROVE TokenInv'
  <2>1. \A d \in Commands : grant'[d] \in {grant[d], NoToken} BY <1>7 DEF Expire
  <2>2. UNCHANGED <<issued, spent>> BY <1>7 DEF Expire
  <2> QED BY <1>1, <2>1, <2>2
<1>8. CASE BeginRestore \/ CommitRestore \/ RestoreFails
      BY <1>2, <1>8 DEF BeginRestore, CommitRestore, RestoreFails
<1>9. CASE Exit BY <1>1, <1>9 DEF Exit
<1>10. CASE UNCHANGED vars BY <1>2, <1>10 DEF vars
<1> QED BY <1>2, <1>3, <1>4, <1>5, <1>6, <1>7, <1>8, <1>9, <1>10 DEF Next

\* IntakeInv is an invariant of command intake.
THEOREM IntakeInvariant == Spec => []IntakeInv
<1>1. IntakeInv /\ [Next]_vars => IntakeInv'
      BY TypeStep, ShapeStep, FenceStep, LockStep, WrittenStep, AnswerStep, WritersStep, EffectStep,
         UploadStep, TokenStep
      DEF IntakeInv, IntakeCore
<1> QED BY <1>1, IntakeInvInit, PTL DEF Spec

\* What a client was told stays true of the durable receipts, whatever requests
\* race, retry, disappear or are cut off by an exit.
THEOREM AnswersAreDurable == Spec => []AnswerIsDurable
<1>1. IntakeInv => AnswerIsDurable BY DEF IntakeInv, IntakeCore
<1> QED BY <1>1, IntakeInvariant, PTL

\* A command takes effect once unless its request or the process was gone
\* between the effect and the receipt.
THEOREM CommandsApplyOnce == Spec => []AppliedOnce
<1>1. IntakeInv => AppliedOnce BY DEF IntakeInv, IntakeCore, AppliedOnce, EffectIsAccountedFor, TypeOK
<1> QED BY <1>1, IntakeInvariant, PTL

\* No confirmation token clears two requests, dropped and repeated ones included.
THEOREM TokensClearOnce == Spec => []TokenClearsOnce
<1>1. IntakeInv => TokenClearsOnce
  <2> SUFFICES ASSUME IntakeInv, NEW x \in spent, NEW y \in spent, x[1] = y[1] PROVE x = y
      BY DEF TokenClearsOnce
  <2>1. /\ x[1] \in Tokens /\ x[2] \in Requests /\ x = <<x[1], x[2]>>
        /\ y[2] \in Requests /\ y = <<y[1], y[2]>>
        BY DEF IntakeInv, IntakeCore, TypeOK
  <2> QED BY <2>1 DEF IntakeInv, IntakeCore, TokenInv
<1> QED BY <1>1, IntakeInvariant, PTL

\* A retry never fails for an upload its own earlier attempt used up: the command
\* of a used upload has its receipt.
THEOREM UploadsAreKept == Spec => []UploadKeptForRetry
<1>1. IntakeInv => UploadKeptForRetry BY DEF IntakeInv
<1> QED BY <1>1, IntakeInvariant, PTL

\* After a committed restore nothing takes effect and no receipt is written but
\* one of an orphaned command, until milim restarts.
THEOREM RestoredDataIsKept == Spec => RestoredDataStays
<1>1. IntakeInv /\ [Next]_vars =>
        [fence = "restored" /\ exits' = exits =>
           /\ effect' = effect
           /\ \A c \in Commands : receipt'[c] = receipt[c] \/ c \in orphaned]_vars
  <2> SUFFICES ASSUME IntakeInv, Next, fence = "restored", exits' = exits
               PROVE  /\ effect' = effect
                      /\ \A c \in Commands : receipt'[c] = receipt[c] \/ c \in orphaned
      BY DEF vars
  <2> USE IntakeConstants DEF IntakeInv, IntakeCore, TypeOK, ReqRecord, Admitted, FenceExcludes, RequestShape, durable, memory
  <2>1. ASSUME NEW q \in Requests, Refuse(q) PROVE /\ effect' = effect
             /\ \A x \in Commands : receipt'[x] = receipt[x] \/ x \in orphaned
        BY <2>1 DEF Refuse
  <2>2. ASSUME NEW q \in Requests, EnterLock(q) PROVE /\ effect' = effect
             /\ \A x \in Commands : receipt'[x] = receipt[x] \/ x \in orphaned
        BY <2>2 DEF EnterLock
  <2>3. ASSUME NEW q \in Requests, Replay(q) PROVE /\ effect' = effect
             /\ \A x \in Commands : receipt'[x] = receipt[x] \/ x \in orphaned
        BY <2>3 DEF Replay
  <2>4. ASSUME NEW q \in Requests, NoReceipt(q) PROVE /\ effect' = effect
             /\ \A x \in Commands : receipt'[x] = receipt[x] \/ x \in orphaned
        BY <2>4 DEF NoReceipt
  <2>5. ASSUME NEW q \in Requests, UploadMissing(q) PROVE /\ effect' = effect
             /\ \A x \in Commands : receipt'[x] = receipt[x] \/ x \in orphaned
        BY <2>5 DEF UploadMissing
  <2>6. ASSUME NEW q \in Requests, NEW t \in Tokens, NeedsConfirmation(q, t) PROVE /\ effect' = effect
             /\ \A x \in Commands : receipt'[x] = receipt[x] \/ x \in orphaned
        BY <2>6 DEF NeedsConfirmation
  <2>7. ASSUME NEW q \in Requests, Cleared(q) PROVE /\ effect' = effect
             /\ \A x \in Commands : receipt'[x] = receipt[x] \/ x \in orphaned
        BY <2>7 DEF Cleared
  <2>8. ASSUME NEW q \in Requests, NEW result \in Result, Apply(q, result) PROVE /\ effect' = effect
             /\ \A x \in Commands : receipt'[x] = receipt[x] \/ x \in orphaned
        BY <2>8 DEF Apply
  <2>9. ASSUME NEW q \in Requests, WriteReceipt(q) PROVE /\ effect' = effect
             /\ \A x \in Commands : receipt'[x] = receipt[x] \/ x \in orphaned
        BY <2>9 DEF WriteReceipt, WritersAreKnown
  <2>10. ASSUME NEW q \in Requests, Reply(q) PROVE /\ effect' = effect
             /\ \A x \in Commands : receipt'[x] = receipt[x] \/ x \in orphaned
        BY <2>10 DEF Reply
  <2>11. ASSUME NEW q \in Requests, DropRequest(q) PROVE /\ effect' = effect
             /\ \A x \in Commands : receipt'[x] = receipt[x] \/ x \in orphaned
        BY <2>11 DEF DropRequest
  <2>12. ASSUME NEW q \in Requests, NEW c \in Commands, NEW t \in Tokens \cup {NoToken}, Arrive(q, c, t) PROVE /\ effect' = effect
             /\ \A x \in Commands : receipt'[x] = receipt[x] \/ x \in orphaned
        BY <2>12 DEF Arrive
  <2>13. ASSUME NEW c \in Commands, PutUpload(c) PROVE /\ effect' = effect
             /\ \A x \in Commands : receipt'[x] = receipt[x] \/ x \in orphaned
        BY <2>13 DEF PutUpload
  <2>14. ASSUME NEW c \in Commands, Expire(c) PROVE /\ effect' = effect
             /\ \A x \in Commands : receipt'[x] = receipt[x] \/ x \in orphaned
        BY <2>14 DEF Expire
  <2>15. ASSUME BeginRestore PROVE /\ effect' = effect
             /\ \A x \in Commands : receipt'[x] = receipt[x] \/ x \in orphaned
        BY <2>15 DEF BeginRestore
  <2>16. ASSUME CommitRestore PROVE /\ effect' = effect
             /\ \A x \in Commands : receipt'[x] = receipt[x] \/ x \in orphaned
        BY <2>16 DEF CommitRestore
  <2>17. ASSUME RestoreFails PROVE /\ effect' = effect
             /\ \A x \in Commands : receipt'[x] = receipt[x] \/ x \in orphaned
        BY <2>17 DEF RestoreFails
  <2>18. ASSUME Exit PROVE /\ effect' = effect
             /\ \A x \in Commands : receipt'[x] = receipt[x] \/ x \in orphaned
        BY <2>18 DEF Exit
  <2> QED BY <2>1, <2>2, <2>3, <2>4, <2>5, <2>6, <2>7, <2>8, <2>9, <2>10, <2>11, <2>12, <2>13, <2>14, <2>15, <2>16, <2>17, <2>18 DEF Next, RequestStep
<1> QED BY <1>1, IntakeInvariant, PTL DEF Spec, RestoredDataStays

-----------------------------------------------------------------------------
(* The intake as one receipt per command.                                  *)

\* What a command came to is what its receipt says, or, before there is one, the
\* result of the one request that is writing it.
IsWriting(q, c) == req[q].pc = "writing" /\ req[q].cmd = c
OutcomeShape ==
  /\ outcome = [c \in Commands |-> outcome[c]]
  /\ \A c \in Commands :
       /\ receipt[c] # "none" \/ (\A q \in Requests : ~IsWriting(q, c)) => outcome[c] = receipt[c]
       /\ \A q \in Requests : IsWriting(q, c) /\ receipt[c] = "none" => outcome[c] = req[q].result

\* The command lock lets in one writer per command.
LEMMA OneWriter ==
  ASSUME IntakeInv, NEW p \in Requests, NEW q \in Requests,
         req[p].pc \in InLock, req[q].pc \in InLock, req[p].cmd = req[q].cmd
  PROVE  p = q
BY DEF IntakeInv, IntakeCore, LockHeld

LEMMA OutcomeIsShaped == IntakeInv => OutcomeShape
<1> SUFFICES ASSUME IntakeInv PROVE OutcomeShape
  OBVIOUS
<1>1. outcome = [c \in Commands |-> outcome[c]]
  BY DEF outcome
<1>2. ASSUME NEW c \in Commands, receipt[c] # "none" \/ (\A q \in Requests : ~IsWriting(q, c))
      PROVE  outcome[c] = receipt[c]
  <2>1. CASE receipt[c] # "none"
    BY <2>1 DEF outcome
  <2>2. CASE \A q \in Requests : ~IsWriting(q, c)
    <3>1. Writing(c) = {}
      BY <2>2 DEF IsWriting, Writing
    <3> QED
      BY <3>1 DEF outcome
  <2> QED
    BY <1>2, <2>1, <2>2
<1>3. ASSUME NEW c \in Commands, NEW q \in Requests, IsWriting(q, c), receipt[c] = "none"
      PROVE  outcome[c] = req[q].result
  <2>1. q \in Writing(c)
    BY <1>3 DEF IsWriting, Writing
  <2>2. ASSUME NEW p \in Writing(c) PROVE p = q
    <3>1. p \in Requests /\ IsWriting(p, c)
      BY DEF IsWriting, Writing
    <3> QED
      BY <1>3, <3>1, OneWriter DEF IsWriting, InLock
  <2>3. (CHOOSE p \in Writing(c) : TRUE) = q
    <3>1. (CHOOSE p \in Writing(c) : TRUE) \in Writing(c)
      BY <2>1
    <3> QED
      BY <2>2, <3>1
  <2> QED
    BY <1>3, <2>1, <2>3 DEF outcome
<1> QED
  BY <1>1, <1>2, <1>3 DEF OutcomeShape

\* The step leaves the writers, or what the requests were told, as they are.
SameWriter(q) ==
  /\ req'[q].pc = "writing" <=> req[q].pc = "writing"
  /\ req[q].pc = "writing" => req'[q].cmd = req[q].cmd /\ req'[q].result = req[q].result
SameTold(q) ==
  /\ answer'[q] \in Result <=> answer[q] \in Result
  /\ answer[q] \in Result => answer'[q] = answer[q] /\ req'[q].cmd = req[q].cmd

LEMMA SameOutcome ==
  ASSUME OutcomeShape, OutcomeShape', NEW c \in Commands, receipt'[c] = receipt[c],
         \A q \in Requests : IsWriting(q, c) \/ IsWriting(q, c)' => SameWriter(q)
  PROVE  outcome'[c] = outcome[c]
<1>1. CASE receipt[c] # "none" \/ (\A q \in Requests : ~IsWriting(q, c))
  <2>1. receipt'[c] # "none" \/ (\A q \in Requests : ~IsWriting(q, c)')
    BY <1>1 DEF SameWriter, IsWriting
  <2> QED
    BY <1>1, <2>1 DEF OutcomeShape
<1>2. ASSUME receipt[c] = "none", NEW q \in Requests, IsWriting(q, c) PROVE outcome'[c] = outcome[c]
  <2>1. IsWriting(q, c)' /\ req'[q].result = req[q].result
    BY <1>2 DEF SameWriter, IsWriting
  <2> QED
    BY <1>2, <2>1 DEF OutcomeShape
<1> QED
  BY <1>1, <1>2

LEMMA SameOutcomes ==
  ASSUME OutcomeShape, OutcomeShape', receipt' = receipt, \A q \in Requests : SameWriter(q)
  PROVE  outcome' = outcome
<1>1. \A c \in Commands : outcome'[c] = outcome[c]
  BY SameOutcome
<1> QED
  BY <1>1 DEF OutcomeShape

LEMMA SameTolds ==
  ASSUME \A q \in Requests : SameTold(q)
  PROVE  told' = told
BY DEF told, SameTold

\* What a request was told is its answer.
LEMMA ToldOf ==
  ASSUME NEW q \in Requests
  PROVE  /\ answer[q] \in Result => told[q] = [command |-> req[q].cmd, result |-> answer[q]]
         /\ answer[q] \notin Result => told[q] = Ledger!Untold
BY DEF told, Ledger!Untold

\* A step that changes none of it is a stutter.
Silent == outcome' = outcome /\ effect' = effect /\ told' = told /\ orphaned' = orphaned /\ mode' = mode
LEMMA SilentStutters == Silent => UNCHANGED Ledger!vars
BY DEF Silent, Ledger!vars

-----------------------------------------------------------------------------
(* Each step, as the abstract intake sees it.                              *)

\* A request that moves on, and is no writer, is no news.
LEMMA MoveIsSilent ==
  ASSUME IntakeInv, OutcomeShape, OutcomeShape', NEW q \in Requests, UNCHANGED <<durable, answer, orphaned, fence>>,
         req' = [req EXCEPT ![q] = req'[q]], req[q].pc # "writing", req'[q].pc # "writing",
         answer[q] \in Result => req'[q].cmd = req[q].cmd
  PROVE  Silent
<1>0. req \in [Requests -> ReqRecord]
  BY DEF IntakeInv, IntakeCore, TypeOK
<1>1. \A p \in Requests : p # q => req'[p] = req[p]
  BY <1>0
<1>2. \A p \in Requests : SameWriter(p)
  BY <1>1 DEF SameWriter
<1>3. \A p \in Requests : SameTold(p)
  BY <1>1 DEF SameTold
<1>4. outcome' = outcome
  BY <1>2, SameOutcomes DEF durable
<1>5. told' = told
  BY <1>3, SameTolds
<1> QED
  BY <1>4, <1>5 DEF Silent, durable, mode

\* A request that ends with an answer that is no result is no news either.
LEMMA EndIsSilent ==
  ASSUME IntakeInv, OutcomeShape, OutcomeShape', NEW q \in Requests, NEW a, a \notin Result, answer[q] \notin Result,
         UNCHANGED <<durable, orphaned, fence>>,
         Goto(q, "done"), answer' = [answer EXCEPT ![q] = a], req[q].pc # "writing"
  PROVE  Silent
<1>0. req \in [Requests -> ReqRecord] /\ answer' \in [Requests -> {answer'[p] : p \in Requests}] /\ DOMAIN answer = Requests
  BY DEF IntakeInv, IntakeCore, TypeOK
<1>1. \A p \in Requests : p # q => req'[p] = req[p] /\ answer'[p] = answer[p]
  BY <1>0 DEF Goto
<1>2. req'[q].pc = "done" /\ answer'[q] = a
  <2>1. req[q] \in ReqRecord
    BY <1>0
  <2> QED
    BY <1>0, <2>1 DEF Goto, ReqRecord
<1>3. \A p \in Requests : SameWriter(p)
  BY <1>1, <1>2 DEF SameWriter
<1>4. \A p \in Requests : SameTold(p)
  BY <1>1, <1>2 DEF SameTold
<1>5. outcome' = outcome
  BY <1>3, SameOutcomes DEF durable
<1>6. told' = told
  BY <1>4, SameTolds
<1> QED
  BY <1>5, <1>6 DEF Silent, durable, mode

\* Nobody was told of a command without a receipt.
LEMMA Unheard ==
  ASSUME IntakeInv, NEW c \in Commands, receipt[c] = "none"
  PROVE  \A q \in Requests : told[q].command # c
<1> SUFFICES ASSUME NEW q \in Requests, told[q].command = c PROVE FALSE
  OBVIOUS
<1>1. CASE answer[q] \in Result
  <2>1. req[q].cmd = c
    <3>1. told[q] = [command |-> req[q].cmd, result |-> answer[q]]
      BY <1>1, ToldOf
    <3> QED
      BY <3>1
  <2>2. answer[q] = "none"
    BY <1>1, <2>1 DEF IntakeInv, IntakeCore, AnswerIsDurable
  <2> QED
    BY <1>1, <2>2 DEF Result
<1>2. CASE answer[q] \notin Result
  <2>1. told[q] = Ledger!Untold
    BY <1>2, ToldOf
  <2> QED
    BY <2>1, IntakeConstants DEF Ledger!Untold
<1> QED
  BY <1>1, <1>2

\* The answer that a receipt gives.
LEMMA TellStep ==
  ASSUME IntakeInv, OutcomeShape, OutcomeShape', NEW q \in Requests,
         req[q].pc \in {"locked", "written"}, receipt[req[q].cmd] \in Result,
         Goto(q, "done"), answer' = [answer EXCEPT ![q] = receipt[req[q].cmd]],
         UNCHANGED <<durable, orphaned, fence>>
  PROVE  Ledger!Next
<1> DEFINE c == req[q].cmd
<1>0. /\ req \in [Requests -> ReqRecord] /\ DOMAIN answer = Requests
      /\ c \in Commands /\ answer[q] = "none"
  BY DEF IntakeInv, IntakeCore, TypeOK, RequestShape, Admitted
<1>1. \A p \in Requests : p # q => req'[p] = req[p] /\ answer'[p] = answer[p]
  BY <1>0 DEF Goto
<1>2. req'[q].pc = "done" /\ req'[q].cmd = c /\ answer'[q] = receipt[c]
  <2>1. req[q] \in ReqRecord
    BY <1>0
  <2> QED
    BY <1>0, <2>1 DEF Goto, ReqRecord
<1>3. outcome' = outcome
  <2>1. \A p \in Requests : SameWriter(p)
    BY <1>1, <1>2 DEF SameWriter
  <2> QED
    BY <2>1, SameOutcomes DEF durable
<1>4. told[q] = Ledger!Untold
  BY <1>0, ToldOf DEF Result
<1>5. outcome[c] = receipt[c]
  BY <1>0, OutcomeShape DEF OutcomeShape, Result
<1>6. told' = [told EXCEPT ![q] = [command |-> c, result |-> outcome[c]]]
  BY <1>1, <1>2, <1>5 DEF told
<1>7. Ledger!Tell(q, c)
  BY <1>3, <1>4, <1>5, <1>6 DEF Ledger!Tell, Result, durable, mode
<1> QED
  BY <1>0, <1>7 DEF Ledger!Next

LEMMA OutcomeTyped ==
  ASSUME IntakeInv, OutcomeShape
  PROVE  \A c \in Commands : outcome[c] \in Result \cup {"none"}
<1> SUFFICES ASSUME NEW c \in Commands PROVE outcome[c] \in Result \cup {"none"}
  OBVIOUS
<1>1. receipt[c] \in Result \cup {"none"} /\ \A q \in Requests : IsWriting(q, c) => req[q].result \in Result
  BY DEF IntakeInv, IntakeCore, TypeOK, RequestShape, IsWriting
<1> QED
  BY <1>1 DEF OutcomeShape

\* One that applies does the command: inside the lock, without a receipt, and
\* with the effect still to come unless the command was torn.
LEMMA ApplyStep ==
  ASSUME IntakeInv, OutcomeShape, OutcomeShape', NEW q \in Requests, NEW r \in Result, Apply(q, r)
  PROVE  Ledger!Next
<1> DEFINE c == req[q].cmd
<1>0. /\ req \in [Requests -> ReqRecord] /\ req[q].pc = "apply" /\ c \in Commands /\ fence = "open" /\ answer[q] = "none"
      /\ UNCHANGED <<receipt, answer, orphaned, fence>>
  BY DEF IntakeInv, IntakeCore, TypeOK, RequestShape, FenceExcludes, Admitted, Apply, history
<1>1. \A p \in Requests : p # q => req'[p] = req[p]
  BY <1>0 DEF Apply
<1>2. req'[q].pc = "writing" /\ req'[q].cmd = c /\ req'[q].result = r
  <2>1. req[q] \in ReqRecord
    BY <1>0
  <2> QED
    BY <1>0, <2>1 DEF Apply, ReqRecord
<1>3. \A p \in Requests : ~IsWriting(p, c)
  BY <1>0, OneWriter DEF IsWriting, InLock
<1>4. outcome[c] = receipt[c]
  BY <1>0, <1>3 DEF OutcomeShape
<1>5. outcome'[c] = IF outcome[c] = "none" THEN r ELSE outcome[c]
  BY <1>0, <1>2, <1>4 DEF OutcomeShape, IsWriting
<1>6. ASSUME NEW d \in Commands, d # c PROVE outcome'[d] = outcome[d]
  <2>1. \A p \in Requests : IsWriting(p, d) \/ IsWriting(p, d)' => SameWriter(p)
    BY <1>1, <1>2, <1>6 DEF IsWriting, SameWriter
  <2> QED
    BY <1>0, <2>1, SameOutcome
<1>7. outcome' = [outcome EXCEPT ![c] = IF @ = "none" THEN r ELSE @]
  BY <1>0, <1>5, <1>6 DEF OutcomeShape
<1>8. told' = told
  <2>1. \A p \in Requests : SameTold(p)
    BY <1>0, <1>1 DEF SameTold, Result
  <2> QED
    BY <2>1, SameTolds
<1>9. c \in orphaned \/ (outcome[c] = "none" /\ effect[c] = 0)
  BY <1>0, <1>4 DEF IntakeInv, IntakeCore, EffectIsAccountedFor
<1>10. effect' = [effect EXCEPT ![c] = IF r = "ok" THEN @ + 1 ELSE @]
  BY <1>0 DEF Apply, IntakeInv, IntakeCore, TypeOK
<1>11. Ledger!Do(c, r)
  BY <1>0, <1>7, <1>8, <1>9, <1>10 DEF Ledger!Do, mode
<1> QED
  BY <1>0, <1>11 DEF Ledger!Next, Ledger!Result, Result

\* The blocking pool's write is no news to a request that waits for it; that of a
\* request that is gone may settle what a torn command came to.
LEMMA WriteStep ==
  ASSUME IntakeInv, OutcomeShape, OutcomeShape', NEW q \in Requests, WriteReceipt(q)
  PROVE  [Ledger!Next]_(Ledger!vars)
<1> DEFINE c == req[q].cmd
<1>0. /\ req \in [Requests -> ReqRecord] /\ DOMAIN answer = Requests /\ c \in Commands /\ req[q].result \in Result
      /\ receipt \in [Commands -> Result \cup {"none"}]
      /\ UNCHANGED <<effect, orphaned, fence>>
  BY DEF IntakeInv, IntakeCore, TypeOK, RequestShape, WriteReceipt
<1>1. \A d \in Commands : d # c => receipt'[d] = receipt[d]
  BY <1>0 DEF WriteReceipt
<1>2. receipt'[c] = IF receipt[c] = "none" THEN req[q].result ELSE receipt[c]
  BY <1>0 DEF WriteReceipt
<1>3. CASE req[q].pc = "writing"
  <2>1. /\ req' = [req EXCEPT ![q] = req'[q]] /\ req'[q].pc \in {"written", "done"} /\ req'[q].cmd = c
    <3>1. req[q] \in ReqRecord
      BY <1>0
    <3> QED
      BY <1>0, <1>3, <3>1 DEF WriteReceipt, Goto, Finish, ReqRecord
  <2>2. /\ \A p \in Requests : p # q => req'[p] = req[p]
        /\ answer[q] = "none" /\ answer'[q] \notin Result
        /\ \A p \in Requests : p # q => answer'[p] = answer[p]
    BY <1>0, <1>3, <2>1 DEF WriteReceipt, Finish, IntakeInv, IntakeCore, RequestShape, Admitted, Result
  <2>3. told' = told
    <3>1. \A p \in Requests : SameTold(p)
      BY <2>2 DEF SameTold, Result
    <3> QED
      BY <3>1, SameTolds
  <2>4. outcome'[c] = outcome[c]
    <3>1. outcome'[c] = receipt'[c]
      BY <1>0, <1>2 DEF OutcomeShape, Result
    <3>2. outcome[c] = IF receipt[c] = "none" THEN req[q].result ELSE receipt[c]
      BY <1>0, <1>3 DEF OutcomeShape, IsWriting
    <3> QED
      BY <1>2, <3>1, <3>2
  <2>5. ASSUME NEW d \in Commands, d # c PROVE outcome'[d] = outcome[d]
    <3>1. \A p \in Requests : IsWriting(p, d) \/ IsWriting(p, d)' => SameWriter(p)
      BY <2>1, <2>2, <2>5 DEF IsWriting, SameWriter
    <3> QED
      BY <1>1, <2>5, <3>1, SameOutcome
  <2>6. outcome' = outcome
    BY <2>4, <2>5 DEF OutcomeShape
  <2> QED
    BY <1>0, <2>3, <2>6, SilentStutters DEF Silent, mode
<1>4. CASE req[q].pc # "writing"
  <2>1. UNCHANGED <<req, answer>> /\ c \in orphaned
    BY <1>4 DEF WriteReceipt, IntakeInv, IntakeCore, WritersAreKnown, RequestShape
  <2>2. told' = told
    <3>1. \A p \in Requests : SameTold(p)
      BY <2>1 DEF SameTold
    <3> QED
      BY <3>1, SameTolds
  <2>3. ASSUME NEW d \in Commands, d # c PROVE outcome'[d] = outcome[d]
    <3>1. \A p \in Requests : SameWriter(p)
      BY <2>1 DEF SameWriter
    <3> QED
      BY <1>1, <2>3, <3>1, SameOutcome
  <2>4. outcome'[c] # outcome[c] => \A p \in Requests : told[p].command # c
    <3>1. CASE receipt[c] = "none"
      BY <1>0, <3>1, Unheard
    <3>2. CASE receipt[c] # "none"
      <4>1. outcome[c] = receipt[c] /\ outcome'[c] = receipt'[c] /\ receipt'[c] = receipt[c]
        BY <1>0, <1>2, <3>2 DEF OutcomeShape
      <4> QED
        BY <4>1
    <3> QED
      BY <3>1, <3>2
  <2>5. outcome' \in [Commands -> Result \cup {"none"}]
    <3>1. \A d \in Commands : outcome[d] \in Result \cup {"none"}
      BY OutcomeTyped
    <3>2. outcome'[c] \in Result \cup {"none"}
      BY <1>0, <1>2 DEF OutcomeShape, Result
    <3>3. \A d \in Commands : outcome'[d] \in Result \cup {"none"}
      BY <2>3, <3>1, <3>2
    <3> QED
      BY <3>3 DEF OutcomeShape
  <2>6. Ledger!Tear({})
    BY <1>0, <2>1, <2>2, <2>3, <2>4, <2>5 DEF Ledger!Tear, Ledger!Result, Result
  <2>7. mode' = mode
    BY <1>0 DEF mode
  <2> QED
    BY <2>6, <2>7 DEF Ledger!Next
<1> QED
  BY <1>3, <1>4

\* A dropped caller tears its command if the receipt is on the blocking pool.
LEMMA DropStep ==
  ASSUME IntakeInv, OutcomeShape, OutcomeShape', NEW q \in Requests, DropRequest(q)
  PROVE  [Ledger!Next]_(Ledger!vars)
<1> DEFINE c == req[q].cmd
<1>0. /\ req \in [Requests -> ReqRecord] /\ c \in Commands
      /\ UNCHANGED <<durable, fence, answer>> /\ answer[q] = "none"
  BY DEF IntakeInv, IntakeCore, TypeOK, RequestShape, Admitted, DropRequest, memory
<1>1. \A p \in Requests : p # q => req'[p] = req[p]
  BY <1>0 DEF DropRequest, Goto
<1>2. req'[q].pc = "gone" /\ req'[q].cmd = c
  <2>1. req[q] \in ReqRecord
    BY <1>0
  <2> QED
    BY <1>0, <2>1 DEF DropRequest, Goto, ReqRecord
<1>3. CASE q \notin writes
  <2>1. req[q].pc # "writing" /\ orphaned' = orphaned
    BY <1>3 DEF DropRequest, IntakeInv, IntakeCore, RequestShape
  <2>2. req' = [req EXCEPT ![q] = req'[q]]
    BY <1>0, <1>2 DEF DropRequest, Goto
  <2>3. Silent
    BY <1>0, <1>2, <2>1, <2>2, MoveIsSilent DEF Result
  <2> QED
    BY <2>3, SilentStutters
<1>4. CASE q \in writes
  <2>1. orphaned' = orphaned \cup {c}
    BY <1>4 DEF DropRequest
  <2>2. told' = told
    <3>1. \A p \in Requests : SameTold(p)
      BY <1>0, <1>1 DEF SameTold, Result
    <3> QED
      BY <3>1, SameTolds
  <2>3. ASSUME NEW d \in Commands, d # c PROVE outcome'[d] = outcome[d]
    <3>1. \A p \in Requests : IsWriting(p, d) \/ IsWriting(p, d)' => SameWriter(p)
      BY <1>1, <1>2, <2>3 DEF IsWriting, SameWriter
    <3> QED
      BY <1>0, <3>1, SameOutcome DEF durable
  <2>4. outcome'[c] = receipt[c]
    <3>1. ASSUME NEW d \in Commands, d = c, NEW p \in Requests PROVE ~IsWriting(p, d)'
      <4>1. SUFFICES ASSUME IsWriting(p, d)' PROVE FALSE
        OBVIOUS
      <4>2. p # q /\ IsWriting(p, d)
        BY <1>1, <1>2, <4>1 DEF IsWriting
      <4>3. req[q].pc \in {"writing", "gone"} /\ req[q].pc # "gone"
        BY <1>4 DEF IntakeInv, IntakeCore, RequestShape, DropRequest
      <4> QED
        BY <3>1, <4>2, <4>3, OneWriter DEF IsWriting, InLock
    <3>2. ASSUME NEW d \in Commands, d = c PROVE outcome'[d] = receipt[d]
      BY <1>0, <3>1, <3>2 DEF OutcomeShape, durable
    <3> QED
      BY <1>0, <3>2
  <2>5. outcome'[c] # outcome[c] => \A p \in Requests : told[p].command # c
    <3>1. CASE receipt[c] = "none"
      BY <1>0, <3>1, Unheard
    <3>2. CASE receipt[c] # "none"
      BY <1>0, <2>4, <3>2 DEF OutcomeShape
    <3> QED
      BY <3>1, <3>2
  <2>6. outcome' \in [Commands -> Result \cup {"none"}]
    <3>1. \A d \in Commands : outcome[d] \in Result \cup {"none"}
      BY OutcomeTyped
    <3>2. outcome'[c] \in Result \cup {"none"}
      BY <1>0, <2>4 DEF IntakeInv, IntakeCore, TypeOK
    <3>3. \A d \in Commands : outcome'[d] \in Result \cup {"none"}
      BY <2>3, <3>1, <3>2
    <3> QED
      BY <3>3 DEF OutcomeShape
  <2>7. Ledger!Tear({c})
    BY <1>0, <2>1, <2>2, <2>3, <2>5, <2>6 DEF Ledger!Tear, Ledger!Result, Result, durable
  <2>8. mode' = mode
    BY <1>0 DEF mode
  <2> QED
    BY <1>0, <2>7, <2>8 DEF Ledger!Next
<1> QED
  BY <1>3, <1>4

\* So does an exit, for every receipt on the blocking pool.
LEMMA ExitStep ==
  ASSUME IntakeInv, OutcomeShape, OutcomeShape', Exit
  PROVE  Ledger!Next
<1> DEFINE Lost == {req[q].cmd : q \in writes}
<1>0. /\ req \in [Requests -> ReqRecord] /\ receipt \in [Commands -> Result \cup {"none"}] /\ Lost \subseteq Commands
      /\ UNCHANGED <<durable, answer>> /\ orphaned' = orphaned \cup Lost
  BY DEF IntakeInv, IntakeCore, TypeOK, RequestShape, Exit
<1>1. ASSUME NEW q \in Requests PROVE req'[q].pc # "writing" /\ req'[q].cmd = req[q].cmd
  <2>1. req[q] \in ReqRecord
    BY <1>0
  <2>2. req'[q] = IF req[q].pc \in Admitted THEN [req[q] EXCEPT !.pc = "gone"] ELSE req[q]
    BY DEF Exit
  <2> QED
    BY <2>1, <2>2 DEF ReqRecord, Admitted
<1>2. told' = told
  <2>1. \A q \in Requests : SameTold(q)
    BY <1>0, <1>1 DEF SameTold
  <2> QED
    BY <2>1, SameTolds
<1>3. \A c \in Commands : outcome'[c] = receipt[c]
  BY <1>0, <1>1 DEF OutcomeShape, IsWriting, durable
<1>4. ASSUME NEW c \in Commands, outcome'[c] # outcome[c]
      PROVE  c \in Lost /\ \A q \in Requests : told[q].command # c
  <2>1. receipt[c] = "none" /\ \E q \in Requests : IsWriting(q, c)
    BY <1>3, <1>4 DEF OutcomeShape
  <2>2. c \in Lost
    BY <2>1 DEF IsWriting, IntakeInv, IntakeCore, RequestShape
  <2> QED
    BY <2>1, <2>2, Unheard
<1>5. outcome' \in [Commands -> Result \cup {"none"}]
  BY <1>0, <1>3 DEF OutcomeShape
<1>6. Ledger!Tear(Lost)
  <2> HIDE DEF Lost
  <2> QED
    BY <1>0, <1>2, <1>4, <1>5 DEF Ledger!Tear, Ledger!Result, Result, durable
<1>7. mode' = "serving"
  BY DEF Exit, mode
<1> QED
  <2> HIDE DEF Lost
  <2> QED
    BY <1>0, <1>6, <1>7 DEF Ledger!Next

\* A restore replaces the outcomes, and no request is admitted that writes one.
LEMMA RestoreStep ==
  ASSUME IntakeInv, OutcomeShape, OutcomeShape', CommitRestore
  PROVE  Ledger!Next
<1>0. req' = req /\ receipt' = [c \in Commands |-> "none"] /\ mode' = "restored"
  BY DEF CommitRestore, mode
<1>1. \A q \in Requests, c \in Commands : ~IsWriting(q, c)'
  BY <1>0 DEF IntakeInv, IntakeCore, FenceExcludes, CommitRestore, Admitted, IsWriting
<1>2. outcome' = [c \in Commands |-> "none"]
  BY <1>0, <1>1 DEF OutcomeShape
<1>3. told' = [q \in Requests |-> Ledger!Untold]
  BY DEF CommitRestore, told, Ledger!Untold, Result
<1> QED
  BY <1>0, <1>2, <1>3 DEF Ledger!Next, Ledger!Restore, CommitRestore

\* Everything else of a request moves it, ends it without a result, or tells it.
LEMMA RequestRefines ==
  ASSUME IntakeInv, OutcomeShape, OutcomeShape', NEW q \in Requests, RequestStep(q)
  PROVE  [Ledger!Next]_(Ledger!vars)
<1>0. /\ req \in [Requests -> ReqRecord] /\ req[q] \in ReqRecord
      /\ req[q].pc \in {"new"} \cup Admitted => answer[q] = "none"
  BY DEF IntakeInv, IntakeCore, TypeOK, RequestShape
<1>1. ASSUME Refuse(q) PROVE Silent
  BY <1>0, <1>1, EndIsSilent DEF Refuse, Result, memory
<1>2. CASE EnterLock(q) \/ NoReceipt(q) \/ Cleared(q)
  <2>1. /\ UNCHANGED <<durable, answer, orphaned, fence>> /\ req[q].pc \in {"waiting", "locked", "checked"}
        /\ \E pc \in {"locked", "checked", "apply"} : Goto(q, pc)
    BY <1>2 DEF EnterLock, NoReceipt, Cleared, memory, history
  <2>2. PICK pc \in {"locked", "checked", "apply"} : Goto(q, pc)
    BY <2>1
  <2>3. req' = [req EXCEPT ![q] = req'[q]] /\ req'[q].pc = pc /\ req'[q].cmd = req[q].cmd
    BY <1>0, <2>2 DEF Goto, ReqRecord
  <2>4. Silent
    BY <2>1, <2>3, MoveIsSilent
  <2> QED
    BY <2>4, SilentStutters
<1>3. ASSUME Replay(q) PROVE Ledger!Next
  <2>1. receipt[req[q].cmd] \in Result
    BY <1>3 DEF Replay, IntakeInv, IntakeCore, TypeOK, RequestShape, Admitted
  <2> QED
    BY <1>3, <2>1, TellStep DEF Replay, Finish, memory
<1>4. ASSUME Reply(q) PROVE Ledger!Next
  <2>1. receipt[req[q].cmd] = req[q].result /\ req[q].result \in Result
    BY <1>4 DEF Reply, IntakeInv, IntakeCore, WrittenIsDurable, RequestShape
  <2> QED
    BY <1>4, <2>1, TellStep DEF Reply, Finish
<1>5. ASSUME UploadMissing(q) PROVE Silent
  BY <1>0, <1>5, EndIsSilent DEF UploadMissing, Finish, Result, memory, Admitted
<1>6. ASSUME NEW t \in Tokens, NeedsConfirmation(q, t) PROVE Silent
  BY <1>0, <1>6, EndIsSilent DEF NeedsConfirmation, Finish, Result, Admitted
<1>7. ASSUME NEW r \in Result, Apply(q, r) PROVE Ledger!Next
  BY <1>7, ApplyStep
<1>8. CASE WriteReceipt(q)
  BY <1>8, WriteStep
<1> QED
  BY <1>1, <1>2, <1>3, <1>4, <1>5, <1>6, <1>7, <1>8, SilentStutters DEF RequestStep

LEMMA IntakeStepRefines ==
  ASSUME IntakeInv, OutcomeShape, OutcomeShape', [Next]_vars
  PROVE  [Ledger!Next]_(Ledger!vars)
<1>0. req \in [Requests -> ReqRecord]
  BY DEF IntakeInv, IntakeCore, TypeOK
<1>1. ASSUME NEW q \in Requests, RequestStep(q) PROVE [Ledger!Next]_(Ledger!vars)
  BY <1>1, RequestRefines
<1>2. ASSUME NEW q \in Requests, DropRequest(q) PROVE [Ledger!Next]_(Ledger!vars)
  BY <1>2, DropStep
<1>3. ASSUME NEW q \in Requests, NEW c \in Commands, NEW t \in Tokens \cup {NoToken}, Arrive(q, c, t) PROVE Silent
  <2>1. /\ req' = [req EXCEPT ![q] = req'[q]] /\ req'[q].pc = "waiting"
    BY <1>0, <1>3 DEF Arrive, NewReq
  <2>2. answer[q] = "none" /\ req[q].pc = "new" /\ UNCHANGED <<durable, answer, orphaned, fence>>
    BY <1>3 DEF Arrive, IntakeInv, IntakeCore, RequestShape, memory, history
  <2> QED
    BY <2>1, <2>2, MoveIsSilent DEF Result
<1>4. ASSUME UNCHANGED <<durable, req, answer, orphaned>>, mode' = mode PROVE Silent
  <2>1. \A q \in Requests : SameWriter(q) /\ SameTold(q)
    BY <1>4 DEF SameWriter, SameTold
  <2>2. outcome' = outcome
    BY <1>4, <2>1, SameOutcomes DEF durable
  <2>3. told' = told
    BY <2>1, SameTolds
  <2> QED
    BY <1>4, <2>2, <2>3 DEF Silent, durable
<1>5. ASSUME NEW c \in Commands, PutUpload(c) \/ Expire(c) PROVE Silent
  BY <1>4, <1>5 DEF PutUpload, Expire, history, mode
<1>6. CASE BeginRestore \/ RestoreFails
  BY <1>4, <1>6, SilentStutters DEF BeginRestore, RestoreFails, history, mode
<1>7. CASE CommitRestore
  BY <1>7, RestoreStep
<1>8. CASE Exit
  BY <1>8, ExitStep
<1>9. CASE UNCHANGED vars
  BY <1>4, <1>9, SilentStutters DEF vars, memory, history, mode
<1> QED
  BY <1>1, <1>2, <1>3, <1>5, <1>6, <1>7, <1>8, <1>9, SilentStutters DEF Next

LEMMA LedgerInit == Init => Ledger!Init
<1> SUFFICES ASSUME Init PROVE Ledger!Init
  OBVIOUS
<1>1. \A c \in Commands : Writing(c) = {}
  BY DEF Init, Writing, NewReq
<1>2. outcome = [c \in Commands |-> "none"]
  BY <1>1 DEF Init, outcome
<1>3. told = [q \in Requests |-> Ledger!Untold]
  BY DEF Init, told, Ledger!Untold, Result
<1>4. mode = "serving"
  BY DEF Init, mode
<1> QED
  BY <1>2, <1>3, <1>4 DEF Init, Ledger!Init

\* Retries, dropped callers, the blocking pool, restores and exits between the
\* effect and the receipt are, to a client, one step per command, taken once and
\* told alike to every request, but for the torn commands: every behaviour of
\* CommandIntake is one of OneReceipt.
THEOREM IntakeRefines == Spec => ImplementsOneReceipt
<1>1. IntakeInv => OutcomeShape
  BY OutcomeIsShaped
<1>2. IntakeInv /\ OutcomeShape /\ OutcomeShape' /\ [Next]_vars => [Ledger!Next]_(Ledger!vars)
  BY IntakeStepRefines
<1>3. Init => Ledger!Init
  BY LedgerInit
<1> QED
  BY <1>1, <1>2, <1>3, IntakeInvariant, PTL DEF Spec, ImplementsOneReceipt, Ledger!Spec
=============================================================================
