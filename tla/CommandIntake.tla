---------------------------- MODULE CommandIntake ----------------------------
(***************************************************************************)
(* RunManager::command: restore admission, the command lock, durable       *)
(* receipts, attachment uploads, confirmations of destructive commands and *)
(* the application of a command, for requests that retry it.               *)
(* Sources: crates/milim-server/src/control/{commands,attachments,mod}.rs  *)
(* and the receipts of milim-storage/db.rs.                                *)
(*                                                                         *)
(* A request is one call of `command`; a retry is another request with the *)
(* same command id.  Its steps are split at its awaits.  What a command    *)
(* does is one durable effect (RunLifecycle models the effects); the wait  *)
(* for the thread lock is the state "apply".                               *)
(***************************************************************************)
EXTENDS Naturals

CONSTANTS Commands,    \* command ids
          Requests,    \* calls of `command`
          Tokens,      \* confirmation tokens (fresh UUIDs)
          Destructive, \* commands that need a confirmation
          WithUpload,  \* commands that refer to an attachment upload
          Droppable,   \* requests whose caller may go away before the answer
          MaxExits,    \* bound on exits of the process
          NoCommand, NoRequest, NoToken

ASSUME IntakeConstants ==
  /\ NoCommand \notin Commands /\ NoRequest \notin Requests /\ NoToken \notin Tokens
  /\ Destructive \subseteq Commands /\ WithUpload \subseteq Commands
  /\ Destructive \cap WithUpload = {}
  /\ Droppable \subseteq Requests
  /\ MaxExits \in Nat

VARIABLES
  receipt,   \* durable: user_command_receipts
  effect,    \* durable: how often each command took effect
  holder,    \* the command locks: who holds each
  want,      \* the command locks: which one each request waits for or holds
  req,       \* the requests
  grant,     \* RunManager.confirmations
  upload,    \* commands whose upload is in RunManager.attachment_uploads
  writes,    \* requests whose receipt is on the blocking pool
  fence,     \* restore_admission: open, a restore at work, or committed
  exits,     \* exits so far
  answer,    \* history: what each request was told
  issued,    \* history: <<command, token>> returned to a client
  spent,     \* history: <<token, request>> that passed the confirmation
  consumed,  \* history: commands whose upload was consumed
  orphaned   \* history: commands that took effect and whose request or process
             \* was gone before the receipt was written

durable == <<receipt, effect>>
lock    == <<holder, want>>
memory  == <<grant, upload, writes, fence>>
history == <<answer, issued, spent, consumed, orphaned>>
vars    == <<durable, lock, req, memory, exits, history>>

Mutex == INSTANCE KeyedMutex WITH Keys <- Commands, Clients <- Requests,
                                  NoKey <- NoCommand, NoClient <- NoRequest

-----------------------------------------------------------------------------
Result == {"ok", "failed"}

\* "locked": reading the receipt; "checked": none found; "apply": cleared, on
\* its way to its effect; "writing", "written": the receipt.
Admitted == {"waiting", "locked", "checked", "apply", "writing", "written"}
ReqRecord == [pc: {"new", "done", "gone"} \cup Admitted, cmd: Commands \cup {NoCommand},
              token: Tokens \cup {NoToken}, result: Result \cup {"none"}]
NewReq == [pc |-> "new", cmd |-> NoCommand, token |-> NoToken, result |-> "none"]

TypeOK ==
  /\ receipt \in [Commands -> Result \cup {"none"}]
  /\ effect \in [Commands -> Nat]
  /\ holder \in [Commands -> Requests \cup {NoRequest}]
  /\ want \in [Requests -> Commands \cup {NoCommand}]
  /\ req \in [Requests -> ReqRecord]
  /\ grant \in [Commands -> Tokens \cup {NoToken}]
  /\ upload \subseteq WithUpload
  /\ writes \subseteq Requests
  /\ fence \in {"open", "restoring", "restored"}
  /\ exits \in 0..MaxExits
  /\ answer \in [Requests -> Result \cup {"none", "refused", "error", "confirm"}]
  /\ issued \subseteq Commands \X Tokens
  /\ spent \subseteq Tokens \X Requests
  /\ consumed \subseteq Commands
  /\ orphaned \subseteq Commands

Init ==
  /\ receipt = [c \in Commands |-> "none"]
  /\ effect = [c \in Commands |-> 0]
  /\ Mutex!Init
  /\ req = [q \in Requests |-> NewReq]
  /\ grant = [c \in Commands |-> NoToken]
  /\ upload = {} /\ writes = {}
  /\ fence = "open"
  /\ exits = 0
  /\ answer = [q \in Requests |-> "none"]
  /\ issued = {} /\ spent = {} /\ consumed = {} /\ orphaned = {}

-----------------------------------------------------------------------------
(* A request, step by step.                                                *)

Goto(q, pc) == req' = [req EXCEPT ![q] = [@ EXCEPT !.pc = pc]]

\* Mutant of Finish: the command lock stays taken.
FinishKeepsLock(q, said) ==
  /\ Goto(q, "done")
  /\ answer' = [answer EXCEPT ![q] = said]
  /\ UNCHANGED lock

\* The return of `command`: its guards are dropped.
Finish(q, said) ==
  /\ Goto(q, "done")
  /\ answer' = [answer EXCEPT ![q] = said]
  /\ Mutex!Leave(q)

\* mutation_guard fails while a restore is at work and after it.
Refuse(q) ==
  /\ req[q].pc = "new"
  /\ fence # "open"
  /\ Goto(q, "done")
  /\ answer' = [answer EXCEPT ![q] = "refused"]
  /\ UNCHANGED <<durable, lock, memory, exits, issued, spent, consumed, orphaned>>

\* A token comes from an earlier answer, perhaps one that is no longer valid.
Arrive(q, c, t) ==
  /\ req[q].pc = "new"
  /\ fence = "open"
  /\ t = NoToken \/ (c \in Destructive /\ <<c, t>> \in issued)
  /\ req' = [req EXCEPT ![q] = [NewReq EXCEPT !.pc = "waiting", !.cmd = c, !.token = t]]
  /\ Mutex!Request(q, c)
  /\ UNCHANGED <<durable, memory, exits, history>>

EnterLock(q) ==
  /\ req[q].pc = "waiting"
  /\ Mutex!Enter(q)
  /\ Goto(q, "locked")
  /\ UNCHANGED <<durable, memory, exits, history>>

\* A receipt answers the retry.
Replay(q) ==
  /\ req[q].pc = "locked"
  /\ receipt[req[q].cmd] # "none"
  /\ Finish(q, receipt[req[q].cmd])
  /\ UNCHANGED <<durable, memory, exits, issued, spent, consumed, orphaned>>

\* Mutant of NoReceipt: the receipt is looked up only before the lock is taken.
NoReceiptUnread(q) ==
  /\ req[q].pc = "locked"
  /\ Goto(q, "checked")
  /\ UNCHANGED <<durable, lock, memory, exits, history>>

NoReceipt(q) ==
  /\ req[q].pc = "locked"
  /\ receipt[req[q].cmd] = "none"
  /\ Goto(q, "checked")
  /\ UNCHANGED <<durable, lock, memory, exits, history>>

\* resolve_command_attachment_uploads: an error, without a receipt.
UploadMissing(q) ==
  /\ req[q].pc = "checked"
  /\ req[q].cmd \in WithUpload \ upload
  /\ Finish(q, "error")
  /\ UNCHANGED <<durable, memory, exits, issued, spent, consumed, orphaned>>

\* Mutant of TokenLeft: a confirmation stays valid after its use.
TokenKept(q) == grant[req[q].cmd]

\* consume_confirmation removes the grant, also for a token that does not match.
TokenLeft(q) == IF req[q].token = NoToken THEN grant[req[q].cmd] ELSE NoToken

TokenValid(q) == req[q].token # NoToken /\ grant[req[q].cmd] = req[q].token

\* confirmation_result: the pending token, or a new one; no receipt.
NeedsConfirmation(q, t) ==
  LET c == req[q].cmd
  IN  /\ req[q].pc = "checked"
      /\ c \in Destructive /\ ~TokenValid(q)
      /\ IF TokenLeft(q) # NoToken THEN t = TokenLeft(q)
         ELSE \A x \in issued : x[2] # t
      /\ grant' = [grant EXCEPT ![c] = t]
      /\ issued' = issued \cup {<<c, t>>}
      /\ Finish(q, "confirm")
      /\ UNCHANGED <<durable, upload, writes, fence, exits, spent, consumed, orphaned>>

\* Mutant of Cleared: the upload is consumed when it is resolved.
ClearedConsumes(q) ==
  /\ req[q].pc = "checked"
  /\ req[q].cmd \in upload
  /\ upload' = upload \ {req[q].cmd}
  /\ consumed' = consumed \cup {req[q].cmd}
  /\ Goto(q, "apply")
  /\ UNCHANGED <<durable, lock, grant, writes, fence, exits, answer, issued, spent, orphaned>>

\* Nothing stands in the way of the command's effect.
Cleared(q) ==
  LET c == req[q].cmd
  IN  /\ req[q].pc = "checked"
      /\ c \notin WithUpload \ upload
      /\ c \in Destructive => TokenValid(q)
      /\ grant' = IF c \in Destructive THEN [grant EXCEPT ![c] = TokenLeft(q)] ELSE grant
      /\ spent' = IF c \in Destructive THEN spent \cup {<<req[q].token, q>>} ELSE spent
      /\ Goto(q, "apply")
      /\ UNCHANGED <<durable, lock, upload, writes, fence, exits, answer, issued, consumed, orphaned>>

\* Mutant of Apply: the answer does not wait for the receipt.
ApplyAnswersFirst(q, result) ==
  /\ req[q].pc = "apply"
  /\ effect' = IF result = "ok" THEN [effect EXCEPT ![req[q].cmd] = @ + 1] ELSE effect
  /\ req' = [req EXCEPT ![q] = [@ EXCEPT !.pc = "done", !.result = result]]
  /\ answer' = [answer EXCEPT ![q] = result]
  /\ Mutex!Leave(q)
  /\ writes' = writes \cup {q}
  /\ UNCHANGED <<receipt, grant, upload, fence, exits, issued, spent, consumed, orphaned>>

\* apply_command, and the receipt of its result, failed or not, goes to the
\* blocking pool.
Apply(q, result) ==
  /\ req[q].pc = "apply"
  /\ effect' = IF result = "ok" THEN [effect EXCEPT ![req[q].cmd] = @ + 1] ELSE effect
  /\ req' = [req EXCEPT ![q] = [@ EXCEPT !.pc = "writing", !.result = result]]
  /\ writes' = writes \cup {q}
  /\ UNCHANGED <<receipt, lock, grant, upload, fence, exits, history>>

\* Mutant of WriteReceipt: an upsert in place of the insert, and the answer
\* that goes out is not looked at again.
WriteReceiptReplaces(q) ==
  /\ q \in writes
  /\ writes' = writes \ {q}
  /\ receipt' = [receipt EXCEPT ![req[q].cmd] = req[q].result]
  /\ IF req[q].pc = "writing" THEN Goto(q, "written") ELSE UNCHANGED req
  /\ UNCHANGED <<effect, lock, grant, upload, fence, exits, history>>

\* control_put_command_receipt: a plain insert, an error if the row exists.
\* Nobody hears of the outcome when the request is gone.
WriteReceipt(q) ==
  LET new == receipt[req[q].cmd] = "none"
  IN  /\ q \in writes
      /\ writes' = writes \ {q}
      /\ receipt' = IF new THEN [receipt EXCEPT ![req[q].cmd] = req[q].result] ELSE receipt
      /\ \/ req[q].pc = "writing" /\ new /\ Goto(q, "written") /\ UNCHANGED <<lock, answer>>
         \/ req[q].pc = "writing" /\ ~new /\ Finish(q, "error")
         \/ req[q].pc # "writing" /\ UNCHANGED <<req, lock, answer>>
      /\ UNCHANGED <<effect, grant, upload, fence, exits, issued, spent, consumed, orphaned>>

\* consume_attachment_uploads, for results other than a failure, then the answer.
Reply(q) ==
  LET used == {req[q].cmd} \cap (IF req[q].result = "ok" THEN upload ELSE {})
  IN  /\ req[q].pc = "written"
      /\ upload' = upload \ used
      /\ consumed' = consumed \cup used
      /\ Finish(q, req[q].result)
      /\ UNCHANGED <<durable, grant, writes, fence, exits, issued, spent, orphaned>>

\* The caller's connection is closed: the future is dropped at an await.  A
\* receipt on the blocking pool is written all the same.
DropRequest(q) ==
  /\ q \in Droppable
  /\ req[q].pc \in {"waiting", "locked", "apply", "writing"}
  /\ Goto(q, "gone")
  /\ Mutex!Leave(q) \/ Mutex!Abandon(q)
  /\ orphaned' = IF q \in writes THEN orphaned \cup {req[q].cmd} ELSE orphaned
  /\ UNCHANGED <<durable, memory, exits, answer, issued, spent, consumed>>

-----------------------------------------------------------------------------
(* Around the requests.                                                    *)

\* put_attachment_upload; an upload expires after fifteen minutes, a
\* confirmation after five.
PutUpload(c) ==
  /\ c \in WithUpload \ upload
  /\ upload' = upload \cup {c}
  /\ consumed' = consumed \ {c}
  /\ UNCHANGED <<durable, lock, req, grant, writes, fence, exits, answer, issued, spent, orphaned>>

Expire(c) ==
  /\ c \in upload \/ grant[c] # NoToken
  /\ upload' = upload \ {c}
  /\ grant' = [grant EXCEPT ![c] = NoToken]
  /\ UNCHANGED <<durable, lock, req, writes, fence, exits, history>>

\* Mutant of BeginRestore: the write lock is taken without waiting for readers.
BeginRestoreAnyway ==
  /\ fence = "open"
  /\ fence' = "restoring"
  /\ UNCHANGED <<durable, lock, req, grant, upload, writes, exits, history>>

\* begin_restore: refused while a request is admitted.  It is refused too while
\* runs or queued turns exist, which only makes it rarer.
BeginRestore ==
  /\ fence = "open"
  /\ \A q \in Requests : req[q].pc \notin Admitted
  /\ fence' = "restoring"
  /\ UNCHANGED <<durable, lock, req, grant, upload, writes, exits, history>>

\* The backup, here the empty profile, replaces effects and receipts.  What
\* was answered before it is about data that is gone.
CommitRestore ==
  /\ fence = "restoring"
  /\ fence' = "restored"
  /\ receipt' = [c \in Commands |-> "none"]
  /\ effect' = [c \in Commands |-> 0]
  /\ answer' = [q \in Requests |-> "none"]
  /\ consumed' = {}
  /\ UNCHANGED <<lock, req, grant, upload, writes, exits, issued, spent, orphaned>>

RestoreFails ==
  /\ fence = "restoring"
  /\ fence' = "open"
  /\ UNCHANGED <<durable, lock, req, grant, upload, writes, exits, history>>

\* The process exits and starts again: what is not durable is gone.
Exit ==
  /\ exits < MaxExits
  /\ exits' = exits + 1
  /\ holder' = [c \in Commands |-> NoRequest]
  /\ want' = [q \in Requests |-> NoCommand]
  /\ req' = [q \in Requests |-> IF req[q].pc \in Admitted THEN [req[q] EXCEPT !.pc = "gone"] ELSE req[q]]
  /\ grant' = [c \in Commands |-> NoToken]
  /\ upload' = {} /\ writes' = {}
  /\ fence' = "open"
  /\ orphaned' = orphaned \cup {req[q].cmd : q \in writes}
  /\ UNCHANGED <<durable, answer, issued, spent, consumed>>

RequestStep(q) ==
  \/ Refuse(q) \/ EnterLock(q) \/ Replay(q) \/ NoReceipt(q) \/ UploadMissing(q) \/ Cleared(q)
  \/ \E t \in Tokens : NeedsConfirmation(q, t)
  \/ \E result \in Result : Apply(q, result)
  \/ WriteReceipt(q) \/ Reply(q)

Next ==
  \/ \E q \in Requests : RequestStep(q) \/ DropRequest(q)
  \/ \E q \in Requests, c \in Commands, t \in Tokens \cup {NoToken} : Arrive(q, c, t)
  \/ \E c \in Commands : PutUpload(c) \/ Expire(c)
  \/ BeginRestore \/ CommitRestore \/ RestoreFails \/ Exit

Spec == Init /\ [][Next]_vars

\* Admitted requests are polled, the blocking pool runs its jobs, and the
\* command lock serves its waiters in order.
Fairness == \A q \in Requests : /\ WF_vars(RequestStep(q) /\ req[q].pc # "new")
                                /\ SF_vars(EnterLock(q))

FairSpec == Spec /\ Fairness

-----------------------------------------------------------------------------
(* Properties.                                                             *)

\* "Durable receipts make identical retries return the original result": a
\* command takes effect once, except when its request or the process was gone
\* between its effect and its receipt.
AppliedOnce == \A c \in Commands : effect[c] > 1 => c \in orphaned

\* What a client was told is in the durable receipt, so every later answer to
\* the command is the same, across retries, races of retries and exits.
AnswerIsDurable ==
  \A q \in Requests : answer[q] \in Result => receipt[req[q].cmd] = answer[q]

\* "Destructive commands that need confirmation return a one-use token": no
\* token clears two requests, dropped and repeated ones included.
TokenClearsOnce == \A x, y \in spent : x[1] = y[1] => x = y

\* An upload is consumed "after the durable command receipt is written": a retry
\* never fails for an upload its own earlier attempt used up.
UploadKeptForRetry == \A c \in consumed : receipt[c] # "none"

\* "Stale clients cannot resume writing after replacement": after a restore
\* nothing takes effect, and no receipt is written but one whose request was
\* gone before the restore began, until milim restarts.
RestoredDataStays ==
  [][fence = "restored" /\ exits' = exits =>
       /\ effect' = effect
       /\ \A c \in Commands : receipt'[c] = receipt[c] \/ c \in orphaned]_vars

\* Every admitted request comes to an end: no order of retries, drops, restores
\* and exits leaves one waiting for a command lock.
AdmittedRequestsEnd == \A q \in Requests : req[q].pc \in Admitted ~> req[q].pc \notin Admitted

-----------------------------------------------------------------------------
(* The abstract intake.                                                    *)

\* A command has come to what its receipt says, or the request inside its lock
\* is about to write.
Writing(c) == {q \in Requests : req[q].pc = "writing" /\ req[q].cmd = c}
outcome ==
  [c \in Commands |->
     IF receipt[c] = "none" /\ Writing(c) # {} THEN req[CHOOSE q \in Writing(c) : TRUE].result
     ELSE receipt[c]]
told ==
  [q \in Requests |->
     IF answer[q] \in Result THEN [command |-> req[q].cmd, result |-> answer[q]]
     ELSE [command |-> NoCommand, result |-> "none"]]
mode == IF fence = "restored" THEN "restored" ELSE "serving"

Ledger == INSTANCE OneReceipt WITH times <- effect, torn <- orphaned

\* Effect and receipt are two writes with an await between them, which retries,
\* dropped callers, the blocking pool, restores and exits share; to a client they
\* are one step, taken once, but for the commands that were torn there.
ImplementsOneReceipt == Ledger!Spec
=============================================================================
