--------------------------- MODULE ApprovalsProofs ---------------------------
(***************************************************************************)
(* Proofs about Approvals, for any number of calls, commands and rules.    *)
(* ApprovalsInv is inductive: its parts say, one after the other, what the *)
(* broker holds for a call and what the runtime took from it (EntryInv),   *)
(* what a waiting command may rely on (ClientInv), where an approval comes *)
(* from (GrantInv) and what the end of the run leaves behind (RowInv and    *)
(* ClosedInv).                                                             *)
(* ReviewInv adds what the refinement of OneDecision needs: who still      *)
(* waits received nothing, and after an exit nothing goes on.              *)
(***************************************************************************)
EXTENDS Approvals, SequenceTheorems, TLAPS

-----------------------------------------------------------------------------
(* The broker's entries.                                                   *)

\* `transition`: the decision stays; only an allowed change takes place.
LEMMA TransitionEffect ==
  ASSUME NEW e \in Entry, NEW to \in States
  PROVE  /\ Transition(e, to) \in Entry
         /\ Transition(e, to).decision = e.decision
         /\ Transition(e, to).state = IF Allowed(e.state, to) THEN to ELSE e.state
         /\ Transition(e, to).chan = IF Allowed(e.state, to) /\ to \in {"failed", "canceled"} /\ e.chan = "open"
                                     THEN "closed" ELSE e.chan
  BY DEF Transition, Entry

\* `resolve_with_scope` decides a request nobody has decided.
LEMMA DecidedEffect ==
  ASSUME NEW e \in Entry, NEW d \in Decision
  PROVE  /\ Decided(e, d) \in Entry
         /\ e.state = "requested" => /\ Decided(e, d).state = "decided"
                                     /\ Decided(e, d).decision = d
                                     /\ Decided(e, d).chan = "sent"
         /\ e.state # "requested" => Decided(e, d) = e
  BY DEF Decided, Entry, States

\* Dropping a PendingApproval is one of two transitions, or nothing.
LEMMA DroppedEffect ==
  ASSUME NEW e \in Entry
  PROVE  /\ e.state = "requested" => Dropped(e) = Transition(e, "canceled")
         /\ e.state = "decided" => Dropped(e) = Transition(e, "failed")
         /\ e.state \notin {"requested", "decided"} => Dropped(e) = e
  BY DEF Dropped

\* A new request, a value taken from its channel, an empty broker.
LEMMA EntryRecords ==
  /\ [state |-> "requested", decision |-> "none", chan |-> "open"] \in Entry
  /\ NoEntry \in Entry /\ NoEntry.state = "none" /\ NoEntry.decision = "none" /\ NoEntry.chan = "closed"
  /\ \A e \in Entry : LET f == [e EXCEPT !.chan = "taken"] IN
       f \in Entry /\ f.state = e.state /\ f.decision = e.decision /\ f.chan = "taken"
  /\ \A e \in Entry : e.state \in States /\ e.decision \in Decision
  BY DEF Entry, NoEntry, States, Decision

\* The answers of resolve_with_scope that let a command wait.
LEMMA ResolveEffect ==
  ASSUME NEW e \in Entry, NEW d \in {"approve", "deny"}
  PROVE  /\ Resolve(e, d) = "resolved" <=> e.state = "requested"
         /\ Resolve(e, d) = "already" => e.state \notin {"none", "requested"} /\ e.decision = d
         /\ Resolve(e, d) \in {"missing", "resolved", "already", "failed", "conflict"}
  BY DEF Resolve

-----------------------------------------------------------------------------
(* The commands.                                                           *)

\* The moves of a command after it was asked.
LEMMA GotoEffect ==
  ASSUME client \in [Clients -> ClientRecord], NEW cl \in Clients,
         NEW pc \in {"writing", "emitting", "applied", "failed"}, Goto(cl, pc)
  PROVE  /\ client' \in [Clients -> ClientRecord]
         /\ \A d \in Clients \ {cl} : client'[d] = client[d]
         /\ client'[cl].pc = pc /\ client'[cl].call = client[cl].call
         /\ client'[cl].decision = client[cl].decision /\ client'[cl].snap = client[cl].snap
         /\ client'[cl].thread = (client[cl].thread /\ pc = "writing")
<1>1. client[cl] \in ClientRecord
  OBVIOUS
<1> DEFINE x == [[client[cl] EXCEPT !.pc = pc] EXCEPT !.thread = client[cl].thread /\ pc = "writing"]
<1>2. client' = [client EXCEPT ![cl] = x]
  BY <1>1 DEF Goto, ClientRecord
<1>3. /\ x \in ClientRecord /\ x.pc = pc /\ x.call = client[cl].call
      /\ x.decision = client[cl].decision /\ x.snap = client[cl].snap
      /\ x.thread = (client[cl].thread /\ pc = "writing")
  BY <1>1 DEF ClientRecord
<1> QED
  BY <1>2, <1>3

\* A command that has loaded the rules.
LEMMA LoadEffect ==
  ASSUME client \in [Clients -> ClientRecord], NEW cl \in Clients, NEW rs \in Seq(Keys),
         client' = [client EXCEPT ![cl].pc = "saving", ![cl].snap = rs]
  PROVE  /\ client' \in [Clients -> ClientRecord]
         /\ \A d \in Clients \ {cl} : client'[d] = client[d]
         /\ client'[cl].pc = "saving" /\ client'[cl].call = client[cl].call
         /\ client'[cl].decision = client[cl].decision /\ client'[cl].snap = rs
         /\ client'[cl].thread = client[cl].thread
<1>1. client[cl] \in ClientRecord
  OBVIOUS
<1> DEFINE x == [[client[cl] EXCEPT !.pc = "saving"] EXCEPT !.snap = rs]
<1>2. client' = [client EXCEPT ![cl] = x]
  BY <1>1 DEF ClientRecord
<1>3. /\ x \in ClientRecord /\ x.pc = "saving" /\ x.call = client[cl].call
      /\ x.decision = client[cl].decision /\ x.snap = rs /\ x.thread = client[cl].thread
  BY <1>1 DEF ClientRecord
<1> QED
  BY <1>2, <1>3

\* One that has saved them.
LEMMA SavedEffect ==
  ASSUME client \in [Clients -> ClientRecord], NEW cl \in Clients,
         client' = [client EXCEPT ![cl].pc = "emitting", ![cl].thread = FALSE, ![cl].snap = <<>>]
  PROVE  /\ client' \in [Clients -> ClientRecord]
         /\ \A d \in Clients \ {cl} : client'[d] = client[d]
         /\ client'[cl].pc = "emitting" /\ client'[cl].call = client[cl].call
         /\ client'[cl].decision = client[cl].decision /\ client'[cl].snap = <<>>
         /\ client'[cl].thread = FALSE
<1>1. client[cl] \in ClientRecord
  OBVIOUS
<1> DEFINE x == [[[client[cl] EXCEPT !.pc = "emitting"] EXCEPT !.thread = FALSE] EXCEPT !.snap = <<>>]
<1>2. client' = [client EXCEPT ![cl] = x]
  BY <1>1 DEF ClientRecord
<1>3. <<>> \in Seq(Keys)
  BY EmptySeq
<1>4. /\ x \in ClientRecord /\ x.pc = "emitting" /\ x.call = client[cl].call
      /\ x.decision = client[cl].decision /\ x.snap = <<>> /\ x.thread = FALSE
  BY <1>1, <1>3 DEF ClientRecord
<1> QED
  BY <1>2, <1>4

\* A command the process takes with it.
LEMMA LostRecord ==
  ASSUME NEW x \in ClientRecord
  PROVE  LET y == [x EXCEPT !.pc = "lost", !.thread = FALSE, !.snap = <<>>] IN
         /\ y \in ClientRecord /\ y.pc = "lost" /\ y.call = x.call /\ y.decision = x.decision
         /\ y.thread = FALSE /\ y.snap = <<>>
<1>1. <<>> \in Seq(Keys)
  BY EmptySeq
<1> QED
  BY <1>1 DEF ClientRecord

\* The fields of a command.
LEMMA ClientFields ==
  ASSUME NEW x \in ClientRecord
  PROVE  /\ x.pc \in {"idle", "waiting", "writing", "saving", "emitting",
                      "applied", "conflict", "failed", "lost"}
         /\ x.call \in Calls \cup {NoCall} /\ x.decision \in Decision
         /\ x.thread \in BOOLEAN /\ x.snap \in Seq(Keys)
  BY DEF ClientRecord

-----------------------------------------------------------------------------
(* Allowance rules.                                                        *)

\* `record` keeps the list within its cap and adds the one rule.
LEMMA RecordedRules ==
  ASSUME ApprovalConstants, NEW rs \in Seq(Keys), Len(rs) <= MaxRules, NEW k \in Keys
  PROVE  /\ Recorded(rs, k) \in Seq(Keys) /\ Len(Recorded(rs, k)) <= MaxRules
         /\ \A x \in Keys : Contains(Recorded(rs, k), x) => Contains(rs, x) \/ x = k
<1> DEFINE all == Append(rs, k)
<1>1. all \in Seq(Keys) /\ Len(all) = Len(rs) + 1 /\ all[Len(rs) + 1] = k
      /\ \A i \in 1..Len(rs) : all[i] = rs[i]
  BY AppendProperties
<1>2. \A x \in Keys : Contains(all, x) => Contains(rs, x) \/ x = k
  BY <1>1 DEF Contains
<1>3. CASE Len(all) > MaxRules
  <2>1. all # <<>>
    BY <1>1, EmptySeq
  <2>2. Tail(all) \in Seq(Keys) /\ Len(Tail(all)) = Len(all) - 1
        /\ \A i \in 1..Len(Tail(all)) : Tail(all)[i] = all[i + 1]
    BY <1>1, <2>1, HeadTailProperties
  <2>3. \A x \in Keys : Contains(Tail(all), x) => Contains(all, x)
    BY <1>1, <2>2 DEF Contains
  <2> QED
    BY <1>1, <1>2, <1>3, <2>2, <2>3, ApprovalConstants DEF Recorded, ApprovalConstants
<1>4. CASE ~(Len(all) > MaxRules)
  <2>1. Recorded(rs, k) = all
    BY <1>4 DEF Recorded
  <2> QED
    BY <1>1, <1>2, <1>4, <2>1, ApprovalConstants DEF ApprovalConstants
<1> QED
  BY <1>3, <1>4

\* What is left of a list within the cap is one.
LEMMA BoundedRules ==
  ASSUME NEW n \in Nat, NEW rs \in SeqOf(Keys, n)
  PROVE  rs \in Seq(Keys) /\ Len(rs) <= n
<1>1. PICK m \in 0..n : rs \in [1..m -> Keys]
  BY DEF SeqOf
<1>2. rs \in Seq(Keys) /\ Len(rs) = m
  BY <1>1, IsASeq, LenProperties
<1> QED
  BY <1>1, <1>2

-----------------------------------------------------------------------------
(* Type correctness, by groups of variables.                               *)

RuntimeOK ==
  /\ path \in [Calls -> {"native", "bridge", "gate"}]
  /\ keyOf \in [Calls -> Keys \cup {NoKey}]
  /\ entry \in [Calls -> Entry]
  /\ task \in [Calls -> {"idle", "waiting", "timedout", "received", "responded",
                         "delivered", "answered"} \cup Settled]
  /\ got \in [Calls -> Decision]

ControlOK ==
  /\ ctl \in [Calls -> {"none", "stored", "auto", "announce", "done", "expire", "fail"}]
  /\ row \in [Calls -> RowStatus]
  /\ shown \in [Calls -> {"none", "open", "closed"}]
  /\ run \in {"running", "failing", "stopped", "closing", "finished"}
  /\ closing \subseteq Calls /\ (closing # {} => run = "closing")
  /\ drain \in BOOLEAN

\* A command past its start is about a call and has a decision; one that will
\* write a rule is about a call that has one.
Waits == {"waiting", "writing", "saving", "emitting", "applied"}
CommandsOK ==
  /\ client \in [Clients -> ClientRecord]
  /\ \A cl \in Clients :
       /\ client[cl].pc \in Waits => client[cl].call \in Calls /\ client[cl].decision \in {"approve", "deny"}
       /\ client[cl].thread \/ client[cl].pc = "saving" => keyOf[client[cl].call] \in Keys
       /\ Len(client[cl].snap) <= MaxRules

RulesOK ==
  /\ rules \in Seq(Keys) /\ Len(rules) <= MaxRules
  /\ revoker \in Seq(Seq(Keys)) /\ Len(revoker) <= 1
  /\ revoker # <<>> => Len(revoker[1]) <= MaxRules
  /\ granted \subseteq Keys

ApprovalsType ==
  RuntimeOK /\ ControlOK /\ CommandsOK /\ RulesOK /\ restarts \in 0..MaxRestarts

\* A step that leaves a group of variables alone.
LEMMA Untouched ==
  /\ RuntimeOK /\ UNCHANGED runtime => RuntimeOK'
  /\ ControlOK /\ UNCHANGED control => ControlOK'
  /\ CommandsOK /\ UNCHANGED <<keyOf, client>> => CommandsOK'
  /\ RulesOK /\ UNCHANGED allow => RulesOK'
  BY DEF RuntimeOK, ControlOK, CommandsOK, RulesOK, runtime, control, allow

\* A change of one entry, and perhaps of tasks.
LEMMA EntrySet ==
  ASSUME RuntimeOK, UNCHANGED <<path, keyOf>>, entry' \in [Calls -> Entry],
         task' \in [Calls -> {"idle", "waiting", "timedout", "received", "responded",
                             "delivered", "answered"} \cup Settled],
         got' \in [Calls -> Decision]
  PROVE  RuntimeOK'
  BY DEF RuntimeOK

\* The broker's states the actions name are states.
LEMMA StateNames == {"delivered", "acknowledged", "failed", "canceled"} \subseteq States
  BY DEF States

\* The drop of a stream's lease fails gate entries, or leaves them all.
LEMMA LeaseEffect ==
  ASSUME NEW e \in [Calls -> Entry], NEW f \in LeaseDropped(e)
  PROVE  /\ f \in [Calls -> Entry]
         /\ \A x \in Calls : f[x] = e[x] \/ (path[x] = "gate" /\ f[x] = Transition(e[x], "failed"))
<1>1. \A x \in Calls : Transition(e[x], "failed") \in Entry
  BY TransitionEffect, StateNames
<1> QED
  BY <1>1 DEF LeaseDropped

\* Whether its stream is dropped or drained, a run that ends drops what native
\* and bridge calls wait for; a gate's call waits on, failed or not.
LEMMA LeaveEffect ==
  ASSUME RuntimeOK, Stop \/ Drain
  PROVE  /\ entry' \in [Calls -> Entry]
         /\ \A x \in Calls :
              entry'[x] \in IF path[x] = "gate" THEN {entry[x], Transition(entry[x], "failed")}
                            ELSE {Dropped(entry[x])}
         /\ task' = [c \in Calls |->
              CASE task[c] \in Settled \cup {"idle"} -> task[c]
                [] path[c] = "gate" -> task[c]
                [] path[c] = "bridge" /\ task[c] \in {"responded", "delivered"} /\ got[c] = "approve" -> "ran"
                [] OTHER -> "gone"]
         /\ run \in {"running", "failing"} /\ run' = "stopped" /\ drain' \in BOOLEAN
         /\ \A c \in Calls : ctl[c] \in {"none", "done"}
         /\ UNCHANGED <<path, keyOf, got, ctl, row, shown, closing, client, allow, restarts>>
<1>e. entry \in [Calls -> Entry]
  BY DEF RuntimeOK
<1>1. Left \in [Calls -> Entry] /\ \A x \in Calls : Left[x] = IF path[x] = "gate" THEN entry[x] ELSE Dropped(entry[x])
  <2>1. \A x \in Calls : Dropped(entry[x]) \in Entry
    <3> SUFFICES ASSUME NEW x \in Calls PROVE Dropped(entry[x]) \in Entry
      OBVIOUS
    <3>1. Dropped(entry[x]) \in {entry[x], Transition(entry[x], "canceled"), Transition(entry[x], "failed")}
      BY <1>e, DroppedEffect
    <3> QED
      BY <1>e, <3>1, TransitionEffect, StateNames
  <2> QED
    BY <1>e, <2>1 DEF Left
<1>2. PICK E \in {LeaseDropped(Left), {Left}} : Leave(E)
  BY DEF Stop, Drain
<1>3. entry' \in E
  BY <1>2 DEF Leave
<1>4. entry' \in [Calls -> Entry]
      /\ \A x \in Calls : entry'[x] = Left[x] \/ (path[x] = "gate" /\ entry'[x] = Transition(Left[x], "failed"))
  <2>1. CASE E = {Left}
    BY <1>1, <1>3, <2>1
  <2>2. CASE E = LeaseDropped(Left)
    <3>1. entry' \in LeaseDropped(Left)
      BY <1>3, <2>2
    <3> HIDE DEF Left
    <3> QED
      BY <1>1, <3>1, LeaseEffect
  <2> QED
    BY <2>1, <2>2
<1>5. drain' \in BOOLEAN
  BY DEF Stop, Drain
<1> HIDE DEF Left
<1> QED
  BY <1>1, <1>2, <1>4, <1>5, Zenon DEF Leave

\* The end of the drained stream.
LEMMA DrainedEffect ==
  ASSUME RuntimeOK, Drained
  PROVE  /\ entry' \in [Calls -> Entry]
         /\ \A x \in Calls : entry'[x] \in {entry[x], Transition(entry[x], "failed")}
         /\ drain' = FALSE
         /\ UNCHANGED <<path, keyOf, task, got, ctl, row, shown, run, closing, client, allow, restarts>>
  BY LeaseEffect DEF RuntimeOK, Drained

\* Every step keeps the groups well typed.
LEMMA TypeStep == ASSUME ApprovalConstants, ApprovalsType, [Next]_vars PROVE ApprovalsType'
<1> USE DEF ApprovalsType
<1>e. entry \in [Calls -> Entry] /\ client \in [Clients -> ClientRecord]
  BY DEF RuntimeOK, CommandsOK
<1>t. \A x \in Calls, to \in States : Transition(entry[x], to) \in Entry
  BY <1>e, TransitionEffect
<1>1. ASSUME NEW c \in Calls, Request(c) PROVE ApprovalsType'
  <2>1. RuntimeOK'
    BY <1>1, EntryRecords DEF Request, RuntimeOK, Settled
  <2> QED
    BY <1>1, <2>1, Untouched DEF Request, runtime, control, allow
<1>2. ASSUME NEW c \in Calls, Receive(c) PROVE ApprovalsType'
  <2>1. RuntimeOK'
    <3>1. got' \in [Calls -> Decision]
      BY <1>2, EntryRecords DEF Receive, RuntimeOK, Decision
    <3>2. entry' \in [Calls -> Entry]
      <4>1. CASE entry' = [entry EXCEPT ![c].chan = "taken"]
        BY <4>1, <1>e, EntryRecords
      <4>2. CASE Moved(c, "failed")
        BY <4>2, <1>e, <1>t, StateNames DEF Moved
      <4> QED
        BY <1>2, <4>1, <4>2 DEF Receive
    <3> QED
      BY <1>2, <3>1, <3>2 DEF Receive, RuntimeOK
  <2> QED
    BY <1>2, <2>1, Untouched DEF Receive, runtime, control, allow
<1>3. ASSUME NEW c \in Calls, TimeOut(c) PROVE ApprovalsType'
  <2>1. RuntimeOK'
    BY <1>3, <1>t, StateNames DEF TimeOut, RuntimeOK, Moved, Settled
  <2> QED
    BY <1>3, <2>1, Untouched DEF TimeOut, runtime, control, allow
<1>4. ASSUME NEW c \in Calls, Expire(c) PROVE ApprovalsType'
  <2>1. RuntimeOK'
    BY <1>4, <1>t, StateNames DEF Expire, RuntimeOK, Moved, Decision
  <2>2. ControlOK'
    BY <1>4 DEF Expire, ControlOK, RowStatus, Pending, BridgeFails
  <2> QED
    BY <1>4, <2>1, <2>2, Untouched DEF Expire, runtime, control, allow
<1>5. ASSUME NEW c \in Calls, DeliverNative(c) PROVE ApprovalsType'
  <2>1. RuntimeOK'
    BY <1>5, <1>t, StateNames DEF DeliverNative, RuntimeOK, Moved, Settled
  <2> QED
    BY <1>5, <2>1, Untouched DEF DeliverNative, runtime, control, allow
<1>6. ASSUME NEW c \in Calls, AcknowledgeNative(c) PROVE ApprovalsType'
  <2>1. RuntimeOK'
    BY <1>6, <1>t, StateNames DEF AcknowledgeNative, RuntimeOK, Moved, Settled
  <2> QED
    BY <1>6, <2>1, Untouched DEF AcknowledgeNative, runtime, control, allow
<1>7. ASSUME NEW c \in Calls, Execute(c) PROVE ApprovalsType'
  <2>1. RuntimeOK'
    BY <1>7, <1>t, StateNames DEF Execute, RuntimeOK, Moved, Settled
  <2> QED
    BY <1>7, <2>1, Untouched DEF Execute, runtime, control, allow
<1>8. ASSUME NEW c \in Calls, DeliverGate(c) PROVE ApprovalsType'
  <2>1. RuntimeOK'
    BY <1>8, <1>t, StateNames DEF DeliverGate, RuntimeOK, Moved, Settled
  <2> QED
    BY <1>8, <2>1, Untouched DEF DeliverGate, runtime, control, allow
<1>9. ASSUME NEW c \in Calls, Respond(c) PROVE ApprovalsType'
  <2>1. RuntimeOK'
    BY <1>9, <1>t, StateNames DEF Respond, RuntimeOK, Moved, Settled, BridgeFails
  <2>2. ControlOK'
    BY <1>9 DEF Respond, ControlOK, BridgeFails, control
  <2> QED
    BY <1>9, <2>1, <2>2, Untouched DEF Respond, runtime, control, allow, BridgeFails
<1>10. ASSUME NEW c \in Calls, DeliverBridge(c) PROVE ApprovalsType'
  <2>1. RuntimeOK'
    BY <1>10, <1>t, StateNames DEF DeliverBridge, RuntimeOK, Moved, Settled, BridgeFails
  <2>2. ControlOK'
    BY <1>10 DEF DeliverBridge, ControlOK, BridgeFails, control
  <2> QED
    BY <1>10, <2>1, <2>2, Untouched DEF DeliverBridge, runtime, control, allow, BridgeFails
<1>11. ASSUME NEW c \in Calls, AcknowledgeBridge(c) PROVE ApprovalsType'
  <2>1. RuntimeOK'
    BY <1>11, <1>t, StateNames DEF AcknowledgeBridge, RuntimeOK, Moved, Settled, BridgeFails
  <2>2. ControlOK'
    BY <1>11 DEF AcknowledgeBridge, ControlOK, BridgeFails, control
  <2> QED
    BY <1>11, <2>1, <2>2, Untouched DEF AcknowledgeBridge, runtime, control, allow, BridgeFails
<1>12. ASSUME NEW c \in Calls, PutRow(c) PROVE ApprovalsType'
  <2>2. ControlOK'
    BY <1>12 DEF PutRow, ControlOK, RowStatus, Pending, BridgeFails
  <2> QED
    BY <1>12, <2>2, Untouched DEF PutRow, runtime, control, allow
<1>13. ASSUME NEW c \in Calls, AutoResolve(c) PROVE ApprovalsType'
  <2>1. RuntimeOK'
    BY <1>13, <1>e, DecidedEffect DEF AutoResolve, RuntimeOK, Decision
  <2>2. ControlOK'
    BY <1>13 DEF AutoResolve, ControlOK, RowStatus, Pending, BridgeFails
  <2> QED
    BY <1>13, <2>1, <2>2, Untouched DEF AutoResolve, runtime, control, allow
<1>14. ASSUME NEW c \in Calls, Announce(c) PROVE ApprovalsType'
  <2>2. ControlOK'
    BY <1>14 DEF Announce, ControlOK, RowStatus, Pending, BridgeFails
  <2> QED
    BY <1>14, <2>2, Untouched DEF Announce, runtime, control, allow
<1>15. ASSUME NEW c \in Calls, RelayFailure(c) PROVE ApprovalsType'
  <2>2. ControlOK'
    BY <1>15 DEF RelayFailure, ControlOK, RowStatus, Pending, BridgeFails
  <2> QED
    BY <1>15, <2>2, Untouched DEF RelayFailure, runtime, control, allow
<1>16. ASSUME NEW c \in Calls, ClosePut(c) PROVE ApprovalsType'
  <2>2. ControlOK'
    BY <1>16 DEF ClosePut, ControlOK, RowStatus, Pending, BridgeFails
  <2> QED
    BY <1>16, <2>2, Untouched DEF ClosePut, runtime, control, allow
<1>17. ASSUME NEW c \in Calls, CancelAnnounce(c) PROVE ApprovalsType'
  <2>1. RuntimeOK'
    BY <1>17, <1>t, StateNames DEF CancelAnnounce, RuntimeOK, Moved, Settled
  <2>2. ControlOK'
    BY <1>17 DEF CancelAnnounce, ControlOK, RowStatus, Pending, BridgeFails
  <2> QED
    BY <1>17, <2>1, <2>2, Untouched DEF CancelAnnounce, runtime, control, allow
<1>18. ASSUME AcknowledgeRun PROVE ApprovalsType'
  <2>1. RuntimeOK'
    BY <1>18, <1>t, StateNames DEF AcknowledgeRun, RuntimeOK, Moved, Settled
  <2> QED
    BY <1>18, <2>1, Untouched DEF AcknowledgeRun, runtime, control, allow
<1>19. ASSUME Stop \/ Drain PROVE ApprovalsType'
  <2>1. RuntimeOK'
    BY <1>19, LeaveEffect DEF RuntimeOK, Settled
  <2>2. ControlOK'
    BY <1>19, LeaveEffect DEF ControlOK
  <2> QED
    BY <1>19, <2>1, <2>2, LeaveEffect, Untouched
<1>31. ASSUME Drained PROVE ApprovalsType'
  <2>1. RuntimeOK'
    BY <1>31, DrainedEffect DEF RuntimeOK
  <2>2. ControlOK'
    BY <1>31, DrainedEffect DEF ControlOK
  <2> QED
    BY <1>31, <2>1, <2>2, DrainedEffect, Untouched
<1>20. ASSUME CancelRows PROVE ApprovalsType'
  <2>2. ControlOK'
    BY <1>20 DEF CancelRows, ControlOK, RowStatus, Pending, BridgeFails
  <2> QED
    BY <1>20, <2>2, Untouched DEF CancelRows, runtime, control, allow
<1>21. ASSUME NEW cl \in Clients, WaitDone(cl) PROVE ApprovalsType'
  <2>3. CommandsOK'
    BY <1>21, GotoEffect, ClientFields DEF WaitDone, CommandsOK, Waits, runtime
  <2> QED
    BY <1>21, <2>3, Untouched DEF WaitDone, runtime, control, allow
<1>22. ASSUME NEW cl \in Clients, WaitTimeout(cl) PROVE ApprovalsType'
  <2>1. RuntimeOK'
    BY <1>22, <1>t, StateNames DEF WaitTimeout, RuntimeOK, Moved, Settled
  <2>3. CommandsOK'
    BY <1>22, GotoEffect, ClientFields DEF WaitTimeout, CommandsOK, Waits
  <2> QED
    BY <1>22, <2>1, <2>3, Untouched DEF WaitTimeout, runtime, control, allow
<1>23. ASSUME NEW cl \in Clients, WriteDecision(cl) PROVE ApprovalsType'
  <2>2. ControlOK'
    BY <1>23 DEF WriteDecision, ControlOK, RowStatus, Pending, BridgeFails
  <2>3. CommandsOK'
    <3>1. client[cl].pc = "writing" /\ UNCHANGED keyOf /\ rules \in Seq(Keys) /\ Len(rules) <= MaxRules
      BY <1>23 DEF WriteDecision, runtime, RulesOK
    <3>2. CASE client' = [client EXCEPT ![cl].pc = "saving", ![cl].snap = rules] /\ client[cl].thread
      <4>1. /\ client' \in [Clients -> ClientRecord]
            /\ \A d \in Clients \ {cl} : client'[d] = client[d]
            /\ client'[cl].pc = "saving" /\ client'[cl].call = client[cl].call
            /\ client'[cl].decision = client[cl].decision /\ client'[cl].snap = rules
            /\ client'[cl].thread = client[cl].thread
        BY Zenon, <1>e, <3>1, <3>2, LoadEffect
      <4> QED
        BY <1>e, <3>1, <3>2, <4>1 DEF CommandsOK, Waits
    <3>3. CASE Goto(cl, "emitting")
      BY <1>e, <3>1, <3>3, GotoEffect, ZenonT(30) DEF CommandsOK, Waits
    <3> QED
      BY <1>23, <3>2, <3>3 DEF WriteDecision
  <2> QED
    BY <1>23, <2>2, <2>3, Untouched DEF WriteDecision, runtime, control, allow
<1>24. ASSUME NEW cl \in Clients, SaveRules(cl) PROVE ApprovalsType'
  <2>3. CommandsOK'
    <3>1. client[cl].pc = "saving" /\ UNCHANGED keyOf /\ Len(<<>>) <= MaxRules
      BY <1>24, EmptySeq, ApprovalConstants DEF SaveRules, runtime, ApprovalConstants
    <3> QED
      BY <1>e, <1>24, <3>1, SavedEffect, Zenon DEF SaveRules, CommandsOK, Waits
  <2>4. RulesOK'
    <3>1. keyOf[client[cl].call] \in Keys /\ client[cl].snap \in Seq(Keys) /\ Len(client[cl].snap) <= MaxRules
      BY <1>e, <1>24, ClientFields DEF SaveRules, CommandsOK
    <3>2. Recorded(client[cl].snap, keyOf[client[cl].call]) \in Seq(Keys)
          /\ Len(Recorded(client[cl].snap, keyOf[client[cl].call])) <= MaxRules
      BY <3>1, RecordedRules
    <3> QED
      BY <1>24, <3>1, <3>2 DEF SaveRules, RulesOK
  <2> QED
    BY <1>24, <2>3, <2>4, Untouched DEF SaveRules, runtime, control, allow
<1>25. ASSUME NEW cl \in Clients, EmitResolved(cl) PROVE ApprovalsType'
  <2>2. ControlOK'
    BY <1>25 DEF EmitResolved, ControlOK, CommandsOK, Waits
  <2>3. CommandsOK'
    BY <1>25, GotoEffect, ClientFields DEF EmitResolved, CommandsOK, Waits, runtime
  <2> QED
    BY <1>25, <2>2, <2>3, Untouched DEF EmitResolved, runtime, control, allow
<1>26. ASSUME NEW cl \in Clients, NEW c \in Calls, NEW d \in {"approve", "deny"},
              NEW thread \in BOOLEAN, Ask(cl, c, d, thread)
       PROVE  ApprovalsType'
  <2>1. RuntimeOK'
    BY <1>26, <1>e, DecidedEffect DEF Ask, RuntimeOK, Decision
  <2>3. CommandsOK'
    <3>0. Len(<<>>) <= MaxRules /\ UNCHANGED keyOf
      BY <1>26, EmptySeq, ApprovalConstants DEF Ask, ApprovalConstants
    <3>1. PICK pc \in {"waiting", "conflict", "failed"}, b \in BOOLEAN :
            /\ client' = [client EXCEPT ![cl] = [NewClient EXCEPT !.pc = pc, !.call = c, !.decision = d,
                                                              !.thread = b]]
            /\ b => thread /\ pc = "waiting"
            /\ thread /\ keyOf[c] = NoKey => pc = "failed"
      BY <1>26, Zenon DEF Ask
    <3>2. b => keyOf[c] \in Keys
      BY <3>1 DEF RuntimeOK
    <3> HIDE DEF ApprovalsType
    <3> DEFINE x == [NewClient EXCEPT !.pc = pc, !.call = c, !.decision = d, !.thread = b]
    <3>4. /\ x \in ClientRecord /\ x.pc = pc /\ x.call = c /\ x.decision = d
          /\ x.thread = b /\ x.snap = <<>>
      <4>1. <<>> \in Seq(Keys)
        BY EmptySeq
      <4> QED
        BY ONLY <4>1, c \in Calls, d \in {"approve", "deny"}, b \in BOOLEAN, pc \in {"waiting",
          "conflict", "failed"}
           DEF x, NewClient, ClientRecord, Decision
    <3>5. client' = [client EXCEPT ![cl] = x]
      BY <3>1
    <3> HIDE DEF x
    <3>6. CommandsOK
      BY DEF ApprovalsType
    <3> QED
      BY <1>e, <3>0, <3>2, <3>4, <3>5, <3>6 DEF CommandsOK, Waits
  <2> QED
    BY <1>26, <2>1, <2>3, Untouched DEF Ask, runtime, control, allow
<1>27. ASSUME NEW keys \in (SUBSET Keys) \ {{}}, RevokeLoad(keys) PROVE ApprovalsType'
  <2>4. RulesOK'
    BY <1>27, BoundedRules, ApprovalConstants DEF RevokeLoad, RulesOK, ApprovalConstants
  <2> QED
    BY <1>27, <2>4, Untouched DEF RevokeLoad, runtime, control, allow
<1>28. ASSUME RevokeSave PROVE ApprovalsType'
  <2>4. RulesOK'
    BY <1>28, EmptySeq DEF RevokeSave, RulesOK
  <2> QED
    BY <1>28, <2>4, Untouched DEF RevokeSave, runtime, control, allow
<1>29. ASSUME Restart PROVE ApprovalsType'
  <2>0. /\ UNCHANGED <<path, keyOf, got, rules, granted>> /\ revoker' = <<>>
        /\ restarts < MaxRestarts /\ restarts' = restarts + 1
    BY <1>29, Zenon DEF Restart
  <2>1. RuntimeOK'
    BY <1>29, EntryRecords, Zenon DEF Restart, RuntimeOK, Settled
  <2>2. ControlOK'
    BY <1>29, Zenon DEF Restart, ControlOK, RowStatus, Pending, BridgeFails
  <2>3. CommandsOK'
    <3>0. Len(<<>>) <= MaxRules /\ UNCHANGED keyOf
      BY <2>0, EmptySeq, ApprovalConstants DEF ApprovalConstants
    <3>1. ASSUME NEW x \in Clients
          PROVE  /\ client'[x] \in ClientRecord
                 /\ client'[x].pc \in Waits => client'[x].call \in Calls /\ client'[x].decision \in {"approve", "deny"}
                 /\ client'[x].thread \/ client'[x].pc = "saving" => keyOf[client'[x].call] \in Keys
                 /\ Len(client'[x].snap) <= MaxRules
      <4>1. CASE client[x].pc \in {"idle", "applied", "conflict", "failed"}
        BY <1>29, <4>1, Zenon DEF Restart, CommandsOK
      <4>2. CASE client[x].pc \notin {"idle", "applied", "conflict", "failed"}
        <5>1. client'[x] = [client[x] EXCEPT !.pc = "lost", !.thread = FALSE, !.snap = <<>>]
          BY <1>29, <4>2, Zenon DEF Restart
        <5> QED
          BY <1>e, <3>0, <5>1, LostRecord, ZenonT(30) DEF Waits
      <4> QED
        BY <4>1, <4>2
    <3>2. client' \in [Clients -> ClientRecord]
      BY <1>29, <3>1, Zenon DEF Restart
    <3> QED
      BY <3>0, <3>1, <3>2 DEF CommandsOK
  <2>4. RulesOK'
    <3>1. <<>> \in Seq(Seq(Keys)) /\ Len(<<>>) = 0
      BY EmptySeq
    <3> QED
      BY <2>0, <3>1 DEF RulesOK
  <2> QED
    BY <2>0, <2>1, <2>2, <2>3, <2>4, ApprovalConstants DEF ApprovalConstants
<1>30. ASSUME UNCHANGED vars PROVE ApprovalsType'
  BY <1>30, Untouched DEF vars, runtime, control, allow
<1> QED
  BY <1>1, <1>2, <1>3, <1>4, <1>5, <1>6, <1>7, <1>8, <1>9, <1>10, <1>11, <1>12, <1>13, <1>14, <1>15,
    <1>16, <1>17, <1>18, <1>19, <1>20, <1>21, <1>22, <1>23, <1>24, <1>25, <1>26, <1>27, <1>28,
    <1>29, <1>30, <1>31 DEF Next, RuntimeStep, HandlerStep, ClientStep


-----------------------------------------------------------------------------
(* What the broker, the runtime and the commands know of each other.       *)

\* The runtime has not taken an answer yet.
Asked == {"idle", "waiting", "timedout"}

\* An entry e, the task t that asked and the decision g it received: the channel
\* is open while nobody decided; a decided entry holds its decision until it is
\* taken, and who takes it received that decision; only a taken one is delivered.
EntryOK(e, t, g) ==
  /\ t = "idle" => e.state = "none"
  /\ e.chan = "open" <=> e.state = "requested"
  /\ e.state = "requested" => t \in {"waiting", "timedout"}
  /\ e.state = "decided" => e.chan # "closed"
  /\ e.state = "decided" /\ t \notin Asked => e.chan = "taken"
  /\ e.state \in {"delivered", "acknowledged"} => e.chan = "taken"
  /\ e.chan = "taken" => g = e.decision /\ t \notin Asked
EntryInv == \A c \in Calls : EntryOK(entry[c], task[c], got[c])

\* A decided entry keeps its decision while the process lives; what a runtime
\* received stays; a request is made only while the run goes on.
Open == {"none", "requested"}
Unsettled == {"requested", "decided"}
Keeps(x) ==
  /\ entry[x].state \notin Open /\ restarts' = restarts =>
       entry'[x].state \notin Open /\ entry'[x].decision = entry[x].decision
  /\ task[x] \notin Asked => task'[x] \notin Asked /\ got'[x] = got[x]
  /\ entry'[x].state \in Unsettled => entry[x].state \in Unsettled \/ run = "running"

\* Failing an entry.
LEMMA Failing ==
  ASSUME NEW e \in Entry, NEW t, NEW g, EntryOK(e, t, g), NEW to \in {"failed", "canceled"}
  PROVE  /\ EntryOK(Transition(e, to), t, g)
         /\ Transition(e, to).state \in {"none", "failed", "canceled", "acknowledged"}
         /\ Transition(e, to).chan # "open" /\ Transition(e, to).decision = e.decision
         /\ Transition(e, to).chan = "taken" <=> e.chan = "taken"
         /\ e.state \notin Open => Transition(e, to).state \notin Open
<1>1. to \in States /\ e.state \in States
  BY EntryRecords DEF States
<1> QED
  BY <1>1, TransitionEffect DEF EntryOK, Allowed, Terminal, Open, States

\* Delivering and acknowledging one.
LEMMA Delivering ==
  ASSUME NEW e \in Entry, NEW t, NEW g, EntryOK(e, t, g), t \notin Asked, NEW to \in {"delivered", "acknowledged"}
  PROVE  /\ EntryOK(Transition(e, to), t, g)
         /\ Transition(e, to).decision = e.decision
         /\ e.state \notin Open <=> Transition(e, to).state \notin Open
         /\ Transition(e, to).state \in Unsettled => e.state \in Unsettled
<1>1. to \in States /\ e.state \in States
  BY EntryRecords DEF States
<1> QED
  BY <1>1, TransitionEffect DEF EntryOK, Allowed, Terminal, Open, Unsettled, States

\* Past the answer, where exactly the task is does not matter.
LEMMA MovingOn ==
  ASSUME NEW e, NEW t, NEW u, NEW g, EntryOK(e, t, g), t \notin Asked, u \notin Asked
  PROVE  EntryOK(e, u, g)
  BY DEF EntryOK, Asked

\* A failed entry says nothing about the task that goes on or goes away.
LEMMA FailedEntry ==
  ASSUME NEW e \in Entry, NEW t, NEW u, NEW g, EntryOK(e, t, g), u \notin Asked,
         e.state \in {"none", "failed", "canceled", "acknowledged"}
  PROVE  EntryOK(e, u, g) /\ (e.chan # "taken" => \A h : EntryOK(e, u, h))
  BY DEF EntryOK, Asked

\* Every step keeps the entries in order, and what was decided and received.
LEMMA EntryStep ==
  ASSUME ApprovalConstants, ApprovalsType, EntryInv, [Next]_vars
  PROVE  EntryInv' /\ \A x \in Calls : Keeps(x)
<1> DEFINE Goal == EntryInv' /\ \A x \in Calls : Keeps(x)
<1>e. \A x \in Calls : entry[x] \in Entry /\ EntryOK(entry[x], task[x], got[x])
  BY DEF ApprovalsType, RuntimeOK, EntryInv
<1>r. entry \in [Calls -> Entry] /\ task \in [Calls -> {"idle", "waiting", "timedout", "received", "responded",
                         "delivered", "answered"} \cup Settled] /\ got \in [Calls -> Decision]
  BY DEF ApprovalsType, RuntimeOK
<1>0. UNCHANGED <<entry, task, got>> => Goal
  BY <1>e DEF EntryInv, Keeps, Unsettled
\* A step of one call.
<1>1c. ASSUME NEW c \in Calls,
             \A x \in Calls \ {c} : entry'[x] = entry[x] /\ task'[x] = task[x] /\ got'[x] = got[x],
             EntryOK(entry'[c], task'[c], got'[c]), Keeps(c)
      PROVE  Goal
  BY <1>1c, <1>e DEF EntryInv, Keeps, Unsettled
<1>1. ASSUME NEW c \in Calls, Request(c) PROVE Goal
  <2>1. \A x \in Calls \ {c} : entry'[x] = entry[x] /\ task'[x] = task[x] /\ got'[x] = got[x]
    BY <1>1, <1>r DEF Request, Moved, BridgeFails
  <2>2. EntryOK(entry'[c], task'[c], got'[c]) /\ Keeps(c)
    BY <1>1, <1>r, <1>e DEF Request, EntryOK, Keeps, Asked, Open, Unsettled
  <2> QED
    BY <1>1c, <2>1, <2>2
<1>2. ASSUME NEW c \in Calls, Receive(c) PROVE Goal
  <2>1. \A x \in Calls \ {c} : entry'[x] = entry[x] /\ task'[x] = task[x] /\ got'[x] = got[x]
    BY <1>2, <1>r DEF Receive, Moved
  <2>2. task[c] = "waiting" /\ task'[c] = "received"
    BY <1>2, <1>r DEF Receive
  <2>3. CASE entry[c].chan = "sent" /\ got' = [got EXCEPT ![c] = entry[c].decision]
             /\ entry' = [entry EXCEPT ![c].chan = "taken"]
    <3>1. got'[c] = entry[c].decision /\ entry'[c] = [entry[c] EXCEPT !.chan = "taken"]
      BY <1>r, <2>3
    <3>2. /\ entry'[c].state = entry[c].state /\ entry'[c].decision = entry[c].decision
          /\ entry'[c].chan = "taken"
      BY <1>e, <3>1, EntryRecords
    <3>3. EntryOK(entry'[c], task'[c], got'[c]) /\ Keeps(c)
      BY <1>e, <2>2, <2>3, <3>1, <3>2 DEF EntryOK, Keeps, Unsettled, Asked
    <3> QED
      BY <1>1c, <2>1, <3>3
  <2>4. CASE entry[c].chan = "closed" /\ Moved(c, "failed")
    <3>1. entry'[c] = Transition(entry[c], "failed") /\ entry[c].state # "decided"
      BY <1>r, <1>e, <2>4 DEF Moved, EntryOK
    <3>2. EntryOK(entry'[c], task'[c], got'[c]) /\ Keeps(c)
      BY <1>e, <2>2, <2>4, <3>1, Failing DEF EntryOK, Keeps, Unsettled, Asked
    <3> QED
      BY <1>1c, <2>1, <3>2
  <2> QED
    BY <1>2, <2>3, <2>4 DEF Receive
<1>3. ASSUME NEW c \in Calls, TimeOut(c) PROVE Goal
  <2>1. \A x \in Calls \ {c} : entry'[x] = entry[x] /\ task'[x] = task[x] /\ got'[x] = got[x]
    BY <1>3, <1>r DEF TimeOut, Moved, BridgeFails
  <2>2. EntryOK(entry'[c], task'[c], got'[c]) /\ Keeps(c)
    BY <1>3, <1>r, <1>e DEF TimeOut, EntryOK, Keeps, Unsettled, Asked, Open
  <2> QED
    BY <1>1c, <2>1, <2>2
<1>4. ASSUME NEW c \in Calls, Expire(c) PROVE Goal
  <2>1. \A x \in Calls \ {c} : entry'[x] = entry[x] /\ task'[x] = task[x] /\ got'[x] = got[x]
    BY <1>4, <1>r DEF Expire, Moved
  <2>2. task[c] = "timedout" /\ task'[c] = "answered" /\ entry'[c] = Transition(entry[c], "failed")
    BY <1>4, <1>r DEF Expire, Moved
  <2>3. entry[c].chan # "taken"
    BY <1>e, <2>2 DEF EntryOK, Asked
  <2>4. EntryOK(entry'[c], task'[c], got'[c]) /\ Keeps(c)
    BY <1>e, <2>2, <2>3, Failing DEF EntryOK, Keeps, Unsettled, Asked
  <2> QED
    BY <1>1c, <2>1, <2>4
<1>5. ASSUME NEW c \in Calls, DeliverNative(c) PROVE Goal
  <2>1. \A x \in Calls \ {c} : entry'[x] = entry[x] /\ task'[x] = task[x] /\ got'[x] = got[x]
    BY <1>5, <1>r DEF DeliverNative, Moved, BridgeFails
  <2>2. EntryOK(entry'[c], task'[c], got'[c]) /\ Keeps(c)
    BY <1>5, <1>r, <1>e, Delivering, MovingOn DEF DeliverNative, Moved, Keeps, Unsettled, Asked
  <2> QED
    BY <1>1c, <2>1, <2>2
<1>6. ASSUME NEW c \in Calls, AcknowledgeNative(c) PROVE Goal
  <2>1. \A x \in Calls \ {c} : entry'[x] = entry[x] /\ task'[x] = task[x] /\ got'[x] = got[x]
    BY <1>6, <1>r DEF AcknowledgeNative, Moved, BridgeFails
  <2>2. EntryOK(entry'[c], task'[c], got'[c]) /\ Keeps(c)
    BY <1>6, <1>r, <1>e, Delivering, MovingOn DEF AcknowledgeNative, Moved, Keeps, Unsettled, Asked
  <2> QED
    BY <1>1c, <2>1, <2>2
<1>7. ASSUME NEW c \in Calls, Execute(c) PROVE Goal
  <2>1. \A x \in Calls \ {c} : entry'[x] = entry[x] /\ task'[x] = task[x] /\ got'[x] = got[x]
    BY <1>7, <1>r DEF Execute, Moved, BridgeFails
  <2>2. EntryOK(entry'[c], task'[c], got'[c]) /\ Keeps(c)
    BY <1>7, <1>r, <1>e, MovingOn DEF Execute, Asked, Keeps, Unsettled
  <2> QED
    BY <1>1c, <2>1, <2>2
<1>8. ASSUME NEW c \in Calls, DeliverGate(c) PROVE Goal
  <2>1. \A x \in Calls \ {c} : entry'[x] = entry[x] /\ task'[x] = task[x] /\ got'[x] = got[x]
    BY <1>8, <1>r DEF DeliverGate, Moved, BridgeFails
  <2>2. EntryOK(entry'[c], task'[c], got'[c]) /\ Keeps(c)
    BY <1>8, <1>r, <1>e, Delivering, MovingOn DEF DeliverGate, Moved, Keeps, Unsettled, Asked
  <2> QED
    BY <1>1c, <2>1, <2>2
<1>9. ASSUME NEW c \in Calls, Respond(c) PROVE Goal
  <2>1. \A x \in Calls \ {c} : entry'[x] = entry[x] /\ task'[x] = task[x] /\ got'[x] = got[x]
    BY <1>9, <1>r DEF Respond, Moved, BridgeFails
  <2>2. EntryOK(entry'[c], task'[c], got'[c]) /\ Keeps(c)
    BY <1>9, <1>r, <1>e, Failing, MovingOn DEF Respond, Moved, Keeps, Unsettled, Asked, BridgeFails
  <2> QED
    BY <1>1c, <2>1, <2>2
<1>10. ASSUME NEW c \in Calls, DeliverBridge(c) PROVE Goal
  <2>1. \A x \in Calls \ {c} : entry'[x] = entry[x] /\ task'[x] = task[x] /\ got'[x] = got[x]
    BY <1>10, <1>r DEF DeliverBridge, Moved, BridgeFails
  <2>2. EntryOK(entry'[c], task'[c], got'[c]) /\ Keeps(c)
    BY <1>10, <1>r, <1>e, Delivering, MovingOn DEF DeliverBridge, Moved, Keeps, Unsettled, Asked, BridgeFails
  <2> QED
    BY <1>1c, <2>1, <2>2
<1>11. ASSUME NEW c \in Calls, AcknowledgeBridge(c) PROVE Goal
  <2>1. \A x \in Calls \ {c} : entry'[x] = entry[x] /\ task'[x] = task[x] /\ got'[x] = got[x]
    BY <1>11, <1>r DEF AcknowledgeBridge, Moved, BridgeFails
  <2>2. EntryOK(entry'[c], task'[c], got'[c]) /\ Keeps(c)
    BY <1>11, <1>r, <1>e, Delivering, Failing, MovingOn DEF AcknowledgeBridge, Moved, Keeps, Unsettled, Asked,
      BridgeFails
  <2> QED
    BY <1>1c, <2>1, <2>2
<1>12. ASSUME NEW c \in Calls, PutRow(c) PROVE Goal
  BY <1>12, <1>0 DEF PutRow, runtime
<1>13. ASSUME NEW c \in Calls, AutoResolve(c) PROVE Goal
  <2>1. \A x \in Calls \ {c} : entry'[x] = entry[x] /\ task'[x] = task[x] /\ got'[x] = got[x]
    BY <1>13, <1>r DEF AutoResolve, Moved, BridgeFails
  <2>2. EntryOK(entry'[c], task'[c], got'[c]) /\ Keeps(c)
    BY <1>13, <1>r, <1>e, DecidedEffect, ResolveEffect DEF AutoResolve, Keeps, Unsettled, EntryOK, Open, Decision, Asked
  <2> QED
    BY <1>1c, <2>1, <2>2
<1>14. ASSUME NEW c \in Calls, Announce(c) PROVE Goal
  BY <1>14, <1>0 DEF Announce, runtime
<1>15. ASSUME NEW c \in Calls, RelayFailure(c) PROVE Goal
  BY <1>15, <1>0 DEF RelayFailure, runtime
<1>16. ASSUME NEW c \in Calls, ClosePut(c) PROVE Goal
  BY <1>16, <1>0 DEF ClosePut, runtime
<1>17. ASSUME NEW c \in Calls, CancelAnnounce(c) PROVE Goal
  <2>1. \A x \in Calls \ {c} : entry'[x] = entry[x] /\ task'[x] = task[x] /\ got'[x] = got[x]
    BY <1>17, <1>r DEF CancelAnnounce, Moved, BridgeFails
  <2>2. EntryOK(entry'[c], task'[c], got'[c]) /\ Keeps(c)
    BY <1>17, <1>r, <1>e, Failing DEF CancelAnnounce, Moved, Keeps, Unsettled
  <2> QED
    BY <1>1c, <2>1, <2>2
<1>18. ASSUME AcknowledgeRun PROVE Goal
  <2> SUFFICES ASSUME NEW x \in Calls
               PROVE  EntryOK(entry'[x], task'[x], got'[x]) /\ Keeps(x)
    BY DEF EntryInv
  <2>1. UNCHANGED <<task, got, restarts>>
    BY <1>18 DEF AcknowledgeRun
  <2>2. entry'[x] = entry[x] \/ entry'[x] = Transition(entry[x], "acknowledged")
    BY <1>18 DEF AcknowledgeRun
  <2>3. CASE entry[x].state = "delivered"
    <3>1. task[x] \notin Asked
      BY <1>e, <2>3 DEF EntryOK
    <3> QED
      BY <1>e, <2>1, <2>2, <2>3, <3>1, Delivering DEF Keeps, Unsettled
  <2>4. CASE entry[x].state # "delivered"
    <3>1. entry'[x] = entry[x]
      BY <2>2, <2>4 DEF Transition, Allowed
    <3> QED
      BY <1>e, <2>1, <3>1 DEF Keeps, Unsettled
  <2> QED
    BY <2>3, <2>4
<1>19. ASSUME Stop \/ Drain PROVE Goal
  <2> SUFFICES ASSUME NEW x \in Calls
               PROVE  EntryOK(entry'[x], task'[x], got'[x]) /\ Keeps(x)
    BY DEF EntryInv
  <2>0. RuntimeOK
    BY DEF ApprovalsType
  <2>1. UNCHANGED <<got, restarts>>
    BY <1>19, <2>0, LeaveEffect
  <2>2. task'[x] = CASE task[x] \in Settled \cup {"idle"} -> task[x]
                     [] path[x] = "gate" -> task[x]
                     [] path[x] = "bridge" /\ task[x] \in {"responded", "delivered"} /\ got[x] = "approve" -> "ran"
                     [] OTHER -> "gone"
    BY <1>19, <2>0, LeaveEffect
  <2>3. CASE path[x] = "gate"
    <3>1. entry'[x] \in {entry[x], Transition(entry[x], "failed")} /\ task'[x] = task[x]
      BY <1>19, <2>0, <2>2, <2>3, LeaveEffect
    <3> QED
      BY <1>e, <2>1, <3>1, Failing DEF Keeps, Unsettled
  <2>4. CASE path[x] # "gate"
    <3>1. entry'[x] = Dropped(entry[x])
      BY <1>19, <2>0, <2>4, LeaveEffect
    <3>2. \/ \E to \in {"failed", "canceled"} : entry'[x] = Transition(entry[x], to)
          \/ entry'[x] = entry[x] /\ entry[x].state \notin Unsettled
      BY <1>e, <3>1, DroppedEffect DEF Unsettled
    <3>3. /\ EntryOK(entry'[x], task[x], got[x])
          /\ entry'[x].state \notin Unsettled
          /\ entry[x].state \notin Open => entry'[x].state \notin Open /\ entry'[x].decision = entry[x].decision
      BY <1>e, <3>2, Failing DEF Unsettled
    <3>4. task'[x] = task[x] \/ (task'[x] \in {"ran", "gone"} /\ task[x] # "idle")
      BY <2>2 DEF Settled
    <3>5. EntryOK(entry'[x], task'[x], got[x])
      BY <3>3, <3>4 DEF EntryOK, Asked, Unsettled
    <3> QED
      BY <2>1, <3>3, <3>4, <3>5 DEF Keeps, Unsettled, Asked
  <2> QED
    BY <2>3, <2>4
<1>31. ASSUME Drained PROVE Goal
  <2> SUFFICES ASSUME NEW x \in Calls
               PROVE  EntryOK(entry'[x], task'[x], got'[x]) /\ Keeps(x)
    BY DEF EntryInv
  <2>1. entry'[x] \in {entry[x], Transition(entry[x], "failed")} /\ UNCHANGED <<task, got, restarts>>
    BY <1>31, DrainedEffect DEF ApprovalsType
  <2> QED
    BY <1>e, <2>1, Failing DEF Keeps, Unsettled
<1>20. ASSUME CancelRows PROVE Goal
  BY <1>20, <1>0 DEF CancelRows, runtime
<1>21. ASSUME NEW cl \in Clients, WaitDone(cl) PROVE Goal
  BY <1>21, <1>0 DEF WaitDone, runtime
<1>22. ASSUME NEW cl \in Clients, WaitTimeout(cl) PROVE Goal
  <2>1. client[cl].call \in Calls
    BY <1>22 DEF WaitTimeout, ApprovalsType, CommandsOK, Waits
  <2>2. \A x \in Calls \ {client[cl].call} : entry'[x] = entry[x] /\ task'[x] = task[x] /\ got'[x] = got[x]
    BY <1>22, <1>r DEF WaitTimeout, Moved
  <2>3. EntryOK(entry'[client[cl].call], task'[client[cl].call], got'[client[cl].call]) /\ Keeps(client[cl].call)
    BY <1>22, <1>r, <1>e, <2>1, Failing DEF WaitTimeout, Moved, Keeps, Unsettled
  <2> QED
    BY <1>1c, <2>1, <2>2, <2>3
<1>23. ASSUME NEW cl \in Clients, WriteDecision(cl) PROVE Goal
  BY <1>23, <1>0 DEF WriteDecision, runtime
<1>24. ASSUME NEW cl \in Clients, SaveRules(cl) PROVE Goal
  BY <1>24, <1>0 DEF SaveRules, runtime
<1>25. ASSUME NEW cl \in Clients, EmitResolved(cl) PROVE Goal
  BY <1>25, <1>0 DEF EmitResolved, runtime
<1>26. ASSUME NEW cl \in Clients, NEW c \in Calls, NEW d \in {"approve", "deny"},
              NEW thread \in BOOLEAN, Ask(cl, c, d, thread)
       PROVE  Goal
  <2>1. \A x \in Calls \ {c} : entry'[x] = entry[x] /\ task'[x] = task[x] /\ got'[x] = got[x]
    BY <1>26, <1>r DEF Ask, Moved, BridgeFails
  <2>2. EntryOK(entry'[c], task'[c], got'[c]) /\ Keeps(c)
    BY <1>26, <1>r, <1>e, DecidedEffect, ResolveEffect DEF Ask, Keeps, Unsettled, EntryOK, Open, Decision, Asked
  <2> QED
    BY <1>1c, <2>1, <2>2
<1>27. ASSUME NEW keys \in (SUBSET Keys) \ {{}}, RevokeLoad(keys) PROVE Goal
  BY <1>27, <1>0 DEF RevokeLoad, runtime
<1>28. ASSUME RevokeSave PROVE Goal
  BY <1>28, <1>0 DEF RevokeSave, runtime
<1>29. ASSUME Restart PROVE Goal
  <2> SUFFICES ASSUME NEW x \in Calls
               PROVE  EntryOK(entry'[x], task'[x], got'[x]) /\ Keeps(x)
    BY DEF EntryInv
  <2>1. entry'[x] = NoEntry /\ task'[x] \in Settled \cup {"gone"} /\ got' = got /\ restarts' = restarts + 1
    BY <1>29, Zenon DEF Restart
  <2>2. restarts' # restarts
    BY <2>1, ApprovalConstants DEF ApprovalsType, ApprovalConstants
  <2> QED
    BY <2>1, <2>2, EntryRecords DEF EntryOK, Keeps, Unsettled, Asked, Settled
<1>30. ASSUME UNCHANGED vars PROVE Goal
  BY <1>30, <1>0 DEF vars, runtime
<1> QED
  BY <1>1, <1>2, <1>3, <1>4, <1>5, <1>6, <1>7, <1>8, <1>9, <1>10, <1>11, <1>12, <1>13, <1>14, <1>15,
    <1>16, <1>17, <1>18, <1>19, <1>20, <1>21, <1>22, <1>23, <1>24, <1>25, <1>26, <1>27, <1>28,
    <1>29, <1>30, <1>31 DEF Next, RuntimeStep, HandlerStep, ClientStep

-----------------------------------------------------------------------------
(* What a step does to the commands.                                       *)

\* The commands that have seen their decision reach the runtime.
Reached == {"writing", "saving", "emitting", "applied"}

\* A command stays, is asked, or goes on about the same call and decision.
Stays(cl) == client'[cl] = client[cl] /\ (client[cl].pc = "waiting" => restarts' = restarts)
IsAsked(cl) ==
  /\ client[cl].pc = "idle"
  /\ client'[cl].call \in Calls /\ client'[cl].snap = <<>>
  /\ client'[cl].pc \in {"waiting", "conflict", "failed"}
  /\ client'[cl].pc = "waiting" =>
       /\ entry'[client'[cl].call].state \notin Open
       /\ entry'[client'[cl].call].decision = client'[cl].decision
GoesOn(cl) ==
  /\ client'[cl].call = client[cl].call /\ client'[cl].decision = client[cl].decision
  /\ client'[cl].snap \in {client[cl].snap, rules, <<>>}
  /\ client[cl].pc # "idle" /\ client'[cl].pc \notin {"idle", "waiting", "conflict"}
  /\ client'[cl].pc = "writing" => /\ client[cl].pc = "waiting"
                                   /\ entry[client[cl].call].state \in {"delivered", "acknowledged"}
  /\ client'[cl].pc \in {"saving", "emitting", "applied"} => client[cl].pc \in Reached
Moves(cl) == Stays(cl) \/ IsAsked(cl) \/ GoesOn(cl)

\* The record of a command at its start.
LEMMA AskedRecord ==
  ASSUME NEW pc, NEW c, NEW d, NEW thread
  PROVE  LET y == [NewClient EXCEPT !.pc = pc, !.call = c, !.decision = d, !.thread = thread] IN
         y.pc = pc /\ y.call = c /\ y.decision = d /\ y.snap = <<>>
  BY DEF NewClient

\* The runtime, the run's handler and the revocations leave the commands alone.
LEMMA OthersLeaveCommands ==
  /\ \A c \in Calls : RuntimeStep(c) \/ HandlerStep(c) => UNCHANGED <<client, restarts>>
  /\ AcknowledgeRun \/ Stop \/ Drain \/ Drained \/ CancelRows \/ RevokeSave => UNCHANGED <<client, restarts>>
  /\ \A keys : RevokeLoad(keys) => UNCHANGED <<client, restarts>>
<1>1. ASSUME NEW c \in Calls, RuntimeStep(c) PROVE UNCHANGED <<client, restarts>>
  BY <1>1, Zenon DEF RuntimeStep, Request, Receive, TimeOut, Expire, DeliverNative,
    AcknowledgeNative, Execute,
       DeliverGate, Respond, DeliverBridge, AcknowledgeBridge, BridgeFails
<1>2. ASSUME NEW c \in Calls, HandlerStep(c) PROVE UNCHANGED <<client, restarts>>
  BY <1>2, Zenon DEF HandlerStep, PutRow, AutoResolve, Announce, RelayFailure, ClosePut, CancelAnnounce
<1>3. AcknowledgeRun \/ Stop \/ Drain \/ Drained \/ CancelRows \/ RevokeSave => UNCHANGED <<client, restarts>>
  BY DEF AcknowledgeRun, Stop, Drain, Drained, Leave, CancelRows, RevokeSave
<1>4. ASSUME NEW keys, RevokeLoad(keys) PROVE UNCHANGED <<client, restarts>>
  BY <1>4 DEF RevokeLoad
<1> QED
  BY <1>1, <1>2, <1>3, <1>4

\* Every step of the program is a move of each command.
LEMMA CommandMoves ==
  ASSUME ApprovalConstants, ApprovalsType, [Next]_vars
  PROVE  \A cl \in Clients : Moves(cl)
<1> DEFINE Goal == \A cl \in Clients : Moves(cl)
<1>r. /\ client \in [Clients -> ClientRecord] /\ entry \in [Calls -> Entry]
      /\ \A cl \in Clients : client[cl].pc \in Waits => client[cl].call \in Calls
  BY DEF ApprovalsType, CommandsOK, RuntimeOK
<1>0. UNCHANGED <<client, restarts>> => Goal
  BY DEF Moves, Stays
\* A step of one command.
<1>c. ASSUME NEW cl \in Clients, \A d \in Clients \ {cl} : client'[d] = client[d],
             restarts' = restarts, Moves(cl)
      PROVE  Goal
  BY <1>c DEF Moves, Stays
<1>1. ASSUME NEW cl \in Clients, WaitDone(cl) PROVE Goal
  <2>1. PICK pc \in {"writing", "failed"} :
          /\ Goto(cl, pc) /\ restarts' = restarts /\ client[cl].pc = "waiting"
          /\ pc = "writing" => entry[client[cl].call].state \in {"delivered", "acknowledged"}
    BY <1>1 DEF WaitDone
  <2> QED
    BY <1>r, <1>c, <2>1, GotoEffect DEF Moves, GoesOn
<1>2. ASSUME NEW cl \in Clients, WaitTimeout(cl) PROVE Goal
  <2>1. Goto(cl, "failed") /\ restarts' = restarts /\ client[cl].pc = "waiting"
    BY <1>2 DEF WaitTimeout
  <2> QED
    BY <1>r, <1>c, <2>1, GotoEffect DEF Moves, GoesOn
<1>3. ASSUME NEW cl \in Clients, WriteDecision(cl) PROVE Goal
  <2>1. restarts' = restarts /\ client[cl].pc = "writing"
    BY <1>3 DEF WriteDecision
  <2>2. CASE Goto(cl, "emitting")
    BY <1>r, <1>c, <2>1, <2>2, GotoEffect DEF Moves, GoesOn, Reached
  <2>3. CASE client' = [client EXCEPT ![cl].pc = "saving", ![cl].snap = rules]
    <3>1. rules \in Seq(Keys)
      BY DEF ApprovalsType, RulesOK
    <3>2. /\ \A d \in Clients \ {cl} : client'[d] = client[d]
          /\ client'[cl].pc = "saving" /\ client'[cl].call = client[cl].call
          /\ client'[cl].decision = client[cl].decision /\ client'[cl].snap = rules
      BY Zenon, <1>r, <2>3, <3>1, LoadEffect
    <3>3. Moves(cl)
      BY <2>1, <3>2 DEF Moves, GoesOn, Reached
    <3> QED
      BY ONLY <1>c, <2>1, <3>2, <3>3
  <2> QED
    BY <1>3, <2>2, <2>3 DEF WriteDecision
<1>4. ASSUME NEW cl \in Clients, SaveRules(cl) PROVE Goal
  BY <1>4, <1>r, <1>c, SavedEffect, Zenon DEF SaveRules, Moves, GoesOn, Reached
<1>5. ASSUME NEW cl \in Clients, EmitResolved(cl) PROVE Goal
  <2>1. restarts' = restarts /\ client[cl].pc = "emitting" /\ Goto(cl, "applied")
    BY <1>5 DEF EmitResolved
  <2> QED
    BY <1>r, <1>c, <2>1, GotoEffect DEF Moves, GoesOn, Reached
<1>6. ASSUME NEW cl \in Clients, NEW c \in Calls, NEW d \in {"approve", "deny"}, NEW thread \in BOOLEAN,
             Ask(cl, c, d, thread)
      PROVE  Goal
  <2> DEFINE answer == IF thread /\ keyOf[c] = NoKey THEN "failed" ELSE Resolve(entry[c], d)
             pc == CASE answer \in {"resolved", "already"} -> "waiting"
                     [] answer = "conflict" -> "conflict"
                     [] OTHER -> "failed"
             y == [NewClient EXCEPT !.pc = pc, !.call = c, !.decision = d, !.thread = thread /\ pc = "waiting"]
  <2>1. /\ client[cl].pc = "idle" /\ restarts' = restarts
        /\ client' = [client EXCEPT ![cl] = y]
        /\ entry' = IF answer = "resolved" THEN [entry EXCEPT ![c] = Decided(@, d)] ELSE entry
    BY <1>6 DEF Ask
  <2>2. client'[cl] = y /\ \A e \in Clients \ {cl} : client'[e] = client[e]
    BY <1>r, <2>1
  <2>3. y.pc = pc /\ y.call = c /\ y.decision = d /\ y.snap = <<>>
    BY AskedRecord
  <2>4. pc \in {"waiting", "conflict", "failed"}
    OBVIOUS
  <2>5. pc = "waiting" => entry'[c].state \notin Open /\ entry'[c].decision = d
    <3>1. CASE answer = "resolved"
      BY <1>r, <2>1, <3>1, DecidedEffect, ResolveEffect DEF Open, Decision
    <3>2. CASE answer = "already"
      BY <1>r, <2>1, <3>2, ResolveEffect DEF Open
    <3> QED
      BY <3>1, <3>2
  <2>6. IsAsked(cl)
    BY <2>1, <2>2, <2>3, <2>4, <2>5, ZenonT(30) DEF IsAsked
  <2> QED
    BY <1>c, <2>1, <2>2, <2>6 DEF Moves
<1>7. ASSUME Restart PROVE Goal
  <2> SUFFICES ASSUME NEW cl \in Clients PROVE Moves(cl)
    OBVIOUS
  <2>1. client'[cl] = IF client[cl].pc \in {"idle", "applied", "conflict", "failed"} THEN client[cl]
                      ELSE [client[cl] EXCEPT !.pc = "lost", !.thread = FALSE, !.snap = <<>>]
    BY <1>7, Zenon DEF Restart
  <2>2. CASE client[cl].pc \in {"idle", "applied", "conflict", "failed"}
    BY <2>1, <2>2 DEF Moves, Stays
  <2>3. CASE client[cl].pc \notin {"idle", "applied", "conflict", "failed"}
    <3>1. client[cl] \in ClientRecord
      BY <1>r
    <3>2. /\ client'[cl].pc = "lost" /\ client'[cl].call = client[cl].call
          /\ client'[cl].decision = client[cl].decision /\ client'[cl].snap = <<>>
      BY Zenon, <2>1, <2>3, <3>1, LostRecord
    <3> QED
      BY <2>3, <3>2 DEF Moves, GoesOn
  <2> QED
    BY <2>2, <2>3
<1>8. UNCHANGED vars => UNCHANGED <<client, restarts>>
  BY DEF vars
<1> QED
  BY <1>0, <1>1, <1>2, <1>3, <1>4, <1>5, <1>6, <1>7, <1>8, OthersLeaveCommands DEF Next, ClientStep

-----------------------------------------------------------------------------
(* AppliedMeansReceived.                                                   *)

\* A command waits on an entry that is decided its way; past the wait, the
\* runtime has received its decision.
ClientOK(cl) ==
  LET c == client[cl].call IN
  /\ client[cl].pc = "idle" => client[cl].decision = "none"
  /\ client[cl].pc = "waiting" => entry[c].state \notin Open /\ entry[c].decision = client[cl].decision
  /\ client[cl].pc \in Reached => task[c] \notin Asked /\ got[c] = client[cl].decision
ClientInv == \A cl \in Clients : ClientOK(cl)

\* Every step keeps what the commands rely on.
LEMMA ClientKept ==
  ASSUME ApprovalConstants, ApprovalsType, EntryInv, ClientInv, [Next]_vars
  PROVE  ClientInv'
<1> SUFFICES ASSUME NEW cl \in Clients PROVE ClientOK(cl)'
  BY DEF ClientInv
<1>1. Moves(cl) /\ \A x \in Calls : Keeps(x)
  BY CommandMoves, EntryStep
<1>2. ClientOK(cl) /\ (client[cl].pc \in Waits => client[cl].call \in Calls)
  BY DEF ClientInv, ApprovalsType, CommandsOK
<1>3. \A x \in Calls : EntryOK(entry[x], task[x], got[x])
  BY DEF EntryInv
<1>4. CASE Stays(cl)
  BY <1>1, <1>2, <1>4 DEF Stays, ClientOK, Keeps, Reached, Waits
<1>5. CASE IsAsked(cl)
  BY <1>1, <1>2, <1>5 DEF IsAsked, ClientOK, Reached
<1>6. CASE GoesOn(cl)
  <2>1. ASSUME client'[cl].pc \in Reached
        PROVE  client[cl].call \in Calls /\ task[client[cl].call] \notin Asked
               /\ got[client[cl].call] = client[cl].decision
    <3>1. CASE client'[cl].pc = "writing"
      BY <1>2, <1>3, <1>6, <3>1 DEF GoesOn, ClientOK, EntryOK, Waits
    <3>2. CASE client'[cl].pc \in {"saving", "emitting", "applied"}
      BY <1>2, <1>6, <3>2 DEF GoesOn, ClientOK, Waits, Reached
    <3> QED
      BY <2>1, <3>1, <3>2 DEF Reached
  <2> QED
    BY <1>1, <1>6, <2>1 DEF GoesOn, ClientOK, Keeps
<1> QED
  BY <1>1, <1>4, <1>5, <1>6 DEF Moves

-----------------------------------------------------------------------------
(* RanIsAuthorised.                                                        *)

\* Where an approval comes from: an entry's from a rule or a command that waits,
\* the runtime's from the entry; a call runs on an approval received.
Source(x) ==
  /\ entry'[x].decision = "approve" =>
       \/ entry[x].decision = "approve" \/ Contains(rules, keyOf[x])
       \/ \E cl \in Clients : /\ client'[cl].call = x /\ client'[cl].decision = "approve"
                              /\ client'[cl].pc = "waiting"
  /\ got'[x] = "approve" => got[x] = "approve" \/ entry[x].decision = "approve"
  /\ task'[x] = "ran" => task[x] = "ran" \/ got'[x] = "approve"

\* Every step that approves, hands over or runs a call has such a source.
LEMMA Sources ==
  ASSUME ApprovalConstants, ApprovalsType, [Next]_vars
  PROVE  \A x \in Calls : Source(x)
<1> DEFINE Goal == \A x \in Calls : Source(x)
<1>r. entry \in [Calls -> Entry] /\ task \in [Calls -> {"idle", "waiting", "timedout", "received", "responded",
                         "delivered", "answered"} \cup Settled] /\ got \in [Calls -> Decision]
      /\ client \in [Clients -> ClientRecord]
  BY DEF ApprovalsType, RuntimeOK, CommandsOK
<1>d. \A x \in Calls, to \in {"delivered", "acknowledged", "failed", "canceled"} :
        Transition(entry[x], to).decision = entry[x].decision
  BY <1>r, TransitionEffect, StateNames
<1>0. UNCHANGED <<entry, task, got>> => Goal
  BY DEF Source
\* A step of one call.
<1>c. ASSUME NEW c \in Calls,
             \A x \in Calls \ {c} : entry'[x] = entry[x] /\ task'[x] = task[x] /\ got'[x] = got[x],
             Source(c)
      PROVE  Goal
  BY <1>c DEF Source
<1>1. ASSUME NEW c \in Calls, Request(c) PROVE Goal
  <2>1. \A x \in Calls \ {c} : entry'[x] = entry[x] /\ task'[x] = task[x] /\ got'[x] = got[x]
    BY <1>1, <1>r DEF Request, Moved, BridgeFails
  <2>2. Source(c)
    BY <1>1, <1>r, <1>d, EntryRecords DEF Request, Moved, BridgeFails, Source
  <2> QED
    BY <1>c, <2>1, <2>2
<1>2. ASSUME NEW c \in Calls, Receive(c) PROVE Goal
  <2>1. \A x \in Calls \ {c} : entry'[x] = entry[x] /\ task'[x] = task[x] /\ got'[x] = got[x]
    BY <1>2, <1>r DEF Receive, Moved
  <2>2. task'[c] = "received" /\ got'[c] \in {entry[c].decision, "deny"}
    BY <1>2, <1>r DEF Receive
  <2>3. entry'[c].decision = entry[c].decision
    <3>1. CASE entry' = [entry EXCEPT ![c].chan = "taken"]
      BY <1>r, <3>1, EntryRecords
    <3>2. CASE Moved(c, "failed")
      BY <1>r, <1>d, <3>2 DEF Moved
    <3> QED
      BY <1>2, <3>1, <3>2 DEF Receive
  <2>4. Source(c)
    BY <2>2, <2>3 DEF Source
  <2> QED
    BY <1>c, <2>1, <2>4
<1>3. ASSUME NEW c \in Calls, TimeOut(c) PROVE Goal
  <2>1. \A x \in Calls \ {c} : entry'[x] = entry[x] /\ task'[x] = task[x] /\ got'[x] = got[x]
    BY <1>3, <1>r DEF TimeOut, Moved, BridgeFails
  <2>2. Source(c)
    BY <1>3, <1>r, <1>d, EntryRecords DEF TimeOut, Moved, BridgeFails, Source
  <2> QED
    BY <1>c, <2>1, <2>2
<1>4. ASSUME NEW c \in Calls, Expire(c) PROVE Goal
  <2>1. \A x \in Calls \ {c} : entry'[x] = entry[x] /\ task'[x] = task[x] /\ got'[x] = got[x]
    BY <1>4, <1>r DEF Expire, Moved, BridgeFails
  <2>2. Source(c)
    BY <1>4, <1>r, <1>d, EntryRecords DEF Expire, Moved, BridgeFails, Source
  <2> QED
    BY <1>c, <2>1, <2>2
<1>5. ASSUME NEW c \in Calls, DeliverNative(c) PROVE Goal
  <2>1. \A x \in Calls \ {c} : entry'[x] = entry[x] /\ task'[x] = task[x] /\ got'[x] = got[x]
    BY <1>5, <1>r DEF DeliverNative, Moved, BridgeFails
  <2>2. Source(c)
    BY <1>5, <1>r, <1>d, EntryRecords DEF DeliverNative, Moved, BridgeFails, Source
  <2> QED
    BY <1>c, <2>1, <2>2
<1>6. ASSUME NEW c \in Calls, AcknowledgeNative(c) PROVE Goal
  <2>1. \A x \in Calls \ {c} : entry'[x] = entry[x] /\ task'[x] = task[x] /\ got'[x] = got[x]
    BY <1>6, <1>r DEF AcknowledgeNative, Moved, BridgeFails
  <2>2. Source(c)
    BY <1>6, <1>r, <1>d, EntryRecords DEF AcknowledgeNative, Moved, BridgeFails, Source
  <2> QED
    BY <1>c, <2>1, <2>2
<1>7. ASSUME NEW c \in Calls, Execute(c) PROVE Goal
  <2>1. \A x \in Calls \ {c} : entry'[x] = entry[x] /\ task'[x] = task[x] /\ got'[x] = got[x]
    BY <1>7, <1>r DEF Execute, Moved, BridgeFails
  <2>2. Source(c)
    BY <1>7, <1>r, <1>d, EntryRecords DEF Execute, Moved, BridgeFails, Source
  <2> QED
    BY <1>c, <2>1, <2>2
<1>8. ASSUME NEW c \in Calls, DeliverGate(c) PROVE Goal
  <2>1. \A x \in Calls \ {c} : entry'[x] = entry[x] /\ task'[x] = task[x] /\ got'[x] = got[x]
    BY <1>8, <1>r DEF DeliverGate, Moved, BridgeFails
  <2>2. Source(c)
    BY <1>8, <1>r, <1>d, EntryRecords DEF DeliverGate, Moved, BridgeFails, Source
  <2> QED
    BY <1>c, <2>1, <2>2
<1>9. ASSUME NEW c \in Calls, Respond(c) PROVE Goal
  <2>1. \A x \in Calls \ {c} : entry'[x] = entry[x] /\ task'[x] = task[x] /\ got'[x] = got[x]
    BY <1>9, <1>r DEF Respond, Moved, BridgeFails
  <2>2. Source(c)
    BY <1>9, <1>r, <1>d, EntryRecords DEF Respond, Moved, BridgeFails, Source
  <2> QED
    BY <1>c, <2>1, <2>2
<1>10. ASSUME NEW c \in Calls, DeliverBridge(c) PROVE Goal
  <2>1. \A x \in Calls \ {c} : entry'[x] = entry[x] /\ task'[x] = task[x] /\ got'[x] = got[x]
    BY <1>10, <1>r DEF DeliverBridge, Moved, BridgeFails
  <2>2. Source(c)
    BY <1>10, <1>r, <1>d, EntryRecords DEF DeliverBridge, Moved, BridgeFails, Source
  <2> QED
    BY <1>c, <2>1, <2>2
<1>11. ASSUME NEW c \in Calls, AcknowledgeBridge(c) PROVE Goal
  <2>1. \A x \in Calls \ {c} : entry'[x] = entry[x] /\ task'[x] = task[x] /\ got'[x] = got[x]
    BY <1>11, <1>r DEF AcknowledgeBridge, Moved, BridgeFails
  <2>2. Source(c)
    BY <1>11, <1>r, <1>d, EntryRecords DEF AcknowledgeBridge, Moved, BridgeFails, Source
  <2> QED
    BY <1>c, <2>1, <2>2
<1>12. ASSUME NEW c \in Calls, CancelAnnounce(c) PROVE Goal
  <2>1. \A x \in Calls \ {c} : entry'[x] = entry[x] /\ task'[x] = task[x] /\ got'[x] = got[x]
    BY <1>12, <1>r DEF CancelAnnounce, Moved, BridgeFails
  <2>2. Source(c)
    BY <1>12, <1>r, <1>d, EntryRecords DEF CancelAnnounce, Moved, BridgeFails, Source
  <2> QED
    BY <1>c, <2>1, <2>2
<1>13. ASSUME NEW c \in Calls, AutoResolve(c) PROVE Goal
  <2>1. /\ \A x \in Calls \ {c} : entry'[x] = entry[x] /\ task'[x] = task[x] /\ got'[x] = got[x]
        /\ entry'[c] # entry[c] => Contains(rules, keyOf[c])
        /\ task' = task /\ got' = got
    BY <1>13, <1>r DEF AutoResolve
  <2>2. Source(c)
    BY <2>1 DEF Source
  <2> QED
    BY <1>c, <2>1, <2>2
<1>14. ASSUME AcknowledgeRun PROVE Goal
  <2> SUFFICES ASSUME NEW x \in Calls PROVE Source(x)
    OBVIOUS
  <2>1. (entry'[x] = entry[x] \/ entry'[x] = Transition(entry[x], "acknowledged")) /\ UNCHANGED <<task, got>>
    BY <1>14 DEF AcknowledgeRun
  <2> QED
    BY <1>d, <2>1 DEF Source
<1>15. ASSUME Stop \/ Drain PROVE Goal
  <2> SUFFICES ASSUME NEW x \in Calls PROVE Source(x)
    OBVIOUS
  <2>0. RuntimeOK
    BY DEF ApprovalsType
  <2>1. got' = got /\ \/ entry'[x] = entry[x]
                      \/ \E to \in {"failed", "canceled"} : entry'[x] = Transition(entry[x], to)
    <3>1. got' = got /\ entry'[x] \in {entry[x], Transition(entry[x], "failed"), Dropped(entry[x])}
      BY <1>15, <2>0, LeaveEffect
    <3> QED
      BY <1>r, <3>1, DroppedEffect
  <2>2. task'[x] = "ran" => task[x] = "ran" \/ got[x] = "approve"
    <3>1. task'[x] = CASE task[x] \in Settled \cup {"idle"} -> task[x]
                       [] path[x] = "gate" -> task[x]
                       [] path[x] = "bridge" /\ task[x] \in {"responded", "delivered"} /\ got[x] = "approve" -> "ran"
                       [] OTHER -> "gone"
      BY <1>15, <2>0, LeaveEffect
    <3> QED
      BY <3>1
  <2> QED
    BY <1>d, <2>1, <2>2 DEF Source
<1>23. ASSUME Drained PROVE Goal
  <2> SUFFICES ASSUME NEW x \in Calls PROVE Source(x)
    OBVIOUS
  <2>1. entry'[x] \in {entry[x], Transition(entry[x], "failed")} /\ UNCHANGED <<task, got>>
    BY <1>23, DrainedEffect DEF ApprovalsType
  <2> QED
    BY <1>d, <2>1 DEF Source
<1>16. ASSUME Restart PROVE Goal
  BY <1>16, EntryRecords, Zenon DEF Restart, Source, Settled
<1>17. ASSUME NEW cl \in Clients, WaitTimeout(cl) PROVE Goal
  <2>1. client[cl].call \in Calls
    BY <1>17 DEF WaitTimeout, ApprovalsType, CommandsOK, Waits
  <2>2. UNCHANGED <<task, got>> /\ entry' = [entry EXCEPT ![client[cl].call] = Transition(@, "failed")]
    BY <1>17 DEF WaitTimeout, Moved
  <2>3. Source(client[cl].call)
    BY <1>r, <1>d, <2>1, <2>2 DEF Source
  <2> QED
    BY <1>r, <1>c, <2>1, <2>2, <2>3
<1>18. ASSUME NEW cl \in Clients, NEW c \in Calls, NEW d \in {"approve", "deny"}, NEW thread \in BOOLEAN,
              Ask(cl, c, d, thread)
       PROVE  Goal
  <2> DEFINE answer == IF thread /\ keyOf[c] = NoKey THEN "failed" ELSE Resolve(entry[c], d)
             pc == CASE answer \in {"resolved", "already"} -> "waiting"
                     [] answer = "conflict" -> "conflict"
                     [] OTHER -> "failed"
             y == [NewClient EXCEPT !.pc = pc, !.call = c, !.decision = d, !.thread = thread /\ pc = "waiting"]
  <2>1. /\ client' = [client EXCEPT ![cl] = y] /\ UNCHANGED <<task, got>>
        /\ entry' = IF answer = "resolved" THEN [entry EXCEPT ![c] = Decided(@, d)] ELSE entry
    BY <1>18 DEF Ask
  <2>2. CASE answer = "resolved"
    <3>1. entry' = [entry EXCEPT ![c] = Decided(@, d)] /\ entry[c].state = "requested"
      BY <1>r, <2>1, <2>2, ResolveEffect
    <3>2. entry'[c].decision = d /\ \A x \in Calls \ {c} : entry'[x] = entry[x]
      BY <1>r, <3>1, DecidedEffect DEF Decision
    <3>3. client'[cl].pc = "waiting" /\ client'[cl].call = c /\ client'[cl].decision = d
      BY <1>r, <2>1, <2>2, AskedRecord
    <3>4. Source(c)
      BY <2>1, <3>2, <3>3 DEF Source
    <3> QED
      BY <1>c, <2>1, <3>2, <3>4
  <2>3. CASE answer # "resolved"
    BY <1>0, <2>1, <2>3
  <2> QED
    BY <2>2, <2>3
<1>19. ASSUME NEW c \in Calls, PutRow(c) \/ Announce(c) \/ RelayFailure(c) \/ ClosePut(c) PROVE Goal
  BY <1>19, <1>0 DEF PutRow, Announce, RelayFailure, ClosePut, runtime
<1>20. ASSUME NEW cl \in Clients, WaitDone(cl) \/ WriteDecision(cl) \/ SaveRules(cl) \/ EmitResolved(cl)
       PROVE  Goal
  BY <1>20, <1>0 DEF WaitDone, WriteDecision, SaveRules, EmitResolved, runtime
<1>21. ASSUME NEW keys, RevokeLoad(keys) PROVE Goal
  BY <1>21, <1>0 DEF RevokeLoad, runtime
<1>22. ASSUME CancelRows \/ RevokeSave \/ UNCHANGED vars PROVE Goal
  BY <1>22, <1>0 DEF CancelRows, RevokeSave, vars, runtime
<1> QED
  BY <1>1, <1>2, <1>3, <1>4, <1>5, <1>6, <1>7, <1>8, <1>9, <1>10, <1>11, <1>12, <1>13, <1>14, <1>15,
    <1>16, <1>17, <1>18, <1>19, <1>20, <1>21, <1>22, <1>23
    DEF Next, RuntimeStep, HandlerStep, ClientStep

\* Every rule, kept or loaded to be saved again, is one a person allowed.
Grants ==
  \A k \in Keys :
    /\ Contains(rules, k) => k \in granted
    /\ \A cl \in Clients : Contains(client[cl].snap, k) => k \in granted
    /\ revoker # <<>> /\ Contains(revoker[1], k) => k \in granted

\* `record` and a revocation save no rule that nobody allowed.
LEMMA GrantsKept ==
  ASSUME ApprovalConstants, ApprovalsType, Grants, [Next]_vars
  PROVE  Grants' /\ granted \subseteq granted'
<1> DEFINE Goal == Grants' /\ granted \subseteq granted'
\* What is saved is what was there, with the new key.
<1>1. ASSUME granted \subseteq granted',
             \A k \in Keys : Contains(rules', k) =>
               \/ Contains(rules, k) \/ k \in granted'
               \/ revoker # <<>> /\ Contains(revoker[1], k)
               \/ \E cl \in Clients : Contains(client[cl].snap, k),
             \/ revoker' = revoker
             \/ \A k \in Keys : revoker' # <<>> /\ Contains(revoker'[1], k) => Contains(rules, k)
      PROVE  Goal
  <2> SUFFICES ASSUME NEW k \in Keys
               PROVE  /\ Contains(rules', k) => k \in granted'
                      /\ \A cl \in Clients : Contains(client'[cl].snap, k) => k \in granted'
                      /\ revoker' # <<>> /\ Contains(revoker'[1], k) => k \in granted'
    BY <1>1 DEF Grants
  <2>1. ASSUME NEW cl \in Clients, Contains(client'[cl].snap, k) PROVE k \in granted'
    <3>1. Moves(cl)
      BY CommandMoves
    <3>2. client'[cl].snap \in {client[cl].snap, rules, <<>>}
      BY <3>1 DEF Moves, Stays, IsAsked, GoesOn
    <3>3. ~Contains(<<>>, k)
      BY DEF Contains
    <3> QED
      BY <1>1, <2>1, <3>2, <3>3 DEF Grants
  <2> QED
    BY <1>1, <2>1 DEF Grants
<1>2. UNCHANGED allow => Goal
  <2> SUFFICES ASSUME UNCHANGED allow PROVE Goal
    OBVIOUS
  <2>1. rules' = rules /\ revoker' = revoker /\ granted' = granted
    BY DEF allow
  <2> QED
    BY <1>1, <2>1
<1>3. ASSUME NEW cl \in Clients, SaveRules(cl) PROVE Goal
  <2>1. client[cl].snap \in Seq(Keys) /\ Len(client[cl].snap) <= MaxRules /\ keyOf[client[cl].call] \in Keys
    BY <1>3, ClientFields DEF SaveRules, ApprovalsType, CommandsOK
  <2>2. /\ rules' = Recorded(client[cl].snap, keyOf[client[cl].call]) /\ revoker' = revoker
        /\ granted' = granted \cup {keyOf[client[cl].call]}
    BY <1>3 DEF SaveRules
  <2>3. \A k \in Keys : Contains(rules', k) => Contains(client[cl].snap, k) \/ k = keyOf[client[cl].call]
    BY <2>1, <2>2, RecordedRules
  <2>4. granted \subseteq granted' /\ keyOf[client[cl].call] \in granted'
    BY <2>2
  <2>5. \A k \in Keys : Contains(rules', k) => k \in granted' \/ \E x \in Clients : Contains(client[x].snap, k)
    BY ONLY <2>3, <2>4, cl \in Clients
  <2> QED
    BY ONLY <1>1, <2>2, <2>4, <2>5
<1>4. ASSUME NEW keys, RevokeLoad(keys) PROVE Goal
  <2>1. PICK kept : Retained(kept, rules, keys) /\ revoker' = <<kept>>
    BY <1>4 DEF RevokeLoad
  <2>2. rules' = rules /\ granted' = granted /\ revoker'[1] = kept
    BY <1>4, <2>1 DEF RevokeLoad
  <2>3. \A k \in Keys : Contains(kept, k) => Contains(rules, k)
    BY <2>1 DEF Retained
  <2> QED
    BY <1>1, <2>2, <2>3
<1>5. ASSUME RevokeSave PROVE Goal
  <2>1. revoker # <<>> /\ rules' = revoker[1] /\ revoker' = <<>> /\ granted' = granted
    BY <1>5 DEF RevokeSave
  <2>2. granted \subseteq granted'
    BY <2>1
  <2> QED
    BY ONLY <1>1, <2>1, <2>2
<1>6. ASSUME Restart PROVE Goal
  <2>1. rules' = rules /\ revoker' = <<>> /\ granted' = granted
    BY <1>6, Zenon DEF Restart
  <2> QED
    BY <1>1, <2>1
<1>7. ASSUME NEW c \in Calls, RuntimeStep(c) PROVE Goal
  BY <1>2, <1>7, Zenon DEF RuntimeStep, Request, Receive, TimeOut, Expire, DeliverNative,
    AcknowledgeNative, Execute,
       DeliverGate, Respond, DeliverBridge, AcknowledgeBridge, BridgeFails
<1>8. ASSUME NEW c \in Calls, HandlerStep(c) PROVE Goal
  BY <1>2, <1>8, Zenon DEF HandlerStep, PutRow, AutoResolve, Announce, RelayFailure, ClosePut, CancelAnnounce
<1>9. ASSUME AcknowledgeRun \/ Stop \/ Drain \/ Drained \/ CancelRows \/ UNCHANGED vars PROVE Goal
  BY <1>2, <1>9 DEF AcknowledgeRun, Stop, Drain, Drained, Leave, CancelRows, vars
<1>10. ASSUME NEW cl \in Clients, WaitDone(cl) \/ WaitTimeout(cl) \/ WriteDecision(cl) \/ EmitResolved(cl)
       PROVE  Goal
  BY <1>2, <1>10 DEF WaitDone, WaitTimeout, WriteDecision, EmitResolved
<1>11. ASSUME NEW cl, NEW c, NEW d, NEW thread, Ask(cl, c, d, thread) PROVE Goal
  BY <1>2, <1>11 DEF Ask
<1> QED
  BY <1>3, <1>4, <1>5, <1>6, <1>7, <1>8, <1>9, <1>10, <1>11 DEF Next, ClientStep

\* Some person approved the call, or its rule.
Authorised(c) ==
  \/ \E cl \in Clients : client[cl].call = c /\ client[cl].decision = "approve" /\ client[cl].pc # "conflict"
  \/ keyOf[c] \in granted
GrantInv ==
  /\ Grants
  /\ \A c \in Calls : /\ entry[c].decision = "approve" => Authorised(c)
                      /\ got[c] = "approve" => Authorised(c)
                      /\ task[c] = "ran" => got[c] = "approve"

\* Every step keeps the calls that run authorised.
LEMMA GrantStep ==
  ASSUME ApprovalConstants, ApprovalsType, EntryInv, ClientInv, GrantInv, [Next]_vars
  PROVE  GrantInv'
<1>1. Grants' /\ granted \subseteq granted'
  BY GrantsKept DEF GrantInv
<1>2. keyOf' = keyOf
  <2>1. UNCHANGED runtime => keyOf' = keyOf
    BY DEF runtime
  <2>2. ASSUME NEW c \in Calls, RuntimeStep(c) PROVE keyOf' = keyOf
    BY <2>2, Zenon DEF RuntimeStep, Request, Receive, TimeOut, Expire, DeliverNative,
      AcknowledgeNative, Execute,
         DeliverGate, Respond, DeliverBridge, AcknowledgeBridge, BridgeFails
  <2>3. ASSUME NEW c \in Calls, HandlerStep(c) PROVE keyOf' = keyOf
    BY <2>1, <2>3, Zenon DEF HandlerStep, PutRow, AutoResolve, Announce, RelayFailure, ClosePut,
      CancelAnnounce
  <2>4. ASSUME NEW cl \in Clients, ClientStep(cl) PROVE keyOf' = keyOf
    BY <2>1, <2>4, Zenon DEF ClientStep, WaitDone, WaitTimeout, WriteDecision, SaveRules, EmitResolved
  <2>5. AcknowledgeRun \/ Stop \/ Drain \/ Drained \/ CancelRows \/ RevokeSave \/ Restart \/ UNCHANGED vars => keyOf' = keyOf
    BY <2>1, Zenon DEF AcknowledgeRun, Stop, Drain, Drained, Leave, CancelRows, RevokeSave, Restart, vars
  <2>6. ASSUME NEW cl, NEW c, NEW d, NEW thread, Ask(cl, c, d, thread) PROVE keyOf' = keyOf
    BY <2>6 DEF Ask
  <2>7. ASSUME NEW keys, RevokeLoad(keys) PROVE keyOf' = keyOf
    BY <2>1, <2>7 DEF RevokeLoad
  <2> QED
    BY <2>2, <2>3, <2>4, <2>5, <2>6, <2>7 DEF Next
\* Who was authorised stays so.
<1>3. ASSUME NEW c \in Calls, Authorised(c) PROVE Authorised(c)'
  <2>1. CASE keyOf[c] \in granted
    BY <1>1, <1>2, <2>1 DEF Authorised
  <2>2. ASSUME NEW cl \in Clients, client[cl].call = c, client[cl].decision = "approve", client[cl].pc # "conflict"
        PROVE  Authorised(c)'
    <3>1. Moves(cl) /\ ClientOK(cl)
      BY CommandMoves DEF ClientInv
    <3>2. client'[cl].call = c /\ client'[cl].decision = "approve" /\ client'[cl].pc # "conflict"
      BY <2>2, <3>1 DEF Moves, Stays, IsAsked, GoesOn, ClientOK
    <3> QED
      BY <3>2 DEF Authorised
  <2> QED
    BY <1>3, <2>1, <2>2 DEF Authorised
<1>4. ASSUME NEW c \in Calls
      PROVE  /\ entry'[c].decision = "approve" => Authorised(c)'
             /\ got'[c] = "approve" => Authorised(c)'
             /\ task'[c] = "ran" => got'[c] = "approve"
  <2>1. Source(c) /\ Keeps(c)
    BY Sources, EntryStep
  <2>2. Contains(rules, keyOf[c]) => Authorised(c)
    <3>1. rules \in Seq(Keys)
      BY DEF ApprovalsType, RulesOK
    <3>2. Contains(rules, keyOf[c]) => keyOf[c] \in Keys
      BY <3>1 DEF Contains
    <3> QED
      BY <3>2 DEF GrantInv, Grants, Authorised
  <2>3. ASSUME NEW cl \in Clients, client'[cl].call = c, client'[cl].decision = "approve", client'[cl].pc = "waiting"
        PROVE  Authorised(c)'
    BY <2>3 DEF Authorised
  <2>4. entry'[c].decision = "approve" => Authorised(c)'
    BY <1>3, <2>1, <2>2, <2>3 DEF Source, GrantInv
  <2>5. got'[c] = "approve" => Authorised(c)'
    BY <1>3, <2>1 DEF Source, GrantInv
  <2>6. task'[c] = "ran" => got'[c] = "approve"
    BY <2>1 DEF Source, GrantInv, Keeps, Asked
  <2> QED
    BY <2>4, <2>5, <2>6
<1> QED
  BY <1>1, <1>4 DEF GrantInv

-----------------------------------------------------------------------------
(* NothingOpenAfterRun.                                                    *)

\* The run ends with its handler at rest and no approval pending; an approval
\* its end cancelled reads open only until it is announced.
RowOK(c) ==
  /\ task[c] = "timedout" => path[c] = "native"
  /\ run \in {"stopped", "closing", "finished"} => ctl[c] \in {"none", "done"}
  /\ run \in {"closing", "finished"} => row[c] # "pending"
  /\ row[c] = "cancelled" => run \in {"closing", "finished"}
  /\ row[c] = "cancelled" /\ restarts = 0 /\ shown[c] = "open" => c \in closing
RowInv == \A c \in Calls : RowOK(c)

\* Every step keeps the rows and the prompts in order.
LEMMA RowStep ==
  ASSUME ApprovalConstants, ApprovalsType, RowInv, [Next]_vars
  PROVE  RowInv'
<1>t. /\ task \in [Calls -> {"idle", "waiting", "timedout", "received", "responded",
                            "delivered", "answered"} \cup Settled]
      /\ ctl \in [Calls -> {"none", "stored", "auto", "announce", "done", "expire", "fail"}]
      /\ row \in [Calls -> RowStatus]
      /\ shown \in [Calls -> {"none", "open", "closed"}]
      /\ run \in {"running", "failing", "stopped", "closing", "finished"}
      /\ closing # {} => run = "closing"
  BY DEF ApprovalsType, RuntimeOK, ControlOK
<1>o. \A x \in Calls : RowOK(x)
  BY DEF RowInv
<1>0. UNCHANGED <<path, task, control, restarts>> => RowInv'
  BY <1>o DEF RowInv, RowOK, control
\* A step of one call while its run goes on, or that leaves the run alone.
<1>c. ASSUME NEW c \in Calls,
             \A x \in Calls \ {c} : ctl'[x] = ctl[x] /\ row'[x] = row[x] /\ shown'[x] = shown[x]
                                    /\ task'[x] = task[x],
             path' = path, restarts' = restarts, closing' = closing,
             run' = run \/ (run = "running" /\ run' = "failing"), RowOK(c)'
      PROVE  RowInv'
  BY <1>c, <1>o DEF RowInv, RowOK
<1>1. ASSUME NEW c \in Calls, Request(c) PROVE RowInv'
  <2>1. /\ \A x \in Calls \ {c} : ctl'[x] = ctl[x] /\ row'[x] = row[x] /\ shown'[x] = shown[x]
                                      /\ task'[x] = task[x]
        /\ path' = path /\ restarts' = restarts /\ closing' = closing
        /\ run' = run \/ (run = "running" /\ run' = "failing")
    BY <1>1, <1>t DEF Request, control, runtime, BridgeFails
  <2>2. RowOK(c)'
    BY <1>1, <1>t, <1>o DEF Request, control, runtime, BridgeFails, RowOK, RowStatus, Polled
  <2> QED
    BY ONLY <1>c, <2>1, <2>2, c \in Calls
<1>2. ASSUME NEW c \in Calls, Receive(c) PROVE RowInv'
  <2>1. /\ \A x \in Calls \ {c} : ctl'[x] = ctl[x] /\ row'[x] = row[x] /\ shown'[x] = shown[x]
                                      /\ task'[x] = task[x]
        /\ path' = path /\ restarts' = restarts /\ closing' = closing
        /\ run' = run \/ (run = "running" /\ run' = "failing")
    BY <1>2, <1>t DEF Receive, control, runtime, BridgeFails
  <2>2. RowOK(c)'
    BY <1>2, <1>t, <1>o DEF Receive, control, runtime, BridgeFails, RowOK, RowStatus, Polled
  <2> QED
    BY ONLY <1>c, <2>1, <2>2, c \in Calls
<1>3. ASSUME NEW c \in Calls, TimeOut(c) PROVE RowInv'
  <2>1. /\ \A x \in Calls \ {c} : ctl'[x] = ctl[x] /\ row'[x] = row[x] /\ shown'[x] = shown[x]
                                      /\ task'[x] = task[x]
        /\ path' = path /\ restarts' = restarts /\ closing' = closing
        /\ run' = run \/ (run = "running" /\ run' = "failing")
    BY <1>3, <1>t DEF TimeOut, control, runtime, BridgeFails
  <2>2. RowOK(c)'
    BY <1>3, <1>t, <1>o DEF TimeOut, control, runtime, BridgeFails, RowOK, RowStatus, Polled
  <2> QED
    BY ONLY <1>c, <2>1, <2>2, c \in Calls
<1>4. ASSUME NEW c \in Calls, Expire(c) PROVE RowInv'
  <2>1. /\ \A x \in Calls \ {c} : ctl'[x] = ctl[x] /\ row'[x] = row[x] /\ shown'[x] = shown[x]
                                      /\ task'[x] = task[x]
        /\ path' = path /\ restarts' = restarts /\ closing' = closing
        /\ run' = run \/ (run = "running" /\ run' = "failing")
    BY <1>4, <1>t DEF Expire, control, runtime, BridgeFails
  <2>2. RowOK(c)'
    BY <1>4, <1>t, <1>o DEF Expire, control, runtime, BridgeFails, RowOK, RowStatus, Polled
  <2> QED
    BY ONLY <1>c, <2>1, <2>2, c \in Calls
<1>5. ASSUME NEW c \in Calls, DeliverNative(c) PROVE RowInv'
  <2>1. /\ \A x \in Calls \ {c} : ctl'[x] = ctl[x] /\ row'[x] = row[x] /\ shown'[x] = shown[x]
                                      /\ task'[x] = task[x]
        /\ path' = path /\ restarts' = restarts /\ closing' = closing
        /\ run' = run \/ (run = "running" /\ run' = "failing")
    BY <1>5, <1>t DEF DeliverNative, control, runtime, BridgeFails
  <2>2. RowOK(c)'
    BY <1>5, <1>t, <1>o DEF DeliverNative, control, runtime, BridgeFails, RowOK, RowStatus, Polled
  <2> QED
    BY ONLY <1>c, <2>1, <2>2, c \in Calls
<1>6. ASSUME NEW c \in Calls, AcknowledgeNative(c) PROVE RowInv'
  <2>1. /\ \A x \in Calls \ {c} : ctl'[x] = ctl[x] /\ row'[x] = row[x] /\ shown'[x] = shown[x]
                                      /\ task'[x] = task[x]
        /\ path' = path /\ restarts' = restarts /\ closing' = closing
        /\ run' = run \/ (run = "running" /\ run' = "failing")
    BY <1>6, <1>t DEF AcknowledgeNative, control, runtime, BridgeFails
  <2>2. RowOK(c)'
    BY <1>6, <1>t, <1>o DEF AcknowledgeNative, control, runtime, BridgeFails, RowOK, RowStatus, Polled
  <2> QED
    BY ONLY <1>c, <2>1, <2>2, c \in Calls
<1>7. ASSUME NEW c \in Calls, Execute(c) PROVE RowInv'
  <2>1. /\ \A x \in Calls \ {c} : ctl'[x] = ctl[x] /\ row'[x] = row[x] /\ shown'[x] = shown[x]
                                      /\ task'[x] = task[x]
        /\ path' = path /\ restarts' = restarts /\ closing' = closing
        /\ run' = run \/ (run = "running" /\ run' = "failing")
    BY <1>7, <1>t DEF Execute, control, runtime, BridgeFails
  <2>2. RowOK(c)'
    BY <1>7, <1>t, <1>o DEF Execute, control, runtime, BridgeFails, RowOK, RowStatus, Polled
  <2> QED
    BY ONLY <1>c, <2>1, <2>2, c \in Calls
<1>8. ASSUME NEW c \in Calls, DeliverGate(c) PROVE RowInv'
  <2>1. /\ \A x \in Calls \ {c} : ctl'[x] = ctl[x] /\ row'[x] = row[x] /\ shown'[x] = shown[x]
                                      /\ task'[x] = task[x]
        /\ path' = path /\ restarts' = restarts /\ closing' = closing
        /\ run' = run \/ (run = "running" /\ run' = "failing")
    BY <1>8, <1>t DEF DeliverGate, control, runtime, BridgeFails
  <2>2. RowOK(c)'
    BY <1>8, <1>t, <1>o DEF DeliverGate, control, runtime, BridgeFails, RowOK, RowStatus, Polled
  <2> QED
    BY ONLY <1>c, <2>1, <2>2, c \in Calls
<1>9. ASSUME NEW c \in Calls, Respond(c) PROVE RowInv'
  <2>1. /\ \A x \in Calls \ {c} : ctl'[x] = ctl[x] /\ row'[x] = row[x] /\ shown'[x] = shown[x]
                                      /\ task'[x] = task[x]
        /\ path' = path /\ restarts' = restarts /\ closing' = closing
        /\ run' = run \/ (run = "running" /\ run' = "failing")
    BY <1>9, <1>t DEF Respond, control, runtime, BridgeFails
  <2>2. RowOK(c)'
    BY <1>9, <1>t, <1>o DEF Respond, control, runtime, BridgeFails, RowOK, RowStatus, Polled
  <2> QED
    BY ONLY <1>c, <2>1, <2>2, c \in Calls
<1>10. ASSUME NEW c \in Calls, DeliverBridge(c) PROVE RowInv'
  <2>1. /\ \A x \in Calls \ {c} : ctl'[x] = ctl[x] /\ row'[x] = row[x] /\ shown'[x] = shown[x]
                                      /\ task'[x] = task[x]
        /\ path' = path /\ restarts' = restarts /\ closing' = closing
        /\ run' = run \/ (run = "running" /\ run' = "failing")
    BY <1>10, <1>t DEF DeliverBridge, control, runtime, BridgeFails
  <2>2. RowOK(c)'
    BY <1>10, <1>t, <1>o DEF DeliverBridge, control, runtime, BridgeFails, RowOK, RowStatus, Polled
  <2> QED
    BY ONLY <1>c, <2>1, <2>2, c \in Calls
<1>11. ASSUME NEW c \in Calls, AcknowledgeBridge(c) PROVE RowInv'
  <2>1. /\ \A x \in Calls \ {c} : ctl'[x] = ctl[x] /\ row'[x] = row[x] /\ shown'[x] = shown[x]
                                      /\ task'[x] = task[x]
        /\ path' = path /\ restarts' = restarts /\ closing' = closing
        /\ run' = run \/ (run = "running" /\ run' = "failing")
    BY <1>11, <1>t DEF AcknowledgeBridge, control, runtime, BridgeFails
  <2>2. RowOK(c)'
    BY <1>11, <1>t, <1>o DEF AcknowledgeBridge, control, runtime, BridgeFails, RowOK, RowStatus, Polled
  <2> QED
    BY ONLY <1>c, <2>1, <2>2, c \in Calls
<1>12. ASSUME NEW c \in Calls, PutRow(c) PROVE RowInv'
  <2>1. /\ \A x \in Calls \ {c} : ctl'[x] = ctl[x] /\ row'[x] = row[x] /\ shown'[x] = shown[x]
                                      /\ task'[x] = task[x]
        /\ path' = path /\ restarts' = restarts /\ closing' = closing
        /\ run' = run \/ (run = "running" /\ run' = "failing")
    BY <1>12, <1>t DEF PutRow, control, runtime, BridgeFails
  <2>2. RowOK(c)'
    BY <1>12, <1>t, <1>o DEF PutRow, control, runtime, BridgeFails, RowOK, RowStatus, Polled
  <2> QED
    BY ONLY <1>c, <2>1, <2>2, c \in Calls
<1>13. ASSUME NEW c \in Calls, AutoResolve(c) PROVE RowInv'
  <2>1. /\ \A x \in Calls \ {c} : ctl'[x] = ctl[x] /\ row'[x] = row[x] /\ shown'[x] = shown[x]
                                      /\ task'[x] = task[x]
        /\ path' = path /\ restarts' = restarts /\ closing' = closing
        /\ run' = run \/ (run = "running" /\ run' = "failing")
    BY <1>13, <1>t DEF AutoResolve, control, runtime, BridgeFails
  <2>2. RowOK(c)'
    BY <1>13, <1>t, <1>o DEF AutoResolve, control, runtime, BridgeFails, RowOK, RowStatus, Polled
  <2> QED
    BY ONLY <1>c, <2>1, <2>2, c \in Calls
<1>14. ASSUME NEW c \in Calls, Announce(c) PROVE RowInv'
  <2>1. /\ \A x \in Calls \ {c} : ctl'[x] = ctl[x] /\ row'[x] = row[x] /\ shown'[x] = shown[x]
                                      /\ task'[x] = task[x]
        /\ path' = path /\ restarts' = restarts /\ closing' = closing
        /\ run' = run \/ (run = "running" /\ run' = "failing")
    BY <1>14, <1>t DEF Announce, control, runtime, BridgeFails
  <2>2. RowOK(c)'
    BY <1>14, <1>t, <1>o DEF Announce, control, runtime, BridgeFails, RowOK, RowStatus, Polled
  <2> QED
    BY ONLY <1>c, <2>1, <2>2, c \in Calls
<1>15. ASSUME NEW c \in Calls, RelayFailure(c) PROVE RowInv'
  <2>1. /\ \A x \in Calls \ {c} : ctl'[x] = ctl[x] /\ row'[x] = row[x] /\ shown'[x] = shown[x]
                                      /\ task'[x] = task[x]
        /\ path' = path /\ restarts' = restarts /\ closing' = closing
        /\ run' = run \/ (run = "running" /\ run' = "failing")
    BY <1>15, <1>t DEF RelayFailure, control, runtime, BridgeFails
  <2>2. RowOK(c)'
    BY <1>15, <1>t, <1>o DEF RelayFailure, control, runtime, BridgeFails, RowOK, RowStatus, Polled
  <2> QED
    BY ONLY <1>c, <2>1, <2>2, c \in Calls
<1>16. ASSUME NEW c \in Calls, ClosePut(c) PROVE RowInv'
  <2>1. /\ \A x \in Calls \ {c} : ctl'[x] = ctl[x] /\ row'[x] = row[x] /\ shown'[x] = shown[x]
                                      /\ task'[x] = task[x]
        /\ path' = path /\ restarts' = restarts /\ closing' = closing
        /\ run' = run \/ (run = "running" /\ run' = "failing")
    BY <1>16, <1>t DEF ClosePut, control, runtime, BridgeFails
  <2>2. RowOK(c)'
    BY <1>16, <1>t, <1>o DEF ClosePut, control, runtime, BridgeFails, RowOK, RowStatus, Polled
  <2> QED
    BY ONLY <1>c, <2>1, <2>2, c \in Calls
<1>17. ASSUME NEW c \in Calls, CancelAnnounce(c) PROVE RowInv'
  <2>1. run = "closing" /\ run' \in {"closing", "finished"}
    BY <1>17, <1>t DEF CancelAnnounce
  <2>2. ASSUME NEW x \in Calls PROVE RowOK(x)'
    BY <1>17, <1>t, <1>o, <2>1 DEF CancelAnnounce, RowOK
  <2> QED
    BY <2>2 DEF RowInv
<1>18. ASSUME AcknowledgeRun PROVE RowInv'
  BY <1>18, <1>0 DEF AcknowledgeRun
<1>19. ASSUME Stop \/ Drain PROVE RowInv'
  <2>0. RuntimeOK
    BY DEF ApprovalsType
  <2>1. ASSUME NEW x \in Calls PROVE task'[x] = "timedout" => task[x] = "timedout"
    <3>1. task'[x] = CASE task[x] \in Settled \cup {"idle"} -> task[x]
                       [] path[x] = "gate" -> task[x]
                       [] path[x] = "bridge" /\ task[x] \in {"responded", "delivered"} /\ got[x] = "approve" -> "ran"
                       [] OTHER -> "gone"
      BY <1>19, <2>0, LeaveEffect
    <3> QED
      BY <3>1
  <2> QED
    BY <1>19, <1>o, <2>0, <2>1, LeaveEffect DEF RowInv, RowOK
<1>28. ASSUME Drained PROVE RowInv'
  <2>1. UNCHANGED <<path, task, ctl, row, shown, run, closing, restarts>>
    BY <1>28 DEF Drained
  <2> QED
    BY <1>o, <2>1 DEF RowInv, RowOK
<1>20. ASSUME CancelRows PROVE RowInv'
  <2>1. run = "stopped" /\ run' \in {"closing", "finished"}
    BY <1>20 DEF CancelRows
  <2>2. ASSUME NEW x \in Calls PROVE RowOK(x)'
    <3>1. /\ row'[x] = (IF row[x] = "pending" THEN "cancelled" ELSE row[x])
          /\ row[x] = "pending" => x \in closing'
          /\ UNCHANGED <<ctl, path, task, restarts>>
      BY <1>20 DEF CancelRows, Pending, runtime
    <3> QED
      BY <1>o, <2>1, <3>1 DEF RowOK
  <2> QED
    BY <2>2 DEF RowInv
<1>21. ASSUME NEW cl \in Clients, WriteDecision(cl) PROVE RowInv'
  <2>1. client[cl].call \in Calls
    BY <1>21 DEF WriteDecision, ApprovalsType, CommandsOK, Waits
  <2>2. ASSUME NEW x \in Calls PROVE RowOK(x)'
    <3>1. row'[x] \in {row[x], "approved", "denied"} /\ UNCHANGED <<ctl, shown, run, closing, path, task, restarts>>
      BY <1>21, <1>t DEF WriteDecision, runtime
    <3> QED
      BY <1>o, <3>1 DEF RowOK
  <2> QED
    BY <2>2 DEF RowInv
<1>22. ASSUME NEW cl \in Clients, EmitResolved(cl) PROVE RowInv'
  <2>1. client[cl].call \in Calls /\ client[cl].decision \in {"approve", "deny"}
    BY <1>22 DEF EmitResolved, ApprovalsType, CommandsOK, Waits
  <2>2. ASSUME NEW x \in Calls PROVE RowOK(x)'
    <3>1. shown'[x] \in {shown[x], "closed"} /\ UNCHANGED <<ctl, row, run, closing, path, task, restarts>>
      BY <1>22, <1>t, <2>1 DEF EmitResolved, runtime
    <3> QED
      BY <1>o, <3>1 DEF RowOK
  <2> QED
    BY <2>2 DEF RowInv
<1>23. ASSUME Restart PROVE RowInv'
  <2>1. restarts' # 0
    <3>1. restarts' = restarts + 1 /\ restarts \in 0..MaxRestarts /\ MaxRestarts \in Nat
      BY <1>23, ApprovalConstants, Zenon DEF Restart, ApprovalsType, ApprovalConstants
    <3> QED
      BY ONLY <3>1
  <2>2. ASSUME NEW x \in Calls PROVE RowOK(x)'
    <3>1. task'[x] # "timedout" /\ ctl'[x] = "done" /\ row'[x] # "pending" /\ run' = "finished"
      BY <1>23, Zenon DEF Restart, Pending, Settled
    <3> QED
      BY <2>1, <3>1 DEF RowOK
  <2> QED
    BY <2>2 DEF RowInv
<1>24. ASSUME NEW cl \in Clients, WaitDone(cl) \/ WaitTimeout(cl) \/ SaveRules(cl) PROVE RowInv'
  BY <1>0, <1>24 DEF WaitDone, WaitTimeout, SaveRules, runtime
<1>25. ASSUME NEW cl, NEW c, NEW d, NEW thread, Ask(cl, c, d, thread) PROVE RowInv'
  BY <1>0, <1>25 DEF Ask
<1>26. ASSUME NEW keys, RevokeLoad(keys) PROVE RowInv'
  BY <1>0, <1>26 DEF RevokeLoad, runtime
<1>27. ASSUME RevokeSave \/ UNCHANGED vars PROVE RowInv'
  BY <1>0, <1>27 DEF RevokeSave, vars, runtime
<1> QED
  BY <1>1, <1>2, <1>3, <1>4, <1>5, <1>6, <1>7, <1>8, <1>9, <1>10, <1>11, <1>12, <1>13, <1>14, <1>15,
    <1>16, <1>17, <1>18, <1>19, <1>20, <1>21, <1>22, <1>23, <1>24, <1>25, <1>26, <1>27, <1>28
    DEF Next, RuntimeStep, HandlerStep, ClientStep

\* A cancelled approval still to be announced is all that may await an answer.
ClosedInv == \A c \in Calls : row[c] = "cancelled" /\ entry[c].state \in Unsettled => c \in closing

\* A row is cancelled together with the run's other rows; announcing it fails
\* what the broker still holds.
LEMMA RowMoves ==
  ASSUME ApprovalsType, EntryInv, [Next]_vars, NEW x \in Calls
  PROVE  /\ row'[x] = "cancelled" => row[x] = "cancelled" \/ x \in closing'
         /\ x \in closing => x \in closing' \/ entry'[x].state \notin Unsettled
<1> DEFINE Goal == /\ row'[x] = "cancelled" => row[x] = "cancelled" \/ x \in closing'
                   /\ x \in closing => x \in closing' \/ entry'[x].state \notin Unsettled
<1>t. entry[x] \in Entry /\ entry \in [Calls -> Entry] /\ row \in [Calls -> RowStatus]
  BY DEF ApprovalsType, RuntimeOK, ControlOK
<1>0. UNCHANGED <<row, closing>> => Goal
  OBVIOUS
<1>1. ASSUME NEW c \in Calls, RuntimeStep(c) PROVE Goal
  BY <1>0, <1>1, Zenon DEF RuntimeStep, Request, Receive, TimeOut, Expire, DeliverNative,
    AcknowledgeNative, Execute, DeliverGate, Respond, DeliverBridge, AcknowledgeBridge, BridgeFails, control
<1>2. ASSUME NEW c \in Calls, PutRow(c) \/ AutoResolve(c) \/ Announce(c) \/ RelayFailure(c) \/ ClosePut(c)
      PROVE  Goal
  BY <1>t, <1>2 DEF PutRow, AutoResolve, Announce, RelayFailure, ClosePut
<1>3. ASSUME NEW c \in Calls, CancelAnnounce(c) PROVE Goal
  <2>1. row' = row /\ closing' = closing \ {c} /\ entry'[c] = Transition(entry[c], "failed")
    BY <1>t, <1>3 DEF CancelAnnounce, Moved, ApprovalsType, RuntimeOK
  <2>2. Transition(entry[c], "failed").state \notin Unsettled
    BY Failing DEF ApprovalsType, RuntimeOK, EntryInv, Unsettled
  <2> QED
    BY <2>1, <2>2
<1>4. ASSUME AcknowledgeRun \/ Stop \/ Drain \/ Drained \/ RevokeSave \/ UNCHANGED vars PROVE Goal
  BY <1>0, <1>4 DEF AcknowledgeRun, Stop, Drain, Drained, Leave, RevokeSave, vars, control
<1>5. ASSUME CancelRows PROVE Goal
  <2>1. closing' = Pending /\ row'[x] = IF x \in Pending THEN "cancelled" ELSE row[x]
    BY <1>5 DEF CancelRows
  <2>2. x \in closing => run = "closing"
    BY DEF ApprovalsType, ControlOK
  <2> QED
    BY <1>5, <2>1, <2>2 DEF CancelRows
<1>6. ASSUME Restart PROVE Goal
  <2>1. entry'[x] = NoEntry /\ row'[x] \in {row[x], "interrupted"}
    BY <1>6, Zenon DEF Restart
  <2> QED
    BY <2>1, EntryRecords DEF Unsettled
<1>7. ASSUME NEW cl \in Clients, ClientStep(cl) PROVE Goal
  <2>1. CASE WriteDecision(cl)
    <3>1. row'[x] \in {row[x], "approved", "denied"} /\ closing' = closing
      BY <1>t, <2>1 DEF WriteDecision
    <3> QED
      BY <3>1
  <2>2. CASE WaitDone(cl) \/ WaitTimeout(cl) \/ SaveRules(cl) \/ EmitResolved(cl)
    BY <1>0, <2>2 DEF WaitDone, WaitTimeout, SaveRules, EmitResolved, control
  <2> QED
    BY <1>7, <2>1, <2>2 DEF ClientStep
<1>8. ASSUME NEW cl, NEW c, NEW d, NEW thread, Ask(cl, c, d, thread) PROVE Goal
  BY <1>0, <1>8 DEF Ask, control
<1>9. ASSUME NEW keys, RevokeLoad(keys) PROVE Goal
  BY <1>0, <1>9 DEF RevokeLoad, control
<1> QED
  BY <1>1, <1>2, <1>3, <1>4, <1>5, <1>6, <1>7, <1>8, <1>9 DEF Next, HandlerStep

\* Every step leaves nothing that was closed open to an answer.
LEMMA ClosedStep ==
  ASSUME ApprovalConstants, ApprovalsType, EntryInv, RowInv, ClosedInv, [Next]_vars
  PROVE  ClosedInv'
<1> SUFFICES ASSUME NEW x \in Calls, row'[x] = "cancelled", entry'[x].state \in Unsettled
             PROVE  x \in closing'
  BY DEF ClosedInv
<1>1. CASE row[x] = "cancelled"
  <2>1. run # "running"
    BY <1>1 DEF RowInv, RowOK
  <2>2. Keeps(x)
    BY EntryStep
  <2>3. entry[x].state \in Unsettled
    BY <2>1, <2>2 DEF Keeps
  <2> QED
    BY <1>1, <2>3, RowMoves DEF ClosedInv
<1> QED
  BY <1>1, RowMoves

-----------------------------------------------------------------------------
(* The invariant and the theorems.                                         *)

ApprovalsInv == ApprovalsType /\ EntryInv /\ ClientInv /\ GrantInv /\ RowInv /\ ClosedInv

\* It holds at the start.
LEMMA ApprovalsInit == Init => ApprovalsInv
<1> SUFFICES ASSUME Init PROVE ApprovalsInv
  OBVIOUS
<1>e. <<>> \in Seq(Keys) /\ <<>> \in Seq(Seq(Keys)) /\ Len(<<>>) = 0 /\ \A k : ~Contains(<<>>, k)
  BY EmptySeq DEF Contains
<1>c. /\ ApprovalConstants
      /\ \A cl \in Clients : client[cl] = NewClient
      /\ NewClient \in ClientRecord
      /\ NewClient.pc = "idle" /\ NewClient.decision = "none" /\ NewClient.thread = FALSE /\ NewClient.snap = <<>>
  BY <1>e, ApprovalConstants DEF Init, NewClient, ClientRecord, Decision
<1>1. RuntimeOK
  BY EntryRecords DEF Init, RuntimeOK, Decision
<1>2. ControlOK
  BY DEF Init, ControlOK, RowStatus
<1>3. CommandsOK
  <2>1. client \in [Clients -> ClientRecord]
    BY <1>c DEF Init
  <2> QED
    BY <1>c, <1>e, <2>1 DEF CommandsOK, Waits, ApprovalConstants
<1>4. RulesOK /\ restarts \in 0..MaxRestarts
  BY <1>c, <1>e DEF Init, RulesOK, ApprovalConstants
<1>5. EntryInv
  BY EntryRecords DEF Init, EntryInv, EntryOK, Asked
<1>6. ClientInv
  BY <1>c DEF ClientInv, ClientOK, Reached
<1>7. GrantInv
  BY <1>c, <1>e, EntryRecords DEF Init, GrantInv, Grants
<1>8. RowInv /\ ClosedInv
  BY DEF Init, RowInv, RowOK, ClosedInv
<1> QED
  BY <1>1, <1>2, <1>3, <1>4, <1>5, <1>6, <1>7, <1>8 DEF ApprovalsInv, ApprovalsType

\* The inductive invariant: where an approval stands in the broker, with the
\* runtime, with the commands, in the store and on the screen fits together,
\* whatever the order of decisions, timeouts, the end of the run and a restart.
THEOREM ApprovalsInvariant == Spec => []ApprovalsInv
<1>1. Init => ApprovalsInv
  BY ApprovalsInit
<1>2. ApprovalsInv /\ [Next]_vars => ApprovalsInv'
  BY ApprovalConstants, TypeStep, EntryStep, ClientKept, GrantStep, RowStep, ClosedStep DEF ApprovalsInv
<1> QED
  BY <1>1, <1>2, PTL DEF Spec

\* Every reachable state is well typed: no rule list outgrows its cap.
THEOREM ApprovalsTyped == Spec => []TypeOK
<1>1. ApprovalsInv => TypeOK
  BY DEF ApprovalsInv, ApprovalsType, TypeOK, RuntimeOK, ControlOK, CommandsOK, RulesOK
<1> QED
  BY <1>1, ApprovalsInvariant, PTL

\* `resolve_approval` reports success only for the decision the runtime
\* received, for any number of commands and calls.
THEOREM AppliedWasReceived == Spec => []AppliedMeansReceived
<1>1. ApprovalsInv => AppliedMeansReceived
  BY DEF ApprovalsInv, ClientInv, ClientOK, AppliedMeansReceived, Reached
<1> QED
  BY <1>1, ApprovalsInvariant, PTL

\* A call that runs was approved by a person, or falls under a rule one allowed
\* for the chat: no other decision, time-out or stale rule list lets it run.
THEOREM RunsAreAuthorised == Spec => []RanIsAuthorised
<1>1. ApprovalsInv => RanIsAuthorised
  BY DEF ApprovalsInv, GrantInv, Authorised, RanIsAuthorised, Ran
<1> QED
  BY <1>1, ApprovalsInvariant, PTL

\* A finished run leaves no row pending, and nothing that it cancelled open on a
\* screen or to an answer.
THEOREM FinishedRunIsClosed == Spec => []NothingOpenAfterRun
<1>1. ApprovalsInv => NothingOpenAfterRun
  <2> SUFFICES ASSUME ApprovalsInv PROVE NothingOpenAfterRun
    OBVIOUS
  <2>1. run = "finished" => closing = {}
    BY DEF ApprovalsInv, ApprovalsType, ControlOK
  <2> QED
    BY <2>1 DEF ApprovalsInv, RowInv, RowOK, ClosedInv, Unsettled, NothingOpenAfterRun
<1> QED
  BY <1>1, ApprovalsInvariant, PTL

-----------------------------------------------------------------------------
(* The review as one decision per call.                                    *)

\* What of an entry, its task and what the task received the decision rests on:
\* nothing was received while it waits; an undecided entry holds no decision, one
\* that is sent holds an answer.
ReviewCall(e, t, g) ==
  /\ t \in Asked => g = "none"
  /\ e.state \in Open => e.decision = "none"
  /\ e.chan = "sent" => e.decision \in {"approve", "deny"}
ReviewCalls == \A c \in Calls : ReviewCall(entry[c], task[c], got[c])

\* After an exit nothing of the run goes on, and no command is at work.
Resting == {"idle", "applied", "conflict", "failed", "lost"}
GoneInv ==
  restarts > 0 =>
    /\ run = "finished" /\ ~drain
    /\ \A c \in Calls : entry[c] = NoEntry /\ task[c] \in Settled
    /\ \A cl \in Clients : client[cl].pc \in Resting

ReviewInv == ReviewCalls /\ GoneInv

LEMMA ReviewTransition ==
  ASSUME NEW e \in Entry, NEW t, NEW u, NEW g, ReviewCall(e, t, g), NEW to \in {"delivered", "acknowledged", "failed", "canceled"},
         u \in Asked => t \in Asked
  PROVE  ReviewCall(Transition(e, to), u, g) /\ Transition(e, to).decision = e.decision
<1>1. to \in States
  BY StateNames
<1> QED
  BY <1>1, TransitionEffect DEF ReviewCall, Open

LEMMA ReviewDropped ==
  ASSUME NEW e \in Entry, NEW t, NEW u, NEW g, ReviewCall(e, t, g), u \in Asked => t \in Asked
  PROVE  ReviewCall(Dropped(e), u, g) /\ Dropped(e).decision = e.decision
<1>1. Dropped(e) \in {e, Transition(e, "failed"), Transition(e, "canceled")}
  BY DroppedEffect
<1> QED
  BY <1>1, ReviewTransition DEF ReviewCall

LEMMA ReviewDecided ==
  ASSUME NEW e \in Entry, e.state = "requested", NEW t, NEW g, ReviewCall(e, t, g), NEW d \in {"approve", "deny"}
  PROVE  ReviewCall(Decided(e, d), t, g) /\ Decided(e, d).decision = d
<1>1. d \in Decision
  BY DEF Decision
<1> QED
  BY <1>1, DecidedEffect DEF ReviewCall, Open

-----------------------------------------------------------------------------
(* What a step looks like from the abstract review.                        *)

\* The step leaves alone what the abstract review sees, but for the parts named.
SameDecisions == \A x \in Calls : entry'[x].decision = entry[x].decision
SameRan == \A x \in Calls : task'[x] = "ran" <=> task[x] = "ran"
SameApplied ==
  \A cl \in Clients :
    /\ client'[cl].pc = "applied" <=> client[cl].pc = "applied"
    /\ client[cl].pc = "applied" => client'[cl].call = client[cl].call /\ client'[cl].decision = client[cl].decision

LEMMA SameViews ==
  /\ SameDecisions => decisions' = decisions
  /\ SameRan => {c \in Calls : Ran(c)}' = {c \in Calls : Ran(c)}
  /\ SameApplied => applied' = applied
  /\ client' = client => SameApplied
  /\ task' = task => SameRan
  /\ entry' = entry => SameDecisions
<1>1. ASSUME SameDecisions PROVE decisions' = decisions
  BY <1>1 DEF SameDecisions, decisions
<1>2. ASSUME SameRan PROVE {c \in Calls : Ran(c)}' = {c \in Calls : Ran(c)}
  BY <1>2 DEF SameRan, Ran
<1>3. ASSUME SameApplied PROVE applied' = applied
  BY <1>3 DEF SameApplied, applied
<1> QED
  BY <1>1, <1>2, <1>3 DEF SameDecisions, SameRan, SameApplied

LEMMA ReviewStutters ==
  ASSUME SameDecisions, SameRan, SameApplied, got' = got, restarts' = restarts
  PROVE  UNCHANGED Review!vars
  BY SameViews DEF Review!vars, process

LEMMA ReviewDecides ==
  ASSUME restarts = 0, restarts' = restarts, NEW c \in Calls, NEW d \in {"approve", "deny"},
         SameRan, SameApplied, got' = got, got[c] = "none", entry[c].decision = "none",
         entry'[c].decision = d, \A x \in Calls \ {c} : entry'[x].decision = entry[x].decision
  PROVE  Review!Next
<1>1. decisions' = [decisions EXCEPT ![c] = d] /\ decisions[c] = "none"
  BY DEF decisions
<1>2. Review!Decide(c, d)
  BY <1>1, SameViews DEF Review!Decide, process
<1> QED
  BY <1>2 DEF Review!Next, Review!Answers, process

LEMMA ReviewHears ==
  ASSUME restarts = 0, restarts' = restarts, NEW c \in Calls, SameDecisions, SameRan, SameApplied,
         got[c] = "none", NEW g, got' = [got EXCEPT ![c] = g],
         g = "deny" \/ (g = entry[c].decision /\ g # "none")
  PROVE  Review!Next
<1>1. decisions[c] = entry[c].decision
  BY DEF decisions
<1>2. Review!Refuse(c) \/ Review!Hear(c)
  BY <1>1, SameViews DEF Review!Refuse, Review!Hear, process
<1> QED
  BY <1>2 DEF Review!Next, process

LEMMA ReviewRuns ==
  ASSUME restarts = 0, restarts' = restarts, SameDecisions, SameApplied, got' = got,
         \A x \in Calls : task'[x] = "ran" => task[x] = "ran" \/ got[x] = "approve",
         \A x \in Calls : task[x] = "ran" => task'[x] = "ran"
  PROVE  Review!Next
<1> DEFINE cs == {x \in Calls : task'[x] = "ran" /\ task[x] # "ran"}
<1>1. {c \in Calls : Ran(c)}' = {c \in Calls : Ran(c)} \cup cs /\ \A c \in cs : got[c] = "approve"
  BY DEF Ran
<1>2. cs \in SUBSET Calls
  OBVIOUS
<1> HIDE DEF cs
<1>3. Review!Run(cs)
  BY <1>1, SameViews DEF Review!Run, process
<1> QED
  BY <1>2, <1>3 DEF Review!Next, process

LEMMA ReviewTells ==
  ASSUME restarts = 0, restarts' = restarts, SameDecisions, SameRan, got' = got, NEW cl \in Clients,
         client[cl].pc # "applied", client'[cl].pc = "applied", client'[cl].call \in Calls,
         got[client'[cl].call] = client'[cl].decision, client'[cl].decision # "none",
         \A x \in Clients \ {cl} : client'[x] = client[x]
  PROVE  Review!Next
<1> DEFINE c == client'[cl].call
<1>1. applied' = [applied EXCEPT ![cl] = [call |-> c, decision |-> got[c]]] /\ applied[cl] = Review!NotTold
  BY DEF applied, Review!NotTold
<1>2. c \in Calls /\ got[c] # "none"
  OBVIOUS
<1> HIDE DEF c
<1>3. Review!Tell(cl, c)
  BY <1>1, <1>2, SameViews DEF Review!Tell, process
<1> QED
  BY <1>2, <1>3 DEF Review!Next, process

\* After an exit the review is over: whatever still happens does not touch it.
LEMMA AfterExit ==
  ASSUME ApprovalsInv, ReviewInv, restarts > 0, [Next]_vars
  PROVE  /\ UNCHANGED <<entry, task, got, run, drain, restarts>>
         /\ SameApplied /\ \A cl \in Clients : client'[cl].pc \in Resting
<1> DEFINE Goal == /\ UNCHANGED <<entry, task, got, run, drain, restarts>>
                   /\ SameApplied /\ \A cl \in Clients : client'[cl].pc \in Resting
<1>1. /\ run = "finished" /\ ~drain /\ closing = {}
      /\ \A c \in Calls : entry[c] = NoEntry /\ task[c] \in Settled /\ ctl[c] \in {"none", "done"}
      /\ \A cl \in Clients : client[cl].pc \in Resting
  BY DEF ReviewInv, GoneInv, ApprovalsInv, ApprovalsType, ControlOK, RowInv, RowOK
<1>2. UNCHANGED <<entry, task, got, run, drain, restarts, client>> => Goal
  BY <1>1, SameViews
<1>3. ASSUME NEW c \in Calls, RuntimeStep(c) PROVE FALSE
  <2>1. task[c] \notin {"idle", "waiting", "timedout", "received", "responded", "delivered", "answered"}
    BY <1>1 DEF Settled
  <2> QED
    BY <1>3, <2>1 DEF RuntimeStep, Request, Receive, TimeOut, Expire, DeliverNative,
       AcknowledgeNative, Execute, DeliverGate, Respond, DeliverBridge, AcknowledgeBridge
<1>4. ASSUME NEW c \in Calls, HandlerStep(c) PROVE FALSE
  BY <1>1, <1>4 DEF HandlerStep, PutRow, AutoResolve, Announce, RelayFailure, ClosePut, CancelAnnounce
<1>5. ASSUME AcknowledgeRun \/ Stop \/ Drain \/ Drained \/ CancelRows \/ Restart PROVE FALSE
  BY <1>1, <1>5 DEF AcknowledgeRun, Stop, Drain, Drained, Leave, CancelRows, Restart
<1>6. ASSUME NEW cl \in Clients, ClientStep(cl) PROVE FALSE
  <2>1. client[cl].pc \notin {"waiting", "writing", "saving", "emitting"}
    BY <1>1 DEF Resting
  <2> QED
    BY <1>6, <2>1 DEF ClientStep, WaitDone, WaitTimeout, WriteDecision, SaveRules, EmitResolved
<1>7. ASSUME NEW cl \in Clients, NEW c \in Calls, NEW d \in {"approve", "deny"}, NEW thread \in BOOLEAN,
             Ask(cl, c, d, thread)
      PROVE  Goal
  <2>1. entry[c].state = "none"
    BY <1>1, EntryRecords
  <2>2. Resolve(entry[c], d) = "missing"
    BY <2>1 DEF Resolve
  <2>3. client \in [Clients -> ClientRecord]
    BY DEF ApprovalsInv, ApprovalsType, CommandsOK
  <2>4. /\ client[cl].pc = "idle" /\ UNCHANGED <<task, got, run, drain, restarts>>
        /\ entry' = entry
        /\ client' = [client EXCEPT ![cl] = [NewClient EXCEPT !.pc = "failed", !.call = c, !.decision = d,
                                                              !.thread = FALSE]]
    BY <1>7, <2>2 DEF Ask, control
  <2>5. client'[cl].pc = "failed" /\ \A x \in Clients \ {cl} : client'[x] = client[x]
    BY <2>3, <2>4, AskedRecord
  <2> QED
    BY <1>1, <2>4, <2>5 DEF SameApplied, Resting
<1>8. ASSUME RevokeSave \/ (\E keys \in (SUBSET Keys) \ {{}} : RevokeLoad(keys)) \/ UNCHANGED vars
      PROVE  Goal
  BY <1>2, <1>8 DEF RevokeSave, RevokeLoad, vars, runtime, control
<1> QED
  BY <1>3, <1>4, <1>5, <1>6, <1>7, <1>8 DEF Next

\* The runtime's steps.
LEMMA RuntimeReview ==
  ASSUME ApprovalsInv, ReviewInv, restarts = 0, NEW c \in Calls, RuntimeStep(c)
  PROVE  ReviewCalls' /\ [Review!Next]_(Review!vars)
<1> DEFINE Goal == ReviewCalls' /\ [Review!Next]_(Review!vars)
<1>e. \A x \in Calls : entry[x] \in Entry /\ EntryOK(entry[x], task[x], got[x])
                       /\ ReviewCall(entry[x], task[x], got[x])
  BY DEF ApprovalsInv, ApprovalsType, RuntimeOK, EntryInv, ReviewInv, ReviewCalls
<1>r. entry \in [Calls -> Entry] /\ task \in [Calls -> {"idle", "waiting", "timedout", "received", "responded",
                         "delivered", "answered"} \cup Settled] /\ got \in [Calls -> Decision]
  BY DEF ApprovalsInv, ApprovalsType, RuntimeOK
<1>c. UNCHANGED <<client, restarts>>
  BY OthersLeaveCommands
<1>1c. ASSUME \A x \in Calls \ {c} : entry'[x] = entry[x] /\ task'[x] = task[x] /\ got'[x] = got[x],
              ReviewCall(entry'[c], task'[c], got'[c])
       PROVE  ReviewCalls'
  BY <1>1c, <1>e DEF ReviewCalls
<1>2c. ASSUME \A x \in Calls \ {c} : entry'[x] = entry[x] /\ task'[x] = task[x],
              entry'[c].decision = entry[c].decision, got' = got,
              task[c] = "ran" => task'[c] = "ran",
              task'[c] = "ran" => task[c] = "ran" \/ got[c] = "approve"
       PROVE  [Review!Next]_(Review!vars)
  <2>1. SameDecisions /\ SameApplied
    BY <1>2c, <1>c, SameViews DEF SameDecisions
  <2> QED
    BY <1>2c, <1>c, <2>1, ReviewRuns
<1>1. CASE Request(c)
  <2>1. /\ task[c] = "idle" /\ task'[c] = "waiting" /\ got' = got
        /\ \A x \in Calls \ {c} : entry'[x] = entry[x] /\ task'[x] = task[x]
        /\ entry'[c] = [state |-> "requested", decision |-> "none", chan |-> "open"]
    BY <1>1, <1>r DEF Request
  <2>2. entry[c].decision = "none" /\ got[c] = "none"
    BY <1>e, <2>1 DEF EntryOK, ReviewCall, Open, Asked
  <2> QED
    BY <1>1c, <1>2c, <2>1, <2>2 DEF ReviewCall
<1>2. CASE Receive(c)
  <2>1. /\ task[c] = "waiting" /\ task' = [task EXCEPT ![c] = "received"] /\ got[c] = "none"
        /\ task'[c] = "received"
    BY <1>2, <1>r, <1>e DEF Receive, ReviewCall, Asked
  <2>2. SameRan /\ SameApplied
    BY <1>c, <1>r, <2>1, SameViews DEF SameRan
  <2>3. CASE /\ entry[c].chan = "sent" /\ got' = [got EXCEPT ![c] = entry[c].decision]
             /\ entry' = [entry EXCEPT ![c].chan = "taken"]
    <3>1. entry'[c] = [entry[c] EXCEPT !.chan = "taken"] /\ \A x \in Calls \ {c} : entry'[x] = entry[x]
      BY <1>r, <2>3
    <3>2. entry'[c].decision = entry[c].decision /\ entry'[c].state = entry[c].state /\ entry'[c].chan = "taken"
      BY <1>e, <3>1, EntryRecords
    <3>3. SameDecisions
      BY <3>1, <3>2 DEF SameDecisions
    <3>4. entry[c].decision # "none"
      BY <1>e, <2>3 DEF ReviewCall
    <3>5. Review!Next
      BY <1>c, <2>1, <2>2, <2>3, <3>3, <3>4, ReviewHears
    <3>6. ReviewCalls'
      BY <1>1c, <1>e, <1>r, <2>1, <2>3, <3>1, <3>2 DEF ReviewCall, Asked
    <3> QED
      BY <3>5, <3>6
  <2>4. CASE got' = [got EXCEPT ![c] = "deny"] /\ Moved(c, "failed")
    <3>1. entry'[c] = Transition(entry[c], "failed") /\ \A x \in Calls \ {c} : entry'[x] = entry[x]
      BY <1>r, <2>4 DEF Moved
    <3>2. /\ entry'[c].decision = entry[c].decision
          /\ ReviewCall(entry'[c], "received", got[c])
      BY <1>e, <3>1, ReviewTransition DEF Asked
    <3>3. SameDecisions
      BY <3>1, <3>2 DEF SameDecisions
    <3>4. Review!Next
      BY <1>c, <2>1, <2>2, <2>4, <3>3, ReviewHears
    <3>5. ReviewCalls'
      BY <1>1c, <1>r, <2>1, <2>4, <3>1, <3>2 DEF ReviewCall, Asked
    <3> QED
      BY <3>4, <3>5
  <2> QED
    BY <1>2, <2>3, <2>4 DEF Receive
<1>3. CASE TimeOut(c)
  <2>1. /\ task[c] = "waiting" /\ task'[c] = "timedout" /\ got' = got /\ entry' = entry
        /\ \A x \in Calls \ {c} : task'[x] = task[x]
    BY <1>3, <1>r DEF TimeOut
  <2>2. ReviewCall(entry'[c], task'[c], got'[c])
    BY <1>e, <2>1 DEF ReviewCall, Asked
  <2> QED
    BY <1>1c, <1>2c, <2>1, <2>2
<1>4. CASE Expire(c)
  <2>1. /\ task[c] = "timedout" /\ task' = [task EXCEPT ![c] = "answered"] /\ got[c] = "none"
        /\ got' = [got EXCEPT ![c] = "deny"] /\ task'[c] = "answered" /\ Moved(c, "failed")
    BY <1>4, <1>r, <1>e DEF Expire, ReviewCall, Asked
  <2>2. SameRan /\ SameApplied
    BY <1>c, <1>r, <2>1, SameViews DEF SameRan
  <2>3. entry'[c] = Transition(entry[c], "failed") /\ \A x \in Calls \ {c} : entry'[x] = entry[x]
    BY <1>r, <2>1 DEF Moved
  <2>4. entry'[c].decision = entry[c].decision /\ ReviewCall(entry'[c], "answered", got[c])
    BY <1>e, <2>3, ReviewTransition DEF Asked
  <2>5. SameDecisions
    BY <2>3, <2>4 DEF SameDecisions
  <2>6. Review!Next
    BY <1>c, <2>1, <2>2, <2>5, ReviewHears
  <2>7. ReviewCalls'
    BY <1>1c, <1>r, <2>1, <2>3, <2>4 DEF ReviewCall, Asked
  <2> QED
    BY <2>6, <2>7
\* A step that moves the entry along, with a task past the answer.
<1>m. ASSUME NEW to \in {"delivered", "acknowledged", "failed"}, Moved(c, to), got' = got, task[c] \notin Asked,
             task'[c] \notin Asked, \A x \in Calls \ {c} : task'[x] = task[x],
             task[c] # "ran", task'[c] = "ran" => got[c] = "approve"
      PROVE  Goal
  <2>1. entry'[c] = Transition(entry[c], to) /\ \A x \in Calls \ {c} : entry'[x] = entry[x]
    BY <1>m, <1>r DEF Moved
  <2>2. /\ entry[c] \in Entry /\ ReviewCall(entry[c], task[c], got[c])
        /\ to \in {"delivered", "acknowledged", "failed", "canceled"} /\ task'[c] \notin Asked
    BY <1>m, <1>e
  <2>3. entry'[c].decision = entry[c].decision /\ ReviewCall(entry'[c], task'[c], got[c])
    <3>1. ASSUME NEW u, u \notin Asked
          PROVE  Transition(entry[c], to).decision = entry[c].decision /\ ReviewCall(Transition(entry[c], to), u, got[c])
      BY <2>2, <3>1, ReviewTransition
    <3> QED
      BY <2>1, <2>2, <3>1
  <2> QED
    BY <1>m, <1>1c, <1>2c, <2>1, <2>3
<1>k. ASSUME entry' = entry, got' = got, task[c] \notin Asked, task'[c] \notin Asked,
             \A x \in Calls \ {c} : task'[x] = task[x],
             task[c] # "ran", task'[c] = "ran" => got[c] = "approve"
      PROVE  Goal
  <2>1. ReviewCall(entry'[c], task'[c], got'[c])
    BY <1>k, <1>e DEF ReviewCall
  <2> QED
    BY <1>k, <1>1c, <1>2c, <2>1
<1>5. CASE DeliverNative(c)
  BY <1>5, <1>m, <1>r DEF DeliverNative, Asked
<1>6. CASE AcknowledgeNative(c)
  BY <1>6, <1>m, <1>r DEF AcknowledgeNative, Asked
<1>7. CASE Execute(c)
  BY <1>7, <1>k, <1>r DEF Execute, Asked
<1>8. CASE DeliverGate(c)
  <2>1. /\ Moved(c, "delivered") /\ got' = got /\ task[c] = "received" /\ task'[c] \in {"ran", "notrun"}
        /\ \A x \in Calls \ {c} : task'[x] = task[x]
        /\ task'[c] = "ran" => got[c] = "approve"
    BY <1>8, <1>r DEF DeliverGate
  <2> QED
    BY <1>m, <2>1 DEF Asked
<1>9. CASE Respond(c)
  <2>1. task[c] = "received" /\ got' = got /\ task'[c] \in {"responded", "notrun"}
        /\ \A x \in Calls \ {c} : task'[x] = task[x]
    BY <1>9, <1>r DEF Respond, BridgeFails
  <2>2. entry' = entry \/ Moved(c, "failed")
    BY <1>9 DEF Respond
  <2> QED
    BY <1>k, <1>m, <2>1, <2>2 DEF Asked
<1>10. CASE DeliverBridge(c)
  <2>1. task[c] = "responded" /\ got' = got /\ task'[c] \in {"responded", "delivered"} /\ Moved(c, "delivered")
        /\ \A x \in Calls \ {c} : task'[x] = task[x]
    BY <1>10, <1>r DEF DeliverBridge, BridgeFails
  <2> QED
    BY <1>m, <2>1 DEF Asked
<1>11. CASE AcknowledgeBridge(c)
  <2>1. /\ task[c] = "delivered" /\ got' = got /\ task'[c] \in {"delivered", "ran", "notrun"}
        /\ \A x \in Calls \ {c} : task'[x] = task[x]
        /\ task'[c] = "ran" => got[c] = "approve"
        /\ Moved(c, "acknowledged") \/ Moved(c, "failed")
    BY <1>11, <1>r DEF AcknowledgeBridge, BridgeFails
  <2> QED
    BY <1>m, <2>1 DEF Asked
<1> QED
  BY <1>1, <1>2, <1>3, <1>4, <1>5, <1>6, <1>7, <1>8, <1>9, <1>10, <1>11 DEF RuntimeStep

\* The handler's steps: an allowance rule may decide, nothing else is seen.
LEMMA HandlerReview ==
  ASSUME ApprovalsInv, ReviewInv, restarts = 0, NEW c \in Calls, HandlerStep(c)
  PROVE  ReviewCalls' /\ [Review!Next]_(Review!vars)
<1> DEFINE Goal == ReviewCalls' /\ [Review!Next]_(Review!vars)
<1>e. \A x \in Calls : entry[x] \in Entry /\ EntryOK(entry[x], task[x], got[x])
                       /\ ReviewCall(entry[x], task[x], got[x])
  BY DEF ApprovalsInv, ApprovalsType, RuntimeOK, EntryInv, ReviewInv, ReviewCalls
<1>r. entry \in [Calls -> Entry]
  BY DEF ApprovalsInv, ApprovalsType, RuntimeOK
<1>c. UNCHANGED <<client, restarts, task, got>> /\ SameRan /\ SameApplied
  <2>1. UNCHANGED <<client, restarts, task, got>>
    BY OthersLeaveCommands DEF HandlerStep, PutRow, AutoResolve, Announce, RelayFailure, ClosePut,
       CancelAnnounce, runtime
  <2> QED
    BY <2>1, SameViews
<1>0. entry' = entry => Goal
  BY <1>c, <1>e, SameViews, ReviewStutters DEF ReviewCalls
<1>1. CASE PutRow(c) \/ Announce(c) \/ RelayFailure(c) \/ ClosePut(c)
  BY <1>0, <1>1 DEF PutRow, Announce, RelayFailure, ClosePut, runtime
<1>2. CASE AutoResolve(c)
  <2>1. CASE entry[c].state = "requested" /\ entry' = [entry EXCEPT ![c] = Decided(@, "approve")]
    <3>1. entry'[c] = Decided(entry[c], "approve") /\ \A x \in Calls \ {c} : entry'[x] = entry[x]
      BY <1>r, <2>1
    <3>2. ReviewCall(entry'[c], task[c], got[c]) /\ entry'[c].decision = "approve"
      BY <1>e, <2>1, <3>1, ReviewDecided
    <3>3. got[c] = "none" /\ entry[c].decision = "none"
      BY <1>e, <2>1 DEF EntryOK, ReviewCall, Asked, Open
    <3>4. Review!Next
      BY <1>c, <3>1, <3>2, <3>3, ReviewDecides
    <3>5. ReviewCalls'
      BY <1>c, <1>e, <3>1, <3>2 DEF ReviewCalls
    <3> QED
      BY <3>4, <3>5
  <2>2. CASE entry' = entry
    BY <1>0, <2>2
  <2> QED
    BY <1>2, <1>e, <2>1, <2>2, ResolveEffect DEF AutoResolve
<1>3. CASE CancelAnnounce(c)
  <2>1. entry'[c] = Transition(entry[c], "failed") /\ \A x \in Calls \ {c} : entry'[x] = entry[x]
    BY <1>3, <1>r DEF CancelAnnounce, Moved
  <2>2. ReviewCall(entry'[c], task[c], got[c]) /\ entry'[c].decision = entry[c].decision
    BY <1>e, <2>1, ReviewTransition
  <2>3. SameDecisions
    BY <2>1, <2>2 DEF SameDecisions
  <2>4. UNCHANGED Review!vars
    BY <1>c, <2>3, ReviewStutters
  <2>5. ReviewCalls'
    BY <1>c, <1>e, <2>1, <2>2 DEF ReviewCalls
  <2> QED
    BY <2>4, <2>5
<1> QED
  BY <1>1, <1>2, <1>3 DEF HandlerStep

\* The commands' steps: the last one tells its client what was heard.
LEMMA ClientReview ==
  ASSUME ApprovalsInv, ReviewInv, restarts = 0, NEW cl \in Clients, ClientStep(cl)
  PROVE  ReviewCalls' /\ [Review!Next]_(Review!vars)
<1> DEFINE Goal == ReviewCalls' /\ [Review!Next]_(Review!vars)
<1>e. \A x \in Calls : entry[x] \in Entry /\ EntryOK(entry[x], task[x], got[x])
                       /\ ReviewCall(entry[x], task[x], got[x])
  BY DEF ApprovalsInv, ApprovalsType, RuntimeOK, EntryInv, ReviewInv, ReviewCalls
<1>r. /\ entry \in [Calls -> Entry] /\ client \in [Clients -> ClientRecord] /\ rules \in Seq(Keys)
      /\ client[cl].pc \in Waits => client[cl].call \in Calls /\ client[cl].decision \in {"approve", "deny"}
  BY DEF ApprovalsInv, ApprovalsType, RuntimeOK, CommandsOK, RulesOK
<1>c. UNCHANGED <<restarts, task, got>> /\ SameRan
  <2>1. UNCHANGED <<restarts, task, got>>
    BY DEF ClientStep, WaitDone, WaitTimeout, WriteDecision, SaveRules, EmitResolved, runtime
  <2> QED
    BY <2>1, SameViews
<1>0. entry' = entry /\ SameApplied => Goal
  BY <1>c, <1>e, SameViews, ReviewStutters DEF ReviewCalls
\* A command that goes on and has not told anybody.
<1>g. ASSUME \A x \in Clients \ {cl} : client'[x] = client[x],
             client[cl].pc # "applied", client'[cl].pc # "applied"
      PROVE  SameApplied
  BY <1>g DEF SameApplied
<1>1. CASE WaitDone(cl)
  <2>1. PICK pc \in {"writing", "failed"} : Goto(cl, pc)
    BY <1>1 DEF WaitDone
  <2>2. client[cl].pc = "waiting" /\ entry' = entry
    BY <1>1 DEF WaitDone, runtime
  <2>3. SameApplied
    BY <1>r, <1>g, <2>1, <2>2, GotoEffect
  <2> QED
    BY <1>0, <2>2, <2>3
<1>2. CASE WaitTimeout(cl)
  <2> DEFINE c == client[cl].call
  <2>1. client[cl].pc = "waiting" /\ c \in Calls /\ Goto(cl, "failed") /\ Moved(c, "failed")
    BY <1>2, <1>r DEF WaitTimeout, Waits
  <2>2. SameApplied
    BY <1>r, <1>g, <2>1, GotoEffect
  <2>3. entry'[c] = Transition(entry[c], "failed") /\ \A x \in Calls \ {c} : entry'[x] = entry[x]
    BY <1>r, <2>1 DEF Moved
  <2> HIDE DEF c
  <2>4. ReviewCall(entry'[c], task[c], got[c]) /\ entry'[c].decision = entry[c].decision
    BY <1>e, <2>1, <2>3, ReviewTransition
  <2>5. SameDecisions
    BY <2>3, <2>4 DEF SameDecisions
  <2>6. UNCHANGED Review!vars
    BY <1>c, <2>2, <2>5, ReviewStutters
  <2>7. ReviewCalls'
    BY <1>c, <1>e, <2>3, <2>4 DEF ReviewCalls
  <2> QED
    BY <2>6, <2>7
<1>3. CASE WriteDecision(cl)
  <2>1. client[cl].pc = "writing" /\ entry' = entry
    BY <1>3 DEF WriteDecision, runtime
  <2>2. CASE Goto(cl, "emitting")
    BY <1>0, <1>r, <1>g, <2>1, <2>2, GotoEffect
  <2>3. CASE client' = [client EXCEPT ![cl].pc = "saving", ![cl].snap = rules]
    <3>1. client'[cl].pc = "saving" /\ \A x \in Clients \ {cl} : client'[x] = client[x]
      BY Zenon, <1>r, <2>3, LoadEffect
    <3> QED
      BY <1>0, <1>g, <2>1, <3>1
  <2> QED
    BY <1>3, <2>2, <2>3 DEF WriteDecision
<1>4. CASE SaveRules(cl)
  <2>1. /\ client[cl].pc = "saving" /\ entry' = entry
        /\ client' = [client EXCEPT ![cl].pc = "emitting", ![cl].thread = FALSE, ![cl].snap = <<>>]
    BY <1>4 DEF SaveRules, runtime
  <2>2. client'[cl].pc = "emitting" /\ \A x \in Clients \ {cl} : client'[x] = client[x]
    BY Zenon, <1>r, <2>1, SavedEffect
  <2> QED
    BY <1>0, <1>g, <2>1, <2>2
<1>5. CASE EmitResolved(cl)
  <2>1. client[cl].pc = "emitting" /\ Goto(cl, "applied") /\ entry' = entry
    BY <1>5 DEF EmitResolved, runtime
  <2>2. /\ client[cl].call \in Calls /\ client[cl].decision \in {"approve", "deny"}
        /\ got[client[cl].call] = client[cl].decision
    BY <1>r, <2>1 DEF ApprovalsInv, ClientInv, ClientOK, Waits, Reached
  <2>3. /\ client'[cl].pc = "applied" /\ client'[cl].call = client[cl].call
        /\ client'[cl].decision = client[cl].decision
        /\ \A x \in Clients \ {cl} : client'[x] = client[x]
    BY <1>r, <2>1, GotoEffect
  <2>4. Review!Next
    BY <1>c, <2>1, <2>2, <2>3, SameViews, ReviewTells
  <2>5. ReviewCalls'
    BY <1>c, <1>e, <2>1 DEF ReviewCalls
  <2> QED
    BY <2>4, <2>5
<1> QED
  BY <1>1, <1>2, <1>3, <1>4, <1>5 DEF ClientStep

\* A command that decides, and one that comes too late.
LEMMA AskReview ==
  ASSUME ApprovalsInv, ReviewInv, restarts = 0, NEW cl \in Clients, NEW c \in Calls,
         NEW d \in {"approve", "deny"}, NEW thread \in BOOLEAN, Ask(cl, c, d, thread)
  PROVE  ReviewCalls' /\ [Review!Next]_(Review!vars)
<1> DEFINE Goal == ReviewCalls' /\ [Review!Next]_(Review!vars)
<1>e. \A x \in Calls : entry[x] \in Entry /\ EntryOK(entry[x], task[x], got[x])
                       /\ ReviewCall(entry[x], task[x], got[x])
  BY DEF ApprovalsInv, ApprovalsType, RuntimeOK, EntryInv, ReviewInv, ReviewCalls
<1>r. entry \in [Calls -> Entry] /\ client \in [Clients -> ClientRecord]
  BY DEF ApprovalsInv, ApprovalsType, RuntimeOK, CommandsOK
<1>c. UNCHANGED <<restarts, task, got>> /\ SameRan
  <2>1. UNCHANGED <<restarts, task, got>>
    BY DEF Ask
  <2> QED
    BY <2>1, SameViews
<1>1. SameApplied
  <2>1. PICK pc \in {"waiting", "conflict", "failed"}, b \in BOOLEAN :
          client' = [client EXCEPT ![cl] = [NewClient EXCEPT !.pc = pc, !.call = c, !.decision = d, !.thread = b]]
    BY Zenon DEF Ask
  <2>2. client'[cl].pc = pc /\ \A x \in Clients \ {cl} : client'[x] = client[x]
    BY <1>r, <2>1, AskedRecord
  <2>3. client[cl].pc = "idle"
    BY DEF Ask
  <2> QED
    BY <2>2, <2>3 DEF SameApplied
<1>2. CASE entry[c].state = "requested" /\ entry' = [entry EXCEPT ![c] = Decided(@, d)]
  <2>1. entry'[c] = Decided(entry[c], d) /\ \A x \in Calls \ {c} : entry'[x] = entry[x]
    BY <1>r, <1>2
  <2>2. ReviewCall(entry'[c], task[c], got[c]) /\ entry'[c].decision = d
    BY <1>e, <1>2, <2>1, ReviewDecided
  <2>3. got[c] = "none" /\ entry[c].decision = "none"
    BY <1>e, <1>2 DEF EntryOK, ReviewCall, Asked, Open
  <2>4. Review!Next
    BY <1>c, <1>1, <2>1, <2>2, <2>3, ReviewDecides
  <2>5. ReviewCalls'
    BY <1>c, <1>e, <2>1, <2>2 DEF ReviewCalls
  <2> QED
    BY <2>4, <2>5
<1>3. CASE entry' = entry
  BY <1>c, <1>e, <1>1, <1>3, SameViews, ReviewStutters DEF ReviewCalls
<1> QED
  BY <1>2, <1>3, <1>e, ResolveEffect DEF Ask

\* The stream goes: what was answered and not acknowledged runs all the same.
LEMMA StopReview ==
  ASSUME ApprovalsInv, ReviewInv, restarts = 0, Stop \/ Drain
  PROVE  ReviewCalls' /\ [Review!Next]_(Review!vars)
<1>e. \A x \in Calls : entry[x] \in Entry /\ ReviewCall(entry[x], task[x], got[x])
  BY DEF ApprovalsInv, ApprovalsType, RuntimeOK, ReviewInv, ReviewCalls
<1>0. RuntimeOK
  BY DEF ApprovalsInv, ApprovalsType
<1>1. UNCHANGED <<client, restarts, got>>
  BY <1>0, LeaveEffect
<1>2. ASSUME NEW x \in Calls
      PROVE  /\ task'[x] \in Asked => task[x] \in Asked
             /\ task'[x] = "ran" => task[x] = "ran" \/ got[x] = "approve"
             /\ task[x] = "ran" => task'[x] = "ran"
  <2>1. task'[x] = CASE task[x] \in Settled \cup {"idle"} -> task[x]
                     [] path[x] = "gate" -> task[x]
                     [] path[x] = "bridge" /\ task[x] \in {"responded", "delivered"} /\ got[x] = "approve" -> "ran"
                     [] OTHER -> "gone"
    BY <1>0, LeaveEffect
  <2> QED
    BY <2>1 DEF Asked, Settled
<1>3. ASSUME NEW x \in Calls
      PROVE  ReviewCall(entry'[x], task'[x], got[x]) /\ entry'[x].decision = entry[x].decision
  <2>1. entry'[x] \in {entry[x], Transition(entry[x], "failed"), Dropped(entry[x])}
    BY <1>0, LeaveEffect
  <2>2. /\ ReviewCall(Transition(entry[x], "failed"), task'[x], got[x])
        /\ Transition(entry[x], "failed").decision = entry[x].decision
    BY <1>e, <1>2, ReviewTransition
  <2>3. ReviewCall(Dropped(entry[x]), task'[x], got[x]) /\ Dropped(entry[x]).decision = entry[x].decision
    BY <1>e, <1>2, ReviewDropped
  <2>4. ReviewCall(entry[x], task'[x], got[x])
    BY <1>e, <1>2 DEF ReviewCall
  <2> QED
    BY <2>1, <2>2, <2>3, <2>4
<1>4. SameDecisions /\ SameApplied
  BY <1>1, <1>3, SameViews DEF SameDecisions
<1>5. Review!Next
  BY <1>1, <1>2, <1>4, ReviewRuns
<1> QED
  BY <1>1, <1>3, <1>5 DEF ReviewCalls

\* The gate's acknowledgement, the end of a drained stream, the cancelled rows
\* and the revocations.
LEMMA QuietReview ==
  ASSUME ApprovalsInv, ReviewInv, restarts = 0,
         \/ AcknowledgeRun \/ Drained \/ CancelRows \/ RevokeSave \/ UNCHANGED vars
         \/ \E keys \in (SUBSET Keys) \ {{}} : RevokeLoad(keys)
  PROVE  ReviewCalls' /\ UNCHANGED Review!vars
<1>e. \A x \in Calls : entry[x] \in Entry /\ ReviewCall(entry[x], task[x], got[x])
  BY DEF ApprovalsInv, ApprovalsType, RuntimeOK, ReviewInv, ReviewCalls
<1>1. UNCHANGED <<client, restarts, task, got>>
  BY DEF AcknowledgeRun, Drained, CancelRows, RevokeSave, RevokeLoad, vars, runtime
<1>2. ASSUME NEW x \in Calls
      PROVE  entry'[x] = entry[x] \/ \E to \in {"acknowledged", "failed"} : entry'[x] = Transition(entry[x], to)
  <2>1. CASE Drained
    BY <2>1, DrainedEffect DEF ApprovalsInv, ApprovalsType
  <2>2. CASE ~Drained
    BY <2>2 DEF AcknowledgeRun, CancelRows, RevokeSave, RevokeLoad, vars, runtime
  <2> QED
    BY <2>1, <2>2
<1>3. ASSUME NEW x \in Calls
      PROVE  ReviewCall(entry'[x], task[x], got[x]) /\ entry'[x].decision = entry[x].decision
  <2>1. ASSUME NEW to \in {"acknowledged", "failed"}, entry'[x] = Transition(entry[x], to)
        PROVE  ReviewCall(entry'[x], task[x], got[x]) /\ entry'[x].decision = entry[x].decision
    BY <1>e, <2>1, ReviewTransition
  <2> QED
    BY <1>e, <1>2, <2>1
<1>4. SameDecisions /\ SameRan /\ SameApplied
  BY <1>1, <1>3, SameViews DEF SameDecisions
<1> QED
  BY <1>1, <1>3, <1>4, ReviewStutters DEF ReviewCalls

\* The process dies: the review exits.
LEMMA RestartReview ==
  ASSUME ApprovalsInv, ReviewInv, restarts = 0, Restart
  PROVE  ReviewInv' /\ Review!Next
<1>1. /\ restarts' = 1 /\ got' = got /\ run' = "finished" /\ drain' = FALSE
      /\ \A c \in Calls : entry'[c] = NoEntry
                          /\ task'[c] = IF task[c] \in Settled THEN task[c] ELSE "gone"
      /\ \A cl \in Clients :
           client'[cl] = IF client[cl].pc \in {"idle", "applied", "conflict", "failed"} THEN client[cl]
                         ELSE [client[cl] EXCEPT !.pc = "lost", !.thread = FALSE, !.snap = <<>>]
  <2>1. 0 + 1 = 1
    OBVIOUS
  <2> QED
    BY <2>1, Zenon DEF Restart
<1>2. NoEntry.state = "none" /\ NoEntry.decision = "none" /\ NoEntry.chan = "closed"
  BY EntryRecords
<1>3. \A c \in Calls : task'[c] \in Settled /\ task'[c] \notin Asked /\ (task'[c] = "ran" <=> task[c] = "ran")
  BY <1>1 DEF Settled, Asked
<1>4. ASSUME NEW cl \in Clients
      PROVE  /\ client'[cl].pc \in Resting
             /\ client'[cl].pc = "applied" <=> client[cl].pc = "applied"
             /\ client[cl].pc = "applied" => client'[cl] = client[cl]
  <2>1. client[cl] \in ClientRecord
    BY DEF ApprovalsInv, ApprovalsType, CommandsOK
  <2>2. CASE client[cl].pc \in {"idle", "applied", "conflict", "failed"}
    BY <1>1, <2>2 DEF Resting
  <2>3. CASE client[cl].pc \notin {"idle", "applied", "conflict", "failed"}
    <3>1. client'[cl].pc = "lost"
      BY Zenon, <1>1, <2>1, <2>3, LostRecord
    <3> QED
      BY <2>3, <3>1 DEF Resting
  <2> QED
    BY <2>2, <2>3
<1>5. ReviewInv'
  BY <1>1, <1>2, <1>3, <1>4 DEF ReviewInv, ReviewCalls, ReviewCall, GoneInv
<1>6. SameRan /\ SameApplied
  BY <1>3, <1>4 DEF SameRan, SameApplied
<1>7. decisions' = [c \in Calls |-> "none"]
  BY <1>1, <1>2 DEF decisions
<1>8. process = "up" /\ process' = "gone"
  <2>1. restarts' = 1
    BY <1>1
  <2> QED
    BY ONLY restarts = 0, <2>1 DEF process
<1>9. Review!Exit
  BY <1>1, <1>6, <1>7, <1>8, SameViews DEF Review!Exit
<1> QED
  BY <1>5, <1>8, <1>9 DEF Review!Next

\* Every step is one of the abstract review, or leaves it as it is.
LEMMA ReviewStep ==
  ASSUME ApprovalsInv, ReviewInv, [Next]_vars
  PROVE  ReviewInv' /\ [Review!Next]_(Review!vars)
<1>0. restarts \in Nat
  BY ApprovalConstants DEF ApprovalsInv, ApprovalsType, ApprovalConstants
<1>1. CASE restarts > 0
  <2>1. /\ UNCHANGED <<entry, task, got, run, drain, restarts>>
        /\ SameApplied /\ \A cl \in Clients : client'[cl].pc \in Resting
    BY <1>1, AfterExit
  <2>2. ReviewInv'
    BY <1>1, <2>1 DEF ReviewInv, ReviewCalls, GoneInv
  <2>3. UNCHANGED Review!vars
    BY <2>1, SameViews, ReviewStutters
  <2> QED
    BY <2>2, <2>3
<1>2. CASE restarts = 0
  <2>1. CASE Restart
    BY <1>2, <2>1, RestartReview
  <2>2. CASE ~Restart
    <3>1. ReviewCalls' /\ [Review!Next]_(Review!vars)
      BY <1>2, <2>2, RuntimeReview, HandlerReview, ClientReview, AskReview, StopReview, QuietReview DEF Next
    <3>2. restarts' = restarts
      <4>1. ASSUME NEW cl \in Clients, ClientStep(cl) PROVE restarts' = restarts
        BY <4>1 DEF ClientStep, WaitDone, WaitTimeout, WriteDecision, SaveRules, EmitResolved
      <4>2. ASSUME NEW cl, NEW c, NEW d, NEW thread, Ask(cl, c, d, thread) PROVE restarts' = restarts
        BY <4>2 DEF Ask
      <4>3. UNCHANGED vars => restarts' = restarts
        BY DEF vars
      <4> QED
        BY <2>2, <4>1, <4>2, <4>3, OthersLeaveCommands DEF Next
    <3> QED
      BY <1>2, <3>1, <3>2 DEF ReviewInv, GoneInv
  <2> QED
    BY <2>1, <2>2
<1> QED
  BY <1>0, <1>1, <1>2

\* It starts as the abstract review starts.
LEMMA ReviewInit == Init => ReviewInv /\ Review!Init
<1> SUFFICES ASSUME Init PROVE ReviewInv /\ Review!Init
  OBVIOUS
<1>1. /\ restarts = 0 /\ \A c \in Calls : entry[c] = NoEntry /\ task[c] = "idle" /\ got[c] = "none"
      /\ \A cl \in Clients : client[cl].pc = "idle"
      /\ got = [c \in Calls |-> "none"]
  BY DEF Init, NewClient
<1>2. NoEntry.state = "none" /\ NoEntry.decision = "none" /\ NoEntry.chan = "closed"
  BY EntryRecords
<1>3. ReviewInv
  BY <1>1, <1>2 DEF ReviewInv, ReviewCalls, ReviewCall, GoneInv
<1>4. decisions = [c \in Calls |-> "none"]
  BY <1>1, <1>2 DEF decisions
<1>5. applied = [cl \in Clients |-> Review!NotTold]
  BY <1>1 DEF applied, Review!NotTold
<1>6. {c \in Calls : Ran(c)} = {} /\ process = "up"
  BY <1>1 DEF Ran, process
<1> QED
  BY <1>1, <1>3, <1>4, <1>5, <1>6 DEF Review!Init

\* The broker, the runtimes, the commands, the rules, the time-outs and the end
\* of the run together decide each call at most once, hand over that decision or
\* a refusal, once, run a call only on a heard approval and report only what was
\* heard: every behaviour of Approvals is one of OneDecision.
THEOREM ApprovalsRefine == Spec => ImplementsOneDecision
<1>1. Init => ReviewInv /\ Review!Init
  BY ReviewInit
<1>2. ApprovalsInv /\ ReviewInv /\ [Next]_vars => ReviewInv' /\ [Review!Next]_(Review!vars)
  BY ReviewStep
<1> QED
  BY <1>1, <1>2, ApprovalsInvariant, PTL DEF Spec, ImplementsOneDecision, Review!Spec
=============================================================================
