------------------------------ MODULE Approvals ------------------------------
(***************************************************************************)
(* Tool approvals of one run: the broker that hands a person's decision to *)
(* the waiting runtime, the durable approval rows, the `approval.resolve`  *)
(* command, "Allow for this chat" rules, and the end of the run.           *)
(* Sources: crates/milim-agents/src/lib.rs (ToolApprovalBroker and the     *)
(* approval part of agent_loop), crates/milim-server/src/control/{approvals*)
(* ,agent,harness}.rs, approval_allowances.rs, the account runtime bridges *)
(* and the approval rows of milim-storage/db.rs.                           *)
(*                                                                         *)
(* A call is one tool call under review; its approval id is the call.  A   *)
(* call reaches the broker along one of three paths: "native" (agent_loop),*)
(* "bridge" (the in-stream requests of Codex, OpenCode and Pi) and "gate"  *)
(* (the HTTP handlers that serve Claude and milim's own MCP tools, which   *)
(* run beside the stream).                                                 *)
(***************************************************************************)
EXTENDS Naturals, Sequences, SequencesExt

CONSTANTS Calls,        \* tool calls of one model step
          Clients,      \* `approval.resolve` commands
          Keys,         \* keys of allowance rules
          NoKey, NoCall,
          MaxRules,     \* MAX_ALLOWANCES_PER_THREAD
          MaxRestarts   \* bound on restarts of the process

ASSUME ApprovalConstants ==
  /\ NoKey \notin Keys /\ NoCall \notin Calls
  /\ MaxRules \in Nat \ {0} /\ MaxRestarts \in Nat

VARIABLES
  path,      \* how each call reaches the broker
  keyOf,     \* the rule a call would create and match, NoKey if none
  entry,     \* ToolApprovalBroker.pending
  task,      \* the runtime side of each call
  got,       \* the decision the runtime received
  ctl,       \* the run's event handler, for each call
  row,       \* durable: user_pending_approvals
  shown,     \* durable: the prompt as the last approval item of the timeline has it
  run,       \* the run, and finish_run
  closing,   \* approvals finish_run has cancelled and not yet announced
  drain,     \* a task still reads the stream of the ended run
  client,    \* the resolve commands
  rules,     \* durable: the thread's allowance rules, oldest first
  revoker,   \* a revocation at work: the rules it will save
  restarts,
  granted    \* history: keys some person allowed for the chat

runtime == <<path, keyOf, entry, task, got>>
control == <<ctl, row, shown, run, closing, drain>>
allow   == <<rules, revoker, granted>>
vars    == <<runtime, control, client, allow, restarts>>

-----------------------------------------------------------------------------
States   == {"none", "requested", "decided", "delivered", "acknowledged", "failed", "canceled"}
Decision == {"none", "approve", "deny"}
\* chan is the oneshot channel: its sender held, a value in it, value taken,
\* or closed without one.
Entry    == [state: States, decision: Decision, chan: {"open", "sent", "taken", "closed"}]
NoEntry  == [state |-> "none", decision |-> "none", chan |-> "closed"]
Settled  == {"ran", "notrun", "gone"}
RowStatus == {"none", "pending", "approved", "denied", "cancelled", "failed", "expired", "interrupted"}
ClientRecord ==
  [pc: {"idle", "waiting", "writing", "saving", "emitting",
        "applied", "conflict", "failed", "lost"},
   call: Calls \cup {NoCall}, decision: Decision, thread: BOOLEAN, snap: Seq(Keys)]
NewClient == [pc |-> "idle", call |-> NoCall, decision |-> "none", thread |-> FALSE, snap |-> <<>>]

TypeOK ==
  /\ path \in [Calls -> {"native", "bridge", "gate"}]
  /\ keyOf \in [Calls -> Keys \cup {NoKey}]
  /\ entry \in [Calls -> Entry]
  /\ task \in [Calls -> {"idle", "waiting", "timedout", "received", "responded",
                         "delivered", "answered"} \cup Settled]
  /\ got \in [Calls -> Decision]
  /\ ctl \in [Calls -> {"none", "stored", "auto", "announce", "done", "expire", "fail"}]
  /\ row \in [Calls -> RowStatus]
  /\ shown \in [Calls -> {"none", "open", "closed"}]
  /\ run \in {"running", "failing", "stopped", "closing", "finished"}
  /\ closing \subseteq Calls /\ (closing # {} => run = "closing")
  /\ drain \in BOOLEAN
  /\ client \in [Clients -> ClientRecord]
  /\ rules \in Seq(Keys) /\ Len(rules) <= MaxRules
  /\ revoker \in Seq(Seq(Keys)) /\ Len(revoker) <= 1
  /\ restarts \in 0..MaxRestarts
  /\ granted \subseteq Keys

\* A run is native for all of its calls or an account runtime for all.
Init ==
  /\ path \in [Calls -> {"native"}] \cup [Calls -> {"bridge", "gate"}]
  /\ keyOf \in [Calls -> Keys \cup {NoKey}]
  /\ entry = [c \in Calls |-> NoEntry]
  /\ task = [c \in Calls |-> "idle"]
  /\ got = [c \in Calls |-> "none"]
  /\ ctl = [c \in Calls |-> "none"]
  /\ row = [c \in Calls |-> "none"]
  /\ shown = [c \in Calls |-> "none"]
  /\ run = "running"
  /\ closing = {} /\ drain = FALSE
  /\ client = [cl \in Clients |-> NewClient]
  /\ rules = <<>> /\ revoker = <<>>
  /\ restarts = 0 /\ granted = {}

-----------------------------------------------------------------------------
(* ToolApprovalBroker.                                                     *)

Terminal(s) == s \in {"acknowledged", "failed", "canceled"}

Allowed(from, to) ==
  \/ to = "delivered" /\ from = "decided"
  \/ to = "acknowledged" /\ from = "delivered"
  \/ to \in {"failed", "canceled"} /\ from # "none" /\ ~Terminal(from)

\* `transition`: a failure also drops the sender.
Transition(e, to) ==
  IF Allowed(e.state, to)
  THEN [e EXCEPT !.state = to,
                 !.chan = IF to \in {"failed", "canceled"} /\ @ = "open" THEN "closed" ELSE @]
  ELSE e

Moved(c, to) == entry' = [entry EXCEPT ![c] = Transition(@, to)]

\* Mutant of Resolve: a second decision is taken for a retry of the first.
ResolveAny(e, d) ==
  IF e.state # "requested" THEN "already" ELSE "resolved"

\* The answer of resolve_with_scope.
Resolve(e, d) ==
  CASE e.state = "none" -> "missing"
    [] e.state = "requested" -> "resolved"
    [] e.state \notin {"none", "requested"} /\ e.decision = d -> "already"
    [] e.state \in {"failed", "canceled"} /\ e.decision # d -> "failed"
    [] OTHER -> "conflict"

\* The entry after resolve_with_scope.
Decided(e, d) ==
  IF e.state = "requested" THEN [state |-> "decided", decision |-> d, chan |-> "sent"] ELSE e

\* Drop of a PendingApproval.
Dropped(e) ==
  CASE e.state = "requested" -> Transition(e, "canceled")
    [] e.state = "decided" -> Transition(e, "failed")
    [] OTHER -> e

-----------------------------------------------------------------------------
(* The runtime side of a call.                                             *)

\* The stream of a bridge handles one request at a time.
BridgeIdle == \A c \in Calls : path[c] = "bridge" => task[c] \in {"idle"} \cup Settled

Request(c) ==
  /\ run = "running"
  /\ task[c] = "idle"
  /\ path[c] = "bridge" => BridgeIdle
  /\ entry' = [entry EXCEPT ![c] = [state |-> "requested", decision |-> "none", chan |-> "open"]]
  /\ task' = [task EXCEPT ![c] = "waiting"]
  /\ UNCHANGED <<path, keyOf, got, control, client, allow, restarts>>

\* agent_loop announces every call of the step before it waits; a stream goes
\* on only when the run's handler has dealt with what it yielded.
Polled(c) ==
  CASE path[c] = "native" -> run = "running" /\ \A d \in Calls : task[d] # "idle" /\ ctl[d] = "done"
    [] path[c] = "bridge" -> run = "running" /\ ctl[c] = "done"
    [] OTHER -> TRUE

\* PendingApproval::wait; a dropped sender reads as a denial.
Receive(c) ==
  /\ task[c] = "waiting"
  /\ Polled(c)
  /\ \/ /\ entry[c].chan = "sent"
        /\ got' = [got EXCEPT ![c] = entry[c].decision]
        /\ entry' = [entry EXCEPT ![c].chan = "taken"]
     \/ /\ entry[c].chan = "closed"
        /\ got' = [got EXCEPT ![c] = "deny"]
        /\ Moved(c, "failed")
  /\ task' = [task EXCEPT ![c] = "received"]
  /\ UNCHANGED <<path, keyOf, control, client, allow, restarts>>

\* approval_timeout of agent_loop: the wait is given up with nothing received.
TimeOut(c) ==
  /\ path[c] = "native" /\ task[c] = "waiting"
  /\ Polled(c)
  /\ entry[c].chan = "open"
  /\ task' = [task EXCEPT ![c] = "timedout"]
  /\ UNCHANGED <<path, keyOf, entry, got, control, client, allow, restarts>>

\* ... and failed in the broker; the run's handler reads the row and finds it
\* pending.
Expire(c) ==
  /\ task[c] = "timedout" /\ Polled(c)
  /\ Moved(c, "failed")
  /\ got' = [got EXCEPT ![c] = "deny"]
  /\ task' = [task EXCEPT ![c] = "answered"]
  /\ ctl' = [ctl EXCEPT ![c] = IF row[c] = "pending" THEN "expire" ELSE "done"]
  /\ UNCHANGED <<path, keyOf, row, shown, run, closing, drain, client, allow, restarts>>

\* agent_loop ignores whether the delivery was still possible.
DeliverNative(c) ==
  /\ path[c] = "native" /\ task[c] = "received" /\ run = "running"
  /\ Moved(c, "delivered")
  /\ task' = [task EXCEPT ![c] = "delivered"]
  /\ UNCHANGED <<path, keyOf, got, control, client, allow, restarts>>

AcknowledgeNative(c) ==
  /\ path[c] = "native" /\ task[c] = "delivered" /\ run = "running"
  /\ Moved(c, "acknowledged")
  /\ task' = [task EXCEPT ![c] = "answered"]
  /\ UNCHANGED <<path, keyOf, got, control, client, allow, restarts>>

\* The step's calls run once all are answered; one the budget stops is skipped.
Execute(c) ==
  /\ path[c] = "native" /\ task[c] = "answered" /\ run = "running"
  /\ \A d \in Calls : task[d] \in {"answered"} \cup Settled /\ ctl[d] = "done"
  /\ \/ got[c] = "approve" /\ task' = [task EXCEPT ![c] = "ran"]
     \/ task' = [task EXCEPT ![c] = "notrun"]
  /\ UNCHANGED <<path, keyOf, entry, got, control, client, allow, restarts>>

\* Mutant of DeliverGate: a delivered decision counts as an approval.
DeliverGateAny(c) ==
  /\ path[c] = "gate" /\ task[c] = "received"
  /\ Moved(c, "delivered")
  /\ task' = [task EXCEPT ![c] =
       IF entry'[c].state \in {"delivered", "acknowledged"} THEN "ran" ELSE "notrun"]
  /\ UNCHANGED <<path, keyOf, got, control, client, allow, restarts>>

\* A gate runs the call only on a delivered approval.
DeliverGate(c) ==
  /\ path[c] = "gate" /\ task[c] = "received"
  /\ Moved(c, "delivered")
  /\ task' = [task EXCEPT ![c] =
       IF got[c] = "approve" /\ entry'[c].state \in {"delivered", "acknowledged"}
       THEN "ran" ELSE "notrun"]
  /\ UNCHANGED <<path, keyOf, got, control, client, allow, restarts>>

\* acknowledge_run: the stream's next event confirms the gate's deliveries.
AcknowledgeRun ==
  /\ run = "running" \/ drain
  /\ \E c \in Calls : path[c] = "gate" /\ entry[c].state = "delivered"
  /\ entry' = [c \in Calls |->
       IF path[c] = "gate" THEN Transition(entry[c], "acknowledged") ELSE entry[c]]
  /\ UNCHANGED <<path, keyOf, task, got, control, client, allow, restarts>>

\* A bridge ends its stream with an error after it reported a failed approval;
\* the handler of that event reads the row before it writes it.
BridgeFails(c) ==
  /\ task' = [task EXCEPT ![c] = IF @ = "received" THEN "notrun" ELSE @]
  /\ run' = "failing"
  /\ ctl' = [ctl EXCEPT ![c] = IF row[c] = "pending" THEN "fail" ELSE "done"]
  /\ UNCHANGED <<path, keyOf, got, row, shown, closing, drain, client, allow, restarts>>

\* A bridge answers its process first: an approved call runs from here on.
Respond(c) ==
  /\ path[c] = "bridge" /\ task[c] = "received" /\ run = "running"
  /\ \/ /\ task' = [task EXCEPT ![c] = "responded"]
        /\ UNCHANGED <<path, keyOf, entry, got, control, client, allow, restarts>>
     \/ Moved(c, "failed") /\ BridgeFails(c)

DeliverBridge(c) ==
  /\ path[c] = "bridge" /\ task[c] = "responded" /\ run = "running"
  /\ Moved(c, "delivered")
  /\ \/ /\ entry'[c].state = "delivered"
        /\ task' = [task EXCEPT ![c] = "delivered"]
        /\ UNCHANGED <<path, keyOf, got, control, client, allow, restarts>>
     \/ entry'[c].state # "delivered" /\ BridgeFails(c)

\* approval_ack: the process's next message, or its silence.
AcknowledgeBridge(c) ==
  /\ path[c] = "bridge" /\ task[c] = "delivered" /\ run = "running"
  /\ \/ /\ Moved(c, "acknowledged")
        /\ task' = [task EXCEPT ![c] = IF got[c] = "approve" THEN "ran" ELSE "notrun"]
        /\ UNCHANGED <<path, keyOf, got, control, client, allow, restarts>>
     \/ Moved(c, "failed") /\ BridgeFails(c)

-----------------------------------------------------------------------------
(* The run's event handler, run_agent or run_harness.                      *)

PutRow(c) ==
  /\ run = "running"
  /\ task[c] # "idle" /\ ctl[c] = "none"
  /\ row' = [row EXCEPT ![c] = "pending"]
  /\ ctl' = [ctl EXCEPT ![c] = "stored"]
  /\ UNCHANGED <<runtime, shown, run, closing, drain, client, allow, restarts>>

\* Mutant of AutoResolve: a request that could have a rule counts as allowed.
AutoResolveAny(c) ==
  /\ ctl[c] = "stored"
  /\ IF keyOf[c] # NoKey /\ Resolve(entry[c], "approve") = "resolved"
     THEN /\ entry' = [entry EXCEPT ![c] = Decided(@, "approve")]
          /\ ctl' = [ctl EXCEPT ![c] = "auto"]
     ELSE /\ ctl' = [ctl EXCEPT ![c] = "announce"]
          /\ UNCHANGED entry
  /\ UNCHANGED <<path, keyOf, task, got, row, shown, run, closing, drain, client, allow, restarts>>

AutoResolve(c) ==
  /\ ctl[c] = "stored"
  /\ IF Contains(rules, keyOf[c]) /\ Resolve(entry[c], "approve") = "resolved"
     THEN /\ entry' = [entry EXCEPT ![c] = Decided(@, "approve")]
          /\ ctl' = [ctl EXCEPT ![c] = "auto"]
     ELSE /\ ctl' = [ctl EXCEPT ![c] = "announce"]
          /\ UNCHANGED entry
  /\ UNCHANGED <<path, keyOf, task, got, row, shown, run, closing, drain, client, allow, restarts>>

\* The row a rule answered, and the timeline item of the request.
Announce(c) ==
  /\ ctl[c] \in {"auto", "announce"}
  /\ row' = [row EXCEPT ![c] = IF ctl[c] = "auto" THEN "approved" ELSE @]
  /\ shown' = [shown EXCEPT ![c] = "open"]
  /\ ctl' = [ctl EXCEPT ![c] = "done"]
  /\ UNCHANGED <<runtime, run, closing, drain, client, allow, restarts>>

\* A gate's failed entry reaches the handler as a notice.
RelayFailure(c) ==
  /\ path[c] = "gate" /\ run = "running"
  /\ ctl[c] = "done" /\ row[c] = "pending"
  /\ entry[c].state \in {"failed", "canceled"}
  /\ ctl' = [ctl EXCEPT ![c] = "fail"]
  /\ UNCHANGED <<runtime, row, shown, run, closing, drain, client, allow, restarts>>

\* The row was pending when it was read; it is written whatever it is now.
ClosePut(c) ==
  /\ ctl[c] \in {"expire", "fail"}
  /\ row' = [row EXCEPT ![c] = IF ctl[c] = "expire" THEN "expired" ELSE "failed"]
  /\ shown' = [shown EXCEPT ![c] = "closed"]
  /\ ctl' = [ctl EXCEPT ![c] = "done"]
  /\ UNCHANGED <<runtime, run, closing, drain, client, allow, restarts>>

\* Drop of the stream's lease: fail_run, unless it knows no run (Claude without
\* milim's tools).
LeaseDropped(e) ==
  {[c \in Calls |-> IF path[c] = "gate" THEN Transition(e[c], "failed") ELSE e[c]], e}

\* The handler leaves its loop; native and bridge calls drop their
\* PendingApproval, those of the gate run on.
Leave(entries) ==
  /\ run \in {"running", "failing"}
  /\ \A c \in Calls : ctl[c] \in {"none", "done"}
  /\ entry' \in entries
  /\ task' = [c \in Calls |->
       CASE task[c] \in Settled \cup {"idle"} -> task[c]
         [] path[c] = "gate" -> task[c]
         [] path[c] = "bridge" /\ task[c] \in {"responded", "delivered"} /\ got[c] = "approve" -> "ran"
         [] OTHER -> "gone"]
  /\ run' = "stopped"
  /\ UNCHANGED <<path, keyOf, got, ctl, row, shown, closing, client, allow, restarts>>

Left == [c \in Calls |-> IF path[c] = "gate" THEN entry[c] ELSE Dropped(entry[c])]

\* A stop, an error or the stream's own end drops the stream.
Stop == Leave(LeaseDropped(Left)) /\ drain' = FALSE

\* At a terminal event of an account runtime another task takes the stream, to
\* its end or for a while; a bridge sends none while it handles a request.
Drain ==
  /\ \A c \in Calls : path[c] # "native"
  /\ run = "running" => BridgeIdle
  /\ Leave({Left}) /\ drain' = TRUE

Drained ==
  /\ drain /\ drain' = FALSE
  /\ entry' \in LeaseDropped(entry)
  /\ UNCHANGED <<path, keyOf, task, got, ctl, row, shown, run, closing, client, allow, restarts>>

Pending == {c \in Calls : row[c] = "pending"}

\* Mutant of CancelRows: only approvals nobody has decided are closed.
CancelUndecidedRows ==
  /\ run = "stopped"
  /\ closing' = {c \in Pending : entry[c].decision = "none"}
  /\ row' = [c \in Calls |-> IF c \in closing' THEN "cancelled" ELSE row[c]]
  /\ run' = IF closing' = {} THEN "finished" ELSE "closing"
  /\ UNCHANGED <<runtime, ctl, shown, drain, client, allow, restarts>>

\* control_cancel_run_approvals, one transaction.
CancelRows ==
  /\ run = "stopped"
  /\ closing' = Pending
  /\ row' = [c \in Calls |-> IF c \in Pending THEN "cancelled" ELSE row[c]]
  /\ run' = IF Pending = {} THEN "finished" ELSE "closing"
  /\ UNCHANGED <<runtime, ctl, shown, drain, client, allow, restarts>>

\* cancel_run_approvals: the broker fails the request, which a drained gate may
\* still wait for, and the prompt closes.
CancelAnnounce(c) ==
  /\ c \in closing
  /\ Moved(c, "failed")
  /\ shown' = [shown EXCEPT ![c] = "closed"]
  /\ closing' = closing \ {c}
  /\ run' = IF closing' = {} THEN "finished" ELSE run
  /\ UNCHANGED <<path, keyOf, task, got, ctl, row, drain, client, allow, restarts>>

-----------------------------------------------------------------------------
(* approval.resolve: no lock of the thread is held.                        *)

\* "Allow for this chat" of a request that has no rule is an error.
Ask(cl, c, d, thread) ==
  /\ client[cl].pc = "idle"
  /\ row[c] # "none"
  /\ thread => d = "approve"
  /\ LET answer == IF thread /\ keyOf[c] = NoKey THEN "failed" ELSE Resolve(entry[c], d)
         pc == CASE answer \in {"resolved", "already"} -> "waiting"
                 [] answer = "conflict" -> "conflict"
                 [] OTHER -> "failed"
     IN /\ client' = [client EXCEPT ![cl] =
              [NewClient EXCEPT !.pc = pc, !.call = c, !.decision = d,
                              !.thread = thread /\ pc = "waiting"]]
        /\ entry' = IF answer = "resolved" THEN [entry EXCEPT ![c] = Decided(@, d)] ELSE entry
  /\ UNCHANGED <<path, keyOf, task, got, control, allow, restarts>>

\* Where a command goes on; the scope matters up to the rule.
Goto(cl, pc) ==
  client' = [client EXCEPT ![cl].pc = pc, ![cl].thread = @ /\ pc = "writing"]

\* wait_for_delivery sees the latest state only.
WaitDone(cl) ==
  /\ client[cl].pc = "waiting"
  /\ LET s == entry[client[cl].call].state
     IN \/ s \in {"delivered", "acknowledged"} /\ Goto(cl, "writing")
        \/ s \in {"failed", "canceled"} /\ Goto(cl, "failed")
  /\ UNCHANGED <<runtime, control, allow, restarts>>

\* Its deadline fails the approval, also one delivered at that moment.
WaitTimeout(cl) ==
  /\ client[cl].pc = "waiting"
  /\ entry[client[cl].call].state \in {"decided", "delivered"}
  /\ Moved(client[cl].call, "failed")
  /\ Goto(cl, "failed")
  /\ UNCHANGED <<path, keyOf, task, got, control, allow, restarts>>

\* The row read before the wait is written back with the decision; `record`
\* loads the rules, and has nothing to do when the rule is there already.
WriteDecision(cl) ==
  /\ client[cl].pc = "writing"
  /\ row' = [row EXCEPT ![client[cl].call] =
               IF client[cl].decision = "approve" THEN "approved" ELSE "denied"]
  /\ IF client[cl].thread /\ ~Contains(rules, keyOf[client[cl].call])
     THEN client' = [client EXCEPT ![cl].pc = "saving", ![cl].snap = rules]
     ELSE Goto(cl, "emitting")
  /\ UNCHANGED <<runtime, ctl, shown, run, closing, drain, allow, restarts>>

\* At the cap the oldest rule makes room.
Recorded(rs, k) ==
  LET all == Append(rs, k) IN IF Len(all) > MaxRules THEN Tail(all) ELSE all

\* `record` saves what it loaded plus the new rule.
SaveRules(cl) ==
  /\ client[cl].pc = "saving"
  /\ LET k == keyOf[client[cl].call]
     IN /\ rules' = Recorded(client[cl].snap, k)
        /\ granted' = granted \cup {k}
  /\ client' = [client EXCEPT ![cl].pc = "emitting", ![cl].thread = FALSE, ![cl].snap = <<>>]
  /\ UNCHANGED <<runtime, control, revoker, restarts>>

EmitResolved(cl) ==
  /\ client[cl].pc = "emitting"
  /\ shown' = [shown EXCEPT ![client[cl].call] = "closed"]
  /\ Goto(cl, "applied")
  /\ UNCHANGED <<runtime, ctl, row, run, closing, drain, allow, restarts>>

-----------------------------------------------------------------------------
(* Revocation (the DELETE route, or a change of the thread's folder).      *)

\* `retain`: what is left of the rules rs without those in keys, in their order.
Retained(kept, rs, keys) ==
  /\ \A k \in Keys : Contains(kept, k) <=> Contains(rs, k) /\ k \notin keys
  /\ \A i, j \in 1..Len(kept) : i < j =>
       \E m, n \in 1..Len(rs) : m < n /\ rs[m] = kept[i] /\ rs[n] = kept[j]

\* It names some of the rules, or all.  One that comes when the handler is
\* done is of no consequence for this run's calls and left out.
RevokeLoad(keys) ==
  /\ revoker = <<>> /\ run \in {"running", "failing"}
  /\ \E kept \in SeqOf(Keys, MaxRules) : Retained(kept, rules, keys) /\ revoker' = <<kept>>
  /\ UNCHANGED <<runtime, control, client, rules, granted, restarts>>

RevokeSave ==
  /\ revoker # <<>>
  /\ rules' = revoker[1]
  /\ revoker' = <<>>
  /\ UNCHANGED <<runtime, control, client, granted, restarts>>

-----------------------------------------------------------------------------
\* The process dies and starts again: the broker is empty, startup marks the
\* pending rows interrupted in the store and in the timeline.
Restart ==
  /\ restarts < MaxRestarts /\ run = "running"
  /\ restarts' = restarts + 1
  /\ entry' = [c \in Calls |-> NoEntry]
  /\ task' = [c \in Calls |-> IF task[c] \in Settled THEN task[c] ELSE "gone"]
  /\ ctl' = [c \in Calls |-> "done"]
  /\ row' = [c \in Calls |-> IF c \in Pending THEN "interrupted" ELSE row[c]]
  /\ shown' = [c \in Calls |-> IF c \in Pending THEN "closed" ELSE shown[c]]
  /\ run' = "finished" /\ closing' = {} /\ drain' = FALSE
  /\ client' = [cl \in Clients |->
       IF client[cl].pc \in {"idle", "applied", "conflict", "failed"} THEN client[cl]
       ELSE [client[cl] EXCEPT !.pc = "lost", !.thread = FALSE, !.snap = <<>>]]
  /\ revoker' = <<>>
  /\ UNCHANGED <<path, keyOf, got, rules, granted>>

-----------------------------------------------------------------------------
RuntimeStep(c) ==
  \/ Request(c) \/ Receive(c) \/ TimeOut(c) \/ Expire(c)
  \/ DeliverNative(c) \/ AcknowledgeNative(c) \/ Execute(c)
  \/ DeliverGate(c)
  \/ Respond(c) \/ DeliverBridge(c) \/ AcknowledgeBridge(c)

HandlerStep(c) ==
  \/ PutRow(c) \/ AutoResolve(c) \/ Announce(c)
  \/ RelayFailure(c) \/ ClosePut(c) \/ CancelAnnounce(c)

ClientStep(cl) ==
  \/ WaitDone(cl) \/ WaitTimeout(cl) \/ WriteDecision(cl)
  \/ SaveRules(cl) \/ EmitResolved(cl)

Next ==
  \/ \E c \in Calls : RuntimeStep(c) \/ HandlerStep(c)
  \/ AcknowledgeRun \/ Stop \/ Drain \/ Drained \/ CancelRows
  \/ \E cl \in Clients : ClientStep(cl)
  \/ \E cl \in Clients, c \in Calls, d \in {"approve", "deny"}, thread \in BOOLEAN :
       Ask(cl, c, d, thread)
  \/ \E keys \in (SUBSET Keys) \ {{}} : RevokeLoad(keys)
  \/ RevokeSave \/ Restart

Spec == Init /\ [][Next]_vars

-----------------------------------------------------------------------------
(* Properties.                                                             *)

Ran(c) == task[c] = "ran"

\* resolve_approval reports success only for the decision the runtime received:
\* whatever two clients answer at once, with whatever timeouts, none is told
\* its decision was applied when the runtime got the other one or none.
AppliedMeansReceived ==
  \A cl \in Clients : client[cl].pc = "applied" => got[client[cl].call] = client[cl].decision

\* A call under review runs only on a person's approval of it, or of its rule; an
\* approval that came after another answer was taken counts for nothing.
RanIsAuthorised ==
  \A c \in Calls : Ran(c) =>
    \/ \E cl \in Clients :
         client[cl].call = c /\ client[cl].decision = "approve" /\ client[cl].pc # "conflict"
    \/ keyOf[c] \in granted

\* cancel_run_approvals and startup: a finished run leaves no approval pending
\* and, unless the process died, no cancelled one open on a client's screen nor
\* open to an answer that a process still being drained would act on; a late
\* resolve may still close it another way.
NothingOpenAfterRun ==
  run = "finished" =>
    \A c \in Calls :
      /\ row[c] # "pending"
      /\ row[c] = "cancelled" => entry[c].state \notin {"requested", "decided"}
      /\ restarts = 0 /\ row[c] = "cancelled" => shown[c] # "open"

-----------------------------------------------------------------------------
(* The abstract review.                                                    *)

decisions == [c \in Calls |-> entry[c].decision]
applied ==
  [cl \in Clients |->
     IF client[cl].pc = "applied" THEN [call |-> client[cl].call, decision |-> client[cl].decision]
     ELSE [call |-> NoCall, decision |-> "none"]]
process == IF restarts = 0 THEN "up" ELSE "gone"

Review == INSTANCE OneDecision WITH
  decided <- decisions, heard <- got, ran <- {c \in Calls : Ran(c)}, told <- applied

\* A decision crosses five asynchronous parts (broker, command, runtime, rules,
\* timeouts) as if it were made once and heard once: no order of their steps
\* changes it, delivers it twice, runs a refused call or reports one not heard.
ImplementsOneDecision == Review!Spec
=============================================================================
