----------------------------- MODULE OneDecision -----------------------------
(***************************************************************************)
(* What the review of tool calls promises: a call is decided at most once, *)
(* who waits for it hears that decision or is refused, once, a call runs   *)
(* only if it heard an approval, and a client is told of a decision only   *)
(* after it was heard.  With the process goes what was decided and not yet *)
(* heard; nothing happens to these calls afterwards.  Approvals implements *)
(* it.                                                                     *)
(***************************************************************************)
CONSTANTS Calls, Clients, NoCall

VARIABLES
  decided,  \* the decision on each call, "none" before there is one
  heard,    \* what each call was told
  ran,      \* the calls that run or ran
  told,     \* the decision each client was told is applied
  process   \* "up", or "gone" with its undelivered decisions

vars == <<decided, heard, ran, told, process>>

Answers == {"approve", "deny"}
NotTold == [call |-> NoCall, decision |-> "none"]

Init ==
  /\ decided = [c \in Calls |-> "none"] /\ heard = [c \in Calls |-> "none"]
  /\ ran = {} /\ told = [cl \in Clients |-> NotTold]
  /\ process = "up"

\* Nobody decides for a call that does not wait any more.
Decide(c, d) ==
  /\ decided[c] = "none" /\ heard[c] = "none"
  /\ decided' = [decided EXCEPT ![c] = d]
  /\ UNCHANGED <<heard, ran, told, process>>

Hear(c) ==
  /\ decided[c] # "none" /\ heard[c] = "none"
  /\ heard' = [heard EXCEPT ![c] = decided[c]]
  /\ UNCHANGED <<decided, ran, told, process>>

\* The wait ends, even if a decision has just been made.
Refuse(c) ==
  /\ heard[c] = "none"
  /\ heard' = [heard EXCEPT ![c] = "deny"]
  /\ UNCHANGED <<decided, ran, told, process>>

Run(cs) ==
  /\ \A c \in cs : heard[c] = "approve"
  /\ ran' = ran \cup cs
  /\ UNCHANGED <<decided, heard, told, process>>

Tell(cl, c) ==
  /\ told[cl] = NotTold /\ heard[c] # "none"
  /\ told' = [told EXCEPT ![cl] = [call |-> c, decision |-> heard[c]]]
  /\ UNCHANGED <<decided, heard, ran, process>>

Exit ==
  /\ process' = "gone"
  /\ decided' = [c \in Calls |-> "none"]
  /\ UNCHANGED <<heard, ran, told>>

Next ==
  /\ process = "up"
  /\ \/ \E c \in Calls : Hear(c) \/ Refuse(c) \/ \E d \in Answers : Decide(c, d)
     \/ \E cs \in SUBSET Calls : Run(cs)
     \/ \E cl \in Clients, c \in Calls : Tell(cl, c)
     \/ Exit

Spec == Init /\ [][Next]_vars
=============================================================================
