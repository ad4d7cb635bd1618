------------------------------ MODULE OneReceipt ------------------------------
(***************************************************************************)
(* What the command intake promises its clients: a command and its receipt *)
(* are one step, taken once, and every request of the command is told what *)
(* that step came to.  Only a command that was torn, its request or the    *)
(* process gone between the two, may be applied again and change its       *)
(* outcome, and that only until somebody was told.  After a restore        *)
(* nothing is done before the process starts again.  CommandIntake         *)
(* implements it.                                                          *)
(***************************************************************************)
EXTENDS Naturals

CONSTANTS Commands, Requests, NoCommand

VARIABLES
  outcome,  \* what each command came to, "none" before
  times,    \* how often each command took effect
  told,     \* what each request was told
  torn,     \* the commands whose effect may lack its receipt
  mode      \* "restored": the data are a backup's, until the process restarts

vars == <<outcome, times, told, torn, mode>>

Result == {"ok", "failed"}
Untold == [command |-> NoCommand, result |-> "none"]

Init ==
  /\ outcome = [c \in Commands |-> "none"] /\ times = [c \in Commands |-> 0]
  /\ told = [q \in Requests |-> Untold]
  /\ torn = {} /\ mode = "serving"

\* Of a torn command a retry may find the outcome only after its own effect.
Do(c, r) ==
  /\ mode = "serving"
  /\ c \in torn \/ (outcome[c] = "none" /\ times[c] = 0)
  /\ outcome' = [outcome EXCEPT ![c] = IF @ = "none" THEN r ELSE @]
  /\ times' = [times EXCEPT ![c] = IF r = "ok" THEN @ + 1 ELSE @]
  /\ UNCHANGED <<told, torn, mode>>

Tell(q, c) ==
  /\ told[q] = Untold /\ outcome[c] # "none"
  /\ told' = [told EXCEPT ![q] = [command |-> c, result |-> outcome[c]]]
  /\ UNCHANGED <<outcome, times, torn, mode>>

\* Torn commands lose their outcome, or get it late, unless it is known.
Tear(cs) ==
  /\ torn' = torn \cup cs
  /\ outcome' \in [Commands -> Result \cup {"none"}]
  /\ \A c \in Commands : outcome'[c] # outcome[c] =>
       c \in torn' /\ \A q \in Requests : told[q].command # c
  /\ UNCHANGED <<times, told>>

Restore ==
  /\ outcome' = [c \in Commands |-> "none"] /\ times' = [c \in Commands |-> 0]
  /\ told' = [q \in Requests |-> Untold]
  /\ mode' = "restored"
  /\ UNCHANGED torn

Next ==
  \/ \E c \in Commands, r \in Result : Do(c, r)
  \/ \E q \in Requests, c \in Commands : Tell(q, c)
  \/ \E cs \in SUBSET Commands : Tear(cs) /\ mode' \in {mode, "serving"}
  \/ Restore

Spec == Init /\ [][Next]_vars
=============================================================================
