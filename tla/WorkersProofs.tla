---------------------------- MODULE WorkersProofs ----------------------------
(***************************************************************************)
(* Delegated Workers, for any sets of runs, Workers and callers and any    *)
(* limits: the limit on active Workers holds, every Worker that has not    *)
(* ended has a task, or a handle a panic left, or someone who is about to  *)
(* end it, unless the store failed, and an ended Worker stays so.          *)
(*                                                                         *)
(* None of them is inductive.  WorkersInv adds that a status about to be   *)
(* written is one a refresh computed, that the handles are finitely many   *)
(* (what the limit counts), that no task both has a handle and is being    *)
(* aborted, so that an abort never takes a running Worker's task away from *)
(* someone who still counts on it, that a task which panicked is gone, and *)
(* that a row stays queued only where a write of it failed.                *)
(***************************************************************************)
EXTENDS Workers, FiniteSetTheorems, TLAPS

-----------------------------------------------------------------------------
(* Type correctness, by groups of variables.                               *)

\* A refresh computes a status a run can have.
LEMMA ComputedStatus == ASSUME NEW r PROVE Computed(r) \in Statuses
  BY DEF Computed, Statuses, Active, Ended

\* update_status writes a final status, or nothing.
LEMMA WrittenRows ==
  ASSUME row \in [Workers -> Ended \cup Open \cup {"none", "deleted"}], NEW w, NEW s \in Ended
  PROVE  UpdateRow(w, s) \in [Workers -> Ended \cup Open \cup {"none", "deleted"}]
  BY DEF UpdateRow, Open, Ended

\* TypeOK by groups of variables, with what has to be known besides.
StoreOK ==
  /\ run \in [Runs -> Statuses \cup {"none", "deleted"}]
  /\ row \in [Workers -> Ended \cup Open \cup {"none", "deleted"}]
  /\ of \in [Workers -> Runs \cup {None}]

TasksOK ==
  /\ task \in [Workers -> {"none", "stream", "read", "write", "leave", "gone"}]
  /\ val \in [Workers -> Statuses \cup {None}]
  /\ \A w \in Workers : task[w] = "write" => val[w] \in Statuses
  /\ handles \subseteq Workers /\ IsFiniteSet(handles) /\ Cardinality(handles) <= MaxActive
  /\ aborted \subseteq Workers

\* What a caller may hold: past a refresh's read the status it will write, between
\* a stop's two steps the Worker.
Caller == {x \in CallerRecord : (x.pc = "write" => x.val \in Statuses) /\ (x.pc = "row" => x.at \in Workers)}

CallersOK == caller \in [Callers -> Caller]

RestOK ==
  /\ deadline \in [Runs -> {"none", "armed", "passed"}]
  /\ server \in {"up", "rows", "runs", "down"}
  /\ ops \in 0..MaxOps /\ restarts \in 0..MaxRestarts

FaultsOK == panicked \subseteq Workers /\ unwritten \subseteq Workers

TypeParts == StoreOK /\ TasksOK /\ CallersOK /\ RestOK /\ FaultsOK

\* The moves of a caller.
LEMMA CallerMoves ==
  /\ Idle \in Caller
  /\ \A op \in {"start", "wait", "delete"}, pc \in {"mark", "read", "rows"}, r \in Runs, n \in Nat :
       [Idle EXCEPT !.op = op, !.pc = pc, !.run = r, !.left = n] \in Caller
  /\ \A ws \in SUBSET Workers : [Idle EXCEPT !.op = "tree", !.pc = "mark", !.list = ws] \in Caller
  /\ \A x \in Caller :
       /\ \A pc \in {"spawn", "next", "read", "wait", "rows"} : [x EXCEPT !.pc = pc] \in Caller
       /\ x.pc = "spawn" /\ x.left > 0 => [x EXCEPT !.left = x.left - 1] \in Caller
       /\ [x EXCEPT !.op = "wait", !.pc = "read"] \in Caller
       /\ [x EXCEPT !.op = "one", !.pc = "read"] \in Caller
       /\ \A pc \in {"read", "next"} : [x EXCEPT !.at = None, !.pc = pc] \in Caller
       /\ \A s \in Statuses : [x EXCEPT !.pc = "write", !.val = s] \in Caller
       /\ \A pc \in {"wait", "next"} : [x EXCEPT !.pc = pc, !.val = None] \in Caller
       /\ \A w \in Workers : [x EXCEPT !.pc = "row", !.list = x.list \ {w}, !.at = w] \in Caller
<1>1. Idle \in Caller
  BY DEF Idle, CallerRecord, Caller
<1>2. ASSUME NEW op \in {"start", "wait", "delete"}, NEW pc \in {"mark", "read", "rows"}, NEW r \in Runs,
             NEW n \in Nat
      PROVE  [Idle EXCEPT !.op = op, !.pc = pc, !.run = r, !.left = n] \in Caller
  BY DEF Idle, CallerRecord, Caller
<1>3. ASSUME NEW ws \in SUBSET Workers
      PROVE  [Idle EXCEPT !.op = "tree", !.pc = "mark", !.list = ws] \in Caller
  BY DEF Idle, CallerRecord, Caller
<1>4. ASSUME NEW x \in Caller
      PROVE  /\ \A pc \in {"spawn", "next", "read", "wait", "rows"} : [x EXCEPT !.pc = pc] \in Caller
             /\ x.pc = "spawn" /\ x.left > 0 => [x EXCEPT !.left = x.left - 1] \in Caller
             /\ [x EXCEPT !.op = "wait", !.pc = "read"] \in Caller
             /\ [x EXCEPT !.op = "one", !.pc = "read"] \in Caller
             /\ \A pc \in {"read", "next"} : [x EXCEPT !.at = None, !.pc = pc] \in Caller
             /\ \A s \in Statuses : [x EXCEPT !.pc = "write", !.val = s] \in Caller
             /\ \A pc \in {"wait", "next"} : [x EXCEPT !.pc = pc, !.val = None] \in Caller
             /\ \A w \in Workers : [x EXCEPT !.pc = "row", !.list = x.list \ {w}, !.at = w] \in Caller
  <2>1. \A pc \in {"spawn", "next", "read", "wait", "rows"} : [x EXCEPT !.pc = pc] \in Caller
    BY DEF CallerRecord, Caller
  <2>2. x.pc = "spawn" /\ x.left > 0 => [x EXCEPT !.left = x.left - 1] \in Caller
    <3>1. x.left > 0 => x.left - 1 \in Nat
      BY DEF CallerRecord, Caller
    <3> QED
      BY <3>1 DEF CallerRecord, Caller
  <2>3. [x EXCEPT !.op = "wait", !.pc = "read"] \in Caller /\ [x EXCEPT !.op = "one", !.pc = "read"] \in Caller
    BY DEF CallerRecord, Caller
  <2>4. \A pc \in {"read", "next"} : [x EXCEPT !.at = None, !.pc = pc] \in Caller
    BY DEF CallerRecord, Caller
  <2>5. \A s \in Statuses : [x EXCEPT !.pc = "write", !.val = s] \in Caller
    BY DEF CallerRecord, Caller
  <2>6. \A pc \in {"wait", "next"} : [x EXCEPT !.pc = pc, !.val = None] \in Caller
    BY DEF CallerRecord, Caller
  <2>7. \A w \in Workers : [x EXCEPT !.pc = "row", !.list = x.list \ {w}, !.at = w] \in Caller
    BY Zenon DEF CallerRecord, Caller
  <2> QED
    BY <2>1, <2>2, <2>3, <2>4, <2>5, <2>6, <2>7, Zenon
<1> QED
  BY <1>1, <1>2, <1>3, <1>4, Zenon

\* A caller goes through the Workers ws, for some operation on a run.
LEMMA CallerListings ==
  ASSUME NEW x \in Caller, NEW ws \in SUBSET Workers
  PROVE  /\ [[x EXCEPT !.pc = "next", !.list = ws] EXCEPT !.op = "stop"] \in Caller
         /\ \A r \in Runs \cup {None}, op \in {"stop", "one", "again", "deadline"} :
              [[x EXCEPT !.pc = "next", !.list = ws] EXCEPT !.op = op, !.run = r] \in Caller
  BY ZenonT(40) DEF CallerRecord, Caller

\* What a caller record promises.
LEMMA CallerFields ==
  ASSUME NEW x \in Caller
  PROVE  /\ x.run \in Runs \cup {None} /\ (x.pc = "write" => x.val \in Statuses)
         /\ (x.pc = "row" => x.at \in Workers)
  BY DEF Caller, CallerRecord

\* A step that leaves a group of variables alone.
LEMMA Untouched ==
  /\ StoreOK /\ UNCHANGED <<run, row, of>> => StoreOK'
  /\ TasksOK /\ UNCHANGED <<task, val, handles, aborted>> => TasksOK'
  /\ CallersOK /\ UNCHANGED caller => CallersOK'
  /\ RestOK /\ UNCHANGED <<deadline, server, ops, restarts>> => RestOK'
  /\ FaultsOK /\ UNCHANGED faults => FaultsOK'
  BY DEF StoreOK, TasksOK, CallersOK, RestOK, FaultsOK, faults

\* What a failed write leaves behind.
LEMMA WriteFailed ==
  ASSUME FaultsOK, NEW ws \in SUBSET Workers, WriteFails(ws)
  PROVE  FaultsOK'
  BY DEF FaultsOK, WriteFails

\* A handle that is taken or given up.
LEMMA LessHandles ==
  ASSUME WorkerConstants, NEW S, NEW w, IsFiniteSet(S), Cardinality(S) <= MaxActive
  PROVE  IsFiniteSet(S \ {w}) /\ Cardinality(S \ {w}) <= MaxActive
<1>1. IsFiniteSet(S \ {w}) /\ Cardinality(S \ {w}) = IF w \in S THEN Cardinality(S) - 1 ELSE Cardinality(S)
  BY FS_RemoveElement
<1>2. Cardinality(S) \in Nat /\ MaxActive \in Nat
  BY FS_CardinalityType, WorkerConstants
<1> QED
  BY <1>1, <1>2

\* Every step keeps the groups well typed.
LEMMA TypeStep == ASSUME WorkerConstants, TypeParts, [Next]_vars PROVE TypeParts'
<1> USE DEF TypeParts
<1>1. ASSUME NEW r \in Runs, Propose(r) PROVE TypeParts'
  <2>1. StoreOK'
    BY <1>1 DEF Propose, StoreOK, Statuses, Active, Ended
  <2> QED
    BY <1>1, <2>1, Untouched DEF Propose, store, tasks, TypeParts
<1>2. ASSUME NEW w \in Workers, Finish(w) PROVE TypeParts'
  <2>1. StoreOK'
    BY <1>2, WrittenRows DEF Finish, StoreOK, Ended, Open
  <2>2. TasksOK'
    BY <1>2 DEF Finish, TasksOK, TaskGoes
  <2> QED
    BY <1>2, <2>1, <2>2, Untouched DEF Finish, store, tasks, TypeParts
<1>3. ASSUME NEW w \in Workers, RefreshRead(w) PROVE TypeParts'
  <2>2. TasksOK'
    BY <1>3, ComputedStatus DEF RefreshRead, TasksOK, TaskGoes
  <2> QED
    BY <1>3, <2>2, Untouched DEF RefreshRead, store, tasks, TypeParts
<1>4. ASSUME NEW w \in Workers, RefreshWrite(w) PROVE TypeParts'
  <2>1. StoreOK'
    BY <1>4 DEF RefreshWrite, StoreOK, TasksOK, Write
  <2>2. TasksOK'
    BY <1>4 DEF RefreshWrite, TasksOK, TaskGoes
  <2> QED
    BY <1>4, <2>1, <2>2, Untouched DEF RefreshWrite, store, tasks, TypeParts
<1>5. ASSUME NEW w \in Workers, Leave(w) PROVE TypeParts'
  <2>2. TasksOK'
    <3>1. IsFiniteSet(handles \ {w}) /\ Cardinality(handles \ {w}) <= MaxActive
      BY LessHandles DEF TasksOK
    <3> QED
      BY <1>5, <3>1 DEF Leave, TasksOK, TaskGoes
  <2> QED
    BY <1>5, <2>2, Untouched DEF Leave, store, tasks, TypeParts
<1>6. ASSUME NEW w \in Workers, Abort(w) PROVE TypeParts'
  <2>2. TasksOK'
    BY <1>6 DEF Abort, TasksOK, TaskGoes
  <2> QED
    BY <1>6, <2>2, Untouched DEF Abort, store, tasks, TypeParts
<1>7. ASSUME NEW c \in Callers, NEW r \in Runs, Start(c, r) PROVE TypeParts'
  <2>3. CallersOK'
    BY <1>7, CallerMoves, Zenon DEF Start, CallersOK, Go, Begins, Set
  <2>4. RestOK'
    BY <1>7, WorkerConstants DEF Start, RestOK, Begins
  <2> QED
    BY <1>7, <2>3, <2>4, Untouched DEF Start, store, tasks, TypeParts, Begins
<1>8. ASSUME NEW c \in Callers, NEW r \in Runs, StopRun(c, r) PROVE TypeParts'
  <2>3. CallersOK'
    BY <1>8, CallerMoves, CallerListings, Zenon DEF StopRun, CallersOK, Listing, Unended, Members, Set
  <2>4. RestOK'
    BY <1>8, WorkerConstants DEF StopRun, RestOK, Begins
  <2> QED
    BY <1>8, <2>3, <2>4, Untouched DEF StopRun, store, tasks, TypeParts
<1>9. ASSUME NEW c \in Callers, NEW r \in Runs, Wait(c, r) PROVE TypeParts'
  <2>3. CallersOK'
    BY <1>9, CallerMoves, Zenon DEF Wait, CallersOK, Go, Begins, Set
  <2>4. RestOK'
    BY <1>9, WorkerConstants DEF Wait, RestOK, Begins
  <2> QED
    BY <1>9, <2>3, <2>4, Untouched DEF Wait, store, tasks, TypeParts, Begins
<1>10. ASSUME NEW c \in Callers, NEW r \in Runs, DeadlineFires(c, r) PROVE TypeParts'
  <2>3. CallersOK'
    <3>1. CASE run[r] = "running"
      <4>1. caller' = [caller EXCEPT ![c] = [Listing(c, Unended(r)) EXCEPT !.op = "deadline", !.run = r]]
        BY <1>10, <3>1 DEF DeadlineFires, Set, Listing, Members
      <4>2. [Listing(c, Unended(r)) EXCEPT !.op = "deadline", !.run = r] \in Caller
        BY <1>10, CallerListings, Zenon DEF DeadlineFires, CallersOK, Listing, Members, Unended
      <4> QED
        BY <4>1, <4>2 DEF CallersOK
    <3>2. CASE run[r] # "running"
      BY <1>10, <3>2, Untouched DEF DeadlineFires
    <3> QED
      BY <3>1, <3>2
  <2>4. RestOK'
    BY <1>10, WorkerConstants DEF DeadlineFires, RestOK, Begins
  <2> QED
    BY <1>10, <2>3, <2>4, Untouched DEF DeadlineFires, store, tasks, TypeParts
<1>11. ASSUME NEW c \in Callers, NEW r \in Runs, Delete(c, r) PROVE TypeParts'
  <2>3. CallersOK'
    BY <1>11, CallerMoves, Zenon DEF Delete, CallersOK, Go, Begins, Set
  <2>4. RestOK'
    BY <1>11, WorkerConstants DEF Delete, RestOK, Begins
  <2> QED
    BY <1>11, <2>3, <2>4, Untouched DEF Delete, store, tasks, TypeParts, Begins
<1>12. ASSUME NEW c \in Callers, NEW w \in Workers, StopOne(c, w) PROVE TypeParts'
  <2>3. CallersOK'
    <3>1. of[w] \in Runs \cup {None} /\ {w} \in SUBSET Workers
      BY DEF StoreOK
    <3>2. ASSUME NEW op \in {"one", "again"}, Set(c, [Listing(c, {w}) EXCEPT !.op = op, !.run = of[w]])
          PROVE  CallersOK'
      BY <3>1, <3>2, CallerListings, Zenon DEF Listing, Set, CallersOK
    <3> QED
      BY <1>12, <3>2, Zenon DEF StopOne
  <2>4. RestOK'
    BY <1>12, WorkerConstants DEF StopOne, RestOK, Begins
  <2> QED
    BY <1>12, <2>3, <2>4, Untouched DEF StopOne, store, tasks, TypeParts
<1>13. ASSUME NEW c \in Callers, NEW w \in Workers, StopTake(c, w) PROVE TypeParts'
  <2>2. TasksOK'
    <3>1. IsFiniteSet(handles \ {w}) /\ Cardinality(handles \ {w}) <= MaxActive
      BY LessHandles DEF TasksOK
    <3> QED
      BY <1>13, <3>1 DEF StopTake, TasksOK
  <2>3. CallersOK'
    BY <1>13, CallerMoves, Zenon DEF StopTake, CallersOK, Go, Begins, Set
  <2> QED
    BY <1>13, <2>2, <2>3, Untouched DEF StopTake, store, tasks, TypeParts
<1>14. ASSUME NEW c \in Callers, StartMark(c) PROVE TypeParts'
  <2>1. StoreOK'
    BY <1>14, Zenon DEF StartMark, StoreOK, Write, Statuses, Active
  <2>3. CallersOK'
    <3>1. CASE run[caller[c].run] = "deleted"
      <4>1. caller' = [caller EXCEPT ![c] = Idle]
        BY <1>14, <3>1 DEF StartMark, Set
      <4>2. Idle \in Caller
        BY <1>14, CallerMoves, Zenon DEF StartMark, CallersOK
      <4> QED
        BY <4>1, <4>2 DEF CallersOK
    <3>2. CASE run[caller[c].run] # "deleted"
      <4>1. caller' = [caller EXCEPT ![c] = [caller[c] EXCEPT !.pc = "spawn"]]
        BY <1>14, <3>2 DEF StartMark, Set, Go
      <4>2. [caller[c] EXCEPT !.pc = "spawn"] \in Caller
        BY <1>14, CallerMoves, Zenon DEF StartMark, CallersOK, Go
      <4> QED
        BY <4>1, <4>2 DEF CallersOK
    <3> QED
      BY <3>1, <3>2
  <2> QED
    BY <1>14, <2>1, <2>3, Untouched DEF StartMark, store, tasks, TypeParts
<1>15. ASSUME NEW c \in Callers, Spawn(c) PROVE TypeParts'
  <2>1. StoreOK'
    BY <1>15, CallerFields DEF Spawn, StoreOK, CallersOK, Open
  <2>2. TasksOK'
    <3>1. Cardinality(handles) < MaxActive /\ Cardinality(handles) \in Nat
      BY <1>15, FS_CardinalityType, WorkerConstants DEF Spawn, Full, TasksOK
    <3>2. PICK w \in Workers : task' = [task EXCEPT ![w] = "stream"] /\ handles' = handles \cup {w}
      BY <1>15 DEF Spawn
    <3>3. IsFiniteSet(handles') /\ Cardinality(handles') <= MaxActive
      <4>0. IsFiniteSet(handles \cup {w}) /\ Cardinality(handles \cup {w}) =
              IF w \in handles THEN Cardinality(handles) ELSE Cardinality(handles) + 1
        <5>1. IsFiniteSet(handles)
          BY DEF TasksOK
        <5> QED
          BY ONLY <5>1, FS_AddElement
      <4>1. IsFiniteSet(handles \cup {w}) /\ Cardinality(handles \cup {w}) <= Cardinality(handles) + 1
        BY <3>1, <4>0
      <4>2. IsFiniteSet(handles') /\ Cardinality(handles') <= Cardinality(handles) + 1
        BY <4>1, <3>2
      <4>3. Cardinality(handles') \in Nat /\ MaxActive \in Nat
        BY <4>2, FS_CardinalityType, WorkerConstants
      <4> QED
        BY <3>1, <4>2, <4>3
    <3> QED
      BY <1>15, <3>2, <3>3 DEF Spawn, TasksOK
  <2>3. CallersOK'
    BY <1>15, CallerMoves, Zenon DEF Spawn, CallersOK, Go, Begins, Set
  <2> QED
    BY <1>15, <2>1, <2>2, <2>3, Untouched DEF Spawn, store, tasks, TypeParts
<1>16. ASSUME NEW c \in Callers, StartFails(c) PROVE TypeParts'
  <2>3. CallersOK'
    BY <1>16, CallerMoves, Zenon DEF StartFails, CallersOK, Go, Begins, Set
  <2> QED
    BY <1>16, <2>3, Untouched DEF StartFails, store, tasks, TypeParts
<1>17. ASSUME NEW c \in Callers, Started(c) PROVE TypeParts'
  <2>3. CallersOK'
    <3>1. CASE Set(c, Idle)
      BY <1>17, <3>1, CallerMoves, Zenon DEF Started, Set, CallersOK
    <3>2. CASE Set(c, [caller[c] EXCEPT !.op = "wait", !.pc = "read"])
      BY <1>17, <3>2, CallerMoves, Zenon DEF Started, Set, CallersOK
    <3> QED
      BY <1>17, <3>1, <3>2 DEF Started
  <2>4. RestOK'
    BY <1>17, WorkerConstants DEF Started, RestOK, Begins
  <2> QED
    BY <1>17, <2>3, <2>4, Untouched DEF Started, store, tasks, TypeParts
<1>18. ASSUME NEW c \in Callers, StopRow(c) PROVE TypeParts'
  <2>1. StoreOK'
    BY <1>18, WrittenRows DEF StopRow, StoreOK, Ended, Open
  <2>3. CallersOK'
    BY <1>18, CallerMoves, Zenon DEF StopRow, CallersOK, Go, Begins, Set
  <2> QED
    BY <1>18, <2>1, <2>3, Untouched DEF StopRow, store, tasks, TypeParts
<1>19. ASSUME NEW c \in Callers, CallerRead(c) PROVE TypeParts'
  <2>3. CallersOK'
    <3>1. CASE run[caller[c].run] = "deleted"
      <4>1. caller' = [caller EXCEPT ![c] = Idle]
        BY <1>19, <3>1 DEF CallerRead, Set
      <4>2. Idle \in Caller
        BY <1>19, CallerMoves, Zenon DEF CallerRead, CallersOK
      <4> QED
        BY <4>1, <4>2 DEF CallersOK
    <3>2. CASE run[caller[c].run] # "deleted" /\ Members(caller[c].run) = {}
      <4>1. caller' = [caller EXCEPT ![c] = [caller[c] EXCEPT !.pc = Back(c)]]
        BY <1>19, <3>2 DEF CallerRead, Set, Go, Back
      <4>2. [caller[c] EXCEPT !.pc = Back(c)] \in Caller
        BY <1>19, CallerMoves, Zenon DEF CallerRead, CallersOK, Go, Back
      <4> QED
        BY <4>1, <4>2 DEF CallersOK
    <3>3. CASE run[caller[c].run] # "deleted" /\ Members(caller[c].run) # {}
      <4>1. caller' = [caller EXCEPT ![c] = [caller[c] EXCEPT !.pc = "write", !.val = Computed(caller[c].run)]]
        BY <1>19, <3>3 DEF CallerRead, Set
      <4>2. [caller[c] EXCEPT !.pc = "write", !.val = Computed(caller[c].run)] \in Caller
        BY <1>19, CallerMoves, ComputedStatus, Zenon DEF CallerRead, CallersOK
      <4> QED
        BY <4>1, <4>2 DEF CallersOK
    <3> QED
      BY <3>1, <3>2, <3>3
  <2> QED
    BY <1>19, <2>3, Untouched DEF CallerRead, store, tasks, TypeParts
<1>20. ASSUME NEW c \in Callers, CallerWrite(c) PROVE TypeParts'
  <2>1. StoreOK'
    BY <1>20, CallerFields, Zenon DEF CallerWrite, StoreOK, CallersOK, Write
  <2>3. CallersOK'
    BY <1>20, CallerMoves, Zenon DEF CallerWrite, CallersOK, Back, Set
  <2> QED
    BY <1>20, <2>1, <2>3, Untouched DEF CallerWrite, store, tasks, TypeParts
<1>21. ASSUME NEW c \in Callers, StopMark(c) PROVE TypeParts'
  <2>1. StoreOK'
    BY <1>21, Zenon DEF StopMark, StoreOK, Write, Statuses, Ended
  <2>3. CallersOK'
    BY <1>21, CallerMoves, Zenon DEF StopMark, CallersOK, Go, Begins, Set
  <2>4. RestOK'
    BY <1>21, WorkerConstants DEF StopMark, RestOK, Begins
  <2> QED
    BY <1>21, <2>1, <2>3, <2>4, Untouched DEF StopMark, store, tasks, TypeParts
<1>22. ASSUME NEW c \in Callers, WaitLooks(c) PROVE TypeParts'
  <2>3. CallersOK'
    <3>1. CASE run[caller[c].run] \in Active
      <4>1. caller' = [caller EXCEPT ![c] = [caller[c] EXCEPT !.pc = "read"]]
        BY <1>22, <3>1 DEF WaitLooks, Set, Go
      <4>2. [caller[c] EXCEPT !.pc = "read"] \in Caller
        BY <1>22, CallerMoves, Zenon DEF WaitLooks, CallersOK, Go
      <4> QED
        BY <4>1, <4>2 DEF CallersOK
    <3>2. CASE run[caller[c].run] \notin Active
      <4>1. caller' = [caller EXCEPT ![c] = Idle]
        BY <1>22, <3>2 DEF WaitLooks, Set
      <4>2. Idle \in Caller
        BY <1>22, CallerMoves, Zenon DEF WaitLooks, CallersOK
      <4> QED
        BY <4>1, <4>2 DEF CallersOK
    <3> QED
      BY <3>1, <3>2
  <2> QED
    BY <1>22, <2>3, Untouched DEF WaitLooks, store, tasks, TypeParts
<1>23. ASSUME NEW c \in Callers, WaitTimesOut(c) PROVE TypeParts'
  <2>3. CallersOK'
    <3>1. CASE Set(c, Idle)
      BY <1>23, <3>1, CallerMoves, Zenon DEF WaitTimesOut, Set, CallersOK
    <3>2. CASE Set(c, [Listing(c, Unended(caller[c].run)) EXCEPT !.op = "stop"])
      BY <1>23, <3>2, CallerListings, Zenon DEF Listing, Unended, Members, Set, CallersOK
    <3> QED
      BY <1>23, <3>1, <3>2 DEF WaitTimesOut
  <2> QED
    BY <1>23, <2>3, Untouched DEF WaitTimesOut, store, tasks, TypeParts
<1>24. ASSUME NEW c \in Callers, DeleteRows(c) PROVE TypeParts'
  <2>1. StoreOK'
    BY <1>24, Zenon DEF DeleteRows, StoreOK, Statuses, Active, Ended
  <2>3. CallersOK'
    BY <1>24, CallerMoves, Zenon DEF DeleteRows, CallersOK, Go, Begins, Set
  <2> QED
    BY <1>24, <2>1, <2>3, Untouched DEF DeleteRows, store, tasks, TypeParts
<1>25. ASSUME NEW c \in Callers, DeleteTree(c) PROVE TypeParts'
  <2>3. CallersOK'
    BY <1>25, CallerMoves, Zenon DEF DeleteTree, CallersOK, Go, Begins, Set
  <2>4. RestOK'
    BY <1>25, WorkerConstants DEF DeleteTree, RestOK, Begins
  <2> QED
    BY <1>25, <2>3, <2>4, Untouched DEF DeleteTree, store, tasks, TypeParts
<1>26. ASSUME NEW c \in Callers, DeleteTreeTakes(c) PROVE TypeParts'
  <2>2. TasksOK'
    BY <1>26, FS_Difference, FS_Subset, FS_CardinalityType, WorkerConstants DEF DeleteTreeTakes, TasksOK, CallersOK
  <2>3. CallersOK'
    BY <1>26, CallerMoves, Zenon DEF DeleteTreeTakes, CallersOK, Go, Begins, Set
  <2> QED
    BY <1>26, <2>2, <2>3, Untouched DEF DeleteTreeTakes, store, tasks, TypeParts
<1>27. ASSUME NEW c \in Callers, DeleteTreeRows(c) PROVE TypeParts'
  <2>1. StoreOK'
    BY <1>27 DEF DeleteTreeRows, StoreOK, Statuses, Active, Ended
  <2>3. CallersOK'
    BY <1>27, CallerMoves, Zenon DEF DeleteTreeRows, CallersOK, Go, Begins, Set
  <2> QED
    BY <1>27, <2>1, <2>3, Untouched DEF DeleteTreeRows, store, tasks, TypeParts
<1>28. ASSUME ShutdownTakes PROVE TypeParts'
  <2>2. TasksOK'
    BY <1>28, FS_EmptySet, WorkerConstants DEF ShutdownTakes, TasksOK
  <2>4. RestOK'
    BY <1>28, WorkerConstants DEF ShutdownTakes, RestOK, Begins
  <2> QED
    BY <1>28, <2>2, <2>4, Untouched DEF ShutdownTakes, store, tasks, TypeParts
<1>29. ASSUME ShutdownRows PROVE TypeParts'
  <2>1. StoreOK'
    BY <1>29 DEF ShutdownRows, StoreOK, Statuses, Active, Ended, Open
  <2>4. RestOK'
    BY <1>29, WorkerConstants DEF ShutdownRows, RestOK, Begins
  <2> QED
    BY <1>29, <2>1, <2>4, Untouched DEF ShutdownRows, store, tasks, TypeParts
<1>30. ASSUME ShutdownRuns PROVE TypeParts'
  <2>1. StoreOK'
    BY <1>30 DEF ShutdownRuns, StoreOK, EndRuns, Statuses, Ended, Active
  <2>4. RestOK'
    BY <1>30, WorkerConstants DEF ShutdownRuns, RestOK, Begins
  <2> QED
    BY <1>30, <2>1, <2>4, Untouched DEF ShutdownRuns, store, tasks, TypeParts
<1>31. ASSUME Restart PROVE TypeParts'
  <2>1. StoreOK'
    BY <1>31 DEF Restart, StoreOK, SweptRows, EndRuns, Statuses, Ended, Active, Open
  <2>2. TasksOK'
    BY <1>31, FS_EmptySet, WorkerConstants DEF Restart, TasksOK
  <2>3. CallersOK'
    BY <1>31, CallerMoves, Zenon DEF Restart, CallersOK, Idle, Set
  <2>4. RestOK'
    BY <1>31, WorkerConstants DEF Restart, RestOK, Begins
  <2>5. FaultsOK'
    BY <1>31 DEF Restart, FaultsOK
  <2> QED
    BY <1>31, <2>1, <2>2, <2>3, <2>4, <2>5 DEF TypeParts
<1>32. ASSUME UNCHANGED vars PROVE TypeParts'
  BY <1>32, Untouched DEF vars, store, tasks, TypeParts
<1>33. ASSUME NEW c \in Callers, SpawnFails(c) PROVE TypeParts'
  <2>1. StoreOK'
    BY <1>33, CallerFields DEF SpawnFails, StoreOK, CallersOK, Open
  <2>3. CallersOK'
    BY <1>33, CallerMoves, Zenon DEF SpawnFails, CallersOK, Set
  <2>5. FaultsOK'
    <3>1. PICK w \in Workers : WriteFails({w})
      BY <1>33 DEF SpawnFails
    <3> QED
      BY <3>1, WriteFailed
  <2> QED
    BY <1>33, <2>1, <2>3, <2>5, Untouched DEF SpawnFails, store, tasks, TypeParts
<1>34. ASSUME NEW w \in Workers, FinishFails(w) PROVE TypeParts'
  <2>1. StoreOK'
    <3>1. PICK s \in {"done", "error"} : row' \in {row, UpdateRow(w, s)}
      BY <1>34 DEF FinishFails
    <3>2. s \in Ended
      BY DEF Ended
    <3> QED
      BY <1>34, <3>1, <3>2, WrittenRows DEF FinishFails, StoreOK
  <2>2. TasksOK'
    BY <1>34 DEF FinishFails, TasksOK, TaskGoes
  <2>5. FaultsOK'
    BY <1>34, WriteFailed DEF FinishFails
  <2> QED
    BY <1>34, <2>1, <2>2, <2>5, Untouched DEF FinishFails, TypeParts
<1>35. ASSUME NEW w \in Workers, Panic(w) PROVE TypeParts'
  <2>2. TasksOK'
    BY <1>35 DEF Panic, TasksOK, TaskGoes
  <2>5. FaultsOK'
    BY <1>35 DEF Panic, FaultsOK
  <2> QED
    BY <1>35, <2>2, <2>5, Untouched DEF Panic, store, TypeParts
<1>36. ASSUME NEW c \in Callers, StopRowFails(c) PROVE TypeParts'
  <2>1. StoreOK'
    BY <1>36, WrittenRows DEF StopRowFails, StoreOK, Ended
  <2>3. CallersOK'
    BY <1>36, CallerMoves, Zenon DEF StopRowFails, CallersOK, Set
  <2>4. RestOK'
    BY <1>36 DEF StopRowFails, RestOK
  <2>5. FaultsOK'
    <3>1. {caller[c].at} \in SUBSET Workers
      BY <1>36, CallerFields DEF StopRowFails, CallersOK
    <3> QED
      BY <1>36, <3>1, WriteFailed DEF StopRowFails
  <2> QED
    BY <1>36, <2>1, <2>3, <2>4, <2>5, Untouched DEF StopRowFails, tasks, TypeParts
<1>37. ASSUME NEW c \in Callers, DeleteTreeRowsFail(c) PROVE TypeParts'
  <2>1. StoreOK'
    BY <1>37 DEF DeleteTreeRowsFail, StoreOK
  <2>3. CallersOK'
    BY <1>37, CallerMoves, Zenon DEF DeleteTreeRowsFail, CallersOK, Set
  <2>5. FaultsOK'
    <3>1. caller[c].list \in SUBSET Workers
      BY DEF CallersOK, Caller, CallerRecord
    <3> QED
      BY <1>37, <3>1, WriteFailed DEF DeleteTreeRowsFail
  <2> QED
    BY <1>37, <2>1, <2>3, <2>5, Untouched DEF DeleteTreeRowsFail, tasks, TypeParts
<1>38. ASSUME ShutdownRowsFail PROVE TypeParts'
  <2>4. RestOK'
    BY <1>38 DEF ShutdownRowsFail, RestOK
  <2>5. FaultsOK'
    BY <1>38, WriteFailed DEF ShutdownRowsFail
  <2> QED
    BY <1>38, <2>4, <2>5, Untouched DEF ShutdownRowsFail, store, tasks, TypeParts
<1> QED
  BY <1>1, <1>2, <1>3, <1>4, <1>5, <1>6, <1>7, <1>8, <1>9, <1>10, <1>11, <1>12, <1>13, <1>14, <1>15, <1>16, <1>17, <1>18, <1>19, <1>20, <1>21, <1>22, <1>23, <1>24, <1>25, <1>26, <1>27, <1>28, <1>29, <1>30, <1>31, <1>32, <1>33, <1>34,
     <1>35, <1>36, <1>37, <1>38 DEF Next

-----------------------------------------------------------------------------
(* The inductive invariant.                                                *)

\* Handles and aborts are of Workers that were started; a task that is being
\* aborted has no handle, and one that panicked is gone.
HandlesAreOwned ==
  /\ handles \cap aborted = {}
  /\ \A w \in Workers : row[w] = "none" => task[w] = "none" /\ w \notin handles \cup aborted \cup panicked
  /\ \A w \in panicked : task[w] = "gone"

\* A caller that is about to end the Worker w.
Ends(x, w) ==
  \/ x.pc = "row" /\ x.at = w
  \/ x.op = "tree" /\ x.pc = "rows" /\ w \in x.list

\* What RunningHasTask asks for; a Worker stays queued only where the store failed.
Watched(w) ==
  \/ w \in unwritten
  \/ /\ row[w] # "queued"
     /\ \/ w \in handles /\ (task[w] = "stream" \/ w \in panicked)
        \/ \E c \in Callers : Ends(caller[c], w)
        \/ server = "rows"

OpenAreWatched == \A w \in Workers : row[w] \in Open => Watched(w)

WorkersInv == TypeParts /\ HandlesAreOwned /\ HandlesAreLive /\ OpenAreWatched

\* What a step can do to a Worker's row.
RowMoves(w) ==
  \/ row'[w] = row[w]
  \/ row[w] = "none" /\ row'[w] \in Open
  \/ row[w] \in Open /\ row'[w] \in Ended
  \/ row[w] # "none" /\ row'[w] = "deleted"

\* A started Worker ends once, and only deletion follows.
LEMMA RowStep == ASSUME StoreOK, [Next]_vars PROVE \A w \in Workers : RowMoves(w)
<1> USE DEF RowMoves, StoreOK, Open
<1> DEFINE Goal == \A x \in Workers : RowMoves(x)
<1>0. row' = row => Goal
  OBVIOUS
<1>1. ASSUME NEW r \in Runs, Propose(r) PROVE Goal
  BY <1>1, <1>0 DEF Propose, store
<1>2. ASSUME NEW w \in Workers, Finish(w) PROVE Goal
  BY <1>2 DEF Finish, UpdateRow, Ended
<1>3. ASSUME NEW w \in Workers, RefreshRead(w) PROVE Goal
  BY <1>3, <1>0 DEF RefreshRead, store
<1>4. ASSUME NEW w \in Workers, RefreshWrite(w) PROVE Goal
  BY <1>4, <1>0 DEF RefreshWrite, store
<1>5. ASSUME NEW w \in Workers, Leave(w) PROVE Goal
  BY <1>5, <1>0 DEF Leave, store
<1>6. ASSUME NEW w \in Workers, Abort(w) PROVE Goal
  BY <1>6, <1>0 DEF Abort, store
<1>7. ASSUME NEW c \in Callers, NEW r \in Runs, Start(c, r) PROVE Goal
  BY <1>7, <1>0 DEF Start, store, Begins
<1>8. ASSUME NEW c \in Callers, NEW r \in Runs, StopRun(c, r) PROVE Goal
  BY <1>8, <1>0 DEF StopRun, store
<1>9. ASSUME NEW c \in Callers, NEW r \in Runs, Wait(c, r) PROVE Goal
  BY <1>9, <1>0 DEF Wait, store, Begins
<1>10. ASSUME NEW c \in Callers, NEW r \in Runs, DeadlineFires(c, r) PROVE Goal
  BY <1>10, <1>0 DEF DeadlineFires, store
<1>11. ASSUME NEW c \in Callers, NEW r \in Runs, Delete(c, r) PROVE Goal
  BY <1>11, <1>0 DEF Delete, store, Begins
<1>12. ASSUME NEW c \in Callers, NEW w \in Workers, StopOne(c, w) PROVE Goal
  BY <1>12, <1>0 DEF StopOne, store
<1>13. ASSUME NEW c \in Callers, NEW w \in Workers, StopTake(c, w) PROVE Goal
  BY <1>13, <1>0 DEF StopTake, store
<1>14. ASSUME NEW c \in Callers, StartMark(c) PROVE Goal
  BY <1>14, <1>0 DEF StartMark, store
<1>15. ASSUME NEW c \in Callers, Spawn(c) PROVE Goal
  BY <1>15 DEF Spawn
<1>16. ASSUME NEW c \in Callers, StartFails(c) PROVE Goal
  BY <1>16, <1>0 DEF StartFails, store
<1>17. ASSUME NEW c \in Callers, Started(c) PROVE Goal
  BY <1>17, <1>0 DEF Started, store
<1>18. ASSUME NEW c \in Callers, StopRow(c) PROVE Goal
  BY <1>18 DEF StopRow, UpdateRow, Ended
<1>19. ASSUME NEW c \in Callers, CallerRead(c) PROVE Goal
  BY <1>19, <1>0 DEF CallerRead, store
<1>20. ASSUME NEW c \in Callers, CallerWrite(c) PROVE Goal
  BY <1>20, <1>0 DEF CallerWrite, store
<1>21. ASSUME NEW c \in Callers, StopMark(c) PROVE Goal
  BY <1>21, <1>0 DEF StopMark, store
<1>22. ASSUME NEW c \in Callers, WaitLooks(c) PROVE Goal
  BY <1>22, <1>0 DEF WaitLooks, store
<1>23. ASSUME NEW c \in Callers, WaitTimesOut(c) PROVE Goal
  BY <1>23, <1>0 DEF WaitTimesOut, store
<1>24. ASSUME NEW c \in Callers, DeleteRows(c) PROVE Goal
  BY <1>24 DEF DeleteRows, Members
<1>25. ASSUME NEW c \in Callers, DeleteTree(c) PROVE Goal
  BY <1>25, <1>0 DEF DeleteTree, store
<1>26. ASSUME NEW c \in Callers, DeleteTreeTakes(c) PROVE Goal
  BY <1>26, <1>0 DEF DeleteTreeTakes, store
<1>27. ASSUME NEW c \in Callers, DeleteTreeRows(c) PROVE Goal
  BY <1>27 DEF DeleteTreeRows
<1>28. ASSUME ShutdownTakes PROVE Goal
  BY <1>28, <1>0 DEF ShutdownTakes, store
<1>29. ASSUME ShutdownRows PROVE Goal
  BY <1>29 DEF ShutdownRows, Ended
<1>30. ASSUME ShutdownRuns PROVE Goal
  BY <1>30, <1>0 DEF ShutdownRuns, store
<1>31. ASSUME Restart PROVE Goal
  BY <1>31 DEF Restart, SweptRows, Ended
<1>32. ASSUME UNCHANGED vars PROVE Goal
  BY <1>32 DEF vars, store, tasks
<1>33. ASSUME NEW c \in Callers, SpawnFails(c) PROVE Goal
  BY <1>33 DEF SpawnFails, Open
<1>34. ASSUME NEW w \in Workers, FinishFails(w) PROVE Goal
  BY <1>34 DEF FinishFails, UpdateRow, Ended
<1>35. ASSUME NEW w \in Workers, Panic(w) PROVE Goal
  BY <1>35, <1>0 DEF Panic, store
<1>36. ASSUME NEW c \in Callers, StopRowFails(c) PROVE Goal
  BY <1>36 DEF StopRowFails, UpdateRow, Ended
<1>37. ASSUME NEW c \in Callers, DeleteTreeRowsFail(c) PROVE Goal
  BY <1>37, <1>0 DEF DeleteTreeRowsFail
<1>38. ASSUME ShutdownRowsFail PROVE Goal
  BY <1>38, <1>0 DEF ShutdownRowsFail, store
<1> QED
  BY <1>1, <1>2, <1>3, <1>4, <1>5, <1>6, <1>7, <1>8, <1>9, <1>10, <1>11, <1>12, <1>13, <1>14, <1>15, <1>16, <1>17, <1>18, <1>19, <1>20, <1>21, <1>22, <1>23, <1>24, <1>25, <1>26, <1>27, <1>28, <1>29, <1>30, <1>31, <1>32, <1>33, <1>34,
     <1>35, <1>36, <1>37, <1>38 DEF Next

\* A handle goes with its task: taken before an abort, given up at the end.
LEMMA HandlesStep ==
  ASSUME TypeParts, HandlesAreOwned, HandlesAreLive, [Next]_vars
  PROVE  HandlesAreOwned' /\ HandlesAreLive'
<1> DEFINE Goal == HandlesAreOwned' /\ HandlesAreLive'
<1> USE DEF HandlesAreOwned, HandlesAreLive, TypeParts, StoreOK, TasksOK, FaultsOK, faults, Open
<1>0. UNCHANGED <<row, task, handles, aborted, panicked>> => Goal
  OBVIOUS
<1>1. ASSUME NEW r \in Runs, Propose(r) PROVE Goal
  BY <1>1, <1>0 DEF Propose, tasks, store
<1>2. ASSUME NEW w \in Workers, Finish(w) PROVE Goal
  BY <1>2 DEF Finish, TaskGoes, UpdateRow, Ended
<1>3. ASSUME NEW w \in Workers, RefreshRead(w) PROVE Goal
  BY <1>3 DEF RefreshRead, TaskGoes, store
<1>4. ASSUME NEW w \in Workers, RefreshWrite(w) PROVE Goal
  BY <1>4 DEF RefreshWrite, TaskGoes
<1>5. ASSUME NEW w \in Workers, Leave(w) PROVE Goal
  BY <1>5 DEF Leave, TaskGoes, store
<1>6. ASSUME NEW w \in Workers, Abort(w) PROVE Goal
  BY <1>6 DEF Abort, TaskGoes, store
<1>7. ASSUME NEW c \in Callers, NEW r \in Runs, Start(c, r) PROVE Goal
  BY <1>7, <1>0 DEF Start, tasks, store, Begins
<1>8. ASSUME NEW c \in Callers, NEW r \in Runs, StopRun(c, r) PROVE Goal
  BY <1>8, <1>0 DEF StopRun, tasks, store
<1>9. ASSUME NEW c \in Callers, NEW r \in Runs, Wait(c, r) PROVE Goal
  BY <1>9, <1>0 DEF Wait, tasks, store, Begins
<1>10. ASSUME NEW c \in Callers, NEW r \in Runs, DeadlineFires(c, r) PROVE Goal
  BY <1>10, <1>0 DEF DeadlineFires, tasks, store
<1>11. ASSUME NEW c \in Callers, NEW r \in Runs, Delete(c, r) PROVE Goal
  BY <1>11, <1>0 DEF Delete, tasks, store, Begins
<1>12. ASSUME NEW c \in Callers, NEW w \in Workers, StopOne(c, w) PROVE Goal
  BY <1>12, <1>0 DEF StopOne, tasks, store
<1>13. ASSUME NEW c \in Callers, NEW w \in Workers, StopTake(c, w) PROVE Goal
  BY <1>13 DEF StopTake, store
<1>14. ASSUME NEW c \in Callers, StartMark(c) PROVE Goal
  BY <1>14, <1>0 DEF StartMark, tasks, store
<1>15. ASSUME NEW c \in Callers, Spawn(c) PROVE Goal
  BY <1>15 DEF Spawn
<1>16. ASSUME NEW c \in Callers, StartFails(c) PROVE Goal
  BY <1>16, <1>0 DEF StartFails, tasks, store
<1>17. ASSUME NEW c \in Callers, Started(c) PROVE Goal
  BY <1>17, <1>0 DEF Started, tasks, store
<1>18. ASSUME NEW c \in Callers, StopRow(c) PROVE Goal
  <2>1. UNCHANGED <<tasks, panicked>>
    BY <1>18 DEF StopRow
  <2>2. \A w \in Workers : row[w] # "none" => row'[w] # "none"
    BY RowStep DEF RowMoves, Ended
  <2> QED
    BY <2>1, <2>2 DEF tasks
<1>19. ASSUME NEW c \in Callers, CallerRead(c) PROVE Goal
  BY <1>19, <1>0 DEF CallerRead, tasks, store
<1>20. ASSUME NEW c \in Callers, CallerWrite(c) PROVE Goal
  BY <1>20, <1>0 DEF CallerWrite, tasks, store
<1>21. ASSUME NEW c \in Callers, StopMark(c) PROVE Goal
  BY <1>21, <1>0 DEF StopMark, tasks, store
<1>22. ASSUME NEW c \in Callers, WaitLooks(c) PROVE Goal
  BY <1>22, <1>0 DEF WaitLooks, tasks, store
<1>23. ASSUME NEW c \in Callers, WaitTimesOut(c) PROVE Goal
  BY <1>23, <1>0 DEF WaitTimesOut, tasks, store
<1>24. ASSUME NEW c \in Callers, DeleteRows(c) PROVE Goal
  BY <1>24, RowStep DEF DeleteRows, RowMoves, tasks
<1>25. ASSUME NEW c \in Callers, DeleteTree(c) PROVE Goal
  BY <1>25, <1>0 DEF DeleteTree, tasks, store
<1>26. ASSUME NEW c \in Callers, DeleteTreeTakes(c) PROVE Goal
  BY <1>26 DEF DeleteTreeTakes, store
<1>27. ASSUME NEW c \in Callers, DeleteTreeRows(c) PROVE Goal
  BY <1>27, RowStep DEF DeleteTreeRows, RowMoves, tasks
<1>28. ASSUME ShutdownTakes PROVE Goal
  BY <1>28 DEF ShutdownTakes, store
<1>29. ASSUME ShutdownRows PROVE Goal
  BY <1>29, RowStep DEF ShutdownRows, RowMoves, tasks
<1>30. ASSUME ShutdownRuns PROVE Goal
  BY <1>30, <1>0 DEF ShutdownRuns, tasks, store
<1>31. ASSUME Restart PROVE Goal
  BY <1>31 DEF Restart, SweptRows
<1>32. ASSUME UNCHANGED vars PROVE Goal
  BY <1>32 DEF vars, store, tasks
<1>33. ASSUME NEW c \in Callers, SpawnFails(c) PROVE Goal
  <2>1. UNCHANGED <<tasks, panicked>>
    BY <1>33 DEF SpawnFails, WriteFails
  <2>2. \A w \in Workers : row[w] # "none" => row'[w] # "none"
    BY RowStep DEF RowMoves, Ended
  <2> QED
    BY <2>1, <2>2 DEF tasks
<1>34. ASSUME NEW w \in Workers, FinishFails(w) PROVE Goal
  <2>1. UNCHANGED <<handles, aborted, panicked>> /\ \A x \in Workers : task'[x] = task[x] \/ (task[x] = "stream" /\ task'[x] \in {"leave", "read"})
    BY <1>34 DEF FinishFails, WriteFails, TaskGoes
  <2>2. \A x \in Workers : row[x] # "none" => row'[x] # "none"
    BY RowStep DEF RowMoves, Ended
  <2> QED
    BY <2>1, <2>2
<1>35. ASSUME NEW w \in Workers, Panic(w) PROVE Goal
  BY <1>35 DEF Panic, TaskGoes, store
<1>36. ASSUME NEW c \in Callers, StopRowFails(c) PROVE Goal
  <2>1. UNCHANGED <<tasks, panicked>>
    BY <1>36 DEF StopRowFails, WriteFails
  <2>2. \A w \in Workers : row[w] # "none" => row'[w] # "none"
    BY RowStep DEF RowMoves, Ended
  <2> QED
    BY <2>1, <2>2 DEF tasks
<1>37. ASSUME NEW c \in Callers, DeleteTreeRowsFail(c) PROVE Goal
  BY <1>37, <1>0 DEF DeleteTreeRowsFail, WriteFails, tasks
<1>38. ASSUME ShutdownRowsFail PROVE Goal
  BY <1>38, <1>0 DEF ShutdownRowsFail, WriteFails, tasks, store
<1> QED
  BY <1>1, <1>2, <1>3, <1>4, <1>5, <1>6, <1>7, <1>8, <1>9, <1>10, <1>11, <1>12, <1>13, <1>14, <1>15, <1>16, <1>17, <1>18, <1>19, <1>20, <1>21, <1>22, <1>23, <1>24, <1>25, <1>26, <1>27, <1>28, <1>29, <1>30, <1>31, <1>32, <1>33, <1>34,
     <1>35, <1>36, <1>37, <1>38 DEF Next

\* Another caller's move leaves a caller that is about to end a Worker there.
LEMMA EndersStay ==
  ASSUME CallersOK, NEW c \in Callers, \A w \in Workers : ~Ends(caller[c], w),
         \A d \in Callers \ {c} : caller'[d] = caller[d]
  PROVE  \A w \in Workers : (\E d \in Callers : Ends(caller[d], w)) => (\E d \in Callers : Ends(caller'[d], w))
  OBVIOUS

\* Whoever takes a running Worker's task away goes on to end its row.
LEMMA RunningStep ==
  ASSUME TypeParts, HandlesAreOwned, OpenAreWatched, [Next]_vars
  PROVE  OpenAreWatched'
<1> DEFINE Goal == \A w \in Workers : row'[w] \in Open => Watched(w)'
<1> SUFFICES Goal
  BY DEF OpenAreWatched
<1> USE DEF TypeParts, StoreOK, TasksOK, FaultsOK, faults
<1>a. \A w \in Workers : row[w] \in Open => Watched(w)
  BY DEF OpenAreWatched
<1>b. \A w \in Workers : RowMoves(w)
  BY RowStep
<1> HIDE DEF Goal
<1>0. UNCHANGED <<row, task, handles, caller, server, panicked, unwritten>> => Goal
  BY <1>a DEF Goal, Watched
<1>1. ASSUME NEW r \in Runs, Propose(r) PROVE Goal
  BY <1>1, <1>a, <1>b DEF Propose, Goal, Watched, RowMoves, Open, Ended, store, tasks
<1>2. ASSUME NEW w \in Workers, Finish(w) PROVE Goal
  BY <1>2, <1>a, <1>b DEF Finish, Goal, Watched, RowMoves, Open, Ended, TaskGoes, UpdateRow, store, tasks
<1>3. ASSUME NEW w \in Workers, RefreshRead(w) PROVE Goal
  BY <1>3, <1>a, <1>b DEF RefreshRead, Goal, Watched, RowMoves, Open, Ended, TaskGoes, store, tasks
<1>4. ASSUME NEW w \in Workers, RefreshWrite(w) PROVE Goal
  BY <1>4, <1>a, <1>b DEF RefreshWrite, Goal, Watched, RowMoves, Open, Ended, TaskGoes, store, tasks
<1>5. ASSUME NEW w \in Workers, Leave(w) PROVE Goal
  <2>1. w \notin panicked /\ task[w] = "leave"
    BY <1>5 DEF Leave, HandlesAreOwned
  <2>2. /\ UNCHANGED <<row, caller, server, panicked, unwritten>>
        /\ handles' = handles \ {w} /\ \A x \in Workers \ {w} : task'[x] = task[x]
    BY <1>5 DEF Leave, TaskGoes, store
  <2> QED
    BY <1>a, <2>1, <2>2 DEF Goal, Watched
<1>6. ASSUME NEW w \in Workers, Abort(w) PROVE Goal
  BY <1>6, <1>a, <1>b DEF Abort, Goal, Watched, RowMoves, Open, Ended, TaskGoes, store, HandlesAreOwned, tasks
<1>7. ASSUME NEW c \in Callers, NEW r \in Runs, Start(c, r) PROVE Goal
  <2>1. (\A x \in Workers : ~Ends(caller[c], x)) /\ (\A d \in Callers \ {c} : caller'[d] = caller[d])
    BY <1>7 DEF Start, Set, Go, Begins, Ends, CallersOK
  <2>2. UNCHANGED <<row, task, handles, server, panicked, unwritten>>
    BY <1>7 DEF Start, store, tasks, Begins
  <2> QED
    BY <1>a, <2>1, <2>2, EndersStay DEF Goal, Watched
<1>8. ASSUME NEW c \in Callers, NEW r \in Runs, StopRun(c, r) PROVE Goal
  <2>1. (\A x \in Workers : ~Ends(caller[c], x)) /\ (\A d \in Callers \ {c} : caller'[d] = caller[d])
    BY <1>8 DEF StopRun, Set, Go, Begins, Ends, CallersOK
  <2>2. UNCHANGED <<row, task, handles, server, panicked, unwritten>>
    BY <1>8 DEF StopRun, store, tasks
  <2> QED
    BY <1>a, <2>1, <2>2, EndersStay DEF Goal, Watched
<1>9. ASSUME NEW c \in Callers, NEW r \in Runs, Wait(c, r) PROVE Goal
  <2>1. (\A x \in Workers : ~Ends(caller[c], x)) /\ (\A d \in Callers \ {c} : caller'[d] = caller[d])
    BY <1>9 DEF Wait, Set, Go, Begins, Ends, CallersOK
  <2>2. UNCHANGED <<row, task, handles, server, panicked, unwritten>>
    BY <1>9 DEF Wait, store, tasks, Begins
  <2> QED
    BY <1>a, <2>1, <2>2, EndersStay DEF Goal, Watched
<1>10. ASSUME NEW c \in Callers, NEW r \in Runs, DeadlineFires(c, r) PROVE Goal
  <2>1. (\A x \in Workers : ~Ends(caller[c], x)) /\ (\A d \in Callers \ {c} : caller'[d] = caller[d])
    BY <1>10 DEF DeadlineFires, Set, Go, Begins, Ends, CallersOK
  <2>2. UNCHANGED <<row, task, handles, server, panicked, unwritten>>
    BY <1>10 DEF DeadlineFires, store, tasks
  <2> QED
    BY <1>a, <2>1, <2>2, EndersStay DEF Goal, Watched
<1>11. ASSUME NEW c \in Callers, NEW r \in Runs, Delete(c, r) PROVE Goal
  <2>1. (\A x \in Workers : ~Ends(caller[c], x)) /\ (\A d \in Callers \ {c} : caller'[d] = caller[d])
    BY <1>11 DEF Delete, Set, Go, Begins, Ends, CallersOK
  <2>2. UNCHANGED <<row, task, handles, server, panicked, unwritten>>
    BY <1>11 DEF Delete, store, tasks, Begins
  <2> QED
    BY <1>a, <2>1, <2>2, EndersStay DEF Goal, Watched
<1>12. ASSUME NEW c \in Callers, NEW w \in Workers, StopOne(c, w) PROVE Goal
  <2>1. (\A x \in Workers : ~Ends(caller[c], x)) /\ (\A d \in Callers \ {c} : caller'[d] = caller[d])
    BY <1>12 DEF StopOne, Set, Go, Begins, Ends, CallersOK
  <2>2. UNCHANGED <<row, task, handles, server, panicked, unwritten>>
    BY <1>12 DEF StopOne, store, tasks
  <2> QED
    BY <1>a, <2>1, <2>2, EndersStay DEF Goal, Watched
<1>13. ASSUME NEW c \in Callers, NEW w \in Workers, StopTake(c, w) PROVE Goal
  BY <1>13, <1>a, <1>b DEF StopTake, Goal, Watched, Ends, RowMoves, Open, Ended, Set, Go, CallersOK, store, tasks
<1>14. ASSUME NEW c \in Callers, StartMark(c) PROVE Goal
  <2>1. (\A x \in Workers : ~Ends(caller[c], x)) /\ (\A d \in Callers \ {c} : caller'[d] = caller[d])
    BY <1>14 DEF StartMark, Set, Go, Begins, Ends, CallersOK
  <2>2. UNCHANGED <<row, task, handles, server, panicked, unwritten>>
    BY <1>14 DEF StartMark, store, tasks
  <2> QED
    BY <1>a, <2>1, <2>2, EndersStay DEF Goal, Watched
<1>15. ASSUME NEW c \in Callers, Spawn(c) PROVE Goal
  BY <1>15, <1>a, <1>b DEF Spawn, Goal, Watched, Ends, RowMoves, Open, Ended, Set, Go, CallersOK, store, tasks
<1>16. ASSUME NEW c \in Callers, StartFails(c) PROVE Goal
  <2>1. (\A x \in Workers : ~Ends(caller[c], x)) /\ (\A d \in Callers \ {c} : caller'[d] = caller[d])
    BY <1>16 DEF StartFails, Set, Go, Begins, Ends, CallersOK
  <2>2. UNCHANGED <<row, task, handles, server, panicked, unwritten>>
    BY <1>16 DEF StartFails, store, tasks
  <2> QED
    BY <1>a, <2>1, <2>2, EndersStay DEF Goal, Watched
<1>17. ASSUME NEW c \in Callers, Started(c) PROVE Goal
  <2>1. (\A x \in Workers : ~Ends(caller[c], x)) /\ (\A d \in Callers \ {c} : caller'[d] = caller[d])
    BY <1>17 DEF Started, Set, Go, Begins, Ends, CallersOK
  <2>2. UNCHANGED <<row, task, handles, server, panicked, unwritten>>
    BY <1>17 DEF Started, store, tasks
  <2> QED
    BY <1>a, <2>1, <2>2, EndersStay DEF Goal, Watched
<1>18. ASSUME NEW c \in Callers, StopRow(c) PROVE Goal
  <2> SUFFICES ASSUME NEW w \in Workers, row'[w] \in Open PROVE Watched(w)'
    BY DEF Goal
  <2>1. row' = UpdateRow(caller[c].at, "stopped") /\ UNCHANGED <<task, handles, server, panicked, unwritten>>
        /\ (\A d \in Callers \ {c} : caller'[d] = caller[d])
    BY <1>18 DEF StopRow, Set, tasks, CallersOK
  <2>2. row[w] \in Open /\ w # caller[c].at /\ row'[w] = row[w]
    BY <2>1 DEF UpdateRow, Open, Ended
  <2>3. ~Ends(caller[c], w)
    BY <1>18, <2>2 DEF StopRow, Ends
  <2> QED
    BY <1>a, <2>1, <2>2, <2>3 DEF Watched
<1>19. ASSUME NEW c \in Callers, CallerRead(c) PROVE Goal
  <2>1. (\A x \in Workers : ~Ends(caller[c], x)) /\ (\A d \in Callers \ {c} : caller'[d] = caller[d])
    BY <1>19 DEF CallerRead, Set, Go, Begins, Ends, CallersOK
  <2>2. UNCHANGED <<row, task, handles, server, panicked, unwritten>>
    BY <1>19 DEF CallerRead, store, tasks
  <2> QED
    BY <1>a, <2>1, <2>2, EndersStay DEF Goal, Watched
<1>20. ASSUME NEW c \in Callers, CallerWrite(c) PROVE Goal
  <2>1. (\A x \in Workers : ~Ends(caller[c], x)) /\ (\A d \in Callers \ {c} : caller'[d] = caller[d])
    BY <1>20 DEF CallerWrite, Set, Go, Begins, Ends, CallersOK
  <2>2. UNCHANGED <<row, task, handles, server, panicked, unwritten>>
    BY <1>20 DEF CallerWrite, store, tasks
  <2> QED
    BY <1>a, <2>1, <2>2, EndersStay DEF Goal, Watched
<1>21. ASSUME NEW c \in Callers, StopMark(c) PROVE Goal
  <2>1. (\A x \in Workers : ~Ends(caller[c], x)) /\ (\A d \in Callers \ {c} : caller'[d] = caller[d])
    BY <1>21 DEF StopMark, Set, Go, Begins, Ends, CallersOK
  <2>2. UNCHANGED <<row, task, handles, server, panicked, unwritten>>
    BY <1>21 DEF StopMark, store, tasks
  <2> QED
    BY <1>a, <2>1, <2>2, EndersStay DEF Goal, Watched
<1>22. ASSUME NEW c \in Callers, WaitLooks(c) PROVE Goal
  <2>1. (\A x \in Workers : ~Ends(caller[c], x)) /\ (\A d \in Callers \ {c} : caller'[d] = caller[d])
    BY <1>22 DEF WaitLooks, Set, Go, Begins, Ends, CallersOK
  <2>2. UNCHANGED <<row, task, handles, server, panicked, unwritten>>
    BY <1>22 DEF WaitLooks, store, tasks
  <2> QED
    BY <1>a, <2>1, <2>2, EndersStay DEF Goal, Watched
<1>23. ASSUME NEW c \in Callers, WaitTimesOut(c) PROVE Goal
  <2>1. (\A x \in Workers : ~Ends(caller[c], x)) /\ (\A d \in Callers \ {c} : caller'[d] = caller[d])
    BY <1>23 DEF WaitTimesOut, Set, Go, Begins, Ends, CallersOK
  <2>2. UNCHANGED <<row, task, handles, server, panicked, unwritten>>
    BY <1>23 DEF WaitTimesOut, store, tasks
  <2> QED
    BY <1>a, <2>1, <2>2, EndersStay DEF Goal, Watched
<1>24. ASSUME NEW c \in Callers, DeleteRows(c) PROVE Goal
  BY <1>24, <1>a, <1>b DEF DeleteRows, Goal, Watched, Ends, RowMoves, Open, Ended, Set, Go, CallersOK, store, tasks
<1>25. ASSUME NEW c \in Callers, DeleteTree(c) PROVE Goal
  <2>1. (\A x \in Workers : ~Ends(caller[c], x)) /\ (\A d \in Callers \ {c} : caller'[d] = caller[d])
    BY <1>25 DEF DeleteTree, Set, Go, Begins, Ends, CallersOK
  <2>2. UNCHANGED <<row, task, handles, server, panicked, unwritten>>
    BY <1>25 DEF DeleteTree, store, tasks
  <2> QED
    BY <1>a, <2>1, <2>2, EndersStay DEF Goal, Watched
<1>26. ASSUME NEW c \in Callers, DeleteTreeTakes(c) PROVE Goal
  BY <1>26, <1>a, <1>b DEF DeleteTreeTakes, Goal, Watched, Ends, RowMoves, Open, Ended, Set, Go, CallersOK, store, tasks
<1>27. ASSUME NEW c \in Callers, DeleteTreeRows(c) PROVE Goal
  BY <1>27, <1>a, <1>b DEF DeleteTreeRows, Goal, Watched, Ends, RowMoves, Open, Ended, Set, Go, CallersOK, store, tasks
<1>28. ASSUME ShutdownTakes PROVE Goal
  BY <1>28, <1>a, <1>b DEF ShutdownTakes, Goal, Watched, RowMoves, Open, Ended, store, tasks
<1>29. ASSUME ShutdownRows PROVE Goal
  BY <1>29, <1>a, <1>b DEF ShutdownRows, Goal, Watched, RowMoves, Open, Ended, store, tasks
<1>30. ASSUME ShutdownRuns PROVE Goal
  BY <1>30, <1>a, <1>b DEF ShutdownRuns, Goal, Watched, RowMoves, Open, Ended, store, tasks
<1>31. ASSUME Restart PROVE Goal
  <2>1. \A w \in Workers : row'[w] \in Open => w \in unwritten'
    BY <1>31 DEF Restart, SweptRows, Open
  <2> QED
    BY <2>1 DEF Goal, Watched
<1>32. ASSUME UNCHANGED vars PROVE Goal
  BY <1>32, <1>0 DEF vars, store, tasks
<1>33. ASSUME NEW c \in Callers, SpawnFails(c) PROVE Goal
  <2> SUFFICES ASSUME NEW w \in Workers, row'[w] \in Open PROVE Watched(w)'
    BY DEF Goal
  <2>1. /\ \A x \in Workers : ~Ends(caller[c], x)
        /\ \A d \in Callers \ {c} : caller'[d] = caller[d]
        /\ UNCHANGED <<task, handles, server, panicked>> /\ unwritten \subseteq unwritten'
    BY <1>33 DEF SpawnFails, Set, Ends, CallersOK, tasks, WriteFails
  <2>2. CASE row'[w] = row[w]
    BY <1>a, <2>1, <2>2, EndersStay DEF Watched
  <2>3. CASE row'[w] # row[w]
    <3>1. w \in unwritten'
      BY <1>33, <2>3 DEF SpawnFails, WriteFails
    <3> QED
      BY <3>1 DEF Watched
  <2> QED
    BY <2>2, <2>3
<1>34. ASSUME NEW w \in Workers, FinishFails(w) PROVE Goal
  <2> SUFFICES ASSUME NEW x \in Workers, row'[x] \in Open PROVE Watched(x)'
    BY DEF Goal
  <2>1. /\ UNCHANGED <<handles, caller, server, panicked>> /\ unwritten \subseteq unwritten'
        /\ \A y \in Workers \ {w} : task'[y] = task[y] /\ row'[y] = row[y]
    BY <1>34 DEF FinishFails, WriteFails, TaskGoes, UpdateRow
  <2>2. CASE x = w
    BY <1>34, <2>2 DEF FinishFails, WriteFails, Watched
  <2>3. CASE x # w
    BY <1>a, <2>1, <2>3 DEF Watched
  <2> QED
    BY <2>2, <2>3
<1>35. ASSUME NEW w \in Workers, Panic(w) PROVE Goal
  <2> SUFFICES ASSUME NEW x \in Workers, row'[x] \in Open PROVE Watched(x)'
    BY DEF Goal
  <2>1. /\ UNCHANGED <<row, handles, caller, server, unwritten>> /\ panicked' = panicked \cup {w}
        /\ \A y \in Workers \ {w} : task'[y] = task[y]
    BY <1>35 DEF Panic, TaskGoes, store
  <2> QED
    BY <1>a, <2>1 DEF Watched
<1>36. ASSUME NEW c \in Callers, StopRowFails(c) PROVE Goal
  <2> SUFFICES ASSUME NEW w \in Workers, row'[w] \in Open PROVE Watched(w)'
    BY DEF Goal
  <2>1. /\ UNCHANGED <<task, handles, server, panicked>> /\ unwritten \subseteq unwritten'
        /\ (\A d \in Callers \ {c} : caller'[d] = caller[d])
        /\ row[w] \in Open
    BY <1>36 DEF StopRowFails, Set, tasks, CallersOK, WriteFails, UpdateRow, Open
  <2>2. CASE w = caller[c].at
    BY <1>36, <2>2 DEF StopRowFails, WriteFails, Watched
  <2>3. CASE w # caller[c].at
    <3>1. ~Ends(caller[c], w) /\ row'[w] = row[w]
      BY <1>36, <2>3 DEF StopRowFails, Ends, UpdateRow
    <3> QED
      BY <1>a, <2>1, <3>1 DEF Watched
  <2> QED
    BY <2>2, <2>3
<1>37. ASSUME NEW c \in Callers, DeleteTreeRowsFail(c) PROVE Goal
  <2> SUFFICES ASSUME NEW w \in Workers, row'[w] \in Open PROVE Watched(w)'
    BY DEF Goal
  <2>1. /\ UNCHANGED <<row, task, handles, server, panicked>> /\ unwritten \subseteq unwritten'
        /\ (\A d \in Callers \ {c} : caller'[d] = caller[d])
    BY <1>37 DEF DeleteTreeRowsFail, Set, tasks, CallersOK, WriteFails
  <2>2. CASE w \in caller[c].list
    BY <1>37, <2>2 DEF DeleteTreeRowsFail, WriteFails, Watched
  <2>3. CASE w \notin caller[c].list
    <3>1. ~Ends(caller[c], w)
      BY <1>37, <2>3 DEF DeleteTreeRowsFail, Ends
    <3> QED
      BY <1>a, <2>1, <3>1 DEF Watched
  <2> QED
    BY <2>2, <2>3
<1>38. ASSUME ShutdownRowsFail PROVE Goal
  BY <1>38 DEF ShutdownRowsFail, Goal, Watched, WriteFails
<1> QED
  BY <1>1, <1>2, <1>3, <1>4, <1>5, <1>6, <1>7, <1>8, <1>9, <1>10, <1>11, <1>12, <1>13, <1>14, <1>15, <1>16, <1>17, <1>18, <1>19, <1>20, <1>21, <1>22, <1>23, <1>24, <1>25, <1>26, <1>27, <1>28, <1>29, <1>30, <1>31, <1>32, <1>33, <1>34,
     <1>35, <1>36, <1>37, <1>38 DEF Next

-----------------------------------------------------------------------------
(* The theorems.                                                           *)

\* The initial state: no Worker, no handle, no caller at work.
LEMMA WorkersInit == ASSUME WorkerConstants, Init PROVE WorkersInv
<1>1. IsFiniteSet(handles) /\ Cardinality(handles) = 0
  BY FS_EmptySet DEF Init
<1>2. StoreOK /\ TasksOK /\ RestOK /\ FaultsOK
  BY <1>1, WorkerConstants DEF Init, StoreOK, TasksOK, RestOK, FaultsOK
<1>3. CallersOK
  BY CallerMoves, Zenon DEF Init, CallersOK
<1>4. HandlesAreOwned /\ HandlesAreLive /\ OpenAreWatched
  BY DEF Init, HandlesAreOwned, HandlesAreLive, OpenAreWatched, Open
<1> QED
  BY <1>2, <1>3, <1>4 DEF WorkersInv, TypeParts

\* The invariant of the Workers, which the properties below follow from.
THEOREM WorkersInvariant == Spec => []WorkersInv
<1>1. Init => WorkersInv
  BY WorkersInit, WorkerConstants
<1>2. WorkersInv /\ [Next]_vars => WorkersInv'
  BY WorkerConstants, TypeStep, HandlesStep, RunningStep DEF WorkersInv
<1> QED
  BY <1>1, <1>2, PTL DEF Spec

\* Every reachable state is well typed; in particular no two callers of
\* spawn_batch_from take the active Workers past MAX_ACTIVE_CHILDREN.
THEOREM WorkersTyped == Spec => []TypeOK
<1>1. WorkersInv => TypeOK
  <2>1. CallersOK => caller \in [Callers -> CallerRecord]
    BY DEF CallersOK, Caller
  <2> QED
    BY <2>1 DEF WorkersInv, TypeParts, StoreOK, TasksOK, RestOK, FaultsOK, TypeOK
<1> QED
  BY <1>1, WorkersInvariant, PTL

\* The limit counts tasks that run: an ended Worker has given up its handle, unless
\* its task panicked and no stop has taken the handle yet.
THEOREM HandlesStayLive == Spec => []HandlesAreLive
<1>1. WorkersInv => HandlesAreLive
  BY DEF WorkersInv
<1> QED
  BY <1>1, WorkersInvariant, PTL

\* A Worker that reads as queued or running will be ended by its task, by a stop
\* that finds its handle, or by whoever took the task, in any order of stops,
\* finishes, deletions, panics, shutdowns and crashes, but where the store failed.
THEOREM RunningWorkersEnd == Spec => []RunningHasTask
<1>1. WorkersInv => RunningHasTask
  BY DEF WorkersInv, OpenAreWatched, Watched, Ends, RunningHasTask
<1> QED
  BY <1>1, WorkersInvariant, PTL

\* update_status and the sweeps never replace a Worker's final status.
THEOREM EndedWorkersStay == Spec => EndedStays
<1>1. WorkersInv /\ [Next]_vars =>
        [\A w \in Workers : row[w] \in Ended => row'[w] \in {row[w], "deleted"}]_vars
  BY RowStep DEF WorkersInv, TypeParts, RowMoves, Open, Ended, Ended
<1> QED
  BY <1>1, WorkersInvariant, PTL DEF Spec, EndedStays
=============================================================================
