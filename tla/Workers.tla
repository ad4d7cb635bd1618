------------------------------- MODULE Workers -------------------------------
(***************************************************************************)
(* Delegated Worker Runs of one parent thread: proposing and starting a    *)
(* run, the tasks that drive its Workers, stopping, waiting, deletion, the *)
(* run's time limit, shutdown and restart.                                 *)
(* Sources: crates/milim-agents/src/threads.rs (ThreadStore),              *)
(* milim-server/src/threads.rs (ThreadSupervisor),                         *)
(* milim-server/src/routes/agents/workers.rs and routes/agents.rs.         *)
(*                                                                         *)
(* A store call holds the database lock for one statement or transaction,  *)
(* so each is a step; what spans two of them can be interleaved.  Callers  *)
(* are HTTP handlers, control commands, tool calls and timers; a Worker's  *)
(* task runs what follows its stream's end without awaiting anything.  A   *)
(* store write may fail, and what a task's stream runs may panic.          *)
(***************************************************************************)
EXTENDS Naturals, FiniteSets

CONSTANTS Runs, Workers, Callers,
          Tasks,         \* how many tasks each run has
          MaxActive,     \* MAX_ACTIVE_CHILDREN
          MaxPerParent,  \* MAX_ACTIVE_CHILDREN_PER_PARENT
          MaxOps,        \* bound on operations callers begin, a shutdown too
          MaxRestarts,   \* bound on shutdowns and restarts
          MaxFaults,     \* bound on panics and failed writes of rows
          None

ASSUME WorkerConstants ==
  /\ Tasks \in [Runs -> Nat \ {0}]
  /\ {MaxActive, MaxPerParent, MaxOps, MaxRestarts, MaxFaults} \subseteq Nat
  /\ None \notin Runs \cup Workers \cup Callers

VARIABLES
  run,       \* worker_runs.status
  row,       \* threads.status of each Worker
  of,        \* threads.run_id
  task,      \* where the Worker's tokio task is
  val,       \* the run status a task has computed and will write
  handles,   \* ThreadSupervisor.handles
  aborted,   \* tasks whose abort has not taken effect yet
  caller,    \* what each caller is doing
  deadline,  \* the timer of each run
  server,    \* up, or in the steps of a shutdown
  ops, restarts,
  panicked,  \* history: Workers whose task panicked ...
  unwritten  \* ... and those whose row could not be written, in this process

store == <<run, row, of>>
tasks == <<task, val, handles, aborted>>
faults == <<panicked, unwritten>>
vars  == <<store, tasks, caller, deadline, server, ops, restarts, faults>>

Active   == {"proposed", "running"}
Ended    == {"done", "error", "stopped"}
Open     == {"queued", "running"}
Statuses == Active \cup Ended \cup {"partial"}

\* left: Workers still to start; list: Workers to stop or delete, at: the one in
\* work; val: the status a refresh will write.
Idle == [op |-> "idle", pc |-> "idle", run |-> None, left |-> 0,
         list |-> {}, at |-> None, val |-> None]

CallerRecord ==
  [op: {"idle", "start", "stop", "one", "again", "wait", "delete", "tree", "deadline"},
   pc: {"idle", "mark", "spawn", "next", "row", "read", "write", "wait", "rows"},
   run: Runs \cup {None}, left: Nat, list: SUBSET Workers,
   at: Workers \cup {None}, val: Statuses \cup {None}]

TypeOK ==
  /\ run \in [Runs -> Statuses \cup {"none", "deleted"}]
  /\ row \in [Workers -> Ended \cup Open \cup {"none", "deleted"}]
  /\ of \in [Workers -> Runs \cup {None}]
  /\ task \in [Workers -> {"none", "stream", "read", "write", "leave", "gone"}]
  /\ val \in [Workers -> Statuses \cup {None}]
  /\ handles \subseteq Workers /\ Cardinality(handles) <= MaxActive
  /\ aborted \subseteq Workers
  /\ caller \in [Callers -> CallerRecord]
  /\ deadline \in [Runs -> {"none", "armed", "passed"}]
  /\ server \in {"up", "rows", "runs", "down"}
  /\ ops \in 0..MaxOps /\ restarts \in 0..MaxRestarts
  /\ panicked \subseteq Workers /\ unwritten \subseteq Workers

Init ==
  /\ run = [r \in Runs |-> "none"]
  /\ row = [w \in Workers |-> "none"]
  /\ of = [w \in Workers |-> None]
  /\ task = [w \in Workers |-> "none"]
  /\ val = [w \in Workers |-> None]
  /\ handles = {} /\ aborted = {}
  /\ caller = [c \in Callers |-> Idle]
  /\ deadline = [r \in Runs |-> "none"]
  /\ server = "up" /\ ops = 0 /\ restarts = 0
  /\ panicked = {} /\ unwritten = {}

Members(r) == {w \in Workers : of[w] = r /\ row[w] \notin {"none", "deleted"}}

\* The Workers a stop of the run goes through.
Unended(r) == {w \in Members(r) : row[w] \in Open}

\* refresh_worker_run_status: what it computes from the rows it reads.
Computed(r) ==
  LET ws == Members(r) IN
  IF \E w \in ws : row[w] \in Open THEN "running"
  ELSE IF \A w \in ws : row[w] = "done" THEN "done"
  ELSE IF \A w \in ws : row[w] = "stopped" THEN "stopped"
  ELSE IF \E w \in ws : row[w] = "done" THEN "partial" ELSE "error"

\* update_worker_run_status: any status replaces any other.
Write(r, status) == [run EXCEPT ![r] = IF @ = "deleted" THEN @ ELSE status]

\* Mutant of UpdateRow: no guard on the status it replaces.
UpdateRowAlways(w, status) == [row EXCEPT ![w] = IF @ = "deleted" THEN @ ELSE status]

\* update_status: a Worker's final status is not replaced.
UpdateRow(w, status) == [row EXCEPT ![w] = IF @ \in Open THEN status ELSE @]

\* A write of the rows of ws fails, or the read that follows it does.
WriteFails(ws) ==
  /\ Cardinality(panicked) + Cardinality(unwritten) < MaxFaults
  /\ unwritten' = unwritten \cup {w \in ws : row'[w] \in Open}
  /\ UNCHANGED panicked

Set(c, value) == caller' = [caller EXCEPT ![c] = value]
Go(c, pc) == Set(c, [caller[c] EXCEPT !.pc = pc])
Begins(c, op, pc, r) ==
  /\ caller[c].pc = "idle" /\ ops < MaxOps /\ server # "down"
  /\ ops' = ops + 1
  /\ Set(c, [Idle EXCEPT !.op = op, !.pc = pc, !.run = r,
                         !.left = IF op = "start" THEN Tasks[r] ELSE 0])

-----------------------------------------------------------------------------
(* Starting a run.                                                         *)

\* create_worker_run_with_origin, by delegate_workers, a route or a retry.
Propose(r) ==
  /\ server # "down"
  /\ run[r] = "none"
  /\ run' = [run EXCEPT ![r] = "proposed"]
  /\ UNCHANGED <<row, of, tasks, caller, deadline, server, ops, restarts, faults>>

\* The run is read as proposed.
Start(c, r) ==
  /\ run[r] = "proposed"
  /\ Begins(c, "start", "mark", r)
  /\ UNCHANGED <<store, tasks, deadline, server, restarts, faults>>

StartMark(c) ==
  /\ caller[c].op = "start" /\ caller[c].pc = "mark"
  /\ run' = Write(caller[c].run, "running")
  /\ IF run[caller[c].run] = "deleted" THEN Set(c, Idle) ELSE Go(c, "spawn")
  /\ UNCHANGED <<row, of, tasks, deadline, server, ops, restarts, faults>>

Full ==
  \/ Cardinality(handles) >= MaxActive
  \/ Cardinality({w \in handles : row[w] # "deleted"}) >= MaxPerParent

\* spawn_batch_from, under the lock of the handles: the row, queued and then
\* running, the task and its handle.
Spawn(c) ==
  /\ caller[c].pc = "spawn" /\ caller[c].left > 0
  /\ ~Full
  /\ \E w \in Workers :
       /\ row[w] = "none"
       /\ row' = [row EXCEPT ![w] = "running"]
       /\ of' = [of EXCEPT ![w] = caller[c].run]
       /\ task' = [task EXCEPT ![w] = "stream"]
       /\ handles' = handles \cup {w}
  /\ Set(c, [caller[c] EXCEPT !.left = @ - 1])
  /\ UNCHANGED <<run, val, aborted, deadline, server, ops, restarts, faults>>

\* The row is there and a later write of it fails: the Worker gets no task.
SpawnFails(c) ==
  /\ caller[c].pc = "spawn" /\ caller[c].left > 0
  /\ ~Full
  /\ \E w \in Workers :
       /\ row[w] = "none"
       /\ \E status \in Open : row' = [row EXCEPT ![w] = status]
       /\ of' = [of EXCEPT ![w] = caller[c].run]
       /\ WriteFails({w})
  /\ Set(c, Idle)
  /\ UNCHANGED <<run, tasks, deadline, server, ops, restarts>>

\* The limit or the store refuses a Worker, or the caller goes away while its worktree is
\* prepared: the run stays as it is and its timer is not set.
StartFails(c) ==
  /\ caller[c].pc = "spawn" /\ caller[c].left > 0
  /\ Set(c, Idle)
  /\ UNCHANGED <<store, tasks, deadline, server, ops, restarts, faults>>

\* schedule_worker_run_deadline.  A tool call may go on to wait for the run.
Started(c) ==
  /\ caller[c].pc = "spawn" /\ caller[c].left = 0
  /\ deadline' = [deadline EXCEPT ![caller[c].run] = "armed"]
  /\ \/ Set(c, Idle)
     \/ Set(c, [caller[c] EXCEPT !.op = "wait", !.pc = "read"])
  /\ UNCHANGED <<store, tasks, server, ops, restarts, faults>>

-----------------------------------------------------------------------------
(* A Worker's task.                                                        *)

TaskGoes(w, pc) == task' = [task EXCEPT ![w] = pc]

\* Mutant of Finish: a Worker that was ended by someone else returns at once.
FinishEarly(w) ==
  /\ task[w] = "stream"
  /\ row' = UpdateRow(w, "done")
  /\ TaskGoes(w, IF row[w] \in Open THEN "read" ELSE "gone")
  /\ UNCHANGED <<run, of, val, handles, aborted, caller, deadline, server, ops, restarts, faults>>

\* run_child_stream: Done, Error, or the stream's end without either, which
\* refreshes the run even when the row was ended before.
Finish(w) ==
  /\ task[w] = "stream"
  /\ \E status \in {"done", "error"}, refresh \in BOOLEAN :
       /\ refresh => status = "error"
       /\ row' = UpdateRow(w, status)
       /\ TaskGoes(w, IF row[w] \in Open \/ refresh THEN "read" ELSE "leave")
  /\ UNCHANGED <<run, of, val, handles, aborted, caller, deadline, server, ops, restarts, faults>>

\* The same with a failing store: Done and Error leave it at that.
FinishFails(w) ==
  /\ task[w] = "stream"
  /\ \E status \in {"done", "error"}, pc \in {"leave", "read"} :
       /\ row' \in {row, UpdateRow(w, status)}
       /\ TaskGoes(w, pc)
  /\ WriteFails({w})
  /\ UNCHANGED <<run, of, val, handles, aborted, caller, deadline, server, ops, restarts>>

\* What the stream runs panics: nothing ends the row, and the handle stays.
Panic(w) ==
  /\ task[w] = "stream"
  /\ Cardinality(panicked) + Cardinality(unwritten) < MaxFaults
  /\ panicked' = panicked \cup {w}
  /\ TaskGoes(w, "gone") /\ aborted' = aborted \ {w}
  /\ UNCHANGED <<store, val, handles, caller, deadline, server, ops, restarts, unwritten>>

RefreshRead(w) ==
  /\ task[w] = "read"
  /\ IF run[of[w]] = "deleted" \/ Members(of[w]) = {}
     THEN TaskGoes(w, "leave") /\ UNCHANGED val
     ELSE TaskGoes(w, "write") /\ val' = [val EXCEPT ![w] = Computed(of[w])]
  /\ UNCHANGED <<store, handles, aborted, caller, deadline, server, ops, restarts, faults>>

RefreshWrite(w) ==
  /\ task[w] = "write"
  /\ run' = Write(of[w], val[w])
  /\ val' = [val EXCEPT ![w] = None]
  /\ TaskGoes(w, "leave")
  /\ UNCHANGED <<row, of, handles, aborted, caller, deadline, server, ops, restarts, faults>>

Leave(w) ==
  /\ task[w] = "leave"
  /\ TaskGoes(w, "gone")
  /\ handles' = handles \ {w} /\ aborted' = aborted \ {w}
  /\ UNCHANGED <<store, val, caller, deadline, server, ops, restarts, faults>>

\* An abort takes effect where the task awaits its stream.
Abort(w) ==
  /\ w \in aborted /\ task[w] = "stream"
  /\ TaskGoes(w, "gone") /\ aborted' = aborted \ {w}
  /\ UNCHANGED <<store, val, handles, caller, deadline, server, ops, restarts, faults>>

-----------------------------------------------------------------------------
(* Stopping, waiting, deleting.                                            *)

Listing(c, ws) == [caller[c] EXCEPT !.pc = "next", !.list = ws]

\* stop_run: the Workers that have not ended, as read here.
StopRun(c, r) ==
  /\ run[r] # "none"
  /\ caller[c].pc = "idle" /\ ops < MaxOps /\ server # "down"
  /\ ops' = ops + 1
  /\ Set(c, [Listing(c, Unended(r)) EXCEPT !.op = "stop", !.run = r])
  /\ UNCHANGED <<store, tasks, deadline, server, restarts, faults>>

\* One Worker: thread_stop ("one"), or worker_run_worker_stop ("again"), which
\* refreshes the run afterwards whatever the stop did.
StopOne(c, w) ==
  /\ of[w] # None /\ row[w] # "deleted"
  /\ caller[c].pc = "idle" /\ ops < MaxOps /\ server # "down"
  /\ ops' = ops + 1
  /\ \E op \in {"one", "again"} : Set(c, [Listing(c, {w}) EXCEPT !.op = op, !.run = of[w]])
  /\ UNCHANGED <<store, tasks, deadline, server, restarts, faults>>

\* stop: the handle is taken and its task aborted...
StopTake(c, w) ==
  /\ caller[c].pc = "next" /\ w \in caller[c].list
  /\ handles' = handles \ {w}
  /\ aborted' = IF w \in handles THEN aborted \cup {w} ELSE aborted
  /\ Set(c, [caller[c] EXCEPT !.pc = "row", !.list = @ \ {w}, !.at = w])
  /\ UNCHANGED <<store, task, val, deadline, server, ops, restarts, faults>>

\* ... then its row is marked, and the run refreshed if that changed it.
StopRow(c) ==
  /\ caller[c].pc = "row"
  /\ row' = UpdateRow(caller[c].at, "stopped")
  /\ Set(c, [caller[c] EXCEPT !.at = None, !.pc = IF row' # row THEN "read" ELSE "next"])
  /\ UNCHANGED <<run, of, tasks, deadline, server, ops, restarts, faults>>

\* The row cannot be marked: stop_run ends there, with its Workers half stopped.
StopRowFails(c) ==
  /\ caller[c].pc = "row"
  /\ row' \in {row, UpdateRow(caller[c].at, "stopped")}
  /\ WriteFails({caller[c].at})
  /\ deadline' = IF caller[c].op = "deadline" THEN [deadline EXCEPT ![caller[c].run] = "passed"]
                 ELSE deadline
  /\ Set(c, Idle)
  /\ UNCHANGED <<run, of, tasks, server, ops, restarts>>

Back(c) == IF caller[c].op = "wait" THEN "wait" ELSE "next"

CallerRead(c) ==
  /\ caller[c].pc = "read"
  /\ IF run[caller[c].run] = "deleted" THEN Set(c, Idle)
     ELSE IF Members(caller[c].run) = {} THEN Go(c, Back(c))
     ELSE Set(c, [caller[c] EXCEPT !.pc = "write", !.val = Computed(caller[c].run)])
  /\ UNCHANGED <<store, tasks, deadline, server, ops, restarts, faults>>

CallerWrite(c) ==
  /\ caller[c].pc = "write"
  /\ run' = Write(caller[c].run, caller[c].val)
  /\ Set(c, [caller[c] EXCEPT !.pc = Back(c), !.val = None])
  /\ UNCHANGED <<row, of, tasks, deadline, server, ops, restarts, faults>>

\* The end of stop_run: the run is marked whatever its Workers' rows say.  A
\* single Worker's stop does not mark the run.
StopMark(c) ==
  /\ caller[c].pc = "next" /\ caller[c].list = {}
  /\ run' = IF caller[c].op \in {"one", "again"} THEN run ELSE Write(caller[c].run, "stopped")
  /\ deadline' = IF caller[c].op = "deadline" THEN [deadline EXCEPT ![caller[c].run] = "passed"]
                 ELSE deadline
  /\ Set(c, IF caller[c].op = "again" THEN [caller[c] EXCEPT !.op = "one", !.pc = "read"]
            ELSE Idle)
  /\ UNCHANGED <<row, of, tasks, server, ops, restarts, faults>>

\* wait_run: refresh and look, until the run is over, or the wait times out; a
\* waiting delegate_workers then stops a run that is still running.
Wait(c, r) ==
  /\ run[r] \notin {"none", "deleted"}
  /\ Begins(c, "wait", "read", r)
  /\ UNCHANGED <<store, tasks, deadline, server, restarts, faults>>

WaitLooks(c) ==
  /\ caller[c].pc = "wait"
  /\ IF run[caller[c].run] \in Active THEN Go(c, "read") ELSE Set(c, Idle)
  /\ UNCHANGED <<store, tasks, deadline, server, ops, restarts, faults>>

WaitTimesOut(c) ==
  /\ caller[c].pc = "wait"
  /\ \/ Set(c, Idle)
     \/ /\ run[caller[c].run] = "running"
        /\ Set(c, [Listing(c, Unended(caller[c].run))
                   EXCEPT !.op = "stop"])
  /\ UNCHANGED <<store, tasks, deadline, server, ops, restarts, faults>>

\* The timer of a run: it stops the run if that reads as running.
DeadlineFires(c, r) ==
  /\ deadline[r] = "armed" /\ caller[c].pc = "idle" /\ server # "down"
  /\ IF run[r] = "running"
     THEN /\ Set(c, [Listing(c, Unended(r))
                     EXCEPT !.op = "deadline", !.run = r])
          /\ UNCHANGED deadline
     ELSE UNCHANGED caller /\ deadline' = [deadline EXCEPT ![r] = "passed"]
  /\ UNCHANGED <<store, tasks, server, ops, restarts, faults>>

\* worker_run_delete: the run must read as over; then its rows go.
Delete(c, r) ==
  /\ run[r] \notin Active \cup {"none", "deleted"}
  /\ Begins(c, "delete", "rows", r)
  /\ UNCHANGED <<store, tasks, deadline, server, restarts, faults>>

DeleteRows(c) ==
  /\ caller[c].op = "delete" /\ caller[c].pc = "rows"
  /\ run' = [run EXCEPT ![caller[c].run] = "deleted"]
  /\ row' = [w \in Workers |-> IF w \in Members(caller[c].run) THEN "deleted" ELSE row[w]]
  /\ Set(c, Idle)
  /\ UNCHANGED <<of, tasks, deadline, server, ops, restarts, faults>>

\* delete_tree of the parent: the rows it finds, their tasks, then all rows.
DeleteTree(c) ==
  /\ caller[c].pc = "idle" /\ ops < MaxOps /\ server # "down"
  /\ \E w \in Workers : row[w] \notin {"none", "deleted"}
  /\ ops' = ops + 1
  /\ Set(c, [Idle EXCEPT !.op = "tree", !.pc = "mark",
                         !.list = {w \in Workers : row[w] \notin {"none", "deleted"}}])
  /\ UNCHANGED <<store, tasks, deadline, server, restarts, faults>>

DeleteTreeTakes(c) ==
  /\ caller[c].op = "tree" /\ caller[c].pc = "mark"
  /\ handles' = handles \ caller[c].list
  /\ aborted' = aborted \cup (handles \cap caller[c].list)
  /\ Go(c, "rows")
  /\ UNCHANGED <<store, task, val, deadline, server, ops, restarts, faults>>

DeleteTreeRows(c) ==
  /\ caller[c].op = "tree" /\ caller[c].pc = "rows"
  /\ run' = [r \in Runs |-> IF run[r] = "none" THEN "none" ELSE "deleted"]
  /\ row' = [w \in Workers |-> IF row[w] = "none" THEN "none" ELSE "deleted"]
  /\ Set(c, Idle)
  /\ UNCHANGED <<of, tasks, deadline, server, ops, restarts, faults>>

\* The tasks are gone and the rows stay; the run may be deleted before that.
DeleteTreeRowsFail(c) ==
  /\ caller[c].op = "tree" /\ caller[c].pc = "rows"
  /\ run' \in {run, [r \in Runs |-> IF run[r] = "none" THEN "none" ELSE "deleted"]}
  /\ UNCHANGED <<row, of, tasks, deadline, server, ops, restarts>>
  /\ WriteFails(caller[c].list)
  /\ Set(c, Idle)

-----------------------------------------------------------------------------
(* Shutdown, exit and restart.                                             *)

\* stop_running_children: take every handle, then mark the rows ...
ShutdownTakes ==
  /\ server = "up" /\ ops < MaxOps /\ restarts < MaxRestarts
  /\ server' = "rows" /\ ops' = ops + 1
  /\ aborted' = aborted \cup handles /\ handles' = {}
  /\ UNCHANGED <<store, task, val, caller, deadline, restarts, faults>>

ShutdownRows ==
  /\ server = "rows"
  /\ server' = "runs"
  /\ row' = [w \in Workers |-> IF row[w] = "running" THEN "stopped" ELSE row[w]]
  /\ UNCHANGED <<run, of, tasks, caller, deadline, ops, restarts, faults>>

ShutdownRowsFail ==
  /\ server = "rows"
  /\ server' = "runs"
  /\ UNCHANGED <<store, tasks, caller, deadline, ops, restarts>>
  /\ WriteFails(Workers)

\* ... and the runs.
EndRuns == [r \in Runs |-> IF run[r] \in Active THEN "error" ELSE run[r]]

ShutdownRuns ==
  /\ server = "runs"
  /\ server' = "down"
  /\ run' = EndRuns
  /\ UNCHANGED <<row, of, tasks, caller, deadline, ops, restarts, faults>>

\* Mutant of SweptRows: only the runs are swept.
SweptRowsNone == row

\* ThreadSupervisor::new ends what a previous process left open.
SweptRows == [w \in Workers |-> IF row[w] \in Open THEN "error" ELSE row[w]]

\* The process ends, orderly or not, and the next one starts.
Restart ==
  /\ restarts < MaxRestarts
  /\ restarts' = restarts + 1 /\ server' = "up"
  /\ \/ row' = SweptRows /\ run' = EndRuns /\ unwritten' = {}
     \/ /\ Cardinality(panicked) + Cardinality(unwritten) < MaxFaults
        /\ row' = row /\ run' \in {run, EndRuns}
        /\ unwritten' = {w \in Workers : row[w] \in Open}
  /\ panicked' = {}
  /\ task' = [w \in Workers |-> IF task[w] = "none" THEN "none" ELSE "gone"]
  /\ val' = [w \in Workers |-> None]
  /\ handles' = {} /\ aborted' = {}
  /\ caller' = [c \in Callers |-> Idle]
  /\ deadline' = [r \in Runs |-> "none"]
  /\ UNCHANGED <<of, ops>>

Next ==
  \/ \E r \in Runs : Propose(r)
  \/ \E w \in Workers : Finish(w) \/ RefreshRead(w) \/ RefreshWrite(w) \/ Leave(w) \/ Abort(w)
  \/ \E w \in Workers : FinishFails(w) \/ Panic(w)
  \/ \E c \in Callers, r \in Runs :
       Start(c, r) \/ StopRun(c, r) \/ Wait(c, r) \/ DeadlineFires(c, r) \/ Delete(c, r)
  \/ \E c \in Callers, w \in Workers : StopOne(c, w) \/ StopTake(c, w)
  \/ \E c \in Callers :
       \/ StartMark(c) \/ Spawn(c) \/ SpawnFails(c) \/ StartFails(c) \/ Started(c)
       \/ StopRow(c) \/ StopRowFails(c) \/ CallerRead(c) \/ CallerWrite(c) \/ StopMark(c)
       \/ WaitLooks(c) \/ WaitTimesOut(c)
       \/ DeleteRows(c) \/ DeleteTree(c) \/ DeleteTreeTakes(c) \/ DeleteTreeRows(c)
       \/ DeleteTreeRowsFail(c)
  \/ ShutdownTakes \/ ShutdownRows \/ ShutdownRowsFail \/ ShutdownRuns \/ Restart

Spec == Init /\ [][Next]_vars

-----------------------------------------------------------------------------
(* Properties.                                                             *)

\* A Worker that reads as queued or running has a task that will end it, a handle
\* by which a stop finds it though its task panicked, or someone who took the task
\* and is about to mark the row: no stop, finish, deletion, shutdown or crash
\* leaves one running forever in the list, but where the store failed.
RunningHasTask ==
  \A w \in Workers :
    row[w] \in Open =>
      \/ w \in handles /\ (task[w] = "stream" \/ w \in panicked)
      \/ \E c \in Callers : caller[c].pc = "row" /\ caller[c].at = w
      \/ \E c \in Callers : caller[c].op = "tree" /\ caller[c].pc = "rows" /\ w \in caller[c].list
      \/ server = "rows"
      \/ w \in unwritten

\* The handles, against which the limit on active Workers counts, are those of
\* tasks that still run: a Worker ended by anyone frees its place.  Only a panic
\* keeps the place, until the Worker is stopped.
HandlesAreLive == \A w \in handles : task[w] \notin {"none", "gone"} \/ w \in panicked

\* A Worker's final status and report stay: a stop does not replace a Worker's
\* answer, and a late answer does not revive a stopped Worker.
EndedStays ==
  [][\A w \in Workers : row[w] \in Ended => row'[w] \in {row[w], "deleted"}]_vars
=============================================================================
