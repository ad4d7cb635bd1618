------------------------------- MODULE Replica -------------------------------
(***************************************************************************)
(* The timelines of a host's threads and the phone's replica of the one    *)
(* it shows: append and live event, the bounded broadcast channel and its  *)
(* socket, timeline pages, and the controller that merges pages and events *)
(* and keeps a cached tail per thread.                                     *)
(* Sources: crates/milim-server/src/control/events.rs, routes/control.rs,  *)
(* milim-storage/db.rs, apps/mobile/src/control/replica.ts,                *)
(* apps/mobile/src/controller/useMilimController.ts and storage/cache.ts.  *)
(*                                                                         *)
(* An item is its sequence number: coordinates are immutable while the     *)
(* server lives.  A thread's epoch is made once, so the thread stands for  *)
(* it.                                                                     *)
(***************************************************************************)
EXTENDS Integers, Sequences, FiniteSets, FiniteSetsExt

CONSTANTS Threads, None,
          TailSize,    \* items of a tail page, and of a cached tail
          PageSize,    \* items of an after or before page
          Capacity,    \* CONTROL_EVENT_CAPACITY
          InitLen,     \* timeline lengths at the start
          InitSaved,   \* what an earlier session had seen of them, 0 for nothing
          MaxAppends,
          MaxUses,     \* bound on what the person does
          MaxFaults    \* bound on lost connections and failed requests

ASSUME ReplicaConstants ==
  /\ None \notin Threads
  /\ {TailSize, PageSize, Capacity} \subseteq Nat \ {0}
  /\ InitLen \in [Threads -> Nat] /\ InitSaved \in [Threads -> Nat]
  /\ \A t \in Threads : InitSaved[t] <= InitLen[t]
  /\ {MaxAppends, MaxUses, MaxFaults} \subseteq Nat

VARIABLES
  len,      \* the timeline of each thread is 1..len
  unsent,   \* items appended and not yet emitted
  channel,  \* the socket's receiver of the broadcast channel
  lagged,   \* the channel dropped events the receiver had not read
  socket,   \* the server's socket loop runs
  online,   \* status of the controller
  known,    \* an endpoint and a credential are at hand
  sel,      \* selectedThreadRef
  loading,  \* the thread whose cached tail is being read, or None
  shown,    \* timelineRef
  buffer,   \* eventBuffer
  asked,    \* timelineRefreshPromises
  saving,   \* pendingTimelineCache
  key,      \* lastTimelineCacheKey
  cache,    \* timeline_tails
  left      \* what remains of each bound

server == <<len, unsent>>
link   == <<channel, lagged, socket, online, known>>
view   == <<sel, loading, shown, buffer, asked>>
store  == <<saving, key, cache>>
vars   == <<server, link, view, store, left>>

Modes == {"tail", "after", "before"}
Items == SUBSET (Nat \ {0})
Replica == [thread: Threads, epoch: Threads \cup {None}, items: Items,
            older: BOOLEAN, newer: BOOLEAN, refresh: BOOLEAN]
PageOf  == [items: Items, older: BOOLEAN, newer: BOOLEAN]
Query   == [kind: Modes, seq: Nat]
Request == [thread: Threads, base: Replica, mode: Modes, query: Query,
            page: PageOf \cup {None}]
Sync    == [thread |-> None, seq |-> 0]   \* sync.required
Events  == [thread: Threads, seq: Nat] \cup {Sync}

TypeOK ==
  /\ len \in [Threads -> Nat]
  /\ unsent \subseteq [thread: Threads, seq: Nat]
  /\ channel \in Seq(Events) /\ Len(channel) <= Capacity
  /\ {lagged, socket, online, known} \subseteq BOOLEAN
  /\ sel \in Threads /\ loading \in Threads \cup {None}
  /\ shown \in Replica \cup {None}
  /\ buffer \in Seq(Events)
  /\ asked \in [Modes -> Request \cup {None}]
  /\ saving \in Replica \cup {None}
  /\ key \in [thread: Threads \cup {None}, epoch: Threads \cup {None}, last: Nat]
  /\ cache \in [Threads -> Replica \cup {None}]

\* ORDER BY seq ... LIMIT n, of either end
Newest(n, S) == {i \in S : Cardinality({j \in S : j > i}) < n}
Oldest(n, S) == {i \in S : Cardinality({j \in S : j < i}) < n}

\* emptyReplica
Empty(t) == [thread |-> t, epoch |-> None, items |-> {},
             older |-> FALSE, newer |-> FALSE, refresh |-> FALSE]

LastSeq(r) == IF r.items = {} THEN 0 ELSE Max(r.items)
NoKey == [thread |-> None, epoch |-> None, last |-> 0]

Init ==
  /\ len = InitLen /\ unsent = {}
  /\ channel = <<>> /\ lagged = FALSE /\ socket = FALSE
  /\ online = FALSE /\ known = FALSE
  /\ sel \in Threads /\ loading = sel /\ shown = None /\ buffer = <<>>
  /\ asked = [m \in Modes |-> None]
  /\ saving = None /\ key = NoKey
  /\ cache = [t \in Threads |->
       IF InitSaved[t] = 0 THEN None
       ELSE LET items == Newest(TailSize, 1..InitSaved[t])
            IN [thread |-> t, epoch |-> t, items |-> items, older |-> 1 \notin items,
                newer |-> FALSE, refresh |-> FALSE]]
  /\ left = [appends |-> MaxAppends, uses |-> MaxUses, faults |-> MaxFaults]

Spent(k) == left[k] > 0 /\ left' = [left EXCEPT ![k] = @ - 1]

-----------------------------------------------------------------------------
(* The server.                                                             *)

\* persist_and_emit: the item is durable before it is announced, and two
\* appenders may announce in either order.
AppendItem(t) ==
  /\ Spent("appends")
  /\ len' = [len EXCEPT ![t] = @ + 1]
  /\ unsent' = unsent \cup {[thread |-> t, seq |-> len[t] + 1]}
  /\ UNCHANGED <<link, view, store>>

\* A full channel drops its oldest event.
Emit(e) ==
  /\ e \in unsent
  /\ unsent' = unsent \ {e}
  /\ IF ~socket THEN UNCHANGED <<channel, lagged>>
     ELSE /\ channel' = Append(IF Len(channel) = Capacity THEN Tail(channel) ELSE channel, e)
          /\ lagged' = (lagged \/ Len(channel) = Capacity)
  /\ UNCHANGED <<len, socket, online, known, view, store, left>>

\* control_socket_loop: a lag is sent as sync.required.
Deliver ==
  /\ socket /\ channel # <<>>
  /\ IF lagged THEN /\ buffer' = Append(buffer, Sync)
                    /\ lagged' = FALSE /\ UNCHANGED channel
     ELSE /\ buffer' = Append(buffer, Head(channel))
          /\ channel' = Tail(channel) /\ UNCHANGED lagged
  /\ UNCHANGED <<server, socket, online, known, sel, loading, shown, asked, store, left>>

\* query_control_timeline_page
Page(t, q) ==
  LET all == 1..len[t]
      items == CASE q.kind = "after"  -> Oldest(PageSize, {i \in all : i > q.seq})
                 [] q.kind = "before" -> Newest(PageSize, {i \in all : i < q.seq})
                 [] q.kind = "tail"   -> Newest(TailSize, all)
  IN [items |-> items,
      older |-> items # {} /\ 1 < Min(items),
      newer |-> items # {} /\ len[t] > Max(items)]

Answer(m) ==
  /\ asked[m] # None /\ asked[m].page = None
  /\ asked' = [asked EXCEPT ![m].page = Page(asked[m].thread, asked[m].query)]
  /\ UNCHANGED <<server, link, sel, loading, shown, buffer, store, left>>

-----------------------------------------------------------------------------
(* replica.ts                                                              *)

Replaced(t, page, refresh) ==
  [thread |-> t, epoch |-> t, items |-> page.items, older |-> page.older,
   newer |-> page.newer, refresh |-> refresh]

MiddleGap(r, page, m) ==
  m = "after" /\ r.items # {} /\ page.items # {} /\ Min(page.items) > Max(r.items) + 1

ApplyTimelinePage(r, t, page, m) ==
  IF r.epoch # t \/ MiddleGap(r, page, m) \/ m = "tail"
  THEN Replaced(t, page, MiddleGap(r, page, m))
  ELSE [r EXCEPT !.items = @ \cup page.items,
                 !.older = IF m = "before" THEN page.older ELSE @,
                 !.newer = IF m = "after" THEN page.newer ELSE @,
                 !.refresh = FALSE]

\* Mutant of ApplyEvent: any later item is appended.
ApplyEventAcrossGaps(r, e) ==
  IF e = Sync THEN [r EXCEPT !.refresh = TRUE]
  ELSE IF e.thread # r.thread THEN r
  ELSE [r EXCEPT !.epoch = e.thread, !.items = @ \cup {e.seq}]

\* One event of applyControlEvents; a replica without items takes any.
ApplyEvent(r, e) ==
  IF e = Sync THEN [r EXCEPT !.refresh = TRUE]
  ELSE IF e.thread # r.thread THEN r
  ELSE IF r.epoch \notin {None, e.thread} THEN [r EXCEPT !.refresh = TRUE]
  ELSE IF r.items = {} \/ e.seq = Max(r.items) + 1
       THEN [r EXCEPT !.epoch = e.thread, !.items = @ \cup {e.seq}]
  ELSE IF e.seq > Max(r.items) + 1 THEN [r EXCEPT !.refresh = TRUE]
  ELSE r

\* applyControlEvents
ApplyEvents(r, es) ==
  LET after[n \in 0..Len(es)] == IF n = 0 THEN r ELSE ApplyEvent(after[n - 1], es[n])
  IN  after[Len(es)]

-----------------------------------------------------------------------------
(* The controller.                                                         *)

\* refreshTimeline: one request of a mode at a time, whatever its thread; the
\* replica it will be merged into is the one shown now.
RefreshOf(r, t, m) ==
  LET base == IF r = None THEN Empty(t) ELSE r
      query == CASE m = "before" -> [kind |-> m, seq |-> Min(base.items)]
                 [] m = "after" /\ base.items # {} -> [kind |-> m, seq |-> Max(base.items)]
                 [] OTHER -> [kind |-> "tail", seq |-> 0]
  IN [thread |-> t, base |-> base, mode |-> m, query |-> query, page |-> None]

Refreshed(r, t, m) ==
  IF asked[m] # None THEN asked ELSE [asked EXCEPT ![m] = RefreshOf(r, t, m)]

\* A command's reconciliation, or "Load earlier messages".
AskAfter ==
  /\ known /\ asked["after"] = None
  /\ Spent("uses")
  /\ asked' = Refreshed(shown, sel, "after")
  /\ UNCHANGED <<server, link, sel, loading, shown, buffer, store>>

AskBefore ==
  /\ known /\ asked["before"] = None
  /\ shown # None /\ shown.items # {} /\ shown.older
  /\ Spent("uses")
  /\ asked' = Refreshed(shown, sel, "before")
  /\ UNCHANGED <<server, link, sel, loading, shown, buffer, store>>

\* Mutant of Receive: the answer is shown whatever is selected now.
ReceiveForAny(m) ==
  /\ asked[m] # None /\ asked[m].page # None
  /\ shown' = ApplyTimelinePage(asked[m].base, asked[m].thread, asked[m].page, asked[m].mode)
  /\ saving' = shown'
  /\ asked' = [asked EXCEPT ![m] = None]
  /\ UNCHANGED <<server, link, sel, loading, buffer, key, cache, left>>

\* The rest of refreshTimeline.  A page that leaves a gap is followed by a tail.
Receive(m) ==
  /\ asked[m] # None /\ asked[m].page # None
  /\ LET q == asked[m]
         next == ApplyTimelinePage(q.base, q.thread, q.page, q.mode)
     IN IF next.refresh
        THEN /\ asked' = [asked EXCEPT ![m] =
                  [RefreshOf(next, q.thread, "tail") EXCEPT !.base = next]]
             /\ UNCHANGED <<shown, saving>>
        ELSE /\ asked' = [asked EXCEPT ![m] = None]
             /\ IF q.thread = sel THEN shown' = next /\ saving' = next
                ELSE UNCHANGED <<shown, saving>>
  /\ UNCHANGED <<server, link, sel, loading, buffer, key, cache, left>>

Fail(m) ==
  /\ asked[m] # None
  /\ Spent("faults")
  /\ asked' = [asked EXCEPT ![m] = None]
  /\ UNCHANGED <<server, link, sel, loading, shown, buffer, store>>

\* The frame of queueControlEvent; only a newly set flag asks for a tail.
Flush ==
  /\ buffer # <<>>
  /\ buffer' = <<>>
  /\ IF shown = None THEN UNCHANGED <<shown, asked>>
     ELSE /\ shown' = ApplyEvents(shown, buffer)
          /\ asked' = IF shown'.refresh /\ ~shown.refresh
                      THEN Refreshed(shown', sel, "tail") ELSE asked
  /\ UNCHANGED <<server, link, sel, loading, store, left>>

\* The bootstrap answered: online, and a refresh.  Events of the connection
\* before are discarded; the socket is opened only afterwards.
GoOnline ==
  /\ ~online
  /\ online' = TRUE /\ known' = TRUE
  /\ buffer' = <<>>
  /\ asked' = Refreshed(shown, sel, "after")
  /\ UNCHANGED <<server, channel, lagged, socket, sel, loading, shown, store, left>>

OpenSocket ==
  /\ online /\ ~socket
  /\ socket' = TRUE /\ channel' = <<>> /\ lagged' = FALSE
  /\ UNCHANGED <<server, online, known, view, store, left>>

CloseSocket ==
  /\ socket
  /\ Spent("faults")
  /\ socket' = FALSE /\ online' = FALSE /\ channel' = <<>> /\ lagged' = FALSE
  /\ UNCHANGED <<server, known, view, store>>

Select(t) ==
  /\ t # sel
  /\ Spent("uses")
  /\ sel' = t /\ loading' = t
  /\ UNCHANGED <<server, link, shown, buffer, asked, store>>

\* The cached tail is painted, then refreshed.
Load ==
  /\ loading # None
  /\ loading' = None
  /\ shown' = IF cache[sel] = None THEN Empty(sel)
              ELSE ApplyTimelinePage(Empty(sel), cache[sel].thread, cache[sel], "tail")
  /\ asked' = IF online THEN Refreshed(shown', sel, "after") ELSE asked
  /\ UNCHANGED <<server, link, sel, buffer, store, left>>

\* flushTimelineCache with pageFromReplica; the tail saved last is not saved again.
SaveTail ==
  /\ saving # None
  /\ saving' = None
  /\ key' = [thread |-> saving.thread, epoch |-> saving.epoch, last |-> LastSeq(saving)]
  /\ LET items == Newest(TailSize, saving.items)
     IN cache' = IF key' = key THEN cache
                 ELSE [cache EXCEPT ![saving.thread] =
                         [saving EXCEPT !.items = items, !.older = @ \/ items # saving.items]]
  /\ UNCHANGED <<server, link, view, left>>

-----------------------------------------------------------------------------
Next ==
  \/ \E t \in Threads : AppendItem(t) \/ Select(t)
  \/ \E e \in unsent : Emit(e)
  \/ \E m \in Modes : Answer(m) \/ Receive(m) \/ Fail(m)
  \/ Deliver \/ Flush \/ AskAfter \/ AskBefore
  \/ GoOnline \/ OpenSocket \/ CloseSocket \/ Load \/ SaveTail

Spec == Init /\ [][Next]_vars

-----------------------------------------------------------------------------
(* Properties.                                                             *)

PieceOf(r) ==
  \/ r.items = {}
  \/ /\ r.items = Min(r.items)..Max(r.items)
     /\ Max(r.items) <= len[r.epoch]

\* applyTimelinePage and applyControlEvents: whatever order events and pages
\* come in, what is shown and what is cached is an unbroken piece of one
\* thread's timeline.
ReplicaIsPiece ==
  /\ shown # None => PieceOf(shown)
  /\ \A t \in Threads : cache[t] # None => PieceOf(cache[t])

\* refreshTimeline's check after its fetch: the answer to a request of another
\* thread is never shown, nor cached as this one's.
ShowsSelectedThread ==
  /\ loading = None => shown.thread = sel /\ shown.epoch \in {None, sel}
  /\ \A t \in Threads : cache[t] # None => cache[t].epoch = t

\* Nothing is under way between the phone and its host.
Idle ==
  /\ socket /\ ~lagged /\ channel = <<>> /\ buffer = <<>> /\ unsent = {}
  /\ loading = None /\ \A m \in Modes : asked[m] = None

\* A connected phone with nothing under way shows the newest item.
IdleReplicaIsCurrent == Idle => len[sel] \in shown.items \cup {0}
=============================================================================
