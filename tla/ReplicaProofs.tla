---------------------------- MODULE ReplicaProofs ----------------------------
(***************************************************************************)
(* Proofs about the phone's replica, for any threads, timelines, page and  *)
(* channel sizes: what is shown and what is cached is an unbroken piece of *)
(* the selected thread's timeline.                                         *)
(*                                                                         *)
(* ReplicaInv adds where pieces can come from: the events under way are of *)
(* items that exist (EventInv), every replica, shown, saved, cached or     *)
(* about to be merged, is a piece of its own thread (ViewInv, StoreInv),   *)
(* and a page fits the replica that its request remembered (AskedInv).     *)
(***************************************************************************)
EXTENDS Replica, FiniteSetTheorems, NaturalsInduction, WellFoundedInduction, TLAPS

-----------------------------------------------------------------------------
(* Intervals.                                                              *)

Positive == Nat \ {0}

LEMMA EndsOfInterval ==
  ASSUME NEW a \in Positive, NEW b \in Positive, a <= b
  PROVE  a..b # {} /\ Min(a..b) = a /\ Max(a..b) = b
<1>1. a \in a..b /\ b \in a..b
  BY DEF Positive
<1>2. Min(a..b) \in a..b /\ \A y \in a..b : Min(a..b) <= y
  BY <1>1 DEF Min, Positive
<1>3. Max(a..b) \in a..b /\ \A y \in a..b : Max(a..b) >= y
  BY <1>1 DEF Max, Positive
<1> QED
  BY <1>1, <1>2, <1>3 DEF Positive

\* How many numbers of an interval are before, and after, one of them.
LEMMA IntervalSize ==
  ASSUME NEW a \in Nat, NEW b \in Nat, NEW i \in a..b
  PROVE  /\ Cardinality({j \in a..b : j < i}) = i - a
         /\ Cardinality({j \in a..b : j > i}) = b - i
<1>1. {j \in a..b : j < i} = a..(i - 1) /\ {j \in a..b : j > i} = (i + 1)..b
  OBVIOUS
<1>2. a \in Int /\ b \in Int /\ i - 1 \in Int /\ i + 1 \in Int
  OBVIOUS
<1>3. Cardinality(a..(i - 1)) = (IF a > i - 1 THEN 0 ELSE (i - 1) - a + 1)
  BY <1>2, FS_Interval
<1>4. Cardinality((i + 1)..b) = (IF i + 1 > b THEN 0 ELSE b - (i + 1) + 1)
  BY <1>2, FS_Interval
<1>5. Cardinality(a..(i - 1)) = i - a /\ Cardinality((i + 1)..b) = b - i
  BY <1>3, <1>4
<1> QED
  BY <1>1, <1>5

\* The items of a timeline of length n that are a piece of it.
Piece(S, n) == S = {} \/ \E a, b \in Positive : a <= b /\ b <= n /\ S = a..b

LEMMA PieceEnds ==
  ASSUME NEW n \in Nat, NEW S, Piece(S, n), S # {}
  PROVE  /\ Min(S) \in Positive /\ Max(S) \in Positive /\ Min(S) <= Max(S) /\ Max(S) <= n
         /\ S = Min(S)..Max(S)
<1>1. PICK a, b \in Positive : a <= b /\ b <= n /\ S = a..b
  BY DEF Piece
<1> QED
  BY <1>1, EndsOfInterval

LEMMA PieceGrows ==
  ASSUME NEW n \in Nat, NEW k \in Nat, n <= k, NEW S, Piece(S, n)
  PROVE  Piece(S, k)
  BY DEF Piece, Positive

LEMMA PieceItems ==
  ASSUME NEW n \in Nat, NEW S, Piece(S, n)
  PROVE  S \in Items
  BY DEF Piece, Positive, Items

\* Pieces that adjoin each other make a piece.
LEMMA PiecesJoin ==
  ASSUME NEW n \in Nat, NEW S, NEW T, Piece(S, n), Piece(T, n),
         S # {} /\ T # {} => Max(S) + 1 = Min(T)
  PROVE  Piece(S \cup T, n) /\ Piece(T \cup S, n)
<1>1. CASE S = {} \/ T = {}
  <2>1. S \cup T = S \/ S \cup T = T
    BY <1>1
  <2>2. T \cup S = S \cup T
    OBVIOUS
  <2> QED
    BY <2>1, <2>2
<1>2. CASE S # {} /\ T # {}
  <2>1. PICK a, b \in Positive : a <= b /\ b <= n /\ S = a..b
    BY <1>2 DEF Piece
  <2>2. PICK c, d \in Positive : c <= d /\ d <= n /\ T = c..d
    BY <1>2 DEF Piece
  <2>3. c = b + 1
    BY <1>2, <2>1, <2>2, EndsOfInterval
  <2>4. S \cup T = a..d /\ T \cup S = a..d
    BY <2>1, <2>2, <2>3 DEF Positive
  <2>5. a <= d
    BY <2>1, <2>2, <2>3 DEF Positive
  <2> QED
    BY <2>1, <2>2, <2>4, <2>5 DEF Piece
<1> QED
  BY <1>1, <1>2

LEMMA OneItem ==
  ASSUME NEW n \in Nat, NEW i \in 1..n
  PROVE  Piece({i}, n) /\ Min({i}) = i /\ Max({i}) = i
<1>1. i \in Positive /\ i <= n /\ i <= i /\ {i} = i..i
  BY DEF Positive
<1>2. Piece({i}, n)
  BY <1>1 DEF Piece
<1>3. Min(i..i) = i /\ Max(i..i) = i
  BY <1>1, EndsOfInterval
<1> QED
  BY <1>1, <1>2, <1>3

\* ORDER BY seq ... LIMIT k: an end of an interval.
LEMMA NewestOfInterval ==
  ASSUME NEW k \in Positive, NEW a \in Positive, NEW b \in Nat, NEW n \in Nat, b <= n
  PROVE  /\ Newest(k, a..b) \subseteq a..b /\ Piece(Newest(k, a..b), n)
         /\ a <= b => Newest(k, a..b) # {} /\ Max(Newest(k, a..b)) = b
<1> DEFINE c == IF b - k + 1 > a THEN b - k + 1 ELSE a
<1>1. c \in Positive /\ a <= c /\ (a <= b => c <= b)
  BY DEF Positive
<1>2. Newest(k, a..b) = c..b
  <2>1. \A i \in a..b : Cardinality({j \in a..b : j > i}) = b - i
    BY IntervalSize DEF Positive
  <2>2. \A i \in a..b : b - i < k <=> i \in c..b
    BY DEF Positive
  <2>3. \A i \in c..b : i \in a..b
    BY <1>1 DEF Positive
  <2> HIDE DEF c
  <2> QED
    BY <2>1, <2>2, <2>3 DEF Newest
<1> HIDE DEF c
<1>3. CASE a <= b
  <2>1. b \in Positive
    BY <1>3 DEF Positive
  <2>2. c..b \subseteq a..b
    BY <1>1 DEF Positive
  <2> QED
    BY <1>1, <1>2, <1>3, <2>1, <2>2, EndsOfInterval DEF Piece
<1>4. CASE ~(a <= b)
  <2>1. a..b = {}
    BY <1>4 DEF Positive
  <2> QED
    BY <2>1, <1>4 DEF Newest, Piece
<1> QED
  BY <1>3, <1>4

LEMMA OldestOfInterval ==
  ASSUME NEW k \in Positive, NEW a \in Positive, NEW b \in Nat, NEW n \in Nat, b <= n
  PROVE  /\ Oldest(k, a..b) \subseteq a..b /\ Piece(Oldest(k, a..b), n)
         /\ a <= b => Oldest(k, a..b) # {} /\ Min(Oldest(k, a..b)) = a
<1> DEFINE d == IF a + k - 1 < b THEN a + k - 1 ELSE b
<1>1. d \in Nat /\ d <= b /\ (a <= b => a <= d)
  BY DEF Positive
<1>2. Oldest(k, a..b) = a..d
  <2>1. \A i \in a..b : Cardinality({j \in a..b : j < i}) = i - a
    BY IntervalSize DEF Positive
  <2>2. \A i \in a..b : i - a < k <=> i \in a..d
    BY DEF Positive
  <2>3. \A i \in a..d : i \in a..b
    BY <1>1 DEF Positive
  <2> HIDE DEF d
  <2> QED
    BY <2>1, <2>2, <2>3 DEF Oldest
<1> HIDE DEF d
<1>3. CASE a <= b
  <2>1. d \in Positive /\ d <= n
    BY <1>1, <1>3 DEF Positive
  <2>2. a..d \subseteq a..b
    BY <1>1 DEF Positive
  <2> QED
    BY <1>1, <1>2, <1>3, <2>1, <2>2, EndsOfInterval DEF Piece
<1>4. CASE ~(a <= b)
  <2>1. a..b = {}
    BY <1>4 DEF Positive
  <2> QED
    BY <2>1, <1>4 DEF Oldest, Piece
<1> QED
  BY <1>3, <1>4

\* A tail of a piece is a piece.
LEMMA TailOfPiece ==
  ASSUME NEW k \in Positive, NEW n \in Nat, NEW S, Piece(S, n)
  PROVE  Piece(Newest(k, S), n)
<1>1. CASE S = {}
  BY <1>1 DEF Newest, Piece
<1>2. CASE S # {}
  <2>1. PICK a, b \in Positive : a <= b /\ b <= n /\ S = a..b
    BY <1>2 DEF Piece
  <2>2. b \in Nat
    BY DEF Positive
  <2> QED
    BY <2>1, <2>2, NewestOfInterval
<1> QED
  BY <1>1, <1>2

-----------------------------------------------------------------------------
(* Replicas that are a piece, for timelines of the lengths L.              *)

Whole(r, L) ==
  /\ r \in Replica
  /\ r.epoch \in {None, r.thread}
  /\ r.items # {} => r.epoch = r.thread
  /\ Piece(r.items, L[r.thread])

Lengths == [Threads -> Nat]
Grown(L, M) == \A t \in Threads : L[t] <= M[t]

LEMMA WholeGrows ==
  ASSUME NEW L \in Lengths, NEW M \in Lengths, Grown(L, M), NEW r, Whole(r, L)
  PROVE  Whole(r, M)
  BY PieceGrows DEF Whole, Replica, Lengths, Grown

LEMMA EmptyIsWhole ==
  ASSUME ReplicaConstants, NEW L, NEW t \in Threads
  PROVE  Whole(Empty(t), L) /\ Empty(t).thread = t /\ Empty(t).epoch = None /\ Empty(t).items = {}
  BY DEF Whole, Empty, Replica, Items, Piece

\* The fields of a replica.
LEMMA ReplicaFields ==
  ASSUME NEW r \in Replica
  PROVE  /\ r.thread \in Threads /\ r.epoch \in Threads \cup {None} /\ r.items \in Items
         /\ r.older \in BOOLEAN /\ r.newer \in BOOLEAN /\ r.refresh \in BOOLEAN
         /\ [r EXCEPT !.refresh = TRUE].thread = r.thread /\ [r EXCEPT !.refresh = TRUE].epoch = r.epoch
         /\ [r EXCEPT !.refresh = TRUE].items = r.items /\ [r EXCEPT !.refresh = TRUE] \in Replica
  BY DEF Replica

\* An announced event: a lag, or an item that exists.
Announced(e, L) == e = Sync \/ (e \in [thread: Threads, seq: Nat] /\ e.seq \in 1..L[e.thread])

LEMMA AnnouncedGrows ==
  ASSUME NEW L \in Lengths, NEW M \in Lengths, Grown(L, M), NEW e, Announced(e, L)
  PROVE  Announced(e, M)
<1>1. CASE e = Sync
  BY <1>1 DEF Announced
<1>2. CASE e # Sync
  <2>1. e \in [thread: Threads, seq: Nat] /\ e.seq \in 1..L[e.thread]
    BY <1>2 DEF Announced
  <2>2. e.thread \in Threads /\ e.seq \in Nat
    BY <2>1
  <2>3. L[e.thread] \in Nat /\ M[e.thread] \in Nat /\ L[e.thread] <= M[e.thread]
    BY <2>2 DEF Lengths, Grown
  <2> QED
    BY <2>1, <2>2, <2>3 DEF Announced
<1> QED
  BY <1>1, <1>2

\* An event keeps a replica whole and of its thread.
LEMMA EventKeeps ==
  ASSUME ReplicaConstants, NEW L \in Lengths, NEW r, Whole(r, L), NEW e, Announced(e, L)
  PROVE  Whole(ApplyEvent(r, e), L) /\ ApplyEvent(r, e).thread = r.thread
<1>1. r \in Replica
  BY DEF Whole
<1>2. Whole([r EXCEPT !.refresh = TRUE], L) /\ [r EXCEPT !.refresh = TRUE].thread = r.thread
  BY <1>1, ReplicaFields DEF Whole
<1>3. CASE e # Sync /\ e.thread = r.thread /\ r.epoch \in {None, e.thread}
           /\ (r.items = {} \/ e.seq = Max(r.items) + 1)
  <2> DEFINE x == [r EXCEPT !.epoch = e.thread, !.items = @ \cup {e.seq}]
  <2>1. e.thread \in Threads /\ e.seq \in 1..L[e.thread] /\ L[e.thread] \in Nat
    <3>1. e \in [thread: Threads, seq: Nat] /\ e.seq \in 1..L[e.thread]
      BY <1>3 DEF Announced
    <3>2. e.thread \in Threads
      BY <3>1
    <3> QED
      BY <3>1, <3>2 DEF Lengths
  <2>2. Piece({e.seq}, L[r.thread]) /\ Min({e.seq}) = e.seq
    BY <1>3, <2>1, OneItem
  <2>3. Piece(r.items \cup {e.seq}, L[r.thread])
    BY <1>3, <2>1, <2>2, PiecesJoin DEF Whole
  <2>4. /\ x.thread = r.thread /\ x.epoch = r.thread /\ x.items = r.items \cup {e.seq}
        /\ x.older = r.older /\ x.newer = r.newer /\ x.refresh = r.refresh
        /\ x \in [thread: Threads, epoch: Threads \cup {None}, items: {r.items \cup {e.seq}},
                  older: BOOLEAN, newer: BOOLEAN, refresh: BOOLEAN]
    BY <1>1, <1>3, <2>1 DEF Replica
  <2>5. r.items \cup {e.seq} \in Items
    BY <1>3, <2>1, <2>3, PieceItems
  <2>6. x \in Replica
    BY <2>4, <2>5 DEF Replica
  <2>7. ApplyEvent(r, e) = x
    BY <1>3 DEF ApplyEvent
  <2> HIDE DEF x
  <2> QED
    BY <2>3, <2>4, <2>6, <2>7 DEF Whole
<1>4. CASE ApplyEvent(r, e) \in {r, [r EXCEPT !.refresh = TRUE]}
  BY <1>2, <1>4
<1>5. \/ ApplyEvent(r, e) \in {r, [r EXCEPT !.refresh = TRUE]}
      \/ e # Sync /\ e.thread = r.thread /\ r.epoch \in {None, e.thread}
         /\ (r.items = {} \/ e.seq = Max(r.items) + 1)
  BY DEF ApplyEvent
<1> QED
  BY <1>3, <1>4, <1>5

\* The replicas after each of the first k events.
Steps(r, es, k, f) == f = [n \in 0..k |-> IF n = 0 THEN r ELSE ApplyEvent(f[n - 1], es[n])]

LEMMA StepsExist == ASSUME NEW r, NEW es, NEW k \in Nat PROVE \E f : Steps(r, es, k, f)
<1> DEFINE Bad == {n \in Nat : ~ \E f : Steps(r, es, n, f)}
<1> SUFFICES ASSUME Bad # {} PROVE FALSE
  OBVIOUS
<1>1. PICK n \in Bad : \A m \in Bad : <<m, n>> \notin OpToRel(<, Nat)
  BY NatLessThanWellFounded, WFMin
<1>2. n \in Nat /\ \A m \in Nat : m < n => \E f : Steps(r, es, m, f)
  BY <1>1 DEF OpToRel
<1>3. CASE n = 0
  <2> DEFINE g == [i \in 0..0 |-> r]
  <2>1. g = [i \in 0..0 |-> IF i = 0 THEN r ELSE ApplyEvent(g[i - 1], es[i])]
    OBVIOUS
  <2>2. Steps(r, es, 0, g)
    BY <2>1 DEF Steps
  <2> QED
    BY <1>1, <1>3, <2>2
<1>4. CASE n # 0
  <2>1. PICK f : Steps(r, es, n - 1, f)
    BY <1>2, <1>4
  <2> DEFINE g == [i \in 0..n |-> IF i = n THEN ApplyEvent(f[n - 1], es[n]) ELSE f[i]]
  <2>2. \A i \in 0..(n - 1) : f[i] = IF i = 0 THEN r ELSE ApplyEvent(f[i - 1], es[i])
    BY <2>1 DEF Steps
  <2>3. \A i \in 0..n : g[i] = IF i = 0 THEN r ELSE ApplyEvent(g[i - 1], es[i])
    <3> SUFFICES ASSUME NEW i \in 0..n PROVE g[i] = IF i = 0 THEN r ELSE ApplyEvent(g[i - 1], es[i])
      OBVIOUS
    <3>1. CASE i = n
      <4>1. g[i] = ApplyEvent(f[n - 1], es[n])
        BY <3>1
      <4>2. n - 1 \in 0..n /\ n - 1 # n
        BY <1>2, <1>4
      <4>3. g[n - 1] = f[n - 1]
        BY <4>2
      <4> QED
        BY <1>4, <3>1, <4>1, <4>3
    <3>2. CASE i # n
      <4>1. i \in 0..(n - 1) /\ (i # 0 => i - 1 \in 0..n /\ i - 1 # n)
        BY <1>2, <3>2
      <4>2. g[i] = f[i] /\ (i # 0 => g[i - 1] = f[i - 1])
        BY <3>2, <4>1
      <4> QED
        BY <2>2, <4>1, <4>2
    <3> QED
      BY <3>1, <3>2
  <2>4. g = [i \in 0..n |-> g[i]]
    OBVIOUS
  <2> HIDE DEF g
  <2>5. g = [i \in 0..n |-> IF i = 0 THEN r ELSE ApplyEvent(g[i - 1], es[i])]
    BY <2>3, <2>4
  <2>6. Steps(r, es, n, g)
    BY <2>5 DEF Steps
  <2> QED
    BY <1>1, <2>6
<1> QED
  BY <1>3, <1>4

\* So do the events of a frame, whatever they are and in whatever order.
LEMMA EventsKeep ==
  ASSUME ReplicaConstants, NEW L \in Lengths, NEW r, Whole(r, L), NEW es, Len(es) \in Nat,
         \A i \in 1..Len(es) : Announced(es[i], L)
  PROVE  Whole(ApplyEvents(r, es), L) /\ ApplyEvents(r, es).thread = r.thread
<1> DEFINE f == CHOOSE g : Steps(r, es, Len(es), g)
<1>1. ApplyEvents(r, es) = f[Len(es)]
  BY DEF ApplyEvents, Steps
<1>2. Steps(r, es, Len(es), f)
  BY StepsExist
<1> HIDE DEF f
<1>3. \A n \in 0..Len(es) : f[n] = IF n = 0 THEN r ELSE ApplyEvent(f[n - 1], es[n])
  BY <1>2 DEF Steps
<1> DEFINE Good(n) == Whole(f[n], L) /\ f[n].thread = r.thread
           Bad == {n \in Nat : n <= Len(es) /\ ~Good(n)}
<1>4. CASE Bad # {}
  <2>1. PICK n \in Bad : \A m \in Bad : <<m, n>> \notin OpToRel(<, Nat)
    BY <1>4, NatLessThanWellFounded, WFMin
  <2>2. n \in Nat /\ n <= Len(es) /\ ~Good(n) /\ \A m \in Nat : m < n /\ m <= Len(es) => Good(m)
    BY <2>1 DEF OpToRel
  <2>3. n # 0
    <3>1. f[0] = r
      BY <1>3
    <3> QED
      BY <2>2, <3>1
  <2>4. n - 1 \in Nat /\ n - 1 < n /\ n - 1 <= Len(es) /\ n \in 1..Len(es) /\ n \in 0..Len(es)
    BY <2>2, <2>3
  <2>5. Good(n - 1)
    BY <2>2, <2>4
  <2>6. f[n] = ApplyEvent(f[n - 1], es[n])
    BY <1>3, <2>3, <2>4
  <2>7. Announced(es[n], L)
    BY <2>4
  <2>8. Good(n)
    BY <2>5, <2>6, <2>7, EventKeeps
  <2> QED
    BY <2>2, <2>8
<1>5. CASE Bad = {}
  <2>1. Len(es) \notin Bad
    BY <1>5
  <2>2. Good(Len(es))
    BY <2>1
  <2> QED
    BY <1>1, <2>2
<1> QED
  BY <1>4, <1>5

-----------------------------------------------------------------------------
(* Pages and requests.                                                     *)

\* What a request remembers: a replica and what it asks the server about it.
Asks(q, L) ==
  /\ q.thread \in Threads /\ q.mode \in Modes
  /\ Whole(q.base, L)
  /\ q.query \in Query
  /\ q.mode = "before" => q.base.items # {} /\ q.query = [kind |-> "before", seq |-> Min(q.base.items)]
  /\ q.mode = "after" /\ q.base.items # {} => q.query = [kind |-> "after", seq |-> Max(q.base.items)]

\* A page that can be merged into the replica its request remembers, if that is
\* of the same thread.
Fits(p, q, L) ==
  /\ p \in PageOf /\ Piece(p.items, L[q.thread])
  /\ q.mode = "after" /\ q.base.items # {} /\ p.items # {} => Min(p.items) = Max(q.base.items) + 1
  /\ q.mode = "before" /\ q.base.thread = q.thread /\ p.items # {} => Max(p.items) + 1 = Min(q.base.items)

AskOk(q, L) == q \in Request /\ Asks(q, L) /\ (q.page # None => Fits(q.page, q, L))

LEMMA AskGrows ==
  ASSUME NEW L \in Lengths, NEW M \in Lengths, Grown(L, M), NEW q, AskOk(q, L)
  PROVE  AskOk(q, M)
<1>1. Asks(q, M)
  BY WholeGrows DEF AskOk, Asks
<1>2. ASSUME q.page # None PROVE Fits(q.page, q, M)
  <2>1. Fits(q.page, q, L) /\ q.thread \in Threads
    BY <1>2 DEF AskOk, Asks
  <2>2. L[q.thread] \in Nat /\ M[q.thread] \in Nat /\ L[q.thread] <= M[q.thread]
    BY <2>1 DEF Lengths, Grown
  <2>3. Piece(q.page.items, M[q.thread])
    BY <2>1, <2>2, PieceGrows DEF Fits
  <2> QED
    BY <2>1, <2>3 DEF Fits
<1> QED
  BY <1>1, <1>2 DEF AskOk

\* query_control_timeline_page: an end of what the query is about.
LEMMA PageIsEnd ==
  ASSUME ReplicaConstants, len \in Lengths, NEW t \in Threads, NEW x \in Query
  PROVE  /\ Page(t, x) \in PageOf
         /\ Piece(Page(t, x).items, len[t])
         /\ x.kind = "after" /\ Page(t, x).items # {} => Min(Page(t, x).items) = x.seq + 1
         /\ x.kind = "before" /\ x.seq <= len[t] /\ Page(t, x).items # {} =>
              Max(Page(t, x).items) + 1 = x.seq
<1> DEFINE S == CASE x.kind = "after"  -> Oldest(PageSize, {i \in 1..len[t] : i > x.seq})
                  [] x.kind = "before" -> Newest(PageSize, {i \in 1..len[t] : i < x.seq})
                  [] x.kind = "tail"   -> Newest(TailSize, 1..len[t])
           older == S # {} /\ 1 < Min(S)
           newer == S # {} /\ len[t] > Max(S)
<1>1. Page(t, x) = [items |-> S, older |-> older, newer |-> newer]
  BY DEF Page
<1>2. older \in BOOLEAN /\ newer \in BOOLEAN
  OBVIOUS
<1>3. /\ x.kind = "after" => S = Oldest(PageSize, {i \in 1..len[t] : i > x.seq})
      /\ x.kind = "before" => S = Newest(PageSize, {i \in 1..len[t] : i < x.seq})
      /\ x.kind = "tail" => S = Newest(TailSize, 1..len[t])
  OBVIOUS
<1>4. PICK n, s : n = len[t] /\ s = x.seq
  OBVIOUS
<1>5. n \in Nat /\ s \in Nat /\ x.kind \in {"tail", "after", "before"} /\ 1 \in Positive /\ n <= n
  BY <1>4 DEF Lengths, Query, Modes, Positive
<1>6. PageSize \in Positive /\ TailSize \in Positive
  BY DEF ReplicaConstants, Positive
<1> HIDE DEF S, older, newer
<1>7. CASE x.kind = "after"
  <2>1. {i \in 1..n : i > s} = (s + 1)..n /\ s + 1 \in Positive
    BY <1>5 DEF Positive
  <2>2. S = Oldest(PageSize, (s + 1)..n)
    BY <1>3, <1>4, <1>7, <2>1
  <2>3. S \subseteq (s + 1)..n /\ Piece(S, n) /\ (s + 1 <= n => Min(S) = s + 1)
    BY <1>5, <1>6, <2>1, <2>2, OldestOfInterval
  <2>4. S # {} => s + 1 <= n
    <3> SUFFICES ASSUME NEW i \in S PROVE s + 1 <= n
      OBVIOUS
    <3>1. i \in (s + 1)..n
      BY <2>3
    <3> QED
      BY <1>5, <3>1
  <2>5. S \in Items
    BY <1>5, <2>3, PieceItems
  <2> QED
    BY <1>1, <1>2, <1>4, <1>7, <2>3, <2>4, <2>5 DEF PageOf
<1>8. CASE x.kind = "before"
  <2> DEFINE b == IF s = 0 THEN 0 ELSE IF s - 1 < n THEN s - 1 ELSE n
  <2>1. b \in Nat /\ b <= n /\ {i \in 1..n : i < s} = 1..b /\ (s <= n /\ s # 0 => b = s - 1) /\ (s = 0 => b = 0)
    BY <1>5
  <2> HIDE DEF b
  <2>2. S = Newest(PageSize, 1..b)
    BY <1>3, <1>4, <1>8, <2>1
  <2>3. S \subseteq 1..b /\ Piece(S, n) /\ (1 <= b => Max(S) = b)
    BY <1>5, <1>6, <2>1, <2>2, NewestOfInterval
  <2>4. S # {} => 1 <= b
    <3> SUFFICES ASSUME NEW i \in S PROVE 1 <= b
      OBVIOUS
    <3>1. i \in 1..b
      BY <2>3
    <3> QED
      BY <2>1, <3>1
  <2>5. S \in Items
    BY <1>5, <2>3, PieceItems
  <2>6. S # {} /\ s <= n => Max(S) + 1 = s
    BY <1>5, <2>1, <2>3, <2>4
  <2> QED
    BY <1>1, <1>2, <1>4, <1>8, <2>3, <2>5, <2>6 DEF PageOf
<1>9. CASE x.kind = "tail"
  <2>1. Piece(S, n)
    BY <1>3, <1>4, <1>5, <1>6, <1>9, NewestOfInterval
  <2>2. S \in Items
    BY <1>5, <2>1, PieceItems
  <2> QED
    BY <1>1, <1>2, <1>4, <1>9, <2>1, <2>2 DEF PageOf
<1> QED
  BY <1>5, <1>7, <1>8, <1>9

\* So the page of a request fits the replica it remembers.
LEMMA PageFits ==
  ASSUME ReplicaConstants, len \in Lengths, NEW q, AskOk(q, len)
  PROVE  Fits(Page(q.thread, q.query), q, len)
<1>1. PICK p : p = Page(q.thread, q.query)
  OBVIOUS
<1>2. q.thread \in Threads /\ q.query \in Query /\ len[q.thread] \in Nat /\ Asks(q, len)
  BY DEF AskOk, Asks, Lengths
<1>3. /\ p \in PageOf /\ Piece(p.items, len[q.thread])
      /\ q.query.kind = "after" /\ p.items # {} => Min(p.items) = q.query.seq + 1
      /\ q.query.kind = "before" /\ q.query.seq <= len[q.thread] /\ p.items # {} =>
           Max(p.items) + 1 = q.query.seq
  BY <1>1, <1>2, PageIsEnd
<1>4. q.mode = "after" /\ q.base.items # {} /\ p.items # {} => Min(p.items) = Max(q.base.items) + 1
  BY <1>2, <1>3 DEF Asks
<1>5. ASSUME q.mode = "before", q.base.thread = q.thread, p.items # {}
      PROVE  Max(p.items) + 1 = Min(q.base.items)
  <2>1. q.base.items # {} /\ q.query.kind = "before" /\ q.query.seq = Min(q.base.items)
    BY <1>2, <1>5 DEF Asks
  <2>2. Piece(q.base.items, len[q.thread])
    BY <1>2, <1>5 DEF Asks, Whole
  <2>3. q.query.seq <= len[q.thread]
    <3>1. /\ Min(q.base.items) \in Positive /\ Max(q.base.items) \in Positive
          /\ Min(q.base.items) <= Max(q.base.items) /\ Max(q.base.items) <= len[q.thread]
      BY <1>2, <2>1, <2>2, PieceEnds
    <3> QED
      BY <1>2, <2>1, <3>1 DEF Positive
  <2> QED
    BY <1>3, <1>5, <2>1, <2>3
<1> QED
  BY <1>1, <1>3, <1>4, <1>5 DEF Fits

\* The request refreshTimeline makes.
LEMMA RefreshIsAsked ==
  ASSUME ReplicaConstants, NEW L \in Lengths, NEW r, r = None \/ Whole(r, L), NEW t \in Threads, NEW m \in Modes,
         m = "before" => r # None /\ r.items # {}
  PROVE  AskOk(RefreshOf(r, t, m), L) /\ RefreshOf(r, t, m).page = None /\ RefreshOf(r, t, m).thread = t
<1> DEFINE base == IF r = None THEN Empty(t) ELSE r
           query == CASE m = "before" -> [kind |-> m, seq |-> Min(base.items)]
                      [] m = "after" /\ base.items # {} -> [kind |-> m, seq |-> Max(base.items)]
                      [] OTHER -> [kind |-> "tail", seq |-> 0]
           q == [thread |-> t, base |-> base, mode |-> m, query |-> query, page |-> None]
<1>1. RefreshOf(r, t, m) = q
  BY DEF RefreshOf
<1>2. Whole(base, L) /\ (m = "before" => base.items # {})
  BY EmptyIsWhole
<1>3. base \in Replica /\ base.thread \in Threads /\ Piece(base.items, L[base.thread]) /\ L[base.thread] \in Nat
  BY <1>2, ReplicaFields DEF Whole, Lengths
<1>4. /\ m = "before" => query = [kind |-> "before", seq |-> Min(base.items)]
      /\ m = "after" /\ base.items # {} => query = [kind |-> "after", seq |-> Max(base.items)]
      /\ \/ m = "before" \/ (m = "after" /\ base.items # {})
         \/ query = [kind |-> "tail", seq |-> 0]
  BY DEF Modes
<1>5. base.items # {} => Min(base.items) \in Nat /\ Max(base.items) \in Nat
  BY <1>3, PieceEnds DEF Positive
<1> HIDE DEF base, query
<1>6. query \in Query
  BY <1>2, <1>4, <1>5 DEF Query, Modes
<1>7. q.thread = t /\ q.base = base /\ q.mode = m /\ q.query = query /\ q.page = None /\ q \in Request
  BY <1>3, <1>6 DEF Request
<1> HIDE DEF q
<1>8. Asks(q, L)
  BY <1>2, <1>4, <1>6, <1>7 DEF Asks
<1> QED
  BY <1>1, <1>7, <1>8 DEF AskOk

\* The tail that follows a page with a gap: its base is the replaced replica.
LEMMA FollowUpIsAsked ==
  ASSUME ReplicaConstants, NEW L \in Lengths, NEW r, Whole(r, L), NEW t \in Threads
  PROVE  LET q == [RefreshOf(r, t, "tail") EXCEPT !.base = r]
         IN  AskOk(q, L) /\ q.page = None
<1> DEFINE f == RefreshOf(r, t, "tail")
           q == [f EXCEPT !.base = r]
<1>1. AskOk(f, L) /\ f.page = None /\ f.mode = "tail" /\ f \in Request
  BY RefreshIsAsked DEF Modes, RefreshOf, AskOk
<1>2. f.thread \in Threads /\ f.query \in Query
  BY <1>1 DEF AskOk, Asks
<1> HIDE DEF f
<1>3. /\ q.thread = f.thread /\ q.base = r /\ q.mode = "tail" /\ q.query = f.query /\ q.page = None
      /\ q \in Request
  BY <1>1 DEF Request, Whole
<1> HIDE DEF q
<1>4. Asks(q, L)
  BY <1>2, <1>3 DEF Asks, Modes
<1>5. AskOk(q, L) /\ q.page = None
  BY <1>3, <1>4 DEF AskOk
<1> QED
  BY <1>5 DEF q, f

\* applyTimelinePage makes a piece of the page's thread of them.
LEMMA MergeKeeps ==
  ASSUME ReplicaConstants, NEW L \in Lengths, NEW q, AskOk(q, L), q.page # None
  PROVE  LET next == ApplyTimelinePage(q.base, q.thread, q.page, q.mode)
         IN  Whole(next, L) /\ next.thread = q.thread /\ next.epoch = q.thread
<1> DEFINE r == q.base
           p == q.page
           t == q.thread
           gap == MiddleGap(r, p, q.mode)
           next == ApplyTimelinePage(r, t, p, q.mode)
<1>1. /\ t \in Threads /\ t # None /\ L[t] \in Nat /\ Whole(r, L) /\ r \in Replica /\ Fits(p, q, L)
      /\ p \in PageOf /\ Piece(p.items, L[t]) /\ p.items \in Items
      /\ p.older \in BOOLEAN /\ p.newer \in BOOLEAN /\ gap \in BOOLEAN /\ q.mode \in Modes
  BY PieceItems DEF AskOk, Asks, Fits, Lengths, Whole, PageOf, ReplicaConstants, MiddleGap
<1>2. CASE r.epoch # t \/ gap \/ q.mode = "tail"
  <2>1. next = Replaced(t, p, gap)
    BY <1>2 DEF ApplyTimelinePage
  <2> HIDE DEF gap
  <2>2. /\ next.thread = t /\ next.epoch = t /\ next.items = p.items /\ next \in Replica
    BY <1>1, <2>1 DEF Replaced, Replica
  <2> QED
    BY <1>1, <2>2 DEF Whole
<1>3. CASE ~(r.epoch # t \/ gap \/ q.mode = "tail")
  <2> DEFINE older == IF q.mode = "before" THEN p.older ELSE r.older
             newer == IF q.mode = "after" THEN p.newer ELSE r.newer
  <2>1. r.thread = t /\ q.mode \in {"after", "before"} /\ Piece(r.items, L[t])
    BY <1>1, <1>3 DEF Whole, Modes, ReplicaConstants
  <2>2. next = [r EXCEPT !.items = r.items \cup p.items, !.older = older, !.newer = newer, !.refresh = FALSE]
    BY <1>1, <1>3 DEF ApplyTimelinePage, Replica
  <2>3. r.items # {} /\ p.items # {} =>
          Max(r.items) + 1 = Min(p.items) \/ Max(p.items) + 1 = Min(r.items)
    <3>1. CASE q.mode = "after"
      <4>1. r.items # {} /\ p.items # {} => Min(p.items) = Max(r.items) + 1
        BY <1>1, <3>1 DEF Fits
      <4> QED
        BY <4>1
    <3>2. CASE q.mode = "before"
      BY <1>1, <2>1, <3>2 DEF Fits
    <3> QED
      BY <2>1, <3>1, <3>2
  <2>4. Piece(r.items \cup p.items, L[t])
    <3>1. r.items \cup p.items = p.items \cup r.items
      OBVIOUS
    <3> HIDE DEF r, p, t
    <3> QED
      BY <1>1, <2>1, <2>3, <3>1, PiecesJoin
  <2>5. r.items \cup p.items \in Items /\ older \in BOOLEAN /\ newer \in BOOLEAN
    BY <1>1, <2>4, PieceItems, ReplicaFields
  <2> HIDE DEF older, newer
  <2>6. next.thread = t /\ next.epoch = t /\ next.items = r.items \cup p.items /\ next \in Replica
    BY <1>1, <1>3, <2>1, <2>2, <2>5 DEF Replica
  <2> QED
    BY <2>4, <2>6 DEF Whole
<1> QED
  BY <1>2, <1>3


-----------------------------------------------------------------------------
(* The inductive invariant.                                                *)

EventsOf(es, L) == \A i \in 1..Len(es) : Announced(es[i], L)

\* What is under way is about items that exist.
EventInv ==
  /\ \A e \in unsent : Announced(e, len)
  /\ EventsOf(channel, len) /\ EventsOf(buffer, len)

\* What is shown is a piece, and once it is loaded of the selected thread.
ViewInv ==
  /\ loading \in {None, sel}
  /\ shown # None => Whole(shown, len)
  /\ loading = None => Whole(shown, len) /\ shown.thread = sel

\* A replica that can be cached: its epoch is known.
Cacheable(r, L) == Whole(r, L) /\ r.epoch = r.thread

StoreInv ==
  /\ saving # None => Cacheable(saving, len)
  /\ \A t \in Threads : cache[t] # None => Cacheable(cache[t], len) /\ cache[t].thread = t

\* Every request under way has a page that fits, or will get one.
AskedInv == \A m \in Modes : asked[m] # None => AskOk(asked[m], len)

ReplicaInv == TypeOK /\ EventInv /\ ViewInv /\ StoreInv /\ AskedInv

-----------------------------------------------------------------------------
(* What the actions do to the parts of the invariant.                      *)

LEMMA AnnouncedType ==
  ASSUME NEW L, NEW e, Announced(e, L)
  PROVE  e \in Events
  BY DEF Announced, Events

LEMMA OneMoreEvent ==
  ASSUME NEW L, NEW es \in Seq(Events), EventsOf(es, L), NEW e, Announced(e, L)
  PROVE  /\ Append(es, e) \in Seq(Events) /\ EventsOf(Append(es, e), L)
         /\ Len(Append(es, e)) = Len(es) + 1
<1>1. e \in Events
  BY AnnouncedType
<1>2. Append(es, e) \in Seq(Events) /\ Len(Append(es, e)) = Len(es) + 1 /\ Len(es) \in Nat
  BY <1>1
<1>3. ASSUME NEW i \in 1..Len(Append(es, e)) PROVE Announced(Append(es, e)[i], L)
  <2>1. CASE i = Len(es) + 1
    <3>1. Append(es, e)[i] = e
      BY <1>1, <2>1
    <3> QED
      BY <3>1
  <2>2. CASE i # Len(es) + 1
    <3>1. i \in 1..Len(es)
      BY <1>2, <2>2
    <3>2. Append(es, e)[i] = es[i]
      BY <1>1, <3>1
    <3> QED
      BY <3>1, <3>2 DEF EventsOf
  <2> QED
    BY <2>1, <2>2
<1> QED
  BY <1>2, <1>3 DEF EventsOf

LEMMA OneEventLess ==
  ASSUME NEW L, NEW es \in Seq(Events), es # <<>>, EventsOf(es, L)
  PROVE  /\ Tail(es) \in Seq(Events) /\ EventsOf(Tail(es), L) /\ Len(Tail(es)) = Len(es) - 1
         /\ Announced(Head(es), L)
<1>1. Tail(es) \in Seq(Events) /\ Len(Tail(es)) = Len(es) - 1 /\ Len(es) \in Nat /\ Len(es) # 0
  OBVIOUS
<1>2. ASSUME NEW i \in 1..Len(Tail(es)) PROVE Announced(Tail(es)[i], L)
  <2>1. i + 1 \in 1..Len(es) /\ Tail(es)[i] = es[i + 1]
    BY <1>1
  <2> QED
    BY <2>1 DEF EventsOf
<1>3. Head(es) = es[1] /\ 1 \in 1..Len(es)
  BY <1>1
<1> QED
  BY <1>1, <1>2, <1>3 DEF EventsOf

LEMMA EventsGrow ==
  ASSUME NEW L \in Lengths, NEW M \in Lengths, Grown(L, M), NEW es, EventsOf(es, L)
  PROVE  EventsOf(es, M)
  BY AnnouncedGrows DEF EventsOf

LEMMA NoEvents == ASSUME NEW L PROVE <<>> \in Seq(Events) /\ EventsOf(<<>>, L)
  BY DEF EventsOf

\* A request that starts, gets its page or gives way to a tail.
LEMMA AskedAgain ==
  ASSUME TypeOK, AskedInv, len' = len, NEW m \in Modes, NEW q, q = None \/ AskOk(q, len),
         asked' = [asked EXCEPT ![m] = q]
  PROVE  asked' \in [Modes -> Request \cup {None}] /\ AskedInv'
<1>1. asked \in [Modes -> Request \cup {None}] /\ q \in Request \cup {None}
  BY DEF TypeOK, AskOk
<1>2. asked' \in [Modes -> Request \cup {None}]
  BY <1>1
<1>3. ASSUME NEW k \in Modes, asked'[k] # None PROVE AskOk(asked'[k], len')
  <2>1. asked'[k] = IF k = m THEN q ELSE asked[k]
    BY <1>1
  <2> QED
    BY <1>3, <2>1 DEF AskedInv
<1> QED
  BY <1>2, <1>3 DEF AskedInv

LEMMA AskedSame ==
  ASSUME TypeOK, AskedInv, len' = len, asked' = asked
  PROVE  asked' \in [Modes -> Request \cup {None}] /\ AskedInv'
  BY DEF TypeOK, AskedInv

LEMMA RefreshedKeeps ==
  ASSUME ReplicaConstants, TypeOK, AskedInv, len' = len, NEW r, r = None \/ Whole(r, len),
         NEW t \in Threads, NEW m \in Modes, m = "before" => r # None /\ r.items # {},
         asked' = Refreshed(r, t, m)
  PROVE  asked' \in [Modes -> Request \cup {None}] /\ AskedInv'
<1>1. CASE asked[m] # None
  BY <1>1, AskedSame DEF Refreshed
<1>2. CASE asked[m] = None
  <2>1. len \in Lengths
    BY DEF TypeOK, Lengths
  <2>2. AskOk(RefreshOf(r, t, m), len)
    BY <2>1, RefreshIsAsked
  <2>3. asked' = [asked EXCEPT ![m] = RefreshOf(r, t, m)]
    BY <1>2 DEF Refreshed
  <2> QED
    BY <2>2, <2>3, AskedAgain
<1> QED
  BY <1>1, <1>2

LEMMA EventSame ==
  ASSUME EventInv, UNCHANGED <<len, unsent, channel, buffer>>
  PROVE  EventInv'
  BY DEF EventInv

LEMMA ViewSame ==
  ASSUME ViewInv, UNCHANGED <<len, sel, loading, shown>>
  PROVE  ViewInv'
  BY DEF ViewInv

LEMMA StoreSame ==
  ASSUME StoreInv, UNCHANGED <<len, saving, cache>>
  PROVE  StoreInv'
  BY DEF StoreInv

-----------------------------------------------------------------------------
(* Init and the server's actions.                                          *)

LEMMA InitHolds == ASSUME ReplicaConstants, Init PROVE ReplicaInv
<1>1. len \in Lengths
  BY DEF Init, ReplicaConstants, Lengths
<1>2. ASSUME NEW t \in Threads, cache[t] # None PROVE Cacheable(cache[t], len) /\ cache[t].thread = t
  <2> DEFINE S == Newest(TailSize, 1..InitSaved[t])
  <2>1. cache[t] = [thread |-> t, epoch |-> t, items |-> S, older |-> 1 \notin S,
                    newer |-> FALSE, refresh |-> FALSE]
    BY <1>2 DEF Init
  <2>2. /\ TailSize \in Positive /\ 1 \in Positive
        /\ InitSaved[t] \in Nat /\ InitLen[t] \in Nat /\ InitSaved[t] <= InitLen[t]
    BY DEF ReplicaConstants, Positive
  <2>3. Piece(S, InitLen[t])
    BY <2>2, NewestOfInterval
  <2>4. S \in Items /\ len[t] = InitLen[t]
    BY <2>2, <2>3, PieceItems DEF Init
  <2> HIDE DEF S
  <2>5. cache[t] \in Replica
    BY <2>1, <2>4 DEF Replica
  <2> QED
    BY <2>1, <2>3, <2>4, <2>5 DEF Cacheable, Whole
<1>3. cache \in [Threads -> Replica \cup {None}]
  <2>1. \A t \in Threads : cache[t] \in Replica \cup {None}
    BY <1>2 DEF Cacheable, Whole
  <2>2. \E g : cache = [t \in Threads |-> g[t]]
    <3>1. cache = [t \in Threads |-> cache[t]]
      BY DEF Init
    <3> QED
      BY <3>1
  <2> QED
    BY <2>1, <2>2
<1>4. StoreInv
  BY <1>2 DEF Init, StoreInv
<1>5. TypeOK
  <2>1. key \in [thread: Threads \cup {None}, epoch: Threads \cup {None}, last: Nat]
    BY DEF Init, NoKey
  <2>2. asked \in [Modes -> Request \cup {None}]
    BY DEF Init
  <2>3. channel \in Seq(Events) /\ Len(channel) <= Capacity /\ buffer \in Seq(Events)
    BY DEF Init, ReplicaConstants
  <2>4. {lagged, socket, online, known} \subseteq BOOLEAN
    BY DEF Init
  <2> QED
    BY <1>1, <1>3, <2>1, <2>2, <2>3, <2>4 DEF Init, TypeOK, Lengths
<1>6. EventInv
  BY NoEvents DEF Init, EventInv
<1>7. ViewInv
  BY DEF Init, ViewInv, ReplicaConstants
<1>8. AskedInv
  BY DEF Init, AskedInv
<1> QED
  BY <1>4, <1>5, <1>6, <1>7, <1>8 DEF ReplicaInv

LEMMA AppendItemKeeps ==
  ASSUME ReplicaConstants, ReplicaInv, NEW t \in Threads, AppendItem(t)
  PROVE  ReplicaInv'
<1> USE DEF ReplicaInv
<1> DEFINE e == [thread |-> t, seq |-> len[t] + 1]
<1>1. /\ len' = [len EXCEPT ![t] = @ + 1] /\ unsent' = unsent \cup {e}
      /\ UNCHANGED <<link, view, store>>
  BY DEF AppendItem
<1>2. len \in Lengths /\ len' \in Lengths /\ Grown(len, len') /\ len'[t] = len[t] + 1 /\ len[t] \in Nat
  <2>1. len \in [Threads -> Nat]
    BY DEF TypeOK
  <2>2. len' \in [Threads -> Nat] /\ \A u \in Threads : len'[u] = IF u = t THEN len[u] + 1 ELSE len[u]
    BY <1>1, <2>1
  <2> QED
    BY <2>1, <2>2 DEF Lengths, Grown
<1>3. e \in [thread: Threads, seq: Nat] /\ e.seq \in 1..len'[e.thread]
  BY <1>2
<1> HIDE DEF e
<1>4. TypeOK'
  BY <1>1, <1>2, <1>3 DEF TypeOK, Lengths, link, view, store
<1>5. EventInv'
  <2>1. \A x \in unsent' : Announced(x, len')
    BY <1>1, <1>2, <1>3, AnnouncedGrows DEF EventInv, Announced
  <2>2. EventsOf(channel', len') /\ EventsOf(buffer', len')
    BY <1>1, <1>2, EventsGrow DEF EventInv, link, view
  <2> QED
    BY <2>1, <2>2 DEF EventInv
<1>6. ViewInv'
  BY <1>1, <1>2, WholeGrows DEF ViewInv, view
<1>7. StoreInv'
  BY <1>1, <1>2, WholeGrows DEF StoreInv, Cacheable, store
<1>8. AskedInv'
  BY <1>1, <1>2, AskGrows DEF AskedInv, view
<1> QED
  BY <1>4, <1>5, <1>6, <1>7, <1>8

LEMMA EmitKeeps ==
  ASSUME ReplicaConstants, ReplicaInv, NEW e \in unsent, Emit(e)
  PROVE  ReplicaInv'
<1> USE DEF ReplicaInv
<1>1. unsent' = unsent \ {e} /\ UNCHANGED <<len, socket, online, known, view, store>>
  BY DEF Emit
<1>2. /\ len' = len /\ sel' = sel /\ loading' = loading /\ shown' = shown /\ buffer' = buffer
      /\ asked' = asked /\ saving' = saving /\ key' = key /\ cache' = cache
  BY <1>1 DEF view, store
<1>3. channel' \in Seq(Events) /\ Len(channel') <= Capacity /\ EventsOf(channel', len)
      /\ lagged' \in BOOLEAN
  <2>0. channel \in Seq(Events) /\ Len(channel) <= Capacity /\ lagged \in BOOLEAN /\ EventsOf(channel, len)
    BY DEF TypeOK, EventInv
  <2>1. CASE ~socket
    BY <2>0, <2>1 DEF Emit
  <2>2. CASE socket
    <3> DEFINE rest == IF Len(channel) = Capacity THEN Tail(channel) ELSE channel
    <3>1. channel' = Append(rest, e) /\ lagged' = (lagged \/ Len(channel) = Capacity)
      BY <2>2 DEF Emit
    <3>2. Announced(e, len) /\ Capacity \in Nat \ {0} /\ Len(channel) \in Nat
      BY <2>0 DEF EventInv, ReplicaConstants
    <3>3. CASE Len(channel) = Capacity
      <4>1. channel # <<>>
        BY <3>2, <3>3
      <4>2. Tail(channel) \in Seq(Events) /\ EventsOf(Tail(channel), len) /\ Len(Tail(channel)) = Len(channel) - 1
        BY <2>0, <4>1, OneEventLess
      <4>3. channel' = Append(Tail(channel), e)
        BY <3>1, <3>3
      <4> HIDE DEF rest
      <4>4. channel' \in Seq(Events) /\ EventsOf(channel', len) /\ Len(channel') = Len(Tail(channel)) + 1
        BY <3>2, <4>2, <4>3, OneMoreEvent
      <4>5. Len(channel') <= Capacity
        BY <2>0, <3>2, <4>2, <4>4
      <4>6. lagged' \in BOOLEAN
        BY <3>1
      <4> QED
        BY <4>4, <4>5, <4>6
    <3>4. CASE Len(channel) # Capacity
      <4>1. channel' = Append(channel, e)
        BY <3>1, <3>4
      <4> HIDE DEF rest
      <4>2. channel' \in Seq(Events) /\ EventsOf(channel', len) /\ Len(channel') = Len(channel) + 1
        BY <2>0, <3>2, <4>1, OneMoreEvent
      <4> QED
        BY <2>0, <3>1, <3>2, <3>4, <4>2
    <3> QED
      BY <3>3, <3>4
  <2> QED
    BY <2>1, <2>2
<1>4. TypeOK'
  BY <1>1, <1>2, <1>3 DEF TypeOK
<1>5. EventInv'
  BY <1>1, <1>2, <1>3 DEF EventInv
<1>6. ViewInv' /\ StoreInv' /\ AskedInv'
  BY <1>2, ViewSame, StoreSame, AskedSame
<1> QED
  BY <1>4, <1>5, <1>6

LEMMA DeliverKeeps ==
  ASSUME ReplicaConstants, ReplicaInv, Deliver
  PROVE  ReplicaInv'
<1> USE DEF ReplicaInv
<1>1. /\ len' = len /\ unsent' = unsent /\ socket' = socket /\ online' = online /\ known' = known
      /\ sel' = sel /\ loading' = loading /\ shown' = shown
      /\ asked' = asked /\ saving' = saving /\ key' = key /\ cache' = cache
  BY DEF Deliver, server, store
<1>2. /\ channel \in Seq(Events) /\ Len(channel) <= Capacity /\ EventsOf(channel, len) /\ channel # <<>>
      /\ buffer \in Seq(Events) /\ EventsOf(buffer, len) /\ lagged \in BOOLEAN
  BY DEF TypeOK, EventInv, Deliver
<1>3. /\ channel' \in Seq(Events) /\ Len(channel') <= Capacity /\ EventsOf(channel', len)
      /\ buffer' \in Seq(Events) /\ EventsOf(buffer', len) /\ lagged' \in BOOLEAN
  <2>1. CASE lagged
    <3>1. buffer' = Append(buffer, Sync) /\ channel' = channel /\ lagged' = FALSE
      BY <2>1 DEF Deliver
    <3>2. Announced(Sync, len)
      BY DEF Announced
    <3> QED
      BY <1>2, <3>1, <3>2, OneMoreEvent
  <2>2. CASE ~lagged
    <3>1. buffer' = Append(buffer, Head(channel)) /\ channel' = Tail(channel) /\ lagged' = lagged
      BY <2>2 DEF Deliver
    <3>2. /\ Tail(channel) \in Seq(Events) /\ EventsOf(Tail(channel), len)
          /\ Len(Tail(channel)) = Len(channel) - 1 /\ Announced(Head(channel), len)
      BY <1>2, OneEventLess
    <3>3. Len(channel) \in Nat /\ Capacity \in Nat
      BY <1>2 DEF ReplicaConstants
    <3>4. Len(channel') <= Capacity
      BY <1>2, <3>1, <3>2, <3>3
    <3> QED
      BY <1>2, <3>1, <3>2, <3>4, OneMoreEvent
  <2> QED
    BY <2>1, <2>2
<1>4. TypeOK'
  BY <1>1, <1>3 DEF TypeOK
<1>5. EventInv'
  BY <1>1, <1>3 DEF EventInv
<1>6. ViewInv' /\ StoreInv' /\ AskedInv'
  BY <1>1, ViewSame, StoreSame, AskedSame
<1> QED
  BY <1>4, <1>5, <1>6

LEMMA AnswerKeeps ==
  ASSUME ReplicaConstants, ReplicaInv, NEW m \in Modes, Answer(m)
  PROVE  ReplicaInv'
<1> USE DEF ReplicaInv
<1> DEFINE q == asked[m]
           p == Page(q.thread, q.query)
           x == [q EXCEPT !.page = p]
<1>1. /\ asked' = [asked EXCEPT ![m].page = p] /\ q # None
      /\ UNCHANGED <<server, link, sel, loading, shown, buffer, store>>
  BY DEF Answer
<1>2. asked' = [asked EXCEPT ![m] = x]
  BY <1>1
<1>3. AskOk(q, len) /\ len \in Lengths
  BY <1>1 DEF AskedInv, TypeOK, Lengths
<1>4. Fits(p, q, len)
  BY <1>3, PageFits
<1>5. q \in Request /\ Asks(q, len) /\ p \in PageOf
  BY <1>3, <1>4 DEF AskOk, Fits
<1> HIDE DEF p, q
<1>6. /\ x \in Request /\ x.thread = q.thread /\ x.base = q.base /\ x.mode = q.mode
      /\ x.query = q.query /\ x.page = p
  BY <1>5 DEF Request
<1> HIDE DEF x
<1>7. AskOk(x, len)
  BY <1>4, <1>5, <1>6 DEF AskOk, Asks, Fits
<1>8. asked' \in [Modes -> Request \cup {None}] /\ AskedInv'
  BY <1>1, <1>2, <1>7, AskedAgain DEF server
<1>9. TypeOK'
  BY <1>1, <1>8 DEF TypeOK, server, link, store
<1>10. EventInv' /\ ViewInv' /\ StoreInv'
  BY <1>1, EventSame, ViewSame, StoreSame DEF server, link, store
<1> QED
  BY <1>8, <1>9, <1>10

-----------------------------------------------------------------------------
(* The controller's actions.                                               *)

LEMMA AskAfterKeeps ==
  ASSUME ReplicaConstants, ReplicaInv, AskAfter
  PROVE  ReplicaInv'
<1> USE DEF ReplicaInv
<1>1. /\ asked' = Refreshed(shown, sel, "after")
      /\ UNCHANGED <<server, link, sel, loading, shown, buffer, store>>
  BY DEF AskAfter
<1>2. /\ (shown = None \/ Whole(shown, len)) /\ sel \in Threads /\ len' = len
      /\ "after" \in Modes /\ "after" # "before"
  BY <1>1 DEF ViewInv, TypeOK, server, Modes
<1>3. asked' \in [Modes -> Request \cup {None}] /\ AskedInv'
  BY <1>1, <1>2, RefreshedKeeps
<1>4. TypeOK'
  BY <1>1, <1>3 DEF TypeOK, server, link, store
<1>5. EventInv' /\ ViewInv' /\ StoreInv'
  BY <1>1, EventSame, ViewSame, StoreSame DEF server, link, store
<1> QED
  BY <1>3, <1>4, <1>5

LEMMA AskBeforeKeeps ==
  ASSUME ReplicaConstants, ReplicaInv, AskBefore
  PROVE  ReplicaInv'
<1> USE DEF ReplicaInv
<1>1. /\ asked' = Refreshed(shown, sel, "before") /\ shown # None /\ shown.items # {}
      /\ UNCHANGED <<server, link, sel, loading, shown, buffer, store>>
  BY DEF AskBefore
<1>2. (shown = None \/ Whole(shown, len)) /\ sel \in Threads /\ len' = len /\ "before" \in Modes
  BY <1>1 DEF ViewInv, TypeOK, server, Modes
<1>3. asked' \in [Modes -> Request \cup {None}] /\ AskedInv'
  BY <1>1, <1>2, RefreshedKeeps
<1>4. TypeOK'
  BY <1>1, <1>3 DEF TypeOK, server, link, store
<1>5. EventInv' /\ ViewInv' /\ StoreInv'
  BY <1>1, EventSame, ViewSame, StoreSame DEF server, link, store
<1> QED
  BY <1>3, <1>4, <1>5

LEMMA ReceiveKeeps ==
  ASSUME ReplicaConstants, ReplicaInv, NEW m \in Modes, Receive(m)
  PROVE  ReplicaInv'
<1> USE DEF ReplicaInv
<1> DEFINE q == asked[m]
           next == ApplyTimelinePage(q.base, q.thread, q.page, q.mode)
           tail == [RefreshOf(next, q.thread, "tail") EXCEPT !.base = next]
<1>1. /\ len' = len /\ unsent' = unsent /\ channel' = channel /\ lagged' = lagged /\ socket' = socket
      /\ online' = online /\ known' = known /\ sel' = sel /\ loading' = loading /\ buffer' = buffer
      /\ key' = key /\ cache' = cache /\ q # None /\ q.page # None
  BY DEF Receive, server, link
<1>2. AskOk(q, len) /\ len \in Lengths
  BY <1>1 DEF AskedInv, TypeOK, Lengths
<1>3. Whole(next, len) /\ next.thread = q.thread /\ next.epoch = q.thread
  BY <1>1, <1>2, MergeKeeps
<1>4. q.thread \in Threads
  BY <1>2 DEF AskOk, Asks
<1>5. AskOk(tail, len)
  BY <1>2, <1>3, <1>4, FollowUpIsAsked
<1>6. /\ asked' = [asked EXCEPT ![m] = tail] \/ asked' = [asked EXCEPT ![m] = None]
      /\ \/ shown' = shown /\ saving' = saving
         \/ shown' = next /\ saving' = next /\ q.thread = sel
  <2>1. CASE next.refresh
    BY <2>1 DEF Receive
  <2>2. CASE ~next.refresh
    BY <2>2 DEF Receive
  <2> QED
    BY <2>1, <2>2
<1> HIDE DEF next, tail, q
<1>7. asked' \in [Modes -> Request \cup {None}] /\ AskedInv'
  BY <1>1, <1>5, <1>6, AskedAgain
<1>8. shown' \in Replica \cup {None} /\ saving' \in Replica \cup {None}
  BY <1>3, <1>6 DEF TypeOK, Whole
<1>9. TypeOK'
  BY <1>1, <1>7, <1>8 DEF TypeOK
<1>10. EventInv'
  BY <1>1, EventSame
<1>11. ViewInv'
  BY <1>1, <1>3, <1>6 DEF ViewInv
<1>12. StoreInv'
  BY <1>1, <1>3, <1>6 DEF StoreInv, Cacheable
<1> QED
  BY <1>7, <1>9, <1>10, <1>11, <1>12

LEMMA FailKeeps ==
  ASSUME ReplicaConstants, ReplicaInv, NEW m \in Modes, Fail(m)
  PROVE  ReplicaInv'
<1> USE DEF ReplicaInv
<1>1. /\ asked' = [asked EXCEPT ![m] = None]
      /\ UNCHANGED <<server, link, sel, loading, shown, buffer, store>>
  BY DEF Fail
<1>2. asked' \in [Modes -> Request \cup {None}] /\ AskedInv'
  BY <1>1, AskedAgain DEF server
<1>3. TypeOK'
  BY <1>1, <1>2 DEF TypeOK, server, link, store
<1>4. EventInv' /\ ViewInv' /\ StoreInv'
  BY <1>1, EventSame, ViewSame, StoreSame DEF server, link, store
<1> QED
  BY <1>2, <1>3, <1>4

LEMMA FlushKeeps ==
  ASSUME ReplicaConstants, ReplicaInv, Flush
  PROVE  ReplicaInv'
<1> USE DEF ReplicaInv
<1>1. /\ len' = len /\ unsent' = unsent /\ channel' = channel /\ lagged' = lagged /\ socket' = socket
      /\ online' = online /\ known' = known /\ sel' = sel /\ loading' = loading /\ buffer' = <<>>
      /\ saving' = saving /\ key' = key /\ cache' = cache
  BY DEF Flush, server, link, store
<1>2. len \in Lengths /\ buffer \in Seq(Events) /\ EventsOf(buffer, len) /\ sel \in Threads
  BY DEF TypeOK, EventInv, Lengths
<1>3. /\ asked' \in [Modes -> Request \cup {None}] /\ AskedInv'
      /\ shown' \in Replica \cup {None} /\ ViewInv'
  <2>1. CASE shown = None
    <3>1. shown' = shown /\ asked' = asked
      BY <2>1 DEF Flush
    <3> QED
      BY <1>1, <3>1, AskedSame, ViewSame DEF TypeOK
  <2>2. CASE shown # None
    <3>1. /\ shown' = ApplyEvents(shown, buffer)
          /\ asked' = asked \/ asked' = Refreshed(shown', sel, "tail")
      BY <2>2 DEF Flush
    <3>2. Whole(shown, len) /\ Len(buffer) \in Nat
      BY <1>2, <2>2 DEF ViewInv
    <3>3. Whole(shown', len) /\ shown'.thread = shown.thread
      BY <1>2, <3>1, <3>2, EventsKeep DEF EventsOf
    <3>4. asked' \in [Modes -> Request \cup {None}] /\ AskedInv'
      <4>1. "tail" \in Modes /\ "tail" # "before"
        BY DEF Modes
      <4>2. CASE asked' = asked
        BY <1>1, <4>2, AskedSame
      <4>3. CASE asked' = Refreshed(shown', sel, "tail")
        BY <1>1, <1>2, <3>3, <4>1, <4>3, RefreshedKeeps
      <4> QED
        BY <3>1, <4>2, <4>3
    <3>5. ViewInv'
      BY <1>1, <3>3 DEF ViewInv
    <3> QED
      BY <3>3, <3>4, <3>5 DEF Whole
  <2> QED
    BY <2>1, <2>2
<1>4. TypeOK'
  <2>1. buffer' \in Seq(Events)
    BY <1>1, NoEvents
  <2> QED
    BY <1>1, <1>3, <2>1 DEF TypeOK
<1>5. EventInv'
  BY <1>1, NoEvents DEF EventInv
<1>6. StoreInv'
  BY <1>1, StoreSame
<1> QED
  BY <1>3, <1>4, <1>5, <1>6

LEMMA GoOnlineKeeps ==
  ASSUME ReplicaConstants, ReplicaInv, GoOnline
  PROVE  ReplicaInv'
<1> USE DEF ReplicaInv
<1>1. /\ online' = TRUE /\ known' = TRUE /\ buffer' = <<>> /\ asked' = Refreshed(shown, sel, "after")
      /\ UNCHANGED <<server, channel, lagged, socket, sel, loading, shown, store>>
  BY DEF GoOnline
<1>2. /\ (shown = None \/ Whole(shown, len)) /\ sel \in Threads /\ len' = len
      /\ "after" \in Modes /\ "after" # "before"
  BY <1>1 DEF ViewInv, TypeOK, server, Modes
<1>3. asked' \in [Modes -> Request \cup {None}] /\ AskedInv'
  BY <1>1, <1>2, RefreshedKeeps
<1>4. TypeOK'
  <2>1. buffer' \in Seq(Events)
    BY <1>1, NoEvents
  <2>2. {lagged', socket', online', known'} \subseteq BOOLEAN
    BY <1>1 DEF TypeOK
  <2> QED
    BY <1>1, <1>3, <2>1, <2>2 DEF TypeOK, server, store
<1>5. EventInv'
  BY <1>1, NoEvents DEF EventInv, server
<1>6. ViewInv' /\ StoreInv'
  BY <1>1, ViewSame, StoreSame DEF server, store
<1> QED
  BY <1>3, <1>4, <1>5, <1>6

LEMMA SocketKeeps ==
  ASSUME ReplicaConstants, ReplicaInv, OpenSocket \/ CloseSocket
  PROVE  ReplicaInv'
<1> USE DEF ReplicaInv
<1>1. /\ len' = len /\ unsent' = unsent /\ channel' = <<>> /\ lagged' = FALSE /\ socket' \in BOOLEAN
      /\ online' \in {online, FALSE} /\ known' = known /\ UNCHANGED <<view, store>>
  BY DEF OpenSocket, CloseSocket, server
<1>2. TypeOK'
  <2>1. channel' \in Seq(Events) /\ Len(channel') = 0
    BY <1>1, NoEvents
  <2>2. Len(channel') <= Capacity
    BY <2>1 DEF ReplicaConstants
  <2>3. {lagged', socket', online', known'} \subseteq BOOLEAN
    BY <1>1 DEF TypeOK
  <2> QED
    BY <1>1, <2>1, <2>2, <2>3 DEF TypeOK, view, store
<1>3. EventInv'
  BY <1>1, NoEvents DEF EventInv, view
<1>4. ViewInv' /\ StoreInv' /\ AskedInv'
  BY <1>1, ViewSame, StoreSame, AskedSame DEF view, store
<1> QED
  BY <1>2, <1>3, <1>4

LEMMA SelectKeeps ==
  ASSUME ReplicaConstants, ReplicaInv, NEW t \in Threads, Select(t)
  PROVE  ReplicaInv'
<1> USE DEF ReplicaInv
<1>1. sel' = t /\ loading' = t /\ UNCHANGED <<server, link, shown, buffer, asked, store>>
  BY DEF Select
<1>2. TypeOK'
  BY <1>1 DEF TypeOK, server, link, store
<1>3. ViewInv'
  BY <1>1 DEF ViewInv, server, ReplicaConstants
<1>4. EventInv' /\ StoreInv' /\ AskedInv'
  BY <1>1, EventSame, StoreSame, AskedSame DEF server, link, store
<1> QED
  BY <1>2, <1>3, <1>4

\* A cached tail is painted as it was saved.
LEMMA CachedIsPainted ==
  ASSUME ReplicaConstants, NEW t \in Threads, NEW p, Cacheable(p, len), p.thread = t
  PROVE  LET r == ApplyTimelinePage(Empty(t), p.thread, p, "tail")
         IN  Whole(r, len) /\ r.thread = t
<1>1. ApplyTimelinePage(Empty(t), p.thread, p, "tail") = Replaced(t, p, FALSE)
  BY DEF ApplyTimelinePage, MiddleGap
<1>2. p \in Replica /\ Piece(p.items, len[t])
  BY DEF Cacheable, Whole
<1>3. /\ Replaced(t, p, FALSE).thread = t /\ Replaced(t, p, FALSE).epoch = t
      /\ Replaced(t, p, FALSE).items = p.items /\ Replaced(t, p, FALSE) \in Replica
  BY <1>2, ReplicaFields DEF Replaced, Replica
<1> QED
  BY <1>1, <1>2, <1>3 DEF Whole

LEMMA LoadKeeps ==
  ASSUME ReplicaConstants, ReplicaInv, Load
  PROVE  ReplicaInv'
<1> USE DEF ReplicaInv
<1>1. /\ loading' = None /\ UNCHANGED <<server, link, sel, buffer, store>>
      /\ asked' = asked \/ asked' = Refreshed(shown', sel, "after")
      /\ \/ shown' = Empty(sel)
         \/ cache[sel] # None /\ shown' = ApplyTimelinePage(Empty(sel), cache[sel].thread, cache[sel], "tail")
  BY DEF Load
<1>2. sel \in Threads
  BY DEF TypeOK
<1>3. Whole(shown', len) /\ shown'.thread = sel
  <2>1. CASE shown' = Empty(sel)
    BY <1>2, <2>1, EmptyIsWhole
  <2>2. CASE /\ cache[sel] # None
             /\ shown' = ApplyTimelinePage(Empty(sel), cache[sel].thread, cache[sel], "tail")
    <3>1. Cacheable(cache[sel], len) /\ cache[sel].thread = sel
      BY <1>2, <2>2 DEF StoreInv
    <3> QED
      BY <1>2, <2>2, <3>1, CachedIsPainted
  <2> QED
    BY <1>1, <2>1, <2>2
<1>4. asked' \in [Modes -> Request \cup {None}] /\ AskedInv'
  <2>1. "after" \in Modes /\ "after" # "before" /\ len' = len
    BY <1>1 DEF Modes, server
  <2>2. CASE asked' = asked
    BY <2>1, <2>2, AskedSame
  <2>3. CASE asked' = Refreshed(shown', sel, "after")
    BY <1>2, <1>3, <2>1, <2>3, RefreshedKeeps
  <2> QED
    BY <1>1, <2>2, <2>3
<1>5. shown' \in Replica
  BY <1>3 DEF Whole
<1>6. TypeOK'
  BY <1>1, <1>4, <1>5 DEF TypeOK, server, link, store
<1>7. ViewInv'
  BY <1>1, <1>3 DEF ViewInv, server
<1>8. EventInv' /\ StoreInv'
  BY <1>1, EventSame, StoreSame DEF server, link, store
<1> QED
  BY <1>4, <1>6, <1>7, <1>8

LEMMA SaveTailKeeps ==
  ASSUME ReplicaConstants, ReplicaInv, SaveTail
  PROVE  ReplicaInv'
<1> USE DEF ReplicaInv
<1> DEFINE S == Newest(TailSize, saving.items)
           older == saving.older \/ S # saving.items
           kept == [saving EXCEPT !.items = S, !.older = older]
<1>1. /\ saving # None /\ saving' = None
      /\ key' = [thread |-> saving.thread, epoch |-> saving.epoch, last |-> LastSeq(saving)]
      /\ cache' = cache \/ cache' = [cache EXCEPT ![saving.thread] = kept]
      /\ UNCHANGED <<server, link, view>>
  BY DEF SaveTail
<1>2. /\ Whole(saving, len) /\ saving.epoch = saving.thread /\ saving \in Replica
      /\ len[saving.thread] \in Nat /\ saving.thread \in Threads /\ TailSize \in Positive
  BY <1>1 DEF StoreInv, Cacheable, Whole, Replica, TypeOK, ReplicaConstants, Positive
<1>3. Piece(saving.items, len[saving.thread]) /\ Piece(S, len[saving.thread])
  BY <1>2, TailOfPiece DEF Whole
<1>4. S \in Items /\ older \in BOOLEAN
  BY <1>2, <1>3, PieceItems
<1> HIDE DEF S, older
<1>5. /\ kept.thread = saving.thread /\ kept.epoch = saving.thread /\ kept.items = S
      /\ kept \in Replica
  BY <1>2, <1>4 DEF Replica
<1> HIDE DEF kept
<1>6. Cacheable(kept, len)
  BY <1>3, <1>5 DEF Cacheable, Whole
<1>7. cache \in [Threads -> Replica \cup {None}]
  BY DEF TypeOK
<1>8. cache' \in [Threads -> Replica \cup {None}]
  BY <1>1, <1>2, <1>5, <1>7
<1>9. LastSeq(saving) \in Nat
  BY <1>2, <1>3, PieceEnds DEF LastSeq, Positive
<1>10. key' \in [thread: Threads \cup {None}, epoch: Threads \cup {None}, last: Nat]
  BY <1>1, <1>2, <1>9
<1>11. TypeOK'
  BY <1>1, <1>8, <1>10 DEF TypeOK, server, link, view
<1>12. StoreInv'
  <2>1. ASSUME NEW t \in Threads, cache'[t] # None PROVE Cacheable(cache'[t], len) /\ cache'[t].thread = t
    <3>1. cache'[t] = cache[t] \/ (t = saving.thread /\ cache'[t] = kept)
      BY <1>1, <1>7
    <3> QED
      BY <1>5, <1>6, <2>1, <3>1 DEF StoreInv
  <2> QED
    BY <1>1, <2>1 DEF StoreInv, server
<1>13. EventInv' /\ ViewInv' /\ AskedInv'
  BY <1>1, EventSame, ViewSame, AskedSame DEF server, link, view
<1> QED
  BY <1>11, <1>12, <1>13

-----------------------------------------------------------------------------
(* The theorems.                                                           *)

LEMMA StepKeeps ==
  ASSUME ReplicaConstants, ReplicaInv, [Next]_vars
  PROVE  ReplicaInv'
<1>1. CASE UNCHANGED vars
  BY <1>1, EventSame, ViewSame, StoreSame, AskedSame
     DEF ReplicaInv, TypeOK, vars, server, link, view, store
<1>2. ASSUME NEW t \in Threads, AppendItem(t) PROVE ReplicaInv'
  BY <1>2, AppendItemKeeps
<1>3. ASSUME NEW t \in Threads, Select(t) PROVE ReplicaInv'
  BY <1>3, SelectKeeps
<1>4. ASSUME NEW e \in unsent, Emit(e) PROVE ReplicaInv'
  BY <1>4, EmitKeeps
<1>5. ASSUME NEW m \in Modes, Answer(m) PROVE ReplicaInv'
  BY <1>5, AnswerKeeps
<1>6. ASSUME NEW m \in Modes, Receive(m) PROVE ReplicaInv'
  BY <1>6, ReceiveKeeps
<1>7. ASSUME NEW m \in Modes, Fail(m) PROVE ReplicaInv'
  BY <1>7, FailKeeps
<1>8. CASE Deliver
  BY <1>8, DeliverKeeps
<1>9. CASE Flush
  BY <1>9, FlushKeeps
<1>10. CASE AskAfter
  BY <1>10, AskAfterKeeps
<1>11. CASE AskBefore
  BY <1>11, AskBeforeKeeps
<1>12. CASE GoOnline
  BY <1>12, GoOnlineKeeps
<1>13. CASE OpenSocket \/ CloseSocket
  BY <1>13, SocketKeeps
<1>14. CASE Load
  BY <1>14, LoadKeeps
<1>15. CASE SaveTail
  BY <1>15, SaveTailKeeps
<1> QED
  BY <1>1, <1>2, <1>3, <1>4, <1>5, <1>6, <1>7, <1>8, <1>9, <1>10, <1>11, <1>12, <1>13, <1>14, <1>15
     DEF Next

\* Whatever is under way between the phone and its host, what is shown, saved
\* and cached are pieces of one thread's timeline.
THEOREM ReplicaInvariant == Spec => []ReplicaInv
<1>1. Init => ReplicaInv
  BY InitHolds, ReplicaConstants
<1>2. ReplicaInv /\ [Next]_vars => ReplicaInv'
  BY StepKeeps, ReplicaConstants
<1> QED
  BY <1>1, <1>2, PTL DEF Spec

\* The variables of the replica keep their types.
THEOREM ReplicaTyped == Spec => []TypeOK
<1>1. ReplicaInv => TypeOK
  BY DEF ReplicaInv
<1> QED
  BY <1>1, ReplicaInvariant, PTL

\* applyTimelinePage's middle gap: against a host that never loses an item, the
\* page of a request adjoins the replica it remembers, so no gap is ever found.
NoGapFound ==
  \A m \in Modes : asked[m] # None /\ asked[m].page # None =>
    ~MiddleGap(asked[m].base, asked[m].page, asked[m].mode)

THEOREM PagesLeaveNoGap == Spec => []NoGapFound
<1>1. ASSUME ReplicaInv PROVE NoGapFound
  <2> SUFFICES ASSUME NEW m \in Modes, asked[m] # None, asked[m].page # None,
                      MiddleGap(asked[m].base, asked[m].page, asked[m].mode)
               PROVE  FALSE
    BY DEF NoGapFound
  <2> DEFINE q == asked[m]
  <2>1. AskOk(q, len)
    BY <1>1 DEF ReplicaInv, AskedInv
  <2>2. /\ q.mode = "after" /\ q.base.items # {} /\ q.page.items # {}
        /\ Min(q.page.items) > Max(q.base.items) + 1
    BY DEF MiddleGap
  <2>3. Min(q.page.items) = Max(q.base.items) + 1
    BY <2>1, <2>2 DEF AskOk, Fits
  <2>4. q.thread \in Threads /\ len[q.thread] \in Nat /\ Piece(q.page.items, len[q.thread])
    BY <1>1, <2>1 DEF ReplicaInv, TypeOK, AskOk, Asks, Fits
  <2>5. Min(q.page.items) \in Nat
    BY <2>2, <2>4, PieceEnds DEF Positive
  <2> QED
    BY <2>2, <2>3, <2>5
<1> QED
  BY <1>1, ReplicaInvariant, PTL

LEMMA WholeIsPiece ==
  ASSUME len \in Lengths, NEW r, Whole(r, len)
  PROVE  PieceOf(r)
<1>1. CASE r.items = {}
  BY <1>1 DEF PieceOf
<1>2. CASE r.items # {}
  <2>1. r.epoch = r.thread /\ Piece(r.items, len[r.epoch]) /\ len[r.epoch] \in Nat
    BY <1>2 DEF Whole, Replica, Lengths
  <2> QED
    BY <1>2, <2>1, PieceEnds DEF PieceOf
<1> QED
  BY <1>1, <1>2

\* applyTimelinePage and applyControlEvents: whatever order events and pages
\* come in, what is shown and cached has no hole and ends within its timeline.
THEOREM PiecesShown == Spec => []ReplicaIsPiece
<1>1. ASSUME ReplicaInv PROVE ReplicaIsPiece
  <2>1. len \in Lengths
    BY <1>1 DEF ReplicaInv, TypeOK, Lengths
  <2>2. shown # None => PieceOf(shown)
    BY <1>1, <2>1, WholeIsPiece DEF ReplicaInv, ViewInv
  <2>3. \A t \in Threads : cache[t] # None => PieceOf(cache[t])
    BY <1>1, <2>1, WholeIsPiece DEF ReplicaInv, StoreInv, Cacheable
  <2> QED
    BY <2>2, <2>3 DEF ReplicaIsPiece
<1> QED
  BY <1>1, ReplicaInvariant, PTL

\* refreshTimeline's check after its fetch: an answer about another thread is
\* never shown, nor cached as this one's.
THEOREM SelectedShown == Spec => []ShowsSelectedThread
<1>1. ReplicaInv => ShowsSelectedThread
  BY DEF ReplicaInv, ViewInv, StoreInv, Cacheable, Whole, ShowsSelectedThread
<1> QED
  BY <1>1, ReplicaInvariant, PTL
=============================================================================
