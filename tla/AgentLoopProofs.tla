--------------------------- MODULE AgentLoopProofs ---------------------------
(***************************************************************************)
(* The messages of the agent loop and the ledger of the journal: every call *)
(* keeps its results, the user's request and the notes survive compaction, *)
(* and the journal gives back what the loop holds, for every number of     *)
(* steps, calls and retries.                                               *)
(***************************************************************************)
EXTENDS AgentLoop, SequenceTheorems, FiniteSetTheorems, TLAPS

-----------------------------------------------------------------------------
(* The inductive invariant.                                                *)

\* Answered, and the number of every result is one of its calls: without it a
\* sequence could not be cut between turns.
Sound(ms) ==
  /\ Answered(ms)
  /\ \A i \in DOMAIN ms :
       ms[i].kind \in Results => ms[i].at \in 1..ms[i - ms[i].at].at

Between == {"start", "top", "request", "attempt", "backoff", "reply"}
Working == {"announce", "decide", "execute"}

\* The budgets of the retries and of the steps, by the place in the loop.
CountInv ==
  /\ outcome # "none" <=> pc = "ended"
  /\ pc # "ended" => iter + 1 <= MaxIterations \/ pc = "reply"
  /\ pc \in {"attempt", "backoff"} => request.attempts <= MaxRetries
  /\ pc = "start" => iter = 0
  /\ iter = 0 => ~answer.noted /\ calls = <<>>

\* Calls by their place: those of a step that goes on are all recorded, those
\* that wait for a verdict are not denied yet, and results come in call order.
CallInv ==
  /\ RanIsRecorded
  /\ pc = "top" => \A i \in DOMAIN calls : calls[i].recorded
  /\ pc \in {"reply", "announce", "decide"} => \A i \in DOMAIN calls : ~calls[i].recorded
  /\ pc \in {"decide", "execute"} =>
       \A i \in DOMAIN calls : calls[i].state \in {"approved", "ask"} => calls[i].key \notin denied
  /\ pc = "execute" => \A i \in DOMAIN calls : calls[i].state # "ask"
  /\ pc \in Working => calls # <<>>
  /\ pc = "execute" /\ Waiting # {} => \A i \in DOMAIN calls : ~calls[i].recorded
  /\ pc = "execute" => \A i, j \in DOMAIN calls : i < j /\ calls[j].recorded => calls[i].recorded
  /\ pc = "execute" => \A i \in Gave("proposal") : ~calls[i].recorded

\* The latest step of the ledger is what the journal wrote: a request, then a
\* reply, then the results of its first calls.
Called(s) == s.assistant # <<>> /\ s.assistant[1].kind = "calls"

SentOk(s) ==
  /\ s.step = 0 => s = NotSent
  /\ s.step > 0 => /\ Sound(s.msgs)
                   /\ s.index # 0 => s.index \in 1..Len(s.msgs) /\ s.msgs[s.index].kind = "request"
  /\ ~s.answered => s.assistant = <<>> /\ s.results = <<>>
  /\ s.assistant # <<>> => /\ Len(s.assistant) = 1
                           /\ s.assistant[1].kind \in {"text", "calls"}
                           /\ s.assistant[1].step = s.step
  /\ ~Called(s) => s.results = <<>>
  /\ Called(s) => Len(s.results) <= s.assistant[1].at
  /\ \A i \in 1..Len(s.results) : s.results[i] = Msg("tool", s.step, i)

SentInv == SentOk(sent)

\* The journal has not placed the user's request yet, it has, or the run met its
\* limit before it could.
Fresh == iter = 0 /\ pc \in {"start", "top"}
Asked == iter > 0 \/ pc \in {"request", "attempt", "backoff"}
Late  == iter = 0 /\ pc = "ended" /\ out

\* The loop and the journal agree on where the user's request is, from the first
\* step on.
AnchorInv ==
  /\ msgs[anchor].kind = "request"
  /\ Fresh => index = 0 /\ Last(Where(msgs, User), 0) = anchor
  /\ Asked => index = anchor
  /\ sent.step > 0 /\ sent.index = 0 => Late

\* What the loop holds against what the journal would rebuild, at each place.
LedgerInv ==
  /\ pc \in Between => Sound(msgs)
  /\ LedgerIsExact
  /\ pc \in {"attempt", "backoff"} => sent = Sending(iter + 1, msgs, index)
  /\ pc \in {"reply"} \cup Working =>
       /\ sent.step = iter /\ iter > 0 /\ sent.index = index /\ sent.answered
  /\ pc = "reply" =>
       /\ msgs = sent.msgs /\ sent.results = <<>>
       /\ sent.assistant = IF calls # <<>> THEN <<Msg("calls", iter, Len(calls))>>
                           ELSE IF answer.text THEN <<Msg("text", iter, 0)>> ELSE <<>>
  /\ pc \in Working =>
       /\ sent.assistant = <<Msg("calls", iter, Len(calls))>>
       /\ msgs = sent.msgs \o sent.assistant \o sent.results
       /\ Open = (Len(sent.results) + 1)..Len(calls)

\* The note of a continued step waits, or is the last message.
NoteInv ==
  /\ pc = "top" /\ answer.noted => notes # <<>> /\ notes[Len(notes)] = "note"
  /\ pc \in {"request", "attempt", "backoff"} /\ answer.noted =>
       msgs[Len(msgs)] = Msg("note", iter + 1, 0)

LoopInv ==
  TypeOK /\ CountInv /\ CallInv /\ SentInv /\ AnchorInv /\ LedgerInv /\ NoteInv
-----------------------------------------------------------------------------
(* Positions: the first, the last and the n-th of a set of numbers.         *)

LEMMA Smallest ==
  ASSUME NEW S \in SUBSET Nat, S # {}
  PROVE  \E m \in S : \A j \in S : m <= j
<1>1. PICK m \in S : \A j \in S : <<j, m>> \notin OpToRel(<, Nat)
  BY NatLessThanWellFounded, WFMin
<1>2. \A j \in S : ~(j < m)
  BY <1>1 DEF OpToRel
<1> QED
  BY <1>2

LEMMA Greatest ==
  ASSUME NEW n \in Nat, NEW S \in SUBSET (1..n), S # {}
  PROVE  \E m \in S : \A j \in S : j <= m
<1> DEFINE T == {n - j : j \in S}
<1>1. T \in SUBSET Nat /\ T # {}
  <2>1. \A j \in S : j \in Int /\ n - j \in Nat
    OBVIOUS
  <2>2. PICK j \in S : TRUE
    OBVIOUS
  <2>3. n - j \in T
    OBVIOUS
  <2> QED
    BY <2>1, <2>3
<1>2. PICK t \in T : \A u \in T : t <= u
  BY <1>1, Smallest
<1>3. PICK m \in S : t = n - m
  OBVIOUS
<1>4. \A j \in S : t <= n - j
  BY <1>2
<1> QED
  BY <1>3, <1>4

LEMMA FirstIs ==
  ASSUME NEW S \in SUBSET Nat, NEW d, S # {}
  PROVE  First(S, d) \in S /\ \A j \in S : First(S, d) <= j
<1>1. \E m \in S : \A j \in S : m <= j
  BY Smallest
<1>2. First(S, d) = CHOOSE i \in S : \A j \in S : i <= j
  BY DEF First
<1> QED
  BY <1>1, <1>2

LEMMA LastIs ==
  ASSUME NEW n \in Nat, NEW S \in SUBSET (1..n), NEW d, S # {}
  PROVE  Last(S, d) \in S /\ \A j \in S : j <= Last(S, d)
<1>1. \E m \in S : \A j \in S : j <= m
  BY Greatest
<1>2. Last(S, d) = CHOOSE i \in S : \A j \in S : j <= i
  BY DEF Last
<1> QED
  BY <1>1, <1>2

LEMMA FirstOfInterval ==
  ASSUME NEW a \in Nat, NEW b \in Int, NEW d
  PROVE  First(a..b, d) = IF a <= b THEN a ELSE d
<1>1. CASE a <= b
  <2>1. a..b \in SUBSET Nat /\ a \in a..b
    BY <1>1
  <2>2. First(a..b, d) \in a..b /\ First(a..b, d) <= a
    BY <2>1, FirstIs
  <2> QED
    BY <2>2, <1>1
<1>2. CASE ~(a <= b)
  BY <1>2 DEF First
<1> QED
  BY <1>1, <1>2

LEMMA LastOfInterval ==
  ASSUME NEW a \in Nat \ {0}, NEW b \in Int, NEW d
  PROVE  Last(a..b, d) = IF a <= b THEN b ELSE d
<1>1. CASE a <= b
  <2>1. b \in Nat /\ a..b \in SUBSET (1..b) /\ b \in a..b
    BY <1>1
  <2>2. Last(a..b, d) \in a..b /\ b <= Last(a..b, d)
    BY <2>1, LastIs
  <2> QED
    BY <2>2, <1>1
<1>2. CASE ~(a <= b)
  BY <1>2 DEF Last
<1> QED
  BY <1>1, <1>2

LEMMA FiniteBelow ==
  ASSUME NEW n \in Nat, NEW S \in SUBSET (1..n)
  PROVE  IsFiniteSet(S) /\ Cardinality(S) \in Nat
<1>1. IsFiniteSet(1..n)
  <2>1. 1 \in Int /\ n \in Int
    OBVIOUS
  <2> QED
    BY <2>1, FS_Interval
<1>2. IsFiniteSet(S)
  BY <1>1, FS_Subset
<1> QED
  BY <1>2, FS_CardinalityType

LEMMA IntervalSize ==
  ASSUME NEW a \in Int, NEW b \in Int, a <= b + 1
  PROVE  Cardinality(a..b) = b - a + 1
<1>1. Cardinality(a..b) = IF a > b THEN 0 ELSE b - a + 1
  BY FS_Interval
<1> QED
  BY <1>1

\* The elements of S up to the greatest one below t are those below t.
LEMMA NthIn ==
  ASSUME NEW n \in Nat, NEW S \in SUBSET (1..n), NEW k \in 1..Cardinality(S)
  PROVE  Nth(S, k) \in S
<1> DEFINE Below(i) == {j \in S : j < i}
           UpTo(i)  == {j \in S : j <= i}
           T == {i \in S : Cardinality(UpTo(i)) >= k}
<1>1. IsFiniteSet(S) /\ Cardinality(S) \in Nat
  BY FiniteBelow
<1>2. \A i \in S : /\ IsFiniteSet(UpTo(i)) /\ Cardinality(UpTo(i)) \in Nat
                   /\ IsFiniteSet(Below(i)) /\ Cardinality(Below(i)) \in Nat
  <2> TAKE i \in S
  <2>1. UpTo(i) \in SUBSET S /\ Below(i) \in SUBSET S
    OBVIOUS
  <2>2. IsFiniteSet(UpTo(i)) /\ IsFiniteSet(Below(i))
    BY <1>1, <2>1, FS_Subset
  <2> QED
    BY <2>2, FS_CardinalityType
<1>3. \A i \in S : Cardinality(UpTo(i)) = Cardinality(Below(i)) + 1
  <2> TAKE i \in S
  <2>1. UpTo(i) = Below(i) \cup {i} /\ i \notin Below(i)
    <3>1. \A j \in S : j \in Nat /\ (j <= i <=> j < i \/ j = i)
      OBVIOUS
    <3>2. i \in S /\ ~(i < i)
      OBVIOUS
    <3>3. \A j : j \in UpTo(i) <=> j \in Below(i) \cup {i}
      BY <3>1, <3>2, Zenon
    <3> QED
      BY <3>2, <3>3, Zenon
  <2> HIDE DEF Below, UpTo
  <2> QED
    BY <1>2, <2>1, FS_AddElement
<1>4. T # {}
  <2>1. S # {}
    BY FS_EmptySet
  <2>2. PICK m \in S : \A j \in S : j <= m
    BY <2>1, Greatest
  <2>3. UpTo(m) = S
    BY <2>2
  <2> QED
    BY <2>3, <1>1
<1>5. T \in SUBSET Nat
  <2>1. T \subseteq S /\ S \subseteq Nat
    OBVIOUS
  <2> QED
    BY <2>1
<1>6. PICK i \in T : \A j \in T : i <= j
  BY <1>4, <1>5, Smallest
<1>7. ASSUME Cardinality(Below(i)) >= k PROVE FALSE
  <2>1. Below(i) # {}
    BY <1>7, FS_EmptySet
  <2>2. Below(i) \in SUBSET (1..n)
    OBVIOUS
  <2>3. PICK m \in Below(i) : \A j \in Below(i) : j <= m
    <3> HIDE DEF Below
    <3> QED
      BY <2>1, <2>2, Greatest
  <2>4. UpTo(m) = Below(i)
    <3>1. m \in S /\ m < i /\ \A j \in S : j < i => j <= m
      BY <2>3
    <3>2. \A j \in S : j \in Nat
      OBVIOUS
    <3>3. i \in Nat /\ m \in Nat
      BY <3>1, <3>2
    <3>4. \A j \in S : j <= m <=> j < i
      BY <3>1, <3>2, <3>3
    <3> QED
      BY <3>4
  <2>5. m \in T
    BY <2>3, <2>4, <1>7
  <2> QED
    BY <2>3, <2>5, <1>6
<1>8. Cardinality(Below(i)) = k - 1
  <2>1. i \in S /\ Cardinality(UpTo(i)) >= k
    OBVIOUS
  <2> HIDE DEF Below, UpTo, T
  <2> QED
    BY <2>1, <1>1, <1>2, <1>3, <1>7
<1>9. i \in S /\ Cardinality({j \in S : j < i}) = k - 1
  BY <1>8
<1> QED
  BY <1>9 DEF Nth

LEMMA NthOfInterval ==
  ASSUME NEW a \in Nat, NEW b \in Nat, NEW k \in 1..(b - a + 1)
  PROVE  Nth(a..b, k) = a + k - 1
<1>1. \A i \in a..b : {j \in a..b : j < i} = a..(i - 1)
  OBVIOUS
<1>2. \A i \in a..b : Cardinality(a..(i - 1)) = i - a
  <2> TAKE i \in a..b
  <2>1. i - 1 \in Int /\ a \in Int /\ a <= (i - 1) + 1
    OBVIOUS
  <2>2. Cardinality(a..(i - 1)) = (i - 1) - a + 1
    BY <2>1, IntervalSize
  <2> QED
    BY <2>2
<1>3. \A i \in a..b : Cardinality({j \in a..b : j < i}) = k - 1 <=> i = a + k - 1
  <2> TAKE i \in a..b
  <2>1. Cardinality({j \in a..b : j < i}) = i - a
    BY <1>1, <1>2
  <2> QED
    BY <2>1
<1>4. a + k - 1 \in a..b
  OBVIOUS
<1> QED
  BY <1>3, <1>4 DEF Nth

\* What is picked are messages of the positions asked for.
LEMMA PickedIs ==
  ASSUME NEW ms \in Seq(Message), NEW S \in SUBSET (1..Len(ms))
  PROVE  /\ Picked(ms, S) \in Seq(Message)
         /\ \A k \in 1..Len(Picked(ms, S)) : \E i \in S : Picked(ms, S)[k] = ms[i]
<1>1. Cardinality(S) \in Nat
  <2>1. Len(ms) \in Nat
    BY LenProperties
  <2> QED
    BY <2>1, FiniteBelow
<1>2. \A k \in 1..Cardinality(S) : Nth(S, k) \in S
  <2>1. Len(ms) \in Nat
    BY LenProperties
  <2> QED
    BY <2>1, NthIn
<1>3. \A k \in 1..Cardinality(S) : ms[Nth(S, k)] \in Message
  <2> TAKE k \in 1..Cardinality(S)
  <2>1. Nth(S, k) \in 1..Len(ms)
    BY <1>2
  <2> QED
    BY <2>1, ElementOfSeq
<1>4. Picked(ms, S) \in [1..Cardinality(S) -> Message]
  BY <1>3 DEF Picked
<1>5. Picked(ms, S) \in Seq(Message)
  BY <1>1, <1>4, SeqDef
<1>6. Len(Picked(ms, S)) = Cardinality(S)
  BY <1>1, <1>4, <1>5, LenProperties
<1>7. \A k \in 1..Cardinality(S) : Picked(ms, S)[k] = ms[Nth(S, k)]
  BY DEF Picked
<1> QED
  BY <1>2, <1>5, <1>6, <1>7

\* Picking an interval is cutting it out.
LEMMA PickedInterval ==
  ASSUME NEW ms \in Seq(Message), NEW a \in Nat \ {0}, NEW b \in 0..Len(ms), a <= b + 1
  PROVE  /\ Picked(ms, a..b) \in Seq(Message) /\ Len(Picked(ms, a..b)) = b - a + 1
         /\ \A k \in 1..(b - a + 1) : Picked(ms, a..b)[k] = ms[a + k - 1]
<1>1. a..b \in SUBSET (1..Len(ms))
  OBVIOUS
<1>2. Cardinality(a..b) = b - a + 1 /\ b - a + 1 \in Nat
  BY IntervalSize
<1>3. Picked(ms, a..b) \in Seq(Message)
  BY <1>1, PickedIs
<1>4. Len(Picked(ms, a..b)) = b - a + 1
  <2>1. DOMAIN Picked(ms, a..b) = 1..(b - a + 1)
    BY <1>2 DEF Picked
  <2> QED
    BY <1>2, <1>3, <2>1, LenProperties
<1>5. \A k \in 1..(b - a + 1) : Picked(ms, a..b)[k] = ms[Nth(a..b, k)]
  BY <1>2 DEF Picked
<1>6. b \in Nat /\ a \in Nat
  OBVIOUS
<1>7. \A k \in 1..(b - a + 1) : Nth(a..b, k) = a + k - 1
  BY <1>6, NthOfInterval
<1> QED
  BY <1>3, <1>4, <1>5, <1>7

-----------------------------------------------------------------------------
(* Sequences of messages in which every call has its results.              *)

\* What stands in for most messages: neither a call nor a result.
Plain(ms) == \A i \in 1..Len(ms) : ms[i].kind \notin Results \cup {"calls"}

LEMMA KindSets ==
  /\ Kinds = User \cup Assistant \cup System \cup Results
  /\ "calls" \in Assistant /\ "calls" \notin Results
  /\ \A k \in User \cup System : k \notin Results \cup {"calls"}
  /\ \A k \in Assistant : k \notin Results
  /\ "text" \in Assistant /\ "request" \in User /\ "summary" \in System
BY DEF Kinds, User, Assistant, System, Results

LEMMA MessageIs ==
  ASSUME NEW k \in Kinds, NEW s \in Nat, NEW a \in Nat
  PROVE  /\ Msg(k, s, a) \in Message
         /\ Msg(k, s, a).kind = k /\ Msg(k, s, a).step = s /\ Msg(k, s, a).at = a
BY DEF Msg, Message

\* Sound, with the bounds of a sequence spelled out.
LEMMA SoundIs ==
  ASSUME NEW ms \in Seq(Message)
  PROVE  Sound(ms) <=>
           \A i \in 1..Len(ms) :
             /\ ms[i].kind = "calls" =>
                  /\ i + ms[i].at <= Len(ms)
                  /\ \A k \in 1..ms[i].at : /\ ms[i + k].kind \in Results
                                            /\ ms[i + k].step = ms[i].step /\ ms[i + k].at = k
             /\ ms[i].kind \in Results =>
                  /\ i > ms[i].at /\ ms[i].at \in 1..ms[i - ms[i].at].at
                  /\ ms[i - ms[i].at].kind = "calls"
                  /\ ms[i - ms[i].at].step = ms[i].step
<1>1. DOMAIN ms = 1..Len(ms)
  BY LenProperties
<1> QED
  BY <1>1, Zenon DEF Sound, Answered

LEMMA Typed ==
  ASSUME NEW ms \in Seq(Message), NEW i \in 1..Len(ms)
  PROVE  /\ ms[i] \in Message /\ ms[i].kind \in Kinds
         /\ ms[i].step \in Nat /\ ms[i].at \in Nat
<1>1. ms[i] \in Message
  BY ElementOfSeq
<1> QED
  BY <1>1 DEF Message

LEMMA PlainSound ==
  ASSUME NEW ms \in Seq(Message), Plain(ms)
  PROVE  Sound(ms)
<1>1. \A i \in 1..Len(ms) : ms[i].kind # "calls" /\ ms[i].kind \notin Results
  BY DEF Plain
<1> QED
  BY <1>1, SoundIs, Zenon

\* Two sound sequences make one.
LEMMA Join ==
  ASSUME NEW x \in Seq(Message), NEW y \in Seq(Message), Sound(x), Sound(y)
  PROVE  x \o y \in Seq(Message) /\ Sound(x \o y)
<1> DEFINE z == x \o y
<1>1. z \in Seq(Message) /\ Len(z) = Len(x) + Len(y)
  BY ConcatProperties
<1>2. Len(x) \in Nat /\ Len(y) \in Nat
  BY LenProperties
<1>3. \A i \in 1..Len(x) : z[i] = x[i]
  BY <1>2, ConcatProperties
<1>4. \A i \in 1..Len(y) : z[Len(x) + i] = y[i]
  <2> TAKE i \in 1..Len(y)
  <2>1. Len(x) + i \in 1..(Len(x) + Len(y)) /\ ~(Len(x) + i <= Len(x)) /\ (Len(x) + i) - Len(x) = i
    BY <1>2
  <2> QED
    BY <2>1, ConcatProperties
<1> HIDE DEF z
<1>5. ASSUME NEW i \in 1..Len(x)
      PROVE  /\ z[i].kind = "calls" =>
                  /\ i + z[i].at <= Len(z)
                  /\ \A k \in 1..z[i].at : /\ z[i + k].kind \in Results
                                           /\ z[i + k].step = z[i].step /\ z[i + k].at = k
             /\ z[i].kind \in Results =>
                  /\ i > z[i].at /\ z[i].at \in 1..z[i - z[i].at].at
                  /\ z[i - z[i].at].kind = "calls"
                  /\ z[i - z[i].at].step = z[i].step
  <2>1. z[i] = x[i] /\ x[i].at \in Nat
    BY <1>3, Typed
  <2>2. CASE x[i].kind = "calls"
    <3>1. i + x[i].at <= Len(x)
      BY <2>2, SoundIs
    <3>2. \A k \in 1..x[i].at : i + k \in 1..Len(x)
      BY <2>1, <3>1, <1>2
    <3>3. \A k \in 1..x[i].at : /\ x[i + k].kind \in Results
                                /\ x[i + k].step = x[i].step /\ x[i + k].at = k
      BY <2>2, SoundIs
    <3>4. \A k \in 1..x[i].at : z[i + k] = x[i + k]
      BY <3>2, <1>3
    <3>5. i + x[i].at <= Len(z)
      BY <3>1, <1>1, <1>2, <2>1
    <3> QED
      BY <2>1, <2>2, <3>3, <3>4, <3>5, KindSets
  <2>3. CASE x[i].kind \in Results
    <3>1. i > x[i].at /\ x[i].at \in 1..x[i - x[i].at].at /\ x[i - x[i].at].kind = "calls"
          /\ x[i - x[i].at].step = x[i].step
      BY <2>3, SoundIs
    <3>2. i - x[i].at \in 1..Len(x)
      BY <3>1, <2>1, <1>2
    <3>3. z[i - x[i].at] = x[i - x[i].at]
      BY <3>2, <1>3
    <3> QED
      BY <2>1, <2>3, <3>1, <3>3, KindSets
  <2> QED
    BY <2>1, <2>2, <2>3
<1>6. ASSUME NEW j \in 1..Len(y), NEW i, i = Len(x) + j
      PROVE  /\ z[i].kind = "calls" =>
                  /\ i + z[i].at <= Len(z)
                  /\ \A k \in 1..z[i].at : /\ z[i + k].kind \in Results
                                           /\ z[i + k].step = z[i].step /\ z[i + k].at = k
             /\ z[i].kind \in Results =>
                  /\ i > z[i].at /\ z[i].at \in 1..z[i - z[i].at].at
                  /\ z[i - z[i].at].kind = "calls"
                  /\ z[i - z[i].at].step = z[i].step
  <2>1. z[i] = y[j] /\ y[j].at \in Nat
    BY <1>4, <1>6, Typed
  <2>2. CASE y[j].kind = "calls"
    <3>1. j + y[j].at <= Len(y)
      BY <2>2, SoundIs
    <3>2. \A k \in 1..y[j].at : j + k \in 1..Len(y) /\ i + k = Len(x) + (j + k)
      BY <2>1, <3>1, <1>2, <1>6
    <3>3. \A k \in 1..y[j].at : /\ y[j + k].kind \in Results
                                /\ y[j + k].step = y[j].step /\ y[j + k].at = k
      BY <2>2, SoundIs
    <3>4. \A k \in 1..y[j].at : z[i + k] = y[j + k]
      BY <3>2, <1>4
    <3>5. i + y[j].at <= Len(z)
      BY <3>1, <1>1, <1>2, <1>6, <2>1
    <3>6. \A k \in 1..y[j].at : /\ z[i + k].kind \in Results
                                /\ z[i + k].step = y[j].step /\ z[i + k].at = k
      BY <3>3, <3>4, Zenon
    <3>7. y[j].kind \notin Results
      BY <2>2, KindSets
    <3> QED
      BY <2>1, <3>5, <3>6, <3>7
  <2>3. CASE y[j].kind \in Results
    <3>1. j > y[j].at /\ y[j].at \in 1..y[j - y[j].at].at /\ y[j - y[j].at].kind = "calls"
          /\ y[j - y[j].at].step = y[j].step
      BY <2>3, SoundIs
    <3>2. j - y[j].at \in 1..Len(y) /\ i - y[j].at = Len(x) + (j - y[j].at) /\ i > y[j].at
      BY <3>1, <2>1, <1>2, <1>6
    <3>3. z[i - y[j].at] = y[j - y[j].at]
      BY <3>2, <1>4
    <3> QED
      BY <2>1, <2>3, <3>1, <3>2, <3>3, KindSets
  <2> QED
    BY <2>1, <2>2, <2>3
<1>7. ASSUME NEW i \in 1..Len(z)
      PROVE  /\ z[i].kind = "calls" =>
                  /\ i + z[i].at <= Len(z)
                  /\ \A k \in 1..z[i].at : /\ z[i + k].kind \in Results
                                           /\ z[i + k].step = z[i].step /\ z[i + k].at = k
             /\ z[i].kind \in Results =>
                  /\ i > z[i].at /\ z[i].at \in 1..z[i - z[i].at].at
                  /\ z[i - z[i].at].kind = "calls"
                  /\ z[i - z[i].at].step = z[i].step
  <2>1. CASE i \in 1..Len(x)
    BY <2>1, <1>5, Zenon
  <2>2. CASE i \notin 1..Len(x)
    <3>1. i - Len(x) \in 1..Len(y) /\ i = Len(x) + (i - Len(x))
      BY <2>2, <1>1, <1>2
    <3> QED
      BY <3>1, <1>6, Zenon
  <2> QED
    BY <2>1, <2>2
<1> QED
  BY <1>1, <1>7, SoundIs, Zenon DEF z

\* A sound sequence may be cut before anything but a result.
LEMMA Cut ==
  ASSUME NEW ms \in Seq(Message), Sound(ms), NEW c \in 1..(Len(ms) + 1),
         c <= Len(ms) => ms[c].kind \notin Results
  PROVE  LET t == SubSeq(ms, c, Len(ms))
         IN /\ t \in Seq(Message) /\ Sound(t) /\ Len(t) = Len(ms) - c + 1
            /\ \A i \in 1..(Len(ms) - c + 1) : t[i] = ms[c + i - 1]
<1> DEFINE t == SubSeq(ms, c, Len(ms))
<1>1. Len(ms) \in Nat
  BY LenProperties
<1>2. \A i \in c..Len(ms) : ms[i] \in Message
  BY <1>1, ElementOfSeq
<1>3. /\ t \in Seq(Message)
      /\ Len(t) = Len(ms) - c + 1
      /\ \A i \in 1..(Len(ms) - c + 1) : t[i] = ms[c + i - 1]
  <2>1. c \in Int /\ Len(ms) \in Int
    BY <1>1
  <2>2. t \in Seq(Message) /\ Len(t) = (IF c <= Len(ms) THEN Len(ms) - c + 1 ELSE 0)
        /\ \A i \in 1..(Len(ms) - c + 1) : t[i] = ms[c + i - 1]
    BY <2>1, <1>2, SubSeqProperties
  <2> HIDE DEF t
  <2> QED
    BY <2>2, <1>1
<1> HIDE DEF t
<1>4. ASSUME NEW i \in 1..Len(t)
      PROVE  /\ t[i].kind = "calls" =>
                  /\ i + t[i].at <= Len(t)
                  /\ \A k \in 1..t[i].at : /\ t[i + k].kind \in Results
                                           /\ t[i + k].step = t[i].step /\ t[i + k].at = k
             /\ t[i].kind \in Results =>
                  /\ i > t[i].at /\ t[i].at \in 1..t[i - t[i].at].at
                  /\ t[i - t[i].at].kind = "calls"
                  /\ t[i - t[i].at].step = t[i].step
  <2>j. PICK j : j = c + i - 1
    OBVIOUS
  <2>1. j \in 1..Len(ms) /\ c <= j /\ c \in Nat /\ c >= 1 /\ i \in 1..(Len(ms) - c + 1)
    BY <2>j, <1>1, <1>3
  <2>2. t[i] = ms[j]
    BY <2>1, <2>j, <1>3
  <2>n. PICK n \in Nat : n = ms[j].at
    BY <2>1, Typed
  <2>3. CASE ms[j].kind = "calls"
    <3>1. j + n <= Len(ms)
      BY <2>1, <2>3, <2>n, SoundIs
    <3>2. \A k \in 1..n : i + k \in 1..(Len(ms) - c + 1) /\ c + (i + k) - 1 = j + k
      BY <3>1, <2>j, <2>1, <1>1
    <3>3. \A k \in 1..n : t[i + k] = ms[j + k]
      BY <3>2, <1>3
    <3>4. \A k \in 1..n : /\ ms[j + k].kind \in Results
                           /\ ms[j + k].step = ms[j].step /\ ms[j + k].at = k
      BY <2>1, <2>3, <2>n, SoundIs
    <3>l. Len(t) = Len(ms) - c + 1
      BY <1>3
    <3>5. i + n <= Len(t)
      BY <3>1, <3>l, <2>j, <2>1, <1>1
    <3>6. \A k \in 1..n : /\ t[i + k].kind \in Results
                           /\ t[i + k].step = ms[j].step /\ t[i + k].at = k
      BY <3>3, <3>4, Zenon
    <3>7. ms[j].kind \notin Results
      BY <2>3, KindSets
    <3> QED
      BY <2>2, <2>n, <3>5, <3>6, <3>7
  <2>4. CASE ms[j].kind \in Results
    <3>d. PICK d : d = j - n
      OBVIOUS
    <3>1. j > n /\ n \in 1..ms[d].at /\ ms[d].kind = "calls" /\ ms[d].step = ms[j].step
      BY <2>1, <2>4, <2>n, <3>d, SoundIs
    <3>2. d \in 1..Len(ms) /\ d < j
      BY <3>1, <3>d, <2>1, <1>1
    <3>m. PICK m \in Nat : m = ms[d].at
      BY <3>2, Typed
    <3>4. c <= d
      <4> SUFFICES ASSUME d < c PROVE FALSE
        BY <2>1, <3>2
      <4>n. n \in 1..m
        BY <3>1, <3>m
      <4>j. j = d + n /\ d \in Nat /\ j \in Nat /\ j <= Len(ms)
        BY <2>1, <3>2, <3>d, <1>1
      <4>k. PICK k : k = c - d
        OBVIOUS
      <4>l. j <= Len(ms) /\ c <= j /\ j = d + n /\ n <= m /\ n \in Nat /\ c \in Nat
        BY <2>1, <4>n, <4>j
      <4>1. k \in 1..m /\ d + k = c /\ c <= Len(ms)
        BY <4>l, <4>k, <4>j, <3>m, <1>1
      <4>2. ms[d + k].kind \in Results
        BY <4>1, <3>1, <3>2, <3>m, SoundIs
      <4> QED
        BY <4>1, <4>2
    <3>5. i - n \in 1..(Len(ms) - c + 1) /\ c + (i - n) - 1 = d /\ i > n
      BY <3>4, <3>2, <3>d, <2>1, <2>j, <1>1
    <3>6. t[i - n] = ms[d]
      BY <3>5, <1>3
    <3> QED
      BY <2>2, <2>4, <2>n, <3>1, <3>5, <3>6, KindSets
  <2> QED
    BY <2>2, <2>3, <2>4
<1>5. Sound(t)
  BY <1>3, <1>4, SoundIs, Zenon
<1> QED
  BY <1>3, <1>5 DEF t

-----------------------------------------------------------------------------
(* Compaction.                                                             *)

\* Eliding changes the kind of some results and nothing else.
LEMMA ElisionKeeps ==
  ASSUME NEW ms \in Seq(Message), Sound(ms), NEW keep, NEW e \in Elisions(ms, keep)
  PROVE  /\ e \in Seq(Message) /\ Len(e) = Len(ms) /\ Sound(e)
         /\ \A i \in 1..Len(ms) : ms[i].kind # "tool" => e[i] = ms[i]
<1> DEFINE old == Prunable(ms, keep)
<1>0. DOMAIN ms = 1..Len(ms) /\ Len(ms) \in Nat
  BY LenProperties
<1>1. \A i \in old : i \in 1..Len(ms) /\ ms[i].kind = "tool"
  BY <1>0 DEF Prunable, Where
<1>2. e = [i \in DOMAIN ms |-> IF i \in old THEN [ms[i] EXCEPT !.kind = "stub"] ELSE ms[i]]
  BY DEF Elisions
<1> HIDE DEF old
<1>3. \A i \in 1..Len(ms) :
        /\ e[i] \in Message /\ e[i].step = ms[i].step /\ e[i].at = ms[i].at
        /\ e[i].kind = IF i \in old THEN "stub" ELSE ms[i].kind
        /\ i \notin old => e[i] = ms[i]
  <2> TAKE i \in 1..Len(ms)
  <2>1. ms[i] \in Message
    BY Typed
  <2>2. "stub" \in Kinds
    BY DEF Kinds, Results
  <2> DEFINE w == [ms[i] EXCEPT !.kind = "stub"]
  <2>3. w \in Message /\ w.step = ms[i].step /\ w.at = ms[i].at /\ w.kind = "stub"
    BY <2>1, <2>2 DEF Message
  <2>4. e[i] = IF i \in old THEN w ELSE ms[i]
    BY <1>0, <1>2
  <2> HIDE DEF w
  <2> QED
    BY <2>1, <2>3, <2>4
<1>4. e \in [1..Len(ms) -> Message]
  BY <1>0, <1>2, <1>3
<1>5. e \in Seq(Message)
  BY <1>0, <1>4, SeqDef
<1>6. Len(e) = Len(ms)
  BY <1>0, <1>4, <1>5, LenProperties
<1>7. \A i \in 1..Len(ms) : /\ e[i].kind = "calls" <=> ms[i].kind = "calls"
                            /\ e[i].kind \in Results <=> ms[i].kind \in Results
  BY <1>1, <1>3 DEF Results
<1>8. ASSUME NEW i \in 1..Len(e)
      PROVE  /\ e[i].kind = "calls" =>
                  /\ i + e[i].at <= Len(e)
                  /\ \A k \in 1..e[i].at : /\ e[i + k].kind \in Results
                                           /\ e[i + k].step = e[i].step /\ e[i + k].at = k
             /\ e[i].kind \in Results =>
                  /\ i > e[i].at /\ e[i].at \in 1..e[i - e[i].at].at
                  /\ e[i - e[i].at].kind = "calls"
                  /\ e[i - e[i].at].step = e[i].step
  <2>1. i \in 1..Len(ms) /\ e[i].at = ms[i].at /\ e[i].step = ms[i].step
    BY <1>3, <1>6
  <2>n. PICK n \in Nat : n = ms[i].at
    BY <2>1, Typed
  <2>2. CASE ms[i].kind = "calls"
    <3>1. i + n <= Len(ms)
      BY <2>1, <2>2, <2>n, SoundIs
    <3>2. \A k \in 1..n : i + k \in 1..Len(ms)
      BY <2>1, <3>1, <1>0
    <3>3. \A k \in 1..n : /\ ms[i + k].kind \in Results
                          /\ ms[i + k].step = ms[i].step /\ ms[i + k].at = k
      BY <2>1, <2>2, <2>n, SoundIs
    <3>4. \A k \in 1..n : /\ e[i + k].kind \in Results
                          /\ e[i + k].step = ms[i].step /\ e[i + k].at = k
      BY <3>2, <3>3, <1>3, <1>7
    <3>5. e[i].kind \notin Results
      BY <2>1, <2>2, <1>7, KindSets
    <3> QED
      BY <2>1, <2>n, <3>1, <3>4, <3>5, <1>6
  <2>3. CASE ms[i].kind \in Results
    <3>1. i > n /\ n \in 1..ms[i - n].at /\ ms[i - n].kind = "calls" /\ ms[i - n].step = ms[i].step
      BY <2>1, <2>3, <2>n, SoundIs
    <3>2. i - n \in 1..Len(ms)
      BY <3>1, <2>1, <1>0
    <3>3. e[i - n].at = ms[i - n].at /\ e[i - n].step = ms[i - n].step /\ e[i - n].kind = "calls"
      BY <3>1, <3>2, <1>3, <1>7
    <3>4. e[i].kind # "calls"
      BY <2>1, <2>3, <1>7, KindSets
    <3> QED
      BY <2>1, <2>n, <3>1, <3>3, <3>4
  <2> QED
    BY <2>1, <2>2, <2>3, <1>7
<1>9. Sound(e)
  BY <1>5, <1>8, SoundIs, Zenon
<1> QED
  BY <1>1, <1>3, <1>5, <1>6, <1>9

\* What a summary keeps of its span is prompts and injected context.
LEMMA KeptIs ==
  ASSUME NEW ms \in Seq(Message), NEW S \in SUBSET (1..Len(ms))
  PROVE  Kept(ms, S) \in Seq(Message) /\ Plain(Kept(ms, S))
<1> DEFINE T == {i \in S : ms[i].kind \in System \ {"summary"}}
<1>1. T \in SUBSET (1..Len(ms))
  OBVIOUS
<1>2. Kept(ms, S) = Picked(ms, T)
  BY DEF Kept
<1>3. \A i \in T : ms[i].kind \notin Results \cup {"calls"}
  BY KindSets
<1> HIDE DEF T
<1>4. Picked(ms, T) \in Seq(Message)
  BY <1>1, PickedIs
<1>5. \A k \in 1..Len(Picked(ms, T)) : \E i \in T : Picked(ms, T)[k] = ms[i]
  BY <1>1, PickedIs
<1>6. Plain(Picked(ms, T))
  BY <1>3, <1>5 DEF Plain
<1> QED
  BY <1>2, <1>4, <1>6

LEMMA Associative ==
  ASSUME NEW x \in Seq(Message), NEW y \in Seq(Message), NEW z \in Seq(Message)
  PROVE  (x \o y) \o z = x \o (y \o z)
BY ConcatAssociative

LEMMA JoinAt ==
  ASSUME NEW x \in Seq(Message), NEW y \in Seq(Message)
  PROVE  /\ x \o y \in Seq(Message) /\ Len(x \o y) = Len(x) + Len(y)
         /\ Len(x) \in Nat /\ Len(y) \in Nat
         /\ \A i \in 1..Len(x) : (x \o y)[i] = x[i]
         /\ \A i \in 1..Len(y) : (x \o y)[Len(x) + i] = y[i]
<1>1. Len(x) \in Nat /\ Len(y) \in Nat
  BY LenProperties
<1>2. x \o y \in Seq(Message) /\ Len(x \o y) = Len(x) + Len(y)
  BY ConcatProperties
<1>3. \A i \in 1..Len(x) : (x \o y)[i] = x[i]
  BY <1>1, ConcatProperties
<1>4. \A i \in 1..Len(y) : (x \o y)[Len(x) + i] = y[i]
  <2> TAKE i \in 1..Len(y)
  <2>1. Len(x) + i \in 1..(Len(x) + Len(y)) /\ ~(Len(x) + i <= Len(x)) /\ (Len(x) + i) - Len(x) = i
    BY <1>1
  <2> QED
    BY <2>1, ConcatProperties
<1> QED
  BY <1>1, <1>2, <1>3, <1>4

\* z is sound and holds the third and the fifth piece where they belong.
Pieced(x1, x2, x3, x4, x5, z) ==
  /\ z \in Seq(Message) /\ Sound(z) /\ Len(z) \in Nat
  /\ Len(z) = Len(x1) + Len(x2) + Len(x3) + Len(x4) + Len(x5)
  /\ z[Len(z)] = x5[Len(x5)]
  /\ \A i \in 1..Len(x3) : z[Len(x1) + Len(x2) + i] = x3[i]
  /\ \A i \in 1..Len(x5) : z[Len(x1) + Len(x2) + Len(x3) + Len(x4) + i] = x5[i]

\* The messages before position h are prompts and context.
Leading(ms, h) == \A i \in 1..(h - 1) : ms[i].kind \in System

\* What a summary s of ms keeps: pairs, the request at a, and the last message.
Compacted(ms, a, s) ==
  /\ s.msgs \in Seq(Message) /\ Sound(s.msgs) /\ s.shrank = TRUE
  /\ s.anchor \in 1..Len(s.msgs) /\ s.msgs[s.anchor] = ms[a]
  /\ Len(s.msgs) > 0 /\ s.msgs[Len(s.msgs)] = ms[Len(ms)]

\* A compacted history is five pieces: the prompt, what was before the request,
\* what was between, the summary of the run so far, and the recent turns.
LEMMA FivePieces ==
  ASSUME NEW x1 \in Seq(Message), NEW x2 \in Seq(Message), NEW x3 \in Seq(Message),
         NEW x4 \in Seq(Message), NEW x5 \in Seq(Message),
         Sound(x1), Sound(x2), Sound(x3), Sound(x4), Sound(x5), Len(x5) > 0,
         NEW z, z = x1 \o x2 \o x3 \o x4 \o x5
  PROVE  Pieced(x1, x2, x3, x4, x5, z)
<1> DEFINE y2 == x1 \o x2
           y3 == y2 \o x3
           y4 == y3 \o x4
           y5 == y4 \o x5
<1>2. y2 \in Seq(Message) /\ Sound(y2) /\ Len(y2) = Len(x1) + Len(x2)
  BY Join, JoinAt
<1>l. Len(x1) \in Nat /\ Len(x2) \in Nat /\ Len(x3) \in Nat /\ Len(x4) \in Nat /\ Len(x5) \in Nat
  BY LenProperties
<1> HIDE DEF y2
<1>3. /\ y3 \in Seq(Message) /\ Sound(y3) /\ Len(y3) = Len(y2) + Len(x3)
      /\ \A i \in 1..Len(x3) : y3[Len(y2) + i] = x3[i]
  BY <1>2, Join, JoinAt
<1> HIDE DEF y3
<1>4. /\ y4 \in Seq(Message) /\ Sound(y4) /\ Len(y4) = Len(y3) + Len(x4)
      /\ \A i \in 1..Len(y3) : y4[i] = y3[i]
  BY <1>3, Join, JoinAt
<1> HIDE DEF y4
<1>5. /\ y5 \in Seq(Message) /\ Sound(y5) /\ Len(y5) = Len(y4) + Len(x5)
      /\ \A i \in 1..Len(y4) : y5[i] = y4[i]
      /\ \A i \in 1..Len(x5) : y5[Len(y4) + i] = x5[i]
  BY <1>4, Join, JoinAt
<1> HIDE DEF y5
<1>6. \A i \in 1..Len(x3) : /\ Len(y2) + i \in 1..Len(y3) /\ Len(y2) + i \in 1..Len(y4)
                            /\ Len(y2) + i = Len(x1) + Len(x2) + i
  BY <1>l, <1>2, <1>3, <1>4
<1>7. \A i \in 1..Len(x3) : y5[Len(x1) + Len(x2) + i] = x3[i]
  BY <1>3, <1>4, <1>5, <1>6
<1>8. Len(y4) = Len(x1) + Len(x2) + Len(x3) + Len(x4)
  BY <1>l, <1>2, <1>3, <1>4
<1>9. Len(x5) \in 1..Len(x5) /\ Len(y5) = Len(y4) + Len(x5) /\ Len(y5) \in Nat
  BY <1>l, <1>5, <1>8
<1>10. y5[Len(y5)] = x5[Len(x5)]
  BY <1>5, <1>9
<1>11. y5 = z
  BY DEF y2, y3, y4, y5
<1> QED
  BY <1>5, <1>7, <1>8, <1>9, <1>10, <1>11, <1>l DEF Pieced

\* The history before position f becomes a summary; the request is after it.
LEMMA OlderSummarised ==
  ASSUME NEW ms \in Seq(Message), Sound(ms), NEW a \in 1..Len(ms),
         NEW h \in Nat \ {0}, NEW f \in 1..a, h < f, ms[f].kind \notin Results,
         Leading(ms, h),
         NEW p, p.before = h..(f - 1), p.after = {}
  PROVE  Compacted(ms, a, Summarised(ms, a, p))
<1> DEFINE S  == <<Msg("summary", 0, 0)>>
           K  == Kept(ms, p.before)
           x1 == SubSeq(ms, 1, h - 1)
           x2 == S \o K
           x3 == SubSeq(ms, f, f - 1)
           x5 == SubSeq(ms, f, Len(ms))
           x4 == <<>>
           z  == x1 \o x2 \o x3 \o x4 \o x5
           n  == a + Len(x2) - (f - h)
<1>0. Len(ms) \in Nat /\ a \in Nat /\ f \in Nat /\ a <= Len(ms) /\ f <= a
  BY LenProperties
<1>1. First(p.before, a) = h /\ Last(p.before, h - 1) = f - 1
  <2>1. h <= f - 1 /\ f - 1 \in Int /\ h \in Nat
    BY <1>0
  <2>2. First(h..(f - 1), a) = h
    BY <2>1, FirstOfInterval
  <2>3. Last(h..(f - 1), h - 1) = f - 1
    BY <2>1, LastOfInterval
  <2> QED
    BY <2>2, <2>3
<1>2. Last(p.after, f - 1) = f - 1 /\ First(p.after, (f - 1) + 1) = f
  <2>1. (f - 1) + 1 = f
    BY <1>0
  <2> QED
    BY <2>1 DEF First, Last
<1>3. Cardinality(p.before) = f - h
  <2>1. h <= (f - 1) + 1 /\ f - 1 \in Int /\ h \in Int
    BY <1>0
  <2>2. Cardinality(h..(f - 1)) = (f - 1) - h + 1
    BY <2>1, IntervalSize
  <2> QED
    BY <2>2, <1>0
<1>4. Summarised(ms, a, p) = [msgs |-> z, anchor |-> n, shrank |-> TRUE]
  <2>1. a > f - 1 /\ (f - 1) + 1 = f
    BY <1>0
  <2> QED
    BY <1>1, <1>2, <1>3, <2>1, Zenon DEF Summarised
<1>5. x1 \in Seq(Message) /\ Sound(x1) /\ Len(x1) = h - 1
  <2>1. \A i \in 1..(h - 1) : i \in 1..Len(ms)
    BY <1>0
  <2>2. \A i \in 1..(h - 1) : ms[i] \in Message
    BY <2>1, ElementOfSeq
  <2>3. h - 1 \in Int /\ 1 \in Int
    OBVIOUS
  <2>4. /\ x1 \in Seq(Message) /\ Len(x1) = (IF 1 <= h - 1 THEN (h - 1) - 1 + 1 ELSE 0)
        /\ \A i \in 1..((h - 1) - 1 + 1) : x1[i] = ms[1 + i - 1]
    BY <2>2, <2>3, SubSeqProperties
  <2> HIDE DEF x1
  <2>5. Len(x1) = h - 1 /\ \A i \in 1..(h - 1) : x1[i] = ms[i]
    BY <2>4
  <2>6. Plain(x1)
    BY <2>5, KindSets DEF Plain, Leading
  <2> QED
    BY <2>4, <2>5, <2>6, PlainSound
<1>6. x2 \in Seq(Message) /\ Sound(x2)
  <2>1. S \in Seq(Message) /\ Len(S) = 1 /\ S[1].kind = "summary"
    <3>1. "summary" \in Kinds
      BY KindSets
    <3>2. Msg("summary", 0, 0) \in Message /\ Msg("summary", 0, 0).kind = "summary"
      BY <3>1 DEF Msg, Message
    <3> QED
      BY <3>2
  <2>2. Plain(S)
    BY <2>1, KindSets DEF Plain
  <2>3. p.before \in SUBSET (1..Len(ms))
    BY <1>0
  <2>4. K \in Seq(Message) /\ Plain(K)
    BY <2>3, KeptIs
  <2> HIDE DEF S, K
  <2> QED
    BY <2>1, <2>2, <2>4, PlainSound, Join
<1>e. x4 \in Seq(Message) /\ Len(x4) = 0 /\ Sound(x4)
  <2>1. x4 \in Seq(Message) /\ Len(x4) = 0
    BY EmptySeq
  <2>2. Plain(x4)
    BY <2>1 DEF Plain
  <2> QED
    BY <2>1, <2>2, PlainSound
<1>7. x3 \in Seq(Message) /\ Len(x3) = 0 /\ Sound(x3)
  <2>1. x3 = x4
    BY <1>0, SubSeqEmpty
  <2> QED
    BY <2>1, <1>e
<1>8. /\ x5 \in Seq(Message) /\ Sound(x5) /\ Len(x5) = Len(ms) - f + 1
      /\ \A i \in 1..(Len(ms) - f + 1) : x5[i] = ms[f + i - 1]
  <2>1. f \in 1..(Len(ms) + 1)
    BY <1>0
  <2> QED
    BY <2>1, Cut
<1> HIDE DEF S, K, x1, x2, x3, x4, x5
<1>9. Len(x2) \in Nat /\ Len(x5) > 0
  BY <1>6, <1>8, <1>0, LenProperties
<1>10. /\ z \in Seq(Message) /\ Sound(z) /\ Len(z) \in Nat
       /\ Len(z) = Len(x1) + Len(x2) + Len(x3) + Len(x4) + Len(x5)
       /\ z[Len(z)] = x5[Len(x5)]
       /\ \A i \in 1..Len(x5) : z[Len(x1) + Len(x2) + Len(x3) + Len(x4) + i] = x5[i]
  <2>1. z = x1 \o x2 \o x3 \o x4 \o x5
    OBVIOUS
  <2> HIDE DEF z
  <2>2. Pieced(x1, x2, x3, x4, x5, z)
    BY <2>1, <1>5, <1>6, <1>7, <1>8, <1>9, <1>e, FivePieces
  <2> QED
    BY <2>2 DEF Pieced
<1> HIDE DEF z
<1>11. Len(z) = (h - 1) + Len(x2) + (Len(ms) - f + 1) /\ Len(z) > 0
  BY <1>0, <1>5, <1>8, <1>9, <1>10, <1>7, <1>e
<1>12. z[Len(z)] = ms[Len(ms)]
  <2>1. Len(x5) \in 1..(Len(ms) - f + 1) /\ f + Len(x5) - 1 = Len(ms)
    BY <1>0, <1>8
  <2> QED
    BY <2>1, <1>8, <1>10
<1>13. n \in 1..Len(z) /\ z[n] = ms[a]
  <2>1. /\ (a - f + 1) \in 1..Len(x5) /\ (a - f + 1) \in 1..(Len(ms) - f + 1)
        /\ f + (a - f + 1) - 1 = a
        /\ n = Len(x1) + Len(x2) + Len(x3) + Len(x4) + (a - f + 1)
        /\ n \in 1..Len(z)
    BY <1>0, <1>5, <1>8, <1>9, <1>11, <1>7, <1>e
  <2>2. z[n] = x5[a - f + 1] /\ x5[a - f + 1] = ms[f + (a - f + 1) - 1]
    <3>1. z[Len(x1) + Len(x2) + Len(x3) + Len(x4) + (a - f + 1)] = x5[a - f + 1]
      BY <2>1, <1>10
    <3> QED
      BY <2>1, <3>1, <1>8
  <2> QED
    BY <2>1, <2>2
<1> HIDE DEF n
<1> DEFINE s == Summarised(ms, a, p)
<1>14. s.msgs = z /\ s.anchor = n /\ s.shrank = TRUE
  BY <1>4
<1> HIDE DEF s
<1>15. Compacted(ms, a, s)
  BY <1>10, <1>11, <1>12, <1>13, <1>14 DEF Compacted
<1> QED
  BY <1>15 DEF s

\* The history before the request and the run's turns after it both shrink.
LEMMA RunSummarised ==
  ASSUME NEW ms \in Seq(Message), Sound(ms), NEW a \in 1..Len(ms), ms[a].kind = "request",
         NEW h \in 1..a, NEW r \in 1..Len(ms), a + 1 < r, ms[r].kind \notin Results,
         Leading(ms, h),
         NEW p, p.before = h..(a - 1), p.after = (a + 1)..(r - 1)
  PROVE  Compacted(ms, a, Summarised(ms, a, p))
<1> DEFINE S  == <<Msg("summary", 0, 0)>>
           B  == Kept(ms, p.before)
           K  == Kept(ms, p.after)
           x1 == SubSeq(ms, 1, h - 1)
           x2 == B
           x3 == SubSeq(ms, a, a)
           x4 == S \o K
           x5 == SubSeq(ms, r, Len(ms))
           z  == x1 \o x2 \o x3 \o x4 \o x5
           n  == a + Len(x2) - (a - h)
<1>0. Len(ms) \in Nat /\ a \in Nat /\ r \in Nat /\ h \in Nat /\ a <= Len(ms) /\ h <= a
      /\ a >= 1 /\ h >= 1 /\ r <= Len(ms)
  BY LenProperties
<1>1. First(p.before, a) = h /\ Last(p.before, h - 1) = a - 1
  <2>1. a - 1 \in Int /\ h \in Nat \ {0}
    BY <1>0
  <2>2. First(h..(a - 1), a) = IF h <= a - 1 THEN h ELSE a
    BY <2>1, FirstOfInterval
  <2>3. Last(h..(a - 1), h - 1) = IF h <= a - 1 THEN a - 1 ELSE h - 1
    BY <2>1, LastOfInterval
  <2> QED
    BY <2>2, <2>3, <1>0
<1>2. Last(p.after, a - 1) = r - 1 /\ First(p.after, (a - 1) + 1) = a + 1
  <2>1. r - 1 \in Int /\ a + 1 \in Nat \ {0} /\ a + 1 <= r - 1
    BY <1>0
  <2>2. First((a + 1)..(r - 1), (a - 1) + 1) = a + 1
    BY <2>1, FirstOfInterval
  <2>3. Last((a + 1)..(r - 1), a - 1) = r - 1
    BY <2>1, LastOfInterval
  <2> QED
    BY <2>2, <2>3
<1>3. Cardinality(p.before) = a - h
  <2>1. h <= (a - 1) + 1 /\ a - 1 \in Int /\ h \in Int
    BY <1>0
  <2>2. Cardinality(h..(a - 1)) = (a - 1) - h + 1
    BY <2>1, IntervalSize
  <2> QED
    BY <2>2, <1>0
<1>4. Summarised(ms, a, p) = [msgs |-> z, anchor |-> n, shrank |-> TRUE]
  <2>1. a > a - 1 /\ (a - 1) + 1 = a /\ (a + 1) - 1 = a /\ (r - 1) + 1 = r
    BY <1>0
  <2>2. p.after # {}
    <3>1. a + 1 \in (a + 1)..(r - 1)
      BY <1>0
    <3> QED
      BY <3>1
  <2> QED
    BY <1>1, <1>2, <1>3, <2>1, <2>2, Zenon DEF Summarised
<1>5. x1 \in Seq(Message) /\ Sound(x1) /\ Len(x1) = h - 1
  <2>1. \A i \in 1..(h - 1) : i \in 1..Len(ms)
    BY <1>0
  <2>2. \A i \in 1..(h - 1) : ms[i] \in Message
    BY <2>1, ElementOfSeq
  <2>3. h - 1 \in Int /\ 1 \in Int
    BY <1>0
  <2>4. /\ x1 \in Seq(Message) /\ Len(x1) = (IF 1 <= h - 1 THEN (h - 1) - 1 + 1 ELSE 0)
        /\ \A i \in 1..((h - 1) - 1 + 1) : x1[i] = ms[1 + i - 1]
    BY <2>2, <2>3, SubSeqProperties
  <2> HIDE DEF x1
  <2>5. Len(x1) = h - 1 /\ \A i \in 1..(h - 1) : x1[i] = ms[i]
    BY <2>4, <1>0
  <2>6. Plain(x1)
    BY <2>5, KindSets DEF Plain, Leading
  <2> QED
    BY <2>4, <2>5, <2>6, PlainSound
<1>6. x2 \in Seq(Message) /\ Sound(x2)
  <2>1. p.before \in SUBSET (1..Len(ms))
    BY <1>0
  <2> QED
    BY <2>1, KeptIs, PlainSound
<1>7. x3 \in Seq(Message) /\ Sound(x3) /\ Len(x3) = 1 /\ x3[1] = ms[a]
  <2>1. \A i \in a..a : ms[i] \in Message
    BY <1>0, ElementOfSeq
  <2>2. a \in Int
    BY <1>0
  <2>3. /\ x3 \in Seq(Message) /\ Len(x3) = (IF a <= a THEN a - a + 1 ELSE 0)
        /\ \A i \in 1..(a - a + 1) : x3[i] = ms[a + i - 1]
    BY <2>1, <2>2, SubSeqProperties
  <2> HIDE DEF x3
  <2>4. Len(x3) = 1 /\ x3[1] = ms[a]
    BY <2>3, <1>0
  <2>5. Plain(x3)
    BY <2>4, KindSets DEF Plain
  <2> QED
    BY <2>3, <2>4, <2>5, PlainSound
<1>8. x4 \in Seq(Message) /\ Sound(x4)
  <2>1. S \in Seq(Message) /\ Len(S) = 1 /\ S[1].kind = "summary"
    <3>1. "summary" \in Kinds
      BY KindSets
    <3>2. Msg("summary", 0, 0) \in Message /\ Msg("summary", 0, 0).kind = "summary"
      BY <3>1 DEF Msg, Message
    <3> QED
      BY <3>2
  <2>2. Plain(S)
    BY <2>1, KindSets DEF Plain
  <2>3. p.after \in SUBSET (1..Len(ms))
    BY <1>0
  <2>4. K \in Seq(Message) /\ Plain(K)
    BY <2>3, KeptIs
  <2> HIDE DEF S, K
  <2> QED
    BY <2>1, <2>2, <2>4, PlainSound, Join
<1>9. /\ x5 \in Seq(Message) /\ Sound(x5) /\ Len(x5) = Len(ms) - r + 1
      /\ \A i \in 1..(Len(ms) - r + 1) : x5[i] = ms[r + i - 1]
  <2>1. r \in 1..(Len(ms) + 1)
    BY <1>0
  <2> QED
    BY <2>1, Cut
<1> HIDE DEF S, B, K, x1, x2, x3, x4, x5
<1>10. Len(x2) \in Nat /\ Len(x4) \in Nat /\ Len(x5) > 0
  BY <1>6, <1>8, <1>9, <1>0, LenProperties
<1>11. /\ z \in Seq(Message) /\ Sound(z) /\ Len(z) \in Nat
       /\ Len(z) = Len(x1) + Len(x2) + Len(x3) + Len(x4) + Len(x5)
       /\ z[Len(z)] = x5[Len(x5)]
       /\ \A i \in 1..Len(x3) : z[Len(x1) + Len(x2) + i] = x3[i]
  <2>1. z = x1 \o x2 \o x3 \o x4 \o x5
    OBVIOUS
  <2> HIDE DEF z
  <2>2. Pieced(x1, x2, x3, x4, x5, z)
    BY <2>1, <1>5, <1>6, <1>7, <1>8, <1>9, <1>10, FivePieces
  <2> QED
    BY <2>2 DEF Pieced
<1> HIDE DEF z
<1>12. Len(z) = (h - 1) + Len(x2) + 1 + Len(x4) + (Len(ms) - r + 1) /\ Len(z) > 0
  BY <1>0, <1>5, <1>7, <1>9, <1>10, <1>11
<1>13. z[Len(z)] = ms[Len(ms)]
  <2>1. Len(x5) \in 1..(Len(ms) - r + 1) /\ r + Len(x5) - 1 = Len(ms)
    BY <1>0, <1>9
  <2> QED
    BY <2>1, <1>9, <1>11
<1>14. n \in 1..Len(z) /\ z[n] = ms[a]
  <2>1. n = Len(x1) + Len(x2) + 1 /\ n \in 1..Len(z) /\ 1 \in 1..Len(x3)
    <3>1. Len(x1) = h - 1 /\ Len(x3) = 1
      BY <1>5, <1>7
    <3>2. n = (h - 1) + Len(x2) + 1
      BY <1>0, <1>10
    <3>3. n \in 1..Len(z)
      BY <1>0, <1>10, <1>12, <3>2
    <3> QED
      BY <3>1, <3>2, <3>3
  <2>2. z[Len(x1) + Len(x2) + 1] = x3[1]
    BY <2>1, <1>11
  <2> QED
    BY <2>1, <2>2, <1>7
<1> HIDE DEF n
<1> DEFINE s == Summarised(ms, a, p)
<1>15. s.msgs = z /\ s.anchor = n /\ s.shrank = TRUE
  BY <1>4
<1> HIDE DEF s
<1>16. Compacted(ms, a, s)
  BY <1>11, <1>12, <1>13, <1>14, <1>15 DEF Compacted
<1> QED
  BY <1>16 DEF s

\* Whatever compact_context does to the loop's messages, calls keep their
\* results, the request stays where the anchor says, and the last message stays
\* last unless it is an old result.
LEMMA PlanKeeps ==
  ASSUME NEW ms \in Seq(Message), Sound(ms), NEW a \in 1..Len(ms), ms[a].kind = "request",
         NEW keep, NEW p \in Plans(ms, a, keep)
  PROVE  Compacted(ms, a, Summarised(ms, a, p))
<1>0. Len(ms) \in Nat /\ DOMAIN ms = 1..Len(ms) /\ a \in Nat
  BY LenProperties
<1>u. "request" \in User /\ "request" \notin System
  BY KindSets DEF User, System
<1>h. PICK h \in Heads(ms) :
        /\ p \in {Span(ms, at, h, recent) : at \in Anchors(ms, a, h), recent \in Recents(ms, h, keep)}
        /\ \E i \in p.before \cup p.after : ms[i].kind \notin System
  BY DEF Plans
<1>1. PICK b \in Anchors(ms, a, h), r \in Recents(ms, h, keep) : p = Span(ms, b, h, r)
  BY <1>h
<1>2. h \in 1..a /\ Leading(ms, h)
  <2> DEFINE H == {i \in DOMAIN ms : ms[i].kind \notin System \ {"summary"}}
  <2>1. h = First(H, Len(ms) + 1)
    BY DEF Heads
  <2>2. a \in H /\ H \in SUBSET Nat
    BY <1>0, <1>u
  <2>3. h \in H /\ \A j \in H : h <= j
    <3> HIDE DEF H
    <3> QED
      BY <2>1, <2>2, FirstIs
  <2>4. h \in 1..Len(ms) /\ h <= a
    BY <2>2, <2>3, <1>0
  <2>5. ASSUME NEW i \in 1..(h - 1) PROVE ms[i].kind \in System
    <3>1. i \in DOMAIN ms /\ ~(h <= i)
      BY <2>4, <1>0
    <3>2. i \notin H
      BY <3>1, <2>3
    <3> QED
      BY <3>1, <3>2
  <2> QED
    BY <2>4, <2>5 DEF Leading
<1>3. b = a
  BY <1>0, <1>2, <1>u DEF Anchors
<1>4. r \in 1..Len(ms) /\ ms[r].kind \notin Results
  <2>1. PICK i \in Starts(ms, h) : r = First({i, Last(Where(ms, Assistant), i)}, i)
    BY Zenon DEF Recents
  <2>2. i \in 1..Len(ms) /\ ms[i].kind \in User \cup Assistant
    BY <1>0 DEF Starts, Where
  <2> DEFINE l == Last(Where(ms, Assistant), i)
  <2>3. l \in 1..Len(ms) /\ ms[l].kind \in User \cup Assistant
    <3>1. CASE Where(ms, Assistant) = {}
      BY <3>1, <2>2 DEF Last
    <3>2. CASE Where(ms, Assistant) # {}
      <4>1. Where(ms, Assistant) \in SUBSET (1..Len(ms))
        BY <1>0 DEF Where
      <4>2. l \in Where(ms, Assistant)
        BY <1>0, <3>2, <4>1, LastIs
      <4> QED
        BY <4>1, <4>2 DEF Where
    <3> QED
      BY <3>1, <3>2
  <2> HIDE DEF l
  <2>4. r \in {i, l}
    <3>1. {i, l} \in SUBSET Nat /\ {i, l} # {}
      BY <1>0, <2>2, <2>3
    <3>2. First({i, l}, i) \in {i, l}
      BY <3>1, FirstIs
    <3> QED
      BY <2>1, <3>2 DEF l
  <2> QED
    BY <2>2, <2>3, <2>4, KindSets
<1>5. p = Span(ms, a, h, r)
  BY <1>1, <1>3
<1>6. CASE a < r
  <2>1. p.before = h..(a - 1) /\ p.after = (a + 1)..(r - 1)
    BY <1>5, <1>6 DEF Span
  <2>2. CASE a + 1 < r
    <3> QED
      BY <1>0, <1>2, <1>4, <2>1, <2>2, RunSummarised
  <2>3. CASE ~(a + 1 < r)
    <3>1. p.after = {}
      BY <2>1, <2>3, <1>0, <1>4
    <3>2. h < a
      <4>1. p.before # {}
        BY <1>h, <3>1
      <4> QED
        BY <4>1, <2>1, <1>0, <1>2
    <3>3. a \in 1..a /\ ms[a].kind \notin Results /\ h \in Nat \ {0}
      BY <1>0, <1>2, <1>u, KindSets
    <3> QED
      BY <2>1, <3>1, <3>2, <3>3, <1>0, <1>2, OlderSummarised
  <2> QED
    BY <2>2, <2>3
<1>7. CASE ~(a < r)
  <2> DEFINE F == {i \in Where(ms, User) : i >= r}
             f == First(F, r)
  <2>1. p.before = h..(f - 1) /\ p.after = {}
    BY <1>5, <1>7 DEF Span
  <2>2. F \in SUBSET Nat /\ a \in F
    BY <1>0, <1>4, <1>7, <1>u DEF Where
  <2>3. f \in F /\ f <= a
    <3> HIDE DEF F
    <3> QED
      BY <2>2, FirstIs
  <2>4. f \in 1..a /\ ms[f].kind \notin Results
    BY <2>3, <1>0, KindSets DEF Where
  <2> HIDE DEF F, f
  <2>5. h < f
    <3>1. h..(f - 1) # {}
      BY <1>h, <2>1
    <3> QED
      BY <3>1, <2>4, <1>0, <1>2
  <2>6. h \in Nat \ {0}
    BY <1>2
  <2> QED
    BY <2>1, <2>4, <2>5, <2>6, <1>2, OlderSummarised
<1> QED
  BY <1>6, <1>7

LEMMA CompactionKeeps ==
  ASSUME msgs \in Seq(Message), Sound(msgs), anchor \in 1..Len(msgs), msgs[anchor].kind = "request",
         NEW pressure, NEW may, NEW c \in Compactions(pressure, may)
  PROVE  /\ c.msgs \in Seq(Message) /\ Sound(c.msgs) /\ Len(c.msgs) > 0
         /\ c.anchor \in 1..Len(c.msgs) /\ c.msgs[c.anchor].kind = "request"
         /\ c.shrank \in BOOLEAN
         /\ ~c.shrank => c.anchor = anchor
         /\ msgs[Len(msgs)].kind = "note" => c.msgs[Len(c.msgs)] = msgs[Len(msgs)]
<1> DEFINE Pruned(ms) == [msgs |-> ms, anchor |-> anchor, shrank |-> ms # msgs]
           keep  == IF pressure = "forced" THEN 0 ELSE KeepResults
           turns == IF pressure = "forced" THEN KeepTurnsForced ELSE KeepTurns
           plans(ms) == IF pressure = "prune" \/ ~may THEN {} ELSE Plans(ms, anchor, turns)
           Keeps(ms) == /\ ms \in Seq(Message) /\ Sound(ms) /\ Len(ms) = Len(msgs)
                        /\ ms[anchor].kind = "request"
                        /\ msgs[Len(msgs)].kind = "note" => ms[Len(ms)] = msgs[Len(msgs)]
<1>0. Len(msgs) \in Nat /\ Len(msgs) > 0 /\ Len(msgs) \in 1..Len(msgs) /\ anchor \in Nat
  BY LenProperties
<1>1. ASSUME NEW ms, Keeps(ms), NEW k, NEW e \in Elisions(ms, k) PROVE Keeps(e)
  <2>1. /\ e \in Seq(Message) /\ Len(e) = Len(ms) /\ Sound(e)
        /\ \A i \in 1..Len(ms) : ms[i].kind # "tool" => e[i] = ms[i]
    BY <1>1, ElisionKeeps
  <2>2. e[anchor] = ms[anchor]
    BY <1>1, <2>1, KindSets
  <2>3. msgs[Len(msgs)].kind = "note" => e[Len(ms)] = ms[Len(ms)]
    BY <1>0, <1>1, <2>1
  <2> QED
    BY <1>1, <2>1, <2>2, <2>3
<1>2. ASSUME NEW ms, Keeps(ms), c = Pruned(ms)
      PROVE  /\ c.msgs \in Seq(Message) /\ Sound(c.msgs) /\ Len(c.msgs) > 0
             /\ c.anchor \in 1..Len(c.msgs) /\ c.msgs[c.anchor].kind = "request"
             /\ c.shrank \in BOOLEAN
             /\ ~c.shrank => c.anchor = anchor
             /\ msgs[Len(msgs)].kind = "note" => c.msgs[Len(c.msgs)] = msgs[Len(msgs)]
  <2>1. c.msgs = ms /\ c.anchor = anchor /\ c.shrank \in BOOLEAN
    BY <1>2
  <2> QED
    BY <1>0, <1>2, <2>1
<1>3. Keeps(msgs)
  BY <1>0
<1>4. CASE pressure = "none"
  <2>1. c.msgs = msgs /\ c.anchor = anchor /\ c.shrank = FALSE
    BY <1>4 DEF Compactions
  <2> QED
    BY <1>0, <2>1
<1>5. CASE pressure # "none"
  <2>1. PICK ms \in Elisions(msgs, keep) :
          c \in IF plans(ms) = {} THEN {Pruned(ms)}
                ELSE {Summarised(ms, anchor, p) : p \in plans(ms)}
                     \cup {Pruned(m) : m \in Elisions(ms, 0)}
    BY <1>5 DEF Compactions
  <2>2. Keeps(ms)
    <3> HIDE DEF Keeps
    <3> QED
      BY <1>1, <1>3
  <2>3. \/ c = Pruned(ms)
        \/ \E p \in plans(ms) : c = Summarised(ms, anchor, p)
        \/ \E m \in Elisions(ms, 0) : c = Pruned(m)
    BY <2>1, Zenon
  <2>4. CASE c = Pruned(ms)
    <3> HIDE DEF Keeps, Pruned
    <3> QED
      BY <2>2, <2>4, <1>2
  <2>5. CASE \E m \in Elisions(ms, 0) : c = Pruned(m)
    <3>1. PICK m \in Elisions(ms, 0) : c = Pruned(m)
      BY <2>5
    <3> HIDE DEF Keeps, Pruned
    <3>2. Keeps(m)
      BY <2>2, <1>1
    <3> QED
      BY <3>1, <3>2, <1>2
  <2>6. CASE \E p \in plans(ms) : c = Summarised(ms, anchor, p)
    <3>1. PICK p \in Plans(ms, anchor, turns) : c = Summarised(ms, anchor, p)
      BY <2>6
    <3>2. ms \in Seq(Message) /\ Sound(ms) /\ anchor \in 1..Len(ms) /\ ms[anchor].kind = "request"
      BY <2>2
    <3>4. Compacted(ms, anchor, c)
      BY <3>1, <3>2, PlanKeeps
    <3>3. /\ c.msgs \in Seq(Message) /\ Sound(c.msgs) /\ c.shrank = TRUE
          /\ c.anchor \in 1..Len(c.msgs) /\ c.msgs[c.anchor] = ms[anchor]
          /\ Len(c.msgs) > 0 /\ c.msgs[Len(c.msgs)] = ms[Len(ms)]
      BY <3>4 DEF Compacted
    <3> QED
      BY <2>2, <3>2, <3>3
  <2> QED
    BY <2>3, <2>4, <2>5, <2>6
<1> QED
  BY <1>4, <1>5

-----------------------------------------------------------------------------
(* The ledger of the latest step.                                          *)

\* A call message with all its results, in order.
LEMMA TurnSound ==
  ASSUME NEW w \in Seq(Message), NEW n \in Nat, NEW s, Len(w) = n + 1,
         w[1].kind = "calls", w[1].step = s, w[1].at = n,
         \A i \in 1..n : w[1 + i].kind \in Results /\ w[1 + i].step = s /\ w[1 + i].at = i
  PROVE  Sound(w)
<1>1. ASSUME NEW i \in 1..Len(w)
      PROVE  /\ w[i].kind = "calls" =>
                  /\ i + w[i].at <= Len(w)
                  /\ \A k \in 1..w[i].at : /\ w[i + k].kind \in Results
                                           /\ w[i + k].step = w[i].step /\ w[i + k].at = k
             /\ w[i].kind \in Results =>
                  /\ i > w[i].at /\ w[i].at \in 1..w[i - w[i].at].at
                  /\ w[i - w[i].at].kind = "calls"
                  /\ w[i - w[i].at].step = w[i].step
  <2>1. CASE i = 1
    <3>1. w[i].kind \notin Results
      BY <2>1, KindSets
    <3>2. i + w[i].at <= Len(w)
      BY <2>1
    <3> QED
      BY <2>1, <3>1, <3>2
  <2>2. CASE i # 1
    <3>1. i - 1 \in 1..n /\ 1 + (i - 1) = i /\ i - (i - 1) = 1 /\ i > i - 1
      BY <2>2
    <3>2. w[i].kind \in Results /\ w[i].step = s /\ w[i].at = i - 1
      BY <3>1
    <3>3. w[i].kind # "calls"
      BY <3>2, KindSets
    <3> QED
      BY <3>1, <3>2, <3>3
  <2> QED
    BY <2>1, <2>2
<1> QED
  BY <1>1, SoundIs, Zenon

\* A recorded request is followed by no result.
LEMMA CutAfterRequest ==
  ASSUME NEW ms \in Seq(Message), Sound(ms), NEW a \in 1..Len(ms), ms[a].kind = "request"
  PROVE  /\ SubSeq(ms, a + 1, Len(ms)) \in Seq(Message)
         /\ Sound(SubSeq(ms, a + 1, Len(ms)))
<1>0. Len(ms) \in Nat /\ a \in Nat /\ a >= 1
  BY LenProperties
<1>1. ASSUME a + 1 <= Len(ms), ms[a + 1].kind \in Results PROVE FALSE
  <2>1. a + 1 \in 1..Len(ms)
    BY <1>0, <1>1
  <2>n. PICK n \in Nat : n = ms[a + 1].at
    BY <2>1, Typed
  <2>d. PICK d : d = (a + 1) - n
    OBVIOUS
  <2>2. a + 1 > n /\ n \in 1..ms[d].at /\ ms[d].kind = "calls"
    BY <2>1, <2>n, <2>d, <1>1, SoundIs
  <2>3. d \in 1..Len(ms) /\ d <= a /\ a = d + (n - 1)
    BY <2>1, <2>2, <2>d, <1>0
  <2>m. PICK m \in Nat : m = ms[d].at
    BY <2>3, Typed
  <2>4. CASE n = 1
    BY <2>2, <2>3, <2>4, <1>0
  <2>5. CASE n # 1
    <3>1. n - 1 \in 1..m
      BY <2>2, <2>5, <2>m
    <3>2. ms[d + (n - 1)].kind \in Results
      BY <3>1, <2>2, <2>3, <2>m, SoundIs
    <3> QED
      BY <3>2, <2>3, KindSets DEF Results
  <2> QED
    BY <2>4, <2>5
<1>2. a + 1 \in 1..(Len(ms) + 1)
  BY <1>0
<1> QED
  BY <1>1, <1>2, Cut

LEMMA ToolIs ==
  ASSUME NEW s \in Nat, NEW i \in Nat
  PROVE  /\ Msg("tool", s, i) \in Message
         /\ Msg("tool", s, i).kind = "tool" /\ "tool" \in Results
         /\ Msg("tool", s, i).step = s /\ Msg("tool", s, i).at = i
<1>1. "tool" \in Kinds /\ "tool" \in Results
  BY DEF Kinds, Results
<1> QED
  BY <1>1, MessageIs

LEMMA PickedNone == ASSUME NEW ms PROVE Picked(ms, {}) = <<>>
<1>1. Cardinality({}) = 0
  BY FS_EmptySet
<1>2. Picked(ms, {}) = [n \in 1..0 |-> ms[Nth({}, n)]]
  BY <1>1 DEF Picked
<1>3. \A k \in 1..0 : ms[Nth({}, k)] \in Message
  OBVIOUS
<1>4. Picked(ms, {}) \in [1..0 -> Message]
  BY <1>2, <1>3
<1>5. Picked(ms, {}) \in Seq(Message) /\ Len(Picked(ms, {})) = 0
  BY <1>4, SeqDef, LenProperties
<1> QED
  BY <1>5, EmptySeq

LEMMA NotSentOk == SentOk(NotSent) /\ NotSent \in SentStep
<1>1. <<>> \in Seq(Message) /\ Len(<<>>) = 0
  BY EmptySeq
<1>2. NotSent = [step |-> 0, msgs |-> <<>>, index |-> 0, answered |-> FALSE,
                 assistant |-> <<>>, results |-> <<>>]
  BY DEF NotSent
<1> QED
  BY <1>1, <1>2 DEF SentOk, Called, SentStep

\* The step s of a request that was just sent.
RequestOf(s, step, ms, a) ==
  /\ s \in SentStep /\ SentOk(s)
  /\ s.step = step /\ s.msgs = ms /\ s.index = a /\ s.answered = FALSE
  /\ s.assistant = <<>> /\ s.results = <<>>

LEMMA SendingOk ==
  ASSUME NEW step \in Nat, step > 0, NEW ms \in Seq(Message), Sound(ms),
         NEW a \in Nat, a # 0 => a \in 1..Len(ms) /\ ms[a].kind = "request"
  PROVE  RequestOf(Sending(step, ms, a), step, ms, a)
<1> DEFINE s == Sending(step, ms, a)
<1>1. s = [NotSent EXCEPT !.step = step, !.msgs = ms, !.index = a]
  BY DEF Sending
<1>2. <<>> \in Seq(Message) /\ Len(<<>>) = 0 /\ a \in Nat
  BY EmptySeq, LenProperties
<1>n. /\ DOMAIN NotSent = {"step", "msgs", "index", "answered", "assistant", "results"}
      /\ NotSent.answered = FALSE /\ NotSent.assistant = <<>> /\ NotSent.results = <<>>
  BY DEF NotSent
<1> HIDE DEF s
<1>3. /\ s.step = step /\ s.msgs = ms /\ s.index = a /\ s.answered = FALSE
      /\ s.assistant = <<>> /\ s.results = <<>>
  BY <1>1, <1>n
<1>4. s \in SentStep
  BY <1>1, <1>2, NotSentOk DEF SentStep
<1>5. SentOk(s)
  BY <1>2, <1>3 DEF SentOk, Called
<1> QED
  BY <1>3, <1>4, <1>5 DEF s, RequestOf

\* What a step answers: nothing, a text or its calls.
Reply(step, a) ==
  a # <<>> => /\ Len(a) = 1 /\ a[1].kind \in {"text", "calls"} /\ a[1].step = step

\* The step t that s becomes with the reply a.
AnswerOf(t, s, a) ==
  /\ t \in SentStep /\ SentOk(t)
  /\ t.step = s.step /\ t.msgs = s.msgs /\ t.index = s.index /\ t.answered = TRUE
  /\ t.assistant = a /\ t.results = <<>>

LEMMA AnsweredOk ==
  ASSUME NEW s \in SentStep, SentOk(s), s.step > 0, s.results = <<>>, NEW a \in Seq(Message),
         Reply(s.step, a)
  PROVE  AnswerOf([s EXCEPT !.answered = TRUE, !.assistant = a], s, a)
<1> DEFINE t == [s EXCEPT !.answered = TRUE, !.assistant = a]
<1>1. DOMAIN s = {"step", "msgs", "index", "answered", "assistant", "results"}
  BY DEF SentStep
<1>2. /\ t.step = s.step /\ t.msgs = s.msgs /\ t.index = s.index /\ t.answered = TRUE
      /\ t.assistant = a /\ t.results = s.results
  BY <1>1
<1>3. t \in SentStep
  BY DEF SentStep
<1> HIDE DEF t
<1>4. Len(<<>>) = 0
  BY EmptySeq
<1>5. a # <<>> => a[1].at \in Nat
  <2> SUFFICES ASSUME a # <<>> PROVE a[1].at \in Nat
    OBVIOUS
  <2>1. 1 \in 1..Len(a)
    BY DEF Reply
  <2> QED
    BY <2>1, Typed
<1>6. SentOk(t)
  BY <1>2, <1>4, <1>5 DEF SentOk, Called, Reply
<1> QED
  BY <1>2, <1>3, <1>6 DEF t, AnswerOf

\* One more result, in call order.
LEMMA ResultOk ==
  ASSUME NEW s \in SentStep, SentOk(s), Called(s), s.step > 0,
         NEW i \in Nat, i = Len(s.results) + 1, i <= s.assistant[1].at
  PROVE  LET t == [s EXCEPT !.results = Append(@, Msg("tool", s.step, i))]
         IN /\ t \in SentStep /\ SentOk(t)
            /\ t.step = s.step /\ t.msgs = s.msgs /\ t.index = s.index /\ t.answered = s.answered
            /\ t.assistant = s.assistant
            /\ t.results = Append(s.results, Msg("tool", s.step, i)) /\ Len(t.results) = i
<1> DEFINE t == [s EXCEPT !.results = Append(@, Msg("tool", s.step, i))]
           r == Append(s.results, Msg("tool", s.step, i))
<1>0. s.results \in Seq(Message) /\ s.step \in Nat
  BY DEF SentStep
<1>1. DOMAIN s = {"step", "msgs", "index", "answered", "assistant", "results"}
  BY DEF SentStep
<1>2. Msg("tool", s.step, i) \in Message
  BY <1>0, MessageIs DEF Kinds, Results
<1>3. /\ r \in Seq(Message) /\ Len(r) = Len(s.results) + 1
      /\ \A j \in 1..Len(s.results) : r[j] = s.results[j]
      /\ r[Len(s.results) + 1] = Msg("tool", s.step, i)
  BY <1>0, <1>2, AppendProperties
<1>4. /\ t.step = s.step /\ t.msgs = s.msgs /\ t.index = s.index /\ t.answered = s.answered
      /\ t.assistant = s.assistant /\ t.results = r
  BY <1>1
<1> HIDE DEF r
<1>5. t \in SentStep
  BY <1>3, <1>4 DEF SentStep, r
<1> HIDE DEF t
<1>6. Len(s.results) \in Nat
  BY <1>0, LenProperties
<1>7. \A j \in 1..Len(t.results) : t.results[j] = Msg("tool", s.step, j)
  <2> TAKE j \in 1..Len(t.results)
  <2>1. CASE j \in 1..Len(s.results)
    <3>1. s.results[j] = Msg("tool", s.step, j)
      BY <2>1 DEF SentOk
    <3> QED
      BY <2>1, <3>1, <1>3, <1>4
  <2>2. CASE j \notin 1..Len(s.results)
    <3>1. j = Len(s.results) + 1 /\ j = i
      BY <2>2, <1>3, <1>4, <1>6
    <3> QED
      BY <3>1, <1>3, <1>4
  <2> QED
    BY <2>1, <2>2
<1>8. SentOk(t)
  <2>1. s.answered /\ ~(s.step = 0) /\ s.assistant # <<>>
    BY <1>6 DEF SentOk, Called
  <2>2. Called(t) /\ t.answered /\ ~(t.step = 0)
    BY <2>1, <1>4 DEF Called
  <2>3. t.step > 0 => /\ Sound(t.msgs)
                      /\ t.index # 0 => t.index \in 1..Len(t.msgs) /\ t.msgs[t.index].kind = "request"
    BY <1>4 DEF SentOk
  <2>4. t.assistant # <<>> => /\ Len(t.assistant) = 1
                              /\ t.assistant[1].kind \in {"text", "calls"}
                              /\ t.assistant[1].step = t.step
    BY <1>4 DEF SentOk
  <2>5. Len(t.results) <= t.assistant[1].at
    BY <1>3, <1>4
  <2> QED
    BY <2>2, <2>3, <2>4, <2>5, <1>4, <1>7 DEF SentOk
<1> QED
  BY <1>3, <1>4, <1>5, <1>8 DEF t, r

\* The messages of a turn that is over, open calls closed.
LEMMA LedgerAnswered ==
  ASSUME sent \in SentStep, SentInv, sent.index # 0
  PROVE  RequestsAreAnswered
<1> DEFINE A == SubSeq(sent.msgs, sent.index + 1, Len(sent.msgs))
           B == sent.assistant
           C == sent.results
           open == IF ~sent.answered \/ ~HadCalls THEN {}
                   ELSE (1..sent.assistant[1].at) \ {sent.results[i].at : i \in DOMAIN sent.results}
           n == IF open = {} THEN 0 ELSE sent.assistant[1].at
           D == Picked([i \in 1..n |-> Msg("tool", sent.step, i)], open)
<1>1. /\ sent.msgs \in Seq(Message) /\ B \in Seq(Message) /\ C \in Seq(Message)
      /\ sent.step \in Nat /\ sent.index \in Nat
  BY DEF SentStep
<1>2. TurnMessages = A \o B \o C \o D
  BY DEF TurnMessages
<1>e. <<>> \in Seq(Message) /\ Len(<<>>) = 0 /\ Sound(<<>>)
  <2>1. <<>> \in Seq(Message) /\ Len(<<>>) = 0
    BY EmptySeq
  <2>2. Plain(<<>>)
    BY <2>1 DEF Plain
  <2> QED
    BY <2>1, <2>2, PlainSound
<1>3. Sound(sent.msgs) /\ A \in Seq(Message) /\ Sound(A)
  <2>1. CASE sent.step = 0
    BY <2>1 DEF SentInv, SentOk, NotSent
  <2>2. CASE sent.step # 0
    <3>1. /\ Sound(sent.msgs) /\ sent.index \in 1..Len(sent.msgs)
          /\ sent.msgs[sent.index].kind = "request"
      BY <2>2, <1>1 DEF SentInv, SentOk
    <3> QED
      BY <3>1, <1>1, CutAfterRequest
  <2> QED
    BY <2>1, <2>2
<1> HIDE DEF A
<1>4. D \in Seq(Message) /\ B \o C \o D \in Seq(Message) /\ Sound(B \o C \o D)
  <2>1. CASE ~HadCalls
    <3>1. open = {} /\ n = 0 /\ C = <<>>
      BY <2>1 DEF SentInv, SentOk, HadCalls, Called
    <3>2. D = <<>>
      <4>1. D = Picked([i \in 1..n |-> Msg("tool", sent.step, i)], {})
        BY <3>1
      <4> QED
        BY <4>1, PickedNone
    <3>3. Plain(B)
      <4>1. B # <<>> => Len(B) = 1 /\ B[1].kind = "text"
        BY <2>1 DEF SentInv, SentOk, HadCalls
      <4>2. CASE B = <<>>
        BY <4>2, <1>e DEF Plain
      <4>3. CASE B # <<>>
        BY <4>1, <4>3 DEF Plain, Results
      <4> QED
        BY <4>2, <4>3
    <3>4. B \o C \o D = B
      <4>1. C = <<>> /\ D = <<>>
        BY <3>1, <3>2
      <4> HIDE DEF B, C, D
      <4> QED
        BY <4>1, <1>1, ConcatEmptySeq
    <3> QED
      BY <3>2, <3>3, <3>4, <1>1, <1>e, PlainSound
  <2>2. CASE HadCalls
    <3>1. /\ sent.answered /\ Len(B) = 1 /\ B[1].kind = "calls" /\ B[1].step = sent.step
          /\ Len(C) <= B[1].at
          /\ \A i \in 1..Len(C) : C[i] = Msg("tool", sent.step, i)
      BY <2>2 DEF SentInv, SentOk, HadCalls, Called
    <3>2. PICK m \in Nat : m = B[1].at
      <4>1. 1 \in 1..Len(B)
        BY <3>1
      <4> QED
        BY <4>1, <1>1, Typed
    <3>l. Len(C) \in Nat /\ DOMAIN C = 1..Len(C) /\ Len(C) <= m
      BY <1>1, <3>1, <3>2, LenProperties
    <3>3. {C[i].at : i \in DOMAIN C} = 1..Len(C)
      <4>1. \A i \in 1..Len(C) : C[i].at = i
        <5> TAKE i \in 1..Len(C)
        <5>1. C[i] = Msg("tool", sent.step, i) /\ i \in Nat
          BY <3>1, <3>l
        <5> QED
          BY <5>1, <1>1, ToolIs
      <4> QED
        BY <4>1, <3>l
    <3>4. open = (Len(C) + 1)..m
      <4>1. open = (1..m) \ (1..Len(C))
        BY <2>2, <3>1, <3>2, <3>3
      <4>2. \A j : j \in (1..m) \ (1..Len(C)) <=> j \in (Len(C) + 1)..m
        BY <3>l
      <4> QED
        BY <4>1, <4>2
    <3> HIDE DEF open
    <3>5. /\ D \in Seq(Message) /\ Len(D) = m - Len(C)
          /\ \A k \in 1..(m - Len(C)) : D[k] = Msg("tool", sent.step, Len(C) + k)
      <4> DEFINE T == [i \in 1..n |-> Msg("tool", sent.step, i)]
      <4>1. n \in Nat /\ (open # {} => n = m) /\ (open = {} => n = 0)
        BY <3>2
      <4> HIDE DEF n
      <4>2. T \in Seq(Message) /\ Len(T) = n
        <5>1. \A i \in 1..n : Msg("tool", sent.step, i) \in Message
          <6> TAKE i \in 1..n
          <6>1. i \in Nat
            BY <4>1
          <6> QED
            BY <6>1, <1>1, ToolIs
        <5>2. T \in [1..n -> Message]
          BY <5>1
        <5>3. T \in Seq(Message)
          BY <4>1, <5>2, SeqDef
        <5> QED
          BY <4>1, <5>2, <5>3, LenProperties
      <4>3. CASE open = {}
        <5>1. m = Len(C)
          BY <4>3, <3>4, <3>l
        <5>2. D = <<>>
          <6>1. D = Picked(T, {})
            BY <4>3
          <6> QED
            BY <6>1, PickedNone
        <5> HIDE DEF D
        <5> QED
          BY <5>1, <5>2, <1>e, <3>l
      <4>4. CASE open # {}
        <5>1. n = m /\ Len(C) + 1 \in Nat \ {0} /\ m \in 0..Len(T) /\ Len(C) + 1 <= m + 1
          BY <4>1, <4>2, <4>4, <3>l
        <5>2. D = Picked(T, (Len(C) + 1)..m)
          BY <3>4
        <5> HIDE DEF D
        <5>3. /\ D \in Seq(Message) /\ Len(D) = m - (Len(C) + 1) + 1
              /\ \A k \in 1..(m - (Len(C) + 1) + 1) : D[k] = T[(Len(C) + 1) + k - 1]
          <6> HIDE DEF T
          <6> QED
            BY <5>1, <5>2, <4>2, PickedInterval
        <5>4. m - (Len(C) + 1) + 1 = m - Len(C)
          BY <3>l
        <5>5. \A k \in 1..(m - Len(C)) : /\ (Len(C) + 1) + k - 1 = Len(C) + k
                                         /\ Len(C) + k \in 1..n
          BY <3>l, <5>1
        <5>6. \A j \in 1..n : T[j] = Msg("tool", sent.step, j)
          OBVIOUS
        <5> HIDE DEF T
        <5> QED
          BY <5>3, <5>4, <5>5, <5>6
      <4> QED
        BY <4>3, <4>4
    <3> HIDE DEF D, B, C
    <3> DEFINE w == B \o C \o D
    <3>6. /\ w \in Seq(Message) /\ Len(w) = m + 1 /\ w[1] = B[1]
          /\ \A i \in 1..m : w[1 + i] = Msg("tool", sent.step, i)
      <4> DEFINE v == B \o C
      <4>1. /\ v \in Seq(Message) /\ Len(v) = Len(B) + Len(C)
            /\ \A i \in 1..Len(B) : v[i] = B[i]
            /\ \A i \in 1..Len(C) : v[Len(B) + i] = C[i]
        BY <1>1, JoinAt
      <4> HIDE DEF v
      <4>2. /\ v \o D \in Seq(Message) /\ Len(v \o D) = Len(v) + Len(D)
            /\ \A i \in 1..Len(v) : (v \o D)[i] = v[i]
            /\ \A i \in 1..Len(D) : (v \o D)[Len(v) + i] = D[i]
        BY <4>1, <3>5, JoinAt
      <4>3. w = v \o D
        BY DEF v
      <4> HIDE DEF w
      <4>4. Len(w) = m + 1 /\ Len(v) = 1 + Len(C)
        <5>1. Len(v) = 1 + Len(C)
          BY <4>1, <3>1
        <5>2. Len(w) = (1 + Len(C)) + (m - Len(C))
          BY <5>1, <4>2, <4>3, <3>5
        <5> QED
          BY <5>1, <5>2, <3>l
      <4>5. w[1] = B[1]
        <5>1. 1 \in 1..Len(v) /\ 1 \in 1..Len(B)
          BY <4>4, <3>1, <3>l
        <5> QED
          BY <5>1, <4>1, <4>2, <4>3
      <4>6. ASSUME NEW i \in 1..m PROVE w[1 + i] = Msg("tool", sent.step, i)
        <5>1. CASE i <= Len(C)
          <6>1. i \in 1..Len(C) /\ 1 + i \in 1..Len(v) /\ Len(B) + i = 1 + i
            BY <5>1, <4>4, <3>1, <3>l
          <6>2. w[1 + i] = v[1 + i] /\ v[Len(B) + i] = C[i] /\ C[i] = Msg("tool", sent.step, i)
            BY <6>1, <4>1, <4>2, <4>3, <3>1
          <6> QED
            BY <6>1, <6>2
        <5>2. CASE ~(i <= Len(C))
          <6>1. /\ i - Len(C) \in 1..Len(D) /\ i - Len(C) \in 1..(m - Len(C))
                /\ Len(v) + (i - Len(C)) = 1 + i /\ Len(C) + (i - Len(C)) = i
            BY <5>2, <4>4, <3>5, <3>l
          <6>2. /\ w[Len(v) + (i - Len(C))] = D[i - Len(C)]
                /\ D[i - Len(C)] = Msg("tool", sent.step, Len(C) + (i - Len(C)))
            BY <6>1, <4>2, <4>3, <3>5
          <6> QED
            BY <6>1, <6>2
        <5> QED
          BY <5>1, <5>2
      <4> QED
        BY <4>2, <4>3, <4>4, <4>5, <4>6
    <3> HIDE DEF w
    <3>7. Sound(w)
      <4>1. \A i \in 1..m : /\ w[1 + i].kind \in Results
                            /\ w[1 + i].step = sent.step /\ w[1 + i].at = i
        <5> TAKE i \in 1..m
        <5>1. i \in Nat /\ w[1 + i] = Msg("tool", sent.step, i)
          BY <3>6
        <5> QED
          BY <5>1, <1>1, ToolIs
      <4>2. w[1].kind = "calls" /\ w[1].step = sent.step /\ w[1].at = m
        BY <3>1, <3>2, <3>6
      <4>3. PICK s : s = sent.step
        OBVIOUS
      <4>4. /\ w \in Seq(Message) /\ Len(w) = m + 1
            /\ w[1].kind = "calls" /\ w[1].step = s /\ w[1].at = m
            /\ \A i \in 1..m : w[1 + i].kind \in Results /\ w[1 + i].step = s /\ w[1 + i].at = i
        BY <4>1, <4>2, <4>3, <3>6
      <4> QED
        BY <4>4, TurnSound
    <3> QED
      BY <3>5, <3>6, <3>7 DEF w
  <2> QED
    BY <2>1, <2>2
<1> HIDE DEF B, C, D
<1>5. A \o B \o C \o D = A \o (B \o C \o D)
  <2>1. B \o C \in Seq(Message)
    BY <1>1, JoinAt
  <2>2. (A \o B) \o C = A \o (B \o C)
    <3>1. A \in Seq(Message) /\ B \in Seq(Message) /\ C \in Seq(Message)
      BY <1>1, <1>3
    <3> QED
      BY <3>1, Associative
  <2>3. (A \o (B \o C)) \o D = A \o ((B \o C) \o D)
    <3>1. A \in Seq(Message) /\ B \o C \in Seq(Message) /\ D \in Seq(Message)
      BY <2>1, <1>3, <1>4
    <3> QED
      BY <3>1, Associative
  <2> QED
    BY <2>2, <2>3
<1>6. Sound(TurnMessages)
  BY <1>2, <1>3, <1>4, <1>5, Join
<1> QED
  BY <1>3, <1>6 DEF RequestsAreAnswered, Sound

-----------------------------------------------------------------------------
(* Messages the loop adds.                                                 *)

LEMMA OneIs ==
  ASSUME NEW m \in Message
  PROVE  <<m>> \in Seq(Message) /\ Len(<<m>>) = 1 /\ <<m>>[1] = m
OBVIOUS

LEMMA PlainKinds ==
  \A k \in User \cup System \cup {"text", "old text"} : k \in Kinds /\ k \notin Results \cup {"calls"}
BY DEF Kinds, User, Assistant, System, Results

\* A message that is neither a call nor a result leaves the pairs as they are.
LEMMA OneAdded ==
  ASSUME NEW ms \in Seq(Message), Sound(ms), NEW m \in Message,
         m.kind \notin Results \cup {"calls"}
  PROVE  /\ Append(ms, m) \in Seq(Message) /\ Sound(Append(ms, m))
         /\ Len(Append(ms, m)) = Len(ms) + 1 /\ Append(ms, m) = ms \o <<m>>
         /\ \A i \in 1..Len(ms) : Append(ms, m)[i] = ms[i]
         /\ Append(ms, m)[Len(ms) + 1] = m
<1>1. <<m>> \in Seq(Message) /\ Len(<<m>>) = 1 /\ <<m>>[1] = m
  BY OneIs
<1>2. Plain(<<m>>)
  <2>1. \A i \in 1..1 : <<m>>[i].kind \notin Results \cup {"calls"}
    BY <1>1
  <2> QED
    BY <1>1, <2>1 DEF Plain
<1>3. Sound(<<m>>)
  BY <1>1, <1>2, PlainSound
<1>4. Append(ms, m) = ms \o <<m>>
  BY AppendIsConcat
<1>5. Sound(ms \o <<m>>)
  BY <1>1, <1>3, Join
<1> QED
  BY <1>4, <1>5, AppendProperties

\* The images of the last calls are what follows their results.
LEMMA ImagesAre ==
  ASSUME NEW x \in Seq(Message), NEW y \in Seq(Message), NEW l \in 1..Len(x),
         x[l].kind = "calls", \A i \in (l + 1)..Len(x) : x[i].kind \notin {"calls", "image"},
         \A i \in 1..Len(y) : y[i].kind = "image"
  PROVE  Images(x \o y) = y
<1> DEFINE z == x \o y
           W == {i \in Where(z, {"image"}) : i > Last(Where(z, {"calls"}), Len(z))}
<1>1. /\ z \in Seq(Message) /\ Len(z) = Len(x) + Len(y) /\ Len(x) \in Nat /\ Len(y) \in Nat
      /\ \A i \in 1..Len(x) : z[i] = x[i]
      /\ \A i \in 1..Len(y) : z[Len(x) + i] = y[i]
  BY JoinAt
<1> HIDE DEF z
<1>2. DOMAIN z = 1..Len(z) /\ Len(z) \in Nat
  BY <1>1, LenProperties
<1>3. \A i \in 1..Len(z) : i \notin 1..Len(x) => z[i].kind = "image"
  <2> TAKE i \in 1..Len(z)
  <2> HAVE i \notin 1..Len(x)
  <2>1. i - Len(x) \in 1..Len(y) /\ Len(x) + (i - Len(x)) = i
    BY <1>1
  <2>2. z[Len(x) + (i - Len(x))] = y[i - Len(x)]
    BY <2>1, <1>1
  <2> QED
    BY <2>1, <2>2
<1>4. Last(Where(z, {"calls"}), Len(z)) = l
  <2> DEFINE C == Where(z, {"calls"})
  <2>1. C \in SUBSET (1..Len(z))
    BY <1>2 DEF Where
  <2>2. l \in C
    BY <1>1, <1>2 DEF Where
  <2>3. \A i \in C : i <= l
    <3> TAKE i \in C
    <3>1. i \in 1..Len(z) /\ z[i].kind = "calls"
      BY <1>2 DEF Where
    <3>2. i \in 1..Len(x)
      BY <3>1, <1>3
    <3>3. x[i].kind = "calls"
      BY <3>1, <3>2, <1>1
    <3> QED
      BY <3>2, <3>3, <1>1
  <2> HIDE DEF C
  <2>4. Last(C, Len(z)) \in C /\ \A j \in C : j <= Last(C, Len(z))
    BY <2>1, <2>2, <1>2, LastIs
  <2>5. Last(C, Len(z)) <= l /\ l <= Last(C, Len(z)) /\ Last(C, Len(z)) \in Nat
    BY <2>1, <2>2, <2>3, <2>4
  <2>6. Last(C, Len(z)) = l
    BY <2>5
  <2> QED
    BY <2>6 DEF C
<1>5. \A i : i \in W <=> i \in (Len(x) + 1)..Len(z)
  <2>1. \A i : i \in W <=> i \in 1..Len(z) /\ z[i].kind = "image" /\ i > l
    BY <1>2, <1>4 DEF Where
  <2>2. ASSUME NEW i \in 1..Len(z), z[i].kind = "image", i > l PROVE i > Len(x)
    <3> SUFFICES ASSUME ~(i > Len(x)) PROVE FALSE
      OBVIOUS
    <3>1. i \in (l + 1)..Len(x) /\ i \in 1..Len(x)
      BY <2>2, <1>1
    <3>2. x[i].kind = "image"
      BY <3>1, <2>2, <1>1
    <3> QED
      BY <3>1, <3>2
  <2>3. \A i \in (Len(x) + 1)..Len(z) : i \in 1..Len(z) /\ i > l /\ z[i].kind = "image"
    BY <1>1, <1>2, <1>3
  <2>4. \A i \in 1..Len(z) : i > Len(x) => i \in (Len(x) + 1)..Len(z)
    BY <1>1, <1>2
  <2> QED
    BY <2>1, <2>2, <2>3, <2>4
<1>6. W = (Len(x) + 1)..Len(z)
  BY <1>5
<1>7. Images(z) = Picked(z, (Len(x) + 1)..Len(z))
  BY <1>6 DEF Images
<1>8. Len(x) + 1 \in Nat \ {0} /\ Len(z) \in 0..Len(z) /\ Len(x) + 1 <= Len(z) + 1
      /\ Len(z) - (Len(x) + 1) + 1 = Len(y)
  BY <1>1, <1>2
<1> DEFINE p == Picked(z, (Len(x) + 1)..Len(z))
<1>9. /\ p \in Seq(Message) /\ Len(p) = Len(z) - (Len(x) + 1) + 1
      /\ \A k \in 1..(Len(z) - (Len(x) + 1) + 1) : p[k] = z[(Len(x) + 1) + k - 1]
  BY <1>1, <1>8, PickedInterval
<1> HIDE DEF p
<1>10. \A k \in 1..Len(y) : (Len(x) + 1) + k - 1 = Len(x) + k
  BY <1>1
<1>11. \A k \in 1..Len(p) : p[k] = y[k]
  <2> TAKE k \in 1..Len(p)
  <2>1. k \in 1..Len(y) /\ k \in 1..(Len(z) - (Len(x) + 1) + 1)
    BY <1>8, <1>9
  <2>2. p[k] = z[(Len(x) + 1) + k - 1] /\ (Len(x) + 1) + k - 1 = Len(x) + k
    BY <2>1, <1>9, <1>10
  <2> QED
    BY <2>1, <2>2, <1>1
<1>12. p = y
  BY <1>8, <1>9, <1>11, SeqEqual
<1> QED
  BY <1>7, <1>12 DEF p, z
-----------------------------------------------------------------------------
(* The invariant holds at the start and is kept by every step.             *)

LEMMA ConstantsAre ==
  /\ MaxIterations \in Nat /\ MaxIterations >= 1
  /\ MaxRetries \in Nat /\ MaxLength \in Nat /\ MaxStops \in Nat
BY LoopConstants

LEMMA SixAre ==
  ASSUME NEW a \in Message, NEW b \in Message, NEW c \in Message,
         NEW d \in Message, NEW e \in Message, NEW f \in Message
  PROVE  <<a, b, c, d, e, f>> \in Seq(Message)
OBVIOUS

LEMMA LoopStarts == Init => LoopInv
<1> SUFFICES ASSUME Init PROVE LoopInv
  OBVIOUS
<1>k. /\ "prompt" \in Kinds /\ "old user" \in Kinds /\ "calls" \in Kinds /\ "tool" \in Kinds
      /\ "old text" \in Kinds /\ "request" \in Kinds
  BY DEF Kinds, User, Assistant, System, Results
<1>l. Len(msgs) = 6
  BY DEF Init
<1>v. /\ pc = "start" /\ outcome = "none" /\ anchor = 6 /\ index = 0 /\ sent = NotSent
      /\ notes = <<>> /\ iter = 0 /\ out = FALSE /\ request = NewRequest /\ answer = NoAnswer
      /\ calls = <<>> /\ denied = {} /\ lengths = 0 /\ stops = 0 /\ steered = FALSE
  BY DEF Init
<1>m. /\ msgs[1].kind = "prompt" /\ msgs[2].kind = "old user"
      /\ msgs[3].kind = "calls" /\ msgs[3].step = 0 /\ msgs[3].at = 1
      /\ msgs[4].kind = "tool" /\ msgs[4].step = 0 /\ msgs[4].at = 1
      /\ msgs[5].kind = "old text" /\ msgs[6].kind = "request"
  BY DEF Init, Msg
<1>s. msgs \in Seq(Message)
  <2>1. \A k \in Kinds : Msg(k, 0, 0) \in Message /\ Msg(k, 0, 1) \in Message
    BY DEF Msg, Message
  <2>2. /\ Msg("prompt", 0, 0) \in Message /\ Msg("old user", 0, 0) \in Message
        /\ Msg("calls", 0, 1) \in Message /\ Msg("tool", 0, 1) \in Message
        /\ Msg("old text", 0, 0) \in Message /\ Msg("request", 0, 0) \in Message
    BY <1>k, <2>1
  <2> QED
    BY <2>2, SixAre DEF Init
<1>1. TypeOK
  <2>1. DOMAIN msgs = 1..6
    BY <1>l, <1>s, LenProperties
  <2>2. sent \in SentStep /\ sent.step <= MaxIterations + 1
    <3>1. NotSent.step = 0
      BY DEF NotSent
    <3> QED
      BY <1>v, <3>1, NotSentOk, ConstantsAre
  <2>3. notes \in Seq({"note", "context"}) /\ calls \in Seq(Call)
    BY <1>v, EmptySeq
  <2>4. request \in [attempts: 0..(MaxRetries + 1), overflow: BOOLEAN, recovered: BOOLEAN]
    <3>1. 0 \in 0..(MaxRetries + 1)
      BY ConstantsAre
    <3> QED
      BY <1>v, <3>1 DEF NewRequest
  <2>5. answer \in [text: BOOLEAN, length: BOOLEAN, cut: BOOLEAN, noted: BOOLEAN]
    BY <1>v DEF NoAnswer
  <2>6. /\ iter \in 0..MaxIterations /\ lengths \in 0..MaxLength /\ stops \in 0..MaxStops
        /\ anchor \in DOMAIN msgs /\ index \in Nat
    BY <1>v, <2>1, ConstantsAre
  <2> QED
    BY <1>s, <1>v, <2>1, <2>2, <2>3, <2>4, <2>5, <2>6 DEF TypeOK
<1>2. CountInv
  BY <1>v, ConstantsAre DEF CountInv, NoAnswer
<1>3. CallInv
  <2>1. DOMAIN calls = {}
    <3>1. <<>> \in Seq(Call) /\ Len(<<>>) = 0
      BY EmptySeq
    <3>2. DOMAIN <<>> = 1..0
      BY <3>1, LenProperties
    <3>3. 1..0 = {}
      OBVIOUS
    <3> QED
      BY <1>v, <3>2, <3>3
  <2> QED
    BY <1>v, <2>1 DEF CallInv, RanIsRecorded, Working
<1>4. SentInv
  BY <1>v, NotSentOk DEF SentInv
<1>5. AnchorInv
  <2>1. DOMAIN msgs = 1..6
    BY <1>l, <1>s, LenProperties
  <2>2. Where(msgs, User) \in SUBSET (1..6) /\ 6 \in Where(msgs, User)
    <3>1. Where(msgs, User) = {i \in 1..6 : msgs[i].kind \in User}
      BY <2>1 DEF Where
    <3>2. msgs[6].kind \in User
      BY <1>m DEF User
    <3> QED
      BY <3>1, <3>2
  <2> DEFINE l == Last(Where(msgs, User), 0)
  <2>3. l \in Where(msgs, User) /\ \A j \in Where(msgs, User) : j <= l
    BY <2>2, LastIs
  <2> HIDE DEF l
  <2>4. l = 6
    BY <2>2, <2>3
  <2>5. ~(sent.step > 0)
    <3>1. sent.step = 0
      BY <1>v DEF NotSent
    <3> QED
      BY <3>1
  <2>6. ~Asked
    BY <1>v DEF Asked
  <2>7. index = 0 /\ Last(Where(msgs, User), 0) = anchor /\ msgs[anchor].kind = "request"
    BY <1>m, <1>v, <2>4 DEF l
  <2> QED
    BY <2>5, <2>6, <2>7 DEF AnchorInv
<1>6. LedgerInv
  <2>1. Sound(msgs)
    <3>1. ASSUME NEW i \in 1..Len(msgs)
          PROVE  /\ msgs[i].kind = "calls" =>
                      /\ i + msgs[i].at <= Len(msgs)
                      /\ \A k \in 1..msgs[i].at : /\ msgs[i + k].kind \in Results
                                                  /\ msgs[i + k].step = msgs[i].step
                                                  /\ msgs[i + k].at = k
                 /\ msgs[i].kind \in Results =>
                      /\ i > msgs[i].at /\ msgs[i].at \in 1..msgs[i - msgs[i].at].at
                      /\ msgs[i - msgs[i].at].kind = "calls"
                      /\ msgs[i - msgs[i].at].step = msgs[i].step
      <4>1. i = 1 \/ i = 2 \/ i = 3 \/ i = 4 \/ i = 5 \/ i = 6
        <5>1. i \in 1..6
          BY <1>l
        <5> QED
          BY <5>1
      <4>2. CASE i = 3
        <5>1. \A k \in 1..1 : k = 1 /\ i + k = 4
          BY <4>2
        <5>2. msgs[i].kind = "calls" /\ msgs[i].at = 1 /\ msgs[i].step = 0 /\ msgs[i].kind \notin Results
          BY <1>m, <4>2 DEF Results
        <5>3. \A k \in 1..1 : msgs[i + k].kind \in Results /\ msgs[i + k].step = 0 /\ msgs[i + k].at = k
          BY <1>m, <5>1 DEF Results
        <5>4. i + 1 <= Len(msgs)
          BY <1>l, <4>2
        <5> QED
          BY <5>2, <5>3, <5>4
      <4>3. CASE i = 4
        <5>1. i - 1 = 3 /\ 1 \in 1..1
          BY <4>3
        <5>2. msgs[i].kind = "tool" /\ msgs[i].at = 1 /\ msgs[i].step = 0 
          BY <1>m, <4>3
        <5>4. i > 1
          BY <4>3
        <5>3. msgs[i - 1].kind = "calls" /\ msgs[i - 1].step = 0 /\ msgs[i - 1].at = 1
          BY <1>m, <5>1
        <5> QED
          BY <5>1, <5>2, <5>3, <5>4
      <4>4. CASE i \notin {3, 4}
        BY <1>m, <4>1, <4>4 DEF Results
      <4> QED
        BY <4>2, <4>3, <4>4
    <3> QED
      BY <3>1, <1>s, SoundIs, Zenon
  <2> QED
    BY <1>v, <2>1 DEF LedgerInv, LedgerIsExact, Working
<1>7. NoteInv
  BY <1>v DEF NoteInv, NoAnswer
<1> QED
  BY <1>1, <1>2, <1>3, <1>4, <1>5, <1>6, <1>7 DEF LoopInv

\* A step that leaves the messages and the journal alone.
LEMMA MessagesStay ==
  ASSUME LoopInv, UNCHANGED <<msgs, anchor, index, sent>>,
         Fresh' => Fresh, Asked' => Asked, Late => Late'
  PROVE  SentInv' /\ AnchorInv'
<1>1. SentInv'
  BY DEF LoopInv, SentInv
<1>2. AnchorInv'
  BY DEF LoopInv, AnchorInv, Where
<1> QED
  BY <1>1, <1>2

\* A step that keeps the request's place in what it leaves.
LEMMA PlaceStays ==
  ASSUME LoopInv, pc # "ended", Asked \/ pc = "reply" \/ pc \in Working,
         index' = anchor', msgs'[anchor'].kind = "request", ~Fresh',
         anchor' # 0, sent' = sent \/ sent'.index # 0
  PROVE  AnchorInv'
BY DEF LoopInv, AnchorInv, Late

LEMMA TickStep == LoopInv /\ Tick => LoopInv'
<1> SUFFICES ASSUME LoopInv, Tick PROVE LoopInv'
  OBVIOUS
<1> USE DEF Tick, control, context, counts, journal
<1>1. TypeOK'
  BY DEF LoopInv, TypeOK
<1>2. CountInv'
  BY DEF LoopInv, CountInv
<1>3. CallInv'
  BY DEF LoopInv, CallInv, RanIsRecorded, Gave, Waiting
<1>4. SentInv' /\ AnchorInv'
  BY MessagesStay DEF Fresh, Asked, Late
<1>6. LedgerInv'
  BY DEF LoopInv, LedgerInv, LedgerIsExact, Rebuilt, Open, HadCalls
<1>7. NoteInv'
  BY DEF LoopInv, NoteInv
<1> QED
  BY <1>1, <1>2, <1>3, <1>4, <1>6, <1>7 DEF LoopInv

LEMMA BeginStep == LoopInv /\ Begin => LoopInv'
<1> SUFFICES ASSUME LoopInv, Begin PROVE LoopInv'
  OBVIOUS
<1> USE DEF Begin, Ended, counts, journal
<1>1. TypeOK'
  <2>1. <<>> \in Seq({"note", "context"}) /\ <<"context">> \in Seq({"note", "context"})
    BY EmptySeq
  <2>2. notes' \in Seq({"note", "context"})
    BY <2>1 DEF LoopInv, TypeOK
  <2> QED
    BY <2>2 DEF LoopInv, TypeOK
<1>2. CountInv'
  BY DEF LoopInv, CountInv
<1>3. CallInv'
  <2>1. calls = <<>>
    BY DEF LoopInv, CountInv
  <2>2. DOMAIN calls' = {}
    <3>1. DOMAIN <<>> = {}
      OBVIOUS
    <3> QED
      BY <2>1, <3>1
  <2> QED
    BY <2>1, <2>2 DEF LoopInv, CallInv, RanIsRecorded, Gave, Working
<1>4. SentInv' /\ AnchorInv'
  BY MessagesStay DEF Fresh, Asked, Late
<1>6. LedgerInv'
  <2>1. iter = 0
    BY DEF LoopInv, CountInv
  <2>2. pc' \in {"top", "ended"} /\ iter' = 0 /\ Sound(msgs)' /\ ~(iter' > 0)
    BY <2>1 DEF LoopInv, LedgerInv, Between
  <2> QED
    BY <2>2 DEF LedgerInv, LedgerIsExact, Between, Working
<1>7. NoteInv'
  BY DEF LoopInv, NoteInv, CountInv
<1> QED
  BY <1>1, <1>2, <1>3, <1>4, <1>6, <1>7 DEF LoopInv

LEMMA OverflowStep == LoopInv /\ Overflow => LoopInv'
<1> SUFFICES ASSUME LoopInv, Overflow PROVE LoopInv'
  OBVIOUS
<1> USE DEF Overflow, Ended, Recorded, context, counts, journal
<1>1. TypeOK'
  <2>1. out' \in BOOLEAN
    BY DEF LoopInv, TypeOK
  <2>2. request' \in [attempts: 0..(MaxRetries + 1), overflow: BOOLEAN, recovered: BOOLEAN]
    BY DEF LoopInv, TypeOK
  <2> QED
    BY <2>1, <2>2 DEF LoopInv, TypeOK
<1>2. CountInv'
  BY DEF LoopInv, CountInv
<1>3. CallInv'
  BY DEF LoopInv, CallInv, RanIsRecorded, Gave, Working
<1>4. SentInv' /\ AnchorInv'
  BY MessagesStay DEF Fresh, Asked, Late
<1>6. LedgerInv'
  BY DEF LoopInv, LedgerInv, LedgerIsExact, Between, Working
<1>7. NoteInv'
  BY DEF LoopInv, NoteInv
<1> QED
  BY <1>1, <1>2, <1>3, <1>4, <1>6, <1>7 DEF LoopInv

LEMMA AttemptFailsStep == LoopInv /\ AttemptFails => LoopInv'
<1> SUFFICES ASSUME LoopInv, AttemptFails PROVE LoopInv'
  OBVIOUS
<1> USE DEF AttemptFails, Ended, Recorded, context, counts, journal
<1>0. /\ request \in [attempts: 0..(MaxRetries + 1), overflow: BOOLEAN, recovered: BOOLEAN]
      /\ request.attempts <= MaxRetries /\ pc = "attempt"
  BY DEF LoopInv, TypeOK, CountInv
<1>1. TypeOK'
  <2>1. out' \in BOOLEAN
    BY DEF LoopInv, TypeOK
  <2>2. request.attempts + 1 \in 0..(MaxRetries + 1)
    BY <1>0, ConstantsAre
  <2>3. request' \in [attempts: 0..(MaxRetries + 1), overflow: BOOLEAN, recovered: BOOLEAN]
    BY <1>0, <2>2
  <2>4. pc' \in {"backoff", "ended"} /\ outcome' \in {outcome, "failed"}
    OBVIOUS
  <2> QED
    BY <2>1, <2>3, <2>4 DEF LoopInv, TypeOK
<1>2. CountInv'
  <2>1. pc' = "backoff" => request'.attempts <= MaxRetries
    OBVIOUS
  <2>2. \/ pc' = "ended" /\ outcome' = "failed"
        \/ pc' = "backoff" /\ outcome' = outcome
    OBVIOUS
  <2>3. iter' = iter /\ answer' = answer /\ calls' = calls
    OBVIOUS
  <2> QED
    BY <1>0, <2>1, <2>2, <2>3 DEF LoopInv, CountInv
<1>3. CallInv'
  BY DEF LoopInv, CallInv, RanIsRecorded, Gave, Working
<1>4. SentInv' /\ AnchorInv'
  BY MessagesStay DEF Fresh, Asked, Late
<1>6. LedgerInv'
  BY DEF LoopInv, LedgerInv, LedgerIsExact, Between, Working
<1>7. NoteInv'
  BY DEF LoopInv, NoteInv
<1> QED
  BY <1>1, <1>2, <1>3, <1>4, <1>6, <1>7 DEF LoopInv

LEMMA BackoffStep == LoopInv /\ Backoff => LoopInv'
<1> SUFFICES ASSUME LoopInv, Backoff PROVE LoopInv'
  OBVIOUS
<1> USE DEF Backoff, Ended, context, counts, journal
<1>1. TypeOK'
  BY DEF LoopInv, TypeOK
<1>2. CountInv'
  BY DEF LoopInv, CountInv
<1>3. CallInv'
  BY DEF LoopInv, CallInv, RanIsRecorded, Gave, Working
<1>4. SentInv' /\ AnchorInv'
  BY MessagesStay DEF Fresh, Asked, Late
<1>6. LedgerInv'
  BY DEF LoopInv, LedgerInv, LedgerIsExact, Between, Working
<1>7. NoteInv'
  BY DEF LoopInv, NoteInv
<1> QED
  BY <1>1, <1>2, <1>3, <1>4, <1>6, <1>7 DEF LoopInv

LEMMA ResponseNotCommittedStep == LoopInv /\ ResponseNotCommitted => LoopInv'
<1> SUFFICES ASSUME LoopInv, ResponseNotCommitted PROVE LoopInv'
  OBVIOUS
<1> USE DEF ResponseNotCommitted, Ended, context, counts, journal
<1>0. iter \in Nat /\ iter + 1 <= MaxIterations
  BY ConstantsAre DEF LoopInv, TypeOK, CountInv
<1>1. TypeOK'
  <2>1. iter' \in 0..MaxIterations
    BY <1>0, ConstantsAre
  <2> QED
    BY <2>1 DEF LoopInv, TypeOK
<1>2. CountInv'
  BY <1>0 DEF CountInv
<1>3. CallInv'
  BY DEF CallInv, RanIsRecorded, Working
<1>4. SentInv' /\ AnchorInv'
  BY MessagesStay DEF Fresh, Asked, Late
<1>6. LedgerInv'
  BY DEF LedgerInv, LedgerIsExact, Between, Working
<1>7. NoteInv'
  BY DEF NoteInv
<1> QED
  BY <1>1, <1>2, <1>3, <1>4, <1>6, <1>7 DEF LoopInv

\* What the step proofs use of the invariant.
LEMMA LoopFacts ==
  ASSUME LoopInv
  PROVE  /\ msgs \in Seq(Message) /\ Len(msgs) \in Nat /\ DOMAIN msgs = 1..Len(msgs)
         /\ anchor \in 1..Len(msgs) /\ anchor \in Nat
         /\ msgs[anchor].kind = "request" /\ index \in Nat
         /\ pc \in {"request", "attempt", "backoff", "reply"} \cup Working =>
              /\ index = anchor /\ anchor # 0 /\ (sent.step > 0 => sent.index # 0)
         /\ iter \in Nat /\ iter <= MaxIterations /\ iter + 1 \in Nat
         /\ sent \in SentStep /\ sent.step <= MaxIterations + 1 /\ SentOk(sent)
         /\ calls \in Seq(Call) /\ DOMAIN calls = 1..Len(calls) /\ Len(calls) \in Nat
         /\ pc \in Between => Sound(msgs)
<1>1. msgs \in Seq(Message) /\ anchor \in DOMAIN msgs /\ calls \in Seq(Call)
      /\ iter \in 0..MaxIterations /\ sent \in SentStep /\ sent.step <= MaxIterations + 1
  BY DEF LoopInv, TypeOK
<1>2. Len(msgs) \in Nat /\ DOMAIN msgs = 1..Len(msgs) /\ DOMAIN calls = 1..Len(calls)
      /\ Len(calls) \in Nat
  BY <1>1, LenProperties
<1>3. msgs[anchor].kind = "request" /\ SentOk(sent) /\ index \in Nat
  BY DEF LoopInv, AnchorInv, SentInv, TypeOK
<1>4. pc \in Between => Sound(msgs)
  BY DEF LoopInv, LedgerInv
<1>5. anchor \in 1..Len(msgs) /\ anchor \in Nat
  BY <1>1, <1>2
<1>6. iter \in Nat /\ iter <= MaxIterations /\ iter + 1 \in Nat
  BY <1>1, ConstantsAre
<1>7. ASSUME pc \in {"request", "attempt", "backoff", "reply"} \cup Working
      PROVE  index = anchor /\ anchor # 0 /\ (sent.step > 0 => sent.index # 0)
  <2>1. pc \in {"reply"} \cup Working => iter > 0
    BY DEF LoopInv, LedgerInv
  <2>2. pc # "ended"
    BY <1>7 DEF Working
  <2> QED
    BY <1>5, <1>7, <2>1, <2>2 DEF LoopInv, AnchorInv, Asked, Late
<1> QED
  BY <1>1, <1>2, <1>3, <1>4, <1>5, <1>6, <1>7

\* What the loop adds between turns.
LEMMA AddedIs ==
  ASSUME NEW k \in {"steer", "context", "note", "wrap up", "text", "image"}, NEW s \in Nat
  PROVE  /\ Msg(k, s, 0) \in Message /\ Msg(k, s, 0).kind = k /\ Msg(k, s, 0).step = s
         /\ Msg(k, s, 0).kind \notin Results \cup {"calls"}
<1>1. k \in Kinds /\ k \notin Results \cup {"calls"}
  BY DEF Kinds, User, Assistant, System, Results
<1>2. k \in Kinds /\ 0 \in Nat
  BY <1>1
<1>3. /\ Msg(k, s, 0) \in Message
      /\ Msg(k, s, 0).kind = k /\ Msg(k, s, 0).step = s /\ Msg(k, s, 0).at = 0
  BY <1>2 DEF Msg, Message
<1> QED
  BY <1>1, <1>3

\* The report of a run at its limit is one more recorded step.
LEMMA ReportStep ==
  ASSUME LoopInv, Report, pc \in Between, iter > 0 \/ (out /\ pc = "top"),
         UNCHANGED <<context, request, answer, out, calls, counts, index, steered, iter>>
  PROVE  LoopInv'
<1> USE DEF Ended, context, counts
<1> DEFINE m == Msg("wrap up", iter + 1, 0)
           s == Sending(iter + 1, Append(msgs, m), index)
           t == <<Msg("text", iter + 1, 0)>>
<1>0. /\ msgs \in Seq(Message) /\ Sound(msgs) /\ iter \in Nat /\ iter <= MaxIterations
      /\ sent \in SentStep
      /\ sent.step <= MaxIterations + 1 /\ SentOk(sent) /\ index \in Nat
      /\ index # 0 => index \in 1..Len(msgs) /\ msgs[index].kind = "request"
      /\ index # 0 \/ (iter = 0 /\ out)
  <2>1. iter > 0 => index = anchor
    BY DEF LoopInv, AnchorInv, Asked
  <2>2. ~(iter > 0) => iter = 0 /\ out /\ index = 0
    <3>1. iter \in Nat
      BY LoopFacts
    <3>2. ~(iter > 0) => out /\ pc = "top"
      OBVIOUS
    <3> QED
      BY <3>1, <3>2 DEF LoopInv, AnchorInv, Fresh
  <2>3. /\ msgs \in Seq(Message) /\ Sound(msgs) /\ iter \in Nat /\ iter <= MaxIterations
        /\ sent \in SentStep /\ sent.step <= MaxIterations + 1 /\ SentOk(sent) /\ index \in Nat
        /\ anchor \in 1..Len(msgs) /\ msgs[anchor].kind = "request" /\ Len(msgs) \in Nat
    BY LoopFacts
  <2>4. CASE iter > 0
    <3>1. index = anchor /\ index # 0
      BY <2>1, <2>3, <2>4
    <3>2. index \in 1..Len(msgs) /\ msgs[index].kind = "request"
      BY <2>3, <3>1
    <3> QED
      BY <2>3, <3>1, <3>2
  <2>5. CASE ~(iter > 0)
    BY <2>2, <2>3, <2>5
  <2> QED
    BY <2>4, <2>5
<1>1. m \in Message /\ m.kind \notin Results \cup {"calls"}
  BY LoopFacts, AddedIs
<1>2. /\ Msg("text", iter + 1, 0) \in Message /\ t \in Seq(Message) /\ Len(t) = 1
      /\ t[1].kind = "text" /\ t[1].step = iter + 1
  <2>1. Msg("text", iter + 1, 0) \in Message /\ Msg("text", iter + 1, 0).kind = "text"
        /\ Msg("text", iter + 1, 0).step = iter + 1
    BY LoopFacts, AddedIs
  <2> QED
    BY <2>1, OneIs
<1> HIDE DEF m, t
<1>3. /\ Append(msgs, m) \in Seq(Message) /\ Sound(Append(msgs, m))
      /\ index # 0 => index \in 1..Len(Append(msgs, m)) /\ Append(msgs, m)[index].kind = "request"
  <2> DEFINE z == Append(msgs, m)
  <2>1. z \in Seq(Message) /\ Sound(z) /\ Len(z) = Len(msgs) + 1
        /\ \A i \in 1..Len(msgs) : z[i] = msgs[i]
    BY <1>0, <1>1, OneAdded
  <2> HIDE DEF z
  <2>2. index # 0 => index \in 1..Len(z) /\ z[index].kind = "request"
    BY <1>0, <2>1, LoopFacts
  <2> QED
    BY <2>1, <2>2 DEF z
<1>4. /\ s \in SentStep /\ SentOk(s) /\ s.step = iter + 1 /\ s.results = <<>> /\ s.index = index
  <2> DEFINE z == Append(msgs, m)
  <2>1. iter + 1 \in Nat /\ iter + 1 > 0
    BY <1>0
  <2>2. z \in Seq(Message) /\ Sound(z) /\ (index # 0 => index \in 1..Len(z) /\ z[index].kind = "request")
    BY <1>3
  <2> HIDE DEF z
  <2>3. s = Sending(iter + 1, z, index)
    BY DEF z
  <2> HIDE DEF s
  <2>n. PICK n \in Nat : n = iter + 1 /\ n > 0
    BY <2>1
  <2>4. RequestOf(Sending(n, z, index), n, z, index)
    BY <2>n, <2>2, <1>0, SendingOk
  <2> QED
    BY <2>n, <2>3, <2>4 DEF RequestOf
<1> DEFINE r == [s EXCEPT !.answered = TRUE, !.assistant = t]
<1> HIDE DEF s
<1>5. r \in SentStep /\ SentOk(r) /\ r.step = iter + 1 /\ r.index = index
  <2>1. s.step > 0
    BY <1>0, <1>4
  <2>2. t[1].kind \in {"text", "calls"} /\ t[1].step = s.step
    BY <1>2, <1>4
  <2> QED
    <3>1. Reply(s.step, t)
      BY <1>2, <2>2 DEF Reply
    <3>2. AnswerOf([s EXCEPT !.answered = TRUE, !.assistant = t], s, t)
      BY <1>2, <1>4, <2>1, <3>1, AnsweredOk
    <3> QED
      BY <1>4, <3>2 DEF AnswerOf, r
<1> HIDE DEF r
<1>6. /\ pc' = "ended" /\ outcome' \in {"answer", "limited"}
      /\ sent' \in {r, s, sent}
  BY DEF Report, r, s, m, t
<1>7. sent' \in SentStep /\ SentOk(sent') /\ sent'.step <= MaxIterations + 1
  BY <1>0, <1>4, <1>5, <1>6, ConstantsAre
<1>8. TypeOK'
  BY <1>6, <1>7 DEF LoopInv, TypeOK
<1>9. CountInv'
  BY <1>6 DEF LoopInv, CountInv
<1>10. CallInv'
  BY <1>6 DEF CallInv, RanIsRecorded, Working
<1>11. SentInv' /\ AnchorInv'
  <2>1. ~Fresh' /\ (Asked' => Asked) /\ pc # "ended"
    BY <1>6 DEF Fresh, Asked, Between
  <2>2. sent'.step > 0 /\ sent'.index = 0 => Late'
    <3>1. CASE sent' = sent
      BY <3>1, <2>1 DEF LoopInv, AnchorInv, Late
    <3>2. CASE sent'.index = index
      BY <3>2, <1>0, <1>6 DEF Late
    <3> QED
      BY <3>1, <3>2, <1>4, <1>5, <1>6
  <2> QED
    BY <1>7, <2>1, <2>2 DEF SentInv, LoopInv, AnchorInv
<1>12. LedgerInv'
  BY <1>6 DEF LedgerInv, LedgerIsExact, Between, Working
<1>13. NoteInv'
  BY <1>6 DEF NoteInv
<1> QED
  BY <1>8, <1>9, <1>10, <1>11, <1>12, <1>13 DEF LoopInv

LEMMA LimitSteps == LoopInv /\ (StopAtLimit \/ CallsAtLimit) => LoopInv'
<1>1. ASSUME LoopInv, StopAtLimit PROVE LoopInv'
  BY <1>1, ReportStep DEF StopAtLimit, Between, context, counts
<1>2. ASSUME LoopInv, CallsAtLimit PROVE LoopInv'
  <2>1. pc = "reply" /\ Report
        /\ UNCHANGED <<context, iter, request, answer, out, calls, counts, index, steered>>
    BY <1>2 DEF CallsAtLimit
  <2>p. pc \in {"reply"} \cup Working /\ pc \in Between
    BY <2>1 DEF Between
  <2>2. (iter > 0 \/ (out /\ pc = "top")) /\ pc \in Between
    BY <1>2, <2>p DEF LoopInv, LedgerInv
  <2>3. UNCHANGED <<context, request, answer, out, calls, counts, index, steered, iter>>
    BY <2>1
  <2> QED
    BY <1>2, <2>1, <2>2, <2>3, ReportStep
<1> QED
  BY <1>1, <1>2

LEMMA PrepareStepStep == LoopInv /\ PrepareStep => LoopInv'
<1> SUFFICES ASSUME LoopInv, PrepareStep PROVE LoopInv'
  OBVIOUS
<1> USE DEF Ended, counts
<1>0. /\ msgs \in Seq(Message) /\ Sound(msgs) /\ iter \in Nat /\ pc = "top" /\ outcome = "none"
      /\ anchor \in 1..Len(msgs) /\ msgs[anchor].kind = "request"
      /\ index' = anchor /\ anchor \in Nat /\ anchor # 0
      /\ notes \in Seq({"note", "context"}) /\ iter + 1 <= MaxIterations /\ Len(msgs) \in Nat
      /\ answer \in [text: BOOLEAN, length: BOOLEAN, cut: BOOLEAN, noted: BOOLEAN]
  <2>1. pc = "top" /\ "top" \in Between
    BY DEF PrepareStep, Between
  <2>2. outcome = "none" /\ iter + 1 <= MaxIterations
    BY <2>1 DEF LoopInv, CountInv
  <2>3. /\ notes \in Seq({"note", "context"})
        /\ answer \in [text: BOOLEAN, length: BOOLEAN, cut: BOOLEAN, noted: BOOLEAN]
    BY DEF LoopInv, TypeOK
  <2>i. index' = IF iter = 0 THEN Last(Where(msgs, User), 0) ELSE index
    BY DEF PrepareStep
  <2>4. ASSUME iter = 0 PROVE index' = anchor
    <3>1. Fresh
      BY <2>1, <2>4 DEF Fresh
    <3> QED
      BY <2>i, <2>4, <3>1 DEF LoopInv, AnchorInv
  <2>5. ASSUME iter # 0 PROVE index' = anchor
    <3>1. Asked
      BY <2>5, LoopFacts DEF Asked
    <3> QED
      BY <2>i, <2>5, <3>1 DEF LoopInv, AnchorInv
  <2> QED
    BY <2>1, <2>2, <2>3, <2>4, <2>5, LoopFacts
<1>1. CASE Ended("failed") /\ UNCHANGED <<msgs, notes, answer, calls, steered>>
  <2>u. UNCHANGED <<anchor, iter, request, out, counts, sent>>
    BY DEF PrepareStep
  <2>1. TypeOK'
    BY <1>0, <1>1, <2>u DEF LoopInv, TypeOK
  <2>2. CountInv'
    BY <1>1, <2>u DEF LoopInv, CountInv
  <2>3. CallInv'
    BY <1>1 DEF CallInv, RanIsRecorded, Working
  <2>4. SentInv' /\ AnchorInv'
    BY <1>0, <1>1, <2>u DEF LoopInv, SentInv, AnchorInv, Fresh, Late
  <2>5. LedgerInv'
    BY <1>1 DEF LedgerInv, LedgerIsExact, Between, Working
  <2>6. NoteInv'
    BY <1>1 DEF NoteInv
  <2> QED
    BY <2>1, <2>2, <2>3, <2>4, <2>5, <2>6 DEF LoopInv
<1>2. CASE ~(Ended("failed") /\ UNCHANGED <<msgs, notes, answer, calls, steered>>)
  <2> DEFINE N == [i \in DOMAIN notes |-> Msg(notes[i], iter + 1, 0)]
  <2>1. PICK claimed \in {<<>>} \cup {<<Msg(k, iter + 1, 0)>> : k \in {"steer", "context"}} :
          /\ msgs' = (IF iter = 0 THEN msgs ELSE Rebuilt) \o claimed \o N
          /\ steered' = (steered \/ claimed # <<>>)
    BY <1>2 DEF PrepareStep
  <2>2. /\ notes' = <<>> /\ calls' = <<>> /\ answer' = [NoAnswer EXCEPT !.noted = answer.noted]
        /\ pc' = "request" /\ outcome' = outcome
        /\ UNCHANGED <<anchor, iter, request, out, counts, sent>>
    BY <1>2 DEF PrepareStep
  <2>3. (IF iter = 0 THEN msgs ELSE Rebuilt) = msgs
    BY <1>0 DEF LoopInv, LedgerInv, LedgerIsExact
  <2>k. \A k \in {"steer", "context", "note"} :
          /\ Msg(k, iter + 1, 0) \in Message
          /\ Msg(k, iter + 1, 0).kind \notin Results \cup {"calls"}
    BY LoopFacts, AddedIs
  <2>4. claimed \in Seq(Message) /\ Plain(claimed)
    <3>1. CASE claimed = <<>>
      BY <3>1, EmptySeq DEF Plain
    <3>2. CASE claimed # <<>>
      <4>1. PICK k \in {"steer", "context"} : claimed = <<Msg(k, iter + 1, 0)>>
        BY <3>2
      <4>2. Msg(k, iter + 1, 0) \in Message /\ Msg(k, iter + 1, 0).kind \notin Results \cup {"calls"}
        BY <2>k
      <4>3. claimed \in Seq(Message) /\ Len(claimed) = 1 /\ claimed[1] = Msg(k, iter + 1, 0)
        BY <4>1, <4>2, OneIs
      <4>4. \A i \in 1..1 : claimed[i].kind \notin Results \cup {"calls"}
        BY <4>2, <4>3
      <4> QED
        BY <4>3, <4>4 DEF Plain
    <3> QED
      BY <3>1, <3>2
  <2>5. /\ N \in Seq(Message) /\ Len(N) = Len(notes) /\ Len(notes) \in Nat /\ Plain(N)
        /\ \A i \in 1..Len(notes) : N[i] = Msg(notes[i], iter + 1, 0)
    <3>1. DOMAIN notes = 1..Len(notes) /\ Len(notes) \in Nat
      BY <1>0, LenProperties
    <3>2. \A i \in 1..Len(notes) : notes[i] \in {"note", "context"}
      BY <1>0, ElementOfSeq
    <3>3. \A i \in 1..Len(notes) : N[i] = Msg(notes[i], iter + 1, 0)
      BY <3>1
    <3>4. N \in [1..Len(notes) -> Message]
      BY <3>1, <3>2, <2>k
    <3> HIDE DEF N
    <3>5. N \in Seq(Message) /\ Len(N) = Len(notes)
      BY <3>1, <3>4, SeqDef, LenProperties
    <3>6. \A i \in 1..Len(notes) : N[i].kind \notin Results \cup {"calls"}
      BY <3>2, <3>3, <2>k
    <3> QED
      BY <3>1, <3>3, <3>5, <3>6 DEF Plain
  <2> HIDE DEF N
  <2> DEFINE y == msgs \o claimed
  <2>6. /\ y \in Seq(Message) /\ Sound(y) /\ Len(y) = Len(msgs) + Len(claimed) /\ Len(y) \in Nat
        /\ Len(claimed) \in Nat
        /\ \A i \in 1..Len(msgs) : y[i] = msgs[i]
    <3>1. Sound(claimed)
      BY <2>4, PlainSound
    <3> QED
      BY <1>0, <2>4, <3>1, Join, JoinAt, LenProperties
  <2>7. msgs' = y \o N
    BY <2>1, <2>3
  <2> HIDE DEF y
  <2>8. /\ msgs' \in Seq(Message) /\ Sound(msgs') /\ Len(msgs') = Len(y) + Len(N)
        /\ \A i \in 1..Len(y) : msgs'[i] = y[i]
        /\ \A i \in 1..Len(N) : msgs'[Len(y) + i] = N[i]
    <3>1. Sound(N)
      BY <2>5, PlainSound
    <3> QED
      BY <2>5, <2>6, <2>7, <3>1, Join, JoinAt
  <2>9. anchor \in 1..Len(msgs') /\ msgs'[anchor] = msgs[anchor] /\ DOMAIN msgs' = 1..Len(msgs')
    BY <1>0, <2>5, <2>6, <2>8, LenProperties
  <2>10. TypeOK'
    <3>1. notes' \in Seq({"note", "context"}) /\ calls' \in Seq(Call)
      BY <2>2, EmptySeq
    <3>2. answer' \in [text: BOOLEAN, length: BOOLEAN, cut: BOOLEAN, noted: BOOLEAN]
      BY <1>0, <2>2 DEF NoAnswer
    <3>3. steered' \in BOOLEAN
      BY <2>1 DEF LoopInv, TypeOK
    <3> QED
      BY <1>0, <2>2, <2>8, <2>9, <3>1, <3>2, <3>3 DEF LoopInv, TypeOK
  <2>an. answer'.noted = answer.noted
    BY <2>2 DEF NoAnswer
  <2>11. CountInv'
    BY <1>0, <2>2, <2>an DEF LoopInv, CountInv
  <2>12. CallInv'
    <3>1. DOMAIN calls' = {}
      <4>1. DOMAIN <<>> = {}
        OBVIOUS
      <4> QED
        BY <2>2, <4>1
    <3> QED
      BY <1>0, <2>2, <3>1 DEF CallInv, RanIsRecorded, Working
  <2>13. SentInv' /\ AnchorInv'
    BY <1>0, <2>2, <2>9 DEF LoopInv, SentInv, AnchorInv, Fresh, Late
  <2>14. LedgerInv'
    BY <2>2, <2>8 DEF LedgerInv, LedgerIsExact, Between, Working
  <2>15. NoteInv'
    <3> SUFFICES ASSUME answer.noted PROVE msgs'[Len(msgs')] = Msg("note", iter + 1, 0)
      BY <2>2, <2>an DEF NoteInv
    <3>1. notes # <<>> /\ notes[Len(notes)] = "note"
      BY <1>0 DEF LoopInv, NoteInv
    <3>2. Len(notes) \in 1..Len(notes)
      BY <1>0, <2>5, <3>1, EmptySeq
    <3>3. N[Len(notes)] = Msg("note", iter + 1, 0)
      BY <2>5, <3>1, <3>2
    <3> QED
      BY <2>5, <2>8, <3>2, <3>3
  <2> QED
    BY <2>10, <2>11, <2>12, <2>13, <2>14, <2>15 DEF LoopInv
<1> QED
  BY <1>1, <1>2

LEMMA SendRequestStep == LoopInv /\ SendRequest => LoopInv'
<1> SUFFICES ASSUME LoopInv, SendRequest PROVE LoopInv'
  OBVIOUS
<1> USE DEF Ended, counts
<1>0. pc = "request" /\ iter + 1 <= MaxIterations /\ outcome = "none"
  BY DEF SendRequest, LoopInv, CountInv
<1>p. PICK pressure \in IF request.overflow THEN {"forced"} ELSE {"none", "prune", "summary"} :
      \E c \in Compactions(pressure, ~out) :
       /\ msgs' = c.msgs /\ anchor' = c.anchor /\ index' = JournalIndex(c)
       /\ IF c.shrank THEN Recorded ELSE UNCHANGED out
       /\ \/ Ended("failed") /\ UNCHANGED <<request, sent>>
          \/ /\ request.overflow => c.shrank
             /\ out' /\ Ended("limited") /\ UNCHANGED <<request, sent>>
          \/ /\ request.overflow => c.shrank
             /\ ~out'
             /\ sent' = Sending(iter + 1, c.msgs, index')
             /\ request' = [attempts |-> 0, overflow |-> FALSE,
                            recovered |-> request.recovered \/ request.overflow]
             /\ pc' = "attempt" /\ UNCHANGED outcome
  BY DEF SendRequest
<1>c. PICK c \in Compactions(pressure, ~out) :
       /\ msgs' = c.msgs /\ anchor' = c.anchor /\ index' = JournalIndex(c)
       /\ IF c.shrank THEN Recorded ELSE UNCHANGED out
       /\ \/ Ended("failed") /\ UNCHANGED <<request, sent>>
          \/ /\ request.overflow => c.shrank
             /\ out' /\ Ended("limited") /\ UNCHANGED <<request, sent>>
          \/ /\ request.overflow => c.shrank
             /\ ~out'
             /\ sent' = Sending(iter + 1, c.msgs, index')
             /\ request' = [attempts |-> 0, overflow |-> FALSE,
                            recovered |-> request.recovered \/ request.overflow]
             /\ pc' = "attempt" /\ UNCHANGED outcome
  BY <1>p
<1>u. UNCHANGED <<notes, iter, answer, calls, denied, lengths, stops, steered>>
  BY DEF SendRequest
<1>1. /\ c.msgs \in Seq(Message) /\ Sound(c.msgs) /\ Len(c.msgs) > 0
      /\ c.anchor \in 1..Len(c.msgs) /\ c.msgs[c.anchor].kind = "request"
      /\ c.shrank \in BOOLEAN
      /\ ~c.shrank => c.anchor = anchor
      /\ msgs[Len(msgs)].kind = "note" => c.msgs[Len(c.msgs)] = msgs[Len(msgs)]
  <2>1. "request" \in Between
    BY DEF Between
  <2>2. msgs \in Seq(Message) /\ Sound(msgs) /\ anchor \in 1..Len(msgs) /\ msgs[anchor].kind = "request"
    BY <1>0, <2>1, LoopFacts
  <2> QED
    BY <2>2, CompactionKeeps
<1>2. index' = c.anchor
  BY <1>0, <1>c, <1>1, LoopFacts DEF JournalIndex
<1>3. /\ msgs' \in Seq(Message) /\ Sound(msgs') /\ anchor' \in 1..Len(msgs') /\ index' = anchor'
      /\ msgs'[anchor'].kind = "request" /\ anchor' \in Nat /\ anchor' # 0
      /\ DOMAIN msgs' = 1..Len(msgs')
  <2>1. msgs' \in Seq(Message) /\ Len(msgs') \in Nat /\ DOMAIN msgs' = 1..Len(msgs')
    BY <1>1, <1>c, LenProperties
  <2> QED
    BY <2>1, <1>1, <1>2, <1>c
<1>o. out' \in BOOLEAN
  <2>1. out \in BOOLEAN
    BY DEF LoopInv, TypeOK
  <2> QED
    BY <2>1, <1>c DEF Recorded
<1>4. \/ /\ pc' = "ended" /\ outcome' \in {"failed", "limited"} /\ UNCHANGED <<request, sent>>
      \/ /\ sent' = Sending(iter + 1, msgs', index')
         /\ request' = [attempts |-> 0, overflow |-> FALSE,
                        recovered |-> request.recovered \/ request.overflow]
         /\ pc' = "attempt" /\ UNCHANGED outcome
  BY <1>c
<1> HIDE DEF Ended
<1>5. /\ sent' \in SentStep /\ SentOk(sent') /\ sent'.step <= MaxIterations + 1
      /\ request' \in [attempts: 0..(MaxRetries + 1), overflow: BOOLEAN, recovered: BOOLEAN]
  <2>r. request \in [attempts: 0..(MaxRetries + 1), overflow: BOOLEAN, recovered: BOOLEAN]
    BY DEF LoopInv, TypeOK
  <2>1. CASE UNCHANGED <<request, sent>>
    BY <2>1, <2>r, LoopFacts
  <2>2. CASE /\ sent' = Sending(iter + 1, msgs', index')
             /\ request' = [attempts |-> 0, overflow |-> FALSE,
                            recovered |-> request.recovered \/ request.overflow]
    <3>n. PICK n \in Nat : n = iter + 1 /\ n > 0 /\ n <= MaxIterations + 1
      BY LoopFacts, ConstantsAre
    <3>1. RequestOf(Sending(n, msgs', index'), n, msgs', index')
      BY <3>n, <1>3, SendingOk
    <3>2. 0 \in 0..(MaxRetries + 1)
      BY ConstantsAre
    <3>3. request' \in [attempts: 0..(MaxRetries + 1), overflow: BOOLEAN, recovered: BOOLEAN]
      BY <2>2, <2>r, <3>2
    <3> QED
      BY <2>2, <3>n, <3>1, <3>3 DEF RequestOf
  <2> QED
    BY <1>4, <2>1, <2>2
<1>6. TypeOK'
  <2>1. pc' \in {"attempt", "ended"} /\ outcome' \in {"none", "failed", "limited"}
    BY <1>0, <1>4
  <2> QED
    BY <2>1, <1>3, <1>5, <1>o, <1>u DEF LoopInv, TypeOK
<1>7. CountInv'
  <2>1. /\ pc' = "attempt" => request'.attempts = 0 /\ outcome' = "none"
        /\ pc' # "attempt" => pc' = "ended" /\ outcome' # "none"
    BY <1>0, <1>4
  <2> QED
    BY <2>1, <1>0, <1>u, ConstantsAre DEF LoopInv, CountInv
<1>8. CallInv'
  <2>1. pc' \in {"attempt", "ended"} /\ outcome' # "done"
    BY <1>0, <1>4
  <2> QED
    BY <2>1 DEF CallInv, RanIsRecorded, Working
<1>9. SentInv' /\ AnchorInv'
  <2>1. sent' = sent \/ sent'.index # 0
    <3>1. CASE sent' = Sending(iter + 1, msgs', index')
      <4>n. PICK n \in Nat : n = iter + 1 /\ n > 0
        BY LoopFacts
      <4>1. RequestOf(Sending(n, msgs', index'), n, msgs', index')
        BY <4>n, <1>3, SendingOk
      <4> QED
        BY <3>1, <4>n, <4>1, <1>3 DEF RequestOf
    <3> QED
      BY <3>1, <1>4
  <2>2. ~Fresh' /\ Asked
    BY <1>0, <1>4 DEF Fresh, Asked
  <2> QED
    BY <1>0, <1>3, <1>5, <2>1, <2>2, PlaceStays DEF SentInv
<1>10. LedgerInv'
  BY <1>3, <1>4, <1>u DEF LedgerInv, LedgerIsExact, Between, Working
<1>11. NoteInv'
  <2> SUFFICES ASSUME pc' = "attempt", answer.noted
               PROVE  msgs'[Len(msgs')] = Msg("note", iter + 1, 0)
    BY <1>4, <1>u DEF NoteInv
  <2>1. msgs[Len(msgs)] = Msg("note", iter + 1, 0)
    BY <1>0 DEF LoopInv, NoteInv
  <2>2. msgs[Len(msgs)].kind = "note"
    BY <2>1 DEF Msg
  <2> QED
    BY <2>1, <2>2, <1>1, <1>c
<1> QED
  BY <1>6, <1>7, <1>8, <1>9, <1>10, <1>11 DEF LoopInv

LEMMA AttemptSucceedsStep == LoopInv /\ AttemptSucceeds => LoopInv'
<1> SUFFICES ASSUME LoopInv, AttemptSucceeds PROVE LoopInv'
  OBVIOUS
<1> USE DEF counts, context
<1>0. /\ pc = "attempt" /\ outcome = "none" /\ iter + 1 <= MaxIterations
      /\ sent = Sending(iter + 1, msgs, index)
  BY DEF AttemptSucceeds, LoopInv, CountInv, LedgerInv
<1>1. PICK keys \in UNION {[1..n -> Keys] : n \in 0..MaxCalls[iter + 1]},
           text \in BOOLEAN, length \in BOOLEAN, cut \in BOOLEAN :
        /\ keys # <<>> => text
        /\ answer' = [NoAnswer EXCEPT !.text = text, !.length = length, !.cut = cut]
        /\ calls' = [i \in DOMAIN keys |-> [key |-> keys[i], state |-> "approved",
                                           gives |-> "text", recorded |-> FALSE]]
        /\ sent' = [sent EXCEPT !.answered = TRUE, !.assistant = Assistants(text, Len(keys))]
  BY DEF AttemptSucceeds
<1>u. /\ iter' = iter + 1 /\ request' = NewRequest /\ Recorded /\ pc' = "reply"
      /\ UNCHANGED <<outcome, msgs, anchor, notes, denied, lengths, stops, index, steered>>
  BY DEF AttemptSucceeds
<1>k. /\ keys \in Seq(Keys) /\ Len(keys) \in Nat /\ DOMAIN keys = 1..Len(keys)
      /\ keys = <<>> <=> Len(keys) = 0
  <2>1. iter + 1 \in 1..MaxIterations
    BY <1>0, LoopFacts, ConstantsAre
  <2>2. PICK n \in 0..MaxCalls[iter + 1] : keys \in [1..n -> Keys]
    OBVIOUS
  <2>3. n \in Nat
    BY <2>1, LoopConstants
  <2>4. keys \in Seq(Keys)
    BY <2>2, <2>3, SeqDef
  <2> QED
    BY <2>4, LenProperties, EmptySeq
<1>2. /\ calls' \in Seq(Call) /\ Len(calls') = Len(keys) /\ DOMAIN calls' = 1..Len(keys)
      /\ \A i \in 1..Len(keys) : ~calls'[i].recorded
      /\ calls' # <<>> <=> Len(keys) > 0
  <2>1. \A i \in 1..Len(keys) : keys[i] \in Keys
    BY <1>k, ElementOfSeq
  <2>2. calls' \in [1..Len(keys) -> Call]
    BY <1>1, <1>k, <2>1 DEF Call
  <2>3. calls' \in Seq(Call)
    BY <1>k, <2>2, SeqDef
  <2>4. Len(calls') = Len(keys) /\ DOMAIN calls' = 1..Len(keys)
    BY <1>k, <2>2, <2>3, LenProperties
  <2>5. \A i \in 1..Len(keys) : ~calls'[i].recorded
    BY <1>1, <1>k
  <2> QED
    BY <1>k, <2>3, <2>4, <2>5, EmptySeq
<1> DEFINE n == iter + 1
           a == Assistants(text, Len(keys))
<1>n. n \in Nat /\ n > 0 /\ n <= MaxIterations /\ n <= MaxIterations + 1
  BY <1>0, LoopFacts, ConstantsAre
<1>3. /\ a \in Seq(Message)
      /\ a = IF Len(keys) > 0 THEN <<Msg("calls", n, Len(keys))>>
             ELSE IF text THEN <<Msg("text", n, 0)>> ELSE <<>>
      /\ a # <<>> => /\ Len(a) = 1 /\ a[1].kind \in {"text", "calls"} /\ a[1].step = n
  <2>0. a = IF Len(keys) > 0 THEN <<Msg("calls", n, Len(keys))>>
            ELSE IF text THEN <<Msg("text", n, 0)>> ELSE <<>>
    BY DEF Assistants
  <2>1. /\ Msg("calls", n, Len(keys)) \in Message
        /\ Msg("calls", n, Len(keys)).kind = "calls" /\ Msg("calls", n, Len(keys)).step = n
    BY <1>n, <1>k DEF Msg, Message, Kinds, Assistant
  <2>2. Msg("text", n, 0) \in Message /\ Msg("text", n, 0).kind = "text" /\ Msg("text", n, 0).step = n
    BY <1>n, AddedIs
  <2> HIDE DEF a, n
  <2>3. CASE Len(keys) > 0
    BY <2>0, <2>1, <2>3, OneIs
  <2>4. CASE ~(Len(keys) > 0) /\ text
    BY <2>0, <2>2, <2>4, OneIs
  <2>5. CASE ~(Len(keys) > 0) /\ ~text
    BY <2>0, <2>5, EmptySeq
  <2> QED
    BY <2>3, <2>4, <2>5
<1> HIDE DEF a
<1>4. RequestOf(sent, n, msgs, index)
  <2>1. msgs \in Seq(Message) /\ Sound(msgs) /\ index \in 1..Len(msgs) /\ msgs[index].kind = "request"
    BY <1>0, LoopFacts DEF Between
  <2>2. sent = Sending(n, msgs, index)
    BY <1>0
  <2> HIDE DEF n
  <2> QED
    BY <2>1, <2>2, <1>n, SendingOk
<1> HIDE DEF n
<1>5. /\ sent' \in SentStep /\ SentOk(sent') /\ sent'.step = n /\ sent'.msgs = msgs
      /\ sent'.index = index /\ sent'.answered = TRUE /\ sent'.assistant = a /\ sent'.results = <<>>
  <2>1. sent \in SentStep /\ SentOk(sent) /\ sent.step = n /\ sent.results = <<>>
        /\ sent.msgs = msgs /\ sent.index = index /\ sent.step > 0
    BY <1>4, <1>n DEF RequestOf
  <2>2. sent' = [sent EXCEPT !.answered = TRUE, !.assistant = a]
    BY <1>1 DEF a
  <2> DEFINE t == [sent EXCEPT !.answered = TRUE, !.assistant = a]
  <2>3. Reply(sent.step, a)
    BY <2>1, <1>3 DEF Reply
  <2>4. AnswerOf(t, sent, a)
    BY <2>1, <2>3, <1>3, AnsweredOk
  <2> HIDE DEF t
  <2>5. sent' = t
    BY <2>2 DEF t
  <2> QED
    BY <2>1, <2>4, <2>5 DEF AnswerOf
<1>6. answer' \in [text: BOOLEAN, length: BOOLEAN, cut: BOOLEAN, noted: BOOLEAN]
      /\ answer'.text = text /\ answer'.noted = FALSE
  BY <1>1 DEF NoAnswer
<1>i. iter' = n
  BY <1>u DEF n
<1>7. TypeOK'
  <2>1. out' \in BOOLEAN
    BY <1>u DEF LoopInv, TypeOK, Recorded
  <2>2. 0 \in 0..(MaxRetries + 1) /\ iter' \in 0..MaxIterations
    BY ConstantsAre, <1>i, <1>n
  <2>3. request' \in [attempts: 0..(MaxRetries + 1), overflow: BOOLEAN, recovered: BOOLEAN]
    BY <1>u, <2>2 DEF NewRequest
  <2> QED
    BY <1>u, <1>2, <1>5, <1>6, <1>n, <2>1, <2>2, <2>3 DEF LoopInv, TypeOK
<1>8. CountInv'
  BY <1>0, <1>u, <1>i, <1>n DEF CountInv
<1>9. CallInv'
  BY <1>0, <1>u, <1>2 DEF CallInv, RanIsRecorded, Working
<1>10. SentInv' /\ AnchorInv'
  <2>1. index' = anchor' /\ msgs'[anchor'].kind = "request" /\ anchor' # 0 /\ sent'.index # 0
    BY <1>0, <1>u, <1>5, LoopFacts
  <2>2. ~Fresh' /\ Asked
    BY <1>0, <1>u DEF Fresh, Asked
  <2> QED
    BY <1>0, <1>5, <2>1, <2>2, PlaceStays DEF SentInv
<1>11. LedgerInv'
  <2>1. Sound(msgs')
    BY <1>0, <1>u, LoopFacts DEF Between
  <2>2. sent'.assistant = IF calls' # <<>> THEN <<Msg("calls", iter', Len(calls'))>>
                          ELSE IF answer'.text THEN <<Msg("text", iter', 0)>> ELSE <<>>
    BY <1>2, <1>3, <1>5, <1>6, <1>i
  <2> QED
    BY <2>1, <2>2, <1>u, <1>5, <1>i, <1>n DEF LedgerInv, LedgerIsExact, Between, Working
<1>12. NoteInv'
  BY <1>u, <1>6 DEF NoteInv
<1> QED
  BY <1>7, <1>8, <1>9, <1>10, <1>11, <1>12 DEF LoopInv

LEMMA AppendNote ==
  ASSUME NEW s \in Seq({"note", "context"})
  PROVE  /\ Append(s, "note") \in Seq({"note", "context"})
         /\ Append(s, "note") # <<>> /\ Append(s, "note")[Len(Append(s, "note"))] = "note"
<1>1. "note" \in {"note", "context"}
  OBVIOUS
<1> DEFINE t == Append(s, "note")
<1>2. /\ t \in Seq({"note", "context"}) /\ t # <<>> /\ Len(t) = Len(s) + 1
      /\ t[Len(s) + 1] = "note"
  BY <1>1, AppendProperties
<1> HIDE DEF t
<1>3. t[Len(t)] = "note"
  BY <1>2
<1> QED
  BY <1>2, <1>3 DEF t

LEMMA ReplyTextStep == LoopInv /\ ReplyText => LoopInv'
<1> SUFFICES ASSUME LoopInv, ReplyText PROVE LoopInv'
  OBVIOUS
<1>0. /\ pc = "reply" /\ calls = <<>> /\ calls' = <<>> /\ outcome = "none"
      /\ UNCHANGED <<anchor, iter, request, out, calls, denied, index, sent, steered>>
  BY DEF ReplyText, LoopInv, CountInv, journal
<1>1. \/ Ended("limited") /\ UNCHANGED <<answer, msgs, notes, lengths, stops>>
      \/ Continue /\ iter < MaxIterations /\ lengths < MaxLength
         /\ lengths' = lengths + 1 /\ stops' = stops
      \/ Continue /\ iter < MaxIterations /\ stops < MaxStops
         /\ stops' = stops + 1 /\ lengths' = lengths
      \/ Ended("answer") /\ UNCHANGED <<answer, msgs, notes, lengths, stops>>
  BY DEF ReplyText, Recovers
<1>d. DOMAIN calls' = {}
  <2>1. DOMAIN <<>> = {}
    OBVIOUS
  <2> QED
    BY <1>0, <2>1
<1>2. ASSUME NEW o \in {"limited", "answer"}, Ended(o),
             UNCHANGED <<answer, msgs, notes, lengths, stops>>
      PROVE  LoopInv'
  <2> USE <1>2 DEF Ended
  <2>1. TypeOK'
    BY <1>0 DEF LoopInv, TypeOK
  <2>2. CountInv'
    BY <1>0 DEF LoopInv, CountInv
  <2>3. CallInv'
    BY <1>d DEF CallInv, RanIsRecorded, Working
  <2>4. SentInv' /\ AnchorInv'
    BY <1>0, MessagesStay DEF Fresh, Asked, Late
  <2>5. LedgerInv'
    BY DEF LedgerInv, LedgerIsExact, Between, Working
  <2>6. NoteInv'
    BY DEF NoteInv
  <2> QED
    BY <2>1, <2>2, <2>3, <2>4, <2>5, <2>6 DEF LoopInv
<1>3. ASSUME Continue, iter < MaxIterations,
             lengths' \in 0..MaxLength, stops' \in 0..MaxStops
      PROVE  LoopInv'
  <2>c. /\ msgs' = IF answer.text THEN Append(msgs, Msg("text", iter, 0)) ELSE msgs
        /\ notes' = Append(notes, "note")
        /\ answer' = [NoAnswer EXCEPT !.noted = TRUE]
        /\ pc' = "top" /\ outcome' = outcome
    BY <1>3 DEF Continue
  <2>f. /\ msgs \in Seq(Message) /\ Sound(msgs) /\ anchor \in 1..Len(msgs) /\ msgs[anchor].kind = "request"
        /\ iter \in Nat /\ sent \in SentStep /\ index = anchor
    BY <1>0, LoopFacts DEF Between
  <2>l. /\ msgs = sent.msgs /\ sent.results = <<>> /\ iter > 0
        /\ sent.assistant = IF answer.text THEN <<Msg("text", iter, 0)>> ELSE <<>>
    BY <1>0 DEF LoopInv, LedgerInv
  <2>t. /\ Msg("text", iter, 0) \in Message /\ Msg("text", iter, 0).kind = "text"
        /\ Msg("text", iter, 0).kind \notin Results \cup {"calls"}
    BY <2>f, AddedIs
  <2>1. /\ msgs' \in Seq(Message) /\ Sound(msgs') /\ anchor \in 1..Len(msgs')
        /\ msgs'[anchor] = msgs[anchor] /\ msgs' = msgs \o sent.assistant
    <3>1. CASE answer.text
      <4> DEFINE z == Append(msgs, Msg("text", iter, 0))
      <4>1. /\ z \in Seq(Message) /\ Sound(z) /\ Len(z) = Len(msgs) + 1
            /\ z = msgs \o <<Msg("text", iter, 0)>>
            /\ \A i \in 1..Len(msgs) : z[i] = msgs[i]
        BY <2>f, <2>t, OneAdded
      <4>2. msgs' = z
        BY <2>c, <3>1
      <4> HIDE DEF z
      <4>3. Len(msgs) \in Nat
        BY <2>f, LenProperties
      <4> QED
        BY <4>1, <4>2, <4>3, <2>f, <2>l, <3>1
    <3>2. CASE ~answer.text
      BY <3>2, <2>c, <2>f, <2>l, ConcatEmptySeq
    <3> QED
      BY <3>1, <3>2
  <2>2. DOMAIN msgs' = 1..Len(msgs')
    BY <2>1, LenProperties
  <2>3. /\ notes' \in Seq({"note", "context"}) /\ notes' # <<>> /\ notes'[Len(notes')] = "note"
    <3>1. notes \in Seq({"note", "context"})
      BY DEF LoopInv, TypeOK
    <3> QED
      BY <3>1, <2>c, AppendNote
  <2>4. TypeOK'
    <3>1. answer' \in [text: BOOLEAN, length: BOOLEAN, cut: BOOLEAN, noted: BOOLEAN]
      BY <2>c DEF NoAnswer
    <3> QED
      BY <1>0, <1>3, <2>c, <2>1, <2>2, <2>3, <3>1 DEF LoopInv, TypeOK
  <2>5. CountInv'
    <3>1. iter' + 1 <= MaxIterations /\ iter' > 0 /\ iter' \in Nat
      BY <1>0, <1>3, <2>f, <2>l, ConstantsAre
    <3> QED
      BY <1>0, <2>c, <3>1 DEF CountInv
  <2>6. CallInv'
    BY <1>d, <2>c DEF CallInv, RanIsRecorded, Working
  <2>7. SentInv' /\ AnchorInv'
    <3>1. ~Fresh' /\ anchor # 0 /\ SentInv'
      BY <1>0, <2>f, <2>l, LoopFacts DEF Fresh, LoopInv, SentInv
    <3> QED
      BY <1>0, <2>1, <2>f, <3>1, PlaceStays
  <2>8. LedgerInv'
    <3>1. Rebuilt' = msgs'
      <4>1. ~HadCalls'
        <5>1. sent.assistant # <<>> => sent.assistant[1].kind # "calls"
          BY <2>l, <2>t, OneIs
        <5> QED
          BY <1>0, <5>1 DEF HadCalls
      <4>2. Rebuilt' = sent.msgs \o sent.assistant \o sent.results \o <<>>
        BY <1>0, <4>1 DEF Rebuilt
      <4>3. sent.msgs \o sent.assistant = msgs'
        BY <2>l, <2>1
      <4>4. msgs' \o <<>> = msgs'
        BY <2>1, ConcatEmptySeq
      <4> QED
        BY <4>2, <4>3, <4>4, <2>l
    <3> QED
      BY <2>c, <2>1, <3>1 DEF LedgerInv, LedgerIsExact, Between, Working
  <2>9. NoteInv'
    BY <2>c, <2>3 DEF NoteInv
  <2> QED
    BY <2>4, <2>5, <2>6, <2>7, <2>8, <2>9 DEF LoopInv
<1>4. lengths \in 0..MaxLength /\ stops \in 0..MaxStops
  BY DEF LoopInv, TypeOK
<1>5. lengths < MaxLength => lengths + 1 \in 0..MaxLength
  BY <1>4, ConstantsAre
<1>6. stops < MaxStops => stops + 1 \in 0..MaxStops
  BY <1>4, ConstantsAre
<1> QED
  BY <1>1, <1>2, <1>3, <1>4, <1>5, <1>6

LEMMA AcceptCallsStep == LoopInv /\ AcceptCalls => LoopInv'
<1> SUFFICES ASSUME LoopInv, AcceptCalls PROVE LoopInv'
  OBVIOUS
<1>0. /\ pc = "reply" /\ calls # <<>> /\ iter < MaxIterations /\ pc' = "announce"
      /\ answer' = [NoAnswer EXCEPT !.cut = answer.cut, !.noted = answer.cut /\ lengths < MaxLength]
      /\ lengths' = IF answer'.noted THEN lengths + 1 ELSE IF answer.cut THEN lengths ELSE 0
      /\ msgs' = Append(msgs, Msg("calls", iter, Len(calls)))
      /\ UNCHANGED <<outcome, iter, request, anchor, notes, out, calls, denied, stops, index, sent, steered>>
  BY DEF AcceptCalls, journal
<1>f. /\ msgs \in Seq(Message) /\ anchor \in 1..Len(msgs) /\ msgs[anchor].kind = "request"
      /\ iter \in Nat /\ sent \in SentStep /\ index = anchor /\ Len(msgs) \in Nat
      /\ Len(calls) \in Nat /\ DOMAIN calls = 1..Len(calls)
  BY <1>0, LoopFacts
<1>a. /\ answer \in [text: BOOLEAN, length: BOOLEAN, cut: BOOLEAN, noted: BOOLEAN]
      /\ lengths \in 0..MaxLength
  BY DEF LoopInv, TypeOK
<1>1. /\ answer' \in [text: BOOLEAN, length: BOOLEAN, cut: BOOLEAN, noted: BOOLEAN]
      /\ answer'.noted => lengths < MaxLength
  <2>1. DOMAIN NoAnswer = {"text", "length", "cut", "noted"}
    BY DEF NoAnswer
  <2>2. answer'.noted <=> (answer.cut /\ lengths < MaxLength)
    BY <1>0, <2>1
  <2>3. answer' \in [text: BOOLEAN, length: BOOLEAN, cut: BOOLEAN, noted: BOOLEAN]
    BY <1>0, <1>a DEF NoAnswer
  <2> QED
    BY <2>2, <2>3
<1>2. lengths' \in 0..MaxLength
  BY <1>0, <1>1, <1>a, ConstantsAre
<1> DEFINE m == Msg("calls", iter, Len(calls))
<1>m. m \in Message
  BY <1>f DEF Msg, Message, Kinds, Assistant
<1>3. /\ msgs' \in Seq(Message) /\ msgs' = msgs \o <<m>> /\ Len(msgs') = Len(msgs) + 1
      /\ \A i \in 1..Len(msgs) : msgs'[i] = msgs[i]
      /\ DOMAIN msgs' = 1..Len(msgs')
  <2> HIDE DEF m
  <2>1. msgs' = Append(msgs, m)
    BY <1>0 DEF m
  <2> QED
    BY <2>1, <1>f, <1>m, AppendProperties, AppendIsConcat, LenProperties
<1> HIDE DEF m
<1>4. anchor \in 1..Len(msgs') /\ msgs'[anchor] = msgs[anchor]
  BY <1>3, <1>f
<1>l. /\ sent.step = iter /\ iter > 0 /\ sent.index = index /\ sent.answered
      /\ msgs = sent.msgs /\ sent.results = <<>> /\ sent.assistant = <<m>>
  BY <1>0 DEF LoopInv, LedgerInv, m
<1>c. outcome = "none" /\ \A i \in DOMAIN calls : ~calls[i].recorded
  BY <1>0 DEF LoopInv, CountInv, CallInv
<1>5. TypeOK'
  BY <1>0, <1>1, <1>2, <1>3, <1>4 DEF LoopInv, TypeOK
<1>6. CountInv'
  <2>1. iter' + 1 <= MaxIterations /\ iter' > 0 /\ iter' \in Nat
    BY <1>0, <1>f, <1>l, ConstantsAre
  <2> QED
    BY <1>0, <1>c, <2>1 DEF CountInv
<1>7. CallInv'
  BY <1>0, <1>c DEF CallInv, RanIsRecorded, Working
<1>8. SentInv' /\ AnchorInv'
  <2>1. ~Fresh' /\ anchor # 0 /\ SentInv'
    BY <1>0, LoopFacts DEF Fresh, LoopInv, SentInv
  <2> QED
    BY <1>0, <1>4, <1>f, <2>1, PlaceStays
<1>9. LedgerInv'
  <2>1. msgs' = sent'.msgs \o sent'.assistant \o sent'.results
    <3>1. msgs' \o <<>> = msgs'
      BY <1>3, ConcatEmptySeq
    <3> QED
      BY <3>1, <1>0, <1>3, <1>l
  <2>2. Open' = (Len(sent'.results) + 1)..Len(calls')
    <3>1. Open' = 1..Len(calls)
      BY <1>0, <1>c, <1>f DEF Open
    <3>2. Len(sent'.results) = 0
      BY <1>0, <1>l, EmptySeq
    <3> QED
      BY <3>1, <3>2, <1>0
  <2>3. sent'.assistant = <<Msg("calls", iter', Len(calls'))>>
    BY <1>0, <1>l DEF m
  <2> QED
    BY <2>1, <2>2, <2>3, <1>0, <1>l DEF LedgerInv, LedgerIsExact, Between, Working
<1>10. NoteInv'
  BY <1>0 DEF NoteInv
<1> QED
  BY <1>5, <1>6, <1>7, <1>8, <1>9, <1>10 DEF LoopInv

LEMMA SameCalls ==
  ASSUME NEW cs \in Seq(Call), NEW ds, ds = [i \in DOMAIN cs |-> ds[i]],
         \A i \in DOMAIN cs : ds[i] \in Call
  PROVE  ds \in Seq(Call) /\ Len(ds) = Len(cs) /\ DOMAIN ds = DOMAIN cs
<1>1. Len(cs) \in Nat /\ DOMAIN cs = 1..Len(cs)
  BY LenProperties
<1>2. ds \in [1..Len(cs) -> Call]
  BY <1>1, Zenon
<1>3. ds \in Seq(Call)
  BY <1>1, <1>2, SeqDef
<1> QED
  BY <1>1, <1>2, <1>3, LenProperties

\* A step that changes what is known of the calls, not what is recorded.
LEMMA WorkGoesOn ==
  ASSUME LoopInv, pc \in Working, pc' \in {"decide", "execute"},
         UNCHANGED <<outcome, iter, request, answer, context, out, counts, journal>>,
         calls' \in Seq(Call), Len(calls') = Len(calls), DOMAIN calls' = DOMAIN calls,
         \A i \in DOMAIN calls : calls'[i].recorded = calls[i].recorded,
         CallInv'
  PROVE  LoopInv'
<1> USE DEF context, counts, journal
<1>1. TypeOK'
  BY DEF LoopInv, TypeOK
<1>2. CountInv'
  <2>1. iter > 0 /\ iter \in Nat
    BY LoopFacts DEF LoopInv, LedgerInv
  <2>2. outcome = "none" /\ iter + 1 <= MaxIterations
    BY DEF LoopInv, CountInv, Working
  <2> QED
    BY <2>1, <2>2 DEF CountInv
<1>3. SentInv' /\ AnchorInv'
  <2>1. iter > 0 /\ iter \in Nat
    BY LoopFacts DEF LoopInv, LedgerInv
  <2> QED
    BY <2>1, MessagesStay DEF Fresh, Asked, Late
<1>4. LedgerInv'
  <2>1. Open' = Open
    BY DEF Open
  <2> QED
    BY <2>1 DEF LoopInv, LedgerInv, LedgerIsExact, Between, Working
<1>5. NoteInv'
  BY DEF NoteInv
<1> QED
  BY <1>1, <1>2, <1>3, <1>4, <1>5 DEF LoopInv

LEMMA CallIs ==
  ASSUME LoopInv, NEW i \in DOMAIN calls
  PROVE  calls[i] \in Call /\ calls[i].key \in Keys /\ calls[i].recorded \in BOOLEAN
<1>1. calls[i] \in Call
  BY LoopFacts, ElementOfSeq
<1> QED
  BY <1>1 DEF Call

LEMMA AnnounceStep == LoopInv /\ Announce => LoopInv'
<1> SUFFICES ASSUME LoopInv, Announce PROVE LoopInv'
  OBVIOUS
<1>0. /\ pc = "announce" /\ outcome = "none"
      /\ UNCHANGED <<outcome, iter, request, answer, context, out, counts, journal>>
  BY DEF Announce, LoopInv, CountInv
<1>1. PICK verdict \in [DOMAIN calls -> {"approved", "ask", "invalid", "denied"}] :
        /\ \A i \in DOMAIN calls : verdict[i] \in Verdicts(calls[i])
        /\ calls' = [i \in DOMAIN calls |-> [calls[i] EXCEPT !.state = verdict[i]]]
        /\ pc' = IF \E i \in DOMAIN calls : verdict[i] = "ask" THEN "decide" ELSE "execute"
  BY DEF Announce
<1>2. \A i \in DOMAIN calls :
        /\ calls'[i] \in Call /\ calls'[i].key = calls[i].key /\ calls'[i].gives = calls[i].gives
        /\ calls'[i].recorded = calls[i].recorded /\ calls'[i].state = verdict[i]
  <2> TAKE i \in DOMAIN calls
  <2>1. calls[i] \in Call /\ verdict[i] \in {"approved", "ask", "invalid", "denied"}
    BY CallIs
  <2>2. calls'[i] = [calls[i] EXCEPT !.state = verdict[i]]
    BY <1>1
  <2> QED
    BY <2>1, <2>2 DEF Call
<1>3. calls' = [i \in DOMAIN calls |-> calls'[i]]
  BY <1>1
<1>4. calls' \in Seq(Call) /\ Len(calls') = Len(calls) /\ DOMAIN calls' = DOMAIN calls
  BY <1>2, <1>3, LoopFacts, SameCalls
<1>5. CallInv'
  <2>1. \A i \in DOMAIN calls' : ~calls'[i].recorded
    BY <1>0, <1>2, <1>4 DEF LoopInv, CallInv
  <2>2. calls # <<>> /\ calls' # <<>>
    <3>1. calls # <<>>
      BY <1>0 DEF LoopInv, CallInv, Working
    <3>2. Len(calls) # 0
      BY <3>1, LoopFacts, EmptySeq
    <3> QED
      BY <3>1, <3>2, <1>4, EmptySeq
  <2>3. \A i \in DOMAIN calls' : calls'[i].state \in {"approved", "ask"} => calls'[i].key \notin denied
    BY <1>1, <1>2, <1>4 DEF Verdicts
  <2>4. pc' \in {"decide", "execute"} /\ (pc' = "execute" => \A i \in DOMAIN calls' : calls'[i].state # "ask")
    BY <1>1, <1>2, <1>4
  <2>5. denied' = denied /\ outcome' = "none"
    BY <1>0 DEF counts
  <2> QED
    BY <2>1, <2>2, <2>3, <2>4, <2>5 DEF CallInv, RanIsRecorded, Working, Gave
<1> QED
  BY <1>0, <1>1, <1>2, <1>4, <1>5, WorkGoesOn DEF Working

LEMMA DecideStep == LoopInv /\ Decide => LoopInv'
<1> SUFFICES ASSUME LoopInv, Decide PROVE LoopInv'
  OBVIOUS
<1>0. /\ pc = "decide" /\ pc' = "execute" /\ outcome = "none"
      /\ UNCHANGED <<outcome, iter, request, answer, context, out, counts, journal>>
  BY DEF Decide, LoopInv, CountInv
<1>1. PICK d \in [DOMAIN calls -> {"approved", "denied", "timedout"}] :
        calls' = [i \in DOMAIN calls |->
          IF calls[i].state = "ask" THEN [calls[i] EXCEPT !.state = d[i]] ELSE calls[i]]
  BY DEF Decide
<1>2. \A i \in DOMAIN calls :
        /\ calls'[i] \in Call /\ calls'[i].key = calls[i].key /\ calls'[i].gives = calls[i].gives
        /\ calls'[i].recorded = calls[i].recorded
        /\ calls'[i].state # "ask"
        /\ calls'[i].state = "approved" => calls[i].state \in {"approved", "ask"}
  <2> TAKE i \in DOMAIN calls
  <2>1. calls[i] \in Call /\ d[i] \in {"approved", "denied", "timedout"}
    BY CallIs
  <2>2. calls'[i] = IF calls[i].state = "ask" THEN [calls[i] EXCEPT !.state = d[i]] ELSE calls[i]
    BY <1>1
  <2> QED
    BY <2>1, <2>2 DEF Call
<1>3. calls' = [i \in DOMAIN calls |-> calls'[i]]
  BY <1>1
<1>4. calls' \in Seq(Call) /\ Len(calls') = Len(calls) /\ DOMAIN calls' = DOMAIN calls
  BY <1>2, <1>3, LoopFacts, SameCalls
<1>5. CallInv'
  <2>1. \A i \in DOMAIN calls' : ~calls'[i].recorded
    BY <1>0, <1>2, <1>4 DEF LoopInv, CallInv
  <2>2. calls # <<>> /\ calls' # <<>>
    <3>1. calls # <<>>
      BY <1>0 DEF LoopInv, CallInv, Working
    <3>2. Len(calls) # 0
      BY <3>1, LoopFacts, EmptySeq
    <3> QED
      BY <3>1, <3>2, <1>4, EmptySeq
  <2>3. \A i \in DOMAIN calls' : calls'[i].state \in {"approved", "ask"} => calls'[i].key \notin denied
    BY <1>0, <1>2, <1>4 DEF LoopInv, CallInv
  <2>5. denied' = denied /\ outcome' = "none"
    BY <1>0 DEF counts
  <2> QED
    BY <1>0, <1>2, <1>4, <2>1, <2>2, <2>3, <2>5 DEF CallInv, RanIsRecorded, Working, Gave
<1> QED
  BY <1>0, <1>2, <1>4, <1>5, WorkGoesOn DEF Working

LEMMA ExecuteStep == LoopInv /\ Execute => LoopInv'
<1> SUFFICES ASSUME LoopInv, Execute PROVE LoopInv'
  OBVIOUS
<1>0. /\ pc = "execute" /\ pc' = "execute" /\ outcome = "none" /\ Waiting # {}
      /\ UNCHANGED <<outcome, iter, request, answer, context, out, counts, journal>>
  BY DEF Execute, LoopInv, CountInv, control
<1>1. PICK i \in {First(Waiting, 0)}, gives \in {"text", "image", "decision", "proposal"} :
        /\ gives # "text" => calls[i].state = "approved" /\ ~out
        /\ calls' = [calls EXCEPT ![i].gives = gives,
                                  ![i].state = IF out THEN "skipped" ELSE Outcome[@]]
  BY DEF Execute
<1>2. i \in DOMAIN calls /\ calls[i].state \notin Done
  <2>1. Waiting \in SUBSET Nat
    BY LoopFacts DEF Waiting
  <2>2. i \in Waiting
    BY <1>0, <2>1, FirstIs
  <2> QED
    BY <2>2 DEF Waiting
<1>3. /\ calls'[i] \in Call /\ calls'[i].key = calls[i].key /\ calls'[i].recorded = calls[i].recorded
      /\ calls'[i].state \in Done
  <2>1. calls[i] \in Call /\ calls[i].state # "ask"
    BY <1>0, <1>2, CallIs DEF LoopInv, CallInv
  <2>2. calls[i].state \in {"approved", "invalid", "denied", "timedout"}
    BY <2>1, <1>2 DEF Call
  <2>3. Outcome[calls[i].state] \in Done
    BY <2>2 DEF Outcome, Done
  <2>s. PICK s \in Done : s = IF out THEN "skipped" ELSE Outcome[calls[i].state]
    BY <2>3 DEF Done
  <2>4. calls'[i] = [calls[i] EXCEPT !.gives = gives, !.state = s]
    BY <1>1, <1>2, <2>1, <2>s DEF Call
  <2> QED
    BY <2>1, <2>4, <2>s DEF Call
<1>4. DOMAIN calls' = DOMAIN calls /\ \A j \in DOMAIN calls : j # i => calls'[j] = calls[j]
  BY <1>1, <1>2
<1>5. \A j \in DOMAIN calls : /\ calls'[j] \in Call /\ calls'[j].key = calls[j].key
                              /\ calls'[j].recorded = calls[j].recorded
                              /\ calls'[j].state \in Done \/ calls'[j].state = calls[j].state
  BY <1>3, <1>4, CallIs
<1>6. calls' = [j \in DOMAIN calls |-> calls'[j]]
  BY <1>1, <1>4
<1>7. calls' \in Seq(Call) /\ Len(calls') = Len(calls)
  BY <1>5, <1>6, LoopFacts, SameCalls
<1>8. CallInv'
  <2>1. \A j \in DOMAIN calls' : ~calls'[j].recorded
    BY <1>0, <1>4, <1>5 DEF LoopInv, CallInv
  <2>2. calls' # <<>>
    <3>1. 1..Len(calls) # {}
      BY <1>2, LoopFacts
    <3> QED
      BY <3>1, <1>7, EmptySeq, LoopFacts
  <2>3. \A j \in DOMAIN calls' : calls'[j].state \in {"approved", "ask"} => calls'[j].key \notin denied
    BY <1>0, <1>4, <1>5 DEF LoopInv, CallInv, Done
  <2>4. \A j \in DOMAIN calls' : calls'[j].state # "ask"
    BY <1>0, <1>4, <1>5 DEF LoopInv, CallInv, Done
  <2>5. denied' = denied /\ outcome' = "none"
    BY <1>0 DEF counts
  <2> QED
    BY <1>0, <1>4, <2>1, <2>2, <2>3, <2>4, <2>5 DEF CallInv, RanIsRecorded, Working, Gave
<1> QED
  BY <1>0, <1>4, <1>5, <1>7, <1>8, WorkGoesOn DEF Working

\* The ledger of a step at work: its calls, and the results so far.
LEMMA WorkFacts ==
  ASSUME LoopInv, pc \in Working
  PROVE  /\ iter > 0 /\ sent.step = iter /\ sent.index = index /\ Called(sent) /\ sent.answered
         /\ sent.assistant = <<Msg("calls", iter, Len(calls))>>
         /\ sent.assistant[1].kind = "calls" /\ sent.assistant[1].at = Len(calls)
         /\ sent.assistant[1].step = iter
         /\ msgs = sent.msgs \o sent.assistant \o sent.results
         /\ sent.msgs \in Seq(Message) /\ sent.assistant \in Seq(Message)
         /\ sent.results \in Seq(Message) /\ Len(sent.assistant) = 1
         /\ Len(sent.results) \in Nat /\ Len(sent.results) <= Len(calls)
         /\ Sound(sent.msgs)
         /\ \A i \in 1..Len(sent.results) : sent.results[i] = Msg("tool", iter, i)
         /\ Open = (Len(sent.results) + 1)..Len(calls)
         /\ Called(sent)
<1>1. /\ iter > 0 /\ sent.step = iter /\ sent.index = index /\ sent.answered
      /\ sent.assistant = <<Msg("calls", iter, Len(calls))>>
      /\ msgs = sent.msgs \o sent.assistant \o sent.results
      /\ Open = (Len(sent.results) + 1)..Len(calls)
  BY DEF LoopInv, LedgerInv
<1>2. /\ sent.msgs \in Seq(Message) /\ sent.assistant \in Seq(Message)
      /\ sent.results \in Seq(Message)
  BY LoopFacts DEF SentStep
<1>3. /\ Msg("calls", iter, Len(calls)) \in Message
      /\ Msg("calls", iter, Len(calls)).kind = "calls"
      /\ Msg("calls", iter, Len(calls)).step = iter
      /\ Msg("calls", iter, Len(calls)).at = Len(calls)
  BY LoopFacts DEF Msg, Message, Kinds, Assistant
<1>4. Len(sent.assistant) = 1 /\ sent.assistant[1] = Msg("calls", iter, Len(calls))
  BY <1>1, <1>3, OneIs
<1>5. sent.assistant[1].kind = "calls" /\ sent.assistant[1].at = Len(calls)
      /\ sent.assistant[1].step = iter
  BY <1>3, <1>4
<1>6. Called(sent)
  BY <1>4, <1>5, EmptySeq, <1>2 DEF Called
<1>7. /\ Len(sent.results) <= Len(calls) /\ Sound(sent.msgs)
      /\ \A i \in 1..Len(sent.results) : sent.results[i] = Msg("tool", iter, i)
  <2>1. SentOk(sent)
    BY LoopFacts
  <2>2. sent.step > 0
    BY <1>1
  <2>3. Sound(sent.msgs) /\ Len(sent.results) <= sent.assistant[1].at
    BY <1>6, <2>1, <2>2 DEF SentOk
  <2>4. \A i \in 1..Len(sent.results) : sent.results[i] = Msg("tool", sent.step, i)
    BY <2>1 DEF SentOk
  <2> QED
    BY <2>3, <2>4, <1>1, <1>5
<1> QED
  BY <1>1, <1>2, <1>4, <1>5, <1>6, <1>7, LenProperties

LEMMA RecordResultStep == LoopInv /\ RecordResult => LoopInv'
<1> SUFFICES ASSUME LoopInv, RecordResult PROVE LoopInv'
  OBVIOUS
<1>0. /\ pc = "execute" /\ outcome = "none" /\ Waiting = {} /\ Open # {}
      /\ UNCHANGED <<iter, request, answer, anchor, notes, out, lengths, stops, index, steered>>
  BY DEF RecordResult, LoopInv, CountInv
<1>w. pc \in Working
  BY <1>0 DEF Working
<1>1. PICK i \in {First(Open, 0)} :
        /\ denied' = IF calls[i].state = "refused" THEN denied \cup {calls[i].key} ELSE denied
        /\ \/ Ended("failed") /\ UNCHANGED <<msgs, calls, sent>>
           \/ /\ sent' = [sent EXCEPT !.results = Append(@, Msg("tool", iter, i))]
              /\ calls' = [calls EXCEPT ![i].recorded = TRUE]
              /\ IF EndsAtOnce(i) THEN Ended("done") /\ UNCHANGED msgs
                 ELSE msgs' = Append(msgs, Msg("tool", iter, i)) /\ UNCHANGED <<pc, outcome>>
  BY DEF RecordResult
<1>n. PICK r \in Nat : r = Len(sent.results)
  BY <1>w, WorkFacts
<1>2. Open = (r + 1)..Len(calls) /\ i = r + 1 /\ i \in 1..Len(calls) /\ i \in Nat
  <2>1. Open = (r + 1)..Len(calls)
    BY <1>w, <1>n, WorkFacts
  <2>2. r + 1 <= Len(calls)
    BY <1>0, <2>1, LoopFacts
  <2>3. r + 1 \in Nat /\ Len(calls) \in Int
    BY LoopFacts
  <2>4. First((r + 1)..Len(calls), 0) = r + 1
    BY <2>2, <2>3, FirstOfInterval
  <2> QED
    BY <2>1, <2>2, <2>4, LoopFacts
<1>3. denied' \subseteq Keys
  <2>1. i \in DOMAIN calls /\ denied \subseteq Keys
    BY <1>2, LoopFacts DEF LoopInv, TypeOK
  <2> QED
    BY <2>1, <1>1, CallIs
<1>4. CASE Ended("failed") /\ UNCHANGED <<msgs, calls, sent>>
  <2> USE <1>4 DEF Ended
  <2>1. TypeOK'
    BY <1>0, <1>3 DEF LoopInv, TypeOK
  <2>2. CountInv'
    BY <1>0 DEF LoopInv, CountInv
  <2>3. CallInv'
    BY DEF CallInv, RanIsRecorded, Working
  <2>4. SentInv' /\ AnchorInv'
    BY <1>0, MessagesStay DEF Fresh, Asked, Late
  <2>5. LedgerInv'
    BY DEF LedgerInv, LedgerIsExact, Between, Working
  <2>6. NoteInv'
    BY DEF NoteInv
  <2> QED
    BY <2>1, <2>2, <2>3, <2>4, <2>5, <2>6 DEF LoopInv
<1>5. CASE /\ sent' = [sent EXCEPT !.results = Append(@, Msg("tool", iter, i))]
           /\ calls' = [calls EXCEPT ![i].recorded = TRUE]
           /\ IF EndsAtOnce(i) THEN Ended("done") /\ UNCHANGED msgs
              ELSE msgs' = Append(msgs, Msg("tool", iter, i)) /\ UNCHANGED <<pc, outcome>>
  <2> DEFINE m == Msg("tool", iter, i)
  <2>m. m \in Message
    BY <1>2, LoopFacts, ToolIs
  <2>1. /\ sent' \in SentStep /\ SentOk(sent') /\ sent'.step = iter /\ sent'.msgs = sent.msgs
        /\ sent'.index = index /\ sent'.answered = sent.answered
        /\ sent'.assistant = sent.assistant
        /\ sent'.results = Append(sent.results, m) /\ Len(sent'.results) = i
    <3>0. /\ Called(sent) /\ iter > 0 /\ sent.step = iter /\ sent.index = index
          /\ sent.assistant[1].at = Len(calls)
      BY <1>w, WorkFacts
    <3>1. sent \in SentStep /\ SentOk(sent) /\ Called(sent) /\ sent.step > 0
          /\ i = Len(sent.results) + 1 /\ i <= sent.assistant[1].at /\ sent.step = iter
          /\ sent.index = index
      <4>1. sent \in SentStep /\ SentOk(sent)
        BY LoopFacts
      <4>2. i = Len(sent.results) + 1 /\ i <= Len(calls)
        BY <1>n, <1>2
      <4> QED
        BY <3>0, <4>1, <4>2
    <3>2. sent' = [sent EXCEPT !.results = Append(@, Msg("tool", sent.step, i))]
      BY <1>5, <3>1
    <3> QED
      BY <1>2, <3>1, <3>2, ResultOk
  <2> HIDE DEF m
  <2>2. /\ \A j \in DOMAIN calls : /\ calls'[j] \in Call /\ calls'[j].key = calls[j].key
                                   /\ calls'[j].state = calls[j].state
                                   /\ calls'[j].gives = calls[j].gives
                                   /\ calls'[j].recorded <=> calls[j].recorded \/ j = i
        /\ calls' \in Seq(Call) /\ Len(calls') = Len(calls) /\ DOMAIN calls' = DOMAIN calls
    <3>0. i \in DOMAIN calls
      BY <1>2, LoopFacts
    <3>1. DOMAIN calls' = DOMAIN calls /\ \A j \in DOMAIN calls : j # i => calls'[j] = calls[j]
      BY <1>5, <3>0
    <3>2. calls'[i] = [calls[i] EXCEPT !.recorded = TRUE]
      BY <1>5, <3>0
    <3>3. /\ calls'[i] \in Call /\ calls'[i].key = calls[i].key /\ calls'[i].state = calls[i].state
          /\ calls'[i].gives = calls[i].gives /\ calls'[i].recorded
      BY <3>0, <3>2, CallIs DEF Call
    <3>4. \A j \in DOMAIN calls : /\ calls'[j] \in Call /\ calls'[j].key = calls[j].key
                                  /\ calls'[j].state = calls[j].state
                                  /\ calls'[j].gives = calls[j].gives
                                  /\ calls'[j].recorded <=> calls[j].recorded \/ j = i
      BY <3>1, <3>3, CallIs
    <3>5. calls' = [j \in DOMAIN calls |-> calls'[j]]
      BY <1>5, <3>1
    <3> QED
      BY <3>1, <3>4, <3>5, LoopFacts, SameCalls
  <2>3. \A j \in DOMAIN calls : calls[j].recorded <=> j < i
    <3>1. \A j \in 1..Len(calls) : j \in Open <=> ~(j < i)
      BY <1>2, LoopFacts
    <3> QED
      BY <3>1, LoopFacts DEF Open
  <2>4. \A j \in DOMAIN calls' : calls'[j].recorded <=> j <= i
    BY <1>2, <2>2, <2>3, LoopFacts
  <2>5. Open' = (Len(sent'.results) + 1)..Len(calls')
    <3>1. \A j : j \in Open' <=> j \in 1..Len(calls) /\ ~(j <= i)
      BY <2>2, <2>4, LoopFacts DEF Open
    <3>2. \A j : j \in 1..Len(calls) /\ ~(j <= i) <=> j \in (i + 1)..Len(calls)
      BY <1>2, LoopFacts
    <3>3. Open' = (i + 1)..Len(calls)
      BY <3>1, <3>2
    <3> QED
      BY <3>3, <2>1, <2>2
  <2>6. \A j \in DOMAIN calls' : calls'[j].state \in Done
    BY <1>0, <2>2 DEF Waiting
  <2>7. Waiting' = {}
    BY <2>6 DEF Waiting
  <2>8. calls' # <<>>
    <3>1. Len(calls) # 0
      BY <1>2
    <3> QED
      BY <3>1, <2>2, EmptySeq
  <2>9. Append(msgs, m) = sent'.msgs \o sent'.assistant \o sent'.results
    <3> DEFINE x == sent.msgs \o sent.assistant
    <3>1. x \in Seq(Message) /\ sent.results \in Seq(Message) /\ <<m>> \in Seq(Message)
      BY <1>w, <2>m, WorkFacts, JoinAt, OneIs
    <3>2. msgs = x \o sent.results
      BY <1>w, WorkFacts
    <3> HIDE DEF x
    <3>3. Append(msgs, m) = (x \o sent.results) \o <<m>>
      BY <2>m, <3>2, LoopFacts, AppendIsConcat
    <3>4. (x \o sent.results) \o <<m>> = x \o (sent.results \o <<m>>)
      <4> DEFINE b == sent.results
                 c == <<m>>
      <4>1. x \in Seq(Message) /\ b \in Seq(Message) /\ c \in Seq(Message)
        BY <3>1
      <4> HIDE DEF b, c
      <4>2. (x \o b) \o c = x \o (b \o c)
        BY <4>1, Associative
      <4> QED
        BY <4>2 DEF b, c
    <3>5. sent'.results = sent.results \o <<m>>
      BY <2>1, <2>m, <3>1, AppendIsConcat
    <3> QED
      BY <2>1, <3>3, <3>4, <3>5 DEF x
  <2>10. /\ Append(msgs, m) \in Seq(Message) /\ Len(Append(msgs, m)) = Len(msgs) + 1
         /\ \A j \in 1..Len(msgs) : Append(msgs, m)[j] = msgs[j]
    BY <2>m, LoopFacts, AppendProperties
  <2>11. msgs' \in {msgs, Append(msgs, m)}
    BY <1>5 DEF m
  <2>12. /\ msgs' \in Seq(Message) /\ anchor \in 1..Len(msgs') /\ msgs'[anchor] = msgs[anchor]
         /\ DOMAIN msgs' = 1..Len(msgs')
    <3>1. msgs' \in Seq(Message) /\ anchor \in 1..Len(msgs') /\ msgs'[anchor] = msgs[anchor]
      <4>1. msgs \in Seq(Message) /\ anchor \in 1..Len(msgs) /\ Len(msgs) \in Nat
        BY LoopFacts
      <4> HIDE DEF m
      <4> QED
        BY <2>10, <2>11, <4>1
    <3> QED
      BY <3>1, LenProperties
  <2>13. SentInv' /\ AnchorInv'
    <3>1. ~Fresh' /\ sent'.index # 0 /\ index = anchor /\ anchor # 0
      BY <1>0, <1>w, <2>1, <1>5, WorkFacts, LoopFacts DEF Fresh
    <3>2. pc # "ended" /\ msgs'[anchor'].kind = "request" /\ index' = anchor' /\ anchor' # 0
      BY <1>0, <2>12, <3>1, LoopFacts
    <3> QED
      BY <1>w, <2>1, <3>1, <3>2, PlaceStays DEF SentInv
  <2>14. NoteInv' /\ pc' \in {"execute", "ended"}
    BY <1>0, <1>5 DEF NoteInv, Ended
  <2>15. TypeOK'
    <3>1. pc' \in {"execute", "ended"} /\ outcome' \in {"none", "done"}
      BY <1>0, <1>5 DEF Ended
    <3>2. sent'.step <= MaxIterations + 1
      BY <2>1, LoopFacts, ConstantsAre
    <3> QED
      BY <1>0, <1>3, <2>1, <2>2, <2>12, <3>1, <3>2 DEF LoopInv, TypeOK
  <2>16. CountInv'
    <3>1. iter > 0 /\ iter \in Nat /\ iter + 1 <= MaxIterations
      BY <1>0, <1>w, WorkFacts, LoopFacts DEF LoopInv, CountInv
    <3>2. \/ pc' = "execute" /\ outcome' = "none"
          \/ pc' = "ended" /\ outcome' = "done"
      BY <1>0, <1>5 DEF Ended
    <3> QED
      BY <1>0, <3>1, <3>2 DEF CountInv
  <2>17. CASE EndsAtOnce(i)
    <3>1. pc' = "ended" /\ outcome' = "done"
      BY <1>5, <2>17 DEF Ended
    <3>2. CallInv'
      <4>1. i \in DOMAIN calls' /\ calls'[i].gives = "proposal"
        BY <1>2, <2>2, <2>17, LoopFacts DEF EndsAtOnce, Gave
      <4>2. \A j \in DOMAIN calls' : calls'[j].recorded \/ \E k \in DOMAIN calls' : k < j /\ calls'[k].gives = "proposal"
        <5> TAKE j \in DOMAIN calls'
        <5>1. j \in Nat
          BY <2>2, LoopFacts
        <5>2. CASE j <= i
          BY <2>4, <5>2
        <5>3. CASE ~(j <= i)
          BY <1>2, <4>1, <5>1, <5>3
        <5> QED
          BY <5>2, <5>3
      <4>3. RanIsRecorded'
        BY <4>2 DEF RanIsRecorded, Gave
      <4> QED
        BY <3>1, <4>3 DEF CallInv, Working
    <3>3. LedgerInv'
      BY <3>1 DEF LedgerInv, LedgerIsExact, Between, Working
    <3> QED
      BY <2>13, <2>14, <2>15, <2>16, <3>2, <3>3 DEF LoopInv
  <2>18. CASE ~EndsAtOnce(i)
    <3>1. pc' = "execute" /\ outcome' = "none" /\ msgs' = Append(msgs, m)
      BY <1>0, <1>5, <2>18 DEF m
    <3>2. CallInv'
      <4>1. \A j \in Gave("proposal")' : ~calls'[j].recorded
        <5> SUFFICES ASSUME NEW j \in DOMAIN calls', calls'[j].gives = "proposal"
                     PROVE  ~calls'[j].recorded
          BY DEF Gave
        <5>1. j \in Gave("proposal")
          BY <2>2 DEF Gave
        <5>2. ~calls[j].recorded
          BY <1>0, <5>1 DEF LoopInv, CallInv
        <5>3. j # i
          BY <2>18, <5>1 DEF EndsAtOnce
        <5> QED
          BY <2>2, <5>2, <5>3
      <4>2. \A j, k \in DOMAIN calls' : j < k /\ calls'[k].recorded => calls'[j].recorded
        BY <1>2, <2>2, <2>4, LoopFacts
      <4>3. \A j \in DOMAIN calls' : calls'[j].state \notin {"approved", "ask"}
        BY <2>6 DEF Done
      <4> QED
        BY <2>7, <2>8, <3>1, <4>1, <4>2, <4>3 DEF CallInv, RanIsRecorded, Working
    <3>3. LedgerInv'
      <4>1. sent'.assistant = <<Msg("calls", iter', Len(calls'))>>
        BY <1>0, <1>w, <2>1, <2>2, WorkFacts
      <4>2. sent'.answered /\ iter > 0
        BY <1>w, <2>1, WorkFacts
      <4> QED
        BY <1>0, <2>1, <2>5, <2>9, <3>1, <4>1, <4>2 DEF LedgerInv, LedgerIsExact, Between, Working
    <3> QED
      BY <2>13, <2>14, <2>15, <2>16, <3>2, <3>3 DEF LoopInv
  <2> QED
    BY <2>17, <2>18
<1> QED
  BY <1>1, <1>4, <1>5

\* The messages of a step whose results are all in: its calls, then each result.
LEMMA StepSound ==
  ASSUME LoopInv, pc \in Working, Open = {}
  PROVE  /\ Sound(msgs) /\ Len(sent.msgs) + 1 \in 1..Len(msgs)
         /\ msgs[Len(sent.msgs) + 1].kind = "calls"
         /\ \A j \in (Len(sent.msgs) + 2)..Len(msgs) : msgs[j].kind = "tool"
<1> DEFINE B == sent.assistant
           C == sent.results
           w == B \o C
           n == Len(calls)
<1>1. /\ sent.msgs \in Seq(Message) /\ B \in Seq(Message) /\ C \in Seq(Message)
      /\ msgs = (sent.msgs \o B) \o C /\ Len(B) = 1 /\ Sound(sent.msgs)
      /\ B[1].kind = "calls" /\ B[1].at = n /\ B[1].step = iter
      /\ Len(C) \in Nat /\ Len(C) <= n /\ Open = (Len(C) + 1)..n
      /\ \A i \in 1..Len(C) : C[i] = Msg("tool", iter, i)
  BY WorkFacts
<1>2. n \in Nat /\ iter \in Nat
  BY LoopFacts
<1> HIDE DEF B, C, n
<1>3. Len(C) = n
  <2>1. ~(Len(C) + 1 <= n)
    <3> SUFFICES ASSUME Len(C) + 1 <= n PROVE FALSE
      OBVIOUS
    <3>1. n \in (Len(C) + 1)..n
      BY <1>1, <1>2
    <3> QED
      BY <3>1, <1>1
  <2> QED
    BY <2>1, <1>1, <1>2
<1>4. msgs = sent.msgs \o w
  <2> DEFINE A == sent.msgs
  <2>1. A \in Seq(Message)
    BY <1>1
  <2> HIDE DEF A
  <2>0. A \in Seq(Message) /\ B \in Seq(Message) /\ C \in Seq(Message)
    BY <1>1, <2>1
  <2>2. (A \o B) \o C = A \o (B \o C)
    BY <2>0, Associative
  <2> QED
    BY <1>1, <2>2 DEF A
<1>5. /\ w \in Seq(Message) /\ Len(w) = n + 1 /\ w[1] = B[1]
      /\ \A i \in 1..n : w[1 + i] = C[i]
  <2>1. /\ w \in Seq(Message) /\ Len(w) = Len(B) + Len(C)
        /\ \A i \in 1..Len(B) : w[i] = B[i]
        /\ \A i \in 1..Len(C) : w[Len(B) + i] = C[i]
    BY <1>1, JoinAt
  <2> HIDE DEF w
  <2> QED
    BY <2>1, <1>1, <1>2, <1>3
<1> HIDE DEF w
<1>6. \A i \in 1..n : /\ w[1 + i].kind = "tool" /\ w[1 + i].kind \in Results
                      /\ w[1 + i].step = iter /\ w[1 + i].at = i
  <2> TAKE i \in 1..n
  <2>1. i \in Nat /\ w[1 + i] = Msg("tool", iter, i)
    BY <1>1, <1>2, <1>3, <1>5
  <2> QED
    BY <2>1, <1>2, ToolIs
<1>7. Sound(w)
  <2>1. w \in Seq(Message) /\ n \in Nat /\ Len(w) = n + 1
    BY <1>2, <1>5
  <2>2. w[1].kind = "calls" /\ w[1].step = iter /\ w[1].at = n
    BY <1>1, <1>5
  <2>3. \A i \in 1..n : w[1 + i].kind \in Results /\ w[1 + i].step = iter /\ w[1 + i].at = i
    BY <1>6
  <2> QED
    BY <2>1, <2>2, <2>3, TurnSound
<1>8. Sound(msgs)
  BY <1>1, <1>4, <1>5, <1>7, Join
<1>9. /\ Len(msgs) = Len(sent.msgs) + Len(w) /\ Len(sent.msgs) \in Nat
      /\ \A i \in 1..Len(w) : msgs[Len(sent.msgs) + i] = w[i]
  <2> DEFINE A == sent.msgs
  <2>1. A \in Seq(Message) /\ w \in Seq(Message) /\ msgs = A \o w
    BY <1>1, <1>4, <1>5
  <2> HIDE DEF A
  <2>2. /\ Len(A \o w) = Len(A) + Len(w) /\ Len(A) \in Nat
        /\ \A i \in 1..Len(w) : (A \o w)[Len(A) + i] = w[i]
    BY <2>1, JoinAt
  <2> QED
    BY <2>1, <2>2 DEF A
<1>l. PICK l \in Nat : l = Len(sent.msgs)
  BY <1>9
<1>10. l + 1 \in 1..Len(msgs) /\ msgs[l + 1].kind = "calls"
  <2>1. 1 \in 1..Len(w) /\ Len(msgs) = l + (n + 1)
    BY <1>2, <1>5, <1>9, <1>l
  <2>2. msgs[l + 1] = w[1]
    BY <2>1, <1>9, <1>l
  <2>3. l + 1 \in 1..Len(msgs)
    BY <2>1, <1>2
  <2> QED
    BY <2>2, <2>3, <1>1, <1>5
<1>11. ASSUME NEW j \in (l + 2)..Len(msgs) PROVE msgs[j].kind = "tool"
  <2>k. PICK k : k = j - l - 1
    OBVIOUS
  <2>1. k \in 1..n /\ 1 + k \in 1..Len(w) /\ l + (1 + k) = j
    <3>1. Len(msgs) = l + (n + 1) /\ Len(w) = n + 1
      BY <1>5, <1>9, <1>l
    <3> QED
      BY <3>1, <2>k, <1>2
  <2>2. msgs[l + (1 + k)] = w[1 + k]
    BY <2>1, <1>9, <1>l
  <2> QED
    BY <2>1, <2>2, <1>6
<1> QED
  BY <1>8, <1>10, <1>11, <1>l

LEMMA EndStepStep == LoopInv /\ EndStep => LoopInv'
<1> SUFFICES ASSUME LoopInv, EndStep PROVE LoopInv'
  OBVIOUS
<1> DEFINE T == [i \in DOMAIN calls |-> Msg("image", iter, i)]
           y == Picked(T, Gave("image"))
<1>0. /\ pc = "execute" /\ outcome = "none" /\ Waiting = {} /\ Open = {}
      /\ UNCHANGED <<iter, request, answer, anchor, out, calls, denied, lengths, stops, index, sent, steered>>
  BY DEF EndStep, LoopInv, CountInv, counts, journal
<1>1. msgs' = msgs \o y
  BY DEF EndStep
<1>2. \/ Ended("done") /\ UNCHANGED notes
      \/ /\ notes' = IF answer.noted THEN Append(notes, "note") ELSE notes
         /\ pc' = "top" /\ UNCHANGED outcome
  BY DEF EndStep
<1>w. pc \in Working
  BY <1>0 DEF Working
<1>3. y \in Seq(Message) /\ \A k \in 1..Len(y) : y[k].kind = "image"
  <2>1. Gave("image") \in SUBSET (1..Len(calls)) /\ DOMAIN calls = 1..Len(calls) /\ Len(calls) \in Nat
    BY LoopFacts DEF Gave
  <2>2. \A i \in 1..Len(calls) : T[i] \in Message /\ T[i].kind = "image"
    <3> TAKE i \in 1..Len(calls)
    <3>1. T[i] = Msg("image", iter, i) /\ i \in Nat /\ iter \in Nat
      BY <2>1, LoopFacts
    <3>2. "image" \in Kinds
      BY DEF Kinds, User
    <3>3. /\ Msg("image", iter, i) \in Message
          /\ Msg("image", iter, i).kind = "image"
      BY <3>1, <3>2 DEF Msg, Message
    <3> HIDE DEF T
    <3> QED
      BY <3>1, <3>3
  <2>3. T \in [1..Len(calls) -> Message]
    BY <2>1, <2>2
  <2> HIDE DEF T
  <2>4. T \in Seq(Message) /\ Len(T) = Len(calls)
    BY <2>1, <2>3, SeqDef, LenProperties
  <2>5. y \in Seq(Message) /\ \A k \in 1..Len(y) : \E i \in Gave("image") : y[k] = T[i]
    BY <2>1, <2>4, PickedIs
  <2> HIDE DEF y
  <2> QED
    BY <2>1, <2>2, <2>5
<1> HIDE DEF y, T
<1>4. /\ Sound(msgs) /\ Len(sent.msgs) + 1 \in 1..Len(msgs)
      /\ msgs[Len(sent.msgs) + 1].kind = "calls"
      /\ \A j \in (Len(sent.msgs) + 2)..Len(msgs) : msgs[j].kind = "tool"
  BY <1>0, <1>w, StepSound
<1>5. /\ msgs' \in Seq(Message) /\ Sound(msgs') /\ Len(msgs') = Len(msgs) + Len(y) /\ Len(y) \in Nat
      /\ \A i \in 1..Len(msgs) : msgs'[i] = msgs[i]
      /\ DOMAIN msgs' = 1..Len(msgs')
  <2>1. \A k \in 1..Len(y) : y[k].kind \notin Results \cup {"calls"}
    BY <1>3 DEF Results
  <2>2. Plain(y)
    BY <2>1 DEF Plain
  <2>3. Sound(y)
    BY <1>3, <2>2, PlainSound
  <2> QED
    BY <1>1, <1>3, <1>4, <2>3, LoopFacts, Join, JoinAt, LenProperties
<1>6. Images(msgs') = y
  <2>l. PICK l \in Nat : l = Len(sent.msgs) + 1
    BY <1>w, WorkFacts, LenProperties
  <2>1. \A j \in (l + 1)..Len(msgs) : msgs[j].kind \notin {"calls", "image"}
    <3> TAKE j \in (l + 1)..Len(msgs)
    <3>1. Len(sent.msgs) \in Nat
      BY <1>w, WorkFacts, LenProperties
    <3>2. j \in (Len(sent.msgs) + 2)..Len(msgs)
      BY <3>1, <2>l, LoopFacts
    <3> QED
      BY <3>2, <1>4
  <2>2. l \in 1..Len(msgs) /\ msgs[l].kind = "calls" /\ msgs \in Seq(Message)
    BY <1>4, <2>l, LoopFacts
  <2> QED
    BY <1>1, <1>3, <2>1, <2>2, ImagesAre
<1>7. Rebuilt' = msgs'
  <2>1. HadCalls'
    BY <1>0, <1>w, WorkFacts DEF HadCalls, Called
  <2>2. Rebuilt' = sent.msgs \o sent.assistant \o sent.results \o Images(msgs')
    BY <1>0, <2>1 DEF Rebuilt
  <2>3. msgs = sent.msgs \o sent.assistant \o sent.results
    BY <1>w, WorkFacts
  <2> QED
    BY <2>2, <2>3, <1>1, <1>6
<1>8. anchor \in 1..Len(msgs') /\ msgs'[anchor] = msgs[anchor]
  BY <1>5, LoopFacts
<1>9. notes' \in Seq({"note", "context"})
      /\ (pc' = "top" /\ answer.noted => notes' # <<>> /\ notes'[Len(notes')] = "note")
  <2>1. notes \in Seq({"note", "context"})
    BY DEF LoopInv, TypeOK
  <2> QED
    BY <2>1, <1>2, AppendNote DEF Ended
<1>10. \/ pc' = "top" /\ outcome' = "none"
       \/ pc' = "ended" /\ outcome' = "done"
  BY <1>0, <1>2 DEF Ended
<1>11. TypeOK'
  BY <1>0, <1>5, <1>8, <1>9, <1>10 DEF LoopInv, TypeOK
<1>12. CountInv'
  <2>1. iter > 0 /\ iter \in Nat /\ iter + 1 <= MaxIterations
    BY <1>0, <1>w, WorkFacts, LoopFacts DEF LoopInv, CountInv
  <2> QED
    BY <1>0, <1>10, <2>1 DEF CountInv
<1>13. CallInv'
  <2>1. \A i \in DOMAIN calls' : calls'[i].recorded
    BY <1>0 DEF Open
  <2>2. RanIsRecorded'
    BY <2>1 DEF RanIsRecorded
  <2> QED
    BY <1>10, <2>1, <2>2 DEF CallInv, Working
<1>14. SentInv' /\ AnchorInv'
  <2>1. ~Fresh' /\ index = anchor /\ anchor # 0 /\ SentInv'
    BY <1>0, <1>w, WorkFacts, LoopFacts DEF Fresh, SentInv
  <2>2. pc # "ended" /\ msgs'[anchor'].kind = "request" /\ index' = anchor' /\ anchor' # 0
    BY <1>0, <1>8, <2>1, LoopFacts
  <2> QED
    BY <1>0, <1>w, <2>1, <2>2, PlaceStays
<1>15. LedgerInv'
  BY <1>5, <1>7, <1>10 DEF LedgerInv, LedgerIsExact, Between, Working
<1>16. NoteInv'
  BY <1>0, <1>9, <1>10 DEF NoteInv
<1> QED
  BY <1>11, <1>12, <1>13, <1>14, <1>15, <1>16 DEF LoopInv

LEMMA LoopGoesOn == LoopInv /\ [Next]_vars => LoopInv'
<1> SUFFICES ASSUME LoopInv, [Next]_vars PROVE LoopInv'
  OBVIOUS
<1>1. CASE UNCHANGED vars
  <2> USE <1>1 DEF vars, control, context, counts, journal
  <2>1. TypeOK'
    BY DEF LoopInv, TypeOK
  <2>2. CountInv'
    BY DEF LoopInv, CountInv
  <2>3. CallInv'
    BY DEF LoopInv, CallInv, RanIsRecorded, Gave, Waiting
  <2>4. SentInv' /\ AnchorInv'
    BY MessagesStay DEF Fresh, Asked, Late
  <2>5. LedgerInv'
    BY DEF LoopInv, LedgerInv, LedgerIsExact, Rebuilt, Open, HadCalls
  <2>6. NoteInv'
    BY DEF LoopInv, NoteInv
  <2> QED
    BY <2>1, <2>2, <2>3, <2>4, <2>5, <2>6 DEF LoopInv
<1>2. CASE Next
  BY <1>2, TickStep, BeginStep, LimitSteps, PrepareStepStep, SendRequestStep, OverflowStep,
     AttemptFailsStep, BackoffStep, AttemptSucceedsStep, ResponseNotCommittedStep,
     ReplyTextStep, AcceptCallsStep, AnnounceStep, DecideStep, ExecuteStep,
     RecordResultStep, EndStepStep
     DEF Next, LoopStep
<1> QED
  BY <1>1, <1>2

-----------------------------------------------------------------------------
(* The theorems.                                                           *)

\* The invariant, for every bound on steps, calls, retries and what is kept.
THEOREM LoopInvariant == Spec => []LoopInv
<1> QED
  BY LoopStarts, LoopGoesOn, PTL DEF Spec

\* Every variable keeps its type: the retries, recoveries and continuations
\* stay within their limits, and what is sent is a step of the run.
THEOREM LoopTyped == Spec => []TypeOK
<1>1. LoopInv => TypeOK
  BY DEF LoopInv
<1> QED
  BY <1>1, LoopInvariant, PTL

\* No request, and nothing a later turn reads of this run, separates a call from
\* its result: elision, summaries, steers, images and the closing of open calls
\* in the journal all keep the pairs.
THEOREM RequestsAnswered == Spec => []RequestsAreAnswered
<1>1. LoopInv => RequestsAreAnswered
  <2> SUFFICES ASSUME LoopInv PROVE RequestsAreAnswered
    OBVIOUS
  <2>1. sent \in SentStep /\ SentInv
    BY LoopFacts DEF LoopInv
  <2>e. <<>> \in Seq(Message) /\ Sound(<<>>)
    <3>1. <<>> \in Seq(Message) /\ Plain(<<>>)
      BY EmptySeq DEF Plain
    <3> QED
      BY <3>1, PlainSound
  <2>2. CASE sent.index # 0
    BY <2>1, <2>2, LedgerAnswered
  <2>3. CASE sent.index = 0
    <3>1. TurnMessages = <<>>
      BY <2>3 DEF TurnMessages
    <3>2. Sound(sent.msgs)
      <4>1. CASE sent.step = 0
        BY <2>1, <2>e, <4>1 DEF SentInv, SentOk, NotSent
      <4>2. CASE sent.step # 0
        BY <2>1, <4>2 DEF SentInv, SentOk, SentStep
      <4> QED
        BY <4>1, <4>2
    <3> QED
      BY <2>e, <3>1, <3>2 DEF RequestsAreAnswered, Sound
  <2> QED
    BY <2>2, <2>3
<1> QED
  BY <1>1, LoopInvariant, PTL

\* The user's request is in every request where the journal says it is,
\* whatever compaction did before it.
THEOREM RequestKept == Spec => []RequestIsKept
<1>1. LoopInv => RequestIsKept
  <2> SUFFICES ASSUME LoopInv, sent.step > 0
               PROVE  /\ msgs[anchor].kind = "request"
                      /\ \/ sent.index \in DOMAIN sent.msgs /\ sent.msgs[sent.index].kind = "request"
                         \/ sent.index = 0 /\ iter = 0 /\ out
    BY DEF RequestIsKept
  <2>1. SentOk(sent) /\ sent.msgs \in Seq(Message) /\ msgs[anchor].kind = "request"
    BY LoopFacts DEF SentStep
  <2>2. DOMAIN sent.msgs = 1..Len(sent.msgs)
    BY <2>1, LenProperties
  <2>3. sent.index = 0 => iter = 0 /\ out
    BY DEF LoopInv, AnchorInv, Late
  <2> QED
    BY <2>1, <2>2, <2>3 DEF SentOk
<1> QED
  BY <1>1, LoopInvariant, PTL

\* The journal gives back for the next step what the loop itself holds.
THEOREM LedgerExact == Spec => []LedgerIsExact
<1>1. LoopInv => LedgerIsExact
  BY DEF LoopInv, LedgerInv
<1> QED
  BY <1>1, LoopInvariant, PTL

\* The note of a continued step is in the request of the next one.
THEOREM NotesSent == Spec => []NotesAreSent
<1>1. LoopInv => NotesAreSent
  <2> SUFFICES ASSUME LoopInv, pc = "attempt", answer.noted
               PROVE  \E i \in DOMAIN sent.msgs : sent.msgs[i] = Msg("note", iter + 1, 0)
    BY DEF NotesAreSent
  <2>1. msgs[Len(msgs)] = Msg("note", iter + 1, 0) /\ sent = Sending(iter + 1, msgs, index)
    BY DEF LoopInv, NoteInv, LedgerInv
  <2>2. Len(msgs) \in DOMAIN msgs
    BY LoopFacts
  <2>3. sent.msgs = msgs
    <3>1. DOMAIN NotSent = {"step", "msgs", "index", "answered", "assistant", "results"}
      BY DEF NotSent
    <3> QED
      BY <2>1, <3>1 DEF Sending
  <2> QED
    BY <2>1, <2>2, <2>3
<1> QED
  BY <1>1, LoopInvariant, PTL

\* When the loop goes on or asks the user, the ledger has the result of every
\* call that ran, but for those after a proposed Worker run.
THEOREM RanRecorded == Spec => []RanIsRecorded
<1>1. LoopInv => RanIsRecorded
  BY DEF LoopInv, CallInv
<1> QED
  BY <1>1, LoopInvariant, PTL
=============================================================================
