------------------------------ MODULE AgentLoop ------------------------------
(***************************************************************************)
(* The tool loop of one run and the journal that records its model steps:  *)
(* budget checks, context compaction, provider retries, cut-off answers,   *)
(* stop hooks, tool calls with denials and approvals, and the messages the *)
(* journal gives back for the next step and for later turns.               *)
(* Sources: crates/milim-agents/src/{lib (agent_loop), context, retry,     *)
(* repeats, limits, intercept}.rs and milim-server/src/control/journal.rs. *)
(*                                                                         *)
(* A message is its kind and the step and call it belongs to.  Whether the *)
(* budget is used up, how full the window is, what a provider, a hook or a *)
(* person answers are inputs.  Approvals are module Approvals; here a      *)
(* decision just arrives.                                                  *)
(***************************************************************************)
EXTENDS Naturals, Sequences, FiniteSets

CONSTANTS Keys,            \* identities of tool calls: name and arguments
          MaxCalls,        \* bound on the calls of each step
          MaxIterations,   \* max_iterations
          MaxRetries,      \* MAX_PROVIDER_RETRIES
          MaxLength,       \* MAX_LENGTH_RECOVERIES
          MaxStops,        \* MAX_STOP_CONTINUATIONS
          KeepResults,     \* RETAIN.tool_results
          KeepTurns,       \* RETAIN.turns
          KeepTurnsForced, \* RETAIN_FORCED.turns
          WrapUp           \* wrap_up_on_limit

ASSUME LoopConstants ==
  /\ {MaxIterations, KeepTurns, KeepTurnsForced} \subseteq Nat \ {0}
  /\ {MaxRetries, MaxLength, MaxStops, KeepResults} \subseteq Nat
  /\ MaxCalls \in [1..MaxIterations -> Nat]
  /\ WrapUp \in BOOLEAN

VARIABLES
  pc,        \* where the loop is
  outcome,   \* how it ended
  msgs,      \* messages
  anchor,    \* index of the user request that started the run
  notes,     \* pending_notes
  iter,      \* iteration
  out,       \* the budget gives a reason to stop
  request,   \* the inner loops: attempts, overflow, recovered_overflow
  answer,    \* the model's reply of this step
  calls,     \* its calls as they are prepared, decided, run and recorded
  denied,    \* RepeatTracker.denials
  lengths, stops,  \* length_recoveries, stop_continuations
  index,     \* the journal's request_index, 0 for None
  sent,      \* the journal's SentStep, with the request_index it was stored with
  steered    \* a steer was claimed

control == <<pc, outcome, iter, request, answer>>
context == <<msgs, anchor, notes>>
counts  == <<denied, lengths, stops>>
journal == <<index, sent, steered>>
vars    == <<control, context, out, calls, counts, journal>>

-----------------------------------------------------------------------------
Msg(kind, step, at) == [kind |-> kind, step |-> step, at |-> at]
User      == {"old user", "request", "note", "steer", "image", "wrap up"}
Assistant == {"old text", "text", "calls"}
System    == {"prompt", "context", "summary"}
Results   == {"tool", "stub"}   \* a stub is a result elided to save context
Kinds     == User \cup Assistant \cup System \cup Results
Message   == [kind: Kinds, step: Nat, at: Nat]

\* How a call is answered.
Done == {"ran", "error", "refused", "lapsed", "skipped"}
Call == [key: Keys,
         state: {"approved", "ask", "invalid", "denied", "timedout"} \cup Done,
         gives: {"text", "image", "decision", "proposal"},
         recorded: BOOLEAN]
SentStep == [step: Nat, msgs: Seq(Message), index: Nat, answered: BOOLEAN,
             assistant: Seq(Message), results: Seq(Message)]
NoAnswer == [text |-> FALSE, length |-> FALSE, cut |-> FALSE, noted |-> FALSE]
NotSent == [step |-> 0, msgs |-> <<>>, index |-> 0, answered |-> FALSE,
            assistant |-> <<>>, results |-> <<>>]
NewRequest == [attempts |-> 0, overflow |-> FALSE, recovered |-> FALSE]

TypeOK ==
  /\ pc \in {"start", "top", "request", "attempt", "backoff", "reply",
             "announce", "decide", "execute", "ended"}
  /\ outcome \in {"none", "answer", "done", "limited", "failed"}
  /\ msgs \in Seq(Message) /\ anchor \in DOMAIN msgs
  /\ notes \in Seq({"note", "context"})
  /\ iter \in 0..MaxIterations
  /\ out \in BOOLEAN /\ steered \in BOOLEAN
  /\ request \in [attempts: 0..(MaxRetries + 1), overflow: BOOLEAN, recovered: BOOLEAN]
  /\ answer \in [text: BOOLEAN, length: BOOLEAN, cut: BOOLEAN, noted: BOOLEAN]
  /\ calls \in Seq(Call)
  /\ denied \subseteq Keys
  /\ lengths \in 0..MaxLength /\ stops \in 0..MaxStops
  /\ index \in Nat /\ sent \in SentStep /\ sent.step <= MaxIterations + 1

\* A thread with an earlier turn that called a tool; the new request is last.
Init ==
  /\ pc = "start" /\ outcome = "none"
  /\ msgs = <<Msg("prompt", 0, 0), Msg("old user", 0, 0), Msg("calls", 0, 1), Msg("tool", 0, 1),
              Msg("old text", 0, 0), Msg("request", 0, 0)>>
  /\ anchor = 6
  /\ notes = <<>> /\ iter = 0 /\ out = FALSE
  /\ request = NewRequest /\ answer = NoAnswer
  /\ calls = <<>> /\ denied = {} /\ lengths = 0 /\ stops = 0
  /\ index = 0 /\ sent = NotSent /\ steered = FALSE

Ended(o) == pc' = "ended" /\ outcome' = o

\* budget.record: tokens or cost may reach their limit.
Recorded == out' \in {out, TRUE}

-----------------------------------------------------------------------------
(* context.rs.  Results are sets of one element: TLC then computes each     *)
(* intermediate value once.                                                *)

Where(ms, kinds) == {i \in DOMAIN ms : ms[i].kind \in kinds}
Last(S, d)  == IF S = {} THEN d ELSE CHOOSE i \in S : \A j \in S : j <= i
First(S, d) == IF S = {} THEN d ELSE CHOOSE i \in S : \A j \in S : i <= j

\* The messages at the positions of S, in their order.
Nth(S, n) == CHOOSE i \in S : Cardinality({j \in S : j < i}) = n - 1
Picked(ms, S) == [n \in 1..Cardinality(S) |-> ms[Nth(S, n)]]

\* elide_old_tool_results: which results become stubs.  Those of the latest
\* calls stay, and count towards the ones to keep.
Prunable(ms, keep) ==
  {i \in Where(ms, {"tool"}) :
     /\ \E j \in Where(ms, {"calls"}) : j > i
     /\ Cardinality({j \in Where(ms, Results) : j > i}) >= keep}

Elisions(ms, keep) ==
  {[i \in DOMAIN ms |-> IF i \in old THEN [ms[i] EXCEPT !.kind = "stub"] ELSE ms[i]] :
     old \in {Prunable(ms, keep)}}

\* Where the turns start, from the leading system prompt on.
Heads(ms) == {First({i \in DOMAIN ms : ms[i].kind \notin System \ {"summary"}}, Len(ms) + 1)}
Starts(ms, head) == {i \in Where(ms, User \cup Assistant) : i >= head}

\* Mutant of Recents: the part to keep is counted in messages, not in turns.
RecentsByMessage(ms, head, keep) ==
  {i \in (head + 1)..Len(ms) : i = Len(ms) + 1 - keep}

\* The first of the last keep turns, but not after the latest assistant turn.
Recents(ms, head, keep) ==
  {First({i, Last(Where(ms, Assistant), i)}, i) :
     i \in {i \in Starts(ms, head) :
              /\ Cardinality({j \in Starts(ms, head) : j > i}) = keep - 1
              /\ \E j \in Starts(ms, head) : j < i}}

\* summary_span: what to summarise before and after the run's request.
Span(ms, a, head, recent) ==
  IF a < recent THEN [before |-> head..(a - 1), after |-> (a + 1)..(recent - 1)]
  ELSE [before |-> head..(First({i \in Where(ms, User) : i >= recent}, recent) - 1),
        after |-> {}]

Anchors(ms, a, head) ==
  {IF a >= head /\ ms[a].kind \in User THEN a
   ELSE First({i \in Where(ms, User) : i >= head}, Len(ms) + 1)}

Plans(ms, a, keep) ==
  {p \in UNION {{Span(ms, at, head, recent) :
                   at \in Anchors(ms, a, head), recent \in Recents(ms, head, keep)} :
                head \in Heads(ms)} :
     \E i \in p.before \cup p.after : ms[i].kind \notin System}

Kept(ms, S) == Picked(ms, {i \in S : ms[i].kind \in System \ {"summary"}})

\* apply_summary: the summary stands where the run's older turns were, or else
\* where the older history was; the anchor shifts with what was before it.
Summarised(ms, a, p) ==
  LET summary == <<Msg("summary", 0, 0)>>
      before  == IF p.after = {} THEN summary \o Kept(ms, p.before) ELSE Kept(ms, p.before)
      after   == IF p.after = {} THEN <<>> ELSE summary \o Kept(ms, p.after)
      start   == First(p.before, a)
      end     == Last(p.before, start - 1)
      resume  == Last(p.after, end)
  IN [msgs   |-> SubSeq(ms, 1, start - 1) \o before \o SubSeq(ms, end + 1, First(p.after, end + 1) - 1)
                 \o after \o SubSeq(ms, resume + 1, Len(ms)),
      anchor |-> IF a > end THEN a + Len(before) - Cardinality(p.before) ELSE a,
      shrank |-> TRUE]

\* compact_context for a window that is under no pressure, over the pruning
\* threshold, still over the summary threshold after pruning, or was refused.
\* The summary request may fail.
Compactions(pressure, maySummarise) ==
  IF pressure = "none" THEN {[msgs |-> msgs, anchor |-> anchor, shrank |-> FALSE]}
  ELSE LET forced == pressure = "forced"
           Pruned(ms) == [msgs |-> ms, anchor |-> anchor, shrank |-> ms # msgs]
       IN UNION {UNION {IF plans = {} THEN {Pruned(ms)}
                        ELSE {Summarised(ms, anchor, p) : p \in plans}
                             \cup {Pruned(m) : m \in Elisions(ms, 0)} :
                   plans \in {IF pressure = "prune" \/ ~maySummarise THEN {}
                              ELSE Plans(ms, anchor, IF forced THEN KeepTurnsForced ELSE KeepTurns)}} :
            ms \in Elisions(msgs, IF forced THEN 0 ELSE KeepResults)}

-----------------------------------------------------------------------------
(* The journal.                                                            *)

\* image_follow_ups
Images(ms) ==
  Picked(ms, {i \in Where(ms, {"image"}) : i > Last(Where(ms, {"calls"}), Len(ms))})

HadCalls == sent.assistant # <<>> /\ sent.assistant[1].kind = "calls"

\* Mutant of Rebuilt: only what the ledger stores, without the images.
RebuiltWithoutImages == sent.msgs \o sent.assistant \o sent.results

\* rebuild_sent_messages_for_step
Rebuilt ==
  sent.msgs \o sent.assistant \o sent.results \o (IF HadCalls THEN Images(msgs) ELSE <<>>)

\* ledger_turn_messages: what later turns see of this run, every call answered;
\* nothing if its request has no position.
TurnMessages ==
  LET turn == SubSeq(sent.msgs, sent.index + 1, Len(sent.msgs)) \o sent.assistant \o sent.results
      open == IF ~sent.answered \/ ~HadCalls THEN {}
              ELSE (1..sent.assistant[1].at) \ {sent.results[i].at : i \in DOMAIN sent.results}
      n    == IF open = {} THEN 0 ELSE sent.assistant[1].at
  IN IF sent.index = 0 THEN <<>>
     ELSE turn \o Picked([i \in 1..n |-> Msg("tool", sent.step, i)], open)

\* commit_model_request
Sending(step, ms, at) == [NotSent EXCEPT !.step = step, !.msgs = ms, !.index = at]

-----------------------------------------------------------------------------
(* The loop.                                                               *)

\* commit_tool_catalog, then before_turn.
Begin ==
  /\ pc = "start"
  /\ \/ Ended("failed") /\ UNCHANGED notes
     \/ /\ pc' = "top" /\ notes' \in {<<>>, <<"context">>}
        /\ UNCHANGED outcome
  /\ UNCHANGED <<msgs, anchor, iter, request, answer, out, calls, counts, journal>>

\* The report of a run at its limit; it may come to nothing, and is given even
\* if it could not be recorded.
Report ==
  \/ /\ WrapUp
     /\ \E s \in {Sending(iter + 1, Append(msgs, Msg("wrap up", iter + 1, 0)), index)} :
          \/ /\ sent' = [s EXCEPT !.answered = TRUE, !.assistant = <<Msg("text", iter + 1, 0)>>]
             /\ Ended("answer")
          \/ sent' = s /\ (Ended("answer") \/ Ended("limited"))
  \/ Ended("limited") /\ UNCHANGED sent

StopAtLimit ==
  /\ pc = "top" /\ out
  /\ Report
  /\ UNCHANGED <<context, iter, request, answer, out, calls, counts, index, steered>>

\* Mutant of PrepareStep: the notes go in before the journal rebuilds.
PrepareStepNotesFirst ==
  /\ pc = "top" /\ ~out
  /\ msgs' = IF iter = 0 THEN msgs ELSE Rebuilt
  /\ notes' = <<>>
  /\ index' = IF iter = 0 THEN Last(Where(msgs, User), 0) ELSE index
  /\ pc' = "request"
  /\ UNCHANGED <<outcome, request, anchor, iter, answer, out, calls, counts, sent, steered>>

\* prepare_model_step: rebuild, find the run's request, claim a steer or injected
\* context; then the queued notes.
PrepareStep ==
  /\ pc = "top" /\ ~out
  /\ index' = IF iter = 0 THEN Last(Where(msgs, User), 0) ELSE index
  /\ \/ Ended("failed") /\ UNCHANGED <<msgs, notes, answer, calls, steered>>
     \/ /\ \E claimed \in {<<>>} \cup IF steered THEN {}
                          ELSE {<<Msg(k, iter + 1, 0)>> : k \in {"steer", "context"}} :
             /\ msgs' = (IF iter = 0 THEN msgs ELSE Rebuilt) \o claimed
                        \o [i \in DOMAIN notes |-> Msg(notes[i], iter + 1, 0)]
             /\ steered' = (steered \/ claimed # <<>>)
        /\ notes' = <<>>
        /\ calls' = <<>>
        /\ answer' = [NoAnswer EXCEPT !.noted = answer.noted]
        /\ pc' = "request" /\ UNCHANGED outcome
  /\ UNCHANGED <<anchor, iter, request, out, counts, sent>>

\* Mutant of JournalIndex: the journal keeps the position it saw first.
JournalIndexStale(c) == index

\* commit_context_compaction
JournalIndex(c) == IF c.shrank THEN c.anchor ELSE index

\* Compaction and its record, the budget, and the committed request.
SendRequest ==
  /\ pc = "request"
  /\ \E pressure \in IF request.overflow THEN {"forced"} ELSE {"none", "prune", "summary"} :
     \E c \in Compactions(pressure, ~out) :
       /\ msgs' = c.msgs /\ anchor' = c.anchor /\ index' = JournalIndex(c)
       /\ IF c.shrank THEN Recorded ELSE UNCHANGED out
       /\ \/ Ended("failed") /\ UNCHANGED <<request, sent>>
          \/ /\ request.overflow => c.shrank
             /\ out' /\ Ended("limited") /\ UNCHANGED <<request, sent>>
          \/ /\ request.overflow => c.shrank
             /\ ~out'
             /\ sent' = Sending(iter + 1, c.msgs, index')
             /\ request' = [attempts |-> 0, overflow |-> FALSE,
                            recovered |-> request.recovered \/ request.overflow]
             /\ pc' = "attempt" /\ UNCHANGED outcome
  /\ UNCHANGED <<notes, iter, answer, calls, counts, steered>>

\* The prompt does not fit: compacted and sent again, once per step.
Overflow ==
  /\ pc = "attempt"
  /\ \/ request.recovered /\ Ended("failed") /\ UNCHANGED <<request, out>>
     \/ /\ ~request.recovered
        /\ Recorded
        /\ request' = [request EXCEPT !.overflow = TRUE]
        /\ pc' = "request" /\ UNCHANGED outcome
  /\ UNCHANGED <<context, iter, answer, calls, counts, journal>>

\* Mutant of AttemptFails: attempts are not counted.
AttemptFailsUncounted ==
  /\ pc = "attempt"
  /\ Recorded
  /\ pc' = "backoff"
  /\ UNCHANGED <<outcome, context, iter, request, answer, calls, counts, journal>>

\* A final error, or one worth another attempt while attempts and time remain.
AttemptFails ==
  /\ pc = "attempt"
  /\ request' = [request EXCEPT !.attempts = @ + 1]
  /\ \/ Ended("failed") /\ UNCHANGED out
     \/ /\ request'.attempts <= MaxRetries
        /\ Recorded
        /\ pc' = "backoff" /\ UNCHANGED outcome
  /\ UNCHANGED <<context, iter, answer, calls, counts, journal>>

Backoff ==
  /\ pc = "backoff"
  /\ \/ out /\ Ended("limited")
     \/ ~out /\ pc' = "attempt" /\ UNCHANGED outcome
  /\ UNCHANGED <<context, iter, request, answer, out, calls, counts, journal>>

\* replayed_assistant_message
Assistants(text, n) ==
  IF n > 0 THEN <<Msg("calls", iter + 1, n)>>
  ELSE IF text THEN <<Msg("text", iter + 1, 0)>> ELSE <<>>

\* The stream completed: its response is committed with the calls it makes
\* (whether a message with calls has text as well makes no difference).  A reply
\* at the output limit may hold a call that does not parse.
AttemptSucceeds ==
  /\ pc = "attempt"
  /\ \E keys \in UNION {[1..n -> Keys] : n \in 0..MaxCalls[iter + 1]}, text, length, cut \in BOOLEAN :
       /\ keys # <<>> => text
       /\ cut => length /\ keys # <<>>
       /\ answer' = [NoAnswer EXCEPT !.text = text, !.length = length, !.cut = cut]
       /\ calls' = [i \in DOMAIN keys |-> [key |-> keys[i], state |-> "approved",
                                           gives |-> "text", recorded |-> FALSE]]
       /\ sent' = [sent EXCEPT !.answered = TRUE, !.assistant = Assistants(text, Len(keys))]
  /\ iter' = iter + 1 /\ request' = NewRequest
  /\ Recorded
  /\ pc' = "reply"
  /\ UNCHANGED <<outcome, context, counts, index, steered>>

ResponseNotCommitted ==
  /\ pc = "attempt"
  /\ Ended("failed")
  /\ iter' = iter + 1
  /\ UNCHANGED <<context, request, answer, out, calls, counts, journal>>

\* The reply goes on in another step, with a note that says why.
Continue ==
  /\ msgs' = IF answer.text THEN Append(msgs, Msg("text", iter, 0)) ELSE msgs
  /\ notes' = Append(notes, "note")
  /\ answer' = [NoAnswer EXCEPT !.noted = TRUE]
  /\ pc' = "top" /\ UNCHANGED outcome

Recovers == lengths < MaxLength /\ iter < MaxIterations

\* A reply without calls: a limit, a cut-off text, a stop hook, or the answer.
ReplyText ==
  /\ pc = "reply" /\ calls = <<>>
  /\ LET recovers == answer.length /\ Recovers
     IN \/ out /\ Ended("limited") /\ UNCHANGED <<answer, msgs, notes, lengths, stops>>
        \/ /\ ~out /\ recovers
           /\ Continue /\ lengths' = lengths + 1 /\ UNCHANGED stops
        \/ /\ ~out /\ ~recovers
           /\ stops < MaxStops /\ iter < MaxIterations
           /\ Continue /\ stops' = stops + 1 /\ UNCHANGED lengths
        \/ ~out /\ ~recovers /\ Ended("answer")
           /\ UNCHANGED <<answer, msgs, notes, lengths, stops>>
  /\ UNCHANGED <<anchor, iter, request, out, calls, denied, journal>>

\* A step whose calls never run, because of a limit.
CallsAtLimit ==
  /\ pc = "reply" /\ calls # <<>>
  /\ out \/ iter >= MaxIterations
  /\ Report
  /\ UNCHANGED <<context, iter, request, answer, out, calls, counts, index, steered>>

AcceptCalls ==
  /\ pc = "reply" /\ calls # <<>>
  /\ ~out /\ iter < MaxIterations
  /\ answer' = [NoAnswer EXCEPT !.cut = answer.cut, !.noted = answer.cut /\ lengths < MaxLength]
  /\ lengths' = IF answer'.noted THEN lengths + 1 ELSE IF answer.cut THEN lengths ELSE 0
  /\ msgs' = Append(msgs, Msg("calls", iter, Len(calls)))
  /\ pc' = "announce"
  /\ UNCHANGED <<outcome, iter, request, anchor, notes, out, calls, denied, stops, journal>>

\* One call: denied earlier, or by a hook; read-only or approved by a hook; its
\* arguments are invalid; or a person has to approve it.
Verdicts(c) ==
  IF c.key \in denied \/ out THEN {"denied"} ELSE {"approved", "ask", "invalid", "denied"}

Announce ==
  /\ pc = "announce"
  /\ \E verdict \in [DOMAIN calls -> {"approved", "ask", "invalid", "denied"}] :
       /\ \A i \in DOMAIN calls : verdict[i] \in Verdicts(calls[i])
       /\ answer.cut => \E i \in DOMAIN calls : verdict[i] \in {"invalid", "denied"}
       /\ calls' = [i \in DOMAIN calls |-> [calls[i] EXCEPT !.state = verdict[i]]]
       /\ pc' = IF \E i \in DOMAIN calls : verdict[i] = "ask" THEN "decide" ELSE "execute"
  /\ UNCHANGED <<outcome, iter, request, answer, context, out, counts, journal>>

\* The awaited decisions, or their timeout.
Decide ==
  /\ pc = "decide"
  /\ \E d \in [DOMAIN calls -> {"approved", "denied", "timedout"}] :
       calls' = [i \in DOMAIN calls |->
         IF calls[i].state = "ask" THEN [calls[i] EXCEPT !.state = d[i]] ELSE calls[i]]
  /\ pc' = "execute"
  /\ UNCHANGED <<outcome, iter, request, answer, context, out, counts, journal>>

Waiting == {i \in DOMAIN calls : calls[i].state \notin Done}
Outcome == [approved |-> "ran", invalid |-> "error", denied |-> "refused", timedout |-> "lapsed"]

\* The next call runs or is answered; none runs once the budget is used up.
Execute ==
  /\ pc = "execute" /\ Waiting # {}
  /\ \E i \in {First(Waiting, 0)}, gives \in {"text", "image", "decision", "proposal"} :
       /\ gives # "text" => calls[i].state = "approved" /\ ~out
       /\ calls' = [calls EXCEPT ![i].gives = gives,
                                 ![i].state = IF out THEN "skipped" ELSE Outcome[@]]
  /\ UNCHANGED <<control, context, out, counts, journal>>

Open == {i \in DOMAIN calls : ~calls[i].recorded}
Gave(what) == {i \in DOMAIN calls : calls[i].gives = what}

\* Mutant of EndsAtOnce: a decision for the user ends the run at once, too.
EndsAtOnceToAsk(i) == i \in Gave("proposal") \cup Gave("decision")

\* A proposed Worker run waits for its approval outside the run.
EndsAtOnce(i) == i \in Gave("proposal")

\* One result, in call order: observed, committed, pushed.
RecordResult ==
  /\ pc = "execute" /\ Waiting = {} /\ Open # {}
  /\ \E i \in {First(Open, 0)} :
       /\ denied' = IF calls[i].state = "refused" THEN denied \cup {calls[i].key} ELSE denied
       /\ \/ Ended("failed") /\ UNCHANGED <<msgs, calls, sent>>
          \/ /\ sent' = [sent EXCEPT !.results = Append(@, Msg("tool", iter, i))]
             /\ calls' = [calls EXCEPT ![i].recorded = TRUE]
             /\ IF EndsAtOnce(i) THEN Ended("done") /\ UNCHANGED msgs
                ELSE msgs' = Append(msgs, Msg("tool", iter, i)) /\ UNCHANGED <<pc, outcome>>
  /\ UNCHANGED <<iter, request, answer, anchor, notes, out, lengths, stops, index, steered>>

\* All results are in: the images follow, and the next step unless the user has
\* to decide something.
EndStep ==
  /\ pc = "execute" /\ Waiting = {} /\ Open = {}
  /\ msgs' = msgs \o Picked([i \in DOMAIN calls |-> Msg("image", iter, i)], Gave("image"))
  /\ IF Gave("decision") # {} THEN Ended("done") /\ UNCHANGED notes
     ELSE /\ notes' = IF answer.noted THEN Append(notes, "note") ELSE notes
          /\ pc' = "top" /\ UNCHANGED outcome
  /\ UNCHANGED <<iter, request, answer, anchor, out, calls, counts, journal>>

\* Time passes against the limit up to each check of the budget, but not while
\* a person decides.
Tick ==
  /\ ~out
  /\ pc \in {"top", "request", "backoff", "reply", "announce"} \/ (pc = "execute" /\ Waiting # {})
  /\ out' = TRUE
  /\ UNCHANGED <<control, context, calls, counts, journal>>

LoopStep ==
  \/ Begin \/ StopAtLimit \/ PrepareStep \/ SendRequest
  \/ Overflow \/ AttemptFails \/ Backoff \/ AttemptSucceeds \/ ResponseNotCommitted
  \/ ReplyText \/ CallsAtLimit \/ AcceptCalls
  \/ Announce \/ Execute \/ RecordResult \/ EndStep

Next == Tick \/ LoopStep \/ Decide

\* The task that drives the loop is polled to its end, and every provider call
\* and hook it awaits returns or fails.  A person need not decide.
Spec == Init /\ [][Next]_vars /\ WF_vars(LoopStep)

-----------------------------------------------------------------------------
(* Properties.                                                             *)

\* Every call message is followed by the results of its calls, in order, before
\* anything else, and no result stands elsewhere.
Answered(ms) ==
  \A i \in DOMAIN ms :
    /\ ms[i].kind = "calls" =>
         /\ i + ms[i].at <= Len(ms)
         /\ \A k \in 1..ms[i].at : ms[i + k].kind \in Results
                                   /\ ms[i + k].step = ms[i].step /\ ms[i + k].at = k
    /\ ms[i].kind \in Results =>
         /\ i > ms[i].at
         /\ ms[i - ms[i].at].kind = "calls" /\ ms[i - ms[i].at].step = ms[i].step

\* No request the loop sends separates a tool call from its result, whatever was
\* elided, summarised, steered in or followed by images; nor do the messages the
\* ledger gives to later turns, wherever the run is stopped (providers reject
\* a call without its result).
RequestsAreAnswered == Answered(sent.msgs) /\ Answered(TurnMessages)

\* The user's request is in every request, where the journal says it is:
\* compaction never summarises it, and later turns replay from the right place.
\* Only the report of a run whose limit came before its first step has no such
\* place, and later turns leave that run out.
RequestIsKept ==
  sent.step > 0 =>
    /\ msgs[anchor].kind = "request"
    /\ \/ sent.index \in DOMAIN sent.msgs /\ sent.msgs[sent.index].kind = "request"
       \/ sent.index = 0 /\ iter = 0 /\ out

\* What the journal gives back for the next step is what the loop itself holds:
\* the recorded run and the run that happens are the same.
LedgerIsExact == pc = "top" /\ iter > 0 => Rebuilt = msgs

\* A step that continues a cut-off or refused ending says so to the model: its
\* note survives the rebuild and every compaction, forced ones included.
NotesAreSent ==
  pc = "attempt" /\ answer.noted =>
    \E i \in DOMAIN sent.msgs : sent.msgs[i] = Msg("note", iter + 1, 0)

\* The calls that ran have their results in the ledger when the loop goes on or
\* asks the user, except those after a proposed Worker run in the same step.
RanIsRecorded ==
  pc = "top" \/ outcome = "done" =>
    \A i \in DOMAIN calls :
      calls[i].state = "ran" => calls[i].recorded \/ \E j \in Gave("proposal") : j < i

\* The loop ends or waits for a person, whatever the model, the provider and the
\* hooks answer: retries, recoveries and continuations are all bounded.
LoopEnds == <>[](pc \in {"decide", "ended"})
=============================================================================
