----------------------------- MODULE Positions -----------------------------
(***************************************************************************)
(* What a step read from an eval's log cites (scout/_positions.py, and     *)
(* Citations in scout/_results.py for a step replayed): the generate or    *)
(* tool call it was judged at, found by where the sentinel's span lies     *)
(* among the events of its conversation, though agents run at once, a      *)
(* generate is tried again and a provider uses an id of a call again.      *)
(***************************************************************************)
EXTENDS Naturals, FiniteSets, Sequences, SequencesExt, FiniteSetsExt

CONSTANTS
  Generates,    \* the generates of the agents
  Uses,         \* the tool calls of the agents
  Spans,        \* the spans agents run in
  ConvOf,       \* the conversation of each span (see Conversing)
  Inputs,       \* what a generate may be given
  CallIds,      \* the ids a provider gives calls
  MaxAttempts,  \* bound on the attempts of a generate
  MaxInOne,     \* bound on the generates of a conversation
  Keyed         \* the ways steps may be named: by their generate, or as older logs

PositionsAssumption ==
  /\ MaxAttempts \in Nat \ {0} /\ MaxInOne \in Nat /\ Keyed \subseteq {"generate", "message"} /\ Keyed # {}
  /\ DOMAIN ConvOf = Spans

VARIABLES
  log,    \* the events, in order
  keyed,  \* how the log names its steps
  of,     \* where each generate and call was begun, with what it was given
  closed  \* the generates and calls that are over

vars == <<log, keyed, of, closed>>

(* The events of a generate: its model_input step's span begins and ends,  *)
(* then its attempts, placed as each starts.  Of a call: its tool_call     *)
(* step's span, its tool event, its tool_result step's span.               *)
Begun(g) == [kind |-> "begin", who |-> g, n |-> 0, error |-> FALSE]
Ended(g) == [Begun(g) EXCEPT !.kind = "end"]
Attempt(g, n, error) == [Begun(g) EXCEPT !.kind = "model", !.n = n, !.error = error]
CallSpan(u) == [Begun(u) EXCEPT !.kind = "tool_call"]
Tool(u) == [Begun(u) EXCEPT !.kind = "tool"]
ResultSpan(u) == [Begun(u) EXCEPT !.kind = "tool_result"]

Conv(x) == ConvOf[of[x].span]

First(is) == IF is = {} THEN 0 ELSE Min(is)
Last0(is) == IF is = {} THEN 0 ELSE Max(is)
Place(kind, x) == First({i \in DOMAIN log : log[i].kind = kind /\ log[i].who = x})
-----------------------------------------------------------------------------
Init == log = <<>> /\ of = [x \in {} |-> 0] /\ closed = {} /\ keyed \in Keyed

Running == DOMAIN of \ closed
With(x, given) == [y \in DOMAIN of \cup {x} |-> IF y = x THEN given ELSE of[y]]

(* A generate of a span runs at once with others, but not with one given   *)
(* the same input there: such attempts can't be told apart, as design/     *)
(* sentinel-development.md:182 says.                                       *)
Begins(g) == \E span \in Spans, input \in Inputs :
  /\ g \notin DOMAIN of
  /\ Cardinality({h \in DOMAIN of \cap Generates : Conv(h) = ConvOf[span]}) < MaxInOne
  /\ \A h \in Running \cap Generates : of[h] # [span |-> span, given |-> input]
  /\ of' = With(g, [span |-> span, given |-> input])
  /\ log' = Append(log, Begun(g))
  /\ UNCHANGED <<keyed, closed>>

Judged(g) ==
  /\ g \in Running \cap Generates /\ Place("end", g) = 0
  /\ log' = Append(log, Ended(g))
  /\ UNCHANGED <<keyed, of, closed>>

Tries(g) == Cardinality({i \in DOMAIN log : log[i].kind = "model" /\ log[i].who = g})

(* The model is asked, again if it failed.  A generate its step ends asks  *)
(* nothing.                                                                *)
Asks(g) == \E error \in BOOLEAN :
  /\ g \in Running \cap Generates /\ Place("end", g) # 0 /\ Tries(g) < MaxAttempts
  /\ log' = Append(log, Attempt(g, Tries(g) + 1, error))
  /\ closed' = IF error THEN closed ELSE closed \cup {g}
  /\ UNCHANGED <<keyed, of>>

GivesUp(g) ==
  /\ g \in Running \cap Generates /\ Place("end", g) # 0
  /\ closed' = closed \cup {g}
  /\ UNCHANGED <<log, keyed, of>>

(* A call is judged, runs, and its result is judged.  Agents run calls     *)
(* under one id at once, one agent only one after the other.               *)
Called(u) == \E span \in Spans, id \in CallIds :
  /\ u \notin DOMAIN of
  /\ \A v \in Running \cap Uses : ConvOf[of[v].span] = ConvOf[span] => of[v].given # id
  /\ of' = With(u, [span |-> span, given |-> id])
  /\ log' = Append(log, CallSpan(u))
  /\ UNCHANGED <<keyed, closed>>

Runs(u) ==
  /\ u \in Running \cap Uses /\ Place("tool", u) = 0
  /\ log' = Append(log, Tool(u))
  /\ \E over \in BOOLEAN : closed' = IF over THEN closed \cup {u} ELSE closed
  /\ UNCHANGED <<keyed, of>>

Returns(u) ==
  /\ u \in Running \cap Uses /\ Place("tool", u) # 0
  /\ log' = Append(log, ResultSpan(u))
  /\ closed' = closed \cup {u}
  /\ UNCHANGED <<keyed, of>>

Next ==
  \/ \E g \in Generates : Begins(g) \/ Judged(g) \/ Asks(g) \/ GivesUp(g)
  \/ \E u \in Uses : Called(u) \/ Runs(u) \/ Returns(u)

Spec == Init /\ [][Next]_vars
-----------------------------------------------------------------------------
(* What a step cites: an event, as the one it is of and its attempt, or    *)
(* nothing.                                                                *)
Nothing == [who |-> {}, n |-> 0]
Cited(i) == IF i = 0 THEN Nothing ELSE [who |-> {log[i].who}, n |-> log[i].n]

(* A generate's attempts: errored ones followed by one given the same      *)
(* input in the same span.  The fold keeps, by span, the attempt that may  *)
(* be tried again with the first of its generate, and each first's last.   *)
Attempts ==
  FoldLeft(LAMBDA f, i :
             IF log[i].kind # "model" THEN f
             ELSE LET span == of[log[i].who].span
                      was == f.retrying[span]
                      same == was # 0 /\ of[log[was].who].given = of[log[i].who].given
                      first == IF same THEN f.first[was] ELSE i
                  IN  [retrying |-> [f.retrying EXCEPT ![span] = IF log[i].error THEN i ELSE 0],
                       first |-> [f.first EXCEPT ![i] = first],
                       final |-> [f.final EXCEPT ![first] = i]],
           [retrying |-> [s \in Spans |-> 0], first |-> [i \in DOMAIN log |-> 0],
            final |-> [i \in DOMAIN log |-> 0]],
           [i \in DOMAIN log |-> i])

(* The conversation's next model event after a step's span                 *)
NextModel(g) ==
  LET end == IF Place("end", g) # 0 THEN Place("end", g) ELSE Place("begin", g)
  IN  First({i \in end + 1..Len(log) : log[i].kind = "model" /\ Conv(log[i].who) = Conv(g)})

Until(g) == IF NextModel(g) = 0 THEN Len(log) + 1 ELSE NextModel(g)

(* As if only a step begun within another's window overlapped it           *)
OverlapsLater(g, h) ==
  /\ h # g /\ Conv(h) = Conv(g)
  /\ Place("begin", g) < Place("begin", h) /\ Place("begin", h) <= Until(g)

(* Whether another step of the conversation was begun between a step's     *)
(* beginning and its model event, or has its own after it began            *)
Overlaps(g, h) ==
  /\ h # g /\ Conv(h) = Conv(g)
  /\ \/ Place("begin", h) < Place("begin", g) /\ Until(h) >= Place("begin", g)
     \/ Place("begin", g) < Place("begin", h) /\ Place("begin", h) <= Until(g)

(* _preceded                                                               *)
Preceded(g) == IF \E h \in DOMAIN of \cap Generates : Overlaps(g, h) THEN 0 ELSE NextModel(g)

FirstAttempt(g) == First({i \in DOMAIN log : log[i].kind = "model" /\ log[i].who = g})

(* A generate's steps: the one judged before it, by its id or by position, *)
(* and the one after, whose output is its last attempt's.                  *)
CitesInput(g) ==
  Cited(IF keyed = "generate" THEN FirstAttempt(g) ELSE Preceded(g))

CitesOutput(g) ==
  LET final == Attempts.final[FirstAttempt(g)]
  IN  Cited(IF final = 0 THEN FirstAttempt(g) ELSE final)

(* The generates whose last attempt gave an output, which is judged        *)
Replied == {g \in DOMAIN of \cap Generates :
              \E i \in DOMAIN log : log[i].kind = "model" /\ log[i].who = g /\ ~log[i].error}

(* The tool events of a call's conversation under its id                   *)
ToolOf(u, i) ==
  log[i].kind = "tool" /\ of[log[i].who].given = of[u].given /\ Conv(log[i].who) = Conv(u)

CitesCall(u) ==
  Cited(First({i \in Place("tool_call", u) + 1..Len(log) : ToolOf(u, i)}))

CitesResult(u) ==
  Cited(Last0({i \in 1..Place("tool_result", u) : ToolOf(u, i)}))

(* A step replayed cites its call only if no other has its id there.       *)
ReplayCites(u) ==
  LET tools == {i \in DOMAIN log : ToolOf(u, i)}
  IN  Cited(IF Cardinality(tools) = 1 THEN Max(tools) ELSE 0)
-----------------------------------------------------------------------------
Own(cited, x) == cited.who \subseteq {x}

(* A step judged before a generate cites that generate or nothing, though  *)
(* another of its conversation overlaps it, or it never asked its model    *)
(* (cite, _preceded).  Except in an older log, where the next model event  *)
(* may be another generate's asked again: its window ended with its first  *)
(* attempt, so it is not one that overlaps, as _positions.py:78 has it.    *)
RetryFollows(g) == \E h \in DOMAIN of \cap Generates :
  /\ h # g /\ Conv(h) = Conv(g)
  /\ FirstAttempt(h) # 0 /\ FirstAttempt(h) < Place("begin", g)
  /\ NextModel(g) # 0 /\ log[NextModel(g)].who = h /\ log[NextModel(g)].n > 1

InputCitesItsOwn ==
  \A g \in DOMAIN of \cap Generates : Place("end", g) # 0 =>
    Own(CitesInput(g), g) \/ (keyed = "message" /\ RetryFollows(g))

(* Where a log names steps by their generate, the step judged after it     *)
(* cites the attempt its output came from, or another of its own, however  *)
(* attempts of others come between (_attempt).                             *)
OutputCitesItsOwn ==
  \A g \in Replied : Own(CitesOutput(g), g)

(* A call's steps cite the call itself, whatever agents ran calls under    *)
(* its id at once and whenever its own agent used the id again (_tool).    *)
CallCitesItsOwn ==
  \A u \in DOMAIN of \cap Uses :
    /\ Own(CitesCall(u), u)
    /\ Place("tool_result", u) # 0 => CitesResult(u) = Cited(Place("tool", u))
    /\ Place("tool", u) # 0 => CitesCall(u) = Cited(Place("tool", u))

(* A call replayed cites what the call read from the log does, or nothing, *)
(* so the rows of the two modes agree (as_reader, Citations._call).        *)
ModesAgree ==
  \A u \in DOMAIN of \cap Uses :
    Place("tool", u) # 0 => ReplayCites(u) \in {Nothing, CitesCall(u)}

(* A step judged before a generate that nothing overlapped cites its first *)
(* attempt, in either kind of log.                                         *)
AloneIsCited ==
  LET generates == DOMAIN of \cap Generates
      before(h, g) == h \in closed /\ \A i \in DOMAIN log : log[i].who = h => i < Place("begin", g)
      after(h, g) == Place("begin", h) > FirstAttempt(g)
      alone(g) == \A h \in generates : h # g /\ Conv(h) = Conv(g) =>
                    after(h, g) \/ (before(h, g) /\ FirstAttempt(h) # 0)
  IN  \A g \in generates :
        FirstAttempt(g) # 0 /\ alone(g) => CitesInput(g) = Cited(FirstAttempt(g))
=============================================================================
