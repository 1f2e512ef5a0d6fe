--------------------------- MODULE ResponsesStream --------------------------
(***************************************************************************)
(* A streamed Responses reply: each event names its item by a place in the *)
(* output, and the last holds the whole response, which is all that is     *)
(* read to judge the turn.  How calls are taken out of the stream or       *)
(* changed, and what is then checked of it (sidecar/_openai.py), and what  *)
(* goes out before it is judged (ResponsesTurn in sidecar/_release.py).    *)
(* The provider may send some events the API doesn't have it send.         *)
(***************************************************************************)
EXTENDS Integers, FiniteSets, Sequences, SequencesExt

CONSTANTS
  Functions,  \* the function calls of a turn
  Customs,    \* its custom tool calls, whose input can't be changed
  Message,    \* its message
  Lengths,    \* the numbers of parts a call's arguments may come in
  MaxItems,   \* bound on the items of a turn
  MaxOdd      \* bound on what the provider sends, or leaves out, amiss

Calls == Functions \cup Customs
Items == Calls \cup {Message}

ResponsesStreamAssumption ==
  /\ Functions \cap Customs = {} /\ Message \notin Calls
  /\ Lengths \subseteq Nat /\ MaxItems \in Nat /\ MaxOdd \in Nat

VARIABLES
  output,   \* the items the provider writes, in order
  bare,     \* it gives each item once, when it is done
  stage,    \* how far each item is written
  stream,   \* the events that arrived
  final,    \* the output of the response that ended the stream
  odd,      \* what was amiss
  early,    \* whether the reply is released early
  removed, modified,
  phase     \* "arriving", "ended" or "judged"

vars == <<output, bare, stage, stream, final, odd, early, removed, modified, phase>>

(* The arguments of a call, in the parts they are streamed in              *)
Arguments == {[k \in 1..n |-> "x"] : n \in Lengths}
Entry(item, args) == [item |-> item, args |-> args]
Entries == [item : Calls, args : Arguments]
           \cup {Entry(Message, <<>>)}

TypeOf(item) == IF item \in Functions THEN "function"
                ELSE IF item \in Customs THEN "custom" ELSE "message"

(* An event: the item it names, and the kind of item whose events it is of *)
Event(kind, index, of, item, args) ==
  [kind |-> kind, index |-> index, of |-> of, item |-> item, args |-> args]

NoPlace == -1       \* an event for an item without its place

Events ==
  LET places == NoPlace .. MaxItems - 1
  IN  {Event(kind, i, TypeOf(e.item), e.item, e.args) :
         kind \in {"added", "done"}, i \in places,
         e \in Entries \cup [item : Calls, args : {<<>>}]}
      \cup {Event("delta", i, of, item, <<"x">>) :
              i \in places, of \in {"function", "custom", "message"}, item \in Items}
      \cup {Event("arguments", i, of, item, args) :
              i \in places, of \in {"function", "custom"}, item \in Items,
              args \in Arguments}

Outputs == {o \in UNION {[1..n -> Entries] : n \in 0..MaxItems} :
              \A i, j \in DOMAIN o : o[i].item = o[j].item => i = j}

Init ==
  /\ output \in Outputs /\ bare \in BOOLEAN
  /\ stage = [i \in DOMAIN output |-> "none"]
  /\ stream = <<>> /\ final = <<>> /\ odd = 0 /\ early = FALSE
  /\ removed = {} /\ modified = {} /\ phase = "arriving"
-----------------------------------------------------------------------------
ItemEvents == {"added", "done"}

(* The SDK's accumulator: an added item comes last, and a delta is for the *)
(* item at its place, which has to be of its kind.                         *)
Take(m, e) ==
  CASE e.kind = "added" -> [m EXCEPT !.items = Append(@, e.item)]
    [] e.kind = "delta" /\ e.of # "custom" ->
         [m EXCEPT !.ok = @ /\ e.index + 1 \in DOMAIN m.items
                            /\ TypeOf(m.items[e.index + 1]) = e.of]
    [] OTHER -> m
SDKTakes(events) == FoldLeft(Take, [items |-> <<>>, ok |-> TRUE], events).ok
-----------------------------------------------------------------------------
(* place: a message goes out as it arrives, until anything else comes.     *)
Place(p, e) ==
  LET goes == IF e.kind = "added" THEN e.of = "message" /\ e.index # NoPlace
              ELSE e.index \in p.open /\ e.of = "message"
  IN  IF p.held \/ ~goes THEN [p EXCEPT !.held = TRUE]
      ELSE [p EXCEPT !.out = Append(@, e),
                     !.open = IF e.kind = "added" THEN @ \cup {e.index} ELSE @]

Released == FoldLeft(Place, [out |-> <<>>, open |-> {}, held |-> FALSE], stream).out
SentEarly == IF early THEN Released ELSE <<>>
-----------------------------------------------------------------------------
(* The calls that item events name at a place                              *)
CallsAt(i) ==
  {e.item : e \in {f \in Range(stream) : f.kind \in ItemEvents /\ f.index = i}} \cap Calls

PlacesOf(calls) == {i \in 0 .. MaxItems - 1 : CallsAt(i) \cap calls # {}}

(* Where an item is once those taken out before it are gone                *)
Moved(i, out) == i - Cardinality({t \in out : t < i})

HasDeltas(i) ==
  \E e \in Range(stream) : e.kind = "delta" /\ e.of = "function" /\ e.index = i

IsFirstDelta(n) ==
  \A m \in 1 .. n - 1 : ~ (/\ stream[m].kind = "delta" /\ stream[m].of = "function"
                           /\ stream[m].index = stream[n].index)

(* The arguments a changed call is given                                   *)
New == <<"new">>

(* What goes out in place of an event: a changed call's arguments go out   *)
(* whole in its first delta, or with the item if it has none.              *)
Edited(n, out, changed) ==
  LET e  == stream[n]
      to == [e EXCEPT !.index = Moved(e.index, out)]
  IN  IF e.index \in out THEN <<>>
      ELSE IF e.index \notin changed THEN <<to>>
      ELSE CASE e.kind = "delta" /\ e.of = "function" ->
                  IF IsFirstDelta(n) THEN <<[to EXCEPT !.args = New]>> ELSE <<>>
             [] e.kind = "arguments" /\ e.of = "function" -> <<[to EXCEPT !.args = New]>>
             [] e.kind = "added" ->
                  <<[to EXCEPT !.args = IF HasDeltas(e.index) THEN <<>> ELSE New]>>
             [] e.kind = "done" -> <<[to EXCEPT !.args = New]>>
             [] OTHER -> <<to>>

EditedStream ==
  LET out     == PlacesOf(removed)
      changed == PlacesOf(modified)
  IN  FlattenSeq([n \in DOMAIN stream |-> Edited(n, out, changed)])

(* _edit_output                                                            *)
EditedOutput ==
  LET kept == SelectSeq(final, LAMBDA e : e.item \notin removed)
  IN  [i \in DOMAIN kept |->
         IF kept[i].item \in modified THEN Entry(kept[i].item, New) ELSE kept[i]]

(* Each event has its place, no place has two calls, and a call to change  *)
(* is a function call.                                                     *)
CanEdit ==
  /\ \A e \in Range(stream) : e.index # NoPlace
  /\ \A i \in 0 .. MaxItems - 1 : Cardinality(CallsAt(i)) <= 1
  /\ modified \subseteq Functions
  /\ \A e \in Range(stream) :
       e.kind \in ItemEvents /\ e.index \in PlacesOf(modified) => e.of = "function"

(* _check_streamed_call: every event at a call's place gives it the same   *)
(* arguments, and is of its kind.                                          *)
CallAgrees(out, at) ==
  LET added  == SelectSeq(at, LAMBDA e : e.kind = "added")
      deltas == SelectSeq(at, LAMBDA e : e.kind = "delta")
      streamed == (IF added = <<>> THEN <<>> ELSE Last(added).args)
                  \o FlattenSeq([i \in DOMAIN deltas |-> deltas[i].args])
  IN  /\ \A e \in Range(at) : e.kind \notin ItemEvents =>
                                e.item = out.item /\ e.of = TypeOf(out.item)
      /\ \A e \in Range(at) : e.kind \in {"done", "arguments"} => e.args = out.args
      /\ streamed # <<>> => streamed = out.args

(* _check_responses_stream                                                 *)
HoldsTogether(events, out) ==
  /\ SDKTakes(events)
  /\ \A e \in Range(events) : e.index # NoPlace
  /\ \A i \in {e.index : e \in Range(events)} :
       LET at == SelectSeq(events, LAMBDA e : e.index = i)
       IN  /\ i + 1 \in DOMAIN out
           /\ \A e \in Range(at) : e.kind \in ItemEvents => e.item = out[i + 1].item
           /\ out[i + 1].item \in Calls => CallAgrees(out[i + 1], at)

Edits == removed \cup modified
SentOn == IF Edits = {} THEN stream ELSE EditedStream

(* Whether a judged turn is handed on: what went out can't be taken back   *)
(* (edit_reply, _edit).                                                    *)
Passes ==
  LET edited == EditedStream IN
  /\ SDKTakes(SentEarly)
  /\ Edits # {} => CanEdit /\ HoldsTogether(edited, EditedOutput) /\ IsPrefix(SentEarly, edited)
-----------------------------------------------------------------------------
(* What the API has the provider send next of an item, and how far the item*)
(* is then                                                                 *)
Written(i) ==
  SelectSeq(stream, LAMBDA e : e.kind = "delta" /\ e.index = i - 1 /\ e.item = output[i].item)

Following(i) ==
  LET item == output[i].item
      args == output[i].args
      of   == TypeOf(item)
      Now(kind, given) == Event(kind, i - 1, of, item, given)
  IN  CASE bare -> IF stage[i] = "none" THEN {<<Now("done", args), "done">>} ELSE {}
        [] stage[i] = "none" ->
             IF i = 1 \/ stage[i - 1] # "none"
             THEN {<<Now("added", <<>>), "added">>}
                  \cup (IF of = "function" THEN {<<Now("added", args), "given">>} ELSE {})
             ELSE {}
        [] stage[i] = "added" /\ of = "message" ->
             {<<Now("delta", <<"x">>), "given">>, <<Now("done", args), "done">>}
        [] stage[i] = "added" /\ Len(Written(i)) < Len(args) ->
             {<<Now("delta", <<"x">>), "added">>}
        [] stage[i] = "added" -> {<<Now("arguments", args), "given">>}
        [] stage[i] = "given" -> {<<Now("done", args), "done">>}
        [] stage[i] = "done" -> {}

Arrives(e) == stream' = Append(stream, e)

Writes == \E i \in DOMAIN output : \E next \in Following(i) :
  /\ phase = "arriving"
  /\ stage' = [stage EXCEPT ![i] = next[2]]
  /\ Arrives(next[1])
  /\ UNCHANGED <<output, bare, final, odd, early, removed, modified, phase>>

(* What is due is left out, or anything else is sent.                      *)
LeavesOut == \E i \in DOMAIN output : \E next \in Following(i) :
  /\ phase = "arriving" /\ odd < MaxOdd
  /\ stage' = [stage EXCEPT ![i] = next[2]] /\ odd' = odd + 1
  /\ UNCHANGED <<output, bare, stream, final, early, removed, modified, phase>>

WritesAmiss == \E e \in Events :
  /\ phase = "arriving" /\ odd < MaxOdd
  /\ odd' = odd + 1 /\ Arrives(e)
  /\ UNCHANGED <<output, bare, stage, final, early, removed, modified, phase>>

(* The response that ends the stream; the turn is judged as it is.         *)
Completes ==
  /\ phase = "arriving" /\ \A i \in DOMAIN stage : stage[i] = "done"
  /\ \/ final' = output /\ UNCHANGED odd
     \/ odd < MaxOdd /\ odd' = odd + 1 /\ final' \in Outputs \ {output}
  /\ phase' = "ended"
  /\ UNCHANGED <<output, bare, stage, stream, early, removed, modified>>

Judge ==
  /\ phase = "ended"
  /\ early' \in {FALSE, Released # <<>>}
  /\ removed' \in SUBSET ({final[i].item : i \in DOMAIN final} \cap Calls)
  /\ modified' \in SUBSET (({final[i].item : i \in DOMAIN final} \cap Calls) \ removed')
  /\ phase' = "judged"
  /\ UNCHANGED <<output, bare, stage, stream, final, odd>>

Next == Writes \/ LeavesOut \/ WritesAmiss \/ Completes \/ Judge

Spec == Init /\ [][Next]_vars
-----------------------------------------------------------------------------
(* A turn that was written as the API has it can be edited however its     *)
(* items come, unless a custom call is to be changed, and an edit of it    *)
(* never takes back what went out.                                         *)
EditsAsAsked ==
  phase = "judged" /\ odd = 0 /\ modified \subseteq Functions => Passes

(* A turn passed on unedited is judged by its last response, and the events*)
(* before it are not checked against that: "reading the reply looks only   *)
(* at the response the stream ends with, while a client may act on the     *)
(* events before it" (design/sidecar.md:250).  So of its events something  *)
(* holds only if they are as the API has them.                             *)
EventsAreChecked == Edits # {} \/ odd = 0

(* What a client is given whole of a call, when its arguments or its item  *)
(* are done or from its deltas, is what was judged, with the edits made,   *)
(* and every item is at the place it has in the output, so that no call is *)
(* taken for another: of an edited turn whatever its events are, and of an *)
(* unedited one written as the API has it.                                 *)
ClientRunsWhatWasJudged ==
  phase = "judged" /\ Passes /\ EventsAreChecked =>
    LET sent == SentOn
        out  == EditedOutput
    IN  /\ \A e \in Range(sent) : LET i == e.index + 1 IN
             /\ e.kind \in ItemEvents => i \in DOMAIN out /\ out[i].item = e.item
             /\ e.kind = "done" => out[i].args = e.args
             /\ e.kind = "arguments" /\ out[i].item \in Calls => out[i].args = e.args
        /\ \A i \in DOMAIN out : out[i].item \in Calls =>
             LET deltas == SelectSeq(sent, LAMBDA e : e.kind = "delta" /\ e.index = i - 1)
                 said == FlattenSeq([n \in DOMAIN deltas |-> deltas[n].args])
             IN  said # <<>> => said = out[i].args

(* No part of a call goes out before the turn is judged.                   *)
NoCallGoesEarly == \A e \in Range(Released) : e.of = "message"
=============================================================================
