--------------------------- MODULE AnthropicStream --------------------------
(***************************************************************************)
(* A streamed Anthropic reply: which of its events go out before it is     *)
(* judged (AnthropicTurn in sidecar/_release.py), how it is read, and how  *)
(* calls are taken out of it or changed (sidecar/_anthropic.py).  The      *)
(* client's SDK builds each block from the events and gives it to the      *)
(* client when it stops, which may then run it.                            *)
(***************************************************************************)
EXTENDS Naturals, FiniteSets, Sequences, SequencesExt

CONSTANTS
  Calls,      \* the ids of tool calls
  Kinds,      \* the kinds of block besides a call
  MaxIndex,   \* the largest index an event may name
  MaxEvents   \* bound on the events of the stream

AnthropicStreamAssumption ==
  Calls \cap Kinds = {} /\ MaxIndex \in Nat /\ MaxEvents \in Nat

VARIABLES
  stream,   \* the events that arrived
  ended,    \* the message stopped
  removed,  \* the calls to take out
  modified, \* the calls whose input is changed
  judged    \* the turn was judged

vars == <<stream, ended, removed, modified, judged>>

(* The blocks that go out as they arrive, and the deltas each is written in *)
Released == [text |-> {"text_delta"}, thinking |-> {"thinking_delta"}, redacted |-> {}]

Deltas == {"text_delta", "thinking_delta", "input_json_delta"}

(* The delta an SDK adds to a block; one of another kind changes nothing.  *)
(* "new" is the input a changed call is given.                             *)
Writes(block, delta) ==
  IF block \in Calls THEN delta \in {"input_json_delta", "new"}
  ELSE block \in DOMAIN Released /\ delta \in Released[block]

Start(i, block) == [kind |-> "start", index |-> i, says |-> block]
Delta(i, delta) == [kind |-> "delta", index |-> i, says |-> delta]
Stop(i)         == [kind |-> "stop", index |-> i, says |-> "stop"]

Event == [kind : {"start"}, index : 0..MaxIndex, says : Calls \cup Kinds]
         \cup [kind : {"delta"}, index : 0..MaxIndex, says : Deltas]
         \cup [kind : {"stop"}, index : 0..MaxIndex, says : {"stop"}]

Init ==
  /\ stream = <<>> /\ ended = FALSE
  /\ removed = {} /\ modified = {} /\ judged = FALSE
-----------------------------------------------------------------------------
(* What a message has been built to: its blocks, those that stopped, each  *)
(* as it was given to the client, and whether it can be read.              *)
Nothing == [blocks |-> <<>>, done |-> {}, given |-> {}, ok |-> TRUE]

(* The SDK's accumulator, which finds a block by its place                 *)
Accumulate(m, e) ==
  CASE e.kind = "start" ->
         [m EXCEPT !.blocks = Append(@, [block |-> e.says, said |-> <<>>])]
    [] e.index >= Len(m.blocks) -> [m EXCEPT !.ok = FALSE]
    [] e.kind = "delta" ->
         IF Writes(m.blocks[e.index + 1].block, e.says)
         THEN [m EXCEPT !.blocks[e.index + 1].said = Append(@, e.says)] ELSE m
    [] e.kind = "stop" ->
         [m EXCEPT !.done = @ \cup {e.index},
                   !.given = @ \cup {[at |-> e.index, is |-> m.blocks[e.index + 1]]}]

(* Whatever the SDK takes is read.                                         *)
TakeAny(m, e) == IF m.ok THEN Accumulate(m, e) ELSE m

(* _stream: a block is numbered by its place, and doesn't change once it   *)
(* stopped.                                                                *)
Take(m, e) ==
  IF ~m.ok THEN m
  ELSE IF e.index \in m.done
          \/ (IF e.kind = "start" THEN e.index # Len(m.blocks) ELSE e.index >= Len(m.blocks))
  THEN [m EXCEPT !.ok = FALSE]
  ELSE Accumulate(m, e)

Read(events) == FoldLeft(Take, Nothing, events)

(* The client's own SDK, which checks nothing more                         *)
Client(events) ==
  FoldLeft(LAMBDA m, e : IF m.ok THEN Accumulate(m, e) ELSE m, Nothing, events)
-----------------------------------------------------------------------------
(* place: what of a stream goes out early: everything until the first      *)
(* event that is no part of a text or reasoning block.  Each event is      *)
(* given to an SDK first, and one it can't take is not sent.               *)
Place(p, e) ==
  LET open == e.index \in DOMAIN p.open
      goes == CASE e.kind = "start" -> e.says \in DOMAIN Released
                [] e.kind = "delta" -> open /\ e.says \in Released[p.open[e.index]]
                [] e.kind = "stop"  -> open
  IN  IF p.held \/ ~goes \/ ~Client(Append(p.out, e)).ok THEN [p EXCEPT !.held = TRUE]
      ELSE [p EXCEPT !.out = Append(@, e),
                     !.open = IF e.kind = "start"
                              THEN [i \in DOMAIN @ \cup {e.index} |->
                                      IF i = e.index THEN e.says ELSE @[i]]
                              ELSE @]

SentEarly ==
  FoldLeft(Place, [out |-> <<>>, open |-> [i \in {} |-> ""], held |-> FALSE], stream).out
-----------------------------------------------------------------------------
StartsOf(calls) == {e.index : e \in {x \in Range(stream) : x.kind = "start" /\ x.says \in calls}}

(* Where a block is once those taken out before it are gone                *)
Moved(i) == i - Cardinality({t \in StartsOf(removed) : t < i})

(* _edit_stream: what goes out in place of an event: a changed call's      *)
(* input goes out whole after its start, and what came for it does not.    *)
Edited(e) ==
  IF e.index \in StartsOf(removed) THEN <<>>
  ELSE IF e.index \in StartsOf(modified)
  THEN CASE e.kind = "start" -> <<[e EXCEPT !.index = Moved(e.index)],
                                  Delta(Moved(e.index), "new")>>
         [] e.kind = "delta" -> <<>>
         [] e.kind = "stop"  -> <<Stop(Moved(e.index))>>
  ELSE <<[e EXCEPT !.index = Moved(e.index)]>>

EditedStream == FlattenSeq([i \in 1..Len(stream) |-> Edited(stream[i])])
-----------------------------------------------------------------------------
(* The provider sends any event; what can't be read any more goes no       *)
(* further.                                                                *)
Arrives == \E e \in Event :
  /\ ~ended /\ Len(stream) < MaxEvents /\ Read(stream).ok
  /\ stream' = Append(stream, e)
  /\ UNCHANGED <<ended, removed, modified, judged>>

Ends ==
  /\ ~ended /\ ended' = TRUE
  /\ UNCHANGED <<stream, removed, modified, judged>>

(* A turn that can be read is judged, and any of its calls taken out or    *)
(* changed.                                                                *)
Judge == \E out, changed \in SUBSET Calls :
  /\ ended /\ ~judged /\ Read(stream).ok
  /\ out \cup changed \subseteq {b.block : b \in Range(Read(stream).blocks)} /\ out \cap changed = {}
  /\ removed' = out /\ modified' = changed /\ judged' = TRUE
  /\ UNCHANGED <<stream, ended>>

Next == Arrives \/ Ends \/ Judge

Spec == Init /\ [][Next]_vars
-----------------------------------------------------------------------------
(* The blocks the turn was judged to hold, with the edits made             *)
Intended ==
  LET blocks == Read(stream).blocks
      kept == SelectSeq(blocks, LAMBDA b : b.block \notin removed)
  IN  [i \in 1..Len(kept) |->
         IF kept[i].block \in modified THEN [kept[i] EXCEPT !.said = <<"new">>] ELSE kept[i]]

(* A readable turn can be edited however it was written: what goes out     *)
(* reads as it did, with the edits made and nothing else changed.          *)
EditsAsAsked ==
  judged => Read(EditedStream).ok /\ Read(EditedStream).blocks = Intended

(* Whatever a client runs when a block stops is what the turn was judged   *)
(* to hold: no call that was taken out, none before its input is whole and *)
(* none as it was before it was changed.                                   *)
ClientRunsWhatWasJudged ==
  judged => \A g \in Client(EditedStream).given :
    g.at + 1 \in DOMAIN Intended /\ g.is = Intended[g.at + 1]

(* What went out before the turn was judged holds no part of a call, even  *)
(* of a turn that turns out not to be readable.                            *)
NoCallGoesEarly ==
  \A b \in Range(Client(SentEarly).blocks) : b.block \notin Calls

(* What went out early stands: the edited reply begins with it.            *)
EditsNothingAlreadySent == judged => IsPrefix(SentEarly, EditedStream)
=============================================================================
