----------------------------- MODULE ChatStream -----------------------------
(***************************************************************************)
(* A streamed Chat Completions reply: a call comes in fragments, told      *)
(* apart by their index, which the client's SDK puts together and gives to *)
(* the client once another call starts or the choice finishes.  How it is  *)
(* read and edited (sidecar/_openai.py), and what of it goes out early     *)
(* (ChatTurn in sidecar/_release.py).                                      *)
(***************************************************************************)
EXTENDS Naturals, FiniteSets, Sequences, SequencesExt

CONSTANTS
  Calls,         \* the ids of tool calls
  MaxIndex,      \* the largest index a fragment may name
  MaxFragments,  \* bound on the fragments of a chunk
  MaxChunks      \* bound on the chunks, after the one that opens the stream

ChatStreamAssumption == {MaxIndex, MaxFragments, MaxChunks} \subseteq Nat

VARIABLES
  stream,   \* the chunks that arrived
  removed,  \* the calls to take out, by the id each was read with
  modified, \* the calls whose arguments are changed
  phase     \* "arriving", "judged", or "unreadable"

vars == <<stream, removed, modified, phase>>

(* A fragment may name the call's id and give more of its arguments.       *)
Fragment == [index : 0..MaxIndex, id : {{}} \cup {{c} : c \in Calls}, gives : {<<>>, <<"part">>}]

(* A chunk of text, or one that may give fragments and finish the choice   *)
Chunk == {[text |-> TRUE, calls |-> <<>>, finish |-> FALSE]}
         \cup [text : {FALSE}, calls : UNION {[1..n -> Fragment] : n \in 0..MaxFragments},
               finish : BOOLEAN]

Init == stream = <<>> /\ removed = {} /\ modified = {} /\ phase = "arriving"
-----------------------------------------------------------------------------
Nothing == [calls |-> <<>>, current |-> {}, given |-> {}, finished |-> FALSE, ok |-> TRUE]

(* A fragment adds to its call, the ids it names run together; the first   *)
(* of a call must have the next index.                                     *)
AddFragment(m, f) ==
  IF f.index > Len(m.calls) THEN [m EXCEPT !.ok = FALSE]
  ELSE LET calls == IF f.index < Len(m.calls) THEN m.calls
                    ELSE Append(m.calls, [id |-> <<>>, arguments |-> <<>>])
           id == IF f.id = {} THEN <<>> ELSE <<CHOOSE c \in f.id : TRUE>>
       IN  [m EXCEPT !.calls = [calls EXCEPT ![f.index + 1].id = @ \o id,
                                             ![f.index + 1].arguments = @ \o f.gives]]

(* The calls a chunk tells the client are done: the one before another     *)
(* that starts, and at the finish the last.                                *)
Done(m, chunk) ==
  LET last == [i \in 1..Len(chunk.calls) |->
                 IF i = 1 THEN m.current ELSE {chunk.calls[i - 1].index}]
  IN  (IF m.finished \/ chunk.finish THEN m.current ELSE {})
      \cup UNION {last[i] \ {chunk.calls[i].index} : i \in DOMAIN last}

(* The SDK's accumulator                                                   *)
Accumulate(m, chunk) ==
  LET built == FoldLeft(LAMBDA n, f : IF n.ok THEN AddFragment(n, f) ELSE n, m, chunk.calls)
      known == {g.at : g \in m.given}
  IN  IF ~built.ok THEN built
      ELSE [built EXCEPT
              !.given = @ \cup {[at |-> i, is |-> built.calls[i + 1]] :
                                i \in Done(m, chunk) \ known},
              !.current = IF chunk.calls = <<>> THEN @ ELSE {Last(chunk.calls).index},
              !.finished = @ \/ chunk.finish]

Client(chunks) ==
  FoldLeft(LAMBDA m, c : IF m.ok THEN Accumulate(m, c) ELSE m, Nothing, chunks)

(* A stream that finishes is read as what it ends as.                      *)
ReadsToTheEnd(chunks) == LET m == Client(chunks) IN m.ok /\ m.finished

(* _chat_stream: a call given as done doesn't change after.                *)
Reads(chunks) ==
  LET m == Client(chunks)
  IN  m.ok /\ m.finished /\ \A g \in m.given : m.calls[g.at + 1].arguments = g.is.arguments
-----------------------------------------------------------------------------
(* place: what goes out early, until a chunk that says anything but text   *)
Early(chunk) == chunk.calls = <<>> /\ ~chunk.finish

SentEarly ==
  LET held == {i \in 1..Len(stream) : ~Early(stream[i])}
  IN  SubSeq(stream, 1, IF held = {} THEN Len(stream)
                        ELSE (CHOOSE i \in held : \A j \in held : i <= j) - 1)
-----------------------------------------------------------------------------
(* The chunk and the place in it of each call's first fragment             *)
First ==
  FoldLeft(LAMBDA seen, i :
    FoldLeft(LAMBDA known, n :
               LET index == stream[i].calls[n].index
               IN  IF index \in DOMAIN known THEN known
                   ELSE [x \in DOMAIN known \cup {index} |->
                           IF x = index THEN <<i, n>> ELSE known[x]],
             seen, [n \in 1..Len(stream[i].calls) |-> n]),
    [x \in {} |-> <<>>], [i \in 1..Len(stream) |-> i])

(* The id a call is edited by: the one its first fragment names            *)
Ids == LET first == First
       IN  [index \in DOMAIN first |-> stream[first[index][1]].calls[first[index][2]].id]

(* The calls whose first fragment names one of these                       *)
Named(ids) == LET named == Ids IN {index \in DOMAIN named : \E c \in named[index] : <<c>> \in ids}

Moved(index, out) == index - Cardinality({i \in out : i < index})

(* What goes out in place of a fragment: a changed call's arguments go out *)
(* whole in its first, and a later one only if it says more than its       *)
(* place.                                                                  *)
EditedFragment(f, first, out, changed) ==
  LET to == [f EXCEPT !.index = Moved(f.index, out)]
  IN  IF f.index \in out THEN <<>>
      ELSE IF f.index \notin changed THEN <<to>>
      ELSE IF first THEN <<[to EXCEPT !.gives = <<"new">>]>>
      ELSE IF f.id = {} THEN <<>>
      ELSE <<[to EXCEPT !.gives = <<>>]>>

(* _edit_chunks                                                            *)
EditedStream(edits) ==
  LET first == First
      out == Named(edits.removed)
      changed == Named(edits.modified)
  IN  [i \in 1..Len(stream) |->
         [stream[i] EXCEPT !.calls =
            FlattenSeq([n \in 1..Len(@) |->
              EditedFragment(@[n], first[@[n].index] = <<i, n>>, out, changed)])]]

(* Every call starts with an id, and every call to change is found.        *)
CanEdit(edits) ==
  LET named == Ids
  IN  /\ \A index \in DOMAIN named : named[index] # {}
      /\ \A id \in edits.removed \cup edits.modified : \E index \in DOMAIN named :
           \E c \in named[index] : id = <<c>>

(* What the client is sent: a turn with nothing to edit, as it came        *)
SentOn(edits) ==
  IF edits.removed \cup edits.modified = {} THEN stream ELSE EditedStream(edits)

(* The calls the turn was judged to hold, with the edits made              *)
Intended(edits) ==
  LET calls == Client(stream).calls
      kept == SelectSeq(calls, LAMBDA c : c.id \notin edits.removed)
  IN  [i \in 1..Len(kept) |->
         IF kept[i].id \in edits.modified THEN [kept[i] EXCEPT !.arguments = <<"new">>]
                                    ELSE kept[i]]

(* _check_edited: what goes out reads as the turn did, with the edits made. *)
ReadsBack(edits) ==
  LET sent == SentOn(edits) IN Reads(sent) /\ Client(sent).calls = Intended(edits)
-----------------------------------------------------------------------------
Arrives == \E chunk \in Chunk :
  /\ phase = "arriving" /\ Len(stream) < MaxChunks /\ Client(stream).ok
  /\ stream' = Append(stream, chunk)
  /\ UNCHANGED <<removed, modified, phase>>

(* A turn that can be read is judged and any of its calls taken out or     *)
(* changed; one that can't be edited so goes no further.                   *)
Judge ==
  LET ids == {c.id : c \in Range(Client(stream).calls)}
  IN  \E out, changed \in SUBSET ids :
        LET edits == [removed |-> out, modified |-> changed] IN
        /\ phase = "arriving" /\ Reads(stream) /\ out \cap changed = {}
        /\ phase' = IF out \cup changed = {} \/ (CanEdit(edits) /\ ReadsBack(edits))
                    THEN "judged" ELSE "unreadable"
        /\ removed' = out /\ modified' = changed
        /\ UNCHANGED stream

Next == Arrives \/ Judge

Spec == Init /\ [][Next]_vars
-----------------------------------------------------------------------------
Edits == [removed |-> removed, modified |-> modified]

(* Whether each call is named once, when it starts, by an id of its own    *)
WellNamed ==
  LET first == First
      named == Ids
  IN  /\ \A i \in DOMAIN stream : \A n \in DOMAIN stream[i].calls :
           LET f == stream[i].calls[n] IN f.id # {} <=> first[f.index] = <<i, n>>
      /\ \A i, j \in DOMAIN named : named[i] = named[j] => i = j

(* A turn written as the API says can be edited however its fragments      *)
(* come, and never fails for what was made of it.                          *)
EditsAsAsked == phase = "unreadable" => ~WellNamed

(* A call the SDK gives as done, which the client may run then, is one the *)
(* turn was judged to hold, whole and as changed.                          *)
ClientRunsWhatWasJudged ==
  phase = "judged" => LET intended == Intended(Edits) IN
    \A g \in Client(SentOn(Edits)).given :
      g.at + 1 \in DOMAIN intended /\ g.is.arguments = intended[g.at + 1].arguments

(* No part of a call goes out before the turn is judged, and what went out *)
(* stands.                                                                 *)
SentEarlyStands ==
  /\ \A c \in Range(SentEarly) : c.calls = <<>>
  /\ phase = "judged" => IsPrefix(SentEarly, SentOn(Edits))
=============================================================================
