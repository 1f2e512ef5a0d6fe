------------------------------ MODULE Amending ------------------------------
(***************************************************************************)
(* A turn the client was handed with calls taken out or changed, and the   *)
(* later request that holds it: the model's own calls are put back, each   *)
(* rejection beside the client's results, and the turns the client was     *)
(* never handed go where they were made (sidecar/_wire.py, with where each *)
(* format keeps a turn, _anthropic.py and _openai.py).  The client writes  *)
(* its copy of the turn in steps: it may leave out thinking, put back what *)
(* it was told of in the reply's field, or misreport the turn.             *)
(***************************************************************************)
EXTENDS Naturals, FiniteSets, Sequences, SequencesExt

CONSTANTS
  Format,     \* "anthropic-messages", "openai-chat" or "openai-responses"
  Order,      \* the turn's calls, as the model proposed them
  Texts,      \* what the turn's text blocks may say
  Thinking,   \* the turn's thinking blocks, each with a signature of its own
  MaxBlocks,  \* bound on those blocks in a turn
  MaxSteps    \* bound on what the client does to its copy

AmendingAssumption ==
  /\ Format \in {"anthropic-messages", "openai-chat", "openai-responses"}
  /\ Order \in Seq(Range(Order)) /\ IsInjective(Order)
  /\ {MaxBlocks, MaxSteps} \subseteq Nat

VARIABLES
  proposed,  \* the model's turn: calls, with texts and thinking among them
  fate,      \* whether each call was "kept", "taken" out or "changed"
  refused,   \* after how many of the client's entries a refused turn was made, if any
  copy,      \* the client's copy of the turn, and of the results of its calls
  honest,    \* whether the client wrote only what it was handed or told
  whole,     \* whether the copy still has every text and thinking block
  steps      \* what the client did to its copy so far

vars == <<proposed, fate, refused, copy, honest, whole, steps>>

Call(id, says) == [kind |-> "call", id |-> id, says |-> says]
Block(id) == [kind |-> "block", id |-> id, says |-> "as written"]
Result(id, says) == [kind |-> "result", id |-> id, says |-> says]
Said == [kind |-> "user", id |-> "text", says |-> "as written"]

Calls == Range(Order)
None == 0
Sent == 1  \* the entries before the turn, which the client had sent: its task

(* The elements of one kind                                                *)
Of(kind, elements) == SelectSeq(elements, LAMBDA e : e.kind = kind)
Ids(kind, elements) == {e.id : e \in Range(Of(kind, elements))}
-----------------------------------------------------------------------------
(* A request's entries hold elements: one each for Responses, all the      *)
(* turn's for the others, and all the results in one user message for      *)
(* Anthropic.                                                              *)
Entry(role, content) == [role |-> role, content |-> content]
EntryEach(role, content) == [i \in DOMAIN content |-> Entry(role, <<content[i]>>)]

(* A turn and its results as entries again (each format's rebuild)         *)
Rebuilt(turn, results) ==
  CASE Format = "anthropic-messages" ->
         <<Entry("assistant", turn)>> \o (IF results = <<>> THEN <<>> ELSE <<Entry("user", results)>>)
    [] Format = "openai-chat" -> <<Entry("assistant", turn)>> \o EntryEach("tool", results)
    [] OTHER -> EntryEach("assistant", turn) \o EntryEach("output", results)

(* Where a run of entries of a role, from one on, ends                     *)
RunEnd(entries, from, role) ==
  CHOOSE end \in from..Len(entries) + 1 :
    /\ \A i \in from..end - 1 : entries[i].role = role
    /\ end = Len(entries) + 1 \/ entries[end].role # role

Contents(entries, from, end) == FlattenSeq([i \in 1..end - from |-> entries[from + i - 1].content])

(* The turn made after the entries the client had sent, with the results   *)
(* that follow it; no turn if those entries are not followed by one.       *)
TurnAt(entries) ==
  LET start == Sent + 1
      turnEnd == IF Format = "openai-responses" THEN RunEnd(entries, start, "assistant") ELSE start + 1
      end == CASE Format = "anthropic-messages" ->
                    IF turnEnd <= Len(entries) /\ entries[turnEnd].role = "user"
                    THEN turnEnd + 1 ELSE turnEnd
               [] Format = "openai-chat" -> RunEnd(entries, turnEnd, "tool")
               [] OTHER -> RunEnd(entries, turnEnd, "output")
  IN  IF start > Len(entries) \/ entries[start].role # "assistant"
      THEN [start |-> None, end |-> None, turn |-> <<>>, results |-> <<>>]
      ELSE [start |-> start, end |-> end, turn |-> Contents(entries, start, turnEnd),
            results |-> Contents(entries, turnEnd, end)]
-----------------------------------------------------------------------------
(* What a block is found again by: a call by its id, another by what it    *)
(* holds.                                                                  *)
Key(element) == <<element.kind, element.id>>

(* What came just before a call in the model's turn, and how many blocks   *)
(* of that name came before it                                             *)
CameAfter(id) ==
  LET place == CHOOSE i \in DOMAIN proposed : proposed[i] = Call(id, "own")
  IN  IF place = 1 THEN [first |-> TRUE]
      ELSE [first |-> FALSE, key |-> Key(proposed[place - 1]),
            before |-> Cardinality({i \in 1..place - 2 : Key(proposed[i]) = Key(proposed[place - 1])})]

(* As if it were known by what it says alone, however often that is said   *)
AfterTheFirst(placed, id) ==
  LET came == CameAfter(id)
      found == SelectSeq([i \in DOMAIN placed |-> i],
                         LAMBDA i : ~came.first /\ Key(placed[i]) = came.key)
  IN  IF came.first THEN {0} ELSE IF found # <<>> THEN {found[1]} ELSE {}

(* How many elements a call put back goes after, or none if what it came   *)
(* after is no longer there.                                               *)
After(placed, id) ==
  LET came == CameAfter(id)
      found == SelectSeq([i \in DOMAIN placed |-> i],
                         LAMBDA i : ~came.first /\ Key(placed[i]) = came.key)
  IN  IF came.first THEN {0}
      ELSE IF came.before < Len(found) THEN {found[came.before + 1]} ELSE {}

(* Otherwise it goes before the first of those later in the model's order, *)
(* or else after the last of the turn's, or else first.                    *)
ByOrder(placed, kind, index) ==
  LET at(ids) == {i \in DOMAIN placed : placed[i].kind = kind /\ placed[i].id \in ids}
      later == at({Order[j] : j \in index + 1..Len(Order)})
      any == at(Calls)
  IN  IF later # {} THEN (CHOOSE i \in later : \A j \in later : i <= j) - 1
      ELSE IF any # {} THEN CHOOSE i \in any : \A j \in any : j <= i
      ELSE 0

Inserted(elements, kind, new, anchor(_, _)) ==
  FoldLeft(LAMBDA placed, index :
             IF Order[index] \notin {e.id : e \in new} THEN placed
             ELSE LET there == anchor(placed, Order[index])
                      at == IF there # {} THEN CHOOSE i \in there : TRUE
                            ELSE ByOrder(placed, kind, index)
                  IN  InsertAt(placed, at + 1, CHOOSE e \in new : e.id = Order[index]),
           elements, [i \in DOMAIN Order |-> i])

Taken == {id \in Calls : fate[id] = "taken"}
Changed == {id \in Calls : fate[id] = "changed"}

(* Whether the client's copy holds the turn as it was handed or as the     *)
(* model proposed it, as far as it is checked                              *)
HoldsTheTurn(turn) ==
  LET held == Of("call", turn)
      place(id) == CHOOSE i \in DOMAIN Order : Order[i] = id
  IN  /\ Ids("call", turn) \subseteq Calls
      /\ \A i, j \in DOMAIN held : i < j => place(held[i].id) < place(held[j].id)
      /\ Calls \ Taken \subseteq Ids("call", turn)
      /\ \A call \in Range(held) : /\ call.id \in Taken => call.says = "own"
                                   /\ call.id \in Changed => call.says \in {"own", "handed"}

NoResultOfTaken(results) ==
  \A e \in Range(Of("result", results)) : e.id \in Taken => e.says = "rejected"

Amend(turn, results) ==
  LET own == [i \in DOMAIN turn |->
                IF turn[i].kind = "call" /\ turn[i].id \in Changed /\ turn[i].says = "handed"
                THEN Call(turn[i].id, "own") ELSE turn[i]]
  IN  [ok |-> HoldsTheTurn(turn) /\ NoResultOfTaken(results),
       turn |-> Inserted(own, "call", {Call(id, "own") : id \in Taken \ Ids("call", turn)}, After),
       results |-> Inserted(results, "result",
                            {Result(id, "rejected") : id \in Taken \ Ids("result", results)},
                            LAMBDA placed, id : {}),
       restored |-> Taken \cap Ids("result", results)]

(* A refused turn: a call of the model's, and that it was rejected         *)
RefusedTurn == Rebuilt(<<Call("refused", "own")>>, <<Result("refused", "rejected")>>)

(* The refused turn made when the client had sent so many entries          *)
ToldAt(count) == IF count \in refused THEN RefusedTurn ELSE <<>>

Spliced(entries, at, found, amended) ==
  LET segment(i) ==
        CASE ~found \/ i \notin at.start..at.end - 1 -> <<entries[i]>>
          [] i = at.start -> Rebuilt(amended.turn, amended.results)
          [] OTHER -> <<>>
  IN  [ok |-> /\ found => amended.ok
              /\ \A i \in DOMAIN entries :
                   Ids("call", entries[i].content) \cap Calls # {} => found /\ i \in at.start..at.end - 1,
       found |-> found,
       entries |-> ToldAt(0) \o FlattenSeq([i \in DOMAIN entries |-> segment(i) \o ToldAt(i)]),
       restored |-> IF found THEN amended.restored ELSE {}]

AmendAt(entries, at) ==
  Spliced(entries, at, Ids("call", at.turn) \cap Calls # {}, Amend(at.turn, at.results))

AmendRequest(entries) == AmendAt(entries, TurnAt(entries))

(* A request may hold no result of a refused turn's call but its rejection *)
HeldRejections(entries) ==
  \A i \in DOMAIN entries : \A e \in Range(entries[i].content) :
    e.kind = "result" /\ e.id = "refused" => e.says = "rejected"
-----------------------------------------------------------------------------
(* The turn as the client was handed it, and the results of the calls it   *)
(* ran                                                                     *)
Handed(turn, fates) ==
  LET kept == SelectSeq(turn, LAMBDA e : e.kind = "block" \/ fates[e.id] # "taken")
  IN  [i \in DOMAIN kept |->
         IF kept[i].kind = "call" /\ fates[kept[i].id] = "changed" THEN Call(kept[i].id, "handed")
         ELSE kept[i]]

Ran(turn) == [i \in DOMAIN Of("call", turn) |-> Result(Of("call", turn)[i].id, "ran")]

Turns ==
  {turn \in UNION {[1..n -> {Call(id, "own") : id \in Calls} \cup {Block(b) : b \in Texts \cup Thinking}] :
                     n \in Len(Order)..Len(Order) + (IF Format = "openai-chat" THEN 0 ELSE MaxBlocks)} :
     /\ [i \in DOMAIN Of("call", turn) |-> Of("call", turn)[i].id] = Order
     /\ \A i, j \in DOMAIN turn : i # j /\ turn[i] = turn[j] => turn[i].id \in Texts}

Init ==
  /\ proposed \in Turns
  /\ fate \in [Calls -> {"kept", "taken", "changed"}]
  /\ \E id \in Calls : fate[id] # "kept"
  /\ \E id \in Calls : fate[id] # "taken"
  /\ refused \in {{}, {Sent}}
  /\ copy = [turn |-> Handed(proposed, fate), results |-> Ran(Handed(proposed, fate)),
             task |-> <<Entry("user", <<Said>>)>>, rest |-> <<>>]
  /\ honest = TRUE /\ whole = TRUE /\ steps = 0

Step == steps < MaxSteps /\ steps' = steps + 1 /\ UNCHANGED <<proposed, fate, refused>>

(* The client leaves out a thinking block, as it may an earlier turn's     *)
Forgets ==
  \E i \in DOMAIN copy.turn :
    /\ Step /\ copy.turn[i].id \in Thinking
    /\ copy' = [copy EXCEPT !.turn = RemoveAt(copy.turn, i)]
    /\ whole' = FALSE /\ UNCHANGED honest

(* The client puts the whole turn back, as an eval does from the field, or *)
(* the model's own arguments of a changed call alone.                      *)
PutsBack ==
  /\ Step /\ UNCHANGED honest
  /\ \/ /\ whole
        /\ copy' = [copy EXCEPT !.turn = proposed,
                                !.results = [i \in DOMAIN Order |->
                                               Result(Order[i], IF Order[i] \in Taken THEN "rejected" ELSE "ran")]]
     \/ \E i \in DOMAIN copy.turn :
          /\ copy.turn[i].kind = "call" /\ copy.turn[i].says = "handed"
          /\ copy' = [copy EXCEPT !.turn[i] = Call(copy.turn[i].id, "own")]
  /\ UNCHANGED whole

(* The conversation goes on: the user says something more, in the message  *)
(* with the results for Anthropic.                                         *)
GoesOn ==
  /\ Step /\ UNCHANGED <<honest, whole>>
  /\ IF Format = "anthropic-messages" THEN copy' = [copy EXCEPT !.results = Append(@, Said)]
     ELSE copy' = [copy EXCEPT !.rest = Append(@, Entry("user", <<Said>>))]

(* The client misreports the turn: a call with other arguments, left out,  *)
(* out of order or made up, a result of one that never ran, or the turn    *)
(* somewhere else.                                                         *)
Misreports ==
  /\ Step /\ honest' = FALSE /\ UNCHANGED whole
  /\ \/ \E i \in DOMAIN copy.turn :
          /\ copy.turn[i].kind = "call"
          /\ \/ copy' = [copy EXCEPT !.turn[i].says = "other"]
             \/ copy' = [copy EXCEPT !.turn = RemoveAt(copy.turn, i)]
     \/ \E i \in 1..Len(copy.turn) - 1 :
          copy' = [copy EXCEPT !.turn[i] = copy.turn[i + 1], !.turn[i + 1] = copy.turn[i]]
     \/ copy' = [copy EXCEPT !.turn = Append(@, Call("stranger", "own"))]
     \/ \E id \in Taken \cup {"refused"} :
          copy' = [copy EXCEPT !.results = SelectSeq(@, LAMBDA e : e.id # id) \o <<Result(id, "ran")>>]
     \/ copy' = [copy EXCEPT !.task = Append(@, Entry("user", <<Said>>))]

Next == Forgets \/ PutsBack \/ GoesOn \/ Misreports

Spec == Init /\ [][Next]_vars
-----------------------------------------------------------------------------
(* The request that holds the copy, as it comes and as it goes on          *)
Request == copy.task \o Rebuilt(copy.turn, copy.results) \o copy.rest

Elements(entries) == FlattenSeq([i \in DOMAIN entries |-> entries[i].content])

Passed(entries, amended) == amended.ok /\ HeldRejections(entries)

OfTurn(entries) ==
  SelectSeq(Elements(entries), LAMBDA e : e.id # "refused" /\ e.kind \in {"call", "block"})

(* A client that writes the turn as it was handed it, or puts back what it *)
(* was told, in whole or in part, is never refused, whatever thinking it   *)
(* leaves out (amend_request, _amend, held_rejections).                    *)
HonestIsNeverRefused == honest => Passed(Request, AmendRequest(Request))

(* The model is sent its own turn, every call where it proposed it, when   *)
(* the client left nothing out: a call taken out parts again what it       *)
(* parted (_after, _inserted).                                             *)
TheModelSeesItsOwnTurn == honest /\ whole => OfTurn(AmendRequest(Request).entries) = proposed

(* Whatever was left out, the model's calls are all there in its order,    *)
(* with its arguments, and nothing the client sent is lost or moved about. *)
Rest(elements) ==
  SelectSeq(elements, LAMBDA e : /\ e.id \notin Taken \cup {"refused"}
                                 /\ e.kind \in {"block", "result", "user"})

OnlyThese(entries, amended) ==
  Passed(entries, amended) =>
    /\ Of("call", OfTurn(amended.entries)) = [i \in DOMAIN Order |-> Call(Order[i], "own")]
    /\ Rest(Elements(amended.entries)) = Rest(Elements(entries))

NothingElseMoves == honest => OnlyThese(Request, AmendRequest(Request))

(* A request that passes tells the model of each call that was taken out   *)
(* that it was rejected, once and after the call, and never of a result of *)
(* one that didn't run, so a sentinel's stop stays a stop to the model.    *)
EachIsRejected(goes) ==
  LET at(kind, id) == {i \in DOMAIN goes : goes[i].kind = kind /\ goes[i].id = id}
  IN  \A id \in Taken :
        /\ Cardinality(at("result", id)) = 1
        /\ \A i \in at("result", id) : /\ goes[i] = Result(id, "rejected")
                                       /\ \A j \in at("call", id) : j < i

RejectedOnce(entries, amended) ==
  Passed(entries, amended) /\ amended.found => EachIsRejected(Elements(amended.entries))

NeverRanNeverResult == RejectedOnce(Request, AmendRequest(Request))

(* What was put back is recognised: the amended request, sent again as a   *)
(* client would that has put back the turns itself, gains nothing and each *)
(* rejection counts as the sidecar's, not as a result of a call that ran   *)
(* (restored).                                                             *)
WithoutRefused(entries) ==
  SelectSeq(entries, LAMBDA e : \A x \in Range(e.content) : x.id # "refused")

GainsNothing(entries, second) ==
  /\ second.ok /\ second.restored = Taken
  /\ OfTurn(second.entries) = OfTurn(entries)
  /\ Of("result", Elements(second.entries)) = Of("result", Elements(entries))

Recognised(amended) ==
  amended.found => GainsNothing(amended.entries, AmendRequest(WithoutRefused(amended.entries)))

PutBackIsRecognised == honest => Recognised(AmendRequest(Request))

(* A turn the client was never handed goes after exactly what the client   *)
(* had sent when it was made, and before the turn that came in its stead   *)
(* (inserted).                                                             *)
ToldThere(entries, amended) ==
  Passed(entries, amended) =>
    /\ SubSeq(amended.entries, 1, Sent) = SubSeq(entries, 1, Sent)
    /\ SubSeq(amended.entries, Sent + 1, Sent + Len(RefusedTurn)) = RefusedTurn

RefusedWhereItWasMade == refused # {} => ToldThere(Request, AmendRequest(Request))
=============================================================================
