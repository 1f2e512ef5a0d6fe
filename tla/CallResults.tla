---------------------------- MODULE CallResults -----------------------------
(***************************************************************************)
(* How the handler tells the tool results of one conversation apart        *)
(* (Handler._results and _passed in sidecar/_handler.py, Conversation in   *)
(* sidecar/_state.py).  The client writes every request itself, so a       *)
(* result is known by what it says, what was said with its call, and the   *)
(* call's place among those with its id, as a client may use one id for    *)
(* calls of several turns.  The client may send a request again before it  *)
(* is answered, clear an old result, and compact its conversation.         *)
(***************************************************************************)
EXTENDS Integers, Sequences, FiniteSets, SequencesExt, FiniteSetsExt

CONSTANTS
  Ids,       \* ids of tool calls
  Said,      \* what the model says with a call, its arguments included
  Values,    \* what results say
  Compacts, Retries, \* what the client does
  MadeKept,  \* MADE_KEPT
  MaxCalls, MaxAsks, MaxClears, \* bounds on calls that ran, requests, results cleared
  None

CallResultsAssumption ==
  /\ Compacts \in BOOLEAN /\ Retries \in BOOLEAN
  /\ {MadeKept, MaxCalls, MaxAsks, MaxClears} \subseteq Nat
  /\ None \notin Nat

VARIABLES
  entries,  \* the client's conversation: calls and results, each of a numbered call
  open,     \* requests that went on and await their replies, as sent
  judged, issued, made, \* as in Conversation
  calls,    \* how many calls there were
  asks, clears, \* how many requests were sent, and results cleared
  \* history, for the properties
  shown,    \* every result the sentinel was shown, in order
  went,     \* the results of every request that went on
  madeBy    \* what the model was sent for each call

vars == <<entries, open, judged, issued, made, calls, asks, clears, shown, went, madeBy>>

Call(id, said, n)    == [kind |-> "call", id |-> id, text |-> said, of |-> n]
Result(id, value, n) == [kind |-> "result", id |-> id, text |-> value, of |-> n]

(* A client starts afresh, or with a call this sidecar never handed out.   *)
Init ==
  /\ \/ entries = <<>> /\ calls = 0
     \/ \E id \in Ids, a \in Said, v \in Values :
          entries = <<Call(id, a, 1), Result(id, v, 1)>> /\ calls = 1
  /\ open = <<>>
  /\ judged = {} /\ issued = [id \in Ids |-> 0] /\ made = <<>>
  /\ asks = 0 /\ clears = 0
  /\ shown = <<>> /\ went = {}
  /\ madeBy = [n \in 1..MaxCalls |-> None]
-----------------------------------------------------------------------------
CallsAt(e, id) == {k \in 1..Len(e) : e[k].kind = "call" /\ e[k].id = id}
Results(e)     == {k \in 1..Len(e) : e[k].kind = "result"}

(* The call a result is of: the latest with its id.                        *)
Before(e, k) == {j \in CallsAt(e, e[k].id) : j < k}
CallOf(e, k) == Max(Before(e, k))

(* A call's place is not kept: its id is taken to be its own.              *)
PlaceIgnored(e, j) == 0

(* how many calls with its id come before a call                           *)
Place(e, j) == Cardinality({i \in CallsAt(e, e[j].id) : i < j})

occurrence(id, index) == <<id, index>>

OccurrenceAt(e, j) == occurrence(e[j].id, Place(e, j))

(* _result_digest: everything the step is given from the request           *)
ResultDigest(e, k) == <<OccurrenceAt(e, CallOf(e, k)), e[CallOf(e, k)].text, e[k].text>>

(* the calls the client holds count too                                    *)
IssuedBy(e) == [id \in Ids |-> Max({issued[id], Cardinality(CallsAt(e, id))})]

(* A result that can't be told apart: of no call, or of a conversation     *)
(* that held more calls with its id.                                       *)
Untold(e) == {k \in Results(e) : \/ Before(e, k) = {}
                                 \/ Cardinality(CallsAt(e, e[k].id)) < IssuedBy(e)[e[k].id]}

(* Results are put to the sentinel in order, up to one that can't be.      *)
Put(e) == {k \in Results(e) : /\ \A j \in Untold(e) : k < j
                              /\ ResultDigest(e, k) \notin judged}

Found(e, k) ==
  LET here == {m \in 1..Len(made) : made[m].call = OccurrenceAt(e, CallOf(e, k))}
  IN  IF here = {} THEN None ELSE made[Max(here)].sent

Step(e, k) == [result |-> <<e[k].of, e[k].text>>, said |-> e[CallOf(e, k)].text,
               sent |-> Found(e, k)]

(* Handler.request: the results are judged, and the request goes on.       *)
Request ==
  /\ asks < MaxAsks
  /\ Retries \/ open = <<>>
  /\ asks' = asks + 1
  /\ issued' = IssuedBy(entries)
  /\ judged' = judged \cup {ResultDigest(entries, k) : k \in Put(entries)}
  /\ shown' = shown \o [i \in 1..Cardinality(Put(entries)) |->
                          Step(entries, SetToSortSeq(Put(entries), <)[i])]
  /\ IF Untold(entries) = {}
     THEN /\ open' = Append(open, [sent |-> entries, ask |-> asks + 1])
          /\ went' = went \cup {<<entries[k].of, entries[CallOf(entries, k)].text,
                                  entries[k].text>> : k \in Results(entries)}
     ELSE UNCHANGED <<open, went>>
  /\ UNCHANGED <<entries, made, calls, clears, madeBy>>

(* The oldest are dropped past MADE_KEPT.                                  *)
KeepLatest(m) == SubSeq(m, Max({1, Len(m) - MadeKept + 1}), Len(m))

(* A call in a place known keeps it.                                       *)
MadeWith(key, sent) ==
  LET known == {m \in 1..Len(made) : made[m].call = key} IN
  KeepLatest(IF known = {} THEN Append(made, [call |-> key, sent |-> sent])
             ELSE [made EXCEPT ![Max(known)].sent = sent])

(* Handler._passed: a reply that makes one call goes on.  The client keeps *)
(* it unless it answers what the client has since changed.                 *)
Reply(q, id, said) ==
  LET e     == open[q].sent
      key   == occurrence(id, Cardinality(CallsAt(e, id)))
      sent  == [input |-> e, message |-> open[q].ask]
  IN
  /\ calls < MaxCalls
  /\ calls' = calls + 1
  /\ open' = RemoveAt(open, q)
  /\ made' = MadeWith(key, sent)
  /\ issued' = [issued EXCEPT ![id] = Max({@, Cardinality(CallsAt(e, id)) + 1})]
  /\ madeBy' = [madeBy EXCEPT ![calls + 1] = sent]
  /\ IF e = entries THEN entries' = Append(entries, Call(id, said, calls + 1))
     ELSE UNCHANGED entries
  /\ UNCHANGED <<judged, asks, clears, shown, went>>

(* A reply that makes no call, or that never comes.                        *)
Answer(q) ==
  /\ open' = RemoveAt(open, q)
  /\ UNCHANGED <<entries, judged, issued, made, calls, asks, clears, shown, went, madeBy>>

(* The client runs its latest call.                                        *)
Run(v) ==
  /\ entries # <<>> /\ Last(entries).kind = "call"
  /\ entries' = Append(entries, Result(Last(entries).id, v, Last(entries).of))
  /\ UNCHANGED <<open, judged, issued, made, calls, asks, clears, shown, went, madeBy>>

(* The client rewrites a result it has sent.                               *)
Clear(k, v) ==
  /\ clears < MaxClears
  /\ clears' = clears + 1
  /\ k \in Results(entries) /\ v # entries[k].text
  /\ entries' = [entries EXCEPT ![k].text = v]
  /\ UNCHANGED <<open, judged, issued, made, calls, asks, shown, went, madeBy>>

(* The client compacts its conversation to its latest entries.             *)
Compact(n) ==
  /\ Compacts /\ n \in 1..Len(entries)
  /\ entries' = SubSeq(entries, n + 1, Len(entries))
  /\ UNCHANGED <<open, judged, issued, made, calls, asks, clears, shown, went, madeBy>>

Next ==
  \/ Request
  \/ \E q \in 1..Len(open) : Answer(q)
  \/ \E q \in 1..Len(open), id \in Ids, said \in Said : Reply(q, id, said)
  \/ \E v \in Values : Run(v)
  \/ \E k \in 1..Len(entries), v \in Values : Clear(k, v)
  \/ \E n \in 1..Len(entries) : Compact(n)

Spec == Init /\ [][Next]_vars
-----------------------------------------------------------------------------
(* Every variable has a value of its type, and what the model was sent is  *)
(* kept once for a call, for no more than MADE_KEPT of them.               *)
TypeOK ==
  /\ entries \in Seq([kind : {"call", "result"}, id : Ids, text : Said \cup Values,
                      of : 1..MaxCalls])
  /\ issued \in [Ids -> 0..MaxCalls]
  /\ Len(made) <= MadeKept
  /\ \A i, j \in 1..Len(made) : made[i].call = made[j].call => i = j
  /\ calls \in 0..MaxCalls /\ asks \in 0..MaxAsks /\ clears \in 0..MaxClears

Shown == {shown[i].result : i \in 1..Len(shown)}

(* Every result the model is sent was shown to the sentinel first, one of  *)
(* a call that another like it came before included.                       *)
EveryResultIsShown == \A w \in went : <<w[1], w[3]>> \in Shown

(* Nothing goes on that says what the sentinel was never shown said, with  *)
(* a call it was never shown made, whatever the client rewrites or drops.  *)
NothingUnseenGoesOn ==
  \A w \in went : \E i \in 1..Len(shown) : shown[i].said = w[2] /\ shown[i].result[2] = w[3]

(* A result is shown once, however often and in however long a             *)
(* conversation the client sends it.                                       *)
ShownOnce == \A i, j \in 1..Len(shown) : shown[i].result = shown[j].result => i = j

(* A result is judged with what the model was sent for the call it is of,  *)
(* or without; not with what was sent for another call with its id.        *)
SentForItsCall ==
  \A i \in 1..Len(shown) : shown[i].sent # None => shown[i].sent = madeBy[shown[i].result[1]]

(* The latest calls are judged with what the model was sent for them.      *)
ShownWithItsOwn ==
  \A i \in Len(shown) + 1..Len(shown') :
    LET n == shown'[i].result[1] IN
      n > calls - MadeKept /\ madeBy[n] # None => shown'[i].sent = madeBy[n]
=============================================================================
