------------------------------ MODULE History -------------------------------
(***************************************************************************)
(* What a conversation has sent the model, as a sentinel's step is given   *)
(* it (sidecar/_history.py).  A request carries the whole of its client's  *)
(* context, so a message that came before has to be told from one that     *)
(* says the same anew.  Requests that open alike share a conversation, so  *)
(* several clients may be recorded in one.                                 *)
(***************************************************************************)
EXTENDS Naturals, FiniteSets, Sequences, SequencesExt

CONSTANTS
  Clients,         \* what sends requests of the conversation: an agent, a monitor
  Texts,           \* what a message may say after the opening
  Carrying,        \* the texts whose message carries an id of its own
  RecentRequests,  \* RECENT_REQUESTS
  ExactPairs,      \* EXACT_PAIRS
  MaxRequests,     \* bound on the requests
  MaxLength        \* bound on a request's messages

HistoryAssumption ==
  /\ Carrying \subseteq Texts /\ Clients \cap Texts = {}
  /\ {RecentRequests, MaxRequests, MaxLength} \subseteq Nat \ {0} /\ ExactPairs \in Nat

VARIABLES
  context,  \* each client's last request: what its messages say
  recent,   \* the keys of the conversation's latest requests
  sent,     \* the messages the conversation has sent, as read
  reads,    \* how many requests were read
  last      \* history: which of them was each client's last, 0 if it sent none

vars == <<context, recent, sent, reads, last>>

Opening == "task"

Init ==
  /\ context = [c \in Clients |-> <<>>]
  /\ recent = <<>> /\ sent = <<>> /\ reads = 0
  /\ last = [c \in Clients |-> 0]
-----------------------------------------------------------------------------
(* A message as the n-th request is read: a reader makes up an id for what *)
(* carries none, a new one at each read.                                   *)
Read(text, n) == [says |-> text, id |-> IF text \in Carrying THEN text ELSE n]

(* What the model is sent of a message: not an id the request doesn't      *)
(* carry.                                                                  *)
Key(message) ==
  IF message.says \in Carrying THEN <<message.says, message.id>> ELSE <<message.says>>

(* For how many messages a request begins as an earlier one did            *)
Begun(earlier, keys) == Len(LongestCommonPrefix({earlier, keys}))

Rest(s, begun) == SubSeq(s, begun + 1, Len(s))

(* The blocks two sequences share, each its place in one, its place in the *)
(* other and its length                                                    *)
Blocks(a, b) ==
  {x \in (1..Len(a)) \X (1..Len(b)) \X (1..Len(b)) :
     /\ x[1] + x[3] <= Len(a) + 1 /\ x[2] + x[3] <= Len(b) + 1
     /\ \A o \in 0..(x[3] - 1) : a[x[1] + o] = b[x[2] + o]}

(* The longest block, the first of those alike                             *)
LongestBlock(a, b) ==
  CHOOSE x \in Blocks(a, b) : \A y \in Blocks(a, b) :
    \/ x[3] > y[3]
    \/ x[3] = y[3] /\ (x[1] < y[1] \/ (x[1] = y[1] /\ x[2] <= y[2]))

(* SequenceMatcher: the places of b in blocks it shares with a: the        *)
(* longest, and those before it and after it.                              *)
RECURSIVE Matching(_, _)
Matching(a, b) ==
  IF Blocks(a, b) = {} THEN {}
  ELSE LET x == LongestBlock(a, b)
           end == x[2] + x[3] - 1
       IN  Matching(SubSeq(a, 1, x[1] - 1), SubSeq(b, 1, x[2] - 1))
           \cup x[2]..end
           \cup {end + p : p \in Matching(Rest(a, x[1] + x[3] - 1), Rest(b, end))}

(* Each message to the first like it after the one last matched            *)
InOrder(a, b) ==
  FoldLeft(LAMBDA found, p :
             LET after == {i \in 1..Len(a) : i > found.last /\ a[i] = b[p]}
             IN  IF after = {} THEN found
                 ELSE [last |-> CHOOSE i \in after : \A j \in after : i <= j,
                       places |-> found.places \cup {p}],
           [last |-> 0, places |-> {}], [p \in 1..Len(b) |-> p]).places

(* A message said before, anywhere, was sent before.                       *)
SharedAnywhere(earlier, keys, begun) ==
  {p \in 1..Len(keys) : \E i \in 1..Len(earlier) : earlier[i] = keys[p]}

(* The places of a request that the earlier request also sent              *)
Shared(earlier, keys, begun) ==
  LET rest == Rest(earlier, begun)
      after == Rest(keys, begun)
  IN  1..begun \cup {begun + p : p \in
        IF Len(rest) * Len(after) <= ExactPairs THEN Matching(rest, after)
                                                ELSE InOrder(rest, after)}

(* What of a request was sent before: by the request it begins as for the  *)
(* most messages, then the one that shares most with it, then the latest.  *)
Matched(keys) ==
  LET begun(i) == Begun(recent[i], keys)
      longest == {i \in 1..Len(recent) : \A j \in 1..Len(recent) : begun(j) <= begun(i)}
      shared(i) == Shared(recent[i], keys, begun(i))
      best == {i \in longest : \A j \in longest :
                 \/ Cardinality(shared(j)) < Cardinality(shared(i))
                 \/ Cardinality(shared(j)) = Cardinality(shared(i)) /\ j <= i}
  IN  UNION {shared(i) : i \in best}

(* record_sent: what wasn't sent before is, and the request is one of the  *)
(* latest.                                                                 *)
Record(request) ==
  LET input == [p \in 1..Len(request) |-> Read(request[p], reads)]
      keys == [p \in 1..Len(request) |-> Key(input[p])]
      fresh == SetToSortSeq((1..Len(request)) \ Matched(keys), <)
      all == Append(recent, keys)
  IN  /\ sent' = sent \o [i \in 1..Len(fresh) |-> input[fresh[i]]]
      /\ recent' = IF Len(all) > RecentRequests THEN Tail(all) ELSE all
      /\ reads' = reads + 1

Sends(c, request) ==
  /\ reads < MaxRequests /\ Len(request) <= MaxLength
  /\ context' = [context EXCEPT ![c] = request]
  /\ Record(request)
  /\ last' = [last EXCEPT ![c] = reads + 1]
-----------------------------------------------------------------------------
(* A client's first request, which opens as the others do                  *)
Opens(c) == \E says \in Texts :
  context[c] = <<>> /\ Sends(c, <<Opening, says>>)

(* A client's request continues its last by adding to its end, or sends it *)
(* again.                                                                  *)
Extends(c) == \E n \in 0..2 : \E said \in [1..n -> Texts] :
  context[c] # <<>> /\ Sends(c, context[c] \o said)

(* The client compacts its context: a summary, which is its own, stands    *)
(* for what came before its latest turns.                                  *)
Compacts(c) == \E kept \in 1..(Len(context[c]) - 2) :
  Sends(c, <<Opening, c>> \o Rest(context[c], Len(context[c]) - kept))

Next == \E c \in Clients : Opens(c) \/ Extends(c) \/ Compacts(c)

Spec == Init /\ [][Next]_vars
-----------------------------------------------------------------------------
(* How often a sequence of keys holds one                                  *)
Times(k, keys) == Cardinality({p \in DOMAIN keys : keys[p] = k})

SentKeys == [p \in DOMAIN sent |-> Key(sent[p])]

(* What the sentinel is given leaves out nothing the model was sent: a     *)
(* thing said twice in one request is in it as often.                      *)
NothingSentIsMissing ==
  \A i \in 1..Len(recent) : \A p \in DOMAIN recent[i] :
    Times(recent[i][p], recent[i]) <= Times(recent[i][p], SentKeys)

(* Whether a client's last request is still among the latest               *)
Remembered(c) == last[c] # 0 /\ reads - last[c] < RecentRequests

Grew(c) == Len(context'[c]) - Len(context[c])

(* A message counts once: a request that continues its client's last adds  *)
(* no more than it put at the end, and nothing if it sends it again,       *)
(* whatever other clients sent between and whatever id each reading made   *)
(* up.                                                                     *)
OnlyNewIsAdded ==
  \A c \in Clients :
    Remembered(c) /\ last'[c] # last[c] /\ IsPrefix(context[c], context'[c]) =>
      Len(sent') - Len(sent) <= Grew(c)

(* A compaction that keeps the latest turns adds only its summary.         *)
OneSummaryIsAdded ==
  \A c \in Clients :
    /\ context'[c] # context[c] /\ Len(context'[c]) > 1 /\ context'[c][2] = c
    /\ Remembered(c) /\ ~IsPrefix(context[c], context'[c])
    => Len(sent') - Len(sent) <= 1
=============================================================================
