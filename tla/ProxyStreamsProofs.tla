------------------------- MODULE ProxyStreamsProofs -------------------------
(***************************************************************************)
(* That the endpoint's streams and the hooks agree, for any number of      *)
(* calls at once, of streams, chunks and outputs, and whatever calls the   *)
(* hook gives up on and makes again.                                       *)
(***************************************************************************)
EXTENDS ProxyStreams, SequenceTheorems, FiniteSetTheorems, TLAPS

Calls == [kind : {"none", "chunk", "end", "next"}, stream : 0..MaxBegins, arg : Nat,
          at : {"free", "feeds", "waits", "waiting", "forgotten", "woken"}]
Outputs == [stream : Streams, at : Nat]

Hooks == [stream : 0..MaxBegins, taken : Nat, ended : BOOLEAN, has : Seq(Outputs)]

StreamsTyped ==
  /\ open \in 0..begun /\ begun \in 0..MaxBegins
  /\ closed \in [Streams -> BOOLEAN] /\ done \in [Streams -> BOOLEAN]
FeedsTyped ==
  /\ chunks \in [Streams -> 0..MaxChunks] /\ fed \in [Streams -> SUBSET Nat]
  /\ feeding \in [Streams -> Seq(Slots)] /\ has \in [Streams -> Seq(Nat)]
  /\ ended \in [Streams -> BOOLEAN]
OutputsTyped ==
  /\ given \in [Streams -> Nat] /\ base \in [Streams -> Nat] /\ kept \in [Streams -> Nat]
  /\ failed \in [Streams -> BOOLEAN]
HookTyped ==
  /\ hook \in Hooks /\ feeds \in Slots \cup {"none"} /\ polls \in Slots \cup {"none"}

Typed ==
  StreamsTyped /\ FeedsTyped /\ OutputsTyped /\ HookTyped /\ call \in [Slots -> Calls]

(* A call in the endpoint names a stream that was begun.                   *)
CallsAgree ==
  \A slot \in Slots :
    /\ call[slot].at = "free" => call[slot] = Free
    /\ call[slot].at # "free" => call[slot].stream \in 1..begun
    /\ call[slot].at = "feeds" => call[slot].kind \in {"chunk", "end"}

(* The hook's stream is the last begun, the only one its id can name; what *)
(* it waits for is of that stream; and it has ended it if a call has.      *)
HookAgrees ==
  /\ open # 0 => open = hook.stream
  /\ hook.stream # 0 => hook.stream = begun
  /\ feeds # "none" => hook.stream # 0 /\ call[feeds].stream = hook.stream
  /\ polls # "none" => hook.stream # 0 /\ call[polls].stream = hook.stream
  /\ hook.stream # 0 /\ ~hook.ended =>
       /\ ~ended[hook.stream]
       /\ \A slot \in Slots : call[slot].kind = "end" => call[slot].stream # hook.stream
  /\ \A s \in Streams : s > begun => ~ended[s]

(* The lock is waited for by the calls that feed the stream or end it.     *)
LockIsHeld ==
  /\ \A s \in Streams : \A p \in 1..Len(feeding[s]) :
       /\ call[feeding[s][p]].at = "feeds" /\ call[feeding[s][p]].stream = s
       /\ \A q \in 1..Len(feeding[s]) : feeding[s][p] = feeding[s][q] => p = q
  /\ \A slot \in Slots : call[slot].at = "feeds" =>
       \E p \in 1..Len(feeding[call[slot].stream]) : feeding[call[slot].stream][p] = slot

(* n chunks were fed; the rest of those taken wait in order, before any    *)
(* call that ends the stream, and the stream has all n while it is open.   *)
FedInOrder(s, n) ==
  /\ n <= chunks[s] /\ chunks[s] - n <= Len(feeding[s])
  /\ \A k \in Nat : k \in fed[s] <=> k < n
  /\ \A p \in 1..Len(feeding[s]) :
       /\ call[feeding[s][p]].kind = "chunk" <=> p <= chunks[s] - n
       /\ p <= chunks[s] - n => call[feeding[s][p]].arg = n + p - 1
  /\ ended[s] => n = chunks[s]
  /\ Len(has[s]) <= n /\ (~closed[s] => Len(has[s]) = n)
  /\ \A k \in 1..Len(has[s]) : has[s][k] = k - 1
  /\ hook.stream = s => hook.taken <= n

FedAgrees == \A s \in Streams : \E n \in Nat : FedInOrder(s, n)

(* A poll the hook waits on lets go of just what the hook has.             *)
PollsAgree ==
  /\ \A s \in Streams : base[s] + kept[s] = given[s]
  /\ hook.stream # 0 => Len(hook.has) <= given[hook.stream]
  /\ polls # "none" => base[hook.stream] = Len(hook.has)
  /\ HookHasOutputsInOrder

StreamsInv == Typed /\ CallsAgree /\ HookAgrees /\ LockIsHeld /\ FedAgrees /\ PollsAgree
-----------------------------------------------------------------------------
StreamsAssumption == ProxyStreamsAssumption /\ IsFiniteSet(Slots) /\ "none" \notin Slots

(* A call stays as it is, but for being woken or forgotten.                *)
Keeps(slot) ==
  /\ call'[slot].kind = call[slot].kind /\ call'[slot].stream = call[slot].stream
  /\ call'[slot].arg = call[slot].arg
  /\ call'[slot].at = "feeds" <=> call[slot].at = "feeds"
  /\ call'[slot].at = "free" <=> call[slot].at = "free"
  /\ call'[slot].at = "free" => call'[slot] = call[slot]

CallsKept == call' \in [Slots -> Calls] /\ \A slot \in Slots : Keeps(slot)

Starts(slot, kind, s, n, at) ==
  /\ call[slot] = Free /\ call' \in [Slots -> Calls]
  /\ call'[slot] = [kind |-> kind, stream |-> s, arg |-> n, at |-> at]
  /\ \A other \in Slots \ {slot} : Keeps(other)

EndsCall(slot) ==
  /\ call[slot].at # "free" /\ call' \in [Slots -> Calls]
  /\ call'[slot] = Free /\ \A other \in Slots \ {slot} : Keeps(other)

LEMMA FreeCall ==
  ASSUME StreamsAssumption
  PROVE  Free \in Calls /\ Free.kind = "none" /\ Free.stream = 0 /\ Free.at = "free"
BY DEF Free, Calls, StreamsAssumption, ProxyStreamsAssumption

LEMMA WakesKeep ==
  ASSUME Typed, NEW s, call' = Wakes(s)
  PROVE  CallsKept
<1>1. ASSUME NEW slot \in Slots
      PROVE  call'[slot] \in Calls /\ Keeps(slot)
  <2>1. call[slot] \in Calls
    BY DEF Typed
  <2>2. CASE call[slot].stream = s /\ call[slot].at = "waiting"
    <3>1. call'[slot] = [call[slot] EXCEPT !.at = "woken"]
      BY <2>2 DEF Wakes
    <3> QED
      BY <2>1, <2>2, <3>1 DEF Calls, Keeps
  <2>3. CASE ~(call[slot].stream = s /\ call[slot].at = "waiting")
    <3>1. call'[slot] = call[slot]
      BY <2>3 DEF Wakes
    <3> QED
      BY <2>1, <3>1 DEF Keeps
  <2> QED
    BY <2>2, <2>3
<1>2. call' = [slot \in Slots |-> call'[slot]]
  BY DEF Wakes
<1> QED
  BY <1>1, <1>2 DEF CallsKept

LEMMA UnchangedKeeps ==
  ASSUME Typed, call' = call
  PROVE  CallsKept
BY DEF CallsKept, Keeps, Typed

LEMMA AsksStarts ==
  ASSUME Typed, NEW slot \in Slots, NEW kind \in {"chunk", "end"}, NEW n \in Nat,
         NEW at \in {"feeds", "waits"}, Asks(slot, kind, n, at), open \in 0..MaxBegins
  PROVE  Starts(slot, kind, open, n, at)
<1>1. [kind |-> kind, stream |-> open, arg |-> n, at |-> at] \in Calls
  BY DEF Calls
<1> QED
  BY <1>1 DEF Asks, Starts, Typed, Keeps

LEMMA AnswersEndsCall ==
  ASSUME StreamsAssumption, Typed, NEW slot \in Slots, Answers(slot), call[slot].at # "free"
  PROVE  EndsCall(slot)
BY FreeCall DEF Answers, EndsCall, Typed, Keeps, StreamsAssumption

LEMMA WaitingStarts ==
  ASSUME Typed, NEW slot \in Slots, NEW s \in 0..MaxBegins, NEW n \in Nat, call[slot] = Free,
         \/ call' = Waiting(slot, s, n)
         \/ call' = [call EXCEPT ![slot] = [kind |-> "next", stream |-> s, arg |-> n, at |-> "woken"]]
  PROVE  \E at \in {"waiting", "woken"} : Starts(slot, "next", s, n, at)
<1>1. CASE call' = Waiting(slot, s, n)
  <2>1. call'[slot] = [kind |-> "next", stream |-> s, arg |-> n, at |-> "waiting"]
    BY <1>1 DEF Waiting
  <2>2. call'[slot] \in Calls
    BY <2>1 DEF Calls
  <2>3. ASSUME NEW other \in Slots \ {slot}
        PROVE  call'[other] \in Calls /\ Keeps(other)
    <3>1. call[other] \in Calls
      BY DEF Typed
    <3>2. CASE call[other].stream = s /\ call[other].at = "waiting"
      <4>1. call'[other] = [call[other] EXCEPT !.at = "forgotten"]
        BY <1>1, <3>2 DEF Waiting
      <4> QED
        BY <3>1, <3>2, <4>1 DEF Calls, Keeps
    <3>3. CASE ~(call[other].stream = s /\ call[other].at = "waiting")
      <4>1. call'[other] = call[other]
        BY <1>1, <3>3 DEF Waiting
      <4> QED
        BY <3>1, <4>1 DEF Keeps
    <3> QED
      BY <3>2, <3>3
  <2>4. call' = [other \in Slots |-> call'[other]]
    BY <1>1 DEF Waiting
  <2>5. call' \in [Slots -> Calls]
    BY <2>2, <2>3, <2>4
  <2> QED
    BY <2>1, <2>3, <2>5 DEF Starts
<1>2. CASE call' = [call EXCEPT ![slot] = [kind |-> "next", stream |-> s, arg |-> n, at |-> "woken"]]
  <2>1. [kind |-> "next", stream |-> s, arg |-> n, at |-> "woken"] \in Calls
    BY DEF Calls
  <2> QED
    BY <1>2, <2>1 DEF Starts, Typed, Keeps
<1> QED
  BY <1>1, <1>2

(* What a step does of the calls.                                          *)
LEMMA StepOfCalls ==
  ASSUME StreamsAssumption, Typed, [Next]_vars
  PROVE  \/ CallsKept
         \/ \E slot \in Slots : EndsCall(slot)
         \/ \E slot \in Slots, n \in Nat : \/ Chunk(slot) /\ \E at \in {"feeds", "waits"} : Starts(slot, "chunk", open, n, at)
                                           \/ End(slot) /\ Starts(slot, "end", open, n, "feeds")
                                           \/ Next_(slot) /\ \E at \in {"waiting", "woken"} : Starts(slot, "next", open, n, at)
<1>0. open \in 0..MaxBegins
  BY DEF Typed, StreamsTyped, StreamsAssumption, ProxyStreamsAssumption
<1>1. CASE Begin \/ HookFindsNone \/ GivesUp \/ UNCHANGED vars
  BY <1>1, UnchangedKeeps DEF Begin, HookFindsNone, GivesUp, vars
<1>2. CASE Abort \/ Sweep
  BY <1>2, WakesKeep DEF Abort, Sweep, Aborted
<1>3. ASSUME NEW s \in Streams, Collect(s) \/ CollectEnds(s)
      PROVE  CallsKept
  BY <1>3, WakesKeep DEF Collect, CollectEnds
<1>4. ASSUME NEW slot \in Slots, Chunk(slot)
      PROVE  \E n \in Nat, at \in {"feeds", "waits"} : Starts(slot, "chunk", open, n, at)
  <2>1. hook.taken \in Nat
    BY DEF Typed, HookTyped, Hooks
  <2>2. PICK at \in {"feeds", "waits"} : Asks(slot, "chunk", hook.taken, at)
    BY <1>4 DEF Chunk
  <2> QED
    BY <1>0, <2>1, <2>2, AsksStarts
<1>5. ASSUME NEW slot \in Slots, End(slot)
      PROVE  Starts(slot, "end", open, 0, "feeds")
  BY <1>0, <1>5, AsksStarts DEF End
<1>6. ASSUME NEW slot \in Slots, Next_(slot)
      PROVE  \E n \in Nat, at \in {"waiting", "woken"} : Starts(slot, "next", open, n, at)
  <2>1. Len(hook.has) \in Nat
    BY DEF Typed, HookTyped, Hooks
  <2>2. call[slot] = Free /\
        (\/ call' = Waiting(slot, open, Len(hook.has))
         \/ call' = [call EXCEPT ![slot] = [kind |-> "next", stream |-> open, arg |-> Len(hook.has), at |-> "woken"]])
    BY <1>6, Zenon DEF Next_
  <2> QED
    BY <1>0, <2>1, <2>2, WaitingStarts
<1>7. ASSUME NEW slot \in Slots, Serves(slot)
      PROVE  EndsCall(slot)
  BY <1>7, AnswersEndsCall DEF Serves, Feed, AgainTaken, Answer
<1> QED
  BY <1>1, <1>2, <1>3, <1>4, <1>5, <1>6, <1>7 DEF Next
-----------------------------------------------------------------------------
LEMMA StreamsInitially ==
  ASSUME StreamsAssumption, Init
  PROVE  StreamsInv
<1> USE DEF Init, Each, Idle
<1>0. 0 \in 0..MaxBegins /\ 0 \in 0..MaxChunks /\ Streams \subseteq Nat
  BY DEF StreamsAssumption, ProxyStreamsAssumption, Streams
<1>1. Typed
  BY <1>0, FreeCall DEF Typed, StreamsTyped, FeedsTyped, OutputsTyped, HookTyped, Hooks
<1>2. \A slot \in Slots : call[slot].at = "free" /\ call[slot] = Free
  BY FreeCall
<1>3. CallsAgree
  BY <1>2 DEF CallsAgree
<1>4. HookAgrees
  BY <1>2, FreeCall DEF HookAgrees
<1>5. \A s \in Streams : Len(feeding[s]) = 0 /\ Len(has[s]) = 0
  OBVIOUS
<1>6. LockIsHeld
  BY <1>2, <1>5 DEF LockIsHeld
<1>7. ASSUME NEW s \in Streams PROVE FedInOrder(s, 0)
  <2>1. hook.stream # s
    BY <1>7 DEF Streams
  <2> QED
    BY <1>5, <2>1 DEF FedInOrder
<1>8. PollsAgree
  BY DEF PollsAgree, HookHasOutputsInOrder
<1> QED
  BY <1>1, <1>3, <1>4, <1>6, <1>7, <1>8 DEF StreamsInv, FedAgrees

LEMMA HookStaysTyped ==
  ASSUME StreamsAssumption, Typed
  PROVE  /\ Idle \in Hooks /\ \A n \in 0..MaxBegins : [Idle EXCEPT !.stream = n] \in Hooks
         /\ [hook EXCEPT !.ended = TRUE] \in Hooks
         /\ \A n \in Nat : [hook EXCEPT !.taken = n] \in Hooks
         /\ \A q \in Seq(Outputs) : [hook EXCEPT !.has = @ \o q] \in Hooks
<1>1. <<>> \in Seq(Outputs) /\ 0 \in 0..MaxBegins
  BY DEF StreamsAssumption, ProxyStreamsAssumption
<1>2. hook \in Hooks
  BY DEF Typed, HookTyped
<1>3. Idle \in Hooks /\ \A n \in 0..MaxBegins : [Idle EXCEPT !.stream = n] \in Hooks
  BY <1>1 DEF Idle, Hooks
<1>4. /\ [hook EXCEPT !.ended = TRUE] \in Hooks
      /\ \A n \in Nat : [hook EXCEPT !.taken = n] \in Hooks
  BY <1>2 DEF Hooks
<1>5. ASSUME NEW q \in Seq(Outputs)
      PROVE  [hook EXCEPT !.has = @ \o q] \in Hooks
  <2>1. hook.has \o q \in Seq(Outputs)
    BY <1>2, ConcatProperties DEF Hooks
  <2> QED
    BY <1>2, <2>1 DEF Hooks
<1> QED
  BY <1>3, <1>4, <1>5

LEMMA StreamsStayTyped ==
  ASSUME StreamsAssumption, Typed, HookAgrees, CallsAgree, LockIsHeld, [Next]_vars
  PROVE  Typed'
<1>0. /\ MaxBegins \in Nat /\ MaxChunks \in Nat /\ Streams = 1..MaxBegins
      /\ open \in 0..MaxBegins /\ (open # 0 => open \in Streams)
  BY DEF Typed, StreamsTyped, StreamsAssumption, ProxyStreamsAssumption, Streams
<1>1. call' \in [Slots -> Calls]
  BY StepOfCalls DEF CallsKept, EndsCall, Starts
<1>2. StreamsTyped /\ FeedsTyped /\ OutputsTyped /\ HookTyped
  BY DEF Typed
<1>3. /\ UNCHANGED feedVars => FeedsTyped'
      /\ UNCHANGED outputVars => OutputsTyped'
      /\ UNCHANGED <<streamVars, closed, done>> => StreamsTyped'
      /\ UNCHANGED hookVars => HookTyped'
  BY <1>2 DEF FeedsTyped, OutputsTyped, StreamsTyped, HookTyped, feedVars, outputVars, streamVars,
              hookVars
<1>4. CASE Begin
  <2>1. begun + 1 \in 0..MaxBegins /\ begun + 1 \in 0..(begun + 1)
    BY <1>0, <1>2, <1>4 DEF Begin, StreamsTyped
  <2>2. HookTyped'
    BY <1>2, <1>4, <2>1, HookStaysTyped DEF Begin, HookTyped
  <2>3. StreamsTyped'
    BY <1>2, <1>4, <2>1 DEF Begin, StreamsTyped
  <2> QED
    BY <1>1, <1>3, <1>4, <2>2, <2>3 DEF Begin, Typed
<1>5. CASE HookFindsNone
  <2>1. HookTyped'
    BY <1>2, <1>5, HookStaysTyped DEF HookFindsNone, HookTyped
  <2> QED
    BY <1>1, <1>3, <1>5, <2>1 DEF HookFindsNone, Typed
<1>6. CASE GivesUp
  <2>1. HookTyped'
    BY <1>2, <1>6 DEF GivesUp, GivesUpFeeding, GivesUpPolling, HookTyped
  <2> QED
    BY <1>1, <1>3, <1>6, <2>1 DEF GivesUp, Typed
<1>7. ASSUME Aborted(open), open # 0, HookTyped' PROVE Typed'
  <2>1. closed' \in [Streams -> BOOLEAN] /\ done' \in [Streams -> BOOLEAN]
    BY <1>2, <1>7 DEF Aborted, StreamsTyped
  <2>2. StreamsTyped'
    BY <1>2, <1>7, <2>1 DEF Aborted, StreamsTyped
  <2> QED
    BY <1>1, <1>3, <1>7, <2>2 DEF Aborted, Typed
<1>8. CASE Abort
  <2>1. HookTyped'
    BY <1>8, HookStaysTyped DEF Abort, HookTyped
  <2> QED
    BY <1>7, <1>8, <2>1 DEF Abort
<1>9. CASE Sweep
  BY <1>3, <1>7, <1>9 DEF Sweep
<1>10. ASSUME NEW s \in Streams, Collect(s)
       PROVE  Typed'
  <2>1. given' \in [Streams -> Nat] /\ kept' \in [Streams -> Nat]
    BY <1>2, <1>10 DEF Collect, OutputsTyped
  <2>2. OutputsTyped'
    BY <1>2, <1>10, <2>1 DEF Collect, OutputsTyped
  <2> QED
    BY <1>1, <1>3, <1>10, <2>2 DEF Collect, Typed
<1>11. ASSUME NEW s \in Streams, CollectEnds(s)
       PROVE  Typed'
  <2>1. failed' \in [Streams -> BOOLEAN]
    <3>1. [failed EXCEPT ![s] = TRUE] \in [Streams -> BOOLEAN] /\ failed \in [Streams -> BOOLEAN]
      BY <1>2 DEF OutputsTyped
    <3>2. failed' = failed \/ failed' = [failed EXCEPT ![s] = TRUE]
      BY <1>11 DEF CollectEnds
    <3> QED
      BY <3>1, <3>2
  <2>2. closed' \in [Streams -> BOOLEAN] /\ done' \in [Streams -> BOOLEAN]
    BY <1>2, <1>11 DEF CollectEnds, StreamsTyped
  <2>3. OutputsTyped' /\ StreamsTyped'
    BY <1>2, <1>11, <2>1, <2>2 DEF CollectEnds, OutputsTyped, StreamsTyped, streamVars
  <2> QED
    BY <1>1, <1>3, <1>11, <2>3 DEF CollectEnds, Typed
<1>12. ASSUME NEW slot \in Slots, Chunk(slot)
       PROVE  Typed'
  <2>1. open \in Streams /\ hook.taken \in Nat /\ hook.taken < MaxChunks
    BY <1>0, <1>2, <1>12 DEF Chunk, HookTyped, Hooks
  <2>2. \/ UNCHANGED <<chunks, feeding>>
        \/ /\ hook.taken = chunks[open]
           /\ chunks' = [chunks EXCEPT ![open] = @ + 1]
           /\ feeding' = [feeding EXCEPT ![open] = Append(@, slot)]
    BY <1>12 DEF Chunk
  <2>3. chunks' \in [Streams -> 0..MaxChunks]
    <3>1. CASE UNCHANGED chunks
      BY <1>2, <3>1 DEF FeedsTyped
    <3>2. CASE hook.taken = chunks[open] /\ chunks' = [chunks EXCEPT ![open] = @ + 1]
      <4>1. chunks[open] + 1 \in 0..MaxChunks
        BY <1>0, <2>1, <3>2
      <4> QED
        BY <1>2, <3>2, <4>1 DEF FeedsTyped
    <3> QED
      BY <2>2, <3>1, <3>2
  <2>4. feeding' \in [Streams -> Seq(Slots)]
    <3>1. Append(feeding[open], slot) \in Seq(Slots)
      BY <1>2, <2>1, AppendProperties DEF FeedsTyped
    <3> QED
      BY <1>2, <2>2, <3>1 DEF FeedsTyped
  <2>5. FeedsTyped'
    BY <1>2, <1>12, <2>3, <2>4 DEF Chunk, FeedsTyped
  <2>6. HookTyped'
    BY <1>2, <1>12 DEF Chunk, HookTyped
  <2> QED
    BY <1>1, <1>3, <1>12, <2>5, <2>6 DEF Chunk, Typed
<1>13. ASSUME NEW slot \in Slots, End(slot)
       PROVE  Typed'
  <2>1. open \in Streams
    BY <1>0, <1>13 DEF End
  <2>2. feeding' \in [Streams -> Seq(Slots)]
    <3>1. Append(feeding[open], slot) \in Seq(Slots)
      BY <1>2, <2>1, AppendProperties DEF FeedsTyped
    <3> QED
      BY <1>2, <1>13, <3>1 DEF End, FeedsTyped
  <2>3. HookTyped'
    BY <1>2, <1>13, HookStaysTyped DEF End, HookTyped
  <2>4. FeedsTyped'
    BY <1>2, <1>13, <2>2 DEF End, FeedsTyped
  <2> QED
    BY <1>1, <1>3, <1>13, <2>3, <2>4 DEF End, Typed
<1>14. ASSUME NEW slot \in Slots, Next_(slot)
       PROVE  Typed'
  <2> DEFINE after == Len(hook.has)
             out == Collected(open, after)
  <2>1. open \in Streams /\ after \in Nat /\ after >= base[open]
    BY <1>0, <1>2, <1>14 DEF Next_, HookTyped, Hooks
  <2>2. base[open] \in Nat /\ kept[open] \in Nat
    BY <1>2, <2>1 DEF OutputsTyped
  <2>3. out \in Nat /\ out <= kept[open]
    BY <2>1, <2>2 DEF Collected
  <2>4. base' = [base EXCEPT ![open] = @ + out] /\ kept' = [kept EXCEPT ![open] = @ - out]
    BY <1>14 DEF Next_
  <2> HIDE DEF out, after
  <2>5. base' \in [Streams -> Nat] /\ kept' \in [Streams -> Nat]
    <3>1. base[open] + out \in Nat /\ kept[open] - out \in Nat
      BY <2>2, <2>3
    <3> QED
      BY <1>2, <2>4, <3>1 DEF OutputsTyped
  <2>6. OutputsTyped'
    BY <1>2, <1>14, <2>5 DEF Next_, OutputsTyped
  <2>7. HookTyped'
    BY <1>2, <1>14 DEF Next_, HookTyped
  <2> QED
    BY <1>1, <1>3, <1>14, <2>6, <2>7 DEF Next_, Typed
<1>15. ASSUME NEW slot \in Slots, Answers(slot)
       PROVE  feeds' \in Slots \cup {"none"} /\ polls' \in Slots \cup {"none"}
  BY <1>2, <1>15 DEF Answers, HookTyped
<1>16. ASSUME NEW slot \in Slots, Feed(slot)
       PROVE  Typed'
  <2> DEFINE s == call[slot].stream
  <2>1. call[slot] \in Calls /\ call[slot].at = "feeds"
    BY <1>16 DEF Feed, Typed
  <2>2. s \in Streams /\ call[slot].arg \in Nat
    BY <1>0, <1>2, <2>1 DEF CallsAgree, StreamsTyped, Calls
  <2>3. feeding[s] \in Seq(Slots) /\ feeding[s] # <<>> /\ has[s] \in Seq(Nat)
    <3>1. feeding[s] \in Seq(Slots) /\ has[s] \in Seq(Nat)
      BY <1>2, <2>2 DEF FeedsTyped
    <3>2. PICK p \in 1..Len(feeding[s]) : feeding[s][p] = slot
      BY <2>1 DEF LockIsHeld
    <3> QED
      BY <3>1, <3>2
  <2>4. Tail(feeding[s]) \in Seq(Slots) /\ Append(has[s], call[slot].arg) \in Seq(Nat)
    BY <2>2, <2>3, HeadTailProperties, AppendProperties
  <2>5. /\ feeding' = [feeding EXCEPT ![s] = Tail(@)]
        /\ has' = has \/ has' = [has EXCEPT ![s] = Append(@, call[slot].arg)]
        /\ fed' = fed \/ fed' = [fed EXCEPT ![s] = @ \cup {call[slot].arg}]
        /\ ended' = ended \/ ended' = [ended EXCEPT ![s] = TRUE]
        /\ hook' = hook \/ hook' = [hook EXCEPT !.taken = call[slot].arg + 1]
        /\ UNCHANGED chunks
    BY <1>16 DEF Feed, Heard
  <2> HIDE DEF s
  <2>6. feeding' \in [Streams -> Seq(Slots)] /\ has' \in [Streams -> Seq(Nat)]
    BY <1>2, <2>2, <2>4, <2>5 DEF FeedsTyped
  <2>7. fed' \in [Streams -> SUBSET Nat] /\ ended' \in [Streams -> BOOLEAN]
    <3>1. fed \in [Streams -> SUBSET Nat] /\ ended \in [Streams -> BOOLEAN]
      BY <1>2 DEF FeedsTyped
    <3>2. fed[s] \cup {call[slot].arg} \in SUBSET Nat
      BY <2>2, <3>1
    <3>3. /\ [fed EXCEPT ![s] = @ \cup {call[slot].arg}] \in [Streams -> SUBSET Nat]
          /\ [ended EXCEPT ![s] = TRUE] \in [Streams -> BOOLEAN]
      BY <3>1, <3>2, Zenon
    <3> QED
      BY <2>5, <3>1, <3>3
  <2>8. HookTyped'
    <3>1. call[slot].arg + 1 \in Nat
      BY <2>2
    <3>2. Answers(slot)
      BY <1>16 DEF Feed
    <3> QED
      BY <1>2, <1>15, <2>5, <3>1, <3>2, HookStaysTyped DEF HookTyped
  <2>9. FeedsTyped'
    BY <1>2, <2>5, <2>6, <2>7 DEF FeedsTyped
  <2> QED
    BY <1>1, <1>3, <1>16, <2>8, <2>9 DEF Feed, Typed
<1>17. ASSUME NEW slot \in Slots, AgainTaken(slot)
       PROVE  Typed'
  <2>1. call[slot].arg + 1 \in Nat
    BY DEF Typed, Calls
  <2>2. HookTyped'
    BY <1>2, <1>15, <1>17, <2>1, HookStaysTyped DEF AgainTaken, Heard, HookTyped
  <2> QED
    BY <1>1, <1>3, <1>17, <2>2 DEF AgainTaken, Typed
<1>18. ASSUME NEW slot \in Slots, Answer(slot)
       PROVE  Typed'
  <2> DEFINE s == call[slot].stream
             outputs == [k \in 1..kept[s] |-> [stream |-> s, at |-> base[s] + k]]
  <2>1. call[slot] \in Calls /\ call[slot].at # "free"
    BY <1>18 DEF Answer, Typed
  <2>2. s \in Streams
    BY <1>0, <1>2, <2>1 DEF CallsAgree, StreamsTyped
  <2>3. outputs \in Seq(Outputs)
    <3>1. kept[s] \in Nat /\ base[s] \in Nat
      BY <1>2, <2>2 DEF OutputsTyped
    <3>2. \A k \in 1..kept[s] : [stream |-> s, at |-> base[s] + k] \in Outputs
      BY <2>2, <3>1 DEF Outputs
    <3> QED
      BY <3>1, <3>2
  <2>4. /\ hook' = hook \/ hook' = [hook EXCEPT !.has = @ \o outputs]
        /\ open' = 0 \/ open' = open
    BY <1>18 DEF Answer
  <2> HIDE DEF outputs
  <2>5. HookTyped'
    BY <1>2, <1>15, <1>18, <2>3, <2>4, HookStaysTyped DEF Answer, HookTyped
  <2>6. StreamsTyped'
    BY <1>2, <1>18, <2>4 DEF Answer, StreamsTyped
  <2> QED
    BY <1>1, <1>3, <1>18, <2>5, <2>6 DEF Answer, Typed
<1>19. CASE UNCHANGED vars
  BY <1>1, <1>3, <1>19 DEF vars, Typed
<1> QED
  BY <1>4, <1>5, <1>6, <1>8, <1>9, <1>10, <1>11, <1>12, <1>13, <1>14, <1>16, <1>17, <1>18, <1>19
     DEF Next, Serves
-----------------------------------------------------------------------------
LEMMA BeginCounts ==
  ASSUME StreamsAssumption, Typed, [Next]_vars
  PROVE  begun \in Nat /\ (begun' = begun \/ (Begin /\ begun' = begun + 1))
<1>1. begun \in Nat
  BY DEF Typed, StreamsTyped, StreamsAssumption, ProxyStreamsAssumption
<1>2. ASSUME HookFindsNone \/ Abort \/ Sweep \/ GivesUp \/ UNCHANGED vars
      PROVE  begun' = begun
  BY <1>2 DEF HookFindsNone, Abort, Sweep, Aborted, GivesUp, vars, streamVars
<1>3. ASSUME NEW slot \in Slots, Chunk(slot) \/ End(slot) \/ Next_(slot)
      PROVE  begun' = begun
  BY <1>3 DEF Chunk, End, Next_, streamVars
<1>4. ASSUME NEW slot \in Slots, Serves(slot)
      PROVE  begun' = begun
  BY <1>4 DEF Serves, Feed, AgainTaken, Answer, streamVars
<1>5. ASSUME NEW s \in Streams, Collect(s) \/ CollectEnds(s)
      PROVE  begun' = begun
  BY <1>5 DEF Collect, CollectEnds, streamVars
<1>6. Begin => begun' = begun + 1
  BY DEF Begin
<1> QED
  BY <1>1, <1>2, <1>3, <1>4, <1>5, <1>6 DEF Next

LEMMA CallsStayAgreed ==
  ASSUME StreamsAssumption, Typed, CallsAgree, [Next]_vars
  PROVE  CallsAgree'
<1>1. begun \in Nat /\ begun' \in Nat /\ begun <= begun'
  BY BeginCounts
<1>2. ASSUME NEW slot \in Slots, Keeps(slot), call' \in [Slots -> Calls]
      PROVE  /\ call'[slot].at = "free" => call'[slot] = Free
             /\ call'[slot].at # "free" => call'[slot].stream \in 1..begun'
             /\ call'[slot].at = "feeds" => call'[slot].kind \in {"chunk", "end"}
  <2>1. /\ call[slot].at = "free" => call[slot] = Free
        /\ call[slot].at # "free" => call[slot].stream \in 1..begun
        /\ call[slot].at = "feeds" => call[slot].kind \in {"chunk", "end"}
    BY DEF CallsAgree
  <2>2. CASE call'[slot].at = "free"
    BY <1>2, <2>1, <2>2 DEF Keeps
  <2>3. CASE call'[slot].at # "free" /\ call[slot].at # "free"
    <3>1. call'[slot].stream \in 1..begun'
      BY <1>1, <1>2, <2>1, <2>3 DEF Keeps
    <3> QED
      BY <1>2, <2>1, <2>3, <3>1 DEF Keeps
  <2> QED
    BY <1>2, <2>2, <2>3 DEF Keeps
<1>3. ASSUME NEW slot \in Slots, NEW kind \in {"chunk", "end", "next"}, NEW n,
             NEW at \in {"feeds", "waits", "waiting", "woken"},
             Starts(slot, kind, open, n, at), open # 0, at = "feeds" => kind # "next"
      PROVE  CallsAgree'
  <2>1. open \in 1..begun
    BY <1>1, <1>3 DEF Typed, StreamsTyped
  <2>2. /\ call'[slot].at = "free" => call'[slot] = Free
        /\ call'[slot].at # "free" => call'[slot].stream \in 1..begun'
        /\ call'[slot].at = "feeds" => call'[slot].kind \in {"chunk", "end"}
    BY <1>1, <1>3, <2>1 DEF Starts
  <2> QED
    BY <1>2, <1>3, <2>2 DEF Starts, CallsAgree
<1>4. CASE CallsKept
  BY <1>2, <1>4 DEF CallsKept, CallsAgree
<1>5. ASSUME NEW slot \in Slots, EndsCall(slot)
      PROVE  CallsAgree'
  BY <1>2, <1>5, FreeCall DEF EndsCall, CallsAgree
<1>6. \A slot \in Slots : Chunk(slot) \/ End(slot) \/ Next_(slot) => open # 0
  BY DEF Chunk, End, Next_
<1> QED
  BY <1>3, <1>4, <1>5, <1>6, StepOfCalls

(* The hook keeps its stream, and what it waits for, or asks for more.     *)
HookGoesOn ==
  /\ hook'.stream = hook.stream /\ (open' = open \/ open' = 0)
  /\ hook'.ended = hook.ended \/ (hook'.ended /\ \E slot \in Slots : End(slot))
  /\ \/ ended' = ended
     \/ \E slot \in Slots : /\ call[slot].at = "feeds" /\ call[slot].kind = "end"
                           /\ ended' = [ended EXCEPT ![call[slot].stream] = TRUE]
  /\ feeds' # "none" =>
       \/ feeds' = feeds /\ \A slot \in Slots : EndsCall(slot) => slot # feeds
       \/ \E slot \in Slots : feeds' = slot /\ (Chunk(slot) \/ End(slot))
  /\ polls' # "none" =>
       \/ polls' = polls /\ \A slot \in Slots : EndsCall(slot) => slot # polls
       \/ \E slot \in Slots : polls' = slot /\ Next_(slot)

(* What a step does of the hook and of what its id names.                  *)
LEMMA StepOfHook ==
  ASSUME StreamsAssumption, Typed, HookAgrees, [Next]_vars
  PROVE  \/ Begin
         \/ hook' = Idle /\ open' = 0 /\ feeds' = "none" /\ polls' = "none" /\ ended' = ended
         \/ HookGoesOn
<1>0. hook \in Hooks /\ "none" \notin Slots
  BY DEF Typed, HookTyped, StreamsAssumption
<1>1. ASSUME CallsKept
      PROVE  \A slot \in Slots : ~EndsCall(slot)
  BY <1>1, FreeCall DEF CallsKept, EndsCall, Keeps
<1>2. ASSUME NEW slot \in Slots, NEW kind, NEW n, NEW at, at # "free", Starts(slot, kind, open, n, at)
      PROVE  \A ending \in Slots : ~EndsCall(ending)
  <2>1. call[slot].at = "free"
    BY <1>2, FreeCall DEF Starts
  <2> QED
    BY <1>2, <2>1, FreeCall DEF Starts, EndsCall, Keeps
<1>3. ASSUME NEW slot \in Slots, EndsCall(slot)
      PROVE  \A ending \in Slots : EndsCall(ending) => ending = slot
  BY <1>3, FreeCall DEF EndsCall, Keeps
<1>4. ASSUME HookFindsNone \/ Abort
      PROVE  hook' = Idle /\ open' = 0 /\ feeds' = "none" /\ polls' = "none" /\ ended' = ended
  BY <1>4 DEF HookFindsNone, Abort, Aborted, feedVars, streamVars
<1>5. ASSUME Sweep \/ GivesUp \/ UNCHANGED vars
      PROVE  HookGoesOn
  <2>1. CallsKept
    BY <1>5, WakesKeep, UnchangedKeeps DEF Sweep, Aborted, GivesUp, vars
  <2>2. /\ hook' = hook /\ (open' = open \/ open' = 0) /\ ended' = ended
        /\ (feeds' = feeds \/ feeds' = "none") /\ (polls' = polls \/ polls' = "none")
    BY <1>5 DEF Sweep, Aborted, GivesUp, GivesUpFeeding, GivesUpPolling, vars, streamVars, hookVars,
                feedVars
  <2> QED
    BY <1>1, <2>1, <2>2 DEF HookGoesOn
<1>6. ASSUME NEW s \in Streams, Collect(s) \/ CollectEnds(s)
      PROVE  HookGoesOn
  <2>1. CallsKept
    BY <1>6, WakesKeep DEF Collect, CollectEnds
  <2>2. /\ hook' = hook /\ open' = open /\ ended' = ended /\ feeds' = feeds /\ polls' = polls
    BY <1>6 DEF Collect, CollectEnds, streamVars, hookVars, feedVars
  <2> QED
    BY <1>1, <2>1, <2>2 DEF HookGoesOn
<1>7. ASSUME NEW slot \in Slots, Chunk(slot)
      PROVE  HookGoesOn
  <2>1. /\ hook' = hook /\ open' = open /\ ended' = ended /\ feeds' = slot /\ polls' = polls
    BY <1>7 DEF Chunk, streamVars
  <2>2. \A ending \in Slots : ~EndsCall(ending)
    <3>1. PICK at \in {"feeds", "waits"} : Asks(slot, "chunk", hook.taken, at)
      BY <1>7 DEF Chunk
    <3>2. open \in 0..MaxBegins /\ hook.taken \in Nat
      BY <1>0 DEF Typed, StreamsTyped, StreamsAssumption, ProxyStreamsAssumption, Hooks
    <3>3. Starts(slot, "chunk", open, hook.taken, at)
      BY <3>1, <3>2, AsksStarts
    <3> QED
      BY <1>2, <3>3
  <2> QED
    BY <1>7, <2>1, <2>2 DEF HookGoesOn
<1>8. ASSUME NEW slot \in Slots, End(slot)
      PROVE  HookGoesOn
  <2>1. /\ hook' = [hook EXCEPT !.ended = TRUE] /\ open' = open /\ ended' = ended
        /\ feeds' = slot /\ polls' = polls
    BY <1>8 DEF End, streamVars
  <2>2. \A ending \in Slots : ~EndsCall(ending)
    <3>1. open \in 0..MaxBegins
      BY DEF Typed, StreamsTyped, StreamsAssumption, ProxyStreamsAssumption
    <3>2. Starts(slot, "end", open, 0, "feeds")
      BY <1>8, <3>1, AsksStarts DEF End
    <3> QED
      BY <1>2, <3>2
  <2>3. hook'.ended /\ hook'.stream = hook.stream
    BY <1>0, <2>1 DEF Hooks
  <2> QED
    BY <1>8, <2>1, <2>2, <2>3 DEF HookGoesOn
<1>9. ASSUME NEW slot \in Slots, Next_(slot)
      PROVE  HookGoesOn
  <2>1. /\ hook' = hook /\ open' = open /\ ended' = ended /\ feeds' = feeds /\ polls' = slot
    BY <1>9 DEF Next_, streamVars, feedVars
  <2>2. \A ending \in Slots : ~EndsCall(ending)
    <3>1. open \in 0..MaxBegins /\ Len(hook.has) \in Nat
      BY <1>0 DEF Typed, StreamsTyped, StreamsAssumption, ProxyStreamsAssumption, Hooks
    <3>2. call[slot] = Free /\
          (\/ call' = Waiting(slot, open, Len(hook.has))
           \/ call' = [call EXCEPT ![slot] = [kind |-> "next", stream |-> open, arg |-> Len(hook.has), at |-> "woken"]])
      BY <1>9, Zenon DEF Next_
    <3>3. PICK at \in {"waiting", "woken"} : Starts(slot, "next", open, Len(hook.has), at)
      BY <3>1, <3>2, WaitingStarts
    <3> QED
      BY <1>2, <3>3
  <2> QED
    BY <1>9, <2>1, <2>2 DEF HookGoesOn
<1>10. ASSUME NEW slot \in Slots, Serves(slot)
       PROVE  HookGoesOn
  <2>1. Answers(slot) /\ call[slot].at # "free"
    BY <1>10 DEF Serves, Feed, AgainTaken, Answer
  <2>2. EndsCall(slot)
    BY <2>1, AnswersEndsCall
  <2>3. /\ feeds' # "none" => feeds' = feeds /\ feeds # slot
        /\ polls' # "none" => polls' = polls /\ polls # slot
    BY <2>1 DEF Answers
  <2>4. hook'.stream = hook.stream /\ hook'.ended = hook.ended
    <3>1. \/ hook' = hook
          \/ \E n : hook' = [hook EXCEPT !.taken = n]
          \/ \E q : hook' = [hook EXCEPT !.has = q]
      BY <1>10 DEF Serves, Feed, AgainTaken, Answer, Heard
    <3> QED
      BY <1>0, <3>1 DEF Hooks
  <2>5. open' = open \/ open' = 0
    BY <1>10 DEF Serves, Feed, AgainTaken, Answer, streamVars
  <2>6. \/ ended' = ended
        \/ /\ call[slot].at = "feeds" /\ call[slot].kind = "end"
           /\ ended' = [ended EXCEPT ![call[slot].stream] = TRUE]
    BY <1>10 DEF Serves, Feed, AgainTaken, Answer, feedVars
  <2> QED
    BY <1>3, <2>2, <2>3, <2>4, <2>5, <2>6 DEF HookGoesOn
<1> QED
  BY <1>4, <1>5, <1>6, <1>7, <1>8, <1>9, <1>10 DEF Next

LEMMA HookStaysAgreed ==
  ASSUME StreamsAssumption, Typed, CallsAgree, HookAgrees, [Next]_vars
  PROVE  HookAgrees'
<1>0. /\ hook \in Hooks /\ begun \in Nat /\ "none" \notin Slots
      /\ ended \in [Streams -> BOOLEAN] /\ call \in [Slots -> Calls] /\ Streams = 1..MaxBegins
      /\ begun \in 0..MaxBegins /\ MaxBegins \in Nat
  BY DEF Typed, HookTyped, FeedsTyped, StreamsTyped, StreamsAssumption, ProxyStreamsAssumption, Streams
<1>1. \A slot \in Slots : call[slot].at # "free" => call[slot].stream \in Streams /\ call[slot].stream <= begun
  BY <1>0 DEF CallsAgree
<1>2. CASE Begin
  <2>1. /\ hook' = [Idle EXCEPT !.stream = begun + 1] /\ open' = begun + 1 /\ begun' = begun + 1
        /\ hook.stream = 0 /\ UNCHANGED <<ended, call, feeds, polls>> /\ begun < MaxBegins
    BY <1>2 DEF Begin, feedVars
  <2>2. hook'.stream = begun + 1
    BY <2>1 DEF Idle
  <2>3. begun + 1 \in Streams /\ begun + 1 # 0 /\ begun + 1 > begun
    BY <1>0, <2>1
  <2>4. feeds = "none" /\ polls = "none"
    BY <2>1 DEF HookAgrees
  <2>5. \A slot \in Slots : call[slot].kind = "end" => call[slot].stream # begun + 1
    BY <1>0, <1>1, <2>3, FreeCall DEF CallsAgree
  <2>6. \A s \in Streams : s > begun => ~ended[s]
    BY DEF HookAgrees
  <2> QED
    BY <1>0, <2>1, <2>2, <2>3, <2>4, <2>5, <2>6 DEF HookAgrees
<1>3. CASE hook' = Idle /\ open' = 0 /\ feeds' = "none" /\ polls' = "none" /\ ended' = ended
  <2>1. hook'.stream = 0
    BY <1>3 DEF Idle
  <2>2. \A s \in Streams : s > begun' => ~ended[s]
    BY <1>0, BeginCounts DEF HookAgrees
  <2> QED
    BY <1>3, <2>1, <2>2 DEF HookAgrees
<1>4. ASSUME HookGoesOn
      PROVE  HookAgrees'
  <2> SUFFICES ASSUME begun' = begun, ~Begin PROVE HookAgrees'
    BY <1>2, BeginCounts
  <2>1. open' # 0 => open' = hook'.stream
    BY <1>4 DEF HookGoesOn, HookAgrees
  <2>2. hook'.stream # 0 => hook'.stream = begun'
    BY <1>4 DEF HookGoesOn, HookAgrees
  <2>3. \A slot \in Slots : Keeps(slot) \/ EndsCall(slot) \/
          \E kind \in {"chunk", "end", "next"}, n \in Nat, at \in {"feeds", "waits", "waiting", "woken"} :
             /\ Starts(slot, kind, open, n, at)
             /\ kind = "end" => End(slot)
    BY StepOfCalls DEF CallsKept, EndsCall, Starts
  <2>4. \A slot \in Slots : Chunk(slot) \/ End(slot) \/ Next_(slot) =>
          hook.stream # 0 /\ open # 0 /\ call'[slot].stream = open
    <3>1. ASSUME NEW slot \in Slots, Chunk(slot) \/ End(slot)
          PROVE  hook.stream # 0 /\ open # 0 /\ call'[slot].stream = open
      <4>1. PICK kind, n, at : Asks(slot, kind, n, at)
        BY <3>1 DEF Chunk, End
      <4>2. call'[slot].stream = open
        BY <1>0, <4>1 DEF Asks
      <4> QED
        BY <3>1, <4>2 DEF Chunk, End
    <3>2. ASSUME NEW slot \in Slots, Next_(slot)
          PROVE  hook.stream # 0 /\ open # 0 /\ call'[slot].stream = open
      <4>1. /\ hook.stream # 0 /\ open # 0
            /\ \/ call' = Waiting(slot, open, Len(hook.has))
               \/ call' = [call EXCEPT ![slot] = [kind |-> "next", stream |-> open, arg |-> Len(hook.has), at |-> "woken"]]
        BY <3>2, Zenon DEF Next_
      <4>2. call'[slot].stream = open
        BY <1>0, <4>1 DEF Waiting
      <4> QED
        BY <4>1, <4>2
    <3> QED
      BY <3>1, <3>2
  <2>5. feeds' # "none" => hook'.stream # 0 /\ call'[feeds'].stream = hook'.stream
    <3> SUFFICES ASSUME feeds' # "none"
                 PROVE  hook'.stream # 0 /\ call'[feeds'].stream = hook'.stream
      OBVIOUS
    <3>1. CASE feeds' = feeds /\ \A slot \in Slots : EndsCall(slot) => slot # feeds
      <4>1. feeds \in Slots /\ hook.stream # 0 /\ call[feeds].stream = hook.stream
        BY <3>1 DEF HookAgrees, Typed, HookTyped
      <4>2. call[feeds] # Free
        BY <4>1, FreeCall
      <4>3. Keeps(feeds)
        BY <2>3, <3>1, <4>1, <4>2 DEF Starts
      <4> QED
        BY <1>4, <3>1, <4>1, <4>3 DEF HookGoesOn, Keeps
    <3>2. CASE \E slot \in Slots : feeds' = slot /\ (Chunk(slot) \/ End(slot))
      BY <1>4, <2>4, <3>2 DEF HookGoesOn, HookAgrees
    <3> QED
      BY <1>4, <3>1, <3>2 DEF HookGoesOn
  <2>6. polls' # "none" => hook'.stream # 0 /\ call'[polls'].stream = hook'.stream
    <3> SUFFICES ASSUME polls' # "none"
                 PROVE  hook'.stream # 0 /\ call'[polls'].stream = hook'.stream
      OBVIOUS
    <3>1. CASE polls' = polls /\ \A slot \in Slots : EndsCall(slot) => slot # polls
      <4>1. polls \in Slots /\ hook.stream # 0 /\ call[polls].stream = hook.stream
        BY <3>1 DEF HookAgrees, Typed, HookTyped
      <4>2. call[polls] # Free
        BY <4>1, FreeCall
      <4>3. Keeps(polls)
        BY <2>3, <3>1, <4>1, <4>2 DEF Starts
      <4> QED
        BY <1>4, <3>1, <4>1, <4>3 DEF HookGoesOn, Keeps
    <3>2. CASE \E slot \in Slots : polls' = slot /\ Next_(slot)
      BY <1>4, <2>4, <3>2 DEF HookGoesOn, HookAgrees
    <3> QED
      BY <1>4, <3>1, <3>2 DEF HookGoesOn
  <2>7. ASSUME hook'.stream # 0, ~hook'.ended
        PROVE  /\ ~ended'[hook'.stream]
               /\ \A slot \in Slots : call'[slot].kind = "end" => call'[slot].stream # hook'.stream
    <3>1. /\ ~hook.ended /\ hook.stream # 0 /\ ~ended[hook.stream] /\ ~ \E slot \in Slots : End(slot)
          /\ \A slot \in Slots : call[slot].kind = "end" => call[slot].stream # hook.stream
      <4>1. ~hook.ended /\ hook.stream # 0
        BY <1>4, <2>7 DEF HookGoesOn
      <4>2. \A slot \in Slots : End(slot) => hook'.ended
        BY <1>0 DEF End, Hooks
      <4> QED
        BY <2>7, <4>1, <4>2 DEF HookAgrees
    <3>2. ~ended'[hook.stream]
      <4>1. CASE ended' = ended
        BY <3>1, <4>1
      <4>2. ASSUME NEW slot \in Slots, call[slot].at = "feeds", call[slot].kind = "end",
                   ended' = [ended EXCEPT ![call[slot].stream] = TRUE]
            PROVE  ~ended'[hook.stream]
        <5>1. call[slot].stream # hook.stream
          BY <3>1, <4>2
        <5> QED
          BY <3>1, <4>2, <5>1, <1>0
      <4> QED
        BY <1>4, <4>1, <4>2 DEF HookGoesOn
    <3>3. ASSUME NEW slot \in Slots, call'[slot].kind = "end"
          PROVE  call'[slot].stream # hook.stream
      <4>1. ~EndsCall(slot)
        BY <3>3, FreeCall DEF EndsCall
      <4>2. ASSUME NEW kind \in {"chunk", "end", "next"}, NEW n \in Nat,
                   NEW at \in {"feeds", "waits", "waiting", "woken"},
                   Starts(slot, kind, open, n, at), kind = "end" => End(slot)
            PROVE  FALSE
        <5>1. call'[slot].kind = kind
          BY <4>2 DEF Starts
        <5> QED
          BY <3>1, <3>3, <4>2, <5>1
      <4>3. Keeps(slot)
        BY <2>3, <4>1, <4>2
      <4> QED
        BY <3>1, <3>3, <4>3 DEF Keeps
    <3> QED
      BY <1>4, <3>2, <3>3 DEF HookGoesOn
  <2>8. \A s \in Streams : s > begun' => ~ended'[s]
    <3>1. \A s \in Streams : s > begun => ~ended[s]
      BY DEF HookAgrees
    <3> QED
      BY <1>0, <1>1, <1>4, <3>1 DEF HookGoesOn
  <2> QED
    BY <2>1, <2>2, <2>5, <2>6, <2>7, <2>8 DEF HookAgrees
<1> QED
  BY <1>2, <1>3, <1>4, StepOfHook
-----------------------------------------------------------------------------
(* Nothing is fed: the lock and the calls that wait for it stay, a stream  *)
(* is closed for good, and the hook learns only of chunks that were fed.   *)
Quiet ==
  /\ UNCHANGED feedVars
  /\ \A slot \in Slots : call[slot].at = "feeds" \/ call'[slot].at = "feeds" => Keeps(slot)
  /\ \A s \in Streams : closed[s] => closed'[s]
  /\ \A s \in Streams : hook'.stream = s =>
       \/ hook'.taken = 0
       \/ hook.stream = s /\ hook'.taken = hook.taken
       \/ \E k \in fed[s] : hook'.taken = k + 1

(* A call joins those that wait for the lock.                              *)
Joins(slot, kind, n) ==
  /\ Starts(slot, kind, open, n, "feeds") /\ open \in Streams
  /\ feeding' = [feeding EXCEPT ![open] = Append(@, slot)]
  /\ UNCHANGED <<fed, has, ended, closed>>
  /\ hook'.stream = hook.stream /\ hook'.taken = hook.taken
  /\ \/ /\ kind = "chunk" /\ n = chunks[open] /\ n = hook.taken /\ ~hook.ended
        /\ n < MaxChunks /\ chunks' = [chunks EXCEPT ![open] = @ + 1]
     \/ kind = "end" /\ chunks' = chunks

LEMMA StepOfFeeding ==
  ASSUME StreamsAssumption, Typed, HookAgrees, [Next]_vars
  PROVE  \/ Quiet
         \/ \E slot \in Slots, kind \in {"chunk", "end"}, n \in Nat : Joins(slot, kind, n)
         \/ \E slot \in Slots : Feed(slot) /\ EndsCall(slot)
<1>0. /\ hook \in Hooks /\ open \in 0..MaxBegins /\ closed \in [Streams -> BOOLEAN]
      /\ Streams = 1..MaxBegins /\ MaxBegins \in Nat /\ call \in [Slots -> Calls]
  BY DEF Typed, HookTyped, StreamsTyped, StreamsAssumption, ProxyStreamsAssumption, Streams
<1>1. ASSUME CallsKept, UNCHANGED feedVars, \A s \in Streams : closed[s] => closed'[s],
             \/ hook' = hook
             \/ hook'.taken = 0
      PROVE  Quiet
  BY <1>1 DEF Quiet, CallsKept
<1>2. Idle.taken = 0 /\ \A n : [Idle EXCEPT !.stream = n].taken = 0
  BY DEF Idle
<1>3. CASE Begin \/ HookFindsNone \/ GivesUp \/ UNCHANGED vars
  <2>1. CallsKept
    BY <1>3, UnchangedKeeps DEF Begin, HookFindsNone, GivesUp, vars
  <2>2. UNCHANGED feedVars /\ closed' = closed
    BY <1>3 DEF Begin, HookFindsNone, GivesUp, vars
  <2>3. hook' = hook \/ hook'.taken = 0
    BY <1>2, <1>3 DEF Begin, HookFindsNone, GivesUp, vars, hookVars
  <2> QED
    BY <1>1, <2>1, <2>2, <2>3
<1>4. CASE Abort \/ Sweep
  <2>1. CallsKept /\ UNCHANGED feedVars
    BY <1>4, WakesKeep DEF Abort, Sweep, Aborted
  <2>2. \A s \in Streams : closed[s] => closed'[s]
    BY <1>0, <1>4 DEF Abort, Sweep, Aborted
  <2>3. hook' = hook \/ hook'.taken = 0
    BY <1>2, <1>4 DEF Abort, Sweep, hookVars
  <2> QED
    BY <1>1, <2>1, <2>2, <2>3
<1>5. ASSUME NEW s \in Streams, Collect(s) \/ CollectEnds(s)
      PROVE  Quiet
  <2>1. CallsKept /\ UNCHANGED feedVars /\ hook' = hook
    BY <1>5, WakesKeep DEF Collect, CollectEnds, hookVars
  <2>2. \A z \in Streams : closed[z] => closed'[z]
    BY <1>0, <1>5 DEF Collect, CollectEnds
  <2> QED
    BY <1>1, <2>1, <2>2
<1>6. ASSUME NEW slot \in Slots, Chunk(slot)
      PROVE  Quiet \/ Joins(slot, "chunk", hook.taken)
  <2>1. /\ open \in Streams /\ hook.taken \in Nat /\ hook' = hook /\ ~hook.ended
        /\ UNCHANGED <<fed, has, ended, closed>> /\ hook.taken < MaxChunks
    BY <1>0, <1>6 DEF Chunk, Hooks
  <2>2. CASE Asks(slot, "chunk", hook.taken, "waits") /\ UNCHANGED <<chunks, feeding>>
    <3>1. Starts(slot, "chunk", open, hook.taken, "waits")
      BY <1>0, <2>1, <2>2, AsksStarts
    <3>2. \A other \in Slots : call[other].at = "feeds" \/ call'[other].at = "feeds" => Keeps(other)
      BY <3>1, FreeCall DEF Starts
    <3> QED
      BY <2>1, <2>2, <3>2 DEF Quiet, feedVars
  <2>3. CASE /\ hook.taken = chunks[open] /\ Asks(slot, "chunk", hook.taken, "feeds")
             /\ chunks' = [chunks EXCEPT ![open] = @ + 1]
             /\ feeding' = [feeding EXCEPT ![open] = Append(@, slot)]
    <3>1. Starts(slot, "chunk", open, hook.taken, "feeds")
      BY <1>0, <2>1, <2>3, AsksStarts
    <3> QED
      BY <2>1, <2>3, <3>1 DEF Joins
  <2> QED
    BY <1>6, <2>2, <2>3 DEF Chunk
<1>7. ASSUME NEW slot \in Slots, End(slot)
      PROVE  Joins(slot, "end", 0)
  <2>1. Starts(slot, "end", open, 0, "feeds") /\ open \in Streams
    BY <1>0, <1>7, AsksStarts DEF End
  <2>2. hook'.stream = hook.stream /\ hook'.taken = hook.taken
    BY <1>0, <1>7 DEF End, Hooks
  <2> QED
    BY <1>7, <2>1, <2>2 DEF End, Joins
<1>8. ASSUME NEW slot \in Slots, Next_(slot)
      PROVE  Quiet
  <2>1. UNCHANGED feedVars /\ hook' = hook /\ closed' = closed
    BY <1>8 DEF Next_
  <2>2. Len(hook.has) \in Nat
    BY <1>0 DEF Hooks
  <2>3. call[slot] = Free /\
        (\/ call' = Waiting(slot, open, Len(hook.has))
         \/ call' = [call EXCEPT ![slot] = [kind |-> "next", stream |-> open, arg |-> Len(hook.has), at |-> "woken"]])
    BY <1>8, Zenon DEF Next_
  <2>4. PICK at \in {"waiting", "woken"} : Starts(slot, "next", open, Len(hook.has), at)
    BY <1>0, <2>2, <2>3, WaitingStarts
  <2>5. \A other \in Slots : call[other].at = "feeds" \/ call'[other].at = "feeds" => Keeps(other)
    BY <2>4, FreeCall DEF Starts
  <2> QED
    BY <2>1, <2>5 DEF Quiet
<1>9. ASSUME NEW slot \in Slots, AgainTaken(slot) \/ Answer(slot)
      PROVE  Quiet
  <2>1. Answers(slot) /\ call[slot].at \notin {"free", "feeds"} /\ UNCHANGED feedVars /\ closed' = closed
    BY <1>9 DEF AgainTaken, Answer
  <2>2. EndsCall(slot)
    BY <2>1, AnswersEndsCall
  <2>3. \A other \in Slots : call[other].at = "feeds" \/ call'[other].at = "feeds" => Keeps(other)
    BY <2>1, <2>2, FreeCall DEF EndsCall
  <2>4. \/ hook' = hook
        \/ hook'.stream = hook.stream /\ hook'.taken = hook.taken
        \/ hook'.stream = hook.stream /\ \E k \in fed[hook.stream] : hook'.taken = k + 1
    <3>1. CASE AgainTaken(slot) /\ feeds = slot
      <4>1. hook' = [hook EXCEPT !.taken = call[slot].arg + 1] /\ call[slot].arg \in fed[call[slot].stream]
        BY <3>1 DEF AgainTaken, Heard, WasFed
      <4>2. call[slot].stream = hook.stream
        BY <3>1 DEF HookAgrees, StreamsAssumption
      <4>3. hook'.stream = hook.stream /\ hook'.taken = call[slot].arg + 1
        BY <1>0, <4>1 DEF Hooks
      <4> QED
        BY <4>1, <4>2, <4>3
    <3>2. CASE AgainTaken(slot) /\ feeds # slot
      BY <3>2 DEF AgainTaken, Heard
    <3>3. CASE Answer(slot)
      <4>1. hook' = hook \/ \E q : hook' = [hook EXCEPT !.has = q]
        BY <3>3 DEF Answer
      <4> QED
        BY <1>0, <4>1 DEF Hooks
    <3> QED
      BY <1>9, <3>1, <3>2, <3>3
  <2> QED
    BY <2>1, <2>3, <2>4 DEF Quiet
<1>10. ASSUME NEW slot \in Slots, Feed(slot)
       PROVE  EndsCall(slot)
  BY <1>10, AnswersEndsCall DEF Feed
<1> QED
  BY <1>0, <1>3, <1>4, <1>5, <1>6, <1>7, <1>8, <1>9, <1>10 DEF Next, Serves, Hooks

LEMMA AppendIs ==
  ASSUME NEW S, NEW q \in Seq(S), NEW x \in S
  PROVE  /\ Append(q, x) \in Seq(S) /\ Len(Append(q, x)) = Len(q) + 1
         /\ \A k \in 1..Len(q) : Append(q, x)[k] = q[k]
         /\ Append(q, x)[Len(q) + 1] = x
OBVIOUS

LEMMA TailIs ==
  ASSUME NEW S, NEW q \in Seq(S), Len(q) >= 1
  PROVE  /\ Tail(q) \in Seq(S) /\ Len(Tail(q)) = Len(q) - 1 /\ Head(q) = q[1]
         /\ \A k \in 1..Len(Tail(q)) : Tail(q)[k] = q[k + 1]
OBVIOUS

(* The holder of the lock is the first that waits for it.                  *)
LEMMA FeedingShifts ==
  ASSUME Typed, CallsAgree, LockIsHeld, StreamsAssumption, NEW slot \in Slots, Feed(slot), NEW s,
         s = call[slot].stream
  PROVE  /\ s \in Streams /\ call[slot].at = "feeds" /\ Len(feeding[s]) >= 1 /\ feeding[s][1] = slot
         /\ feeding' \in [Streams -> Seq(Slots)] /\ Len(feeding'[s]) = Len(feeding[s]) - 1
         /\ \A p \in 1..Len(feeding'[s]) : /\ feeding'[s][p] = feeding[s][p + 1]
                                           /\ p + 1 \in 1..Len(feeding[s])
                                           /\ feeding'[s][p] # slot
         /\ \A z \in Streams \ {s} : feeding'[z] = feeding[z]
<1>1. feeding \in [Streams -> Seq(Slots)] /\ call[slot].at = "feeds"
  BY DEF Typed, FeedsTyped, Feed
<1>2. s \in Streams
  BY <1>1 DEF CallsAgree, Typed, StreamsTyped, StreamsAssumption, ProxyStreamsAssumption, Streams
<1>3. Len(feeding[s]) \in Nat /\ feeding[s] \in Seq(Slots)
  BY <1>1, <1>2
<1>4. Len(feeding[s]) >= 1
  <2>1. PICK p \in 1..Len(feeding[s]) : feeding[s][p] = slot
    BY <1>1, <1>2 DEF LockIsHeld
  <2> QED
    BY <1>3, <2>1
<1>5. /\ Tail(feeding[s]) \in Seq(Slots) /\ Len(Tail(feeding[s])) = Len(feeding[s]) - 1
      /\ Head(feeding[s]) = feeding[s][1]
      /\ \A k \in 1..Len(Tail(feeding[s])) : Tail(feeding[s])[k] = feeding[s][k + 1]
  BY <1>3, <1>4, TailIs
<1>6. feeding[s][1] = slot /\ feeding' = [feeding EXCEPT ![s] = Tail(@)]
  BY <1>5 DEF Feed
<1>7. feeding'[s] = Tail(feeding[s]) /\ feeding' \in [Streams -> Seq(Slots)]
  BY <1>1, <1>2, <1>5, <1>6
<1>8. ASSUME NEW p \in 1..Len(feeding'[s])
      PROVE  /\ feeding'[s][p] = feeding[s][p + 1] /\ p + 1 \in 1..Len(feeding[s])
             /\ feeding'[s][p] # slot
  <2>1. feeding'[s][p] = feeding[s][p + 1] /\ p + 1 \in 1..Len(feeding[s]) /\ 1 \in 1..Len(feeding[s])
    BY <1>3, <1>5, <1>7, <1>8
  <2>2. \A q, r \in 1..Len(feeding[s]) : feeding[s][q] = feeding[s][r] => q = r
    BY <1>2 DEF LockIsHeld
  <2>3. p + 1 # 1
    BY <1>3, <1>5, <1>7
  <2> QED
    BY <1>6, <2>1, <2>2, <2>3
<1> QED
  BY <1>1, <1>2, <1>4, <1>5, <1>6, <1>7, <1>8

LEMMA LockStaysHeld ==
  ASSUME StreamsAssumption, Typed, CallsAgree, HookAgrees, LockIsHeld, [Next]_vars
  PROVE  LockIsHeld'
<1> DEFINE Held(s, p) ==
      /\ call'[feeding'[s][p]].at = "feeds" /\ call'[feeding'[s][p]].stream = s
      /\ \A q \in 1..Len(feeding'[s]) : feeding'[s][p] = feeding'[s][q] => p = q
    Holds(slot) == call'[slot].at = "feeds" =>
      \E p \in 1..Len(feeding'[call'[slot].stream]) : feeding'[call'[slot].stream][p] = slot
<1>0. feeding \in [Streams -> Seq(Slots)] /\ call \in [Slots -> Calls]
  BY DEF Typed, FeedsTyped
<1>1. \A s \in Streams : feeding[s] \in Seq(Slots) /\ Len(feeding[s]) \in Nat
                         /\ \A p \in 1..Len(feeding[s]) : feeding[s][p] \in Slots
  BY <1>0
<1>2. \A s \in Streams : \A p \in 1..Len(feeding[s]) :
        /\ call[feeding[s][p]].at = "feeds" /\ call[feeding[s][p]].stream = s
        /\ \A q \in 1..Len(feeding[s]) : feeding[s][p] = feeding[s][q] => p = q
  BY DEF LockIsHeld
<1>3. \A slot \in Slots : call[slot].at = "feeds" =>
        \E p \in 1..Len(feeding[call[slot].stream]) : feeding[call[slot].stream][p] = slot
  BY DEF LockIsHeld
<1>s. SUFFICES /\ \A s \in Streams : \A p \in 1..Len(feeding'[s]) : Held(s, p)
               /\ \A slot \in Slots : Holds(slot)
  BY DEF LockIsHeld
<1>4. CASE Quiet
  <2>1. feeding' = feeding
    BY <1>4 DEF Quiet, feedVars
  <2>2. ASSUME NEW s \in Streams, NEW p \in 1..Len(feeding'[s])
        PROVE  Held(s, p)
    <3>1. Keeps(feeding[s][p])
      BY <1>1, <1>2, <1>4, <2>1, <2>2 DEF Quiet
    <3> QED
      BY <1>2, <2>1, <3>1 DEF Keeps
  <2>3. ASSUME NEW slot \in Slots PROVE Holds(slot)
    BY <1>3, <1>4, <2>1 DEF Quiet, Keeps
  <2> QED
    BY <2>2, <2>3
<1>5. ASSUME NEW slot \in Slots, NEW kind \in {"chunk", "end"}, NEW n \in Nat, Joins(slot, kind, n)
      PROVE  /\ \A s \in Streams : \A p \in 1..Len(feeding'[s]) : Held(s, p)
             /\ \A other \in Slots : Holds(other)
  <2>1. /\ open \in Streams /\ feeding' = [feeding EXCEPT ![open] = Append(@, slot)]
        /\ call[slot].at = "free" /\ call'[slot].at = "feeds" /\ call'[slot].stream = open
        /\ \A other \in Slots \ {slot} : Keeps(other)
    BY <1>5, FreeCall DEF Joins, Starts
  <2>2. /\ Len(feeding'[open]) = Len(feeding[open]) + 1
        /\ \A k \in 1..Len(feeding[open]) : feeding'[open][k] = feeding[open][k]
        /\ feeding'[open][Len(feeding[open]) + 1] = slot
        /\ \A z \in Streams \ {open} : feeding'[z] = feeding[z]
    BY <1>0, <1>1, <2>1, AppendIs
  <2>3. ASSUME NEW s \in Streams, NEW p \in 1..Len(feeding[s])
        PROVE  feeding[s][p] \in Slots \ {slot} /\ Keeps(feeding[s][p])
    BY <1>1, <1>2, <2>1, <2>3
  <2>4. ASSUME NEW s \in Streams, NEW p \in 1..Len(feeding'[s])
        PROVE  Held(s, p)
    <3>1. CASE s # open
      BY <1>2, <2>2, <2>3, <3>1 DEF Keeps
    <3>2. CASE s = open /\ p \in 1..Len(feeding[open])
      <4>1. /\ call'[feeding'[s][p]].at = "feeds" /\ call'[feeding'[s][p]].stream = s
        BY <1>2, <2>2, <2>3, <3>2 DEF Keeps
      <4>2. ASSUME NEW q \in 1..Len(feeding'[s]), feeding'[s][p] = feeding'[s][q]
            PROVE  p = q
        <5>1. q \in 1..Len(feeding[open]) \/ q = Len(feeding[open]) + 1
          BY <1>1, <2>2, <3>2
        <5> QED
          BY <1>2, <2>2, <2>3, <3>2, <4>2, <5>1
      <4> QED
        BY <4>1, <4>2
    <3>3. CASE s = open /\ p \notin 1..Len(feeding[open])
      <4>1. p = Len(feeding[open]) + 1
        BY <1>1, <2>2, <3>3
      <4>2. ASSUME NEW q \in 1..Len(feeding'[s]), feeding'[s][p] = feeding'[s][q]
            PROVE  p = q
        <5>1. q \in 1..Len(feeding[open]) \/ q = Len(feeding[open]) + 1
          BY <1>1, <2>2, <3>3
        <5> QED
          BY <2>2, <2>3, <3>3, <4>1, <4>2, <5>1
      <4> QED
        BY <2>1, <2>2, <3>3, <4>1, <4>2
    <3> QED
      BY <3>1, <3>2, <3>3
  <2>5. ASSUME NEW other \in Slots PROVE Holds(other)
    <3>1. CASE other = slot
      <4>1. Len(feeding[open]) + 1 \in 1..Len(feeding'[open])
        BY <1>1, <2>1, <2>2
      <4> QED
        BY <2>1, <2>2, <3>1, <4>1
    <3>2. ASSUME other # slot, call'[other].at = "feeds"
          PROVE  Holds(other)
      <4>1. call[other].at = "feeds" /\ call'[other].stream = call[other].stream
        BY <2>1, <3>2 DEF Keeps
      <4>2. PICK p \in 1..Len(feeding[call[other].stream]) : feeding[call[other].stream][p] = other
        BY <1>3, <4>1
      <4>3. call[other].stream \in Streams
        BY <4>1 DEF CallsAgree, Typed, StreamsTyped, StreamsAssumption, ProxyStreamsAssumption, Streams
      <4>4. CASE call[other].stream = open
        <5>1. p \in 1..Len(feeding'[open])
          BY <1>1, <2>1, <2>2, <4>2, <4>4
        <5> QED
          BY <2>2, <4>1, <4>2, <4>4, <5>1
      <4>5. CASE call[other].stream # open
        BY <2>2, <4>1, <4>2, <4>3, <4>5
      <4> QED
        BY <4>4, <4>5
    <3> QED
      BY <3>1, <3>2
  <2> QED
    BY <2>4, <2>5
<1>6. ASSUME NEW slot \in Slots, Feed(slot), EndsCall(slot)
      PROVE  /\ \A s \in Streams : \A p \in 1..Len(feeding'[s]) : Held(s, p)
             /\ \A other \in Slots : Holds(other)
  <2> DEFINE z == call[slot].stream
  <2>1. /\ z \in Streams /\ call[slot].at = "feeds" /\ Len(feeding[z]) >= 1 /\ feeding[z][1] = slot
        /\ Len(feeding'[z]) = Len(feeding[z]) - 1
        /\ \A p \in 1..Len(feeding'[z]) : /\ feeding'[z][p] = feeding[z][p + 1]
                                          /\ p + 1 \in 1..Len(feeding[z])
                                          /\ feeding'[z][p] # slot
        /\ \A s \in Streams \ {z} : feeding'[s] = feeding[s]
    BY <1>6, FeedingShifts
  <2>2. /\ call'[slot].at = "free" /\ \A other \in Slots \ {slot} : Keeps(other)
    BY <1>6, FreeCall DEF EndsCall
  <2> HIDE DEF z
  <2>3. ASSUME NEW s \in Streams, NEW p \in 1..Len(feeding'[s])
        PROVE  Held(s, p)
    <3>1. CASE s # z
      <4>1. feeding'[s] = feeding[s] /\ p \in 1..Len(feeding[s])
        BY <2>1, <2>3, <3>1
      <4>2. feeding[s][p] \in Slots \ {slot}
        BY <1>1, <1>2, <3>1, <4>1 DEF z
      <4> QED
        BY <1>2, <2>2, <4>1, <4>2 DEF Keeps
    <3>2. CASE s = z
      <4>1. feeding'[s][p] = feeding[s][p + 1] /\ p + 1 \in 1..Len(feeding[s])
            /\ feeding[s][p + 1] \in Slots \ {slot} /\ p \in Nat
        BY <1>1, <2>1, <2>3, <3>2
      <4>2. \A q \in 1..Len(feeding'[s]) : feeding'[s][q] = feeding[s][q + 1]
                  /\ q + 1 \in 1..Len(feeding[s]) /\ q \in Nat
        BY <2>1, <3>2
      <4>3. \A q \in 1..Len(feeding[s]) : feeding[s][p + 1] = feeding[s][q] => p + 1 = q
        BY <1>2, <4>1
      <4>4. \A q \in 1..Len(feeding'[s]) : feeding'[s][p] = feeding'[s][q] => p = q
        BY <4>1, <4>2, <4>3
      <4>5. call'[feeding'[s][p]].at = "feeds" /\ call'[feeding'[s][p]].stream = s
        BY <1>2, <2>2, <4>1 DEF Keeps
      <4> QED
        BY <4>4, <4>5
    <3> QED
      BY <3>1, <3>2
  <2>4. ASSUME NEW other \in Slots, call'[other].at = "feeds"
        PROVE  Holds(other)
    <3>1. other # slot /\ call[other].at = "feeds" /\ call'[other].stream = call[other].stream
      BY <2>2, <2>4 DEF Keeps
    <3>2. PICK p \in 1..Len(feeding[call[other].stream]) : feeding[call[other].stream][p] = other
      BY <1>3, <3>1
    <3>3. call[other].stream \in Streams
      BY <3>1 DEF CallsAgree, Typed, StreamsTyped, StreamsAssumption, ProxyStreamsAssumption, Streams
    <3>4. CASE call[other].stream = z
      <4>1. p # 1 /\ p \in 1..Len(feeding[z])
        BY <2>1, <3>1, <3>2, <3>4
      <4>2. p - 1 \in 1..Len(feeding'[z]) /\ (p - 1) + 1 = p
        BY <1>1, <2>1, <4>1
      <4>3. feeding'[z][p - 1] = other
        BY <2>1, <3>2, <3>4, <4>2
      <4> QED
        BY <3>1, <3>4, <4>2, <4>3
    <3>5. CASE call[other].stream # z
      BY <2>1, <3>1, <3>2, <3>3, <3>5
    <3> QED
      BY <3>4, <3>5
  <2> QED
    BY <2>3, <2>4
<1> QED
  BY <1>4, <1>5, <1>6, StepOfFeeding

LEMMA FedStaysAgreed ==
  ASSUME StreamsAssumption, Typed, CallsAgree, HookAgrees, LockIsHeld, FedAgrees, [Next]_vars
  PROVE  FedAgrees'
<1> DEFINE InOrder(s, n) ==
      /\ n <= chunks'[s] /\ chunks'[s] - n <= Len(feeding'[s])
      /\ \A k \in Nat : k \in fed'[s] <=> k < n
      /\ \A p \in 1..Len(feeding'[s]) :
           /\ call'[feeding'[s][p]].kind = "chunk" <=> p <= chunks'[s] - n
           /\ p <= chunks'[s] - n => call'[feeding'[s][p]].arg = n + p - 1
      /\ ended'[s] => n = chunks'[s]
      /\ Len(has'[s]) <= n /\ (~closed'[s] => Len(has'[s]) = n)
      /\ \A k \in 1..Len(has'[s]) : has'[s][k] = k - 1
      /\ hook'.stream = s => hook'.taken <= n
<1>0. /\ feeding \in [Streams -> Seq(Slots)] /\ call \in [Slots -> Calls]
      /\ chunks \in [Streams -> 0..MaxChunks] /\ fed \in [Streams -> SUBSET Nat]
      /\ has \in [Streams -> Seq(Nat)] /\ ended \in [Streams -> BOOLEAN]
      /\ hook \in Hooks /\ MaxChunks \in Nat /\ closed \in [Streams -> BOOLEAN]
  BY DEF Typed, FeedsTyped, HookTyped, StreamsTyped, StreamsAssumption, ProxyStreamsAssumption
<1>1. \A s \in Streams : /\ chunks[s] \in Nat /\ Len(feeding[s]) \in Nat /\ Len(has[s]) \in Nat
                         /\ fed[s] \subseteq Nat
                         /\ \A p \in 1..Len(feeding[s]) : feeding[s][p] \in Slots
  BY <1>0
<1>2. \A s \in Streams : \A p \in 1..Len(feeding[s]) :
        call[feeding[s][p]].at = "feeds" /\ call[feeding[s][p]].stream = s
  BY DEF LockIsHeld
<1>s. SUFFICES ASSUME NEW s \in Streams
               PROVE  \E n \in Nat : InOrder(s, n)
  BY DEF FedAgrees, FedInOrder
<1>3. PICK n \in Nat : FedInOrder(s, n)
  BY DEF FedAgrees
<1>4. /\ n <= chunks[s] /\ chunks[s] - n <= Len(feeding[s])
      /\ \A k \in Nat : k \in fed[s] <=> k < n
      /\ \A p \in 1..Len(feeding[s]) :
           /\ call[feeding[s][p]].kind = "chunk" <=> p <= chunks[s] - n
           /\ p <= chunks[s] - n => call[feeding[s][p]].arg = n + p - 1
      /\ ended[s] => n = chunks[s]
      /\ Len(has[s]) <= n /\ (~closed[s] => Len(has[s]) = n)
      /\ \A k \in 1..Len(has[s]) : has[s][k] = k - 1
      /\ hook.stream = s => hook.taken <= n
  BY <1>3 DEF FedInOrder
<1>5. CASE Quiet
  <2>1. UNCHANGED <<chunks, fed, feeding, has, ended>>
    BY <1>5 DEF Quiet, feedVars
  <2>2. \A p \in 1..Len(feeding[s]) : Keeps(feeding[s][p])
    BY <1>1, <1>2, <1>5 DEF Quiet
  <2>3. hook'.stream = s => hook'.taken <= n
    BY <1>0, <1>1, <1>4, <1>5 DEF Quiet, Hooks
  <2>4. \A p \in 1..Len(feeding'[s]) :
          /\ call'[feeding'[s][p]].kind = "chunk" <=> p <= chunks'[s] - n
          /\ p <= chunks'[s] - n => call'[feeding'[s][p]].arg = n + p - 1
    BY <1>4, <2>1, <2>2 DEF Keeps
  <2>5. ~closed'[s] => ~closed[s]
    BY <1>5 DEF Quiet
  <2>6. InOrder(s, n)
    BY <1>4, <2>1, <2>3, <2>4, <2>5
  <2> QED
    BY <2>6
<1>6. ASSUME NEW slot \in Slots, NEW kind \in {"chunk", "end"}, NEW m \in Nat, Joins(slot, kind, m)
      PROVE  \E k \in Nat : InOrder(s, k)
  <2>1. /\ open \in Streams /\ feeding' = [feeding EXCEPT ![open] = Append(@, slot)]
        /\ call[slot].at = "free" /\ call'[slot].kind = kind /\ call'[slot].arg = m
        /\ \A other \in Slots \ {slot} : Keeps(other)
        /\ UNCHANGED <<fed, has, ended, closed>>
        /\ hook'.stream = hook.stream /\ hook'.taken = hook.taken
    BY <1>6, FreeCall DEF Joins, Starts
  <2>2. /\ Len(feeding'[open]) = Len(feeding[open]) + 1
        /\ \A k \in 1..Len(feeding[open]) : feeding'[open][k] = feeding[open][k]
        /\ feeding'[open][Len(feeding[open]) + 1] = slot
        /\ \A z \in Streams \ {open} : feeding'[z] = feeding[z]
    BY <1>0, <1>1, <2>1, AppendIs
  <2>3. \A p \in 1..Len(feeding[s]) : Keeps(feeding[s][p])
    BY <1>1, <1>2, <2>1
  <2>4. open = hook.stream
    BY <2>1 DEF HookAgrees, Streams
  <2>5. CASE s # open
    <3>1. feeding'[s] = feeding[s] /\ chunks'[s] = chunks[s]
      BY <1>0, <1>6, <2>2, <2>5 DEF Joins
    <3>2. \A p \in 1..Len(feeding'[s]) :
            /\ call'[feeding'[s][p]].kind = "chunk" <=> p <= chunks'[s] - n
            /\ p <= chunks'[s] - n => call'[feeding'[s][p]].arg = n + p - 1
      BY <1>4, <2>3, <3>1 DEF Keeps
    <3>3. InOrder(s, n)
      BY <1>4, <2>1, <3>1, <3>2
    <3> QED
      BY <3>3
  <2>6. CASE s = open /\ kind = "end"
    <3>1. chunks' = chunks
      BY <1>6, <2>6 DEF Joins
    <3>2. ASSUME NEW p \in 1..Len(feeding'[s])
          PROVE  /\ call'[feeding'[s][p]].kind = "chunk" <=> p <= chunks'[s] - n
                 /\ p <= chunks'[s] - n => call'[feeding'[s][p]].arg = n + p - 1
      <4>1. CASE p \in 1..Len(feeding[s])
        BY <1>4, <2>2, <2>3, <2>6, <3>1, <4>1 DEF Keeps
      <4>2. CASE p \notin 1..Len(feeding[s])
        <5>1. p = Len(feeding[s]) + 1
          BY <1>1, <2>2, <2>6, <4>2
        <5>2. call'[feeding'[s][p]].kind = "end"
          BY <2>1, <2>2, <2>6, <5>1
        <5>3. ~(p <= chunks[s] - n)
          BY <1>1, <1>4, <5>1
        <5> QED
          BY <3>1, <5>2, <5>3
      <4> QED
        BY <4>1, <4>2
    <3>3. chunks'[s] - n <= Len(feeding'[s])
      BY <1>1, <1>4, <2>2, <2>6, <3>1
    <3>4. InOrder(s, n)
      BY <1>4, <2>1, <3>1, <3>2, <3>3
    <3> QED
      BY <3>4
  <2>7. CASE s = open /\ kind = "chunk"
    <3>1. /\ m = chunks[s] /\ m = hook.taken /\ ~hook.ended /\ chunks' = [chunks EXCEPT ![s] = @ + 1]
      BY <1>6, <2>7 DEF Joins
    <3>2. n = chunks[s] /\ chunks'[s] = n + 1
      <4>1. n <= chunks[s] /\ chunks[s] <= n /\ chunks[s] \in Nat
        BY <1>1, <1>4, <2>4, <2>7, <3>1
      <4>2. chunks'[s] = chunks[s] + 1
        BY <1>0, <3>1
      <4> QED
        BY <4>1, <4>2
    <3>3. ASSUME NEW p \in 1..Len(feeding[s]) PROVE FALSE
      <4>1. call[feeding[s][p]].kind # "chunk"
        BY <1>1, <1>4, <3>2
      <4>2. call[feeding[s][p]].kind = "end" /\ call[feeding[s][p]].stream = s
        BY <1>1, <1>2, <4>1 DEF CallsAgree
      <4> QED
        BY <1>1, <2>1, <2>4, <2>7, <3>1, <4>2 DEF HookAgrees, Streams
    <3>4. Len(feeding[s]) = 0
      BY <1>1, <3>3
    <3>5. ~ended[s]
      BY <2>1, <2>4, <2>7, <3>1 DEF HookAgrees, Streams
    <3>6. Len(feeding'[s]) = 1 /\ feeding'[s][1] = slot
      BY <2>2, <2>7, <3>4
    <3>7. \A p \in 1..Len(feeding'[s]) :
            /\ call'[feeding'[s][p]].kind = "chunk" <=> p <= chunks'[s] - n
            /\ p <= chunks'[s] - n => call'[feeding'[s][p]].arg = n + p - 1
      <4>1. call'[slot].kind = "chunk" /\ call'[slot].arg = n
        BY <2>1, <2>7, <3>1, <3>2
      <4>2. chunks'[s] - n = 1 /\ n + 1 - 1 = n
        BY <3>2
      <4>3. ASSUME NEW p \in 1..Len(feeding'[s])
            PROVE  /\ call'[feeding'[s][p]].kind = "chunk" /\ p <= chunks'[s] - n
                   /\ call'[feeding'[s][p]].arg = n + p - 1
        <5>1. p = 1 /\ feeding'[s][p] = slot
          BY <3>6, <4>3
        <5> QED
          BY <4>1, <4>2, <5>1
      <4> QED
        BY <4>3
    <3>8. n <= chunks'[s] /\ chunks'[s] - n <= Len(feeding'[s])
      BY <3>2, <3>6
    <3>9. InOrder(s, n)
      BY <1>4, <2>1, <3>5, <3>7, <3>8
    <3> QED
      BY <3>9
  <2> QED
    BY <2>5, <2>6, <2>7
<1>7. ASSUME NEW slot \in Slots, Feed(slot), EndsCall(slot)
      PROVE  \E k \in Nat : InOrder(s, k)
  <2> DEFINE z == call[slot].stream
  <2>1. /\ z \in Streams /\ call[slot].at = "feeds" /\ Len(feeding[z]) >= 1 /\ feeding[z][1] = slot
        /\ Len(feeding'[z]) = Len(feeding[z]) - 1
        /\ \A p \in 1..Len(feeding'[z]) : /\ feeding'[z][p] = feeding[z][p + 1]
                                          /\ p + 1 \in 1..Len(feeding[z])
                                          /\ feeding'[z][p] # slot
        /\ \A y \in Streams \ {z} : feeding'[y] = feeding[y]
    BY <1>7, FeedingShifts
  <2>2. \A other \in Slots \ {slot} : Keeps(other)
    BY <1>7 DEF EndsCall
  <2>3. chunks' = chunks /\ closed' = closed
    BY <1>7 DEF Feed
  <2>4. \/ /\ call[slot].kind = "chunk" /\ ended' = ended
           /\ has' = IF closed[z] \/ ended[z] THEN has ELSE [has EXCEPT ![z] = Append(@, call[slot].arg)]
           /\ fed' = [fed EXCEPT ![z] = @ \cup {call[slot].arg}]
           /\ Heard(slot, IF ended[z] THEN hook ELSE [hook EXCEPT !.taken = call[slot].arg + 1])
        \/ /\ call[slot].kind = "end" /\ ended' = [ended EXCEPT ![z] = TRUE]
           /\ has' = has /\ fed' = fed /\ hook' = hook
    BY <1>7, Zenon DEF Feed
  <2>5. feeds = slot => hook.stream = z
    BY DEF HookAgrees, StreamsAssumption
  <2>6. hook'.stream = hook.stream /\ (hook.stream # z => hook'.taken = hook.taken)
    <3>1. \/ hook' = hook
          \/ feeds = slot /\ hook' = [hook EXCEPT !.taken = call[slot].arg + 1]
      BY <2>4 DEF Heard
    <3> QED
      BY <1>0, <2>5, <3>1 DEF Hooks
  <2>7. CASE s # z
    <3>1. feeding'[s] = feeding[s] /\ fed'[s] = fed[s] /\ has'[s] = has[s] /\ ended'[s] = ended[s]
      BY <1>0, <2>1, <2>4, <2>7
    <3>2. \A p \in 1..Len(feeding[s]) : Keeps(feeding[s][p])
      BY <1>1, <1>2, <2>2, <2>7
    <3>3. \A p \in 1..Len(feeding'[s]) :
            /\ call'[feeding'[s][p]].kind = "chunk" <=> p <= chunks'[s] - n
            /\ p <= chunks'[s] - n => call'[feeding'[s][p]].arg = n + p - 1
      BY <1>4, <2>3, <3>1, <3>2 DEF Keeps
    <3>4. hook'.stream = s => hook'.taken <= n
      BY <1>4, <2>6, <2>7
    <3>5. InOrder(s, n)
      BY <1>4, <2>3, <3>1, <3>3, <3>4
    <3> QED
      BY <3>5
  <2>8. CASE s = z /\ call[slot].kind = "end"
    <3>1. n = chunks[s]
      <4>1. 1 \in 1..Len(feeding[s])
        BY <1>1, <2>1, <2>8
      <4>2. ~(1 <= chunks[s] - n)
        BY <1>4, <2>1, <2>8, <4>1
      <4>3. n <= chunks[s] /\ chunks[s] \in Nat
        BY <1>1, <1>4
      <4> QED
        BY <4>2, <4>3
    <3>2. fed' = fed /\ has' = has /\ hook' = hook
      BY <2>4, <2>8
    <3>3. ASSUME NEW p \in 1..Len(feeding'[s])
          PROVE  /\ call'[feeding'[s][p]].kind # "chunk" /\ ~(p <= chunks'[s] - n)
      <4>1. /\ feeding'[s][p] = feeding[s][p + 1] /\ p + 1 \in 1..Len(feeding[s]) /\ p \in Nat
            /\ p >= 1 /\ feeding[s][p + 1] \in Slots \ {slot}
        BY <1>1, <2>1, <2>8, <3>3
      <4>2. call[feeding[s][p + 1]].kind # "chunk"
        BY <1>1, <1>4, <3>1, <4>1
      <4>3. ~(p <= chunks'[s] - n)
        BY <1>1, <2>3, <3>1, <4>1
      <4> QED
        BY <2>2, <4>1, <4>2, <4>3 DEF Keeps
    <3>4. n <= chunks'[s] /\ chunks'[s] - n <= Len(feeding'[s]) /\ n = chunks'[s]
      BY <1>1, <2>1, <2>3, <2>8, <3>1
    <3>5. InOrder(s, n)
      BY <1>4, <2>3, <3>2, <3>3, <3>4
    <3> QED
      BY <3>5
  <2>9. CASE s = z /\ call[slot].kind = "chunk"
    <3>1. call[slot].arg = n /\ chunks[s] - n >= 1
      <4>1. 1 \in 1..Len(feeding[s])
        BY <1>1, <2>1, <2>9
      <4>2. 1 <= chunks[s] - n /\ call[slot].arg = n + 1 - 1
        BY <1>4, <2>1, <2>9, <4>1
      <4> QED
        BY <1>1, <4>2
    <3>2. ~ended[s] /\ ended' = ended
      BY <1>1, <1>4, <2>4, <2>9, <3>1
    <3>3. \A k \in Nat : k \in fed'[s] <=> k < n + 1
      <4>1. fed'[s] = fed[s] \cup {n}
        BY <1>0, <2>4, <2>9, <3>1
      <4> QED
        BY <1>4, <4>1
    <3>4. ASSUME NEW p \in 1..Len(feeding'[s])
          PROVE  /\ call'[feeding'[s][p]].kind = "chunk" <=> p <= chunks'[s] - (n + 1)
                 /\ p <= chunks'[s] - (n + 1) => call'[feeding'[s][p]].arg = (n + 1) + p - 1
      <4>1. /\ feeding'[s][p] = feeding[s][p + 1] /\ p + 1 \in 1..Len(feeding[s]) /\ p \in Nat
            /\ feeding[s][p + 1] \in Slots \ {slot}
        BY <1>1, <2>1, <2>9, <3>4
      <4>2. /\ call[feeding[s][p + 1]].kind = "chunk" <=> p + 1 <= chunks[s] - n
            /\ p + 1 <= chunks[s] - n => call[feeding[s][p + 1]].arg = n + (p + 1) - 1
        BY <1>4, <4>1
      <4>3. /\ p + 1 <= chunks[s] - n <=> p <= chunks[s] - (n + 1)
            /\ n + (p + 1) - 1 = (n + 1) + p - 1
        BY <1>1, <4>1
      <4>4. /\ call'[feeding'[s][p]].kind = call[feeding[s][p + 1]].kind
            /\ call'[feeding'[s][p]].arg = call[feeding[s][p + 1]].arg
        BY <2>2, <4>1 DEF Keeps
      <4> QED
        BY <2>3, <4>2, <4>3, <4>4
    <3>5. /\ n + 1 <= chunks'[s] /\ chunks'[s] - (n + 1) <= Len(feeding'[s])
      BY <1>1, <1>4, <2>1, <2>3, <2>9, <3>1
    <3>6. /\ Len(has'[s]) <= n + 1 /\ (~closed'[s] => Len(has'[s]) = n + 1)
          /\ \A k \in 1..Len(has'[s]) : has'[s][k] = k - 1
      <4>1. CASE closed[s]
        <5>1. has' = has
          BY <2>4, <2>9, <4>1
        <5> QED
          BY <1>1, <1>4, <2>3, <4>1, <5>1
      <4>2. CASE ~closed[s]
        <5>1. has'[s] = Append(has[s], n)
          BY <1>0, <2>4, <2>9, <3>1, <3>2, <4>2
        <5>2. has[s] \in Seq(Nat) /\ Len(has[s]) = n
          BY <1>0, <1>4, <4>2
        <5>3. /\ Len(has'[s]) = n + 1 /\ has'[s][n + 1] = n
              /\ \A k \in 1..n : has'[s][k] = has[s][k]
          BY <5>1, <5>2, AppendIs
        <5>4. ASSUME NEW k \in 1..Len(has'[s]) PROVE has'[s][k] = k - 1
          <6>1. k \in 1..n \/ k = n + 1
            BY <5>3
          <6> QED
            BY <1>4, <5>2, <5>3, <6>1
        <5> QED
          BY <5>3, <5>4
      <4> QED
        BY <4>1, <4>2
    <3>7. hook'.stream = s => hook'.taken <= n + 1
      <4>1. hook' = hook \/ hook' = [hook EXCEPT !.taken = n + 1]
        BY <2>4, <2>9, <3>1 DEF Heard
      <4> QED
        BY <1>0, <1>4, <4>1 DEF Hooks
    <3>8. InOrder(s, n + 1)
      BY <3>2, <3>3, <3>4, <3>5, <3>6, <3>7
    <3>9. n + 1 \in Nat
      OBVIOUS
    <3> HIDE DEF InOrder
    <3> QED
      BY <3>8, <3>9
  <2> QED
    BY <2>4, <2>7, <2>8, <2>9
<1> QED
  BY <1>5, <1>6, <1>7, StepOfFeeding
-----------------------------------------------------------------------------
LEMMA PollsStayAgreed ==
  ASSUME StreamsAssumption, Typed, CallsAgree, HookAgrees, PollsAgree, [Next]_vars
  PROVE  PollsAgree'
<1>0. /\ hook \in Hooks /\ Streams = 1..MaxBegins /\ MaxBegins \in Nat /\ "none" \notin Slots
      /\ given \in [Streams -> Nat] /\ base \in [Streams -> Nat] /\ kept \in [Streams -> Nat]
      /\ Len(hook.has) \in Nat /\ hook.has \in Seq(Outputs)
      /\ (hook.stream # 0 => hook.stream \in Streams)
  BY DEF Typed, HookTyped, OutputsTyped, StreamsAssumption, ProxyStreamsAssumption, Streams, Hooks
<1>1. /\ \A s \in Streams : base[s] + kept[s] = given[s]
      /\ hook.stream # 0 => Len(hook.has) <= given[hook.stream]
      /\ polls # "none" => base[hook.stream] = Len(hook.has)
      /\ \A k \in 1..Len(hook.has) : hook.has[k] = [stream |-> hook.stream, at |-> k]
  BY DEF PollsAgree, HookHasOutputsInOrder
<1>2. Idle.has = <<>> /\ Idle.stream = 0 /\ \A n : [Idle EXCEPT !.stream = n].has = <<>>
  BY DEF Idle
<1>3. ASSUME hook'.has = <<>>, polls' = "none", UNCHANGED <<given, base, kept>>,
             hook'.stream # 0 => hook'.stream \in Streams
      PROVE  PollsAgree'
  BY <1>0, <1>1, <1>3 DEF PollsAgree, HookHasOutputsInOrder
<1>4. ASSUME hook'.has = hook.has, hook'.stream = hook.stream, polls' \in {polls, "none"},
             UNCHANGED <<given, base, kept>>
      PROVE  PollsAgree'
  BY <1>1, <1>4 DEF PollsAgree, HookHasOutputsInOrder
<1>5. CASE Begin
  <2>1. polls = "none"
    BY <1>5 DEF Begin, HookAgrees
  <2>2. hook'.stream = begun + 1 /\ begun + 1 \in Streams
    BY <1>0, <1>5 DEF Begin, Idle, Typed, StreamsTyped
  <2> QED
    BY <1>2, <1>3, <1>5, <2>1, <2>2 DEF Begin, outputVars
<1>6. CASE HookFindsNone \/ Abort
  BY <1>2, <1>3, <1>6 DEF HookFindsNone, Abort, Aborted, outputVars
<1>7. CASE Sweep \/ GivesUp \/ UNCHANGED vars
  BY <1>4, <1>7 DEF Sweep, Aborted, GivesUp, GivesUpFeeding, GivesUpPolling, vars, hookVars, outputVars
<1>8. ASSUME NEW s \in Streams, CollectEnds(s)
      PROVE  PollsAgree'
  BY <1>4, <1>8 DEF CollectEnds, hookVars
<1>9. ASSUME NEW s \in Streams, Collect(s)
      PROVE  PollsAgree'
  <2>1. /\ hook' = hook /\ polls' = polls /\ base' = base
        /\ given' = [given EXCEPT ![s] = @ + 1] /\ kept' = [kept EXCEPT ![s] = @ + 1]
    BY <1>9 DEF Collect, hookVars
  <2>2. \A z \in Streams : base'[z] + kept'[z] = given'[z] /\ given[z] <= given'[z]
                           /\ given[z] \in Nat /\ given'[z] \in Nat
    <3> TAKE z \in Streams
    <3>1. given[z] \in Nat /\ kept[z] \in Nat /\ base[z] \in Nat /\ base[z] + kept[z] = given[z]
      BY <1>0, <1>1
    <3>2. \/ given'[z] = given[z] /\ kept'[z] = kept[z]
          \/ given'[z] = given[z] + 1 /\ kept'[z] = kept[z] + 1
      BY <1>0, <2>1
    <3> QED
      BY <2>1, <3>1, <3>2
  <2>3. hook.stream # 0 => Len(hook.has) <= given'[hook.stream]
    <3> SUFFICES ASSUME hook.stream \in Streams, Len(hook.has) <= given[hook.stream]
                 PROVE  Len(hook.has) <= given'[hook.stream]
      BY <1>0, <1>1
    <3> QED
      BY <1>0, <2>2
  <2> QED
    BY <1>1, <2>1, <2>2, <2>3 DEF PollsAgree, HookHasOutputsInOrder
<1>10. ASSUME NEW slot \in Slots, Chunk(slot) \/ End(slot)
       PROVE  PollsAgree'
  <2>1. hook' = hook \/ hook' = [hook EXCEPT !.ended = TRUE]
    BY <1>10 DEF Chunk, End
  <2>2. hook'.has = hook.has /\ hook'.stream = hook.stream
    BY <1>0, <2>1 DEF Hooks
  <2> QED
    BY <1>4, <1>10, <2>2 DEF Chunk, End, outputVars
<1>11. ASSUME NEW slot \in Slots, Feed(slot) \/ AgainTaken(slot)
       PROVE  PollsAgree'
  <2>1. hook' = hook \/ \E n : hook' = [hook EXCEPT !.taken = n]
    BY <1>11 DEF Feed, AgainTaken, Heard
  <2>2. hook'.has = hook.has /\ hook'.stream = hook.stream
    BY <1>0, <2>1 DEF Hooks
  <2>3. UNCHANGED <<given, base, kept>> /\ polls' \in {polls, "none"}
    BY <1>11 DEF Feed, AgainTaken, Answers, outputVars
  <2> QED
    BY <1>4, <2>2, <2>3
<1>12. ASSUME NEW slot \in Slots, Next_(slot)
       PROVE  PollsAgree'
  <2> DEFINE after == Len(hook.has)
             taken == Collected(open, after)
  <2>1. /\ hook.stream # 0 /\ open # 0 /\ after >= base[open] /\ hook' = hook /\ given' = given
        /\ base' = [base EXCEPT ![open] = @ + taken] /\ kept' = [kept EXCEPT ![open] = @ - taken]
    BY <1>12, Zenon DEF Next_
  <2>2. open = hook.stream /\ open \in Streams
    BY <1>0, <2>1 DEF HookAgrees
  <2>3. /\ base[open] \in Nat /\ kept[open] \in Nat /\ base[open] + kept[open] = given[open]
        /\ after \in Nat /\ after <= given[open]
    BY <1>0, <1>1, <2>1, <2>2
  <2>4. base[open] + taken = after /\ (kept[open] - taken) = given[open] - after
    BY <2>1, <2>3 DEF Collected
  <2>5. base'[open] = after /\ kept'[open] = given[open] - after
    BY <1>0, <2>1, <2>2, <2>4
  <2>6. \A z \in Streams \ {open} : base'[z] = base[z] /\ kept'[z] = kept[z]
    BY <1>0, <2>1
  <2>7. \A z \in Streams : base'[z] + kept'[z] = given'[z]
    <3> TAKE z \in Streams
    <3>1. CASE z = open
      BY <2>1, <2>3, <2>5, <3>1
    <3>2. CASE z # open
      BY <1>1, <2>1, <2>6, <3>2
    <3> QED
      BY <3>1, <3>2
  <2> QED
    BY <1>1, <2>1, <2>2, <2>5, <2>7 DEF PollsAgree, HookHasOutputsInOrder
<1>13. ASSUME NEW slot \in Slots, Answer(slot)
       PROVE  PollsAgree'
  <2> DEFINE s == call[slot].stream
             outputs == [k \in 1..kept[s] |-> [stream |-> s, at |-> base[s] + k]]
  <2>1. /\ UNCHANGED <<given, base, kept>> /\ polls' = IF polls = slot THEN "none" ELSE polls
        /\ hook' = hook \/ (polls = slot /\ hook' = [hook EXCEPT !.has = @ \o outputs])
    BY <1>13 DEF Answer, Answers, outputVars
  <2>2. CASE hook' = hook
    BY <1>4, <2>1, <2>2
  <2>3. ASSUME polls = slot, hook' = [hook EXCEPT !.has = @ \o outputs]
        PROVE  PollsAgree'
    <3>1. hook.stream # 0 /\ s = hook.stream /\ s \in Streams
      BY <1>0, <2>3 DEF HookAgrees
    <3>2. /\ base[s] \in Nat /\ kept[s] \in Nat /\ given[s] \in Nat /\ base[s] = Len(hook.has)
          /\ base[s] + kept[s] = given[s]
      BY <1>0, <1>1, <2>3, <3>1
    <3>3. outputs \in Seq(Outputs) /\ Len(outputs) = kept[s]
      <4>1. \A k \in 1..kept[s] : [stream |-> s, at |-> base[s] + k] \in Outputs
        BY <3>1, <3>2 DEF Outputs
      <4>2. outputs \in [1..kept[s] -> Outputs]
        BY <4>1
      <4>3. DOMAIN outputs = 1..kept[s]
        OBVIOUS
      <4> HIDE DEF outputs
      <4>4. outputs \in Seq(Outputs)
        BY <3>2, <4>2
      <4> QED
        BY <3>2, <4>3, <4>4
    <3>4. \A k \in 1..kept[s] : outputs[k] = [stream |-> s, at |-> base[s] + k]
      OBVIOUS
    <3> HIDE DEF s, outputs
    <3>5. hook'.has = hook.has \o outputs /\ hook'.stream = s
      BY <1>0, <2>3, <3>1 DEF Hooks
    <3>6. /\ Len(hook.has \o outputs) = Len(hook.has) + kept[s]
          /\ \A k \in 1..(Len(hook.has) + kept[s]) :
               (hook.has \o outputs)[k] = IF k <= Len(hook.has) THEN hook.has[k]
                                          ELSE outputs[k - Len(hook.has)]
      <4>1. hook.has \in Seq(Outputs) /\ outputs \in Seq(Outputs)
        BY <1>0, <3>3
      <4>2. /\ Len(hook.has \o outputs) = Len(hook.has) + Len(outputs)
            /\ \A k \in 1..(Len(hook.has) + Len(outputs)) :
                 (hook.has \o outputs)[k] = IF k <= Len(hook.has) THEN hook.has[k]
                                            ELSE outputs[k - Len(hook.has)]
        BY <4>1, ConcatProperties
      <4> QED
        BY <3>3, <4>2
    <3>7. ASSUME NEW k \in 1..Len(hook'.has)
          PROVE  hook'.has[k] = [stream |-> s, at |-> k]
      <4>1. k \in 1..(Len(hook.has) + kept[s]) /\ k \in Nat
        BY <3>5, <3>6, <3>7, <1>0, <3>2
      <4>2. CASE k <= Len(hook.has)
        <5>1. k \in 1..Len(hook.has)
          BY <1>0, <4>1, <4>2
        <5> QED
          BY <1>1, <3>1, <3>5, <3>6, <4>1, <4>2, <5>1
      <4>3. CASE ~(k <= Len(hook.has))
        <5>1. k - Len(hook.has) \in 1..kept[s] /\ base[s] + (k - Len(hook.has)) = k
          BY <1>0, <3>2, <4>1, <4>3
        <5>2. hook'.has[k] = outputs[k - Len(hook.has)]
          BY <3>5, <3>6, <4>1, <4>3
        <5> QED
          BY <3>4, <5>1, <5>2
      <4> QED
        BY <4>2, <4>3
    <3>8. Len(hook'.has) <= given'[s]
      BY <1>0, <2>1, <3>2, <3>5, <3>6
    <3> QED
      BY <1>1, <2>1, <2>3, <3>5, <3>7, <3>8 DEF PollsAgree, HookHasOutputsInOrder
  <2> QED
    BY <2>1, <2>2, <2>3
<1> QED
  BY <1>5, <1>6, <1>7, <1>8, <1>9, <1>10, <1>11, <1>12, <1>13 DEF Next, Serves

LEMMA StreamsStayAgreed ==
  ASSUME StreamsAssumption, StreamsInv, [Next]_vars
  PROVE  StreamsInv'
BY StreamsStayTyped, CallsStayAgreed, HookStaysAgreed, LockStaysHeld, FedStaysAgreed,
   PollsStayAgreed DEF StreamsInv

LEMMA StreamsInvImplies ==
  ASSUME StreamsAssumption, StreamsInv
  PROVE  TypeOK /\ StreamHasWhatWasTaken /\ HookHasOutputsInOrder
<1> SUFFICES TypeOK
  BY DEF StreamsInv, FedAgrees, FedInOrder, StreamHasWhatWasTaken, PollsAgree
<1>1. Typed /\ LockIsHeld /\ FedAgrees /\ PollsAgree
  BY DEF StreamsInv
<1>2. ASSUME NEW s \in Streams
      PROVE  /\ chunks[s] \in 0..MaxChunks /\ fed[s] \subseteq 0..chunks[s]
             /\ base[s] + kept[s] = given[s] /\ Len(feeding[s]) <= Cardinality(Slots)
  <2>1. /\ chunks[s] \in 0..MaxChunks /\ fed[s] \subseteq Nat /\ feeding[s] \in Seq(Slots)
        /\ MaxChunks \in Nat
    BY <1>1 DEF Typed, FeedsTyped, StreamsAssumption, ProxyStreamsAssumption
  <2>2. PICK n \in Nat : n <= chunks[s] /\ \A k \in Nat : k \in fed[s] <=> k < n
    BY <1>1 DEF FedAgrees, FedInOrder
  <2>3. fed[s] \subseteq 0..chunks[s]
    BY <2>1, <2>2
  <2>4. Len(feeding[s]) <= Cardinality(Slots)
    <3> DEFINE Places == 1..Len(feeding[s])
    <3>1. IsFiniteSet(Slots) /\ Len(feeding[s]) \in Nat
      BY <2>1 DEF StreamsAssumption
    <3>2. feeding[s] \in Injection(Places, Slots)
      <4>1. feeding[s] \in [Places -> Slots]
        BY <2>1
      <4>2. \A p, q \in Places : feeding[s][p] = feeding[s][q] => p = q
        BY <1>1, <1>2 DEF LockIsHeld
      <4>3. IsInjective(feeding[s])
        BY <4>1, <4>2 DEF IsInjective
      <4> QED
        BY <4>1, <4>3 DEF Injection
    <3>3. Cardinality(Places) = Len(feeding[s])
      BY <3>1, FS_Interval
    <3>4. Cardinality(Places) <= Cardinality(Slots)
      BY <3>1, <3>2, FS_Injection
    <3> QED
      BY <3>3, <3>4
  <2> QED
    BY <1>1, <1>2, <2>1, <2>3, <2>4 DEF PollsAgree
<1> QED
  BY <1>1, <1>2 DEF TypeOK, Typed, StreamsTyped

(* The invariant holds of every state.                                     *)
THEOREM StreamsAlwaysAgree == ASSUME StreamsAssumption PROVE Spec => []StreamsInv
BY StreamsInitially, StreamsStayAgreed, PTL DEF Spec

(* The values are of their types: no more chunks are fed than were taken,  *)
(* what was given was collected or is kept, and no slot waits twice for    *)
(* the lock (_Open, _feeding).                                             *)
THEOREM StreamsAreTyped == ASSUME StreamsAssumption PROVE Spec => []TypeOK
BY StreamsAlwaysAgree, StreamsInvImplies, PTL

(* The stream has each chunk once and in order, with every one its hook    *)
(* was told is taken, however often the hook gave up on one and sent it    *)
(* again (chunk: "one sent again waits for the first sending of it").      *)
THEOREM StreamsHaveWhatWasTaken ==
  ASSUME StreamsAssumption PROVE Spec => []StreamHasWhatWasTaken
BY StreamsAlwaysAgree, StreamsInvImplies, PTL

(* The hook has the outputs of its stream, each once and in order, though  *)
(* answers were lost and it asked again (next, _collected).                *)
THEOREM HooksHaveOutputsInOrder ==
  ASSUME StreamsAssumption PROVE Spec => []HookHasOutputsInOrder
BY StreamsAlwaysAgree, StreamsInvImplies, PTL
=============================================================================
