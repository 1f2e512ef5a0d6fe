---------------------------- MODULE ProxyStreams ----------------------------
(***************************************************************************)
(* The reply streams that proxy hooks have open at the endpoint            *)
(* (sidecar/_proxy_streams.py), for one request id: a hook feeds a reply   *)
(* chunk by chunk, polls for the outputs of its stream, and gives up on    *)
(* calls and asks again, while the calls it gave up on go on; a stream is  *)
(* aborted by its hook or once no call names it, and may be begun again.   *)
(*                                                                         *)
(* A stream is known by the count of its begin(); a chunk by its seq, and  *)
(* the calls in the endpoint are in slots.                                 *)
(***************************************************************************)
EXTENDS Naturals, Sequences, FiniteSets

CONSTANTS
  Slots,        \* room for calls in the endpoint at once
  MaxBegins,    \* bound on the streams begun
  MaxChunks,    \* bound on the chunks of a reply
  MaxOutputs,   \* bound on the outputs of a stream
  MaxPending,   \* _max_pending_bytes, in outputs
  MaxAsks       \* bound on the calls the hook makes

ProxyStreamsAssumption ==
  /\ Slots # {} /\ MaxBegins \in Nat /\ MaxChunks \in Nat /\ MaxOutputs \in Nat
  /\ MaxPending \in Nat \ {0} /\ MaxAsks \in Nat

Streams == 1..MaxBegins

VARIABLES
  open,      \* _open: the stream the id names, or 0
  begun,     \* how many streams were begun
  chunks,    \* chunks taken, per stream
  fed,       \* the chunks whose event is set
  feeding,   \* the slots that wait for the feeding lock; the first holds it
  has,       \* the chunks the stream was fed, in order
  ended, closed,   \* the stream was ended; it was aborted or its output ended
  given,     \* how many outputs the stream gave
  base, kept,      \* the outputs before base were collected, and kept wait
  failed, done,    \* _Open.error, _Open.done
  call,      \* the call in each slot
  hook,      \* what the hook has and has sent
  feeds, polls,    \* the slots of the calls the hook waits on, or "none"
  asks       \* how many calls it made

streamVars == <<open, begun>>
feedVars   == <<chunks, fed, feeding, has, ended>>
outputVars == <<given, base, kept, failed>>
hookVars   == <<hook, feeds, polls, asks>>
vars == <<streamVars, feedVars, closed, outputVars, done, call, hookVars>>

Free == [kind |-> "none", stream |-> 0, arg |-> 0, at |-> "free"]
Idle == [stream |-> 0, taken |-> 0, ended |-> FALSE, has |-> <<>>]

Each(value) == [s \in Streams |-> value]
-----------------------------------------------------------------------------
Init ==
  /\ open = 0 /\ begun = 0
  /\ chunks = Each(0) /\ fed = Each({}) /\ feeding = Each(<<>>) /\ has = Each(<<>>)
  /\ ended = Each(FALSE) /\ closed = Each(FALSE) /\ given = Each(0) /\ base = Each(0)
  /\ kept = Each(0) /\ failed = Each(FALSE) /\ done = Each(FALSE)
  /\ call = [slot \in Slots |-> Free] /\ hook = Idle
  /\ feeds = "none" /\ polls = "none" /\ asks = 0

(* begin: run and _collect start.                                          *)
Begin ==
  /\ hook.stream = 0 /\ open = 0 /\ begun < MaxBegins
  /\ begun' = begun + 1 /\ open' = begun + 1
  /\ hook' = [Idle EXCEPT !.stream = begun + 1]
  /\ UNCHANGED <<feedVars, closed, outputVars, done, call, feeds, polls, asks>>

(* What the hook does of its own accord: a call, of which _find finds the  *)
(* stream or the hook learns it is gone.                                   *)
Asks(slot, kind, arg, at) ==
  /\ call[slot] = Free /\ asks < MaxAsks /\ asks' = asks + 1
  /\ call' = [call EXCEPT ![slot] =
                [kind |-> kind, stream |-> open, arg |-> arg, at |-> at]]

HookFindsNone ==
  /\ hook.stream # 0 /\ open = 0 /\ feeds = "none" /\ polls = "none"
  /\ hook' = Idle
  /\ UNCHANGED <<streamVars, feedVars, closed, outputVars, done, call, feeds, polls, asks>>

(* chunk: one sent again waits for the first sending of it, and a new one  *)
(* for those before it to be fed.                                          *)
Chunk(slot) ==
  /\ hook.stream # 0 /\ open # 0 /\ feeds = "none" /\ ~hook.ended /\ hook.taken < MaxChunks
  /\ LET seq == hook.taken IN
       \/ /\ seq < chunks[open]
          /\ Asks(slot, "chunk", seq, "waits") /\ UNCHANGED <<chunks, feeding>>
       \/ /\ seq = chunks[open]
          /\ Asks(slot, "chunk", seq, "feeds")
          /\ chunks' = [chunks EXCEPT ![open] = @ + 1]
          /\ feeding' = [feeding EXCEPT ![open] = Append(@, slot)]
  /\ feeds' = slot
  /\ UNCHANGED <<streamVars, fed, has, ended, closed, outputVars, done, hook, polls>>

(* end: after the chunks being fed.                                        *)
End(slot) ==
  /\ hook.stream # 0 /\ open # 0 /\ feeds = "none"
  /\ Asks(slot, "end", 0, "feeds")
  /\ feeding' = [feeding EXCEPT ![open] = Append(@, slot)]
  /\ feeds' = slot /\ hook' = [hook EXCEPT !.ended = TRUE]
  /\ UNCHANGED <<streamVars, chunks, fed, has, ended, closed, outputVars, done, polls>>

(* The hook hears of a call only where it still waits for it.              *)
Heard(slot, heard) == hook' = IF feeds = slot THEN heard ELSE hook
Answers(slot) ==
  /\ call' = [call EXCEPT ![slot] = Free]
  /\ feeds' = IF feeds = slot THEN "none" ELSE feeds
  /\ polls' = IF polls = slot THEN "none" ELSE polls

(* The lock's holder feeds or ends the stream, which drops what it is fed  *)
(* once its output has ended, and refuses it once ended.                   *)
Feed(slot) ==
  /\ LET c == call[slot] s == c.stream IN
       /\ c.at = "feeds" /\ Head(feeding[s]) = slot
       /\ feeding' = [feeding EXCEPT ![s] = Tail(@)]
       /\ \/ /\ c.kind = "chunk"
             /\ has' = IF closed[s] \/ ended[s] THEN has
                       ELSE [has EXCEPT ![s] = Append(@, c.arg)]
             /\ fed' = [fed EXCEPT ![s] = @ \cup {c.arg}]
             /\ Heard(slot, IF ended[s] THEN hook ELSE [hook EXCEPT !.taken = c.arg + 1])
             /\ UNCHANGED ended
          \/ /\ c.kind = "end"
             /\ ended' = [ended EXCEPT ![s] = TRUE]
             /\ UNCHANGED <<has, fed, hook>>
  /\ Answers(slot)
  /\ UNCHANGED <<streamVars, chunks, closed, outputVars, done, asks>>

(* What a chunk sent again waits for.                                      *)
WasFed(c) == c.arg \in fed[c.stream]

AgainTaken(slot) ==
  /\ call[slot].at = "waits" /\ WasFed(call[slot])
  /\ Heard(slot, [hook EXCEPT !.taken = call[slot].arg + 1])
  /\ Answers(slot)
  /\ UNCHANGED <<streamVars, feedVars, closed, outputVars, done, asks>>
-----------------------------------------------------------------------------
(* _collect: the stream's outputs, no more than may wait; its end, or the  *)
(* exception it raised.                                                    *)
Wakes(s) == [slot \in Slots |->
  IF call[slot].stream = s /\ call[slot].at = "waiting"
  THEN [call[slot] EXCEPT !.at = "woken"] ELSE call[slot]]

Collect(s) ==
  /\ s <= begun /\ ~closed[s] /\ given[s] < MaxOutputs
  /\ kept[s] < MaxPending \/ done[s]
  /\ given' = [given EXCEPT ![s] = @ + 1] /\ kept' = [kept EXCEPT ![s] = @ + 1]
  /\ call' = Wakes(s)
  /\ UNCHANGED <<streamVars, feedVars, closed, base, failed, done, hookVars>>

CollectEnds(s) ==
  /\ s <= begun /\ ~done[s]
  /\ failed' \in {failed, [failed EXCEPT ![s] = TRUE]}
  /\ closed' = [closed EXCEPT ![s] = TRUE] /\ done' = [done EXCEPT ![s] = TRUE]
  /\ call' = Wakes(s)
  /\ UNCHANGED <<streamVars, feedVars, given, base, kept, hookVars>>

(* What the hook says it has is let go of.                                 *)
CollectedByGiving(s, after) == kept[s]
Collected(s, after) == IF after < base[s] + kept[s] THEN after - base[s] ELSE kept[s]

(* next: it waits on an event that replaces the one another poll waits on. *)
Waiting(slot, s, after) ==
  [other \in Slots |->
     IF other = slot
     THEN [kind |-> "next", stream |-> s, arg |-> after, at |-> "waiting"]
     ELSE IF call[other].stream = s /\ call[other].at = "waiting"
     THEN [call[other] EXCEPT !.at = "forgotten"] ELSE call[other]]

Next_(slot) ==
  /\ hook.stream # 0 /\ open # 0 /\ polls = "none" /\ call[slot] = Free
  /\ asks < MaxAsks /\ asks' = asks + 1
  /\ LET after == Len(hook.has)
         taken == Collected(open, after)
     IN  /\ after >= base[open]
         /\ base' = [base EXCEPT ![open] = @ + taken]
         /\ kept' = [kept EXCEPT ![open] = @ - taken]
         /\ call' = IF kept'[open] = 0 /\ ~done[open] THEN Waiting(slot, open, after)
                    ELSE [call EXCEPT ![slot] = [kind |-> "next", stream |-> open,
                                                 arg |-> after, at |-> "woken"]]
  /\ polls' = slot
  /\ UNCHANGED <<streamVars, feedVars, closed, given, failed, done, hook, feeds>>

(* A poll is answered with what there is, once woken or its time is up,    *)
(* and lets go of a stream all of which was collected.                     *)
Answer(slot) ==
  /\ LET c == call[slot] s == c.stream
         outputs == [k \in 1..kept[s] |-> [stream |-> s, at |-> base[s] + k]]
     IN  /\ c.at \in {"waiting", "forgotten", "woken"}
         /\ hook' = IF polls = slot /\ ~(outputs = <<>> /\ failed[s])
                    THEN [hook EXCEPT !.has = @ \o outputs] ELSE hook
         /\ open' = IF done[s] /\ outputs = <<>> /\ ~failed[s] THEN 0 ELSE open
  /\ Answers(slot)
  /\ UNCHANGED <<begun, feedVars, closed, outputVars, done, asks>>

(* abort, by the hook or the sweep: waiting polls and feeding go on.       *)
Aborted(s) ==
  /\ open' = 0
  /\ closed' = [closed EXCEPT ![s] = TRUE] /\ done' = [done EXCEPT ![s] = TRUE]
  /\ call' = Wakes(s)
  /\ UNCHANGED <<begun, feedVars, outputVars>>

Abort ==
  /\ hook.stream # 0 /\ open # 0
  /\ Aborted(open)
  /\ hook' = Idle /\ feeds' = "none" /\ polls' = "none" /\ UNCHANGED asks

(* _sweep: no call has named the stream for long.                          *)
Sweep ==
  /\ open # 0 /\ polls = "none"
  /\ Aborted(open)
  /\ UNCHANGED hookVars

(* The answer to a call is lost, and the hook asks again.                  *)
GivesUpFeeding == feeds # "none" /\ feeds' = "none" /\ UNCHANGED polls
GivesUpPolling == polls # "none" /\ polls' = "none" /\ UNCHANGED feeds
GivesUp ==
  /\ GivesUpFeeding \/ GivesUpPolling
  /\ UNCHANGED <<streamVars, feedVars, closed, outputVars, done, call, hook, asks>>

Serves(slot) == Feed(slot) \/ AgainTaken(slot) \/ Answer(slot)
Next ==
  \/ Begin \/ HookFindsNone \/ Abort \/ Sweep \/ GivesUp
  \/ \E slot \in Slots : Chunk(slot) \/ End(slot) \/ Next_(slot) \/ Serves(slot)
  \/ \E s \in Streams : Collect(s) \/ CollectEnds(s)

Spec == Init /\ [][Next]_vars

(* The stream takes what it is fed, and a poll's time passes.              *)
FairSpec == Spec /\ \A slot \in Slots : WF_vars(Serves(slot))
-----------------------------------------------------------------------------
(* Every variable has a value of its type.                                 *)
TypeOK ==
  /\ open \in 0..begun /\ begun \in 0..MaxBegins
  /\ \A s \in Streams :
       /\ chunks[s] \in 0..MaxChunks /\ fed[s] \subseteq 0..chunks[s]
       /\ base[s] + kept[s] = given[s] /\ Len(feeding[s]) <= Cardinality(Slots)

(* The stream has each chunk once and in order, and every chunk the hook   *)
(* was told is taken, however often it was sent (chunk).                   *)
StreamHasWhatWasTaken ==
  \A s \in Streams :
    /\ \A k \in 1..Len(has[s]) : has[s][k] = k - 1
    /\ hook.stream = s /\ ~closed[s] => hook.taken <= Len(has[s])

(* The hook has the outputs its stream gave, each once and in order,       *)
(* whatever answers were lost (next, "asking again gives the same").       *)
HookHasOutputsInOrder ==
  \A k \in 1..Len(hook.has) : hook.has[k] = [stream |-> hook.stream, at |-> k]

(* A stream that was begun and neither ended, aborted nor expired is found *)
(* by its id (_find: "it was never begun, or has ended or expired").       *)
LiveStreamIsKnown == \A s \in 1..begun : ~done[s] => open = s

(* Every call is answered.                                                 *)
CallsAreAnswered == \A slot \in Slots : call[slot] # Free ~> call[slot] = Free
=============================================================================
