------------------------------- MODULE Relay --------------------------------
(***************************************************************************)
(* A streamed reply in the LiteLLM guardrail (_guardrail.py, _Relay): one  *)
(* task reads LiteLLM's chunks, one hands them to the sidecar, and the     *)
(* relay yields the caller what the sidecar releases, with a time limit    *)
(* once the sidecar has all of the reply.  Where it is set so, a reply the *)
(* sidecar gave no usable answer on is let through as LiteLLM yields it.   *)
(*                                                                         *)
(* A chunk is its place in the reply, and has size 1.                      *)
(***************************************************************************)
EXTENDS Naturals, Sequences, SequencesExt

CONSTANTS
  LetThroughs,   \* values of _let_through (unreachable_fallback)
  MaxChunks,     \* bound on the chunks LiteLLM yields
  MaxReply,      \* max_reply_bytes, in chunks
  Room,          \* _PENDING_BYTES, in chunks
  MaxKeepalives  \* bound on the keepalives the sidecar gives

ASSUME RelayAssumption ==
  /\ LetThroughs \subseteq BOOLEAN /\ LetThroughs # {}
  /\ MaxChunks \in Nat /\ MaxReply \in Nat /\ MaxKeepalives \in Nat
  /\ Room \in Nat \ {0}

VARIABLES
  letThrough, \* _let_through
  odd,        \* the chunk of a kind that can't be written, or 0
  read,       \* how many chunks were read
  source,     \* "more", or how LiteLLM's stream ended: "ended" or "raised"
  waiting,    \* the reader waits for room
  keeping, unsent,  \* _keeping, and how many of the last chunks are kept
  pending,    \* chunks that wait to be handed over
  stopped,    \* _stopped: handing over can't go on
  uploader,   \* where _upload stands
  inflight,   \* the chunks of the call it waits on
  handed,     \* how many chunks the sidecar has
  told,       \* the sidecar was told the reply has ended
  counting,   \* _time_left is set
  ready,      \* outputs the sidecar has ready
  released,   \* how many chunks it has released
  gave,       \* what the sidecar has given: "nothing", "something" or "end"
  beats,      \* keepalives it gave
  relay,      \* where released() stands
  begun, endedAt,   \* _begun, and _ended_at is known
  outputs,    \* outputs of the last answer, yet to be yielded
  sent, committed,  \* content went out; anything did
  got,        \* what the caller was sent
  letGo       \* what close() told the sidecar

readVars    == <<read, source, waiting>>
handVars    == <<uploader, inflight, handed, told, counting>>
sidecarVars == <<ready, released, gave, beats>>
yieldVars   == <<relay, begun, endedAt, outputs, sent, committed, got, letGo>>
vars == <<letThrough, odd, readVars, keeping, unsent, pending, stopped, handVars,
          sidecarVars, yieldVars>>

Item(what)   == [what |-> what, upto |-> 0]
Release(n)   == [what |-> "release", upto |-> n]
Raw(n)       == [what |-> "raw", upto |-> n]

(* An error under its status, one in the stream, a keepalive, and a release*)
(* LiteLLM can't take.                                                     *)
StatusError == Item("error")
ErrorEvent  == Item("error_event")
KeepAlive   == Item("keepalive")
Garbled     == Item("garbled")
-----------------------------------------------------------------------------
Init ==
  /\ letThrough \in LetThroughs /\ odd \in 0..MaxChunks
  /\ read = 0 /\ source = "more" /\ waiting = FALSE
  /\ keeping = letThrough /\ unsent = 0 /\ pending = 0 /\ stopped = FALSE
  /\ uploader = "none" /\ inflight = 0 /\ handed = 0 /\ told = FALSE /\ counting = FALSE
  /\ ready = <<>> /\ released = 0 /\ gave = "nothing" /\ beats = 0
  /\ relay = "beginning" /\ begun = FALSE /\ endedAt = FALSE /\ outputs = <<>>
  /\ sent = FALSE /\ committed = FALSE /\ got = <<>> /\ letGo = "none"

(* _wait_for_room.                                                         *)
NoRoom == (~stopped /\ pending >= Room) \/ (keeping /\ unsent > MaxReply)

(* _read: a chunk is kept while the reply may be let through, and handed   *)
(* over while it can be written and the reply is no larger than is judged. *)
Read ==
  /\ relay # "over" /\ source = "more" /\ ~waiting /\ read < MaxChunks
  /\ read' = read + 1 /\ UNCHANGED keeping
  /\ unsent' = IF keeping THEN unsent + 1 ELSE unsent
  /\ stopped' = (stopped \/ read' = odd \/ read' > MaxReply)
  /\ pending' = IF stopped' THEN 0 ELSE pending + 1
  /\ waiting' = NoRoom'
  /\ UNCHANGED <<letThrough, odd, source, handVars, sidecarVars, yieldVars>>

ReaderGoesOn ==
  /\ relay # "over" /\ waiting /\ ~NoRoom
  /\ waiting' = FALSE
  /\ UNCHANGED <<letThrough, odd, read, source, keeping, unsent, pending, stopped,
                 handVars, sidecarVars, yieldVars>>

ReadEnds ==
  /\ relay # "over" /\ source = "more" /\ ~waiting
  /\ source' \in {"ended", "raised"}
  /\ UNCHANGED <<letThrough, odd, read, waiting, keeping, unsent, pending, stopped,
                 handVars, sidecarVars, yieldVars>>

(* _upload: what has arrived goes as one, and then the end.                *)
UploadRest ==
  \/ /\ pending > 0
     /\ uploader' = "sending" /\ inflight' = pending /\ pending' = 0
  \/ /\ pending = 0 /\ source # "more"
     /\ uploader' = "ending" /\ UNCHANGED <<inflight, pending>>

UploadHeedless ==
  /\ relay # "over" /\ uploader = "waiting"
  /\ \/ stopped /\ uploader' = "done" /\ UNCHANGED <<inflight, pending>>
     \/ ~stopped /\ UploadRest
  /\ UNCHANGED <<letThrough, odd, readVars, keeping, unsent, stopped, handed, told,
                 counting, sidecarVars, yieldVars>>

Upload ==
  /\ relay # "over" /\ uploader = "waiting"
  /\ \/ /\ stopped \/ source = "raised"
        /\ uploader' = "done" /\ UNCHANGED <<inflight, pending>>
     \/ ~stopped /\ source # "raised" /\ UploadRest
  /\ UNCHANGED <<letThrough, odd, readVars, keeping, unsent, stopped, handed, told,
                 counting, sidecarVars, yieldVars>>

(* The sidecar takes the call, ...                                         *)
SidecarTakes ==
  /\ relay # "over"
  /\ \/ /\ uploader = "sending"
        /\ uploader' = "sent" /\ handed' = handed + inflight /\ inflight' = 0
        /\ UNCHANGED told
     \/ /\ uploader = "ending"
        /\ uploader' = "ended" /\ told' = TRUE /\ UNCHANGED <<handed, inflight>>
  /\ UNCHANGED <<letThrough, odd, readVars, keeping, unsent, pending, stopped, counting,
                 sidecarVars, yieldVars>>

(* ... and answers it, or the call fails, before or after.                 *)
UploadAnswered ==
  /\ relay # "over"
  /\ \/ uploader = "sent" /\ uploader' = "waiting" /\ UNCHANGED counting
     \/ uploader = "ended" /\ uploader' = "done" /\ counting' = TRUE
  /\ UNCHANGED <<letThrough, odd, readVars, keeping, unsent, pending, stopped, inflight,
                 handed, told, sidecarVars, yieldVars>>

UploadFails ==
  /\ relay # "over" /\ uploader \in {"sending", "sent", "ending", "ended"}
  /\ uploader' = "done" /\ inflight' = 0 /\ stopped' = TRUE /\ pending' = 0
  /\ UNCHANGED <<letThrough, odd, readVars, keeping, unsent, handed, told, counting,
                 sidecarVars, yieldVars>>
-----------------------------------------------------------------------------
(* The sidecar's outputs are as a reply stream promises (StreamPromise),   *)
(* and a release may be one LiteLLM can't take.                            *)
Gives(output, becomes) ==
  /\ relay # "over" /\ begun /\ gave # "end" /\ Len(ready) < 2
  /\ ready' = Append(ready, output) /\ gave' = becomes
  /\ UNCHANGED <<letThrough, odd, readVars, keeping, unsent, pending, stopped, handVars,
                 yieldVars>>

SidecarReleases ==
  \/ \E n \in released + 1..handed :
       Gives(Release(n), "something") /\ released' = n /\ UNCHANGED beats
  \/ Gives(Garbled, "something") /\ UNCHANGED <<released, beats>>
  \/ /\ beats < MaxKeepalives
     /\ Gives(KeepAlive, "something") /\ beats' = beats + 1 /\ UNCHANGED released

SidecarEnds ==
  /\ \/ told /\ released = handed /\ Gives(Item("finished"), "end")
     \/ gave = "nothing" /\ Gives(Item("refuse"), "end")
     \/ gave = "something" /\ \E what \in {"error_event", "not_judged"} :
                                Gives(Item(what), "end")
  /\ UNCHANGED <<released, beats>>
-----------------------------------------------------------------------------
(* close: the sidecar is told the guardrail is done with the stream.       *)
Closes(ended) ==
  /\ relay' = "over" /\ outputs' = <<>>
  /\ letGo' = IF ~begun THEN "nothing" ELSE IF ended THEN "end" ELSE "abort"

Sends(item)       == got' = Append(got, item)
SendsLast(item)   == Sends(item) /\ Closes(endedAt')

Stops == stopped' = TRUE /\ pending' = 0

(* _refused: an error under its status, or in the stream once that is out. *)
RefusedUntilSent == IF sent THEN ErrorEvent ELSE StatusError
Refused          == IF committed THEN ErrorEvent ELSE StatusError

(* The SidecarError branch of released().                                  *)
GivesUp ==
  /\ Stops /\ UNCHANGED <<keeping, unsent, begun, endedAt, sent, committed>>
  /\ \/ sent /\ SendsLast(ErrorEvent)
     \/ ~sent /\ ~letThrough /\ SendsLast(Refused)
     \/ ~sent /\ letThrough /\ relay' = "passing" /\ outputs' = <<>> /\ UNCHANGED <<got, letGo>>

Begin ==
  /\ relay = "beginning"
  /\ \/ /\ begun' = TRUE /\ uploader' = "waiting" /\ relay' = "polling"
        /\ UNCHANGED <<keeping, unsent, pending, stopped, endedAt, outputs, sent, committed,
                       got, letGo>>
     \/ GivesUp /\ UNCHANGED uploader
  /\ UNCHANGED <<letThrough, odd, readVars, inflight, handed, told, counting, sidecarVars>>

(* _next: an answer, or a failed call, ...                                 *)
PollAnswered ==
  /\ relay = "polling" /\ ready # <<>>
  /\ relay' = "answered" /\ outputs' = ready /\ ready' = <<>>
  /\ UNCHANGED <<letThrough, odd, readVars, keeping, unsent, pending, stopped, handVars,
                 released, gave, beats, begun, endedAt, sent, committed, got, letGo>>

PollFails ==
  /\ relay = "polling"
  /\ relay' = "unanswered"
  /\ UNCHANGED <<letThrough, odd, readVars, keeping, unsent, pending, stopped, handVars,
                 sidecarVars, begun, endedAt, outputs, sent, committed, got, letGo>>

(* ... and meanwhile the time limit, until the wait goes on, ...           *)
OutOfTime ==
  /\ relay \in {"polling", "answered", "unanswered"} /\ counting /\ ~stopped
  /\ Stops
  /\ UNCHANGED <<letThrough, odd, readVars, keeping, unsent, handVars, sidecarVars,
                 yieldVars>>

(* ... when an answer there is goes first, and LiteLLM's own error next.   *)
WaitEnds ==
  /\ \/ /\ relay = "answered" /\ relay' = "yielding"
        /\ UNCHANGED <<keeping, unsent, pending, stopped, begun, endedAt, outputs, sent,
                       committed, got, letGo>>
     \/ relay = "unanswered" /\ GivesUp
     \/ /\ relay = "polling" /\ source = "raised"
        /\ UNCHANGED <<keeping, unsent, pending, stopped, begun, endedAt, sent, committed>>
        /\ SendsLast(Item("raised"))
     \/ relay = "polling" /\ source # "raised" /\ stopped /\ GivesUp
  /\ UNCHANGED <<letThrough, odd, readVars, handVars, sidecarVars>>
-----------------------------------------------------------------------------
(* A reply the sidecar says it did not judge goes through, where that is   *)
(* set and nothing but keepalives went out.                                *)
GoesUnjudgedAnytime(what) == what = "not_judged" /\ letThrough
GoesUnjudged(what) == what = "not_judged" /\ letThrough /\ ~sent

(* An output that ends the reply.                                          *)
LastOutput(what) ==
  /\ endedAt' = TRUE
  /\ \/ /\ GoesUnjudged(what)
        /\ Stops /\ relay' = "passing" /\ outputs' = <<>> /\ UNCHANGED <<got, letGo>>
     \/ /\ ~GoesUnjudged(what)
        /\ SendsLast(CASE what = "refuse" -> Refused
                       [] what = "finished" -> Item("finished")
                       [] OTHER -> ErrorEvent)
        /\ UNCHANGED <<pending, stopped>>
  /\ UNCHANGED <<keeping, unsent, sent, committed>>

YieldOutput ==
  /\ relay = "yielding" /\ outputs # <<>>
  /\ LET output == Head(outputs) IN
       \/ /\ output = KeepAlive
          /\ Sends(output) /\ committed' = TRUE /\ outputs' = Tail(outputs)
          /\ UNCHANGED <<keeping, unsent, pending, stopped, relay, endedAt, sent, letGo>>
       \/ /\ output.what = "release"
          /\ Sends(output) /\ sent' = TRUE /\ committed' = TRUE /\ outputs' = Tail(outputs)
          /\ keeping' = FALSE /\ unsent' = 0
          /\ UNCHANGED <<pending, stopped, relay, endedAt, letGo>>
       \/ output = Garbled /\ GivesUp
       \/ /\ output.what \in {"finished", "refuse", "error_event", "not_judged"}
          /\ LastOutput(output.what)
  /\ UNCHANGED <<letThrough, odd, readVars, handVars, sidecarVars, begun>>

PollAgain ==
  /\ relay = "yielding" /\ outputs = <<>>
  /\ relay' = "polling"
  /\ UNCHANGED <<letThrough, odd, readVars, keeping, unsent, pending, stopped, handVars,
                 sidecarVars, begun, endedAt, outputs, sent, committed, got, letGo>>

(* _unjudged: every chunk kept, and then LiteLLM's end or its error.       *)
PassOn ==
  /\ relay = "passing"
  /\ \/ /\ unsent > 0
        /\ Sends(Raw(read - unsent + 1)) /\ unsent' = unsent - 1
        /\ UNCHANGED <<relay, outputs, letGo>>
     \/ /\ unsent = 0 /\ source # "more"
        /\ got' = Append(got, Item(IF source = "raised" THEN "raised" ELSE "finished"))
        /\ Closes(endedAt) /\ UNCHANGED unsent
  /\ UNCHANGED <<letThrough, odd, readVars, keeping, pending, stopped, handVars,
                 sidecarVars, begun, endedAt, sent, committed>>

(* LiteLLM asks for no more, as when the caller has gone.                  *)
CallerLeaves ==
  /\ relay # "over"
  /\ Closes(endedAt)
  /\ UNCHANGED <<letThrough, odd, readVars, keeping, unsent, pending, stopped, handVars,
                 sidecarVars, begun, endedAt, sent, committed, got>>

Reader  == Read \/ ReaderGoesOn \/ ReadEnds
Uploads == Upload \/ SidecarTakes \/ UploadAnswered
Yields  == Begin \/ PollAnswered \/ WaitEnds \/ YieldOutput \/ PollAgain \/ PassOn

Next == Reader \/ Uploads \/ UploadFails \/ SidecarReleases \/ SidecarEnds \/ OutOfTime
        \/ Yields \/ PollFails \/ CallerLeaves

Spec == Init /\ [][Next]_vars

(* LiteLLM's stream ends, a call other than a poll is answered or fails,   *)
(* and time passes; the sidecar may give nothing, poll after poll.         *)
FairSpec == Spec /\ WF_vars(ReadEnds) /\ WF_vars(ReaderGoesOn) /\ WF_vars(Uploads)
                 /\ WF_vars(Yields) /\ WF_vars(OutOfTime)
-----------------------------------------------------------------------------
Items == [what : {"release", "raw", "error", "error_event", "keepalive", "garbled",
                  "refuse", "not_judged", "finished", "raised"}, upto : Nat]

(* Every variable but a flag has a value of its type.                      *)
TypeOK ==
  /\ odd \in Nat /\ read \in Nat /\ source \in {"more", "ended", "raised"}
  /\ unsent \in 0..read /\ pending \in Nat /\ inflight \in Nat /\ handed \in Nat
  /\ uploader \in {"none", "waiting", "sending", "sent", "ending", "ended", "done"}
  /\ released \in Nat /\ ready \in Seq(Items) /\ outputs \in Seq(Items) /\ got \in Seq(Items)
  /\ relay \in {"beginning", "polling", "answered", "unanswered", "yielding", "passing",
                "over"}

(* The sidecar is told a reply has ended only when it has all of it, in    *)
(* order, and LiteLLM gave it whole: never after an error or a part lost.  *)
SidecarJudgesTheWholeReply == told => source = "ended" /\ handed = read

(* An error answered under its status is all the caller is sent.           *)
StatusErrorComesFirst ==
  \A k \in DOMAIN got : got[k].what = "error" => k = 1 /\ Len(got) = 1

(* A reply the relay ends is whole, as the sidecar released it or, where   *)
(* that is set, as LiteLLM yielded it, each chunk once and never a mix.    *)
RawInOrder(k) ==
  IF got[k].upto = 1 THEN \A j \in 1..k - 1 : got[j].what = "keepalive"
  ELSE k > 1 /\ got[k - 1] = Raw(got[k].upto - 1)
WholeAsYielded ==
  /\ \A k \in DOMAIN got : got[k].what # "release"
  /\ read > 0 => Len(got) > 1 /\ got[Len(got) - 1] = Raw(read)
WholeAsReleased ==
  \E k \in DOMAIN got : got[k] = Release(read) /\ \A j \in k + 1..Len(got) : got[j].what # "release"
RelayIsWholeOrRefused ==
  /\ \A k \in DOMAIN got : /\ got[k].what = "raw" => letThrough /\ RawInOrder(k)
                           /\ got[k].what = "release" =>
                                \A j \in 1..k - 1 : got[j].what # "raw"
  /\ got # <<>> /\ Last(got).what = "finished" =>
       source = "ended" /\ (WholeAsYielded \/ WholeAsReleased)

(* The relay comes to an end, whoever waits for whom.                      *)
RelayEnds == <>(relay = "over")
=============================================================================
