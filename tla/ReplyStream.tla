----------------------------- MODULE ReplyStream ----------------------------
(***************************************************************************)
(* A provider's reply as it streams through the sidecar                    *)
(* (sidecar/_reply_stream.py): the proxy feeds it chunk by chunk, run      *)
(* judges it, and the proxy collects what the client is sent of it.  Under *)
(* early release the text before the first call goes out as it arrives,    *)
(* with keepalives while nothing goes out; the rest is held until judged.  *)
(*                                                                         *)
(* A chunk is known by what it holds: the stream's opening, text, a call   *)
(* (anything held), or what can't be read.                                 *)
(***************************************************************************)
EXTENDS Naturals, Sequences, SequencesExt

CONSTANTS
  Modes,         \* of "error" (a provider's error), "whole" and "early"
  MaxChunks,     \* bound on the chunks of a reply
  MaxHeld,       \* _max_held_bytes, in chunks
  MaxPending,    \* _max_pending_bytes, in chunks
  MaxKeepalives  \* bound on the keepalives of a reply

ASSUME ReplyStreamAssumption ==
  /\ Modes \subseteq {"error", "whole", "early"} /\ Modes # {}
  /\ MaxChunks \in Nat /\ MaxHeld \in Nat /\ MaxKeepalives \in Nat
  /\ MaxPending \in Nat \ {0}

Kinds == {"opening", "text", "call", "unreadable"}

VARIABLES
  mode,      \* how the reply goes out
  body,      \* the chunks taken, in order
  feeding,   \* the chunk whose feeding waits, or "none"
  fed,       \* how many chunks were fed
  inputEnded, aborted, over, finished, \* _ended, _aborted, _over, _finished
  worker,    \* where run stands
  consumed,  \* how much of the body was read, or went out
  holding,   \* _Released.holding
  ending,    \* the input had ended when the body was last read
  opening,   \* chunks of the opening that wait for the first text
  sent,      \* _sent: the status is out
  formatted, \* the format of the stream is known
  sending,   \* the outputs the worker has yet to deliver, in order
  beating,   \* a keepalive is being delivered
  beats,     \* how many keepalives were begun
  queue,     \* the output the proxy has yet to collect, if any
  reading,   \* the proxy still reads
  toldHandler, \* what the handler was told of the reply
  verdict,   \* what the reply came to
  raised,    \* the worker raised
  got        \* what the proxy collected

replyVars == <<mode, body, feeding, fed, inputEnded, aborted, over, finished, worker,
               consumed, holding, ending, opening, sent, formatted, sending, beating,
               beats, queue, reading, toldHandler, verdict, raised, got>>

inputVars  == <<mode, body, feeding, fed, inputEnded, aborted, over>>
outputVars == <<queue, reading, got>>

Early  == mode = "early"
Closed == aborted \/ finished \/ over
Backlog == Len(body) - consumed

(* What goes out: chunks up to one of the body, judged or not, or the end. *)
Chunks(n, judged) == [what |-> "bytes", upto |-> n, judged |-> judged]
KeepAlive     == [what |-> "keepalive", upto |-> 0, judged |-> FALSE]
Ending(how)   == [what |-> how, upto |-> 0, judged |-> TRUE]
-----------------------------------------------------------------------------
ReplyInit ==
  /\ mode \in Modes
  /\ body = <<>> /\ feeding = "none" /\ fed = 0
  /\ inputEnded = FALSE /\ aborted = FALSE /\ over = FALSE /\ finished = FALSE
  /\ worker = IF mode = "error" THEN "error" ELSE IF mode = "whole" THEN "whole" ELSE "early"
  /\ consumed = 0 /\ holding = FALSE /\ ending = FALSE /\ opening = 0
  /\ sent = FALSE /\ formatted \in (IF mode = "early" THEN BOOLEAN ELSE {FALSE})
  /\ sending = <<>> /\ beating = FALSE /\ beats = 0
  /\ queue = <<>> /\ reading = TRUE
  /\ toldHandler = <<>> /\ verdict = "none" /\ raised = FALSE /\ got = <<>>

(* A chunk fed is held, unless what was fed is no longer wanted.           *)
Takes(kind) == body' = IF Closed THEN body ELSE Append(body, kind)

(* feed: a reply larger than what is held is over, and feeding waits while *)
(* what goes out as it arrives is backed up.                               *)
Feed(kind) ==
  /\ ~inputEnded /\ feeding = "none" /\ fed < MaxChunks
  /\ mode # "early" => kind = "text"
  /\ fed' = fed + 1
  /\ IF mode # "error" /\ Len(body) + 1 > MaxHeld
     THEN over' = TRUE /\ UNCHANGED <<body, feeding>>
     ELSE /\ IF mode # "whole" /\ ~Closed /\ Backlog >= MaxPending
             THEN feeding' = kind /\ UNCHANGED body
             ELSE Takes(kind) /\ UNCHANGED feeding
          /\ UNCHANGED over
  /\ UNCHANGED <<mode, inputEnded, aborted, finished, worker, consumed, holding, ending,
                 opening, sent, formatted, sending, beating, beats, outputVars, toldHandler,
                 verdict, raised>>

(* As if what waits to be fed didn't go on once the reply is over.         *)
FeedGoesOnWhileOpen ==
  /\ feeding # "none" /\ Backlog < MaxPending
  /\ Takes(feeding)
  /\ feeding' = "none"
  /\ UNCHANGED <<mode, fed, inputEnded, aborted, over, finished, worker, consumed, holding,
                 ending, opening, sent, formatted, sending, beating, beats, outputVars,
                 toldHandler, verdict, raised>>

FeedGoesOn ==
  /\ feeding # "none" /\ (Closed \/ Backlog < MaxPending)
  /\ Takes(feeding)
  /\ feeding' = "none"
  /\ UNCHANGED <<mode, fed, inputEnded, aborted, over, finished, worker, consumed, holding,
                 ending, opening, sent, formatted, sending, beating, beats, outputVars,
                 toldHandler, verdict, raised>>

EndInput ==
  /\ ~inputEnded /\ feeding = "none"
  /\ inputEnded' = TRUE
  /\ UNCHANGED <<mode, body, feeding, fed, aborted, over, finished, worker, consumed,
                 holding, ending, opening, sent, formatted, sending, beating, beats,
                 outputVars, toldHandler, verdict, raised>>

Abort ==
  /\ ~aborted
  /\ aborted' = TRUE
  /\ UNCHANGED <<mode, body, feeding, fed, inputEnded, over, finished, worker, consumed,
                 holding, ending, opening, sent, formatted, sending, beating, beats,
                 outputVars, toldHandler, verdict, raised>>
-----------------------------------------------------------------------------
(* The worker goes on at `next` once it has delivered the outputs, if any; *)
(* an output other than bytes is the last, and nothing fed is wanted after.*)
Outs(outputs, next) ==
  /\ sending' = outputs
  /\ worker' = next
  /\ finished' = (finished \/ (outputs # <<>> /\ Head(outputs).what # "bytes"))

(* The output has ended.                                                   *)
Stops(raises) ==
  /\ worker' = "done" /\ finished' = TRUE /\ raised' = raises
  /\ beating' = FALSE
  /\ UNCHANGED sending

Tells(what) == toldHandler' = Append(toldHandler, what)

(* _out: one output at a time, to a queue of one; an abort drops it.       *)
Deliver ==
  /\ sending # <<>> /\ ~beating
  /\ aborted \/ ~reading \/ queue = <<>>
  /\ queue' = IF aborted \/ ~reading THEN queue ELSE <<Head(sending)>>
  /\ sending' = Tail(sending)
  /\ finished' = (finished \/ (Len(sending) > 1 /\ sending[2].what # "bytes"))
  /\ UNCHANGED <<inputVars, worker, consumed, holding, ending, opening, sent, formatted,
                 beating, beats, reading, toldHandler, verdict, raised, got>>

At(place) == worker = place /\ sending = <<>>

(* A reply held whole: judged once it has ended, and not when it is too    *)
(* large, or cut off before its end.                                       *)
RunWhole ==
  /\ At("whole")
  /\ \/ /\ over
        /\ Tells("unreadable") /\ Stops(TRUE) /\ verdict' = "not_judged"
     \/ /\ ~over /\ ~inputEnded /\ aborted
        /\ Tells("cut_off") /\ Stops(FALSE) /\ verdict' = "not_judged"
     \/ /\ ~over /\ inputEnded
        /\ Tells("reply") /\ Outs(<<>>, "judging") /\ UNCHANGED <<raised, beating, verdict>>
  /\ UNCHANGED <<inputVars, consumed, holding, ending, opening, sent, formatted, beats,
                 outputVars>>

(* _provider_error: it goes on unjudged, as it comes.                      *)
RunError ==
  \/ /\ At("error")
     /\ Tells("reply") /\ verdict' = "goes_on" /\ Outs(<<>>, "passing")
     /\ UNCHANGED <<inputVars, consumed, holding, ending, opening, sent, formatted,
                    beating, beats, outputVars, raised>>
  \/ /\ At("passing") /\ Backlog > 0
     /\ consumed' = Len(body)
     /\ Outs(<<Chunks(Len(body), FALSE)>>, "passing")
     /\ UNCHANGED <<inputVars, holding, ending, opening, sent, formatted, beating, beats,
                    outputVars, toldHandler, verdict, raised>>
  \/ /\ At("passing") /\ Backlog = 0 /\ aborted
     /\ Stops(FALSE)
     /\ UNCHANGED <<inputVars, consumed, holding, ending, opening, sent, formatted, beats,
                    outputVars, toldHandler, verdict>>
  \/ /\ At("passing") /\ Backlog = 0 /\ inputEnded /\ ~aborted
     /\ Outs(<<Ending("finished")>>, "last")
     /\ UNCHANGED <<inputVars, consumed, holding, ending, opening, sent, formatted,
                    beating, beats, outputVars, toldHandler, verdict, raised>>

(* _fail, or the exception raised: a refusal with its status while nothing *)
(* was sent, and an error event once something was.                        *)
Fails ==
  IF ~sent \/ aborted THEN Stops(TRUE)
  ELSE Outs(<<Ending("error_event")>>, "last") /\ UNCHANGED <<raised, beating>>

(* How much of the body there is before a call, where there is none up to  *)
(* some chunk of it.                                                       *)
EndsFree(from, n) ==
  /\ \A k \in from + 1 .. n : body[k] # "call"
  /\ n < Len(body) => body[n + 1] = "call"
Free(from) == CHOOSE n \in from .. Len(body) : EndsFree(from, n)

Unread(kind) == \E k \in consumed + 1 .. Len(body) : body[k] = kind

(* What is newly read and comes before any call waits while it is all      *)
(* opening and nothing went out before.                                    *)
Waits == ~sent /\ \A k \in consumed + 1 .. Free(consumed) : body[k] = "opening"

(* What was read is let go, if anything is; the rest is held.              *)
Releases ==
  /\ consumed' = Len(body) /\ ending' = inputEnded
  /\ holding' = (holding \/ Unread("call"))
  /\ formatted' = (formatted \/ (~holding /\ Backlog > 0))
  /\ \/ /\ holding \/ Free(consumed) = consumed
        /\ Outs(<<>>, "looked") /\ UNCHANGED <<opening, sent>>
     \/ /\ ~holding /\ Free(consumed) > consumed /\ Waits
        /\ opening' = opening + (Free(consumed) - consumed)
        /\ Outs(<<>>, "looked") /\ UNCHANGED sent
     \/ /\ ~holding /\ Free(consumed) > consumed /\ ~Waits
        /\ opening' = 0 /\ sent' = TRUE
        /\ Outs(<<Chunks(Free(consumed), FALSE)>>, "looked")
  /\ UNCHANGED <<toldHandler, verdict, raised, beating>>

(* _release_early, once there is something to look at.                     *)
ReleaseEarly ==
  /\ At("early") /\ (Backlog > 0 \/ inputEnded \/ aborted \/ over)
  /\ \/ /\ aborted
        /\ Tells("cut_off") /\ Stops(FALSE) /\ verdict' = "not_judged"
        /\ UNCHANGED <<consumed, holding, ending, opening, sent, formatted>>
     \/ /\ ~aborted /\ (over \/ (~holding /\ Unread("unreadable")))
        /\ Tells("unreadable") /\ Fails /\ verdict' = "not_judged"
        /\ consumed' = IF over THEN consumed ELSE Len(body)
        /\ formatted' = (formatted \/ (~over /\ Backlog > 0))
        /\ UNCHANGED <<holding, ending, opening, sent>>
     \/ ~aborted /\ ~over /\ (holding \/ ~Unread("unreadable")) /\ Releases
  /\ UNCHANGED <<inputVars, beats, outputVars>>

(* Once what was ready is delivered: an abort meanwhile starts no judgment.*)
Looked ==
  /\ At("looked")
  /\ \/ /\ aborted
        /\ Tells("cut_off") /\ Stops(FALSE) /\ verdict' = "not_judged"
     \/ /\ ~aborted /\ ending
        /\ Tells("reply") /\ Outs(<<>>, "judging") /\ UNCHANGED <<raised, beating, verdict>>
     \/ /\ ~aborted /\ ~ending
        /\ Outs(<<>>, "early") /\ UNCHANGED <<toldHandler, raised, beating, verdict>>
  /\ UNCHANGED <<inputVars, consumed, holding, ending, opening, sent, formatted, beats,
                 outputVars>>

(* How much of the body went out unjudged.                                 *)
Released == IF sent THEN Free(0) - opening ELSE 0

(* The rest goes out only if something of it was held back.                *)
HasRestIfHeld(rest) == rest /\ holding

(* The rest of the body goes out if there is any.                          *)
HasRest(rest) == rest

(* handler.reply ends: the reply goes on, as it is or edited, is refused,  *)
(* or could not be judged.                                                 *)
Judged ==
  /\ At("judging")
  /\ \/ /\ verdict' = "goes_on"
        /\ \E rest \in (IF mode = "whole" \/ Released < Len(body) THEN {TRUE} ELSE BOOLEAN) :
             /\ Outs((IF mode = "whole" \/ HasRest(rest) THEN <<Chunks(Len(body), TRUE)>>
                      ELSE <<>>) \o <<Ending("finished")>>, "last")
             /\ sent' = (sent \/ (Early /\ HasRest(rest)))
        /\ UNCHANGED <<raised, beating>>
     \/ /\ verdict' = "refused"
        /\ Outs(<<Ending(IF sent THEN "error_event" ELSE "refuse")>>, "last")
        /\ UNCHANGED <<sent, raised, beating>>
     \/ /\ verdict' = "not_judged"
        /\ Fails /\ UNCHANGED sent
  /\ UNCHANGED <<inputVars, consumed, holding, ending, opening, formatted, beats,
                 outputVars, toldHandler>>

(* The last output is out.                                                 *)
RunEnds ==
  /\ At("last")
  /\ Stops(FALSE)
  /\ UNCHANGED <<inputVars, consumed, holding, ending, opening, sent, formatted, beats,
                 outputVars, toldHandler, verdict>>

Worker == RunWhole \/ RunError \/ ReleaseEarly \/ Looked \/ Judged \/ RunEnds \/ Deliver
-----------------------------------------------------------------------------
(* As if a keepalive didn't take the status with it.                       *)
BeatWithoutStatus ==
  /\ Early /\ ~Closed /\ ~beating /\ sending = <<>> /\ worker # "done"
  /\ formatted /\ beats < MaxKeepalives
  /\ beats' = beats + 1 /\ beating' = TRUE
  /\ UNCHANGED <<inputVars, finished, worker, consumed, holding, ending, opening, sent,
                 formatted, sending, outputVars, toldHandler, verdict, raised>>

(* A keepalive, where nothing has gone out for long, nothing is going out  *)
(* and the format to write a refusal in is known; the status goes with it. *)
Beat ==
  /\ Early /\ ~Closed /\ ~beating /\ sending = <<>> /\ worker # "done"
  /\ formatted /\ beats < MaxKeepalives
  /\ beats' = beats + 1 /\ beating' = TRUE /\ sent' = TRUE
  /\ UNCHANGED <<inputVars, finished, worker, consumed, holding, ending, opening,
                 formatted, sending, outputVars, toldHandler, verdict, raised>>

BeatGoesOut ==
  /\ beating
  /\ aborted \/ ~reading \/ queue = <<>>
  /\ queue' = IF aborted \/ ~reading THEN queue ELSE <<KeepAlive>>
  /\ beating' = FALSE
  /\ UNCHANGED <<inputVars, finished, worker, consumed, holding, ending, opening, sent,
                 formatted, sending, beats, reading, toldHandler, verdict, raised, got>>

(* The proxy collects an output, and none once it has aborted.             *)
Collect ==
  /\ queue # <<>> /\ reading
  /\ queue' = <<>>
  /\ IF aborted THEN reading' = FALSE /\ UNCHANGED got
     ELSE got' = Append(got, Head(queue)) /\ UNCHANGED reading
  /\ UNCHANGED <<inputVars, finished, worker, consumed, holding, ending, opening, sent,
                 formatted, sending, beating, beats, toldHandler, verdict, raised>>

(* The proxy stops reading without saying so.                              *)
StopReading ==
  /\ reading
  /\ reading' = FALSE /\ queue' = <<>>
  /\ UNCHANGED <<inputVars, finished, worker, consumed, holding, ending, opening, sent,
                 formatted, sending, beating, beats, toldHandler, verdict, raised, got>>

ReplyNext == \/ \E kind \in Kinds : Feed(kind)
        \/ FeedGoesOn \/ EndInput \/ Abort \/ Worker \/ Beat \/ BeatGoesOut \/ Collect
        \/ StopReading

ReplySpec == ReplyInit /\ [][ReplyNext]_replyVars

(* The event loop runs what is ready, a judgment ends, and a proxy ends or *)
(* aborts what it feeds, and collects what there is.                       *)
FairReplySpec ==
  /\ ReplySpec
  /\ WF_replyVars(Worker) /\ WF_replyVars(BeatGoesOut) /\ WF_replyVars(FeedGoesOn)
  /\ WF_replyVars(Collect) /\ WF_replyVars(EndInput)
-----------------------------------------------------------------------------
(* Every variable has a value of its type.                                 *)
ReplyTyped ==
  /\ body \in Seq(Kinds) /\ fed \in 0..MaxChunks
  /\ feeding \in Kinds \cup {"none"}
  /\ consumed \in 0..Len(body) /\ opening \in 0..Len(body)
  /\ Len(queue) <= 1 /\ Len(sending) <= 2
  /\ worker \in {"error", "passing", "whole", "early", "looked", "judging", "last", "done"}

(* Of a reply that wasn't judged yet the client has, in order, only what   *)
(* comes before the first call, and of a reply that ended it has all.      *)
HeldUntilJudged ==
  \A k \in DOMAIN got : got[k].what = "bytes" =>
    \/ mode = "error"
    \/ got[k].judged /\ verdict = "goes_on"
    \/ /\ ~got[k].judged /\ Early
       /\ \A n \in 1..got[k].upto : body[n] \in {"opening", "text"}

FinishedIsWhole ==
  got # <<>> /\ Last(got).what = "finished" =>
    \/ fed = 0
    \/ \E k \in DOMAIN got : got[k].what = "bytes" /\ got[k].upto = fed

(* The handler is told of a reply once, as judged or as not judged,        *)
(* whatever the proxy did meanwhile, and no later than the output's end.   *)
HandlerToldOnce ==
  /\ Len(toldHandler) <= 1
  /\ worker = "done" => Len(toldHandler) = 1

(* What the client has of a reply is what of it was judged, or comes       *)
(* before anything that must be, and the handler knows what became of it.  *)
ClientHasWhatWasJudged == HeldUntilJudged /\ FinishedIsWhole /\ HandlerToldOnce

(* The stream's outputs are as StreamPromise says.                         *)
Promise == INSTANCE StreamPromise WITH
  client <- [k \in DOMAIN got |-> got[k].what],
  verdict <- verdict
KeepsItsPromise == Promise!Spec

(* A reply always ends, and so does feeding it, whatever its worker, its   *)
(* keepalives and its proxy wait for.                                      *)
ReplyEnds == <>[](worker = "done" /\ feeding = "none")
=============================================================================
