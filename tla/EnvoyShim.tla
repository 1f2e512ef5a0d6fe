----------------------------- MODULE EnvoyShim ------------------------------
(***************************************************************************)
(* One HTTP exchange through Envoy's external processor                    *)
(* (sidecar/envoy/_shim.py).  Envoy sends the request's and the reply's    *)
(* parts and is sent an answer to each; a pump reads its messages, another *)
(* task delivers what the reply stream gives, both through a queue of one  *)
(* that Process hands to Envoy.  Envoy may end its stream or cancel it at  *)
(* any time, and judgments go on after it.  The reply stream is known by   *)
(* its promise (StreamPromise).                                            *)
(***************************************************************************)
EXTENDS Naturals, Sequences

CONSTANTS
  MaxChunks,   \* bound on the chunks of a reply
  MaxReleases, \* bound on what the stream releases before its last output
  Statuses,    \* of a reply: "ok", "error", "encoded"
  Bodyless     \* requests may come without a body

EnvoyAssumption ==
  /\ MaxChunks \in Nat /\ MaxReleases \in Nat /\ Statuses \subseteq {"ok", "error", "encoded"}
  /\ Bodyless \in BOOLEAN

VARIABLES
  envoy,     \* what Envoy sends next
  chunks,    \* how many chunks of the reply it sent
  inbox,     \* its messages not read yet
  halfClosed, cancelled, \* it sends nothing more; it waits for nothing more
  got,       \* the answers it was handed
  pump,      \* the task in _Exchange.read
  putting,   \* the answers the pump is putting in the queue
  judgment,  \* a judgment of the request or the reply, as a task of its own
  queue,     \* _answers
  waiters,   \* the tasks that wait for room in it, in order
  finished, replied, passing, forwarded, bodyEnded, trailers, \* as in _Exchange
  delivery,  \* the task in _deliver: none, ready, putting, over
  delivering, \* the answers it is putting in the queue
  stream,    \* the reply stream: none, going, over, aborted
  given,     \* its outputs, as StreamPromise has them
  taken,     \* how many of them the delivery has taken
  process,   \* Process hands on the answers: on, over
  settled,   \* how the handler was told what became of the reply, in order
  attempt    \* the state of the eval's attempt at the request

envoyVars == <<envoy, chunks, halfClosed, cancelled>>
flags     == <<finished, replied, passing, forwarded, bodyEnded, trailers>>
reply     == <<delivery, delivering, stream, given, taken>>
answers   == <<pump, putting, queue, waiters>>
vars      == <<envoyVars, inbox, got, answers, judgment, flags, reply, process, settled, attempt>>

Msg(kind, eos, status) == [kind |-> kind, eos |-> eos, status |-> status]

Init ==
  /\ envoy = "request_headers" /\ chunks = 0 /\ inbox = <<>>
  /\ halfClosed = FALSE /\ cancelled = FALSE /\ got = <<>>
  /\ pump = "reading" /\ putting = <<>> /\ judgment = "none" /\ queue = <<>> /\ waiters = <<>>
  /\ finished = FALSE /\ replied = FALSE /\ passing = FALSE
  /\ forwarded = FALSE /\ bodyEnded = FALSE /\ trailers = FALSE
  /\ delivery = "none" /\ delivering = <<>> /\ stream = "none" /\ given = <<>> /\ taken = 0
  /\ process = "on" /\ settled = <<>> /\ attempt = "none"

shim == <<got, answers, judgment, flags, reply, process, settled, attempt>>

Answered(kind) == \E k \in 1..Len(got) : got[k] = kind
-----------------------------------------------------------------------------
(* Envoy: the reply comes once the request was answered to go on.          *)
Sends(m, next) ==
  /\ ~halfClosed /\ ~cancelled /\ process = "on" /\ Len(inbox) < 2
  /\ inbox' = Append(inbox, m)
  /\ envoy' = next
  /\ UNCHANGED <<halfClosed, cancelled, shim>>

EnvoySends ==
  \/ /\ envoy = "request_headers" /\ UNCHANGED chunks
     /\ \E route \in {"routed", "unrouted"} :
          \/ Sends(Msg("request_headers", FALSE, route), "request_body")
          \/ Bodyless /\ Sends(Msg("request_headers", TRUE, route), "bodyless")
  \/ /\ envoy = "request_body" /\ Answered("request_headers") /\ UNCHANGED chunks
     /\ Sends(Msg("request_body", TRUE, "ok"), "sent")
  \/ /\ ~Answered("immediate")
     /\ \/ envoy = "sent" /\ Answered("request_body")
        \/ envoy = "bodyless" /\ Answered("request_headers")
     /\ UNCHANGED chunks
     /\ \E eos \in BOOLEAN, status \in Statuses :
          Sends(Msg("response_headers", eos, status), IF eos THEN "all" ELSE "body")
  \/ /\ envoy = "body" /\ chunks < MaxChunks /\ chunks' = chunks + 1
     /\ \/ Sends(Msg("response_body", FALSE, "ok"), "body")
        \/ Sends(Msg("response_body", TRUE, "ok"), "all")
  \/ /\ envoy = "body" /\ UNCHANGED chunks
     /\ Sends(Msg("response_trailers", TRUE, "ok"), "all")

EnvoyHalfCloses ==
  /\ ~halfClosed
  /\ halfClosed' = TRUE
  /\ UNCHANGED <<envoy, chunks, cancelled, inbox, shim>>

EnvoyCancels ==
  /\ ~cancelled
  /\ cancelled' = TRUE
  /\ UNCHANGED <<envoy, chunks, halfClosed, inbox, shim>>

Envoys == EnvoySends \/ EnvoyHalfCloses \/ EnvoyCancels
-----------------------------------------------------------------------------
(* A stream that stopped is let go of, and nothing is said of a request    *)
(* whose reply never began.                                                *)
CloseStreamOnly ==
  /\ delivery' = IF delivery = "none" THEN "none" ELSE "over"
  /\ stream' = IF stream = "going" THEN "aborted" ELSE stream
  /\ UNCHANGED <<replied, settled, attempt>>

(* close: a request sent on whose reply never began is recorded as cut off.*)
Close ==
  /\ delivery' = IF delivery = "none" THEN "none" ELSE "over"
  /\ stream' = IF stream = "going" THEN "aborted" ELSE stream
  /\ IF stream = "none" /\ forwarded /\ ~replied
     THEN /\ replied' = TRUE
          /\ settled' = Append(settled, "cut_off")
          /\ attempt' = "not_judged"
     ELSE UNCHANGED <<replied, settled, attempt>>

HasRoom(q) == Len(q) < 1

(* A task puts its answers in the queue without waiting while there is     *)
(* room, whoever waits; "none" ends them.                                  *)
PumpGoesOn(items, q, ws, over) ==
  /\ putting' = items
  /\ IF items # <<>> THEN pump' = "putting" /\ waiters' = Append(ws, "pump")
     ELSE /\ pump' = IF over THEN "over" ELSE "reading"
          /\ waiters' = ws
  /\ queue' = q

PutItems(items, over, ws) ==
  IF items # <<>> /\ HasRoom(queue)
  THEN PumpGoesOn(Tail(items), Append(queue, Head(items)), ws, over)
  ELSE PumpGoesOn(items, queue, ws, over)

(* The pump has the answers to a message; once it has put them, it ends if *)
(* the exchange has finished.                                              *)
Puts(items, over) == PutItems(IF over THEN Append(items, "none") ELSE items, over, waiters)
Waits == pump' = "judging" /\ UNCHANGED <<putting, queue, waiters>>

(* _request_headers, and what is left alone                                *)
OnRequestHeaders(m) ==
  /\ m.kind = "request_headers"
  /\ IF m.status = "unrouted"
     THEN Puts(<<"immediate">>, TRUE) /\ finished' = TRUE /\ UNCHANGED judgment
     ELSE /\ UNCHANGED finished
          /\ IF m.eos THEN judgment' = "bodyless" /\ Waits
             ELSE Puts(<<"request_headers">>, FALSE) /\ UNCHANGED judgment
  /\ attempt' = IF m.status = "routed" /\ m.eos THEN "judging" ELSE attempt
  /\ UNCHANGED <<replied, passing, forwarded, bodyEnded, trailers, reply, settled>>

OnRequestBody(m) ==
  /\ m.kind = "request_body"
  /\ judgment' = "request" /\ Waits /\ attempt' = "judging"
  /\ UNCHANGED <<flags, reply, settled>>

(* _response_headers: the reply is passed over, refused, judged without a  *)
(* body, or given to a stream.                                             *)
OnResponseHeaders(m) ==
  /\ m.kind = "response_headers"
  /\ replied' = TRUE
  /\ IF m.status = "encoded"
     THEN /\ Puts(<<"immediate">>, TRUE) /\ finished' = TRUE
          /\ settled' = Append(settled, "unreadable") /\ attempt' = "not_judged"
          /\ UNCHANGED <<judgment, passing, reply>>
     ELSE IF m.status = "error" \/ m.eos
     THEN /\ judgment' = (IF m.status = "ok" THEN "reply"
                          ELSE IF m.eos THEN "error_whole" ELSE "error")
          /\ passing' = (m.status = "error")
          /\ settled' = Append(settled, "reply") /\ attempt' = "judging"
          /\ Waits
          /\ UNCHANGED <<finished, reply>>
     ELSE /\ stream' = "going" /\ delivery' = "ready"
          /\ settled' = Append(settled, "stream") /\ attempt' = "judging"
          /\ Puts(<<"response_headers">>, FALSE)
          /\ UNCHANGED <<judgment, passing, finished, delivering, given, taken>>
  /\ UNCHANGED <<forwarded, bodyEnded, trailers>>

(* _response_body, and the trailers                                        *)
OnResponseBody(m) ==
  /\ m.kind \in {"response_body", "response_trailers"}
  /\ IF stream # "none"
     THEN /\ Puts(<<>>, FALSE)
          /\ bodyEnded' = (bodyEnded \/ m.eos)
          /\ trailers' = (m.kind = "response_trailers")
          /\ UNCHANGED finished
     ELSE /\ Puts(IF m.kind = "response_trailers" THEN <<"response_trailers">>
                  ELSE IF passing THEN <<IF m.eos THEN "end" ELSE "part">> ELSE <<>>, m.eos)
          /\ finished' = m.eos
          /\ UNCHANGED <<bodyEnded, trailers>>
  /\ UNCHANGED <<judgment, replied, passing, forwarded, reply, settled, attempt>>

(* Envoy may send more after the end it was answered at.                   *)
OnFinished == Puts(<<>>, TRUE) /\ UNCHANGED <<judgment, flags, reply, settled, attempt>>

Read ==
  /\ pump = "reading" /\ inbox # <<>>
  /\ inbox' = Tail(inbox)
  /\ LET m == Head(inbox) IN
       IF finished THEN OnFinished
       ELSE OnRequestHeaders(m) \/ OnRequestBody(m) \/ OnResponseHeaders(m) \/ OnResponseBody(m)
  /\ UNCHANGED <<envoyVars, got, process>>

(* A judgment of the request ends: the handler then awaits a reply of one  *)
(* that goes on, whether Envoy still waits or not.                         *)
RequestJudged ==
  /\ judgment \in {"request", "bodyless"}
  /\ judgment' = "none"
  /\ \E answer \in {"pass", "replace", "refuse"} :
       /\ attempt' = IF answer = "refuse" THEN "over" ELSE "awaiting_reply"
       /\ IF pump # "judging" THEN UNCHANGED <<answers, finished, forwarded>>
          ELSE LET refused == answer = "refuse" \/ (answer = "replace" /\ judgment = "bodyless")
               IN  /\ forwarded' = ~refused
                   /\ finished' = refused
                   /\ Puts(<<IF refused THEN "immediate"
                             ELSE IF judgment = "bodyless" THEN "request_headers"
                             ELSE "request_body">>, refused)
  /\ UNCHANGED <<envoyVars, inbox, got, replied, passing, bodyEnded, trailers, reply, process,
                 settled>>

(* A judgment of a reply handed over without its body ends.                *)
ReplyJudged ==
  /\ judgment \in {"reply", "error", "error_whole"}
  /\ judgment' = "none" /\ attempt' = "over"
  /\ IF pump # "judging" THEN UNCHANGED <<answers, finished>>
     ELSE \/ /\ Puts(<<"response_headers">>, judgment # "error")
             /\ finished' = (judgment # "error")
          \/ Puts(<<"immediate">>, TRUE) /\ finished' = TRUE
  /\ UNCHANGED <<envoyVars, inbox, got, replied, passing, forwarded, bodyEnded, trailers, reply,
                 process, settled>>

(* The pump, first of those that wait, puts its answer; it ends if the     *)
(* exchange has finished meanwhile.                                        *)
PumpPuts ==
  /\ pump = "putting" /\ Head(waiters) = "pump" /\ HasRoom(queue)
  /\ LET ends == Head(putting) = "none" IN
       PumpGoesOn(IF finished /\ ~ends THEN <<"none">> ELSE <<>>, Append(queue, Head(putting)),
                  Tail(waiters), ends)
  /\ UNCHANGED <<envoyVars, inbox, got, judgment, flags, reply, process, settled, attempt>>

ClosesAndEnds ==
  /\ Close
  /\ PutItems(<<"none">>, TRUE, SelectSeq(waiters, LAMBDA w : w # "delivery"))
  /\ UNCHANGED <<envoyVars, inbox, got, judgment, finished, passing, forwarded, bodyEnded,
                 trailers, delivering, given, taken, process>>

(* Envoy has nothing more to send: a reply whose body has ended is still   *)
(* being answered; otherwise the exchange is closed.                       *)
EndOfMessages ==
  /\ pump = "reading" /\ inbox = <<>> /\ halfClosed
  /\ IF finished \/ (stream # "none" /\ bodyEnded)
     THEN /\ pump' = "over"
          /\ UNCHANGED <<envoyVars, inbox, got, putting, queue, waiters, judgment, flags, reply,
                         process, settled, attempt>>
     ELSE ClosesAndEnds

(* Reading Envoy's messages fails: the exchange ends rather than leave     *)
(* Envoy waiting.                                                          *)
ReadFails == pump = "reading" /\ cancelled /\ ClosesAndEnds

Pump == Read \/ PumpPuts \/ EndOfMessages
-----------------------------------------------------------------------------
(* The stream gives an output, as it promises.                             *)
Ends == {"refuse", "error_event", "finished"}

Gives(kind) ==
  /\ stream = "going"
  /\ kind = "release" => Len(given) < MaxReleases
  /\ kind = "refuse" => given = <<>>
  /\ kind = "finished" => bodyEnded
  /\ given' = Append(given, kind)
  /\ stream' = IF kind \in Ends THEN "over" ELSE stream
  /\ attempt' = IF kind \in Ends THEN "over" ELSE attempt
  /\ UNCHANGED <<envoyVars, inbox, got, answers, judgment, flags, delivery,
                 delivering, taken, process, settled>>

(* A stream let go of is settled by itself.                                *)
AbortedEnds ==
  /\ stream = "aborted" /\ attempt = "judging"
  /\ attempt' = "over"
  /\ UNCHANGED <<envoyVars, inbox, got, answers, judgment, flags, reply, process,
                 settled>>

(* What the delivery answers the last output with                          *)
LastAnswers(kind) ==
  IF kind = "refuse" THEN <<"immediate">>
  ELSE IF trailers THEN <<"part", "response_trailers">> ELSE <<"end">>

DeliveryPutItems(items, q, ws) ==
  /\ delivering' = items
  /\ IF items # <<>> THEN delivery' = "putting" /\ waiters' = Append(ws, "delivery")
     ELSE /\ delivery' = IF finished' THEN "over" ELSE "ready"
          /\ waiters' = ws
  /\ queue' = q

(* _deliver                                                                *)
Takes ==
  /\ delivery = "ready" /\ taken < Len(given)
  /\ taken' = taken + 1
  /\ LET kind == given[taken + 1]
         items == IF kind = "release" THEN <<"part">> ELSE Append(LastAnswers(kind), "none")
     IN  /\ finished' = (finished \/ kind # "release")
         /\ IF HasRoom(queue) THEN DeliveryPutItems(Tail(items), Append(queue, Head(items)), waiters)
            ELSE DeliveryPutItems(items, queue, waiters)
  /\ UNCHANGED <<envoyVars, inbox, got, pump, putting, judgment, replied, passing, forwarded,
                 bodyEnded, trailers, stream, given, process, settled, attempt>>

(* The delivery, first of those that wait, puts its answer.                *)
DeliveryPuts ==
  /\ delivery = "putting" /\ Head(waiters) = "delivery" /\ HasRoom(queue)
  /\ UNCHANGED flags
  /\ DeliveryPutItems(Tail(delivering), Append(queue, Head(delivering)), Tail(waiters))
  /\ UNCHANGED <<envoyVars, inbox, got, pump, putting, judgment, stream, given, taken, process,
                 settled, attempt>>

Delivery == Takes \/ DeliveryPuts
-----------------------------------------------------------------------------
(* Process hands Envoy the answers up to the end, or until Envoy waits for *)
(* nothing more; the pump is then stopped and the exchange closed.         *)
Yields ==
  /\ process = "on" /\ ~cancelled /\ queue # <<>> /\ Head(queue) # "none"
  /\ got' = Append(got, Head(queue)) /\ queue' = Tail(queue)
  /\ UNCHANGED <<envoyVars, inbox, pump, putting, waiters, judgment, flags, reply, process, settled, attempt>>

Ended ==
  /\ process = "on" /\ (cancelled \/ (queue # <<>> /\ Head(queue) = "none"))
  /\ process' = "over" /\ pump' = "over" /\ queue' = <<>> /\ waiters' = <<>>
  /\ Close
  /\ UNCHANGED <<envoyVars, inbox, got, putting, judgment, finished, passing, forwarded,
                 bodyEnded, trailers, delivering, given, taken>>

Next ==
  \/ Envoys \/ Pump \/ ReadFails \/ RequestJudged \/ ReplyJudged \/ Delivery
  \/ \E kind \in Ends \cup {"release"} : Gives(kind)
  \/ AbortedEnds \/ Yields \/ Ended

Safe == Init /\ [][Next]_vars

(* Tasks that can run do, and judging ends.  Nothing makes Envoy end its   *)
(* stream, which it does at the end of the body.                           *)
Fairness ==
  /\ WF_vars(Pump) /\ WF_vars(Delivery) /\ WF_vars(Yields) /\ WF_vars(Ended)
  /\ WF_vars(RequestJudged) /\ WF_vars(ReplyJudged) /\ WF_vars(AbortedEnds)
  /\ WF_vars((bodyEnded \/ stream = "aborted") /\ \E kind \in Ends : Gives(kind))

Spec == Safe /\ Fairness
-----------------------------------------------------------------------------
Kinds == {"request_headers", "request_body", "response_headers", "part", "end",
          "response_trailers", "immediate"}

(* Every variable has a value of its type.                                 *)
TypeOK ==
  /\ envoy \in {"request_headers", "request_body", "bodyless", "sent", "body", "all"}
  /\ got \in Seq(Kinds)
  /\ putting \in Seq(Kinds \cup {"none"}) /\ delivering \in Seq(Kinds \cup {"none"})
  /\ Len(queue) <= 1 /\ queue \in Seq(Kinds \cup {"none"})
  /\ pump \in {"reading", "judging", "putting", "over"}
  /\ judgment \in {"none", "request", "bodyless", "reply", "error", "error_whole"}
  /\ delivery \in {"none", "ready", "putting", "over"}
  /\ stream \in {"none", "going", "over", "aborted"}
  /\ taken <= Len(given) /\ process \in {"on", "over"}
  /\ attempt \in {"none", "judging", "awaiting_reply", "not_judged", "over"}

Order(kind) ==
  CASE kind = "request_headers" -> 1 [] kind = "request_body" -> 2
    [] kind = "response_headers" -> 3 [] kind = "part" -> 4
    [] kind = "end" -> 5 [] kind = "response_trailers" -> 5 [] kind = "immediate" -> 5

(* Envoy is answered in the order of the exchange: each part once, the     *)
(* body's after the headers', nothing after the end of it, and a refusal   *)
(* with a status only while none of the reply has gone out.                *)
AnswersInOrder ==
  \A i, j \in 1..Len(got) : i < j =>
    /\ Order(got[i]) < Order(got[j]) \/ (got[i] = "part" /\ got[j] = "part")
    /\ got[j] = "immediate" => got[i] # "part"

(* What became of a reply is told the handler once, however the exchange   *)
(* stops: by handing the reply over, or as one that was not judged; and    *)
(* always for a request that was sent on.                                  *)
SettledOnce ==
  /\ Len(settled) <= 1
  /\ process = "over" /\ forwarded => Len(settled) = 1

(* Once Envoy is answered nothing more, nothing delivers, and no stream    *)
(* goes on judging for no one.                                             *)
NothingIsLeftDelivering ==
  process = "over" => delivery \in {"none", "over"} /\ stream # "going"

(* The exchange is over once Envoy has sent all of the reply, or stopped.  *)
ExchangeEnds ==
  (halfClosed \/ cancelled \/ envoy = "all") ~> (process = "over")

(* Envoy is handed the last answer of the exchange, unless it stopped      *)
(* waiting: a refusal reaches the client as a status or an error event.    *)
LastAnswerIsGiven ==
  (process = "over" /\ ~cancelled /\ ~halfClosed /\ stream = "over") =>
    got[Len(got)] \in {"end", "response_trailers", "immediate"}

=============================================================================
