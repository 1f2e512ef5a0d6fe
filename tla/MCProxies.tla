------------------------------ MODULE MCProxies ------------------------------
(* The ways a proxy's traffic goes through the sidecar, part by part: a    *)
(* streamed reply in the LiteLLM guardrail, the endpoint's streams as a    *)
(* hook feeds and as it polls them, an exchange with Envoy, and the        *)
(* guardrail's hooks around one request whose fields vary and two that     *)
(* interleave; and the sidecar's own endpoints and how it stops.           *)
EXTENDS Relay

CONSTANTS Parts

VARIABLES part,
  open, streamsBegun, chunks, fed, feeding, has, ended, closed, streamGave,
  base, kept, failed, done, call, hook, feeds, polls, asks,
  envoy, envoyChunks, inbox, halfClosed, cancelled, envoyGot, pump, putting,
  judgment, envoyQueue, waiters, exchangeFinished, replied, passing,
  forwarded, bodyEnded, trailers, delivery, delivering, stream,
  exchangeGiven, taken, process, settled, attempt,
  loaded, came, phase, data, inspect, hookTold, streamed, shown, headers,
  verdict, inPlace, asked, judged, about, sentOn, callerGot,
  sidecarConfig, sidecarProcess, servers, serversTold, caughtSignal,
  streamsServed, shimServer, shimExchanges, callSent, callAt, callOutcome,
  callAnswer, callsMade

streamsVars == <<open, streamsBegun, chunks, fed, feeding, has, ended,
                 closed, streamGave, base, kept, failed, done, call, hook,
                 feeds, polls, asks>>
envoyVars == <<envoy, envoyChunks, inbox, halfClosed, cancelled, envoyGot,
               pump, putting, judgment, envoyQueue, waiters,
               exchangeFinished, replied, passing, forwarded, bodyEnded,
               trailers, delivery, delivering, stream, exchangeGiven, taken,
               process, settled, attempt>>
hooksVars == <<loaded, came, phase, data, inspect, hookTold, streamed, shown,
               headers, verdict, inPlace, asked, judged, about, sentOn,
               callerGot>>
serversVars == <<sidecarConfig, sidecarProcess, servers, serversTold,
                 caughtSignal, streamsServed, shimServer, shimExchanges,
                 callSent, callAt, callOutcome, callAnswer, callsMade>>
relayVars == <<letThrough, odd, read, source, waiting, keeping, unsent,
               pending, stopped, uploader, inflight, handed, told, counting,
               ready, released, gave, beats, relay, begun, endedAt, outputs,
               sent, committed, got, letGo>>

Request(read_, stream_, recorded, sets, fields, named, id) ==
  [read |-> read_, stream |-> stream_, recorded |-> recorded, sets |-> sets,
   fields |-> fields, named |-> named, caller_id |-> id,
   headers |-> {"x-irid", "authorization", "x-team"}]

With(input, secret, metadata, litellm) ==
  [input |-> input, secret |-> secret, metadata |-> metadata, litellm_metadata |-> litellm,
   state |-> "known", extra |-> "absent"]

(* LiteLLM's notes are in one of the two fields; the caller's metadata is  *)
(* its own where they are in the other.                                    *)
Metadata == {<<"known", "absent">>, <<"sent", "known">>, <<"absent", "known">>}

Varied ==
  {Request(r, FALSE, recorded, sets, With(input, secret, m[1], m[2]), named, "r1") :
     r \in BOOLEAN, recorded \in BOOLEAN, sets \in SUBSET {"rewritten", "gateway"},
     input \in {"sent", "odd"}, secret \in {"absent", "sent"}, m \in Metadata,
     named \in {{"input"}, {"input", "secret", "metadata", "litellm_metadata"}}}

Few ==
  {Request(r, s, TRUE, {}, With("odd", "absent", "known", "absent"), {"input"}, "r1") :
     r \in BOOLEAN, s \in BOOLEAN}

VariedSettings ==
  {[modes |-> m, listed |-> l] : m \in SUBSET {"pre_call", "post_call"},
     l \in {{}, {{"x-team"}}, {{"x-team"}, {"x-irid", "authorization", "x-team"}}}}

Replacement(i, s, x) ==
  [input |-> i, secret |-> "absent", metadata |-> "absent", litellm_metadata |-> "absent",
   state |-> s, extra |-> x]
VariedReplacements ==
  {Replacement(i, s, x) : i \in {"absent", "sent", "right", "other"},
                          s \in {"absent", "other"}, x \in {"absent", "other"}}
FewReplacements == {Replacement("other", "absent", "absent")}

Feeding == INSTANCE ProxyStreamsProofs WITH
  Slots <- {"a", "b"}, MaxBegins <- 1, MaxChunks <- 2, MaxOutputs <- 0,
  MaxPending <- 1, MaxAsks <- 4, given <- streamGave, begun <- streamsBegun
Polling == INSTANCE ProxyStreamsProofs WITH
  Slots <- {"a", "b"}, MaxBegins <- 1, MaxChunks <- 0, MaxOutputs <- 3,
  MaxPending <- 2, MaxAsks <- 5, given <- streamGave, begun <- streamsBegun
Reopened == INSTANCE ProxyStreamsProofs WITH
  Slots <- {"a"}, MaxBegins <- 2, MaxChunks <- 0, MaxOutputs <- 1,
  MaxPending <- 1, MaxAsks <- 3, given <- streamGave, begun <- streamsBegun
Envoy == INSTANCE EnvoyShimProofs WITH
  MaxChunks <- 2, MaxReleases <- 2, Statuses <- {"ok", "error", "encoded"},
  Bodyless <- TRUE, chunks <- envoyChunks, got <- envoyGot,
  queue <- envoyQueue, finished <- exchangeFinished, given <- exchangeGiven
OneRequest == INSTANCE GuardrailProofs WITH
  Requests <- {"r1"}, Incoming <- Varied,
  Replacements <- VariedReplacements, Settings <- VariedSettings,
  LetThrough <- TRUE, told <- hookTold, got <- callerGot
LetThroughHooks == INSTANCE GuardrailProofs WITH
  Requests <- {"r1", "r2"}, Incoming <- Few,
  Replacements <- FewReplacements, Settings <- VariedSettings,
  LetThrough <- TRUE, told <- hookTold, got <- callerGot
ClosedHooks == INSTANCE GuardrailProofs WITH
  Requests <- {"r1", "r2"}, Incoming <- Few,
  Replacements <- FewReplacements, Settings <- VariedSettings,
  LetThrough <- FALSE, told <- hookTold, got <- callerGot

(* How the sidecar is started: what its file and its command line say of a *)
(* setting, and whether what it needs is there.                            *)
Started(readable, token, extra, folder, file, given) ==
  [readable |-> readable, token |-> token, extra |-> extra, folder |-> folder,
   file |-> file, given |-> given]

Says(eval_port, envoy_port, results, registration) ==
  [eval_port |-> eval_port, envoy_port |-> envoy_port, eval_results |-> results,
   runtime_task_registration |-> registration]

ToAnswer ==
  {Started(TRUE, TRUE, TRUE, folder, Says(port, "unset", results, "unset"),
           Says("unset", "unset", given, registration)) :
     folder \in {<<>>, <<<<"t">>>>}, port \in {"unset", "on"}, results \in {"unset", "on", "off"},
     given \in {"unset", "off"}, registration \in {"unset", "off"}}

ToStop ==
  {Started(TRUE, TRUE, TRUE, <<>>, Says(port, envoy_port, "unset", "unset"),
           Says("unset", "unset", "unset", "unset")) :
     port \in {"unset", "on"}, envoy_port \in {"unset", "on"}}
  \cup {Started(readable, token, extra, folder, Says("on", "on", "unset", "unset"),
                Says("unset", "unset", "unset", "unset")) :
          readable \in BOOLEAN, token \in BOOLEAN, extra \in BOOLEAN,
          folder \in {<<>>, <<<<"t">>, <<"t">>>>}}

Methods == {"judge_request", "judge_reply", "begin_reply", "next_release", "abort_reply",
            "register_task", "request_result", "sample_result", "end_sample", "unheard_of"}

Sound(at, path, method) ==
  [at |-> at, path |-> path, bearer |-> TRUE, large |-> FALSE, form |-> "call",
   method |-> method, fits |-> TRUE]

(* Each call sound, or with one thing wrong with it or two                 *)
SoundOrNot ==
  UNION {LET c == Sound(at, path, method) IN
           {[d EXCEPT !.bearer = bearer] :
              bearer \in BOOLEAN,
              d \in {c, [c EXCEPT !.large = TRUE], [c EXCEPT !.fits = FALSE]}
                    \cup {[c EXCEPT !.form = form] : form \in {"no_id", "not_json", "not_call"}}} :
         at \in {"main", "evals"}, path \in {"proxy", "evals"}, method \in Methods}

Answering == INSTANCE ServingProofs WITH
  Configurations <- ToAnswer, Tasks <- {"t"}, Slots <- {"k1"}, Calls <- SoundOrNot,
  MaxCalls <- 1, Exchanges <- {}, Signals <- {},
  config <- sidecarConfig, process <- sidecarProcess, server <- servers,
  told <- serversTold, caught <- caughtSignal, streams <- streamsServed,
  shim <- shimServer, exchange <- shimExchanges, call <- callSent,
  pc <- callAt, outcome <- callOutcome, answer <- callAnswer,
  made <- callsMade
Stopping == INSTANCE ServingProofs WITH
  Configurations <- ToStop, Tasks <- {"t"}, Slots <- {"k1", "k2"},
  Calls <- {Sound("main", "proxy", "judge_reply"),
            Sound("main", "evals", "end_sample"), Sound("evals", "evals", "request_result")},
  MaxCalls <- 3, Exchanges <- {"e1"}, Signals <- {"SIGINT", "SIGTERM"},
  config <- sidecarConfig, process <- sidecarProcess, server <- servers,
  told <- serversTold, caught <- caughtSignal, streams <- streamsServed,
  shim <- shimServer, exchange <- shimExchanges, call <- callSent,
  pc <- callAt, outcome <- callOutcome, answer <- callAnswer,
  made <- callsMade

ASSUME Answering!ServingAssumption /\ Stopping!ServingAssumption /\
       Feeding!ProxyStreamsAssumption /\
       Polling!ProxyStreamsAssumption /\ Reopened!ProxyStreamsAssumption /\
       Envoy!EnvoyAssumption /\ OneRequest!GuardrailAssumption /\
       LetThroughHooks!GuardrailAssumption /\ ClosedHooks!GuardrailAssumption
-----------------------------------------------------------------------------
RelayIdle == Init /\ ~letThrough /\ odd = 0
StreamsIdle ==
  /\ open = "idle" /\ streamsBegun = "idle" /\ chunks = "idle"
  /\ fed = "idle" /\ feeding = "idle" /\ has = "idle" /\ ended = "idle"
  /\ closed = "idle" /\ streamGave = "idle" /\ base = "idle"
  /\ kept = "idle" /\ failed = "idle" /\ done = "idle" /\ call = "idle"
  /\ hook = "idle" /\ feeds = "idle" /\ polls = "idle" /\ asks = "idle"
EnvoyIdle ==
  /\ envoy = "idle" /\ envoyChunks = "idle" /\ inbox = "idle"
  /\ halfClosed = "idle" /\ cancelled = "idle" /\ envoyGot = "idle"
  /\ pump = "idle" /\ putting = "idle" /\ judgment = "idle"
  /\ envoyQueue = "idle" /\ waiters = "idle" /\ exchangeFinished = "idle"
  /\ replied = "idle" /\ passing = "idle" /\ forwarded = "idle"
  /\ bodyEnded = "idle" /\ trailers = "idle" /\ delivery = "idle"
  /\ delivering = "idle" /\ stream = "idle" /\ exchangeGiven = "idle"
  /\ taken = "idle" /\ process = "idle" /\ settled = "idle"
  /\ attempt = "idle"
HooksIdle ==
  /\ loaded = "idle" /\ came = "idle" /\ phase = "idle" /\ data = "idle"
  /\ inspect = "idle" /\ hookTold = "idle" /\ streamed = "idle"
  /\ shown = "idle" /\ headers = "idle" /\ verdict = "idle"
  /\ inPlace = "idle" /\ asked = "idle" /\ judged = "idle" /\ about = "idle"
  /\ sentOn = "idle" /\ callerGot = "idle"

ServingIdle ==
  /\ sidecarConfig = "idle" /\ sidecarProcess = "idle" /\ servers = "idle"
  /\ serversTold = "idle" /\ caughtSignal = "idle" /\ streamsServed = "idle"
  /\ shimServer = "idle" /\ shimExchanges = "idle" /\ callSent = "idle"
  /\ callAt = "idle" /\ callOutcome = "idle" /\ callAnswer = "idle"
  /\ callsMade = "idle"

ProxiesInit ==
  /\ part \in Parts
  /\ part \notin {"answering", "stopping"} => ServingIdle
  /\ \/ part = "relay" /\ Init /\ StreamsIdle /\ EnvoyIdle /\ HooksIdle
     \/ part = "feeding" /\ Feeding!Init /\ RelayIdle /\ EnvoyIdle /\ HooksIdle
     \/ part = "polling" /\ Polling!Init /\ RelayIdle /\ EnvoyIdle /\ HooksIdle
     \/ part = "reopened" /\ Reopened!Init /\ RelayIdle /\ EnvoyIdle /\ HooksIdle
     \/ part = "envoy" /\ Envoy!Init /\ RelayIdle /\ StreamsIdle /\ HooksIdle
     \/ part = "fields" /\ OneRequest!Init /\ RelayIdle /\ StreamsIdle /\ EnvoyIdle
     \/ part = "open" /\ LetThroughHooks!Init /\ RelayIdle /\ StreamsIdle /\ EnvoyIdle
     \/ part = "closed" /\ ClosedHooks!Init /\ RelayIdle /\ StreamsIdle /\ EnvoyIdle
     \/ part = "answering" /\ Answering!Init /\ RelayIdle /\ StreamsIdle /\ EnvoyIdle /\ HooksIdle
     \/ part = "stopping" /\ Stopping!Init /\ RelayIdle /\ StreamsIdle /\ EnvoyIdle /\ HooksIdle

RelayPart ==
  /\ part = "relay" /\ Next
  /\ UNCHANGED <<part, streamsVars, envoyVars, hooksVars, serversVars>>
FeedingPart ==
  /\ part = "feeding" /\ Feeding!Next
  /\ UNCHANGED <<part, relayVars, envoyVars, hooksVars, serversVars>>
PollingPart ==
  /\ part = "polling" /\ Polling!Next
  /\ UNCHANGED <<part, relayVars, envoyVars, hooksVars, serversVars>>
ReopenedPart ==
  /\ part = "reopened" /\ Reopened!Next
  /\ UNCHANGED <<part, relayVars, envoyVars, hooksVars, serversVars>>
EnvoyPart ==
  /\ part = "envoy" /\ Envoy!Next
  /\ UNCHANGED <<part, relayVars, streamsVars, hooksVars, serversVars>>
FieldsPart ==
  /\ part = "fields" /\ OneRequest!Next
  /\ UNCHANGED <<part, relayVars, streamsVars, envoyVars, serversVars>>
OpenPart ==
  /\ part = "open" /\ LetThroughHooks!Next
  /\ UNCHANGED <<part, relayVars, streamsVars, envoyVars, serversVars>>
ClosedPart ==
  /\ part = "closed" /\ ClosedHooks!Next
  /\ UNCHANGED <<part, relayVars, streamsVars, envoyVars, serversVars>>

AnsweringPart ==
  /\ part = "answering" /\ Answering!Next
  /\ UNCHANGED <<part, relayVars, streamsVars, envoyVars, hooksVars>>
StoppingPart ==
  /\ part = "stopping" /\ Stopping!Next
  /\ UNCHANGED <<part, relayVars, streamsVars, envoyVars, hooksVars>>

ProxiesNext == RelayPart \/ FeedingPart \/ PollingPart \/
               ReopenedPart \/ EnvoyPart \/ FieldsPart \/ OpenPart \/
               ClosedPart \/ AnsweringPart \/ StoppingPart

allVars == <<part, relayVars, streamsVars, envoyVars, hooksVars, serversVars>>

ProxiesSpec == ProxiesInit /\ [][ProxiesNext]_allVars
-----------------------------------------------------------------------------
(* However Envoy or the sidecar stops, what was sent is settled once and   *)
(* answered in order, nothing is judged for no one, and no call is cut     *)
(* short (_Exchange.close, _serve_all).                                    *)
RepliesAreSettledOnce ==
  /\ part = "envoy" =>
       Envoy!SettledOnce /\ Envoy!AnswersInOrder /\ Envoy!NothingIsLeftDelivering
  /\ part = "stopping" => Stopping!StoppedTogether /\ Stopping!NothingIsCutShort

(* Whatever calls are lost and made again, a stream has each chunk once and*)
(* in order, and its hook the outputs of its own stream (chunk, next).     *)
HookAndStreamAgree ==
  /\ part = "feeding" => Feeding!TypeOK /\ Feeding!StreamHasWhatWasTaken
  /\ part = "polling" => Polling!TypeOK /\ Polling!HookHasOutputsInOrder
  /\ part = "reopened" => Reopened!HookHasOutputsInOrder

(* The provider is sent what the sidecar judged, and LiteLLM's own fields  *)
(* as they were, while the sidecar is shown nothing of LiteLLM's callers   *)
(* (_body, _replace_request).                                              *)
ProviderIsSentWhatWasJudged ==
  part = "fields" =>
    /\ OneRequest!ProviderIsSentWhatWasJudged /\ OneRequest!LiteLLMsOwnIsKept
    /\ OneRequest!NothingHiddenIsShown /\ OneRequest!UnjudgeableIsRefused
    /\ OneRequest!InspectHeadersStopHere

(* Each reply is judged once and with the request it answers, a refusal    *)
(* refuses, and where nothing is let through only what was judged goes out *)
(* (the guardrail's hooks); and a call to the sidecar is answered as it    *)
(* was judged, and what is withheld from evals kept from them (_judge).    *)
RepliesMeetTheirRequests ==
  /\ part = "open" => /\ LetThroughHooks!TypeOK /\ LetThroughHooks!RepliesMeetTheirRequests
                      /\ LetThroughHooks!AskedOnce /\ LetThroughHooks!RefusalRefuses
  /\ part = "closed" => ClosedHooks!NothingUnjudgedIsAnswered
  /\ part = "answering" => /\ Answering!UnjudgedIsAnError /\ Answering!KeptFromEvals
                           /\ Answering!TakenWhereServed

(* _find: "There is no reply stream ...: it was never begun, or has ended  *)
(* or expired."                                                            *)
LiveStreamIsKnown == part = "reopened" => Reopened!LiveStreamIsKnown

(* Process answers Envoy until the exchange has ended: the last answer of  *)
(* one is handed over, unless Envoy stopped waiting.                       *)
LastAnswerIsGiven == part = "envoy" => Envoy!LastAnswerIsGiven
=============================================================================
