# inspect_sentinel in TLA+

`inspect_sentinel` watches an agent at four stages of each turn: before and
after a generate, and before and after a tool call. A *sentinel* (a tree of
monitors and protocols) is run at each stage and decides whether the step goes
on. It runs inside an eval (`inspect_ai`), or in a *sidecar* that a proxy
(LiteLLM, Envoy) asks about each request and reply of an agent it does not
control; Scout reads and replays its steps from logs.

These modules model the parts that carry the program's own logic, check them
with TLC on small instances, and prove theorems about them for every value of
the constants. Where a definition stands for code, `PROJECT.json` ("map") names
the lines.

## The system and its parts

| part | state it keeps | operations | hard behaviour | modules |
|---|---|---|---|---|
| runner (`_runner.py`, `_final.py`, `_unhandled.py`) | one task per running child, each task group's cancel scope, the origin of every Final | run a tree at one step: batches, groups, cancel, surface, supersede | children that end in the same turn of the event loop, errors beside Finals, cancellation of nested batches | Runner |
| compositions (`_protocols/`) | the reports so far, the escalations handed on | sequential, concurrent, human, handle_escalation | which link answers an escalation, who outvotes whom | Compositions |
| threshold (`_protocols/threshold.py`) | configured thresholds | read, refuse, decide | the most specific key, dead thresholds | Threshold |
| handler (`sidecar/_handler.py`) | a run's conversations: judged results, rejected and edited turns, rejections in a row, whether and where it ended | judge a request, judge its reply | every exchange of a run interleaves at every await, with time limits and retries | Handler, CallResults |
| state (`sidecar/_state.py`) | runs, held requests, ended ids, attempts, registrations, each with an expiry | get, put, pop, register, end a sample | expiry under a running judgment, limits | SidecarState |
| history (`sidecar/_history.py`) | the keys of the latest requests and what was sent | record_sent | clients that share a conversation and compact it | History |
| reply stream (`sidecar/_reply_stream.py`, `_release.py`) | bytes held, what went out | feed, end, abort, run, collect | early release, keepalives, limits, abort at any moment | ReplyStream, StreamPromise, EventReading |
| wire formats (`_anthropic.py`, `_openai.py`, `_wire.py`) | none; pure | read, edit, amend | interleaved blocks, fragments, items told in several events and once more at the end, clients that rewrite turns | AnthropicStream, ChatStream, ResponsesStream, Amending |
| servers (`_serve.py`, `_proxy_endpoint.py`, `_eval_endpoint.py`, `_json_rpc.py`) | the settings, the servers and the shim that are up, the calls in flight | read the file and the command line, serve, dispatch a call, stop | endpoints on one port or two, a signal that only one server catches, a server that cannot start, calls in flight as all stop | Serving |
| proxy endpoint's streams (`_proxy_streams.py`) | the open stream per id, outputs not collected | begin, chunk, end, abort, next | calls given up on, sent again, and answered late | ProxyStreams |
| Envoy shim (`envoy/_shim.py`) | one exchange: pump, delivery, a queue of one | Process | two tasks that answer through one queue, cancel at any time | EnvoyShim |
| LiteLLM guardrail (`proxies/litellm`) | a request's fields and record; a relay per stream | the hooks, the relay | time limits, let-through, fields changed between hooks | Guardrail, Relay |
| scoring (`_score.py`, `_preprocess.py`) | marks of what was reported | score a step, cut to fit, window | binary search with markers, steps at once | Scoring, Windows |
| Scout (`scout/`) | headers and samples of logs, by process | read, replay, select, probe | shared reads that fail, events of agents at once | Contexts, Positions, Conversing, Scanning |
| human decisions and replay (`_human_decisions.py`, `_replay.py`, `_replay_step.py`) | the records kept of a conversation; the records, asks and reports of a replay | keep, withdraw, show; take a step, ask, report | steps that run at once, decisions superseded at a layer above, answers that are no longer offered, ids two agents share | Replay |

Not modelled, with the reasons: `PROJECT.json`, "components".

## How modules and runs fit

Each component has a module of its own with its state as VARIABLES, one action
per operation, handler or task step, and its properties. An action stands for
what the code does between two awaits; where a coroutine awaits, its program
counter (`pc`, `at`, `worker`, `pump`, ...) says where, and any other task may
go on meanwhile. What a sentinel, a person, a model, a provider, a client or a
network does is a free choice.

`MCHandler` instantiates one component. The other MC modules are composites:
`MCExchange`, `MCSentinel`, `MCProxies`, `MCSidecar`, `MCScoring` and
`MCScout` have a variable `part`, chosen in Init, that says which component, at
which bounds, a behaviour is of; the variables of the parts that are not run
stay at one value. A composite's property is the conjunction of the properties
of the parts it is about, so one run answers one question of several components
that never share state in the code, and the components that do share state are
in one module (the exchanges of a run in `Handler`, hook and worker in
`ProxyStreams`, pump, delivery and Process in `EnvoyShim`, reader, uploader and
relay in `Relay`).

Abstraction is of data: a message, chunk, call or score is known by what the
properties tell apart (its kind, position, cost, key or mark). Widths don't
matter here: Python's integers don't overflow. Words a model or person reads are
left out, except where a cite or a marker must name what was sent.

## What the runs check

Deadlock is not checked: every component comes to an end that it stays in.

| run | what it is about | bounds, and why they are enough | states |
|---|---|---|---|
| Sentinel | the runner over a tree, a `sequential()` chain, `threshold()` | a root running a group of two members beside a function and then a third instance, the group running a function and a monitor together: two nested task groups, a later batch and a member in turn, each function free to report, fail or decide final. Chains of 4 links with 3 votes: an escalation, two links that may answer it and one after. 2 monitors whose names are a prefix of each other, 2 dimensions, 4 keys of which one is ambiguous | 2 235 419 |
| HandlerSample | the handler in a sample that an eval names | three exchanges of a sample attempted twice: one of an attempt that opens as the second does, and two of the second that race for a result; 2 calls in one reply | 275 643 |
| Exchange | the handler in conversations that no eval names and that open alike; the reply stream: a streamed reply of each way replies go out | four exchanges, as many as it takes for a third rejection in a row, of which one rewrote its entries. 4 chunks, 3 held, 1 pending, 1 keepalive: the limit on held bytes, a client that lags and a keepalive between two outputs all happen | 940 702 |
| Proxies | the LiteLLM relay and hooks, the sidecar's servers and the calls they are sent, the endpoint's streams, an exchange with Envoy | 3 chunks with room for 1 and replies of 2, so that the reader waits, the limit is passed and a rest is left; two calls of a hook at a time; two requests that interleave; 2 chunks and 2 releases with Envoy; one call of every kind to every path of every configuration, and in another part the servers and the shim stopping with a call in flight | 898 069 |
| Sidecar | runs and registrations, tool results, history, stream reading and edits, amended turns | by part: two exchanges with an expiry of 2 ticks of 4; 3 calls under 2 ids; 2 clients and 4 requests; 5 bytes; 2 calls interleaved (for Responses, events that are left out, repeated or name other items, and well-formed ones); 2 or 3 steps of a client on an edited turn | 1 129 919 |
| Scoring | a step scored, cut to fit; what an incremental monitor is shown | lists of up to 3 messages of two costs with a marker as dear as the cheaper (and in part `markers` dearer than it), budgets from none to all; conversations of 3 or 4 messages at two steps | 3 601 393 |
| Scout | contexts of logs, positions, conversations, the rows of both ways to scan, and people's decisions, live and in a replay | four transcripts of two logs with 2 failures; up to 3 generates or calls in two agents, and 2 generates of up to 3 attempts in either kind of log; 3 and 4 spans; 2 steps by 2 paths in 2 conversations; two `human()`s, one below a layer, at 2 steps: live at once with any supersessions, and replayed from events or from messages with each answer recorded or not, offered or not | 2 134 501 |
| RunnerCopies, HandlerRejections, EnvoyEndLost, ProxyReopened, ScoringRefused | one disagreement each of the code with what it says (below) | the smallest part that shows it | |

Each bound is named: a constant of the module (`MaxChunks`, `MaxFailures`,
`MaxKeepalives`, `MaxSteps`, ...) or a value an MC module defines. Symmetry is
used where names are interchangeable (the calls and exchanges of `MCSidecar`, the
generates and tool calls of `MCScout`), in runs without liveness only.

Properties, by what they are about:

- *runner*: each Final is settled once (`FinalSettledOnce`), what is cancelled
  has a cause over it (`CancellationHasCause`), nothing runs once the step is
  over (`NothingOutlivesTheStep`).
- *compositions*: an escalation is answered by a link that was handed it
  (`EscalationIsAnswered`); no vote is weakened by the others
  (`NoObjectionIsOutvoted`); a configured threshold can be reached
  (`NoDeadThreshold`) and is a floor (`ThresholdIsFloor`).
- *handler*: results go on judged and once (`NoUnjudgedResultGoesOn`,
  `ResultShownOnce`), runs end when they must and stay ended
  (`ThirdRejectionEndsRun`, `EndedRunGoesNoFurther`, `FreshConversationGoesOn`),
  turns are told and matched to their own (`RejectedTurnIsTold`,
  `EditedTurnIsMatched`), and every exchange is answered
  (`EveryExchangeIsAnswered`). Each is checked with every await a place to
  interleave, inspect_ai's converters in `_reject` and `_edit` among them. What that
  lets happen is in the properties: turns whose rejections are written at once count
  as one (`ThirdRejectionEndsRun`; the words of the design differ, see below), and a
  turn judged to its end, whose edit is being written as the run ends, is passed on
  (`EndedRunGoesNoFurther`), as `_edit` does not look again.
- *replies*: the client has what was judged (`ClientHasWhatWasJudged`), the
  outputs refine `StreamPromise` (`KeepsItsPromise`), a reply ends
  (`EveryReplyEnds`); of a proxy, `SidecarJudgesTheWholeReply`,
  `StatusErrorComesFirst`, `RelayIsWholeOrRefused`, `RepliesAreSettledOnce`,
  `HookAndStreamAgree`, `ProviderIsSentWhatWasJudged`,
  `RepliesMeetTheirRequests`. `RepliesMeetTheirRequests` holds the calls of
  `Serving` as well: a call that was not judged is answered as an error, an eval's
  methods are kept from a port of proxies, and a call is taken only where it is
  served; `RepliesAreSettledOnce` that the servers and the shim stop together and
  that nothing in flight is cut short.
- *what the sidecar keeps and edits*: `RunsAreKept`, `ResultsAreShown`,
  `HistoryHasEachMessageOnce`, `ClientRunsWhatWasJudged`,
  `TheModelSeesItsOwnTurn`. Of a Responses turn that nothing was edited in, the
  events go out as they came and only the last response was judged, as
  design/sidecar.md:250 says; `ClientRunsWhatWasJudged` speaks of the events of an
  edited turn, whatever they are, and of an unedited one only where they are as the
  API has them (`EventsAreChecked`).
- *monitors and Scout*: `SentFits`, `SmallestCutIsSent`,
  `ScoresAreOfWhatWasSent`, `NothingGoesUnseen`; `ReadOnce`,
  `StepsCiteTheirOwn`, `ScansAgree`. `SmallestCutIsSent` allows a smaller cut that
  fits only where the marker of a larger one cost more than the message it stands
  for. `ScansAgree` includes `Replay`: a step is
  shown the decisions of people that took effect at steps of its conversation
  that were over before it began, a replay's reports have the records of their
  own steps, and no answer but the one a person gave at the step, to the
  `human()` at that path, passes for a person's.

Two of these say exactly where the code does not do what its words are:

- `StepsCiteTheirOwn`: in a log from before generate ids, a step cites "the generate
  the span preceded, where no other generate of the conversation overlaps"
  (`_positions.py:77`). A generate's window ends with its first attempt
  (`_preceded`), so a step that began between another's first attempt and its next
  does not overlap it, and cites that next attempt if it comes first
  (`RetryFollows`).
- `ScansAgree`: a step's `recorded_answers` are those "a person gave through
  `human()` at this step" (`_replay_step.py:33`). Steps rebuilt from messages get
  them by stage and step id alone (`_as_recorded`), so where conversations share an
  id the last answer given under it is replayed, whichever conversation it was of.

### Fairness

Assumed where a property says that something eventually happens:

- the handler, in HandlerSample: weak fairness of each exchange's steps once it is being judged.
  The event loop runs each ready task, and a judgment ends or passes its time
  limit. Nothing makes a client send, a model reply or an eval end. With it every
  request and reply that was shown is answered, though two exchanges wait for
  each other's judgments of results.
- the reply stream, in Exchange: weak fairness of the worker, of a feed that waits for room (`FeedGoesOn`),
  of a keepalive that was begun (`BeatGoesOut`), and of a proxy that collects what
  there is and ends the input. Nothing makes a keepalive due (`Beat`), a proxy
  feed more, or abort.

### Abstract specification

`StreamPromise` is what a proxy may rely on in the outputs of a stream: bytes and
keepalives, ended at most once; a refusal with a status only where nothing was
sent before it, an error event only where something was, an end only of a reply
that was let go on. `ReplyStream` implements it (`KeepsItsPromise`, a PROPERTY of
the run Exchange and the theorem `StreamKeepsItsPromise`), and `EnvoyShim` takes its
outputs under the same constraints.

## Where the code and its words differ

- `RunnerCopies` (`_unhandled.py:102`): a root that returns a copy of a child's
  terminate or proceed as its own escalate is counted as passing the child's
  decision up, so nobody is named as the source of the unhandled escalation,
  though `run_sentinel` says each escalation that reached the root is.
- `HandlerRejections` (`_handler.py:981`): `_reject` reads how many turns in a row
  were refused before it awaits the converters and writes it after, so turns refused
  at once count as one; "Three turns in a row in which every call was rejected end
  the run" (design/sidecar.md:248) holds of turns refused one after the other.
- `EnvoyEndLost` (`envoy/_shim.py:442`): the delivery says the exchange is
  finished before its last answer has room in the queue of one; a pump that reads
  another message meanwhile ends the queue ahead of that answer, which is lost.
- `ProxyReopened` (`_proxy_streams.py:321`): a poll on an aborted stream that is
  answered after a stream was begun again under its id lets go of the new one,
  which later calls are told was never begun.
- `ScoringRefused` (`_score.py:361`): a step is refused as too big where its largest
  head cut does not fit, since "when even that does not fit, no head cut can"; but
  the marker of the largest cut may cost more than the message it leaves out, and the
  cut that keeps that message fits.

Under a SIGTERM, uvicorn stops the servers and then raises the signal again, which
ends a process that is not its container's first (as PID 1 ignores it) before the
streams of the Envoy shim had the while `_SHIM_GRACE` gives them (`_serve.py:466`).
`Serving` has this as an outcome of its own, "killed", which `NothingIsCutShort`
excepts: what it rests on is uvicorn's, not this repository's. A process is sent one
signal: a second Ctrl-C, on which uvicorn closes what is in flight without waiting,
is not modelled.

## What is proved

The theorems hold for every value of the constants, under the named assumption
of each module (`RunnerAssumption` and so on: the types of the constants, and in
`Runner` that the instances are a tree, in `Handler` that conversations belong to
attempts and that marks are digests of prefixes, in `Contexts` that inspect_ai
refuses ids that share a string, in `Guardrail` that a field the caller named which
holds LiteLLM's notes is where LiteLLM keeps them). TLC evaluates each on the values
its run uses. `PROJECT.json` ("theorems") lists the results, by proof module:

| module | about | with the invariant |
|---|---|---|
| SentinelProofs | Runner, Compositions, Threshold | *Shape*, `CauseInv`, *Ledger*; `ChainInv`; `ThresholdInv` |
| SidecarProofs | Handler, ReplyStream | `ResultInv`, `FreshInv`, `StreakInv`, `EditInv`, *PointInv*; `ReplyInv` |
| ProxyStreamsProofs | ProxyStreams | `StreamsInv` |
| EnvoyShimProofs | EnvoyShim | `ExchangeInv` |
| ServingProofs | Serving | `ServingInv`, `AnswersInv` |
| GuardrailProofs | Guardrail | `GuardInv` |
| ProxiesProofs | Relay; the run Proxies as a whole | *HandedOK*, *YieldsOK*, *WholeOK* |
| MonitoringProofs | Scoring, Windows, Contexts | `ScoringInv`, `SentInv`, `AnswersInv`; `WindowsInv`, `OneInv`; *LockOK*, *ReadsOK* |

- **Runner** (`RunnerTyped`, `NothingOutlives`, `CancellationIsExplained`,
  `FinalIsSettled`). None of the properties is inductive. *Shape* says how the
  statuses of the tree fit: what is above an active function waits in a batch that
  holds it, and members run in turn. Given it, a task group that is over has no
  child left, and `CauseInv` adds that a group which is being cancelled has the
  child that caused it. The *ledger* of Finals counts each that was decided as
  claimed, surfacing or recorded, exactly one of them.
- **Compositions** (`ChainTyped`, `EscalationAnswered`, `ObjectionStands`).
  `ChainInv` keeps with each decision which link made it and what that link was
  handed, and with each vote taken that the outcome is at least as strong.
- **Threshold** (`FloorsHold`, `DeadThresholdsAreRefused`). That the code's lookup of
  a score's key finds the most specific configured key, and that the first level
  reached is the strongest. `_check_live` looks through finitely many *classes* of
  scores; that each score there can be is covered by each level as one of them is
  (`ClassesStandForScores`) makes its verdict one about all scores.
- **Handler** (`TypeCorrect`, `ResultsHold`, `ResultShownOnceHolds`,
  `NoUnjudgedResultHolds`, `FreshConversationHolds`, `ThirdRejectionHolds`,
  `EndedRunHolds`, `EditedTurnHolds`, `RejectedTurnHolds`). Each has an invariant
  of its own: a key is held by the exchange that judges it (*Holding*), a run
  only continues from a mark that was answered (*FreshInv*), a streak is no more than
  the code has counted, nor than what a turn whose rejection is being written will
  count (*StreakInv*), edits are put back before the results are read (*EditInv*), and
  the points of a conversation hold exactly its rejected turns (*PointInv*). All hold
  wherever the converters suspend a task.
- **ReplyStream** (`OnlyTheJudgedIsGiven`, `StreamKeepsItsPromise`). `ReplyInv`:
  an end is last, wherever it is (queued, being sent, collected); it is as was
  judged; a status goes first; bytes in line may go (they were judged, or come
  before the first call of a reply released early); and what went out is a prefix
  of what was fed, up to the first call that was read, less a waiting opening. With
  it each step maps to a step of `StreamPromise` or to a stutter.
- **ProxyStreams** (`StreamsAlwaysAgree`, `StreamsAreTyped`, `StreamsHaveWhatWasTaken`,
  `HooksHaveOutputsInOrder`). `StreamsInv` relates the calls in flight, the feeding
  lock, which the first of a duplicate-free line holds, the chunks a stream was fed
  and those its hook was told of, and the outputs that were given, kept and polled.
- **EnvoyShim** (`EnvoyIsAnsweredInOrder`, `RepliesAreSettled`,
  `NothingDeliversAfterwards`, `ExchangesAreTyped`). `ExchangeInv` follows the answers
  through every place they can be in at once: being put by the pump or by the
  delivery, in the queue of one, or with Envoy; and says which stage of the exchange
  each allows. The theorems are about `Safe`, which has no fairness.
- **Serving** (`ServersStopTogether`, `CallsAreNotCutShort`, `UnjudgedIsAnsweredSo`,
  `EvalsAreKeptApart`). `ServingInv` places the servers, the shim and the streams by
  how far the process is, and gives each cut its cause; `AnswersInv` adds that each
  call's answer is what its configuration and outcome make of it.
- **Guardrail** (`OnlyJudgedRequestsAreSent`, `NothingHiddenIsEverShown`,
  `RepliesAreJudgedOnce`). `GuardInv` is an invariant of one request by its stage,
  and a step about another request leaves it as it is (`OthersStay`), so it holds for
  any number that interleave.
- **Relay** (`JudgesTheWholeReply`, `StatusErrorIsFirst`, `EndedReplyIsWhole`,
  `AlwaysTyped`). What was read is with the sidecar, on its way or pending until
  handing over stops, and what the caller got is a prefix of one source.
- **Proxies** (`HooksAndStreamsAgree`, `RepliesAreAlwaysSettledOnce`,
  `ProviderIsOnlySentTheJudged`, `RepliesAlwaysMeetTheirRequests`). What the run
  Proxies checks of its other parts: `MCProxies` instantiates the proof modules of the
  components, their assumptions are proved of the values it gives them, and the
  invariant of each part holds while the part is run.
- **Scoring** (`SentPromptFits`, `TheSmallestCutIsSent`, `RefusedStepsAreUnfit`,
  `AcceptedTemplatesRender`, `CitesAreOfThePromptSent`, `TheNewestInputIsShown`,
  `TheFixedPartsAreNamed`, `EachCallOfAnAnswerIsAnswered`, `AttemptsAreNotUsedUp`,
  `TheFirstValidCallScores`).
  The binary search keeps that its best cut fits and the next smaller one does
  not. A smaller cut that fits, or one that would have where a step was refused, can
  only be before a message whose cut lengthens the prompt, as its marker costs more
  than it does (`MustLengthen`: shown without induction, by the least such message).
  `AnswersInv` counts the attempts by the outputs that were no refusals.
- **Windows** (`WindowsStayMarked`, `NothingIsLeftUnseen`, `NothingIsReadAgain`,
  `WhatIsGoneIsShownWhole`). Every list there is, the conversation's and those that
  steps were handed, is an interval of its messages, and one message stands at one
  place in all that hold it. `WindowsInv` says of each mark, and of each that a step is
  about to keep, that it names the same message in all of them and that all before it
  was shown to its function; `OneInv` adds, where one step runs at a time, that what
  was shown and has an id is up to the mark. They hold over the history, where
  a message's position never changes, and over an input in which no edited version of
  a message comes under its id. Over an input with such versions `WindowsInv` does not
  hold: after a compaction a mark by id and copies may name another version, which
  then goes unseen. The comment at `_preprocess.py:446` says of the history only that
  it holds each edited version under one id, so an input is taken without them.
- **Contexts** (`ReadOnceHolds`, `OneReadHolds`). The lock is held by the first of
  a duplicate-free queue, and what was read is kept before it is let go.

Only model-checked:

- liveness (`EveryExchangeIsAnswered`, `EveryReplyEnds`), which the provers cannot reach;
- what rests on functions defined by recursion over a sequence, for which there is no
  induction here, and the composites that hold it: the stream readers and editors,
  `Amending` and `ResponsesStream` (`ClientRunsWhatWasJudged`, `TheModelSeesItsOwnTurn`),
  `Conversing`, `Positions` and `Scanning` (`StepsCiteTheirOwn`, `ScansAgree`, the
  latter with `Replay`), the walk of `LastTurns` (`LastTurnsAsSaid` in
  `NothingGoesUnseen`);
- `RunsAreKept`, `ResultsAreShown` and `HistoryHasEachMessageOnce`, of `SidecarState`,
  `CallResults` and `History`: `MCSidecar` composes them with `History`'s recursive
  matching;
- that the parts of `MCScoring` have together what is proved of each
  (`ScoresAreOfWhatWasSent`, and `NothingGoesUnseen` but for `LastTurns`).

## What is not modelled

`PROJECT.json` ("components") says it part by part. In short: inspect_ai's own
scheduling, converters and formats; the sentinel a configuration file describes; the
schemas of each call's parameters; editing a reply that is not streamed; the models a replay resolves; the
words of reports, prompts and explanations; a task group a protocol opens itself; a
Final that a child's own body raises without an origin; cancellation of a whole
step from outside; and the records kept for an eval's log. A final decision goes up
through functions that let it pass (`Runner.FinalSurfaces`): that a function's body
catches it and raises another error, which outranks it (`_runner.py:397-417`), or
swallows it and returns or reports, is left out. Nor does another hook of LiteLLM
change a request between `Guardrail`'s hook and the call that sends it. What a request
itself asks for that LiteLLM would rewrite or run after it was judged is modelled: it
is refused (`UnjudgeableIsRefused`).

## Next

1. Proofs about `SidecarState`, `CallResults` and `Replay`, each with an invariant of
   its own, as their operators are not recursive.
2. `History`'s matching as a choice of the best match rather than a recursion, so that
   `HistoryHasEachMessageOnce` can be proved.
3. `EnvoyShim` over `StreamPromise`, step by step.
