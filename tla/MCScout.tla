------------------------------- MODULE MCScout -------------------------------
(* What Scout makes of transcripts, part by part: the contexts of several  *)
(* of one log read at once, what the steps of a log cite, which            *)
(* conversations its events are in, the rows of each way to scan, and what *)
(* people decided at its steps, live and in a replay.                      *)
(* Three transcripts of one log are scanned, one of its samples recorded   *)
(* without a uuid under an id another shares, and one of a second log.     *)
EXTENDS Contexts, TLC

CONSTANTS Parts, g1, g2, g3, h1, h2

VARIABLES part,
  events, keyedBy, begunAt, overAt,
  parent, spanKind, withModels, foundConv, askedOf, selectedConvs,
  liveLog, replaced, turns, astray, scan, readMode, replayed, table,
  rescanned, compared,
  steps, kept, from, policy, watched, replaying, seen, recorder, mark, answered,
  reports

positionsVars == <<events, keyedBy, begunAt, overAt>>
conversingVars == <<parent, spanKind, withModels, foundConv, askedOf,
                    selectedConvs>>
scanningVars == <<liveLog, replaced, turns, astray, scan, readMode, replayed,
                  table, rescanned, compared>>
replayVars == <<steps, kept, from, policy, watched, replaying, seen, recorder, mark,
                answered, reports>>
contextsVars == <<upNext, doing, lock, headers, samples, given, succeeded,
                  failures>>

(* The generates of "once", the tool calls of "calls"                      *)
Symmetric == Permutations({g1, g2, g3})

Text(x) == [type |-> "str", text |-> x]
Number(x) == [type |-> "int", text |-> x]
LogSample(uuid, id, epoch) == [uuid |-> uuid, id |-> id, epoch |-> epoch]
Scanned ==
  <<LogSample("none", Number("seven"), 1), LogSample("none", Number("seven"), 2),
    LogSample("u", Text("eight"), 1), LogSample("v", Number("seven"), 1)>>
FourTranscripts == 1..4
TheirLogs == [t \in 1..4 |-> IF t = 4 THEN "other" ELSE "log"]
InLogs == [log |-> {Scanned[1], Scanned[2], Scanned[3]}, other |-> {Scanned[4]}]

(* A tool's span, in the conversation of the agent that called it          *)
Conversation == [root |-> "root", tool |-> "root", agent |-> "agent"]

Once == INSTANCE Positions WITH
  Generates <- {g1, g2, g3}, Uses <- {}, Spans <- {"root", "tool", "agent"},
  ConvOf <- Conversation, Inputs <- {"x"}, CallIds <- {}, MaxAttempts <- 1,
  MaxInOne <- 2, Keyed <- {"message"}, log <- events, of <- begunAt,
  closed <- overAt, keyed <- keyedBy
Retried == INSTANCE Positions WITH
  Generates <- {h1, h2}, Uses <- {}, Spans <- {"root", "tool", "agent"},
  ConvOf <- Conversation, Inputs <- {"x"}, CallIds <- {}, MaxAttempts <- 3,
  MaxInOne <- 2, Keyed <- {"message"}, log <- events, of <- begunAt,
  closed <- overAt, keyed <- keyedBy
Again == INSTANCE Positions WITH
  Generates <- {h1, h2}, Uses <- {}, Spans <- {"root", "tool", "agent"},
  ConvOf <- Conversation, Inputs <- {"x", "y"}, CallIds <- {},
  MaxAttempts <- 3, MaxInOne <- 2, Keyed <- {"generate"}, log <- events,
  of <- begunAt, closed <- overAt, keyed <- keyedBy
InCalls == INSTANCE Positions WITH
  Generates <- {}, Uses <- {g1, g2, g3}, Spans <- {"root", "tool", "agent"},
  ConvOf <- Conversation, Inputs <- {}, CallIds <- {"a", "b"},
  MaxAttempts <- 1, MaxInOne <- 0, Keyed <- {"generate"}, log <- events,
  of <- begunAt, closed <- overAt, keyed <- keyedBy
OfLog == INSTANCE Conversing WITH
  Spans <- 1..3, Shaped <- FALSE, kind <- spanKind, models <- withModels,
  found <- foundConv, asked <- askedOf, selected <- selectedConvs
OfTimeline == INSTANCE Conversing WITH
  Spans <- 1..4, Shaped <- TRUE, kind <- spanKind, models <- withModels,
  found <- foundConv, asked <- askedOf, selected <- selectedConvs
InModes == INSTANCE Scanning WITH
  Conversations <- {<<"x">>, <<"y">>},
  Stages <- {"tool_call", "tool_result"}, Ids <- {1},
  Paths <- {<<>>, <<"a">>}, MaxSteps <- 2, log <- liveLog, read <- readMode

TheirPaths == {<<"a">>, <<"b", "a">>}
TheyOffer(path) == {"approve", IF path = <<"a">> THEN "reject" ELSE "terminate"}
Keeping == INSTANCE Replay WITH
  Conversations <- {"x", "y"}, Main <- "x", Stages <- {"tool_call"}, Ids <- {1},
  Humans <- TheirPaths, Layers <- {<<>>, <<"b">>},
  Actions <- {"approve", "reject"}, Offered <- TheyOffer, Policies <- {},
  Parallel <- TRUE, MaxSteps <- 2, MaxRecords <- 0
Asking == INSTANCE Replay WITH
  Conversations <- {"x", "y"}, Main <- "x", Stages <- {"tool_call", "tool_result"},
  Ids <- {1}, Humans <- TheirPaths, Layers <- {}, Actions <- {"reject"},
  Offered <- TheyOffer, Policies <- {"reject", "stand-in"},
  Parallel <- FALSE, MaxSteps <- 2, MaxRecords <- 1

ASSUME Once!PositionsAssumption /\ Retried!PositionsAssumption /\ Again!PositionsAssumption /\
       InCalls!PositionsAssumption /\ OfLog!ConversingAssumption /\
       OfTimeline!ConversingAssumption /\ InModes!ScanningAssumption /\
       Keeping!ReplayAssumption /\ Asking!ReplayAssumption
-----------------------------------------------------------------------------
ContextsIdle == ContextsInit
PositionsIdle ==
  /\ events = "idle" /\ keyedBy = "idle" /\ begunAt = "idle"
  /\ overAt = "idle"
ConversingIdle ==
  /\ parent = "idle" /\ spanKind = "idle" /\ withModels = "idle"
  /\ foundConv = "idle" /\ askedOf = "idle" /\ selectedConvs = "idle"
ScanningIdle ==
  /\ liveLog = "idle" /\ replaced = "idle" /\ turns = "idle"
  /\ astray = "idle" /\ scan = "idle" /\ readMode = "idle"
  /\ replayed = "idle" /\ table = "idle" /\ rescanned = "idle"
  /\ compared = "idle"
ReplayIdle ==
  /\ steps = "idle" /\ kept = "idle" /\ from = "idle" /\ policy = "idle"
  /\ watched = "idle"
  /\ replaying = "idle" /\ seen = "idle" /\ recorder = "idle" /\ mark = "idle"
  /\ answered = "idle" /\ reports = "idle"

ScoutInit ==
  /\ part \in Parts
  /\ CASE part = "contexts" ->
            ContextsInit /\ PositionsIdle /\ ConversingIdle /\ ScanningIdle /\ ReplayIdle
       [] part = "once" ->
            Once!Init /\ ContextsIdle /\ ConversingIdle /\ ScanningIdle /\ ReplayIdle
       [] part = "retried" ->
            Retried!Init /\ ContextsIdle /\ ConversingIdle /\ ScanningIdle /\ ReplayIdle
       [] part = "again" ->
            Again!Init /\ ContextsIdle /\ ConversingIdle /\ ScanningIdle /\ ReplayIdle
       [] part = "calls" ->
            InCalls!Init /\ ContextsIdle /\ ConversingIdle /\ ScanningIdle /\ ReplayIdle
       [] part = "log" ->
            OfLog!Init /\ ContextsIdle /\ PositionsIdle /\ ScanningIdle /\ ReplayIdle
       [] part = "timeline" ->
            OfTimeline!Init /\ ContextsIdle /\ PositionsIdle /\ ScanningIdle /\ ReplayIdle
       [] part = "scanning" ->
            InModes!Init /\ ContextsIdle /\ PositionsIdle /\ ConversingIdle /\ ReplayIdle
       [] part = "keeping" ->
            Keeping!Init /\ ContextsIdle /\ PositionsIdle /\ ConversingIdle /\
            ScanningIdle
       [] part = "asking" ->
            Asking!Init /\ ContextsIdle /\ PositionsIdle /\ ConversingIdle /\
            ScanningIdle

ContextsPart ==
  /\ part = "contexts" /\ ContextsNext
  /\ UNCHANGED <<part, positionsVars, conversingVars, scanningVars,
                 replayVars>>
OncePart ==
  /\ part = "once" /\ Once!Next
  /\ UNCHANGED <<part, contextsVars, conversingVars, scanningVars,
                 replayVars>>
RetriedPart ==
  /\ part = "retried" /\ Retried!Next
  /\ UNCHANGED <<part, contextsVars, conversingVars, scanningVars,
                 replayVars>>
AgainPart ==
  /\ part = "again" /\ Again!Next
  /\ UNCHANGED <<part, contextsVars, conversingVars, scanningVars,
                 replayVars>>
CallsPart ==
  /\ part = "calls" /\ InCalls!Next
  /\ UNCHANGED <<part, contextsVars, conversingVars, scanningVars,
                 replayVars>>
LogPart ==
  /\ part = "log" /\ OfLog!Next
  /\ UNCHANGED <<part, contextsVars, positionsVars, scanningVars,
                 replayVars>>
TimelinePart ==
  /\ part = "timeline" /\ askedOf = <<>> /\ OfTimeline!Next
  /\ UNCHANGED <<part, contextsVars, positionsVars, scanningVars,
                 replayVars>>
ScanningPart ==
  /\ part = "scanning" /\ InModes!Next
  /\ UNCHANGED <<part, contextsVars, positionsVars, conversingVars,
                 replayVars>>
KeepingPart ==
  /\ part = "keeping" /\ Keeping!Next
  /\ UNCHANGED <<part, contextsVars, positionsVars, conversingVars,
                 scanningVars>>
AskingPart ==
  /\ part = "asking" /\ Asking!Next
  /\ UNCHANGED <<part, contextsVars, positionsVars, conversingVars,
                 scanningVars>>

ScoutNext == ContextsPart \/ OncePart \/ RetriedPart \/ AgainPart \/ CallsPart \/
             LogPart \/ TimelinePart \/ ScanningPart \/
             KeepingPart \/ AskingPart

allVars == <<part, contextsVars, positionsVars, conversingVars, scanningVars,
             replayVars>>

ScoutSpec == ScoutInit /\ [][ScoutNext]_allVars
-----------------------------------------------------------------------------
(* Every step cites the generate or tool call it was judged at, or         *)
(* nothing, whichever agents' events lie between, however often one was    *)
(* tried and whenever an id was used again (_positions.py), but where an   *)
(* older log has another generate asked again next (InputCitesItsOwn).     *)
StepsCiteTheirOwn ==
  /\ part = "once" => Once!InputCitesItsOwn /\ Once!AloneIsCited
  /\ part = "retried" => Retried!InputCitesItsOwn /\ Retried!AloneIsCited
  /\ part = "again" => Again!OutputCitesItsOwn
  /\ part = "calls" => InCalls!CallCitesItsOwn /\ InCalls!ModesAgree

(* A transcript scanned again comes to what was reported live: the same    *)
(* conversations, steps and rows; its human()s have the answers people     *)
(* gave there (_replay.py), of which live later steps were shown those     *)
(* that took effect (_human_decisions.py).                                 *)
ScansAgree ==
  /\ part = "contexts" => ContextsTyped /\ OneReadAtATime /\ ContextIsItsOwn
  /\ part = "log" => OfLog!AnyOrderAnswersAlike
  /\ part = "timeline" =>
       OfTimeline!StoredAsTheSpans /\ OfTimeline!SelectedAsWalked
  /\ part = "scanning" =>
       InModes!RowsJoin /\ InModes!ModesFailAlike /\
       InModes!EmptyMeansAlike /\ InModes!RescanGivesTheRows
  /\ part = "keeping" => Keeping!ShownTookEffect
  /\ part = "asking" =>
       Asking!ReportsAreTheirSteps /\ Asking!AnswersAreThePersons
=============================================================================
