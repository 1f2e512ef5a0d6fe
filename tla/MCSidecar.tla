------------------------------ MODULE MCSidecar ------------------------------
(* What the sidecar does with the calls and the conversations it is given, *)
(* part by part: the runs and registrations it keeps, the results it tells *)
(* apart, what a conversation sent, the streams it reads and edits, and    *)
(* the turns it amends.                                                    *)
EXTENDS Naturals, Sequences, TLC

CONSTANTS Parts, StreamCalls, Exchanges, NoValue

VARIABLES part,
  now, runs, runsHeld, recorders, endedSamples, dropped, attempts, tasks,
  facts, runsRefused, pc, obj, registered, replies, passed, named, stopped,
  seenAt, taskAt, turnedAway,
  entries, open, judged, issued, sentFor, callCount, asks, clears, shown,
  went, madeBy,
  context, recent, sent, reads, last,
  body, arrived, decoder, restOfLine, linesHeld, events, bytesEnded,
  blockStream, blocksEnded, blocksRemoved, blocksModified, turnJudged,
  chunks, chunksRemoved, chunksModified, chatPhase,
  itemsOutput, bareItems, itemStage, itemStream, finalOutput, itemsOdd,
  itemsEarly, itemsRemoved, itemsModified, itemsPhase,
  proposed, fate, refusedAfter, copy, honest, whole, steps

stateVars == <<now, runs, runsHeld, recorders, endedSamples, dropped,
               attempts, tasks, facts, runsRefused, pc, obj, registered,
               replies, passed, named, stopped, seenAt, taskAt, turnedAway>>
resultsVars == <<entries, open, judged, issued, sentFor, callCount, asks,
                 clears, shown, went, madeBy>>
historyVars == <<context, recent, sent, reads, last>>
readingVars == <<body, arrived, decoder, restOfLine, linesHeld, events,
                 bytesEnded>>
anthropicVars == <<blockStream, blocksEnded, blocksRemoved, blocksModified,
                   turnJudged>>
chatVars == <<chunks, chunksRemoved, chunksModified, chatPhase>>
responsesVars == <<itemsOutput, bareItems, itemStage, itemStream,
                   finalOutput, itemsOdd, itemsEarly, itemsRemoved,
                   itemsModified, itemsPhase>>
amendingVars == <<proposed, fate, refusedAfter, copy, honest, whole, steps>>

Symmetry == Permutations(StreamCalls) \cup Permutations(Exchanges)

All(xs, value) == [x \in xs |-> value]


Expiring == INSTANCE SidecarState WITH
  Exchanges <- Exchanges, Samples <- {"s1"}, Ids <- {"i1"}, Tasks <- {"t1"},
  SampleOf <- All(Exchanges, "s1"), IdOf <- All(Exchanges, "i1"),
  TaskOf <- All({"s1"}, "t1"), Expiry <- 2, TaskExpiry <- 2,
  TaskExpiries <- {1, 3}, TaskLimit <- 1, DroppedLimit <- 1, MaxNow <- 4,
  MaxReplies <- 1, MaxFacts <- 0, held <- runsHeld, ended <- endedSamples,
  refused <- runsRefused
Registering == INSTANCE SidecarState WITH
  Exchanges <- {"x1"}, Samples <- {"s1"}, Ids <- {"i1"},
  Tasks <- {"t1", "t2"}, SampleOf <- All({"x1"}, "s1"),
  IdOf <- All({"x1"}, "i1"), TaskOf <- All({"s1"}, "t1"), Expiry <- 2,
  TaskExpiry <- 2, TaskExpiries <- {1, 3}, TaskLimit <- 1,
  DroppedLimit <- 1, MaxNow <- 3, MaxReplies <- 2, MaxFacts <- 2,
  held <- runsHeld, ended <- endedSamples, refused <- runsRefused
Retried == INSTANCE CallResults WITH
  Ids <- {"c1", "c2"}, Said <- {"a1", "a2"}, Values <- {"v1", "v2"},
  MadeKept <- 2, MaxCalls <- 3, None <- NoValue, Compacts <- FALSE,
  Retries <- TRUE, MaxAsks <- 3, MaxClears <- 1, made <- sentFor,
  calls <- callCount
Compacted == INSTANCE CallResults WITH
  Ids <- {"c1", "c2"}, Said <- {"a1", "a2"}, Values <- {"v1", "v2"},
  MadeKept <- 2, MaxCalls <- 3, None <- NoValue, Compacts <- TRUE,
  Retries <- FALSE, MaxAsks <- 3, MaxClears <- 0, made <- sentFor,
  calls <- callCount
Made == INSTANCE CallResults WITH
  Ids <- {"c1", "c2"}, Said <- {"a1", "a2"}, Values <- {"v1", "v2"},
  MadeKept <- 2, MaxCalls <- 3, None <- NoValue, Compacts <- FALSE,
  Retries <- FALSE, MaxAsks <- 3, MaxClears <- 1, made <- sentFor,
  calls <- callCount
Exact == INSTANCE History WITH
  Clients <- {"agent", "monitor"}, Texts <- {"x", "y"}, Carrying <- {"y"},
  RecentRequests <- 4, ExactPairs <- 100, MaxRequests <- 4, MaxLength <- 5
AllInOrder == INSTANCE History WITH
  Clients <- {"agent", "monitor"}, Texts <- {"x", "y"}, Carrying <- {"y"},
  RecentRequests <- 2, ExactPairs <- 0, MaxRequests <- 4, MaxLength <- 4
Reading == INSTANCE EventReading WITH
  MaxBytes <- 5, ended <- bytesEnded, rest <- restOfLine, held <- linesHeld
Anthropic == INSTANCE AnthropicStream WITH
  Calls <- StreamCalls, Kinds <- {"text", "server"}, MaxIndex <- 1,
  MaxEvents <- 5, stream <- blockStream, ended <- blocksEnded,
  removed <- blocksRemoved, modified <- blocksModified, judged <- turnJudged
Fragments == INSTANCE ChatStream WITH
  Calls <- StreamCalls, MaxIndex <- 2, MaxFragments <- 1, MaxChunks <- 3,
  stream <- chunks, removed <- chunksRemoved, modified <- chunksModified,
  phase <- chatPhase
InChunks == INSTANCE ChatStream WITH
  Calls <- StreamCalls, MaxIndex <- 1, MaxFragments <- 2, MaxChunks <- 2,
  stream <- chunks, removed <- chunksRemoved, modified <- chunksModified,
  phase <- chatPhase
Responses == INSTANCE ResponsesStream WITH
  Functions <- {"f"}, Customs <- {}, Message <- "m", Lengths <- {1},
  MaxItems <- 2, MaxOdd <- 1, output <- itemsOutput, bare <- bareItems,
  stage <- itemStage, stream <- itemStream, final <- finalOutput,
  odd <- itemsOdd, early <- itemsEarly, removed <- itemsRemoved,
  modified <- itemsModified, phase <- itemsPhase
WellFormed == INSTANCE ResponsesStream WITH
  Functions <- {"f", "g"}, Customs <- {"c"}, Message <- "m",
  Lengths <- {0, 2}, MaxItems <- 2, MaxOdd <- 0, output <- itemsOutput,
  bare <- bareItems, stage <- itemStage, stream <- itemStream,
  final <- finalOutput, odd <- itemsOdd, early <- itemsEarly,
  removed <- itemsRemoved, modified <- itemsModified, phase <- itemsPhase
AmendAnthropic == INSTANCE Amending WITH
  Texts <- {"text"}, Thinking <- {"thinking"}, MaxBlocks <- 2,
  Format <- "anthropic-messages", Order <- <<"a", "b">>, MaxSteps <- 2,
  refused <- refusedAfter
AmendChat == INSTANCE Amending WITH
  Texts <- {"text"}, Thinking <- {"thinking"}, MaxBlocks <- 2,
  Format <- "openai-chat", Order <- <<"a", "b", "c">>, MaxSteps <- 3,
  refused <- refusedAfter
AmendResponses == INSTANCE Amending WITH
  Texts <- {"text"}, Thinking <- {"thinking"}, MaxBlocks <- 2,
  Format <- "openai-responses", Order <- <<"a", "b">>, MaxSteps <- 2,
  refused <- refusedAfter

ASSUME Expiring!SidecarStateAssumption /\
       Registering!SidecarStateAssumption /\
       Retried!CallResultsAssumption /\ Compacted!CallResultsAssumption /\
       Made!CallResultsAssumption /\ Exact!HistoryAssumption /\
       AllInOrder!HistoryAssumption /\ Reading!EventReadingAssumption /\
       Anthropic!AnthropicStreamAssumption /\
       Fragments!ChatStreamAssumption /\ InChunks!ChatStreamAssumption /\
       Responses!ResponsesStreamAssumption /\
       WellFormed!ResponsesStreamAssumption /\
       AmendAnthropic!AmendingAssumption /\ AmendChat!AmendingAssumption /\
       AmendResponses!AmendingAssumption
-----------------------------------------------------------------------------
StateIdle ==
  /\ now = "idle" /\ runs = "idle" /\ runsHeld = "idle"
  /\ recorders = "idle" /\ endedSamples = "idle" /\ dropped = "idle"
  /\ attempts = "idle" /\ tasks = "idle" /\ facts = "idle"
  /\ runsRefused = "idle" /\ pc = "idle" /\ obj = "idle"
  /\ registered = "idle" /\ replies = "idle" /\ passed = "idle"
  /\ named = "idle" /\ stopped = "idle" /\ seenAt = "idle"
  /\ taskAt = "idle" /\ turnedAway = "idle"
ResultsIdle ==
  /\ entries = "idle" /\ open = "idle" /\ judged = "idle" /\ issued = "idle"
  /\ sentFor = "idle" /\ callCount = "idle" /\ asks = "idle"
  /\ clears = "idle" /\ shown = "idle" /\ went = "idle" /\ madeBy = "idle"
HistoryIdle ==
  /\ context = "idle" /\ recent = "idle" /\ sent = "idle" /\ reads = "idle"
  /\ last = "idle"
ReadingIdle ==
  /\ body = "idle" /\ arrived = "idle" /\ decoder = "idle"
  /\ restOfLine = "idle" /\ linesHeld = "idle" /\ events = "idle"
  /\ bytesEnded = "idle"
AnthropicIdle ==
  /\ blockStream = "idle" /\ blocksEnded = "idle" /\ blocksRemoved = "idle"
  /\ blocksModified = "idle" /\ turnJudged = "idle"
ChatIdle ==
  /\ chunks = "idle" /\ chunksRemoved = "idle" /\ chunksModified = "idle"
  /\ chatPhase = "idle"
ResponsesIdle ==
  /\ itemsOutput = "idle" /\ bareItems = "idle" /\ itemStage = "idle"
  /\ itemStream = "idle" /\ finalOutput = "idle" /\ itemsOdd = "idle"
  /\ itemsEarly = "idle" /\ itemsRemoved = "idle" /\ itemsModified = "idle"
  /\ itemsPhase = "idle"
AmendingIdle ==
  /\ proposed = "idle" /\ fate = "idle" /\ refusedAfter = "idle"
  /\ copy = "idle" /\ honest = "idle" /\ whole = "idle" /\ steps = "idle"

Init ==
  /\ part \in Parts
  /\ CASE part = "expiring" ->
            Expiring!Init /\ ResultsIdle /\ HistoryIdle /\ ReadingIdle /\
            AnthropicIdle /\ ChatIdle /\ ResponsesIdle /\ AmendingIdle
       [] part = "registering" ->
            Registering!Init /\ ResultsIdle /\ HistoryIdle /\ ReadingIdle /\
            AnthropicIdle /\ ChatIdle /\ ResponsesIdle /\ AmendingIdle
       [] part = "retried" ->
            Retried!Init /\ StateIdle /\ HistoryIdle /\ ReadingIdle /\
            AnthropicIdle /\ ChatIdle /\ ResponsesIdle /\ AmendingIdle
       [] part = "compacted" ->
            Compacted!Init /\ StateIdle /\ HistoryIdle /\ ReadingIdle /\
            AnthropicIdle /\ ChatIdle /\ ResponsesIdle /\ AmendingIdle
       [] part = "made" ->
            Made!Init /\ StateIdle /\ HistoryIdle /\ ReadingIdle /\
            AnthropicIdle /\ ChatIdle /\ ResponsesIdle /\ AmendingIdle
       [] part = "exact" ->
            Exact!Init /\ StateIdle /\ ResultsIdle /\ ReadingIdle /\
            AnthropicIdle /\ ChatIdle /\ ResponsesIdle /\ AmendingIdle
       [] part = "in_order" ->
            AllInOrder!Init /\ StateIdle /\ ResultsIdle /\ ReadingIdle /\
            AnthropicIdle /\ ChatIdle /\ ResponsesIdle /\ AmendingIdle
       [] part = "reading" ->
            Reading!Init /\ StateIdle /\ ResultsIdle /\ HistoryIdle /\
            AnthropicIdle /\ ChatIdle /\ ResponsesIdle /\ AmendingIdle
       [] part = "anthropic" ->
            Anthropic!Init /\ StateIdle /\ ResultsIdle /\ HistoryIdle /\
            ReadingIdle /\ ChatIdle /\ ResponsesIdle /\ AmendingIdle
       [] part = "fragments" ->
            Fragments!Init /\ StateIdle /\ ResultsIdle /\ HistoryIdle /\
            ReadingIdle /\ AnthropicIdle /\ ResponsesIdle /\ AmendingIdle
       [] part = "chunks" ->
            InChunks!Init /\ StateIdle /\ ResultsIdle /\ HistoryIdle /\
            ReadingIdle /\ AnthropicIdle /\ ResponsesIdle /\ AmendingIdle
       [] part = "responses" ->
            Responses!Init /\ StateIdle /\ ResultsIdle /\ HistoryIdle /\
            ReadingIdle /\ AnthropicIdle /\ ChatIdle /\ AmendingIdle
       [] part = "well_formed" ->
            WellFormed!Init /\ StateIdle /\ ResultsIdle /\ HistoryIdle /\
            ReadingIdle /\ AnthropicIdle /\ ChatIdle /\ AmendingIdle
       [] part = "amend_anthropic" ->
            AmendAnthropic!Init /\ StateIdle /\ ResultsIdle /\
            HistoryIdle /\ ReadingIdle /\ AnthropicIdle /\ ChatIdle /\
            ResponsesIdle
       [] part = "amend_chat" ->
            AmendChat!Init /\ StateIdle /\ ResultsIdle /\ HistoryIdle /\
            ReadingIdle /\ AnthropicIdle /\ ChatIdle /\ ResponsesIdle
       [] part = "amend_responses" ->
            AmendResponses!Init /\ StateIdle /\ ResultsIdle /\
            HistoryIdle /\ ReadingIdle /\ AnthropicIdle /\ ChatIdle /\
            ResponsesIdle

ExpiringPart ==
  /\ part = "expiring" /\ Expiring!Next
  /\ UNCHANGED <<part, resultsVars, historyVars, readingVars, anthropicVars,
                 chatVars, responsesVars, amendingVars>>
RegisteringPart ==
  /\ part = "registering" /\ Registering!Next
  /\ UNCHANGED <<part, resultsVars, historyVars, readingVars, anthropicVars,
                 chatVars, responsesVars, amendingVars>>
RetriedPart ==
  /\ part = "retried" /\ Retried!Next
  /\ UNCHANGED <<part, stateVars, historyVars, readingVars, anthropicVars,
                 chatVars, responsesVars, amendingVars>>
CompactedPart ==
  /\ part = "compacted" /\ Compacted!Next
  /\ UNCHANGED <<part, stateVars, historyVars, readingVars, anthropicVars,
                 chatVars, responsesVars, amendingVars>>
MadePart ==
  /\ part = "made" /\ Made!Next
  /\ UNCHANGED <<part, stateVars, historyVars, readingVars, anthropicVars,
                 chatVars, responsesVars, amendingVars>>
ExactPart ==
  /\ part = "exact" /\ Exact!Next
  /\ UNCHANGED <<part, stateVars, resultsVars, readingVars, anthropicVars,
                 chatVars, responsesVars, amendingVars>>
In_orderPart ==
  /\ part = "in_order" /\ AllInOrder!Next
  /\ UNCHANGED <<part, stateVars, resultsVars, readingVars, anthropicVars,
                 chatVars, responsesVars, amendingVars>>
ReadingPart ==
  /\ part = "reading" /\ Reading!Next
  /\ UNCHANGED <<part, stateVars, resultsVars, historyVars, anthropicVars,
                 chatVars, responsesVars, amendingVars>>
AnthropicPart ==
  /\ part = "anthropic" /\ Anthropic!Next
  /\ UNCHANGED <<part, stateVars, resultsVars, historyVars, readingVars,
                 chatVars, responsesVars, amendingVars>>
FragmentsPart ==
  /\ part = "fragments" /\ Fragments!Next
  /\ UNCHANGED <<part, stateVars, resultsVars, historyVars, readingVars,
                 anthropicVars, responsesVars, amendingVars>>
ChunksPart ==
  /\ part = "chunks" /\ InChunks!Next
  /\ UNCHANGED <<part, stateVars, resultsVars, historyVars, readingVars,
                 anthropicVars, responsesVars, amendingVars>>
ResponsesPart ==
  /\ part = "responses" /\ Responses!Next
  /\ UNCHANGED <<part, stateVars, resultsVars, historyVars, readingVars,
                 anthropicVars, chatVars, amendingVars>>
Well_formedPart ==
  /\ part = "well_formed" /\ WellFormed!Next
  /\ UNCHANGED <<part, stateVars, resultsVars, historyVars, readingVars,
                 anthropicVars, chatVars, amendingVars>>
Amend_anthropicPart ==
  /\ part = "amend_anthropic" /\ AmendAnthropic!Next
  /\ UNCHANGED <<part, stateVars, resultsVars, historyVars, readingVars,
                 anthropicVars, chatVars, responsesVars>>
Amend_chatPart ==
  /\ part = "amend_chat" /\ AmendChat!Next
  /\ UNCHANGED <<part, stateVars, resultsVars, historyVars, readingVars,
                 anthropicVars, chatVars, responsesVars>>
Amend_responsesPart ==
  /\ part = "amend_responses" /\ AmendResponses!Next
  /\ UNCHANGED <<part, stateVars, resultsVars, historyVars, readingVars,
                 anthropicVars, chatVars, responsesVars>>

Next == ExpiringPart \/ RegisteringPart \/ RetriedPart \/ CompactedPart \/
        MadePart \/ ExactPart \/ In_orderPart \/ ReadingPart \/
        AnthropicPart \/ FragmentsPart \/ ChunksPart \/ ResponsesPart \/
        Well_formedPart \/ Amend_anthropicPart \/ Amend_chatPart \/
        Amend_responsesPart

allVars == <<part, stateVars, resultsVars, historyVars, readingVars,
              anthropicVars, chatVars, responsesVars, amendingVars>>

Spec == Init /\ [][Next]_allVars
-----------------------------------------------------------------------------
(* However a streamed reply's bytes are cut, what a client builds of what  *)
(* goes out, as it comes or at the end, is what was judged, with the edits *)
(* made, however a provider wrote it (_release.py, _edit_stream); but a    *)
(* Responses turn that nothing was edited in goes out as it came, and only *)
(* its last response was judged, so it is said of well-formed ones.        *)
ClientRunsWhatWasJudged ==
  /\ part = "reading" =>
       Reading!ReadsAsTheWhole /\ Reading!NoEventIsGuessed /\
       Reading!NothingIsLost /\ Reading!NotHeldLonger
  /\ part = "anthropic" =>
       Anthropic!ClientRunsWhatWasJudged /\ Anthropic!EditsAsAsked /\
       Anthropic!NoCallGoesEarly /\ Anthropic!EditsNothingAlreadySent
  /\ part = "fragments" =>
       Fragments!ClientRunsWhatWasJudged /\ Fragments!EditsAsAsked /\
       Fragments!SentEarlyStands
  /\ part = "chunks" =>
       InChunks!ClientRunsWhatWasJudged /\ InChunks!EditsAsAsked /\
       InChunks!SentEarlyStands
  /\ part = "responses" =>
       Responses!ClientRunsWhatWasJudged /\ Responses!NoCallGoesEarly
  /\ part = "well_formed" =>
       WellFormed!EditsAsAsked /\ WellFormed!ClientRunsWhatWasJudged

(* Whatever a client makes of a turn it was handed edited, the model is    *)
(* sent its own turn and of each call that was taken out that it was       *)
(* rejected, and an honest client is never refused (amend_request).        *)
TheModelSeesItsOwnTurn ==
  /\ part = "amend_anthropic" =>
       AmendAnthropic!TheModelSeesItsOwnTurn /\
       AmendAnthropic!HonestIsNeverRefused /\
       AmendAnthropic!NothingElseMoves /\
       AmendAnthropic!NeverRanNeverResult /\
       AmendAnthropic!PutBackIsRecognised /\
       AmendAnthropic!RefusedWhereItWasMade
  /\ part = "amend_chat" =>
       AmendChat!NothingElseMoves /\ AmendChat!NeverRanNeverResult /\
       AmendChat!HonestIsNeverRefused
  /\ part = "amend_responses" =>
       AmendResponses!TheModelSeesItsOwnTurn /\
       AmendResponses!NeverRanNeverResult /\
       AmendResponses!RefusedWhereItWasMade /\
       AmendResponses!PutBackIsRecognised

(* In every state of the runs and registrations.                           *)
RunsAreKeptBetween ==
  /\ part = "expiring" =>
       Expiring!NamedRunIsKept /\ Expiring!EndedSampleStaysEnded /\
       Expiring!SeenIsNeverUnknown
  /\ part = "registering" =>
       Registering!TypeOK /\ Registering!TurnedAwayOnlyWhenFull /\
       Registering!NamedTaskIsKept /\ Registering!ReplyPassedOnce

(* A run a client has named is kept as long as was promised and an ended   *)
(* sample stays ended, whatever expires or is retried meanwhile; a reply   *)
(* passes once, and what was recorded of it stays (SidecarState).          *)
RunsAreKept ==
  [][/\ RunsAreKeptBetween'
     /\ part = "expiring" => Expiring!NothingPassesOnceEnded
     /\ part = "registering" => Registering!NothingPassesOnceEnded /\ Registering!FactsStay]_allVars

(* In every state of a conversation's tool results.                        *)
ResultsAreTold ==
  /\ part = "retried" => Retried!EveryResultIsShown
  /\ part = "compacted" => Compacted!NothingUnseenGoesOn /\ Compacted!ShownOnce
  /\ part = "made" => Made!TypeOK /\ Made!SentForItsCall

(* Every result the model is sent was shown to the sentinel, once and with *)
(* its own call, whatever ids the client uses again, clears, compacts or   *)
(* sends again (Handler._results).                                         *)
ResultsAreShown ==
  [][/\ ResultsAreTold'
     /\ part = "made" => Made!ShownWithItsOwn]_allVars

(* What a conversation is recorded to have sent leaves nothing out.        *)
NothingSentIsMissing ==
  /\ part = "exact" => Exact!NothingSentIsMissing
  /\ part = "in_order" => AllInOrder!NothingSentIsMissing

(* A step is given each message the model was sent once, as often as it    *)
(* was sent, whichever clients of the conversation send or compact between *)
(* (record_sent).                                                          *)
HistoryHasEachMessageOnce ==
  [][/\ NothingSentIsMissing'
     /\ part = "exact" => Exact!OnlyNewIsAdded /\ Exact!OneSummaryIsAdded
     /\ part = "in_order" => AllInOrder!OneSummaryIsAdded]_allVars
=============================================================================
