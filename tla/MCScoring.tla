------------------------------ MODULE MCScoring ------------------------------
(* How a monitor scores a step, part by part: steps of many lists that     *)
(* must be cut to fit, each list's markers at every budget, what callers   *)
(* may ask, what the model may answer; and what an incremental monitor is  *)
(* shown of a conversation, its steps at once, in turn or of its input.    *)
EXTENDS Scoring, TLC

CONSTANTS Parts

VARIABLES part,
  conversation, messagesSent, running, marks, reported, lastTurns

windowsVars == <<conversation, messagesSent, running, marks, reported, lastTurns>>
scoringVars == <<asked, step, limit, at, search, content, extract_refs,
                 messages, outputs, ended>>

(* What is asked when the caller's arguments aren't in question.           *)
Plain == {[used |-> {"step", "answer_format"}, variables |-> {}, dimensions |-> {"harm"}]}

(* Templates that use up to five variables, of the prompt's or the caller's *)
Variables == {"step", "answer_format", "sentinel_nonce", "policy", "own"}
ManyAsks ==
  {[used |-> u, variables |-> v, dimensions |-> d] :
     u \in SUBSET Variables, v \in SUBSET Variables,
     d \in {{}, {"harm"}, {"harm", "fraud"}, {"harm", "explanation"}}}

AllStages == {"before_tool_call", "after_tool_call", "before_generate", "after_generate"}
(* Lists of up to so many messages, each of some cost.                     *)
ListsOf(costs, n) ==
  {[n |-> Len(list), left |-> [k \in 0 .. Len(list) |->
      MapThenSumSet(LAMBDA i : list[i], k + 1 .. Len(list))]] : list \in SeqOf(costs, n)}
UpTo(costs, h, a, i) ==
  [name \in ListNames |-> ListsOf(costs, IF name = "history" THEN h
                                         ELSE IF name = "input" THEN i ELSE a)]
Many == UpTo({2, 4}, 3, 1, 2)

Stop(calls) == [choices |-> TRUE, stop |-> "stop", calls |-> calls]
Answered == {Stop(<<"valid">>)}
AnyOutputs ==
  {[choices |-> FALSE, stop |-> "stop", calls |-> <<>>],
   [choices |-> TRUE, stop |-> "content_filter", calls |-> <<"valid">>],
   [choices |-> TRUE, stop |-> "model_length", calls |-> <<>>]}
    \cup {Stop(calls) : calls \in SeqOf({"valid", "invalid", "other"}, 2)}

Budgets == 1..19

Markers == INSTANCE Scoring WITH
  Asks <- Plain, Stages <- AllStages, Lists <- UpTo({1, 3}, 2, 1, 2), Limits <- 0..14,
  Outputs <- {Stop(<<"valid">>)}, RetryRefusals <- 0
Asked == INSTANCE Scoring WITH
  Asks <- ManyAsks, Stages <- {"before_generate"}, Lists <- UpTo({1}, 0, 0, 1), Limits <- {4}, Outputs <- {Stop(<<"valid">>)},
  RetryRefusals <- 0
AnyAnswers == INSTANCE Scoring WITH
  Asks <- Plain, Stages <- {"before_generate"}, Lists <- UpTo({1}, 0, 0, 1), Limits <- {4}, Outputs <- AnyOutputs,
  RetryRefusals <- 1
AtOnce == INSTANCE Windows WITH
  Source <- "history", Functions <- {"f"}, Slots <- {1, 2}, Edits <- TRUE,
  MaxMessages <- 3, MaxTurns <- 0
InTurn == INSTANCE Windows WITH
  Source <- "history", Functions <- {"f", "g"}, Slots <- {1}, Edits <- TRUE,
  MaxMessages <- 4, MaxTurns <- 0
OfInput == INSTANCE Windows WITH
  Source <- "input", Functions <- {"f"}, Slots <- {1}, Edits <- FALSE,
  MaxMessages <- 4, MaxTurns <- 2

ASSUME Markers!ScoringAssumption /\ Asked!ScoringAssumption /\
       AnyAnswers!ScoringAssumption /\ AtOnce!WindowsAssumption /\
       InTurn!WindowsAssumption /\ OfInput!WindowsAssumption
-----------------------------------------------------------------------------
ScoringIdle == 
  /\ asked \in Asks /\ limit = 0 /\ at = "ended" /\ search = [low |-> 1, high |-> 0]
  /\ step = [stage |-> "before_generate", known |-> FALSE, tools |-> FALSE, choice |-> FALSE,
             shown |-> [name \in ListNames |-> CHOOSE l \in ListsOf({1}, 0) : TRUE]]
  /\ content = Uncut /\ extract_refs = Uncut /\ messages = <<>> /\ outputs = <<>>
  /\ ended = NotEnded
WindowsIdle ==
  /\ conversation = "idle" /\ messagesSent = "idle" /\ running = "idle"
  /\ marks = "idle" /\ reported = "idle" /\ lastTurns = "idle"

ScoringInit ==
  /\ part \in Parts
  /\ CASE part = "fit" -> Init /\ WindowsIdle
       [] part = "markers" -> Markers!Init /\ WindowsIdle
       [] part = "asked" -> Asked!Init /\ WindowsIdle
       [] part = "answers" -> AnyAnswers!Init /\ WindowsIdle
       [] part = "at_once" -> AtOnce!WindowsInit /\ ScoringIdle
       [] part = "in_turn" -> InTurn!WindowsInit /\ ScoringIdle
       [] part = "of_input" -> OfInput!WindowsInit /\ ScoringIdle

FitPart == part = "fit" /\ Next /\ UNCHANGED <<part, windowsVars>>
MarkersPart ==
  part = "markers" /\ Markers!Next /\ UNCHANGED <<part, windowsVars>>
AskedPart == part = "asked" /\ Asked!Next /\ UNCHANGED <<part, windowsVars>>
AnswersPart ==
  part = "answers" /\ AnyAnswers!Next /\ UNCHANGED <<part, windowsVars>>
At_oncePart ==
  part = "at_once" /\ AtOnce!WindowsNext /\ UNCHANGED <<part, scoringVars>>
In_turnPart ==
  part = "in_turn" /\ InTurn!WindowsNext /\ UNCHANGED <<part, scoringVars>>
Of_inputPart ==
  part = "of_input" /\ OfInput!WindowsNext /\ UNCHANGED <<part, scoringVars>>

ScoringNext == FitPart \/ MarkersPart \/ AskedPart \/ AnswersPart \/
               At_oncePart \/ In_turnPart \/ Of_inputPart

allVars == <<part, scoringVars, windowsVars>>

ScoringSpec == ScoringInit /\ [][ScoringNext]_allVars
-----------------------------------------------------------------------------
(* Whatever a caller asks and its monitor answers, a prompt that is sent   *)
(* shows the step, its scores and cites are of what was sent, every call   *)
(* of an invalid answer is answered, and the model has its attempts.       *)
ScoresAreOfWhatWasSent ==
  /\ part = "markers" => /\ Markers!NewestInputIsShown /\ Markers!FixedPartsAreNamed
                         /\ Markers!CitesNameWhatWasSent
  /\ part = "asked" => Asked!AcceptedRenders /\ Asked!EveryDimensionIsScored
  /\ part = "answers" => /\ AnyAnswers!EachCallIsAnswered /\ AnyAnswers!AttemptsAreTheModels
                         /\ AnyAnswers!FirstValidAnswers

(* An incremental monitor is shown each message of its conversation, once  *)
(* where its steps are not at once, whichever fail, are edited or compacted*)
(* meanwhile (NewSinceLastReport), or just the last turns (LastTurns).     *)
NothingGoesUnseen ==
  /\ part = "at_once" => AtOnce!WindowsTyped /\ AtOnce!NothingGoesUnseen
  /\ part = "in_turn" => InTurn!NothingGoesUnseen /\ InTurn!NothingIsReread
  /\ part = "of_input" => /\ OfInput!NothingGoesUnseen /\ OfInput!GoneIsShownWhole
                          /\ OfInput!LastTurnsAsSaid
=============================================================================
