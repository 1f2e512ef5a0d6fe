------------------------------- MODULE Scoring ------------------------------
(***************************************************************************)
(* How a monitor model scores a step (_score.py, with the head cut of      *)
(* _preprocess.py): the caller's template and dimensions are checked, the  *)
(* step is rendered, the oldest shown messages are cut until the prompt    *)
(* fits the model's input budget, and the model is asked until it answers. *)
(* A list of messages is how many it shows and what is left of its cost in *)
(* tokens as the first of them are dropped; a cut is how many each list    *)
(* lost, and a list that lost some carries a marker line.                  *)
(***************************************************************************)
EXTENDS Integers, FiniteSets, Sequences, SequencesExt, FiniteSetsExt

CONSTANTS
  Asks,          \* what the caller may ask: a template, its variables, dimensions
  Stages,        \* the stages a step may be of
  Lists,         \* the lists of messages a step may show, by name
  MarkerCost,    \* what the line naming the messages left out costs
  FixedCost,     \* what the rest of the prompt costs
  Limits,        \* the input budgets, less the margin
  Outputs,       \* what the monitor model may answer
  RetryRefusals  \* how often a refusal is asked again

ListNames == {"history", "agent_messages", "input"}

(* What a list costs falls as its first messages are dropped, to nothing.  *)
IsList(list) ==
  /\ list.n \in Nat /\ list.left \in [0 .. list.n -> Nat] /\ list.left[list.n] = 0
  /\ \A i, j \in 0 .. list.n : i <= j => list.left[j] <= list.left[i]

ASSUME ScoringAssumption ==
  /\ Stages \subseteq {"before_tool_call", "after_tool_call", "before_generate", "after_generate"}
  /\ \A name \in ListNames : \A list \in Lists[name] : IsList(list)
  /\ MarkerCost \in Nat /\ FixedCost \in Nat /\ Limits \subseteq Nat
  /\ RetryRefusals \in Nat
  /\ \A output \in Outputs : output.choices \in BOOLEAN /\ output.calls \in Seq(STRING)

VARIABLES
  asked,        \* the caller's template and dimensions
  step,         \* the step: its stage, shown lists, tools and tool choice
  limit,        \* the tokens the prompt may take
  at,           \* where the scoring is
  search,       \* the bounds of the binary search
  content,      \* the cut of the prompt to send
  extract_refs, \* the cut whose numbering cites are resolved with
  messages,     \* what the model is sent
  outputs,      \* what it answered, attempt by attempt
  ended         \* how the scoring ended

vars == <<asked, step, limit, at, search, content, extract_refs, messages, outputs, ended>>
-----------------------------------------------------------------------------
(* The caller's template and dimensions: _BUILT_IN, _REQUIRED, _RESERVED   *)
BuiltIn == {"instructions", "policy", "task", "eval", "step", "sentinel_nonce",
            "dimensions", "answer_format"}
Required == {"step", "answer_format"}
Reserved == {"explanation"}

(* The variables of the caller's that are kept: the nonce is the prompt's  *)
Extra(ask) == ask.variables \ {"sentinel_nonce"}

(* What score_step takes: it raises ValueError for anything else           *)
Accepts(ask) ==
  /\ Extra(ask) \cap BuiltIn = {}
  /\ Required \subseteq ask.used
  /\ ask.used \subseteq BuiltIn \cup Extra(ask)
  /\ ask.dimensions # {} /\ ask.dimensions \cap Reserved = {}
-----------------------------------------------------------------------------
(* The prompt                                                              *)
Uncut == [list \in ListNames |-> 0]
Shown(list) == step.shown[list]
KeepsNewestInput == step.stage = "before_generate" /\ Shown("input").n > 0

CuttableIn(list) ==
  IF list = "input" /\ step.stage = "before_generate"
  THEN Max({Shown(list).n - 1, 0}) ELSE Shown(list).n

Cuttable == CuttableIn("history") + CuttableIn("agent_messages") + CuttableIn("input")

(* head_cut: HISTORY loses messages first, then AGENT MESSAGES, then INPUT *)
CutBefore(list) ==
  IF list = "history" THEN 0
  ELSE CuttableIn("history") + (IF list = "input" THEN CuttableIn("agent_messages") ELSE 0)
HeadCut(k) ==
  [list \in ListNames |-> Min({CuttableIn(list), Max({k - CutBefore(list), 0})})]

(* The messages shown under a cut, in the order they are numbered          *)
Numbered(cut) ==
  LET Kept(list) == [i \in 1 .. Shown(list).n - cut[list] |-> <<list, i + cut[list]>>]
  IN  Kept("history") \o Kept("agent_messages") \o Kept("input")

(* What a list costs without its first messages                            *)
ListCost(list, dropped) ==
  (IF dropped > 0 THEN MarkerCost ELSE 0) + Shown(list).left[dropped]

Count(cut) ==
  FixedCost + ListCost("history", cut["history"])
            + ListCost("agent_messages", cut["agent_messages"])
            + ListCost("input", cut["input"])

Fits(cut) == Count(cut) <= limit

(* The step's own blocks that no cut takes away, as render_step shows them *)
FixedBlocks ==
  {b \in {"TOOLS"} : step.known /\ step.tools}
  \cup {b \in {"TOOL_CHOICE"} : step.known /\ step.choice}
  \cup {b \in {"REPLY"} : step.stage = "after_generate"}
  \cup {b \in {"CALL"} : step.stage \in {"before_tool_call", "after_tool_call"}}
  \cup {b \in {"RESULT"} : step.stage = "after_tool_call"}

(* _step_parts and _too_big: the parts of the step named as not fitting    *)
StepParts ==
  (IF step.known
   THEN {b \in {"TOOLS"} : step.tools} \cup {b \in {"TOOL_CHOICE"} : step.choice} ELSE {})
  \cup (CASE step.stage = "after_generate" -> {"REPLY"}
          [] step.stage = "after_tool_call" -> {"CALL", "RESULT"}
          [] step.stage = "before_tool_call" -> {"CALL"}
          [] OTHER -> {})
  \cup {b \in {"INPUT"} : KeepsNewestInput}
-----------------------------------------------------------------------------
Prompt == [from |-> "user", attempt |-> 0, call |-> 0]
NotEnded == [how |-> "not_ended", parts |-> {}, scores |-> {}, call |-> 0, cites |-> <<>>]
Ends(as) == at' = "ended" /\ ended' = as

(* The steps there are, each list unknown (shown empty) or as its window   *)
(* left it                                                                 *)
ListsShown ==
  {shown \in [ListNames -> UNION {Lists[list] : list \in ListNames}] :
     \A list \in ListNames : shown[list] \in Lists[list]}
Steps ==
  {s \in [stage : Stages, known : BOOLEAN, tools : BOOLEAN, choice : BOOLEAN, shown : ListsShown] :
     ~s.known => s.shown["input"].n = 0}

Init ==
  /\ asked \in Asks
  /\ step \in Steps
  /\ limit \in Limits
  /\ at = "check" /\ search = [low |-> 1, high |-> 0]
  /\ content = Uncut /\ extract_refs = Uncut /\ messages = <<>> /\ outputs = <<>>
  /\ ended = NotEnded

(* The caller's arguments are checked before anything is rendered          *)
Checks ==
  /\ at = "check"
  /\ IF Accepts(asked) THEN at' = "fit" /\ UNCHANGED ended
     ELSE Ends([NotEnded EXCEPT !.how = "invalid"])
  /\ UNCHANGED <<asked, step, limit, search, content, extract_refs, messages, outputs>>

(* _fit: the prompt fits whole                                             *)
FitsWhole ==
  /\ at = "fit" /\ Fits(Uncut)
  /\ at' = "ask" /\ messages' = <<Prompt>>
  /\ UNCHANGED <<asked, step, limit, search, content, extract_refs, outputs, ended>>

(* _fit: all that can be cut is, which must fit for a search to be worth   *)
CutsAll ==
  /\ at = "fit" /\ ~Fits(Uncut)
  /\ content' = HeadCut(Cuttable) /\ extract_refs' = HeadCut(Cuttable)
  /\ IF ~Fits(HeadCut(Cuttable))
     THEN /\ Ends([NotEnded EXCEPT !.how = "too_big", !.parts = StepParts])
          /\ UNCHANGED search
     ELSE at' = "search" /\ search' = [low |-> 1, high |-> Cuttable] /\ UNCHANGED ended
  /\ UNCHANGED <<asked, step, limit, messages, outputs>>

Middle == (search.low + search.high) \div 2

(* As if the cut tried last was taken whether it fit or not                *)
SearchesKeepingLast ==
  /\ at = "search" /\ search.low <= search.high
  /\ content' = HeadCut(Middle) /\ extract_refs' = HeadCut(Middle)
  /\ search' = IF Fits(HeadCut(Middle)) THEN [search EXCEPT !.high = Middle - 1]
               ELSE [search EXCEPT !.low = Middle + 1]
  /\ UNCHANGED <<asked, step, limit, at, messages, outputs, ended>>

(* As if the search narrowed past the cut it should try next               *)
SearchesPast ==
  /\ at = "search" /\ search.low <= search.high
  /\ LET cut == HeadCut(Middle)
     IN  IF Fits(cut)
         THEN content' = cut /\ extract_refs' = cut /\ search' = [search EXCEPT !.high = Middle - 2]
         ELSE search' = [search EXCEPT !.low = Middle + 1] /\ UNCHANGED <<content, extract_refs>>
  /\ UNCHANGED <<asked, step, limit, at, messages, outputs, ended>>

(* _fit: the binary search tries the cut in the middle                     *)
Searches ==
  /\ at = "search" /\ search.low <= search.high
  /\ LET cut == HeadCut(Middle)
     IN  IF Fits(cut)
         THEN content' = cut /\ extract_refs' = cut /\ search' = [search EXCEPT !.high = Middle - 1]
         ELSE search' = [search EXCEPT !.low = Middle + 1] /\ UNCHANGED <<content, extract_refs>>
  /\ UNCHANGED <<asked, step, limit, at, messages, outputs, ended>>

(* _fit: the search is over, and the best cut found is sent                *)
Found ==
  /\ at = "search" /\ search.low > search.high
  /\ at' = "ask" /\ messages' = <<Prompt>>
  /\ UNCHANGED <<asked, step, limit, search, content, extract_refs, outputs, ended>>
-----------------------------------------------------------------------------
(* The outputs of the model: each has no choices, or a stop reason and the *)
(* calls of its reply, each "valid" or why _check finds it isn't.          *)
Attempts == 3
Refused(output) == output.choices /\ output.stop = "content_filter"
Attempt == Cardinality({i \in DOMAIN outputs : ~Refused(outputs[i])}) + 1
CallsOf(output) == IF output.choices THEN output.calls ELSE <<>>
Valid(output) == {i \in DOMAIN CallsOf(output) : CallsOf(output)[i] = "valid"}

(* How often the last output's attempt was refused, that one included      *)
Refusals ==
  LET answered == {i \in DOMAIN outputs : ~Refused(outputs[i])}
  IN  Len(outputs) - (IF answered = {} THEN 0 ELSE Max(answered))

(* As if an attempt was used up by a refusal                               *)
IsRefusedAndCounted(output) ==
  /\ Refused(output)
  /\ IF Len(outputs) + 1 = Attempts THEN Ends([NotEnded EXCEPT !.how = "no_answer"])
     ELSE UNCHANGED <<at, ended>>
  /\ UNCHANGED messages

(* _generate: a refusal by the provider is asked again, so many times      *)
IsRefused(output) ==
  /\ Refused(output)
  /\ IF Refusals = RetryRefusals THEN Ends([NotEnded EXCEPT !.how = "refused"])
     ELSE UNCHANGED <<at, ended>>
  /\ UNCHANGED messages

(* _generate: the request exceeded the model's window after all            *)
Overflows(output) ==
  /\ output.choices /\ output.stop = "model_length"
  /\ Ends([NotEnded EXCEPT !.how = "length"])
  /\ UNCHANGED messages

(* The first valid call is the answer: its scores without the explanation, *)
(* whose cites [M1], [M2] and so on become references.                     *)
Answers(output) ==
  /\ output.stop = "stop" /\ Valid(output) # {}
  /\ Ends([NotEnded EXCEPT !.how = "scored",
                           !.scores = (asked.dimensions \cup Reserved) \ Reserved,
                           !.call = Min(Valid(output)), !.cites = Numbered(extract_refs)])
  /\ UNCHANGED messages

(* What an invalid reply is answered with: an error for each call, or a    *)
(* reminder when there was none                                            *)
Correction(output) ==
  LET a == Attempt
      calls == CallsOf(output)
  IN  (IF output.choices THEN <<[from |-> "assistant", attempt |-> a, call |-> Len(calls)]>> ELSE <<>>)
      \o (IF calls # <<>> THEN [i \in DOMAIN calls |-> [from |-> "tool", attempt |-> a, call |-> i]]
          ELSE <<Prompt>>)

(* No call was valid: the model is told, unless that was its last attempt  *)
IsCorrected(output) ==
  /\ ~output.choices \/ (output.stop = "stop" /\ Valid(output) = {})
  /\ messages' = messages \o Correction(output)
  /\ IF Attempt = Attempts THEN Ends([NotEnded EXCEPT !.how = "no_answer"])
     ELSE UNCHANGED <<at, ended>>

(* The model is asked and answers                                          *)
Generates ==
  /\ at = "ask"
  /\ \E output \in Outputs :
       /\ IsRefused(output) \/ Overflows(output) \/ Answers(output) \/ IsCorrected(output)
       /\ outputs' = Append(outputs, output)
  /\ UNCHANGED <<asked, step, limit, search, content, extract_refs>>

Next == Checks \/ FitsWhole \/ CutsAll \/ Searches \/ Found \/ Generates

Spec == Init /\ [][Next]_vars /\ WF_vars(Next)
-----------------------------------------------------------------------------
TypeOK ==
  /\ asked \in Asks /\ limit \in Limits
  /\ at \in {"check", "fit", "search", "ask", "ended"}
  /\ ended.how \in {"not_ended", "invalid", "too_big", "refused", "length", "scored", "no_answer"}
  /\ {content, extract_refs} \subseteq [ListNames -> Nat]
  /\ Len(outputs) <= Attempts * (RetryRefusals + 1)

Sent == messages # <<>>

(* A template that was accepted renders: every variable it uses is filled, *)
(* and the caller's take the place of none of the prompt's own; and the    *)
(* answer has a score for each dimension and only for those.               *)
AcceptedRenders ==
  at \notin {"check", "ended"} =>
    /\ asked.used \subseteq BuiltIn \cup asked.variables
    /\ Extra(asked) \cap BuiltIn = {} /\ {"step", "answer_format"} \subseteq asked.used
EveryDimensionIsScored == ended.how = "scored" => ended.scores = asked.dimensions

(* What is sent fits, whatever the markers of a cut cost ("Fit the score   *)
(* prompt to the monitor model's input budget").                           *)
SentFits == Sent => Fits(content)

(* Before a generate, the newest INPUT message, the request being judged,  *)
(* is shown: "a step the model is not shown is never scored".              *)
NewestInputIsShown ==
  Sent /\ KeepsNewestInput => <<"input", Shown("input").n>> \in Range(Numbered(content))

(* A cite in the explanation is resolved to the message that had its       *)
(* number in the prompt that was sent, after the search tried other cuts.  *)
CitesNameWhatWasSent == ended.how = "scored" => ended.cites = Numbered(content)

(* The error names just the parts of the step that stay in the prompt when *)
(* all that can be cut is: those are what there is to shorten.             *)
FixedPartsAreNamed ==
  ended.how = "too_big" =>
    ended.parts = FixedBlocks \cup {b \in {"INPUT"} : Numbered(HeadCut(Cuttable)) # <<>>}

(* Somewhere between two head cuts, leaving out one message more made the  *)
(* prompt longer: a list's first message cost less than the line that says *)
(* it is left out.                                                         *)
Lengthens(k, j) == \E i \in k .. j - 1 : Count(HeadCut(i + 1)) > Count(HeadCut(i))

(* "the smallest head cut that fits, so the monitor keeps every message it *)
(* can" (_score.py:373): a step that fits is sent whole; of one that       *)
(* doesn't, the prompt with one message more would not have fitted, and    *)
(* with more still only where a marker was dearer than what it stands for, *)
(* which the binary search may step over.                                  *)
SmallestCutIsSent ==
  Sent =>
    IF Fits(Uncut) THEN content = Uncut
    ELSE \E j \in 1 .. Cuttable :
           /\ content = HeadCut(j) /\ ~Fits(HeadCut(j - 1))
           /\ \A k \in 1 .. j - 1 : Fits(HeadCut(k)) => Lengthens(k, j - 1)

(* A step is refused as too big only if it does not fit whole, nor with    *)
(* all cut that can be; and though another head cut of it fits, only where *)
(* a marker was dearer than what it stands for.                            *)
RefusesUnfit ==
  ended.how = "too_big" =>
    /\ ~Fits(Uncut) /\ ~Fits(HeadCut(Cuttable))
    /\ \A k \in 1 .. Cuttable : Fits(HeadCut(k)) => Lengthens(k, Cuttable)

(* "the fixed part alone, with every cuttable message cut: when even that  *)
(* does not fit, no head cut can" (_score.py:361): a step is refused only  *)
(* if no head cut of it would have fitted.  The markers of the lists that  *)
(* lost messages are in that prompt too, so this does not hold.            *)
RefusesOnlyUnfit ==
  ended.how = "too_big" => \A k \in 1 .. Cuttable : ~Fits(HeadCut(k))

(* "every call gets its error back, as a provider requires a result for    *)
(* each call": each reply sent back is followed by the results of its      *)
(* calls, all of them and in order, or by a reminder.                      *)
EachCallIsAnswered ==
  \A i \in DOMAIN messages :
    messages[i].from = "assistant" =>
      LET n == messages[i].call
      IN  IF n = 0 THEN i + 1 \in DOMAIN messages /\ messages[i + 1].from = "user"
          ELSE /\ i + n \in DOMAIN messages
               /\ \A c \in 1 .. n : messages[i + c] =
                    [from |-> "tool", attempt |-> messages[i].attempt, call |-> c]

(* The model gets three attempts however often its provider refused, a     *)
(* refusal ends the scoring only when asked again in vain, and the score   *)
(* is the first valid call there was.                                      *)
AttemptsAreTheModels ==
  /\ ended.how = "no_answer" => Cardinality({i \in DOMAIN outputs : ~Refused(outputs[i])}) = 3
  /\ ended.how = "refused" => Refusals = RetryRefusals + 1
FirstValidAnswers ==
  /\ ended.how = "scored" =>
       /\ CallsOf(Last(outputs))[ended.call] = "valid"
       /\ \A c \in 1 .. ended.call - 1 : CallsOf(Last(outputs))[c] # "valid"
  /\ \A i \in DOMAIN outputs :
       i < Len(outputs) /\ ~Refused(outputs[i]) => Valid(outputs[i]) = {}

(* A step that is scored ends, with a score or an error, as long as its    *)
(* host answers.                                                           *)
ScoreEnds == <>(at = "ended")
=============================================================================
