------------------------------ MODULE Handler -------------------------------
(***************************************************************************)
(* The sidecar's handler (sidecar/_handler.py) judging the exchanges of    *)
(* one run: a request is judged before the proxy sends it, its reply       *)
(* before the proxy passes it on.  Exchanges of a run share its state      *)
(* (sidecar/_state.py) and interleave at every await: at each judgment, at *)
(* each wait for another exchange's judgment, and where the code awaits    *)
(* inspect_ai's converters, any of which may suspend the task.             *)
(*                                                                         *)
(* The entries a client sends are known by their marks: two requests that  *)
(* share a mark sent the same entries up to it.                            *)
(***************************************************************************)
EXTENDS Integers, Sequences, FiniteSets, Functions

CONSTANTS
  Exchanges,         \* the requests of the run, each with its reply
  MarkIds, Digests, Attempts, Conversations,
  Named,             \* an eval names the run
  Marks,             \* [Exchanges -> Seq(MarkIds)]: the request's marks
  Results,           \* [Exchanges -> Seq(Digests)]: the tool results it holds
  Calls,             \* [Exchanges -> Nat]: the tool calls of its reply
  AttemptOf,         \* [Exchanges -> Attempts]: the sample attempt it is part of
  ConversationOf,    \* [Exchanges -> Conversations]: by attempt and by how it opens
  Holds,             \* [Exchanges -> SUBSET Exchanges]: rejected or edited turns
                     \*   the client itself sends back in the request
  Watched,           \* the stages the sentinel watches
  MaxRejections,     \* _MAX_CONSECUTIVE_REJECTIONS
  Nobody

Stages == {"AfterToolCall", "BeforeGenerate", "AfterGenerate", "BeforeToolCall"}

ASSUME HandlerAssumption ==
  /\ Nobody \notin Exchanges
  /\ Named \in BOOLEAN
  /\ Marks \in [Exchanges -> Seq(MarkIds)]
  /\ \A x \in Exchanges : Marks[x] # <<>>
  /\ Results \in [Exchanges -> Seq(Digests)]
  /\ Calls \in [Exchanges -> Nat]
  /\ AttemptOf \in [Exchanges -> Attempts]
  /\ ConversationOf \in [Exchanges -> Conversations]
  /\ Holds \in [Exchanges -> SUBSET Exchanges]
  /\ Watched \subseteq Stages
  /\ MaxRejections \in Nat \ {0}

(* An attempt's conversations are its own; a run no eval names has one.    *)
ASSUME ConversationsAreOfAttempts ==
  \A x, y \in Exchanges :
    /\ ConversationOf[x] = ConversationOf[y] => AttemptOf[x] = AttemptOf[y]
    /\ ~Named => ConversationOf[x] = ConversationOf[y]

(* Marks are digests of prefixes: a shared mark is a shared prefix.        *)
ASSUME MarksArePrefixes ==
  \A x, y \in Exchanges : \A k \in 1..Len(Marks[x]) : \A l \in 1..Len(Marks[y]) :
    Marks[x][k] = Marks[y][l] =>
      k = l /\ \A m \in 1..k : Marks[x][m] = Marks[y][m]

VARIABLES
  \* Run and its conversation
  refusal,     \* Run.refusal is set
  endedAt,     \* Run.ended_at: the marks the run was ended at
  answered,    \* Run.answered: marks of the requests whose replies passed
  inARow,      \* Run.in_a_row
  judged,      \* Conversation.judged, of each: pairs with its digests
  points,      \* Conversation.rejected, of each: [conv, mark, turns, added]
  edited,      \* Conversation.edited: the exchanges whose turn was edited
  judging,     \* Handler._judging: who is judging each key
  \* each exchange
  pc, idx,     \* where it stands, and at which result or call
  told,        \* the rejected turns added to its request
  continues,   \* Held.answered
  rejected,    \* its calls rejected so far
  modified,    \* its calls modified so far
  count,       \* in_a_row + 1, as read before the converters are awaited
  ended,       \* Exchange.ended: the client was refused as the run ended
  attempt,     \* Attempt.state, with the outcome or the reason
  answer,      \* what the proxy was told of the request
  reply,       \* what the proxy was told of the reply
  \* history
  streak,      \* per attempt: turns refused whole since one went on, or the
               \*   run ended; those being refused at once count as one
  shown        \* per key: how often the sentinel let the result go on

runVars == <<refusal, endedAt, answered, inARow, judged, points, edited, judging>>
xVars   == <<pc, idx, told, continues, rejected, modified, count, ended, attempt,
             answer, reply>>
vars    == <<runVars, xVars, streak, shown>>

Mark(x)  == Marks[x][Len(Marks[x])]
Keys     == Conversations \X Digests

(* _ended: a request of the run is refused from now on.                    *)
Ended(x) == refusal \/ Range(Marks[x]) \cap endedAt # {}
-----------------------------------------------------------------------------
(* Every end of a run no eval names is remembered.                         *)
RemembersAnyEnd(x) == ~Named

(* A run no eval names is remembered as ended only where its conversation  *)
(* holds a turn that was passed on.                                        *)
RemembersEnd(x) == ~Named /\ continues[x]

(* _end: the run ends at this exchange.                                    *)
EndRun(x) ==
  /\ inARow' = [a \in Attempts |-> 0]
  /\ refusal' = (refusal \/ Named)
  /\ endedAt' = IF RemembersEnd(x) THEN endedAt \cup {Mark(x)} ELSE endedAt
  /\ points' = IF Named THEN {}
               ELSE {[p EXCEPT !.added = @ /\ p.mark # Mark(x)] : p \in points}
  /\ edited' = IF Named THEN {} ELSE edited
  /\ streak' = [a \in Attempts |-> 0]
  /\ UNCHANGED answered

KeepRun == UNCHANGED <<inARow, refusal, endedAt, points, edited, answered, streak>>

(* The request is answered without going on.                               *)
RequestOver(x, told_, state) ==
  /\ answer' = [answer EXCEPT ![x] = told_]
  /\ attempt' = [attempt EXCEPT ![x] = state]
  /\ pc' = [pc EXCEPT ![x] = "done"]
  /\ UNCHANGED <<reply, ended>>

(* The reply is answered.                                                  *)
ReplyOver(x, told_, state) ==
  /\ reply' = [reply EXCEPT ![x] = told_]
  /\ attempt' = [attempt EXCEPT ![x] = state]
  /\ pc' = [pc EXCEPT ![x] = "done"]
  /\ UNCHANGED answer

(* The reply is refused: an eval is told of a terminate if the run ended.  *)
RefuseReply(x, over) ==
  /\ ended' = [ended EXCEPT ![x] = over]
  /\ ReplyOver(x, "refuse", IF over THEN "terminate" ELSE "reject")

AnswerReply(x, told_, state) == ReplyOver(x, told_, state) /\ UNCHANGED ended

Goto(x, label) == /\ pc' = [pc EXCEPT ![x] = label]
                  /\ UNCHANGED <<attempt, answer, reply, ended>>
-----------------------------------------------------------------------------
Init ==
  /\ refusal = FALSE /\ endedAt = {} /\ answered = {}
  /\ inARow = [a \in Attempts |-> 0]
  /\ judged = {} /\ points = {} /\ edited = {}
  /\ judging = [k \in Keys |-> Nobody]
  /\ pc = [x \in Exchanges |-> "idle"]
  /\ idx = [x \in Exchanges |-> 1]
  /\ told = [x \in Exchanges |-> {}]
  /\ continues = [x \in Exchanges |-> FALSE]
  /\ rejected = [x \in Exchanges |-> {}]
  /\ modified = [x \in Exchanges |-> {}]
  /\ count = [x \in Exchanges |-> 0]
  /\ ended = [x \in Exchanges |-> FALSE]
  /\ attempt = [x \in Exchanges |-> "none"]
  /\ answer = [x \in Exchanges |-> "none"]
  /\ reply = [x \in Exchanges |-> "none"]
  /\ streak = [a \in Attempts |-> 0]
  /\ shown = [k \in Keys |-> 0]

(* A request arrives.  A client holds only turns it was handed.  One of an *)
(* ended run is refused, and one whose x-inspect-context can't be read.    *)
Request(x) ==
  /\ pc[x] = "idle"
  /\ \A y \in Holds[x] : pc[y] = "done"
  /\ \/ RequestOver(x, "refuse", "unreadable")
     \/ Ended(x) /\ RequestOver(x, "refuse", "terminate")
     \/ /\ ~Ended(x)
        /\ pc' = [pc EXCEPT ![x] = "reading"]
        /\ attempt' = [attempt EXCEPT ![x] = "judging"]
        /\ UNCHANGED <<answer, reply, ended>>
  /\ UNCHANGED <<runVars, idx, told, continues, rejected, modified, count,
                 streak, shown>>

(* A request is never checked for the calls of edited turns.               *)
EditNeverLost(x) == FALSE

(* A request holds a call of an edited turn that isn't where the turn was. *)
EditLost(x) ==
  \E y \in edited :
    /\ y \in Holds[x]
    /\ ~(ConversationOf[y] = ConversationOf[x] /\ Mark(y) \in Range(Marks[x]))

(* Attempts that open alike are not told apart.                            *)
ContinuedAnyAttempt(x) == {p \in points : p.mark \in Range(Marks[x])}

(* Only a request sent again as it was continues from a point.             *)
ContinuedUnchanged(x) == {p \in points : p.conv = ConversationOf[x] /\ p.mark = Mark(x)}

(* The points the request continues from.                                  *)
Continued(x) == {p \in points : p.conv = ConversationOf[x] /\ p.mark \in Range(Marks[x])}

(* The request is read: the turns rejected where it continues from, that   *)
(* the client didn't put back, are added to it.                            *)
ReadRequest(x) ==
  /\ pc[x] = "reading"
  /\ \/ /\ \E reason \in {"unreadable", "unregistered"} : RequestOver(x, "error", reason)
        /\ UNCHANGED told
     \/ /\ ~EditLost(x)
        /\ told' = [told EXCEPT ![x] =
                      (UNION {p.turns : p \in {q \in Continued(x) : q.added}}) \ Holds[x]]
        /\ Goto(x, "amending")
  /\ UNCHANGED <<runVars, idx, continues, rejected, modified, count, streak, shown>>

(* The request as amended is written; what its reply needs is kept.        *)
AmendRequest(x) ==
  /\ pc[x] = "amending"
  /\ \/ RequestOver(x, "error", "unreadable") /\ UNCHANGED continues
     \/ /\ continues' = [continues EXCEPT ![x] =
             \E k \in 1..(Len(Marks[x]) - 1) : Marks[x][k] \in answered]
        /\ Goto(x, "results")
  /\ UNCHANGED <<runVars, idx, told, rejected, modified, count, streak, shown>>
-----------------------------------------------------------------------------
Key(x) == <<ConversationOf[x], Results[x][idx[x]]>>

(* The result at hand: skipped if judged before, else put to the sentinel. *)
TakeResult(x) ==
  /\ IF Key(x) \in judged
     THEN /\ idx' = [idx EXCEPT ![x] = @ + 1]
          /\ Goto(x, "results")
          /\ UNCHANGED judging
     ELSE /\ judging' = [judging EXCEPT ![Key(x)] = x]
          /\ Goto(x, "judgingResult")
          /\ UNCHANGED idx
  /\ UNCHANGED <<refusal, endedAt, answered, inARow, judged, points, edited, told,
                 continues, rejected, modified, count, streak, shown>>

(* A result another exchange is judging is judged beside it.               *)
NextResultBeside(x) ==
  /\ pc[x] = "results"
  /\ "AfterToolCall" \in Watched
  /\ idx[x] <= Len(Results[x])
  /\ TakeResult(x)

(* The next result, waiting if another exchange is judging it.  A result   *)
(* whose call can't be told among the request's is not guessed at.         *)
NextResult(x) ==
  /\ pc[x] = "results"
  /\ "AfterToolCall" \in Watched
  /\ idx[x] <= Len(Results[x])
  /\ \/ judging[Key(x)] = Nobody /\ TakeResult(x)
     \/ /\ \/ judging[Key(x)] # Nobody /\ Goto(x, "waiting")
           \/ RequestOver(x, "error", "unreadable")
        /\ UNCHANGED <<runVars, idx, told, continues, rejected, modified, count,
                       streak, shown>>

(* A result waited for is taken as judged, however its judging ended.      *)
WakeAsJudged(x) ==
  /\ pc[x] = "waiting"
  /\ judging[Key(x)] = Nobody
  /\ IF Ended(x)
     THEN RequestOver(x, "refuse", "terminate") /\ UNCHANGED idx
     ELSE Goto(x, "results") /\ idx' = [idx EXCEPT ![x] = @ + 1]
  /\ UNCHANGED <<runVars, told, continues, rejected, modified, count, streak, shown>>

(* The judgment waited for is over; it may have ended the run.             *)
Wake(x) ==
  /\ pc[x] = "waiting"
  /\ judging[Key(x)] = Nobody
  /\ \/ ~Ended(x) /\ TakeResult(x)
     \/ /\ Ended(x)
        /\ RequestOver(x, "refuse", "terminate")
        /\ UNCHANGED <<runVars, idx, told, continues, rejected, modified, count,
                       streak, shown>>

(* A judgment that failed is never let go of.                              *)
KeptJudging(x) == judging

(* What is left being judged once x lets go, as its finally clause does.   *)
LetGo(x) == [k \in Keys |-> IF judging[k] = x THEN Nobody ELSE judging[k]]

(* The sentinel let the result go on, or ended the run at it.              *)
ResultJudged(x) ==
  /\ pc[x] = "judgingResult"
  /\ judging' = LetGo(x)
  /\ \/ /\ judged' = judged \cup {Key(x)}
        /\ shown' = [shown EXCEPT ![Key(x)] = @ + 1]
        /\ idx' = [idx EXCEPT ![x] = @ + 1]
        /\ Goto(x, "results")
        /\ KeepRun
     \/ /\ EndRun(x)
        /\ RequestOver(x, "refuse", "terminate")
        /\ UNCHANGED <<judged, shown, idx>>
  /\ UNCHANGED <<told, continues, rejected, modified, count>>

(* Every result was let go on.                                             *)
ResultsDone(x) ==
  /\ pc[x] = "results"
  /\ "AfterToolCall" \notin Watched \/ idx[x] > Len(Results[x])
  /\ Goto(x, "before")
  /\ UNCHANGED <<runVars, idx, told, continues, rejected, modified, count, streak,
                 shown>>

(* The request is judged before the model is called, and goes on unless    *)
(* the run has ended, at this judgment or meanwhile at another's.          *)
BeforeGenerate(x) ==
  /\ pc[x] = "before"
  /\ \/ /\ "BeforeGenerate" \in Watched
        /\ EndRun(x)
        /\ RequestOver(x, "refuse", "terminate")
     \/ Ended(x) /\ RequestOver(x, "refuse", "terminate") /\ KeepRun
     \/ /\ ~Ended(x)
        /\ pc' = [pc EXCEPT ![x] = "held"]
        /\ attempt' = [attempt EXCEPT ![x] = "awaiting_reply"]
        /\ answer' = [answer EXCEPT ![x] = "goes_on"]
        /\ KeepRun
        /\ UNCHANGED <<reply, ended>>
  /\ UNCHANGED <<judged, judging, idx, told, continues, rejected, modified, count,
                 shown>>

(* The sentinel raised, or time ran out, while the request was judged: a   *)
(* judgment of a result is let go of, so another exchange can take it.     *)
RequestNotJudged(x) ==
  /\ \/ /\ pc[x] = "judgingResult" \/ (pc[x] = "before" /\ "BeforeGenerate" \in Watched)
        /\ RequestOver(x, "error", "error")
     \/ /\ \/ pc[x] \in {"reading", "amending", "waiting", "judgingResult"}
           \/ pc[x] = "before" /\ "BeforeGenerate" \in Watched
        /\ RequestOver(x, "error", "time_limit")
  /\ judging' = LetGo(x)
  /\ KeepRun
  /\ UNCHANGED <<judged, idx, told, continues, rejected, modified, count, shown>>
-----------------------------------------------------------------------------
(* The reply arrives, or a provider's error, or the proxy gives up on it.  *)
Reply(x) ==
  /\ pc[x] = "held"
  /\ \/ /\ pc' = [pc EXCEPT ![x] = "reply"]
        /\ attempt' = [attempt EXCEPT ![x] = "judging"]
        /\ UNCHANGED <<answer, reply, ended>>
     \/ AnswerReply(x, "goes_on", "provider_error")
     \/ AnswerReply(x, "cut_off", "cut_off")
  /\ UNCHANGED <<runVars, idx, told, continues, rejected, modified, count, streak,
                 shown>>

(* The reply is read; the run may have ended while the model answered.     *)
ReadReply(x) ==
  /\ pc[x] = "reply"
  /\ \/ AnswerReply(x, "error", "unreadable") /\ UNCHANGED idx
     \/ Ended(x) /\ RefuseReply(x, TRUE) /\ UNCHANGED idx
     \/ /\ ~Ended(x)
        /\ idx' = [idx EXCEPT ![x] = 1]
        /\ Goto(x, "after")
  /\ UNCHANGED <<runVars, told, continues, rejected, modified, count, streak, shown>>

(* The reply as a whole is judged.                                         *)
AfterGenerate(x) ==
  /\ pc[x] = "after"
  /\ \/ /\ "AfterGenerate" \in Watched
        /\ EndRun(x)
        /\ RefuseReply(x, TRUE)
     \/ Goto(x, "calls") /\ KeepRun
  /\ UNCHANGED <<judged, judging, idx, told, continues, rejected, modified, count,
                 shown>>

JudgesCalls(x) == "BeforeToolCall" \in Watched /\ idx[x] <= Calls[x]

(* A call of the reply is judged.                                          *)
JudgeCall(x) ==
  /\ pc[x] = "calls"
  /\ JudgesCalls(x)
  /\ \/ /\ EndRun(x)
        /\ RefuseReply(x, TRUE)
        /\ UNCHANGED <<rejected, modified, idx>>
     \/ /\ \/ UNCHANGED <<rejected, modified>>
           \/ /\ rejected' = [rejected EXCEPT ![x] = @ \cup {idx[x]}]
              /\ UNCHANGED modified
           \/ /\ modified' = [modified EXCEPT ![x] = @ \cup {idx[x]}]
              /\ UNCHANGED rejected
        /\ idx' = [idx EXCEPT ![x] = @ + 1]
        /\ Goto(x, "calls")
        /\ KeepRun
  /\ UNCHANGED <<judged, judging, told, continues, count, shown>>

(* _passed: the turn, or what is left of it, goes on to the client.        *)
Passed(x, edits) ==
  /\ inARow' = [inARow EXCEPT ![AttemptOf[x]] = 0]
  /\ answered' = IF Named THEN answered ELSE answered \cup {Mark(x)}
  /\ edited' = IF edits THEN edited \cup {x} ELSE edited
  /\ streak' = [streak EXCEPT ![AttemptOf[x]] = 0]
  /\ AnswerReply(x, "goes_on", "proceed")
  /\ UNCHANGED <<refusal, endedAt, points>>

(* Turns of the attempt whose rejections are being written                 *)
Rejecting(x) == {y \in Exchanges \ {x} : pc[y] = "rejecting" /\ AttemptOf[y] = AttemptOf[x]}

(* _reject, once the rejections are written, which may fail: the turn is   *)
(* refused whole and kept where it happened, with those already there.     *)
Rejects(x, n) ==
  LET open == {p \in points : /\ p.conv = ConversationOf[x]
                              /\ p.mark = Mark(x) /\ p.added}
  IN  \/ /\ inARow' = [inARow EXCEPT ![AttemptOf[x]] = n]
         /\ streak' = [streak EXCEPT ![AttemptOf[x]] = IF Rejecting(x) = {} THEN @ + 1 ELSE @]
         /\ points' = (points \ open) \cup
              {[conv  |-> ConversationOf[x], mark |-> Mark(x), added |-> TRUE,
                turns |-> {x} \cup UNION {p.turns : p \in open}]}
         /\ RefuseReply(x, FALSE)
         /\ UNCHANGED <<refusal, endedAt, answered, edited>>
      \/ AnswerReply(x, "error", "unreadable") /\ KeepRun

(* The turn at hand is not counted.                                        *)
CountWithoutThis(x) == inARow[AttemptOf[x]]

(* The turn at hand is counted down.                                       *)
CountDown(x) == inARow[AttemptOf[x]] - 1

(* How many turns in a row this one makes.                                 *)
NextCount(x) == inARow[AttemptOf[x]] + 1

(* _reject: the last turn it takes in a row ends the run; for an earlier   *)
(* one the count is read, and then the converters are awaited.             *)
BeginReject(x) ==
  IF NextCount(x) >= MaxRejections
  THEN EndRun(x) /\ RefuseReply(x, TRUE) /\ UNCHANGED count
  ELSE /\ count' = [count EXCEPT ![x] = NextCount(x)]
       /\ Goto(x, "rejecting")
       /\ KeepRun

(* _edit: the rejected calls are taken out and the modified ones changed.  *)
(* A turn that can't be edited is refused whole if a call was rejected.    *)
Edit(x) ==
  \/ Passed(x, TRUE) /\ UNCHANGED count
  \/ rejected[x] # {} /\ BeginReject(x)
  \/ /\ rejected[x] = {}
     /\ AnswerReply(x, "error", "error")
     /\ KeepRun /\ UNCHANGED count

(* What happened meanwhile is not looked at.                               *)
NothingMeanwhile(x) == FALSE

(* _ended_meanwhile: another exchange ended the run while this one waited. *)
EndedMeanwhile(x) == Ended(x)

(* Every call is judged: the turn goes on, is refused or is edited.        *)
ConcludeReply(x) ==
  /\ pc[x] = "calls"
  /\ ~JudgesCalls(x)
  /\ \/ /\ EndedMeanwhile(x)
        /\ RefuseReply(x, TRUE)
        /\ KeepRun /\ UNCHANGED count
     \/ /\ ~EndedMeanwhile(x)
        /\ rejected[x] \cup modified[x] = {}
        /\ Passed(x, FALSE) /\ UNCHANGED count
     \/ /\ ~EndedMeanwhile(x)
        /\ rejected[x] # {} /\ rejected[x] = 1..Calls[x]
        /\ BeginReject(x)
     \/ /\ ~EndedMeanwhile(x)
        /\ rejected[x] \cup modified[x] # {} /\ rejected[x] # 1..Calls[x]
        /\ Goto(x, "editing") /\ KeepRun /\ UNCHANGED count
  /\ UNCHANGED <<judged, judging, idx, told, continues, rejected, modified, shown>>

(* The converters a rejection or an edit awaited are done.                 *)
Resume(x) ==
  /\ \/ pc[x] = "rejecting" /\ Rejects(x, count[x]) /\ UNCHANGED count
     \/ pc[x] = "editing" /\ Edit(x)
  /\ UNCHANGED <<judged, judging, idx, told, continues, rejected, modified, shown>>

(* The sentinel raised, or time ran out, while the reply was judged.       *)
ReplyNotJudged(x) ==
  /\ LET judges == \/ pc[x] = "after" /\ "AfterGenerate" \in Watched
                   \/ pc[x] = "calls" /\ JudgesCalls(x)
     IN  \/ judges /\ AnswerReply(x, "error", "error")
         \/ /\ judges \/ pc[x] \in {"reply", "rejecting", "editing"}
            /\ AnswerReply(x, "error", "time_limit")
  /\ UNCHANGED <<runVars, idx, told, continues, rejected, modified, count, streak,
                 shown>>

(* The eval ends the sample once it has scored it.                         *)
EndSample ==
  /\ Named
  /\ \E x \in Exchanges : pc[x] # "idle" /\ <<answer[x], attempt[x]>> # <<"refuse", "unreadable">>
  /\ ~refusal
  /\ refusal' = TRUE
  /\ UNCHANGED <<endedAt, answered, inARow, judged, points, edited, judging, xVars,
                 streak, shown>>

RequestStep(x) == \/ ReadRequest(x) \/ AmendRequest(x) \/ NextResult(x) \/ Wake(x)
                  \/ ResultJudged(x) \/ ResultsDone(x) \/ BeforeGenerate(x)

ReplyStep(x) == \/ ReadReply(x) \/ AfterGenerate(x) \/ JudgeCall(x)
                \/ ConcludeReply(x) \/ Resume(x)

Next == \/ \E x \in Exchanges :
             \/ Request(x) \/ RequestStep(x) \/ RequestNotJudged(x)
             \/ Reply(x) \/ ReplyStep(x) \/ ReplyNotJudged(x)
        \/ EndSample

Spec == Init /\ [][Next]_vars

(* The event loop runs every ready task and every judgment ends.  Nothing  *)
(* makes a client send, a model reply, a time limit pass or an eval end.   *)
FairSpec == /\ Spec
            /\ \A x \in Exchanges : WF_vars(RequestStep(x) \/ ReplyStep(x))
-----------------------------------------------------------------------------
Labels == {"idle", "reading", "amending", "results", "waiting", "judgingResult",
           "before", "held", "reply", "after", "calls", "rejecting", "editing",
           "done"}

(* Every variable has a value of its type.                                 *)
TypeOK ==
  /\ refusal \in BOOLEAN
  /\ endedAt \subseteq MarkIds /\ answered \subseteq MarkIds
  /\ inARow \in [Attempts -> Nat]
  /\ judged \subseteq Keys
  /\ points \subseteq [conv : Conversations, mark : MarkIds, turns : SUBSET Exchanges, added : BOOLEAN]
  /\ edited \subseteq Exchanges
  /\ judging \in [Keys -> Exchanges \cup {Nobody}]
  /\ pc \in [Exchanges -> Labels]
  /\ idx \in [Exchanges -> Nat \ {0}]
  /\ told \in [Exchanges -> SUBSET Exchanges]
  /\ continues \in [Exchanges -> BOOLEAN]
  /\ rejected \in [Exchanges -> SUBSET Nat]
  /\ modified \in [Exchanges -> SUBSET Nat]
  /\ count \in [Exchanges -> Nat]
  /\ ended \in [Exchanges -> BOOLEAN]
  /\ attempt \in [Exchanges -> {"none", "judging", "awaiting_reply", "proceed",
       "reject", "terminate", "unreadable", "unregistered", "error",
       "time_limit", "provider_error", "cut_off"}]
  /\ answer \in [Exchanges -> {"none", "goes_on", "refuse", "error"}]
  /\ reply \in [Exchanges -> {"none", "goes_on", "refuse", "error", "cut_off"}]
  /\ streak \in [Attempts -> Nat]
  /\ shown \in [Keys -> Nat]

RunEnded(x) == refusal \/ \E k \in 1..Len(Marks[x]) : Marks[x][k] \in endedAt

(* Once the run has ended, by any of its exchanges or by the eval, no      *)
(* request of it is sent to the model and no reply of the model is passed  *)
(* on to the client, however far its judging had come: but for a turn that *)
(* was judged to its end before, whose edit was being written then.        *)
EndedRunGoesNoFurther ==
  [][\A x \in Exchanges : RunEnded(x) =>
       /\ answer'[x] = "goes_on" => answer[x] = "goes_on"
       /\ pc'[x] = "editing" => pc[x] = "editing"
       /\ attempt'[x] = "proceed" => attempt[x] = "proceed" \/ pc[x] = "editing"]_vars

(* A request goes on to the model only with tool results the sentinel was  *)
(* shown and let go on, whichever exchange it was that showed them and     *)
(* however that exchange's judging ended.                                  *)
NoUnjudgedResultGoesOn ==
  "AfterToolCall" \in Watched =>
    \A x \in Exchanges : answer[x] = "goes_on" =>
      \A d \in Range(Results[x]) : <<ConversationOf[x], d>> \in judged

(* A result is let go on once, and by one exchange at a time, however many *)
(* requests hold it.                                                       *)
ResultShownOnce ==
  /\ \A k \in Keys : shown[k] <= 1
  /\ \A x, y \in Exchanges :
       /\ pc[x] = "judgingResult" /\ pc[y] = "judgingResult"
       /\ Key(x) = Key(y)
       => x = y

(* The third turn refused whole in a row within an attempt ends the run:   *)
(* no attempt has as many refused turns in a row while its run goes on,    *)
(* however its exchanges interleave.  Turns whose rejections are written   *)
(* at once are told apart by nothing, and make one (_reject).              *)
ThirdRejectionEndsRun == \A a \in Attempts : streak[a] < MaxRejections

(* "Three turns in a row in which every call was rejected end the run"     *)
(* (design/sidecar.md:248): no attempt has as many turns refused whole     *)
(* where none of it went on and its run did not end between.               *)
ThreeRejectedTurnsEndRun ==
  \A a \in Attempts :
    LET of == {x \in Exchanges : AttemptOf[x] = a}
    IN  \/ \E x \in Exchanges : attempt[x] = "terminate"
        \/ \E x \in of : attempt[x] = "proceed"
        \/ Cardinality({x \in of : attempt[x] = "reject"}) < MaxRejections

(* A request is read with every turn rejected earlier where it continues   *)
(* from, in its conversation, that the client didn't put back itself and   *)
(* no end of the run stopped from being told; and with no other turn.      *)
RejectedTurnIsTold ==
  [][\A x, y \in Exchanges :
       pc[x] = "reading" /\ pc'[x] = "amending" =>
         LET told_of == /\ attempt[y] = "reject" /\ y \notin Holds[x]
                        /\ ConversationOf[y] = ConversationOf[x]
                        /\ Mark(y) \in Range(Marks[x])
             stopped == IF Named THEN refusal
                        ELSE \E z \in Exchanges :
                               Mark(z) = Mark(y) /\ attempt[z] = "terminate"
         IN  /\ told_of /\ ~stopped => y \in told'[x]
             /\ y \in told'[x] => told_of]_vars

(* In a run no eval names, a conversation is refused for another's end     *)
(* only if it continues from a turn that was passed on: one that only      *)
(* opens alike goes on.                                                    *)
FreshConversationGoesOn ==
  ~Named => \A x \in Exchanges : RunEnded(x) =>
    \E k \in 1..(Len(Marks[x]) - 1) : Marks[x][k] \in answered

(* A request that holds a turn whose calls this sidecar changed goes on    *)
(* only if the change can be put back where the turn was made.             *)
EditedTurnIsMatched ==
  \A x \in Exchanges : answer[x] = "goes_on" =>
    \A y \in edited \cap Holds[x] :
      ConversationOf[y] = ConversationOf[x] /\ Mark(y) \in Range(Marks[x])

(* Every request and every reply handed over is answered: no exchange      *)
(* waits for ever on a judgment another exchange gave up.                  *)
EveryExchangeIsAnswered ==
  \A x \in Exchanges : pc[x] \in {"reading", "reply"} ~> pc[x] \in {"held", "done"}
=============================================================================
