---------------------------- MODULE SidecarProofs ---------------------------
(***************************************************************************)
(* Theorems about the sidecar: its handler, for any number of exchanges,   *)
(* marks, results, calls and attempts, and the stream a reply goes out as. *)
(***************************************************************************)
EXTENDS Handler, ReplyStream, SequenceTheorems, WellFoundedInduction, TLAPS

Point == [conv : Conversations, mark : MarkIds, turns : SUBSET Exchanges,
          added : BOOLEAN]
Told     == {"none", "goes_on", "refuse", "error"}
ToldBack == Told \cup {"cut_off"}
States   == {"none", "judging", "awaiting_reply", "proceed", "reject", "terminate",
             "unreadable", "unregistered", "error", "time_limit", "provider_error",
             "cut_off"}

(* The type invariant, by the parts the actions change together.           *)
RunOK ==
  /\ refusal \in BOOLEAN
  /\ endedAt \subseteq MarkIds /\ answered \subseteq MarkIds
  /\ inARow \in [Attempts -> Nat]
  /\ points \subseteq Point
  /\ edited \subseteq Exchanges
  /\ streak \in [Attempts -> Nat]

AnswerOK ==
  /\ pc \in [Exchanges -> Labels]
  /\ ended \in [Exchanges -> BOOLEAN]
  /\ attempt \in [Exchanges -> States]
  /\ answer \in [Exchanges -> Told]
  /\ reply \in [Exchanges -> ToldBack]

ResultOK ==
  /\ judged \subseteq Keys
  /\ judging \in [Keys -> Exchanges \cup {Nobody}]
  /\ shown \in [Keys -> Nat]
  /\ idx \in [Exchanges -> Nat \ {0}]

TurnOK ==
  /\ told \in [Exchanges -> SUBSET Exchanges]
  /\ continues \in [Exchanges -> BOOLEAN]
  /\ rejected \in [Exchanges -> SUBSET Nat]
  /\ modified \in [Exchanges -> SUBSET Nat]
  /\ count \in [Exchanges -> Nat]

(* The type invariant is the conjunction of its parts.                     *)
LEMMA TypeParts == TypeOK <=> RunOK /\ AnswerOK /\ ResultOK /\ TurnOK
BY DEF TypeOK, RunOK, AnswerOK, ResultOK, TurnOK, Point, Told, ToldBack, States

LEMMA TypePartsNext == TypeOK' <=> RunOK' /\ AnswerOK' /\ ResultOK' /\ TurnOK'
BY DEF TypeOK, RunOK, AnswerOK, ResultOK, TurnOK, Point, Told, ToldBack, States

(* A request's last mark is a mark, as every request has one.              *)
LEMMA MarkType == \A x \in Exchanges : Mark(x) \in MarkIds
BY HandlerAssumption DEF Mark

(* Ending a run, or leaving it as it is, keeps its types.                  *)
LEMMA EndRunType == ASSUME RunOK, NEW x \in Exchanges, EndRun(x) PROVE RunOK'
<1>1. refusal' \in BOOLEAN /\ edited' \subseteq Exchanges /\ answered' \subseteq MarkIds
  BY HandlerAssumption DEF RunOK, EndRun
<1>2. endedAt' \subseteq MarkIds
  BY MarkType DEF RunOK, EndRun
<1>3. inARow' \in [Attempts -> Nat] /\ streak' \in [Attempts -> Nat]
  BY DEF EndRun
<1>4. points' \subseteq Point
  BY DEF RunOK, EndRun, Point
<1> QED BY <1>1, <1>2, <1>3, <1>4 DEF RunOK

LEMMA KeepRunType == ASSUME RunOK, KeepRun PROVE RunOK'
BY DEF RunOK, KeepRun

(* Answering an exchange, or moving it on, keeps its types.                *)
LEMMA AnswerType ==
  ASSUME AnswerOK, NEW x \in Exchanges
  PROVE  /\ \A t \in Told, s \in States : RequestOver(x, t, s) => AnswerOK'
         /\ \A t \in ToldBack, s \in States : AnswerReply(x, t, s) => AnswerOK'
         /\ \A b \in BOOLEAN : RefuseReply(x, b) => AnswerOK'
         /\ \A l \in Labels : Goto(x, l) => AnswerOK'
<1>1. ASSUME NEW t \in Told, NEW s \in States, RequestOver(x, t, s) PROVE AnswerOK'
  BY <1>1 DEF AnswerOK, RequestOver, Labels
<1>2. ASSUME NEW t \in ToldBack, NEW s \in States, AnswerReply(x, t, s) PROVE AnswerOK'
  BY <1>2 DEF AnswerOK, AnswerReply, ReplyOver, Labels
<1>3. ASSUME NEW b \in BOOLEAN, RefuseReply(x, b) PROVE AnswerOK'
  <2>1. ended' \in [Exchanges -> BOOLEAN]
    BY <1>3, Zenon DEF AnswerOK, RefuseReply
  <2>2. attempt' \in [Exchanges -> States]
    BY <1>3 DEF AnswerOK, RefuseReply, ReplyOver, States
  <2> QED BY <1>3, <2>1, <2>2 DEF AnswerOK, RefuseReply, ReplyOver, Labels, Told, ToldBack
<1>4. ASSUME NEW l \in Labels, Goto(x, l) PROVE AnswerOK'
  BY <1>4 DEF AnswerOK, Goto
<1> QED BY <1>1, <1>2, <1>3, <1>4

(* So do the ways a judged turn is concluded.                              *)
LEMMA PassedType ==
  ASSUME RunOK, AnswerOK, NEW x \in Exchanges, NEW b, Passed(x, b)
  PROVE  RunOK' /\ AnswerOK'
<1>1. AnswerReply(x, "goes_on", "proceed")
  BY DEF Passed
<1>2. AnswerOK'
  BY <1>1, AnswerType DEF Told, ToldBack, States
<1>3. RunOK'
  BY MarkType DEF RunOK, Passed
<1> QED BY <1>2, <1>3

LEMMA RejectsType ==
  ASSUME RunOK, AnswerOK, NEW x \in Exchanges, NEW n \in Nat, Rejects(x, n)
  PROVE  RunOK' /\ AnswerOK'
<1>1. CASE AnswerReply(x, "error", "unreadable") /\ KeepRun
  BY <1>1, AnswerType, KeepRunType DEF Told, ToldBack, States
<1>2. CASE ~(AnswerReply(x, "error", "unreadable") /\ KeepRun)
  <2> DEFINE open == {p \in points : /\ p.conv = ConversationOf[x]
                                     /\ p.mark = Mark(x) /\ p.added}
             turns == {x} \cup UNION {p.turns : p \in open}
  <2>1. /\ inARow' = [inARow EXCEPT ![AttemptOf[x]] = n]
        /\ streak' = [streak EXCEPT ![AttemptOf[x]] = IF Rejecting(x) = {} THEN @ + 1 ELSE @]
        /\ points' = (points \ open) \cup
             {[conv |-> ConversationOf[x], mark |-> Mark(x), added |-> TRUE,
               turns |-> turns]}
        /\ RefuseReply(x, FALSE)
        /\ UNCHANGED <<refusal, endedAt, answered, edited>>
    BY <1>2 DEF Rejects
  <2>2. turns \subseteq Exchanges
    BY DEF RunOK, Point
  <2>3. points' \subseteq Point
    <3>1. [conv |-> ConversationOf[x], mark |-> Mark(x), added |-> TRUE,
           turns |-> turns] \in Point
      BY <2>2, MarkType, HandlerAssumption DEF Point
    <3> QED BY <2>1, <3>1 DEF RunOK
  <2>4. AnswerOK'
    BY <2>1, AnswerType
  <2>5. inARow' \in [Attempts -> Nat] /\ streak' \in [Attempts -> Nat]
    BY <2>1, HandlerAssumption DEF RunOK
  <2> QED BY <2>1, <2>3, <2>4, <2>5 DEF RunOK
<1> QED BY <1>1, <1>2

LEMMA NextCountType ==
  ASSUME RunOK, NEW x \in Exchanges PROVE NextCount(x) \in Nat
BY HandlerAssumption DEF RunOK, NextCount

LEMMA BeginRejectType ==
  ASSUME RunOK, AnswerOK, count \in [Exchanges -> Nat], NEW x \in Exchanges,
         BeginReject(x)
  PROVE  RunOK' /\ AnswerOK' /\ count' \in [Exchanges -> Nat]
<1>1. CASE EndRun(x) /\ RefuseReply(x, TRUE) /\ UNCHANGED count
  BY <1>1, EndRunType, AnswerType
<1>2. CASE /\ count' = [count EXCEPT ![x] = NextCount(x)]
           /\ Goto(x, "rejecting")
           /\ KeepRun
  BY <1>2, KeepRunType, AnswerType, NextCountType DEF Labels
<1> QED BY <1>1, <1>2 DEF BeginReject

LEMMA EditType ==
  ASSUME RunOK, AnswerOK, count \in [Exchanges -> Nat], NEW x \in Exchanges, Edit(x)
  PROVE  RunOK' /\ AnswerOK' /\ count' \in [Exchanges -> Nat]
<1>1. CASE Passed(x, TRUE) /\ UNCHANGED count
  BY <1>1, PassedType
<1>2. CASE BeginReject(x)
  BY <1>2, BeginRejectType
<1>3. CASE AnswerReply(x, "error", "error") /\ KeepRun /\ UNCHANGED count
  BY <1>3, KeepRunType, AnswerType DEF Told, ToldBack, States
<1> QED BY <1>1, <1>2, <1>3 DEF Edit

(* Every action keeps the types; one step per action.                      *)
LEMMA KeyType ==
  ASSUME ResultOK, NEW x \in Exchanges, idx[x] <= Len(Results[x])
  PROVE  Key(x) \in Keys
BY HandlerAssumption DEF ResultOK, Key, Keys

LEMMA TypeInit == Init => TypeOK
<1> SUFFICES ASSUME Init PROVE TypeOK
  OBVIOUS
<1>1. RunOK
  BY DEF Init, RunOK
<1>2. ended \in [Exchanges -> BOOLEAN] /\ continues \in [Exchanges -> BOOLEAN]
  BY Zenon DEF Init
<1>3. AnswerOK
  BY <1>2 DEF Init, AnswerOK, Labels, States, Told, ToldBack
<1>4. ResultOK
  BY DEF Init, ResultOK
<1>5. TurnOK
  BY <1>2 DEF Init, TurnOK
<1> QED BY <1>1, <1>3, <1>4, <1>5, TypeParts

(* An exchange at a result is at one its request holds.                    *)
AtResult == \A x \in Exchanges :
  pc[x] \in {"waiting", "judgingResult"} => idx[x] <= Len(Results[x])

LEMMA LetGoType ==
  ASSUME ResultOK, NEW x \in Exchanges PROVE LetGo(x) \in [Keys -> Exchanges \cup {Nobody}]
BY DEF ResultOK, LetGo

LEMMA TakeResultType ==
  ASSUME TypeOK, NEW x \in Exchanges, TakeResult(x) PROVE TypeOK'
<1> USE TypeParts
<1>1. RunOK' /\ TurnOK'
  BY DEF TakeResult, RunOK, TurnOK
<1>2. AnswerOK'
  BY AnswerType DEF TakeResult, Labels
<1>3. ResultOK'
  BY DEF TakeResult, ResultOK
<1> QED BY <1>1, <1>2, <1>3, TypePartsNext

LEMMA RequestStepType ==
  ASSUME TypeOK, AtResult, NEW x \in Exchanges,
         Request(x) \/ RequestStep(x) \/ RequestNotJudged(x)
  PROVE  TypeOK'
<1>1. RunOK /\ AnswerOK /\ ResultOK /\ TurnOK
  BY TypeParts
<1> SUFFICES RunOK' /\ AnswerOK' /\ ResultOK' /\ TurnOK'
  BY TypePartsNext
<1> USE <1>1 DEF Told, States
<1>2. CASE Request(x)
  <2>1. AnswerOK'
    <3>1. CASE \E s \in {"unreadable", "terminate"} : RequestOver(x, "refuse", s)
      BY <3>1, AnswerType
    <3>2. CASE /\ pc' = [pc EXCEPT ![x] = "reading"]
               /\ attempt' = [attempt EXCEPT ![x] = "judging"]
               /\ UNCHANGED <<answer, reply, ended>>
      BY <3>2 DEF AnswerOK, Labels
    <3> QED BY <1>2, <3>1, <3>2 DEF Request
  <2> QED BY <1>2, <2>1 DEF Request, RunOK, ResultOK, TurnOK, runVars
<1>3. CASE ReadRequest(x)
  <2>1. AnswerOK'
    BY <1>3, AnswerType DEF ReadRequest, Labels
  <2>2. told' \in [Exchanges -> SUBSET Exchanges]
    <3>1. \A p \in points : p.turns \subseteq Exchanges
      BY DEF RunOK, Point
    <3>2. UNION {p.turns : p \in {q \in Continued(x) : q.added}} \subseteq Exchanges
      BY <3>1 DEF Continued
    <3> QED BY <1>3, <3>2 DEF ReadRequest, TurnOK
  <2> QED BY <1>3, <2>1, <2>2 DEF ReadRequest, RunOK, ResultOK, TurnOK, runVars
<1>4. CASE AmendRequest(x)
  <2>1. AnswerOK'
    BY <1>4, AnswerType DEF AmendRequest, Labels
  <2>2. continues' \in [Exchanges -> BOOLEAN]
    <3>1. (\E k \in 1..(Len(Marks[x]) - 1) : Marks[x][k] \in answered) \in BOOLEAN
      OBVIOUS
    <3> QED BY <1>4, <3>1, Zenon DEF AmendRequest, TurnOK
  <2> QED BY <1>4, <2>1, <2>2 DEF AmendRequest, RunOK, ResultOK, TurnOK, runVars
<1>5. CASE NextResult(x)
  <2>1. CASE TakeResult(x)
    BY <2>1, TakeResultType, TypePartsNext
  <2>2. CASE ~TakeResult(x)
    <3>1. AnswerOK'
      BY <1>5, <2>2, AnswerType DEF NextResult, Labels
    <3> QED BY <1>5, <2>2, <3>1 DEF NextResult, RunOK, ResultOK, TurnOK, runVars
  <2> QED BY <2>1, <2>2
<1>6. CASE Wake(x)
  <2>1. CASE TakeResult(x)
    BY <2>1, TakeResultType, TypePartsNext
  <2>2. CASE ~TakeResult(x)
    <3>1. AnswerOK'
      BY <1>6, <2>2, AnswerType DEF Wake
    <3> QED BY <1>6, <2>2, <3>1 DEF Wake, RunOK, ResultOK, TurnOK, runVars
  <2> QED BY <2>1, <2>2
<1>7. CASE ResultJudged(x)
  <2>1. AnswerOK'
    BY <1>7, AnswerType DEF ResultJudged, Labels
  <2>2. RunOK'
    BY <1>7, EndRunType, KeepRunType DEF ResultJudged
  <2>3. Key(x) \in Keys
    BY <1>7, KeyType DEF ResultJudged, AtResult
  <2>4. judging' \in [Keys -> Exchanges \cup {Nobody}]
    BY <1>7, LetGoType DEF ResultJudged
  <2>5. ResultOK'
    BY <1>7, <2>3, <2>4 DEF ResultJudged, ResultOK
  <2> QED BY <1>7, <2>1, <2>2, <2>5 DEF ResultJudged, TurnOK
<1>8. CASE ResultsDone(x)
  BY <1>8, AnswerType DEF ResultsDone, Labels, RunOK, ResultOK, TurnOK, runVars
<1>9. CASE BeforeGenerate(x)
  <2>1. AnswerOK'
    <3>1. CASE RequestOver(x, "refuse", "terminate")
      BY <3>1, AnswerType
    <3>2. CASE /\ pc' = [pc EXCEPT ![x] = "held"]
               /\ attempt' = [attempt EXCEPT ![x] = "awaiting_reply"]
               /\ answer' = [answer EXCEPT ![x] = "goes_on"]
               /\ UNCHANGED <<reply, ended>>
      BY <3>2 DEF AnswerOK, Labels
    <3> QED BY <1>9, <3>1, <3>2 DEF BeforeGenerate
  <2>2. RunOK'
    BY <1>9, EndRunType, KeepRunType DEF BeforeGenerate
  <2> QED BY <1>9, <2>1, <2>2 DEF BeforeGenerate, ResultOK, TurnOK
<1>10. CASE RequestNotJudged(x)
  <2>1. AnswerOK'
    BY <1>10, AnswerType DEF RequestNotJudged
  <2>2. RunOK'
    BY <1>10, KeepRunType DEF RequestNotJudged
  <2>3. judging' \in [Keys -> Exchanges \cup {Nobody}]
    BY <1>10, LetGoType DEF RequestNotJudged
  <2> QED BY <1>10, <2>1, <2>2, <2>3 DEF RequestNotJudged, ResultOK, TurnOK
<1> QED BY <1>2, <1>3, <1>4, <1>5, <1>6, <1>7, <1>8, <1>9, <1>10 DEF RequestStep

LEMMA ReplyStepType ==
  ASSUME TypeOK, NEW x \in Exchanges, Reply(x) \/ ReplyStep(x) \/ ReplyNotJudged(x)
  PROVE  TypeOK'
<1>1. RunOK /\ AnswerOK /\ ResultOK /\ TurnOK
  BY TypeParts
<1> SUFFICES RunOK' /\ AnswerOK' /\ ResultOK' /\ TurnOK'
  BY TypePartsNext
<1> USE <1>1 DEF Told, ToldBack, States
<1>2. CASE Reply(x)
  <2>1. AnswerOK'
    <3>1. CASE \E s \in {"goes_on", "cut_off"}, t \in {"provider_error", "cut_off"} :
                 AnswerReply(x, s, t)
      BY <3>1, AnswerType
    <3>2. CASE /\ pc' = [pc EXCEPT ![x] = "reply"]
               /\ attempt' = [attempt EXCEPT ![x] = "judging"]
               /\ UNCHANGED <<answer, reply, ended>>
      BY <3>2 DEF AnswerOK, Labels
    <3> QED BY <1>2, <3>1, <3>2 DEF Reply
  <2> QED BY <1>2, <2>1 DEF Reply, RunOK, ResultOK, TurnOK, runVars
<1>3. CASE ReadReply(x)
  <2>1. AnswerOK'
    BY <1>3, AnswerType DEF ReadReply, Labels
  <2>2. idx' \in [Exchanges -> Nat \ {0}]
    <3>1. idx' = idx \/ idx' = [idx EXCEPT ![x] = 1]
      BY <1>3 DEF ReadReply
    <3> QED BY <3>1 DEF ResultOK
  <2> QED BY <1>3, <2>1, <2>2 DEF ReadReply, RunOK, ResultOK, TurnOK, runVars
<1>4. CASE AfterGenerate(x)
  <2>1. AnswerOK'
    BY <1>4, AnswerType DEF AfterGenerate, Labels
  <2>2. RunOK'
    BY <1>4, EndRunType, KeepRunType DEF AfterGenerate
  <2> QED BY <1>4, <2>1, <2>2 DEF AfterGenerate, ResultOK, TurnOK
<1>5. CASE JudgeCall(x)
  <2>1. AnswerOK'
    BY <1>5, AnswerType DEF JudgeCall, Labels
  <2>2. RunOK'
    BY <1>5, EndRunType, KeepRunType DEF JudgeCall
  <2>3. /\ idx' \in [Exchanges -> Nat \ {0}]
        /\ rejected' \in [Exchanges -> SUBSET Nat]
        /\ modified' \in [Exchanges -> SUBSET Nat]
    <3>1. idx[x] \in Nat \ {0} /\ idx[x] + 1 \in Nat \ {0}
      BY DEF ResultOK
    <3>2. rejected[x] \cup {idx[x]} \in SUBSET Nat /\ modified[x] \cup {idx[x]} \in SUBSET Nat
      BY <3>1 DEF TurnOK
    <3>3. UNCHANGED idx \/ idx' = [idx EXCEPT ![x] = idx[x] + 1]
      BY <1>5 DEF JudgeCall
    <3>4. /\ UNCHANGED rejected \/ rejected' = [rejected EXCEPT ![x] = rejected[x] \cup {idx[x]}]
          /\ UNCHANGED modified \/ modified' = [modified EXCEPT ![x] = modified[x] \cup {idx[x]}]
      BY <1>5 DEF JudgeCall
    <3> QED BY <3>1, <3>2, <3>3, <3>4 DEF ResultOK, TurnOK
  <2> QED BY <1>5, <2>1, <2>2, <2>3 DEF JudgeCall, ResultOK, TurnOK
<1>6. CASE ConcludeReply(x)
  <2>1. RunOK' /\ AnswerOK' /\ count' \in [Exchanges -> Nat]
    <3>0. count \in [Exchanges -> Nat]
      BY DEF TurnOK
    <3>1. CASE RefuseReply(x, TRUE) /\ KeepRun /\ UNCHANGED count
      BY <3>0, <3>1, AnswerType, KeepRunType
    <3>2. CASE Passed(x, FALSE) /\ UNCHANGED count
      BY <3>0, <3>2, PassedType
    <3>3. CASE BeginReject(x)
      BY <3>0, <3>3, BeginRejectType
    <3>4. CASE Goto(x, "editing") /\ KeepRun /\ UNCHANGED count
      BY <3>0, <3>4, AnswerType, KeepRunType DEF Labels
    <3>5. CASE Edit(x)
      BY <3>0, <3>5, EditType
    <3> QED BY <1>6, <3>1, <3>2, <3>3, <3>4, <3>5 DEF ConcludeReply
  <2> QED BY <1>6, <2>1 DEF ConcludeReply, ResultOK, TurnOK
<1>7. CASE Resume(x)
  <2>0. count \in [Exchanges -> Nat]
    BY DEF TurnOK
  <2>1. CASE Rejects(x, count[x]) /\ UNCHANGED count
    BY <1>7, <2>0, <2>1, RejectsType DEF Resume, ResultOK, TurnOK
  <2>2. CASE Edit(x)
    BY <1>7, <2>0, <2>2, EditType DEF Resume, ResultOK, TurnOK
  <2> QED BY <1>7, <2>1, <2>2 DEF Resume
<1>8. CASE ReplyNotJudged(x)
  <2>1. AnswerOK'
    BY <1>8, AnswerType DEF ReplyNotJudged
  <2> QED BY <1>8, <2>1 DEF ReplyNotJudged, RunOK, ResultOK, TurnOK, runVars
<1> QED BY <1>2, <1>3, <1>4, <1>5, <1>6, <1>7, <1>8 DEF ReplyStep

LEMMA TypeNext == TypeOK /\ AtResult /\ [Next]_vars => TypeOK'
<1> SUFFICES ASSUME TypeOK, AtResult, [Next]_vars PROVE TypeOK'
  OBVIOUS
<1>1. CASE EndSample
  BY <1>1 DEF EndSample, TypeOK, xVars
<1>2. CASE UNCHANGED vars
  BY <1>2 DEF TypeOK, vars, runVars, xVars
<1> QED BY <1>1, <1>2, RequestStepType, ReplyStepType DEF Next
-----------------------------------------------------------------------------
ShownTo(x, j) == <<ConversationOf[x], Results[x][j]>> \in judged
AllShown(x)   == \A j \in DOMAIN Results[x] : ShownTo(x, j)

(* An exchange gets past a result only once it was let go on.              *)
PastResults(x) ==
  /\ pc[x] \in {"waiting", "judgingResult"} => idx[x] <= Len(Results[x])
  /\ pc[x] \in {"idle", "reading", "amending"} => idx[x] = 1
  /\ "AfterToolCall" \in Watched =>
       /\ pc[x] \in {"results", "waiting", "judgingResult"} =>
            \A j \in DOMAIN Results[x] : j < idx[x] => ShownTo(x, j)
       /\ pc[x] = "before" \/ answer[x] = "goes_on" => AllShown(x)

(* Who is judging a result and who is recorded as judging it agree, and a  *)
(* result being judged was not let go on before.                           *)
Holding ==
  /\ \A x \in Exchanges : pc[x] = "judgingResult" =>
       judging[Key(x)] = x /\ Key(x) \notin judged
  /\ \A k \in Keys : judging[k] # Nobody =>
       pc[judging[k]] = "judgingResult" /\ Key(judging[k]) = k
  /\ \A k \in Keys : shown[k] = IF k \in judged THEN 1 ELSE 0

ResultInv == Holding /\ \A x \in Exchanges : PastResults(x)

(* What a step of x leaves of the other exchanges.                         *)
OthersKept(x) == \A y \in Exchanges \ {x} :
  pc'[y] = pc[y] /\ idx'[y] = idx[y] /\ answer'[y] = answer[y]

ReplyLabels == {"held", "reply", "after", "calls", "rejecting", "editing", "done"}

(* The ways to answer or move on an exchange concern no other.             *)
LEMMA Moves ==
  ASSUME TypeOK, NEW x \in Exchanges
  PROVE  /\ \A t, s : RequestOver(x, t, s) =>
              /\ pc'[x] = "done" /\ answer'[x] = t
              /\ \A y \in Exchanges \ {x} : pc'[y] = pc[y] /\ answer'[y] = answer[y]
         /\ \A l : Goto(x, l) =>
              /\ pc'[x] = l /\ answer' = answer
              /\ \A y \in Exchanges \ {x} : pc'[y] = pc[y]
         /\ \A t, s : AnswerReply(x, t, s) =>
              /\ pc'[x] = "done" /\ answer' = answer
              /\ \A y \in Exchanges \ {x} : pc'[y] = pc[y]
         /\ \A b : RefuseReply(x, b) =>
              /\ pc'[x] = "done" /\ answer' = answer
              /\ \A y \in Exchanges \ {x} : pc'[y] = pc[y]
BY DEF TypeOK, RequestOver, Goto, AnswerReply, RefuseReply, ReplyOver

LEMMA ReplyMoves ==
  ASSUME TypeOK, NEW x \in Exchanges, Reply(x) \/ ReplyStep(x) \/ ReplyNotJudged(x)
  PROVE  /\ pc[x] \in ReplyLabels /\ pc'[x] \in ReplyLabels
         /\ OthersKept(x) /\ answer' = answer
         /\ UNCHANGED <<judged, judging, shown>>
<1> DEFINE Moved == /\ pc'[x] \in ReplyLabels /\ answer' = answer
                    /\ \A y \in Exchanges \ {x} : pc'[y] = pc[y]
<1> USE Moves DEF ReplyLabels
<1>1. ASSUME NEW n, Rejects(x, n) PROVE Moved
  BY <1>1 DEF Rejects
<1>2. ASSUME BeginReject(x) PROVE Moved
  BY <1>1, <1>2 DEF BeginReject
<1>3. ASSUME NEW b, Passed(x, b) PROVE Moved
  BY <1>3 DEF Passed
<1>4. ASSUME Edit(x) PROVE Moved
  BY <1>2, <1>3, <1>4 DEF Edit
<1>5. CASE Reply(x)
  BY <1>5 DEF Reply, OthersKept, runVars, TypeOK
<1>6. CASE ReadReply(x)
  <2>1. UNCHANGED idx \/ idx' = [idx EXCEPT ![x] = 1]
    BY <1>6 DEF ReadReply
  <2>2. \A y \in Exchanges \ {x} : idx'[y] = idx[y]
    BY <2>1 DEF TypeOK
  <2> QED BY <1>6, <2>2 DEF ReadReply, OthersKept, runVars
<1>7. CASE AfterGenerate(x)
  BY <1>7 DEF AfterGenerate, OthersKept
<1>8. CASE JudgeCall(x)
  <2>1. UNCHANGED idx \/ idx' = [idx EXCEPT ![x] = idx[x] + 1]
    BY <1>8 DEF JudgeCall
  <2>2. \A y \in Exchanges \ {x} : idx'[y] = idx[y]
    BY <2>1 DEF TypeOK
  <2> QED BY <1>8, <2>2 DEF JudgeCall, OthersKept
<1>9. CASE ConcludeReply(x)
  <2>1. Moved
    BY <1>9, <1>2, <1>3, <1>4 DEF ConcludeReply
  <2> QED BY <1>9, <2>1 DEF ConcludeReply, OthersKept
<1>10. CASE Resume(x)
  <2>1. Moved
    BY <1>10, <1>1, <1>4 DEF Resume
  <2> QED BY <1>10, <2>1 DEF Resume, OthersKept
<1>11. CASE ReplyNotJudged(x)
  BY <1>11 DEF ReplyNotJudged, OthersKept, runVars
<1> QED BY <1>5, <1>6, <1>7, <1>8, <1>9, <1>10, <1>11 DEF ReplyStep

(* A step of x leaves what the others got past as it is.                   *)
LEMMA OthersPast ==
  ASSUME ResultInv, NEW x \in Exchanges, OthersKept(x), judged \subseteq judged'
  PROVE  \A y \in Exchanges \ {x} : PastResults(y)'
BY DEF ResultInv, PastResults, OthersKept, ShownTo, AllShown

(* A step of x that neither takes nor lets go of a result.                 *)
LEMMA AsideKeepsResults ==
  ASSUME TypeOK, ResultInv, NEW x \in Exchanges,
         OthersKept(x), UNCHANGED <<judged, judging, shown>>,
         pc[x] # "judgingResult", pc'[x] # "judgingResult", PastResults(x)'
  PROVE  ResultInv'
<1>1. \A y \in Exchanges \ {x} : Key(y)' = Key(y)
  BY DEF Key, OthersKept
<1>2. \A y \in Exchanges : PastResults(y)'
  BY OthersPast
<1>3. \A y \in Exchanges : pc'[y] = "judgingResult" =>
        judging'[Key(y)'] = y /\ Key(y)' \notin judged'
  BY <1>1 DEF ResultInv, Holding, OthersKept
<1>4. \A k \in Keys : judging'[k] # Nobody =>
        pc'[judging'[k]] = "judgingResult" /\ Key(judging[k])' = k
  <2> SUFFICES ASSUME NEW k \in Keys, judging[k] # Nobody
               PROVE  pc'[judging[k]] = "judgingResult" /\ Key(judging[k])' = k
    OBVIOUS
  <2>1. judging[k] \in Exchanges \ {x}
    BY DEF TypeOK, ResultInv, Holding
  <2> QED BY <2>1, <1>1 DEF ResultInv, Holding, OthersKept
<1>5. \A k \in Keys : shown'[k] = IF k \in judged' THEN 1 ELSE 0
  BY DEF ResultInv, Holding
<1> QED BY <1>2, <1>3, <1>4, <1>5 DEF ResultInv, Holding

(* A result no exchange judges is judged by x, or skipped if it was before.*)
LEMMA TakeKeepsResults ==
  ASSUME TypeOK, ResultInv, NEW x \in Exchanges, TakeResult(x),
         pc[x] \in {"results", "waiting"}, idx[x] <= Len(Results[x]),
         judging[Key(x)] = Nobody
  PROVE  ResultInv'
<1>1. Key(x) \in Keys
  BY KeyType, TypeParts
<1>2. OthersKept(x)
  BY Moves DEF TakeResult, OthersKept, TypeOK
<1>3. CASE Key(x) \in judged
  <2>1. /\ idx' = [idx EXCEPT ![x] = @ + 1] /\ Goto(x, "results")
        /\ UNCHANGED <<judged, judging, shown>>
    BY <1>3 DEF TakeResult
  <2>2. pc'[x] = "results" /\ answer' = answer /\ idx'[x] = idx[x] + 1
    BY <2>1, Moves DEF TypeOK
  <2>3. PastResults(x)'
    <3>1. ASSUME NEW j \in DOMAIN Results[x], j < idx[x] + 1, "AfterToolCall" \in Watched
          PROVE  ShownTo(x, j)
      <4>1. j \in Nat /\ idx[x] \in Nat /\ (j < idx[x] \/ j = idx[x])
        BY <3>1, HandlerAssumption DEF TypeOK
      <4>2. CASE j < idx[x]
        BY <3>1, <4>2 DEF ResultInv, PastResults
      <4>3. CASE j = idx[x]
        BY <4>3, <1>3 DEF ShownTo, Key
      <4> QED BY <4>1, <4>2, <4>3
    <3> QED BY <2>1, <2>2, <3>1 DEF ResultInv, PastResults, ShownTo, AllShown
  <2> QED BY <1>2, <2>1, <2>2, <2>3, AsideKeepsResults
<1>4. CASE Key(x) \notin judged
  <2>1. /\ judging' = [judging EXCEPT ![Key(x)] = x] /\ Goto(x, "judgingResult")
        /\ UNCHANGED <<idx, judged, shown>>
    BY <1>4 DEF TakeResult
  <2>2. pc'[x] = "judgingResult" /\ answer' = answer
    BY <2>1, Moves
  <2>3. \A y \in Exchanges : Key(y)' = Key(y)
    BY <2>1 DEF Key
  <2>4. PastResults(x)'
    BY <2>1, <2>2 DEF ResultInv, PastResults, ShownTo, AllShown
  <2>5. \A y \in Exchanges : PastResults(y)'
    BY <1>2, <2>1, <2>4, OthersPast
  <2>6. judging'[Key(x)] = x /\ \A k \in Keys \ {Key(x)} : judging'[k] = judging[k]
    BY <1>1, <2>1 DEF TypeOK
  <2>7. \A y \in Exchanges \ {x} : pc[y] = "judgingResult" => Key(y) # Key(x) /\ Key(y) \in Keys
    BY HandlerAssumption, KeyType, TypeParts DEF ResultInv, Holding, PastResults
  <2>8. \A y \in Exchanges : pc'[y] = "judgingResult" =>
          judging'[Key(y)'] = y /\ Key(y)' \notin judged'
    BY <1>2, <1>4, <2>1, <2>3, <2>6, <2>7 DEF ResultInv, Holding, OthersKept
  <2>9. ASSUME NEW k \in Keys, NEW z \in Exchanges, judging'[k] = z
        PROVE  pc'[z] = "judgingResult" /\ Key(z)' = k
    <3>1. CASE k = Key(x)
      BY <2>9, <3>1, <2>2, <2>3, <2>6
    <3>2. CASE k # Key(x)
      <4>1. judging[k] = z
        BY <2>9, <3>2, <2>6
      <4>2. pc[z] = "judgingResult" /\ Key(z) = k /\ z # x
        BY <4>1, HandlerAssumption DEF ResultInv, Holding
      <4> QED BY <4>2, <1>2, <2>3 DEF OthersKept
    <3> QED BY <3>1, <3>2
  <2>10. Holding'
    <3>1. \A k \in Keys : judging'[k] # Nobody => judging'[k] \in Exchanges
      BY <2>1, <2>6 DEF TypeOK
    <3>2. \A k \in Keys : judging'[k] # Nobody =>
            pc'[judging'[k]] = "judgingResult" /\ Key(judging[k])' = k
      BY <2>9, <3>1 DEF Key
    <3> QED BY <2>1, <2>8, <3>2 DEF ResultInv, Holding
  <2> QED BY <2>5, <2>10 DEF ResultInv
<1> QED BY <1>3, <1>4

(* x lets go of the result it judges; the sentinel let it go on, or not.   *)
LEMMA LetGoKeepsResults ==
  ASSUME TypeOK, ResultInv, NEW x \in Exchanges, OthersKept(x),
         pc[x] = "judgingResult", pc'[x] # "judgingResult", judging' = LetGo(x),
         PastResults(x)',
         \/ UNCHANGED <<judged, shown>>
         \/ /\ judged' = judged \cup {Key(x)}
            /\ shown' = [shown EXCEPT ![Key(x)] = @ + 1]
  PROVE  ResultInv'
<1>1. Key(x) \in Keys /\ judging[Key(x)] = x /\ Key(x) \notin judged
  BY KeyType, TypeParts DEF ResultInv, Holding, PastResults
<1>2. \A y \in Exchanges \ {x} : Key(y)' = Key(y)
  BY DEF Key, OthersKept
<1>3. judging' = [k \in Keys |-> IF k = Key(x) THEN Nobody ELSE judging[k]]
  <2>1. \A k \in Keys : judging[k] = x <=> k = Key(x)
    BY <1>1, HandlerAssumption DEF ResultInv, Holding
  <2> QED BY <2>1 DEF LetGo
<1>4. \A y \in Exchanges : PastResults(y)'
  BY OthersPast
<1>5. \A y \in Exchanges \ {x} : pc[y] = "judgingResult" => Key(y) \in Keys /\ Key(y) # Key(x)
  BY <1>1, KeyType, TypeParts DEF ResultInv, Holding, PastResults
<1>6. \A y \in Exchanges : pc'[y] = "judgingResult" =>
        judging'[Key(y)'] = y /\ Key(y)' \notin judged'
  BY <1>2, <1>3, <1>5 DEF ResultInv, Holding, OthersKept
<1>7. ASSUME NEW k \in Keys, NEW z \in Exchanges, judging'[k] = z
      PROVE  pc'[z] = "judgingResult" /\ Key(z)' = k
  <2>1. k # Key(x) /\ judging[k] = z
    BY <1>3, <1>7, HandlerAssumption
  <2>2. pc[z] = "judgingResult" /\ Key(z) = k /\ z # x
    BY <2>1, HandlerAssumption DEF ResultInv, Holding
  <2> QED BY <2>2, <1>2 DEF OthersKept
<1>8. \A k \in Keys : judging'[k] # Nobody => judging'[k] \in Exchanges
  BY <1>3 DEF TypeOK
<1>9. \A k \in Keys : judging'[k] # Nobody =>
        pc'[judging'[k]] = "judgingResult" /\ Key(judging[k])' = k
  BY <1>7, <1>8 DEF Key
<1>10. \A k \in Keys : shown'[k] = IF k \in judged' THEN 1 ELSE 0
  BY <1>1 DEF ResultInv, Holding, TypeOK
<1> QED BY <1>4, <1>6, <1>9, <1>10 DEF ResultInv, Holding

LEMMA RequestKeepsResults ==
  ASSUME TypeOK, ResultInv, NEW x \in Exchanges,
         Request(x) \/ RequestStep(x) \/ RequestNotJudged(x)
  PROVE  ResultInv'
<1>0. PastResults(x) /\ idx[x] \in Nat \ {0} /\ Len(Results[x]) \in Nat
      /\ DOMAIN Results[x] = 1..Len(Results[x])
  BY HandlerAssumption DEF ResultInv, TypeOK
<1> USE Moves
<1>1. CASE Request(x)
  <2>1. OthersKept(x) /\ pc'[x] \in {"done", "reading"} /\ idx' = idx
        /\ answer'[x] \in {answer[x], "refuse"} /\ UNCHANGED <<judged, judging, shown>>
    BY <1>1 DEF Request, OthersKept, runVars, TypeOK
  <2> QED BY <1>0, <1>1, <2>1, AsideKeepsResults
          DEF Request, PastResults, ShownTo, AllShown
<1>2. CASE ReadRequest(x) \/ AmendRequest(x) \/ ResultsDone(x)
  <2>1. OthersKept(x) /\ idx' = idx /\ UNCHANGED <<judged, judging, shown>>
    BY <1>2 DEF ReadRequest, AmendRequest, ResultsDone, OthersKept, runVars
  <2>2. CASE RequestOver(x, "error", "unreadable") \/ RequestOver(x, "error", "unregistered")
    <3>1. pc'[x] = "done" /\ answer'[x] = "error"
      BY <2>2
    <3> QED BY <1>0, <1>2, <2>1, <3>1, AsideKeepsResults
            DEF ReadRequest, AmendRequest, ResultsDone, PastResults
  <2>3. CASE ReadRequest(x) /\ Goto(x, "amending")
    <3>1. pc[x] = "reading" /\ pc'[x] = "amending" /\ answer' = answer
      BY <2>3 DEF ReadRequest
    <3>2. PastResults(x)'
      BY <1>0, <2>1, <3>1 DEF PastResults, ShownTo, AllShown
    <3> QED BY <2>1, <3>1, <3>2, AsideKeepsResults
  <2>4. CASE AmendRequest(x) /\ Goto(x, "results")
    <3>1. PastResults(x)'
      BY <1>0, <2>1, <2>4 DEF AmendRequest, PastResults, ShownTo, AllShown
    <3> QED BY <2>1, <2>4, <3>1, AsideKeepsResults DEF AmendRequest
  <2>5. CASE ResultsDone(x)
    <3>1. "AfterToolCall" \in Watched => AllShown(x)
      BY <1>0, <2>5 DEF ResultsDone, PastResults, AllShown
    <3>2. PastResults(x)'
      BY <1>0, <2>1, <2>5, <3>1 DEF ResultsDone, PastResults, ShownTo, AllShown
    <3> QED BY <2>1, <2>5, <3>2, AsideKeepsResults DEF ResultsDone
  <2> QED BY <1>2, <2>2, <2>3, <2>4, <2>5 DEF ReadRequest, AmendRequest
<1>3. CASE NextResult(x) \/ Wake(x)
  <2>0. idx[x] <= Len(Results[x]) /\ pc[x] \in {"results", "waiting"}
    BY <1>0, <1>3 DEF NextResult, Wake, PastResults
  <2>1. CASE TakeResult(x)
    <3>1. judging[Key(x)] = Nobody
      BY <1>3, <2>1 DEF NextResult, Wake, TakeResult, TypeOK, RequestOver, Goto
    <3> QED BY <2>0, <2>1, <3>1, TakeKeepsResults
  <2>2. CASE ~TakeResult(x)
    <3>1. OthersKept(x) /\ idx' = idx /\ UNCHANGED <<judged, judging, shown>>
      BY <1>3, <2>2 DEF NextResult, Wake, OthersKept, runVars
    <3>2. \/ pc'[x] = "waiting" /\ answer' = answer
          \/ pc'[x] = "done" /\ answer'[x] # "goes_on"
      BY <1>3, <2>2 DEF NextResult, Wake
    <3>3. PastResults(x)'
      BY <1>0, <2>0, <3>1, <3>2 DEF PastResults, ShownTo, AllShown
    <3> QED BY <2>0, <3>1, <3>2, <3>3, AsideKeepsResults
  <2> QED BY <2>1, <2>2
<1>4. CASE ResultJudged(x)
  <2>1. OthersKept(x)
    BY <1>4 DEF ResultJudged, OthersKept, TypeOK
  <2>2. CASE /\ judged' = judged \cup {Key(x)}
             /\ shown' = [shown EXCEPT ![Key(x)] = @ + 1]
             /\ idx' = [idx EXCEPT ![x] = @ + 1]
             /\ Goto(x, "results")
    <3>1. pc'[x] = "results" /\ answer' = answer /\ idx'[x] = idx[x] + 1
      BY <2>2 DEF TypeOK
    <3>2. ASSUME NEW j \in DOMAIN Results[x], j < idx[x] + 1, "AfterToolCall" \in Watched
          PROVE  ShownTo(x, j)'
      <4>1. j < idx[x] \/ j = idx[x]
        BY <1>0, <3>2
      <4> QED BY <1>0, <1>4, <2>2, <3>2, <4>1
              DEF ResultJudged, PastResults, ShownTo, Key
    <3>3. PastResults(x)'
      BY <1>0, <2>2, <3>1, <3>2 DEF PastResults, ShownTo, AllShown
    <3> QED BY <1>4, <2>1, <2>2, <3>1, <3>3, LetGoKeepsResults DEF ResultJudged
  <2>3. CASE RequestOver(x, "refuse", "terminate") /\ UNCHANGED <<judged, shown, idx>>
    <3>1. PastResults(x)'
      BY <2>3 DEF PastResults
    <3> QED BY <1>4, <2>1, <2>3, <3>1, LetGoKeepsResults DEF ResultJudged
  <2> QED BY <1>4, <2>2, <2>3 DEF ResultJudged
<1>5. CASE BeforeGenerate(x)
  <2>1. OthersKept(x) /\ idx' = idx /\ UNCHANGED <<judged, judging, shown>>
    BY <1>5 DEF BeforeGenerate, OthersKept, TypeOK
  <2>2. pc'[x] \in {"held", "done"}
    BY <1>5 DEF BeforeGenerate, TypeOK
  <2>3. PastResults(x)'
    BY <1>0, <1>5, <2>1, <2>2 DEF BeforeGenerate, PastResults, ShownTo, AllShown
  <2> QED BY <1>5, <2>1, <2>2, <2>3, AsideKeepsResults DEF BeforeGenerate
<1>6. CASE RequestNotJudged(x)
  <2>1. OthersKept(x) /\ pc'[x] = "done" /\ answer'[x] = "error"
        /\ UNCHANGED <<judged, shown, idx>>
    BY <1>6 DEF RequestNotJudged, OthersKept
  <2>2. PastResults(x)'
    BY <2>1 DEF PastResults
  <2>3. CASE pc[x] = "judgingResult"
    BY <1>6, <2>1, <2>2, <2>3, LetGoKeepsResults DEF RequestNotJudged
  <2>4. CASE pc[x] # "judgingResult"
    <3>1. judging' = judging
      <4>1. \A k \in Keys : judging[k] # x
        BY SMTT(30), <2>4, HandlerAssumption DEF ResultInv, Holding
      <4> QED BY <1>6, <4>1 DEF RequestNotJudged, LetGo, TypeOK
    <3> QED BY <2>1, <2>2, <2>4, <3>1, AsideKeepsResults
  <2> QED BY <2>3, <2>4
<1> QED BY <1>1, <1>2, <1>3, <1>4, <1>5, <1>6 DEF RequestStep

LEMMA ResultNext == TypeOK /\ ResultInv /\ [Next]_vars => ResultInv'
<1> SUFFICES ASSUME TypeOK, ResultInv, [Next]_vars PROVE ResultInv'
  OBVIOUS
<1>1. CASE EndSample
  BY <1>1 DEF EndSample, xVars, ResultInv, Holding, PastResults, Key, ShownTo, AllShown
<1>2. CASE UNCHANGED vars
  BY <1>2 DEF vars, runVars, xVars, ResultInv, Holding, PastResults, Key, ShownTo,
              AllShown
<1>3. ASSUME NEW x \in Exchanges, Reply(x) \/ ReplyStep(x) \/ ReplyNotJudged(x)
      PROVE  ResultInv'
  <2>1. /\ pc[x] \in ReplyLabels /\ pc'[x] \in ReplyLabels
        /\ OthersKept(x) /\ answer' = answer
        /\ UNCHANGED <<judged, judging, shown>>
    BY <1>3, ReplyMoves
  <2>2. PastResults(x)'
    BY <2>1 DEF ResultInv, PastResults, ShownTo, AllShown, ReplyLabels
  <2> QED BY <2>1, <2>2, AsideKeepsResults DEF ReplyLabels
<1> QED BY <1>1, <1>2, <1>3, RequestKeepsResults DEF Next

LEMMA ResultInit == Init => ResultInv
<1> SUFFICES ASSUME Init PROVE ResultInv
  OBVIOUS
<1>1. Holding
  BY DEF Init, Holding
<1>2. \A x \in Exchanges : PastResults(x)
  BY DEF Init, PastResults
<1> QED BY <1>1, <1>2 DEF ResultInv

LEMMA ResultInvAtResult == ResultInv => AtResult
BY DEF ResultInv, PastResults, AtResult

(* The handler's types and what it knows of results hold in every state.   *)
THEOREM ResultsHold == Spec => [](TypeOK /\ ResultInv)
<1>1. Init => TypeOK /\ ResultInv
  BY TypeInit, ResultInit
<1>2. TypeOK /\ ResultInv /\ [Next]_vars => (TypeOK /\ ResultInv)'
  BY TypeNext, ResultNext, ResultInvAtResult
<1> QED BY <1>1, <1>2, PTL DEF Spec

(* Every variable of the handler keeps its type.                           *)
THEOREM TypeCorrect == Spec => []TypeOK
BY ResultsHold, PTL

(* A tool result is put to the sentinel by one exchange at a time and is   *)
(* let go on once, for any number of requests that hold it (_results).     *)
THEOREM ResultShownOnceHolds == Spec => []ResultShownOnce
<1>1. TypeOK /\ ResultInv => ResultShownOnce
  <2> SUFFICES ASSUME TypeOK, ResultInv PROVE ResultShownOnce
    OBVIOUS
  <2>1. \A k \in Keys : shown[k] <= 1
    BY DEF ResultInv, Holding
  <2>2. \A x, y \in Exchanges :
          pc[x] = "judgingResult" /\ pc[y] = "judgingResult" /\ Key(x) = Key(y) => x = y
    BY DEF ResultInv, Holding
  <2> QED BY <2>1, <2>2 DEF ResultShownOnce
<1> QED BY <1>1, ResultsHold, PTL

(* No request goes on to the model with a tool result the sentinel has not *)
(* let go on, whoever showed it and however their judging ended.           *)
THEOREM NoUnjudgedResultHolds == Spec => []NoUnjudgedResultGoesOn
<1>1. ResultInv => NoUnjudgedResultGoesOn
  BY DEF ResultInv, PastResults, NoUnjudgedResultGoesOn, AllShown, ShownTo, Range
<1> QED BY <1>1, ResultsHold, PTL
-----------------------------------------------------------------------------
(* What a step of x can do to the end of the run: replies that passed stay *)
(* known, and an end is remembered only as _end remembers it.              *)
EndEffect(x) ==
  /\ answered \subseteq answered'
  /\ refusal' => refusal \/ Named
  /\ endedAt' \subseteq endedAt \cup (IF RemembersEnd(x) THEN {Mark(x)} ELSE {})

LEMMA EndEffects ==
  ASSUME TypeOK, NEW x \in Exchanges,
         \/ Request(x) \/ RequestStep(x) \/ RequestNotJudged(x)
         \/ Reply(x) \/ ReplyStep(x) \/ ReplyNotJudged(x)
  PROVE  EndEffect(x)
<1>1. EndRun(x) => EndEffect(x)
  BY DEF EndRun, EndEffect
<1>2. KeepRun => EndEffect(x)
  BY DEF KeepRun, EndEffect
<1>3. UNCHANGED runVars => EndEffect(x)
  BY DEF runVars, EndEffect
<1>4. \A b : Passed(x, b) => EndEffect(x)
  BY DEF Passed, EndEffect
<1>5. \A n : Rejects(x, n) => EndEffect(x)
  <2>1. \A n : Rejects(x, n) => UNCHANGED <<refusal, endedAt, answered>>
    BY DEF Rejects, KeepRun
  <2> QED BY <2>1 DEF EndEffect
<1>6. BeginReject(x) => EndEffect(x)
  BY <1>1, <1>2, <1>5 DEF BeginReject
<1>7. Edit(x) => EndEffect(x)
  BY <1>2, <1>4, <1>6 DEF Edit
<1>8. TakeResult(x) => EndEffect(x)
  BY DEF TakeResult, EndEffect
<1>9. CASE Request(x)
  BY <1>3, <1>9 DEF Request
<1>10. CASE RequestStep(x) \/ RequestNotJudged(x)
  BY <1>1, <1>2, <1>3, <1>8, <1>10
     DEF RequestStep, RequestNotJudged, ReadRequest, AmendRequest, NextResult, Wake,
         ResultJudged, ResultsDone, BeforeGenerate
<1>11. CASE Reply(x) \/ ReplyNotJudged(x)
  BY <1>3, <1>11 DEF Reply, ReplyNotJudged
<1>12. CASE ReplyStep(x)
  BY <1>1, <1>2, <1>3, <1>4, <1>5, <1>6, <1>7, <1>12
     DEF ReplyStep, ReadReply, AfterGenerate, JudgeCall, ConcludeReply, Resume
<1> QED BY <1>9, <1>10, <1>11, <1>12

(* Whether an exchange continues a turn that was passed on is settled when *)
(* its request is amended.                                                 *)
LEMMA ContinuesEffects ==
  ASSUME NEW x \in Exchanges, ~AmendRequest(x),
         \/ Request(x) \/ RequestStep(x) \/ RequestNotJudged(x)
         \/ Reply(x) \/ ReplyStep(x) \/ ReplyNotJudged(x)
  PROVE  continues' = continues
BY DEF Request, RequestStep, RequestNotJudged, Reply, ReplyStep, ReplyNotJudged,
       ReadRequest, NextResult, TakeResult, Wake, ResultJudged, ResultsDone,
       BeforeGenerate, ReadReply, AfterGenerate, JudgeCall, ConcludeReply, Resume

(* x's request continues from one whose reply was passed on.               *)
ContinuesAnswered(x) == \E k \in 1..(Len(Marks[x]) - 1) : Marks[x][k] \in answered

(* Of a run no eval names: every remembered end is that of a conversation  *)
(* that holds a turn which was passed on.                                  *)
FreshInv ==
  /\ refusal => Named
  /\ \A x \in Exchanges : continues[x] => ContinuesAnswered(x)
  /\ \A m \in endedAt : \E x \in Exchanges : Mark(x) = m /\ ContinuesAnswered(x)

LEMMA FreshNext == TypeOK /\ FreshInv /\ [Next]_vars => FreshInv'
<1> SUFFICES ASSUME TypeOK, FreshInv, [Next]_vars PROVE FreshInv'
  OBVIOUS
<1>1. CASE EndSample
  BY <1>1 DEF EndSample, xVars, FreshInv, ContinuesAnswered
<1>2. CASE UNCHANGED vars
  BY <1>2 DEF vars, runVars, xVars, FreshInv, ContinuesAnswered
<1>3. ASSUME NEW x \in Exchanges,
             \/ Request(x) \/ RequestStep(x) \/ RequestNotJudged(x)
             \/ Reply(x) \/ ReplyStep(x) \/ ReplyNotJudged(x)
      PROVE  FreshInv'
  <2>1. EndEffect(x)
    BY <1>3, EndEffects
  <2>2. \A y \in Exchanges : ContinuesAnswered(y) => ContinuesAnswered(y)'
    BY <2>1 DEF EndEffect, ContinuesAnswered
  <2>3. \A y \in Exchanges : continues'[y] => ContinuesAnswered(y)'
    <3>1. CASE AmendRequest(x)
      <4>1. \A y \in Exchanges : continues'[y] => continues[y] \/ ContinuesAnswered(y)
        BY <3>1, Zenon DEF AmendRequest, ContinuesAnswered, TypeOK
      <4> QED BY <4>1, <2>2 DEF FreshInv
    <3>2. CASE ~AmendRequest(x)
      BY <1>3, <3>2, <2>2, ContinuesEffects DEF FreshInv
    <3> QED BY <3>1, <3>2
  <2>4. refusal' => Named
    BY <2>1 DEF EndEffect, FreshInv
  <2>5. ASSUME NEW m \in endedAt'
        PROVE  \E y \in Exchanges : Mark(y) = m /\ ContinuesAnswered(y)'
    <3>1. CASE m \in endedAt
      BY <3>1, <2>2 DEF FreshInv
    <3>2. CASE m \notin endedAt
      <4>1. continues[x] /\ m = Mark(x)
        BY <2>1, <2>5, <3>2 DEF EndEffect, RemembersEnd
      <4> QED BY <4>1, <2>2 DEF FreshInv
    <3> QED BY <3>1, <3>2
  <2>6. \A m \in endedAt' : \E y \in Exchanges : (Mark(y) = m /\ ContinuesAnswered(y))'
    BY <2>5 DEF Mark
  <2> QED BY <2>3, <2>4, <2>6 DEF FreshInv
<1> QED BY <1>1, <1>2, <1>3 DEF Next

(* In a run no eval names, a conversation is refused for the end of        *)
(* another only where both continue from a turn that was passed on: _end   *)
(* never shuts out one that only opens like it.                            *)
THEOREM FreshConversationHolds == Spec => []FreshConversationGoesOn
<1>1. Init => FreshInv
  BY DEF Init, FreshInv
<1>2. FreshInv => FreshConversationGoesOn
  <2> SUFFICES ASSUME FreshInv, ~Named, NEW x \in Exchanges, RunEnded(x)
               PROVE  \E k \in 1..(Len(Marks[x]) - 1) : Marks[x][k] \in answered
    BY DEF FreshConversationGoesOn
  <2>1. PICK l \in 1..Len(Marks[x]) : Marks[x][l] \in endedAt
    BY DEF RunEnded, FreshInv
  <2>2. PICK y \in Exchanges : Mark(y) = Marks[x][l] /\ ContinuesAnswered(y)
    BY <2>1 DEF FreshInv
  <2>3. PICK k \in 1..(Len(Marks[y]) - 1) : Marks[y][k] \in answered
    BY <2>2 DEF ContinuesAnswered
  <2>4. Len(Marks[y]) \in 1..Len(Marks[y]) /\ Len(Marks[x]) \in Nat /\ Len(Marks[y]) \in Nat
    BY HandlerAssumption
  <2>5. Len(Marks[y]) = l /\ \A m \in 1..Len(Marks[y]) : Marks[y][m] = Marks[x][m]
    BY <2>1, <2>2, <2>4, MarksArePrefixes DEF Mark
  <2>6. k \in 1..(Len(Marks[x]) - 1) /\ Marks[x][k] \in answered
    BY <2>1, <2>3, <2>4, <2>5
  <2> QED BY <2>6
<1> QED BY <1>1, <1>2, FreshNext, TypeCorrect, PTL DEF Spec
-----------------------------------------------------------------------------
(* The steps of an exchange.                                               *)
Step(x) == \/ Request(x) \/ RequestStep(x) \/ RequestNotJudged(x)
           \/ Reply(x) \/ ReplyStep(x) \/ ReplyNotJudged(x)

(* The count kept is no less than the turns refused in a row; and a        *)
(* rejection being written has counted more than it will find, whichever   *)
(* others were written, and whatever was passed on, while it was.          *)
StreakInv ==
  /\ \A a \in Attempts : streak[a] <= inARow[a] /\ inARow[a] < MaxRejections
  /\ \A x \in Exchanges : pc[x] = "rejecting" =>
       streak[AttemptOf[x]] < count[x] /\ count[x] < MaxRejections

LEMMA StreakEffects ==
  ASSUME TypeOK, StreakInv, NEW x \in Exchanges, Step(x)
  PROVE  StreakInv'
<1> DEFINE Kept    == \A a \in Attempts :
                        \/ streak'[a] = 0 /\ inARow'[a] = 0
                        \/ streak'[a] = streak[a] /\ inARow'[a] = inARow[a]
           OthersAt == \A y \in Exchanges \ {x} : pc'[y] = pc[y]
           Moved   == pc'[x] # "rejecting" /\ OthersAt
           Counts  == /\ pc'[x] = "rejecting" /\ OthersAt /\ Kept
                      /\ NextCount(x) < MaxRejections
                      /\ count' = [count EXCEPT ![x] = NextCount(x)]
           Quietly == Kept /\ Moved /\ count' = count
<1> USE HandlerAssumption
<1>1. EndRun(x) => Kept
  BY DEF EndRun
<1>2. KeepRun => Kept
  BY DEF KeepRun
<1>3. UNCHANGED <<inARow, streak>> => Kept
  OBVIOUS
<1>4. \A t, s : RequestOver(x, t, s) => Moved
  BY Moves
<1>5. \A t, s : AnswerReply(x, t, s) => Moved
  BY Moves
<1>6. \A b : RefuseReply(x, b) => Moved
  BY Moves
<1>7. \A l \in Labels \ {"rejecting"} : Goto(x, l) => Moved
  BY Moves
<1>8. \A b : Passed(x, b) => Kept /\ Moved
  <2>1. ASSUME NEW b, Passed(x, b) PROVE Kept
    BY <2>1 DEF Passed, TypeOK
  <2> QED BY <2>1, <1>5 DEF Passed
<1>9. BeginReject(x) => Counts \/ Quietly
  <2>1. CASE EndRun(x) /\ RefuseReply(x, TRUE) /\ UNCHANGED count
    BY <2>1, <1>1, <1>6
  <2>2. CASE /\ ~(NextCount(x) >= MaxRejections)
             /\ count' = [count EXCEPT ![x] = NextCount(x)]
             /\ Goto(x, "rejecting") /\ KeepRun
    <3>1. pc'[x] = "rejecting" /\ OthersAt
      BY <2>2 DEF Goto, TypeOK
    <3>2. NextCount(x) < MaxRejections
      BY <2>2 DEF NextCount, TypeOK
    <3> QED BY <2>2, <3>1, <3>2, <1>2
  <2> QED BY <2>1, <2>2 DEF BeginReject
<1>10. Edit(x) => Counts \/ Quietly
  BY <1>2, <1>5, <1>8, <1>9 DEF Edit
<1>11. TakeResult(x) => Quietly
  BY <1>3, <1>7 DEF TakeResult, Labels
<1>n. /\ MaxRejections \in Nat \ {0}
      /\ \A a \in Attempts : streak[a] \in Nat /\ inARow[a] \in Nat
      /\ \A y \in Exchanges : count[y] \in Nat /\ AttemptOf[y] \in Attempts
  BY DEF TypeOK
<1>k. ASSUME Kept, NEW a \in Attempts
      PROVE  /\ streak'[a] <= inARow'[a] /\ inARow'[a] < MaxRejections
             /\ streak'[a] \in Nat /\ streak'[a] <= streak[a]
  <2>1. CASE streak'[a] = 0 /\ inARow'[a] = 0
    BY <2>1, <1>n
  <2>2. CASE streak'[a] = streak[a] /\ inARow'[a] = inARow[a]
    BY <2>2, <1>n DEF StreakInv
  <2> QED BY <1>k, <2>1, <2>2
<1>l. ASSUME Kept, NEW y \in Exchanges, pc[y] = "rejecting", count'[y] = count[y]
      PROVE  streak'[AttemptOf[y]] < count'[y] /\ count'[y] < MaxRejections
  <2>1. streak[AttemptOf[y]] < count[y] /\ count[y] < MaxRejections
    BY <1>l DEF StreakInv
  <2>2. AttemptOf[y] \in Attempts
    BY <1>n
  <2>3. streak'[AttemptOf[y]] \in Nat /\ streak'[AttemptOf[y]] <= streak[AttemptOf[y]]
    BY <1>k, <1>l, <2>2
  <2> HIDE DEF Kept
  <2> QED BY <1>l, <1>n, <2>1, <2>2, <2>3
<1>12. Quietly => StreakInv'
  <2> SUFFICES ASSUME Quietly PROVE StreakInv'
    OBVIOUS
  <2>1. Kept /\ Moved /\ count' = count
    OBVIOUS
  <2>2. \A y \in Exchanges : pc'[y] = "rejecting" => pc[y] = "rejecting" /\ count'[y] = count[y]
    BY <2>1
  <2> HIDE DEF Quietly, Kept
  <2> QED BY <2>1, <2>2, <1>k, <1>l DEF StreakInv
<1>13. Counts => StreakInv'
  <2> SUFFICES ASSUME Counts PROVE StreakInv'
    OBVIOUS
  <2>1. Kept
    OBVIOUS
  <2>2. \A y \in Exchanges \ {x} :
          pc'[y] = "rejecting" => pc[y] = "rejecting" /\ count'[y] = count[y]
    BY DEF TypeOK
  <2>3. count'[x] = inARow[AttemptOf[x]] + 1 /\ count'[x] < MaxRejections
    BY DEF NextCount, TypeOK
  <2>4. streak[AttemptOf[x]] <= inARow[AttemptOf[x]] /\ AttemptOf[x] \in Attempts
    BY <1>n DEF StreakInv
  <2> HIDE DEF Counts, Kept
  <2>5. streak'[AttemptOf[x]] \in Nat /\ streak'[AttemptOf[x]] <= streak[AttemptOf[x]]
    BY <2>1, <2>4, <1>k
  <2>6. streak'[AttemptOf[x]] < count'[x]
    BY <2>3, <2>4, <2>5, <1>n
  <2> QED BY <2>1, <2>2, <2>3, <2>6, <1>k, <1>l DEF StreakInv
<1>14. ASSUME pc[x] = "rejecting", Rejects(x, count[x]), UNCHANGED count PROVE StreakInv'
  <2>1. CASE AnswerReply(x, "error", "unreadable") /\ KeepRun
    BY <2>1, <1>14, <1>2, <1>5, <1>12
  <2>2. CASE ~(AnswerReply(x, "error", "unreadable") /\ KeepRun)
    <3> DEFINE at == AttemptOf[x]
    <3>1. /\ inARow' = [inARow EXCEPT ![at] = count[x]]
          /\ streak' = [streak EXCEPT ![at] = IF Rejecting(x) = {} THEN @ + 1 ELSE @]
          /\ RefuseReply(x, FALSE)
      BY <2>2, <1>14 DEF Rejects
    <3>2. Moved
      BY <3>1, <1>6
    <3>3. at \in Attempts /\ streak[at] < count[x] /\ count[x] < MaxRejections
      BY <1>14 DEF StreakInv
    <3>4. inARow'[at] = count[x] /\ streak'[at] \in {streak[at], streak[at] + 1}
      BY <3>1, <3>3 DEF TypeOK
    <3>5. \A b \in Attempts \ {at} : inARow'[b] = inARow[b] /\ streak'[b] = streak[b]
      BY <3>1 DEF TypeOK
    <3>6. ASSUME NEW b \in Attempts PROVE streak'[b] <= inARow'[b] /\ inARow'[b] < MaxRejections
      <4>1. CASE b = at
        BY <4>1, <3>3, <3>4 DEF TypeOK
      <4>2. CASE b # at
        BY <4>2, <3>5 DEF StreakInv
      <4> QED BY <4>1, <4>2
    <3>7. ASSUME NEW y \in Exchanges, pc'[y] = "rejecting"
          PROVE  streak'[AttemptOf[y]] < count'[y] /\ count'[y] < MaxRejections
      <4>1. y # x /\ pc[y] = "rejecting" /\ count'[y] = count[y]
        BY <3>2, <3>7, <1>14
      <4>2. streak[AttemptOf[y]] < count[y] /\ count[y] < MaxRejections
        BY <4>1 DEF StreakInv
      <4>3. CASE AttemptOf[y] = at
        <5>1. y \in Rejecting(x)
          BY <4>1, <4>3 DEF Rejecting
        <5>2. streak'[at] = streak[at]
          BY <5>1, <3>1, <3>3 DEF TypeOK
        <5> QED BY <4>1, <4>2, <4>3, <5>2
      <4>4. CASE AttemptOf[y] # at
        BY <4>1, <4>2, <4>4, <3>5
      <4> QED BY <4>3, <4>4
    <3> QED BY <3>6, <3>7 DEF StreakInv
  <2> QED BY <2>1, <2>2
<1>15. Quietly \/ Counts \/ StreakInv'
  <2>1. CASE Request(x)
    BY <2>1, <1>3, <1>4 DEF Request, runVars, TypeOK
  <2>2. CASE ReadRequest(x) \/ AmendRequest(x) \/ ResultsDone(x)
    BY <2>2, <1>3, <1>4, <1>7
       DEF ReadRequest, AmendRequest, ResultsDone, runVars, Labels
  <2>3. CASE NextResult(x) \/ Wake(x)
    BY <2>3, <1>3, <1>4, <1>7, <1>11 DEF NextResult, Wake, runVars, Labels
  <2>4. CASE ResultJudged(x)
    BY <2>4, <1>1, <1>2, <1>4, <1>7 DEF ResultJudged, Labels
  <2>5. CASE BeforeGenerate(x)
    BY <2>5, <1>1, <1>2, <1>4 DEF BeforeGenerate, TypeOK
  <2>6. CASE RequestNotJudged(x)
    BY <2>6, <1>2, <1>4 DEF RequestNotJudged
  <2>7. CASE Reply(x) \/ ReplyNotJudged(x)
    BY <2>7, <1>3, <1>5 DEF Reply, ReplyNotJudged, runVars, TypeOK
  <2>8. CASE ReadReply(x)
    BY <2>8, <1>3, <1>5, <1>6, <1>7 DEF ReadReply, runVars, Labels
  <2>9. CASE AfterGenerate(x) \/ JudgeCall(x)
    BY <2>9, <1>1, <1>2, <1>6, <1>7 DEF AfterGenerate, JudgeCall, Labels
  <2>10. CASE ConcludeReply(x)
    BY <2>10, <1>2, <1>6, <1>7, <1>8, <1>9 DEF ConcludeReply, Labels
  <2>11. CASE Resume(x)
    BY <2>11, <1>10, <1>14 DEF Resume
  <2> QED BY <2>1, <2>2, <2>3, <2>4, <2>5, <2>6, <2>7, <2>8, <2>9, <2>10, <2>11
          DEF Step, RequestStep, ReplyStep
<1> HIDE DEF Quietly, Counts
<1> QED BY <1>12, <1>13, <1>15

LEMMA StreakHolds == Spec => []StreakInv
<1>1. Init => StreakInv
  BY HandlerAssumption DEF Init, StreakInv
<1>2. TypeOK /\ StreakInv /\ [Next]_vars => StreakInv'
  <2> SUFFICES ASSUME TypeOK, StreakInv, [Next]_vars PROVE StreakInv'
    OBVIOUS
  <2>1. CASE EndSample
    BY <2>1 DEF EndSample, xVars, StreakInv
  <2>2. CASE UNCHANGED vars
    BY <2>2 DEF vars, runVars, xVars, StreakInv
  <2>3. ASSUME NEW x \in Exchanges, Step(x) PROVE StreakInv'
    BY <2>3, StreakEffects
  <2> QED BY <2>1, <2>2, <2>3 DEF Next, Step
<1> QED BY <1>1, <1>2, TypeCorrect, PTL DEF Spec

(* However exchanges interleave between _reject's read of in_a_row and its *)
(* write, no attempt has _MAX_CONSECUTIVE_REJECTIONS turns refused in a    *)
(* row while its run goes on, those being refused at once counted as one.  *)
THEOREM ThirdRejectionHolds == Spec => []ThirdRejectionEndsRun
<1>1. TypeOK /\ StreakInv => ThirdRejectionEndsRun
  BY HandlerAssumption DEF TypeOK, StreakInv, ThirdRejectionEndsRun
<1> QED BY <1>1, StreakHolds, TypeCorrect, PTL

(* What the proxy is told of x, and of no other exchange.                  *)
LEMMA ToldOfOne ==
  ASSUME TypeOK, NEW x \in Exchanges, Step(x)
  PROVE  /\ \A y \in Exchanges \ {x} : /\ answer'[y] = answer[y] /\ attempt'[y] = attempt[y]
                                       /\ pc'[y] = pc[y]
         /\ Ended(x) => /\ answer'[x] = "goes_on" => answer[x] = "goes_on"
                        /\ pc'[x] = "editing" => pc[x] = "editing"
                        /\ attempt'[x] = "proceed" => attempt[x] = "proceed" \/ pc[x] = "editing"
<1> DEFINE Others == \A y \in Exchanges \ {x} :
                       /\ answer'[y] = answer[y] /\ attempt'[y] = attempt[y]
                       /\ pc'[y] = pc[y]
           NotOn  == /\ answer'[x] = "goes_on" => answer[x] = "goes_on"
                     /\ attempt'[x] = "proceed" => attempt[x] = "proceed"
                     /\ pc'[x] # "editing"
<1>1. \A t, s : RequestOver(x, t, s) /\ t # "goes_on" /\ s # "proceed" => Others /\ NotOn
  BY DEF RequestOver, TypeOK
<1>2. \A t, s : AnswerReply(x, t, s) => Others /\ (s # "proceed" => NotOn)
  BY DEF AnswerReply, ReplyOver, TypeOK
<1>3. RefuseReply(x, TRUE) \/ RefuseReply(x, FALSE) => Others /\ NotOn
  BY DEF RefuseReply, ReplyOver, TypeOK
<1>4. \A l : Goto(x, l) => Others /\ (l # "editing" => NotOn)
  BY DEF Goto, TypeOK
<1>e. /\ AnswerReply(x, "error", "unreadable") => Others /\ NotOn
      /\ AnswerReply(x, "error", "error") => Others /\ NotOn
      /\ AnswerReply(x, "error", "time_limit") => Others /\ NotOn
  BY DEF AnswerReply, ReplyOver, TypeOK
<1>g. /\ Goto(x, "after") => Others /\ NotOn
      /\ Goto(x, "calls") => Others /\ NotOn
      /\ Goto(x, "rejecting") => Others /\ NotOn
      /\ Goto(x, "editing") => Others
  BY <1>4
<1>s. /\ answer[x] \in {"none", "goes_on", "refuse", "error"}
  BY DEF TypeOK
<1> SUFFICES Others /\ (Ended(x) => NotOn \/ (pc[x] = "editing" /\ answer' = answer))
  OBVIOUS
<1> HIDE DEF Others, NotOn
<1>5. Passed(x, TRUE) \/ Passed(x, FALSE) => Others /\ answer' = answer
  BY <1>2 DEF Passed, AnswerReply, ReplyOver
<1>r. \A n : Rejects(x, n) => Others /\ NotOn
  <2>1. \A n : Rejects(x, n) =>
          RefuseReply(x, FALSE) \/ AnswerReply(x, "error", "unreadable")
    BY DEF Rejects
  <2> QED BY <2>1, <1>e, <1>3, Zenon
<1>6. BeginReject(x) => Others /\ NotOn
  BY <1>3, <1>g DEF BeginReject
<1>7. Edit(x) => Others /\ (NotOn \/ answer' = answer)
  BY <1>e, <1>5, <1>6 DEF Edit
<1>8. CASE Request(x)
  <2>1. CASE /\ pc' = [pc EXCEPT ![x] = "reading"]
             /\ attempt' = [attempt EXCEPT ![x] = "judging"]
             /\ UNCHANGED <<answer, reply, ended>>
    BY <2>1 DEF TypeOK, Others, NotOn
  <2> QED BY <2>1, <1>8, <1>1 DEF Request
<1>9. CASE ReadRequest(x) \/ AmendRequest(x) \/ ResultsDone(x) \/ RequestNotJudged(x)
  BY <1>9, <1>1, <1>4 DEF ReadRequest, AmendRequest, ResultsDone, RequestNotJudged
<1>10. CASE NextResult(x) \/ Wake(x) \/ ResultJudged(x)
  BY <1>10, <1>1, <1>4 DEF NextResult, Wake, TakeResult, ResultJudged
<1>11. CASE BeforeGenerate(x)
  <2>1. CASE ~Ended(x) /\ /\ attempt' = [attempt EXCEPT ![x] = "awaiting_reply"]
                          /\ answer' = [answer EXCEPT ![x] = "goes_on"]
                          /\ pc' = [pc EXCEPT ![x] = "held"]
    BY <2>1 DEF TypeOK, Others, NotOn
  <2> QED BY <2>1, <1>11, <1>1 DEF BeforeGenerate
<1>12. CASE Reply(x)
  <2>1. CASE /\ attempt' = [attempt EXCEPT ![x] = "judging"] /\ answer' = answer
             /\ pc' = [pc EXCEPT ![x] = "reply"]
    BY <2>1 DEF TypeOK, Others, NotOn
  <2> QED BY <2>1, <1>12, <1>2 DEF Reply
<1>13. CASE ReadReply(x) \/ AfterGenerate(x) \/ JudgeCall(x) \/ ReplyNotJudged(x)
  <2>1. CASE ReadReply(x)
    BY <2>1, <1>e, <1>3, <1>g, Zenon DEF ReadReply
  <2>2. CASE AfterGenerate(x)
    BY <2>2, <1>3, <1>g, Zenon DEF AfterGenerate
  <2>3. CASE JudgeCall(x)
    BY <2>3, <1>3, <1>g, Zenon DEF JudgeCall
  <2>4. CASE ReplyNotJudged(x)
    BY <2>4, <1>e, Zenon DEF ReplyNotJudged
  <2> QED BY <1>13, <2>1, <2>2, <2>3, <2>4
<1>14. CASE ConcludeReply(x)
  <2>1. CASE Ended(x)
    BY <2>1, <1>14, <1>3 DEF ConcludeReply, EndedMeanwhile
  <2>2. CASE ~Ended(x)
    <3>1. Others
      BY <2>2, <1>14, <1>3, <1>g, <1>5, <1>6 DEF ConcludeReply
    <3> QED BY <2>2, <3>1
  <2> QED BY <2>1, <2>2
<1>15. CASE Resume(x)
  <2>1. CASE pc[x] = "rejecting" /\ Rejects(x, count[x])
    BY <2>1, <1>r
  <2>2. CASE pc[x] = "editing" /\ Edit(x)
    BY <2>2, <1>7
  <2> QED BY <1>15, <2>1, <2>2 DEF Resume
<1> QED BY <1>8, <1>9, <1>10, <1>11, <1>12, <1>13, <1>14, <1>15
        DEF Step, RequestStep, ReplyStep

(* A run that has ended sends no request on to the model and passes no     *)
(* reply on to the client, however many exchanges were in flight when it   *)
(* ended and whatever they awaited: but for a turn judged before, whose    *)
(* edit was being written then (_ended_meanwhile, _edit).                  *)
THEOREM EndedRunHolds == Spec => EndedRunGoesNoFurther
<1> DEFINE GoesNoFurther ==
      \A x \in Exchanges : RunEnded(x) =>
        /\ answer'[x] = "goes_on" => answer[x] = "goes_on"
        /\ pc'[x] = "editing" => pc[x] = "editing"
        /\ attempt'[x] = "proceed" => attempt[x] = "proceed" \/ pc[x] = "editing"
<1>1. TypeOK /\ [Next]_vars => [GoesNoFurther]_vars
  <2> SUFFICES ASSUME TypeOK, Next PROVE GoesNoFurther
    OBVIOUS
  <2>1. CASE EndSample
    BY <2>1 DEF EndSample, xVars
  <2>2. ASSUME NEW x \in Exchanges, Step(x) PROVE GoesNoFurther
    <3>1. RunEnded(x) => Ended(x)
      BY HandlerAssumption DEF RunEnded, Ended, Range
    <3> QED BY <3>1, <2>2, ToldOfOne
  <2> QED BY <2>1, <2>2 DEF Next, Step
<1> QED BY <1>1, TypeCorrect, PTL DEF Spec, EndedRunGoesNoFurther
-----------------------------------------------------------------------------
(* What a step of x does to the others, and to the turns the run keeps:    *)
(* nothing, the end of the run, an edited turn, or one refused whole.      *)
OthersAnswered(x) == \A y \in Exchanges \ {x} :
  pc'[y] = pc[y] /\ answer'[y] = answer[y] /\ attempt'[y] = attempt[y]

Quiet(x) == UNCHANGED <<points, edited, refusal>> /\ attempt'[x] # "reject"

EditsTurn(x) ==
  /\ edited' = edited \cup {x} /\ UNCHANGED <<points, refusal>>
  /\ attempt'[x] # "reject" /\ pc[x] \in ReplyLabels

OpenPoints(x) == {p \in points : p.conv = ConversationOf[x] /\ p.mark = Mark(x) /\ p.added}

RejectsTurn(x) ==
  /\ points' = (points \ OpenPoints(x)) \cup
        {[conv |-> ConversationOf[x], mark |-> Mark(x), added |-> TRUE,
          turns |-> {x} \cup UNION {p.turns : p \in OpenPoints(x)}]}
  /\ attempt'[x] = "reject" /\ UNCHANGED <<edited, refusal>>

EndsTurn(x) == EndRun(x) /\ attempt'[x] = "terminate"

Outcome(x) == Quiet(x) \/ EditsTurn(x) \/ RejectsTurn(x) \/ EndsTurn(x)

LEMMA Answers ==
  ASSUME TypeOK, NEW x \in Exchanges
  PROVE  /\ \A t, s : RequestOver(x, t, s) => OthersAnswered(x) /\ attempt'[x] = s
         /\ \A l : Goto(x, l) => OthersAnswered(x) /\ attempt' = attempt
         /\ \A t, s : AnswerReply(x, t, s) => OthersAnswered(x) /\ attempt'[x] = s
         /\ RefuseReply(x, TRUE) => OthersAnswered(x) /\ attempt'[x] = "terminate"
         /\ RefuseReply(x, FALSE) => OthersAnswered(x) /\ attempt'[x] = "reject"
<1>1. \A t, s : RequestOver(x, t, s) => OthersAnswered(x) /\ attempt'[x] = s
  BY DEF TypeOK, OthersAnswered, RequestOver
<1>2. \A l : Goto(x, l) => OthersAnswered(x) /\ attempt' = attempt
  BY DEF TypeOK, OthersAnswered, Goto
<1>3. \A t, s : AnswerReply(x, t, s) => OthersAnswered(x) /\ attempt'[x] = s
  BY DEF TypeOK, OthersAnswered, AnswerReply, ReplyOver
<1>4. RefuseReply(x, TRUE) => OthersAnswered(x) /\ attempt'[x] = "terminate"
  BY DEF TypeOK, OthersAnswered, RefuseReply, ReplyOver
<1>5. RefuseReply(x, FALSE) => OthersAnswered(x) /\ attempt'[x] = "reject"
  BY DEF TypeOK, OthersAnswered, RefuseReply, ReplyOver
<1> QED BY <1>1, <1>2, <1>3, <1>4, <1>5

(* An exchange that is answered takes no more steps.                       *)
LEMMA StepsBeforeDone ==
  ASSUME NEW x \in Exchanges, Step(x) PROVE pc[x] # "done"
BY DEF Step, Request, RequestStep, RequestNotJudged, Reply, ReplyStep, ReplyNotJudged,
       ReadRequest, AmendRequest, NextResult, Wake, ResultJudged, ResultsDone, BeforeGenerate,
       ReadReply, AfterGenerate, JudgeCall, ConcludeReply, Resume

(* An exchange is refused a whole turn, or has the run ended at it, only   *)
(* as it is answered.                                                      *)
SettledIsDone ==
  \A x \in Exchanges : attempt[x] \in {"reject", "terminate"} => pc[x] = "done"

Settles(x) == attempt'[x] \in {"reject", "terminate"} => pc'[x] = "done"

LEMMA StepOutcome ==
  ASSUME TypeOK, SettledIsDone, NEW x \in Exchanges, Step(x)
  PROVE  OthersAnswered(x) /\ Outcome(x) /\ Settles(x)
<1>0. attempt[x] \notin {"reject", "terminate"} BY StepsBeforeDone DEF SettledIsDone
<1> DEFINE Good == OthersAnswered(x) /\ Outcome(x) /\ Settles(x)
<1>1. \A t, s : RequestOver(x, t, s) /\ s # "reject" /\ UNCHANGED <<points, edited, refusal>> => Good
  BY Answers, Moves DEF Outcome, Quiet, Settles
<1>2. \A t, s : AnswerReply(x, t, s) /\ s # "reject" /\ UNCHANGED <<points, edited, refusal>> => Good
  BY Answers, Moves DEF Outcome, Quiet, Settles
<1>3. \A l : Goto(x, l) /\ UNCHANGED <<points, edited, refusal>> => Good
  BY <1>0, Answers DEF Outcome, Quiet, Settles
<1>4. RefuseReply(x, TRUE) /\ (EndRun(x) \/ UNCHANGED <<points, edited, refusal>>) => Good
  BY Answers, Moves DEF Outcome, Quiet, EndsTurn, Settles
<1>5. RequestOver(x, "refuse", "terminate") /\ EndRun(x) => Good
  <2>1. HAVE RequestOver(x, "refuse", "terminate") /\ EndRun(x)
  <2>2. OthersAnswered(x) /\ attempt'[x] = "terminate" BY <2>1, Answers
  <2>3. pc'[x] = "done" BY <2>1, Moves
  <2> QED BY <2>1, <2>2, <2>3 DEF Outcome, EndsTurn, Settles
<1>6. KeepRun => UNCHANGED <<points, edited, refusal>>
  BY DEF KeepRun
<1>7. ASSUME NEW n, Rejects(x, n) PROVE Good
  <2>1. CASE AnswerReply(x, "error", "unreadable") /\ KeepRun
    BY <2>1, <1>2, <1>6
  <2>2. CASE ~(AnswerReply(x, "error", "unreadable") /\ KeepRun)
    <3>1. RefuseReply(x, FALSE) /\ UNCHANGED <<refusal, edited>>
      BY <1>7, <2>2 DEF Rejects
    <3>2. points' = (points \ OpenPoints(x)) \cup
            {[conv |-> ConversationOf[x], mark |-> Mark(x), added |-> TRUE,
              turns |-> {x} \cup UNION {p.turns : p \in OpenPoints(x)}]}
      BY <1>7, <2>2 DEF Rejects, OpenPoints
    <3> QED BY <3>1, <3>2, Answers, Moves DEF Outcome, RejectsTurn, Settles
  <2> QED BY <2>1, <2>2
<1> SUFFICES Good
  OBVIOUS
<1> HIDE DEF Good
<1>8. ASSUME BeginReject(x) PROVE Good
  <2>1. CASE EndRun(x) /\ RefuseReply(x, TRUE) BY <2>1, <1>4
  <2>2. CASE Goto(x, "rejecting") /\ KeepRun BY <2>2, <1>3, <1>6
  <2>3. CASE Rejects(x, NextCount(x)) BY <2>3, <1>7
  <2> QED BY <1>8, <2>1, <2>2, <2>3 DEF BeginReject
<1>9. ASSUME NEW b \in BOOLEAN, Passed(x, b), pc[x] \in ReplyLabels PROVE Good
  <2>1. AnswerReply(x, "goes_on", "proceed") BY <1>9 DEF Passed
  <2>2. OthersAnswered(x) /\ attempt'[x] = "proceed" BY <2>1, Answers
  <2>3. UNCHANGED <<points, refusal>> /\ (edited' = edited \cup {x} \/ edited' = edited)
    BY <1>9 DEF Passed
  <2> QED BY <1>9, <2>2, <2>3 DEF Good, Outcome, Quiet, EditsTurn, Settles
<1>10. ASSUME Edit(x), pc[x] \in ReplyLabels PROVE Good
  <2>1. CASE Passed(x, TRUE) BY <1>9, <1>10, <2>1
  <2>2. CASE BeginReject(x) BY <1>8, <2>2
  <2>3. CASE AnswerReply(x, "error", "error") /\ KeepRun BY <2>3, <1>2, <1>6
  <2> QED BY <1>10, <2>1, <2>2, <2>3 DEF Edit
<1>11. ASSUME TakeResult(x) PROVE Good
  BY <1>11, <1>3 DEF TakeResult
<1>12. CASE Request(x)
  <2>1. UNCHANGED <<points, edited, refusal>> BY <1>12 DEF Request, runVars
  <2>2. CASE /\ pc' = [pc EXCEPT ![x] = "reading"]
             /\ attempt' = [attempt EXCEPT ![x] = "judging"]
             /\ UNCHANGED <<answer, reply, ended>>
    BY <2>1, <2>2 DEF Good, Outcome, Quiet, OthersAnswered, TypeOK, Settles
  <2>3. CASE RequestOver(x, "refuse", "unreadable") \/ RequestOver(x, "refuse", "terminate")
    BY <2>1, <2>3, <1>1
  <2> QED BY <1>12, <2>2, <2>3 DEF Request
<1>13. CASE ReadRequest(x)
  BY <1>13, <1>1, <1>3 DEF ReadRequest, runVars
<1>14. CASE AmendRequest(x)
  BY <1>14, <1>1, <1>3 DEF AmendRequest, runVars
<1>15. CASE ResultsDone(x)
  BY <1>15, <1>3 DEF ResultsDone, runVars
<1>16. CASE NextResult(x) \/ Wake(x)
  <2>1. CASE TakeResult(x) BY <2>1, <1>11
  <2>2. CASE ~TakeResult(x)
    <3>1. UNCHANGED <<points, edited, refusal>>
      BY <1>16, <2>2 DEF NextResult, Wake, runVars
    <3>2. \/ Goto(x, "waiting") \/ RequestOver(x, "error", "unreadable")
          \/ RequestOver(x, "refuse", "terminate")
      BY <1>16, <2>2 DEF NextResult, Wake
    <3> QED BY <3>1, <3>2, <1>1, <1>3
  <2> QED BY <2>1, <2>2
<1>17. CASE ResultJudged(x)
  BY <1>17, <1>3, <1>5, <1>6 DEF ResultJudged
<1>18. CASE BeforeGenerate(x)
  <2>1. CASE /\ attempt' = [attempt EXCEPT ![x] = "awaiting_reply"]
             /\ answer' = [answer EXCEPT ![x] = "goes_on"]
             /\ pc' = [pc EXCEPT ![x] = "held"] /\ KeepRun
    BY <2>1, <1>6 DEF Good, Outcome, Quiet, OthersAnswered, TypeOK, Settles
  <2>2. CASE RequestOver(x, "refuse", "terminate") /\ (EndRun(x) \/ KeepRun)
    BY <2>2, <1>1, <1>5, <1>6
  <2> QED BY <1>18, <2>1, <2>2 DEF BeforeGenerate
<1>19. CASE RequestNotJudged(x)
  BY <1>19, <1>1, <1>6 DEF RequestNotJudged
<1>20. CASE Reply(x)
  <2>1. UNCHANGED <<points, edited, refusal>> BY <1>20 DEF Reply, runVars
  <2>2. CASE /\ pc' = [pc EXCEPT ![x] = "reply"]
             /\ attempt' = [attempt EXCEPT ![x] = "judging"]
             /\ UNCHANGED <<answer, reply, ended>>
    BY <2>1, <2>2 DEF Good, Outcome, Quiet, OthersAnswered, TypeOK, Settles
  <2>3. CASE \E t, s \in {"goes_on", "provider_error", "cut_off"} : AnswerReply(x, t, s)
    BY <2>1, <2>3, <1>2
  <2> QED BY <1>20, <2>2, <2>3 DEF Reply
<1>21. CASE ReadReply(x)
  <2>1. UNCHANGED <<points, edited, refusal>> BY <1>21 DEF ReadReply, runVars
  <2> QED BY <1>21, <2>1, <1>2, <1>3, <1>4 DEF ReadReply
<1>22. CASE AfterGenerate(x)
  BY <1>22, <1>3, <1>4, <1>6 DEF AfterGenerate
<1>23. CASE JudgeCall(x)
  <2>1. (EndRun(x) /\ RefuseReply(x, TRUE)) \/ (Goto(x, "calls") /\ KeepRun)
    BY <1>23 DEF JudgeCall
  <2> QED BY <2>1, <1>3, <1>4, <1>6
<1>24. CASE ConcludeReply(x)
  <2>1. pc[x] \in ReplyLabels BY <1>24 DEF ConcludeReply, ReplyLabels
  <2>2. \/ (RefuseReply(x, TRUE) /\ KeepRun) \/ Passed(x, FALSE) \/ BeginReject(x)
        \/ (Goto(x, "editing") /\ KeepRun) \/ Edit(x)
    BY <1>24 DEF ConcludeReply
  <2> QED BY <2>1, <2>2, <1>3, <1>4, <1>6, <1>8, <1>9, <1>10
<1>25. CASE Resume(x)
  <2>1. pc[x] \in ReplyLabels BY <1>25 DEF Resume, ReplyLabels
  <2> QED BY <2>1, <1>25, <1>7, <1>10 DEF Resume
<1>26. CASE ReplyNotJudged(x)
  <2>1. UNCHANGED <<points, edited, refusal>> BY <1>26 DEF ReplyNotJudged, runVars
  <2> QED BY <1>26, <2>1, <1>2 DEF ReplyNotJudged
<1> QED
  BY <1>12, <1>13, <1>14, <1>15, <1>16, <1>17, <1>18, <1>19, <1>20, <1>21, <1>22, <1>23, <1>24,
     <1>25, <1>26 DEF Step, RequestStep, ReplyStep

-----------------------------------------------------------------------------
(* A request past its reading holds no turn whose edit would be lost.      *)
PutBack(x, y) == ConversationOf[y] = ConversationOf[x] /\ Mark(y) \in Range(Marks[x])

PastReading(x) ==
  \/ pc[x] \in {"amending", "results", "waiting", "judgingResult", "before"}
  \/ answer[x] = "goes_on"

EditInv ==
  /\ \A x \in Exchanges : pc[x] # "idle" => \A y \in Holds[x] : pc[y] = "done"
  /\ \A x \in Exchanges : answer[x] = "goes_on" => pc[x] # "idle"
  /\ \A x \in Exchanges : PastReading(x) => \A y \in edited \cap Holds[x] : PutBack(x, y)

LEMMA StepReading ==
  ASSUME TypeOK, NEW x \in Exchanges, Step(x)
  PROVE  /\ pc'[x] # "idle"
         /\ pc[x] = "idle" => Request(x)
         /\ PastReading(x)' => PastReading(x) \/ (~EditLost(x) /\ UNCHANGED edited /\ pc[x] = "reading")
<1> USE Moves DEF PastReading
<1>1. CASE Request(x)
  <2>1. pc'[x] \in {"done", "reading"} /\ answer'[x] \in {answer[x], "refuse"}
    BY <1>1 DEF Request, TypeOK
  <2> QED BY <1>1, <2>1
<1>2. CASE ReadRequest(x)
  <2>1. UNCHANGED edited /\ pc[x] = "reading" BY <1>2 DEF ReadRequest, runVars
  <2>2. CASE ~EditLost(x) /\ Goto(x, "amending") BY <2>1, <2>2
  <2>3. CASE RequestOver(x, "error", "unreadable") \/ RequestOver(x, "error", "unregistered")
    BY <2>1, <2>3
  <2> QED BY <1>2, <2>2, <2>3 DEF ReadRequest
<1>3. CASE AmendRequest(x) BY <1>3 DEF AmendRequest
<1>4. CASE NextResult(x) \/ Wake(x) BY <1>4 DEF NextResult, Wake, TakeResult
<1>5. CASE ResultJudged(x) BY <1>5 DEF ResultJudged
<1>6. CASE ResultsDone(x) BY <1>6 DEF ResultsDone
<1>7. CASE BeforeGenerate(x)
  <2>1. pc[x] = "before" /\ pc'[x] \in {"held", "done"} BY <1>7 DEF BeforeGenerate, TypeOK
  <2> QED BY <2>1
<1>8. CASE RequestNotJudged(x)
  <2>1. pc[x] # "idle" /\ pc'[x] = "done" /\ answer'[x] = "error" BY <1>8 DEF RequestNotJudged
  <2> QED BY <2>1
<1>9. CASE Reply(x) \/ ReplyStep(x) \/ ReplyNotJudged(x)
  <2>1. pc[x] \in ReplyLabels /\ pc'[x] \in ReplyLabels /\ answer' = answer BY <1>9, ReplyMoves
  <2> QED BY <2>1 DEF ReplyLabels
<1> QED BY <1>1, <1>2, <1>3, <1>4, <1>5, <1>6, <1>7, <1>8, <1>9 DEF Step, RequestStep

LEMMA EditNext == TypeOK /\ SettledIsDone /\ EditInv /\ [Next]_vars => EditInv'
<1> SUFFICES ASSUME TypeOK, SettledIsDone, EditInv, [Next]_vars PROVE EditInv'
  OBVIOUS
<1>1. CASE EndSample BY <1>1 DEF EndSample, xVars, EditInv, PastReading
<1>2. CASE UNCHANGED vars BY <1>2 DEF vars, runVars, xVars, EditInv, PastReading
<1>3. ASSUME NEW x \in Exchanges, Step(x) PROVE EditInv'
  <2>1. OthersAnswered(x) /\ Outcome(x) /\ pc[x] # "done"
    BY <1>3, StepOutcome, StepsBeforeDone
  <2>2. /\ pc'[x] # "idle" /\ (pc[x] = "idle" => Request(x))
        /\ PastReading(x)' => PastReading(x) \/ (~EditLost(x) /\ UNCHANGED edited /\ pc[x] = "reading")
    BY <1>3, StepReading
  <2>3. \A y \in Exchanges : pc[y] = "done" => pc'[y] = "done"
    BY <2>1 DEF OthersAnswered
  <2>4. \A z \in Exchanges : Holds[z] \subseteq Exchanges BY HandlerAssumption
  <2>5. ASSUME NEW z \in Exchanges, pc'[z] # "idle" PROVE \A y \in Holds[z] : pc'[y] = "done"
    <3>1. CASE z = x /\ pc[x] = "idle"
      BY <2>2, <2>3, <2>4, <3>1 DEF Request
    <3>2. CASE z = x /\ pc[x] # "idle"
      BY <2>3, <2>4, <3>2 DEF EditInv
    <3>3. CASE z # x
      BY <2>1, <2>3, <2>4, <2>5, <3>3 DEF EditInv, OthersAnswered
    <3> QED BY <3>1, <3>2, <3>3
  <2>6. \A z \in Exchanges : answer'[z] = "goes_on" => pc'[z] # "idle"
    BY <2>1, <2>2 DEF EditInv, OthersAnswered
  <2>7. \/ edited' \subseteq edited
        \/ edited' = edited \cup {x}
    BY <2>1 DEF Outcome, Quiet, EditsTurn, RejectsTurn, EndsTurn, EndRun
  <2>8. ASSUME NEW z \in Exchanges, PastReading(z)', NEW y \in edited' \cap Holds[z]
        PROVE  PutBack(z, y)
    <3>1. pc'[z] # "idle" BY <2>6, <2>8 DEF PastReading
    <3>2. CASE z = x /\ PastReading(x)
      <4>1. pc[x] # "idle" BY <3>2 DEF PastReading, EditInv
      <4>2. y # x BY <2>1, <2>8, <3>2, <4>1 DEF EditInv
      <4> QED BY <2>7, <2>8, <3>2, <4>2 DEF EditInv
    <3>3. CASE z = x /\ ~PastReading(x)
      <4>1. ~EditLost(x) /\ y \in edited /\ y \in Holds[x] BY <2>2, <2>8, <3>3
      <4> QED BY <3>3, <4>1 DEF EditLost, PutBack
    <3>4. CASE z # x
      <4>1. PastReading(z) /\ pc[z] # "idle"
        BY <2>1, <2>8, <3>1, <3>4 DEF PastReading, OthersAnswered
      <4>2. y # x BY <2>1, <2>8, <4>1 DEF EditInv
      <4> QED BY <2>7, <2>8, <4>1, <4>2 DEF EditInv
    <3> QED BY <3>2, <3>3, <3>4
  <2>9. \A z \in Exchanges : PastReading(z)' => \A y \in edited' \cap Holds[z] : PutBack(z, y)'
    BY <2>8 DEF PutBack, Mark
  <2> QED BY <2>5, <2>6, <2>9 DEF EditInv
<1> QED BY <1>1, <1>2, <1>3 DEF Next, Step

LEMMA SettledNext == TypeOK /\ SettledIsDone /\ [Next]_vars => SettledIsDone'
<1> SUFFICES ASSUME TypeOK, SettledIsDone, [Next]_vars PROVE SettledIsDone'
  OBVIOUS
<1>1. CASE EndSample BY <1>1 DEF EndSample, xVars, SettledIsDone
<1>2. CASE UNCHANGED vars BY <1>2 DEF vars, xVars, SettledIsDone
<1>3. ASSUME NEW x \in Exchanges, Step(x) PROVE SettledIsDone'
  BY <1>3, StepOutcome DEF SettledIsDone, Settles, OthersAnswered
<1> QED BY <1>1, <1>2, <1>3 DEF Next, Step

LEMMA SettledHolds == Spec => [](TypeOK /\ SettledIsDone)
<1>1. Init => SettledIsDone BY DEF Init, SettledIsDone
<1> QED BY <1>1, SettledNext, TypeCorrect, PTL DEF Spec

(* A request goes on to the model only if every edited turn it holds is    *)
(* one whose change can be put back where the turn was made: no later edit *)
(* and no other exchange's step gets between the check and the request.    *)
THEOREM EditedTurnHolds == Spec => []EditedTurnIsMatched
<1>1. Init => EditInv
  BY DEF Init, EditInv, PastReading
<1>2. EditInv => EditedTurnIsMatched
  BY DEF EditInv, EditedTurnIsMatched, PastReading, PutBack
<1> QED BY <1>1, <1>2, EditNext, SettledHolds, PTL DEF Spec

-----------------------------------------------------------------------------
(* y's rejection is no longer told: the run ended where it happened.       *)
Stopped(y) ==
  IF Named THEN refusal
  ELSE \E z \in Exchanges : Mark(z) = Mark(y) /\ attempt[z] = "terminate"

(* A point keeps turns refused whole where it is, and every turn refused   *)
(* whole that is still to be told is kept at a point that is added.        *)
PointInv ==
  /\ \A p \in points : \A y \in p.turns :
       attempt[y] = "reject" /\ ConversationOf[y] = p.conv /\ Mark(y) = p.mark
  /\ \A y \in Exchanges : attempt[y] = "reject" /\ ~Stopped(y) =>
       \E p \in points : p.added /\ y \in p.turns

LEMMA PointTurns == TypeOK => \A p \in points : p.turns \subseteq Exchanges
BY DEF TypeOK

LEMMA PointStep ==
  ASSUME TypeOK, SettledIsDone, PointInv, NEW x \in Exchanges, Step(x)
  PROVE  PointInv'
<1>0. OthersAnswered(x) /\ Outcome(x) /\ attempt[x] \notin {"reject", "terminate"}
  BY StepOutcome, StepsBeforeDone DEF SettledIsDone
<1>1. \A y \in Exchanges : /\ attempt[y] = "reject" => attempt'[y] = "reject"
                           /\ attempt[y] = "terminate" => attempt'[y] = "terminate"
  BY <1>0 DEF OthersAnswered
<1>2. /\ \A p \in points : \A y \in p.turns :
           attempt[y] = "reject" /\ ConversationOf[y] = p.conv /\ Mark(y) = p.mark
      /\ \A p \in points : p.turns \subseteq Exchanges
  BY PointTurns DEF PointInv
<1>3. \A p \in points : \A y \in p.turns :
        attempt'[y] = "reject" /\ ConversationOf[y] = p.conv /\ Mark(y) = p.mark
  BY <1>1, <1>2
<1>4. \A y \in Exchanges : attempt[y] = "reject" /\ ~Stopped(y) =>
        \E p \in points : p.added /\ y \in p.turns
  BY DEF PointInv
<1>5. ASSUME UNCHANGED refusal PROVE \A y \in Exchanges : Stopped(y) => Stopped(y)'
  BY <1>1, <1>5 DEF Stopped, Mark
<1>6. SUFFICES
        /\ \A p \in points' : \A y \in p.turns :
             attempt'[y] = "reject" /\ ConversationOf[y] = p.conv /\ Mark(y) = p.mark
        /\ \A y \in Exchanges : attempt'[y] = "reject" /\ ~Stopped(y)' =>
             \E p \in points' : p.added /\ y \in p.turns
  BY DEF PointInv, Mark
<1>7. ASSUME UNCHANGED points, UNCHANGED refusal, attempt'[x] # "reject"
      PROVE  /\ \A p \in points' : \A y \in p.turns :
                  attempt'[y] = "reject" /\ ConversationOf[y] = p.conv /\ Mark(y) = p.mark
             /\ \A y \in Exchanges : attempt'[y] = "reject" /\ ~Stopped(y)' =>
                  \E p \in points' : p.added /\ y \in p.turns
  <2>1. \A y \in Exchanges : attempt'[y] = "reject" => attempt[y] = "reject"
    BY <1>0, <1>7 DEF OthersAnswered
  <2> QED BY <1>3, <1>4, <1>5, <1>7, <2>1
<1>8. CASE Quiet(x) \/ EditsTurn(x)
  BY <1>7, <1>8 DEF Quiet, EditsTurn
<1>9. CASE RejectsTurn(x)
  <2> DEFINE new == [conv |-> ConversationOf[x], mark |-> Mark(x), added |-> TRUE,
                     turns |-> {x} \cup UNION {p.turns : p \in OpenPoints(x)}]
  <2>1. points' = (points \ OpenPoints(x)) \cup {new} /\ attempt'[x] = "reject" /\ UNCHANGED refusal
    BY <1>9 DEF RejectsTurn
  <2>2. \A y \in new.turns :
          attempt'[y] = "reject" /\ ConversationOf[y] = new.conv /\ Mark(y) = new.mark
    <3> TAKE y \in new.turns
    <3>1. CASE y = x BY <3>1, <2>1
    <3>2. CASE y # x
      <4>1. PICK p \in OpenPoints(x) : y \in p.turns BY <3>2
      <4> QED BY <4>1, <1>3 DEF OpenPoints
    <3> QED BY <3>1, <3>2
  <2>3. \A p \in points' : \A y \in p.turns :
          attempt'[y] = "reject" /\ ConversationOf[y] = p.conv /\ Mark(y) = p.mark
    BY <1>3, <2>1, <2>2
  <2>4. ASSUME NEW y \in Exchanges, attempt'[y] = "reject", ~Stopped(y)'
        PROVE  \E p \in points' : p.added /\ y \in p.turns
    <3>1. CASE y = x
      <4>1. new \in points' /\ new.added /\ y \in new.turns BY <3>1, <2>1
      <4> QED BY <4>1
    <3>2. CASE y # x
      <4>1. attempt[y] = "reject" /\ ~Stopped(y)
        BY <1>0, <1>5, <2>1, <2>4, <3>2 DEF OthersAnswered
      <4>2. PICK p \in points : p.added /\ y \in p.turns BY <1>4, <4>1
      <4>3. CASE p \in OpenPoints(x)
        <5>1. y \in new.turns /\ new.added /\ new \in points' BY <2>1, <4>2, <4>3
        <5> QED BY <5>1
      <4>4. CASE p \notin OpenPoints(x) BY <2>1, <4>2, <4>4
      <4> QED BY <4>3, <4>4
    <3> QED BY <3>1, <3>2
  <2> QED BY <2>3, <2>4
<1>10. CASE EndsTurn(x)
  <2>1. \A y \in Exchanges : attempt'[y] = "reject" => attempt[y] = "reject"
    BY <1>0, <1>10 DEF OthersAnswered, EndsTurn
  <2>2. CASE Named
    <3>1. points' = {} /\ refusal' BY <1>10, <2>2 DEF EndsTurn, EndRun
    <3> QED BY <2>2, <3>1 DEF Stopped
  <2>3. CASE ~Named
    <3>1. points' = {[p EXCEPT !.added = @ /\ p.mark # Mark(x)] : p \in points}
      BY <1>10, <2>3 DEF EndsTurn, EndRun
    <3>2. ASSUME NEW p \in points
          PROVE  LET q == [p EXCEPT !.added = @ /\ p.mark # Mark(x)]
                 IN  /\ q.turns = p.turns /\ q.conv = p.conv /\ q.mark = p.mark
                     /\ q.added <=> p.added /\ p.mark # Mark(x)
      <4>1. p \in Point BY TypeParts DEF RunOK
      <4>2. /\ [p EXCEPT !.added = @ /\ p.mark # Mark(x)].turns = p.turns
            /\ [p EXCEPT !.added = @ /\ p.mark # Mark(x)].conv = p.conv
            /\ [p EXCEPT !.added = @ /\ p.mark # Mark(x)].mark = p.mark
        BY <4>1, Zenon DEF Point
      <4>3. [p EXCEPT !.added = @ /\ p.mark # Mark(x)].added <=> p.added /\ p.mark # Mark(x)
        BY <4>1, Zenon DEF Point
      <4> QED BY <4>2, <4>3, Zenon
    <3>3. ASSUME NEW q \in points', NEW y \in q.turns
          PROVE  attempt'[y] = "reject" /\ ConversationOf[y] = q.conv /\ Mark(y) = q.mark
      <4>1. PICK p \in points : q = [p EXCEPT !.added = @ /\ p.mark # Mark(x)] BY <3>1
      <4>2. q.turns = p.turns /\ q.conv = p.conv /\ q.mark = p.mark BY <3>2, <4>1, Zenon
      <4> QED BY <1>3, <4>2
    <3>4. ASSUME NEW y \in Exchanges, attempt'[y] = "reject", ~Stopped(y)'
          PROVE  \E p \in points' : p.added /\ y \in p.turns
      <4>1. attempt'[x] = "terminate" BY <1>10 DEF EndsTurn
      <4>2. Mark(y) # Mark(x) /\ ~Stopped(y)
        BY <1>1, <2>3, <3>4, <4>1 DEF Stopped, Mark
      <4>3. PICK p \in points : p.added /\ y \in p.turns BY <1>4, <2>1, <3>4, <4>2
      <4>4. p.mark # Mark(x) BY <1>2, <4>2, <4>3
      <4> DEFINE q == [p EXCEPT !.added = @ /\ p.mark # Mark(x)]
      <4>5. q \in points' BY <3>1
      <4>6. q.added /\ y \in q.turns BY <3>2, <4>3, <4>4
      <4> QED BY <4>5, <4>6
    <3> QED BY <3>3, <3>4
  <2> QED BY <2>2, <2>3
<1> QED BY <1>0, <1>8, <1>9, <1>10 DEF Outcome

LEMMA PointNext == TypeOK /\ SettledIsDone /\ PointInv /\ [Next]_vars => PointInv'
<1> SUFFICES ASSUME TypeOK, SettledIsDone, PointInv, [Next]_vars PROVE PointInv'
  OBVIOUS
<1>1. CASE EndSample
  <2>1. Named /\ UNCHANGED <<points, attempt>> /\ refusal' BY <1>1 DEF EndSample, xVars
  <2> QED BY <2>1 DEF PointInv, Stopped, Mark
<1>2. CASE UNCHANGED vars BY <1>2 DEF vars, runVars, xVars, PointInv, Stopped, Mark
<1>3. ASSUME NEW x \in Exchanges, Step(x) PROVE PointInv'
  BY <1>3, PointStep
<1> QED BY <1>1, <1>2, <1>3 DEF Next, Step

(* Only the reading of its request takes an exchange to amending it.       *)
LEMMA ReadsOnly ==
  ASSUME TypeOK, NEW x \in Exchanges, NEW z \in Exchanges, Step(x),
         pc[z] = "reading", pc'[z] = "amending"
  PROVE  z = x /\ ReadRequest(x) /\
         told'[x] = (UNION {p.turns : p \in {q \in Continued(x) : q.added}}) \ Holds[x]
<1>1. z = x
  <2>1. \A y \in Exchanges \ {x} : pc'[y] = pc[y]
    <3>1. CASE Reply(x) \/ ReplyStep(x) \/ ReplyNotJudged(x)
      BY <3>1, ReplyMoves DEF OthersKept
    <3>2. CASE Request(x)
      BY <3>2, Moves DEF Request, TypeOK
    <3>3. CASE RequestStep(x) \/ RequestNotJudged(x)
      <4>1. CASE BeforeGenerate(x) BY <4>1, Moves DEF BeforeGenerate, TypeOK
      <4>2. CASE ReadRequest(x) \/ AmendRequest(x) \/ NextResult(x) \/ Wake(x)
        BY <4>2, Moves DEF ReadRequest, AmendRequest, NextResult, Wake, TakeResult
      <4>3. CASE ResultJudged(x) \/ ResultsDone(x) \/ RequestNotJudged(x)
        BY <4>3, Moves DEF ResultJudged, ResultsDone, RequestNotJudged
      <4> QED BY <3>3, <4>1, <4>2, <4>3 DEF RequestStep
    <3> QED BY <3>1, <3>2, <3>3 DEF Step
  <2> QED BY <2>1
<1>2. ReadRequest(x)
  <2>1. ~(Reply(x) \/ ReplyStep(x) \/ ReplyNotJudged(x))
    BY <1>1, ReplyMoves DEF ReplyLabels
  <2>2. ~Request(x) BY <1>1 DEF Request
  <2>3. ~RequestNotJudged(x) BY <1>1, Moves DEF RequestNotJudged
  <2> QED BY <1>1, <2>1, <2>2, <2>3
          DEF Step, RequestStep, AmendRequest, NextResult, Wake, ResultJudged, ResultsDone,
              BeforeGenerate
<1>3. told' = [told EXCEPT ![x] =
                 (UNION {p.turns : p \in {q \in Continued(x) : q.added}}) \ Holds[x]]
  BY <1>1, <1>2, Moves DEF ReadRequest
<1> QED BY <1>1, <1>2, <1>3 DEF TypeOK

(* A request is read with every rejection where it continues from, that no *)
(* end of the run took away, and with no other conversation's: however the *)
(* attempts that made them and this request interleave.                    *)
THEOREM RejectedTurnHolds == Spec => RejectedTurnIsTold
<1> DEFINE IsTold ==
      \A x, y \in Exchanges :
        pc[x] = "reading" /\ pc'[x] = "amending" =>
          LET told_of == /\ attempt[y] = "reject" /\ y \notin Holds[x]
                         /\ ConversationOf[y] = ConversationOf[x]
                         /\ Mark(y) \in Range(Marks[x])
              stopped == IF Named THEN refusal
                         ELSE \E z \in Exchanges :
                                Mark(z) = Mark(y) /\ attempt[z] = "terminate"
          IN  /\ told_of /\ ~stopped => y \in told'[x]
              /\ y \in told'[x] => told_of
<1>1. Init => PointInv
  BY DEF Init, PointInv
<1>2. TypeOK /\ PointInv /\ [Next]_vars => [IsTold]_vars
  <2> SUFFICES ASSUME TypeOK, PointInv, Next, NEW x \in Exchanges, NEW y \in Exchanges,
                      pc[x] = "reading", pc'[x] = "amending"
               PROVE  LET told_of == /\ attempt[y] = "reject" /\ y \notin Holds[x]
                                     /\ ConversationOf[y] = ConversationOf[x]
                                     /\ Mark(y) \in Range(Marks[x])
                      IN  /\ told_of /\ ~Stopped(y) => y \in told'[x]
                          /\ y \in told'[x] => told_of
    BY DEF Stopped
  <2>1. ~EndSample BY DEF EndSample, xVars
  <2>2. told'[x] = (UNION {p.turns : p \in {q \in Continued(x) : q.added}}) \ Holds[x]
    BY <2>1, ReadsOnly DEF Next, Step
  <2>3. \A p \in points : \A t \in p.turns :
          attempt[t] = "reject" /\ ConversationOf[t] = p.conv /\ Mark(t) = p.mark
    BY DEF PointInv
  <2>4. ASSUME y \in told'[x]
        PROVE  /\ attempt[y] = "reject" /\ y \notin Holds[x]
               /\ ConversationOf[y] = ConversationOf[x] /\ Mark(y) \in Range(Marks[x])
    <3>1. PICK p \in Continued(x) : y \in p.turns /\ y \notin Holds[x] BY <2>2, <2>4
    <3> QED BY <2>3, <3>1 DEF Continued
  <2>5. ASSUME attempt[y] = "reject", y \notin Holds[x], ConversationOf[y] = ConversationOf[x],
               Mark(y) \in Range(Marks[x]), ~Stopped(y)
        PROVE  y \in told'[x]
    <3>1. PICK p \in points : p.added /\ y \in p.turns BY <2>5 DEF PointInv
    <3>2. p \in Continued(x) BY <2>3, <2>5, <3>1 DEF Continued
    <3> QED BY <2>2, <2>5, <3>1, <3>2
  <2> QED BY <2>4, <2>5
<1> QED BY <1>1, <1>2, PointNext, SettledHolds, PTL DEF Spec, RejectedTurnIsTold

-----------------------------------------------------------------------------

(***************************************************************************)
(* The stream of a reply keeps the promise of its outputs, and its client  *)
(* has only what was judged, whatever the bounds on chunks, what is held   *)
(* and keepalives.                                                         *)
(***************************************************************************)
Places == {"error", "passing", "whole", "early", "looked", "judging", "last", "done"}
EndsOf == {"finished", "refuse", "error_event"}
Output == [what : {"bytes", "keepalive"} \cup EndsOf, upto : Nat, judged : BOOLEAN]
Live == reading /\ ~aborted

(* Where an output may be, once the worker gave it.                        *)
Among(o, s) == \E k \in DOMAIN s : s[k] = o
HasGot(o)   == Among(o, got)
InLine(o)   == HasGot(o) \/ Among(o, queue) \/ Among(o, sending)

(* How the reply stands by where its worker does.                          *)
Running == worker \notin {"last", "done"}
Phase ==
  /\ mode \in {"error", "whole", "early"} /\ worker \in Places
  /\ verdict \in {"none", "goes_on", "refused", "not_judged"}
  /\ worker \in {"error", "passing"} => mode = "error"
  /\ worker = "whole" => mode = "whole" /\ ~sent
  /\ worker \in {"early", "looked"} => mode = "early"
  /\ worker = "judging" => mode # "error" /\ (mode = "whole" => ~sent)
  /\ worker \in {"error", "whole", "early", "looked"} => toldHandler = <<>> /\ verdict = "none"
  /\ worker = "judging" => verdict = "none"
  /\ worker = "passing" => verdict = "goes_on"
  /\ worker \in {"passing", "judging", "last", "done"} => \E what : toldHandler = <<what>>

BodyTyped == body \in Seq(Kinds) /\ feeding \in Kinds \cup {"none"} /\ fed \in Nat
ReadTyped == consumed \in 0 .. Len(body) /\ opening \in 0 .. consumed
LineTyped ==
  /\ got \in Seq(Output)
  /\ queue = <<>> \/ \E o \in Output : queue = <<o>>
  /\ \/ sending = <<>> \/ \E o \in Output : sending = <<o>>
     \/ \E o, p \in Output : sending = <<o, p>>
Typed == BodyTyped /\ ReadTyped /\ LineTyped

(* An end is the last the worker gives, and nothing comes after it.        *)
NoEnd(s) == \A k \in DOMAIN s : s[k].what \in {"bytes", "keepalive"}
EndIsLast ==
  /\ Running => ~finished /\ (sending = <<>> \/ \E o \in Output : sending = <<o>> /\ o.what = "bytes")
  /\ worker \in {"error", "whole", "judging"} => sending = <<>>
  /\ worker = "done" => sending = <<>> /\ ~beating
  /\ worker = "last" => finished \/ \E o, p \in Output : sending = <<o, p>>
  /\ beating => Running \/ sending # <<>>
  /\ \A o \in Output : worker = "last" /\ sending = <<o>> => o.what \in EndsOf
  /\ \A o, p \in Output : sending = <<o, p>> => o.what = "bytes" /\ p.what = "finished" /\ worker = "last"
  /\ Running \/ sending # <<>> => NoEnd(got) /\ NoEnd(queue)
  /\ queue # <<>> => NoEnd(got)

(* An end is as the verdict says, and as what went out before it.          *)
EndAsJudged ==
  /\ \A o \in Output : InLine(o) /\ o.what = "finished" => verdict = "goes_on"
  /\ \A o \in Output : InLine(o) /\ o.what \in {"refuse", "error_event"} =>
       verdict \in {"refused", "not_judged"}
Anything == got # <<>> \/ queue # <<>> \/ beating
StatusIsOut ==
  Live =>
    /\ worker \in {"early", "looked", "judging"} => (sent <=> (Anything \/ sending # <<>>))
    /\ worker = "whole" => ~Anything
    /\ \A o \in Output : sending = <<o>> /\ o.what = "refuse" => ~Anything
    /\ \A o \in Output : sending = <<o>> /\ o.what = "error_event" => Anything
    /\ \A o \in Output : queue = <<o>> /\ o.what = "refuse" => got = <<>>
    /\ \A o \in Output : queue = <<o>> /\ o.what = "error_event" => got # <<>>

(* Bytes that are on their way may be.                                     *)
Shown(n) == \A k \in 1 .. n : body[k] \in {"opening", "text"}
MayGo(o) ==
  \/ mode = "error"
  \/ o.judged /\ verdict = "goes_on"
  \/ ~o.judged /\ Early /\ o.upto <= Len(body) /\ Shown(o.upto)
BytesMayGo ==
  /\ \A o \in Output : InLine(o) /\ o.what = "bytes" => MayGo(o)
  /\ worker \in {"early", "looked"} /\ ~holding => Shown(consumed)

(* What was fed is there, as long as it is wanted.                         *)
Waiting == IF feeding = "none" THEN 0 ELSE 1
InputIsThere ==
  /\ inputEnded => feeding = "none"
  /\ mode = "error" => ~over
  /\ ~over /\ ~aborted /\ ~finished => fed = Len(body) + Waiting
  /\ worker = "looked" /\ ending => inputEnded /\ ~over /\ consumed = Len(body)
  /\ worker = "judging" => inputEnded

(* What of the body went out: up to the first call that was read, but for  *)
(* the opening that waits; all of it where the reply goes on to its end.   *)
Complete == inputEnded /\ fed = Len(body)
Delivered(n) == n = 0 \/ \E o \in Output : InLine(o) /\ o.what = "bytes" /\ o.upto = n
NoCall(n) == \A k \in 1 .. n : body[k] # "call"
StopsAt(n) == IF holding THEN n < consumed /\ body[n + 1] = "call" ELSE n = consumed
WentOut(n) == n \in opening .. consumed /\ NoCall(n) /\ StopsAt(n) /\ Delivered(n - opening)
OutIsWhole ==
  Live =>
    /\ worker = "judging" => Complete /\ (Early => consumed = Len(body))
    /\ worker = "passing" => Delivered(consumed)
    /\ worker = "error" => consumed = 0
    /\ worker \in {"early", "looked", "judging"} /\ Early => \E n \in Nat : WentOut(n)
    /\ \A o \in Output : InLine(o) /\ o.what = "finished" => Complete /\ Delivered(fed)
HasAll == fed = 0 \/ \E b \in Output : HasGot(b) /\ b.what = "bytes" /\ b.upto = fed
GotIsWhole == \A o \in Output : HasGot(o) /\ o.what = "finished" => inputEnded /\ HasAll

-----------------------------------------------------------------------------
LEMMA SmallestElement ==
  ASSUME NEW S \in SUBSET Nat, S # {}
  PROVE  \E k \in S : \A l \in S : k <= l
<1> DEFINE Less == {ss \in Nat \X Nat : ss[1] < ss[2]}
<1>1. IsWellFoundedOn(Less, Nat)
  BY NatLessThanWellFounded DEF OpToRel
<1> HIDE DEF Less
<1>2. PICK k \in S : \A l \in S : <<l, k>> \notin Less
  BY <1>1, WFMin
<1>3. \A l \in S : ~(l < k)
  BY <1>2 DEF Less
<1> QED
  BY <1>3

(* How much of the body is free of calls is the one place where it ends.   *)
LEMMA FreeIs ==
  ASSUME body \in Seq(Kinds), NEW from \in 0 .. Len(body)
  PROVE  /\ Free(from) \in from .. Len(body) /\ EndsFree(from, Free(from))
         /\ \A n \in from .. Len(body) : EndsFree(from, n) => n = Free(from)
<1> DEFINE len == Len(body)
           S == {n \in from .. len : n < len => body[n + 1] = "call"}
<1>0. len \in Nat /\ from \in Nat /\ from <= len
  OBVIOUS
<1> HIDE DEF len
<1>1. S \in SUBSET Nat /\ S # {}
  <2>1. len \in S
    BY <1>0
  <2>2. from .. len \subseteq Nat
    BY <1>0
  <2>3. S \subseteq from .. len
    OBVIOUS
  <2> QED
    BY <2>1, <2>2, <2>3, Zenon
<1>2. PICK m \in S : \A n \in S : m <= n
  BY <1>1, SmallestElement
<1>3. ASSUME NEW k \in from + 1 .. m PROVE body[k] # "call"
  <2> SUFFICES ASSUME body[k] = "call" PROVE FALSE
    OBVIOUS
  <2>1. k - 1 \in from .. len /\ k - 1 + 1 = k /\ k - 1 < m
    BY <1>0, <1>2
  <2>2. k - 1 \in S
    BY <2>1
  <2> QED
    BY <1>2, <2>1, <2>2
<1>4. m \in from .. len /\ EndsFree(from, m)
  BY <1>2, <1>3 DEF EndsFree, len
<1>5. Free(from) \in from .. len /\ EndsFree(from, Free(from))
  BY <1>4 DEF Free, len
<1>6. ASSUME NEW i \in from .. len, NEW j \in from .. len, EndsFree(from, i), EndsFree(from, j)
      PROVE  ~(i < j)
  <2> SUFFICES ASSUME i < j PROVE FALSE
    OBVIOUS
  <2>1. i + 1 \in from + 1 .. j /\ i < len
    BY <1>0, <1>6
  <2> QED
    BY <1>6, <2>1 DEF EndsFree, len
<1>7. \A n \in from .. len : EndsFree(from, n) => n = Free(from)
  BY <1>0, <1>5, <1>6
<1> QED
  BY <1>5, <1>7 DEF len

LEMMA OutputsAre ==
  /\ \A n \in Nat : Chunks(n, TRUE) \in Output /\ Chunks(n, FALSE) \in Output
  /\ KeepAlive \in Output
  /\ \A how \in EndsOf : Ending(how) \in Output
BY DEF Chunks, KeepAlive, Ending, Output, EndsOf

-----------------------------------------------------------------------------
(* The first of what is on its way.                                        *)
LEMMA OneOrTwo ==
  /\ \A o : Head(<<o>>) = o /\ Tail(<<o>>) = <<>> /\ Len(<<o>>) = 1 /\ <<o>> # <<>>
  /\ \A o, p : Head(<<o, p>>) = o /\ Tail(<<o, p>>) = <<p>> /\ Len(<<o, p>>) = 2 /\ <<o, p>> # <<>>
OBVIOUS

(* What the steps of the input and of the line leave as it is.             *)
SameInput == /\ mode' = mode /\ body' = body /\ feeding' = feeding /\ fed' = fed
             /\ inputEnded' = inputEnded /\ aborted' = aborted /\ over' = over
SameWork == /\ worker' = worker /\ consumed' = consumed /\ holding' = holding
            /\ ending' = ending /\ opening' = opening /\ toldHandler' = toldHandler /\ verdict' = verdict
SameLine == /\ queue' = queue /\ reading' = reading /\ got' = got /\ sending' = sending
            /\ beating' = beating

LEMMA FeedDoes ==
  ASSUME BodyTyped, NEW kind \in Kinds, Feed(kind)
  PROVE  /\ SameWork /\ SameLine /\ sent' = sent /\ finished' = finished
         /\ mode' = mode /\ inputEnded' = inputEnded /\ aborted' = aborted /\ ~inputEnded
         /\ fed' = fed + 1 /\ feeding = "none"
         /\ \/ /\ mode # "error" /\ over' = TRUE /\ body' = body /\ feeding' = feeding
            \/ over' = over /\ body' = body /\ feeding' = kind
            \/ over' = over /\ ~Closed /\ body' = Append(body, kind) /\ feeding' = feeding
            \/ over' = over /\ Closed /\ body' = body /\ feeding' = feeding
<1>1. /\ SameWork /\ SameLine /\ sent' = sent /\ finished' = finished
      /\ mode' = mode /\ inputEnded' = inputEnded /\ aborted' = aborted /\ ~inputEnded
      /\ fed' = fed + 1 /\ feeding = "none"
  BY DEF Feed, SameWork, SameLine, outputVars
<1>2. \/ /\ mode # "error" /\ over' = TRUE /\ body' = body /\ feeding' = feeding
      \/ over' = over /\ body' = body /\ feeding' = kind
      \/ over' = over /\ Takes(kind) /\ feeding' = feeding
  BY DEF Feed
<1>3. Takes(kind) => \/ ~Closed /\ body' = Append(body, kind)
                     \/ Closed /\ body' = body
  BY DEF Takes
<1> QED
  BY <1>1, <1>2, <1>3

LEMMA FeedGoesOnDoes ==
  ASSUME BodyTyped, FeedGoesOn
  PROVE  /\ SameWork /\ SameLine /\ sent' = sent /\ finished' = finished
         /\ mode' = mode /\ inputEnded' = inputEnded /\ aborted' = aborted /\ over' = over
         /\ fed' = fed /\ feeding \in Kinds /\ feeding' = "none"
         /\ \/ ~Closed /\ body' = Append(body, feeding)
            \/ Closed /\ body' = body
<1>1. /\ SameWork /\ SameLine /\ sent' = sent /\ finished' = finished
      /\ mode' = mode /\ inputEnded' = inputEnded /\ aborted' = aborted /\ over' = over
      /\ fed' = fed /\ feeding \in Kinds /\ feeding' = "none"
  BY DEF FeedGoesOn, SameWork, SameLine, outputVars, BodyTyped
<1>2. \/ ~Closed /\ body' = Append(body, feeding)
      \/ Closed /\ body' = body
  BY DEF FeedGoesOn, Takes
<1> QED
  BY <1>1, <1>2

LEMMA EndOrAbortDoes ==
  ASSUME EndInput \/ Abort
  PROVE  /\ SameWork /\ SameLine /\ sent' = sent /\ finished' = finished
         /\ mode' = mode /\ body' = body /\ feeding' = feeding /\ fed' = fed /\ over' = over
         /\ aborted => aborted'
         /\ \/ inputEnded' /\ (aborted' <=> aborted) /\ feeding = "none"
            \/ (inputEnded' <=> inputEnded) /\ aborted'
BY DEF EndInput, Abort, SameWork, SameLine, outputVars

(* The body only grows, and what was read of it stays.                     *)
LEMMA BodyGrows ==
  ASSUME body \in Seq(Kinds), NEW kind \in Kinds, body' = Append(body, kind)
  PROVE  /\ body' \in Seq(Kinds) /\ Len(body') = Len(body) + 1
         /\ \A n \in 1 .. Len(body) : body'[n] = body[n]
         /\ body'[Len(body) + 1] = kind
<1>1. /\ Append(body, kind) \in Seq(Kinds) /\ Len(Append(body, kind)) = Len(body) + 1
      /\ \A n \in 1 .. Len(body) : Append(body, kind)[n] = body[n]
      /\ Append(body, kind)[Len(body) + 1] = kind
  BY AppendProperties
<1> QED
  BY <1>1

LEMMA DeliverDoes ==
  ASSUME LineTyped, Deliver
  PROVE  /\ SameInput /\ SameWork /\ sent' = sent
         /\ got' = got /\ reading' = reading /\ beating' = beating /\ ~beating
         /\ \E o \in Output :
              /\ \/ Live /\ queue = <<>> /\ queue' = <<o>>
                 \/ ~Live /\ queue' = queue
              /\ \/ /\ sending = <<o>> /\ sending' = <<>>
                    /\ finished' <=> finished
                 \/ \E p \in Output : /\ sending = <<o, p>> /\ sending' = <<p>>
                                      /\ finished' <=> (finished \/ p.what # "bytes")
<1>1. /\ SameInput /\ SameWork /\ sent' = sent
      /\ got' = got /\ reading' = reading /\ beating' = beating /\ ~beating
  BY DEF Deliver, SameInput, SameWork, inputVars
<1>2. /\ \/ Live /\ queue = <<>> /\ queue' = <<Head(sending)>>
         \/ ~Live /\ queue' = queue
  BY DEF Deliver, Live
<1>3. /\ sending # <<>> /\ sending' = Tail(sending)
      /\ finished' <=> (finished \/ (Len(sending) > 1 /\ sending[2].what # "bytes"))
  BY DEF Deliver
<1>4. CASE \E o \in Output : sending = <<o>>
  <2>1. PICK o \in Output : sending = <<o>>
    BY <1>4
  <2>2. Head(sending) = o /\ sending' = <<>> /\ (finished' <=> finished)
    BY <1>3, <2>1
  <2> QED
    BY <1>1, <1>2, <2>1, <2>2
<1>5. CASE \E o, p \in Output : sending = <<o, p>>
  <2>1. PICK o \in Output, p \in Output : sending = <<o, p>>
    BY <1>5
  <2>2. Head(sending) = o /\ sending' = <<p>> /\ (finished' <=> (finished \/ p.what # "bytes"))
    BY <1>3, <2>1
  <2> QED
    BY <1>1, <1>2, <2>1, <2>2
<1> QED
  BY <1>3, <1>4, <1>5 DEF LineTyped

LEMMA BeatDoes ==
  ASSUME Beat
  PROVE  /\ SameInput /\ SameWork /\ queue' = queue /\ reading' = reading /\ got' = got
         /\ sending' = sending /\ sending = <<>> /\ ~beating /\ beating' = TRUE /\ sent' = TRUE
         /\ finished' = finished /\ Early /\ ~finished /\ ~aborted /\ worker # "done"
BY DEF Beat, SameInput, SameWork, inputVars, outputVars, Closed

LEMMA BeatGoesOutDoes ==
  ASSUME BeatGoesOut
  PROVE  /\ SameInput /\ SameWork /\ reading' = reading /\ got' = got /\ sending' = sending
         /\ beating /\ beating' = FALSE /\ sent' = sent /\ finished' = finished
         /\ \/ Live /\ queue = <<>> /\ queue' = <<KeepAlive>>
            \/ ~Live /\ queue' = queue
BY DEF BeatGoesOut, SameInput, SameWork, inputVars, Live

LEMMA CollectDoes ==
  ASSUME LineTyped, Collect
  PROVE  /\ SameInput /\ SameWork /\ sending' = sending /\ beating' = beating
         /\ sent' = sent /\ finished' = finished /\ queue' = <<>>
         /\ \E o \in Output :
              /\ queue = <<o>>
              /\ \/ ~Live /\ got' = got /\ ~reading'
                 \/ Live /\ got' = Append(got, o) /\ reading' = reading
<1>1. /\ SameInput /\ SameWork /\ sending' = sending /\ beating' = beating
      /\ sent' = sent /\ finished' = finished /\ queue' = <<>> /\ queue # <<>>
  BY DEF Collect, SameInput, SameWork, inputVars
<1>2. PICK o \in Output : queue = <<o>>
  BY <1>1 DEF LineTyped
<1>3. Head(queue) = o
  BY <1>2
<1>4. \/ ~Live /\ got' = got /\ ~reading'
      \/ Live /\ got' = Append(got, o) /\ reading' = reading
  BY <1>3 DEF Collect, Live
<1> QED
  BY <1>1, <1>2, <1>4

LEMMA StopReadingDoes ==
  ASSUME StopReading
  PROVE  /\ SameInput /\ SameWork /\ sending' = sending /\ beating' = beating
         /\ sent' = sent /\ finished' = finished /\ queue' = <<>> /\ got' = got /\ ~reading'
BY DEF StopReading, SameInput, SameWork, inputVars

-----------------------------------------------------------------------------
(* What a step of the worker but Deliver leaves as it is, and the ways it  *)
(* ends.                                                                   *)
Works == /\ SameInput /\ sending = <<>>
         /\ queue' = queue /\ reading' = reading /\ got' = got
Reads == consumed' = consumed \/ consumed' = Len(body)
SameRead == consumed' = consumed /\ holding' = holding /\ ending' = ending
            /\ opening' = opening
Gives(outputs, next) == sending' = outputs /\ worker' = next /\ beating' = beating
StreamStopped == sending' = <<>> /\ worker' = "done" /\ finished' = TRUE /\ beating' = FALSE

NotJudged ==
  /\ Works /\ Reads /\ opening' = opening /\ StreamStopped
  /\ worker \in {"whole", "early", "looked", "judging"} /\ verdict' = "not_judged"
  /\ \/ worker = "judging" /\ toldHandler' = toldHandler
     \/ worker # "judging" /\ \E what : toldHandler' = Append(toldHandler, what)
FailsNow ==
  /\ Works /\ Reads /\ opening' = opening /\ (finished' <=> TRUE)
  /\ worker \in {"early", "judging"} /\ verdict' \in {"refused", "not_judged"}
  /\ \/ worker = "judging" /\ toldHandler' = toldHandler
     \/ worker # "judging" /\ \E what : toldHandler' = Append(toldHandler, what)
  /\ \/ sent /\ Gives(<<Ending("error_event")>>, "last")
     \/ ~sent /\ Gives(<<Ending("refuse")>>, "last")
ToJudging ==
  /\ Works /\ SameRead /\ Gives(<<>>, "judging") /\ (finished' <=> finished) /\ sent' = sent
  /\ \E what : toldHandler' = Append(toldHandler, what)
  /\ verdict' = verdict
  /\ \/ worker = "whole" /\ inputEnded /\ ~over
     \/ worker = "looked" /\ ending
StartsPassing ==
  /\ Works /\ SameRead /\ Gives(<<>>, "passing") /\ (finished' <=> finished)
  /\ (\E what : toldHandler' = Append(toldHandler, what)) /\ worker = "error" /\ verdict' = "goes_on"
Passes ==
  /\ Works /\ worker = "passing" /\ verdict' = verdict /\ toldHandler' = toldHandler
  /\ consumed' = Len(body) /\ opening' = opening
  /\ Gives(<<Chunks(Len(body), FALSE)>>, "passing") /\ (finished' <=> finished)
StopsPassing ==
  /\ Works /\ worker = "passing" /\ SameRead /\ StreamStopped /\ verdict' = verdict /\ toldHandler' = toldHandler
EndsPassing ==
  /\ Works /\ worker = "passing" /\ SameRead /\ verdict' = verdict /\ toldHandler' = toldHandler
  /\ Gives(<<Ending("finished")>>, "last") /\ (finished' <=> TRUE)
  /\ Backlog = 0 /\ inputEnded
LetsNothingGo ==
  /\ Works /\ worker = "early" /\ verdict' = verdict /\ toldHandler' = toldHandler /\ ~over
  /\ consumed' = Len(body) /\ (holding' <=> (holding \/ Unread("call"))) /\ ending' = inputEnded
  /\ sent' = sent /\ Gives(<<>>, "looked") /\ (finished' <=> finished)
  /\ holding \/ ~Unread("unreadable")
  /\ \/ (holding \/ Free(consumed) = consumed) /\ opening' = opening
     \/ ~holding /\ opening' = opening + (Free(consumed) - consumed)
LetsGo ==
  /\ Works /\ worker = "early" /\ verdict' = verdict /\ toldHandler' = toldHandler /\ ~over
  /\ consumed' = Len(body) /\ (holding' <=> (holding \/ Unread("call"))) /\ ending' = inputEnded
  /\ ~holding /\ ~Unread("unreadable") /\ (sent' <=> TRUE) /\ opening' = 0
  /\ Gives(<<Chunks(Free(consumed), FALSE)>>, "looked") /\ (finished' <=> finished)
LooksOn ==
  /\ Works /\ worker = "looked" /\ verdict' = verdict /\ toldHandler' = toldHandler /\ ~ending
  /\ SameRead /\ sent' = sent /\ Gives(<<>>, "early") /\ (finished' <=> finished)
EndsJudged ==
  /\ Works /\ worker = "judging" /\ SameRead /\ verdict' = "goes_on" /\ toldHandler' = toldHandler
  /\ Gives(<<Ending("finished")>>, "last") /\ (finished' <=> TRUE)
  /\ mode # "whole" /\ Released >= Len(body)
GoesOnJudged ==
  /\ Works /\ worker = "judging" /\ SameRead /\ verdict' = "goes_on" /\ toldHandler' = toldHandler
  /\ Gives(<<Chunks(Len(body), TRUE), Ending("finished")>>, "last")
  /\ (finished' <=> finished)
EndsAll ==
  /\ Works /\ worker = "last" /\ SameRead /\ StreamStopped /\ verdict' = verdict /\ toldHandler' = toldHandler

LEMMA OutsAre ==
  /\ \A next : Outs(<<>>, next) =>
       sending' = <<>> /\ worker' = next /\ (finished' <=> finished)
  /\ \A next, n, isJudged : Outs(<<Chunks(n, isJudged)>>, next) =>
       sending' = <<Chunks(n, isJudged)>> /\ worker' = next /\ (finished' <=> finished)
  /\ \A how \in EndsOf : Outs(<<Ending(how)>>, "last") =>
       sending' = <<Ending(how)>> /\ worker' = "last" /\ (finished' <=> TRUE)
  /\ \A n, isJudged : Outs(<<Chunks(n, isJudged), Ending("finished")>>, "last") =>
       /\ sending' = <<Chunks(n, isJudged), Ending("finished")>>
       /\ worker' = "last" /\ (finished' <=> finished)
<1>1. \A n, isJudged : Chunks(n, isJudged).what = "bytes"
  BY DEF Chunks
<1>2. \A how \in EndsOf : Ending(how).what # "bytes"
  BY DEF Ending, EndsOf
<1>3. \A s, next : Outs(s, next) =>
        sending' = s /\ worker' = next
        /\ (finished' <=> (finished \/ (s # <<>> /\ Head(s).what # "bytes")))
  BY DEF Outs
<1> QED
  BY <1>1, <1>2, <1>3, OneOrTwo

LEMMA RunWholeDoes ==
  ASSUME RunWhole
  PROVE  NotJudged \/ ToJudging
<1>1. Works /\ SameRead /\ worker = "whole" /\ sent' = sent
  BY DEF RunWhole, Works, At, SameInput, inputVars, outputVars, SameRead
<1>2. CASE over /\ Tells("unreadable") /\ Stops(TRUE) /\ verdict' = "not_judged"
  BY <1>1, <1>2 DEF NotJudged, Stops, Tells, StreamStopped, Reads, SameRead, Works
<1>3. CASE Tells("cut_off") /\ Stops(FALSE) /\ verdict' = "not_judged"
  BY <1>1, <1>3 DEF NotJudged, Stops, Tells, StreamStopped, Reads, SameRead, Works
<1>4. CASE /\ ~over /\ inputEnded
           /\ Tells("reply") /\ Outs(<<>>, "judging") /\ UNCHANGED <<raised, beating, verdict>>
  BY <1>1, <1>4, OutsAre DEF ToJudging, Tells, Gives
<1> QED
  BY <1>2, <1>3, <1>4 DEF RunWhole

LEMMA RunErrorDoes ==
  ASSUME RunError
  PROVE  StartsPassing \/ Passes \/ StopsPassing \/ EndsPassing
<1>1. CASE /\ At("error")
           /\ Tells("reply") /\ verdict' = "goes_on" /\ Outs(<<>>, "passing")
           /\ UNCHANGED <<inputVars, consumed, holding, ending, opening, sent, formatted,
                          beating, beats, outputVars, raised>>
  BY <1>1, OutsAre DEF StartsPassing, Works, At, Tells, SameInput, SameRead, inputVars,
     outputVars, Gives
<1>2. CASE /\ At("passing") /\ Backlog > 0
           /\ consumed' = Len(body)
           /\ Outs(<<Chunks(Len(body), FALSE)>>, "passing")
           /\ UNCHANGED <<inputVars, holding, ending, opening, sent, formatted, beating, beats,
                          outputVars, toldHandler, verdict, raised>>
  BY <1>2, OutsAre DEF Passes, Works, At, SameInput, inputVars, outputVars, Gives
<1>3. CASE /\ At("passing") /\ Backlog = 0 /\ aborted
           /\ Stops(FALSE)
           /\ UNCHANGED <<inputVars, consumed, holding, ending, opening, sent, formatted, beats,
                          outputVars, toldHandler, verdict>>
  BY <1>3 DEF StopsPassing, Works, At, SameInput, SameRead, inputVars, outputVars, Stops,
     StreamStopped
<1>4. CASE /\ At("passing") /\ Backlog = 0 /\ inputEnded /\ ~aborted
           /\ Outs(<<Ending("finished")>>, "last")
           /\ UNCHANGED <<inputVars, consumed, holding, ending, opening, sent, formatted,
                          beating, beats, outputVars, toldHandler, verdict, raised>>
  BY <1>4, OutsAre DEF EndsPassing, Works, At, SameInput, SameRead, inputVars, outputVars,
     Gives, EndsOf
<1> QED
  BY <1>1, <1>2, <1>3, <1>4 DEF RunError

LEMMA TwoOutputs ==
  ASSUME NEW o, NEW p
  PROVE  <<o>> \o <<p>> = <<o, p>>
<1> DEFINE S == {o, p}
<1>1. <<o>> \in Seq(S) /\ <<p>> \in Seq(S) /\ <<o, p>> \in Seq(S)
  OBVIOUS
<1>2. Len(<<o>>) = 1 /\ Len(<<p>>) = 1 /\ Len(<<o, p>>) = 2
  OBVIOUS
<1> DEFINE both == <<o>> \o <<p>>
<1>3. /\ both \in Seq(S) /\ Len(both) = 2
      /\ \A i \in 1 .. 2 : both[i] = IF i <= 1 THEN <<o>>[i] ELSE <<p>>[i - 1]
  BY <1>1, <1>2, ConcatProperties
<1> HIDE DEF both
<1>4. both[1] = o /\ both[2] = p
  BY <1>3
<1>5. both = <<o, p>>
  <2> DEFINE pair == <<o, p>>
  <2>1. pair \in Seq(S) /\ Len(pair) = 2 /\ pair[1] = o /\ pair[2] = p
    BY <1>1
  <2> HIDE DEF pair
  <2>2. both = pair
    BY <1>3, <1>4, <2>1, SeqEqual
  <2> QED
    BY <2>2 DEF pair
<1> QED
  BY <1>5 DEF both

LEMMA FailsDoes ==
  ASSUME Fails, sending = <<>>
  PROVE  \/ StreamStopped
         \/ sent /\ Gives(<<Ending("error_event")>>, "last") /\ (finished' <=> TRUE)
BY OutsAre DEF Fails, Stops, StreamStopped, Gives, EndsOf

LEMMA ReleaseEarlyDoes ==
  ASSUME ReleaseEarly
  PROVE  NotJudged \/ FailsNow \/ LetsNothingGo \/ LetsGo
<1>1. Works /\ worker = "early"
  BY DEF ReleaseEarly, Works, At, SameInput, inputVars, outputVars
<1>2. CASE /\ aborted
           /\ Tells("cut_off") /\ Stops(FALSE) /\ verdict' = "not_judged"
           /\ UNCHANGED <<consumed, holding, ending, opening, sent, formatted>>
  BY <1>1, <1>2 DEF NotJudged, Stops, Tells, StreamStopped, Reads, Works
<1>3. CASE /\ ~aborted /\ (over \/ (~holding /\ Unread("unreadable")))
           /\ Tells("unreadable") /\ Fails /\ verdict' = "not_judged"
           /\ consumed' = IF over THEN consumed ELSE Len(body)
           /\ formatted' = (formatted \/ (~over /\ Backlog > 0))
           /\ UNCHANGED <<holding, ending, opening, sent>>
  <2>1. Works /\ Reads /\ opening' = opening /\ worker = "early" /\ verdict' = "not_judged"
        /\ worker # "judging" /\ \E what : toldHandler' = Append(toldHandler, what)
    BY <1>1, <1>3 DEF Reads, Tells
  <2>2. \/ StreamStopped
        \/ sent /\ Gives(<<Ending("error_event")>>, "last") /\ (finished' <=> TRUE)
    BY <1>1, <1>3, FailsDoes DEF Works
  <2>3. CASE StreamStopped
    BY <2>1, <2>3 DEF NotJudged
  <2>4. CASE sent /\ Gives(<<Ending("error_event")>>, "last") /\ (finished' <=> TRUE)
    BY <2>1, <2>4 DEF FailsNow
  <2> QED
    BY <2>2, <2>3, <2>4
<1>4. CASE ~aborted /\ ~over /\ (holding \/ ~Unread("unreadable")) /\ Releases
  <2>1. /\ Works /\ worker = "early" /\ verdict' = verdict /\ toldHandler' = toldHandler /\ ~over
        /\ consumed' = Len(body) /\ (holding' <=> (holding \/ Unread("call"))) /\ ending' = inputEnded
        /\ beating' = beating
        /\ holding \/ ~Unread("unreadable")
    BY <1>1, <1>4 DEF Releases
  <2>2. CASE /\ holding \/ Free(consumed) = consumed
             /\ Outs(<<>>, "looked") /\ UNCHANGED <<opening, sent>>
    BY <2>1, <2>2, OutsAre DEF LetsNothingGo, Gives
  <2>3. CASE /\ ~holding /\ Free(consumed) > consumed /\ Waits
             /\ opening' = opening + (Free(consumed) - consumed)
             /\ Outs(<<>>, "looked") /\ UNCHANGED sent
    BY <2>1, <2>3, OutsAre DEF LetsNothingGo, Gives
  <2>4. CASE /\ ~holding /\ Free(consumed) > consumed /\ ~Waits
             /\ opening' = 0 /\ sent' = TRUE
             /\ Outs(<<Chunks(Free(consumed), FALSE)>>, "looked")
    <3>1. sending' = <<Chunks(Free(consumed), FALSE)>> /\ worker' = "looked" /\ (finished' <=> finished)
      BY <2>4, OutsAre
    <3> QED
      BY <2>1, <2>4, <3>1 DEF LetsGo, Gives
  <2> QED
    BY <1>4, <2>2, <2>3, <2>4 DEF Releases
<1> QED
  BY <1>2, <1>3, <1>4 DEF ReleaseEarly

LEMMA LookedDoes ==
  ASSUME Looked
  PROVE  NotJudged \/ ToJudging \/ LooksOn
<1>1. Works /\ SameRead /\ worker = "looked" /\ sent' = sent
  BY DEF Looked, Works, At, SameInput, inputVars, outputVars, SameRead
<1>2. CASE Tells("cut_off") /\ Stops(FALSE) /\ verdict' = "not_judged"
  BY <1>1, <1>2 DEF NotJudged, Stops, Tells, StreamStopped, Reads, SameRead, Works
<1>3. CASE /\ ~aborted /\ ending
           /\ Tells("reply") /\ Outs(<<>>, "judging") /\ UNCHANGED <<raised, beating, verdict>>
  BY <1>1, <1>3, OutsAre DEF ToJudging, Tells, Gives
<1>4. CASE /\ ~aborted /\ ~ending
           /\ Outs(<<>>, "early") /\ UNCHANGED <<toldHandler, raised, beating, verdict>>
  BY <1>1, <1>4, OutsAre DEF LooksOn, Gives
<1> QED
  BY <1>2, <1>3, <1>4 DEF Looked

LEMMA JudgedDoes ==
  ASSUME Judged, body \in Seq(Kinds), ReadTyped
  PROVE  NotJudged \/ FailsNow \/ EndsJudged \/ GoesOnJudged
<1>1. Works /\ SameRead /\ worker = "judging" /\ toldHandler' = toldHandler
  BY DEF Judged, Works, At, SameInput, inputVars, outputVars, SameRead
<1>2. CASE /\ verdict' = "goes_on"
           /\ \E rest \in (IF mode = "whole" \/ Released < Len(body) THEN {TRUE} ELSE BOOLEAN) :
                /\ Outs((IF mode = "whole" \/ HasRest(rest) THEN <<Chunks(Len(body), TRUE)>>
                         ELSE <<>>) \o <<Ending("finished")>>, "last")
                /\ sent' = (sent \/ (Early /\ HasRest(rest)))
           /\ UNCHANGED <<raised, beating>>
  <2>1. PICK rest \in (IF mode = "whole" \/ Released < Len(body) THEN {TRUE} ELSE BOOLEAN) :
                /\ Outs((IF mode = "whole" \/ HasRest(rest) THEN <<Chunks(Len(body), TRUE)>>
                         ELSE <<>>) \o <<Ending("finished")>>, "last")
    BY <1>2
  <2>2. CASE mode = "whole" \/ HasRest(rest)
    <3>1. <<Chunks(Len(body), TRUE)>> \o <<Ending("finished")>>
            = <<Chunks(Len(body), TRUE), Ending("finished")>>
      BY TwoOutputs, Zenon
    <3>2. Outs(<<Chunks(Len(body), TRUE), Ending("finished")>>, "last")
      BY <2>1, <2>2, <3>1
    <3>3. /\ sending' = <<Chunks(Len(body), TRUE), Ending("finished")>>
          /\ worker' = "last" /\ (finished' <=> finished)
      BY <3>2, OutsAre
    <3>4. beating' = beating /\ verdict' = "goes_on"
      BY <1>2
    <3> QED
      BY <1>1, <3>3, <3>4 DEF GoesOnJudged, Gives
  <2>3. CASE ~(mode = "whole" \/ HasRest(rest))
    <3>1. <<>> \o <<Ending("finished")>> = <<Ending("finished")>>
      OBVIOUS
    <3>2. Outs(<<Ending("finished")>>, "last")
      BY <2>1, <2>3, <3>1
    <3>3. sending' = <<Ending("finished")>> /\ worker' = "last" /\ (finished' <=> TRUE)
      BY <3>2, OutsAre DEF EndsOf
    <3>4. beating' = beating /\ verdict' = "goes_on"
      BY <1>2
    <3>5. mode # "whole" /\ ~(Released < Len(body))
      BY <2>1, <2>3 DEF HasRest
    <3>6. Released \in Int /\ Len(body) \in Nat
      <4>1. 0 \in 0 .. Len(body) /\ opening \in Nat
        BY DEF ReadTyped
      <4>2. Free(0) \in 0 .. Len(body)
        BY <4>1, FreeIs
      <4> QED
        BY <4>1, <4>2 DEF Released
    <3>7. Released >= Len(body)
      BY <3>5, <3>6
    <3> QED
      BY <1>1, <3>3, <3>4, <3>5, <3>7 DEF EndsJudged, Gives
  <2> QED
    BY <2>2, <2>3
<1>3. CASE /\ verdict' = "refused"
           /\ Outs(<<Ending(IF sent THEN "error_event" ELSE "refuse")>>, "last")
           /\ UNCHANGED <<sent, raised, beating>>
  <2>1. CASE sent
    <3>1. sending' = <<Ending("error_event")>> /\ worker' = "last" /\ (finished' <=> TRUE)
      BY <1>3, <2>1, OutsAre DEF EndsOf
    <3> QED
      BY <1>1, <1>3, <2>1, <3>1 DEF FailsNow, Gives, SameRead, Reads
  <2>2. CASE ~sent
    <3>1. sending' = <<Ending("refuse")>> /\ worker' = "last" /\ (finished' <=> TRUE)
      BY <1>3, <2>2, OutsAre DEF EndsOf
    <3> QED
      BY <1>1, <1>3, <2>2, <3>1 DEF FailsNow, Gives, SameRead, Reads
  <2> QED
    BY <2>1, <2>2
<1>4. CASE verdict' = "not_judged" /\ Fails /\ UNCHANGED sent
  <2>1. \/ StreamStopped
        \/ sent /\ Gives(<<Ending("error_event")>>, "last") /\ (finished' <=> TRUE)
    BY <1>1, <1>4, FailsDoes DEF Works
  <2>2. Reads /\ opening' = opening
    BY <1>1 DEF SameRead, Reads
  <2>3. CASE StreamStopped
    BY <1>1, <1>4, <2>2, <2>3 DEF NotJudged
  <2>4. CASE sent /\ Gives(<<Ending("error_event")>>, "last") /\ (finished' <=> TRUE)
    BY <1>1, <1>4, <2>2, <2>4 DEF FailsNow
  <2> QED
    BY <2>1, <2>3, <2>4
<1> QED
  BY <1>2, <1>3, <1>4 DEF Judged

LEMMA RunEndsDoes ==
  ASSUME RunEnds
  PROVE  EndsAll
BY DEF RunEnds, EndsAll, Works, At, SameInput, SameRead, inputVars, outputVars, Stops,
   StreamStopped

(* What a step of the worker is.                                           *)
LEMMA WorkerDoes ==
  ASSUME Worker, body \in Seq(Kinds), ReadTyped
  PROVE  \/ NotJudged \/ FailsNow \/ ToJudging \/ StartsPassing \/ Passes \/ StopsPassing
         \/ EndsPassing \/ LetsNothingGo \/ LetsGo \/ LooksOn \/ EndsJudged \/ GoesOnJudged
         \/ EndsAll \/ Deliver
BY RunWholeDoes, RunErrorDoes, ReleaseEarlyDoes, LookedDoes, JudgedDoes, RunEndsDoes DEF Worker

-----------------------------------------------------------------------------
(* Every step is one of the input, the line or the worker.                 *)
InputMoves ==
  /\ SameWork /\ SameLine /\ sent' = sent /\ finished' = finished /\ mode' = mode
  /\ aborted => aborted'
  /\ body' = body \/ \E kind \in Kinds : body' = Append(body, kind)

LEMMA InputDoes ==
  ASSUME BodyTyped, (\E kind \in Kinds : Feed(kind)) \/ FeedGoesOn \/ EndInput \/ Abort
  PROVE  InputMoves /\ BodyTyped'
<1>1. ASSUME NEW kind \in Kinds, Feed(kind) PROVE InputMoves /\ BodyTyped'
  <2>1. InputMoves
    BY <1>1, FeedDoes DEF InputMoves
  <2>2. fed' = fed + 1 /\ (feeding' = feeding \/ feeding' = kind)
    BY <1>1, FeedDoes
  <2> QED
    BY <2>1, <2>2, BodyGrows DEF InputMoves, BodyTyped
<1>2. ASSUME FeedGoesOn PROVE InputMoves /\ BodyTyped'
  <2>1. InputMoves
    BY <1>2, FeedGoesOnDoes DEF InputMoves
  <2>2. fed' = fed /\ feeding' = "none"
    BY <1>2, FeedGoesOnDoes
  <2> QED
    BY <2>1, <2>2, BodyGrows DEF InputMoves, BodyTyped
<1>3. ASSUME EndInput \/ Abort PROVE InputMoves /\ BodyTyped'
  <2>1. InputMoves
    BY <1>3, EndOrAbortDoes DEF InputMoves
  <2>2. body' = body /\ fed' = fed /\ feeding' = feeding
    BY <1>3, EndOrAbortDoes
  <2> QED
    BY <2>1, <2>2 DEF BodyTyped
<1> QED
  BY <1>1, <1>2, <1>3

LEMMA InputLongens ==
  ASSUME body \in Seq(Kinds), InputMoves
  PROVE  /\ Len(body) \in Nat /\ Len(body') \in Nat /\ Len(body) <= Len(body')
         /\ \A n \in 1 .. Len(body) : body'[n] = body[n]
<1>1. Len(body) \in Nat
  OBVIOUS
<1>2. CASE body' = body
  BY <1>1, <1>2
<1>3. CASE \E kind \in Kinds : body' = Append(body, kind)
  <2>1. PICK kind \in Kinds : body' = Append(body, kind)
    BY <1>3
  <2>2. /\ body' \in Seq(Kinds) /\ Len(body') = Len(body) + 1
        /\ \A n \in 1 .. Len(body) : body'[n] = body[n]
    BY <2>1, BodyGrows
  <2> QED
    BY <1>1, <2>2
<1> QED
  BY <1>2, <1>3 DEF InputMoves

LEMMA StartsTyped ==
  ASSUME ReplyStreamAssumption, ReplyInit
  PROVE  Typed /\ Phase
<1>1. BodyTyped
  BY DEF ReplyInit, BodyTyped
<1>2. ReadTyped
  BY DEF ReplyInit, ReadTyped
<1>3. LineTyped
  BY DEF ReplyInit, LineTyped
<1>4. Phase
  BY DEF ReplyInit, Phase, Places, ReplyStreamAssumption
<1> QED
  BY <1>1, <1>2, <1>3, <1>4 DEF Typed

LEMMA AppendsOne ==
  ASSUME NEW what
  PROVE  Append(<<>>, what) = <<what>>
OBVIOUS

LEMMA StaysInPhase ==
  ASSUME Typed, Phase, ReplyNext
  PROVE  Phase'
<1> USE DEF Places
<1>1. CASE (\E kind \in Kinds : Feed(kind)) \/ FeedGoesOn \/ EndInput \/ Abort
  <2>1. InputMoves
    BY <1>1, InputDoes DEF Typed
  <2> QED
    BY <2>1 DEF InputMoves, Phase, SameWork
<1>2. CASE Deliver \/ BeatGoesOut \/ Collect \/ StopReading
  <2>1. SameInput /\ SameWork /\ sent' = sent
    BY <1>2, DeliverDoes, BeatGoesOutDoes, CollectDoes, StopReadingDoes DEF Typed
  <2> QED
    BY <2>1 DEF Phase, SameInput, SameWork
<1>3. CASE Beat
  <2>1. SameInput /\ SameWork /\ mode = "early"
    BY <1>3, BeatDoes DEF Early
  <2> QED
    BY <2>1 DEF Phase, SameInput, SameWork
<1>4. CASE Worker
  <2> USE DEF Works, SameInput
  <2>1. CASE NotJudged \/ FailsNow
    <3>1. mode' = mode /\ worker' \in {"last", "done"} /\ verdict' \in {"refused", "not_judged"}
          /\ worker \in {"whole", "early", "looked", "judging"}
      BY <2>1 DEF NotJudged, FailsNow, StreamStopped, Gives
    <3>2. \/ worker = "judging" /\ toldHandler' = toldHandler
          \/ worker # "judging" /\ \E what : toldHandler' = Append(toldHandler, what)
      BY <2>1 DEF NotJudged, FailsNow
    <3>3. \E what : toldHandler' = <<what>>
      BY <3>1, <3>2, AppendsOne DEF Phase
    <3> QED
      BY <3>1, <3>3 DEF Phase
  <2>2. CASE ToJudging
    <3>1. \E what : toldHandler' = <<what>>
      BY <2>2, AppendsOne DEF Phase, ToJudging
    <3> QED
      BY <2>2, <3>1 DEF Phase, ToJudging, Gives
  <2>3. CASE StartsPassing
    <3>1. \E what : toldHandler' = <<what>>
      BY <2>3, AppendsOne DEF Phase, StartsPassing
    <3> QED
      BY <2>3, <3>1 DEF Phase, StartsPassing, Gives
  <2>4. CASE Passes \/ StopsPassing \/ EndsPassing
    BY <2>4 DEF Phase, Passes, StopsPassing, EndsPassing, Gives, StreamStopped
  <2>5. CASE LetsNothingGo \/ LetsGo \/ LooksOn
    BY <2>5 DEF Phase, LetsNothingGo, LetsGo, LooksOn, Gives
  <2>6. CASE EndsJudged \/ GoesOnJudged \/ EndsAll
    BY <2>6 DEF Phase, EndsJudged, GoesOnJudged, EndsAll, Gives, StreamStopped
  <2>7. CASE Deliver
    BY <1>2, <2>7
  <2> QED
    BY <1>4, <2>1, <2>2, <2>3, <2>4, <2>5, <2>6, <2>7, WorkerDoes DEF Typed, BodyTyped
<1> QED
  BY <1>1, <1>2, <1>3, <1>4 DEF ReplyNext

LEMMA StaysTyped ==
  ASSUME Typed, Phase, ReplyNext
  PROVE  Typed'
<1>1. CASE (\E kind \in Kinds : Feed(kind)) \/ FeedGoesOn \/ EndInput \/ Abort
  <2>1. InputMoves /\ BodyTyped'
    BY <1>1, InputDoes DEF Typed
  <2>2. Len(body) \in Nat /\ Len(body') \in Nat /\ Len(body) <= Len(body')
    BY <2>1, InputLongens DEF Typed, BodyTyped
  <2>3. ReadTyped'
    BY <2>1, <2>2 DEF InputMoves, SameWork, Typed, ReadTyped
  <2>4. LineTyped'
    BY <2>1 DEF InputMoves, SameLine, Typed, LineTyped
  <2> QED
    BY <2>1, <2>3, <2>4 DEF Typed
<1>2. ASSUME SameInput, SameWork, LineTyped' PROVE Typed'
  BY <1>2 DEF Typed, BodyTyped, ReadTyped, SameInput, SameWork
<1>3. CASE Deliver
  <2>1. SameInput /\ SameWork /\ got' = got
    BY <1>3, DeliverDoes DEF Typed
  <2>2. queue' = queue \/ \E o \in Output : queue' = <<o>>
    BY <1>3, DeliverDoes DEF Typed
  <2>3. sending' = <<>> \/ \E o \in Output : sending' = <<o>>
    BY <1>3, DeliverDoes DEF Typed
  <2> QED
    BY <1>2, <2>1, <2>2, <2>3 DEF Typed, LineTyped
<1>4. CASE BeatGoesOut
  <2>1. /\ SameInput /\ SameWork /\ got' = got /\ sending' = sending
        /\ queue' = <<KeepAlive>> \/ queue' = queue
    BY <1>4, BeatGoesOutDoes
  <2> QED
    BY <1>2, <2>1, OutputsAre DEF Typed, LineTyped
<1>5. CASE Collect
  <2>1. SameInput /\ SameWork /\ sending' = sending /\ queue' = <<>>
    BY <1>5, CollectDoes DEF Typed
  <2>2. PICK o \in Output : got' = got \/ got' = Append(got, o)
    BY <1>5, CollectDoes DEF Typed
  <2>3. got' \in Seq(Output)
    BY <2>2, AppendProperties DEF Typed, LineTyped
  <2> QED
    BY <1>2, <2>1, <2>3 DEF Typed, LineTyped
<1>6. CASE StopReading \/ Beat
  <2>1. SameInput /\ SameWork /\ sending' = sending /\ (queue' = queue \/ queue' = <<>>) /\ got' = got
    BY <1>6, StopReadingDoes, BeatDoes
  <2> QED
    BY <1>2, <2>1 DEF Typed, LineTyped
<1>7. CASE Worker
  <2>1. CASE Deliver
    BY <1>3, <2>1
  <2>2. CASE ~Deliver
    <3>0. body \in Seq(Kinds) /\ ReadTyped /\ Len(body) \in Nat
      BY DEF Typed, BodyTyped
    <3>1. Works
      BY <1>7, <2>2, <3>0, WorkerDoes DEF NotJudged, FailsNow, ToJudging, StartsPassing, Passes,
         StopsPassing,
           EndsPassing, LetsNothingGo, LetsGo, LooksOn, EndsJudged, GoesOnJudged, EndsAll
    <3>2. BodyTyped'
      BY <3>1 DEF Works, SameInput, Typed, BodyTyped
    <3>3. Len(body') = Len(body)
      BY <3>1 DEF Works, SameInput
    <3>4. ASSUME (Reads \/ SameRead) /\ opening' = opening PROVE ReadTyped'
      <4>1. consumed' = consumed \/ consumed' = Len(body)
        BY <3>4 DEF Reads, SameRead
      <4> QED
        BY <3>0, <3>3, <3>4, <4>1 DEF ReadTyped
    <3>5. ASSUME LetsNothingGo \/ LetsGo PROVE ReadTyped'
      <4>1. Free(consumed) \in consumed .. Len(body)
        BY <3>0, FreeIs DEF ReadTyped
      <4>2. consumed \in Nat /\ opening \in 0 .. consumed
        BY <3>0 DEF ReadTyped
      <4>3. consumed' = Len(body)
        BY <3>5 DEF LetsNothingGo, LetsGo
      <4>4. opening' = opening \/ opening' = 0 \/ opening' = opening + (Free(consumed) - consumed)
        BY <3>5 DEF LetsNothingGo, LetsGo
      <4>5. opening' \in 0 .. Len(body)
        BY <3>0, <4>1, <4>2, <4>4
      <4> QED
        BY <3>0, <3>3, <4>3, <4>5 DEF ReadTyped
    <3>6. ReadTyped'
      <4>1. \/ (Reads \/ SameRead) /\ opening' = opening
            \/ LetsNothingGo \/ LetsGo
        BY <1>7, <2>2, <3>0, WorkerDoes DEF NotJudged, FailsNow, ToJudging, StartsPassing,
           Passes, StopsPassing,
             EndsPassing, LooksOn, EndsJudged, GoesOnJudged, EndsAll, SameRead, Reads
      <4> QED
        BY <3>4, <3>5, <4>1
    <3>7. \/ sending' = <<>> \/ \E o \in Output : sending' = <<o>>
          \/ \E o, p \in Output : sending' = <<o, p>>
      <4> SUFFICES ASSUME sending' # <<>>, ~\E o \in Output : sending' = <<o>>
                   PROVE  \E o, p \in Output : sending' = <<o, p>>
        OBVIOUS
      <4>1. Free(consumed) \in Nat
        <5>1. Free(consumed) \in consumed .. Len(body)
          BY <3>0, FreeIs DEF ReadTyped
        <5> QED
          BY <3>0, <5>1 DEF ReadTyped
      <4>2. CASE NotJudged \/ ToJudging \/ StartsPassing \/ StopsPassing \/ LetsNothingGo \/ LooksOn \/ EndsAll
        BY <4>2 DEF NotJudged, ToJudging, StartsPassing, StopsPassing, LetsNothingGo, LooksOn,
           EndsAll, StreamStopped, Gives
      <4>3. CASE FailsNow \/ EndsPassing \/ EndsJudged
        BY <4>3, OutputsAre DEF FailsNow, EndsPassing, EndsJudged, Gives, EndsOf
      <4>4. CASE Passes \/ LetsGo
        BY <3>0, <4>1, <4>4, OutputsAre DEF Passes, LetsGo, Gives
      <4>5. CASE GoesOnJudged
        <5>1. sending' = <<Chunks(Len(body), TRUE), Ending("finished")>>
          BY <4>5 DEF GoesOnJudged, Gives
        <5>2. Chunks(Len(body), TRUE) \in Output /\ Ending("finished") \in Output
          BY <3>0, OutputsAre DEF EndsOf
        <5> QED
          BY <5>1, <5>2, Zenon
      <4> QED
        BY <1>7, <2>2, <3>0, <4>2, <4>3, <4>4, <4>5, WorkerDoes
    <3>8. LineTyped'
      BY <3>1, <3>7 DEF Works, Typed, LineTyped
    <3> QED
      BY <3>2, <3>6, <3>8 DEF Typed
  <2> QED
    BY <2>1, <2>2
<1> QED
  BY <1>1, <1>3, <1>4, <1>5, <1>6, <1>7 DEF ReplyNext

-----------------------------------------------------------------------------
LEMMA OutputsDiffer ==
  /\ \A o, p : <<o>> = <<p>> => o = p
  /\ \A o, p, q, r : <<o, p>> = <<q, r>> => o = q /\ p = r
  /\ \A o, p, q : <<o>> # <<p, q>>
OBVIOUS

LEMMA OutputsSay ==
  /\ \A n : /\ Chunks(n, TRUE).what = "bytes" /\ Chunks(n, TRUE).upto = n
            /\ Chunks(n, TRUE).judged /\ ~Chunks(n, FALSE).judged
            /\ Chunks(n, FALSE).what = "bytes" /\ Chunks(n, FALSE).upto = n
  /\ KeepAlive.what = "keepalive"
  /\ \A how : Ending(how).what = how
BY DEF Chunks, KeepAlive, Ending

LEMMA NoEndGrows ==
  /\ \A o \in Output : o.what \in {"bytes", "keepalive"} <=> NoEnd(<<o>>)
  /\ \A s \in Seq(Output), o \in Output : NoEnd(s) /\ NoEnd(<<o>>) => NoEnd(Append(s, o))
  /\ NoEnd(<<>>)
<1>1. \A o \in Output : o.what \in {"bytes", "keepalive"} <=> NoEnd(<<o>>)
  BY DEF NoEnd
<1>2. ASSUME NEW s \in Seq(Output), NEW o \in Output, NoEnd(s), NoEnd(<<o>>)
      PROVE  NoEnd(Append(s, o))
  <2> DEFINE t == Append(s, o)
             n == Len(s)
  <2>1. n \in Nat /\ DOMAIN s = 1 .. n /\ DOMAIN t = 1 .. n + 1
        /\ (\A k \in 1 .. n : t[k] = s[k]) /\ t[n + 1] = o
    BY AppendProperties, LenProperties
  <2> HIDE DEF t, n
  <2>2. o.what \in {"bytes", "keepalive"}
    BY <1>1, <1>2
  <2>3. \A k \in 1 .. n : s[k].what \in {"bytes", "keepalive"}
    BY <1>2, <2>1 DEF NoEnd
  <2>4. \A k \in DOMAIN t : t[k].what \in {"bytes", "keepalive"}
    BY <2>1, <2>2, <2>3
  <2> QED
    BY <2>4 DEF NoEnd, t
<1>3. NoEnd(<<>>)
  BY DEF NoEnd
<1> QED
  BY <1>1, <1>2, <1>3

(* What the worker gives where it gives something.                         *)
LEMMA BytesAreGiven ==
  ASSUME Typed, Passes \/ LetsGo
  PROVE  \E o \in Output : /\ sending' = <<o>> /\ o.what = "bytes" /\ ~o.judged
                           /\ \/ Passes /\ o.upto = Len(body)
                              \/ LetsGo /\ o.upto = Free(consumed)
<1>1. Len(body) \in Nat /\ consumed \in 0 .. Len(body) /\ body \in Seq(Kinds)
  BY DEF Typed, BodyTyped, ReadTyped
<1>2. Free(consumed) \in consumed .. Len(body)
  BY <1>1, FreeIs
<1>3. Free(consumed) \in Nat
  BY <1>1, <1>2
<1>4. ASSUME NEW n \in Nat, sending' = <<Chunks(n, FALSE)>>
      PROVE  \E o \in Output : /\ sending' = <<o>> /\ o.what = "bytes" /\ ~o.judged
                               /\ o.upto = n
  BY <1>4, OutputsAre, OutputsSay
<1>5. CASE Passes
  BY <1>1, <1>4, <1>5 DEF Passes, Gives
<1>6. CASE LetsGo
  BY <1>3, <1>4, <1>6 DEF LetsGo, Gives
<1> QED
  BY <1>5, <1>6

LEMMA FinishedIsGiven ==
  ASSUME Typed, EndsPassing \/ EndsJudged \/ GoesOnJudged
  PROVE  \E p \in Output :
           /\ p.what = "finished"
           /\ \/ (EndsPassing \/ EndsJudged) /\ sending' = <<p>>
              \/ /\ GoesOnJudged
                 /\ \E o \in Output : /\ sending' = <<o, p>> /\ o.what = "bytes" /\ o.judged
                                      /\ o.upto = Len(body)
<1>1. Len(body) \in Nat
  BY DEF Typed, BodyTyped
<1>2. Ending("finished") \in Output /\ Ending("finished").what = "finished"
  BY OutputsAre, OutputsSay DEF EndsOf
<1>3. CASE EndsPassing \/ EndsJudged
  BY <1>2, <1>3 DEF EndsPassing, EndsJudged, Gives
<1>4. CASE GoesOnJudged
  <2> DEFINE o == Chunks(Len(body), TRUE)
  <2>1. o \in Output /\ o.what = "bytes" /\ o.judged /\ o.upto = Len(body)
    BY <1>1, OutputsAre, OutputsSay
  <2>2. sending' = <<o, Ending("finished")>>
    BY <1>4 DEF GoesOnJudged, Gives
  <2> HIDE DEF o
  <2> QED
    BY <1>2, <1>4, <2>1, <2>2
<1> QED
  BY <1>3, <1>4

LEMMA GoesOnGivesTwo ==
  ASSUME GoesOnJudged
  PROVE  \A p : sending' # <<p>>
BY OutputsDiffer DEF GoesOnJudged, Gives

LEMMA EndStartsLast ==
  ASSUME ReplyStreamAssumption, ReplyInit
  PROVE  EndIsLast
BY NoEndGrows DEF ReplyInit, EndIsLast, Running

LEMMA EndStaysLast ==
  ASSUME Typed, Phase, EndIsLast, ReplyNext
  PROVE  EndIsLast'
<1> USE OutputsDiffer, OneOrTwo
<1>1. CASE (\E kind \in Kinds : Feed(kind)) \/ FeedGoesOn \/ EndInput \/ Abort
  <2>1. InputMoves
    BY <1>1, InputDoes DEF Typed
  <2> QED
    BY <2>1 DEF InputMoves, EndIsLast, Running, NoEnd, SameWork, SameLine
<1>2. CASE Deliver
  <2>1. worker' = worker /\ got' = got /\ ~beating'
    BY <1>2, DeliverDoes DEF Typed, SameWork
  <2>2. PICK o \in Output :
          /\ queue' = <<o>> \/ queue' = queue
          /\ \/ /\ sending = <<o>> /\ sending' = <<>>
                /\ finished' <=> finished
             \/ \E p \in Output : /\ sending = <<o, p>> /\ sending' = <<p>>
                                  /\ finished' <=> (finished \/ p.what # "bytes")
    BY <1>2, DeliverDoes DEF Typed
  <2>0. sending # <<>>
    BY <2>2
  <2>3. NoEnd(got) /\ NoEnd(queue)
    BY <2>0 DEF EndIsLast
  <2>4. CASE sending = <<o>> /\ sending' = <<>> /\ (finished' <=> finished)
    <3>1. Running => o.what = "bytes"
      BY <2>4 DEF EndIsLast
    <3>2. Running => NoEnd(queue')
      BY <2>2, <2>3, <3>1, NoEndGrows
    <3>3. worker \notin {"error", "whole", "judging", "done"}
      BY <2>4 DEF EndIsLast
    <3> QED
      BY <2>1, <2>3, <2>4, <3>2, <3>3 DEF EndIsLast, Running, NoEnd
  <2>5. CASE \E p \in Output : /\ sending = <<o, p>> /\ sending' = <<p>>
                               /\ finished' <=> (finished \/ p.what # "bytes")
    <3>1. PICK p \in Output : /\ sending = <<o, p>> /\ sending' = <<p>>
                              /\ finished' <=> (finished \/ p.what # "bytes")
      BY <2>5
    <3>2. o.what = "bytes" /\ p.what = "finished" /\ worker = "last"
      BY <3>1 DEF EndIsLast
    <3>3. NoEnd(queue')
      BY <2>2, <2>3, <3>2, NoEndGrows
    <3> QED
      BY <2>1, <2>3, <3>1, <3>2, <3>3 DEF EndIsLast, Running, NoEnd, EndsOf
  <2> QED
    BY <2>2, <2>4, <2>5
<1>3. CASE BeatGoesOut
  <2>1. /\ worker' = worker /\ got' = got /\ sending' = sending /\ beating /\ ~beating'
        /\ finished' = finished /\ (queue' = <<KeepAlive>> \/ queue' = queue)
    BY <1>3, BeatGoesOutDoes DEF SameWork
  <2>2. NoEnd(got) /\ NoEnd(queue)
    BY <2>1 DEF EndIsLast
  <2>3. NoEnd(queue')
    BY <2>1, <2>2, NoEndGrows, OutputsAre, OutputsSay
  <2> QED
    BY <2>1, <2>2, <2>3 DEF EndIsLast, Running, NoEnd
<1>4. CASE Collect
  <2>1. /\ worker' = worker /\ sending' = sending /\ beating' = beating
        /\ finished' = finished /\ queue' = <<>>
    BY <1>4, CollectDoes DEF Typed, SameWork
  <2>2. PICK o \in Output : queue = <<o>> /\ (got' = got \/ got' = Append(got, o))
    BY <1>4, CollectDoes DEF Typed
  <2>3. Running \/ sending # <<>> => NoEnd(got')
    <3>1. got \in Seq(Output)
      BY DEF Typed, LineTyped
    <3>2. Running \/ sending # <<>> => NoEnd(got) /\ NoEnd(<<o>>)
      BY <2>2 DEF EndIsLast
    <3>3. Running \/ sending # <<>> => NoEnd(Append(got, o))
      BY <3>1, <3>2, NoEndGrows, Zenon
    <3>4. got' = got \/ got' = Append(got, o)
      BY <2>2
    <3> QED
      BY <3>2, <3>3, <3>4, Zenon
  <2> QED
    BY <2>1, <2>3, NoEndGrows DEF EndIsLast, Running, NoEnd
<1>5. CASE StopReading
  <2>1. /\ worker' = worker /\ sending' = sending /\ beating' = beating /\ got' = got
        /\ finished' = finished /\ queue' = <<>>
    BY <1>5, StopReadingDoes DEF SameWork
  <2> QED
    BY <2>1, NoEndGrows DEF EndIsLast, Running, NoEnd
<1>6. CASE Beat
  <2>1. /\ worker' = worker /\ sending' = sending /\ sending = <<>> /\ queue' = queue /\ got' = got
        /\ finished' = finished /\ ~finished /\ worker # "done"
    BY <1>6, BeatDoes DEF SameWork
  <2>2. Running
    BY <2>1 DEF EndIsLast, Running
  <2> QED
    BY <2>1, <2>2 DEF EndIsLast, Running, NoEnd
<1>7. CASE Worker /\ ~Deliver
  <2>1. \/ NotJudged \/ FailsNow \/ ToJudging \/ StartsPassing \/ Passes \/ StopsPassing
        \/ EndsPassing \/ LetsNothingGo \/ LetsGo \/ LooksOn \/ EndsJudged \/ GoesOnJudged
        \/ EndsAll
    BY <1>7, WorkerDoes DEF Typed, BodyTyped
  <2>2. Works
    BY <2>1 DEF NotJudged, FailsNow, ToJudging, StartsPassing, Passes, StopsPassing,
         EndsPassing, LetsNothingGo, LetsGo, LooksOn, EndsJudged, GoesOnJudged, EndsAll
  <2>3. sending = <<>> /\ queue' = queue /\ got' = got
    BY <2>2 DEF Works
  <2>4. CASE StreamStopped
    BY <2>3, <2>4 DEF StreamStopped, EndIsLast, Running, NoEnd
  <2>5. CASE ToJudging \/ StartsPassing \/ LetsNothingGo \/ LooksOn
    <3>1. Running /\ sending' = <<>> /\ worker' \in {"judging", "passing", "looked", "early"}
          /\ (finished' <=> finished)
      BY <2>5 DEF ToJudging, StartsPassing, LetsNothingGo, LooksOn, Gives, Running
    <3> QED
      BY <2>3, <3>1 DEF EndIsLast, Running, NoEnd
  <2>6. CASE Passes \/ LetsGo
    <3>2. Running /\ worker' \in {"passing", "looked"} /\ (finished' <=> finished)
      BY <2>6 DEF Passes, LetsGo, Gives, Running
    <3>3. \E o \in Output : sending' = <<o>> /\ o.what = "bytes"
      BY <2>6, BytesAreGiven
    <3> QED
      BY <2>3, <3>2, <3>3 DEF EndIsLast, Running, NoEnd
  <2>7. CASE FailsNow \/ EndsPassing \/ EndsJudged
    <3>1. Running /\ worker' = "last" /\ (finished' <=> TRUE)
      BY <2>7 DEF FailsNow, EndsPassing, EndsJudged, Gives, Running
    <3>2. \E o \in Output : sending' = <<o>> /\ o.what \in EndsOf
      BY <2>7, OutputsAre, OutputsSay DEF FailsNow, EndsPassing, EndsJudged, Gives, EndsOf
    <3> QED
      BY <2>3, <3>1, <3>2 DEF EndIsLast, Running, NoEnd
  <2>8. CASE GoesOnJudged
    <3>1. Running /\ worker' = "last"
      BY <2>8 DEF GoesOnJudged, Gives, Running
    <3>2. \E o, p \in Output : sending' = <<o, p>> /\ o.what = "bytes" /\ p.what = "finished"
      BY <2>8, FinishedIsGiven, GoesOnGivesTwo
    <3> QED
      BY <2>3, <3>1, <3>2 DEF EndIsLast, Running, NoEnd
  <2> QED
    BY <2>1, <2>4, <2>5, <2>6, <2>7, <2>8 DEF NotJudged, StopsPassing, EndsAll
<1> QED
  BY <1>1, <1>2, <1>3, <1>4, <1>5, <1>6, <1>7 DEF ReplyNext, Worker

-----------------------------------------------------------------------------
LEMMA AmongIs ==
  /\ \A o : ~Among(o, <<>>)
  /\ \A o, p : Among(o, <<p>>) <=> o = p
  /\ \A o, p, q : Among(o, <<p, q>>) <=> o = p \/ o = q
  /\ \A s \in Seq(Output), o, p \in Output :
       Among(o, Append(s, p)) <=> Among(o, s) \/ o = p
<1>1. ASSUME NEW s \in Seq(Output), NEW o \in Output, NEW p \in Output
      PROVE  Among(o, Append(s, p)) <=> Among(o, s) \/ o = p
  <2> DEFINE t == Append(s, p)
             n == Len(s)
  <2>1. n \in Nat /\ DOMAIN s = 1 .. n /\ DOMAIN t = 1 .. n + 1
        /\ (\A k \in 1 .. n : t[k] = s[k]) /\ t[n + 1] = p
    BY AppendProperties, LenProperties
  <2> HIDE DEF t, n
  <2>2. (\E k \in DOMAIN t : t[k] = o) <=> ((\E k \in DOMAIN s : s[k] = o) \/ o = p)
    BY <2>1
  <2> QED
    BY <2>2 DEF Among, t
<1>2. /\ \A o : ~Among(o, <<>>)
      /\ \A o, p : Among(o, <<p>>) <=> o = p
      /\ \A o, p, q : Among(o, <<p, q>>) <=> o = p \/ o = q
  BY DEF Among
<1> QED
  BY <1>1, <1>2

LineSteps == Deliver \/ BeatGoesOut \/ Collect \/ StopReading \/ Beat

(* The line only passes on what the worker gives it, and keepalives; while *)
(* the proxy reads, nothing is lost.                                       *)
LEMMA LinePassesOn ==
  ASSUME Typed, LineSteps
  PROVE  /\ SameInput /\ SameWork /\ (Live' => Live)
         /\ \A o \in Output : InLine(o)' => InLine(o) \/ o = KeepAlive
         /\ Live' => \A o \in Output : InLine(o) => InLine(o)'
         /\ \A o \in Output : (HasGot(o)' => InLine(o)) /\ (HasGot(o) => HasGot(o)')
<1> USE DEF InLine, HasGot
<1>1. CASE Deliver
  <2>1. /\ SameInput /\ SameWork /\ got' = got /\ reading' = reading
    BY <1>1, DeliverDoes DEF Typed
  <2>2. PICK o \in Output :
          /\ \/ Live /\ queue = <<>> /\ queue' = <<o>>
             \/ ~Live /\ queue' = queue
          /\ \/ sending = <<o>> /\ sending' = <<>>
             \/ \E p \in Output : sending = <<o, p>> /\ sending' = <<p>>
    BY <1>1, DeliverDoes DEF Typed
  <2>3. \A q \in Output : Among(q, sending) <=> Among(q, sending') \/ q = o
    BY <2>2, AmongIs
  <2>4. \A q \in Output : Among(q, queue') => Among(q, queue) \/ q = o
    BY <2>2, AmongIs
  <2>5. Live => \A q \in Output : Among(q, queue) \/ q = o => Among(q, queue')
    BY <2>2, AmongIs
  <2>6. Live' <=> Live
    BY <2>1 DEF Live, SameInput
  <2> QED
    BY <2>1, <2>3, <2>4, <2>5, <2>6
<1>2. CASE BeatGoesOut
  <2>1. /\ SameInput /\ SameWork /\ got' = got /\ reading' = reading /\ sending' = sending
        /\ \/ Live /\ queue = <<>> /\ queue' = <<KeepAlive>>
           \/ ~Live /\ queue' = queue
    BY <1>2, BeatGoesOutDoes
  <2>2. Live' <=> Live
    BY <2>1 DEF Live, SameInput
  <2>3. \A q \in Output : Among(q, queue') => Among(q, queue) \/ q = KeepAlive
    BY <2>1, AmongIs
  <2>4. Live => \A q \in Output : Among(q, queue) => Among(q, queue')
    BY <2>1, AmongIs
  <2> QED
    BY <2>1, <2>2, <2>3, <2>4
<1>3. CASE Collect
  <2>1. /\ SameInput /\ SameWork /\ sending' = sending /\ queue' = <<>>
    BY <1>3, CollectDoes DEF Typed
  <2>2. PICK o \in Output :
          /\ queue = <<o>>
          /\ \/ ~Live /\ got' = got /\ ~reading'
             \/ Live /\ got' = Append(got, o) /\ reading' = reading
    BY <1>3, CollectDoes DEF Typed
  <2>3. got \in Seq(Output)
    BY DEF Typed, LineTyped
  <2>4. \A q \in Output : Among(q, queue) <=> q = o
    BY <2>2, AmongIs
  <2>5. \A q \in Output : (Among(q, got') => Among(q, got) \/ q = o) /\ (Among(q, got) => Among(q, got'))
    <3>1. \A q \in Output : Among(q, Append(got, o)) <=> Among(q, got) \/ q = o
      BY <2>3, AmongIs, Zenon
    <3>2. got' = got \/ got' = Append(got, o)
      BY <2>2
    <3> QED
      BY <3>1, <3>2, Zenon
  <2>6. \A q \in Output : ~Among(q, queue')
    BY <2>1, AmongIs
  <2>7. Live' => Live
    BY <2>1, <2>2 DEF Live, SameInput
  <2>8. Live' => \A q \in Output : q = o => Among(q, got')
    <3> SUFFICES ASSUME Live' PROVE Among(o, got')
      BY Zenon
    <3>1. Among(o, Append(got, o))
      BY <2>3, AmongIs, Zenon
    <3>2. got' = Append(got, o)
      BY <2>2, <2>7 DEF Live
    <3> QED
      BY <3>1, <3>2, Zenon
  <2> QED
    BY <2>1, <2>4, <2>5, <2>6, <2>7, <2>8
<1>4. CASE StopReading
  <2>1. /\ SameInput /\ SameWork /\ got' = got /\ sending' = sending /\ queue' = <<>> /\ ~reading'
    BY <1>4, StopReadingDoes
  <2>2. \A q \in Output : ~Among(q, queue')
    BY <2>1, AmongIs
  <2> QED
    BY <2>1, <2>2 DEF Live
<1>5. CASE Beat
  <2>1. /\ SameInput /\ SameWork /\ got' = got /\ sending' = sending /\ queue' = queue /\ reading' = reading
    BY <1>5, BeatDoes
  <2> QED
    BY <2>1 DEF Live, SameInput
<1> QED
  BY <1>1, <1>2, <1>3, <1>4, <1>5 DEF LineSteps

(* A step of the worker adds to the line what it gives.                    *)
WorkerSteps ==
  \/ NotJudged \/ FailsNow \/ ToJudging \/ StartsPassing \/ Passes \/ StopsPassing
  \/ EndsPassing \/ LetsNothingGo \/ LetsGo \/ LooksOn \/ EndsJudged \/ GoesOnJudged
  \/ EndsAll

LEMMA WorkerGives ==
  ASSUME Works
  PROVE  /\ Live' <=> Live
         /\ \A o \in Output : InLine(o)' <=> InLine(o) \/ Among(o, sending')
         /\ \A o \in Output : HasGot(o)' <=> HasGot(o)
BY AmongIs DEF Works, SameInput, Live, InLine, HasGot

LEMMA WorkerWorks ==
  ASSUME WorkerSteps
  PROVE  Works
BY DEF WorkerSteps, NotJudged, FailsNow, ToJudging, StartsPassing, Passes, StopsPassing,
   EndsPassing, LetsNothingGo, LetsGo, LooksOn, EndsJudged, GoesOnJudged, EndsAll

LEMMA StepsAre ==
  ASSUME Typed, ReplyNext
  PROVE  (InputMoves /\ BodyTyped' /\ ((\E kind \in Kinds : Feed(kind)) \/ FeedGoesOn \/ EndInput \/ Abort))
         \/ LineSteps \/ WorkerSteps
BY InputDoes, WorkerDoes DEF ReplyNext, Worker, LineSteps, WorkerSteps, Typed, BodyTyped

LEMMA InputKeepsLine ==
  ASSUME InputMoves
  PROVE  /\ Live' => Live
         /\ \A o \in Output : (InLine(o)' <=> InLine(o)) /\ (HasGot(o)' <=> HasGot(o))
BY DEF InputMoves, SameLine, Live, InLine, HasGot

-----------------------------------------------------------------------------
LEMMA EndsStartAsJudged ==
  ASSUME ReplyStreamAssumption, ReplyInit
  PROVE  EndAsJudged /\ StatusIsOut /\ BytesMayGo
<1>1. \A o \in Output : ~InLine(o)
  BY AmongIs DEF ReplyInit, InLine, HasGot
<1>2. EndAsJudged
  BY <1>1 DEF EndAsJudged
<1>3. StatusIsOut
  BY DEF ReplyInit, StatusIsOut, Anything
<1>4. BytesMayGo
  <2>1. Shown(0)
    BY DEF Shown
  <2> QED
    BY <1>1, <2>1 DEF ReplyInit, BytesMayGo
<1> QED
  BY <1>2, <1>3, <1>4

(* While the worker runs no end is in line.                                *)
LEMMA NoEndInLine ==
  ASSUME Typed, EndIsLast, Running, sending = <<>>
  PROVE  \A o \in Output : InLine(o) => o.what \notin EndsOf
<1>1. NoEnd(got) /\ NoEnd(queue)
  BY DEF EndIsLast
<1>2. \A o : ~Among(o, sending)
  BY AmongIs
<1>3. \A o \in Output : Among(o, got) \/ Among(o, queue) => o.what \in {"bytes", "keepalive"}
  BY <1>1 DEF NoEnd, Among
<1> QED
  BY <1>2, <1>3 DEF InLine, HasGot, EndsOf

LEMMA EndsStayAsJudged ==
  ASSUME Typed, Phase, EndIsLast, EndAsJudged, ReplyNext
  PROVE  EndAsJudged'
<1>1. CASE InputMoves
  BY <1>1, InputKeepsLine DEF EndAsJudged, InputMoves, SameWork
<1>2. CASE LineSteps
  <2>1. verdict' = verdict /\ \A o \in Output : InLine(o)' => InLine(o) \/ o = KeepAlive
    BY <1>2, LinePassesOn DEF SameWork
  <2> QED
    BY <2>1, OutputsSay DEF EndAsJudged
<1>3. CASE EndsAll
  <2>1. verdict' = verdict /\ sending' = <<>>
    BY <1>3 DEF EndsAll, StreamStopped
  <2>2. \A o \in Output : InLine(o)' <=> InLine(o)
    BY <1>3, <2>1, WorkerGives, AmongIs DEF EndsAll
  <2> QED
    BY <2>1, <2>2 DEF EndAsJudged
<1>4. CASE WorkerSteps /\ ~EndsAll
  <2>1. Works /\ sending = <<>>
    BY <1>4, WorkerWorks DEF Works
  <2>2. Running
    BY <1>4 DEF WorkerSteps, NotJudged, FailsNow, ToJudging, StartsPassing, Passes, StopsPassing,
         EndsPassing, LetsNothingGo, LetsGo, LooksOn, EndsJudged, GoesOnJudged, Running
  <2>3. \A o \in Output : InLine(o)' /\ o.what \in EndsOf => Among(o, sending')
    BY <2>1, <2>2, NoEndInLine, WorkerGives
  <2>4. CASE StreamStopped \/ ToJudging \/ StartsPassing \/ LetsNothingGo \/ LooksOn
    <3>1. sending' = <<>>
      BY <2>4 DEF StreamStopped, ToJudging, StartsPassing, LetsNothingGo, LooksOn, Gives
    <3> QED
      BY <2>3, <3>1, AmongIs DEF EndAsJudged, EndsOf
  <2>5. CASE Passes \/ LetsGo
    <3>1. PICK c \in Output : sending' = <<c>> /\ c.what = "bytes"
      BY <2>5, BytesAreGiven
    <3>2. \A o \in Output : Among(o, sending') => o.what = "bytes"
      BY <3>1, AmongIs
    <3> QED
      BY <2>3, <3>2 DEF EndAsJudged, EndsOf
  <2>6. CASE FailsNow
    <3>1. /\ verdict' \in {"refused", "not_judged"}
          /\ sending' = <<Ending("error_event")>> \/ sending' = <<Ending("refuse")>>
      BY <2>6 DEF FailsNow, Gives
    <3>2. \A o \in Output : Among(o, sending') => o.what # "finished"
      BY <3>1, AmongIs, OutputsSay
    <3> QED
      BY <2>3, <3>1, <3>2 DEF EndAsJudged, EndsOf
  <2>7. CASE EndsPassing \/ EndsJudged \/ GoesOnJudged
    <3>1. verdict' = "goes_on"
      BY <2>7 DEF EndsPassing, EndsJudged, GoesOnJudged, Phase
    <3>2. PICK p \in Output : /\ p.what = "finished"
                              /\ \/ sending' = <<p>>
                                 \/ \E o \in Output : sending' = <<o, p>> /\ o.what = "bytes"
      BY <2>7, FinishedIsGiven
    <3>4. \A o \in Output : Among(o, sending') => o.what \in {"bytes", "finished"}
      BY <3>2, AmongIs
    <3> QED
      BY <2>3, <3>1, <3>4 DEF EndAsJudged, EndsOf
  <2> QED
    BY <1>4, <2>4, <2>5, <2>6, <2>7 DEF WorkerSteps, NotJudged, StopsPassing
<1> QED
  BY <1>1, <1>2, <1>3, <1>4, StepsAre

LEMMA StatusStaysOut ==
  ASSUME Typed, Phase, EndIsLast, StatusIsOut, ReplyNext
  PROVE  StatusIsOut'
<1> USE OutputsDiffer, OneOrTwo
<1> SUFFICES ASSUME Live' PROVE StatusIsOut'
  BY DEF StatusIsOut
<1>1. CASE InputMoves
  <2>1. Live
    BY <1>1, InputKeepsLine
  <2> QED
    BY <1>1, <2>1 DEF StatusIsOut, InputMoves, SameWork, SameLine, Anything
<1>2. CASE Deliver
  <2>1. /\ worker' = worker /\ got' = got /\ sent' = sent /\ ~beating' /\ ~beating /\ Live
    BY <1>2, DeliverDoes, LinePassesOn DEF Typed, SameWork, LineSteps
  <2>2. PICK o \in Output :
          /\ queue = <<>> /\ queue' = <<o>>
          /\ \/ sending = <<o>> /\ sending' = <<>>
             \/ \E p \in Output : sending = <<o, p>> /\ sending' = <<p>>
    BY <1>2, <2>1, DeliverDoes DEF Typed
  <2>3. worker # "whole"
    BY <2>2 DEF EndIsLast
  <2>4. Anything'
    BY <2>2 DEF Anything
  <2>5. sending # <<>>
    BY <2>2
  <2>6. \A p \in Output : sending' = <<p>> => p.what \notin {"refuse", "error_event"} /\ o.what = "bytes"
    BY <2>2 DEF EndIsLast
  <2>7. Anything <=> got # <<>>
    BY <2>1, <2>2 DEF Anything
  <2>8. sending = <<o>> => (o.what = "refuse" => got = <<>>) /\ (o.what = "error_event" => got # <<>>)
    BY <2>1, <2>7 DEF StatusIsOut
  <2>9. (o.what = "refuse" => got = <<>>) /\ (o.what = "error_event" => got # <<>>)
    BY <2>2, <2>6, <2>8
  <2>10. \A p \in Output : queue' = <<p>> => p = o
    BY <2>2
  <2>11. worker \in {"early", "looked", "judging"} => sent
    BY <2>1, <2>5 DEF StatusIsOut
  <2> QED
    BY <2>1, <2>3, <2>4, <2>6, <2>9, <2>10, <2>11 DEF StatusIsOut
<1>3. CASE BeatGoesOut
  <2>1. /\ worker' = worker /\ got' = got /\ sent' = sent /\ beating /\ Live /\ sending' = sending
        /\ queue = <<>> /\ queue' = <<KeepAlive>>
    BY <1>3, BeatGoesOutDoes, LinePassesOn DEF SameWork, LineSteps
  <2>2. Anything' /\ Anything
    BY <2>1 DEF Anything
  <2>3. \A o \in Output : queue' = <<o>> => o.what = "keepalive"
    BY <2>1, OutputsSay
  <2> QED
    BY <2>1, <2>2, <2>3 DEF StatusIsOut
<1>4. CASE Collect
  <2>1. /\ worker' = worker /\ sent' = sent /\ sending' = sending /\ Live /\ queue' = <<>>
    BY <1>4, CollectDoes, LinePassesOn DEF SameWork, LineSteps, Typed
  <2>2. PICK o \in Output : queue = <<o>> /\ got' = Append(got, o)
    BY <1>4, <2>1, CollectDoes DEF Typed
  <2>3. got' # <<>>
    BY <2>2, AppendProperties DEF Typed, LineTyped
  <2>4. Anything' /\ Anything
    BY <2>2, <2>3 DEF Anything
  <2> QED
    BY <2>1, <2>4 DEF StatusIsOut
<1>5. CASE StopReading
  BY <1>5, StopReadingDoes DEF Live
<1>6. CASE Beat
  <2>1. /\ worker' = worker /\ sending' = sending /\ sending = <<>> /\ queue' = queue /\ got' = got
        /\ Live /\ beating' = TRUE /\ sent' = TRUE /\ mode = "early"
    BY <1>6, BeatDoes, LinePassesOn DEF SameWork, LineSteps, Early
  <2>2. Anything' /\ worker # "whole"
    BY <2>1 DEF Anything, Phase
  <2> QED
    BY <2>1, <2>2 DEF StatusIsOut
<1>7. CASE WorkerSteps
  <2>1. Works /\ sending = <<>> /\ got' = got /\ queue' = queue /\ Live
    BY <1>7, WorkerWorks, WorkerGives DEF Works
  <2>2. /\ \A o \in Output : queue' = <<o>> /\ o.what = "refuse" => got' = <<>>
        /\ \A o \in Output : queue' = <<o>> /\ o.what = "error_event" => got' # <<>>
    BY <2>1 DEF StatusIsOut
  <2>3. CASE StreamStopped
    BY <2>2, <2>3 DEF StreamStopped, StatusIsOut
  <2>4. CASE FailsNow
    <3>1. /\ worker \in {"early", "judging"} /\ worker' = "last" /\ beating' = beating
          /\ \/ sent /\ sending' = <<Ending("error_event")>>
             \/ ~sent /\ sending' = <<Ending("refuse")>>
      BY <2>4 DEF FailsNow, Gives
    <3>2. sent <=> Anything
      BY <2>1, <3>1 DEF StatusIsOut
    <3>3. Anything' <=> Anything
      BY <2>1, <3>1 DEF Anything
    <3>4. \A o \in Output : sending' = <<o>> => o.what = IF sent THEN "error_event" ELSE "refuse"
      BY <3>1, OutputsSay
    <3> QED
      BY <2>2, <3>1, <3>2, <3>3, <3>4 DEF StatusIsOut
  <2>5. CASE ToJudging \/ LetsNothingGo \/ LooksOn
    <3>1. /\ worker \in {"whole", "looked", "early"} /\ sending' = <<>> /\ beating' = beating /\ sent' = sent
          /\ worker' \in {"judging", "looked", "early"}
      BY <2>5 DEF ToJudging, LetsNothingGo, LooksOn, Gives
    <3>2. sent <=> Anything
      BY <2>1, <3>1 DEF StatusIsOut, Phase
    <3>3. Anything' <=> Anything
      BY <2>1, <3>1 DEF Anything
    <3> QED
      BY <2>2, <3>1, <3>2, <3>3 DEF StatusIsOut
  <2>6. CASE StartsPassing
    <3>1. worker' = "passing" /\ sending' = <<>>
      BY <2>6 DEF StartsPassing, Gives
    <3> QED
      BY <2>2, <3>1 DEF StatusIsOut
  <2>7. CASE Passes \/ LetsGo
    <3>1. PICK c \in Output : sending' = <<c>> /\ c.what = "bytes"
      BY <2>7, BytesAreGiven
    <3>2. \A o \in Output : sending' = <<o>> => o.what = "bytes"
      BY <3>1
    <3>3. worker' = "passing" \/ (worker' = "looked" /\ (sent' <=> TRUE))
      BY <2>7 DEF Passes, LetsGo, Gives
    <3>4. sending' # <<>>
      BY <3>1
    <3> QED
      BY <2>2, <3>2, <3>3, <3>4 DEF StatusIsOut
  <2>8. CASE EndsPassing \/ EndsJudged \/ GoesOnJudged
    <3>1. worker' = "last"
      BY <2>8 DEF EndsPassing, EndsJudged, GoesOnJudged, Gives
    <3>2. PICK p \in Output : /\ p.what = "finished"
                              /\ \/ sending' = <<p>>
                                 \/ \E o \in Output : sending' = <<o, p>> /\ o.what = "bytes"
      BY <2>8, FinishedIsGiven
    <3>3. \A o \in Output : sending' = <<o>> => o.what = "finished"
      BY <3>2
    <3> QED
      BY <2>2, <3>1, <3>3 DEF StatusIsOut
  <2> QED
    BY <1>7, <2>3, <2>4, <2>5, <2>6, <2>7, <2>8 DEF WorkerSteps, NotJudged, StopsPassing, EndsAll
<1> QED
  BY <1>1, <1>2, <1>3, <1>4, <1>5, <1>6, <1>7, StepsAre DEF LineSteps

-----------------------------------------------------------------------------
(* What was free to go stays so as the body grows.                         *)
LEMMA ShownStays ==
  ASSUME body \in Seq(Kinds), InputMoves, NEW n \in 0 .. Len(body), Shown(n)
  PROVE  Shown(n)' /\ n \in 0 .. Len(body')
<1>1. /\ Len(body) \in Nat /\ Len(body') \in Nat /\ Len(body) <= Len(body')
      /\ \A k \in 1 .. Len(body) : body'[k] = body[k]
  BY InputLongens
<1>2. \A k \in 1 .. n : body'[k] = body[k]
  BY <1>1
<1> QED
  BY <1>1, <1>2 DEF Shown

(* What the worker lets go of the body holds nothing it must judge.        *)
LEMMA FreeIsShown ==
  ASSUME Typed, ~holding, ~Unread("unreadable"), Shown(consumed)
  PROVE  /\ Shown(Free(consumed)) /\ Free(consumed) \in consumed .. Len(body)
         /\ ~Unread("call") => Shown(Len(body))
<1>1. /\ body \in Seq(Kinds) /\ consumed \in Nat /\ consumed <= Len(body) /\ Len(body) \in Nat
  BY DEF Typed, BodyTyped, ReadTyped
<1>2. Free(consumed) \in consumed .. Len(body) /\ EndsFree(consumed, Free(consumed))
  BY <1>1, FreeIs
<1>3. \A k \in consumed + 1 .. Len(body) : body[k] \in Kinds \ {"unreadable"}
  BY <1>1 DEF Unread
<1>4. ASSUME NEW n \in consumed .. Len(body), \A k \in consumed + 1 .. n : body[k] # "call"
      PROVE  Shown(n)
  <2> SUFFICES ASSUME NEW k \in 1 .. n PROVE body[k] \in {"opening", "text"}
    BY DEF Shown
  <2>1. CASE k <= consumed
    BY <1>1, <2>1 DEF Shown
  <2>2. CASE k > consumed
    <3>1. k \in consumed + 1 .. Len(body) /\ k \in consumed + 1 .. n
      BY <1>1, <2>2
    <3> QED
      BY <1>3, <1>4, <3>1 DEF Kinds
  <2> QED
    BY <1>1, <2>1, <2>2
<1>5. Shown(Free(consumed))
  BY <1>2, <1>4 DEF EndsFree
<1>6. ~Unread("call") => Shown(Len(body))
  BY <1>1, <1>4 DEF Unread
<1> QED
  BY <1>2, <1>5, <1>6

LEMMA BytesStillMayGo ==
  ASSUME Typed, Phase, BytesMayGo, ReplyNext
  PROVE  BytesMayGo'
<1>0. body \in Seq(Kinds) /\ consumed \in 0 .. Len(body) /\ Len(body) \in Nat
  BY DEF Typed, BodyTyped, ReadTyped
<1>1. CASE InputMoves
  <2>1. ASSUME NEW o \in Output, MayGo(o) PROVE MayGo(o)'
    <3>0. mode' = mode /\ verdict' = verdict
      BY <1>1 DEF InputMoves, SameWork
    <3>1. CASE mode = "error" \/ (o.judged /\ verdict = "goes_on")
      BY <3>0, <3>1 DEF MayGo
    <3>2. CASE ~o.judged /\ Early /\ o.upto <= Len(body) /\ Shown(o.upto)
      <4>1. o.upto \in Nat
        BY DEF Output
      <4>2. o.upto \in 0 .. Len(body)
        BY <1>0, <3>2, <4>1
      <4>3. Shown(o.upto)' /\ o.upto \in 0 .. Len(body')
        BY <1>0, <1>1, <3>2, <4>2, ShownStays
      <4>4. o.upto <= Len(body')
        BY <4>3
      <4> QED
        BY <3>0, <3>2, <4>3, <4>4 DEF MayGo, Early
    <3> QED
      BY <2>1, <3>1, <3>2 DEF MayGo
  <2>2. \A o \in Output : InLine(o)' <=> InLine(o)
    BY <1>1, InputKeepsLine
  <2>3. worker \in {"early", "looked"} /\ ~holding => Shown(consumed)'
    <3>1. consumed' = consumed
      BY <1>1 DEF InputMoves, SameWork
    <3>2. Shown(consumed) => \A k \in 1 .. consumed : body'[k] \in {"opening", "text"}
      BY <1>0, <1>1, ShownStays DEF Shown
    <3> QED
      BY <3>1, <3>2 DEF BytesMayGo, Shown
  <2>4. worker' = worker /\ holding' = holding
    BY <1>1 DEF InputMoves, SameWork
  <2> QED
    BY <2>1, <2>2, <2>3, <2>4 DEF BytesMayGo
<1>2. CASE LineSteps
  <2>1. /\ SameInput /\ SameWork /\ \A o \in Output : InLine(o)' => InLine(o) \/ o = KeepAlive
    BY <1>2, LinePassesOn
  <2>2. \A o \in Output : MayGo(o)' <=> MayGo(o)
    BY <2>1 DEF MayGo, Early, Shown, SameInput, SameWork
  <2>3. KeepAlive.what # "bytes"
    BY OutputsSay
  <2>4. worker' = worker /\ holding' = holding /\ consumed' = consumed /\ body' = body
    BY <2>1 DEF SameInput, SameWork
  <2> QED
    BY <2>1, <2>2, <2>3, <2>4 DEF BytesMayGo, Shown
<1>3. CASE WorkerSteps
  <2>1. Works /\ mode' = mode /\ body' = body
    BY <1>3, WorkerWorks DEF Works, SameInput
  <2>2. verdict' = verdict \/ verdict # "goes_on"
    BY <1>3 DEF Phase, WorkerSteps, NotJudged, FailsNow, ToJudging, StartsPassing, Passes,
       StopsPassing,
       EndsPassing, LetsNothingGo, LetsGo, LooksOn, EndsJudged, GoesOnJudged, EndsAll
  <2>3. \A o \in Output : MayGo(o) => MayGo(o)'
    BY <2>1, <2>2 DEF MayGo, Early, Shown
  <2>4. \A o \in Output : InLine(o)' <=> InLine(o) \/ Among(o, sending')
    BY <2>1, WorkerGives
  <2>5. ASSUME \A o \in Output : Among(o, sending') /\ o.what = "bytes" => MayGo(o)',
               worker' \in {"early", "looked"} /\ ~holding' => Shown(consumed)'
        PROVE  BytesMayGo'
    BY <2>3, <2>4, <2>5 DEF BytesMayGo
  <2>6. CASE StreamStopped \/ ToJudging \/ StartsPassing
    <3>1. sending' = <<>> /\ worker' \in {"done", "judging", "passing"}
      BY <2>6 DEF StreamStopped, ToJudging, StartsPassing, Gives
    <3> QED
      BY <2>5, <3>1, AmongIs
  <2>7. CASE LetsNothingGo
    <3>1. sending' = <<>> /\ consumed' = Len(body) /\ (holding' <=> holding \/ Unread("call"))
      BY <2>7 DEF LetsNothingGo, Gives
    <3>2. ~holding' => Shown(Len(body))
      BY <2>7, <3>1, FreeIsShown DEF LetsNothingGo, BytesMayGo
    <3> QED
      BY <2>1, <2>5, <3>1, <3>2, AmongIs DEF Shown
  <2>8. CASE LetsGo
    <3>1. ~holding /\ ~Unread("unreadable") /\ consumed' = Len(body)
          /\ (holding' <=> holding \/ Unread("call")) /\ worker = "early"
      BY <2>8 DEF LetsGo
    <3>2. PICK c \in Output : sending' = <<c>> /\ ~c.judged /\ c.upto = Free(consumed)
      <4>1. ~Passes
        BY <2>8 DEF LetsGo, Passes
      <4> QED
        BY <2>8, <4>1, BytesAreGiven
    <3>3. /\ Shown(Free(consumed)) /\ Free(consumed) \in consumed .. Len(body)
          /\ ~Unread("call") => Shown(Len(body))
      BY <3>1, FreeIsShown DEF BytesMayGo
    <3>4. Free(consumed) <= Len(body)
      BY <1>0, <3>3
    <3>5. MayGo(c)
      BY <3>1, <3>2, <3>3, <3>4 DEF MayGo, Early, Phase
    <3>6. \A o \in Output : Among(o, sending') => MayGo(o)'
      BY <2>3, <3>2, <3>5, AmongIs
    <3> QED
      BY <2>1, <2>5, <3>1, <3>3, <3>6 DEF Shown
  <2>9. CASE LooksOn
    <3>1. sending' = <<>> /\ worker = "looked" /\ holding' = holding /\ consumed' = consumed
      BY <2>9 DEF LooksOn, Gives, SameRead
    <3> QED
      BY <2>1, <2>5, <3>1, AmongIs DEF BytesMayGo, Shown
  <2>10. CASE Passes
    <3>1. worker' = "passing" /\ mode' = "error"
      BY <2>1, <2>10 DEF Passes, Gives, Phase
    <3> QED
      BY <2>5, <3>1 DEF MayGo
  <2>11. CASE FailsNow
    <3>1. /\ worker' = "last"
          /\ sending' = <<Ending("error_event")>> \/ sending' = <<Ending("refuse")>>
      BY <2>11 DEF FailsNow, Gives
    <3>2. \A o \in Output : Among(o, sending') => o.what # "bytes"
      BY <3>1, AmongIs, OutputsSay
    <3> QED
      BY <2>5, <3>1, <3>2
  <2>12. CASE EndsPassing \/ EndsJudged \/ GoesOnJudged
    <3>1. worker' = "last" /\ verdict' = "goes_on"
      BY <2>12 DEF EndsPassing, EndsJudged, GoesOnJudged, Gives, Phase
    <3>2. PICK p \in Output : /\ p.what = "finished"
                              /\ \/ sending' = <<p>>
                                 \/ \E o \in Output : sending' = <<o, p>> /\ o.judged
      BY <2>12, FinishedIsGiven
    <3>3. \A o \in Output : Among(o, sending') => o.what # "bytes" \/ o.judged
      BY <3>2, AmongIs
    <3>4. \A o \in Output : Among(o, sending') /\ o.what = "bytes" => MayGo(o)'
      BY <3>1, <3>3 DEF MayGo
    <3> QED
      BY <2>5, <3>1, <3>4
  <2> QED
    BY <1>3, <2>6, <2>7, <2>8, <2>9, <2>10, <2>11, <2>12 DEF WorkerSteps, NotJudged,
       StopsPassing, EndsAll
<1> QED
  BY <1>1, <1>2, <1>3, StepsAre

-----------------------------------------------------------------------------
LEMMA InputStartsThere ==
  ASSUME ReplyStreamAssumption, ReplyInit
  PROVE  InputIsThere /\ OutIsWhole /\ GotIsWhole
<1>1. \A o \in Output : ~InLine(o) /\ ~HasGot(o)
  BY AmongIs DEF ReplyInit, InLine, HasGot
<1>2. InputIsThere
  <2>1. Len(body) = 0
    BY DEF ReplyInit
  <2> QED
    BY <2>1 DEF ReplyInit, InputIsThere, Waiting
<1>3. OutIsWhole
  <2>1. WentOut(0)
    <3>1. NoCall(0)
      BY DEF NoCall
    <3> QED
      BY <3>1 DEF ReplyInit, WentOut, StopsAt, Delivered
  <2>2. worker # "judging" /\ worker # "passing" /\ consumed = 0
    BY DEF ReplyInit
  <2> QED
    BY <1>1, <2>1, <2>2 DEF OutIsWhole
<1>4. GotIsWhole
  BY <1>1 DEF GotIsWhole
<1> QED
  BY <1>2, <1>3, <1>4

LEMMA InputStaysThere ==
  ASSUME Typed, Phase, InputIsThere, ReplyNext
  PROVE  InputIsThere'
<1>0. body \in Seq(Kinds) /\ Len(body) \in Nat /\ fed \in Nat
  BY DEF Typed, BodyTyped
<1>1. ASSUME NEW kind \in Kinds, Feed(kind) PROVE InputIsThere'
  <2>1. /\ mode' = mode /\ inputEnded' = inputEnded /\ aborted' = aborted /\ ~inputEnded /\ finished' = finished
        /\ fed' = fed + 1 /\ feeding = "none" /\ worker' = worker /\ ending' = ending
        /\ \/ /\ mode # "error" /\ over' = TRUE /\ body' = body /\ feeding' = feeding
           \/ over' = over /\ body' = body /\ feeding' = kind
           \/ over' = over /\ ~Closed /\ body' = Append(body, kind) /\ feeding' = feeding
           \/ over' = over /\ Closed /\ body' = body /\ feeding' = feeding
    BY <1>1, FeedDoes DEF Typed, SameWork
  <2>2. ~over' /\ ~aborted' /\ ~finished' => fed' = Len(body') + Waiting'
    <3> SUFFICES ASSUME ~over', ~aborted', ~finished' PROVE fed' = Len(body') + Waiting'
      OBVIOUS
    <3>1. over' = over /\ ~over /\ ~aborted /\ ~finished /\ fed = Len(body)
      BY <1>0, <2>1 DEF InputIsThere, Waiting
    <3>2. CASE body' = body /\ feeding' = kind
      BY <1>0, <2>1, <3>1, <3>2 DEF Waiting, Kinds
    <3>3. CASE body' = Append(body, kind) /\ feeding' = feeding
      BY <1>0, <2>1, <3>1, <3>3, BodyGrows DEF Waiting
    <3> QED
      BY <2>1, <3>1, <3>2, <3>3 DEF Closed
  <2> QED
    BY <2>1, <2>2 DEF InputIsThere
<1>2. CASE FeedGoesOn
  <2>1. /\ mode' = mode /\ inputEnded' = inputEnded /\ aborted' = aborted /\ over' = over /\ finished' = finished
        /\ fed' = fed /\ feeding \in Kinds /\ feeding' = "none" /\ worker' = worker /\ ending' = ending
        /\ \/ ~Closed /\ body' = Append(body, feeding)
           \/ Closed /\ body' = body
    BY <1>2, FeedGoesOnDoes DEF Typed, SameWork
  <2>2. ~inputEnded /\ feeding # "none"
    BY <2>1 DEF InputIsThere, Kinds
  <2>3. ~over' /\ ~aborted' /\ ~finished' => fed' = Len(body') + Waiting'
    <3> SUFFICES ASSUME ~over', ~aborted', ~finished' PROVE fed' = Len(body') + Waiting'
      OBVIOUS
    <3>1. fed = Len(body) + 1 /\ body' = Append(body, feeding)
      BY <1>0, <2>1, <2>2 DEF InputIsThere, Waiting, Closed
    <3> QED
      BY <1>0, <2>1, <3>1, BodyGrows DEF Waiting
  <2> QED
    BY <2>1, <2>2, <2>3 DEF InputIsThere
<1>3. CASE EndInput \/ Abort
  <2>1. /\ SameWork /\ finished' = finished
        /\ mode' = mode /\ body' = body /\ feeding' = feeding /\ fed' = fed /\ over' = over
        /\ aborted => aborted'
        /\ \/ inputEnded' /\ (aborted' <=> aborted) /\ feeding = "none"
           \/ (inputEnded' <=> inputEnded) /\ aborted'
    BY <1>3, EndOrAbortDoes
  <2>2. inputEnded => inputEnded'
    BY <2>1
  <2>3. inputEnded' => feeding = "none"
    BY <2>1 DEF InputIsThere
  <2> QED
    BY <2>1, <2>2, <2>3 DEF InputIsThere, SameWork, Waiting
<1>4. CASE LineSteps
  <2>1. SameInput /\ SameWork
    BY <1>4, LinePassesOn
  <2>2. finished => finished'
    BY <1>4, DeliverDoes, BeatGoesOutDoes, CollectDoes, StopReadingDoes, BeatDoes DEF LineSteps,
       Typed
  <2> QED
    BY <2>1, <2>2 DEF InputIsThere, SameInput, SameWork, Waiting
<1>5. CASE WorkerSteps
  <2>1. SameInput
    BY <1>5, WorkerWorks DEF Works
  <2>2. finished => finished'
    BY <1>5 DEF WorkerSteps, NotJudged, FailsNow, ToJudging, StartsPassing, Passes, StopsPassing,
       EndsPassing, LetsNothingGo, LetsGo, LooksOn, EndsJudged, GoesOnJudged, EndsAll,
       StreamStopped
  <2>3. worker' = "looked" => ~over /\ (ending' = inputEnded) /\ consumed' = Len(body)
    BY <1>5 DEF WorkerSteps, NotJudged, FailsNow, ToJudging, StartsPassing, Passes, StopsPassing,
       EndsPassing, LetsNothingGo, LetsGo, LooksOn, EndsJudged, GoesOnJudged, EndsAll,
       StreamStopped, Gives
  <2>4. worker' = "judging" => ToJudging
    BY <1>5 DEF WorkerSteps, NotJudged, FailsNow, ToJudging, StartsPassing, Passes, StopsPassing,
       EndsPassing, LetsNothingGo, LetsGo, LooksOn, EndsJudged, GoesOnJudged, EndsAll,
       StreamStopped, Gives
  <2>5. worker' = "judging" => inputEnded
    BY <2>4 DEF ToJudging, InputIsThere
  <2> QED
    BY <2>1, <2>2, <2>3, <2>5 DEF InputIsThere, SameInput, Waiting
<1> QED
  BY <1>1, <1>2, <1>3, <1>4, <1>5, StepsAre

-----------------------------------------------------------------------------
(* A reply that ended gets no more of its body.                            *)
LEMMA EndedIsFrozen ==
  ASSUME Typed, InputIsThere, inputEnded,
         (\E kind \in Kinds : Feed(kind)) \/ FeedGoesOn \/ EndInput \/ Abort
  PROVE  body' = body /\ fed' = fed /\ inputEnded'
<1>1. ASSUME NEW kind \in Kinds PROVE ~Feed(kind)
  BY FeedDoes DEF Typed
<1>2. ~FeedGoesOn
  BY FeedGoesOnDoes DEF Typed, InputIsThere, Kinds
<1> QED
  BY <1>1, <1>2, EndOrAbortDoes

(* What was delivered stays so while the proxy reads.                      *)
LEMMA DeliveredStays ==
  ASSUME Typed, Live', InputMoves \/ LineSteps \/ WorkerSteps
  PROVE  /\ Live
         /\ \A n : Delivered(n) => Delivered(n)'
<1>1. Live /\ \A o \in Output : InLine(o) => InLine(o)'
  BY InputKeepsLine, LinePassesOn, WorkerGives, WorkerWorks
<1> QED
  BY <1>1 DEF Delivered

(* What went out grows to the first call of what is newly read.            *)
LEMMA ReadsToTheCall ==
  ASSUME Typed, ~holding, NEW n, n = consumed, NoCall(n),
         body' = body, consumed' = Len(body), holding' <=> Unread("call")
  PROVE  \E m \in consumed .. Len(body) : m = Free(consumed) /\ NoCall(m)' /\ StopsAt(m)'
<1>1. body \in Seq(Kinds) /\ consumed \in 0 .. Len(body) /\ Len(body) \in Nat
  BY DEF Typed, BodyTyped, ReadTyped
<1>2. PICK f \in consumed .. Len(body) : f = Free(consumed) /\ EndsFree(consumed, f)
  BY <1>1, FreeIs
<1>3. \A k \in 1 .. f : body[k] # "call"
  <2> TAKE k \in 1 .. f
  <2>1. CASE k <= consumed
    BY <1>1, <2>1 DEF NoCall
  <2>2. CASE k > consumed
    BY <1>1, <1>2, <2>2 DEF EndsFree
  <2> QED
    BY <1>1, <1>2, <2>1, <2>2
<1>4. CASE f < Len(body)
  <2>1. body[f + 1] = "call" /\ f + 1 \in consumed + 1 .. Len(body)
    BY <1>1, <1>2, <1>4 DEF EndsFree
  <2>2. Unread("call")
    BY <2>1 DEF Unread
  <2>3. NoCall(f)' /\ StopsAt(f)'
    BY <1>3, <1>4, <2>1, <2>2 DEF NoCall, StopsAt
  <2> QED
    BY <1>2, <2>3
<1>5. CASE f = Len(body)
  <2>1. ~Unread("call")
    BY <1>2, <1>5 DEF Unread, EndsFree
  <2>2. NoCall(f)' /\ StopsAt(f)'
    BY <1>3, <1>5, <2>1 DEF NoCall, StopsAt
  <2> QED
    BY <1>2, <2>2
<1> QED
  BY <1>1, <1>2, <1>4, <1>5

LEMMA WentOutStays ==
  ASSUME Typed, InputMoves, Live', NEW n \in Nat, WentOut(n)
  PROVE  WentOut(n)'
<1>1. /\ body \in Seq(Kinds) /\ consumed \in 0 .. Len(body) /\ opening \in Nat /\ Len(body) \in Nat
  BY DEF Typed, BodyTyped, ReadTyped
<1>2. \A k \in 1 .. Len(body) : body'[k] = body[k]
  BY <1>1, InputLongens
<1>3. consumed' = consumed /\ opening' = opening /\ holding' = holding
  BY DEF InputMoves, SameWork
<1>4. n \in opening .. consumed /\ NoCall(n) /\ StopsAt(n) /\ Delivered(n - opening)
  BY DEF WentOut
<1>5. Delivered(n - opening)'
  BY <1>3, <1>4, DeliveredStays
<1>6. NoCall(n)'
  BY <1>1, <1>2, <1>4 DEF NoCall
<1>7. StopsAt(n)'
  BY <1>1, <1>2, <1>3, <1>4 DEF StopsAt
<1> QED
  BY <1>3, <1>4, <1>5, <1>6, <1>7 DEF WentOut

(* What is read further of a reply goes out, or waits, up to its first     *)
(* call.                                                                   *)
LEMMA WentOutGrows ==
  ASSUME Typed, Live', LetsNothingGo \/ LetsGo, NEW n \in Nat, WentOut(n)
  PROVE  \E m \in Nat : WentOut(m)'
<1>1. /\ body \in Seq(Kinds) /\ consumed \in 0 .. Len(body) /\ opening \in Nat /\ Len(body) \in Nat
  BY DEF Typed, BodyTyped, ReadTyped
<1>2. /\ body' = body /\ consumed' = Len(body) /\ (holding' <=> (holding \/ Unread("call")))
  BY DEF LetsNothingGo, LetsGo, Works, SameInput
<1>3. n \in opening .. consumed /\ NoCall(n) /\ StopsAt(n) /\ Delivered(n - opening)
  BY DEF WentOut
<1>4. \A k : Delivered(k) => Delivered(k)'
  BY DeliveredStays DEF WorkerSteps
<1>5. CASE holding
  <2>1. opening' = opening
    BY <1>5 DEF LetsNothingGo, LetsGo
  <2>2. n < Len(body) /\ body[n + 1] = "call"
    BY <1>1, <1>3, <1>5 DEF StopsAt
  <2>3. StopsAt(n)' /\ NoCall(n)'
    BY <1>2, <1>3, <1>5, <2>2 DEF StopsAt, NoCall
  <2>4. n \in opening' .. consumed'
    BY <1>1, <1>2, <1>3, <2>1
  <2>5. Delivered(n - opening)'
    BY <1>3, <1>4, <2>1
  <2>6. WentOut(n)'
    BY <2>1, <2>3, <2>4, <2>5 DEF WentOut
  <2> QED
    BY <2>6
<1>6. CASE ~holding
  <2>1. n = consumed
    BY <1>3, <1>6 DEF StopsAt
  <2>2. PICK f \in consumed .. Len(body) : f = Free(consumed) /\ NoCall(f)' /\ StopsAt(f)'
    <3>1. holding' <=> Unread("call")
      BY <1>2, <1>6
    <3> QED
      BY <1>2, <1>3, <1>6, <2>1, <3>1, ReadsToTheCall
  <2>3. /\ \/ opening' = opening /\ f = consumed
           \/ opening' = opening + (f - consumed)
           \/ LetsGo /\ opening' = 0
    BY <1>6, <2>2 DEF LetsNothingGo, LetsGo
  <2>4. f \in Nat /\ f \in opening' .. consumed'
    BY <1>1, <1>2, <1>3, <2>1, <2>2, <2>3
  <2>5. CASE (opening' = opening /\ f = consumed) \/ opening' = opening + (f - consumed)
    <3>1. f - opening' = n - opening
      BY <1>1, <2>1, <2>4, <2>5
    <3>2. PICK d : d = n - opening
      OBVIOUS
    <3>3. Delivered(d)' /\ d = f - opening'
      BY <1>3, <1>4, <3>1, <3>2
    <3>4. WentOut(f)'
      BY <2>2, <2>4, <3>3 DEF WentOut
    <3> QED
      BY <2>4, <3>4
  <2>6. CASE LetsGo /\ opening' = 0
    <3>1. ~Passes
      BY <2>6 DEF LetsGo, Passes
    <3>2. PICK o \in Output : sending' = <<o>> /\ o.what = "bytes" /\ o.upto = f
      BY <2>2, <2>6, <3>1, BytesAreGiven
    <3>3. InLine(o)'
      BY <3>2, AmongIs DEF InLine
    <3>4. f - opening' = f
      BY <2>4, <2>6
    <3>5. Delivered(f)'
      BY <3>2, <3>3 DEF Delivered
    <3> QED
      BY <2>2, <2>4, <3>4, <3>5 DEF WentOut
  <2> QED
    BY <2>3, <2>5, <2>6
<1> QED
  BY <1>5, <1>6

(* Where the reply goes on to its end, all of it went out or goes out now. *)
LEMMA AllGoesOut ==
  ASSUME Typed, Phase, EndIsLast, InputIsThere, OutIsWhole, Live, Live',
         EndsPassing \/ EndsJudged \/ GoesOnJudged
  PROVE  Complete /\ Delivered(fed)'
<1>1. body \in Seq(Kinds) /\ consumed \in 0 .. Len(body) /\ opening \in 0 .. consumed /\ Len(body) \in Nat
  BY DEF Typed, BodyTyped, ReadTyped
<1>2. fed' = fed /\ WorkerSteps
  BY DEF EndsPassing, EndsJudged, GoesOnJudged, Works, SameInput, WorkerSteps
<1>3. \A n : Delivered(n) => Delivered(n)'
  BY <1>2, DeliveredStays
<1>4. CASE EndsPassing
  <2>1. worker = "passing" /\ Backlog = 0 /\ inputEnded
    BY <1>4 DEF EndsPassing
  <2>2. mode = "error" /\ ~over /\ ~finished /\ ~aborted
    BY <2>1 DEF Phase, InputIsThere, EndIsLast, Running, Live
  <2>3. fed = Len(body)
    BY <1>1, <2>1, <2>2 DEF InputIsThere, Waiting
  <2>4. consumed = fed
    BY <1>1, <2>1, <2>3 DEF Backlog
  <2>5. Delivered(fed)
    BY <2>1, <2>4 DEF OutIsWhole
  <2> QED
    BY <1>2, <1>3, <2>1, <2>3, <2>5 DEF Complete, Delivered
<1>5. CASE GoesOnJudged
  <2>1. Complete
    BY <1>5 DEF GoesOnJudged, OutIsWhole
  <2>2. PICK o \in Output, p \in Output : sending' = <<o, p>> /\ o.what = "bytes" /\ o.upto = Len(body)
    <3>1. ~EndsPassing /\ \A p : sending' # <<p>>
      BY <1>5, GoesOnGivesTwo DEF GoesOnJudged, EndsPassing
    <3> QED
      BY <1>5, <3>1, FinishedIsGiven
  <2>3. InLine(o)'
    BY <2>2, AmongIs DEF InLine
  <2> QED
    BY <1>2, <2>1, <2>2, <2>3 DEF Complete, Delivered
<1>6. CASE EndsJudged
  <2>1. worker = "judging" /\ mode = "early"
    BY <1>6 DEF EndsJudged, Phase
  <2>2. Complete /\ consumed = Len(body)
    BY <2>1 DEF OutIsWhole, Early
  <2>3. PICK n \in Nat : WentOut(n)
    BY <2>1 DEF OutIsWhole, Early
  <2>4. n \in 0 .. Len(body) /\ EndsFree(0, n)
    BY <1>1, <2>2, <2>3 DEF WentOut, NoCall, StopsAt, EndsFree
  <2>5. n = Free(0)
    <3>1. 0 \in 0 .. Len(body)
      BY <1>1
    <3> QED
      BY <1>1, <2>4, <3>1, FreeIs
  <2>6. Released = (IF sent THEN n - opening ELSE 0)
    BY <2>5 DEF Released
  <2>7. (IF sent THEN n - opening ELSE 0) >= Len(body)
    BY <1>6, <2>6 DEF EndsJudged
  <2>8. Len(body) = 0 \/ n - opening = Len(body)
    BY <1>1, <2>4, <2>7
  <2>9. fed = 0 \/ fed = n - opening
    BY <2>2, <2>8 DEF Complete
  <2>10. Delivered(fed)
    BY <2>3, <2>9 DEF WentOut, Delivered
  <2> QED
    BY <1>2, <1>3, <2>2, <2>10 DEF Delivered
<1> QED
  BY <1>4, <1>5, <1>6

LEMMA OutStaysWhole ==
  ASSUME Typed, Phase, EndIsLast, InputIsThere, OutIsWhole, ReplyNext
  PROVE  OutIsWhole'
<1> SUFFICES ASSUME Live' PROVE OutIsWhole'
  BY DEF OutIsWhole
<1>0. Live /\ \A n : Delivered(n) => Delivered(n)'
  BY StepsAre, DeliveredStays
<1>1. CASE InputMoves /\ ((\E kind \in Kinds : Feed(kind)) \/ FeedGoesOn \/ EndInput \/ Abort)
  <2>1. inputEnded => body' = body /\ fed' = fed /\ inputEnded'
    BY <1>1, EndedIsFrozen
  <2>2. worker' = worker /\ consumed' = consumed /\ mode' = mode
    BY <1>1 DEF InputMoves, SameWork
  <2>3. \A o \in Output : InLine(o)' <=> InLine(o)
    BY <1>1, InputKeepsLine
  <2>4. worker = "judging" => (Complete /\ (Early => consumed = Len(body)))'
    BY <1>0, <2>1, <2>2 DEF OutIsWhole, InputIsThere, Complete, Early
  <2>5. worker = "passing" => Delivered(consumed)'
    BY <1>0, <2>2 DEF OutIsWhole
  <2>6. worker \in {"early", "looked", "judging"} /\ Early => \E n \in Nat : WentOut(n)'
    BY <1>0, <1>1, WentOutStays DEF OutIsWhole
  <2>7. \A o \in Output : InLine(o) /\ o.what = "finished" => Complete' /\ Delivered(fed)'
    BY <1>0, <2>1 DEF OutIsWhole, Complete
  <2>8. worker = "error" => consumed' = 0
    BY <1>0, <2>2 DEF OutIsWhole
  <2> QED
    BY <2>2, <2>3, <2>4, <2>5, <2>6, <2>7, <2>8 DEF OutIsWhole, Early
<1>2. CASE LineSteps
  <2>1. SameInput /\ SameWork /\ \A o \in Output : InLine(o)' => InLine(o) \/ o = KeepAlive
    BY <1>2, LinePassesOn
  <2>2. KeepAlive.what # "finished"
    BY OutputsSay
  <2>3. \A n : WentOut(n) => WentOut(n)'
    BY <1>0, <2>1 DEF WentOut, NoCall, StopsAt, SameInput, SameWork
  <2>4. Complete' <=> Complete
    BY <2>1 DEF Complete, SameInput
  <2>5. Delivered(fed) => Delivered(fed)'
    BY <1>0, <2>1 DEF SameInput
  <2>6. Delivered(consumed) => Delivered(consumed)'
    BY <1>0, <2>1 DEF SameWork
  <2>7. worker' = worker /\ consumed' = consumed /\ body' = body /\ mode' = mode
    BY <2>1 DEF SameInput, SameWork
  <2> QED
    BY <1>0, <2>1, <2>2, <2>3, <2>4, <2>5, <2>6, <2>7 DEF OutIsWhole, Early
<1>3. CASE EndsAll
  <2>1. worker' = "done" /\ sending' = <<>> /\ SameInput
    BY <1>3 DEF EndsAll, StreamStopped, Works
  <2>2. \A o \in Output : InLine(o)' <=> InLine(o)
    BY <1>3, <2>1, WorkerGives, AmongIs DEF EndsAll
  <2>3. Delivered(fed) => Delivered(fed)'
    BY <1>0, <2>1 DEF SameInput
  <2> QED
    BY <1>0, <2>1, <2>2, <2>3 DEF OutIsWhole, Complete, SameInput
<1>4. CASE WorkerSteps /\ ~EndsAll
  <2>1. Works /\ sending = <<>> /\ SameInput
    BY <1>4, WorkerWorks DEF Works
  <2>2. Running
    BY <1>4 DEF WorkerSteps, NotJudged, FailsNow, ToJudging, StartsPassing, Passes, StopsPassing,
         EndsPassing, LetsNothingGo, LetsGo, LooksOn, EndsJudged, GoesOnJudged, Running
  <2>3. \A o \in Output : InLine(o)' /\ o.what = "finished" => Among(o, sending')
    BY <2>1, <2>2, NoEndInLine, WorkerGives DEF EndsOf
  <2>4. mode' = mode /\ body' = body /\ fed' = fed /\ inputEnded' = inputEnded
    BY <2>1 DEF SameInput
  <2>5. SameRead => \A n : WentOut(n) => WentOut(n)'
    BY <1>0, <2>4 DEF WentOut, NoCall, StopsAt, SameRead
  <2>6. CASE StreamStopped
    <3>1. worker' = "done" /\ sending' = <<>>
      BY <2>6 DEF StreamStopped
    <3> QED
      BY <2>3, <3>1, AmongIs DEF OutIsWhole
  <2>7. CASE FailsNow
    <3>1. worker' = "last" /\ (sending' = <<Ending("error_event")>> \/ sending' = <<Ending("refuse")>>)
      BY <2>7 DEF FailsNow, Gives
    <3>2. \A o \in Output : Among(o, sending') => o.what # "finished"
      BY <3>1, AmongIs, OutputsSay
    <3> QED
      BY <2>3, <3>1, <3>2 DEF OutIsWhole
  <2>8. CASE ToJudging
    <3>1. /\ SameRead /\ worker' = "judging" /\ sending' = <<>>
          /\ \/ worker = "whole" /\ inputEnded /\ ~over
             \/ worker = "looked" /\ ending
      BY <2>8 DEF ToJudging, Gives
    <3>2. inputEnded /\ ~over /\ ~finished /\ ~aborted
      BY <1>0, <2>2, <3>1 DEF InputIsThere, EndIsLast, Live
    <3>3. Complete
      <4>1. fed = Len(body) + Waiting /\ Waiting = 0
        BY <3>2 DEF InputIsThere, Waiting
      <4> QED
        BY <3>2, <4>1 DEF Complete, Typed, BodyTyped
    <3>4. Early => worker = "looked" /\ consumed = Len(body)
      BY <3>1 DEF Phase, Early, InputIsThere
    <3>5. Early => \E n \in Nat : WentOut(n)'
      BY <1>0, <2>5, <3>1, <3>4 DEF OutIsWhole
    <3>6. Complete' /\ (Early => consumed' = Len(body'))
      BY <2>4, <3>1, <3>3, <3>4 DEF Complete, SameRead
    <3> QED
      BY <2>3, <2>4, <3>1, <3>5, <3>6, AmongIs DEF OutIsWhole, Early
  <2>9. CASE StartsPassing
    <3>1. worker' = "passing" /\ sending' = <<>> /\ consumed' = 0
      BY <1>0, <2>9 DEF StartsPassing, Gives, SameRead, OutIsWhole
    <3>2. Delivered(consumed)'
      BY <3>1 DEF Delivered
    <3> QED
      BY <2>3, <3>1, <3>2, AmongIs DEF OutIsWhole
  <2>10. CASE Passes
    <3>1. worker' = "passing" /\ consumed' = Len(body) /\ ~LetsGo
      BY <2>10 DEF Passes, Gives, LetsGo
    <3>2. PICK o \in Output : sending' = <<o>> /\ o.what = "bytes" /\ o.upto = Len(body)
      BY <2>10, <3>1, BytesAreGiven
    <3>3. InLine(o)'
      BY <3>2, AmongIs DEF InLine
    <3>4. Delivered(consumed)'
      BY <3>1, <3>2, <3>3 DEF Delivered
    <3>5. \A q \in Output : Among(q, sending') => q.what # "finished"
      BY <3>2, AmongIs
    <3> QED
      BY <2>3, <3>1, <3>4, <3>5 DEF OutIsWhole
  <2>11. CASE LetsNothingGo \/ LetsGo
    <3>1. worker = "early" /\ worker' = "looked" /\ mode = "early"
      BY <2>11 DEF LetsNothingGo, LetsGo, Gives, Phase
    <3>2. PICK n \in Nat : WentOut(n)
      BY <1>0, <3>1 DEF OutIsWhole, Early
    <3>3. \E m \in Nat : WentOut(m)'
      BY <2>11, <3>2, WentOutGrows
    <3>4. \A o \in Output : Among(o, sending') => o.what # "finished"
      <4>1. CASE LetsNothingGo
        BY <4>1, AmongIs DEF LetsNothingGo, Gives
      <4>2. CASE LetsGo
        <5>1. \E o \in Output : sending' = <<o>> /\ o.what = "bytes"
          BY <4>2, BytesAreGiven
        <5> QED
          BY <5>1, AmongIs
      <4> QED
        BY <2>11, <4>1, <4>2
    <3> QED
      BY <2>3, <3>1, <3>3, <3>4 DEF OutIsWhole
  <2>12. CASE LooksOn
    <3>1. worker = "looked" /\ worker' = "early" /\ sending' = <<>> /\ SameRead /\ mode = "early"
      BY <2>12 DEF LooksOn, Gives, Phase
    <3>2. \E n \in Nat : WentOut(n)'
      BY <1>0, <2>5, <3>1 DEF OutIsWhole, Early
    <3> QED
      BY <2>3, <3>1, <3>2, AmongIs DEF OutIsWhole
  <2>13. CASE EndsPassing \/ EndsJudged \/ GoesOnJudged
    <3>1. worker' = "last"
      BY <2>13 DEF EndsPassing, EndsJudged, GoesOnJudged, Gives
    <3>2. Complete /\ Delivered(fed)'
      BY <1>0, <2>13, AllGoesOut
    <3>3. Complete'
      BY <2>4, <3>2 DEF Complete
    <3> QED
      BY <2>3, <3>1, <3>2, <3>3 DEF OutIsWhole
  <2> QED
    BY <1>4, <2>6, <2>7, <2>8, <2>9, <2>10, <2>11, <2>12, <2>13 DEF WorkerSteps, NotJudged,
       StopsPassing
<1> QED
  BY <1>1, <1>2, <1>3, <1>4, StepsAre

LEMMA GotStaysWhole ==
  ASSUME Typed, Phase, EndIsLast, InputIsThere, OutIsWhole, GotIsWhole, ReplyNext
  PROVE  GotIsWhole'
<1>1. CASE InputMoves /\ ((\E kind \in Kinds : Feed(kind)) \/ FeedGoesOn \/ EndInput \/ Abort)
  <2>1. inputEnded => fed' = fed /\ inputEnded'
    BY <1>1, EndedIsFrozen
  <2>2. \A o \in Output : HasGot(o)' <=> HasGot(o)
    BY <1>1, InputKeepsLine
  <2>3. inputEnded => (HasAll => HasAll')
    BY <2>1, <2>2 DEF HasAll
  <2> QED
    BY <2>1, <2>2, <2>3 DEF GotIsWhole
<1>2. CASE WorkerSteps
  <2>1. fed' = fed /\ inputEnded' = inputEnded /\ \A o \in Output : HasGot(o)' <=> HasGot(o)
    BY <1>2, WorkerWorks, WorkerGives DEF Works, SameInput
  <2> QED
    BY <2>1 DEF GotIsWhole, HasAll
<1>3. CASE LineSteps /\ ~Collect
  <2>1. SameInput /\ got' = got
    BY <1>3, LinePassesOn, DeliverDoes, BeatGoesOutDoes, StopReadingDoes,
       BeatDoes DEF LineSteps, Typed
  <2>2. \A o \in Output : HasGot(o)' <=> HasGot(o)
    BY <2>1 DEF HasGot
  <2> QED
    BY <2>1, <2>2 DEF GotIsWhole, HasAll, SameInput
<1>4. CASE Collect
  <2>1. /\ fed' = fed /\ inputEnded' = inputEnded
        /\ \A o \in Output : (HasGot(o)' => InLine(o)) /\ (HasGot(o) => HasGot(o)')
    BY <1>4, LinePassesOn DEF LineSteps, SameInput
  <2>2. PICK c \in Output :
          /\ queue = <<c>>
          /\ \/ ~Live /\ got' = got
             \/ Live /\ got' = Append(got, c)
    BY <1>4, CollectDoes DEF Typed
  <2>3. HasAll => HasAll'
    BY <2>1 DEF HasAll
  <2>4. CASE ~Live
    <3>1. \A o \in Output : HasGot(o)' <=> HasGot(o)
      BY <2>2, <2>4 DEF HasGot
    <3> QED
      BY <2>1, <2>3, <3>1 DEF GotIsWhole
  <2>5. CASE Live /\ c.what # "finished"
    <3>1. \A o \in Output : HasGot(o)' => HasGot(o) \/ o = c
      <4>1. \A o \in Output : Among(o, Append(got, c)) <=> Among(o, got) \/ o = c
        BY AmongIs DEF Typed, LineTyped
      <4> QED
        BY <2>2, <2>5, <4>1 DEF HasGot
    <3> QED
      BY <2>1, <2>3, <2>5, <3>1 DEF GotIsWhole
  <2>6. CASE Live /\ c.what = "finished"
    <3>1. InLine(c)
      BY <2>2, AmongIs DEF InLine
    <3>2. Complete /\ Delivered(fed)
      BY <2>6, <3>1 DEF OutIsWhole
    <3>3. sending = <<>>
      <4>1. ~NoEnd(queue)
        BY <2>2, <2>6, NoEndGrows
      <4> QED
        BY <4>1 DEF EndIsLast
    <3>4. \A o \in Output : InLine(o) /\ o.what = "bytes" => HasGot(o)
      BY <2>2, <2>6, <3>3, AmongIs DEF InLine
    <3>5. HasAll
      BY <3>2, <3>4 DEF Delivered, HasAll
    <3> QED
      BY <2>1, <2>3, <3>2, <3>5 DEF GotIsWhole, Complete
  <2> QED
    BY <2>4, <2>5, <2>6
<1> QED
  BY <1>1, <1>2, <1>3, <1>4, StepsAre

-----------------------------------------------------------------------------
(* What holds of a reply stream all along.                                 *)
ReplyInv ==
  /\ Typed /\ Phase /\ EndIsLast /\ EndAsJudged /\ StatusIsOut /\ BytesMayGo
  /\ InputIsThere /\ OutIsWhole /\ GotIsWhole

LEMMA InvIsInductive ==
  ASSUME ReplyInv, [ReplyNext]_replyVars
  PROVE  ReplyInv'
<1>1. CASE ReplyNext
  BY <1>1, StaysTyped, StaysInPhase, EndStaysLast, EndsStayAsJudged, StatusStaysOut,
     BytesStillMayGo, InputStaysThere, OutStaysWhole, GotStaysWhole DEF ReplyInv
<1>2. CASE UNCHANGED replyVars
  <2>1. /\ SameInput /\ SameWork /\ SameLine /\ sent' = sent /\ finished' = finished
    BY <1>2 DEF replyVars, inputVars, outputVars, SameInput, SameWork, SameLine
  <2>2. \A o : (InLine(o)' <=> InLine(o)) /\ (HasGot(o)' <=> HasGot(o)) /\ (MayGo(o)' <=> MayGo(o))
    BY <2>1 DEF InLine, HasGot, MayGo, Early, Shown, SameInput, SameWork, SameLine
  <2>3. \A n : (Delivered(n)' <=> Delivered(n)) /\ (WentOut(n)' <=> WentOut(n))
    BY <2>1, <2>2 DEF Delivered, WentOut, NoCall, StopsAt, SameInput, SameWork
  <2>4. (Complete' <=> Complete) /\ (Live' <=> Live) /\ (HasAll' <=> HasAll) /\ (Anything' <=> Anything)
    BY <2>1, <2>2 DEF Complete, Live, HasAll, Anything, SameInput, SameLine
  <2>5. Typed'
    BY <2>1 DEF ReplyInv, Typed, BodyTyped, ReadTyped, LineTyped, SameInput, SameWork, SameLine
  <2>6. Phase'
    BY <2>1 DEF ReplyInv, Phase, SameInput, SameWork
  <2>7. EndIsLast'
    BY <2>1 DEF ReplyInv, EndIsLast, Running, NoEnd, SameWork, SameLine
  <2>8. EndAsJudged'
    BY <2>1, <2>2 DEF ReplyInv, EndAsJudged, SameWork
  <2>9. StatusIsOut'
    BY <2>1, <2>4 DEF ReplyInv, StatusIsOut, SameWork, SameLine
  <2>10. BytesMayGo'
    BY <2>1, <2>2 DEF ReplyInv, BytesMayGo, Shown, SameInput, SameWork
  <2>11. InputIsThere'
    BY <2>1 DEF ReplyInv, InputIsThere, Waiting, SameInput, SameWork
  <2>12. OutIsWhole'
    BY <2>1, <2>2, <2>3, <2>4 DEF ReplyInv, OutIsWhole, Early, SameInput, SameWork
  <2>13. GotIsWhole'
    BY <2>1, <2>2, <2>4 DEF ReplyInv, GotIsWhole, SameInput
  <2> QED
    BY <2>5, <2>6, <2>7, <2>8, <2>9, <2>10, <2>11, <2>12, <2>13 DEF ReplyInv
<1> QED
  BY <1>1, <1>2

LEMMA InvHolds == ReplySpec => []ReplyInv
<1>1. ReplyInit => ReplyInv
  BY ReplyStreamAssumption, StartsTyped, EndStartsLast, EndsStartAsJudged, InputStartsThere
     DEF ReplyInv
<1>2. ReplyInv /\ [ReplyNext]_replyVars => ReplyInv'
  BY InvIsInductive
<1> QED
  BY <1>1, <1>2, PTL DEF ReplySpec

(* What the client has of a reply comes before anything that must be       *)
(* judged or was judged, an end is of all that was fed, and the handler is *)
(* told of the reply once, whatever the proxy did (_release_early,         *)
(* _release_rest and run of sidecar/_reply_stream.py).                     *)
THEOREM OnlyTheJudgedIsGiven == ReplySpec => []ClientHasWhatWasJudged
<1>1. ASSUME ReplyInv PROVE HeldUntilJudged
  <2> SUFFICES ASSUME NEW k \in DOMAIN got, got[k].what = "bytes"
               PROVE  \/ mode = "error"
                      \/ got[k].judged /\ verdict = "goes_on"
                      \/ ~got[k].judged /\ Early /\ Shown(got[k].upto)
    BY DEF HeldUntilJudged, Shown
  <2>1. got[k] \in Output
    BY <1>1, LenProperties, ElementOfSeq DEF ReplyInv, Typed, LineTyped
  <2>2. InLine(got[k])
    BY DEF InLine, HasGot, Among
  <2>3. MayGo(got[k])
    BY <1>1, <2>1, <2>2 DEF ReplyInv, BytesMayGo
  <2> QED
    BY <2>3 DEF MayGo
<1>2. ASSUME ReplyInv PROVE FinishedIsWhole
  <2> SUFFICES ASSUME got # <<>>, Last(got).what = "finished"
               PROVE  fed = 0 \/ \E k \in DOMAIN got : got[k].what = "bytes" /\ got[k].upto = fed
    BY DEF FinishedIsWhole
  <2>1. got \in Seq(Output) /\ Len(got) \in DOMAIN got /\ Last(got) = got[Len(got)]
    BY <1>2, LenProperties, EmptySeq DEF ReplyInv, Typed, LineTyped, Last
  <2>2. Last(got) \in Output /\ HasGot(Last(got))
    BY <2>1, LenProperties, ElementOfSeq DEF HasGot, Among
  <2>3. HasAll
    BY <1>2, <2>2 DEF ReplyInv, GotIsWhole
  <2> QED
    BY <2>3 DEF HasAll, HasGot, Among
<1>3. ASSUME ReplyInv PROVE HandlerToldOnce
  <2>1. toldHandler = <<>> \/ \E what : toldHandler = <<what>>
    BY <1>3 DEF ReplyInv, Phase, Places
  <2>2. worker = "done" => \E what : toldHandler = <<what>>
    BY <1>3 DEF ReplyInv, Phase
  <2>3. Len(<<>>) = 0 /\ \A what : Len(<<what>>) = 1
    OBVIOUS
  <2>4. worker = "done" => Len(toldHandler) = 1
    BY <2>2, <2>3, Zenon
  <2>5. Len(toldHandler) = 0 \/ Len(toldHandler) = 1
    BY <2>1, <2>3, Zenon
  <2>6. \A n : n = 0 \/ n = 1 => n <= 1
    OBVIOUS
  <2>7. Len(toldHandler) <= 1
    BY <2>5, <2>6, Zenon
  <2> QED
    BY <2>4, <2>7 DEF HandlerToldOnce
<1>4. ReplyInv => ClientHasWhatWasJudged
  BY <1>1, <1>2, <1>3 DEF ClientHasWhatWasJudged
<1> QED
  BY <1>4, InvHolds, PTL

-----------------------------------------------------------------------------
Said(s) == [k \in DOMAIN s |-> s[k].what]

LEMMA SaidGrows ==
  ASSUME NEW s \in Seq(Output), NEW o \in Output
  PROVE  /\ Said(Append(s, o)) = Append(Said(s), o.what)
         /\ Said(s) = <<>> <=> s = <<>>
         /\ s # <<>> => Said(s)[Len(Said(s))] = s[Len(s)].what /\ Len(s) \in DOMAIN s
<1> DEFINE Word == {"bytes", "keepalive"} \cup EndsOf
           n == Len(s)
           t == Append(s, o)
<1>1. /\ n \in Nat /\ DOMAIN s = 1 .. n /\ DOMAIN t = 1 .. n + 1
      /\ (\A k \in 1 .. n : t[k] = s[k] /\ s[k] \in Output) /\ t[n + 1] = o
  BY AppendProperties, LenProperties, ElementOfSeq
<1>2. \A p \in Output : p.what \in Word
  BY DEF Output
<1> HIDE DEF n, t, Word
<1>3. Said(s) \in [1 .. n -> Word] /\ Said(t) \in [1 .. n + 1 -> Word]
  <2>1. \A k \in 1 .. n + 1 : t[k] \in Output
    BY <1>1
  <2> QED
    BY <1>1, <1>2, <2>1 DEF Said
<1>4. Said(s) \in Seq(Word) /\ Len(Said(s)) = n /\ Said(t) \in Seq(Word) /\ Len(Said(t)) = n + 1
  BY <1>1, <1>3
<1>5. o.what \in Word
  BY <1>2
<1>6. /\ Append(Said(s), o.what) \in Seq(Word) /\ Len(Append(Said(s), o.what)) = n + 1
      /\ \A k \in 1 .. n : Append(Said(s), o.what)[k] = Said(s)[k]
      /\ Append(Said(s), o.what)[n + 1] = o.what
  BY <1>4, <1>5, AppendProperties
<1>7. \A k \in 1 .. n + 1 : Said(t)[k] = Append(Said(s), o.what)[k]
  <2> TAKE k \in 1 .. n + 1
  <2>1. CASE k \in 1 .. n
    BY <1>1, <1>6, <2>1 DEF Said
  <2>2. CASE k = n + 1
    BY <1>1, <1>6, <2>2 DEF Said
  <2>3. k \in 1 .. n \/ k = n + 1
    BY <1>1
  <2> QED
    BY <2>1, <2>2, <2>3
<1>8. Said(t) = Append(Said(s), o.what)
  BY <1>4, <1>6, <1>7, SeqEqual
<1>9. s = <<>> <=> n = 0
  BY EmptySeq DEF n
<1>10. Said(s) = <<>> <=> n = 0
  BY <1>4, EmptySeq
<1>11. n # 0 => Said(s)[n] = s[n].what /\ n \in DOMAIN s
  BY <1>1 DEF Said
<1> QED
  BY <1>4, <1>8, <1>9, <1>10, <1>11 DEF n, t

(* A reply is decided once.                                                *)
LEMMA VerdictIsOnce ==
  ASSUME Typed, Phase, ReplyNext
  PROVE  \/ verdict' = verdict
         \/ verdict = "none" /\ verdict' \in {"goes_on", "refused", "not_judged"}
<1>1. CASE InputMoves
  BY <1>1 DEF InputMoves, SameWork
<1>2. CASE LineSteps
  BY <1>2, LinePassesOn DEF SameWork
<1>3. CASE WorkerSteps
  BY <1>3 DEF Phase, WorkerSteps, NotJudged, FailsNow, ToJudging, StartsPassing, Passes,
     StopsPassing,
     EndsPassing, LetsNothingGo, LetsGo, LooksOn, EndsJudged, GoesOnJudged, EndsAll
<1> QED
  BY <1>1, <1>2, <1>3, StepsAre

(* An output is collected as the promise says.                             *)
LEMMA CollectedAsPromised ==
  ASSUME ReplyInv, ReplyNext, got' # got
  PROVE  Promise!Next
<1>1. Collect
  <2>1. ~InputMoves /\ ~WorkerSteps
    BY WorkerWorks DEF InputMoves, SameLine, Works
  <2>2. LineSteps
    BY <2>1, StepsAre DEF ReplyInv
  <2> QED
    BY <2>2, DeliverDoes, BeatGoesOutDoes, StopReadingDoes, BeatDoes DEF LineSteps, ReplyInv,
       Typed
<1>2. PICK o \in Output : queue = <<o>> /\ Live /\ got' = Append(got, o)
  BY <1>1, CollectDoes DEF ReplyInv, Typed
<1>3. verdict' = verdict
  BY <1>1, CollectDoes DEF ReplyInv, Typed, SameWork
<1>4. got \in Seq(Output) /\ NoEnd(got)
  <2>1. queue # <<>>
    BY <1>2
  <2> QED
    BY <2>1 DEF ReplyInv, Typed, LineTyped, EndIsLast
<1>5. /\ Said(got') = Append(Said(got), o.what)
      /\ Said(got) = <<>> <=> got = <<>>
      /\ got # <<>> => Said(got)[Len(Said(got))] = got[Len(got)].what /\ Len(got) \in DOMAIN got
  BY <1>2, <1>4, SaidGrows
<1>6. ~Promise!Over
  BY <1>4, <1>5 DEF Promise!Over, Promise!Ends, NoEnd, Said
<1>7. InLine(o)
  BY <1>2, AmongIs DEF InLine
<1>8. CASE o.what \in {"bytes", "keepalive"}
  <2>1. Promise!Send
    BY <1>3, <1>5, <1>6, <1>8 DEF Promise!Send, Promise!Sent, Said
  <2> QED
    BY <2>1 DEF Promise!Next
<1>9. CASE o.what = "finished"
  <2>1. verdict = "goes_on"
    BY <1>7, <1>9 DEF ReplyInv, EndAsJudged
  <2>2. Promise!End
    BY <1>3, <1>5, <1>6, <1>9, <2>1 DEF Promise!End, Said
  <2> QED
    BY <2>2 DEF Promise!Next
<1>10. CASE o.what = "refuse"
  <2>1. verdict # "goes_on"
    BY <1>7, <1>10 DEF ReplyInv, EndAsJudged
  <2>2. Said(got) = <<>>
    BY <1>2, <1>5, <1>10 DEF ReplyInv, StatusIsOut
  <2>3. Said(got') = <<"refuse">>
    BY <1>5, <1>10, <2>2, AppendsOne
  <2>4. Promise!End
    BY <1>3, <1>6, <2>1, <2>2, <2>3 DEF Promise!End, Said
  <2> QED
    BY <2>4 DEF Promise!Next
<1>11. CASE o.what = "error_event"
  <2>1. verdict # "goes_on"
    BY <1>7, <1>11 DEF ReplyInv, EndAsJudged
  <2>2. Said(got) # <<>>
    BY <1>2, <1>5, <1>11 DEF ReplyInv, StatusIsOut
  <2>3. Promise!End
    BY <1>3, <1>5, <1>6, <1>11, <2>1, <2>2 DEF Promise!End, Said
  <2> QED
    BY <2>3 DEF Promise!Next
<1> QED
  BY <1>8, <1>9, <1>10, <1>11 DEF Output, EndsOf

(* A stream's outputs are as StreamPromise says: a refusal with a status   *)
(* only where nothing went out, an error event only where something did,   *)
(* an end only of a reply let go on, and nothing after any of them         *)
(* (Output and run of sidecar/_reply_stream.py).                           *)
THEOREM StreamKeepsItsPromise == ReplySpec => KeepsItsPromise
<1>1. ReplyInit => Promise!Init
  BY DEF ReplyInit, Promise!Init
<1>2. ReplyInv /\ [ReplyNext]_replyVars => [Promise!Next]_Promise!vars
  <2> SUFFICES ASSUME ReplyInv, [ReplyNext]_replyVars PROVE [Promise!Next]_Promise!vars
    OBVIOUS
  <2>1. CASE UNCHANGED replyVars
    BY <2>1 DEF replyVars, outputVars, Promise!vars
  <2>2. CASE ReplyNext /\ got' # got
    BY <2>2, CollectedAsPromised
  <2>3. CASE ReplyNext /\ got' = got
    <3>1. CASE verdict' = verdict
      BY <2>3, <3>1 DEF Promise!vars
    <3>2. CASE verdict = "none" /\ verdict' \in {"goes_on", "refused", "not_judged"}
      BY <2>3, <3>2 DEF Promise!Next, Promise!Decide
    <3> QED
      BY <2>3, <3>1, <3>2, VerdictIsOnce DEF ReplyInv
  <2> QED
    BY <2>1, <2>2, <2>3
<1> QED
  BY <1>1, <1>2, InvHolds, PTL DEF ReplySpec, KeepsItsPromise, Promise!Spec
=============================================================================
