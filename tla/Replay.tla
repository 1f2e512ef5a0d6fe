------------------------------- MODULE Replay -------------------------------
(***************************************************************************)
(* What people decided at the steps of a transcript. Live, the host keeps  *)
(* each decision of a human() for the later steps of its conversation      *)
(* (_human_decisions.py); the steps rebuilt (_replay_step.py) hold the     *)
(* answers recorded, and replay_monitor (_replay.py) runs a sentinel over  *)
(* them, answering its human()s from those or from human=.                 *)
(***************************************************************************)
EXTENDS Naturals, FiniteSets, Sequences, SequencesExt

CONSTANTS
  Conversations, Stages, Ids,
  Main,       \* the conversation a transcript's messages are of
  Humans,     \* the paths of human() instances: sequences of names
  Layers,     \* the paths at which a decision can be superseded
  Actions,    \* what a person can answer
  Offered(_), \* what the human() at a path offers in the replay
  Policies,   \* values of human=: a fixed answer, or "stand-in"
  Parallel,   \* whether steps run at once live, as calls made at once do
  MaxSteps,   \* bound on the steps of a transcript
  MaxRecords  \* bound on the failures and supersessions of a replay

(* A log's answers are read in the order they were given, which is that of *)
(* its steps, and none that was superseded.                                *)
ReplayAssumption ==
  /\ <<>> \notin Humans /\ MaxSteps \in Nat /\ MaxRecords \in Nat
  /\ Main \in Conversations
  /\ Policies # {} => ~Parallel /\ Layers = {}

VARIABLES
  steps,     \* the steps in the order they began, with what people decided
  kept,      \* the records kept of each conversation
  from,      \* what the steps are rebuilt from, "events" or "messages"
  policy,    \* the human= of the replay
  watched,   \* the stages its sentinel watches
  replaying, \* "live", then "between" steps or "running" one, and its end
  seen,      \* the steps the replay was given so far
  recorder,  \* what it recorded
  mark,      \* how much it had before the step it runs
  answered,  \* the asks of the step it runs, with their answers
  reports    \* its reports

liveVars == <<steps, kept>>
replayVars == <<from, policy, watched, replaying, seen, recorder, mark, answered, reports>>
vars == <<liveVars, replayVars>>

Kinds == {"reports", "failures", "supersessions"}
None == "none"
Nothing == [kind \in Kinds |-> <<>>]
KeyOf(i) == [conversation |-> steps[i].conversation, stage |-> steps[i].stage, id |-> steps[i].id]
-----------------------------------------------------------------------------
(* A step sees the records of its conversation as they were when it began. *)
Begins ==
  /\ replaying = "live" /\ Len(steps) < MaxSteps
  /\ Parallel \/ \A i \in DOMAIN steps : steps[i].settled
  /\ \E c \in Conversations, stage \in Stages, id \in Ids :
       steps' = Append(steps,
         [conversation |-> c, stage |-> stage, id |-> id, shown |-> kept[c],
          after |-> {j \in DOMAIN steps : steps[j].settled},
          decided |-> {}, held |-> {}, superseded |-> {}, settled |-> FALSE])
  /\ UNCHANGED <<kept, replayVars>>

(* kept_human_decision: the one a human() makes, not the layers above,     *)
(* none of which has settled                                               *)
Decides(i) ==
  /\ ~steps[i].settled
  /\ \E p \in Humans, action \in Actions :
       LET made == [step |-> i, path |-> p, action |-> action] IN
       /\ \A d \in steps[i].decided : d.path # p
       /\ \A s \in steps[i].superseded : ~IsPrefix(s.layer, p)
       /\ steps' = [steps EXCEPT ![i].decided = @ \cup {made}, ![i].held = @ \cup {made}]
  /\ UNCHANGED <<kept, replayVars>>

(* supersedes                                                              *)
Withdraws(layer, action, record) ==
  IsPrefix(layer, record.path) /\ record.action = action

(* A final decision replaces that of a layer, a person's that passed up to *)
(* it, or another protocol's with no person's (of).                        *)
Supersedes(i) ==
  /\ ~steps[i].settled
  /\ \E layer \in Layers, action \in Actions,
        of \in {{}} \cup {{d} : d \in steps[i].decided} :
       /\ \A s \in steps[i].superseded : ~IsPrefix(s.layer, layer)
       /\ \A d \in of :
            /\ IsPrefix(layer, d.path) /\ d.action = action
            /\ \A s \in steps[i].superseded : d \notin s.of
       /\ steps' = [steps EXCEPT
            ![i].superseded = @ \cup {[layer |-> layer, action |-> action, of |-> of]},
            ![i].held = {k \in @ : ~Withdraws(layer, action, k)}]
  /\ UNCHANGED <<kept, replayVars>>

(* run_sentinel returned: the records held are the conversation's.         *)
Settles(i) ==
  /\ ~steps[i].settled
  /\ steps' = [steps EXCEPT ![i].settled = TRUE, ![i].held = {}]
  /\ kept' = [kept EXCEPT ![steps[i].conversation] = @ \cup steps[i].held]
  /\ UNCHANGED replayVars

Live == Begins \/ \E i \in DOMAIN steps : Decides(i) \/ Supersedes(i) \/ Settles(i)
-----------------------------------------------------------------------------
(* The steps rebuilt: a log's, or of its messages those of the one         *)
(* conversation they are of                                                *)
Rebuilt ==
  SelectSeq([i \in DOMAIN steps |-> i],
            LAMBDA i : from = "messages" => steps[i].conversation = Main)
Current == Rebuilt[Len(seen)]

(* What the person at a path decided at a step                             *)
Gave(i, path) == {d.action : d \in {x \in steps[i].decided : x.path = path}}

(* The steps of a stage and id, of any conversation, where one decided     *)
Alike(i, path) ==
  {j \in DOMAIN steps : steps[j].stage = steps[i].stage /\ steps[j].id = steps[i].id
                         /\ Gave(j, path) # {}}

(* The answers recorded at a step, by the path that asked: those of its    *)
(* generate or call, or, where steps are rebuilt from messages, the last   *)
(* under its stage and id, whichever conversation it was given in.         *)
RecordedAt(i, path) ==
  IF from = "events" THEN Gave(i, path)
  ELSE UNION {Gave(j, path) : j \in {k \in Alike(i, path) : \A l \in Alike(i, path) : l <= k}}

Starts ==
  /\ replaying = "live" /\ \A i \in DOMAIN steps : steps[i].settled
  /\ from' \in {"events", "messages"}
  /\ policy' \in Policies /\ watched' \in SUBSET Stages \ {{}}
  /\ replaying' = "between"
  /\ UNCHANGED <<liveVars, seen, recorder, mark, answered, reports>>

(* _check                                                                  *)
Repeated(i) == \E n \in DOMAIN seen : seen[n] = KeyOf(i)

Since(records) ==
  [kind \in Kinds |-> SubSeq(records[kind], mark[kind] + 1, Len(records[kind]))]

(* answered: the least real of the sources                                *)
Of(source, asks) == SelectSeq(asks, LAMBDA x : x.source = source)
Weakest(asks) ==
  CASE Of("unanswered", asks) # <<>> -> "unanswered"
    [] Of("unanswered", asks) = <<>> /\ Of("simulated", asks) # <<>> -> "simulated"
    [] OTHER -> IF asks = <<>> THEN None ELSE "recorded"

ReportOf(i, recorded, asks) ==
  [step |-> i, recorded |-> recorded, human |-> Weakest(asks),
   human_answer |-> IF Weakest(asks) = "unanswered" THEN Of("unanswered", asks)[1].decision ELSE None,
   human_paths |-> [n \in DOMAIN asks |-> asks[n].path], asks |-> asks]

(* The steps not selected, or not watched, do not run, and those not       *)
(* selected have no report; each that runs has the records from its mark.  *)
Takes ==
  /\ replaying = "between" /\ Len(seen) < Len(Rebuilt)
  /\ LET i == Rebuilt[Len(seen) + 1] IN
     IF Repeated(i)
     THEN replaying' = "refused" /\ UNCHANGED <<seen, mark, answered, reports>>
     ELSE /\ seen' = Append(seen, KeyOf(i))
          /\ \/ UNCHANGED <<replaying, mark, answered, reports>>
             \/ /\ steps[i].stage \notin watched
                /\ reports' = Append(reports, ReportOf(i, Nothing, <<>>))
                /\ UNCHANGED <<replaying, mark, answered>>
             \/ /\ steps[i].stage \in watched
                /\ replaying' = "running" /\ answered' = <<>>
                /\ mark' = [kind \in Kinds |-> Len(recorder[kind])]
                /\ UNCHANGED reports
  /\ UNCHANGED <<liveVars, from, policy, watched, recorder>>

(* ask_human, of the human() at a path: the answer recorded there, if it   *)
(* is offered, else the stand-in's or the fixed one                        *)
AnswersTo(path) ==
  LET takes == Offered(path) \cup {"terminate"}
      recorded == RecordedAt(Current, path) \cap takes
  IN  IF recorded # {} THEN {[path |-> path, decision |-> d, source |-> "recorded"] : d \in recorded}
      ELSE IF policy = "stand-in"
      THEN {[path |-> path, decision |-> d, source |-> "simulated"] : d \in Actions}
      ELSE {[path |-> path, source |-> "unanswered",
             decision |-> IF policy \in Offered(path) THEN policy ELSE "terminate"]}

Record(kind, path) == [recorder EXCEPT ![kind] = Append(@, [step |-> Current, path |-> path])]

(* A human() refuses an answer it does not offer (_decision), which fails  *)
(* the replay.                                                             *)
Asks ==
  /\ replaying = "running"
  /\ \E p \in Humans : \E answer \in AnswersTo(p) :
       /\ \A n \in DOMAIN answered : answered[n].path # p
       /\ answered' = Append(answered, answer)
       /\ IF answer.decision \in Offered(p) \cup {"terminate"}
          THEN recorder' = Record("reports", p) /\ UNCHANGED replaying
          ELSE replaying' = "raised" /\ UNCHANGED recorder
  /\ UNCHANGED <<liveVars, from, policy, watched, seen, mark, reports>>

(* A monitor raises, or a decision is superseded.                          *)
Records ==
  /\ replaying = "running"
  /\ Len(recorder.failures) + Len(recorder.supersessions) < MaxRecords
  /\ \E kind \in Kinds \ {"reports"} : recorder' = Record(kind, <<"m">>)
  /\ UNCHANGED <<liveVars, from, policy, watched, replaying, seen, mark, answered, reports>>

(* The root's decision is recorded last, where it does not abstain.        *)
Returns ==
  /\ replaying = "running" /\ replaying' = "between"
  /\ recorder' \in {recorder, Record("reports", <<>>)}
  /\ reports' = Append(reports, ReportOf(Current, Since(recorder'), answered))
  /\ UNCHANGED <<liveVars, from, policy, watched, seen, mark, answered>>

Raises ==
  /\ replaying = "running" /\ replaying' = "raised"
  /\ UNCHANGED <<liveVars, from, policy, watched, seen, recorder, mark, answered, reports>>

Init ==
  /\ steps = <<>> /\ kept = [c \in Conversations |-> {}]
  /\ from = None /\ policy = None /\ watched = {}
  /\ replaying = "live" /\ seen = <<>> /\ recorder = Nothing
  /\ mark = [kind \in Kinds |-> 0] /\ answered = <<>> /\ reports = <<>>

Next == Live \/ Starts \/ Takes \/ Asks \/ Records \/ Returns \/ Raises
Spec == Init /\ [][Next]_vars
-----------------------------------------------------------------------------
(* "It holds only decisions made at steps that had finished before this    *)
(* step began, ... and only those that took effect" (Step.human_decisions):*)
(* the records a step is shown are its own conversation's, none withdrawn, *)
(* and none is missing but those with the action of a decision superseded  *)
(* above them (kept_human_decision, supersedes).                           *)
ShownTookEffect ==
  \A i \in DOMAIN steps :
    LET earlier == {j \in steps[i].after : steps[j].conversation = steps[i].conversation}
        withdrawn(j) == UNION {s.of : s \in steps[j].superseded}
        doubted(j) == {d \in steps[j].decided :
          \E s \in steps[j].superseded : IsPrefix(s.layer, d.path) /\ s.action = d.action}
    IN  /\ steps[i].shown \subseteq UNION {steps[j].decided \ withdrawn(j) : j \in earlier}
        /\ UNION {steps[j].decided \ doubted(j) : j \in earlier} \subseteq steps[i].shown

(* A report has all that was recorded at its step and nothing of another's,*)
(* one a step, whichever steps ran between (replay_monitor).               *)
ReportsAreTheirSteps ==
  /\ \A n \in DOMAIN reports : \A kind \in Kinds :
       reports[n].recorded[kind] =
         SelectSeq(recorder[kind], LAMBDA x : x.step = reports[n].step)
  /\ \A n, m \in DOMAIN reports :
       n # m => KeyOf(reports[n].step) # KeyOf(reports[m].step)
  /\ replaying = "refused" =>
       \E i, j \in DOMAIN steps : i # j /\ KeyOf(i) = KeyOf(j)

(* "The answers a person gave through human() at this step"                *)
(* (ReplayStep.recorded_answers): a human() in a replay has the answer the *)
(* person gave it at the step, wherever it offers that, and no other       *)
(* passes for a person's; a report's human is "recorded" only if every ask *)
(* at its step was.  Except that steps rebuilt from messages may have the  *)
(* answer given last at another step of their stage and id.                *)
AnswersAreThePersons ==
  LET others(i, path) == IF from = "messages" THEN Alike(i, path) ELSE {}
      given(i, a) == UNION {Gave(j, a.path) : j \in {i} \cup others(i, a.path)}
      true(i, a) ==
        /\ a.source = "recorded" => a.decision \in given(i, a)
        /\ given(i, a) # {} /\ given(i, a) \subseteq Offered(a.path) \cup {"terminate"} =>
             a.source = "recorded"
  IN  /\ replaying \in {"running", "raised"} =>
           \A k \in DOMAIN answered : true(Current, answered[k])
      /\ \A n \in DOMAIN reports :
           LET r == reports[n]
               asked == {r.asks[k] : k \in DOMAIN r.asks}
           IN  /\ \A a \in asked : true(r.step, a)
               /\ (r.human = "recorded") = (asked # {} /\ \A a \in asked : a.source = "recorded")
               /\ (r.human_answer # None) = (\E a \in asked : a.source = "unanswered")
=============================================================================
