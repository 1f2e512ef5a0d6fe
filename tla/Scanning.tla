------------------------------ MODULE Scanning ------------------------------
(***************************************************************************)
(* A transcript scanned in both modes: as_reader (scout/_reader.py) reads  *)
(* what the instance at a path reported live, as_scanner                   *)
(* (scout/_scanner.py) runs it again over the steps rebuilt from the log;  *)
(* a table of a scan's rows selects the steps of another                   *)
(* (scout/_select.py); and replay_check_differences (scout/_probe.py)      *)
(* compares the rows of the two modes.                                     *)
(***************************************************************************)
EXTENDS Naturals, FiniteSets, Sequences, SequencesExt, FiniteSetsExt

CONSTANTS
  Conversations,  \* the agents' conversations, names, whose calls can share an id
  Stages,
  Ids,            \* ids of steps, a call's two stages sharing one
  Paths,          \* the instances: sequences of names, <<>> the root protocol
  MaxSteps        \* bound on the steps of a transcript

ScanningAssumption == <<>> \in Paths /\ MaxSteps \in Nat

VARIABLES
  log,       \* what each step's instances did live, by path
  replaced,  \* the steps at which a decision of the root was superseded too
  turns,     \* where the replay's conversations are from
  astray,    \* the steps the replay handed otherwise than live, or lost
  scan,      \* what is scanned: the instance, and the stage or every one
  read,      \* the rows of read mode
  replayed,  \* the rows of the replay
  table,     \* a label table of rows of the replay, or nothing yet
  rescanned, \* the rows of a replay of those steps
  compared   \* the differences of the two modes' rows

vars == <<log, replaced, turns, astray, scan, read, replayed, table, rescanned, compared>>
transcript == <<log, replaced, turns, astray>>

Step == [conversation : Conversations, stage : Stages, id : Ids]
AnyStage == "any"
AnyConversation == <<>>
Nothing == [kind |-> "nothing", rows |-> {}]
Failed == [kind |-> "failed", rows |-> {}]
RowsOf(rows) == [kind |-> "rows", rows |-> rows]

(* within and _below                                                       *)
Within(path, scanned) == IsPrefix(scanned, path)
Below(path, scanned) == IsStrictPrefix(scanned, path)

(* What the instance at a path did at a step: its decision passed up, so   *)
(* all reported, but one which failed or had nothing to report             *)
Outcomes == {[q \in Paths |-> IF q = p THEN how ELSE "reported"] :
               p \in Paths, how \in {"reported", "error", "abstained"}}

(* The conversation the replay gives a step: the log's own, one of a       *)
(* stored timeline, or the transcript's, from its messages alone           *)
Rebuilt(step) ==
  CASE turns = "recorded" -> step.conversation
    [] turns = "stored" -> Append(step.conversation, "stored")
    [] turns = "inferred" -> <<"transcript">>
Shown(step, handed) ==
  [conversation |-> step.conversation, stage |-> step.stage, id |-> step.id, handed |-> handed]

(* Two steps with one key, which the replay refuses (_check)               *)
Undistinguished(steps) ==
  \E s, u \in steps : s # u /\ s.stage = u.stage /\ s.id = u.id /\ Rebuilt(s) = Rebuilt(u)
-----------------------------------------------------------------------------
ReadFailures ==
  {s \in DOMAIN log : \E p \in Paths : log[s][p] = "error" /\ Within(p, scan.path)}

(* As if children's reports were kept by stage and id                      *)
ReadChildrenAnywhere(step) ==
  UNION {{p \in Paths : Below(p, scan.path) /\ log[s][p] = "reported"} :
           s \in {u \in DOMAIN log : u.stage = step.stage /\ u.id = step.id}}
ReadChildren(step) == {p \in Paths : Below(p, scan.path) /\ log[step][p] = "reported"}

InStage(step) == scan.stage \in {AnyStage, step.stage}
Decides == scan.path = <<>>

(* as_reader: a row of each report of the instance, and of each decision   *)
(* of its superseded                                                       *)
Reads ==
  /\ read = Nothing
  /\ read' = IF ReadFailures # {} THEN Failed
             ELSE RowsOf({[step |-> Shown(s, "live"), status |-> status, value |-> "live",
                           children |-> IF Decides THEN ReadChildren(s) ELSE {}] :
                            s \in {u \in DOMAIN log : InStage(u) /\ log[u][scan.path] = "reported"},
                            status \in {"reported"}}
                         \cup {[step |-> Shown(s, "live"), status |-> "superseded", value |-> "live",
                                children |-> ReadChildren(s)] :
                            s \in {u \in replaced : InStage(u) /\ Decides}})
  /\ UNCHANGED <<transcript, scan, replayed, table, rescanned, compared>>
-----------------------------------------------------------------------------
(* Table: a row with no conversation or stage selects its step in every one*)
Selected(rows, step) ==
  \E stage \in {step.stage, AnyStage}, c \in {Rebuilt(step), AnyConversation} :
    [conversation |-> c, stage |-> stage, id |-> step.id] \in rows

(* sentinel_replay's scan: the steps selected run at every stage watched,  *)
(* any failure fails the transcript, and those of the stage give rows.     *)
ReplayOf(steps) ==
  LET built == {s \in DOMAIN log : s \notin DOMAIN astray \/ astray[s] # "lost"}
      run == steps \cap built
  IN  IF \/ Undistinguished(built)
         \/ \E s \in run, p \in Paths : log[s][p] = "error" /\ Within(p, scan.path)
      THEN Failed
      ELSE RowsOf({[step |-> [Shown(s, "live") EXCEPT !.conversation = Rebuilt(s)],
                    status |-> log[s][scan.path],
                    value |-> IF s \in DOMAIN astray THEN "other" ELSE "live",
                    children |-> IF Decides /\ log[s][scan.path] = "reported"
                                 THEN {p \in Paths : Below(p, scan.path) /\ log[s][p] = "reported"}
                                 ELSE {}] : s \in {u \in run : InStage(u)}})

Replays ==
  /\ replayed = Nothing
  /\ replayed' = ReplayOf(DOMAIN log)
  /\ UNCHANGED <<transcript, scan, read, table, rescanned, compared>>

(* table_rows: any rows of a results dataframe, with the columns it keeps, *)
(* or pairs of a transcript and a step                                     *)
Tables ==
  /\ replayed.kind = "rows" /\ table = Nothing
  /\ \E rows \in SUBSET replayed.rows, whole \in BOOLEAN :
       table' = [kind |-> IF whole THEN "whole" ELSE "pairs",
                 rows |-> {[conversation |-> IF whole THEN r.step.conversation ELSE AnyConversation,
                            stage |-> IF whole THEN r.step.stage ELSE AnyStage,
                            id |-> r.step.id] : r \in rows}]
  /\ UNCHANGED <<transcript, scan, read, replayed, rescanned, compared>>

(* A transcript the table doesn't list has no rows.                        *)
Rescans ==
  /\ table # Nothing /\ rescanned = Nothing
  /\ rescanned' = ReplayOf({s \in DOMAIN log : Selected(table.rows, s)})
  /\ UNCHANGED <<transcript, scan, read, replayed, table, compared>>
-----------------------------------------------------------------------------
Matched == turns = "recorded"
KeyOf(row) ==
  [row.step EXCEPT !.conversation = IF Matched THEN @ ELSE AnyConversation]

(* _keyed refuses two rows with one key, and _digests one with no digest.  *)
Keyed(rows) ==
  /\ \A r \in rows : r.status # "abstained"
  /\ \A r, q \in rows : KeyOf(r) = KeyOf(q) => r = q

(* replay_check_differences, of the rows of one monitor                    *)
Compares ==
  /\ ~Decides /\ read.kind = "rows" /\ replayed.kind = "rows" /\ compared = Nothing
  /\ compared' =
       IF ~Keyed(read.rows) \/ ~Keyed(replayed.rows) THEN Failed
       ELSE RowsOf({[key |-> KeyOf(r), reason |-> "only replayed"] :
                      r \in {x \in replayed.rows : \A y \in read.rows : KeyOf(x) # KeyOf(y)}}
              \cup {[key |-> KeyOf(r), reason |-> "only recorded"] :
                      r \in {x \in read.rows : \A y \in replayed.rows : KeyOf(x) # KeyOf(y)}}
              \cup {[key |-> KeyOf(r), reason |-> "differs"] :
                      r \in {x \in read.rows :
                               \E y \in replayed.rows : KeyOf(x) = KeyOf(y) /\ x.value # y.value}})
  /\ UNCHANGED <<transcript, scan, read, replayed, table, rescanned>>
-----------------------------------------------------------------------------
(* A person's decisions are superseded only where the root reported.       *)
Init ==
  /\ \E steps \in {x \in SUBSET Step : Cardinality(x) \in 1..MaxSteps} :
       /\ log \in [steps -> Outcomes]
       /\ replaced \in {{}, {s \in steps : log[s][<<>>] = "reported"}}
       /\ \E off \in {x \in SUBSET steps : Cardinality(x) <= 1} :
            astray \in [off -> {"changed", "lost"}]
  /\ turns \in {"recorded", "stored", "inferred"}
  /\ scan \in [path : Paths, stage : Stages \cup {AnyStage}]
  /\ read = Nothing /\ replayed = Nothing /\ table = Nothing
  /\ rescanned = Nothing /\ compared = Nothing

Next == Reads \/ Replays \/ Tables \/ Rescans \/ Compares
Spec == Init /\ [][Next]_vars
-----------------------------------------------------------------------------
Faithful == DOMAIN astray = {}

(* "So the two modes' rows join on transcript, conversation, step_id and   *)
(* stage" (as_reader): where the replay hands the instance what it was     *)
(* handed live, each report has one row in each mode, with the same        *)
(* children's reports.                                                     *)
RowsJoin ==
  (Faithful /\ turns = "recorded" /\ read.kind = "rows" /\ replayed.kind = "rows") =>
    {r \in read.rows : r.status = "reported"} = {r \in replayed.rows : r.status = "reported"}

(* A failure at or below the instance, at any stage, fails both modes,     *)
(* and nothing else does (as_reader, sentinel_replay).                     *)
ModesFailAlike ==
  (Faithful /\ read # Nothing /\ replayed # Nothing /\ ~Undistinguished(DOMAIN log)) =>
    (read.kind = "failed" <=> replayed.kind = "failed")

(* "An empty table means replay handed the monitor what it saw live"       *)
(* (replay_check_differences), also where the rows are matched without     *)
(* conversations and two agents' calls share an id; and what it finds is a *)
(* step that was astray. replay_check never abstains.                      *)
EmptyMeansAlike ==
  (compared.kind = "rows" /\ \A s \in DOMAIN log : log[s][scan.path] = "reported") =>
    {[stage |-> r.key.stage, id |-> r.key.id] : r \in compared.rows} =
    {[stage |-> s.stage, id |-> s.id] : s \in {u \in DOMAIN astray : InStage(u)}}

(* A scan of the rows of another gives those rows, with every column, or   *)
(* with none at least those (Table, table_rows), for rows of one scan.     *)
RescanGivesTheRows ==
  rescanned.kind = "rows" =>
    LET labelled == {r \in replayed.rows :
          \E t \in table.rows : /\ t.id = r.step.id
                                /\ t.stage \in {AnyStage, r.step.stage}
                                /\ t.conversation \in {AnyConversation, r.step.conversation}}
    IN  rescanned.rows = labelled
=============================================================================
