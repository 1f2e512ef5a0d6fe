----------------------------- MODULE Conversing -----------------------------
(***************************************************************************)
(* Which conversation a recorded event is in, and how deep it is           *)
(* (scout/_steps.py): Conversations looks a span's up in the span tree and *)
(* keeps what it walked, where a parent may be missing or one of its own   *)
(* descendants; _stored reads a stored timeline from its root down; and    *)
(* _depths takes each conversation's depth from Scout's walk, by which a   *)
(* scan with a depth selects its steps.                                    *)
(***************************************************************************)
EXTENDS Integers, FiniteSets, Sequences, SequencesExt, FiniteSetsExt

CONSTANTS
  Spans,   \* 1..n; in a timeline 1 is its root, and a span's parent is less
  Shaped   \* whether the spans are a timeline's, rather than any a log recorded

ConversingAssumption == Spans = 1..Cardinality(Spans) /\ Spans # {} /\ Shaped \in BOOLEAN

VARIABLES
  parent,   \* each span's, 0 for none
  kind,     \* agent, branch, plain, utility; or missing: its begin wasn't recorded
  models,   \* the spans with a model event of their own
  found,    \* what Conversations keeps: a span's conversation, or NotFound
  asked,    \* the last answer of it: a span and its conversation
  selected  \* the conversations a scan of some depth runs, or none yet

vars == <<parent, kind, models, found, asked, selected>>
tree == <<parent, kind, models>>

Sample == 0
NotFound == -1

(* Walk a span's parents until one found before, one missing, an agent, or *)
(* one walked before: the spans walked, and the conversation               *)
Walked[s \in Spans \cup {0}, path \in Seq(Spans)] ==
  IF s = 0 \/ s \in Range(path) THEN <<path, Sample>>
  ELSE LET walked == Append(path, s)
       IN  CASE found[s] # NotFound -> <<walked, found[s]>>
             [] found[s] = NotFound /\ kind[s] = "missing" -> <<walked, Sample>>
             [] found[s] = NotFound /\ kind[s] = "agent" -> <<walked, s>>
             [] OTHER -> Walked[parent[s], walked]

(* Conversations.of                                                        *)
Of(s) ==
  LET walk == Walked[s, <<>>]
  IN  /\ found' = IF found[s] # NotFound THEN found
                  ELSE [v \in Spans |-> IF v \in Range(walk[1]) THEN walk[2] ELSE found[v]]
      /\ asked' = <<s, walk[2]>>
      /\ UNCHANGED <<tree, selected>>
-----------------------------------------------------------------------------
Children(s) == {c \in Spans : parent[c] = s}
Scannable(s) == kind[s] # "utility" /\ s \in models

(* _stored, from the root down: the conversation of each span's events     *)
Down[s \in Spans, conversation \in Spans] ==
  {<<s, conversation>>} \cup
  UNION {Down[c, IF kind[c] \in {"agent", "branch"} THEN c ELSE conversation] : c \in Children(s)}

Stored(s) == (CHOOSE p \in Down[1, 1] : p[1] = s)[2]

(* _walk_spans: the scannable spans and their levels, down to a depth, or  *)
(* all (0); branches aren't walked                                         *)
Levels[s \in Spans, depth \in Nat, above \in Nat] ==
  LET level == IF Scannable(s) THEN above + 1 ELSE above
  IN  IF depth > 0 /\ level > depth THEN {}
      ELSE (IF Scannable(s) THEN {<<s, level>>} ELSE {}) \cup
           UNION {Levels[c, depth, level] : c \in {x \in Children(s) : kind[x] # "branch"}}

(* _depths: a conversation's depth, where it has one                       *)
DepthOf(conversation, levels) ==
  LET of == {p[2] : p \in {x \in levels : Stored(x[1]) = conversation}}
  IN  IF of = {} THEN {} ELSE {Min(of)}

(* The steps a scan with a depth runs (select): of the conversations with  *)
(* a depth, and at most that                                               *)
Selects(depth) ==
  /\ Shaped /\ selected = {}
  /\ LET levels == Levels[1, 0, 0]
     IN  selected' = {<<depth, {c \in Spans : \E n \in DepthOf(c, levels) : n <= depth}>>}
  /\ UNCHANGED <<tree, found, asked>>

Init ==
  /\ kind \in [Spans -> IF Shaped THEN {"agent", "branch", "plain", "utility"}
                        ELSE {"agent", "plain", "missing"}]
  /\ parent \in [Spans -> Spans \cup {0}]
  /\ Shaped => \A s \in Spans : parent[s] \in IF s = 1 THEN {0} ELSE 1..(s - 1)
  /\ Shaped => kind[1] = "plain"
  /\ models \in IF Shaped THEN SUBSET Spans ELSE {{}}
  /\ found = [s \in Spans |-> NotFound] /\ asked = <<>> /\ selected = {}

Next == (\E s \in Spans : Of(s)) \/ \E depth \in Spans : Selects(depth)
Spec == Init /\ [][Next]_vars
-----------------------------------------------------------------------------
(* A span's ancestors whose begins were recorded, nearest first            *)
Up(s, n) == FoldFunction(LAMBDA x, y : IF y = 0 \/ kind[y] = "missing" THEN 0 ELSE parent[y], s, [i \in 1..n |-> 0])
Agents(s) == {n \in 0..Cardinality(Spans) : Up(s, n) # 0 /\ kind[Up(s, n)] = "agent"}
Innermost(s) == LET agents == Agents(s) IN IF agents = {} THEN Sample ELSE Up(s, Min(agents))

(* The conversation of a span is the innermost agent span at or above it,  *)
(* else the sample, whatever was asked before it, also where its parents   *)
(* run in a cycle or one was not recorded (Conversations.of).              *)
AnyOrderAnswersAlike == asked # <<>> => asked[2] = Innermost(asked[1])

(* A stored timeline's conversations are those the span tree gives, where  *)
(* it has no branches, whose events are in no conversation above them      *)
(* (_stored, Conversations.of).                                            *)
StoredAsTheSpans ==
  (Shaped /\ asked # <<>> /\ "branch" \notin Range(kind)) =>
    Stored(asked[1]) = IF asked[2] = Sample THEN 1 ELSE asked[2]

(* A scan with a depth runs the conversations of the model calls that      *)
(* Scout's own walk to that depth reaches, as llm_scanner(depth=) does     *)
(* (_depths, _walk_spans).                                                 *)
SelectedAsWalked ==
  \A p \in selected : p[2] = {Stored(w[1]) : w \in Levels[1, p[1], 0]}
=============================================================================
