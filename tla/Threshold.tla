----------------------------- MODULE Threshold ------------------------------
(***************************************************************************)
(* threshold() (_protocols/threshold.py): how escalate_at, reject_at and   *)
(* terminate_at are read and refused when the protocol is configured, and  *)
(* what it decides of the scores its monitors report at a step.            *)
(*                                                                         *)
(* A name, a dimension and a key are the sequences of what their dots      *)
(* separate; the key "*" is the empty sequence.                            *)
(***************************************************************************)
EXTENDS Naturals, Sequences, FiniteSets, FiniteSetsExt

CONSTANTS
  MonitorNames,  \* the instance names of the monitors
  Keys,          \* the keys a mapping may have
  Dims,          \* the dimensions a monitor may score
  MaxKeys,       \* bound on the keys of one level
  MaxLimit,      \* bound on a threshold, and on a score
  MaxScores      \* bound on the scores of one step

ASSUME ThresholdAssumption ==
  /\ MonitorNames # {} /\ MonitorNames \cup Dims \cup Keys \subseteq Seq(STRING)
  /\ <<>> \notin MonitorNames \cup Dims
  /\ MaxLimit \in Nat /\ MaxScores \in Nat /\ MaxKeys \in Nat

Levels == <<"terminate", "reject", "escalate">>     \* _ACTIONS, strongest first
Single == <<>>       \* the dimension of a monitor's single number

(* What can be scored.                                                     *)
Scored == MonitorNames \X (Dims \cup {Single})

VARIABLES
  given,       \* given[l]: the thresholds of a level by key; none, not given
  configured,  \* "given", "accepted", "malformed" or "dead"
  scores,      \* the scores reported at the step
  decision     \* what threshold() decided, or "none"

thresholdVars == <<given, configured, scores, decision>>

Prefixes(key) == {m \in MonitorNames : Len(m) < Len(key) /\ SubSeq(key, 1, Len(m)) = m}

(* _qualify: the longest instance name that prefixes the key.              *)
Qualify(key) ==
  LET m == CHOOSE m \in Prefixes(key) : \A n \in Prefixes(key) : Len(m) >= Len(n)
  IN  <<m, SubSeq(key, Len(m) + 1, Len(key))>>

(* Any name can be a dimension: Dims has each that a key names, and one    *)
(* that no key names, and no key names the empty name.                     *)
Unnamed == <<"">>
Names(key, d) == key = d \/ (Prefixes(key) # {} /\ Qualify(key)[2] = d)

ASSUME DimsAreOpen ==
  /\ \A key \in Keys : /\ Len(key) = 1 => key \in Dims
                       /\ Prefixes(key) # {} => Qualify(key)[2] \in Dims
                       /\ ~Names(key, Unnamed)
  /\ \E d \in Dims : \A key \in Keys : ~Names(key, d)

(* _Thresholds.covering: the thresholds of t that cover a score, none or   *)
(* one: its own key's, then the bare key's, then the default.              *)
Covering(t, score) ==
  LET qualified == {k \in DOMAIN t : Len(k) > 1 /\ Qualify(k) = score}
      bare == {k \in DOMAIN t : Len(k) = 1
                                /\ k = (IF score[2] = Single THEN score[1] ELSE score[2])}
      found == IF qualified # {} /\ score[2] # Single THEN qualified ELSE bare
  IN  IF found # {} THEN found ELSE {<<>>} \cap DOMAIN t

(* _check_live's classes: a single number, each dimension a key names for  *)
(* the monitor or for all, and one no key names.                           *)
Classes ==
  LET keys == UNION {DOMAIN given[l] : l \in 1..3}
      own(m) == {Qualify(k)[2] : k \in {k \in keys : Len(k) > 1 /\ Qualify(k)[1] = m}}
      bare == {k \in keys : Len(k) = 1}
  IN  UNION {{m} \X ({Single, Unnamed} \cup bare \cup own(m)) : m \in MonitorNames}

(* A threshold is dead only below a stronger one.                          *)
BlockedBelow(l, score, value) ==
  \E s \in 1..(l - 1) : \E k \in Covering(given[s], score) : given[s][k] < value

(* A stronger threshold at or below the value covers the score.           *)
Blocked(l, score, value) ==
  \E s \in 1..(l - 1) : \E k \in Covering(given[s], score) : given[s][k] <= value

(* A key is dead where something stronger blocks it at all it covers.      *)
Dead(l, key) ==
  LET covered == {score \in Classes : key \in Covering(given[l], score)}
  IN  covered # {} /\ \A score \in covered : Blocked(l, score, given[l][key])

Malformed == \E l \in 1..3 : \E k \in DOMAIN given[l] : Len(k) > 1 /\ Prefixes(k) = {}
-----------------------------------------------------------------------------
(* The keys a level may be given, a number being the key "*".              *)
GivenKeys == UNION {kSubset(n, Keys) : n \in 0..MaxKeys}

ThresholdInit ==
  /\ given \in [1..3 -> UNION {[ks -> 1..MaxLimit] : ks \in GivenKeys}]
  /\ \E l \in 1..3 : DOMAIN given[l] # {}
  /\ configured = "given" /\ scores = {} /\ decision = "none"

Configure ==
  /\ configured = "given"
  /\ configured' = IF Malformed THEN "malformed"
                   ELSE IF \E l \in 1..3 : \E k \in DOMAIN given[l] : Dead(l, k) THEN "dead"
                   ELSE "accepted"
  /\ UNCHANGED <<given, scores, decision>>

(* _crossing: some score reaches the threshold of the level that covers it.*)
Crosses(l, reported) ==
  \E r \in reported : \E k \in Covering(given[l], r.of) : r.score >= given[l][k]

(* The weakest action reached is taken.                                    *)
DecideWeakest(reported) ==
  LET reached == {l \in 1..3 : Crosses(l, reported)}
  IN  IF reached = {} THEN "proceed" ELSE Levels[Max(reached)]

(* The strongest action whose threshold any score reaches.                 *)
Decide(reported) ==
  LET reached == {l \in 1..3 : Crosses(l, reported)}
  IN  IF reached = {} THEN "proceed" ELSE Levels[Min(reached)]

(* The monitors report at a step; one score of a kind each, or none.       *)
Act ==
  /\ configured = "accepted" /\ decision = "none"
  /\ \E n \in 0..MaxScores : \E of \in kSubset(n, Scored) :
       \E score \in [of -> 0..MaxLimit] :
         scores' = {[of |-> s, score |-> score[s]] : s \in of}
  /\ decision' = Decide(scores')
  /\ UNCHANGED <<given, configured>>

(* A monitor failed: reading the observations raises.                      *)
ActFailed ==
  /\ configured = "accepted" /\ decision = "none"
  /\ decision' = "raised"
  /\ UNCHANGED <<given, configured, scores>>

ThresholdNext == Configure \/ Act \/ ActFailed

ThresholdSpec == ThresholdInit /\ [][ThresholdNext]_thresholdVars
-----------------------------------------------------------------------------
(* The threshold the docstring gives a score at a level: that of the most  *)
(* specific key that applies, a longer key being more specific.            *)
Applies(key, m, d) ==
  \/ key = <<>>
  \/ Len(key) = 1 /\ (IF d = Single THEN key = m ELSE key = d)
  \/ /\ Len(key) > 1 /\ d # Single /\ key = m \o d
     /\ \A n \in MonitorNames : n = SubSeq(key, 1, Len(n)) /\ Len(n) < Len(key)
                                => Len(n) <= Len(m)
Floor(l, of) ==
  LET applying == {k \in DOMAIN given[l] : Applies(k, of[1], of[2])}
  IN  {given[l][k] : k \in {k \in applying : \A j \in applying : Len(j) <= Len(k)}}

Reached(l, of, score) == \E v \in Floor(l, of) : score >= v

(* A configuration is refused as one with a threshold that can never apply *)
(* exactly when it has one: a key that covers some score but is what       *)
(* decides at none, because a stronger action is reached first.            *)
Decides(l, key, of) ==
  /\ key \in DOMAIN given[l] /\ Applies(key, of[1], of[2])
  /\ \A j \in DOMAIN given[l] : Applies(j, of[1], of[2]) => Len(j) <= Len(key)
CanApply(l, key) ==
  \E of \in Scored : /\ Decides(l, key, of)
                     /\ \A s \in 1..(l - 1) : ~Reached(s, of, given[l][key])
NoDeadThreshold ==
  configured \in {"accepted", "dead"} =>
    (configured = "dead" <=>
       \E l \in 1..3 : \E key \in DOMAIN given[l] :
         (\E of \in Scored : Decides(l, key, of)) /\ ~CanApply(l, key))

(* Each threshold is a floor: what is decided is at least as strong as the *)
(* action of every threshold a score reaches, by the most specific key, and*)
(* no stronger than the strongest of them.                                 *)
ThresholdIsFloor ==
  decision \notin {"none", "raised"} =>
    /\ \A l \in 1..3 : (\E r \in scores : Reached(l, r.of, r.score)) =>
         \E s \in 1..l : decision = Levels[s]
    /\ \A l \in 1..3 : decision = Levels[l] => \E r \in scores : Reached(l, r.of, r.score)
=============================================================================
