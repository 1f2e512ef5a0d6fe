----------------------------- MODULE MCSentinel -----------------------------
(* A step of the sentinel, part by part: the runner over a tree, a         *)
(* sequential() chain, and a threshold() as configured and as it decides.  *)
(* The variables of the other parts stay as they are.                      *)
(*                                                                         *)
(* The tree: a root runs {a, b} together and then e.  a is a group of two  *)
(* functions, the first of which runs {c, d} together; d is a monitor.     *)
EXTENDS Runner, Compositions, Threshold

CONSTANT Parts

VARIABLE part

TreeFunctions == {"r", "a1", "a2", "b1", "c1", "d1", "e1"}
TreeInstances == {"R", "A", "B", "C", "D", "E"}
TreeMonitors  == {"D"}
TreeMembers == [i \in TreeInstances |->
  CASE i = "R" -> <<"r">>  [] i = "A" -> <<"a1", "a2">> [] i = "B" -> <<"b1">>
    [] i = "C" -> <<"c1">> [] i = "D" -> <<"d1">>       [] i = "E" -> <<"e1">>]
TreeBatches == [f \in TreeFunctions |->
  CASE f = "r" -> <<{"A", "B"}, {"E"}>> [] f = "a1" -> <<{"C", "D"}>> [] OTHER -> <<>>]
TreeCaller == [i \in TreeInstances |->
  CASE i \in {"A", "B", "E"} -> "r" [] i \in {"C", "D"} -> "a1" [] OTHER -> "nobody"]
TreeAbove == [f \in TreeFunctions |->
  CASE f = "r" -> {} [] f \in {"c1", "d1"} -> {"r", "a1"} [] OTHER -> {"r"}]
TreeInstanceOf == [f \in TreeFunctions |->
  CASE f = "r" -> "R" [] f \in {"a1", "a2"} -> "A" [] f = "b1" -> "B"
    [] f = "c1" -> "C" [] f = "d1" -> "D" [] f = "e1" -> "E"]

AllKinds == {"monitor", "protocols", "concurrent", "human", "terminates", "proceeds"}

(* A person is asked wherever one can be, and is offered all there is.     *)
AllOffers == [tool_call |-> {"approve", "reject", "terminate", "modify"}, model_input |-> {},
              tool_result |-> {"approve", "terminate"}, model_output |-> {"approve", "terminate"}]

(* "a.b.x" is dimension x of a.b and no score of a; "a" is the one number  *)
(* of a, and a dimension of that name of every monitor; "y" is named by    *)
(* no key.                                                                 *)
TwoMonitors == {<<"a">>, <<"a", "b">>}
FourKeys    == {<<>>, <<"a">>, <<"x">>, <<"a", "b", "x">>}
ThreeDims   == {<<"x">>, <<"a">>, <<"y">>}
-----------------------------------------------------------------------------
(* One initial state each for the parts that are not run.                  *)
OneChain     == stage = "tool_call" /\ chain = <<"human">>
OneThreshold == given = [l \in 1..3 |-> [k \in {<<>>} |-> 1]]

SentinelInit ==
  /\ part \in Parts
  /\ IF part # "chain" THEN OneChain ELSE TRUE
  /\ IF part # "threshold" THEN OneThreshold ELSE TRUE
  /\ Init /\ ChainInit /\ ThresholdInit

RunnerPart    == part = "runner" /\ Next /\ UNCHANGED <<part, chainVars, thresholdVars>>
ChainPart     == part = "chain" /\ ChainNext /\ UNCHANGED <<part, vars, thresholdVars>>
ThresholdPart == part = "threshold" /\ ThresholdNext /\ UNCHANGED <<part, vars, chainVars>>

SentinelNext == RunnerPart \/ ChainPart \/ ThresholdPart

SentinelSpec == SentinelInit /\ [][SentinelNext]_<<part, vars, chainVars, thresholdVars>>
=============================================================================
