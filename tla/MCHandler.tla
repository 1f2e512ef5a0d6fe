----------------------------- MODULE MCHandler ------------------------------
(* Sample: exchanges of a sample an eval names, attempted twice: x1 is of  *)
(* the first attempt, which opens as the second does; x2 and x3 hold the   *)
(* same tool result and race.                                              *)
(* Opening: conversations no eval names that open alike.  x2 and x3        *)
(* continue from x1, x4 holds x1's turn after earlier entries were         *)
(* rewritten.                                                              *)
EXTENDS Handler

SampleExchanges == {"x1", "x2", "x3"}
SampleMarks == [x \in SampleExchanges |->
  IF x = "x1" THEN <<"m0">> ELSE <<"m0", "m1">>]
SampleResults == [x \in SampleExchanges |-> IF x = "x1" THEN <<>> ELSE <<"d1">>]
SampleCalls == [x \in SampleExchanges |-> IF x = "x2" THEN 2 ELSE 1]
SampleAttempt == [x \in SampleExchanges |-> IF x = "x1" THEN "t1" ELSE "t2"]
SampleConversation == [x \in SampleExchanges |-> IF x = "x1" THEN "c1" ELSE "c2"]
SampleHolds == [x \in SampleExchanges |-> {}]

OpeningExchanges == {"x1", "x2", "x3", "x4"}
OpeningMarks == [x \in OpeningExchanges |->
  CASE x = "x1" -> <<"m0">> [] x = "x2" -> <<"m0", "m1", "m2">>
    [] x = "x3" -> <<"m0", "m1">> [] OTHER -> <<"n0", "n1">>]
OpeningResults == [x \in OpeningExchanges |-> <<>>]
OpeningCalls == [x \in OpeningExchanges |-> 1]
OpeningAttempt == [x \in OpeningExchanges |-> "t1"]
OpeningConversation == [x \in OpeningExchanges |-> "c1"]
OpeningHolds == [x \in OpeningExchanges |-> IF x \in {"x3", "x4"} THEN {"x1"} ELSE {}]
=============================================================================
