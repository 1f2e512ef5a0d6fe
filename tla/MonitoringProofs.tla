-------------------------- MODULE MonitoringProofs --------------------------
(***************************************************************************)
(* Theorems about what is put before a monitor, for lists of any lengths   *)
(* and costs, any budget, and any number of transcripts, logs and steps:   *)
(* that the prompt sent is the largest that fits, by what the binary       *)
(* search over head cuts keeps at each step; that its scores, cites and    *)
(* answers are of what was sent; that what a scan reads of its logs is read*)
(* once; and that an incremental monitor is shown every message, by what a *)
(* mark says of every list that a step may hold.                           *)
(***************************************************************************)
EXTENDS Scoring, Contexts, Windows, SequenceTheorems, FiniteSetTheorems,
        WellFoundedInduction, TLAPS

-----------------------------------------------------------------------------
(* The smaller and the larger of two numbers.                              *)
LEMMA Smaller ==
  ASSUME NEW a \in Int, NEW b \in Int
  PROVE  Min({a, b}) \in {a, b} /\ Min({a, b}) <= a /\ Min({a, b}) <= b
<1>1. \E x \in {a, b} : \A y \in {a, b} : x <= y
  <2>1. CASE a <= b
    BY <2>1
  <2>2. CASE ~(a <= b)
    BY <2>2
  <2> QED
    BY <2>1, <2>2
<1>2. Min({a, b}) = CHOOSE x \in {a, b} : \A y \in {a, b} : x <= y
  BY DEF Min
<1> QED
  BY <1>1, <1>2

LEMMA Larger ==
  ASSUME NEW a \in Int, NEW b \in Int
  PROVE  Max({a, b}) \in {a, b} /\ Max({a, b}) >= a /\ Max({a, b}) >= b
<1>1. \E x \in {a, b} : \A y \in {a, b} : x >= y
  <2>1. CASE a >= b
    BY <2>1
  <2>2. CASE ~(a >= b)
    BY <2>2
  <2> QED
    BY <2>1, <2>2
<1>2. Max({a, b}) = CHOOSE x \in {a, b} : \A y \in {a, b} : x >= y
  BY DEF Max
<1> QED
  BY <1>1, <1>2

-----------------------------------------------------------------------------
StepTyped == step \in Steps /\ limit \in Nat

LEMMA ListsAre ==
  ASSUME StepTyped, NEW list \in ListNames
  PROVE  /\ IsList(Shown(list))
         /\ CuttableIn(list) \in 0 .. Shown(list).n
<1>1. Shown(list) \in Lists[list]
  BY DEF StepTyped, Steps, ListsShown, Shown
<1>2. IsList(Shown(list))
  BY <1>1, ScoringAssumption
<1>3. Shown(list).n \in Nat
  BY <1>2 DEF IsList
<1> DEFINE n == Shown(list).n
<1>4. Max({n - 1, 0}) \in 0 .. n
  <2> HIDE DEF n
  <2>1. n \in Nat
    BY <1>3 DEF n
  <2>2. Max({n - 1, 0}) \in {n - 1, 0} /\ Max({n - 1, 0}) >= 0
    BY <2>1, Larger
  <2> QED
    BY <2>1, <2>2
<1>5. CuttableIn(list) = Max({n - 1, 0}) \/ CuttableIn(list) = n
  BY DEF CuttableIn
<1> QED
  BY <1>2, <1>3, <1>4, <1>5

(* What a head cut takes from a list whose turn comes after some others.   *)
Taken(k, before, most) == Min({most, Max({k - before, 0})})

LEMMA TakenIs ==
  ASSUME NEW k \in Nat, NEW before \in Nat, NEW most \in Nat
  PROVE  Taken(k, before, most) =
           IF k <= before THEN 0 ELSE IF k - before <= most THEN k - before ELSE most
<1> DEFINE over == k - before
           more == Max({over, 0})
<1>1. over \in Int /\ 0 \in Int
  OBVIOUS
<1> HIDE DEF over
<1>2. more \in {over, 0} /\ more >= over /\ more >= 0
  BY <1>1, Larger
<1> HIDE DEF more
<1>3. more \in Int /\ most \in Int
  BY <1>1, <1>2
<1>4. Min({most, more}) \in {most, more} /\ Min({most, more}) <= most /\ Min({most, more}) <= more
  BY <1>3, Smaller
<1>5. Taken(k, before, most) = Min({most, more})
  BY DEF Taken, more, over
<1>6. Taken(k, before, most) = IF over <= 0 THEN 0 ELSE IF over <= most THEN over ELSE most
  BY <1>1, <1>2, <1>4, <1>5
<1> QED
  BY <1>6 DEF over

LEMMA CutIs ==
  ASSUME StepTyped, NEW k \in Nat, NEW list \in ListNames
  PROVE  /\ CutBefore(list) \in Nat /\ CutBefore(list) <= Cuttable
         /\ CutBefore(list) + CuttableIn(list) <= Cuttable
         /\ HeadCut(k)[list] = Taken(k, CutBefore(list), CuttableIn(list))
<1>1. \A name \in ListNames : CuttableIn(name) \in Nat
  BY ListsAre DEF IsList
<1>2. {"history", "agent_messages", "input"} = ListNames
  BY DEF ListNames
<1>3. /\ CutBefore(list) \in Nat /\ CutBefore(list) <= Cuttable
      /\ CutBefore(list) + CuttableIn(list) <= Cuttable
  BY <1>1, <1>2 DEF CutBefore, Cuttable
<1> QED
  BY <1>3 DEF HeadCut, Taken

(* A larger head cut takes no less of any list.                            *)
LEMMA CutsGrow ==
  ASSUME StepTyped, NEW j \in Nat, NEW k \in Nat, j <= k, NEW list \in ListNames
  PROVE  /\ HeadCut(j)[list] \in 0 .. CuttableIn(list)
         /\ HeadCut(k)[list] \in 0 .. CuttableIn(list)
         /\ HeadCut(j)[list] <= HeadCut(k)[list]
<1> DEFINE b == CutBefore(list)
           c == CuttableIn(list)
<1>1. b \in Nat /\ c \in Nat
  BY CutIs, ListsAre DEF IsList
<1>2. HeadCut(j)[list] = Taken(j, b, c) /\ HeadCut(k)[list] = Taken(k, b, c)
  BY CutIs
<1> HIDE DEF b, c
<1>3. /\ Taken(j, b, c) = IF j <= b THEN 0 ELSE IF j - b <= c THEN j - b ELSE c
      /\ Taken(k, b, c) = IF k <= b THEN 0 ELSE IF k - b <= c THEN k - b ELSE c
  BY <1>1, TakenIs
<1>4. Taken(j, b, c) \in 0 .. c /\ Taken(k, b, c) \in 0 .. c /\ Taken(j, b, c) <= Taken(k, b, c)
  BY <1>1, <1>3
<1> QED
  BY <1>2, <1>4 DEF b, c

(* Nothing cut, and everything.                                            *)
LEMMA CutEnds ==
  ASSUME StepTyped
  PROVE  /\ Cuttable \in Nat
         /\ HeadCut(0) = Uncut
         /\ HeadCut(Cuttable + 1) = HeadCut(Cuttable)
<1>1. \A name \in ListNames : CuttableIn(name) \in Nat
  BY ListsAre DEF IsList
<1>2. Cuttable \in Nat
  BY <1>1 DEF Cuttable, ListNames
<1>3. ASSUME NEW list \in ListNames
      PROVE  HeadCut(0)[list] = 0 /\ HeadCut(Cuttable + 1)[list] = HeadCut(Cuttable)[list]
  <2> DEFINE b == CutBefore(list)
             c == CuttableIn(list)
             all == Cuttable
  <2>1. b \in Nat /\ c \in Nat /\ all \in Nat /\ b + c <= all
    BY <1>1, <1>2, CutIs
  <2>2. /\ HeadCut(0)[list] = Taken(0, b, c)
        /\ HeadCut(all)[list] = Taken(all, b, c)
        /\ HeadCut(all + 1)[list] = Taken(all + 1, b, c)
    BY <1>2, CutIs
  <2> HIDE DEF b, c, all
  <2>3. /\ Taken(0, b, c) = IF 0 <= b THEN 0 ELSE IF 0 - b <= c THEN 0 - b ELSE c
        /\ Taken(all, b, c) = IF all <= b THEN 0 ELSE IF all - b <= c THEN all - b ELSE c
        /\ Taken(all + 1, b, c) =
             IF all + 1 <= b THEN 0 ELSE IF all + 1 - b <= c THEN all + 1 - b ELSE c
    BY <2>1, TakenIs
  <2>4. Taken(0, b, c) = 0 /\ Taken(all + 1, b, c) = Taken(all, b, c)
    BY <2>1, <2>3
  <2> QED
    BY <2>2, <2>4 DEF all
<1>4. HeadCut(0) = Uncut /\ HeadCut(Cuttable + 1) = HeadCut(Cuttable)
  BY <1>3 DEF HeadCut, Uncut
<1> QED
  BY <1>2, <1>4

-----------------------------------------------------------------------------
(* Some set of numbers has a least one.                                    *)
LEMMA LeastElement ==
  ASSUME NEW S \in SUBSET Nat, S # {}
  PROVE  \E k \in S : \A l \in S : k <= l
<1> DEFINE Less == {ss \in Nat \X Nat : ss[1] < ss[2]}
<1>1. IsWellFoundedOn(Less, Nat)
  BY NatLessThanWellFounded DEF OpToRel
<1> HIDE DEF Less
<1>2. PICK k \in S : \A l \in S : <<l, k>> \notin Less
  BY <1>1, WFMin
<1>3. \A l \in S : ~(l < k)
  BY <1>2 DEF Less
<1> QED
  BY <1>3

(* What a head cut leaves costs some number of tokens.                     *)
LEMMA CutsCost ==
  ASSUME StepTyped, NEW k \in Nat
  PROVE  Count(HeadCut(k)) \in Nat /\ limit \in Nat
<1>1. ASSUME NEW list \in ListNames
      PROVE  ListCost(list, HeadCut(k)[list]) \in Nat
  <2>1. /\ HeadCut(k)[list] \in 0 .. CuttableIn(list)
        /\ CuttableIn(list) \in 0 .. Shown(list).n /\ Shown(list).n \in Nat
    BY CutsGrow, ListsAre DEF IsList
  <2>2. Shown(list).left \in [0 .. Shown(list).n -> Nat]
    BY ListsAre DEF IsList
  <2>3. HeadCut(k)[list] \in 0 .. Shown(list).n
    BY <2>1
  <2> DEFINE n == Shown(list).n
             left == Shown(list).left
             dropped == HeadCut(k)[list]
  <2>4. ListCost(list, dropped) = (IF dropped > 0 THEN MarkerCost ELSE 0) + left[dropped]
    BY DEF ListCost
  <2> HIDE DEF n, left, dropped
  <2>5. left[dropped] \in Nat
    BY <2>2, <2>3 DEF n, left, dropped
  <2> QED
    BY <2>4, <2>5, ScoringAssumption DEF dropped
<1>2. "history" \in ListNames /\ "agent_messages" \in ListNames /\ "input" \in ListNames
  BY DEF ListNames
<1> QED
  BY <1>1, <1>2, ScoringAssumption DEF Count, StepTyped

(* Of two cuts, if the smaller one fits and the larger doesn't, leaving out*)
(* one message more made the prompt longer somewhere between: at the first *)
(* cut from the smaller one on that doesn't fit.                           *)
LEMMA MustLengthen ==
  ASSUME StepTyped, NEW k \in Nat, NEW j \in Nat, k <= j, Fits(HeadCut(k)), ~Fits(HeadCut(j))
  PROVE  Lengthens(k, j)
<1> DEFINE S == {i \in k .. j : ~Fits(HeadCut(i))}
<1>1. j \in S /\ S \in SUBSET Nat
  OBVIOUS
<1>2. PICK i \in S : \A l \in S : i <= l
  BY <1>1, LeastElement
<1>3. i \in Nat /\ i <= j /\ k <= i /\ i # k /\ ~Fits(HeadCut(i))
  BY <1>2
<1> DEFINE h == i - 1
<1>4. h \in Nat /\ k <= h /\ h <= j - 1 /\ h + 1 = i
  BY <1>3
<1>5. Fits(HeadCut(h))
  <2>1. h \notin S
    BY <1>2, <1>4
  <2> QED
    BY <1>4, <2>1
<1> HIDE DEF h, S
<1>6. Count(HeadCut(h)) \in Nat /\ Count(HeadCut(i)) \in Nat /\ limit \in Nat
  BY <1>3, <1>4, CutsCost
<1>7. Count(HeadCut(h + 1)) > Count(HeadCut(h))
  BY <1>3, <1>4, <1>5, <1>6 DEF Fits
<1>8. h \in k .. j - 1
  BY <1>4
<1> QED
  BY <1>7, <1>8 DEF Lengthens

-----------------------------------------------------------------------------
(* The search has a cut that fits, which is the next above those it has    *)
(* yet to try; and the next cut below them does not fit.                   *)
Searching ==
  /\ search.low \in Nat \ {0} /\ search.high \in Nat
  /\ search.low <= search.high + 1 /\ search.high <= Cuttable
  /\ search = [low |-> search.low, high |-> search.high]
  /\ content = HeadCut(search.high + 1) /\ Fits(content)
  /\ ~Fits(Uncut) /\ ~Fits(HeadCut(search.low - 1))

(* What the prompt that is sent is.                                        *)
SentIsSmallest ==
  IF Fits(Uncut) THEN content = Uncut
  ELSE \E j \in 1 .. Cuttable : content = HeadCut(j) /\ ~Fits(HeadCut(j - 1))

Unfit == ~Fits(Uncut) /\ ~Fits(HeadCut(Cuttable))

ScoringInv ==
  /\ StepTyped
  /\ at \in {"check", "fit"} => messages = <<>> /\ content = Uncut
  /\ at = "search" => messages = <<>> /\ Searching
  /\ at = "ask" => Sent
  /\ Sent => Fits(content) /\ SentIsSmallest
  /\ at # "ended" => ended.how = "not_ended"
  /\ ended.how = "too_big" => Unfit

(* The step and its budget never change, so neither does what fits.        *)
LEMMA SameCuts ==
  ASSUME step' = step, limit' = limit
  PROVE  /\ StepTyped' = StepTyped /\ Cuttable' = Cuttable
         /\ \A k : HeadCut(k)' = HeadCut(k)
         /\ \A cut : Fits(cut)' = Fits(cut)
BY DEF StepTyped, Cuttable, HeadCut, Fits, Count, ListCost, CuttableIn, CutBefore, Shown

(* The middle of what is left to try is one of it.                         *)
LEMMA MiddleIsBetween ==
  ASSUME NEW low \in Nat, NEW high \in Nat, low <= high
  PROVE  (low + high) \div 2 \in low .. high
OBVIOUS

LEMMA TheSearchStarts ==
  ASSUME ScoringInv, CutsAll
  PROVE  ScoringInv'
<1>1. /\ at = "fit" /\ ~Fits(Uncut) /\ content' = HeadCut(Cuttable)
      /\ step' = step /\ limit' = limit /\ messages' = messages
      /\ StepTyped /\ messages = <<>> /\ ended.how = "not_ended"
  BY DEF CutsAll, ScoringInv
<1>2. /\ StepTyped' /\ Cuttable' = Cuttable
      /\ \A k : HeadCut(k)' = HeadCut(k)
      /\ \A cut : Fits(cut)' = Fits(cut)
  BY <1>1, SameCuts
<1>3. Uncut' = Uncut
  BY DEF Uncut
<1>4. Cuttable \in Nat /\ HeadCut(Cuttable + 1) = HeadCut(Cuttable) /\ HeadCut(0) = Uncut
  BY <1>1, CutEnds
<1>5. CASE ~Fits(HeadCut(Cuttable))
  <2>1. at' = "ended" /\ ended' = [NotEnded EXCEPT !.how = "too_big", !.parts = StepParts]
    BY <1>5 DEF CutsAll, Ends
  <2>2. Unfit'
    <3>1. Unfit' = (~Fits(Uncut)' /\ ~Fits(HeadCut(Cuttable))')
      BY DEF Unfit
    <3>2. Fits(Uncut)' = Fits(Uncut) /\ Fits(HeadCut(Cuttable))' = Fits(HeadCut(Cuttable))
      BY <1>1, <1>2, <1>3 DEF Fits, Count, ListCost, Shown, HeadCut, CuttableIn, CutBefore, Cuttable
    <3> QED
      BY <1>1, <1>5, <3>1, <3>2
  <2> QED
    BY <1>1, <1>2, <2>1, <2>2 DEF ScoringInv, Sent
<1>6. CASE Fits(HeadCut(Cuttable))
  <2>1. at' = "search" /\ search' = [low |-> 1, high |-> Cuttable] /\ ended' = ended
    BY <1>6 DEF CutsAll
  <2>2. search'.low = 1 /\ search'.high = Cuttable
    BY <2>1
  <2>3. content' = HeadCut(Cuttable + 1)
    BY <1>1, <1>4
  <2> QED
    BY <1>1, <1>2, <1>3, <1>4, <1>6, <2>1, <2>2, <2>3 DEF ScoringInv, Sent, Searching
<1> QED
  BY <1>5, <1>6

LEMMA TheSearchGoesOn ==
  ASSUME ScoringInv, Searches
  PROVE  ScoringInv'
<1> DEFINE low == search.low
           high == search.high
           middle == (low + high) \div 2
<1>1. /\ at = "search" /\ low <= high /\ at' = at /\ messages' = messages /\ ended' = ended
      /\ step' = step /\ limit' = limit /\ Middle = middle
  BY DEF Searches, Middle
<1>2. StepTyped /\ messages = <<>> /\ Searching /\ ended.how = "not_ended"
  BY <1>1 DEF ScoringInv
<1>3. /\ StepTyped' /\ Cuttable' = Cuttable
      /\ \A k : HeadCut(k)' = HeadCut(k)
      /\ \A cut : Fits(cut)' = Fits(cut)
  BY <1>1, <1>2, SameCuts
<1>4. Uncut' = Uncut
  BY DEF Uncut
<1>5. /\ low \in Nat \ {0} /\ high \in Nat /\ high <= Cuttable /\ Cuttable \in Nat
      /\ search = [low |-> low, high |-> high]
      /\ content = HeadCut(high + 1) /\ Fits(content) /\ ~Fits(Uncut)
      /\ ~Fits(HeadCut(low - 1))
  BY <1>2, CutEnds DEF Searching
<1> HIDE DEF low, high
<1>6. middle \in low .. high
  BY <1>1, <1>5, MiddleIsBetween
<1> HIDE DEF middle
<1>7. middle \in Nat \ {0} /\ low <= middle /\ middle <= high
  BY <1>5, <1>6
<1>8. CASE Fits(HeadCut(middle))
  <2>1. content' = HeadCut(middle) /\ search' = [low |-> low, high |-> middle - 1]
    <3>1. content' = HeadCut(middle) /\ search' = [search EXCEPT !.high = middle - 1]
      BY <1>1, <1>8 DEF Searches
    <3> QED
      BY <1>5, <3>1
  <2>2. search'.low = low /\ search'.high = middle - 1
    BY <2>1
  <2>3. HeadCut(middle - 1 + 1) = HeadCut(middle)
    <3>1. middle - 1 + 1 = middle
      BY <1>7
    <3> QED
      BY <3>1
  <2>4. /\ middle - 1 \in Nat /\ low <= middle - 1 + 1 /\ middle - 1 <= Cuttable
    BY <1>5, <1>7
  <2>5. Searching'
    BY <1>3, <1>4, <1>5, <1>8, <2>1, <2>2, <2>3, <2>4 DEF Searching
  <2> QED
    BY <1>1, <1>2, <1>3, <2>5 DEF ScoringInv, Sent
<1>9. CASE ~Fits(HeadCut(middle))
  <2>1. content' = content /\ search' = [low |-> middle + 1, high |-> high]
    <3>1. content' = content /\ search' = [search EXCEPT !.low = middle + 1]
      BY <1>1, <1>9 DEF Searches
    <3> QED
      BY <1>5, <3>1
  <2>2. search'.low = middle + 1 /\ search'.high = high
    BY <2>1
  <2>3. middle + 1 \in Nat \ {0} /\ middle + 1 <= high + 1
    BY <1>5, <1>7
  <2>4. search'.low - 1 = middle
    BY <1>7, <2>2
  <2>5. ~Fits(HeadCut(search'.low - 1))
    BY <1>9, <2>4
  <2>6. Searching'
    <3>1. content' = HeadCut(search'.high + 1) /\ Fits(content)' /\ ~Fits(Uncut)'
      BY <1>3, <1>4, <1>5, <2>1, <2>2
    <3> QED
      BY <1>3, <1>5, <2>1, <2>2, <2>3, <2>5, <3>1 DEF Searching
  <2> QED
    BY <1>1, <1>2, <1>3, <2>6 DEF ScoringInv, Sent
<1> QED
  BY <1>8, <1>9

LEMMA TheSearchEnds ==
  ASSUME ScoringInv, Found
  PROVE  ScoringInv'
<1>1. /\ at = "search" /\ search.low > search.high /\ at' = "ask" /\ messages' = <<Prompt>>
      /\ step' = step /\ limit' = limit /\ content' = content /\ ended' = ended
  BY DEF Found
<1>2. StepTyped /\ Searching /\ ended.how = "not_ended"
  BY <1>1 DEF ScoringInv
<1>3. /\ StepTyped' /\ Cuttable' = Cuttable
      /\ \A k : HeadCut(k)' = HeadCut(k)
      /\ \A cut : Fits(cut)' = Fits(cut)
  BY <1>1, <1>2, SameCuts
<1>4. Uncut' = Uncut /\ Sent'
  BY <1>1 DEF Uncut, Sent
<1>5. SentIsSmallest
  <2> DEFINE j == search.high + 1
  <2>1. /\ search.low \in Nat \ {0} /\ search.high \in Nat /\ Cuttable \in Nat
        /\ search.low = j /\ content = HeadCut(j) /\ ~Fits(Uncut)
        /\ ~Fits(HeadCut(j - 1)) /\ search.high <= Cuttable
    BY <1>1, <1>2, CutEnds DEF Searching
  <2>2. j \in 1 .. Cuttable + 1
    BY <2>1
  <2> HIDE DEF j
  <2>3. j # Cuttable + 1 \/ content = HeadCut(Cuttable)
    BY <1>2, <2>1, CutEnds
  <2>4. Fits(content)
    BY <1>2 DEF Searching
  <2>5. j # Cuttable + 1
    <3> SUFFICES ASSUME j = Cuttable + 1 PROVE FALSE
      OBVIOUS
    <3>1. j - 1 = Cuttable
      BY <2>1
    <3> QED
      BY <2>1, <2>3, <2>4, <3>1
  <2> QED
    BY <2>1, <2>2, <2>5 DEF SentIsSmallest
<1>6. SentIsSmallest'
  BY <1>1, <1>3, <1>4, <1>5 DEF SentIsSmallest
<1>7. Fits(content)'
  BY <1>1, <1>2, <1>3 DEF Searching
<1> QED
  BY <1>1, <1>2, <1>3, <1>4, <1>6, <1>7 DEF ScoringInv

LEMMA ScoringInvHolds ==
  /\ Init => ScoringInv
  /\ ScoringInv /\ [Next]_vars => ScoringInv'
<1>1. ASSUME Init PROVE ScoringInv
  <2>1. /\ step \in Steps /\ limit \in Limits /\ at = "check" /\ content = Uncut
        /\ messages = <<>> /\ ended.how = "not_ended"
    BY <1>1 DEF Init, NotEnded
  <2> QED
    BY <2>1, ScoringAssumption DEF ScoringInv, StepTyped, Sent
<1>2. ASSUME ScoringInv, Checks PROVE ScoringInv'
  <2>1. /\ at = "check" /\ step' = step /\ limit' = limit /\ content' = content
        /\ messages' = messages
    BY <1>2 DEF Checks
  <2>2. \/ at' = "fit" /\ ended' = ended
        \/ at' = "ended" /\ ended'.how = "invalid"
    BY <1>2 DEF Checks, Ends, NotEnded
  <2>3. StepTyped' /\ messages = <<>> /\ content = Uncut /\ Uncut' = Uncut /\ ended.how = "not_ended"
    BY <1>2, <2>1, SameCuts DEF ScoringInv, Uncut
  <2> QED
    BY <2>1, <2>2, <2>3 DEF ScoringInv, Sent
<1>3. ASSUME ScoringInv, FitsWhole PROVE ScoringInv'
  <2>1. /\ at = "fit" /\ Fits(Uncut) /\ at' = "ask" /\ messages' = <<Prompt>>
        /\ step' = step /\ limit' = limit /\ content' = content /\ ended' = ended
    BY <1>3 DEF FitsWhole
  <2>2. StepTyped /\ content = Uncut /\ ended.how = "not_ended"
    BY <1>3, <2>1 DEF ScoringInv
  <2>3. StepTyped' /\ Uncut' = Uncut /\ \A cut : Fits(cut)' = Fits(cut)
    BY <2>1, <2>2, SameCuts DEF Uncut
  <2> QED
    BY <2>1, <2>2, <2>3 DEF ScoringInv, Sent, SentIsSmallest
<1>4. ASSUME ScoringInv, step' = step, limit' = limit, content' = content, at = "ask", Sent',
             \/ at' = at /\ ended' = ended
             \/ at' = "ended" /\ ended'.how # "too_big"
      PROVE  ScoringInv'
  <2>1. StepTyped /\ Fits(content) /\ SentIsSmallest /\ ended.how = "not_ended"
    BY <1>4 DEF ScoringInv
  <2>2. /\ StepTyped' /\ Cuttable' = Cuttable
        /\ \A k : HeadCut(k)' = HeadCut(k)
        /\ \A cut : Fits(cut)' = Fits(cut)
    BY <1>4, <2>1, SameCuts
  <2>3. SentIsSmallest' /\ Fits(content)'
    BY <1>4, <2>1, <2>2 DEF SentIsSmallest, Uncut
  <2> QED
    BY <1>4, <2>1, <2>2, <2>3 DEF ScoringInv
<1>5. ASSUME ScoringInv, Generates PROVE ScoringInv'
  <2>1. at = "ask" /\ step' = step /\ limit' = limit /\ content' = content
    BY <1>5 DEF Generates
  <2>2. PICK output \in Outputs :
          IsRefused(output) \/ Overflows(output) \/ Answers(output) \/ IsCorrected(output)
    BY <1>5 DEF Generates
  <2>3. Sent
    BY <1>5, <2>1 DEF ScoringInv
  <2>4. Sent'
    <3>1. CASE IsRefused(output) \/ Overflows(output) \/ Answers(output)
      BY <2>3, <3>1 DEF IsRefused, Overflows, Answers, Sent
    <3>2. CASE IsCorrected(output)
      BY <2>3, <3>2 DEF IsCorrected, Sent
    <3> QED
      BY <2>2, <3>1, <3>2
  <2>5. \/ at' = at /\ ended' = ended
        \/ at' = "ended" /\ ended'.how # "too_big"
    BY <2>2 DEF IsRefused, Overflows, Answers, IsCorrected, Ends, NotEnded
  <2> QED
    BY <1>4, <1>5, <2>1, <2>4, <2>5
<1>6. ASSUME ScoringInv, UNCHANGED vars PROVE ScoringInv'
  <2>1. /\ at' = at /\ step' = step /\ limit' = limit /\ content' = content
        /\ messages' = messages /\ ended' = ended /\ search' = search
    BY <1>6 DEF vars
  <2>2. /\ StepTyped' = StepTyped /\ Cuttable' = Cuttable
        /\ \A k : HeadCut(k)' = HeadCut(k)
        /\ \A cut : Fits(cut)' = Fits(cut)
    BY <2>1, SameCuts
  <2>3. Uncut' = Uncut /\ Sent' = Sent
    BY <2>1 DEF Uncut, Sent
  <2>4. SentIsSmallest' = SentIsSmallest
    BY <2>1, <2>2, <2>3 DEF SentIsSmallest
  <2>5. Unfit' = Unfit
    BY <2>2, <2>3 DEF Unfit
  <2>6. Searching => Searching'
    BY <2>1, <2>2, <2>3 DEF Searching
  <2>7. Fits(content)' = Fits(content)
    BY <2>1, <2>2
  <2> QED
    BY <1>6, <2>1, <2>2, <2>3, <2>4, <2>5, <2>6, <2>7 DEF ScoringInv
<1> QED
  BY <1>1, <1>2, <1>3, <1>5, <1>6, TheSearchStarts, TheSearchGoesOn, TheSearchEnds DEF Next

LEMMA ScoringInvAlways == Spec => []ScoringInv
BY ScoringInvHolds, PTL DEF Spec

(* For any lists and costs and whatever the budget, the prompt the model   *)
(* is sent fits it, when the markers of a cut cost more than it saves too  *)
(* (_fit).                                                                 *)
THEOREM SentPromptFits == Spec => []SentFits
<1>1. ScoringInv => SentFits
  BY DEF ScoringInv, SentFits
<1> QED
  BY <1>1, ScoringInvAlways, PTL

(* The prompt sent is the whole step, or a head cut that fits where the    *)
(* one of one message fewer does not; and one of fewer still fits only     *)
(* where a marker dearer than what it stands for lies between (_fit).      *)
THEOREM TheSmallestCutIsSent == Spec => []SmallestCutIsSent
<1>1. ASSUME ScoringInv, Sent, ~Fits(Uncut)
      PROVE  \E j \in 1 .. Cuttable :
               /\ content = HeadCut(j) /\ ~Fits(HeadCut(j - 1))
               /\ \A k \in 1 .. j - 1 : Fits(HeadCut(k)) => Lengthens(k, j - 1)
  <2>1. PICK j \in 1 .. Cuttable : content = HeadCut(j) /\ ~Fits(HeadCut(j - 1))
    BY <1>1 DEF ScoringInv, SentIsSmallest
  <2>2. StepTyped /\ j - 1 \in Nat
    BY <1>1, <2>1, CutEnds DEF ScoringInv
  <2>3. ASSUME NEW k \in 1 .. j - 1, Fits(HeadCut(k)) PROVE Lengthens(k, j - 1)
    BY <2>1, <2>2, <2>3, MustLengthen
  <2> QED
    BY <2>1, <2>3
<1>2. ScoringInv /\ Sent /\ Fits(Uncut) => content = Uncut
  BY DEF ScoringInv, SentIsSmallest
<1>3. ScoringInv => SmallestCutIsSent
  BY <1>1, <1>2 DEF SmallestCutIsSent
<1> QED
  BY <1>3, ScoringInvAlways, PTL

(* A step is refused as too big only if it doesn't fit whole, nor with all *)
(* cut that can be; a head cut of it may fit though, but only where a      *)
(* marker dearer than what it stands for comes after it (_fit).            *)
THEOREM RefusedStepsAreUnfit == Spec => []RefusesUnfit
<1>1. ASSUME ScoringInv, ended.how = "too_big", NEW k \in 1 .. Cuttable, Fits(HeadCut(k))
      PROVE  Lengthens(k, Cuttable)
  <2>1. Unfit /\ StepTyped /\ Cuttable \in Nat
    BY <1>1, CutEnds DEF ScoringInv
  <2> QED
    BY <1>1, <2>1, MustLengthen DEF Unfit
<1>2. ScoringInv => RefusesUnfit
  BY <1>1 DEF RefusesUnfit, ScoringInv, Unfit
<1> QED
  BY <1>2, ScoringInvAlways, PTL

-----------------------------------------------------------------------------
(* What was asked was accepted, and the cut to send is the one cites are   *)
(* resolved with; the answer's cites were.                                 *)
SentInv ==
  /\ at \notin {"check", "ended"} => Accepts(asked)
  /\ extract_refs = content
  /\ at # "ended" => ended.how = "not_ended"
  /\ ended.how = "scored" => ended.cites = Numbered(content)
  /\ StepTyped /\ \E k \in Nat : content = HeadCut(k)

LEMMA SameStep ==
  ASSUME step' = step, limit' = limit
  PROVE  /\ \A cut : Numbered(cut)' = Numbered(cut)
         /\ StepTyped' = StepTyped
         /\ \A k : HeadCut(k)' = HeadCut(k)
  BY DEF Numbered, Shown, StepTyped, HeadCut, CuttableIn, CutBefore

LEMMA SentInvHolds ==
  /\ Init => SentInv
  /\ ScoringInv /\ SentInv /\ [Next]_vars => SentInv'
<1>1. ASSUME Init PROVE SentInv
  <2>1. /\ step \in Steps /\ limit \in Limits /\ at = "check" /\ content = Uncut
        /\ extract_refs = Uncut /\ ended.how = "not_ended"
    BY <1>1 DEF Init, NotEnded
  <2>2. StepTyped
    BY <2>1, ScoringAssumption DEF StepTyped
  <2>3. content = HeadCut(0) /\ 0 \in Nat
    BY <2>1, <2>2, CutEnds
  <2> QED
    BY <2>1, <2>2, <2>3 DEF SentInv
<1>2. ASSUME ScoringInv, SentInv, [Next]_vars PROVE SentInv'
  <2>1. step' = step /\ limit' = limit /\ asked' = asked
    BY <1>2 DEF Next, vars, Checks, FitsWhole, CutsAll, Searches, Found, Generates
  <2>2. /\ \A cut : Numbered(cut)' = Numbered(cut)
        /\ StepTyped' = StepTyped
        /\ \A k : HeadCut(k)' = HeadCut(k)
    BY <2>1, SameStep
  <2>3. Accepts(asked)' = Accepts(asked)
    BY <2>1 DEF Accepts, Extra
  <2>4. ASSUME content' = content, extract_refs' = extract_refs,
               at' \notin {"check", "ended"} => Accepts(asked),
               \/ at' = at /\ ended' = ended
               \/ at' # "ended" /\ ended' = ended /\ at # "ended"
               \/ at' = "ended" /\ ended'.how # "scored"
        PROVE  SentInv'
    BY <1>2, <2>2, <2>3, <2>4 DEF SentInv
  <2>5. CASE Checks
    <3>1. /\ at = "check" /\ content' = content /\ extract_refs' = extract_refs
          /\ \/ Accepts(asked) /\ at' = "fit" /\ ended' = ended
             \/ at' = "ended" /\ ended'.how = "invalid"
      BY <2>5 DEF Checks, Ends, NotEnded
    <3> QED
      BY <2>4, <3>1
  <2>6. CASE FitsWhole \/ Found
    <3>1. /\ at \in {"fit", "search"} /\ at' = "ask" /\ content' = content
          /\ extract_refs' = extract_refs /\ ended' = ended
      BY <2>6 DEF FitsWhole, Found
    <3>2. Accepts(asked)
      BY <1>2, <3>1 DEF SentInv
    <3> QED
      BY <2>4, <3>1, <3>2
  <2>7. ASSUME NEW k \in Nat, content' = HeadCut(k), extract_refs' = HeadCut(k),
               at \in {"fit", "search"},
               \/ at' = "search" /\ ended' = ended
               \/ at' = "ended" /\ ended'.how # "scored"
        PROVE  SentInv'
    <3>1. Accepts(asked) /\ ended.how = "not_ended" /\ StepTyped
      BY <1>2, <2>7 DEF SentInv
    <3>2. HeadCut(k) = HeadCut(k)'
      BY <2>2
    <3> QED
      BY <2>2, <2>3, <2>7, <3>1, <3>2 DEF SentInv
  <2>8. CASE CutsAll
    <3>1. /\ at = "fit" /\ content' = HeadCut(Cuttable) /\ extract_refs' = HeadCut(Cuttable)
          /\ \/ at' = "search" /\ ended' = ended
             \/ at' = "ended" /\ ended'.how # "scored"
      BY <2>8 DEF CutsAll, Ends, NotEnded
    <3>2. Cuttable \in Nat
      BY <1>2, CutEnds DEF SentInv
    <3> QED
      BY <2>7, <3>1, <3>2
  <2>9. CASE Searches
    <3>1. at = "search" /\ at' = at /\ ended' = ended
      BY <2>9 DEF Searches
    <3>2. CASE content' = content /\ extract_refs' = extract_refs
      BY <1>2, <2>4, <3>1, <3>2 DEF SentInv
    <3>3. CASE content' = HeadCut(Middle) /\ extract_refs' = HeadCut(Middle)
      <4>1. search.low \in Nat /\ search.high \in Nat /\ search.low <= search.high
        BY <1>2, <2>9, <3>1 DEF ScoringInv, Searching, Searches
      <4>2. Middle \in Nat
        BY <4>1, MiddleIsBetween DEF Middle
      <4> QED
        BY <2>7, <3>1, <3>3, <4>2
    <3> QED
      BY <2>9, <3>2, <3>3 DEF Searches
  <2>10. CASE Generates
    <3>1. at = "ask" /\ content' = content /\ extract_refs' = extract_refs
      BY <2>10 DEF Generates
    <3>2. PICK output \in Outputs :
            IsRefused(output) \/ Overflows(output) \/ Answers(output) \/ IsCorrected(output)
      BY <2>10 DEF Generates
    <3>3. CASE IsRefused(output) \/ Overflows(output) \/ IsCorrected(output)
      <4>1. \/ at' = at /\ ended' = ended
            \/ at' = "ended" /\ ended'.how # "scored"
        BY <3>3 DEF IsRefused, Overflows, IsCorrected, Ends, NotEnded
      <4> QED
        BY <1>2, <2>4, <3>1, <4>1 DEF SentInv
    <3>4. CASE Answers(output)
      <4>1. at' = "ended" /\ ended'.cites = Numbered(extract_refs)
        BY <3>4 DEF Answers, Ends, NotEnded
      <4> QED
        BY <1>2, <2>2, <3>1, <4>1 DEF SentInv
    <3> QED
      BY <3>2, <3>3, <3>4
  <2>11. CASE UNCHANGED vars
    <3>1. /\ content' = content /\ extract_refs' = extract_refs /\ at' = at /\ ended' = ended
      BY <2>11 DEF vars
    <3> QED
      BY <1>2, <2>4, <3>1 DEF SentInv
  <2> QED
    BY <1>2, <2>5, <2>6, <2>8, <2>9, <2>10, <2>11 DEF Next
<1> QED
  BY <1>1, <1>2

LEMMA SentInvAlways == Spec => []SentInv
BY SentInvHolds, ScoringInvAlways, PTL DEF Spec

(* A template that score_step accepted has a value for each variable it    *)
(* uses, and none of the caller's is one of the prompt's own.              *)
THEOREM AcceptedTemplatesRender == Spec => []AcceptedRenders
<1>1. SentInv => AcceptedRenders
  BY DEF SentInv, AcceptedRenders, Accepts, Extra, Required
<1> QED
  BY <1>1, SentInvAlways, PTL

(* A cite of the explanation is resolved with the numbering of the prompt  *)
(* that was sent, whatever other cuts the search counted before.           *)
THEOREM CitesAreOfThePromptSent == Spec => []CitesNameWhatWasSent
<1>1. SentInv => CitesNameWhatWasSent
  BY DEF SentInv, CitesNameWhatWasSent
<1> QED
  BY <1>1, SentInvAlways, PTL

(* The list of the messages a cut leaves is those left of each list.       *)
Left(list, cut) == [i \in 1 .. Shown(list).n - cut[list] |-> <<list, i + cut[list]>>]

(* The request a generate step is judged by is shown whatever is cut: the  *)
(* newest INPUT message is never cuttable (keeps_newest_input).            *)
THEOREM TheNewestInputIsShown == Spec => []NewestInputIsShown
<1>1. ASSUME SentInv, KeepsNewestInput
      PROVE  <<"input", Shown("input").n>> \in Range(Numbered(content))
  <2>1. PICK k \in Nat : content = HeadCut(k)
    BY <1>1 DEF SentInv
  <2>2. \A list \in ListNames : /\ content[list] \in 0 .. CuttableIn(list)
                               /\ CuttableIn(list) \in 0 .. Shown(list).n
                               /\ Shown(list).n \in Nat
    BY <1>1, <2>1, CutsGrow, ListsAre DEF SentInv, IsList
  <2> DEFINE n == Shown("input").n
             cut == content["input"]
             Places == ListNames \X Int
             first == Left("history", content) \o Left("agent_messages", content)
             last == Left("input", content)
  <2>3. CuttableIn("input") = n - 1 /\ n \in Nat /\ n > 0
    <3>1. n \in Nat /\ n > 0 /\ step.stage = "before_generate"
      BY <1>1, <2>2 DEF KeepsNewestInput, ListNames
    <3>2. CuttableIn("input") = Max({n - 1, 0})
      BY <3>1 DEF CuttableIn
    <3> HIDE DEF n
    <3>3. n - 1 \in Int /\ 0 \in Int
      BY <3>1
    <3>4. Max({n - 1, 0}) \in {n - 1, 0} /\ Max({n - 1, 0}) >= n - 1 /\ Max({n - 1, 0}) >= 0
      BY <3>3, Larger
    <3> QED
      BY <3>1, <3>2, <3>4
  <2>4. cut \in Nat /\ cut <= n - 1
    BY <2>2, <2>3 DEF ListNames
  <2>5. \A list \in ListNames : /\ Left(list, content) \in Seq(Places)
                               /\ Len(Left(list, content)) = Shown(list).n - content[list]
    <3>1. ASSUME NEW list \in ListNames
          PROVE  /\ Left(list, content) \in Seq(Places)
                 /\ Len(Left(list, content)) = Shown(list).n - content[list]
      <4> DEFINE m == Shown(list).n - content[list]
                 c == content[list]
      <4>1. m \in Nat /\ c \in Nat
        BY <2>2
      <4>2. Left(list, content) = [i \in 1 .. m |-> <<list, i + c>>]
        BY DEF Left
      <4> HIDE DEF m, c
      <4>3. \A i \in 1 .. m : <<list, i + c>> \in Places
        BY <4>1
      <4> HIDE DEF Places
      <4> QED
        BY <4>1, <4>2, <4>3 DEF m
    <3> QED
      BY <3>1
  <2>6. Numbered(content) = first \o last
    BY DEF Numbered, Left
  <2>7. first \in Seq(Places) /\ last \in Seq(Places) /\ Len(last) = n - cut
    BY <2>5, ConcatProperties DEF ListNames
  <2>8. last[n - cut] = <<"input", n>>
    <3>1. last = [i \in 1 .. n - cut |-> <<"input", i + cut>>]
      BY DEF Left
    <3> HIDE DEF last, n, cut
    <3>2. n - cut \in 1 .. n - cut /\ n - cut + cut = n
      BY <2>3, <2>4
    <3> QED
      BY <3>1, <3>2
  <2> HIDE DEF first, last, Places, n, cut
  <2>9. Len(first) \in Nat /\ n - cut \in 1 .. Len(last)
    BY <2>3, <2>4, <2>7
  <2> DEFINE place == Len(first) + (n - cut)
  <2>10. place \in 1 .. Len(first) + Len(last) /\ ~(place <= Len(first)) /\ place - Len(first) = n - cut
    BY <2>3, <2>4, <2>7, <2>9
  <2> HIDE DEF place
  <2>11. /\ (first \o last)[place] = last[n - cut]
         /\ first \o last \in Seq(Places) /\ Len(first \o last) = Len(first) + Len(last)
    <3>1. /\ first \o last \in Seq(Places) /\ Len(first \o last) = Len(first) + Len(last)
          /\ \A i \in 1 .. Len(first) + Len(last) : (first \o last)[i] =
               IF i <= Len(first) THEN first[i] ELSE last[i - Len(first)]
      BY <2>7, ConcatProperties, Zenon
    <3>2. (first \o last)[place] = last[place - Len(first)]
      BY <2>10, <3>1, Zenon
    <3> QED
      BY <2>10, <3>1, <3>2, Zenon
  <2>12. place \in DOMAIN (first \o last)
    BY <2>10, <2>11
  <2> QED
    BY <2>6, <2>8, <2>11, <2>12 DEF Range, n
<1>2. SentInv => NewestInputIsShown
  BY <1>1 DEF NewestInputIsShown
<1> QED
  BY <1>2, SentInvAlways, PTL

-----------------------------------------------------------------------------
(* The least of some numbers, and of numbers up to some n the largest.     *)
LEMMA LeastIs ==
  ASSUME NEW S \in SUBSET Nat, S # {}
  PROVE  Min(S) \in S /\ \A l \in S : Min(S) <= l
<1>1. \E k \in S : \A l \in S : k <= l
  BY LeastElement
<1>2. Min(S) = CHOOSE k \in S : \A l \in S : k <= l
  BY DEF Min
<1> QED
  BY <1>1, <1>2

LEMMA LargestIs ==
  ASSUME NEW n \in Nat, NEW S \in SUBSET (1 .. n), S # {}
  PROVE  Max(S) \in S /\ \A l \in S : Max(S) >= l
<1> DEFINE below == {n - k : k \in S}
<1>1. below \in SUBSET Nat /\ below # {}
  <2>1. \A k \in S : n - k \in Nat /\ n - k \in below
    OBVIOUS
  <2>2. \A b \in below : \E k \in S : b = n - k
    OBVIOUS
  <2> HIDE DEF below
  <2> QED
    BY <2>1, <2>2
<1>2. PICK b \in below : \A c \in below : b <= c
  BY <1>1, LeastElement
<1>3. PICK k \in S : b = n - k
  BY <1>2
<1>4. \A l \in S : k >= l
  <2> SUFFICES ASSUME NEW l \in S PROVE k >= l
    OBVIOUS
  <2>1. n - l \in below
    OBVIOUS
  <2>2. n - k <= n - l
    BY <1>2, <1>3, <2>1
  <2> QED
    BY <2>2
<1>5. Max(S) = CHOOSE x \in S : \A l \in S : x >= l
  BY DEF Max
<1> QED
  BY <1>4, <1>5

-----------------------------------------------------------------------------
(* What the model answers, and is answered (_generate, _check).            *)
Said == [from : {"user", "assistant", "tool"}, attempt : Nat, call : Nat]

(* Each reply in a list of messages has the results of its calls after it. *)
AnsweredIn(said) ==
  \A i \in DOMAIN said :
    said[i].from = "assistant" =>
      /\ said[i].call = 0 => i + 1 \in DOMAIN said /\ said[i + 1].from = "user"
      /\ said[i].call # 0 =>
           /\ i + said[i].call \in DOMAIN said
           /\ \A c \in 1 .. said[i].call :
                said[i + c] = [from |-> "tool", attempt |-> said[i].attempt, call |-> c]

LEMMA AnsweredTogether ==
  ASSUME NEW before \in Seq(Said), NEW more \in Seq(Said), AnsweredIn(before), AnsweredIn(more)
  PROVE  before \o more \in Seq(Said) /\ AnsweredIn(before \o more)
<1> DEFINE all == before \o more
           n == Len(before)
<1>1. /\ all \in Seq(Said) /\ n \in Nat /\ Len(more) \in Nat /\ Len(all) = n + Len(more)
      /\ \A i \in 1 .. n + Len(more) : all[i] = IF i <= n THEN before[i] ELSE more[i - n]
  BY ConcatProperties
<1>2. DOMAIN all = 1 .. n + Len(more) /\ DOMAIN before = 1 .. n /\ DOMAIN more = 1 .. Len(more)
  BY <1>1
<1>3. /\ \A i \in 1 .. n : all[i] = before[i]
      /\ \A i \in 1 .. Len(more) : all[n + i] = more[i]
  <2> HIDE DEF all, n
  <2> QED
    BY <1>1
<1> SUFFICES ASSUME NEW i \in DOMAIN all, all[i].from = "assistant"
             PROVE  /\ all[i].call = 0 => i + 1 \in DOMAIN all /\ all[i + 1].from = "user"
                    /\ all[i].call # 0 =>
                         /\ i + all[i].call \in DOMAIN all
                         /\ \A c \in 1 .. all[i].call :
                              all[i + c] = [from |-> "tool", attempt |-> all[i].attempt, call |-> c]
  BY <1>1 DEF AnsweredIn
<1>4. \A j \in DOMAIN before : before[j].call \in Nat
  <2>1. \A j \in DOMAIN before : before[j] \in Said
    OBVIOUS
  <2> QED
    BY <2>1 DEF Said
<1>5. \A j \in DOMAIN more : more[j].call \in Nat
  <2>1. \A j \in DOMAIN more : more[j] \in Said
    OBVIOUS
  <2> QED
    BY <2>1 DEF Said
<1> HIDE DEF all, n
<1>6. CASE i \in 1 .. n
  <2>1. all[i] = before[i] /\ before[i].from = "assistant" /\ i \in DOMAIN before
    BY <1>2, <1>3, <1>6
  <2> DEFINE k == before[i].call
  <2>2. /\ k = 0 => i + 1 \in DOMAIN before /\ before[i + 1].from = "user"
        /\ k # 0 => /\ i + k \in DOMAIN before
                    /\ \A c \in 1 .. k :
                         before[i + c] = [from |-> "tool", attempt |-> before[i].attempt, call |-> c]
        /\ k \in Nat
    BY <1>4, <2>1 DEF AnsweredIn
  <2>3. all[i].call = k /\ all[i].attempt = before[i].attempt
    BY <2>1
  <2> HIDE DEF k
  <2>4. CASE k = 0
    BY <1>1, <1>2, <1>3, <2>2, <2>3, <2>4
  <2>5. CASE k # 0
    <3>1. i + k \in 1 .. n /\ i + k \in DOMAIN all
      BY <1>1, <1>2, <1>6, <2>2, <2>5
    <3>2. \A c \in 1 .. k : i + c \in 1 .. n
      BY <1>1, <1>6, <2>2, <3>1
    <3> QED
      BY <1>3, <2>2, <2>3, <2>5, <3>1, <3>2
  <2> QED
    BY <2>4, <2>5
<1>7. CASE i \notin 1 .. n
  <2> DEFINE j == i - n
             k == more[j].call
  <2>1. j \in 1 .. Len(more) /\ i = n + j
    BY <1>1, <1>2, <1>7
  <2>2. all[i] = more[j] /\ more[j].from = "assistant" /\ j \in DOMAIN more
    BY <1>2, <1>3, <2>1
  <2>3. /\ k = 0 => j + 1 \in DOMAIN more /\ more[j + 1].from = "user"
        /\ k # 0 => /\ j + k \in DOMAIN more
                    /\ \A c \in 1 .. k :
                         more[j + c] = [from |-> "tool", attempt |-> more[j].attempt, call |-> c]
        /\ k \in Nat
    BY <1>5, <2>2 DEF AnsweredIn
  <2>4. all[i].call = k /\ all[i].attempt = more[j].attempt
    BY <2>2
  <2> HIDE DEF j, k
  <2>5. CASE k = 0
    <3>1. j + 1 \in 1 .. Len(more) /\ i + 1 = n + (j + 1)
      BY <1>1, <1>2, <2>1, <2>3, <2>5
    <3>2. all[i + 1] = more[j + 1] /\ i + 1 \in DOMAIN all
      BY <1>1, <1>2, <1>3, <3>1
    <3> QED
      BY <2>3, <2>4, <2>5, <3>2
  <2>6. CASE k # 0
    <3>1. j + k \in 1 .. Len(more) /\ i + k \in DOMAIN all
      BY <1>1, <1>2, <2>1, <2>3, <2>6
    <3>2. \A c \in 1 .. k : j + c \in 1 .. Len(more) /\ i + c = n + (j + c)
      BY <1>1, <2>1, <2>3, <3>1
    <3>3. \A c \in 1 .. k : all[i + c] = more[j + c]
      BY <1>3, <3>2
    <3> QED
      BY <2>3, <2>4, <2>6, <3>1, <3>3
  <2> QED
    BY <2>5, <2>6
<1> QED
  BY <1>6, <1>7

(* What an invalid reply is answered with is an answer to each of its calls*)
LEMMA CorrectionAnswers ==
  ASSUME NEW output \in Outputs, Attempt \in Nat
  PROVE  Correction(output) \in Seq(Said) /\ AnsweredIn(Correction(output))
<1> DEFINE calls == CallsOf(output)
           n == Len(calls)
           reply == [from |-> "assistant", attempt |-> Attempt, call |-> n]
           results == [i \in DOMAIN calls |-> [from |-> "tool", attempt |-> Attempt, call |-> i]]
<1>1. calls \in Seq(STRING) /\ n \in Nat /\ DOMAIN calls = 1 .. n
  <2>1. output.calls \in Seq(STRING) /\ <<>> \in Seq(STRING)
    BY ScoringAssumption
  <2>2. calls \in Seq(STRING)
    BY <2>1 DEF CallsOf
  <2> HIDE DEF calls
  <2> QED
    BY <2>2
<1>2. Prompt \in Said /\ Prompt.from = "user"
  BY DEF Prompt, Said
<1>3. Correction(output) = (IF output.choices THEN <<reply>> ELSE <<>>)
                             \o (IF calls # <<>> THEN results ELSE <<Prompt>>)
  BY DEF Correction
<1>4. output.choices \in BOOLEAN /\ (~output.choices => calls = <<>>)
  BY ScoringAssumption DEF CallsOf
<1>5. reply \in Said /\ reply.from = "assistant" /\ reply.call = n /\ reply.attempt = Attempt
  BY <1>1 DEF Said
<1>6. /\ results \in Seq(Said) /\ Len(results) = n
      /\ \A i \in 1 .. n : results[i] = [from |-> "tool", attempt |-> Attempt, call |-> i]
  <2> HIDE DEF calls
  <2>1. results = [i \in 1 .. n |-> [from |-> "tool", attempt |-> Attempt, call |-> i]]
    BY <1>1
  <2>2. \A i \in 1 .. n : [from |-> "tool", attempt |-> Attempt, call |-> i] \in Said
    BY DEF Said
  <2> HIDE DEF results, n
  <2> QED
    BY <1>1, <2>1, <2>2
<1>7. calls = <<>> <=> n = 0
  BY <1>1
<1> HIDE DEF calls, n, results, reply
<1>8. CASE ~output.choices
  <2>1. Correction(output) = <<Prompt>>
    BY <1>2, <1>3, <1>4, <1>8
  <2> QED
    BY <1>2, <2>1 DEF AnsweredIn
<1>9. CASE output.choices /\ n = 0
  <2> DEFINE all == <<reply>> \o <<Prompt>>
  <2>1. Correction(output) = all
    BY <1>3, <1>7, <1>9
  <2>2. all \in Seq(Said) /\ Len(all) = 2 /\ all[1] = reply /\ all[2] = Prompt
    <3>1. /\ <<reply>> \in Seq(Said) /\ Len(<<reply>>) = 1 /\ <<reply>>[1] = reply
          /\ <<Prompt>> \in Seq(Said) /\ Len(<<Prompt>>) = 1 /\ <<Prompt>>[1] = Prompt
      BY <1>2, <1>5
    <3>2. /\ all \in Seq(Said) /\ Len(all) = 2
          /\ \A i \in 1 .. 2 : all[i] = IF i <= 1 THEN <<reply>>[i] ELSE <<Prompt>>[i - 1]
      BY <3>1, ConcatProperties
    <3> HIDE DEF all
    <3> QED
      BY <3>1, <3>2
  <2> HIDE DEF all
  <2>3. DOMAIN all = {1, 2} /\ all[1].from = "assistant" /\ all[1].call = 0 /\ all[2].from = "user"
    BY <1>2, <1>5, <1>9, <2>2
  <2>4. AnsweredIn(all)
    BY <2>3 DEF AnsweredIn
  <2> QED
    BY <2>1, <2>2, <2>4
<1>10. CASE output.choices /\ n # 0
  <2> DEFINE all == <<reply>> \o results
  <2>1. Correction(output) = all
    BY <1>3, <1>7, <1>10
  <2>2. /\ all \in Seq(Said) /\ Len(all) = 1 + n /\ all[1] = reply
        /\ \A i \in 1 .. n : all[1 + i] = results[i]
    <3>1. <<reply>> \in Seq(Said) /\ Len(<<reply>>) = 1 /\ <<reply>>[1] = reply
      BY <1>5
    <3>2. /\ all \in Seq(Said) /\ Len(all) = 1 + n
          /\ \A i \in 1 .. 1 + n : all[i] = IF i <= 1 THEN <<reply>>[i] ELSE results[i - 1]
      BY <1>6, <3>1, ConcatProperties
    <3>3. \A i \in 1 .. n : 1 + i \in 1 .. 1 + n /\ ~(1 + i <= 1) /\ (1 + i) - 1 = i
      BY <1>1
    <3>4. 1 \in 1 .. 1 + n
      BY <1>1
    <3> HIDE DEF all
    <3> QED
      BY <3>1, <3>2, <3>3, <3>4
  <2>3. \A i \in 2 .. 1 + n : all[i].from = "tool"
    <3> SUFFICES ASSUME NEW i \in 2 .. 1 + n PROVE all[i].from = "tool"
      OBVIOUS
    <3>1. i - 1 \in 1 .. n /\ 1 + (i - 1) = i
      BY <1>1
    <3>2. all[i] = results[i - 1]
      BY <2>2, <3>1
    <3> QED
      BY <1>6, <3>1, <3>2
  <2> HIDE DEF all
  <2>4. ASSUME NEW i \in DOMAIN all, all[i].from = "assistant"
        PROVE  /\ all[i].call = n /\ i = 1 /\ i + n \in DOMAIN all
               /\ \A c \in 1 .. n :
                    all[i + c] = [from |-> "tool", attempt |-> all[i].attempt, call |-> c]
    <3>1. i = 1
      BY <1>1, <2>2, <2>3, <2>4
    <3> QED
      BY <1>1, <1>5, <1>6, <2>2, <3>1
  <2>5. AnsweredIn(all)
    BY <1>10, <2>4 DEF AnsweredIn
  <2> QED
    BY <2>1, <2>2, <2>5
<1> QED
  BY <1>4, <1>8, <1>9, <1>10, <1>1

(* The outputs that were not refused used up an attempt each.              *)
Used(all) == {i \in DOMAIN all : ~Refused(all[i])}

LEMMA AttemptsAreCounted ==
  ASSUME outputs \in Seq(Outputs), NEW output \in Outputs, outputs' = Append(outputs, output)
  PROVE  /\ Attempt = Cardinality(Used(outputs)) + 1 /\ Attempt \in Nat
         /\ Refused(output) => Used(outputs') = Used(outputs)
         /\ ~Refused(output) => Cardinality(Used(outputs')) = Attempt
<1> DEFINE n == Len(outputs)
<1>1. /\ n \in Nat /\ DOMAIN outputs = 1 .. n /\ DOMAIN outputs' = 1 .. n + 1
      /\ outputs'[n + 1] = output /\ \A i \in 1 .. n : outputs'[i] = outputs[i]
  OBVIOUS
<1>2. Attempt = Cardinality(Used(outputs)) + 1
  BY DEF Attempt, Used
<1>3. IsFiniteSet(Used(outputs)) /\ Cardinality(Used(outputs)) \in Nat
  <2>1. IsFiniteSet(1 .. n)
    <3>1. n \in Int
      BY <1>1
    <3> HIDE DEF n
    <3> QED
      BY <3>1, FS_Interval
  <2>2. Used(outputs) \subseteq 1 .. n
    BY <1>1 DEF Used
  <2>3. IsFiniteSet(Used(outputs))
    BY <2>1, <2>2, FS_Subset
  <2> QED
    BY <2>3, FS_CardinalityType
<1> HIDE DEF n
<1>4. Refused(output) => Used(outputs') = Used(outputs)
  BY <1>1 DEF Used
<1>5. ~Refused(output) => Used(outputs') = Used(outputs) \cup {n + 1}
  BY <1>1 DEF Used
<1>6. n + 1 \notin Used(outputs)
  BY <1>1 DEF Used
<1>7. Cardinality(Used(outputs) \cup {n + 1}) = Cardinality(Used(outputs)) + 1
  BY <1>3, <1>6, FS_AddElement
<1>8. ~Refused(output) => Cardinality(Used(outputs')) = Attempt
  BY <1>2, <1>5, <1>7
<1>9. Attempt \in Nat
  BY <1>2, <1>3
<1> QED
  BY <1>2, <1>4, <1>8, <1>9

(* What was sent and answered so far, and what the answer then says.       *)
NoneValid == \A i \in DOMAIN outputs : ~Refused(outputs[i]) => Valid(outputs[i]) = {}
AnswersInv ==
  /\ outputs \in Seq(Outputs) /\ messages \in Seq(Said) /\ EachCallIsAnswered
  /\ at \in {"check", "fit", "search", "ask"} => NoneValid
  /\ at # "ended" => ended.how = "not_ended"
  /\ ended.how = "too_big" => ended.parts = StepParts
  /\ EveryDimensionIsScored /\ AttemptsAreTheModels /\ FirstValidAnswers

LEMMA AnsweredSoFar == messages \in Seq(Said) => (EachCallIsAnswered <=> AnsweredIn(messages))
<1>1. ASSUME messages \in Seq(Said) PROVE \A i \in DOMAIN messages : messages[i].call \in Nat
  <2>1. \A i \in DOMAIN messages : messages[i] \in Said
    BY <1>1
  <2> QED
    BY <2>1 DEF Said
<1> QED
  BY <1>1 DEF EachCallIsAnswered, AnsweredIn

LEMMA StaysAnswered ==
  ASSUME AnswersInv, step' = step, asked' = asked, outputs' = outputs,
         messages' = messages \/ messages' = <<Prompt>>,
         \/ at' = at /\ ended' = ended
         \/ at \in {"fit", "search"} /\ at' # "ended" /\ ended' = ended
         \/ at = "check" /\ at' # "ended" /\ ended' = ended
         \/ at' = "ended" /\ ended'.how = "invalid"
         \/ at' = "ended" /\ ended'.how = "too_big" /\ ended'.parts = StepParts
  PROVE  AnswersInv'
<1>1. StepParts' = StepParts
  BY DEF StepParts, KeepsNewestInput, Shown
<1>2. outputs' \in Seq(Outputs) /\ NoneValid' = NoneValid
  BY DEF AnswersInv, NoneValid, Valid, CallsOf, Refused
<1>3. messages' \in Seq(Said) /\ EachCallIsAnswered'
  <2>1. CASE messages' = messages
    BY <2>1 DEF AnswersInv, EachCallIsAnswered
  <2>2. CASE messages' = <<Prompt>>
    <3>1. Prompt \in Said /\ Prompt.from = "user"
      BY DEF Prompt, Said
    <3>2. <<Prompt>> \in Seq(Said) /\ DOMAIN <<Prompt>> = {1} /\ <<Prompt>>[1] = Prompt
      BY <3>1
    <3> QED
      BY <2>2, <3>1, <3>2 DEF EachCallIsAnswered
  <2> QED
    BY <2>1, <2>2
<1>4. CASE ended' = ended
  <2>1. EveryDimensionIsScored' /\ AttemptsAreTheModels' /\ FirstValidAnswers'
    BY <1>4 DEF AnswersInv, EveryDimensionIsScored, AttemptsAreTheModels, FirstValidAnswers,
                Refusals, CallsOf, Valid, Refused
  <2> QED
    BY <1>1, <1>2, <1>3, <1>4, <2>1 DEF AnswersInv
<1>5. CASE at' = "ended" /\ ended'.how \in {"invalid", "too_big"}
  <2>1. EveryDimensionIsScored' /\ AttemptsAreTheModels'
    BY <1>5 DEF EveryDimensionIsScored, AttemptsAreTheModels
  <2>2. FirstValidAnswers'
    BY <1>5 DEF AnswersInv, FirstValidAnswers, CallsOf, Valid, Refused
  <2> QED
    BY <1>1, <1>2, <1>3, <1>5, <2>1, <2>2 DEF AnswersInv
<1> QED
  BY <1>4, <1>5

LEMMA AnsweringGoesOn ==
  ASSUME SentInv, AnswersInv, Generates
  PROVE  AnswersInv'
<1>1. /\ at = "ask" /\ step' = step /\ asked' = asked /\ ended.how = "not_ended"
      /\ outputs \in Seq(Outputs) /\ messages \in Seq(Said) /\ EachCallIsAnswered /\ NoneValid
  BY DEF Generates, AnswersInv
<1>2. PICK output \in Outputs :
        /\ IsRefused(output) \/ Overflows(output) \/ Answers(output) \/ IsCorrected(output)
        /\ outputs' = Append(outputs, output)
  BY DEF Generates
<1> DEFINE n == Len(outputs)
<1>3. /\ n \in Nat /\ outputs' \in Seq(Outputs) /\ DOMAIN outputs = 1 .. n
      /\ DOMAIN outputs' = 1 .. n + 1 /\ Len(outputs') = n + 1
      /\ outputs'[n + 1] = output /\ \A i \in 1 .. n : outputs'[i] = outputs[i]
  BY <1>1, <1>2
<1>4. \A i \in 1 .. n : ~Refused(outputs'[i]) => Valid(outputs'[i]) = {}
  BY <1>1, <1>3 DEF NoneValid
<1>5. /\ Attempt = Cardinality(Used(outputs)) + 1 /\ Attempt \in Nat
      /\ Refused(output) => Used(outputs') = Used(outputs)
      /\ ~Refused(output) => Cardinality(Used(outputs')) = Attempt
  BY <1>1, <1>2, AttemptsAreCounted
<1>6. asked.dimensions \cap Reserved = {}
  BY <1>1 DEF SentInv, Accepts
<1>7. StepParts' = StepParts
  BY <1>1 DEF StepParts, KeepsNewestInput, Shown
<1>8. /\ Last(outputs') = output
      /\ \A i \in DOMAIN outputs' : i < Len(outputs') => i \in 1 .. n
  BY <1>3 DEF Last
<1>9. \A i \in DOMAIN outputs' : i < Len(outputs') /\ ~Refused(outputs'[i]) => Valid(outputs'[i]) = {}
  BY <1>4, <1>8
<1>10. ASSUME at' = at, ended' = ended, ~Refused(output) => Valid(output) = {} PROVE
          NoneValid' /\ EveryDimensionIsScored' /\ AttemptsAreTheModels' /\ FirstValidAnswers'
  <2>1. \A i \in DOMAIN outputs' : ~Refused(outputs'[i]) => Valid(outputs'[i]) = {}
    BY <1>3, <1>4, <1>10
  <2>2. NoneValid'
    BY <2>1 DEF NoneValid, Valid, CallsOf, Refused
  <2>3. EveryDimensionIsScored' /\ AttemptsAreTheModels'
    BY <1>1, <1>10 DEF EveryDimensionIsScored, AttemptsAreTheModels
  <2>4. FirstValidAnswers'
    BY <1>1, <1>9, <1>10 DEF FirstValidAnswers, Valid, CallsOf, Refused
  <2> QED
    BY <2>2, <2>3, <2>4
<1>11. messages' \in Seq(Said) /\ EachCallIsAnswered'
  <2>1. CASE messages' = messages
    BY <1>1, <2>1 DEF EachCallIsAnswered
  <2>2. CASE IsCorrected(output)
    <3>1. messages' = messages \o Correction(output)
      BY <2>2 DEF IsCorrected
    <3>2. AnsweredIn(messages) /\ Correction(output) \in Seq(Said) /\ AnsweredIn(Correction(output))
      BY <1>1, <1>2, <1>5, AnsweredSoFar, CorrectionAnswers
    <3> DEFINE all == messages \o Correction(output)
    <3>3. all \in Seq(Said) /\ AnsweredIn(all)
      BY <1>1, <3>2, AnsweredTogether
    <3>4. messages' = all
      BY <3>1
    <3> HIDE DEF all
    <3>5. messages' \in Seq(Said) /\ AnsweredIn(messages)'
      BY <3>3, <3>4 DEF AnsweredIn
    <3>6. \A i \in DOMAIN messages' : messages'[i].call \in Nat
      <4>1. \A i \in DOMAIN messages' : messages'[i] \in Said
        BY <3>5
      <4> QED
        BY <4>1 DEF Said
    <3> QED
      BY <3>5, <3>6 DEF AnsweredIn, EachCallIsAnswered
  <2> QED
    BY <1>2, <2>1, <2>2 DEF IsRefused, Overflows, Answers
<1>12. CASE IsRefused(output)
  <2>1. CASE Refusals = RetryRefusals
    <3>1. at' = "ended" /\ ended'.how = "refused"
      BY <1>12, <2>1 DEF IsRefused, Ends, NotEnded
    <3>2. Refused(output)
      BY <1>12 DEF IsRefused
    <3>3. /\ Refusals = n - (IF Used(outputs) = {} THEN 0 ELSE Max(Used(outputs)))
          /\ Refusals' = (n + 1) - (IF Used(outputs') = {} THEN 0 ELSE Max(Used(outputs')))
      <4>1. Refusals = n - (IF Used(outputs) = {} THEN 0 ELSE Max(Used(outputs)))
        BY DEF Refusals, Used
      <4>2. {i \in DOMAIN outputs : ~Refused(outputs[i])}' = Used(outputs')
        BY DEF Used, Refused
      <4>3. Refusals' = Len(outputs') - (IF {i \in DOMAIN outputs : ~Refused(outputs[i])}' = {} THEN 0
                                         ELSE Max({i \in DOMAIN outputs : ~Refused(outputs[i])}'))
        BY DEF Refusals
      <4>4. Refusals' = Len(outputs') - (IF Used(outputs') = {} THEN 0 ELSE Max(Used(outputs')))
        BY <4>2, <4>3
      <4>5. Len(outputs') = n + 1
        BY <1>3
      <4> HIDE DEF n
      <4> QED
        BY <4>1, <4>4, <4>5
    <3> DEFINE last == IF Used(outputs) = {} THEN 0 ELSE Max(Used(outputs))
    <3>4. Refusals = n - last /\ Refusals' = (n + 1) - last
      BY <1>5, <3>2, <3>3
    <3>5. last \in Int
      <4>1. Used(outputs) \in SUBSET (1 .. n)
        BY <1>3 DEF Used
      <4>2. Used(outputs) # {} => Max(Used(outputs)) \in Used(outputs)
        BY <1>3, <4>1, LargestIs
      <4> QED
        BY <1>3, <4>1, <4>2
    <3> HIDE DEF last, n
    <3>6. Refusals' = RetryRefusals + 1
      BY <1>3, <2>1, <3>4, <3>5
    <3> HIDE <3>3, <3>4
    <3>7. AttemptsAreTheModels'
      BY <3>1, <3>6 DEF AttemptsAreTheModels
    <3>8. EveryDimensionIsScored'
      BY <3>1 DEF EveryDimensionIsScored
    <3>9. FirstValidAnswers'
      BY <1>9, <3>1 DEF FirstValidAnswers, Valid, CallsOf, Refused
    <3> QED
      BY <1>3, <1>11, <3>1, <3>7, <3>8, <3>9 DEF AnswersInv
  <2>2. CASE Refusals # RetryRefusals
    <3>1. at' = at /\ ended' = ended /\ Refused(output)
      BY <1>12, <2>2 DEF IsRefused
    <3> QED
      BY <1>1, <1>3, <1>10, <1>11, <3>1 DEF AnswersInv
  <2> QED
    BY <2>1, <2>2
<1>13. CASE Overflows(output)
  <2>1. at' = "ended" /\ ended'.how = "length"
    BY <1>13 DEF Overflows, Ends, NotEnded
  <2>2. EveryDimensionIsScored' /\ AttemptsAreTheModels'
    BY <2>1 DEF EveryDimensionIsScored, AttemptsAreTheModels
  <2>3. FirstValidAnswers'
    BY <1>9, <2>1 DEF FirstValidAnswers, Valid, CallsOf, Refused
  <2> QED
    BY <1>3, <1>11, <2>1, <2>2, <2>3 DEF AnswersInv
<1>14. CASE Answers(output)
  <2>1. /\ at' = "ended" /\ ended'.how = "scored" /\ Valid(output) # {}
        /\ ended'.scores = (asked.dimensions \cup Reserved) \ Reserved
        /\ ended'.call = Min(Valid(output))
    BY <1>14 DEF Answers, Ends, NotEnded
  <2>2. ended'.scores = asked'.dimensions
    BY <1>1, <1>6, <2>1
  <2> DEFINE calls == CallsOf(output)
  <2>3. DOMAIN calls = 1 .. Len(calls) /\ Len(calls) \in Nat
    <3>1. output.calls \in Seq(STRING) /\ <<>> \in Seq(STRING)
      BY ScoringAssumption
    <3>2. calls \in Seq(STRING)
      BY <3>1 DEF CallsOf
    <3> HIDE DEF calls
    <3> QED
      BY <3>2
  <2>4. Valid(output) = {i \in DOMAIN calls : calls[i] = "valid"}
    BY DEF Valid
  <2> HIDE DEF calls
  <2>5. Valid(output) \in SUBSET Nat
    BY <2>3, <2>4
  <2>6. Min(Valid(output)) \in Valid(output) /\ \A i \in Valid(output) : Min(Valid(output)) <= i
    BY <2>1, <2>5, LeastIs
  <2> DEFINE first == Min(Valid(output))
  <2> HIDE DEF first
  <2>7. first \in DOMAIN calls /\ calls[first] = "valid" /\ \A i \in Valid(output) : first <= i
    BY <2>4, <2>6 DEF first
  <2>8. \A c \in 1 .. first - 1 : calls[c] # "valid"
    BY <2>3, <2>4, <2>7
  <2>9. ended'.call = first
    BY <2>1 DEF first
  <2>10. /\ CallsOf(Last(outputs'))[ended'.call] = "valid"
         /\ \A c \in 1 .. ended'.call - 1 : CallsOf(Last(outputs'))[c] # "valid"
    BY <1>8, <2>7, <2>8, <2>9 DEF calls
  <2>11. FirstValidAnswers'
    BY <1>9, <2>1, <2>10 DEF FirstValidAnswers, Valid, CallsOf, Refused
  <2>12. EveryDimensionIsScored' /\ AttemptsAreTheModels'
    BY <2>1, <2>2 DEF EveryDimensionIsScored, AttemptsAreTheModels
  <2> QED
    BY <1>3, <1>11, <2>1, <2>11, <2>12 DEF AnswersInv
<1>15. CASE IsCorrected(output)
  <2>1. ~Refused(output) /\ Valid(output) = {}
    <3>1. CASE ~output.choices
      BY <3>1 DEF Refused, Valid, CallsOf
    <3>2. CASE output.stop = "stop" /\ Valid(output) = {}
      BY <3>2 DEF Refused
    <3> QED
      BY <1>15, <3>1, <3>2 DEF IsCorrected
  <2>2. CASE Attempt = Attempts
    <3>1. at' = "ended" /\ ended'.how = "no_answer"
      BY <1>15, <2>2 DEF IsCorrected, Ends, NotEnded
    <3>2. Cardinality(Used(outputs')) = 3
      BY <1>5, <2>1, <2>2 DEF Attempts
    <3>3. AttemptsAreTheModels'
      BY <3>1, <3>2 DEF AttemptsAreTheModels, Used, Refused
    <3>4. EveryDimensionIsScored'
      BY <3>1 DEF EveryDimensionIsScored
    <3>5. FirstValidAnswers'
      BY <1>9, <3>1 DEF FirstValidAnswers, Valid, CallsOf, Refused
    <3> QED
      BY <1>3, <1>11, <3>1, <3>3, <3>4, <3>5 DEF AnswersInv
  <2>3. CASE Attempt # Attempts
    <3>1. at' = at /\ ended' = ended
      BY <1>15, <2>3 DEF IsCorrected
    <3> QED
      BY <1>1, <1>3, <1>10, <1>11, <2>1, <3>1 DEF AnswersInv
  <2> QED
    BY <2>2, <2>3
<1> QED
  BY <1>2, <1>12, <1>13, <1>14, <1>15

LEMMA AnswersInvHolds ==
  /\ Init => AnswersInv
  /\ SentInv /\ AnswersInv /\ [Next]_vars => AnswersInv'
<1>1. ASSUME Init PROVE AnswersInv
  <2>1. /\ at = "check" /\ outputs = <<>> /\ messages = <<>> /\ ended.how = "not_ended"
    BY <1>1 DEF Init, NotEnded
  <2>2. <<>> \in Seq(Outputs) /\ <<>> \in Seq(Said) /\ DOMAIN <<>> = {}
    OBVIOUS
  <2> QED
    BY <2>1, <2>2 DEF AnswersInv, NoneValid, EachCallIsAnswered, EveryDimensionIsScored,
                      AttemptsAreTheModels, FirstValidAnswers
<1>2. ASSUME SentInv, AnswersInv, [Next]_vars PROVE AnswersInv'
  <2>1. CASE Checks
    BY <1>2, <2>1, StaysAnswered DEF Checks, Ends, NotEnded
  <2>2. CASE FitsWhole
    BY <1>2, <2>2, StaysAnswered DEF FitsWhole
  <2>3. CASE CutsAll
    BY <1>2, <2>3, StaysAnswered DEF CutsAll, Ends, NotEnded
  <2>4. CASE Searches
    BY <1>2, <2>4, StaysAnswered DEF Searches
  <2>5. CASE Found
    BY <1>2, <2>5, StaysAnswered DEF Found
  <2>6. CASE UNCHANGED vars
    BY <1>2, <2>6, StaysAnswered DEF vars
  <2> QED
    BY <1>2, <2>1, <2>2, <2>3, <2>4, <2>5, <2>6, AnsweringGoesOn DEF Next
<1> QED
  BY <1>1, <1>2

LEMMA AnswersInvAlways == Spec => []AnswersInv
BY AnswersInvHolds, SentInvAlways, PTL DEF Spec

(* Whatever a monitor model answers, and however often it or its provider  *)
(* fails, each of its calls is answered before it is asked again           *)
(* (_generate).                                                            *)
THEOREM EachCallOfAnAnswerIsAnswered == Spec => []EachCallIsAnswered
<1>1. AnswersInv => EachCallIsAnswered
  BY DEF AnswersInv
<1> QED
  BY <1>1, AnswersInvAlways, PTL

(* No refusal of a provider uses up one of the model's three attempts, and *)
(* scoring gives up on refusals only when asked again so many times.       *)
THEOREM AttemptsAreNotUsedUp == Spec => []AttemptsAreTheModels
<1>1. AnswersInv => AttemptsAreTheModels
  BY DEF AnswersInv
<1> QED
  BY <1>1, AnswersInvAlways, PTL

(* The score is the first valid call of the first answer that has one, and *)
(* names each of the caller's dimensions and nothing else (_check).        *)
THEOREM TheFirstValidCallScores == Spec => []FirstValidAnswers /\ []EveryDimensionIsScored
<1>1. AnswersInv => FirstValidAnswers /\ EveryDimensionIsScored
  BY DEF AnswersInv
<1> QED
  BY <1>1, AnswersInvAlways, PTL

(* When all that can be cut is, only the newest INPUT message is left of   *)
(* the lists, before a generate.                                           *)
LEMMA OnlyTheNewestIsLeft ==
  ASSUME StepTyped
  PROVE  Numbered(HeadCut(Cuttable)) # <<>> <=> KeepsNewestInput
<1> DEFINE cut == HeadCut(Cuttable)
<1>1. \A list \in ListNames : /\ cut[list] = CuttableIn(list) /\ Shown(list).n \in Nat
                              /\ CuttableIn(list) \in 0 .. Shown(list).n
  <2> SUFFICES ASSUME NEW list \in ListNames
               PROVE  /\ cut[list] = CuttableIn(list) /\ Shown(list).n \in Nat
                      /\ CuttableIn(list) \in 0 .. Shown(list).n
    OBVIOUS
  <2>1. Shown(list).n \in Nat /\ CuttableIn(list) \in 0 .. Shown(list).n
    BY ListsAre DEF IsList
  <2> DEFINE b == CutBefore(list)
             c == CuttableIn(list)
             all == Cuttable
  <2>2. all \in Nat
    BY CutEnds
  <2>3. b \in Nat /\ c \in Nat /\ b + c <= all /\ HeadCut(all)[list] = Taken(all, b, c)
    BY <2>1, <2>2, CutIs
  <2> HIDE DEF b, c, all
  <2>4. Taken(all, b, c) = IF all <= b THEN 0 ELSE IF all - b <= c THEN all - b ELSE c
    BY <2>2, <2>3, TakenIs
  <2>5. Taken(all, b, c) = c
    BY <2>2, <2>3, <2>4
  <2> QED
    BY <2>1, <2>3, <2>5 DEF b, c, all
<1> DEFINE left(list) == Shown(list).n - cut[list]
<1>2. left("history") = 0 /\ left("agent_messages") = 0
  <2>1. "history" \in ListNames /\ "agent_messages" \in ListNames
    BY DEF ListNames
  <2>2. /\ CuttableIn("history") = Shown("history").n
        /\ CuttableIn("agent_messages") = Shown("agent_messages").n
    BY DEF CuttableIn
  <2> QED
    BY <1>1, <2>1, <2>2
<1>3. left("input") = IF KeepsNewestInput THEN 1 ELSE 0
  <2> DEFINE n == Shown("input").n
  <2>1. n \in Nat /\ cut["input"] = CuttableIn("input")
    BY <1>1 DEF ListNames
  <2>2. /\ step.stage = "before_generate" => CuttableIn("input") = Max({n - 1, 0})
        /\ step.stage # "before_generate" => CuttableIn("input") = n
    BY DEF CuttableIn
  <2>3. KeepsNewestInput <=> step.stage = "before_generate" /\ n > 0
    BY DEF KeepsNewestInput
  <2>4. left("input") = n - CuttableIn("input")
    BY <2>1
  <2> HIDE DEF n, left
  <2>5. n - 1 \in Int /\ 0 \in Int
    BY <2>1
  <2>6. Max({n - 1, 0}) \in {n - 1, 0} /\ Max({n - 1, 0}) >= n - 1 /\ Max({n - 1, 0}) >= 0
    BY <2>5, Larger
  <2> QED
    BY <2>1, <2>2, <2>3, <2>4, <2>6
<1>4. \A list \in ListNames : /\ Left(list, cut) = [i \in 1 .. left(list) |-> <<list, i + cut[list]>>]
  BY DEF Left
<1> HIDE DEF cut, left
<1>5. ASSUME NEW list \in ListNames, left(list) \in Nat
      PROVE  Left(list, cut) \in Seq(ListNames \X Int) /\ Len(Left(list, cut)) = left(list)
  <2> DEFINE m == left(list)
             c == cut[list]
             Places == ListNames \X Int
  <2>1. m \in Nat /\ c \in Nat
    BY <1>1, <1>5
  <2>2. Left(list, cut) = [i \in 1 .. m |-> <<list, i + c>>]
    BY <1>4
  <2> HIDE DEF m, c
  <2>3. \A i \in 1 .. m : <<list, i + c>> \in Places
    BY <2>1
  <2> HIDE DEF Places
  <2>4. [i \in 1 .. m |-> <<list, i + c>>] \in Seq(Places)
    BY <2>1, <2>3
  <2> DEFINE all == [i \in 1 .. m |-> <<list, i + c>>]
  <2>5. all \in Seq(Places) /\ DOMAIN all = 1 .. m
    BY <2>4
  <2> HIDE DEF all
  <2>6. Len(all) = m
    BY <2>1, <2>5
  <2>7. Left(list, cut) \in Seq(Places) /\ Len(Left(list, cut)) = m
    BY <2>2, <2>5, <2>6 DEF all
  <2> QED
    BY <2>7 DEF m, Places
<1> DEFINE Places == ListNames \X Int
           first == Left("history", cut)
           second == Left("agent_messages", cut)
           third == Left("input", cut)
<1>6. /\ first \in Seq(Places) /\ second \in Seq(Places) /\ third \in Seq(Places)
      /\ Len(first) = 0 /\ Len(second) = 0 /\ Len(third) = IF KeepsNewestInput THEN 1 ELSE 0
  <2>1. "history" \in ListNames /\ "agent_messages" \in ListNames /\ "input" \in ListNames
    BY DEF ListNames
  <2>2. \A list \in ListNames : left(list) \in Nat
    BY <1>2, <1>3 DEF ListNames
  <2> QED
    BY <1>2, <1>3, <1>5, <2>1, <2>2
<1>7. Numbered(cut) = first \o second \o third
  BY DEF Numbered, Left
<1> HIDE DEF Places, first, second, third
<1>8. first = <<>> /\ second = <<>>
  BY <1>6
<1>9. Numbered(cut) = third
  BY <1>6, <1>7, <1>8
<1> QED
  BY <1>6, <1>9 DEF cut

(* A step refused as too big names just the parts that are in its prompt   *)
(* when all that can be cut is (_step_parts, render_step).                 *)
THEOREM TheFixedPartsAreNamed == Spec => []FixedPartsAreNamed
<1>1. ASSUME StepTyped PROVE StepParts = FixedBlocks \cup {b \in {"INPUT"} : KeepsNewestInput}
  <2>1. /\ step.known \in BOOLEAN
        /\ step.stage \in {"before_tool_call", "after_tool_call", "before_generate", "after_generate"}
    BY <1>1, ScoringAssumption DEF StepTyped, Steps
  <2> DEFINE told == {b \in {"TOOLS"} : step.tools} \cup {b \in {"TOOL_CHOICE"} : step.choice}
             ofStage == CASE step.stage = "after_generate" -> {"REPLY"}
                          [] step.stage = "after_tool_call" -> {"CALL", "RESULT"}
                          [] step.stage = "before_tool_call" -> {"CALL"}
                          [] OTHER -> {}
             kept == {b \in {"INPUT"} : KeepsNewestInput}
             shown == {b \in {"REPLY"} : step.stage = "after_generate"}
                        \cup {b \in {"CALL"} : step.stage \in {"before_tool_call", "after_tool_call"}}
                        \cup {b \in {"RESULT"} : step.stage = "after_tool_call"}
  <2>2. StepParts = (IF step.known THEN told ELSE {}) \cup ofStage \cup kept
    BY DEF StepParts
  <2>3. FixedBlocks = (IF step.known THEN told ELSE {}) \cup shown
    <3>1. CASE step.known
      BY <3>1 DEF FixedBlocks
    <3>2. CASE ~step.known
      BY <3>2 DEF FixedBlocks
    <3> QED
      BY <3>1, <3>2
  <2>4. ofStage = shown
    <3>1. CASE step.stage = "after_generate"
      <4>1. ofStage = {"REPLY"}
        BY <3>1, Zenon
      <4>2. shown = {"REPLY"}
        BY <3>1
      <4> QED
        BY <4>1, <4>2
    <3>2. CASE step.stage = "after_tool_call"
      <4>1. ofStage = {"CALL", "RESULT"}
        BY <3>2, Zenon
      <4>2. shown = {"CALL", "RESULT"}
        BY <3>2
      <4> QED
        BY <4>1, <4>2
    <3>3. CASE step.stage = "before_tool_call"
      <4>1. ofStage = {"CALL"}
        BY <3>3, Zenon
      <4>2. shown = {"CALL"}
        BY <3>3
      <4> QED
        BY <4>1, <4>2
    <3>4. CASE step.stage = "before_generate"
      <4>1. ofStage = {}
        BY <3>4, Zenon
      <4>2. shown = {}
        BY <3>4
      <4> QED
        BY <4>1, <4>2
    <3> QED
      BY <2>1, <3>1, <3>2, <3>3, <3>4
  <2> HIDE DEF told, ofStage, kept, shown
  <2>5. StepParts = FixedBlocks \cup kept
    BY <2>2, <2>3, <2>4
  <2> QED
    BY <2>5 DEF kept
<1>2. SentInv /\ AnswersInv => FixedPartsAreNamed
  <2> SUFFICES ASSUME SentInv, AnswersInv, ended.how = "too_big"
               PROVE  ended.parts = FixedBlocks \cup {b \in {"INPUT"} : Numbered(HeadCut(Cuttable)) # <<>>}
    BY DEF FixedPartsAreNamed
  <2>1. StepTyped /\ ended.parts = StepParts
    BY DEF SentInv, AnswersInv
  <2>2. Numbered(HeadCut(Cuttable)) # <<>> <=> KeepsNewestInput
    BY <2>1, OnlyTheNewestIsLeft
  <2> QED
    BY <1>1, <2>1, <2>2
<1> QED
  BY <1>2, SentInvAlways, AnswersInvAlways, PTL

-----------------------------------------------------------------------------
(* What a scan reads of its logs (Contexts).                               *)

(* Giving up a place in a queue leaves the others' order, and who is first *)
(* unless that was the one.                                                *)
LEMMA WithoutIsTheRest ==
  ASSUME NEW S, NEW q \in Seq(S), NEW t, IsInjective(q)
  PROVE  /\ Without(q, t) \in Seq(S) /\ IsInjective(Without(q, t))
         /\ \A i \in DOMAIN Without(q, t) :
              Without(q, t)[i] # t /\ \E j \in DOMAIN q : q[j] = Without(q, t)[i]
         /\ q # <<>> /\ q[1] # t => Without(q, t) # <<>> /\ Without(q, t)[1] = q[1]
<1>1. CASE ~ \E i \in DOMAIN q : q[i] = t
  BY <1>1 DEF Without
<1>2. CASE \E i \in DOMAIN q : q[i] = t
  <2> DEFINE p == CHOOSE i \in DOMAIN q : q[i] = t
             r == Without(q, t)
  <2>1. p \in 1 .. Len(q) /\ q[p] = t
    BY <1>2
  <2>2. r = SubSeq(q, 1, p - 1) \o SubSeq(q, p + 1, Len(q))
    BY <1>2 DEF Without, RemoveAt
  <2> HIDE DEF p
  <2> DEFINE before == SubSeq(q, 1, p - 1)
             after == SubSeq(q, p + 1, Len(q))
  <2>3. /\ before \in Seq(S) /\ Len(before) = p - 1
        /\ \A i \in 1 .. p - 1 : before[i] = q[i]
    BY <2>1
  <2>9. /\ after \in Seq(S) /\ Len(after) = Len(q) - p
        /\ \A i \in 1 .. Len(q) - p : after[i] = q[p + i]
    BY <2>1
  <2> HIDE DEF before, after
  <2>10. r = before \o after
    BY <2>2 DEF before, after
  <2>4. r \in Seq(S) /\ Len(r) = Len(q) - 1
    BY <2>1, <2>3, <2>9, <2>10
  <2>5. \A i \in 1 .. Len(r) : r[i] = IF i < p THEN q[i] ELSE q[i + 1]
    <3> TAKE i \in 1 .. Len(r)
    <3>1. CASE i < p
      BY <2>1, <2>3, <2>4, <2>9, <2>10, <3>1
    <3>2. CASE i >= p
      <4>1. r[i] = after[i - (p - 1)] /\ i - (p - 1) \in 1 .. Len(q) - p
        BY <2>1, <2>3, <2>4, <2>9, <2>10, <3>2
      <4> QED
        BY <4>1, <2>1, <2>9, <3>2
    <3> QED
      BY <2>1, <3>1, <3>2
  <2> HIDE DEF r
  <2>6. IsInjective(r)
    <3> SUFFICES ASSUME NEW i \in 1 .. Len(r), NEW j \in 1 .. Len(r), r[i] = r[j] PROVE i = j
      BY <2>4 DEF IsInjective
    <3> DEFINE At(k) == IF k < p THEN k ELSE k + 1
    <3>1. At(i) \in DOMAIN q /\ At(j) \in DOMAIN q /\ q[At(i)] = q[At(j)]
      BY <2>1, <2>4, <2>5
    <3>2. At(i) = At(j)
      BY <3>1 DEF IsInjective
    <3> QED
      BY <2>1, <2>4, <3>2
  <2>7. \A i \in DOMAIN r : r[i] # t /\ \E j \in DOMAIN q : q[j] = r[i]
    <3> TAKE i \in DOMAIN r
    <3>1. i \in 1 .. Len(r) /\ i + 1 \in 1 .. Len(q) /\ i \in 1 .. Len(q)
      BY <2>1, <2>4
    <3> QED
      BY <2>1, <2>5, <3>1 DEF IsInjective
  <2>8. q # <<>> /\ q[1] # t => r # <<>> /\ r[1] = q[1]
    BY <2>1, <2>4, <2>5
  <2> QED
    BY <2>4, <2>6, <2>7, <2>8 DEF r
<1> QED
  BY <1>1, <1>2
-----------------------------------------------------------------------------
Asking == {"info", "header", "identity"}
Places == Asking \cup {"sample"} \cup Ended

(* Those queued at a lock are of its log, each once, and wait or read; and *)
(* who reads under it is first.                                            *)
LockOK ==
  /\ upNext \in [Transcripts -> Places]
  /\ doing \in [Transcripts -> {"runs", "waits", "reads"}]
  /\ lock \in [Logs -> Seq(Transcripts)]
  /\ \A l \in Logs : IsInjective(lock[l])
  /\ \A l \in Logs : \A i \in DOMAIN lock[l] :
       LET u == lock[l][i] IN LogOf[u] = l /\ doing[u] # "runs" /\ upNext[u] \in Asking
  /\ \A t \in Transcripts : doing[t] = "reads" /\ upNext[t] # "sample" => Holds(t)

(* What is kept of a log was read once, and is not being read again.       *)
ReadsOK ==
  /\ headers \subseteq Logs /\ samples \in [Logs -> SUBSET UNION {Kept(l) : l \in Logs}]
  /\ succeeded \in [Logs -> [header : Nat, summaries : Nat]]
  /\ \A l \in Logs : /\ succeeded[l].header <= IF l \in headers THEN 1 ELSE 0
                     /\ succeeded[l].summaries <= IF samples[l] # {} THEN 1 ELSE 0
  /\ \A t \in Transcripts : doing[t] = "reads" /\ upNext[t] # "sample" => ~Cached(t)

LEMMA Shape == \A t \in Transcripts : LogOf[t] \in Logs /\ Asking = DOMAIN NextOf
  BY ContextsAssumption DEF Asking, NextOf

(* A transcript that leaves the queue, if it was in it, or never was in it.*)
LEMMA Leaves ==
  ASSUME LockOK, NEW t \in Transcripts, NEW v \in Places,
         upNext' = [upNext EXCEPT ![t] = v], doing' = [doing EXCEPT ![t] = "runs"],
         lock' = Released(t)
  PROVE  LockOK'
<1> DEFINE l == LogOf[t]
<1>1. l \in Logs /\ lock[l] \in Seq(Transcripts) /\ IsInjective(lock[l])
  BY Shape DEF LockOK
<1>2. lock' = [lock EXCEPT ![l] = Without(lock[l], t)]
  BY DEF Released
<1>3. /\ Without(lock[l], t) \in Seq(Transcripts) /\ IsInjective(Without(lock[l], t))
      /\ \A i \in DOMAIN Without(lock[l], t) : Without(lock[l], t)[i] # t
            /\ \E j \in DOMAIN lock[l] : lock[l][j] = Without(lock[l], t)[i]
      /\ lock[l] # <<>> /\ lock[l][1] # t => Without(lock[l], t) # <<>>
                                             /\ Without(lock[l], t)[1] = lock[l][1]
  BY <1>1, WithoutIsTheRest
<1>4. lock' \in [Logs -> Seq(Transcripts)] /\ \A m \in Logs : IsInjective(lock'[m])
  BY <1>1, <1>2, <1>3 DEF LockOK
<1>5. ASSUME NEW m \in Logs, NEW i \in DOMAIN lock'[m]
      PROVE  LogOf[lock'[m][i]] = m /\ doing'[lock'[m][i]] # "runs" /\ upNext'[lock'[m][i]] \in Asking
  <2>1. lock'[m][i] # t /\ \E j \in DOMAIN lock[m] : lock[m][j] = lock'[m][i]
    <3>1. CASE m = l
      BY <1>1, <1>2, <1>3, <1>5, <3>1 DEF LockOK
    <3>2. CASE m # l
      BY <1>1, <1>2, <1>5, <3>2 DEF LockOK
    <3> QED
      BY <3>1, <3>2
  <2>2. lock'[m][i] \in Transcripts
    BY <1>4, <1>5
  <2> QED
    BY <2>1, <2>2 DEF LockOK
<1>6. ASSUME NEW u \in Transcripts, doing'[u] = "reads", upNext'[u] # "sample"
      PROVE  lock'[LogOf[u]] # <<>> /\ lock'[LogOf[u]][1] = u
  <2>1. u # t /\ doing[u] = "reads" /\ upNext[u] # "sample"
    BY <1>6 DEF LockOK
  <2>2. lock[LogOf[u]] # <<>> /\ lock[LogOf[u]][1] = u
    BY <2>1 DEF LockOK, Holds
  <2> QED
    BY <1>1, <1>2, <1>3, <2>1, <2>2, Shape DEF LockOK
<1> QED
  BY <1>4, <1>5, <1>6 DEF LockOK, Holds
(* Where a scan goes on to with what it asked for.                         *)
LEMMA Advances ==
  ASSUME NEW t \in Transcripts, upNext \in [Transcripts -> Places], upNext[t] \in Asking, NEW kept
  PROVE  \E v \in Places : Advanced(t, kept) = [upNext EXCEPT ![t] = v]
<1>1. CASE upNext[t] = "identity"
  <2> DEFINE v == IF FoundIn(t, kept) = {} THEN "error" ELSE "sample"
  <2>1. v \in Places /\ Advanced(t, kept) = [upNext EXCEPT ![t] = v]
    BY <1>1 DEF Advanced, Places, Ended
  <2> QED
    BY <2>1
<1>2. CASE upNext[t] # "identity"
  <2>1. NextOf[upNext[t]] \in {"header", "identity"}
    BY <1>2 DEF NextOf, Asking
  <2>2. NextOf[upNext[t]] \in Places /\ Advanced(t, kept) = [upNext EXCEPT ![t] = NextOf[upNext[t]]]
    BY <1>2, <2>1 DEF Advanced, Places, Asking
  <2> QED
    BY <2>2
<1> QED
  BY <1>1, <1>2

(* One that isn't queued goes on without touching the lock.                *)
LEMMA Apart ==
  ASSUME LockOK, NEW t \in Transcripts, NEW v \in Places, NEW w \in {"runs", "reads"},
         doing[t] = "runs" \/ upNext[t] = "sample", w = "reads" => v = "sample",
         upNext' = [upNext EXCEPT ![t] = v], doing' = [doing EXCEPT ![t] = w], UNCHANGED lock
  PROVE  LockOK'
<1>1. \A l \in Logs : \A i \in DOMAIN lock[l] : lock[l][i] # t /\ lock[l][i] \in Transcripts
  BY DEF LockOK, Asking
<1>2. \A u \in Transcripts : u # t => upNext'[u] = upNext[u] /\ doing'[u] = doing[u]
  BY DEF LockOK
<1>3. upNext'[t] = v /\ doing'[t] = w
  BY DEF LockOK
<1> QED
  BY <1>1, <1>2, <1>3 DEF LockOK, Holds

LEMMA LockInit == ContextsInit => LockOK
<1> SUFFICES ASSUME ContextsInit PROVE LockOK
  OBVIOUS
<1>1. /\ upNext = [t \in Transcripts |-> "info"] /\ doing = [t \in Transcripts |-> "runs"]
      /\ lock = [l \in Logs |-> <<>>]
  BY DEF ContextsInit
<1> QED
  BY <1>1 DEF LockOK, Places, Asking, IsInjective

LEMMA LockStep == LockOK /\ [ContextsNext]_contextVars => LockOK'
<1> SUFFICES ASSUME LockOK, [ContextsNext]_contextVars PROVE LockOK'
  OBVIOUS
<1>1. ASSUME NEW t \in Transcripts, AsksFor(t) PROVE LockOK'
  <2>1. upNext[t] \in Asking /\ doing[t] = "runs"
    BY <1>1, Shape DEF AsksFor
  <2>2. CASE Cached(t)
    <3>1. PICK v \in Places : upNext' = [upNext EXCEPT ![t] = v]
      BY <1>1, <2>1, <2>2, Advances DEF AsksFor, LockOK
    <3>2. doing' = [doing EXCEPT ![t] = "runs"] /\ UNCHANGED lock
      BY <1>1, <2>1, <2>2 DEF AsksFor, LockOK
    <3> QED
      BY <2>1, <3>1, <3>2, Apart
  <2>3. CASE ~Cached(t)
    <3> DEFINE l == LogOf[t]
    <3>1. /\ lock' = [lock EXCEPT ![l] = Append(lock[l], t)]
          /\ doing' = [doing EXCEPT ![t] = "waits"] /\ UNCHANGED upNext
      BY <1>1, <2>3 DEF AsksFor
    <3>2. l \in Logs /\ lock[l] \in Seq(Transcripts) /\ IsInjective(lock[l])
      BY Shape DEF LockOK
    <3>3. \A m \in Logs : \A i \in DOMAIN lock[m] : lock[m][i] # t /\ lock[m][i] \in Transcripts
      BY <2>1 DEF LockOK
    <3>4. IsInjective(Append(lock[l], t)) /\ Append(lock[l], t) \in Seq(Transcripts)
      BY <3>2, <3>3 DEF IsInjective
    <3>5. lock' \in [Logs -> Seq(Transcripts)] /\ \A m \in Logs : IsInjective(lock'[m])
      BY <3>1, <3>2, <3>4 DEF LockOK
    <3>6. ASSUME NEW m \in Logs, NEW i \in DOMAIN lock'[m]
          PROVE  LogOf[lock'[m][i]] = m /\ doing'[lock'[m][i]] # "runs" /\ upNext'[lock'[m][i]] \in Asking
      <4>1. CASE m # l \/ i # Len(lock[l]) + 1
        <5>1. i \in DOMAIN lock[m] /\ lock'[m][i] = lock[m][i]
          BY <3>1, <3>2, <3>6, <4>1 DEF LockOK
        <5> QED
          BY <3>1, <3>3, <5>1 DEF LockOK
      <4>2. CASE m = l /\ i = Len(lock[l]) + 1
        <5>1. lock'[m][i] = t
          BY <3>1, <3>2, <4>2 DEF LockOK
        <5> QED
          BY <2>1, <3>1, <4>2, <5>1 DEF LockOK
      <4> QED
        BY <4>1, <4>2
    <3>7. ASSUME NEW u \in Transcripts, doing'[u] = "reads", upNext'[u] # "sample"
          PROVE  lock'[LogOf[u]] # <<>> /\ lock'[LogOf[u]][1] = u
      <4>1. u # t /\ doing[u] = "reads" /\ upNext[u] # "sample"
        BY <3>1, <3>7 DEF LockOK
      <4>2. lock[LogOf[u]] # <<>> /\ lock[LogOf[u]][1] = u /\ LogOf[u] \in Logs
        BY <4>1, Shape DEF LockOK, Holds
      <4>3. CASE LogOf[u] # l
        BY <3>1, <4>2, <4>3 DEF LockOK
      <4>4. CASE LogOf[u] = l
        <5>1. lock'[l] = Append(lock[l], t) /\ Len(lock[l]) > 0
          BY <3>1, <3>2, <4>2, <4>4 DEF LockOK
        <5>2. Append(lock[l], t)[1] = lock[l][1] /\ Append(lock[l], t) # <<>>
          BY <3>2, <5>1
        <5> QED
          BY <4>2, <4>4, <5>1, <5>2
      <4> QED
        BY <4>3, <4>4
    <3> QED
      BY <3>1, <3>5, <3>6, <3>7 DEF LockOK, Holds
  <2> QED
    BY <2>2, <2>3
<1>2. ASSUME NEW t \in Transcripts, Acquires(t) PROVE LockOK'
  <2>1. doing[t] = "waits" /\ Holds(t)
    BY <1>2 DEF Acquires
  <2>2. upNext[t] \in Asking
    BY <2>1, Shape DEF Holds, LockOK
  <2>3. CASE Cached(t)
    <3>1. PICK v \in Places : upNext' = [upNext EXCEPT ![t] = v]
      BY <1>2, <2>2, <2>3, Advances DEF Acquires, LockOK
    <3> QED
      BY <1>2, <2>3, <3>1, Leaves DEF Acquires
  <2>4. CASE ~Cached(t)
    <3>1. doing' = [doing EXCEPT ![t] = "reads"] /\ UNCHANGED <<upNext, lock>>
      BY <1>2, <2>4 DEF Acquires
    <3>2. doing' \in [Transcripts -> {"runs", "waits", "reads"}]
          /\ \A u \in Transcripts : doing'[u] = IF u = t THEN "reads" ELSE doing[u]
      BY <3>1 DEF LockOK
    <3>3. \A l \in Logs : \A i \in DOMAIN lock[l] :
            LogOf[lock[l][i]] = l /\ doing'[lock[l][i]] # "runs" /\ upNext[lock[l][i]] \in Asking
      <4>1. \A l \in Logs : \A i \in DOMAIN lock[l] : lock[l][i] \in Transcripts
        BY DEF LockOK
      <4> QED
        BY <3>2, <4>1 DEF LockOK
    <3> QED
      BY <2>1, <3>1, <3>2, <3>3 DEF LockOK, Holds
  <2> QED
    BY <2>3, <2>4
<1>3. ASSUME NEW t \in Transcripts, Reads(t) PROVE LockOK'
  <2>1. doing[t] = "reads" /\ upNext[t] # "sample" /\ Holds(t)
    BY <1>3 DEF Reads, LockOK
  <2>2. upNext[t] \in Asking
    BY <2>1, Shape DEF Holds, LockOK
  <2>3. PICK v \in Places : upNext' = [upNext EXCEPT ![t] = v]
    BY <1>3, <2>2, Advances DEF Reads, LockOK
  <2> QED
    BY <1>3, <2>3, Leaves DEF Reads
<1>4. ASSUME NEW t \in Transcripts, ReadsSample(t) PROVE LockOK'
  <2>1. CASE doing[t] = "runs"
    <3>1. /\ upNext[t] = "sample" /\ upNext' = [upNext EXCEPT ![t] = "sample"]
          /\ doing' = [doing EXCEPT ![t] = "reads"] /\ UNCHANGED lock
      BY <1>4, <2>1 DEF ReadsSample, LockOK
    <3> QED
      BY <3>1, Apart DEF Places
  <2>2. CASE doing[t] # "runs"
    <3>1. /\ upNext[t] = "sample" /\ upNext' = [upNext EXCEPT ![t] = "done"]
          /\ doing' = [doing EXCEPT ![t] = "runs"] /\ UNCHANGED lock
      BY <1>4, <2>2 DEF ReadsSample
    <3> QED
      BY <3>1, Apart DEF Places, Ended
  <2> QED
    BY <2>1, <2>2
<1>5. ASSUME NEW t \in Transcripts, Fails(t) PROVE LockOK'
  BY <1>5, Leaves DEF Fails, Places, Ended
<1>6. ASSUME NEW t \in Transcripts, Cancelled(t) PROVE LockOK'
  BY <1>6, Leaves DEF Cancelled, Places, Ended
<1>7. CASE UNCHANGED contextVars
  BY <1>7 DEF contextVars, LockOK, Holds
<1> QED
  BY <1>1, <1>2, <1>3, <1>4, <1>5, <1>6, <1>7 DEF ContextsNext, Step

(* One read of a log at a time, the samples' own aside (_reading).         *)
THEOREM OneReadHolds == ContextsSpec => []OneReadAtATime
<1>1. LockOK => OneReadAtATime
  BY DEF LockOK, Holds, OneReadAtATime
<1> QED
  BY LockInit, LockStep, <1>1, PTL DEF ContextsSpec
-----------------------------------------------------------------------------
LEMMA ReadsInit == ContextsInit => ReadsOK
<1> SUFFICES ASSUME ContextsInit PROVE ReadsOK
  OBVIOUS
<1>1. /\ doing = [t \in Transcripts |-> "runs"] /\ headers = {} /\ samples = [l \in Logs |-> {}]
      /\ succeeded = [l \in Logs |-> [header |-> 0, summaries |-> 0]]
  BY DEF ContextsInit
<1> QED
  BY <1>1 DEF ReadsOK

(* A step that reads nothing under a lock.                                 *)
LEMMA NothingRead ==
  ASSUME ReadsOK, NEW t \in Transcripts, UNCHANGED <<headers, samples, succeeded>>,
         \A u \in Transcripts : u # t => upNext'[u] = upNext[u] /\ doing'[u] = doing[u],
         doing'[t] = "reads" /\ upNext'[t] # "sample" => ~Cached(t)'
  PROVE  ReadsOK'
<1>1. \A u \in Transcripts : u # t => (Cached(u)' <=> Cached(u))
  BY DEF Cached
<1> QED
  BY <1>1 DEF ReadsOK

LEMMA ReadsStep == LockOK /\ ReadsOK /\ [ContextsNext]_contextVars => ReadsOK'
<1> SUFFICES ASSUME LockOK, ReadsOK, [ContextsNext]_contextVars PROVE ReadsOK'
  OBVIOUS
<1>typed. upNext \in [Transcripts -> Places] /\ doing \in [Transcripts -> {"runs", "waits", "reads"}]
  BY DEF LockOK
<1>1. ASSUME NEW t \in Transcripts, AsksFor(t) PROVE ReadsOK'
  <2>1. CASE Cached(t)
    BY <1>1, <1>typed, <2>1, NothingRead DEF AsksFor, Advanced
  <2>2. CASE ~Cached(t)
    BY <1>1, <1>typed, <2>2, NothingRead DEF AsksFor
  <2> QED
    BY <2>1, <2>2
<1>2. ASSUME NEW t \in Transcripts, Acquires(t) PROVE ReadsOK'
  <2>1. CASE Cached(t)
    BY <1>2, <1>typed, <2>1, NothingRead DEF Acquires, Advanced
  <2>2. CASE ~Cached(t)
    <3>1. ~Cached(t)'
      BY <1>2, <2>2 DEF Acquires, Cached
    <3> QED
      BY <1>2, <1>typed, <2>2, <3>1, NothingRead DEF Acquires
  <2> QED
    BY <2>1, <2>2
<1>3. ASSUME NEW t \in Transcripts, Reads(t) PROVE ReadsOK'
  <2> DEFINE l == LogOf[t]
  <2>1. /\ doing[t] = "reads" /\ upNext[t] # "sample" /\ l \in Logs /\ ~Cached(t)
        /\ Kept(l) # {} /\ Kept(l) \in SUBSET UNION {Kept(m) : m \in Logs}
    <3>1. SampleOf[t] \in Samples[l] /\ l \in Logs
      BY ContextsAssumption
    <3>2. <<KeyOf(SampleOf[t]), SampleOf[t]>> \in Kept(l)
      BY <3>1 DEF Kept
    <3>3. Kept(l) \in SUBSET UNION {Kept(m) : m \in Logs}
      BY <3>1
    <3>4. doing[t] = "reads" /\ upNext[t] # "sample" /\ ~Cached(t)
      BY <1>3 DEF Reads, ReadsOK
    <3> QED
      BY <3>1, <3>2, <3>3, <3>4
  <2>2. \A u \in Transcripts : u # t /\ doing[u] = "reads" /\ upNext[u] # "sample" => LogOf[u] # l
    BY <2>1 DEF LockOK, Holds
  <2>3. doing'[t] = "runs"
    BY <1>3, <1>typed DEF Reads
  <2>4. \A u \in Transcripts : u # t => upNext'[u] = upNext[u] /\ doing'[u] = doing[u]
    BY <1>3, <1>typed DEF Reads, Advanced
  <2>5. CASE upNext[t] = "identity"
    <3>1. /\ samples' = [samples EXCEPT ![l] = Kept(l)] /\ UNCHANGED headers
          /\ succeeded' = [succeeded EXCEPT ![l].summaries = @ + 1]
      BY <1>3, <2>5 DEF Reads
    <3>2. succeeded[l].summaries = 0
      BY <2>1, <2>5 DEF ReadsOK, Cached
    <3>3. \A u \in Transcripts : doing'[u] = "reads" /\ upNext'[u] # "sample" => ~Cached(u)'
      BY <2>2, <2>3, <2>4, <3>1 DEF ReadsOK, Cached
    <3>4. /\ succeeded' \in [Logs -> [header : Nat, summaries : Nat]]
          /\ \A m \in Logs : /\ succeeded'[m].header = succeeded[m].header
                             /\ m # l => succeeded'[m].summaries = succeeded[m].summaries
          /\ succeeded'[l].summaries = 1
      BY <2>1, <3>1, <3>2 DEF ReadsOK
    <3>5. /\ samples' \in [Logs -> SUBSET UNION {Kept(m) : m \in Logs}]
          /\ samples'[l] # {} /\ \A m \in Logs : m # l => samples'[m] = samples[m]
      BY <2>1, <3>1 DEF ReadsOK
    <3> QED
      BY <3>1, <3>3, <3>4, <3>5 DEF ReadsOK
  <2>6. CASE upNext[t] # "identity"
    <3>1. /\ headers' = headers \cup {l} /\ UNCHANGED samples
          /\ succeeded' = [succeeded EXCEPT ![l].header = @ + 1]
      BY <1>3, <2>6 DEF Reads
    <3>2. succeeded[l].header = 0
      BY <2>1, <2>6 DEF ReadsOK, Cached
    <3>3. \A u \in Transcripts : doing'[u] = "reads" /\ upNext'[u] # "sample" => ~Cached(u)'
      BY <2>2, <2>3, <2>4, <3>1 DEF ReadsOK, Cached
    <3>4. /\ succeeded' \in [Logs -> [header : Nat, summaries : Nat]]
          /\ \A m \in Logs : /\ succeeded'[m].summaries = succeeded[m].summaries
                             /\ m # l => succeeded'[m].header = succeeded[m].header
          /\ succeeded'[l].header = 1
      BY <2>1, <3>1, <3>2 DEF ReadsOK
    <3> QED
      BY <2>1, <3>1, <3>3, <3>4 DEF ReadsOK
  <2> QED
    BY <2>5, <2>6
<1>4. ASSUME NEW t \in Transcripts, ReadsSample(t) PROVE ReadsOK'
  BY <1>4, <1>typed, NothingRead DEF ReadsSample
<1>5. ASSUME NEW t \in Transcripts, Fails(t) PROVE ReadsOK'
  BY <1>5, <1>typed, NothingRead DEF Fails
<1>6. ASSUME NEW t \in Transcripts, Cancelled(t) PROVE ReadsOK'
  BY <1>6, <1>typed, NothingRead DEF Cancelled
<1>7. CASE UNCHANGED contextVars
  BY <1>7 DEF contextVars, ReadsOK, Cached
<1> QED
  BY <1>1, <1>2, <1>3, <1>4, <1>5, <1>6, <1>7 DEF ContextsNext, Step

(* Nothing is read twice of a log once it was read, however many           *)
(* transcripts miss together, fail or are cancelled (_header, _identity).  *)
THEOREM ReadOnceHolds == ContextsSpec => []ReadOnce
<1>1. ReadsOK => ReadOnce
  BY DEF ReadsOK, ReadOnce
<1> QED
  BY LockInit, LockStep, ReadsInit, ReadsStep, <1>1, PTL DEF ContextsSpec

-----------------------------------------------------------------------------
(* What an incremental monitor is shown (Windows).                         *)

(* As many of some numbers as there are have a last one that they are up to*)
LEMMA NthIs ==
  ASSUME NEW last \in Nat, NEW S \in SUBSET (1 .. last), NEW n \in 1 .. Cardinality(S)
  PROVE  Nth(S, n) \in S
<1> DEFINE Upto(i) == {j \in S : j <= i}
           enough == {i \in 0 .. last : Cardinality(Upto(i)) >= n}
<1>0. \A j \in S : j \in Int /\ 1 <= j /\ j <= last
  OBVIOUS
<1>1. \A i \in 0 .. last : IsFiniteSet(Upto(i)) /\ Cardinality(Upto(i)) \in Nat
  <2> SUFFICES ASSUME NEW i \in 0 .. last PROVE IsFiniteSet(Upto(i)) /\ Cardinality(Upto(i)) \in Nat
    OBVIOUS
  <2>1. IsFiniteSet(1 .. last)
    BY FS_Interval
  <2>2. Upto(i) \subseteq 1 .. last
    OBVIOUS
  <2> HIDE DEF Upto
  <2>3. IsFiniteSet(Upto(i))
    BY <2>1, <2>2, FS_Subset
  <2> QED
    BY <2>3, FS_CardinalityType
<1>2. n \in Nat /\ n >= 1 /\ Upto(last) = S
  <2>1. Upto(last) = S
    BY <1>0
  <2>2. Cardinality(S) \in Nat
    BY <1>1, <2>1
  <2> QED
    BY <2>1, <2>2
<1>3. PICK k \in enough : \A i \in enough : k <= i
  <2>1. last \in enough
    BY <1>1, <1>2
  <2>2. enough \in SUBSET Nat
    OBVIOUS
  <2> HIDE DEF enough
  <2> QED
    BY <2>1, <2>2, LeastElement
<1>4. k \in 0 .. last /\ Cardinality(Upto(k)) >= n
  OBVIOUS
<1>5. k # 0
  <2>0. \A j \in S : ~(j <= 0)
    BY <1>0
  <2>1. Upto(0) = {}
    BY <2>0, Zenon
  <2> HIDE DEF Upto
  <2>2. Cardinality(Upto(0)) = 0
    BY <2>1, FS_EmptySet
  <2> QED
    BY <1>2, <1>4, <2>2
<1>6. k - 1 \in 0 .. last /\ ~(Cardinality(Upto(k - 1)) >= n)
  <2>1. k - 1 \in 0 .. last /\ ~(k <= k - 1)
    BY <1>4, <1>5
  <2>2. k - 1 \notin enough
    BY <1>3, <2>1
  <2> QED
    BY <2>1, <2>2
<1>7. k \in S
  <2>1. CASE k \notin S
    <3>0. \A j \in S : j <= k <=> j <= k - 1
      BY <1>0, <1>4, <2>1
    <3>1. Upto(k) = Upto(k - 1)
      BY <3>0, Zenon
    <3> HIDE DEF Upto
    <3> QED
      BY <1>4, <1>6, <3>1
  <2> QED
    BY <2>1
<1>8. Cardinality(Upto(k)) = n
  <2>0. (\A j \in S : j <= k <=> j <= k - 1 \/ j = k) /\ ~(k <= k - 1)
    BY <1>0, <1>4, <1>7
  <2>1. Upto(k) = Upto(k - 1) \cup {k} /\ k \notin Upto(k - 1)
    BY <1>7, <2>0, Zenon
  <2> HIDE DEF Upto
  <2>2. Cardinality(Upto(k)) = Cardinality(Upto(k - 1)) + 1
    BY <1>1, <1>6, <2>1, FS_AddElement
  <2> QED
    BY <1>1, <1>2, <1>4, <1>6, <2>2
<1> QED
  BY <1>7, <1>8 DEF Nth

Message == [number : Nat \ {0}, id : Nat, role : {"assistant", "other"}]
Mark == [id : Nat, copies : Nat, length : Nat, number : Nat]
IsMarked(mark) == mark \in Mark /\ (mark # NoMark => mark.id # NoId /\ mark.copies # 0)

(* The copies of a message in a list: some positions, of which some are the*)
(* nth, if there are so many.                                              *)
LEMMA PositionsAre ==
  ASSUME NEW held \in Seq(Message), NEW id
  PROVE  /\ Positions(held, id) \in SUBSET (1 .. Len(held)) /\ Len(held) \in Nat
         /\ Cardinality(Positions(held, id)) \in Nat
         /\ Positions(held, id) # {} => Cardinality(Positions(held, id)) # 0
         /\ Positions(held, id) = {} => Cardinality(Positions(held, id)) = 0
         /\ \A n \in 1 .. Cardinality(Positions(held, id)) :
              Nth(Positions(held, id), n) \in Positions(held, id)
<1>1. Positions(held, id) \in SUBSET (1 .. Len(held)) /\ Len(held) \in Nat
  BY DEF Positions
<1>2. IsFiniteSet(Positions(held, id))
  <2>1. IsFiniteSet(1 .. Len(held))
    BY <1>1, FS_Interval
  <2> QED
    BY <1>1, <2>1, FS_Subset
<1>3. /\ Cardinality(Positions(held, id)) \in Nat
      /\ Positions(held, id) # {} => Cardinality(Positions(held, id)) # 0
      /\ Positions(held, id) = {} => Cardinality(Positions(held, id)) = 0
  BY <1>2, FS_CardinalityType, FS_EmptySet
<1> QED
  BY <1>1, <1>3, NthIs

(* Where a list is resumed: after the mark's position where the history has*)
(* only grown, else after the copy shown last, or before its first message.*)
LEMMA ResumedIs ==
  ASSUME NEW held \in Seq(Message), NEW mark, IsMarked(mark)
  PROVE  /\ Resumed(held, mark).grew \in BOOLEAN
         /\ Resumed(held, mark).after \in 0 .. Len(held)
         /\ mark = NoMark => Resumed(held, mark).after = 0 /\ ~Resumed(held, mark).grew
         /\ Resumed(held, mark).grew =>
              /\ mark # NoMark /\ Source = "history" /\ mark.length \in DOMAIN held
              /\ held[mark.length].id = mark.id /\ Resumed(held, mark).after = mark.length
         /\ mark # NoMark /\ ~Resumed(held, mark).grew =>
              /\ ~(Source = "history" /\ mark.length \in DOMAIN held /\ held[mark.length].id = mark.id)
              /\ Resumed(held, mark).after \in {0} \cup Positions(held, mark.id)
<1>1. Len(held) \in Nat /\ DOMAIN held = 1 .. Len(held)
  OBVIOUS
<1>2. CASE mark = NoMark
  BY <1>1, <1>2 DEF Resumed
<1>3. CASE mark # NoMark /\ Source = "history" /\ mark.length \in DOMAIN held
             /\ held[mark.length].id = mark.id
  <2>1. Resumed(held, mark) = [after |-> mark.length, grew |-> TRUE]
    BY <1>3 DEF Resumed
  <2> QED
    BY <1>1, <1>3, <2>1
<1>4. CASE mark # NoMark /\ ~(Source = "history" /\ mark.length \in DOMAIN held
                              /\ held[mark.length].id = mark.id)
  <2> DEFINE found == Positions(held, mark.id)
             after == IF Cardinality(found) >= mark.copies THEN Nth(found, mark.copies) ELSE 0
  <2>1. Resumed(held, mark) = [after |-> after, grew |-> FALSE]
    BY <1>4 DEF Resumed
  <2>2. mark.copies \in Nat /\ mark.copies # 0
    BY <1>4 DEF IsMarked, Mark
  <2>3. /\ found \in SUBSET (1 .. Len(held)) /\ Cardinality(found) \in Nat
        /\ \A n \in 1 .. Cardinality(found) : Nth(found, n) \in found
    BY PositionsAre
  <2>4. after \in {0} \cup found
    <3> HIDE DEF found
    <3>1. CASE Cardinality(found) >= mark.copies
      <4>1. mark.copies \in 1 .. Cardinality(found)
        BY <2>2, <2>3, <3>1
      <4> QED
        BY <2>3, <3>1, <4>1
    <3>2. CASE ~(Cardinality(found) >= mark.copies)
      BY <3>2
    <3> QED
      BY <3>1, <3>2
  <2>5. after \in 0 .. Len(held)
    <3> HIDE DEF after, found
    <3> QED
      BY <1>1, <2>3, <2>4
  <2> HIDE DEF after
  <2> QED
    BY <1>4, <2>1, <2>4, <2>5
<1> QED
  BY <1>2, <1>3, <1>4

(* The mark of a list is of its last message with an id.                   *)
LastWithId(held, q) ==
  /\ q \in DOMAIN held /\ held[q].id # NoId
  /\ \A i \in DOMAIN held : held[i].id # NoId => i <= q

LEMMA MarkIs ==
  ASSUME NEW held \in Seq(Message), NEW mark, IsMarked(mark)
  PROVE  /\ IsMarked(MarkOf(held, mark))
         /\ MarkOf(held, mark) = NoMark => \A i \in DOMAIN held : held[i].id = NoId
         /\ MarkOf(held, mark) # NoMark =>
              \E q \in DOMAIN held : /\ LastWithId(held, q) /\ MarkOf(held, mark).id = held[q].id
                                     /\ MarkOf(held, mark).length = q
                                     /\ MarkOf(held, mark).number = held[q].number
<1> DEFINE ided == {i \in DOMAIN held : held[i].id # NoId}
           last == Max(ided)
           id == held[last].id
           resumed == Resumed(held, mark)
           new == {i \in Positions(held, id) : i > resumed.after}
           copies == IF resumed.grew
                     THEN (IF id = mark.id THEN mark.copies ELSE 0) + Cardinality(new)
                     ELSE Cardinality(Positions(held, id))
           marked == [id |-> id, length |-> last, number |-> held[last].number, copies |-> copies]
<1>1. MarkOf(held, mark) = IF ided = {} THEN NoMark ELSE marked
  BY DEF MarkOf
<1>2. Len(held) \in Nat /\ DOMAIN held = 1 .. Len(held) /\ \A i \in DOMAIN held : held[i] \in Message
  OBVIOUS
<1>3. CASE ided = {}
  <2>1. MarkOf(held, mark) = NoMark /\ \A i \in DOMAIN held : held[i].id = NoId
    BY <1>1, <1>3
  <2>2. NoMark \in Mark
    BY DEF NoMark, NoId, Mark
  <2> QED
    BY <2>1, <2>2 DEF IsMarked
<1>4. CASE ided # {}
  <2>1. ided \in SUBSET (1 .. Len(held))
    BY <1>2
  <2>2. last \in ided /\ \A i \in ided : last >= i
    <3> HIDE DEF ided
    <3> QED
      BY <1>2, <1>4, <2>1, LargestIs
  <2> HIDE DEF last
  <2>3. LastWithId(held, last)
    BY <1>2, <2>1, <2>2 DEF LastWithId
  <2>4. last \in 1 .. Len(held) /\ id # NoId /\ id \in Nat /\ held[last].number \in Nat
    BY <1>2, <2>2 DEF Message
  <2>5. last \in Positions(held, id)
    BY <2>2 DEF Positions
  <2>6. /\ Positions(held, id) \in SUBSET (1 .. Len(held))
        /\ Cardinality(Positions(held, id)) \in Nat /\ Cardinality(Positions(held, id)) # 0
    BY <2>5, PositionsAre
  <2>7. copies \in Nat /\ copies # 0
    <3>1. CASE ~resumed.grew
      BY <2>6, <3>1
    <3>2. CASE resumed.grew
      <4>1. /\ mark # NoMark /\ mark.length \in DOMAIN held /\ held[mark.length].id = mark.id
            /\ resumed.after = mark.length
        BY <3>2, ResumedIs
      <4>2. mark.id # NoId /\ mark.copies \in Nat /\ mark.copies # 0
        BY <4>1 DEF IsMarked, Mark
      <4>3. IsFiniteSet(new) /\ Cardinality(new) \in Nat
        <5>1. new \subseteq 1 .. Len(held)
          BY <2>6
        <5> HIDE DEF new
        <5>2. IsFiniteSet(1 .. Len(held))
          BY <1>2, FS_Interval
        <5>3. IsFiniteSet(new)
          BY <5>1, <5>2, FS_Subset
        <5> QED
          BY <5>3, FS_CardinalityType
      <4>4. id # mark.id => Cardinality(new) # 0
        <5> SUFFICES ASSUME id # mark.id PROVE Cardinality(new) # 0
          OBVIOUS
        <5>1. mark.length \in ided
          BY <4>1, <4>2
        <5>2. last >= mark.length /\ last # mark.length /\ mark.length \in 1 .. Len(held)
          BY <1>2, <2>2, <4>1, <5>1
        <5>3. last > resumed.after
          BY <2>4, <4>1, <5>2
        <5>4. last \in new
          BY <2>5, <5>3
        <5> HIDE DEF new
        <5> QED
          BY <4>3, <5>4, FS_EmptySet
      <4> HIDE DEF id, new
      <4>5. CASE id = mark.id
        BY <3>2, <4>2, <4>3, <4>5
      <4>6. CASE id # mark.id
        BY <3>2, <4>2, <4>3, <4>4, <4>6
      <4> QED
        BY <4>5, <4>6
    <3> QED
      BY <3>1, <3>2
  <2> HIDE DEF id, copies
  <2>8. MarkOf(held, mark) = marked
    BY <1>1, <1>4
  <2>9. marked \in Mark /\ marked.id # NoId /\ marked.copies # 0
    BY <2>4, <2>7 DEF Mark
  <2>10. marked # NoMark
    BY <2>9 DEF NoMark
  <2> QED
    BY <2>3, <2>4, <2>8, <2>9, <2>10 DEF IsMarked, id
<1> QED
  BY <1>3, <1>4

-----------------------------------------------------------------------------
(* The lists there are, as they are now and as steps were handed them; each*)
(* is an interval of the conversation's messages, and a message is at one  *)
(* place in all that hold it.                                              *)
ListsNow == {conversation} \cup {running[s].held : s \in Slots}
IsWindow(held) ==
  /\ held \in Seq(Message)
  /\ \A i \in DOMAIN held : /\ held[i].number = held[1].number + (i - 1)
                            /\ held[i].number <= messagesSent
                            /\ Source = "history" => held[i].number = i
                            /\ ~Edits => held[i].id \in {NoId, held[i].number}
Alike(k, l) == \A i \in DOMAIN k, j \in DOMAIN l : k[i].number = l[j].number => i = j /\ k[i] = l[j]

ListsOK ==
  /\ \A l \in ListsNow : IsWindow(l)
  /\ \A k, l \in ListsNow : Alike(k, l)
  /\ IF conversation = <<>> THEN messagesSent = 0
     ELSE conversation[Len(conversation)].number = messagesSent

RunningTyped ==
  /\ running \in [Slots -> [at : {"idle", "begun", "shown"}, function : Functions \cup {"none"},
                            held : Seq(Message), start : Nat, mark : Mark]]
  /\ \A s \in Slots : running[s].at # "idle" => running[s].function \in Functions
WindowsTypes ==
  /\ messagesSent \in Nat /\ RunningTyped
  /\ marks \in [Functions -> Mark] /\ reported \in [Functions -> SUBSET Nat]

(* A mark is of a message that there was, wherever a list holds it.        *)
GoodMark(mark) ==
  /\ IsMarked(mark)
  /\ mark # NoMark =>
       /\ mark.number \in 1 .. messagesSent
       /\ Source = "history" => mark.length = mark.number
       /\ ~Edits => mark.id = mark.number
       /\ \A l \in ListsNow : \A i \in DOMAIN l : l[i].number = mark.number => l[i].id = mark.id

(* A function was shown all that a list holds up to what its mark is of.   *)
Covered(f) ==
  marks[f] # NoMark =>
    /\ \A l \in ListsNow : \A p \in DOMAIN l :
         l[p].number = marks[f].number => \A i \in 1 .. p : l[i].number \in reported[f]
    /\ Source = "history" => \A n \in 1 .. marks[f].number : n \in reported[f]

(* What a step does not show was shown before, and it marks what it shows. *)
ShownOK(s) ==
  running[s].at = "shown" =>
    /\ running[s].start \in 0 .. Len(running[s].held)
    /\ \A i \in 1 .. running[s].start : running[s].held[i].number \in reported[running[s].function]
    /\ GoodMark(running[s].mark)
    /\ running[s].mark # NoMark =>
         \E q \in DOMAIN running[s].held : running[s].held[q].number = running[s].mark.number

WindowsInv ==
  /\ WindowsTypes /\ ListsOK
  /\ \A f \in Functions : GoodMark(marks[f]) /\ Covered(f)
  /\ \A s \in Slots : ShownOK(s)

(* Where one step runs at a time, over a list that only grows, a function's*)
(* mark is past all that it was shown and that has an id.                  *)
One == \A s, t \in Slots : s = t
ReadOnceInv ==
  Source = "history" /\ One =>
    /\ \A f \in Functions :
         /\ \A n \in reported[f] :
              /\ n \in DOMAIN conversation
              /\ conversation[n].id # NoId => marks[f] # NoMark /\ n <= marks[f].length
         /\ \A s \in Slots : running[s].at # "idle" =>
              /\ \A n \in reported[f] : n <= Len(running[s].held)
              /\ marks[f] # NoMark => marks[f].length <= Len(running[s].held)
         /\ marks[f] # NoMark => marks[f].length <= Len(conversation)
    /\ \A s \in Slots : running[s].at = "shown" =>
         LET mark == marks[running[s].function] IN
         /\ running[s].start = IF mark = NoMark THEN 0 ELSE mark.length
         /\ \A i \in DOMAIN running[s].held : running[s].held[i].id # NoId =>
              running[s].mark # NoMark /\ i <= running[s].mark.length
         /\ running[s].mark # NoMark => running[s].mark.length <= Len(running[s].held)

GoneInv ==
  One => \A s \in Slots :
    LET mark == marks[running[s].function] IN
    (running[s].at = "shown" /\ mark # NoMark
      /\ mark.number \notin {m.number : m \in Range(running[s].held)}) => running[s].start = 0

(* The messages there are were in a list before, after the same ones, or   *)
(* are sent now.                                                           *)
Continues ==
  /\ messagesSent \in Nat /\ messagesSent' \in Nat /\ messagesSent <= messagesSent'
  /\ \A l \in ListsNow' : \A i \in DOMAIN l :
       \/ l[i].number > messagesSent
       \/ \E k \in ListsNow : i \in DOMAIN k /\ \A j \in 1 .. i : j \in DOMAIN k /\ k[j] = l[j]

LEMMA WindowIs ==
  ASSUME ListsOK, NEW l \in ListsNow
  PROVE  /\ l \in Seq(Message) /\ Len(l) \in Nat /\ DOMAIN l = 1 .. Len(l)
         /\ \A i \in DOMAIN l : /\ l[i] \in Message /\ l[i].number \in Nat \ {0} /\ l[i].id \in Nat
                                /\ l[i].number = l[1].number + (i - 1) /\ l[i].number <= messagesSent
                                /\ Source = "history" => l[i].number = i
                                /\ ~Edits => l[i].id \in {NoId, l[i].number}
<1>1. IsWindow(l) /\ l \in Seq(Message)
  BY DEF ListsOK, IsWindow
<1>2. Len(l) \in Nat /\ DOMAIN l = 1 .. Len(l) /\ \A i \in DOMAIN l : l[i] \in Message
  BY <1>1
<1>3. \A i \in DOMAIN l : l[i].number \in Nat \ {0} /\ l[i].id \in Nat
  BY <1>2 DEF Message
<1> QED
  BY <1>1, <1>2, <1>3 DEF IsWindow

(* An empty list is a window of any conversation, and like any other.      *)
LEMMA EmptyWindow == <<>> \in Seq(Message) /\ DOMAIN <<>> = {} /\ Len(<<>>) = 0
OBVIOUS

LEMMA ListsStay ==
  ASSUME ListsOK, messagesSent \in Nat, conversation' = conversation, messagesSent' = messagesSent,
         ListsNow' \subseteq ListsNow \cup {<<>>}
  PROVE  ListsOK' /\ Continues
<1>1. ASSUME NEW l \in ListsNow' PROVE IsWindow(l)'
  <2>1. CASE l \in ListsNow
    BY <2>1 DEF ListsOK, IsWindow
  <2>2. CASE l = <<>>
    BY <2>2, EmptyWindow DEF IsWindow
  <2> QED
    BY <1>1, <2>1, <2>2
<1>2. ASSUME NEW k \in ListsNow', NEW l \in ListsNow' PROVE Alike(k, l)
  <2>1. CASE k \in ListsNow /\ l \in ListsNow
    BY <2>1 DEF ListsOK
  <2>2. CASE k = <<>> \/ l = <<>>
    BY <2>2, EmptyWindow DEF Alike
  <2> QED
    BY <1>2, <2>1, <2>2
<1>3. ListsOK'
  BY <1>1, <1>2 DEF ListsOK, Alike
<1>4. ASSUME NEW l \in ListsNow', NEW i \in DOMAIN l
      PROVE  \E k \in ListsNow : i \in DOMAIN k /\ \A j \in 1 .. i : j \in DOMAIN k /\ k[j] = l[j]
  <2>1. l \in ListsNow
    BY <1>4, EmptyWindow
  <2>2. \A j \in 1 .. i : j \in DOMAIN l
    BY <2>1, WindowIs
  <2> QED
    BY <2>1, <2>2
<1> QED
  BY <1>3, <1>4 DEF Continues

(* A new message is no other's: its number is the next.                    *)
LEMMA ListsGrow ==
  ASSUME ListsOK, messagesSent \in Nat, messagesSent' = messagesSent + 1,
         conversation' \in Seq(Message), running' = running, NEW n \in Nat,
         Len(conversation') = n + 1, n # 0 => n = Len(conversation),
         \A i \in 1 .. n : conversation'[i] = conversation[i],
         conversation'[n + 1].number = messagesSent + 1,
         Source = "history" => n = Len(conversation),
         ~Edits => conversation'[n + 1].id \in {NoId, messagesSent + 1}
  PROVE  ListsOK' /\ Continues
<1> DEFINE grown == conversation'
<1>1. conversation \in ListsNow
  BY DEF ListsNow
<1>2. /\ Len(conversation) \in Nat /\ DOMAIN conversation = 1 .. Len(conversation)
      /\ \A i \in DOMAIN conversation :
           /\ conversation[i].number \in Nat \ {0}
           /\ conversation[i].number = conversation[1].number + (i - 1)
           /\ conversation[i].number <= messagesSent
           /\ Source = "history" => conversation[i].number = i
           /\ ~Edits => conversation[i].id \in {NoId, conversation[i].number}
  BY <1>1, WindowIs
<1>3. DOMAIN grown = 1 .. n + 1 /\ Len(grown) = n + 1 /\ \A i \in 1 .. n : grown[i] = conversation[i]
  BY DEF grown
<1>4. n # 0 => /\ conversation[n].number = messagesSent /\ n \in DOMAIN conversation
               /\ messagesSent = conversation[1].number + (n - 1) /\ grown[1] = conversation[1]
               /\ conversation[1].number \in Nat
  <2> SUFFICES ASSUME n # 0
               PROVE  /\ conversation[n].number = messagesSent /\ n \in DOMAIN conversation
                      /\ messagesSent = conversation[1].number + (n - 1) /\ grown[1] = conversation[1]
                      /\ conversation[1].number \in Nat
    OBVIOUS
  <2>1. conversation # <<>> /\ n = Len(conversation) /\ n \in DOMAIN conversation /\ 1 \in DOMAIN conversation
    BY <1>2
  <2>2. conversation[n].number = messagesSent
    BY <2>1 DEF ListsOK
  <2> QED
    BY <1>2, <2>1, <2>2
<1>5. n = 0 /\ Source = "history" => messagesSent = 0
  <2> SUFFICES ASSUME n = 0, Source = "history" PROVE messagesSent = 0
    OBVIOUS
  <2>1. conversation = <<>>
    BY <1>2
  <2> QED
    BY <2>1 DEF ListsOK
<1>6. ASSUME NEW i \in 1 .. n + 1
      PROVE  /\ grown[i].number = grown[1].number + (i - 1) /\ grown[i].number <= messagesSent'
             /\ Source = "history" => grown[i].number = i
             /\ ~Edits => grown[i].id \in {NoId, grown[i].number}
             /\ i <= n => grown[i] = conversation[i] /\ i \in DOMAIN conversation
             /\ i = n + 1 => grown[i].number = messagesSent + 1
  <2>1. CASE i \in 1 .. n
    <3>1. grown[i] = conversation[i] /\ grown[1] = conversation[1] /\ i \in DOMAIN conversation /\ i # n + 1
      <4> HIDE DEF grown
      <4>1. n # 0 /\ n = Len(conversation) /\ grown[i] = conversation[i] /\ i # n + 1
        BY <1>3, <2>1
      <4> QED
        BY <1>2, <1>4, <2>1, <4>1
    <3> HIDE DEF grown
    <3> QED
      BY <1>2, <3>1
  <2>2. CASE i = n + 1
    <3>1. grown[i].number = messagesSent + 1 /\ (~Edits => grown[i].id \in {NoId, messagesSent + 1})
      BY <2>2
    <3>2. CASE n = 0
      <4> HIDE DEF grown
      <4> QED
        BY <1>5, <2>2, <3>1, <3>2
    <3>3. CASE n # 0
      <4>1. Source = "history" => messagesSent = n
        BY <1>2, <1>4, <3>3
      <4> HIDE DEF grown
      <4> QED
        BY <1>4, <2>2, <3>1, <3>3, <4>1
    <3> QED
      BY <3>2, <3>3
  <2> QED
    BY <2>1, <2>2
<1>7. \A l \in ListsNow' : l = grown \/ l \in ListsNow
  BY DEF ListsNow
<1>8. ASSUME NEW l \in ListsNow' PROVE IsWindow(l)'
  <2>1. CASE l \in ListsNow
    <3>1. /\ l \in Seq(Message)
          /\ \A i \in DOMAIN l : /\ l[i].number \in Nat /\ l[i].number = l[1].number + (i - 1)
                                 /\ l[i].number <= messagesSent
                                 /\ Source = "history" => l[i].number = i
                                 /\ ~Edits => l[i].id \in {NoId, l[i].number}
      BY <2>1, WindowIs
    <3>2. \A i \in DOMAIN l : l[i].number <= messagesSent'
      BY <3>1
    <3> QED
      BY <3>1, <3>2 DEF IsWindow
  <2>2. CASE l = grown
    <3> HIDE DEF grown
    <3>1. l \in Seq(Message)
      BY <2>2 DEF grown
    <3> QED
      BY <1>3, <1>6, <2>2, <3>1 DEF IsWindow
  <2> QED
    BY <1>7, <1>8, <2>1, <2>2
<1>9. ASSUME NEW k \in ListsNow PROVE Alike(k, grown) /\ Alike(grown, k)
  <2>1. \A i \in DOMAIN k : k[i].number \in Nat /\ k[i].number <= messagesSent
    BY <1>9, WindowIs
  <2>2. ASSUME NEW i \in DOMAIN k, NEW j \in DOMAIN grown, k[i].number = grown[j].number
        PROVE  i = j /\ k[i] = grown[j]
    <3>1. j \in 1 .. n + 1 /\ j # n + 1
      BY <1>3, <1>6, <2>1, <2>2
    <3>2. grown[j] = conversation[j] /\ j \in DOMAIN conversation
      BY <1>6, <3>1
    <3>3. Alike(k, conversation)
      BY <1>1, <1>9 DEF ListsOK
    <3> HIDE DEF grown
    <3> QED
      BY <2>2, <3>2, <3>3 DEF Alike
  <2> HIDE DEF grown
  <2> QED
    BY <2>2 DEF Alike
<1>10. Alike(grown, grown)
  <2> HIDE DEF grown
  <2>1. \A i \in 1 .. n + 1 : grown[i].number = grown[1].number + (i - 1)
    BY <1>6
  <2>2. grown[n + 1].number \in Nat /\ grown[n + 1].number = grown[1].number + n
    <3>1. n + 1 \in 1 .. n + 1 /\ (n + 1) - 1 = n
      OBVIOUS
    <3> QED
      BY <1>6, <3>1
  <2>3. grown[1].number \in Int
    <3>1. CASE n = 0
      BY <2>2, <3>1
    <3>2. CASE n # 0
      BY <1>4, <3>2
    <3> QED
      BY <3>1, <3>2
  <2> QED
    BY <1>3, <2>1, <2>3 DEF Alike
<1>11. ASSUME NEW k \in ListsNow', NEW l \in ListsNow' PROVE Alike(k, l)
  <2>1. CASE k \in ListsNow /\ l \in ListsNow
    BY <2>1 DEF ListsOK
  <2> HIDE DEF grown
  <2> QED
    BY <1>7, <1>9, <1>10, <1>11, <2>1
<1>12. ListsOK'
  <2>1. conversation' # <<>>
    BY <1>3
  <2>2. conversation'[Len(conversation')].number = messagesSent'
    BY <1>3
  <2>3. \A k, l \in ListsNow' : Alike(k, l)'
    BY <1>11 DEF Alike
  <2> QED
    BY <1>8, <2>1, <2>2, <2>3 DEF ListsOK
<1>13. ASSUME NEW l \in ListsNow', NEW i \in DOMAIN l
       PROVE  \/ l[i].number > messagesSent
              \/ \E k \in ListsNow : i \in DOMAIN k /\ \A j \in 1 .. i : j \in DOMAIN k /\ k[j] = l[j]
  <2>1. CASE l \in ListsNow
    <3>1. \A j \in 1 .. i : j \in DOMAIN l
      BY <1>13, <2>1, WindowIs
    <3> QED
      BY <2>1, <3>1
  <2>2. CASE l = grown
    <3>1. CASE i = n + 1
      <4>1. grown[i].number = messagesSent + 1
        BY <1>6, <3>1
      <4> HIDE DEF grown
      <4> QED
        BY <2>2, <4>1
    <3>2. CASE i # n + 1
      <4>1. i \in 1 .. n
        BY <1>3, <1>13, <2>2, <3>2
      <4>2. \A j \in 1 .. i : j \in 1 .. n
        BY <4>1
      <4>3. i \in DOMAIN conversation /\ \A j \in 1 .. i : j \in DOMAIN conversation /\ conversation[j] = grown[j]
        BY <1>6, <4>1, <4>2
      <4> HIDE DEF grown
      <4> QED
        BY <1>1, <2>2, <4>3
    <3> QED
      BY <3>1, <3>2
  <2> HIDE DEF grown
  <2> QED
    BY <1>7, <1>13, <2>1, <2>2
<1>14. messagesSent' \in Nat /\ messagesSent <= messagesSent'
  OBVIOUS
<1> QED
  BY <1>12, <1>13, <1>14 DEF Continues

(* What is so of the marks stays so as messages come and lists are dropped.*)
LEMMA GoodStays ==
  ASSUME ListsOK, Continues, NEW mark, GoodMark(mark)
  PROVE  GoodMark(mark)'
<1> SUFFICES ASSUME mark # NoMark
             PROVE  /\ mark.number \in 1 .. messagesSent'
                    /\ Source = "history" => mark.length = mark.number
                    /\ ~Edits => mark.id = mark.number
                    /\ \A l \in ListsNow' : \A i \in DOMAIN l : l[i].number = mark.number => l[i].id = mark.id
  BY DEF GoodMark
<1>1. /\ mark.number \in 1 .. messagesSent
      /\ Source = "history" => mark.length = mark.number
      /\ ~Edits => mark.id = mark.number
      /\ \A l \in ListsNow : \A i \in DOMAIN l : l[i].number = mark.number => l[i].id = mark.id
  BY DEF GoodMark
<1>2. mark.number \in 1 .. messagesSent' /\ ~(mark.number > messagesSent)
  BY <1>1 DEF Continues
<1>3. ASSUME NEW l \in ListsNow', NEW i \in DOMAIN l, l[i].number = mark.number PROVE l[i].id = mark.id
  <2>1. PICK k \in ListsNow : i \in DOMAIN k /\ \A j \in 1 .. i : j \in DOMAIN k /\ k[j] = l[j]
    BY <1>2, <1>3 DEF Continues
  <2>2. i \in 1 .. i
    BY <2>1, WindowIs
  <2> QED
    BY <1>1, <1>3, <2>1, <2>2
<1> QED
  BY <1>1, <1>2, <1>3

LEMMA CoveredStays ==
  ASSUME ListsOK, Continues, NEW f \in Functions, GoodMark(marks[f]), Covered(f),
         marks'[f] = marks[f], reported[f] \subseteq reported'[f]
  PROVE  Covered(f)'
<1> DEFINE mark == marks[f]
<1> SUFFICES ASSUME mark # NoMark
             PROVE  /\ \A l \in ListsNow' : \A p \in DOMAIN l :
                         l[p].number = mark.number => \A i \in 1 .. p : l[i].number \in reported'[f]
                    /\ Source = "history" => \A n \in 1 .. mark.number : n \in reported'[f]
  BY DEF Covered
<1>1. /\ \A l \in ListsNow : \A p \in DOMAIN l :
           l[p].number = mark.number => \A i \in 1 .. p : l[i].number \in reported[f]
      /\ Source = "history" => \A n \in 1 .. mark.number : n \in reported[f]
      /\ mark.number \in 1 .. messagesSent
  BY DEF Covered, GoodMark
<1>2. ~(mark.number > messagesSent)
  BY <1>1 DEF Continues
<1> HIDE DEF mark
<1>3. ASSUME NEW l \in ListsNow', NEW p \in DOMAIN l, l[p].number = mark.number, NEW i \in 1 .. p
      PROVE  l[i].number \in reported'[f]
  <2>1. PICK k \in ListsNow : p \in DOMAIN k /\ \A j \in 1 .. p : j \in DOMAIN k /\ k[j] = l[j]
    BY <1>2, <1>3 DEF Continues
  <2>2. p \in 1 .. p
    BY <2>1, WindowIs
  <2> QED
    BY <1>1, <1>3, <2>1, <2>2
<1> QED
  BY <1>1, <1>3

LEMMA ShownStays ==
  ASSUME ListsOK, Continues, NEW s \in Slots, ShownOK(s), running'[s] = running[s],
         reported[running[s].function] \subseteq reported'[running[s].function]
  PROVE  ShownOK(s)'
<1> SUFFICES ASSUME running[s].at = "shown" PROVE ShownOK(s)'
  BY DEF ShownOK
<1>1. GoodMark(running[s].mark)
  BY DEF ShownOK
<1> DEFINE mark == running[s].mark
<1>2. GoodMark(mark)'
  <2>1. GoodMark(mark) /\ mark' = mark
    BY <1>1
  <2> HIDE DEF mark
  <2>2. ASSUME NEW m, GoodMark(m) PROVE GoodMark(m)'
    BY <2>2, GoodStays
  <2>3. PICK m : m = mark
    OBVIOUS
  <2>4. GoodMark(m)'
    BY <2>1, <2>2, <2>3
  <2> QED
    BY <2>1, <2>3, <2>4 DEF GoodMark
<1> QED
  BY <1>2 DEF ShownOK

(* What a step that shows its list leaves out was shown to its function.   *)
LEMMA LeftOutWasShown ==
  ASSUME WindowsInv, Source = "history" \/ ~Edits, NEW l \in ListsNow, NEW f \in Functions,
         NEW i \in 1 .. Resumed(l, marks[f]).after
  PROVE  l[i].number \in reported[f]
<1> DEFINE mark == marks[f]
           after == Resumed(l, mark).after
<1>1. ListsOK /\ GoodMark(mark) /\ Covered(f) /\ IsMarked(mark) /\ mark \in Mark
  BY DEF WindowsInv, GoodMark, IsMarked
<1>2. /\ l \in Seq(Message) /\ Len(l) \in Nat /\ DOMAIN l = 1 .. Len(l)
      /\ \A j \in DOMAIN l : /\ l[j].number \in Nat
                             /\ Source = "history" => l[j].number = j
                             /\ ~Edits => l[j].id \in {NoId, l[j].number}
  BY <1>1, WindowIs
<1>3. /\ after \in 0 .. Len(l)
      /\ mark = NoMark => after = 0
      /\ Resumed(l, mark).grew => mark # NoMark /\ Source = "history" /\ mark.length \in DOMAIN l /\ after = mark.length
      /\ mark # NoMark /\ ~Resumed(l, mark).grew =>
           /\ ~(Source = "history" /\ mark.length \in DOMAIN l /\ l[mark.length].id = mark.id)
           /\ after \in {0} \cup Positions(l, mark.id)
      /\ i \in 1 .. after
  BY <1>1, <1>2, ResumedIs
<1>4. mark # NoMark
  BY <1>3
<1>5. /\ mark.number \in Nat /\ mark.length \in Nat /\ mark.id # NoId
      /\ Source = "history" => mark.length = mark.number
      /\ ~Edits => mark.id = mark.number
      /\ \A j \in DOMAIN l : l[j].number = mark.number => l[j].id = mark.id
      /\ \A p \in DOMAIN l : l[p].number = mark.number => \A j \in 1 .. p : l[j].number \in reported[f]
      /\ Source = "history" => \A n \in 1 .. mark.number : n \in reported[f]
  BY <1>1, <1>4 DEF GoodMark, Covered, IsMarked, Mark
<1> HIDE DEF mark, after
<1>6. i \in 1 .. Len(l) /\ i \in DOMAIN l /\ after # 0 /\ after \in DOMAIN l
  BY <1>2, <1>3
<1>7. CASE Source = "history"
  <2>1. l[i].number = i
    BY <1>2, <1>6, <1>7
  <2>2. i <= mark.length
    <3>1. CASE Resumed(l, mark).grew
      BY <1>3, <3>1
    <3>2. CASE ~Resumed(l, mark).grew
      <4>1. mark.length \notin DOMAIN l
        <5>1. mark.length \in DOMAIN l => l[mark.length].number = mark.number
          BY <1>2, <1>5, <1>7
        <5> QED
          BY <1>3, <1>4, <1>5, <1>7, <3>2, <5>1
      <4>2. mark.length # 0
        <5>1. mark.number \in 1 .. messagesSent
          BY <1>1, <1>4 DEF GoodMark
        <5> QED
          BY <1>5, <1>7, <5>1
      <4> QED
        BY <1>2, <1>5, <1>6, <4>1, <4>2
    <3> QED
      BY <3>1, <3>2, <1>2, ResumedIs, <1>1
  <2> QED
    BY <1>5, <1>6, <1>7, <2>1, <2>2
<1>8. CASE Source # "history"
  <2>1. after \in Positions(l, mark.id)
    BY <1>3, <1>4, <1>6, <1>8, <1>1, <1>2, ResumedIs
  <2>2. l[after].id = mark.id
    BY <2>1 DEF Positions
  <2>3. l[after].number = mark.number
    BY <1>2, <1>5, <1>6, <1>8, <2>2
  <2> QED
    BY <1>3, <1>5, <1>6, <2>3
<1> QED
  BY <1>7, <1>8

(* The mark a step is given is of a message of the list it shows.          *)
LEMMA MarksAreGood ==
  ASSUME ListsOK, messagesSent \in Nat, NEW l \in ListsNow, NEW mark, IsMarked(mark)
  PROVE  /\ GoodMark(MarkOf(l, mark))
         /\ MarkOf(l, mark) # NoMark =>
              \E q \in DOMAIN l : l[q].number = MarkOf(l, mark).number /\ MarkOf(l, mark).length = q
<1> DEFINE new == MarkOf(l, mark)
<1>1. /\ l \in Seq(Message)
      /\ \A i \in DOMAIN l : /\ l[i].number \in Nat \ {0} /\ l[i].number <= messagesSent
                             /\ Source = "history" => l[i].number = i
                             /\ ~Edits => l[i].id \in {NoId, l[i].number}
  BY WindowIs
<1>2. /\ IsMarked(new)
      /\ new # NoMark => \E q \in DOMAIN l : /\ LastWithId(l, q) /\ new.id = l[q].id
                                             /\ new.length = q /\ new.number = l[q].number
  BY <1>1, MarkIs
<1> HIDE DEF new
<1>3. CASE new = NoMark
  BY <1>2, <1>3 DEF GoodMark, new
<1>4. CASE new # NoMark
  <2>1. PICK q \in DOMAIN l : /\ LastWithId(l, q) /\ new.id = l[q].id
                              /\ new.length = q /\ new.number = l[q].number
    BY <1>2, <1>4
  <2>2. /\ new.number \in 1 .. messagesSent
        /\ Source = "history" => new.length = new.number
        /\ ~Edits => new.id = new.number
    BY <1>1, <2>1 DEF LastWithId
  <2>3. ASSUME NEW k \in ListsNow, NEW i \in DOMAIN k, k[i].number = new.number PROVE k[i].id = new.id
    <3>1. Alike(k, l)
      BY DEF ListsOK
    <3> QED
      BY <2>1, <2>3, <3>1 DEF Alike
  <2> QED
    BY <1>2, <2>1, <2>2, <2>3 DEF GoodMark, new
<1> QED
  BY <1>3, <1>4

(* Once a step reported, its function has all of the list up to its mark.  *)
LEMMA ReportsCover ==
  ASSUME WindowsInv, NEW s \in Slots, Reports(s), running[s].mark # NoMark,
         ListsNow' \subseteq ListsNow \cup {<<>>},
         NEW f, f = running[s].function, NEW held, held = running[s].held,
         NEW mark, mark = running[s].mark, NEW start, start = running[s].start
  PROVE  Covered(f)'
<1>1. /\ running[s].at = "shown" /\ f \in Functions /\ marks' = [marks EXCEPT ![f] = mark]
      /\ reported' = [reported EXCEPT ![f] = @ \cup ShownAt(s)]
  BY DEF Reports, WindowsInv, WindowsTypes, RunningTyped
<1>2. marks'[f] = mark /\ reported'[f] = reported[f] \cup ShownAt(s)
  BY <1>1 DEF WindowsInv, WindowsTypes
<1>3. /\ ListsOK /\ held \in ListsNow /\ running[s].start \in Nat
      /\ \A i \in 1 .. running[s].start : held[i].number \in reported[f]
      /\ GoodMark(mark)
  BY <1>1 DEF WindowsInv, WindowsTypes, RunningTyped, ShownOK, ListsNow
<1>4. PICK q \in DOMAIN held : held[q].number = mark.number
  BY <1>1 DEF WindowsInv, ShownOK
<1>5. ShownAt(s) = {held[i].number : i \in {x \in DOMAIN held : x > running[s].start}}
  BY DEF ShownAt
<1>6. /\ Len(held) \in Nat /\ DOMAIN held = 1 .. Len(held)
      /\ \A i \in DOMAIN held : /\ held[i].number \in Nat /\ held[i].number = held[1].number + (i - 1)
                                /\ Source = "history" => held[i].number = i
  BY <1>3, WindowIs
<1>7. \A i \in DOMAIN held : held[i].number \in reported'[f]
  <2> SUFFICES ASSUME NEW i \in DOMAIN held PROVE held[i].number \in reported'[f]
    OBVIOUS
  <2>1. start \in Nat /\ i \in Nat /\ i >= 1
    BY <1>3, <1>6
  <2>2. CASE i <= start
    BY <1>2, <1>3, <2>1, <2>2
  <2>3. CASE i > start
    BY <1>2, <1>5, <2>3
  <2> QED
    BY <2>1, <2>2, <2>3
<1>8. ASSUME NEW l \in ListsNow', NEW p \in DOMAIN l, l[p].number = mark.number, NEW i \in 1 .. p
      PROVE  l[i].number \in reported'[f]
  <2>1. l \in ListsNow
    BY <1>8, EmptyWindow
  <2>2. Alike(held, l)
    BY <1>3, <2>1 DEF ListsOK
  <2>3. q = p /\ held[q] = l[p]
    BY <1>4, <1>8, <2>2 DEF Alike
  <2>4. /\ DOMAIN l = 1 .. Len(l) /\ Len(l) \in Nat /\ 1 \in DOMAIN l /\ i \in DOMAIN l
        /\ \A j \in DOMAIN l : l[j].number \in Nat /\ l[j].number = l[1].number + (j - 1)
    BY <1>3, <1>8, <2>1, WindowIs
  <2>5. i \in DOMAIN held /\ 1 \in DOMAIN held /\ p \in DOMAIN held
    BY <1>4, <1>6, <1>8, <2>3
  <2>6. l[i].number = held[i].number
    <3>1. /\ l[p].number = l[1].number + (p - 1) /\ held[p].number = held[1].number + (p - 1)
          /\ l[i].number = l[1].number + (i - 1) /\ held[i].number = held[1].number + (i - 1)
          /\ l[1].number \in Nat /\ held[1].number \in Nat /\ l[p].number = held[p].number
          /\ p \in Nat /\ i \in Nat
      <4>1. l[p].number = l[1].number + (p - 1) /\ l[i].number = l[1].number + (i - 1) /\ l[1].number \in Nat
        BY <1>8, <2>4
      <4>2. held[p].number = held[1].number + (p - 1) /\ held[i].number = held[1].number + (i - 1)
            /\ held[1].number \in Nat /\ p \in Nat /\ i \in Nat
        BY <1>6, <2>5
      <4>3. l[p].number = held[p].number
        BY <2>3
      <4> QED
        BY <4>1, <4>2, <4>3
    <3> QED
      BY <3>1
  <2> QED
    BY <1>7, <2>5, <2>6
<1>9. Source = "history" => \A n \in 1 .. mark.number : n \in reported'[f]
  <2> SUFFICES ASSUME Source = "history", NEW n \in 1 .. mark.number PROVE n \in reported'[f]
    OBVIOUS
  <2>1. mark.number = q
    BY <1>4, <1>6
  <2>2. n \in DOMAIN held /\ held[n].number = n
    BY <1>4, <1>6, <2>1
  <2> QED
    BY <1>7, <2>2
<1>10. \A l \in ListsNow' : \A p \in DOMAIN l :
         l[p].number = mark.number => \A i \in 1 .. p : l[i].number \in reported'[f]
  BY <1>8
<1> QED
  BY <1>2, <1>9, <1>10 DEF Covered

(* A step that runs nothing holds an empty list.                           *)
IdleIs ==
  /\ Idle.at = "idle" /\ Idle.held = <<>>
  /\ Idle \in [at : {"idle", "begun", "shown"}, function : Functions \cup {"none"},
               held : Seq(Message), start : Nat, mark : Mark]

LEMMA IdleIsTyped == IdleIs
<1>1. NoMark \in Mark
  BY DEF NoMark, NoId, Mark
<1> QED
  BY <1>1, EmptyWindow DEF Idle, IdleIs

(* What is to stay so holds before any message, and each operation keeps it*)
LEMMA WindowsStart ==
  ASSUME WindowsInit
  PROVE  WindowsInv
<1>1. /\ conversation = <<>> /\ messagesSent = 0 /\ running = [s \in Slots |-> Idle]
      /\ marks = [f \in Functions |-> NoMark] /\ reported = [f \in Functions |-> {}]
  BY DEF WindowsInit
<1>2. NoMark \in Mark /\ GoodMark(NoMark)
  BY DEF NoMark, NoId, Mark, GoodMark, IsMarked
<1>3. Idle.at = "idle" /\ Idle.held = <<>>
      /\ Idle \in [at : {"idle", "begun", "shown"}, function : Functions \cup {"none"},
                   held : Seq(Message), start : Nat, mark : Mark]
  BY IdleIsTyped DEF IdleIs
<1>4. WindowsTypes
  BY <1>1, <1>2, <1>3 DEF WindowsTypes, RunningTyped
<1>5. \A l \in ListsNow : l = <<>>
  BY <1>1, <1>3 DEF ListsNow
<1>6. ListsOK
  <2>1. \A l \in ListsNow : IsWindow(l)
    BY <1>5, EmptyWindow DEF IsWindow
  <2>2. \A k, l \in ListsNow : Alike(k, l)
    BY <1>5, EmptyWindow DEF Alike
  <2> QED
    BY <1>1, <2>1, <2>2 DEF ListsOK
<1>7. \A f \in Functions : marks[f] = NoMark
  BY <1>1
<1>8. \A f \in Functions : GoodMark(marks[f]) /\ Covered(f)
  BY <1>2, <1>7 DEF Covered
<1>9. \A s \in Slots : running[s].at = "idle"
  BY <1>1, <1>3
<1>10. \A s \in Slots : ShownOK(s)
  BY <1>9 DEF ShownOK
<1> QED
  BY <1>4, <1>6, <1>8, <1>10 DEF WindowsInv

(* Where no function reports, its mark is as good as it was.               *)
LEMMA MarksStay ==
  ASSUME WindowsInv, WindowsTypes', ListsOK', Continues, marks' = marks, reported' = reported,
         \A s \in Slots : running'[s] = running[s] \/ ShownOK(s)'
  PROVE  WindowsInv'
<1>1. ListsOK
  BY DEF WindowsInv
<1>2. ASSUME NEW f \in Functions PROVE (GoodMark(marks[f]) /\ Covered(f))'
  <2>1. GoodMark(marks[f]) /\ Covered(f)
    BY DEF WindowsInv
  <2>2. ASSUME NEW m, GoodMark(m) PROVE GoodMark(m)'
    BY <1>1, <2>2, GoodStays
  <2>3. PICK m : m = marks[f]
    OBVIOUS
  <2>4. GoodMark(m)' /\ m = marks'[f]
    BY <2>1, <2>2, <2>3
  <2>5. GoodMark(marks[f])'
    BY <2>4 DEF GoodMark
  <2>6. marks'[f] = marks[f] /\ reported[f] \subseteq reported'[f]
    OBVIOUS
  <2>7. Covered(f)'
    BY <1>1, <2>1, <2>6, CoveredStays
  <2> QED
    BY <2>5, <2>7
<1>3. ASSUME NEW s \in Slots PROVE ShownOK(s)'
  <2>1. CASE running'[s] = running[s]
    <3>1. ShownOK(s)
      BY DEF WindowsInv
    <3>2. reported[running[s].function] \subseteq reported'[running[s].function]
      OBVIOUS
    <3> QED
      BY <1>1, <2>1, <3>1, <3>2, ShownStays
  <2> QED
    BY <2>1
<1> QED
  BY <1>2, <1>3 DEF WindowsInv

LEMMA AppendsKeepsWindows ==
  ASSUME WindowsInv, Appends PROVE WindowsInv'
<1>1. /\ messagesSent' = messagesSent + 1 /\ running' = running /\ marks' = marks /\ reported' = reported
      /\ \E id \in {NoId, messagesSent + 1} \cup (IF Edits THEN 1 .. messagesSent ELSE {}),
            role \in {"assistant", "other"} :
           conversation' = Append(conversation, [number |-> messagesSent + 1, id |-> id, role |-> role])
  BY DEF Appends
<1>2. ListsOK /\ messagesSent \in Nat /\ WindowsTypes
  BY DEF WindowsInv, WindowsTypes
<1>3. PICK id \in {NoId, messagesSent + 1} \cup (IF Edits THEN 1 .. messagesSent ELSE {}),
           role \in {"assistant", "other"} :
        conversation' = Append(conversation, [number |-> messagesSent + 1, id |-> id, role |-> role])
  BY <1>1
<1> DEFINE message == [number |-> messagesSent + 1, id |-> id, role |-> role]
<1>4. conversation \in Seq(Message) /\ Len(conversation) \in Nat
  <2>1. conversation \in ListsNow
    BY DEF ListsNow
  <2> QED
    BY <1>2, <2>1, WindowIs
<1>5. /\ id \in Nat /\ message \in Message /\ message.number = messagesSent + 1
      /\ ~Edits => message.id \in {NoId, messagesSent + 1}
  BY <1>2 DEF Message, NoId
<1> HIDE DEF message
<1>6. conversation' = Append(conversation, message)
  BY <1>3 DEF message
<1> DEFINE n == Len(conversation)
<1>7. /\ conversation' \in Seq(Message) /\ n \in Nat /\ Len(conversation') = n + 1
      /\ (\A i \in 1 .. n : conversation'[i] = conversation[i]) /\ conversation'[n + 1] = message
  BY <1>4, <1>5, <1>6
<1>8. ListsOK' /\ Continues
  BY <1>1, <1>2, <1>5, <1>7, ListsGrow
<1>9. WindowsTypes'
  BY <1>1, <1>2 DEF WindowsTypes, RunningTyped
<1> QED
  BY <1>1, <1>8, <1>9, MarksStay

LEMMA CompactsKeepsWindows ==
  ASSUME WindowsInv, Compacts PROVE WindowsInv'
<1> DEFINE message == [number |-> messagesSent + 1, id |-> NoId, role |-> "other"]
<1>1. /\ messagesSent' = messagesSent + 1 /\ running' = running /\ marks' = marks /\ reported' = reported
      /\ conversation' = <<message>> /\ Source = "input"
  BY DEF Compacts
<1>2. ListsOK /\ messagesSent \in Nat /\ WindowsTypes
  BY DEF WindowsInv, WindowsTypes
<1>3. message \in Message /\ message.number = messagesSent + 1 /\ message.id = NoId
  BY <1>2 DEF Message, NoId
<1> HIDE DEF message
<1>4. /\ conversation' \in Seq(Message) /\ 0 \in Nat /\ Len(conversation') = 0 + 1
      /\ (\A i \in 1 .. 0 : conversation'[i] = conversation[i]) /\ conversation'[0 + 1] = message
  BY <1>1, <1>3
<1>5. Source # "history"
  BY <1>1
<1>6. ListsOK' /\ Continues
  BY <1>1, <1>2, <1>3, <1>4, <1>5, ListsGrow
<1>7. WindowsTypes'
  BY <1>1, <1>2 DEF WindowsTypes, RunningTyped
<1> QED
  BY <1>1, <1>6, <1>7, MarksStay

(* A step that changes says nothing of the lists but its own.              *)
LEMMA ListsNowStay ==
  ASSUME WindowsInv, conversation' = conversation, messagesSent' = messagesSent, NEW s \in Slots,
         \A t \in Slots \ {s} : running'[t] = running[t],
         running'[s].held \in ListsNow \cup {<<>>}
  PROVE  ListsOK' /\ Continues /\ ListsNow' \subseteq ListsNow \cup {<<>>}
<1>1. ListsOK /\ messagesSent \in Nat
  BY DEF WindowsInv, WindowsTypes
<1>2. ListsNow' \subseteq ListsNow \cup {<<>>}
  BY DEF ListsNow
<1> QED
  BY <1>1, <1>2, ListsStay

(* What a step that begins holds.                                          *)
LEMMA BeginsAs ==
  ASSUME NEW s \in Slots, NEW f \in Functions, Begins(s, f)
  PROVE  /\ running' = [running EXCEPT ![s] = [at |-> "begun", function |-> f, held |-> conversation,
                                              start |-> 0, mark |-> NoMark]]
         /\ marks' = marks /\ reported' = reported
         /\ conversation' = conversation /\ messagesSent' = messagesSent
<1> DEFINE begun == [at |-> "begun", function |-> f, held |-> conversation, start |-> 0, mark |-> NoMark]
<1>1. /\ running' = [running EXCEPT ![s] = begun] /\ marks' = marks /\ reported' = reported
      /\ conversation' = conversation /\ messagesSent' = messagesSent
  <2>1. [Idle EXCEPT !.at = "begun", !.function = f, !.held = conversation] = begun
    <3>1. PICK none, empty, mark : none = "none" /\ empty = <<>> /\ mark = NoMark
      OBVIOUS
    <3>2. Idle = [at |-> "idle", function |-> none, held |-> empty, start |-> 0, mark |-> mark]
      BY <3>1, Zenon DEF Idle
    <3>3. [[[Idle EXCEPT !.at = "begun"] EXCEPT !.function = f] EXCEPT !.held = conversation]
            = [at |-> "begun", function |-> f, held |-> conversation, start |-> 0, mark |-> mark]
      <4>1. PICK one : one = [Idle EXCEPT !.at = "begun"]
        OBVIOUS
      <4>2. one = [at |-> "begun", function |-> none, held |-> empty, start |-> 0, mark |-> mark]
        BY <3>2, <4>1
      <4>3. PICK two : two = [one EXCEPT !.function = f]
        OBVIOUS
      <4>4. two = [at |-> "begun", function |-> f, held |-> empty, start |-> 0, mark |-> mark]
        BY <4>2, <4>3
      <4>5. [two EXCEPT !.held = conversation]
              = [at |-> "begun", function |-> f, held |-> conversation, start |-> 0, mark |-> mark]
        BY <4>4
      <4> QED
        BY <4>1, <4>3, <4>5
    <3> QED
      BY <3>1, <3>3
  <2> HIDE DEF begun
  <2> QED
    BY <2>1 DEF Begins
<1> QED
  BY <1>1

LEMMA BeginsIs ==
  ASSUME WindowsInv, NEW s \in Slots, NEW f \in Functions, Begins(s, f)
  PROVE  /\ running'[s].at = "begun" /\ running'[s].held = conversation
         /\ conversation' = conversation /\ marks' = marks /\ reported' = reported
<1>1. running'[s] = [at |-> "begun", function |-> f, held |-> conversation, start |-> 0, mark |-> NoMark]
  BY BeginsAs DEF WindowsInv, WindowsTypes, RunningTyped
<1> QED
  BY <1>1, BeginsAs

LEMMA BeginsKeepsWindows ==
  ASSUME WindowsInv, NEW s \in Slots, NEW f \in Functions, Begins(s, f) PROVE WindowsInv'
<1> DEFINE begun == [at |-> "begun", function |-> f, held |-> conversation, start |-> 0, mark |-> NoMark]
<1>1. /\ running' = [running EXCEPT ![s] = begun] /\ marks' = marks /\ reported' = reported
      /\ conversation' = conversation /\ messagesSent' = messagesSent
  BY BeginsAs
<1>2. WindowsTypes /\ ListsOK
  BY DEF WindowsInv
<1>3. conversation \in ListsNow
  BY DEF ListsNow
<1>4. conversation \in Seq(Message) /\ NoMark \in Mark
  BY <1>2, <1>3, WindowIs DEF NoMark, NoId, Mark
<1>5. begun \in [at : {"idle", "begun", "shown"}, function : Functions \cup {"none"},
                 held : Seq(Message), start : Nat, mark : Mark]
      /\ begun.at = "begun" /\ begun.function \in Functions /\ begun.held = conversation
  BY <1>4
<1> HIDE DEF begun
<1>6. running'[s] = begun /\ \A t \in Slots \ {s} : running'[t] = running[t]
  BY <1>1, <1>2 DEF WindowsTypes, RunningTyped
<1>7. WindowsTypes'
  BY <1>1, <1>2, <1>5 DEF WindowsTypes, RunningTyped
<1>8. ListsOK' /\ Continues
  BY <1>1, <1>3, <1>5, <1>6, ListsNowStay
<1>9. \A t \in Slots : running'[t] = running[t] \/ ShownOK(t)'
  BY <1>5, <1>6 DEF ShownOK
<1> QED
  BY <1>1, <1>7, <1>8, <1>9, MarksStay

(* What a step that becomes shown shows.                                   *)
LEMMA ShowsIs ==
  ASSUME WindowsInv, NEW s \in Slots, Shows(s)
  PROVE  \E f \in Functions, held \in ListsNow :
           /\ f = running[s].function /\ held = running[s].held /\ running[s].at = "begun"
           /\ running' = [running EXCEPT ![s] =
                [at |-> "shown", function |-> f, held |-> held,
                 start |-> Resumed(held, marks[f]).after, mark |-> MarkOf(held, marks[f])]]
           /\ marks' = marks /\ reported' = reported
           /\ conversation' = conversation /\ messagesSent' = messagesSent
<1>1. running[s].at = "begun" /\ running[s].function \in Functions /\ running[s].held \in ListsNow
  BY DEF Shows, WindowsInv, WindowsTypes, RunningTyped, ListsNow
<1>2. running[s] = [at |-> running[s].at, function |-> running[s].function, held |-> running[s].held,
                    start |-> running[s].start, mark |-> running[s].mark]
      /\ running = [t \in Slots |-> running[t]]
  BY DEF WindowsInv, WindowsTypes, RunningTyped
<1>3. /\ running' = [running EXCEPT ![s].at = "shown",
             ![s].start = Resumed(running[s].held, marks[running[s].function]).after,
             ![s].mark = MarkOf(running[s].held, marks[running[s].function])]
      /\ marks' = marks /\ reported' = reported
      /\ conversation' = conversation /\ messagesSent' = messagesSent
  BY DEF Shows
<1>4. running' = [running EXCEPT ![s] =
        [at |-> "shown", function |-> running[s].function, held |-> running[s].held,
         start |-> Resumed(running[s].held, marks[running[s].function]).after,
         mark |-> MarkOf(running[s].held, marks[running[s].function])]]
  <2> DEFINE after == Resumed(running[s].held, marks[running[s].function]).after
             new == MarkOf(running[s].held, marks[running[s].function])
  <2> HIDE DEF after, new
  <2>1. running' = [running EXCEPT ![s].at = "shown", ![s].start = after, ![s].mark = new]
    BY <1>3 DEF after, new
  <2>2. running' = [running EXCEPT ![s] = [at |-> "shown", function |-> running[s].function,
                                          held |-> running[s].held, start |-> after, mark |-> new]]
    <3>1. \A t \in Slots \ {s} : running'[t] = running[t]
      BY <1>2, <2>1
    <3>2. running'[s] = [[[running[s] EXCEPT !.at = "shown"] EXCEPT !.start = after] EXCEPT !.mark = new]
      BY <1>2, <2>1
    <3>3. running'[s] = [at |-> "shown", function |-> running[s].function,
                         held |-> running[s].held, start |-> after, mark |-> new]
      BY <1>2, <3>2
    <3>4. running' = [t \in Slots |-> running'[t]]
      BY <1>2, <2>1
    <3> QED
      BY <1>2, <3>1, <3>3, <3>4
  <2> QED
    BY <2>2 DEF after, new
<1> QED
  BY <1>1, <1>3, <1>4

LEMMA ShowsKeepsWindows ==
  ASSUME WindowsInv, Source = "history" \/ ~Edits, NEW s \in Slots, Shows(s) PROVE WindowsInv'
<1>1. PICK f \in Functions, held \in ListsNow :
           /\ f = running[s].function /\ held = running[s].held /\ running[s].at = "begun"
           /\ running' = [running EXCEPT ![s] =
                [at |-> "shown", function |-> f, held |-> held,
                 start |-> Resumed(held, marks[f]).after, mark |-> MarkOf(held, marks[f])]]
           /\ marks' = marks /\ reported' = reported
           /\ conversation' = conversation /\ messagesSent' = messagesSent
  BY ShowsIs
<1>2. WindowsTypes /\ ListsOK /\ messagesSent \in Nat /\ IsMarked(marks[f])
  BY DEF WindowsInv, WindowsTypes, GoodMark
<1>3. PICK after : after = Resumed(held, marks[f]).after
  OBVIOUS
<1>4. PICK mark : mark = MarkOf(held, marks[f])
  OBVIOUS
<1>5. held \in Seq(Message) /\ after \in 0 .. Len(held) /\ after \in Nat
  <2>1. held \in Seq(Message) /\ Len(held) \in Nat
    BY <1>2, WindowIs
  <2> QED
    BY <1>2, <1>3, <2>1, ResumedIs
<1>6. \A i \in 1 .. after : held[i].number \in reported[f]
  BY <1>3, LeftOutWasShown
<1>7. /\ GoodMark(mark) /\ mark \in Mark
      /\ mark # NoMark => \E q \in DOMAIN held : held[q].number = mark.number
  BY <1>2, <1>4, MarksAreGood DEF GoodMark, IsMarked
<1> DEFINE shown == [at |-> "shown", function |-> f, held |-> held, start |-> after, mark |-> mark]
<1>8. shown \in [at : {"idle", "begun", "shown"}, function : Functions \cup {"none"},
                 held : Seq(Message), start : Nat, mark : Mark]
      /\ shown.function = f /\ shown.held = held /\ shown.start = after /\ shown.mark = mark
  BY <1>5, <1>7
<1>9. running' = [running EXCEPT ![s] = shown]
  BY <1>1, <1>3, <1>4
<1> HIDE DEF shown
<1>10. running'[s] = shown /\ \A t \in Slots \ {s} : running'[t] = running[t]
  BY <1>2, <1>9 DEF WindowsTypes, RunningTyped
<1>11. WindowsTypes'
  BY <1>1, <1>2, <1>8, <1>9 DEF WindowsTypes, RunningTyped
<1>12. ListsOK' /\ Continues
  BY <1>1, <1>8, <1>10, ListsNowStay
<1>13. GoodMark(mark)'
  BY <1>2, <1>7, <1>12, GoodStays
<1>14. ShownOK(s)'
  <2>1. GoodMark(running[s].mark)'
    BY <1>8, <1>10, <1>13 DEF GoodMark
  <2> QED
    BY <1>1, <1>5, <1>6, <1>7, <1>8, <1>10, <2>1 DEF ShownOK
<1>15. \A t \in Slots : running'[t] = running[t] \/ ShownOK(t)'
  BY <1>10, <1>14
<1> QED
  BY <1>1, <1>11, <1>12, <1>15, MarksStay

LEMMA StepFailsKeepsWindows ==
  ASSUME WindowsInv, NEW s \in Slots, StepFails(s) PROVE WindowsInv'
<1>1. /\ running' = [running EXCEPT ![s] = Idle] /\ marks' = marks /\ reported' = reported
      /\ conversation' = conversation /\ messagesSent' = messagesSent
  BY DEF StepFails
<1>2. IdleIs
  BY IdleIsTyped
<1>3. running'[s] = Idle /\ \A t \in Slots \ {s} : running'[t] = running[t]
  BY <1>1 DEF WindowsInv, WindowsTypes, RunningTyped
<1>4. WindowsTypes'
  BY <1>1, <1>2 DEF WindowsInv, WindowsTypes, RunningTyped, IdleIs
<1>5. ListsOK' /\ Continues
  BY <1>1, <1>2, <1>3, ListsNowStay DEF IdleIs
<1>6. \A t \in Slots : running'[t] = running[t] \/ ShownOK(t)'
  BY <1>2, <1>3 DEF ShownOK, IdleIs
<1> QED
  BY <1>1, <1>4, <1>5, <1>6, MarksStay

LEMMA WindowsStutter ==
  ASSUME WindowsInv, conversation' = conversation, messagesSent' = messagesSent,
         running' = running, marks' = marks, reported' = reported
  PROVE  WindowsInv'
<1>1. ListsOK /\ messagesSent \in Nat /\ WindowsTypes
  BY DEF WindowsInv, WindowsTypes
<1>2. ListsNow' = ListsNow
  BY DEF ListsNow
<1>3. ListsOK' /\ Continues
  BY <1>1, <1>2, ListsStay
<1>4. WindowsTypes'
  BY <1>1 DEF WindowsTypes, RunningTyped
<1> QED
  BY <1>3, <1>4, MarksStay

LEMMA ReportsKeepsWindows ==
  ASSUME WindowsInv, NEW s \in Slots, Reports(s) PROVE WindowsInv'
<1>1. PICK f \in Functions : f = running[s].function
  BY DEF Reports, WindowsInv, WindowsTypes, RunningTyped
<1>2. PICK mark : mark = running[s].mark
  OBVIOUS
<1>3. /\ running[s].at = "shown" /\ running' = [running EXCEPT ![s] = Idle]
      /\ marks' = IF mark = NoMark THEN marks ELSE [marks EXCEPT ![f] = mark]
      /\ reported' = [reported EXCEPT ![f] = @ \cup ShownAt(s)]
      /\ conversation' = conversation /\ messagesSent' = messagesSent
  BY <1>1, <1>2 DEF Reports
<1>4. WindowsTypes /\ ListsOK /\ mark \in Mark /\ ShownOK(s)
  BY <1>2 DEF WindowsInv, WindowsTypes, RunningTyped
<1>5. IdleIs
  BY IdleIsTyped
<1>6. running'[s] = Idle /\ \A t \in Slots \ {s} : running'[t] = running[t]
  BY <1>3, <1>4 DEF WindowsTypes, RunningTyped
<1>7. ListsOK' /\ Continues /\ ListsNow' \subseteq ListsNow \cup {<<>>}
  BY <1>3, <1>5, <1>6, ListsNowStay DEF IdleIs
<1>8. GoodMark(mark)
  BY <1>2, <1>3, <1>4 DEF ShownOK
<1>9. \A g \in Functions : reported[g] \subseteq reported'[g] /\ reported'[g] \subseteq Nat
  <2>1. ShownAt(s) \subseteq Nat
    <3>1. \A i \in DOMAIN running[s].held : running[s].held[i].number \in Nat
      <4>1. running[s].held \in ListsNow
        BY DEF ListsNow
      <4> QED
        BY <1>4, <4>1, WindowIs
    <3> QED
      BY <3>1 DEF ShownAt
  <2> QED
    BY <1>3, <1>4, <2>1 DEF WindowsTypes
<1>10. WindowsTypes'
  <2>1. reported' \in [Functions -> SUBSET Nat]
    BY <1>3, <1>4, <1>9 DEF WindowsTypes
  <2>2. marks' \in [Functions -> Mark]
    BY <1>3, <1>4 DEF WindowsTypes
  <2>3. RunningTyped'
    BY <1>3, <1>4, <1>5 DEF WindowsTypes, RunningTyped, IdleIs
  <2> QED
    BY <1>3, <1>4, <2>1, <2>2, <2>3 DEF WindowsTypes
<1>11. ASSUME NEW g \in Functions PROVE (GoodMark(marks[g]) /\ Covered(g))'
  <2>1. CASE marks'[g] = marks[g]
    <3>1. GoodMark(marks[g]) /\ Covered(g)
      BY DEF WindowsInv
    <3>2. ASSUME NEW m, GoodMark(m) PROVE GoodMark(m)'
      BY <1>4, <1>7, <3>2, GoodStays
    <3>3. PICK m : m = marks[g]
      OBVIOUS
    <3>4. GoodMark(m)' /\ m = marks'[g]
      BY <2>1, <3>1, <3>2, <3>3
    <3>5. GoodMark(marks[g])'
      BY <3>4 DEF GoodMark
    <3>6. Covered(g)'
      BY <1>4, <1>7, <1>9, <2>1, <3>1, CoveredStays
    <3> QED
      BY <3>5, <3>6
  <2>2. CASE marks'[g] # marks[g]
    <3>1. g = f /\ mark # NoMark /\ marks'[g] = mark
      BY <1>3, <1>4, <2>2 DEF WindowsTypes
    <3>2. GoodMark(mark)'
      BY <1>4, <1>7, <1>8, GoodStays
    <3>3. GoodMark(marks[g])'
      BY <3>1, <3>2 DEF GoodMark
    <3>4. Covered(f)'
      BY <1>1, <1>2, <1>7, <3>1, ReportsCover
    <3> QED
      BY <3>1, <3>3, <3>4
  <2> QED
    BY <2>1, <2>2
<1>12. ASSUME NEW t \in Slots PROVE ShownOK(t)'
  <2>1. CASE t = s
    BY <1>5, <1>6, <2>1 DEF ShownOK, IdleIs
  <2>2. CASE t # s
    <3>1. running'[t] = running[t] /\ ShownOK(t)
      BY <1>6, <2>2 DEF WindowsInv
    <3>2. CASE running[t].at = "shown"
      <4>1. running[t].function \in Functions
        BY <1>4, <3>2 DEF WindowsTypes, RunningTyped
      <4> QED
        BY <1>4, <1>7, <1>9, <3>1, <4>1, ShownStays
    <3>3. CASE running[t].at # "shown"
      BY <3>1, <3>3 DEF ShownOK
    <3> QED
      BY <3>2, <3>3
  <2> QED
    BY <2>1, <2>2
<1> QED
  BY <1>7, <1>10, <1>11, <1>12 DEF WindowsInv

(* What a mark says of every list that a step may hold, that all before it *)
(* was shown to its function, stays so however steps run at once, fail and *)
(* report (NewSinceLastReport): over the history, where the position of a  *)
(* message never changes, or where no edited version comes under its id.   *)
THEOREM WindowsStayMarked ==
  (Source = "history" \/ ~Edits) /\ WindowsSpec => []WindowsInv
<1> SUFFICES ASSUME Source = "history" \/ ~Edits PROVE WindowsSpec => []WindowsInv
  OBVIOUS
<1>1. WindowsInit => WindowsInv
  BY WindowsStart
<1>2. WindowsInv /\ [WindowsNext]_windowVars => WindowsInv'
  <2> SUFFICES ASSUME WindowsInv, [WindowsNext]_windowVars PROVE WindowsInv'
    OBVIOUS
  <2>1. CASE Appends
    BY <2>1, AppendsKeepsWindows
  <2>2. CASE Compacts
    BY <2>2, CompactsKeepsWindows
  <2>3. ASSUME NEW s \in Slots, NEW f \in Functions, Begins(s, f) PROVE WindowsInv'
    BY <2>3, BeginsKeepsWindows
  <2>4. ASSUME NEW s \in Slots, Shows(s) PROVE WindowsInv'
    BY <2>4, ShowsKeepsWindows
  <2>5. ASSUME NEW s \in Slots, Reports(s) PROVE WindowsInv'
    BY <2>5, ReportsKeepsWindows
  <2>6. ASSUME NEW s \in Slots, StepFails(s) PROVE WindowsInv'
    BY <2>6, StepFailsKeepsWindows
  <2>7. ASSUME NEW n \in 0 .. MaxTurns, Cuts(n) PROVE WindowsInv'
    BY <2>7, WindowsStutter DEF Cuts
  <2>8. CASE UNCHANGED windowVars
    BY <2>8, WindowsStutter DEF windowVars
  <2> QED
    BY <2>1, <2>2, <2>3, <2>4, <2>5, <2>6, <2>7, <2>8 DEF WindowsNext
<1> QED
  BY <1>1, <1>2, PTL DEF WindowsSpec

(* No message of a list goes unseen by a function that is shown the list:  *)
(* each is shown now or was at a step it reported on, however steps run    *)
(* at once, fail or report (NewSinceLastReport), over a history, or over a *)
(* list that holds no edited version under another message's id.           *)
THEOREM NothingIsLeftUnseen ==
  (Source = "history" \/ ~Edits) /\ WindowsSpec => []NothingGoesUnseen
<1>1. WindowsInv => NothingGoesUnseen
  <2> SUFFICES ASSUME WindowsInv, NEW s \in Slots, running[s].at = "shown",
                      NEW m \in Range(running[s].held)
               PROVE  m.number \in ShownAt(s) \cup reported[running[s].function]
    BY DEF NothingGoesUnseen
  <2> DEFINE held == running[s].held
  <2>1. /\ ListsOK /\ held \in ListsNow /\ running[s].start \in Nat
        /\ \A i \in 1 .. running[s].start : held[i].number \in reported[running[s].function]
    BY DEF WindowsInv, WindowsTypes, RunningTyped, ShownOK, ListsNow
  <2>2. DOMAIN held = 1 .. Len(held) /\ Len(held) \in Nat
    BY <2>1, WindowIs
  <2>3. PICK i \in DOMAIN held : m = held[i]
    BY DEF Range
  <2>4. CASE i > running[s].start
    BY <2>3, <2>4 DEF ShownAt
  <2>5. CASE ~(i > running[s].start)
    <3>1. i \in 1 .. running[s].start
      BY <2>1, <2>2, <2>5
    <3> QED
      BY <2>1, <2>3, <3>1
  <2> QED
    BY <2>4, <2>5
<1> QED
  BY <1>1, WindowsStayMarked, PTL

(* Where one step runs at a time, what it shows is after its function's    *)
(* mark as it is, and in a history all that the function was shown with an *)
(* id is up to that mark, and in every list that a step holds.             *)
InHistory(f) ==
  /\ marks[f] # NoMark => /\ marks[f].length <= Len(conversation)
                          /\ \A s \in Slots : running[s].at # "idle" => marks[f].length <= Len(running[s].held)
  /\ \A n \in reported[f] :
       /\ n \in 1 .. Len(conversation)
       /\ \A s \in Slots : running[s].at # "idle" => n <= Len(running[s].held)
       /\ conversation[n].id # NoId => marks[f] # NoMark /\ n <= marks[f].length
FromMark(s) ==
  running[s].at = "shown" =>
    /\ running[s].start = Resumed(running[s].held, marks[running[s].function]).after
    /\ running[s].mark = MarkOf(running[s].held, marks[running[s].function])
OneInv ==
  One => /\ \A s \in Slots : FromMark(s)
         /\ Source = "history" => \A f \in Functions : InHistory(f)

(* Each list a step holds is what the history began with.                  *)
LEMMA HistoryHolds ==
  ASSUME WindowsInv, Source = "history", NEW l \in ListsNow
  PROVE  /\ Len(conversation) \in Nat /\ Len(l) \in Nat /\ Len(l) <= Len(conversation)
         /\ DOMAIN l = 1 .. Len(l) /\ \A i \in DOMAIN l : l[i] = conversation[i] /\ l[i].number = i
<1>1. ListsOK /\ messagesSent \in Nat /\ conversation \in ListsNow
  BY DEF WindowsInv, WindowsTypes, ListsNow
<1>2. /\ Len(l) \in Nat /\ DOMAIN l = 1 .. Len(l)
      /\ \A i \in DOMAIN l : l[i].number = i /\ l[i].number <= messagesSent
  BY <1>1, WindowIs
<1>3. /\ Len(conversation) \in Nat /\ DOMAIN conversation = 1 .. Len(conversation)
      /\ \A i \in DOMAIN conversation : conversation[i].number = i
  BY <1>1, WindowIs
<1>4. messagesSent = Len(conversation)
  <2>1. CASE conversation = <<>>
    BY <1>1, <2>1, EmptyWindow DEF ListsOK
  <2>2. CASE conversation # <<>>
    <3>1. Len(conversation) \in DOMAIN conversation
      <4>1. conversation \in Seq(Message)
        BY <1>1, WindowIs
      <4>2. Len(conversation) # 0
        BY <2>2, <4>1
      <4> QED
        BY <1>3, <4>2
    <3>2. conversation[Len(conversation)].number = messagesSent
      BY <1>1, <2>2 DEF ListsOK
    <3> QED
      BY <1>3, <3>1, <3>2
  <2> QED
    BY <2>1, <2>2
<1>5. Len(l) <= Len(conversation)
  <2>1. CASE Len(l) = 0
    BY <1>3, <2>1
  <2>2. CASE Len(l) # 0
    <3>1. Len(l) \in DOMAIN l
      BY <1>2, <2>2
    <3> QED
      BY <1>2, <1>4, <3>1
  <2> QED
    BY <2>1, <2>2
<1>6. ASSUME NEW i \in DOMAIN l PROVE l[i] = conversation[i]
  <2>1. i \in DOMAIN conversation /\ l[i].number = conversation[i].number
    BY <1>2, <1>3, <1>5
  <2>2. Alike(l, conversation)
    BY <1>1 DEF ListsOK
  <2> QED
    BY <2>1, <2>2 DEF Alike
<1> QED
  BY <1>2, <1>3, <1>5, <1>6

(* That holds at first, and each operation keeps it.                       *)
LEMMA OneStart == ASSUME WindowsInit PROVE OneInv
<1>1. /\ running = [s \in Slots |-> Idle] /\ marks = [f \in Functions |-> NoMark]
      /\ reported = [f \in Functions |-> {}]
  BY DEF WindowsInit
<1>2. \A s \in Slots : running[s].at = "idle"
  BY <1>1, IdleIsTyped DEF IdleIs
<1>3. \A f \in Functions : marks[f] = NoMark /\ reported[f] = {}
  BY <1>1
<1> QED
  BY <1>2, <1>3 DEF OneInv, FromMark, InHistory

LEMMA AppendsKeepsOne == ASSUME WindowsInv, OneInv, Appends PROVE OneInv'
<1>1. running' = running /\ marks' = marks /\ reported' = reported
  BY DEF Appends
<1>2. PICK message : conversation' = Append(conversation, message)
  BY DEF Appends
<1>3. conversation \in Seq(Message) /\ Len(conversation) \in Nat
  <2>1. conversation \in ListsNow /\ ListsOK
    BY DEF ListsNow, WindowsInv
  <2> QED
    BY <2>1, WindowIs
<1>4. Len(conversation') = Len(conversation) + 1 /\ \A i \in 1 .. Len(conversation) : conversation'[i] = conversation[i]
  BY <1>2, <1>3
<1>5. SUFFICES ASSUME One PROVE OneInv'
  BY DEF OneInv, One
<1>6. \A s \in Slots : FromMark(s)'
  BY <1>1, <1>5 DEF OneInv, FromMark
<1>7. ASSUME Source = "history", NEW f \in Functions PROVE InHistory(f)'
  <2>1. InHistory(f)
    BY <1>5, <1>7 DEF OneInv
  <2>2. marks[f].length \in Nat
    BY DEF WindowsInv, WindowsTypes, Mark
  <2>3. marks[f].length <= Len(conversation) => marks[f].length <= Len(conversation')
    BY <1>3, <1>4, <2>2
  <2>4. \A n \in 1 .. Len(conversation) : n \in 1 .. Len(conversation') /\ conversation'[n] = conversation[n]
    BY <1>3, <1>4
  <2> QED
    BY <1>1, <2>1, <2>3, <2>4 DEF InHistory
<1> QED
  BY <1>6, <1>7 DEF OneInv

LEMMA OneStutter ==
  ASSUME OneInv, running' = running, marks' = marks, reported' = reported,
         Source = "history" => conversation' = conversation
  PROVE  OneInv'
BY DEF OneInv, One, FromMark, InHistory

(* A step that changes where only it runs.                                 *)
LEMMA StepKeepsOne ==
  ASSUME WindowsInv, OneInv, NEW s \in Slots, FromMark(s)', conversation' = conversation,
         marks' = marks, reported' = reported,
         Source = "history" /\ running'[s].at # "idle" =>
           (running[s].at # "idle" /\ running'[s].held = running[s].held) \/ running'[s].held = conversation
  PROVE  OneInv'
<1> SUFFICES ASSUME One PROVE OneInv'
  BY DEF OneInv, One
<1>1. \A t \in Slots : t = s
  BY DEF One
<1>2. \A t \in Slots : FromMark(t)'
  BY <1>1
<1>3. ASSUME Source = "history", NEW f \in Functions PROVE InHistory(f)'
  <2>1. InHistory(f)
    BY <1>3 DEF OneInv
  <2>2. /\ marks[f] # NoMark /\ running'[s].at # "idle" => marks[f].length <= Len(running'[s].held)
        /\ \A n \in reported[f] : running'[s].at # "idle" => n <= Len(running'[s].held)
    BY <1>3, <2>1 DEF InHistory
  <2> QED
    BY <1>1, <2>1, <2>2 DEF InHistory
<1> QED
  BY <1>2, <1>3 DEF OneInv

LEMMA ReportsKeepsOne == ASSUME WindowsInv, OneInv, NEW s \in Slots, Reports(s) PROVE OneInv'
<1> SUFFICES ASSUME One PROVE OneInv'
  BY DEF OneInv, One
<1>1. PICK f \in Functions : f = running[s].function
  BY DEF Reports, WindowsInv, WindowsTypes, RunningTyped
<1>2. PICK held \in ListsNow : held = running[s].held
  BY DEF ListsNow
<1>3. PICK mark : mark = running[s].mark
  OBVIOUS
<1>4. /\ running[s].at = "shown" /\ running' = [running EXCEPT ![s] = Idle]
      /\ marks' = IF mark = NoMark THEN marks ELSE [marks EXCEPT ![f] = mark]
      /\ reported' = [reported EXCEPT ![f] = @ \cup ShownAt(s)]
      /\ conversation' = conversation
  BY <1>1, <1>3 DEF Reports
<1>5. running'[s].at = "idle" /\ \A t \in Slots : t = s
  <2>1. running'[s] = Idle
    BY <1>4 DEF WindowsInv, WindowsTypes, RunningTyped
  <2> QED
    BY <2>1, IdleIsTyped DEF IdleIs, One
<1>6. \A t \in Slots : FromMark(t)'
  BY <1>5 DEF FromMark
<1>7. ASSUME Source = "history", NEW g \in Functions PROVE InHistory(g)'
  <2>1. InHistory(g) /\ InHistory(f)
    BY <1>7 DEF OneInv
  <2>2. /\ Len(conversation) \in Nat /\ Len(held) \in Nat /\ Len(held) <= Len(conversation)
        /\ DOMAIN held = 1 .. Len(held) /\ \A i \in DOMAIN held : held[i] = conversation[i] /\ held[i].number = i
    BY <1>7, HistoryHolds
  <2>3. CASE g # f
    <3>1. marks'[g] = marks[g] /\ reported'[g] = reported[g]
      BY <1>4, <2>3 DEF WindowsInv, WindowsTypes
    <3> QED
      BY <1>4, <1>5, <2>1, <3>1 DEF InHistory
  <2>4. CASE g = f
    <3>1. /\ reported'[f] = reported[f] \cup ShownAt(s)
          /\ marks'[f] = IF mark = NoMark THEN marks[f] ELSE mark
      BY <1>4 DEF WindowsInv, WindowsTypes
    <3>2. ASSUME NEW n \in reported'[f] PROVE n \in DOMAIN held
      <4>1. CASE n \in reported[f]
        BY <1>2, <1>4, <2>1, <2>2, <4>1 DEF InHistory
      <4>2. CASE n \in ShownAt(s)
        BY <1>2, <2>2, <4>2 DEF ShownAt
      <4> QED
        BY <3>1, <3>2, <4>1, <4>2
    <3>3. IsMarked(marks[f]) /\ held \in Seq(Message) /\ mark = MarkOf(held, marks[f])
      <4>1. FromMark(s)
        BY DEF OneInv
      <4> QED
        BY <1>1, <1>2, <1>3, <1>4, <4>1, WindowIs DEF WindowsInv, GoodMark, FromMark
    <3>4. /\ mark = NoMark => \A i \in DOMAIN held : held[i].id = NoId
          /\ mark # NoMark => \E q \in DOMAIN held : LastWithId(held, q) /\ mark.length = q
      BY <3>3, MarkIs
    <3>5. ASSUME NEW n \in DOMAIN held, held[n].id # NoId PROVE mark # NoMark /\ n <= mark.length
      BY <3>4, <3>5 DEF LastWithId
    <3>6. mark # NoMark => mark.length <= Len(conversation)
      <4> SUFFICES ASSUME mark # NoMark PROVE mark.length <= Len(conversation)
        OBVIOUS
      <4>1. PICK q \in DOMAIN held : mark.length = q
        BY <3>4
      <4> QED
        BY <2>2, <4>1
    <3>7. marks'[f] # NoMark => marks'[f].length <= Len(conversation)
      BY <2>1, <3>1, <3>6 DEF InHistory
    <3>8. ASSUME NEW n \in reported'[f]
          PROVE  /\ n \in 1 .. Len(conversation)
                 /\ conversation[n].id # NoId => marks'[f] # NoMark /\ n <= marks'[f].length
      <4>1. n \in DOMAIN held
        BY <3>2
      <4> QED
        BY <2>2, <3>1, <3>5, <4>1
    <3> QED
      BY <1>4, <1>5, <2>4, <3>7, <3>8 DEF InHistory
  <2> QED
    BY <2>3, <2>4
<1> QED
  BY <1>6, <1>7 DEF OneInv

LEMMA WindowsStayOne ==
  (Source = "history" \/ ~Edits) /\ WindowsSpec => [](WindowsInv /\ OneInv)
<1>1. WindowsInit => OneInv
  BY OneStart
<1>2. WindowsInv /\ OneInv /\ [WindowsNext]_windowVars => OneInv'
  <2> SUFFICES ASSUME WindowsInv, OneInv, [WindowsNext]_windowVars PROVE OneInv'
    OBVIOUS
  <2>1. CASE Appends
    BY <2>1, AppendsKeepsOne
  <2>2. CASE Compacts
    <3>1. Source # "history" /\ running' = running /\ marks' = marks /\ reported' = reported
      BY <2>2 DEF Compacts
    <3> QED
      BY <3>1, OneStutter
  <2>3. ASSUME NEW s \in Slots, NEW f \in Functions, Begins(s, f) PROVE OneInv'
    <3>1. /\ running'[s].at = "begun" /\ running'[s].held = conversation
          /\ conversation' = conversation /\ marks' = marks /\ reported' = reported
      BY <2>3, BeginsIs
    <3>2. FromMark(s)'
      BY <3>1 DEF FromMark
    <3> QED
      BY <3>1, <3>2, StepKeepsOne
  <2>4. ASSUME NEW s \in Slots, Shows(s) PROVE OneInv'
    <3>1. PICK f \in Functions, held \in ListsNow :
           /\ f = running[s].function /\ held = running[s].held /\ running[s].at = "begun"
           /\ running' = [running EXCEPT ![s] =
                [at |-> "shown", function |-> f, held |-> held,
                 start |-> Resumed(held, marks[f]).after, mark |-> MarkOf(held, marks[f])]]
           /\ marks' = marks /\ reported' = reported
           /\ conversation' = conversation /\ messagesSent' = messagesSent
      BY <2>4, ShowsIs
    <3>2. running'[s] = [at |-> "shown", function |-> f, held |-> held,
                         start |-> Resumed(held, marks[f]).after, mark |-> MarkOf(held, marks[f])]
      BY <3>1 DEF WindowsInv, WindowsTypes, RunningTyped
    <3>3. FromMark(s)' /\ running[s].at # "idle" /\ running'[s].held = running[s].held
      BY <3>1, <3>2 DEF FromMark
    <3> QED
      BY <3>1, <3>3, StepKeepsOne
  <2>5. ASSUME NEW s \in Slots, Reports(s) PROVE OneInv'
    BY <2>5, ReportsKeepsOne
  <2>6. ASSUME NEW s \in Slots, StepFails(s) PROVE OneInv'
    <3>1. running'[s] = Idle /\ conversation' = conversation /\ marks' = marks /\ reported' = reported
      BY <2>6 DEF StepFails, WindowsInv, WindowsTypes, RunningTyped
    <3>2. running'[s].at = "idle"
      BY <3>1, IdleIsTyped DEF IdleIs
    <3>3. FromMark(s)'
      BY <3>2 DEF FromMark
    <3> QED
      BY <3>1, <3>2, <3>3, StepKeepsOne
  <2>7. ASSUME NEW n \in 0 .. MaxTurns, Cuts(n) PROVE OneInv'
    BY <2>7, OneStutter DEF Cuts
  <2>8. CASE UNCHANGED windowVars
    BY <2>8, OneStutter DEF windowVars
  <2> QED
    BY <2>1, <2>2, <2>3, <2>4, <2>5, <2>6, <2>7, <2>8 DEF WindowsNext
<1> QED
  BY <1>1, <1>2, WindowsStayMarked, PTL DEF WindowsSpec

(* One step at a time.                                                     *)
LEMMA OneSlot == ASSUME IsFiniteSet(Slots), Cardinality(Slots) = 1 PROVE One
<1>1. PICK s : Slots = {s}
  BY FS_Singleton
<1> QED
  BY <1>1 DEF One

(* Where one step runs at a time over the history, what a function reported*)
(* on is not shown to it again, but for messages with no id after the last *)
(* with one ("does not re-read its conversations", NewSinceLastReport).    *)
THEOREM NothingIsReadAgain ==
  WindowsAssumption /\ WindowsSpec => []NothingIsReread
<1>1. ASSUME WindowsAssumption, WindowsInv, OneInv, Source = "history", Cardinality(Slots) = 1,
             NEW s \in Slots, running[s].at = "shown", NEW i \in DOMAIN running[s].held,
             running[s].held[i].number \in ShownAt(s) \cap reported[running[s].function]
      PROVE  running[s].held[i].id = NoId
  <2>1. One
    BY <1>1, OneSlot DEF WindowsAssumption
  <2>2. PICK f \in Functions : f = running[s].function
    BY <1>1 DEF WindowsInv, WindowsTypes, RunningTyped
  <2>3. PICK held \in ListsNow : held = running[s].held
    BY DEF ListsNow
  <2>4. PICK mark : mark = marks[f]
    OBVIOUS
  <2>5. running[s].start = Resumed(held, mark).after /\ InHistory(f) /\ GoodMark(mark)
    BY <1>1, <2>1, <2>2, <2>3, <2>4 DEF OneInv, FromMark, WindowsInv
  <2>6. /\ Len(held) \in Nat /\ DOMAIN held = 1 .. Len(held) /\ Len(conversation) \in Nat
        /\ \A j \in DOMAIN held : held[j] = conversation[j] /\ held[j].number = j
    BY <1>1, <2>3, HistoryHolds
  <2>7. i \in reported[f] /\ i > running[s].start
    <3>1. i \in reported[f] /\ i \in ShownAt(s)
      BY <1>1, <2>2, <2>3, <2>6
    <3>2. PICK j \in DOMAIN held : j > running[s].start /\ i = held[j].number
      BY <2>3, <3>1 DEF ShownAt
    <3> QED
      BY <2>6, <3>1, <3>2
  <2>8. SUFFICES ASSUME held[i].id # NoId PROVE FALSE
    BY <2>3
  <2>9. mark # NoMark /\ i <= mark.length /\ mark.length <= Len(held)
    BY <1>1, <2>3, <2>4, <2>5, <2>6, <2>7, <2>8 DEF InHistory
  <2>10. /\ mark.length = mark.number /\ mark.number \in 1 .. messagesSent /\ mark.length \in Nat
         /\ \A j \in DOMAIN held : held[j].number = mark.number => held[j].id = mark.id
    BY <1>1, <2>5, <2>9 DEF GoodMark, IsMarked, Mark
  <2>11. mark.length \in DOMAIN held /\ held[mark.length].id = mark.id
    BY <2>6, <2>9, <2>10
  <2>12. Resumed(held, mark).after = mark.length
    BY <1>1, <2>9, <2>11 DEF Resumed
  <2>13. i \in Nat /\ mark.length \in Nat
    BY <1>1, <2>3, <2>6, <2>10
  <2> QED
    BY <2>5, <2>7, <2>9, <2>12, <2>13
<1>2. WindowsAssumption /\ WindowsInv /\ OneInv => NothingIsReread
  BY <1>1 DEF NothingIsReread
<1>3. CASE Source = "history"
  <2> SUFFICES ASSUME WindowsAssumption PROVE WindowsSpec => []NothingIsReread
    OBVIOUS
  <2>1. WindowsSpec => [](WindowsInv /\ OneInv)
    BY <1>3, WindowsStayOne
  <2>2. WindowsInv /\ OneInv => NothingIsReread
    BY <1>2
  <2> QED
    BY <2>1, <2>2, PTL
<1>4. CASE Source # "history"
  <2>1. NothingIsReread
    BY <1>4 DEF NothingIsReread
  <2> QED
    BY <2>1, PTL
<1> QED
  BY <1>3, <1>4

(* "A list that no longer holds that copy, as after a compaction, is shown *)
(* whole" (_preprocess.py:447), where one step runs at a time, and no list *)
(* but the history holds an edited version under another message's id.     *)
THEOREM WhatIsGoneIsShownWhole ==
  WindowsAssumption /\ (Source = "history" \/ ~Edits) /\ WindowsSpec => []GoneIsShownWhole
<1>1. ASSUME WindowsAssumption, WindowsInv, OneInv, Source = "history" \/ ~Edits, Cardinality(Slots) = 1,
             NEW s \in Slots, NEW f, f = running[s].function, NEW held, held = running[s].held,
             NEW mark, mark = marks[f], running[s].at = "shown", mark # NoMark,
             mark.number \notin {m.number : m \in Range(held)}
      PROVE  running[s].start = 0
  <2>1. One
    BY <1>1, OneSlot DEF WindowsAssumption
  <2>2. f \in Functions /\ held \in ListsNow /\ ListsOK
    BY <1>1 DEF WindowsInv, WindowsTypes, RunningTyped, ListsNow
  <2>3. running[s].start = Resumed(held, mark).after
    BY <1>1, <2>1 DEF OneInv, FromMark
  <2>4. /\ IsMarked(mark) /\ mark.number \in 1 .. messagesSent /\ mark.length \in Nat /\ mark.id # NoId
        /\ Source = "history" => mark.length = mark.number
        /\ ~Edits => mark.id = mark.number
    <3>1. GoodMark(mark)
      BY <1>1, <2>2 DEF WindowsInv
    <3> QED
      BY <1>1, <3>1 DEF GoodMark, IsMarked, Mark
  <2>5. \A j \in DOMAIN held : held[j].number # mark.number
    BY <1>1 DEF Range
  <2>6. CASE Source = "history"
    <3>1. InHistory(f)
      BY <1>1, <2>1, <2>2, <2>6 DEF OneInv
    <3>2. mark.length <= Len(held)
      BY <1>1, <3>1 DEF InHistory
    <3>3. Len(held) \in Nat /\ DOMAIN held = 1 .. Len(held) /\ \A j \in DOMAIN held : held[j].number = j
      BY <1>1, <2>2, <2>6, HistoryHolds
    <3>4. mark.length \in DOMAIN held
      BY <2>4, <2>6, <3>2, <3>3
    <3>5. held[mark.length].number = mark.number
      BY <2>4, <2>6, <3>3, <3>4
    <3> QED
      BY <2>5, <3>4, <3>5
  <2>7. CASE Source # "history"
    <3>1. held \in Seq(Message) /\ \A j \in DOMAIN held : held[j].id \in {NoId, held[j].number}
      BY <1>1, <2>2, <2>7, WindowIs
    <3>2. Resumed(held, mark).after \in {0} \cup Positions(held, mark.id)
      BY <1>1, <2>4, <2>7, <3>1, ResumedIs
    <3>3. Positions(held, mark.id) = {}
      <4>1. \A j \in DOMAIN held : held[j].id # mark.id
        BY <1>1, <2>4, <2>5, <2>7, <3>1
      <4> QED
        BY <4>1 DEF Positions
    <3> QED
      BY <2>3, <3>2, <3>3
  <2> QED
    BY <2>6, <2>7
<1>2. SUFFICES ASSUME WindowsAssumption, Source = "history" \/ ~Edits
              PROVE  WindowsSpec => []GoneIsShownWhole
  OBVIOUS
<1>3. WindowsSpec => [](WindowsInv /\ OneInv)
  BY <1>2, WindowsStayOne
<1>4. WindowsInv /\ OneInv => GoneIsShownWhole
  BY <1>1, <1>2 DEF GoneIsShownWhole
<1> QED
  BY <1>3, <1>4, PTL
==============================================================================
