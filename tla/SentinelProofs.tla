--------------------------- MODULE SentinelProofs ---------------------------
(***************************************************************************)
(* Theorems about the parts of a sentinel: a step of the runner, for every *)
(* tree of instances; sequential() and the votes of its links, for chains  *)
(* of any length, any number of decisions and any choices offered; and the *)
(* thresholds of threshold(), for any monitors, keys, dimensions, limits   *)
(* and scores.                                                             *)
(***************************************************************************)
EXTENDS Runner, Compositions, Threshold, FiniteSetTheorems, SequenceTheorems,
        WellFoundedInduction, TLAPS

(* g is a member of the same instance as f, and runs before it.            *)
Before(g, f) ==
  \E i \in Instances : \E k, l \in DOMAIN Members[i] :
    k < l /\ g = Members[i][k] /\ f = Members[i][l]

(* The members of an instance are in one order, from its first to its last.*)
LEMMA FirstIsFirst ==
  ASSUME NEW i \in Instances
  PROVE  /\ First(i) \in Functions /\ InstanceOf[First(i)] = i
         /\ Last(i) \in Functions /\ InstanceOf[Last(i)] = i
         /\ \A g : ~Before(g, First(i))
<1>1. 1 \in DOMAIN Members[i] /\ Len(Members[i]) \in DOMAIN Members[i]
  BY RunnerAssumption DEF MembersAssumption
<1>2. \A k \in DOMAIN Members[i] : Members[i][k] \in Functions /\ InstanceOf[Members[i][k]] = i
  BY RunnerAssumption DEF MembersAssumption
<1>3. ASSUME NEW j \in Instances, NEW k \in DOMAIN Members[j], NEW l \in DOMAIN Members[j],
             k < l, First(i) = Members[j][l]
      PROVE  FALSE
  <2>1. InstanceOf[Members[j][l]] = j
    BY RunnerAssumption DEF MembersAssumption
  <2>2. j = i
    BY <1>1, <1>2, <1>3, <2>1 DEF First
  <2>3. l = 1
    BY <1>1, <1>3, <2>2, RunnerAssumption DEF MembersAssumption, First
  <2> QED
    BY <1>3, <2>3, RunnerAssumption DEF MembersAssumption
<1> QED
  BY <1>1, <1>2, <1>3 DEF First, Last, Before

LEMMA BeforeIsAnOrder ==
  ASSUME NEW f \in Functions, NEW g \in Functions
  PROVE  /\ Before(g, f) => InstanceOf[g] = InstanceOf[f] /\ g # f /\ ~Before(f, g)
         /\ InstanceOf[g] = InstanceOf[f] => g = f \/ Before(g, f) \/ Before(f, g)
         /\ f = Last(InstanceOf[f]) \/ Before(f, Last(InstanceOf[f]))
<1>1. PICK k \in DOMAIN Members[InstanceOf[f]] : Members[InstanceOf[f]][k] = f
  BY RunnerAssumption DEF MembersAssumption
<1>2. PICK l \in DOMAIN Members[InstanceOf[g]] : Members[InstanceOf[g]][l] = g
  BY RunnerAssumption DEF MembersAssumption
<1>3. InstanceOf[f] \in Instances /\ InstanceOf[g] \in Instances
  BY RunnerAssumption DEF MembersAssumption
<1>4. \A i \in Instances : /\ DOMAIN Members[i] = 1..Len(Members[i])
                           /\ Len(Members[i]) \in Nat \ {0}
  BY RunnerAssumption DEF MembersAssumption
<1>5. \A i \in Instances : \A m, n \in DOMAIN Members[i] :
        InstanceOf[Members[i][m]] = i /\ (Members[i][m] = Members[i][n] => m = n)
  BY RunnerAssumption DEF MembersAssumption
<1>6. ASSUME NEW x \in Functions, NEW y \in Functions, Before(x, y)
      PROVE  \E i \in Instances : \E m, n \in DOMAIN Members[i] :
               /\ m < n /\ x = Members[i][m] /\ y = Members[i][n]
               /\ InstanceOf[x] = i /\ InstanceOf[y] = i
  BY <1>5, <1>6 DEF Before
<1>7. Before(g, f) => InstanceOf[g] = InstanceOf[f] /\ g # f /\ ~Before(f, g)
  <2> SUFFICES ASSUME Before(g, f) PROVE InstanceOf[g] = InstanceOf[f] /\ g # f /\ ~Before(f, g)
    OBVIOUS
  <2>1. PICK i \in Instances : \E m, n \in DOMAIN Members[i] :
               /\ m < n /\ g = Members[i][m] /\ f = Members[i][n]
               /\ InstanceOf[g] = i /\ InstanceOf[f] = i
    BY <1>6
  <2>2. PICK m \in DOMAIN Members[i], n \in DOMAIN Members[i] :
               m < n /\ g = Members[i][m] /\ f = Members[i][n]
    BY <2>1
  <2>3. m # n /\ g # f
    BY <1>4, <1>5, <2>2
  <2>4. ASSUME Before(f, g) PROVE FALSE
    <3>1. PICK j \in Instances : \E p, q \in DOMAIN Members[j] :
               /\ p < q /\ f = Members[j][p] /\ g = Members[j][q] /\ InstanceOf[f] = j
      BY <1>6, <2>4
    <3>2. PICK p \in DOMAIN Members[j], q \in DOMAIN Members[j] :
               p < q /\ f = Members[j][p] /\ g = Members[j][q]
      BY <3>1
    <3>3. j = i
      BY <2>1, <3>1
    <3>4. /\ p \in DOMAIN Members[i] /\ Members[i][p] = Members[i][n]
          /\ q \in DOMAIN Members[i] /\ Members[i][q] = Members[i][m]
      BY <2>2, <3>2, <3>3
    <3>5. p = n /\ q = m
      BY <1>5, <3>4
    <3> QED
      BY <1>4, <2>2, <3>2, <3>3, <3>5
  <2> QED
    BY <2>1, <2>3, <2>4
<1>8. InstanceOf[g] = InstanceOf[f] => g = f \/ Before(g, f) \/ Before(f, g)
  BY <1>1, <1>2, <1>3, <1>4 DEF Before
<1>9. f = Last(InstanceOf[f]) \/ Before(f, Last(InstanceOf[f]))
  <2>1. Len(Members[InstanceOf[f]]) \in DOMAIN Members[InstanceOf[f]]
        /\ (k = Len(Members[InstanceOf[f]]) \/ k < Len(Members[InstanceOf[f]]))
    BY <1>1, <1>3, <1>4
  <2> QED
    BY <1>1, <1>3, <2>1 DEF Before, Last
<1> QED
  BY <1>7, <1>8, <1>9

(* What runs after f runs after all that f runs after.                     *)
LEMMA AfterIsNext ==
  ASSUME NEW f \in Functions, NEW g \in After(f)
  PROVE  /\ g \in Functions /\ InstanceOf[g] = InstanceOf[f] /\ Before(f, g)
         /\ \A h : Before(h, g) => h = f \/ Before(h, f)
<1> DEFINE i == InstanceOf[f]
<1>1. PICK k \in DOMAIN Members[i] : k > 1 /\ Members[i][k - 1] = f /\ g = Members[i][k]
  BY DEF After
<1>2. i \in Instances /\ DOMAIN Members[i] = 1..Len(Members[i]) /\ Members[i] \in Seq(Functions)
  BY RunnerAssumption DEF MembersAssumption
<1>3. k - 1 \in DOMAIN Members[i] /\ k - 1 < k
  BY <1>1, <1>2
<1>4. g \in Functions /\ InstanceOf[g] = i
  BY <1>1, <1>2, RunnerAssumption DEF MembersAssumption
<1>5. Before(f, g)
  BY <1>1, <1>2, <1>3 DEF Before
<1>6. ASSUME NEW h, Before(h, g) PROVE h = f \/ Before(h, f)
  <2>1. PICK j \in Instances : \E m, n \in DOMAIN Members[j] :
               m < n /\ h = Members[j][m] /\ g = Members[j][n]
    BY <1>6 DEF Before
  <2>2. PICK m \in DOMAIN Members[j], n \in DOMAIN Members[j] :
               m < n /\ h = Members[j][m] /\ g = Members[j][n]
    BY <2>1
  <2>3. j = i
    BY <1>4, <2>2, RunnerAssumption DEF MembersAssumption
  <2>4. n = k
    <3>1. n \in DOMAIN Members[i] /\ Members[i][n] = Members[i][k]
      BY <1>1, <2>2, <2>3
    <3> QED
      BY <1>2, <3>1, RunnerAssumption DEF MembersAssumption
  <2>5. m = k - 1 \/ m < k - 1
    BY <1>2, <2>2, <2>3, <2>4
  <2> QED
    BY <1>1, <1>2, <1>3, <2>2, <2>3, <2>5 DEF Before
<1> QED
  BY <1>4, <1>5, <1>6

(* The root is the one function that nothing calls.                        *)
LEMMA RootHasNoCaller ==
  ASSUME NEW f \in Functions
  PROVE  /\ Caller[InstanceOf[f]] = "nobody" <=> f = First("R")
         /\ f # First("R") => Caller[InstanceOf[f]] \in Functions
<1>1. InstanceOf[f] \in Instances /\ First("R") \in Functions /\ InstanceOf[First("R")] = "R"
  BY FirstIsFirst, RunnerAssumption DEF MembersAssumption, CallerAssumption
<1>2. InstanceOf[f] = "R" => f = First("R")
  <2> SUFFICES ASSUME InstanceOf[f] = "R" PROVE f = First("R")
    OBVIOUS
  <2>1. PICK k \in DOMAIN Members["R"] : Members["R"][k] = f
    BY RunnerAssumption DEF MembersAssumption
  <2>2. DOMAIN Members["R"] = 1..1
    BY RunnerAssumption DEF MembersAssumption, CallerAssumption
  <2> QED
    BY <2>1, <2>2 DEF First
<1> QED
  BY <1>1, <1>2, RunnerAssumption DEF CallerAssumption

LEMMA MembersShareWhatIsAbove ==
  ASSUME NEW f \in Functions, NEW g \in Functions, InstanceOf[f] = InstanceOf[g]
  PROVE  Above[f] = Above[g]
<1> DEFINE Over(c) == IF c = "nobody" THEN {} ELSE {c} \cup Above[c]
<1>1. Above[f] = Over(Caller[InstanceOf[f]]) /\ Above[g] = Over(Caller[InstanceOf[g]])
  BY RunnerAssumption DEF AboveAssumption
<1> HIDE DEF Over
<1> QED
  BY <1>1

(* What a caller runs is under it, and under what it is under.             *)
LEMMA UnderItsCaller ==
  ASSUME NEW f \in Functions, NEW c \in Functions, Caller[InstanceOf[f]] = c
  PROVE  Above[f] = {c} \cup Above[c]
BY RunnerAssumption DEF AboveAssumption, CallerAssumption

-----------------------------------------------------------------------------
(* A function is at work, or ended without an exception or a terminate.    *)
Active(f) == status[f] \in {"running", "waiting"}
Quiet(f)  == status[f] \in {"reported", "abstained", "failed"} /\ ~Terminated(f)

(* What may arrive in a batch.                                             *)
Exceptions == [kind : {"error", "final"}, by : Functions]

(* Every variable has a value of its type.                                 *)
Typed ==
  /\ TypeOK
  /\ called \in [Functions -> Nat]
  /\ returnedBy \in [Functions -> Functions]
  /\ arrived \in [Functions -> Seq(Exceptions)]
  /\ settled \in [Functions -> Nat]

(* A member runs only once those before it ended quietly.                  *)
Turns ==
  \A f, g \in Functions : Before(g, f) /\ status[f] # "idle" => Quiet(g)

(* What is above a function at work waits for it, and it is of the batch   *)
(* its caller waits for.                                                   *)
Waits ==
  \A f \in Functions : Active(f) => \A g \in Above[f] : status[g] = "waiting"
InBatch ==
  \A f, c \in Functions : Active(f) /\ Caller[InstanceOf[f]] = c =>
    called[c] \in DOMAIN Batches[c] /\ InstanceOf[f] \in Batch(c)

(* Nothing of a batch that was not called has run.                         *)
Uncalled ==
  \A f, m \in Functions : \A k \in DOMAIN Batches[f] :
    k > called[f] /\ InstanceOf[m] \in Batches[f][k] => status[m] = "idle"

(* The step is over when its root is.                                      *)
OverWithRoot == outcome # "running" => Ended(First("R"))

Shape == Typed /\ Turns /\ Waits /\ InBatch /\ Uncalled /\ OverWithRoot

(* An instance with a function at work is not done.                        *)
LEMMA AtWorkIsNotDone ==
  ASSUME Turns, NEW f \in Functions, Active(f)
  PROVE  ~InstanceDone(InstanceOf[f])
<1>1. InstanceOf[f] \in Instances
  BY RunnerAssumption DEF MembersAssumption
<1>2. ~Quiet(f) /\ ~Threw(f) /\ ~Terminated(f) /\ status[f] # "idle" /\ ~Ended(f)
  BY DEF Active, Quiet, Threw, Terminated, Ended, Unended
<1>3. ASSUME NEW g \in Functions, InstanceOf[g] = InstanceOf[f], Threw(g) \/ Terminated(g)
      PROVE  FALSE
  <2>1. ~Quiet(g) /\ status[g] # "idle"
    BY <1>3 DEF Quiet, Threw, Terminated
  <2>2. g # f
    BY <1>2, <1>3
  <2> QED
    BY <1>2, <1>3, <2>1, <2>2, BeforeIsAnOrder DEF Turns
<1>4. ASSUME Ended(Last(InstanceOf[f])) PROVE FALSE
  <2>1. Last(InstanceOf[f]) \in Functions
    BY <1>1, FirstIsFirst
  <2>2. Before(f, Last(InstanceOf[f]))
    BY <1>2, <1>4, BeforeIsAnOrder
  <2> QED
    BY <1>2, <1>4, <2>1, <2>2 DEF Turns, Ended, Unended
<1> QED
  BY <1>3, <1>4 DEF InstanceDone

(* Nothing is at work under a function that runs, or whose batch is over.  *)
Alone(f) == \A h \in Functions : f \in Above[h] => ~Active(h)

LEMMA NothingUnderIt ==
  ASSUME Turns, Waits, InBatch, NEW f \in Functions,
         status[f] = "running" \/ (status[f] = "waiting" /\ BatchOver(f))
  PROVE  Alone(f)
<1> SUFFICES ASSUME NEW h \in Functions, f \in Above[h], Active(h) PROVE FALSE
  BY DEF Alone
<1>1. status[f] = "waiting" /\ BatchOver(f)
  BY DEF Waits
<1>2. PICK g \in {h} \cup Above[h] : Caller[InstanceOf[g]] = f
  BY RunnerAssumption DEF AboveAssumption
<1>3. g \in Functions /\ Active(g)
  BY <1>2, RunnerAssumption DEF Waits, Active, AboveAssumption
<1>4. InstanceOf[g] \in Batch(f)
  BY <1>2, <1>3 DEF InBatch
<1> QED
  BY <1>1, <1>3, <1>4, AtWorkIsNotDone DEF BatchOver

(* What a step does to the functions: f ends, with the next member begun   *)
(* if it ended quietly; f calls a batch; or f goes on.                     *)
Begins(f, g) == status[g] = "idle" /\ status'[g] = "running" /\ g \in After(f) /\ Quiet(f)'

Ends(f) ==
  /\ Active(f) /\ Alone(f) /\ Ended(f)' /\ UNCHANGED called
  /\ \A g \in Functions \ {f} : /\ action'[g] = action[g]
                                /\ status'[g] = status[g] \/ Begins(f, g)
  /\ outcome' = outcome \/ f = First("R")

Starts(f, g) ==
  /\ status[g] = "idle" /\ status'[g] = "running"
  /\ Caller[InstanceOf[g]] = f /\ InstanceOf[g] \in Batches[f][called'[f]]
  /\ g = First(InstanceOf[g])

Calls(f) ==
  /\ status[f] = "running" /\ status'[f] = "waiting"
  /\ called[f] + 1 \in DOMAIN Batches[f] /\ called' = [called EXCEPT ![f] = @ + 1]
  /\ \A g \in Functions \ {f} : status'[g] = status[g] \/ Starts(f, g)
  /\ UNCHANGED <<action, outcome>>

GoesOn(f) ==
  /\ status[f] = "waiting" /\ status'[f] = "running" /\ Alone(f)
  /\ \A g \in Functions \ {f} : status'[g] = status[g]
  /\ UNCHANGED <<called, action, outcome>>

LEMMA QuietStays ==
  ASSUME NEW f \in Functions, Active(f),
         \A g \in Functions \ {f} : /\ action'[g] = action[g]
                                    /\ status'[g] = status[g] \/ status[g] = "idle",
         NEW g \in Functions, Quiet(g)
  PROVE  g # f /\ Quiet(g)'
<1>1. g # f /\ status[g] # "idle"
  BY DEF Active, Quiet
<1>2. action'[g] = action[g] /\ status'[g] = status[g]
  BY <1>1
<1> QED
  BY <1>1, <1>2 DEF Quiet, Terminated

(* An end keeps the shape of the step.                                     *)
LEMMA EndsKeeps ==
  ASSUME Shape, NEW f \in Functions, Ends(f)
  PROVE  Turns' /\ Waits' /\ InBatch' /\ Uncalled' /\ OverWithRoot'
<1> USE DEF Shape
<1>1. Active(f) /\ Alone(f) /\ Ended(f)' /\ called' = called
  BY DEF Ends
<1>2. ~Active(f)' /\ ~Quiet(f) /\ status[f] # "idle"
  BY <1>1 DEF Active, Ended, Unended, Quiet
<1>3. \A g \in Functions \ {f} : action'[g] = action[g] /\ (status'[g] = status[g] \/ Begins(f, g))
  BY DEF Ends
<1>4. \A g \in Functions : Quiet(g) => g # f /\ Quiet(g)'
  BY <1>1, <1>3, QuietStays DEF Begins
<1>5. Turns'
  <2> SUFFICES ASSUME NEW h \in Functions, NEW g \in Functions, Before(g, h), status'[h] # "idle"
               PROVE  Quiet(g)'
    BY DEF Turns
  <2>1. CASE h = f
    BY <1>2, <1>4, <2>1 DEF Turns
  <2>2. CASE h # f /\ status'[h] = status[h]
    BY <1>4, <2>2 DEF Turns
  <2>3. CASE Begins(f, h)
    <3>1. g = f \/ Before(g, f)
      BY <2>3, AfterIsNext DEF Begins
    <3>2. CASE g = f
      BY <2>3, <3>2 DEF Begins
    <3>3. CASE Before(g, f)
      BY <1>2, <1>4, <3>3 DEF Turns
    <3> QED
      BY <3>1, <3>2, <3>3
  <2> QED
    BY <1>3, <2>1, <2>2, <2>3
<1>6. \A h \in Functions : Active(h)' =>
        h # f /\ (Active(h) \/ Begins(f, h))
  BY <1>2, <1>3 DEF Active
<1>7. \A h \in Functions : Begins(f, h) =>
        h # f /\ InstanceOf[h] = InstanceOf[f] /\ Above[h] = Above[f]
  <2> SUFFICES ASSUME NEW h \in Functions, Begins(f, h)
               PROVE  h # f /\ InstanceOf[h] = InstanceOf[f] /\ Above[h] = Above[f]
    OBVIOUS
  <2>1. h \in After(f) /\ h # f
    BY <1>2 DEF Begins
  <2>2. InstanceOf[h] = InstanceOf[f]
    BY <2>1, AfterIsNext
  <2> QED
    BY <2>1, <2>2, MembersShareWhatIsAbove
<1>8. \A g \in Functions : status[g] = "waiting" /\ g # f => status'[g] = "waiting"
  BY <1>3 DEF Begins
<1>9. Waits'
  <2> SUFFICES ASSUME NEW h \in Functions, Active(h)', NEW g \in Above[h]
               PROVE  status'[g] = "waiting"
    BY DEF Waits
  <2>1. g \in Functions /\ f \notin Above[f]
    BY RunnerAssumption DEF AboveAssumption
  <2>2. CASE Active(h)
    BY <1>1, <1>8, <2>1, <2>2 DEF Waits, Alone
  <2>3. CASE Begins(f, h)
    BY <1>1, <1>7, <1>8, <2>1, <2>3 DEF Waits
  <2> QED
    BY <1>6, <2>2, <2>3
<1>10. InBatch'
  <2> SUFFICES ASSUME NEW h \in Functions, NEW c \in Functions, Active(h)', Caller[InstanceOf[h]] = c
               PROVE  called[c] \in DOMAIN Batches[c] /\ InstanceOf[h] \in Batches[c][called[c]]
    BY <1>1 DEF InBatch, Batch
  <2>1. CASE Active(h)
    BY <2>1 DEF InBatch, Batch
  <2>2. CASE Begins(f, h)
    BY <1>1, <1>7, <2>2 DEF InBatch, Batch
  <2> QED
    BY <1>6, <2>1, <2>2
<1>11. Uncalled'
  <2> SUFFICES ASSUME NEW c \in Functions, NEW m \in Functions, NEW k \in DOMAIN Batches[c],
                      k > called[c], InstanceOf[m] \in Batches[c][k]
               PROVE  status'[m] = "idle"
    BY <1>1 DEF Uncalled
  <2>1. status[m] = "idle" /\ m # f
    BY <1>2 DEF Uncalled
  <2>2. ~Begins(f, m)
    BY <1>2, <1>7 DEF Uncalled
  <2> QED
    BY <1>3, <2>1, <2>2
<1>12. OverWithRoot'
  <2>1. CASE f = First("R")
    BY <1>1, <2>1 DEF OverWithRoot, Ended
  <2>2. CASE f # First("R")
    <3>1. outcome' = outcome /\ First("R") \in Functions
      BY <2>2, FirstIsFirst, RunnerAssumption DEF Ends, CallerAssumption
    <3> QED
      BY <1>3, <2>2, <3>1 DEF OverWithRoot, Ended, Unended, Begins
  <2> QED
    BY <2>1, <2>2
<1> QED
  BY <1>5, <1>9, <1>10, <1>11, <1>12

(* A call keeps the shape: its batch was not called before.                *)
LEMMA CallKeeps ==
  ASSUME Shape, NEW f \in Functions, Calls(f)
  PROVE  Turns' /\ Waits' /\ InBatch' /\ Uncalled' /\ OverWithRoot'
<1> USE DEF Shape
<1>1. /\ status[f] = "running" /\ status'[f] = "waiting" /\ UNCHANGED <<action, outcome>>
      /\ called[f] + 1 \in DOMAIN Batches[f] /\ called'[f] = called[f] + 1
      /\ \A c \in Functions \ {f} : called'[c] = called[c]
  BY DEF Calls, Typed
<1>2. \A g \in Functions \ {f} : status'[g] = status[g] \/ Starts(f, g)
  BY DEF Calls
<1>3. Active(f) /\ Alone(f)
  BY <1>1, NothingUnderIt DEF Active
<1>4. \A g \in Functions : Quiet(g) => g # f /\ Quiet(g)'
  <2>1. \A g \in Functions \ {f} : action'[g] = action[g]
                                   /\ (status'[g] = status[g] \/ status[g] = "idle")
    BY <1>1, <1>2 DEF Starts
  <2> QED
    BY <1>3, <2>1, QuietStays
<1>5. Turns'
  <2> SUFFICES ASSUME NEW h \in Functions, NEW g \in Functions, Before(g, h), status'[h] # "idle"
               PROVE  Quiet(g)'
    BY DEF Turns
  <2>1. CASE status[h] # "idle"
    BY <1>4, <2>1 DEF Turns
  <2>2. CASE h # f /\ Starts(f, h)
    BY <2>2, FirstIsFirst, RunnerAssumption DEF Starts, MembersAssumption
  <2> QED
    BY <1>1, <1>2, <2>1, <2>2
<1>6. \A h \in Functions : Active(h)' => Active(h) \/ (h # f /\ Starts(f, h))
  BY <1>1, <1>2, <1>3 DEF Active
<1>7. \A h \in Functions : Starts(f, h) => Above[h] = {f} \cup Above[f]
  BY UnderItsCaller DEF Starts
<1>8. \A g \in Functions : status[g] = "waiting" => status'[g] = "waiting"
  BY <1>1, <1>2 DEF Starts
<1>9. Waits'
  <2> SUFFICES ASSUME NEW h \in Functions, Active(h)', NEW g \in Above[h]
               PROVE  status'[g] = "waiting"
    BY DEF Waits
  <2>1. g \in Functions
    BY RunnerAssumption DEF AboveAssumption
  <2>2. CASE Active(h)
    BY <1>8, <2>1, <2>2 DEF Waits
  <2>3. CASE Starts(f, h)
    BY <1>1, <1>3, <1>7, <1>8, <2>1, <2>3 DEF Waits
  <2> QED
    BY <1>6, <2>2, <2>3
<1>10. InBatch'
  <2> SUFFICES ASSUME NEW h \in Functions, NEW c \in Functions, Active(h)', Caller[InstanceOf[h]] = c
               PROVE  called'[c] \in DOMAIN Batches[c] /\ InstanceOf[h] \in Batches[c][called'[c]]
    BY DEF InBatch, Batch
  <2>1. CASE Active(h)
    <3>1. f # c
      <4>1. Above[h] = {c} \cup Above[c]
        BY UnderItsCaller
      <4> QED
        BY <1>1, <2>1, <4>1 DEF Waits
    <3> QED
      BY <1>1, <2>1, <3>1 DEF InBatch, Batch
  <2>2. CASE Starts(f, h)
    BY <1>1, <2>2 DEF Starts
  <2> QED
    BY <1>6, <2>1, <2>2
<1>11. Uncalled'
  <2> SUFFICES ASSUME NEW c \in Functions, NEW m \in Functions, NEW k \in DOMAIN Batches[c],
                      k > called'[c], InstanceOf[m] \in Batches[c][k]
               PROVE  status'[m] = "idle"
    BY DEF Uncalled
  <2>1. k > called[c] /\ k \in Nat
    <3>1. called[c] \in Nat /\ k \in Nat
      BY RunnerAssumption DEF Typed, BatchesAssumption
    <3>2. called'[c] = called[c] \/ called'[c] = called[c] + 1
      BY <1>1
    <3> QED
      BY <3>1, <3>2
  <2>2. status[m] = "idle" /\ m # f
    BY <1>1, <2>1 DEF Uncalled
  <2>3. ~Starts(f, m)
    <3> SUFFICES ASSUME Starts(f, m) PROVE FALSE
      OBVIOUS
    <3>1. /\ called'[f] \in DOMAIN Batches[f] /\ called'[f] \in Nat
          /\ InstanceOf[m] \in Batches[f][called'[f]] /\ Caller[InstanceOf[m]] = f
      BY <1>1 DEF Starts, Typed
    <3>2. c = f
      BY <3>1, RunnerAssumption DEF BatchesAssumption
    <3>3. k # called'[f]
      BY <2>1, <3>1, <3>2
    <3> QED
      BY <3>1, <3>2, <3>3, RunnerAssumption DEF BatchesAssumption
  <2> QED
    BY <1>2, <2>2, <2>3
<1>12. OverWithRoot'
  <2>1. First("R") \in Functions
    BY FirstIsFirst, RunnerAssumption DEF CallerAssumption
  <2> QED
    BY <1>1, <1>2, <2>1 DEF OverWithRoot, Ended, Unended, Starts
<1> QED
  BY <1>5, <1>9, <1>10, <1>11, <1>12

LEMMA GoesOnKeeps ==
  ASSUME Shape, NEW f \in Functions, GoesOn(f)
  PROVE  Turns' /\ Waits' /\ InBatch' /\ Uncalled' /\ OverWithRoot'
<1> USE DEF Shape
<1>1. /\ status[f] = "waiting" /\ status'[f] = "running" /\ Alone(f)
      /\ \A g \in Functions \ {f} : status'[g] = status[g]
      /\ UNCHANGED <<called, action, outcome>>
  BY DEF GoesOn
<1>2. \A g \in Functions : /\ Active(g)' <=> Active(g)
                           /\ status'[g] = "idle" <=> status[g] = "idle"
                           /\ Quiet(g)' <=> Quiet(g)
                           /\ Ended(g)' <=> Ended(g)
  BY <1>1 DEF Active, Quiet, Terminated, Ended, Unended
<1>3. Turns' /\ Uncalled'
  BY <1>1, <1>2 DEF Turns, Uncalled
<1>4. Waits'
  BY <1>1, <1>2, RunnerAssumption DEF Waits, Alone, AboveAssumption
<1>5. InBatch'
  BY <1>1, <1>2 DEF InBatch, Batch
<1>6. OverWithRoot'
  <2>1. First("R") \in Functions
    BY FirstIsFirst, RunnerAssumption DEF CallerAssumption
  <2> QED
    BY <1>1, <1>2, <2>1 DEF OverWithRoot
<1> QED
  BY <1>3, <1>4, <1>5, <1>6

-----------------------------------------------------------------------------
(* What TypeOK says of one function.                                       *)
OfItsType(f) ==
  /\ called[f] \in 0..Len(Batches[f])
  /\ status[f] = "waiting" => called[f] > 0
  /\ action[f] # "none" <=> InstanceOf[f] \notin Monitors /\ status[f] \in {"reported", "final"}

(* EndsQuietly, by the action f decided.                                   *)
QuietlyEnds(f, how, a) ==
  /\ \A g \in Functions :
       status'[g] = IF g = f THEN how
                    ELSE IF a # "terminate" /\ g \in After(f) THEN "running" ELSE status[g]
  /\ DOMAIN status' = Functions /\ status' = [g \in Functions |-> status'[g]]
  /\ stopping' = stopping \/ (a = "terminate" /\ Caller[InstanceOf[f]] \in Functions
                              /\ stopping' = stopping \cup {Caller[InstanceOf[f]]})
  /\ outcome' = IF Caller[InstanceOf[f]] # "nobody" THEN outcome
                ELSE IF how = "reported" THEN "returned" ELSE "nothing"
  /\ UNCHANGED arrived

(* An end without an exception.                                            *)
LEMMA QuietEnd ==
  ASSUME Shape, NEW f \in Functions, status[f] = "running",
         NEW how \in {"reported", "abstained", "failed"}, NEW a \in Actions \cup {"none"},
         QuietlyEnds(f, how, a), called' = called, action' = [action EXCEPT ![f] = a],
         (how # "reported" \/ InstanceOf[f] \in Monitors) <=> a = "none"
  PROVE  /\ Ends(f) /\ status'[f] = how /\ UNCHANGED arrived
         /\ stopping' = stopping \/ (stopping' = stopping \cup {Caller[InstanceOf[f]]}
                                     /\ a = "terminate")
         /\ status' \in [Functions -> Statuses] /\ action' \in [Functions -> Actions \cup {"none"}]
         /\ outcome' \in {"running", "returned", "nothing", "error", "final"}
         /\ stopping' \subseteq Functions
         /\ \A g \in Functions : OfItsType(g)'
<1> USE DEF Shape
<1>1. /\ \A g \in Functions :
           status'[g] = IF g = f THEN how
                        ELSE IF a # "terminate" /\ g \in After(f) THEN "running" ELSE status[g]
      /\ status' = [g \in Functions |-> status'[g]]
      /\ stopping' = stopping \/ (a = "terminate" /\ Caller[InstanceOf[f]] \in Functions
                                  /\ stopping' = stopping \cup {Caller[InstanceOf[f]]})
      /\ outcome' = IF Caller[InstanceOf[f]] # "nobody" THEN outcome
                    ELSE IF how = "reported" THEN "returned" ELSE "nothing"
      /\ UNCHANGED arrived
  BY DEF QuietlyEnds
<1>2. status'[f] = how /\ action'[f] = a /\ \A g \in Functions \ {f} : action'[g] = action[g]
  BY <1>1 DEF Typed, TypeOK
<1>3. Active(f) /\ Alone(f) /\ Ended(f)' /\ ~Quiet(f)
  BY <1>2, NothingUnderIt DEF Active, Ended, Unended, Quiet
<1>4. \A g \in After(f) : g \in Functions /\ status[g] = "idle"
  BY <1>3, AfterIsNext DEF Turns
<1>5. a # "terminate" => Quiet(f)'
  BY <1>2 DEF Quiet, Terminated
<1>6. \A g \in Functions \ {f} : status'[g] = status[g] \/ Begins(f, g)
  <2> SUFFICES ASSUME NEW g \in Functions \ {f}, status'[g] # status[g] PROVE Begins(f, g)
    OBVIOUS
  <2>1. a # "terminate" /\ g \in After(f) /\ status'[g] = "running"
    BY <1>1
  <2> QED
    BY <1>4, <1>5, <2>1 DEF Begins
<1>7. outcome' = outcome \/ f = First("R")
  BY <1>1, RootHasNoCaller
<1>8. Ends(f)
  BY <1>2, <1>3, <1>6, <1>7 DEF Ends
<1>9. /\ status' \in [Functions -> Statuses]
      /\ action' \in [Functions -> Actions \cup {"none"}]
      /\ outcome' \in {"running", "returned", "nothing", "error", "final"}
      /\ stopping' \subseteq Functions
  <2>1. \A g \in Functions : status'[g] \in Statuses
    BY <1>1 DEF Typed, TypeOK, Statuses, Unended
  <2>2. status' \in [Functions -> Statuses]
    BY <1>1, <2>1
  <2> QED
    BY <1>1, <2>2 DEF Typed, TypeOK
<1>10. \A g \in Functions : OfItsType(g)'
  <2> SUFFICES ASSUME NEW g \in Functions PROVE OfItsType(g)'
    OBVIOUS
  <2>1. OfItsType(g)
    BY DEF Typed, TypeOK, OfItsType
  <2>2. CASE g = f
    BY <1>2, <2>1, <2>2 DEF OfItsType
  <2>3. CASE g # f /\ status'[g] = status[g]
    BY <1>2, <2>1, <2>3 DEF OfItsType
  <2>4. CASE g # f /\ Begins(f, g)
    BY <1>2, <2>1, <2>4 DEF OfItsType, Begins
  <2> QED
    BY <1>6, <2>2, <2>3, <2>4
<1> QED
  BY <1>1, <1>2, <1>8, <1>9, <1>10

(* An end that is an exception, or a cancellation.                         *)
LEMMA ThrowingEnd ==
  ASSUME Shape, NEW f \in Functions, status[f] \in {"running", "waiting"}, Alone(f),
         NEW how \in {"raised", "final", "passed", "cancelled"},
         status' = [status EXCEPT ![f] = how], UNCHANGED called,
         NEW a \in Actions \cup {"none"}, action' = [action EXCEPT ![f] = a],
         a # "none" <=> InstanceOf[f] \notin Monitors /\ how = "final",
         outcome' = outcome \/ f = First("R")
  PROVE  /\ Ends(f) /\ status'[f] = how
         /\ status' \in [Functions -> Statuses] /\ action' \in [Functions -> Actions \cup {"none"}]
         /\ \A g \in Functions : OfItsType(g)'
<1> USE DEF Shape
<1>1. /\ status'[f] = how /\ action'[f] = a
      /\ \A g \in Functions \ {f} : action'[g] = action[g] /\ status'[g] = status[g]
  BY DEF Typed, TypeOK
<1>2. Ends(f)
  BY <1>1 DEF Ends, Active, Ended, Unended
<1>3. status' \in [Functions -> Statuses] /\ action' \in [Functions -> Actions \cup {"none"}]
  BY DEF Typed, TypeOK, Statuses
<1>4. \A g \in Functions : OfItsType(g)'
  <2> SUFFICES ASSUME NEW g \in Functions PROVE OfItsType(g)'
    OBVIOUS
  <2>1. OfItsType(g)
    BY DEF Typed, TypeOK, OfItsType
  <2>2. CASE g = f
    BY <1>1, <2>1, <2>2 DEF OfItsType
  <2>3. CASE g # f
    BY <1>1, <2>1, <2>3 DEF OfItsType
  <2> QED
    BY <2>2, <2>3
<1> QED
  BY <1>1, <1>2, <1>3, <1>4

(* What an exception of f does beside: it reaches f's caller, or ends the  *)
(* step.                                                                   *)
LEMMA ThrowReaches ==
  ASSUME Shape, NEW f \in Functions, NEW how, NEW kind \in {"error", "final"},
         NEW by \in Functions, NEW S, EndsThrowing(f, how, kind, by, S)
  PROVE  /\ status' = [status EXCEPT ![f] = how]
         /\ settled' \in [Functions -> Nat]
         /\ arrived' \in [Functions -> Seq(Exceptions)]
         /\ stopping' = stopping \/ stopping' = stopping \cup {Caller[InstanceOf[f]]}
         /\ stopping' \subseteq Functions
         /\ outcome' = outcome \/ f = First("R")
         /\ outcome' \in {"running", "returned", "nothing", "error", "final"}
<1> USE DEF Shape
<1> DEFINE caller == Caller[InstanceOf[f]]
           settles == S \cup (IF caller = "nobody" /\ kind = "final" THEN {by} ELSE {})
<1>1. /\ status' = [status EXCEPT ![f] = how]
      /\ settled' = [g \in Functions |-> settled[g] + (IF g \in settles THEN 1 ELSE 0)]
      /\ IF caller = "nobody"
         THEN outcome' = kind /\ UNCHANGED <<arrived, stopping>>
         ELSE /\ arrived' = [arrived EXCEPT ![caller] =
                               Append(@, [kind |-> kind, by |-> by])]
              /\ stopping' = stopping \cup {caller}
              /\ UNCHANGED outcome
  BY DEF EndsThrowing
<1> HIDE DEF settles
<1>2. settled' \in [Functions -> Nat]
  <2>1. \A g \in Functions : settled[g] + (IF g \in settles THEN 1 ELSE 0) \in Nat
    BY DEF Typed
  <2> QED
    BY <1>1, <2>1
<1>3. CASE caller = "nobody"
  <2>1. f = First("R") /\ outcome' = kind /\ arrived' = arrived /\ stopping' = stopping
    BY <1>1, <1>3, RootHasNoCaller
  <2> QED
    BY <1>1, <1>2, <2>1 DEF Typed, TypeOK
<1>4. CASE caller # "nobody"
  <2>1. /\ caller \in Functions /\ outcome' = outcome
        /\ arrived' = [arrived EXCEPT ![caller] = Append(@, [kind |-> kind, by |-> by])]
        /\ stopping' = stopping \cup {caller}
    BY <1>1, <1>4, RootHasNoCaller
  <2>2. [kind |-> kind, by |-> by] \in Exceptions
    BY DEF Exceptions
  <2>3. Append(arrived[caller], [kind |-> kind, by |-> by])
          \in Seq(Exceptions)
    BY <2>1, <2>2 DEF Typed
  <2>4. arrived' \in [Functions -> Seq(Exceptions)]
    BY <2>1, <2>3 DEF Typed
  <2> QED
    BY <1>1, <1>2, <2>1, <2>4 DEF Typed, TypeOK
<1> QED
  BY <1>3, <1>4

(* What ends a batch: a terminate, a Final or an error of one of it.       *)
Cause(f) == Terminated(f) \/ status[f] \in {"final", "passed", "raised"}

(* An end cancels the batch it is a cause for, and is recorded as cancelled*)
(* only under a batch that is.                                             *)
Stops(f) ==
  /\ stopping' = stopping \/ (stopping' = stopping \cup {Caller[InstanceOf[f]]} /\ Cause(f)')
  /\ stopped' = stopped \/ (stopped' = stopped \cup {InstanceOf[f]} /\ Cancelling(f))

Moves(f) ==
  \/ Ends(f) /\ Stops(f)
  \/ Calls(f) /\ stopping' = stopping \ {f} /\ UNCHANGED stopped
  \/ GoesOn(f) /\ UNCHANGED <<stopping, stopped>>

(* What is left to say of the types once a step's kind is known.           *)
LEMMA TypedAgain ==
  ASSUME /\ status' \in [Functions -> Statuses]
         /\ action' \in [Functions -> Actions \cup {"none"}]
         /\ called' \in [Functions -> Nat]
         /\ returnedBy' \in [Functions -> Functions]
         /\ arrived' \in [Functions -> Seq(Exceptions)]
         /\ settled' \in [Functions -> Nat]
         /\ stopping' \subseteq Functions /\ outrun' \subseteq Functions
         /\ bypassed' \subseteq Instances /\ stopped' \subseteq Instances
         /\ outcome' \in {"running", "returned", "nothing", "error", "final"},
         \A g \in Functions : OfItsType(g)'
  PROVE  Typed'
BY DEF Typed, TypeOK, OfItsType

LEMMA CallMoves ==
  ASSUME Shape, NEW f \in Functions, Call(f)
  PROVE  Typed' /\ Moves(f)
<1> USE DEF Shape
<1> DEFINE batch == Batches[f][called[f] + 1]
<1>1. /\ status[f] = "running" /\ called[f] < Len(Batches[f])
      /\ called' = [called EXCEPT ![f] = @ + 1]
      /\ status' = [g \in Functions |->
                      IF g = f THEN "waiting"
                      ELSE IF \E i \in batch : g = First(i) THEN "running" ELSE status[g]]
      /\ arrived' = [arrived EXCEPT ![f] = <<>>] /\ stopping' = stopping \ {f}
      /\ UNCHANGED <<action, returnedBy, settled, bypassed, stopped, outrun, outcome>>
  BY DEF Call
<1>2. /\ called[f] + 1 \in DOMAIN Batches[f] /\ called[f] + 1 > called[f]
      /\ called'[f] = called[f] + 1 /\ called[f] \in Nat
      /\ \A g \in Functions \ {f} : called'[g] = called[g]
      /\ batch \subseteq Instances
  <2>1. called[f] \in Nat /\ Batches[f] \in Seq(SUBSET Instances)
    BY RunnerAssumption DEF Typed, BatchesAssumption
  <2>2. called[f] + 1 \in DOMAIN Batches[f]
    BY <1>1, <2>1
  <2> QED
    BY <1>1, <2>1, <2>2 DEF Typed
<1>3. \A i \in batch : First(i) \in Functions /\ InstanceOf[First(i)] = i
                       /\ status[First(i)] = "idle" /\ Caller[i] = f
  BY <1>2, FirstIsFirst, RunnerAssumption DEF Uncalled, BatchesAssumption
<1>4. \A g \in Functions \ {f} : status'[g] = status[g] \/ Starts(f, g)
  <2> SUFFICES ASSUME NEW g \in Functions \ {f}, status'[g] # status[g] PROVE Starts(f, g)
    OBVIOUS
  <2>1. status'[g] = "running" /\ \E i \in batch : g = First(i)
    BY <1>1
  <2> QED
    BY <1>2, <1>3, <2>1 DEF Starts
<1>5. Calls(f)
  BY <1>1, <1>2, <1>4 DEF Calls
<1>6. \A g \in Functions : OfItsType(g)'
  <2> SUFFICES ASSUME NEW g \in Functions PROVE OfItsType(g)'
    OBVIOUS
  <2>1. OfItsType(g) /\ action'[g] = action[g]
    BY <1>1 DEF Typed, TypeOK, OfItsType
  <2>2. CASE g = f
    <3>1. status'[f] = "waiting" /\ called'[f] \in 0..Len(Batches[f]) /\ called'[f] > 0
      BY <1>1, <1>2, RunnerAssumption DEF BatchesAssumption
    <3> QED
      BY <1>1, <2>1, <2>2, <3>1 DEF OfItsType
  <2>3. CASE g # f /\ status'[g] = status[g]
    BY <1>2, <2>1, <2>3 DEF OfItsType
  <2>4. CASE g # f /\ Starts(f, g)
    BY <1>2, <2>1, <2>4 DEF OfItsType, Starts
  <2> QED
    BY <1>4, <2>2, <2>3, <2>4
<1>7. status' \in [Functions -> Statuses]
  <2>1. \A g \in Functions : status'[g] \in Statuses
    BY <1>1 DEF Typed, TypeOK, Statuses, Unended
  <2> QED
    BY <1>1, <2>1
<1>8. arrived' \in [Functions -> Seq(Exceptions)]
      /\ called' \in [Functions -> Nat]
  <2>1. <<>> \in Seq(Exceptions)
    OBVIOUS
  <2> QED
    BY <1>1, <1>2, <2>1 DEF Typed
<1>9. Typed'
  BY <1>1, <1>6, <1>7, <1>8, TypedAgain DEF Typed, TypeOK
<1> QED
  BY <1>1, <1>5, <1>9 DEF Moves

LEMMA QuietMoves ==
  ASSUME Shape, NEW f \in Functions, status[f] = "running",
         NEW how \in {"reported", "abstained", "failed"}, NEW a \in Actions \cup {"none"},
         QuietlyEnds(f, how, a), action' = [action EXCEPT ![f] = a],
         (how # "reported" \/ InstanceOf[f] \in Monitors) <=> a = "none",
         returnedBy' \in [Functions -> Functions],
         called' = called, settled' = settled, bypassed' = bypassed, stopped' = stopped,
         outrun' = outrun
  PROVE  Typed' /\ Moves(f)
<1>1. /\ Ends(f) /\ status'[f] = how /\ UNCHANGED arrived
      /\ stopping' = stopping \/ (stopping' = stopping \cup {Caller[InstanceOf[f]]}
                                  /\ a = "terminate")
      /\ status' \in [Functions -> Statuses] /\ action' \in [Functions -> Actions \cup {"none"}]
      /\ outcome' \in {"running", "returned", "nothing", "error", "final"}
      /\ stopping' \subseteq Functions
      /\ \A g \in Functions : OfItsType(g)'
  BY QuietEnd
<1>2. Typed'
  BY <1>1, TypedAgain DEF Shape, Typed, TypeOK
<1>3. action'[f] = a
  BY DEF Shape, Typed, TypeOK
<1>4. a = "terminate" => Cause(f)'
  BY <1>1, <1>3 DEF Cause, Terminated, Actions
<1>5. Stops(f)
  BY <1>1, <1>4 DEF Stops
<1> QED
  BY <1>1, <1>2, <1>5 DEF Moves

LEMMA ReportMoves ==
  ASSUME Shape, NEW f \in Functions, Report(f)
  PROVE  Typed' /\ Moves(f)
<1>1. status[f] = "running" /\ called' = called /\ settled' = settled
      /\ bypassed' = bypassed /\ stopped' = stopped /\ outrun' = outrun
  BY DEF Report
<1>2. action[f] = "none" /\ action = [action EXCEPT ![f] = action[f]]
      /\ returnedBy \in [Functions -> Functions]
  BY <1>1 DEF Shape, Typed, TypeOK
<1>3. CASE InstanceOf[f] \in Monitors
  <2>1. EndsQuietly(f, "reported", FALSE) /\ action' = action /\ returnedBy' = returnedBy
    BY <1>3 DEF Report
  <2>2. QuietlyEnds(f, "reported", "none")
    BY <2>1 DEF EndsQuietly, QuietlyEnds
  <2>3. action' = [action EXCEPT ![f] = "none"]
    BY <1>2, <2>1
  <2> QED
    BY <1>1, <1>2, <1>3, <2>1, <2>2, <2>3, QuietMoves
<1>4. CASE InstanceOf[f] \notin Monitors
  <2>1. PICK a \in Actions, from \in {f} \cup {returnedBy[g] : g \in Given(f)} :
          /\ action' = [action EXCEPT ![f] = a]
          /\ returnedBy' = [returnedBy EXCEPT ![f] = from]
          /\ EndsQuietly(f, "reported", a = "terminate")
    BY <1>4 DEF Report
  <2>2. returnedBy' \in [Functions -> Functions]
    BY <1>2, <2>1 DEF Given
  <2>3. a # "none" /\ a \in Actions \cup {"none"}
    BY DEF Actions
  <2>4. QuietlyEnds(f, "reported", a)
    BY <2>1 DEF EndsQuietly, QuietlyEnds
  <2> QED
    BY <1>1, <1>4, <2>1, <2>2, <2>3, <2>4, QuietMoves
<1> QED
  BY <1>3, <1>4

LEMMA AbstainMoves ==
  ASSUME Shape, NEW f \in Functions, Abstain(f)
  PROVE  Typed' /\ Moves(f)
<1>1. /\ status[f] = "running" /\ EndsQuietly(f, "abstained", FALSE)
      /\ called' = called /\ settled' = settled /\ bypassed' = bypassed
      /\ stopped' = stopped /\ outrun' = outrun /\ action' = action /\ returnedBy' = returnedBy
  BY DEF Abstain
<1>2. action' = [action EXCEPT ![f] = "none"] /\ returnedBy' \in [Functions -> Functions]
  BY <1>1 DEF Shape, Typed, TypeOK
<1>3. QuietlyEnds(f, "abstained", "none")
  BY <1>1 DEF EndsQuietly, QuietlyEnds
<1> QED
  BY <1>1, <1>2, <1>3, QuietMoves

(* An end that throws, for whatever the step records beside.               *)
LEMMA ThrowMoves ==
  ASSUME Shape, NEW f \in Functions, status[f] \in {"running", "waiting"}, Alone(f),
         NEW how \in {"raised", "final", "passed"}, NEW kind \in {"error", "final"},
         NEW by \in Functions, NEW S, EndsThrowing(f, how, kind, by, S),
         NEW a \in Actions \cup {"none"}, action' = [action EXCEPT ![f] = a],
         a # "none" <=> InstanceOf[f] \notin Monitors /\ how = "final",
         UNCHANGED <<called, returnedBy, stopped>>,
         bypassed' \subseteq Instances, outrun' \subseteq Functions
  PROVE  Typed' /\ Moves(f) /\ status'[f] = how
<1> USE DEF Shape
<1>1. /\ status' = [status EXCEPT ![f] = how]
      /\ settled' \in [Functions -> Nat]
      /\ arrived' \in [Functions -> Seq(Exceptions)]
      /\ stopping' = stopping \/ stopping' = stopping \cup {Caller[InstanceOf[f]]}
      /\ stopping' \subseteq Functions
      /\ outcome' = outcome \/ f = First("R")
      /\ outcome' \in {"running", "returned", "nothing", "error", "final"}
  BY ThrowReaches
<1>2. /\ Ends(f) /\ status'[f] = how
      /\ status' \in [Functions -> Statuses] /\ action' \in [Functions -> Actions \cup {"none"}]
      /\ \A g \in Functions : OfItsType(g)'
  BY <1>1, ThrowingEnd
<1>3. Typed'
  BY <1>1, <1>2, TypedAgain DEF Typed, TypeOK
<1>4. Cause(f)'
  BY <1>2 DEF Cause
<1>5. Stops(f)
  BY <1>1, <1>4 DEF Stops
<1> QED
  BY <1>2, <1>3, <1>5 DEF Moves

LEMMA DecideFinalMoves ==
  ASSUME Shape, NEW f \in Functions, DecideFinal(f)
  PROVE  Typed' /\ Moves(f)
<1>1. /\ status[f] = "running" /\ InstanceOf[f] \notin Monitors
      /\ EndsThrowing(f, "final", "final", f, {})
      /\ UNCHANGED <<called, returnedBy, bypassed, stopped, outrun>>
  BY DEF DecideFinal
<1>2. PICK a \in Actions : action' = [action EXCEPT ![f] = a]
  BY DEF DecideFinal
<1>3. Alone(f) /\ a # "none"
  BY <1>1, NothingUnderIt DEF Actions, Shape
<1>4. /\ a \in Actions \cup {"none"} /\ UNCHANGED <<called, returnedBy, stopped>>
      /\ bypassed' \subseteq Instances /\ outrun' \subseteq Functions
  BY <1>1 DEF Shape, Typed, TypeOK
<1> QED
  BY <1>1, <1>2, <1>3, <1>4, ThrowMoves

LEMMA RaiseMoves ==
  ASSUME Shape, NEW f \in Functions, Raise(f)
  PROVE  Typed' /\ Moves(f)
<1>1. /\ status[f] = "running" /\ EndsThrowing(f, "raised", "error", f, {})
      /\ UNCHANGED <<called, action, returnedBy, bypassed, stopped, outrun>>
  BY DEF Raise
<1>2. Alone(f) /\ action' = [action EXCEPT ![f] = "none"]
  BY <1>1, NothingUnderIt DEF Shape, Typed, TypeOK
<1>3. /\ "none" \in Actions \cup {"none"} /\ UNCHANGED <<called, returnedBy, stopped>>
      /\ bypassed' \subseteq Instances /\ outrun' \subseteq Functions
  BY <1>1 DEF Shape, Typed, TypeOK
<1> QED
  BY <1>1, <1>2, <1>3, ThrowMoves

LEMMA CancelMoves ==
  ASSUME Shape, NEW f \in Functions, status[f] \in {"running", "waiting"}, Alone(f),
         Cancelling(f), EndsCancelled(f),
         UNCHANGED <<called, action, returnedBy, bypassed, outrun>>
  PROVE  Typed' /\ Moves(f)
<1> USE DEF Shape
<1>1. /\ status' = [status EXCEPT ![f] = "cancelled"]
      /\ stopped' = stopped \cup {InstanceOf[f]}
      /\ UNCHANGED <<arrived, stopping, settled, outcome>>
  BY DEF EndsCancelled
<1>2. action' = [action EXCEPT ![f] = "none"]
  BY DEF Typed, TypeOK
<1>3. /\ Ends(f)
      /\ status' \in [Functions -> Statuses] /\ action' \in [Functions -> Actions \cup {"none"}]
      /\ \A g \in Functions : OfItsType(g)'
  BY <1>1, <1>2, ThrowingEnd
<1>4. InstanceOf[f] \in Instances
  BY RunnerAssumption DEF MembersAssumption
<1>5. Typed'
  BY <1>1, <1>3, <1>4, TypedAgain DEF Typed, TypeOK
<1>6. Stops(f)
  BY <1>1 DEF Stops
<1> QED
  BY <1>3, <1>5, <1>6 DEF Moves

LEMMA MonitorRaisesMoves ==
  ASSUME Shape, NEW f \in Functions, MonitorRaises(f)
  PROVE  Typed' /\ Moves(f)
<1>1. status[f] = "running" /\ InstanceOf[f] \in Monitors
      /\ called' = called /\ action' = action /\ returnedBy' = returnedBy
      /\ bypassed' = bypassed /\ outrun' = outrun
  BY DEF MonitorRaises
<1>2. CASE Cancelling(f)
  BY <1>1, <1>2, CancelMoves, NothingUnderIt DEF MonitorRaises, Shape
<1>3. CASE ~Cancelling(f)
  <2>1. EndsQuietly(f, "failed", FALSE) /\ settled' = settled /\ stopped' = stopped
    BY <1>3 DEF MonitorRaises
  <2>2. action' = [action EXCEPT ![f] = "none"] /\ returnedBy' \in [Functions -> Functions]
    BY <1>1 DEF Shape, Typed, TypeOK
  <2>3. QuietlyEnds(f, "failed", "none")
    BY <2>1 DEF EndsQuietly, QuietlyEnds
  <2> QED
    BY <1>1, <2>1, <2>2, <2>3, QuietMoves
<1> QED
  BY <1>2, <1>3

LEMMA CancelledMoves ==
  ASSUME Shape, NEW f \in Functions, Cancelled(f)
  PROVE  Typed' /\ Moves(f)
BY CancelMoves, NothingUnderIt DEF Cancelled, Shape

LEMMA GoOnMoves ==
  ASSUME Shape, NEW f \in Functions, status[f] = "waiting", Alone(f),
         status' = [status EXCEPT ![f] = "running"], settled' \in [Functions -> Nat],
         UNCHANGED <<called, action, returnedBy, arrived, stopping, bypassed, stopped,
                     outrun, outcome>>
  PROVE  Typed' /\ Moves(f)
<1> USE DEF Shape
<1>1. status'[f] = "running" /\ \A g \in Functions \ {f} : status'[g] = status[g]
  BY DEF Typed, TypeOK
<1>2. GoesOn(f)
  BY <1>1 DEF GoesOn
<1>3. status' \in [Functions -> Statuses]
  BY DEF Typed, TypeOK, Statuses, Unended
<1>4. \A g \in Functions : OfItsType(g)'
  <2> SUFFICES ASSUME NEW g \in Functions PROVE OfItsType(g)'
    OBVIOUS
  <2>1. OfItsType(g)
    BY DEF Typed, TypeOK, OfItsType
  <2> QED
    BY <1>1, <2>1 DEF OfItsType
<1>5. Typed'
  BY <1>3, <1>4, TypedAgain DEF Typed, TypeOK
<1> QED
  BY <1>2, <1>5 DEF Moves

LEMMA SettleMoves ==
  ASSUME Shape, NEW f \in Functions, Settle(f)
  PROVE  Typed' /\ Moves(f)
<1>1. status[f] = "waiting" /\ BatchOver(f) /\ UNCHANGED <<called, action, returnedBy>>
  BY DEF Settle
<1>2. /\ Alone(f) /\ InstanceOf[f] \in Instances
      /\ action' = [action EXCEPT ![f] = "none"]
  <2>1. Alone(f)
    BY <1>1, NothingUnderIt DEF Shape
  <2>2. InstanceOf[f] \in Instances
    BY RunnerAssumption DEF MembersAssumption
  <2>3. action[f] = "none" /\ action \in [Functions -> Actions \cup {"none"}] /\ action' = action
    BY <1>1 DEF Shape, Typed, TypeOK
  <2>4. action' = [action EXCEPT ![f] = "none"]
    BY <2>3
  <2> QED
    BY <2>1, <2>2, <2>4
<1>3. CASE ErrorSurfaces(f)
  <2>1. /\ status' = [status EXCEPT ![f] = "running"]
        /\ settled' = [g \in Functions |-> settled[g] + (IF g \in Superseded(f) THEN 1 ELSE 0)]
        /\ UNCHANGED <<arrived, stopping, bypassed, stopped, outrun, outcome>>
    BY <1>3 DEF ErrorSurfaces
  <2>2. \A g \in Functions : settled[g] + (IF g \in Superseded(f) THEN 1 ELSE 0) \in Nat
    BY DEF Shape, Typed
  <2>3. settled' \in [Functions -> Nat]
    BY <2>1, <2>2
  <2> QED
    BY <1>1, <1>2, <2>1, <2>3, GoOnMoves
<1>4. CASE FinalSurfaces(f)
  <2>1. PICK k \in FirstFinal(f) :
          EndsThrowing(f, "passed", "final", arrived[f][k].by, Superseded(f))
    BY <1>4 DEF FinalSurfaces
  <2>2. arrived[f][k].by \in Functions
    <3>1. k \in DOMAIN arrived[f] /\ arrived[f] \in Seq(Exceptions)
      BY DEF FirstFinal, Finals, Shape, Typed
    <3>2. arrived[f][k] \in Exceptions
      BY <3>1
    <3> QED
      BY <3>2 DEF Exceptions
  <2>3. bypassed' \subseteq Instances /\ outrun' \subseteq Functions /\ UNCHANGED stopped
    BY <1>2, <1>4 DEF FinalSurfaces, Shape, Typed, TypeOK
  <2> QED
    BY <1>1, <1>2, <2>1, <2>2, <2>3, ThrowMoves
<1>5. CASE NothingSurfaces(f)
  <2>1. CASE Cancelling(f)
    <3>1. EndsCancelled(f) /\ UNCHANGED <<bypassed, outrun>>
      BY <1>5, <2>1 DEF NothingSurfaces
    <3> QED
      BY <1>1, <1>2, <2>1, <3>1, CancelMoves
  <2>2. CASE ~Cancelling(f)
    <3>1. /\ status' = [status EXCEPT ![f] = "running"]
          /\ UNCHANGED <<arrived, stopping, settled, stopped, outcome, bypassed, outrun>>
      BY <1>5, <2>2 DEF NothingSurfaces
    <3> QED
      BY <1>1, <1>2, <3>1, GoOnMoves DEF Shape, Typed
  <2> QED
    BY <2>1, <2>2
<1> QED
  BY <1>3, <1>4, <1>5 DEF Settle

-----------------------------------------------------------------------------
LEMMA StepMoves ==
  ASSUME Shape, NEW f \in Functions, Step(f)
  PROVE  Typed' /\ Moves(f)
BY CallMoves, ReportMoves, AbstainMoves, DecideFinalMoves, RaiseMoves, MonitorRaisesMoves,
   CancelledMoves, SettleMoves DEF Step

LEMMA ShapeInit == Init => Shape
<1> SUFFICES ASSUME Init PROVE Shape
  OBVIOUS
<1>start. /\ called \in [Functions -> {0}]
          /\ action \in [Functions -> {"none"}]
          /\ settled \in [Functions -> {0}]
          /\ stopping = {} /\ bypassed = {} /\ stopped = {} /\ outrun = {} /\ outcome = "running"
  BY Zenon DEF Init
<1>1. First("R") \in Functions /\ InstanceOf[First("R")] = "R" /\ "R" \in Instances
  BY FirstIsFirst, RunnerAssumption DEF CallerAssumption
<1>2. \A f \in Functions : /\ f = First("R") => status[f] = "running"
                           /\ f # First("R") => status[f] = "idle"
  BY Zenon DEF Init
<1>3. Typed
  <2>1. ASSUME NEW f \in Functions PROVE status[f] \in {"running", "idle"}
    BY <1>2
  <2>2. status \in [Functions -> Statuses]
    <3>1. status = [f \in Functions |-> status[f]]
      BY Zenon DEF Init
    <3>2. ASSUME NEW f \in Functions PROVE status[f] \in Statuses
      BY <2>1 DEF Statuses, Unended
    <3> QED
      BY <3>1, <3>2
  <2>3. <<>> \in Seq(Exceptions)
    OBVIOUS
  <2>4. arrived = [f \in Functions |-> <<>>]
    BY Zenon DEF Init
  <2>5. arrived \in [Functions -> Seq(Exceptions)]
    BY <2>3, <2>4
  <2>6. returnedBy \in [Functions -> Functions]
    BY Zenon DEF Init
  <2>7. ASSUME NEW f \in Functions PROVE OfItsType(f)
    <3>1. action[f] = "none" /\ called[f] = 0
      BY <1>start
    <3>2. 0 \in 0..Len(Batches[f])
      BY RunnerAssumption DEF BatchesAssumption
    <3> QED
      BY <2>1, <3>1, <3>2 DEF OfItsType
  <2>8. TypeOK
    BY <1>start, <2>1, <2>2, <2>7 DEF TypeOK, OfItsType
  <2> QED
    BY <1>start, <2>5, <2>6, <2>8 DEF Typed
<1>4. Turns
  BY <1>2, FirstIsFirst, RunnerAssumption DEF Turns, CallerAssumption
<1>5. Waits /\ InBatch
  <2> SUFFICES ASSUME NEW f \in Functions, Active(f)
               PROVE  Above[f] = {} /\ Caller[InstanceOf[f]] = "nobody"
    BY RunnerAssumption DEF Waits, InBatch, CallerAssumption
  <2>1. f = First("R")
    BY <1>2 DEF Active
  <2> QED
    BY <1>1, <2>1, RunnerAssumption DEF CallerAssumption, AboveAssumption
<1>6. Uncalled
  <2> SUFFICES ASSUME NEW f \in Functions, NEW m \in Functions, NEW k \in DOMAIN Batches[f],
                      InstanceOf[m] \in Batches[f][k]
               PROVE  m # First("R")
    BY <1>2 DEF Uncalled
  <2>1. Caller[InstanceOf[m]] = f
    BY RunnerAssumption DEF BatchesAssumption
  <2> QED
    BY <1>1, <2>1, RunnerAssumption DEF CallerAssumption
<1> QED
  BY <1>start, <1>3, <1>4, <1>5, <1>6 DEF Shape, OverWithRoot

LEMMA ShapeStep == Shape /\ [Next]_vars => Shape'
<1> SUFFICES ASSUME Shape, [Next]_vars PROVE Shape'
  OBVIOUS
<1>1. ASSUME NEW f \in Functions, Step(f) PROVE Shape'
  <2>1. Typed' /\ Moves(f)
    BY <1>1, StepMoves
  <2> QED
    BY <2>1, EndsKeeps, CallKeeps, GoesOnKeeps DEF Moves, Shape
<1>2. CASE UNCHANGED vars
  BY <1>2 DEF vars, Shape, Typed, TypeOK, Turns, Waits, InBatch, Uncalled, OverWithRoot,
              Quiet, Terminated, Active, Batch, Ended
<1> QED
  BY <1>1, <1>2 DEF Next

(* Every step's state is typed, and a function has an action exactly when  *)
(* it decided, in every tree.                                              *)
THEOREM RunnerTyped == Spec => []TypeOK
<1>1. Shape => TypeOK
  BY DEF Shape, Typed
<1> QED
  BY ShapeInit, ShapeStep, <1>1, PTL DEF Spec

(* In every tree, nothing is running once the step is over.                *)
THEOREM NothingOutlives == Spec => []NothingOutlivesTheStep
<1>1. ASSUME Shape, outcome # "running", NEW f \in Functions
      PROVE  status[f] \notin {"running", "waiting"}
  <2> SUFFICES ASSUME Active(f) PROVE FALSE
    BY DEF Active
  <2>1. Ended(First("R"))
    BY <1>1 DEF Shape, OverWithRoot
  <2>2. f # First("R")
    BY <2>1 DEF Active, Ended, Unended
  <2>3. First("R") \in Above[f]
    BY <2>2, RunnerAssumption DEF AboveAssumption
  <2> QED
    BY <1>1, <2>1, <2>3 DEF Shape, Waits, Ended, Unended
<1>2. Shape => NothingOutlivesTheStep
  BY <1>1, Zenon DEF NothingOutlivesTheStep
<1> QED
  BY ShapeInit, ShapeStep, <1>2, PTL DEF Spec

-----------------------------------------------------------------------------
(* A batch that is cancelled while its caller waits has what cancelled it. *)
StoppingHasCause ==
  \A c \in stopping : status[c] = "waiting" =>
    \E x \in Functions : Cause(x) /\ InstanceOf[x] \in Batch(c)

CauseInv == StoppingHasCause /\ CancellationHasCause

LEMMA CauseStays ==
  ASSUME Shape, NEW f \in Functions, Moves(f), NEW x \in Functions, Cause(x)
  PROVE  Cause(x)'
<1>1. status[x] \notin {"idle", "running", "waiting"}
  BY DEF Cause, Terminated
<1>2. CASE Ends(f)
  <2>1. x # f
    BY <1>1, <1>2 DEF Ends, Active
  <2>2. status'[x] = status[x] /\ action'[x] = action[x]
    BY <1>1, <1>2, <2>1 DEF Ends, Begins
  <2> QED
    BY <2>2 DEF Cause, Terminated
<1>3. CASE Calls(f)
  <2>1. x # f
    BY <1>1, <1>3 DEF Calls
  <2>2. status'[x] = status[x] /\ action'[x] = action[x]
    BY <1>1, <1>3, <2>1 DEF Calls, Starts
  <2> QED
    BY <2>2 DEF Cause, Terminated
<1>4. CASE GoesOn(f)
  <2>1. x # f
    BY <1>1, <1>4 DEF GoesOn
  <2>2. status'[x] = status[x] /\ action'[x] = action[x]
    BY <1>4, <2>1 DEF GoesOn
  <2> QED
    BY <2>2 DEF Cause, Terminated
<1> QED
  BY <1>2, <1>3, <1>4 DEF Moves

(* Who waits after a step waited before it, but for the caller of a call.  *)
LEMMA WaitedBefore ==
  ASSUME Shape, NEW f \in Functions, Moves(f), NEW c \in Functions, status'[c] = "waiting",
         c # f \/ ~Calls(f)
  PROVE  c # f /\ status[c] = "waiting" /\ called'[c] = called[c]
<1>1. CASE Ends(f)
  BY <1>1 DEF Ends, Begins, Ended, Unended
<1>2. CASE Calls(f)
  <2>1. c # f
    BY <1>2
  <2>2. status[c] = "waiting"
    BY <1>2, <2>1 DEF Calls, Starts
  <2> QED
    BY <1>2, <2>1, <2>2 DEF Calls, Shape, Typed
<1>3. CASE GoesOn(f)
  BY <1>3 DEF GoesOn
<1> QED
  BY <1>1, <1>2, <1>3 DEF Moves

LEMMA StoppingStep ==
  ASSUME Shape, StoppingHasCause, NEW f \in Functions, Moves(f), Typed'
  PROVE  StoppingHasCause'
<1> SUFFICES ASSUME NEW c \in stopping', status'[c] = "waiting"
             PROVE  \E x \in Functions : Cause(x)' /\ InstanceOf[x] \in Batches[c][called'[c]]
  BY DEF StoppingHasCause, Batch
<1>1. ASSUME c \in stopping, c # f \/ ~Calls(f)
      PROVE  \E x \in Functions : Cause(x)' /\ InstanceOf[x] \in Batches[c][called'[c]]
  <2>1. c \in Functions
    BY <1>1 DEF Shape, Typed, TypeOK
  <2>2. c # f /\ status[c] = "waiting" /\ called'[c] = called[c]
    BY <1>1, <2>1, WaitedBefore
  <2>3. PICK x \in Functions : Cause(x) /\ InstanceOf[x] \in Batches[c][called[c]]
    BY <1>1, <2>2 DEF StoppingHasCause, Batch
  <2>4. Cause(x)'
    BY <2>3, CauseStays
  <2> QED
    BY <2>2, <2>3, <2>4
<1>2. CASE Ends(f) /\ Stops(f)
  <2>1. ~Calls(f)
    BY <1>2 DEF Ends, Calls, Ended, Unended
  <2>2. CASE c \in stopping
    BY <1>1, <2>1, <2>2
  <2>3. CASE c \notin stopping
    <3>1. c = Caller[InstanceOf[f]] /\ Cause(f)'
      BY <1>2, <2>3 DEF Stops
    <3>2. CASE c \in Functions
      BY <1>2, <3>1, <3>2 DEF Ends, Shape, InBatch, Batch
    <3>3. CASE c \notin Functions
      <4>1. c = "nobody" /\ f = First("R")
        BY <3>1, <3>3, RootHasNoCaller
      <4>2. stopping' \subseteq Functions
        BY DEF Typed, TypeOK
      <4> QED
        BY <3>3, <4>2
    <3> QED
      BY <3>2, <3>3
  <2> QED
    BY <2>2, <2>3
<1>3. CASE Calls(f) /\ stopping' = stopping \ {f}
  BY <1>1, <1>3
<1>4. CASE GoesOn(f) /\ stopping' = stopping
  <2>1. ~Calls(f)
    BY <1>4 DEF GoesOn, Calls
  <2> QED
    BY <1>1, <1>4, <2>1
<1> QED
  BY <1>2, <1>3, <1>4 DEF Moves

(* What is cancelled is beside, or under a layer beside, the cause.        *)
LEMMA CancelHasCause ==
  ASSUME Shape, StoppingHasCause, NEW f \in Functions, Active(f), Cancelling(f)
  PROVE  \E j \in AtOrOver(InstanceOf[f]), x \in Functions :
           Cause(x) /\ RunBeside(j, InstanceOf[x])
<1>1. PICK g \in Above[f] : g \in stopping /\ status[g] = "waiting"
  BY DEF Cancelling
<1>2. g \in Functions
  BY RunnerAssumption DEF AboveAssumption
<1>3. PICK x \in Functions : Cause(x) /\ InstanceOf[x] \in Batch(g)
  BY <1>1 DEF StoppingHasCause
<1>4. PICK h \in {f} \cup Above[f] : Caller[InstanceOf[h]] = g
  BY RunnerAssumption DEF AboveAssumption
<1>5. h \in Functions /\ Active(h)
  BY <1>4, RunnerAssumption DEF Shape, Waits, Active, AboveAssumption
<1>6. called[g] \in DOMAIN Batches[g] /\ InstanceOf[h] \in Batch(g)
  BY <1>2, <1>4, <1>5 DEF Shape, InBatch
<1>7. InstanceOf[h] # InstanceOf[x]
  <2>1. ~InstanceDone(InstanceOf[h])
    BY <1>5, AtWorkIsNotDone DEF Shape
  <2>2. InstanceDone(InstanceOf[x])
    BY <1>3 DEF Cause, InstanceDone, Threw
  <2> QED
    BY <2>1, <2>2
<1>8. RunBeside(InstanceOf[h], InstanceOf[x])
  BY <1>2, <1>3, <1>6, <1>7 DEF RunBeside, Batch
<1>9. InstanceOf[h] \in AtOrOver(InstanceOf[f])
  <2>1. InstanceOf[f] \in Instances
    BY RunnerAssumption DEF MembersAssumption
  <2>2. Above[First(InstanceOf[f])] = Above[f]
    BY <2>1, FirstIsFirst, MembersShareWhatIsAbove
  <2> QED
    BY <1>4, <2>2 DEF AtOrOver
<1> QED
  BY <1>3, <1>8, <1>9

LEMMA CauseStep == Shape /\ CauseInv /\ [Next]_vars => CauseInv'
<1> SUFFICES ASSUME Shape, CauseInv, [Next]_vars PROVE CauseInv'
  OBVIOUS
<1> USE DEF CauseInv
<1>1. ASSUME NEW f \in Functions, Step(f) PROVE CauseInv'
  <2>1. Moves(f) /\ Typed'
    BY <1>1, StepMoves
  <2>2. StoppingHasCause'
    BY <2>1, StoppingStep
  <2>3. ASSUME NEW i \in stopped'
        PROVE  \E j \in AtOrOver(i), x \in Functions : Cause(x)' /\ RunBeside(j, InstanceOf[x])
    <3>1. \E j \in AtOrOver(i), x \in Functions : Cause(x) /\ RunBeside(j, InstanceOf[x])
      <4>1. CASE i \in stopped
        BY <4>1 DEF CancellationHasCause, Cause
      <4>2. CASE i \notin stopped
        <5>1. Ends(f) /\ i = InstanceOf[f] /\ Cancelling(f)
          BY <2>1, <2>3, <4>2 DEF Moves, Stops
        <5> QED
          BY <5>1, CancelHasCause DEF Ends
      <4> QED
        BY <4>1, <4>2
    <3>2. PICK j \in AtOrOver(i), x \in Functions : Cause(x) /\ RunBeside(j, InstanceOf[x])
      BY <3>1
    <3>3. Cause(x)'
      BY <2>1, <3>2, CauseStays
    <3> QED
      BY <3>2, <3>3
  <2>4. CancellationHasCause'
    BY <2>3 DEF CancellationHasCause, Cause, Terminated
  <2> QED
    BY <2>2, <2>4
<1>2. CASE UNCHANGED vars
  BY <1>2 DEF vars, StoppingHasCause, CancellationHasCause, Cause, Terminated, Batch
<1> QED
  BY <1>1, <1>2 DEF Next

(* In every tree, what is recorded as cancelled was cancelled by what a    *)
(* layer at or over it recorded.                                           *)
THEOREM CancellationIsExplained == Spec => []CancellationHasCause
<1>1. Init => CauseInv
  BY Zenon DEF Init, CauseInv, StoppingHasCause, CancellationHasCause
<1>2. CauseInv => CancellationHasCause
  BY DEF CauseInv
<1> QED
  BY ShapeInit, ShapeStep, CauseStep, <1>1, <1>2, PTL DEF Spec

-----------------------------------------------------------------------------
(* A Final that arrived in a batch which is not over yet is not settled,   *)
(* and is nowhere else; every other Final that was decided is settled.     *)
Live(c, k, g) ==
  /\ status[c] = "waiting" /\ k \in DOMAIN arrived[c]
  /\ arrived[c][k].kind = "final" /\ arrived[c][k].by = g

SettledAtMostOnce ==
  \A g \in Functions : settled[g] = 0 \/ (settled[g] = 1 /\ status[g] = "final")
LiveOrSettled ==
  \A g \in Functions : status[g] = "final" /\ settled[g] = 0 =>
    \E c \in Functions, k \in Nat : Live(c, k, g)
LiveIsNotSettled ==
  \A c, g \in Functions, k \in Nat : Live(c, k, g) => status[g] = "final" /\ settled[g] = 0
LiveOnce ==
  \A c, d, g \in Functions, k, l \in Nat : Live(c, k, g) /\ Live(d, l, g) => c = d /\ k = l

Ledger == SettledAtMostOnce /\ LiveOrSettled /\ LiveIsNotSettled /\ LiveOnce

LEMMA LedgerSame ==
  ASSUME Ledger, settled' = settled,
         \A g \in Functions : status'[g] = "final" <=> status[g] = "final",
         \A c, g \in Functions, k \in Nat : Live(c, k, g)' <=> Live(c, k, g)
  PROVE  Ledger'
<1>1. SettledAtMostOnce' /\ LiveIsNotSettled'
  BY DEF Ledger, SettledAtMostOnce, LiveIsNotSettled
<1>2. LiveOnce'
  BY DEF Ledger, LiveOnce
<1>3. LiveOrSettled'
  BY DEF Ledger, LiveOrSettled
<1> QED
  BY <1>1, <1>2, <1>3 DEF Ledger

(* A Final is decided and reaches a batch.                                 *)
LEMMA LedgerArrived ==
  ASSUME Ledger, NEW f \in Functions, status[f] # "final",
         \A g \in Functions : status'[g] = "final" <=> g = f \/ status[g] = "final",
         settled' = settled, NEW d \in Functions, NEW l \in Nat,
         \A c, g \in Functions, k \in Nat :
           Live(c, k, g)' <=> Live(c, k, g) \/ (c = d /\ k = l /\ g = f)
  PROVE  Ledger'
<1>0. settled[f] = 0 /\ \A c \in Functions, k \in Nat : ~Live(c, k, f)
  BY DEF Ledger, SettledAtMostOnce, LiveIsNotSettled
<1>2. SettledAtMostOnce' /\ LiveIsNotSettled'
  BY <1>0 DEF Ledger, SettledAtMostOnce, LiveIsNotSettled
<1>3. LiveOnce'
  BY <1>0 DEF Ledger, LiveOnce
<1>4. LiveOrSettled'
  BY <1>0 DEF Ledger, LiveOrSettled
<1> QED
  BY <1>2, <1>3, <1>4 DEF Ledger

(* A Final is decided and is the step's.                                   *)
LEMMA LedgerTaken ==
  ASSUME Ledger, NEW f \in Functions, status[f] # "final",
         \A g \in Functions : status'[g] = "final" <=> g = f \/ status[g] = "final",
         \A g \in Functions : settled'[g] = settled[g] + (IF g = f THEN 1 ELSE 0),
         \A c, g \in Functions, k \in Nat : Live(c, k, g)' <=> Live(c, k, g)
  PROVE  Ledger'
<1>0. settled[f] = 0 /\ \A c \in Functions, k \in Nat : ~Live(c, k, f)
  BY DEF Ledger, SettledAtMostOnce, LiveIsNotSettled
<1>1. settled'[f] = 1 /\ \A g \in Functions \ {f} : settled'[g] = settled[g]
  BY <1>0 DEF Ledger, SettledAtMostOnce
<1>2. SettledAtMostOnce' /\ LiveIsNotSettled'
  BY <1>0, <1>1 DEF Ledger, SettledAtMostOnce, LiveIsNotSettled
<1>3. LiveOnce'
  BY DEF Ledger, LiveOnce
<1>4. LiveOrSettled'
  BY <1>0, <1>1 DEF Ledger, LiveOrSettled
<1> QED
  BY <1>2, <1>3, <1>4 DEF Ledger

(* A batch is over and its Finals are settled.                             *)
LEMMA LedgerOver ==
  ASSUME Ledger, NEW f \in Functions, NEW S \in SUBSET Functions,
         \A g \in Functions : status'[g] = "final" <=> status[g] = "final",
         \A g \in Functions : settled'[g] = settled[g] + (IF g \in S THEN 1 ELSE 0),
         \A g \in Functions : g \in S <=> \E k \in Nat : Live(f, k, g),
         \A c, g \in Functions, k \in Nat : Live(c, k, g)' <=> c # f /\ Live(c, k, g)
  PROVE  Ledger'
<1>1. \A g \in S : status[g] = "final" /\ settled[g] = 0 /\ settled'[g] = 1
  BY DEF Ledger, LiveIsNotSettled
<1>2. \A g \in Functions \ S : settled'[g] = settled[g]
  BY DEF Ledger, SettledAtMostOnce
<1>3. SettledAtMostOnce'
  BY <1>1, <1>2 DEF Ledger, SettledAtMostOnce
<1>4. LiveIsNotSettled'
  <2> SUFFICES ASSUME NEW c \in Functions, NEW g \in Functions, NEW k \in Nat, c # f, Live(c, k, g)
               PROVE  status'[g] = "final" /\ settled'[g] = 0
    BY DEF LiveIsNotSettled
  <2>1. g \notin S
    BY DEF Ledger, LiveOnce
  <2> QED
    BY <1>2, <2>1 DEF Ledger, LiveIsNotSettled
<1>5. LiveOnce'
  BY DEF Ledger, LiveOnce
<1>6. LiveOrSettled'
  <2> SUFFICES ASSUME NEW g \in Functions, status'[g] = "final", settled'[g] = 0
               PROVE  \E c \in Functions, k \in Nat : Live(c, k, g)'
    BY DEF LiveOrSettled
  <2>1. g \notin S /\ settled[g] = 0
    BY <1>1, <1>2
  <2>2. PICK c \in Functions, k \in Nat : Live(c, k, g)
    BY <2>1 DEF Ledger, LiveOrSettled
  <2>3. c # f
    BY <2>1, <2>2
  <2> QED
    BY <2>2, <2>3
<1> QED
  BY <1>3, <1>4, <1>5, <1>6 DEF Ledger

(* A batch is over and its Finals are settled, but for one that goes on to *)
(* the batch over it.                                                      *)
Settles(S) == \A g \in Functions : settled'[g] = settled[g] + (IF g \in S THEN 1 ELSE 0)
AllBut(f, b, S) == \A g \in Functions : g # b => (g \in S <=> \E k \in Nat : Live(f, k, g))
Passes(f, b, d, l) ==
  \A c, g \in Functions, k \in Nat :
    Live(c, k, g)' <=> (c # f /\ Live(c, k, g)) \/ (c = d /\ k = l /\ g = b)

LEMMA LedgerPassed ==
  ASSUME Ledger, NEW f \in Functions, NEW S \in SUBSET Functions,
         \A g \in Functions : status'[g] = "final" <=> status[g] = "final",
         Settles(S),
         NEW b \in Functions, NEW d \in Functions, NEW l \in Nat,
         NEW j \in Nat, d # f, Live(f, j, b), b \notin S,
         AllBut(f, b, S), Passes(f, b, d, l)
  PROVE  Ledger'
<1> USE DEF Settles, AllBut, Passes
<1>1. \A g \in S : status[g] = "final" /\ settled[g] = 0 /\ settled'[g] = 1
  BY DEF Ledger, LiveIsNotSettled
<1>2. \A g \in Functions \ S : settled'[g] = settled[g]
  BY DEF Ledger, SettledAtMostOnce
<1>3. SettledAtMostOnce'
  BY <1>1, <1>2 DEF Ledger, SettledAtMostOnce
<1>4. status[b] = "final" /\ settled'[b] = 0
  BY <1>2 DEF Ledger, LiveIsNotSettled
<1>5. \A c \in Functions, k \in Nat : c # f => ~Live(c, k, b)
  BY DEF Ledger, LiveOnce
<1>6. LiveIsNotSettled'
  <2> SUFFICES ASSUME NEW c \in Functions, NEW g \in Functions, NEW k \in Nat, c # f, Live(c, k, g)
               PROVE  status'[g] = "final" /\ settled'[g] = 0
    BY <1>4 DEF LiveIsNotSettled
  <2>1. g \notin S
    BY <1>5 DEF Ledger, LiveOnce
  <2> QED
    BY <1>2, <2>1 DEF Ledger, LiveIsNotSettled
<1>7. LiveOnce'
  BY <1>5 DEF Ledger, LiveOnce
<1>8. LiveOrSettled'
  <2> SUFFICES ASSUME NEW g \in Functions, status'[g] = "final", settled'[g] = 0, g # b
               PROVE  \E c \in Functions, k \in Nat : Live(c, k, g)'
    BY DEF LiveOrSettled
  <2>1. g \notin S /\ settled[g] = 0
    BY <1>1, <1>2
  <2>2. PICK c \in Functions, k \in Nat : Live(c, k, g)
    BY <2>1 DEF Ledger, LiveOrSettled
  <2>3. c # f
    BY <2>1, <2>2
  <2> QED
    BY <2>2, <2>3
<1> QED
  BY <1>3, <1>6, <1>7, <1>8 DEF Ledger

LEMMA OthersStay ==
  ASSUME Shape, NEW f \in Functions, Moves(f), NEW g \in Functions \ {f}
  PROVE  /\ status'[g] = "final" <=> status[g] = "final"
         /\ status'[g] = "waiting" <=> status[g] = "waiting"
<1>1. status'[g] = status[g] \/ (status[g] = "idle" /\ status'[g] = "running")
  BY DEF Moves, Ends, Calls, GoesOn, Begins, Starts
<1> QED
  BY <1>1

LEMMA LiveElsewhere ==
  ASSUME Shape, NEW f \in Functions, Moves(f), NEW c \in Functions \ {f},
         arrived'[c] = arrived[c], NEW k, NEW g
  PROVE  Live(c, k, g)' <=> Live(c, k, g)
BY OthersStay DEF Live

(* No Final is decided, arrives or is passed on.                           *)
LEMMA LedgerQuiet ==
  ASSUME Shape, Ledger, NEW f \in Functions, Moves(f), settled' = settled,
         status[f] # "final", status'[f] # "final",
         \A c \in Functions \ {f} : arrived'[c] = arrived[c],
         status[f] = "waiting" => arrived[f] = <<>>,
         status'[f] = "waiting" => arrived'[f] = <<>>
  PROVE  Ledger'
<1>1. \A g \in Functions : status'[g] = "final" <=> status[g] = "final"
  BY OthersStay
<1>2. \A k, g : ~Live(f, k, g) /\ ~Live(f, k, g)'
  BY DEF Live
<1>3. \A c, g \in Functions, k \in Nat : Live(c, k, g)' <=> Live(c, k, g)
  <2> SUFFICES ASSUME NEW c \in Functions, NEW g \in Functions, NEW k \in Nat
               PROVE  Live(c, k, g)' <=> Live(c, k, g)
    OBVIOUS
  <2> QED
    BY <1>2, LiveElsewhere
<1> QED
  BY <1>1, <1>3, LedgerSame

(* An exception of the root is the step's.                                 *)
LEMMA ThrowAtRoot ==
  ASSUME NEW f \in Functions, f = First("R"), NEW how, NEW kind, NEW by, NEW S,
         EndsThrowing(f, how, kind, by, S)
  PROVE  /\ arrived' = arrived
         /\ \A g \in Functions :
              settled'[g] = settled[g] + (IF g \in S \/ (kind = "final" /\ g = by) THEN 1 ELSE 0)
<1>1. Caller[InstanceOf[f]] = "nobody"
  BY RootHasNoCaller
<1> QED
  BY <1>1 DEF EndsThrowing

(* An exception below the root is the last to arrive in its batch.         *)
Reaches(f, kind, by, S) ==
  /\ \A g \in Functions : settled'[g] = settled[g] + (IF g \in S THEN 1 ELSE 0)
  /\ \E d \in Functions, l \in Nat : d # f /\ \A c, g \in Functions, k \in Nat :
       Live(c, k, g)' <=> (c # f /\ Live(c, k, g))
                          \/ (kind = "final" /\ c = d /\ k = l /\ g = by)

LEMMA ThrowBelow ==
  ASSUME Shape, NEW f \in Functions, f # First("R"), Moves(f), Active(f),
         status'[f] # "waiting", NEW how, NEW kind \in {"error", "final"},
         NEW by \in Functions, NEW S, EndsThrowing(f, how, kind, by, S)
  PROVE  Reaches(f, kind, by, S)
<1> DEFINE d == Caller[InstanceOf[f]]
<1>1. settled' = [g \in Functions |->
         settled[g] + (IF g \in S \cup (IF d = "nobody" /\ kind = "final" THEN {by} ELSE {})
                       THEN 1 ELSE 0)]
  BY DEF EndsThrowing
<1>3. d # "nobody"
  BY RootHasNoCaller
<1>4. d \in Functions /\ d # f /\ status[d] = "waiting" /\ status'[d] = "waiting"
  <2>1. d \in Functions
    BY <1>3, RootHasNoCaller
  <2>2. d \in Above[f]
    BY <2>1, UnderItsCaller
  <2>3. d # f /\ status[d] = "waiting"
    BY <2>2, RunnerAssumption DEF Shape, Waits, AboveAssumption
  <2> QED
    BY <2>1, <2>3, OthersStay
<1>5. \A g \in Functions : settled'[g] = settled[g] + (IF g \in S THEN 1 ELSE 0)
  BY <1>1, <1>3
<1>6. arrived' = [arrived EXCEPT ![d] = Append(@, [kind |-> kind, by |-> by])]
  BY <1>3 DEF EndsThrowing
<1>7. arrived \in [Functions -> Seq(Exceptions)]
  BY DEF Shape, Typed
<1>8. arrived'[d] = Append(arrived[d], [kind |-> kind, by |-> by])
      /\ \A c \in Functions \ {d} : arrived'[c] = arrived[c]
  BY <1>4, <1>6, <1>7
<1> DEFINE l == Len(arrived[d]) + 1
           q == arrived[d]
           e == [kind |-> kind, by |-> by]
<1>9. l \in Nat /\ l \notin DOMAIN q /\ DOMAIN Append(q, e) = DOMAIN q \cup {l}
      /\ Append(q, e)[l] = e /\ \A k \in DOMAIN q : Append(q, e)[k] = q[k]
  <2>1. q \in Seq(Exceptions)
    BY <1>4, <1>7
  <2> HIDE DEF e
  <2>2. Len(q) \in Nat /\ DOMAIN q = 1..Len(q)
    BY <2>1
  <2> QED
    BY <2>1, <2>2
<1>10. ASSUME NEW k \in Nat, NEW g \in Functions
      PROVE  Live(d, k, g)' <=> Live(d, k, g) \/ (kind = "final" /\ k = l /\ g = by)
  <2>1. e.kind = kind /\ e.by = by
    OBVIOUS
  <2> HIDE DEF l, q, e
  <2>2. Live(d, k, g) <=> k \in DOMAIN q /\ q[k].kind = "final" /\ q[k].by = g
    BY <1>4 DEF Live, q
  <2>3. Live(d, k, g)' <=> /\ k \in DOMAIN Append(q, e)
                           /\ Append(q, e)[k].kind = "final" /\ Append(q, e)[k].by = g
    BY <1>4, <1>8 DEF Live, q, e
  <2>4. CASE k = l
    BY <1>9, <2>1, <2>2, <2>3, <2>4
  <2>5. CASE k # l
    BY <1>9, <2>1, <2>2, <2>3, <2>5
  <2> QED
    BY <2>4, <2>5
<1> HIDE DEF d, l
<1>11. ASSUME NEW c \in Functions, NEW g \in Functions, NEW k \in Nat
      PROVE  Live(c, k, g)' <=> (c # f /\ Live(c, k, g))
                                \/ (kind = "final" /\ c = d /\ k = l /\ g = by)
  <2>1. CASE c = f
    BY <1>4, <2>1 DEF Live
  <2>2. CASE c = d
    BY <1>4, <1>10, <2>2
  <2>3. CASE c # f /\ c # d
    BY <1>8, <2>3, LiveElsewhere
  <2> QED
    BY <2>1, <2>2, <2>3
<1> QED
  BY <1>4, <1>5, <1>9, <1>11 DEF Reaches

(* A batch that is called, or over without a Final, settles nothing.       *)
LEMMA QuietLedger ==
  ASSUME Shape, Ledger, NEW f \in Functions, Typed', Moves(f),
         \/ Call(f) \/ Report(f) \/ Abstain(f) \/ MonitorRaises(f) \/ Cancelled(f)
         \/ status[f] = "waiting" /\ NothingSurfaces(f)
  PROVE  Ledger'
<1>0. arrived \in [Functions -> Seq(Exceptions)] /\ status \in [Functions -> Statuses]
  BY DEF Shape, Typed, TypeOK
<1>1. CASE Call(f)
  <2>1. /\ status[f] = "running" /\ status'[f] = "waiting" /\ settled' = settled
        /\ arrived'[f] = <<>> /\ \A c \in Functions \ {f} : arrived'[c] = arrived[c]
    BY <1>0, <1>1 DEF Call
  <2> QED
    BY <2>1, LedgerQuiet
<1>2. ASSUME status[f] = "running", settled' = settled, arrived' = arrived,
             status'[f] \notin {"final", "waiting"}
      PROVE  Ledger'
  BY <1>2, LedgerQuiet
<1>3. ASSUME NEW how \in {"reported", "abstained", "failed"}, NEW b, EndsQuietly(f, how, b)
      PROVE  arrived' = arrived /\ status'[f] \notin {"final", "waiting"}
  BY <1>3 DEF EndsQuietly
<1>4. ASSUME EndsCancelled(f)
      PROVE  settled' = settled /\ arrived' = arrived /\ status'[f] \notin {"final", "waiting"}
  BY <1>0, <1>4 DEF EndsCancelled
<1>5. CASE Report(f)
  <2>1. status[f] = "running" /\ settled' = settled
    BY <1>5 DEF Report
  <2>2. \E b : EndsQuietly(f, "reported", b)
    BY <1>5 DEF Report
  <2> QED
    BY <1>2, <1>3, <2>1, <2>2
<1>6. CASE Abstain(f)
  BY <1>2, <1>3, <1>6 DEF Abstain
<1>7. CASE MonitorRaises(f)
  BY <1>2, <1>3, <1>4, <1>7 DEF MonitorRaises
<1>8. CASE Cancelled(f)
  BY <1>2, <1>4, <1>8 DEF Cancelled
<1>9. CASE status[f] = "waiting" /\ NothingSurfaces(f)
  <2>1. arrived[f] = <<>> /\ settled' = settled /\ arrived' = arrived
        /\ status'[f] \notin {"final", "waiting"}
    BY <1>0, <1>4, <1>9 DEF NothingSurfaces
  <2> QED
    BY <1>9, <2>1, LedgerQuiet
<1> QED
  BY <1>1, <1>5, <1>6, <1>7, <1>8, <1>9

LEMMA RaiseLedger ==
  ASSUME Shape, Ledger, NEW f \in Functions, Moves(f), Raise(f)
  PROVE  Ledger'
<1>1. status[f] = "running" /\ Active(f) /\ EndsThrowing(f, "raised", "error", f, {})
  BY DEF Raise, Active
<1>2. status'[f] = "raised"
  BY <1>1 DEF EndsThrowing, Shape, Typed, TypeOK
<1>3. \A g \in Functions : status'[g] = "final" <=> status[g] = "final"
  BY <1>1, <1>2, OthersStay
<1>4. /\ \A g \in Functions : settled'[g] = settled[g] + 0
      /\ \A c, g \in Functions, k \in Nat : Live(c, k, g)' <=> Live(c, k, g)
  <2>1. \A k, g : ~Live(f, k, g) /\ ~Live(f, k, g)'
    BY <1>1, <1>2 DEF Live
  <2>2. CASE f = First("R")
    <3>1. arrived' = arrived /\ \A g \in Functions : settled'[g] = settled[g] + 0
      BY <1>1, <2>2, ThrowAtRoot
    <3> QED
      BY <2>1, <3>1, LiveElsewhere
  <2>3. CASE f # First("R")
    <3>1. /\ \A g \in Functions : settled'[g] = settled[g] + 0
          /\ \A c, g \in Functions, k \in Nat : Live(c, k, g)' <=> (c # f /\ Live(c, k, g))
      <4>1. Reaches(f, "error", f, {})
        BY <1>1, <1>2, <2>3, ThrowBelow
      <4> QED
        BY <4>1 DEF Reaches
    <3> QED
      BY <2>1, <3>1
  <2> QED
    BY <2>2, <2>3
<1>5. settled' = settled
  <2>1. settled \in [Functions -> Nat] /\ settled' \in [Functions -> Nat]
    BY <1>1, ThrowReaches DEF Shape, Typed
  <2> QED
    BY <1>4, <2>1
<1> QED
  BY <1>3, <1>4, <1>5, LedgerSame

LEMMA DecideFinalLedger ==
  ASSUME Shape, Ledger, NEW f \in Functions, Moves(f), DecideFinal(f)
  PROVE  Ledger'
<1>1. status[f] = "running" /\ Active(f) /\ EndsThrowing(f, "final", "final", f, {})
  BY DEF DecideFinal, Active
<1>2. status'[f] = "final"
  BY <1>1 DEF EndsThrowing, Shape, Typed, TypeOK
<1>3. \A g \in Functions : status'[g] = "final" <=> g = f \/ status[g] = "final"
  BY <1>1, <1>2, OthersStay
<1>4. \A k, g : ~Live(f, k, g) /\ ~Live(f, k, g)'
  BY <1>1, <1>2 DEF Live
<1>5. settled \in [Functions -> Nat] /\ settled' \in [Functions -> Nat]
  BY <1>1, ThrowReaches DEF Shape, Typed
<1>6. CASE f = First("R")
  <2>1. arrived' = arrived
        /\ \A g \in Functions : settled'[g] = settled[g] + (IF g = f THEN 1 ELSE 0)
    BY <1>1, <1>6, ThrowAtRoot
  <2>2. \A c, g \in Functions, k \in Nat : Live(c, k, g)' <=> Live(c, k, g)
    BY <1>4, <2>1, LiveElsewhere
  <2> QED
    BY <1>1, <1>3, <2>1, <2>2, LedgerTaken
<1>7. CASE f # First("R")
  <2>0. /\ \A g \in Functions : settled'[g] = settled[g] + 0
        /\ \E d \in Functions, l \in Nat : d # f /\ \A c, g \in Functions, k \in Nat :
             Live(c, k, g)' <=> (c # f /\ Live(c, k, g)) \/ (c = d /\ k = l /\ g = f)
    <3>1. Reaches(f, "final", f, {})
      BY <1>1, <1>2, <1>7, ThrowBelow
    <3> QED
      BY <3>1 DEF Reaches
  <2>1. settled' = settled
    BY <1>5, <2>0
  <2>2. PICK d \in Functions, l \in Nat : \A c, g \in Functions, k \in Nat :
          Live(c, k, g)' <=> (c # f /\ Live(c, k, g)) \/ (c = d /\ k = l /\ g = f)
    BY <2>0
  <2>3. \A c, g \in Functions, k \in Nat :
          Live(c, k, g)' <=> Live(c, k, g) \/ (c = d /\ k = l /\ g = f)
    BY <1>4, <2>2
  <2> QED
    BY <1>1, <1>3, <2>1, <2>3, LedgerArrived
<1> QED
  BY <1>6, <1>7

(* Of a waiting function, what is live are the Finals of its batch.        *)
LEMMA LiveHere ==
  ASSUME Shape, NEW f \in Functions, status[f] = "waiting"
  PROVE  /\ \A k \in Nat, g \in Functions :
              Live(f, k, g) <=> k \in Finals(f) /\ arrived[f][k].by = g
         /\ Finals(f) \subseteq Nat
         /\ \A k \in Finals(f) : arrived[f][k].by \in Functions
<1>1. arrived[f] \in Seq(Exceptions)
  BY DEF Shape, Typed
<1>2. DOMAIN arrived[f] \subseteq Nat /\ \A k \in DOMAIN arrived[f] : arrived[f][k] \in Exceptions
  BY <1>1
<1>3. \A k \in DOMAIN arrived[f] : arrived[f][k].by \in Functions
  BY <1>2 DEF Exceptions
<1> QED
  BY <1>2, <1>3 DEF Live, Finals

LEMMA ErrorSurfacesLedger ==
  ASSUME Shape, Ledger, NEW f \in Functions, Moves(f), status[f] = "waiting", ErrorSurfaces(f)
  PROVE  Ledger'
<1>1. /\ Errors(f) # {} /\ status' = [status EXCEPT ![f] = "running"]
      /\ settled' = [g \in Functions |-> settled[g] + (IF g \in Superseded(f) THEN 1 ELSE 0)]
      /\ arrived' = arrived
  BY DEF ErrorSurfaces
<1>2. status'[f] = "running"
  BY <1>1 DEF Shape, Typed, TypeOK
<1>3. Superseded(f) = {arrived[f][k].by : k \in Finals(f)}
  BY <1>1 DEF Superseded
<1>4. Superseded(f) \in SUBSET Functions
      /\ \A g \in Functions : g \in Superseded(f) <=> \E k \in Nat : Live(f, k, g)
  BY <1>3, LiveHere
<1>5. \A g \in Functions : status'[g] = "final" <=> status[g] = "final"
  BY <1>2, OthersStay
<1>6. \A c, g \in Functions, k \in Nat : Live(c, k, g)' <=> c # f /\ Live(c, k, g)
  <2>1. \A k, g : ~Live(f, k, g)'
    BY <1>2 DEF Live
  <2> QED
    BY <1>1, <2>1, LiveElsewhere
<1>7. \A g \in Functions : settled'[g] = settled[g] + (IF g \in Superseded(f) THEN 1 ELSE 0)
  BY <1>1
<1> QED
  BY <1>4, <1>5, <1>6, <1>7, LedgerOver

LEMMA FinalSurfacesLedger ==
  ASSUME Shape, Ledger, NEW f \in Functions, Moves(f), status[f] = "waiting", FinalSurfaces(f)
  PROVE  Ledger'
<1>1. PICK j \in FirstFinal(f) :
        EndsThrowing(f, "passed", "final", arrived[f][j].by, Superseded(f))
  BY DEF FinalSurfaces
<1> DEFINE b == arrived[f][j].by
           S == Superseded(f)
<1>2. j \in Finals(f) /\ j \in Nat /\ b \in Functions /\ Live(f, j, b)
  BY LiveHere DEF FirstFinal
<1>3. FirstFinal(f) = {j}
  <2>1. ASSUME NEW k \in FirstFinal(f) PROVE k = j
    <3>1. k \in Nat /\ k <= j /\ j <= k
      BY <1>1, <1>2, LiveHere DEF FirstFinal
    <3> QED
      BY <1>2, <3>1
  <2> QED
    BY <1>1, <2>1
<1>4. S = {arrived[f][k].by : k \in Finals(f) \ {j}}
  BY <1>3 DEF Superseded, FinalSurfaces
<1>5. S \in SUBSET Functions /\ b \notin S
  <2>1. S \in SUBSET Functions
    BY <1>4, LiveHere
  <2>2. ASSUME NEW k \in Finals(f) \ {j}, arrived[f][k].by = b PROVE FALSE
    <3>1. k \in Nat /\ Live(f, k, b)
      BY <1>2, <2>2, LiveHere
    <3> QED
      BY <1>2, <2>2, <3>1 DEF Ledger, LiveOnce
  <2> QED
    BY <1>4, <2>1, <2>2
<1>6. \A g \in Functions : g # b => (g \in S <=> \E k \in Nat : Live(f, k, g))
  BY <1>2, <1>4, LiveHere
<1>7. status'[f] = "passed"
  BY <1>1 DEF EndsThrowing, Shape, Typed, TypeOK
<1>8. \A g \in Functions : status'[g] = "final" <=> status[g] = "final"
  BY <1>7, OthersStay
<1>9. \A k, g : ~Live(f, k, g)'
  BY <1>7 DEF Live
<1>12. Active(f)
  BY DEF Active
<1> HIDE DEF S, b
<1>10. CASE f = First("R")
  <2>0. /\ arrived' = arrived
        /\ \A g \in Functions :
             settled'[g] = settled[g] + (IF g \in S \/ g = b THEN 1 ELSE 0)
    BY <1>1, <1>10, ThrowAtRoot DEF S, b
  <2>1. \A c, g \in Functions, k \in Nat : Live(c, k, g)' <=> c # f /\ Live(c, k, g)
    BY <1>9, <2>0, LiveElsewhere
  <2> DEFINE T == S \cup {b}
  <2>2. T \in SUBSET Functions
    BY <1>2, <1>5
  <2>3. ASSUME NEW g \in Functions PROVE g \in T <=> \E k \in Nat : Live(f, k, g)
    <3>1. CASE g = b
      BY <1>2, <3>1
    <3>2. CASE g # b
      BY <1>6, <3>2
    <3> QED
      BY <3>1, <3>2
  <2>4. \A g \in Functions : settled'[g] = settled[g] + (IF g \in T THEN 1 ELSE 0)
    BY <2>0
  <2> HIDE DEF T
  <2> QED
    BY <1>8, <2>1, <2>2, <2>3, <2>4, LedgerOver
<1>11. CASE f # First("R")
  <2>0. /\ \A g \in Functions : settled'[g] = settled[g] + (IF g \in S THEN 1 ELSE 0)
        /\ \E d \in Functions, l \in Nat : d # f /\ \A c, g \in Functions, k \in Nat :
             Live(c, k, g)' <=> (c # f /\ Live(c, k, g)) \/ (c = d /\ k = l /\ g = b)
    <3>1. Reaches(f, "final", b, S)
      BY <1>1, <1>2, <1>7, <1>11, <1>12, ThrowBelow DEF S, b
    <3> QED
      BY <3>1 DEF Reaches
  <2>1. PICK d \in Functions, l \in Nat : d # f /\ \A c, g \in Functions, k \in Nat :
          Live(c, k, g)' <=> (c # f /\ Live(c, k, g)) \/ (c = d /\ k = l /\ g = b)
    BY <2>0
  <2>2. Settles(S) /\ AllBut(f, b, S)
    BY <1>6, <2>0 DEF Settles, AllBut
  <2>3. Passes(f, b, d, l)
    BY <2>1 DEF Passes
  <2>4. d # f /\ b \in Functions /\ j \in Nat /\ Live(f, j, b) /\ b \notin S
    BY <1>2, <1>5, <2>1
  <2> QED
    BY <1>5, <1>8, <2>2, <2>3, <2>4, LedgerPassed
<1> QED
  BY <1>10, <1>11

LEMMA LedgerStep == Shape /\ Ledger /\ [Next]_vars => Ledger'
<1> SUFFICES ASSUME Shape, Ledger, [Next]_vars PROVE Ledger'
  OBVIOUS
<1>1. ASSUME NEW f \in Functions, Step(f) PROVE Ledger'
  <2>1. Typed' /\ Moves(f)
    BY <1>1, StepMoves
  <2>2. CASE Settle(f)
    <3>1. status[f] = "waiting" /\ (ErrorSurfaces(f) \/ FinalSurfaces(f) \/ NothingSurfaces(f))
      BY <2>2 DEF Settle
    <3> QED
      BY <2>1, <3>1, QuietLedger, ErrorSurfacesLedger, FinalSurfacesLedger
  <2> QED
    BY <1>1, <2>1, <2>2, QuietLedger, RaiseLedger, DecideFinalLedger DEF Step
<1>2. CASE UNCHANGED vars
  <2>1. settled' = settled /\ status' = status /\ arrived' = arrived
    BY <1>2 DEF vars
  <2> QED
    BY <2>1, LedgerSame DEF Live
<1> QED
  BY <1>1, <1>2 DEF Next

(* In every tree, each Final that was decided is recorded for good exactly *)
(* once when the step is over, and never twice before.                     *)
THEOREM FinalIsSettled == Spec => []FinalSettledOnce
<1>1. Init => Ledger
  <2> SUFFICES ASSUME Init PROVE Ledger
    OBVIOUS
  <2>1. \A f \in Functions : status[f] # "final" /\ status[f] # "waiting" /\ settled[f] = 0
    BY Zenon DEF Init
  <2> QED
    BY <2>1 DEF Ledger, SettledAtMostOnce, LiveOrSettled, LiveIsNotSettled, LiveOnce, Live
<1>2. Shape /\ Ledger /\ NothingOutlivesTheStep => FinalSettledOnce
  <2> SUFFICES ASSUME Shape, Ledger, NothingOutlivesTheStep PROVE FinalSettledOnce
    OBVIOUS
  <2>1. \A f \in Functions : settled[f] <= (IF status[f] = "final" THEN 1 ELSE 0)
    BY DEF Ledger, SettledAtMostOnce
  <2>2. ASSUME outcome # "running", NEW f \in Functions, status[f] = "final"
        PROVE  settled[f] = 1
    BY <2>2 DEF Ledger, SettledAtMostOnce, LiveOrSettled, Live, NothingOutlivesTheStep
  <2> QED
    BY <2>1, <2>2, Zenon DEF FinalSettledOnce
<1> QED
  BY ShapeInit, ShapeStep, LedgerStep, NothingOutlives, <1>1, <1>2, PTL DEF Spec
-----------------------------------------------------------------------------
(* sequential() and its votes                                              *)

LEMMA LeastElement ==
  ASSUME NEW S \in SUBSET Nat, S # {}
  PROVE  \E k \in S : \A l \in S : k <= l
<1> DEFINE Less == {ss \in Nat \X Nat : ss[1] < ss[2]}
<1>1. IsWellFoundedOn(Less, Nat)
  BY NatLessThanWellFounded DEF OpToRel
<1> HIDE DEF Less
<1>2. PICK k \in S : \A l \in S : <<l, k>> \notin Less
  BY <1>1, WFMin
<1>3. \A l \in S : ~(l < k)
  BY <1>2 DEF Less
<1> QED
  BY <1>3

(* The strongest of some decisions is one of them, as strong as any and the*)
(* first as strong as it is.                                               *)
IsStrongest(ds, k) ==
  /\ k \in DOMAIN ds
  /\ \A l \in DOMAIN ds : /\ PRECEDENCE[ds[k]] >= PRECEDENCE[ds[l]]
                          /\ PRECEDENCE[ds[k]] = PRECEDENCE[ds[l]] => k <= l

LEMMA StrongestIsStrongest ==
  ASSUME NEW ds \in Seq(DecisionActions), ds # <<>>
  PROVE  IsStrongest(ds, Strongest(ds))
<1>0. DOMAIN ds = 1..Len(ds) /\ Len(ds) \in Nat \ {0}
  OBVIOUS
<1>1. DOMAIN ds \subseteq Nat /\ 1 \in DOMAIN ds
  BY <1>0
<1>2. \A k \in DOMAIN ds : PRECEDENCE[ds[k]] \in 1..5
  <2>1. \A k \in DOMAIN ds : ds[k] \in DecisionActions
    OBVIOUS
  <2>2. \A a \in DecisionActions : PRECEDENCE[a] \in 1..5
    BY DEF DecisionActions, PRECEDENCE
  <2> QED
    BY <2>1, <2>2
<1> DEFINE p(k) == PRECEDENCE[ds[k]]
           Falls == {5 - p(k) : k \in DOMAIN ds}
<1> HIDE DEF p
<1>3. Falls \in SUBSET Nat /\ Falls # {}
  BY <1>1, <1>2 DEF p
<1>4. PICK t \in Falls : \A u \in Falls : t <= u
  BY <1>3, LeastElement
<1>5. PICK m \in DOMAIN ds : t = 5 - p(m)
  BY <1>4
<1>6. \A l \in DOMAIN ds : p(m) >= p(l)
  <2> SUFFICES ASSUME NEW l \in DOMAIN ds PROVE p(m) >= p(l)
    OBVIOUS
  <2>1. p(m) \in 1..5 /\ p(l) \in 1..5
    BY <1>2 DEF p
  <2>2. 5 - p(m) <= 5 - p(l)
    BY <1>4, <1>5
  <2> QED
    BY <2>1, <2>2
<1> DEFINE Best == {k \in DOMAIN ds : p(k) = p(m)}
<1>7. Best \in SUBSET Nat /\ Best # {}
  BY <1>1
<1>8. PICK k \in Best : \A l \in Best : k <= l
  BY <1>7, LeastElement
<1>9. IsStrongest(ds, k)
  BY <1>2, <1>6, <1>8 DEF IsStrongest, p
<1> QED
  BY <1>9 DEF Strongest, IsStrongest

(* What a link decided counts as what its strongest decision is.           *)
LEMMA StrongestIsDecided ==
  ASSUME NEW ds \in Seq(Legal(stage)), ds # <<>>
  PROVE  /\ Strongest(ds) \in DOMAIN ds /\ ds[Strongest(ds)] \in Legal(stage)
         /\ \A k \in DOMAIN ds : PRECEDENCE[ds[Strongest(ds)]] >= PRECEDENCE[ds[k]]
<1>1. Legal(stage) \subseteq DecisionActions
  BY DEF Legal
<1>2. ds \in Seq(DecisionActions)
  BY <1>1
<1>3. IsStrongest(ds, Strongest(ds))
  BY <1>2, StrongestIsStrongest
<1> QED
  BY <1>3 DEF IsStrongest

LEMMA OneIsStrongest ==
  ASSUME NEW a \in DecisionActions
  PROVE  <<a>>[Strongest(<<a>>)] = a
<1>1. <<a>> \in Seq(DecisionActions) /\ <<a>> # <<>> /\ DOMAIN <<a>> = {1}
  OBVIOUS
<1>2. Strongest(<<a>>) = 1
  BY <1>1, StrongestIsStrongest DEF IsStrongest
<1> QED
  BY <1>2

LEMMA EscalationsOfALink ==
  ASSUME NEW ds \in Seq(Legal(stage)), at \in Nat \ {0}
  PROVE  /\ Escalations(ds) \in Seq(Nat \ {0})
         /\ \A k \in DOMAIN Escalations(ds) : Escalations(ds)[k] = at
<1> DEFINE E == {l \in DOMAIN ds : ds[l] = "escalate"}
<1>1. IsFiniteSet(E)
  <2>1. DOMAIN ds = 1..Len(ds) /\ Len(ds) \in Int
    OBVIOUS
  <2> QED
    BY <2>1, FS_Interval, FS_Subset
<1>2. Cardinality(E) \in Nat
  BY <1>1, FS_CardinalityType
<1> DEFINE n == Cardinality(E)
<1>3. Escalations(ds) = [k \in 1..n |-> at]
  BY DEF Escalations
<1> HIDE DEF n
<1> QED
  BY <1>2, <1>3 DEF n

(* A layer's vote is legal, and as strong as any of its children's.        *)
LEMMA VoteIsStrict ==
  ASSUME NEW ds \in Seq(Legal(stage)), ds # <<>>
  PROVE  /\ Vote(ds) \in Legal(stage)
         /\ \A k \in DOMAIN ds : PRECEDENCE[Vote(ds)] >= PRECEDENCE[ds[k]]
         /\ Vote(ds) = "modify" =>
              \A k, l \in DOMAIN ds : ds[k] = "modify" /\ ds[l] = "modify" => k = l
<1> DEFINE s == Strongest(ds)
<1>1. /\ s \in DOMAIN ds /\ ds[s] \in Legal(stage)
      /\ \A k \in DOMAIN ds : PRECEDENCE[ds[s]] >= PRECEDENCE[ds[k]]
  BY StrongestIsDecided
<1> HIDE DEF s
<1>2. CASE Contested(ds)
  <2>1. ds[s] = "modify" /\ Vote(ds) = "reject"
    BY <1>2 DEF Contested, Vote, s
  <2>2. Vote(ds) \in Legal(stage)
    BY <1>1, <2>1 DEF Legal, DecisionActions
  <2>3. \A k \in DOMAIN ds : ds[k] \in DecisionActions
    BY DEF Legal
  <2>4. \A a \in DecisionActions : PRECEDENCE["modify"] >= PRECEDENCE[a]
                                   => PRECEDENCE["reject"] >= PRECEDENCE[a]
    BY DEF PRECEDENCE, DecisionActions
  <2> QED
    BY <1>1, <2>1, <2>2, <2>3, <2>4
<1>3. CASE ~Contested(ds)
  <2>1. Vote(ds) = ds[s]
    BY <1>3 DEF Vote, s
  <2>2. ds[s] = "modify" => \A l \in DOMAIN ds : ds[l] = "modify" => l = s
    BY <1>3 DEF Contested, s
  <2> QED
    BY <1>1, <2>1, <2>2
<1> QED
  BY <1>2, <1>3
-----------------------------------------------------------------------------
(* What a link has decided is in `result`, or it escalates or abstains; all*)
(* that is handed on was escalated before; and a policy that ends the chain*)
(* and was handed an escalation has answered it.                           *)
Policies == {"terminates", "proceeds"}
HandedBefore == \A k \in DOMAIN handed : handed[k] < at
VotedBefore == votes # <<>> => at > 1 /\ at <= Len(chain) + 1
PolicyAnswered ==
  at > Len(chain) /\ chain[Len(chain)] \in Policies /\ result = Running => handed = <<>>
PolicyNeverEscalates ==
  chain[Len(chain)] \in Policies => result.action # "escalate"
DecidedLater ==
  result \notin {Running, Raised} /\ handed # <<>> =>
    result.action = "escalate" \/ \A k \in DOMAIN handed : handed[k] < result.link

ChainInv == /\ ChainTypeOK /\ HandedBefore /\ VotedBefore /\ PolicyAnswered
            /\ PolicyNeverEscalates /\ DecidedLater /\ NoObjectionIsOutvoted

(* What the decisions a link returned say of the votes it took.            *)
Says(ds) ==
  /\ votes' # <<>> => ds # <<>>
  /\ \A k \in DOMAIN votes' : PRECEDENCE[ds[Strongest(ds)]] >= PRECEDENCE[votes'[k]]
  /\ chain[at] = "concurrent" /\ ds[Strongest(ds)] = "modify" =>
       \A k, l \in DOMAIN votes' : votes'[k] = "modify" /\ votes'[l] = "modify" => k = l
  /\ chain[at] \in Policies => /\ ds # <<>> => ds[Strongest(ds)] # "escalate"
                               /\ handed # <<>> => ds # <<>>

LEMMA OutcomeKept ==
  ASSUME votes # <<>> => Outcome' = Outcome, votes' = votes, chain' = chain,
         at' = at, result # Raised, NoObjectionIsOutvoted
  PROVE  NoObjectionIsOutvoted'
BY DEF NoObjectionIsOutvoted

(* The votes of the link just run have nothing they say outvoted.          *)
LEMMA OutcomeOfLink ==
  ASSUME ChainTypeOK, result = Running, at <= Len(chain), at' = at + 1, chain' = chain,
         NEW ds \in Seq(Legal(stage)), Says(ds),
         votes' # <<>> => Outcome' = ds[Strongest(ds)]
  PROVE  NoObjectionIsOutvoted'
<1>1. at' - 1 = at
  BY DEF ChainTypeOK
<1> SUFFICES ASSUME votes' # <<>>
             PROVE  /\ \A k \in DOMAIN votes' : PRECEDENCE[Outcome'] >= PRECEDENCE[votes'[k]]
                    /\ chain[at] = "concurrent" /\ Outcome' = "modify" =>
                         \A k, l \in DOMAIN votes' :
                           votes'[k] = "modify" /\ votes'[l] = "modify" => k = l
  BY <1>1 DEF NoObjectionIsOutvoted
<1>2. Outcome' = ds[Strongest(ds)]
  OBVIOUS
<1> QED
  BY <1>2 DEF Says

LEMMA LinkReturned ==
  ASSUME ChainInv, result = Running, at <= Len(chain),
         NEW ds \in Seq(Legal(stage)), votes' \in Seq(Legal(stage)), LinkReturns(ds), Says(ds)
  PROVE  ChainInv'
<1> USE DEF ChainInv
<1>1. /\ at' = at + 1 /\ stage' = stage /\ chain' = chain
      /\ at \in Nat \ {0} /\ Len(chain) \in Nat /\ chain \in Seq(Kinds)
      /\ handed \in Seq(Nat \ {0}) /\ participated \in BOOLEAN
  BY DEF LinkReturns, ChainTypeOK
<1>2. VotedBefore'
  BY <1>1 DEF VotedBefore
<1>3. at' > Len(chain) => at = Len(chain)
  BY <1>1
<1>4. CASE ds = <<>>
  <2>1. UNCHANGED <<handed, participated, result>> /\ votes' = <<>>
    BY <1>4 DEF LinkReturns, Says
  <2>2. HandedBefore' /\ PolicyNeverEscalates' /\ DecidedLater' /\ NoObjectionIsOutvoted'
    BY <1>1, <2>1 DEF HandedBefore, PolicyNeverEscalates, DecidedLater, NoObjectionIsOutvoted
  <2>3. PolicyAnswered'
    BY <1>1, <1>3, <1>4, <2>1 DEF PolicyAnswered, Says
  <2>4. ChainTypeOK'
    BY <1>1, <2>1 DEF ChainTypeOK
  <2> QED
    BY <1>2, <2>2, <2>3, <2>4
<1> DEFINE a == ds[Strongest(ds)]
<1>5. ASSUME ds # <<>> PROVE a \in Legal(stage) /\ a \in DecisionActions
  BY <1>5, StrongestIsDecided DEF Legal
<1>6. ASSUME ds # <<>>, a # "escalate" PROVE ChainInv'
  <2>1. /\ participated' = TRUE /\ handed' = handed
        /\ result' = [action |-> a, link |-> at]
    BY <1>6 DEF LinkReturns
  <2>2. a \in Legal(stage) /\ a \in DecisionActions
    BY <1>5, <1>6
  <2> HIDE DEF a
  <2>3. result'.action = a /\ result'.link = at /\ result' # Running /\ result' # Raised
    BY <2>1, <2>2 DEF Running, Raised, DecisionActions
  <2>4. HandedBefore'
    BY <1>1, <2>1 DEF HandedBefore
  <2>5. PolicyAnswered' /\ PolicyNeverEscalates'
    BY <1>6, <2>3 DEF PolicyAnswered, PolicyNeverEscalates
  <2>6. DecidedLater'
    BY <2>1, <2>3 DEF DecidedLater, HandedBefore
  <2>7. Outcome' = a
    BY <1>1, <1>6, <2>3 DEF Outcome
  <2>8. NoObjectionIsOutvoted'
    BY <1>1, <2>7, OutcomeOfLink DEF a
  <2>9. ChainTypeOK'
    <3>1. result' \in [action : Legal(stage), link : Nat]
      BY <1>1, <2>1, <2>2
    <3> QED
      BY <1>1, <2>1, <3>1 DEF ChainTypeOK
  <2> QED
    BY <1>2, <2>4, <2>5, <2>6, <2>8, <2>9
<1>7. ASSUME ds # <<>>, a = "escalate" PROVE ChainInv'
  <2>1. participated' = TRUE /\ handed' = handed \o Escalations(ds) /\ result' = Running
    BY <1>7 DEF LinkReturns
  <2>2. handed' \in Seq(Nat \ {0}) /\ \A k \in DOMAIN handed' : handed'[k] < at + 1
    <3> DEFINE e == Escalations(ds)
    <3>1. e \in Seq(Nat \ {0}) /\ \A k \in DOMAIN e : e[k] = at
      BY <1>1, EscalationsOfALink
    <3>2. \A k \in DOMAIN handed : handed[k] < at /\ handed[k] \in Nat
      BY <1>1 DEF HandedBefore
    <3> HIDE DEF e
    <3>3. handed' = handed \o e
      BY <2>1 DEF e
    <3>4. handed' \in Seq(Nat \ {0})
      BY <1>1, <3>1, <3>3
    <3>5. ASSUME NEW k \in DOMAIN handed' PROVE handed'[k] < at + 1
      <4>1. Len(handed) \in Nat /\ Len(e) \in Nat /\ k \in 1..(Len(handed) + Len(e))
            /\ DOMAIN handed = 1..Len(handed) /\ DOMAIN e = 1..Len(e)
        BY <1>1, <3>1, <3>3
      <4>2. CASE k <= Len(handed)
        <5>1. k \in DOMAIN handed /\ handed'[k] = handed[k]
          BY <1>1, <3>1, <3>3, <4>1, <4>2
        <5> QED
          BY <1>1, <3>2, <5>1
      <4>3. CASE k > Len(handed)
        <5>1. k - Len(handed) \in DOMAIN e /\ handed'[k] = e[k - Len(handed)]
          BY <1>1, <3>1, <3>3, <4>1, <4>3
        <5> QED
          BY <1>1, <3>1, <5>1
      <4> QED
        BY <4>1, <4>2, <4>3
    <3> QED
      BY <3>4, <3>5
  <2>3. HandedBefore'
    BY <1>1, <2>2 DEF HandedBefore
  <2>4. PolicyNeverEscalates' /\ DecidedLater'
    BY <2>1 DEF PolicyNeverEscalates, DecidedLater, Running
  <2>5. PolicyAnswered'
    <3> SUFFICES ASSUME at' > Len(chain'), chain'[Len(chain')] \in Policies PROVE handed' = <<>>
      BY DEF PolicyAnswered
    <3>1. chain[at] \in Policies
      BY <1>1, <1>3
    <3> QED
      BY <1>7, <3>1 DEF Says
  <2>7. Outcome' = "escalate"
    BY <1>1, <2>1 DEF Outcome, Running
  <2>8. NoObjectionIsOutvoted'
    BY <1>1, <1>7, <2>7, OutcomeOfLink
  <2>9. ChainTypeOK'
    BY <1>1, <2>1, <2>2 DEF ChainTypeOK
  <2> QED
    BY <1>2, <2>3, <2>4, <2>5, <2>8, <2>9
<1> QED
  BY <1>4, <1>6, <1>7

(* A link that decides what its functions do.                              *)
LEMMA AsTheyDecide ==
  ASSUME ChainInv, result = Running, at <= Len(chain), chain[at] \notin Policies,
         chain[at] # "concurrent", votes' \in Seq(Legal(stage)), LinkReturns(votes')
  PROVE  ChainInv'
<1>1. votes' # <<>> =>
        \A k \in DOMAIN votes' : PRECEDENCE[votes'[Strongest(votes')]] >= PRECEDENCE[votes'[k]]
  BY StrongestIsDecided
<1>2. votes' = <<>> => DOMAIN votes' = {}
  OBVIOUS
<1>3. Says(votes')
  BY <1>1, <1>2 DEF Says
<1> QED
  BY <1>3, LinkReturned

LEMMA ChainStep == ChainInv /\ [ChainNext]_chainVars => ChainInv'
<1> SUFFICES ASSUME ChainInv, [ChainNext]_chainVars PROVE ChainInv'
  OBVIOUS
<1>0. /\ stage \in Stages /\ chain \in Seq(Kinds) /\ Len(chain) \in Nat
      /\ at \in Nat \ {0} /\ participated \in BOOLEAN /\ handed \in Seq(Nat \ {0})
      /\ {"terminate", "proceed", "escalate"} \subseteq Legal(stage)
  BY DEF ChainInv, ChainTypeOK, Legal, DecisionActions
<1>1. CASE Monitor
  <2>1. /\ result = Running /\ at <= Len(chain) /\ chain[at] = "monitor"
        /\ at' = at + 1 /\ votes' = <<>> /\ participated' \in BOOLEAN
        /\ UNCHANGED <<stage, chain, handed, result>>
    BY <1>0, <1>1 DEF Monitor, AtLink
  <2>2. HandedBefore' /\ VotedBefore' /\ NoObjectionIsOutvoted'
    BY <1>0, <2>1 DEF ChainInv, HandedBefore, VotedBefore, NoObjectionIsOutvoted
  <2>3. at' > Len(chain) => at = Len(chain)
    BY <1>0, <2>1
  <2>4. PolicyAnswered' /\ PolicyNeverEscalates' /\ DecidedLater'
    BY <2>1, <2>3 DEF ChainInv, PolicyAnswered, PolicyNeverEscalates, DecidedLater, Policies
  <2>5. ChainTypeOK'
    BY <1>0, <2>1 DEF ChainInv, ChainTypeOK
  <2> QED
    BY <2>2, <2>4, <2>5 DEF ChainInv
<1>2. CASE Protocols
  <2>1. result = Running /\ at <= Len(chain) /\ chain[at] = "protocols"
    BY <1>2 DEF Protocols, AtLink
  <2>2. votes' \in Seq(Legal(stage)) /\ LinkReturns(votes')
    BY <1>2, CompositionAssumption DEF Protocols, Decided
  <2> QED
    BY <2>1, <2>2, AsTheyDecide DEF Policies
<1>3. CASE Concurrent
  <2>1. PICK ds \in Decided : votes' = ds /\ LinkReturns(IF ds = <<>> THEN <<>> ELSE <<Vote(ds)>>)
    BY <1>3 DEF Concurrent
  <2>2. result = Running /\ at <= Len(chain) /\ chain[at] = "concurrent"
    BY <1>3 DEF Concurrent, AtLink
  <2>3. ds \in Seq(Legal(stage))
    BY CompositionAssumption DEF Decided
  <2>4. CASE ds = <<>>
    <3>1. LinkReturns(<<>>) /\ <<>> \in Seq(Legal(stage)) /\ votes' = <<>>
      BY <2>1, <2>4
    <3>2. Says(<<>>)
      BY <2>2, <3>1 DEF Says, Policies
    <3> QED
      BY <2>2, <3>1, <3>2, LinkReturned
  <2>5. CASE ds # <<>>
    <3> DEFINE v == Vote(ds)
    <3>1. /\ v \in Legal(stage)
          /\ \A k \in DOMAIN ds : PRECEDENCE[v] >= PRECEDENCE[ds[k]]
          /\ v = "modify" =>
               \A k, l \in DOMAIN ds : ds[k] = "modify" /\ ds[l] = "modify" => k = l
      BY <2>3, <2>5, VoteIsStrict
    <3>2. LinkReturns(<<v>>)
      BY <2>1, <2>5
    <3> HIDE DEF v
    <3>3. <<v>> \in Seq(Legal(stage)) /\ <<v>> # <<>> /\ <<v>>[Strongest(<<v>>)] = v
      <4>1. v \in DecisionActions
        BY <3>1 DEF Legal
      <4>2. <<v>>[Strongest(<<v>>)] = v
        BY <4>1, OneIsStrongest
      <4> QED
        BY <3>1, <4>2
    <3>4. Says(<<v>>)
      BY <2>1, <2>2, <3>1, <3>3 DEF Says, Policies
    <3> QED
      BY <2>1, <2>2, <2>3, <3>2, <3>3, <3>4, LinkReturned
  <2> QED
    BY <2>4, <2>5
<1>4. CASE HandleEscalation
  <2>1. PICK a \in {"terminate", "proceed"} : votes' = Handle(a) /\ LinkReturns(votes')
    BY <1>4 DEF HandleEscalation
  <2>2. result = Running /\ at <= Len(chain) /\ chain[at] \in Policies
    BY <1>4 DEF HandleEscalation, AtLink, Policies
  <2>3. /\ handed = <<>> => votes' = <<>>
        /\ handed # <<>> => votes' = <<a>> /\ votes' # <<>>
    BY <2>1 DEF Handle
  <2>4. <<a>>[Strongest(<<a>>)] = a /\ a # "escalate" /\ <<a>> \in Seq(Legal(stage))
    BY <1>0, OneIsStrongest DEF DecisionActions
  <2>5. votes' \in Seq(Legal(stage))
    <3> DEFINE Votes == Seq(Legal(stage))
    <3>1. <<>> \in Votes
      OBVIOUS
    <3>2. <<a>> \in Votes
      BY <2>4
    <3> HIDE DEF Votes
    <3>3. votes' \in Votes
      BY <2>3, <3>1, <3>2
    <3> QED
      BY <3>3 DEF Votes
  <2>6. CASE handed = <<>>
    <3>1. Says(votes')
      BY <2>2, <2>3, <2>6 DEF Says, Policies
    <3> QED
      BY <2>1, <2>2, <2>5, <3>1, LinkReturned
  <2>7. CASE handed # <<>>
    <3>1. \A k \in DOMAIN <<a>> : <<a>>[k] = a /\ PRECEDENCE[a] >= PRECEDENCE[a]
      BY DEF PRECEDENCE
    <3>2. Says(votes')
      BY <2>2, <2>3, <2>4, <2>7, <3>1 DEF Says, Policies
    <3> QED
      BY <2>1, <2>2, <2>5, <3>2, LinkReturned
  <2> QED
    BY <2>6, <2>7
<1>5. CASE Human
  <2>1. result = Running /\ at <= Len(chain) /\ chain[at] = "human" /\ LinkReturns(votes')
    BY <1>5 DEF Human, AtLink
  <2>2. ASSUME NEW choice \in Offered[stage] \cup {"terminate"} PROVE Answer[choice] \in Legal(stage)
    <3>1. Offered[stage] \subseteq LegalChoices(stage)
      BY <1>0, CompositionAssumption
    <3>2. choice \in {"approve", "terminate"} \/ (stage = "tool_call" /\ choice \in HumanChoices)
      BY <1>0, <3>1 DEF LegalChoices, Stages, HumanChoices
    <3> QED
      BY <3>2 DEF Answer, Legal, DecisionActions, HumanChoices
  <2>3. votes' \in Seq(Legal(stage))
    <3> DEFINE Votes == Seq(Legal(stage))
    <3>1. <<>> \in Votes /\ \A a \in Legal(stage) : <<a>> \in Votes
      OBVIOUS
    <3>2. votes' = <<>> \/ \E a \in Legal(stage) : votes' = <<a>>
      BY <1>5, <2>2 DEF Human
    <3> HIDE DEF Votes
    <3>3. votes' \in Votes
      BY <3>1, <3>2
    <3> QED
      BY <3>3 DEF Votes
  <2> QED
    BY <2>1, <2>3, AsTheyDecide DEF Policies
<1>6. CASE LinkRaises
  <2>1. /\ result' = Raised /\ votes' = <<>> /\ result'.action = "raised"
        /\ UNCHANGED <<stage, chain, at, handed, participated>>
    BY <1>6 DEF LinkRaises, Raised
  <2>2. HandedBefore' /\ VotedBefore' /\ NoObjectionIsOutvoted'
    BY <2>1 DEF ChainInv, HandedBefore, VotedBefore, NoObjectionIsOutvoted
  <2>3. PolicyAnswered' /\ PolicyNeverEscalates' /\ DecidedLater'
    BY <2>1 DEF PolicyAnswered, PolicyNeverEscalates, DecidedLater, Raised, Running
  <2>4. ChainTypeOK'
    BY <1>0, <2>1 DEF ChainInv, ChainTypeOK
  <2> QED
    BY <2>2, <2>3, <2>4 DEF ChainInv
<1>7. CASE EndOfChain
  <2>1. /\ result = Running /\ at > Len(chain) /\ result' = Conclusion
        /\ UNCHANGED <<stage, chain, at, votes, handed, participated>>
    BY <1>7 DEF EndOfChain
  <2>2. \/ handed # <<>> /\ result' = [action |-> "escalate", link |-> handed[Len(handed)]]
        \/ handed = <<>> /\ result' \in {[action |-> "proceed", link |-> 0], Nothing}
    BY <2>1 DEF Conclusion
  <2>3. HandedBefore' /\ VotedBefore'
    BY <2>1 DEF ChainInv, HandedBefore, VotedBefore
  <2>4. PolicyAnswered' /\ PolicyNeverEscalates' /\ DecidedLater'
    <3>1. PolicyAnswered'
      BY <2>1, <2>2 DEF PolicyAnswered, Running, Nothing
    <3>2. PolicyNeverEscalates'
      BY <2>1, <2>2 DEF ChainInv, PolicyAnswered, PolicyNeverEscalates, Nothing
    <3>3. DecidedLater'
      BY <2>1, <2>2 DEF DecidedLater
    <3> QED
      BY <3>1, <3>2, <3>3
  <2>5. ASSUME votes # <<>> PROVE Outcome' = Outcome
    <3>1. at > 1 /\ at - 1 # 0
      BY <1>0, <2>5 DEF ChainInv, VotedBefore
    <3>2. Outcome = "escalate"
      BY <2>1, <3>1 DEF Outcome, Running
    <3>3. Outcome' = "escalate"
      <4>1. result'.action = "escalate" \/ result'.link = 0
        BY <2>2 DEF Nothing
      <4> QED
        BY <2>1, <3>1, <4>1 DEF Outcome
    <3> QED
      BY <3>2, <3>3
  <2>6. NoObjectionIsOutvoted'
    <3>1. result # Raised
      BY <2>1 DEF Running, Raised
    <3> QED
      BY <2>1, <2>5, <3>1, OutcomeKept DEF ChainInv
  <2>7. ChainTypeOK'
    <3>1. handed # <<>> => handed[Len(handed)] \in Nat
      BY <1>0
    <3>2. result' \in [action : Legal(stage), link : Nat] \cup {Nothing, Running, Raised}
      BY <1>0, <2>2, <3>1
    <3> QED
      BY <1>0, <2>1, <3>2 DEF ChainInv, ChainTypeOK
  <2> QED
    BY <2>3, <2>4, <2>6, <2>7 DEF ChainInv
<1>8. CASE UNCHANGED chainVars
  BY <1>8 DEF chainVars, ChainInv, ChainTypeOK, HandedBefore, VotedBefore, PolicyAnswered,
              PolicyNeverEscalates, DecidedLater, NoObjectionIsOutvoted, Outcome, Legal
<1> QED
  BY <1>1, <1>2, <1>3, <1>4, <1>5, <1>6, <1>7, <1>8 DEF ChainNext

LEMMA ChainStart == ChainInit => ChainInv
<1> SUFFICES ASSUME ChainInit PROVE ChainInv
  OBVIOUS
<1>1. /\ stage \in Stages /\ at = 1 /\ votes = <<>> /\ handed = <<>>
      /\ participated = FALSE /\ result = Running
  BY DEF ChainInit
<1>2. chain \in Seq(Kinds) /\ chain # <<>>
  <2>1. PICK n \in 1..MaxLinks : chain \in [1..n -> Kinds]
    BY DEF ChainInit
  <2>2. n \in Nat \ {0}
    BY CompositionAssumption
  <2>3. chain \in Seq(Kinds) /\ Len(chain) = n
    BY <2>1, <2>2
  <2> QED
    BY <2>2, <2>3
<1>3. ChainTypeOK
  <2>1. <<>> \in Seq(Legal(stage)) /\ <<>> \in Seq(Nat \ {0})
    OBVIOUS
  <2>2. votes \in Seq(Legal(stage))
    BY <1>1, <2>1
  <2>3. handed \in Seq(Nat \ {0})
    BY <1>1, <2>1
  <2>4. result \in [action : Legal(stage), link : Nat] \cup {Nothing, Running, Raised}
    BY <1>1, Zenon
  <2>5. at \in Nat \ {0}
    BY <1>1
  <2>6. participated \in BOOLEAN
    BY <1>1, Zenon
  <2> QED
    BY <1>1, <1>2, <2>2, <2>3, <2>4, <2>5, <2>6, Zenon DEF ChainTypeOK
<1>4. HandedBefore /\ VotedBefore /\ PolicyAnswered /\ DecidedLater /\ NoObjectionIsOutvoted
  BY <1>1 DEF HandedBefore, VotedBefore, PolicyAnswered, DecidedLater, NoObjectionIsOutvoted
<1>5. PolicyNeverEscalates
  BY <1>1 DEF PolicyNeverEscalates, Running
<1> QED
  BY <1>3, <1>4, <1>5 DEF ChainInv

(* What a chain decides is legal at the stage, and its variables keep their*)
(* types, whatever its links, their votes and the person asked say.        *)
THEOREM ChainTyped == ChainSpec => []ChainTypeOK
<1>1. ChainInv => ChainTypeOK
  BY DEF ChainInv
<1> QED
  BY ChainStart, ChainStep, <1>1, PTL DEF ChainSpec

(* In chains of any length, a step some link escalated is escalated on or  *)
(* decided by a link that was handed it, and one that ends in a            *)
(* handle_escalation() never escalates (sequential, handle_escalation).    *)
THEOREM EscalationAnswered == ChainSpec => []EscalationIsAnswered
<1>1. ChainInv => EscalationIsAnswered
  BY DEF ChainInv, EscalationIsAnswered, PolicyNeverEscalates, DecidedLater, Policies
<1> QED
  BY ChainStart, ChainStep, <1>1, PTL DEF ChainSpec

(* In chains of any length, with any number of votes, no objection is      *)
(* outvoted and no contested rewrite takes effect (concurrent, strongest). *)
THEOREM ObjectionStands == ChainSpec => []NoObjectionIsOutvoted
<1>1. ChainInv => NoObjectionIsOutvoted
  BY DEF ChainInv
<1> QED
  BY ChainStart, ChainStep, <1>1, PTL DEF ChainSpec
-----------------------------------------------------------------------------
(* threshold()                                                             *)

(* A length is long, one or none.                                          *)
LEMMA Lengths ==
  /\ \A n \in Nat : n > 1 \/ n = 1 \/ n = 0
  /\ \A n \in Nat : n > 1 => n # 1 /\ n # 0
  /\ \A n \in Nat : n = 1 => ~(n > 1)
  /\ 0 # 1
  /\ \A n \in Nat : n <= n
  /\ \A n \in Nat : n > 1 => 1 <= n /\ 0 <= n /\ ~(n <= 1) /\ ~(n <= 0)
  /\ 0 <= 1 /\ ~(1 <= 0) /\ 1 \in Nat /\ 0 \in Nat
OBVIOUS

(* The names that begin a key, and the rest of it.                         *)
StartsKey(n, key) == Len(n) < Len(key) /\ n = SubSeq(key, 1, Len(n))

LEMMA SplitKey ==
  ASSUME NEW key \in Seq(STRING), NEW m \in Seq(STRING), NEW d \in Seq(STRING) \ {<<>>}
  PROVE  key = m \o d <=> StartsKey(m, key) /\ d = SubSeq(key, Len(m) + 1, Len(key))
<1>1. Len(key) \in Nat /\ Len(m) \in Nat /\ Len(d) \in Nat \ {0}
  BY EmptySeq
<1>2. ASSUME key = m \o d
      PROVE  StartsKey(m, key) /\ d = SubSeq(key, Len(m) + 1, Len(key))
  <2>1. Len(key) = Len(m) + Len(d)
    BY <1>2, ConcatProperties
  <2>2. SubSeq(key, 1, Len(m)) = m
    <3>1. CASE m = <<>>
      <4>1. Len(m) = 0
        BY <3>1
      <4> QED
        BY <3>1, <4>1, SubSeqEmpty
    <3>2. CASE m # <<>>
      <4>1. 1 \in 1..Len(m) /\ Len(m) \in 1..Len(m)
        BY <3>2, EmptySeq
      <4>2. SubSeq(m \o d, 1, Len(m)) = SubSeq(m, 1, Len(m))
        BY <4>1, SubSeqOfConcat1
      <4> QED
        BY <1>2, <4>2, SubSeqFull
    <3> QED
      BY <3>1, <3>2
  <2>3. SubSeq(key, Len(m) + 1, Len(key)) = d
    <3>1. Len(m) + 1 \in Len(m)+1 .. Len(m)+Len(d) /\ Len(m) + Len(d) \in Len(m)+1 .. Len(m)+Len(d)
      BY <1>1
    <3>2. SubSeq(m \o d, Len(m) + 1, Len(m) + Len(d))
            = SubSeq(d, Len(m) + 1 - Len(m), Len(m) + Len(d) - Len(m))
      BY <3>1, SubSeqOfConcat2
    <3>3. Len(m) + 1 - Len(m) = 1 /\ Len(m) + Len(d) - Len(m) = Len(d)
      BY <1>1
    <3> QED
      BY <1>2, <2>1, <3>2, <3>3, SubSeqFull
  <2> QED
    BY <1>1, <2>1, <2>2, <2>3 DEF StartsKey
<1>3. ASSUME StartsKey(m, key), d = SubSeq(key, Len(m) + 1, Len(key))
      PROVE  key = m \o d
  <2>1. /\ 1 \in 1..Len(key)+1 /\ Len(m) \in (1 - 1)..Len(key)
        /\ Len(key) \in Len(m)..Len(key)
    BY <1>1, <1>3 DEF StartsKey
  <2>2. SubSeq(key, 1, Len(m)) \o SubSeq(key, Len(m) + 1, Len(key)) = SubSeq(key, 1, Len(key))
    BY <2>1, ConcatAdjacentSubSeq
  <2> QED
    BY <1>3, <2>2, SubSeqFull DEF StartsKey
<1> QED
  BY <1>2, <1>3

(* A key is qualified by the longest name that begins it.                  *)
LEMMA QualifiedByLongest ==
  ASSUME NEW key \in Seq(STRING), Prefixes(key) # {},
         NEW m \in MonitorNames, NEW d \in Seq(STRING) \ {<<>>}
  PROVE  Qualify(key) = <<m, d>> <=>
           key = m \o d /\ \A n \in MonitorNames : StartsKey(n, key) => Len(n) <= Len(m)
<1> DEFINE Longest(n) == n \in Prefixes(key) /\ \A o \in Prefixes(key) : Len(n) >= Len(o)
<1>0. MonitorNames \subseteq Seq(STRING)
  BY ThresholdAssumption
<1>1. Prefixes(key) = {n \in MonitorNames : StartsKey(n, key)}
  BY DEF Prefixes, StartsKey
<1>2. Len(key) \in Nat /\ \A n \in MonitorNames : Len(n) \in Nat
  BY <1>0
<1>3. \E n : Longest(n)
  <2> DEFINE Short == {Len(key) - Len(n) : n \in Prefixes(key)}
  <2>1. \A n \in Prefixes(key) : Len(n) \in Nat /\ Len(n) < Len(key)
    BY <1>1, <1>2 DEF StartsKey
  <2>2. Short \in SUBSET Nat /\ Short # {}
    BY <1>2, <2>1
  <2>3. PICK s \in Short : \A u \in Short : s <= u
    BY <2>2, LeastElement
  <2>4. PICK n \in Prefixes(key) : s = Len(key) - Len(n)
    BY <2>3
  <2>5. ASSUME NEW o \in Prefixes(key) PROVE Len(n) >= Len(o)
    <3>1. Len(key) - Len(n) <= Len(key) - Len(o)
      BY <2>3, <2>4
    <3> QED
      BY <1>2, <2>1, <3>1
  <2> QED
    BY <2>5
<1> DEFINE long == CHOOSE n \in Prefixes(key) : \A o \in Prefixes(key) : Len(n) >= Len(o)
<1>4. Longest(long)
  BY <1>3
<1>5. Qualify(key) = <<long, SubSeq(key, Len(long) + 1, Len(key))>>
  BY DEF Qualify
<1> HIDE DEF long
<1>6. ASSUME StartsKey(m, key), \A n \in MonitorNames : StartsKey(n, key) => Len(n) <= Len(m)
      PROVE  long = m
  <2>1. long \in MonitorNames /\ StartsKey(long, key) /\ Len(long) >= Len(m)
    BY <1>1, <1>4, <1>6
  <2>2. Len(long) <= Len(m)
    BY <1>6, <2>1
  <2>3. Len(long) = Len(m)
    BY <1>2, <2>1, <2>2
  <2> QED
    BY <1>6, <2>1, <2>3 DEF StartsKey
<1>7. ASSUME long = m
      PROVE  StartsKey(m, key) /\ \A n \in MonitorNames : StartsKey(n, key) => Len(n) <= Len(m)
  BY <1>1, <1>2, <1>4, <1>7
<1>8. key = m \o d <=> StartsKey(m, key) /\ d = SubSeq(key, Len(m) + 1, Len(key))
  BY <1>0, SplitKey
<1>9. ASSUME Qualify(key) = <<m, d>>
      PROVE  key = m \o d /\ \A n \in MonitorNames : StartsKey(n, key) => Len(n) <= Len(m)
  <2>1. long = m /\ d = SubSeq(key, Len(m) + 1, Len(key))
    BY <1>5, <1>9
  <2> QED
    BY <1>7, <1>8, <2>1
<1>10. ASSUME key = m \o d, \A n \in MonitorNames : StartsKey(n, key) => Len(n) <= Len(m)
       PROVE  Qualify(key) = <<m, d>>
  BY <1>5, <1>6, <1>8, <1>10
<1> QED
  BY <1>9, <1>10

-----------------------------------------------------------------------------
(* The keys that apply to a score, and the most specific of them.          *)
Applying(l, m, d) == {k \in DOMAIN given[l] : Applies(k, m, d)}
MostSpecific(l, m, d) ==
  {k \in Applying(l, m, d) : \A j \in Applying(l, m, d) : Len(j) <= Len(k)}

KeysGiven == \A l \in 1..3 : DOMAIN given[l] \subseteq Keys

(* What covers a score is the most specific key that applies to it.        *)
LEMMA CoveringIsMostSpecific ==
  ASSUME KeysGiven, ~Malformed, NEW l \in 1..3,
         NEW m \in MonitorNames, NEW d \in Dims \cup {Single}
  PROVE  Covering(given[l], <<m, d>>) = MostSpecific(l, m, d)
<1> DEFINE D == DOMAIN given[l]
           Q == {k \in D : Len(k) > 1 /\ Qualify(k) = <<m, d>>}
           B == {k \in D : Len(k) = 1 /\ k = (IF d = Single THEN m ELSE d)}
           Own == IF d # Single THEN Q ELSE {}
           Default == {<<>>} \cap D
<1>1. D \subseteq Seq(STRING) /\ m \in Seq(STRING) /\ (d # Single => d \in Seq(STRING) \ {<<>>})
  BY ThresholdAssumption DEF KeysGiven, Single
<1>2. /\ \A k \in D : Len(k) \in Nat
      /\ \A k \in D : Len(k) = 0 => k = <<>>
      /\ Len(<<>>) = 0
  BY <1>1, EmptySeq
<1>3. Covering(given[l], <<m, d>>) = IF Own # {} THEN Own ELSE IF B # {} THEN B ELSE Default
  <2>1. <<m, d>>[1] = m /\ <<m, d>>[2] = d
    OBVIOUS
  <2> QED
    BY <2>1, Zenon DEF Covering
<1>4. \A k : /\ k \in Own <=> d # Single /\ k \in D /\ Len(k) > 1 /\ Qualify(k) = <<m, d>>
             /\ k \in B <=> k \in D /\ Len(k) = 1 /\ k = (IF d = Single THEN m ELSE d)
             /\ k \in Default <=> k \in D /\ k = <<>>
  OBVIOUS
<1>5. \A k : k \in Applying(l, m, d) <=> k \in D /\ Applies(k, m, d)
  BY DEF Applying
<1>6. \A k \in D : Len(k) > 1 => Prefixes(k) # {}
  BY DEF Malformed
<1> HIDE DEF D, Q, B, Own, Default
<1>7. ASSUME d # Single, NEW k \in D, Len(k) > 1
      PROVE  Qualify(k) = <<m, d>> <=> Applies(k, m, d)
  <2>1. Prefixes(k) # {} /\ k \in Seq(STRING) /\ d \in Seq(STRING) \ {<<>>}
    BY <1>1, <1>6, <1>7
  <2>2. Qualify(k) = <<m, d>> <=>
          k = m \o d /\ \A n \in MonitorNames : StartsKey(n, k) => Len(n) <= Len(m)
    BY <2>1, QualifiedByLongest
  <2>3. k # <<>> /\ Len(k) # 1
    BY <1>2, <1>7, Lengths, Zenon
  <2>4. Applies(k, m, d) <=>
          k = m \o d /\ \A n \in MonitorNames : StartsKey(n, k) => Len(n) <= Len(m)
    BY <1>7, <2>3, Zenon DEF Applies, StartsKey
  <2> QED
    BY <2>2, <2>4
<1>8. ASSUME NEW k \in D PROVE Applies(k, m, d) <=> k \in Own \cup B \cup Default
  <2>1. CASE Len(k) > 1
    <3>1. k # <<>> /\ Len(k) # 1
      BY <1>2, <2>1, Lengths, Zenon
    <3>2. k \notin B /\ k \notin Default
      BY <1>4, <3>1
    <3>3. CASE d = Single
      <4>1. ~Applies(k, m, d)
        BY <3>1, <3>3, Zenon DEF Applies
      <4>2. k \notin Own
        BY <1>4, <3>3
      <4> QED
        BY <3>2, <4>1, <4>2
    <3>4. CASE d # Single
      BY <1>4, <1>7, <2>1, <3>2, <3>4
    <3> QED
      BY <3>3, <3>4
  <2>2. CASE Len(k) = 1
    <3>1. k # <<>> /\ ~(Len(k) > 1)
      BY <1>2, <2>2, Lengths, Zenon
    <3>2. k \notin Own /\ k \notin Default
      BY <1>4, <3>1
    <3>3. Applies(k, m, d) <=> k = (IF d = Single THEN m ELSE d)
      BY <2>2, <3>1, Zenon DEF Applies
    <3> QED
      BY <1>4, <2>2, <3>2, <3>3
  <2>3. CASE Len(k) = 0
    <3>1. k = <<>>
      BY <1>2, <2>3
    <3>2. Applies(k, m, d)
      BY <3>1, Zenon DEF Applies
    <3> QED
      BY <1>4, <3>1, <3>2
  <2>4. Len(k) \in Nat
    BY <1>2
  <2> QED
    BY <2>1, <2>2, <2>3, <2>4, Lengths, Zenon
<1>9. Applying(l, m, d) = Own \cup B \cup Default
  <2>1. \A k : k \in Own \cup B \cup Default => k \in D
    BY <1>4
  <2> QED
    BY <1>5, <1>8, <2>1
<1>10. /\ \A k \in Own : Len(k) \in Nat /\ Len(k) > 1 /\ k = m \o d
       /\ \A k \in B : Len(k) = 1
       /\ \A k \in Default : Len(k) = 0
  <2>1. ASSUME NEW k \in Own PROVE Len(k) \in Nat /\ Len(k) > 1 /\ k = m \o d
    <3>1. d # Single /\ k \in D /\ Len(k) > 1 /\ Qualify(k) = <<m, d>>
      BY <1>4, <2>1
    <3>2. Prefixes(k) # {} /\ k \in Seq(STRING) /\ d \in Seq(STRING) \ {<<>>}
      BY <1>1, <1>6, <3>1
    <3>3. k = m \o d
      BY <3>1, <3>2, QualifiedByLongest
    <3> QED
      BY <1>2, <3>1, <3>3
  <2>2. /\ \A k \in B : Len(k) = 1
        /\ \A k \in Default : Len(k) = 0
    BY <1>2, <1>4
  <2> QED
    BY <2>1, <2>2
<1>11. /\ \A j, k \in Own : j = k
       /\ \A j, k \in B : j = k
       /\ \A j, k \in Default : j = k
  <2>1. \A j, k \in Own : j = k
    BY <1>10, Zenon
  <2>2. /\ \A j, k \in B : j = k
        /\ \A j, k \in Default : j = k
    BY <1>4
  <2> QED
    BY <2>1, <2>2
<1> DEFINE NoLonger(j, k) == Len(j) <= Len(k)
<1>12. /\ \A k \in Own : NoLonger(k, k)
       /\ \A k \in B : NoLonger(k, k)
       /\ \A k \in Default : NoLonger(k, k)
  BY <1>10, Lengths, Zenon
<1>13. /\ \A k \in Own, j \in B : NoLonger(j, k) /\ ~NoLonger(k, j)
       /\ \A k \in Own, j \in Default : NoLonger(j, k) /\ ~NoLonger(k, j)
       /\ \A k \in B, j \in Default : NoLonger(j, k) /\ ~NoLonger(k, j)
  BY <1>10, Lengths, Zenon
<1>14. ASSUME NEW k
       PROVE  k \in MostSpecific(l, m, d) <=>
                k \in (IF Own # {} THEN Own ELSE IF B # {} THEN B ELSE Default)
  <2>1. k \in MostSpecific(l, m, d) <=>
          k \in Own \cup B \cup Default /\ \A j \in Own \cup B \cup Default : NoLonger(j, k)
    BY <1>9 DEF MostSpecific
  <2> HIDE DEF NoLonger
  <2>2. CASE Own # {}
    BY <1>11, <1>12, <1>13, <2>1, <2>2
  <2>3. CASE Own = {} /\ B # {}
    BY <1>11, <1>12, <1>13, <2>1, <2>3
  <2>4. CASE Own = {} /\ B = {}
    BY <1>11, <1>12, <2>1, <2>4
  <2> QED
    BY <2>2, <2>3, <2>4
<1> QED
  BY <1>3, <1>14
-----------------------------------------------------------------------------
ScoresTyped == \A r \in scores : r.of \in Scored

LevelsAre == Levels[1] = "terminate" /\ Levels[2] = "reject" /\ Levels[3] = "escalate"

ThresholdInv ==
  /\ KeysGiven
  /\ configured = "accepted" => ~Malformed
  /\ decision # "none" => configured = "accepted"
  /\ ScoresTyped
  /\ decision \notin {"none", "raised"} => decision = Decide(scores)

(* A score crosses a level exactly when it reaches its floor.              *)
LEMMA CrossesIsReached ==
  ASSUME KeysGiven, ~Malformed, NEW reported, \A r \in reported : r.of \in Scored, NEW l \in 1..3
  PROVE  Crosses(l, reported) <=> \E r \in reported : Reached(l, r.of, r.score)
<1>1. ASSUME NEW r \in reported
      PROVE  (\E k \in Covering(given[l], r.of) : r.score >= given[l][k])
               <=> Reached(l, r.of, r.score)
  <2>1. PICK m \in MonitorNames, d \in Dims \cup {Single} : r.of = <<m, d>>
    BY DEF Scored
  <2>2. Covering(given[l], r.of) = MostSpecific(l, m, d)
    BY <2>1, CoveringIsMostSpecific
  <2>3. Floor(l, r.of) = {given[l][k] : k \in MostSpecific(l, m, d)}
    <3>1. r.of[1] = m /\ r.of[2] = d
      BY <2>1
    <3> QED
      BY <3>1 DEF Floor, MostSpecific, Applying
  <2> QED
    BY <2>2, <2>3 DEF Reached
<1> QED
  BY <1>1 DEF Crosses

(* What is decided is the strongest action whose threshold is reached.     *)
LEMMA DecidesStrongest ==
  ASSUME KeysGiven, ~Malformed, ScoresTyped, decision = Decide(scores)
  PROVE  ThresholdIsFloor
<1> DEFINE AtFloor(l) == \E r \in scores : Reached(l, r.of, r.score)
           reached == {l \in 1..3 : Crosses(l, scores)}
<1>1. \A l \in 1..3 : Crosses(l, scores) <=> AtFloor(l)
  BY CrossesIsReached, Zenon DEF ScoresTyped
<1>2. decision = IF reached = {} THEN "proceed" ELSE Levels[Min(reached)]
  BY DEF Decide
<1>3. LevelsAre
  BY DEF LevelsAre, Levels
<1>4. reached # {} => Min(reached) \in reached /\ \A l \in reached : Min(reached) <= l
  <2> SUFFICES ASSUME reached # {}
               PROVE  Min(reached) \in reached /\ \A l \in reached : Min(reached) <= l
    OBVIOUS
  <2>1. reached \in SUBSET Nat
    OBVIOUS
  <2>2. \E l \in reached : \A k \in reached : l <= k
    BY <2>1, LeastElement
  <2> QED
    BY <2>2, Zenon DEF Min
<1>5. \A l : l \in reached <=> l \in 1..3 /\ AtFloor(l)
  BY <1>1
<1> HIDE DEF AtFloor, reached
<1>6. ASSUME NEW l \in 1..3, AtFloor(l)
      PROVE  \E s \in 1..l : decision = Levels[s]
  <2>1. Min(reached) \in 1..3 /\ Min(reached) <= l
    BY <1>4, <1>5, <1>6
  <2>2. decision = Levels[Min(reached)]
    BY <1>2, <1>5, <1>6
  <2> QED
    BY <2>1, <2>2
<1>7. ASSUME NEW l \in 1..3, decision = Levels[l]
      PROVE  AtFloor(l)
  <2>1. \A i \in 1..3 : Levels[i] # "proceed" /\ \A j \in 1..3 : Levels[i] = Levels[j] => i = j
    BY <1>3 DEF LevelsAre
  <2>2. reached # {}
    BY <1>2, <1>7, <2>1
  <2>3. Min(reached) = l
    BY <1>2, <1>4, <1>5, <1>7, <2>1, <2>2
  <2> QED
    BY <1>4, <1>5, <2>2, <2>3
<1> QED
  BY <1>6, <1>7 DEF ThresholdIsFloor, AtFloor

(* Whatever thresholds are configured and whatever the monitors report, the *)
(* decision is at least as strong as the action of every threshold a score *)
(* reaches by the most specific key that applies to it, and is one of those*)
(* actions.                                                                *)
THEOREM FloorsHold == ThresholdSpec => []ThresholdIsFloor
<1>1. ThresholdInit => ThresholdInv
  <2> SUFFICES ASSUME ThresholdInit PROVE ThresholdInv
    OBVIOUS
  <2>1. configured = "given" /\ scores = {} /\ decision = "none"
    BY DEF ThresholdInit
  <2>2. KeysGiven
    <3>1. given \in [1..3 -> UNION {[ks -> 1..MaxLimit] : ks \in GivenKeys}]
      BY DEF ThresholdInit
    <3>2. \A ks \in GivenKeys : ks \subseteq Keys
      BY DEF GivenKeys, kSubset
    <3> QED
      BY <3>1, <3>2 DEF KeysGiven
  <2> QED
    BY <2>1, <2>2 DEF ThresholdInv, ScoresTyped
<1>2. ThresholdInv /\ [ThresholdNext]_thresholdVars => ThresholdInv'
  <2> SUFFICES ASSUME ThresholdInv, [ThresholdNext]_thresholdVars PROVE ThresholdInv'
    OBVIOUS
  <2>1. given' = given
    BY DEF ThresholdNext, thresholdVars, Configure, Act, ActFailed
  <2>2. KeysGiven' /\ (Malformed' <=> Malformed)
    BY <2>1 DEF ThresholdInv, KeysGiven, Malformed, Prefixes
  <2>3. CASE Configure
    <3>1. configured = "given" /\ scores' = scores /\ decision' = decision
      BY <2>3 DEF Configure
    <3>2. configured' = "accepted" => ~Malformed
      BY <2>3 DEF Configure
    <3>3. decision = "none"
      BY <3>1 DEF ThresholdInv
    <3> QED
      BY <2>2, <3>1, <3>2, <3>3 DEF ThresholdInv, ScoresTyped
  <2>4. CASE Act
    <3>1. configured = "accepted" /\ configured' = configured /\ decision' = Decide(scores')
      BY <2>4 DEF Act
    <3>2. ScoresTyped'
      <4>1. PICK n \in 0..MaxScores : \E of \in kSubset(n, Scored) :
              \E score \in [of -> 0..MaxLimit] :
                scores' = {[of |-> s, score |-> score[s]] : s \in of}
        BY <2>4 DEF Act
      <4>2. PICK of \in kSubset(n, Scored) :
              \E score \in [of -> 0..MaxLimit] :
                scores' = {[of |-> s, score |-> score[s]] : s \in of}
        BY <4>1
      <4>3. of \subseteq Scored
        BY <4>2 DEF kSubset
      <4> QED
        BY <4>2, <4>3 DEF ScoresTyped
    <3>3. Decide(scores') = Decide(scores)'
      BY <2>1 DEF Decide, Crosses, Covering, Qualify, Prefixes
    <3> QED
      BY <2>2, <3>1, <3>2, <3>3 DEF ThresholdInv
  <2>5. CASE ActFailed
    BY <2>2, <2>5 DEF ActFailed, ThresholdInv, ScoresTyped
  <2>6. CASE UNCHANGED thresholdVars
    <3>1. configured' = configured /\ scores' = scores /\ decision' = decision
      BY <2>6 DEF thresholdVars
    <3>2. Decide(scores)' = Decide(scores)
      BY <2>1, <3>1 DEF Decide, Crosses, Covering, Qualify, Prefixes
    <3> QED
      BY <2>2, <3>1, <3>2 DEF ThresholdInv, ScoresTyped
  <2> QED
    BY <2>3, <2>4, <2>5, <2>6 DEF ThresholdNext
<1>3. ThresholdInv => ThresholdIsFloor
  BY DecidesStrongest DEF ThresholdInv, ThresholdIsFloor
<1> QED
  BY <1>1, <1>2, <1>3, PTL DEF ThresholdSpec
-----------------------------------------------------------------------------
(* Two dimensions that no key names are covered by the same thresholds.    *)
LEMMA UnnamedAlike ==
  ASSUME KeysGiven, ~Malformed, NEW l \in 1..3, NEW m \in MonitorNames,
         NEW d, NEW e, d # Single, e # Single,
         \A k \in Keys : ~Names(k, d) /\ ~Names(k, e)
  PROVE  Covering(given[l], <<m, d>>) = Covering(given[l], <<m, e>>)
<1>1. ASSUME NEW n, n # Single, \A k \in Keys : ~Names(k, n)
      PROVE  Covering(given[l], <<m, n>>) = {<<>>} \cap DOMAIN given[l]
  <2>1. <<m, n>>[1] = m /\ <<m, n>>[2] = n
    OBVIOUS
  <2>2. \A k \in DOMAIN given[l] : Len(k) > 1 => Qualify(k) # <<m, n>>
    <3> SUFFICES ASSUME NEW k \in DOMAIN given[l], Len(k) > 1, Qualify(k) = <<m, n>>
                 PROVE  FALSE
      OBVIOUS
    <3>1. Prefixes(k) # {} /\ Qualify(k)[2] = n /\ k \in Keys
      BY <2>1 DEF Malformed, KeysGiven
    <3> QED
      BY <1>1, <3>1 DEF Names
  <2>3. {k \in DOMAIN given[l] : Len(k) > 1 /\ Qualify(k) = <<m, n>>} = {}
    BY <2>2
  <2>4. {k \in DOMAIN given[l] : Len(k) = 1 /\ k = n} = {}
    BY <1>1 DEF KeysGiven, Names
  <2> QED
    BY <1>1, <2>1, <2>3, <2>4, Zenon DEF Covering
<1> QED
  BY <1>1

(* The scores the classes stand for, and the classes of the scores.        *)
LEMMA ClassesStandForScores ==
  ASSUME KeysGiven, ~Malformed
  PROVE  /\ \A class \in Classes : \E of \in Scored : \A l \in 1..3 :
              Covering(given[l], class) = Covering(given[l], of)
         /\ \A of \in Scored : \E class \in Classes : \A l \in 1..3 :
              Covering(given[l], class) = Covering(given[l], of)
<1> DEFINE keys == UNION {DOMAIN given[l] : l \in 1..3}
           own(m) == {Qualify(k)[2] : k \in {k \in keys : Len(k) > 1 /\ Qualify(k)[1] = m}}
           bare == {k \in keys : Len(k) = 1}
           dims(m) == {Single, Unnamed} \cup bare \cup own(m)
<1>1. \A class : class \in Classes <=>
        \E m \in MonitorNames : \E d \in dims(m) : class = <<m, d>>
  <2>1. Classes = UNION {{m} \X dims(m) : m \in MonitorNames}
    BY DEF Classes
  <2> HIDE DEF dims
  <2> QED
    BY <2>1
<1>2. keys \subseteq Keys /\ \A k \in keys : Len(k) > 1 => Prefixes(k) # {}
  BY DEF KeysGiven, Malformed
<1>3. /\ \A k \in bare : k \in Dims
      /\ \A m \in MonitorNames : own(m) \subseteq Dims
  BY <1>2, DimsAreOpen
<1>4. Unnamed # Single /\ \A k \in Keys : ~Names(k, Unnamed)
  <2>1. \A x : <<x>> # <<>>
    OBVIOUS
  <2>2. Unnamed # Single
    BY <2>1, Zenon DEF Unnamed, Single
  <2> QED
    BY <2>2, DimsAreOpen, Zenon
<1>5. PICK n \in Dims : \A k \in Keys : ~Names(k, n)
  BY DimsAreOpen
<1>6. n # Single /\ \A d \in Dims : d # Single
  BY ThresholdAssumption DEF Single
<1>7. \A d, m : d \in dims(m) <=> d = Single \/ d = Unnamed \/ d \in bare \/ d \in own(m)
  OBVIOUS
<1>8. ASSUME NEW m \in MonitorNames, NEW d \in Dims, d \notin bare, d \notin own(m), NEW l \in 1..3
      PROVE  Covering(given[l], <<m, d>>) = {<<>>} \cap DOMAIN given[l]
  <2>1. <<m, d>>[1] = m /\ <<m, d>>[2] = d
    OBVIOUS
  <2>2. DOMAIN given[l] \subseteq keys
    OBVIOUS
  <2>3. {k \in DOMAIN given[l] : Len(k) > 1 /\ Qualify(k) = <<m, d>>} = {}
    BY <1>8, <2>1, <2>2
  <2>4. {k \in DOMAIN given[l] : Len(k) = 1 /\ k = d} = {}
    BY <1>8, <2>2
  <2> QED
    BY <1>6, <2>1, <2>3, <2>4, Zenon DEF Covering
<1>9. ASSUME NEW m \in MonitorNames, NEW l \in 1..3
      PROVE  Covering(given[l], <<m, Unnamed>>) = {<<>>} \cap DOMAIN given[l]
  <2>1. n \notin bare
    BY <1>2, <1>5 DEF Names
  <2>2. n \notin own(m)
    BY <1>2, <1>5 DEF Names
  <2>3. Covering(given[l], <<m, n>>) = {<<>>} \cap DOMAIN given[l]
    BY <1>8, <2>1, <2>2
  <2>4. Covering(given[l], <<m, Unnamed>>) = Covering(given[l], <<m, n>>)
    BY <1>4, <1>5, <1>6, UnnamedAlike
  <2> QED
    BY <2>3, <2>4
<1> HIDE DEF keys, own, bare, dims
<1>10. ASSUME NEW class \in Classes
       PROVE  \E of \in Scored : \A l \in 1..3 : Covering(given[l], class) = Covering(given[l], of)
  <2>1. PICK m \in MonitorNames : \E d \in dims(m) : class = <<m, d>>
    BY <1>1
  <2>2. PICK d \in dims(m) : class = <<m, d>>
    BY <2>1
  <2>3. CASE d = Unnamed
    <3>1. <<m, n>> \in Scored
      BY DEF Scored
    <3>2. \A l \in 1..3 : Covering(given[l], class) = Covering(given[l], <<m, n>>)
      BY <1>4, <1>5, <1>6, <2>2, <2>3, UnnamedAlike
    <3> QED
      BY <3>1, <3>2
  <2>4. CASE d # Unnamed
    <3>1. d = Single \/ d \in Dims
      BY <1>3, <1>7, <2>4
    <3>2. class \in Scored
      BY <2>2, <3>1 DEF Scored
    <3> QED
      BY <3>2
  <2> QED
    BY <2>3, <2>4
<1>11. ASSUME NEW of \in Scored
       PROVE  \E class \in Classes : \A l \in 1..3 : Covering(given[l], class) = Covering(given[l], of)
  <2>1. PICK m \in MonitorNames, d \in Dims \cup {Single} : of = <<m, d>>
    BY DEF Scored
  <2>2. CASE d \in dims(m)
    BY <1>1, <2>1, <2>2
  <2>3. CASE d \notin dims(m)
    <3>1. <<m, Unnamed>> \in Classes
      BY <1>1, <1>7
    <3>2. d \in Dims /\ d \notin bare /\ d \notin own(m)
      BY <1>7, <2>3
    <3>3. \A l \in 1..3 : Covering(given[l], <<m, Unnamed>>) = Covering(given[l], of)
      <4>1. \A l \in 1..3 : Covering(given[l], <<m, Unnamed>>) = {<<>>} \cap DOMAIN given[l]
        BY <1>9
      <4>2. \A l \in 1..3 : Covering(given[l], <<m, d>>) = {<<>>} \cap DOMAIN given[l]
        BY <1>8, <3>2
      <4> QED
        BY <2>1, <4>1, <4>2
    <3> QED
      BY <3>1, <3>3
  <2> QED
    BY <2>2, <2>3
<1> QED
  BY <1>10, <1>11

(* What decides of a score, and what it reaches, is what covers it.        *)
LEMMA CoveringDecides ==
  ASSUME KeysGiven, ~Malformed, NEW l \in 1..3, NEW of \in Scored
  PROVE  /\ \A key : Decides(l, key, of) <=> key \in Covering(given[l], of)
         /\ \A value : Reached(l, of, value) <=>
                          \E k \in Covering(given[l], of) : given[l][k] <= value
<1>1. PICK m \in MonitorNames, d \in Dims \cup {Single} : of = <<m, d>>
  BY DEF Scored
<1>2. of[1] = m /\ of[2] = d
  BY <1>1
<1>3. Covering(given[l], of) = MostSpecific(l, m, d)
  BY <1>1, CoveringIsMostSpecific
<1>4. Floor(l, of) = {given[l][k] : k \in MostSpecific(l, m, d)}
  BY <1>2 DEF Floor, MostSpecific, Applying
<1>5. \A key : Decides(l, key, of) <=> key \in MostSpecific(l, m, d)
  BY <1>2 DEF Decides, MostSpecific, Applying
<1> QED
  BY <1>3, <1>4, <1>5 DEF Reached

(* A threshold is dead exactly when it decides of some score and can apply *)
(* to none.                                                                *)
LEMMA DeadCannotApply ==
  ASSUME KeysGiven, ~Malformed, NEW l \in 1..3, NEW key
  PROVE  Dead(l, key) <=> (\E of \in Scored : Decides(l, key, of)) /\ ~CanApply(l, key)
<1> DEFINE Covers(c) == key \in Covering(given[l], c)
           Free(c) == ~Blocked(l, c, given[l][key])
<1>1. Dead(l, key) <=> (\E c \in Classes : Covers(c)) /\ ~ \E c \in Classes : Covers(c) /\ Free(c)
  <2> HIDE DEF Free
  <2> DEFINE covered == {c \in Classes : key \in Covering(given[l], c)}
  <2>1. Dead(l, key) <=> covered # {} /\ \A c \in covered : ~Free(c)
    BY DEF Dead, Free
  <2> QED
    BY <2>1
<1>2. ASSUME NEW c, NEW of \in Scored, \A s \in 1..3 : Covering(given[s], c) = Covering(given[s], of)
      PROVE  /\ Covers(c) <=> Decides(l, key, of)
             /\ Free(c) <=> \A s \in 1..(l - 1) : ~Reached(s, of, given[l][key])
  <2>1. \A s \in 1..(l - 1) : s \in 1..3
    OBVIOUS
  <2>2. Covers(c) <=> Decides(l, key, of)
    BY <1>2, CoveringDecides
  <2>3. ASSUME NEW s \in 1..(l - 1)
        PROVE  (\E k \in Covering(given[s], c) : given[s][k] <= given[l][key])
                 <=> Reached(s, of, given[l][key])
    BY <1>2, <2>1, CoveringDecides
  <2> QED
    BY <2>2, <2>3 DEF Blocked
<1>3. CanApply(l, key) <=> \E of \in Scored : Decides(l, key, of) /\
                             \A s \in 1..(l - 1) : ~Reached(s, of, given[l][key])
  BY DEF CanApply
<1> HIDE DEF Covers, Free
<1>4. /\ \A c \in Classes : \E of \in Scored : \A s \in 1..3 : Covering(given[s], c) = Covering(given[s], of)
      /\ \A of \in Scored : \E c \in Classes : \A s \in 1..3 : Covering(given[s], c) = Covering(given[s], of)
  BY ClassesStandForScores
<1>5. (\E c \in Classes : Covers(c)) <=> \E of \in Scored : Decides(l, key, of)
  BY <1>2, <1>4
<1>6. (\E c \in Classes : Covers(c) /\ Free(c)) <=> CanApply(l, key)
  BY <1>2, <1>3, <1>4
<1> QED
  BY <1>1, <1>5, <1>6

(* What the classes of scores that were looked through say (_check_live).  *)
DeadIsRefused ==
  configured \in {"accepted", "dead"} =>
    /\ ~Malformed
    /\ configured = "dead" <=> \E l \in 1..3 : \E k \in DOMAIN given[l] : Dead(l, k)

(* A configuration is refused as having a threshold that can never apply   *)
(* exactly where it has one: a key that decides of some score, but of none *)
(* before a stronger action is reached (_check_live).                      *)
THEOREM DeadThresholdsAreRefused == ThresholdSpec => []NoDeadThreshold
<1> DEFINE Inv == KeysGiven /\ DeadIsRefused
<1>1. ThresholdInit => Inv
  <2> SUFFICES ASSUME ThresholdInit PROVE Inv
    OBVIOUS
  <2>1. configured = "given"
    BY DEF ThresholdInit
  <2>2. KeysGiven
    <3>1. given \in [1..3 -> UNION {[ks -> 1..MaxLimit] : ks \in GivenKeys}]
      BY DEF ThresholdInit
    <3>2. \A ks \in GivenKeys : ks \subseteq Keys
      BY DEF GivenKeys, kSubset
    <3> QED
      BY <3>1, <3>2 DEF KeysGiven
  <2> QED
    BY <2>1, <2>2 DEF DeadIsRefused
<1>2. Inv /\ [ThresholdNext]_thresholdVars => Inv'
  <2> SUFFICES ASSUME Inv, [ThresholdNext]_thresholdVars PROVE Inv'
    OBVIOUS
  <2>1. given' = given
    BY DEF ThresholdNext, thresholdVars, Configure, Act, ActFailed
  <2>2. KeysGiven' /\ (Malformed' <=> Malformed)
    BY <2>1 DEF KeysGiven, Malformed, Prefixes
  <2>3. \A l, k : Dead(l, k)' <=> Dead(l, k)
    BY <2>1 DEF Dead, Classes, Covering, Blocked, Qualify, Prefixes
  <2>4. CASE Configure
    BY <2>1, <2>2, <2>3, <2>4 DEF Configure, DeadIsRefused
  <2>5. CASE configured' = configured
    BY <2>1, <2>2, <2>3, <2>5 DEF DeadIsRefused
  <2> QED
    BY <2>4, <2>5 DEF ThresholdNext, Act, ActFailed, thresholdVars
<1>3. Inv => NoDeadThreshold
  <2> SUFFICES ASSUME Inv, configured \in {"accepted", "dead"}
               PROVE  configured = "dead" <=>
                        \E l \in 1..3 : \E key \in DOMAIN given[l] :
                          (\E of \in Scored : Decides(l, key, of)) /\ ~CanApply(l, key)
    BY DEF NoDeadThreshold
  <2>1. ~Malformed /\ (configured = "dead" <=> \E l \in 1..3 : \E k \in DOMAIN given[l] : Dead(l, k))
    BY DEF DeadIsRefused
  <2>2. \A l \in 1..3 : \A key :
          Dead(l, key) <=> (\E of \in Scored : Decides(l, key, of)) /\ ~CanApply(l, key)
    BY <2>1, DeadCannotApply
  <2> QED
    BY <2>1, <2>2
<1> QED
  BY <1>1, <1>2, <1>3, PTL DEF ThresholdSpec
=============================================================================
