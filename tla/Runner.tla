------------------------------- MODULE Runner -------------------------------
(***************************************************************************)
(* One step of run_sentinel (_runner.py): the tree of configured instances *)
(* is run from the root down.  A protocol's function runs batches of       *)
(* children, each batch in a task group that is cancelled when a child     *)
(* terminates, decides final or raises; the members of one instance run in *)
(* turn.  What a function returns, and whether it raises, is a free choice.*)
(***************************************************************************)
EXTENDS Naturals, Sequences

CONSTANTS
  Functions,    \* the functions of the tree
  Instances,    \* the instances of the tree; "R" is the root
  Monitors,     \* the instances that are monitors; they run no children
  Members,      \* Members[i]: the functions of instance i, in factory order
  Batches,      \* Batches[f]: the sets of instances f runs together, in order;
                \* a child that is run again is another instance
  Caller,       \* Caller[i]: the function that runs i, "nobody" for the root
  Above,        \* Above[f]: the functions whose calls f runs under
  InstanceOf    \* InstanceOf[f]: the instance f is a function of

First(i) == Members[i][1]
Last(i)  == Members[i][Len(Members[i])]

(* The instances and their functions are a tree: each function is a member *)
(* of one instance, each instance but the root's is in one batch of one    *)
(* function, and what is above a function is its caller and what is above  *)
(* that one, up to the root.                                               *)
MembersAssumption ==
  /\ \A i \in Instances : Members[i] \in Seq(Functions) /\ Members[i] # <<>>
  /\ \A i \in Instances : \A k, l \in DOMAIN Members[i] :
       /\ InstanceOf[Members[i][k]] = i
       /\ Members[i][k] = Members[i][l] => k = l
  /\ \A f \in Functions : /\ InstanceOf[f] \in Instances
                          /\ \E k \in DOMAIN Members[InstanceOf[f]] :
                               Members[InstanceOf[f]][k] = f
BatchesAssumption ==
  /\ \A f \in Functions : /\ Batches[f] \in Seq(SUBSET Instances)
                          /\ InstanceOf[f] \in Monitors => Batches[f] = <<>>
  /\ \A f \in Functions : \A k, l \in DOMAIN Batches[f] :
       /\ \A i \in Batches[f][k] : Caller[i] = f
       /\ k # l => Batches[f][k] \cap Batches[f][l] = {}
CallerAssumption ==
  /\ "nobody" \notin Functions
  /\ "R" \in Instances /\ Caller["R"] = "nobody" /\ Len(Members["R"]) = 1
  /\ \A i \in Instances \ {"R"} : Caller[i] \in Functions
AboveAssumption ==
  /\ \A f \in Functions : LET c == Caller[InstanceOf[f]]
                          IN  Above[f] = IF c = "nobody" THEN {} ELSE {c} \cup Above[c]
  /\ \A f \in Functions : f \notin Above[f] /\ Above[f] \subseteq Functions
  /\ \A f \in Functions : f = First("R") \/ First("R") \in Above[f]
  /\ \A f \in Functions : \A g \in Above[f] :
       \E h \in {f} \cup Above[f] : Caller[InstanceOf[h]] = g

ASSUME RunnerAssumption == /\ Monitors \subseteq Instances /\ MembersAssumption
                           /\ BatchesAssumption /\ CallerAssumption /\ AboveAssumption

(* What a protocol may decide, of the actions the runner tells apart.      *)
Actions == {"terminate", "escalate", "proceed"}

VARIABLES
  status,      \* what each function is doing, or how it ended
  called,      \* how many batches each function has called
  action,      \* the action each function decided, or "none"
  returnedBy,  \* the function that returned each decision first (_Origin)
  arrived,     \* the exceptions a function's batch has, as they arrived
  stopping,    \* the functions whose batch has its cancel scope cancelled
  settled,     \* how often a Final of each function was recorded for good,
               \* at the root or as superseded
  bypassed,    \* the instances recorded as bypassed
  stopped,     \* the instances recorded as cancelled
  outrun,      \* the terminates recorded as superseded by a Final
  outcome      \* how the step ended

vars == <<status, called, action, returnedBy, arrived, stopping, settled, bypassed,
          stopped, outrun, outcome>>

Unended  == {"idle", "running", "waiting"}
Statuses == Unended \cup {"reported", "abstained", "failed", "raised", "final", "passed",
                          "cancelled"}
Ended(f) == status[f] \notin Unended

(* The member that follows f in its instance, if any.                      *)
After(f) == LET ms == Members[InstanceOf[f]]
            IN  {ms[k] : k \in {k \in DOMAIN ms : k > 1 /\ ms[k - 1] = f}}

(* An instance is done when a member of it raised, was cancelled or        *)
(* terminated, or its last member ended.                                   *)
Terminated(f) == status[f] = "reported" /\ action[f] = "terminate"
Threw(f)      == status[f] \in {"raised", "final", "passed", "cancelled"}
InstanceDone(i) ==
  \/ \E f \in Functions : InstanceOf[f] = i /\ (Threw(f) \/ Terminated(f))
  \/ Ended(Last(i))

Batch(f) == Batches[f][called[f]]

(* The cancel scope of a batch above f is cancelled.                       *)
Cancelling(f) == \E g \in Above[f] : g \in stopping /\ status[g] = "waiting"

(* Where in arrived[f] the errors are, and the Finals, and the first Final.*)
Errors(f) == {k \in DOMAIN arrived[f] : arrived[f][k].kind = "error"}
Finals(f) == {k \in DOMAIN arrived[f] : arrived[f][k].kind = "final"}
FirstFinal(f) == {k \in Finals(f) : \A l \in Finals(f) : k <= l}
-----------------------------------------------------------------------------
Init ==
  /\ status = [f \in Functions |-> IF f = First("R") THEN "running" ELSE "idle"]
  /\ called = [f \in Functions |-> 0]
  /\ action = [f \in Functions |-> "none"]
  /\ returnedBy = [f \in Functions |-> f]
  /\ arrived = [f \in Functions |-> <<>>]
  /\ stopping = {}
  /\ settled = [f \in Functions |-> 0]
  /\ bypassed = {} /\ stopped = {} /\ outrun = {}
  /\ outcome = "running"

(* f ends without an exception: the next member runs, unless f terminates; *)
(* a terminate cancels the batch, and the root's end is the step's.        *)
EndsQuietly(f, how, terminates) ==
  LET next == IF terminates THEN {} ELSE After(f)
      caller == Caller[InstanceOf[f]]
  IN  /\ status' = [g \in Functions |-> IF g = f THEN how
                                        ELSE IF g \in next THEN "running" ELSE status[g]]
      /\ stopping' = IF terminates THEN stopping \cup ({caller} \cap Functions)
                     ELSE stopping
      /\ outcome' = IF caller # "nobody" THEN outcome
                    ELSE IF how = "reported" THEN "returned" ELSE "nothing"
      /\ UNCHANGED arrived

(* f ends with an exception, which reaches the batch f runs in and cancels *)
(* it; one that leaves the root ends the step, and a Final is recorded.    *)
EndsThrowing(f, how, kind, by, superseded) ==
  LET caller == Caller[InstanceOf[f]]
      settles == superseded \cup (IF caller = "nobody" /\ kind = "final" THEN {by} ELSE {})
  IN  /\ status' = [status EXCEPT ![f] = how]
      /\ settled' = [g \in Functions |-> settled[g] + (IF g \in settles THEN 1 ELSE 0)]
      /\ IF caller = "nobody"
         THEN outcome' = kind /\ UNCHANGED <<arrived, stopping>>
         ELSE /\ arrived' = [arrived EXCEPT ![caller] =
                               Append(@, [kind |-> kind, by |-> by])]
              /\ stopping' = stopping \cup {caller}
              /\ UNCHANGED outcome

(* f lets its cancellation out, and its instance is recorded as cancelled. *)
EndsCancelled(f) ==
  /\ status' = [status EXCEPT ![f] = "cancelled"]
  /\ stopped' = stopped \cup {InstanceOf[f]}
  /\ UNCHANGED <<arrived, stopping, settled, outcome>>

(* The call goes on in the scope of the call before it.                    *)
CallKeepsScope(f) ==
  /\ status[f] = "running" /\ called[f] < Len(Batches[f])
  /\ called' = [called EXCEPT ![f] = @ + 1]
  /\ status' = [g \in Functions |->
                  IF g = f THEN "waiting"
                  ELSE IF \E i \in Batches[f][called[f] + 1] : g = First(i) THEN "running"
                  ELSE status[g]]
  /\ arrived' = [arrived EXCEPT ![f] = <<>>]
  /\ UNCHANGED <<action, returnedBy, stopping, settled, bypassed, stopped, outrun, outcome>>

(* run_children: a task group in which every child of the batch starts.    *)
Call(f) ==
  /\ status[f] = "running" /\ called[f] < Len(Batches[f])
  /\ called' = [called EXCEPT ![f] = @ + 1]
  /\ status' = [g \in Functions |->
                  IF g = f THEN "waiting"
                  ELSE IF \E i \in Batches[f][called[f] + 1] : g = First(i) THEN "running"
                  ELSE status[g]]
  /\ arrived' = [arrived EXCEPT ![f] = <<>>]
  /\ stopping' = stopping \ {f}
  /\ UNCHANGED <<action, returnedBy, settled, bypassed, stopped, outrun, outcome>>

(* The decisions f was given by the batches it called.                     *)
Given(f) == {g \in Functions : status[g] = "reported" /\ action[g] # "none"
                               /\ Caller[InstanceOf[g]] = f}

(* f reports: an observation, a decision of its own, or a copy of one it   *)
(* was given, perhaps with another action (model_copy), which keeps the    *)
(* function that returned it first.                                        *)
Report(f) ==
  /\ status[f] = "running"
  /\ IF InstanceOf[f] \in Monitors
     THEN EndsQuietly(f, "reported", FALSE) /\ UNCHANGED <<action, returnedBy>>
     ELSE \E a \in Actions, from \in {f} \cup {returnedBy[g] : g \in Given(f)} :
            /\ action' = [action EXCEPT ![f] = a]
            /\ returnedBy' = [returnedBy EXCEPT ![f] = from]
            /\ EndsQuietly(f, "reported", a = "terminate")
  /\ UNCHANGED <<called, settled, bypassed, stopped, outrun>>

Abstain(f) ==
  /\ status[f] = "running"
  /\ EndsQuietly(f, "abstained", FALSE)
  /\ UNCHANGED <<called, action, returnedBy, settled, bypassed, stopped, outrun>>

(* A monitor's Final is taken like a protocol's.                           *)
AnyoneDecidesFinal(f) ==
  /\ status[f] = "running"
  /\ \E a \in Actions : action' = [action EXCEPT ![f] = a]
  /\ EndsThrowing(f, "final", "final", f, {})
  /\ UNCHANGED <<called, returnedBy, bypassed, stopped, outrun>>

DecideFinal(f) ==
  /\ status[f] = "running" /\ InstanceOf[f] \notin Monitors
  /\ \E a \in Actions : action' = [action EXCEPT ![f] = a]
  /\ EndsThrowing(f, "final", "final", f, {})
  /\ UNCHANGED <<called, returnedBy, bypassed, stopped, outrun>>

(* A protocol raises, or a monitor meets a limit or calls decide_final.    *)
Raise(f) ==
  /\ status[f] = "running"
  /\ EndsThrowing(f, "raised", "error", f, {})
  /\ UNCHANGED <<called, action, returnedBy, bypassed, stopped, outrun>>

(* A monitor that raises has failed, and the group goes on without it; one *)
(* that turned its cancellation into an error was cancelled.               *)
MonitorRaises(f) ==
  /\ status[f] = "running" /\ InstanceOf[f] \in Monitors
  /\ IF Cancelling(f) THEN EndsCancelled(f)
     ELSE EndsQuietly(f, "failed", FALSE) /\ UNCHANGED <<settled, stopped>>
  /\ UNCHANGED <<called, action, returnedBy, bypassed, outrun>>

Cancelled(f) ==
  /\ status[f] = "running" /\ Cancelling(f)
  /\ EndsCancelled(f)
  /\ UNCHANGED <<called, action, returnedBy, bypassed, outrun>>
-----------------------------------------------------------------------------
(* The batch is over with its first failure.                               *)
BatchOverEarly(f) ==
  arrived[f] # <<>> \/ \A i \in Batch(f) : InstanceDone(i)

(* A task group ends when every child of it has.                           *)
BatchOver(f) == \A i \in Batch(f) : InstanceDone(i)

(* Only the Finals after the first are superseded, whatever outranks it.   *)
SupersededButFirst(f) == {arrived[f][k].by : k \in Finals(f) \ FirstFinal(f)}

(* The Finals that do not take effect: all of them beside an error, else   *)
(* all but the first to arrive.                                            *)
Superseded(f) ==
  {arrived[f][k].by : k \in IF Errors(f) # {} THEN Finals(f)
                            ELSE Finals(f) \ FirstFinal(f)}

(* An error is raised into f, which may catch it.                          *)
ErrorSurfaces(f) ==
  /\ Errors(f) # {}
  /\ status' = [status EXCEPT ![f] = "running"]
  /\ settled' = [g \in Functions |-> settled[g] + (IF g \in Superseded(f) THEN 1 ELSE 0)]
  /\ UNCHANGED <<arrived, stopping, bypassed, stopped, outrun, outcome>>

(* A Final passes f by, and outruns the terminates of the batch.           *)
FinalSurfaces(f) ==
  /\ Errors(f) = {}
  /\ \E k \in FirstFinal(f) :
       EndsThrowing(f, "passed", "final", arrived[f][k].by, Superseded(f))
  /\ bypassed' = bypassed \cup {InstanceOf[f]}
  /\ outrun' = outrun \cup {g \in Functions : Terminated(g) /\ InstanceOf[g] \in Batch(f)}
  /\ UNCHANGED stopped

(* Nothing failed: f goes on with the reports, or is cancelled from above. *)
NothingSurfaces(f) ==
  /\ arrived[f] = <<>>
  /\ IF Cancelling(f) THEN EndsCancelled(f)
     ELSE /\ status' = [status EXCEPT ![f] = "running"]
          /\ UNCHANGED <<arrived, stopping, settled, stopped, outcome>>
  /\ UNCHANGED <<bypassed, outrun>>

(* The batch of f is over.                                                 *)
Settle(f) ==
  /\ status[f] = "waiting" /\ BatchOver(f)
  /\ ErrorSurfaces(f) \/ FinalSurfaces(f) \/ NothingSurfaces(f)
  /\ UNCHANGED <<called, action, returnedBy>>

Step(f) == \/ Call(f) \/ Report(f) \/ Abstain(f) \/ DecideFinal(f) \/ Raise(f)
           \/ MonitorRaises(f) \/ Cancelled(f) \/ Settle(f)

Next == \E f \in Functions : Step(f)

Spec == Init /\ [][Next]_vars
-----------------------------------------------------------------------------
(* The escalations an unhandled one is named after: those that reached the *)
(* root, and were not passed up from below.                                *)
Escalated(f) == status[f] = "reported" /\ action[f] = "escalate"
Sources == {f \in Functions : /\ Escalated(f)
                              /\ \A g \in Above[f] : Escalated(g)
                              /\ f \notin Above[returnedBy[f]]}

Unhandled == outcome = "returned" /\ action[First("R")] = "escalate"
-----------------------------------------------------------------------------
(* Every variable has a value of its type, and a function has an action    *)
(* exactly when it decided.                                                *)
TypeOK ==
  /\ status \in [Functions -> Statuses]
  /\ action \in [Functions -> Actions \cup {"none"}]
  /\ stopping \subseteq Functions /\ outrun \subseteq Functions
  /\ bypassed \subseteq Instances /\ stopped \subseteq Instances
  /\ \A f \in Functions :
       /\ called[f] \in 0..Len(Batches[f])
       /\ status[f] = "waiting" => called[f] > 0
       /\ action[f] # "none" <=> InstanceOf[f] \notin Monitors
                                 /\ status[f] \in {"reported", "final"}
  /\ outcome \in {"running", "returned", "nothing", "error", "final"}

(* Every Final that was decided is recorded for good exactly once when the *)
(* step is over, as its outcome or as superseded, however it raced others, *)
(* errors and cancellations (decide_final, _supersede, run_sentinel).      *)
FinalSettledOnce ==
  /\ \A f \in Functions : settled[f] <= (IF status[f] = "final" THEN 1 ELSE 0)
  /\ outcome # "running" => \A f \in Functions : status[f] = "final" => settled[f] = 1

(* An instance recorded as cancelled was run beside, or below a layer run  *)
(* beside, one that terminated, decided or passed on a Final, or raised:   *)
(* the records of the layer say why it was cancelled (Recorder.cancelled). *)
RunBeside(i, j) ==
  i # j /\ \E f \in Functions : \E k \in DOMAIN Batches[f] : {i, j} \subseteq Batches[f][k]
AtOrOver(i) == {i} \cup {InstanceOf[g] : g \in Above[First(i)]}
CancellationHasCause ==
  \A i \in stopped : \E j \in AtOrOver(i), f \in Functions :
    /\ RunBeside(j, InstanceOf[f])
    /\ Terminated(f) \/ status[f] \in {"final", "passed", "raised"}

(* Nothing of the tree is running once the step is over: the task groups   *)
(* wait for what they cancel, at every depth.                              *)
NothingOutlivesTheStep ==
  outcome # "running" => \A f \in Functions : status[f] \notin {"running", "waiting"}

(* The docstring of run_sentinel: a step whose escalation nobody handled   *)
(* is explained by the escalations that reached the root.                  *)
UnhandledNamesSomeone == Unhandled => Sources # {}
=============================================================================
