---------------------------- MODULE Compositions ----------------------------
(***************************************************************************)
(* What the shipped compositions make of their children's reports at one   *)
(* step (_protocols/): a sequential() chain whose links are monitors,      *)
(* protocols or groups, concurrent() layers, a human() and                 *)
(* handle_escalation() policies.  What a protocol, a monitor or a person   *)
(* says is a free choice; the chain and the vote are the model.            *)
(***************************************************************************)
EXTENDS Naturals, Sequences, FiniteSets

CONSTANTS
  Kinds,       \* the kinds of links a chain may have
  MaxLinks,    \* bound on the links of a chain
  MaxVotes,    \* bound on the decisions of one link's functions
  Offered      \* the choices human() offers, by stage; none where it isn't asked

Stages  == {"tool_call", "tool_result", "model_input", "model_output"}
DecisionActions == {"terminate", "reject", "modify", "escalate", "proceed"}
HumanChoices == {"approve", "reject", "terminate", "modify"}

(* How strong an action is.                                                *)
PRECEDENCE == [terminate |-> 5, reject |-> 4, modify |-> 3, escalate |-> 2,
               proceed |-> 1]

(* The actions legal at a stage; the runner refuses any other.             *)
Legal(s) == IF s = "tool_call" THEN DecisionActions ELSE DecisionActions \ {"reject", "modify"}

(* The choices human() may offer; it can't be asked before a generate.     *)
LegalChoices(s) ==
  CASE s = "tool_call"   -> HumanChoices
    [] s = "model_input" -> {}
    [] OTHER             -> {"approve", "terminate"}

ASSUME CompositionAssumption ==
  /\ Kinds \subseteq {"monitor", "protocols", "concurrent", "human", "terminates",
                      "proceeds"}
  /\ MaxLinks \in Nat \ {0} /\ MaxVotes \in Nat
  /\ Offered \in [Stages -> SUBSET HumanChoices]
  /\ \A s \in Stages : Offered[s] \subseteq LegalChoices(s)

VARIABLES
  stage,        \* the stage of the step
  chain,        \* the links, in configuration order
  at,           \* the link to run next
  votes,        \* what the functions of the last link run decided
  handed,       \* the links whose escalations are handed on, in order
  participated, \* a link took part
  result        \* what the chain returned, and the link that decided

chainVars == <<stage, chain, at, votes, handed, participated, result>>

Nothing == [action |-> "none", link |-> 0]
Running == [action |-> "running", link |-> 0]
Raised  == [action |-> "raised", link |-> 0]

(* The decisions of up to MaxVotes functions, in configuration order.      *)
Decided == UNION {[1..n -> Legal(stage)] : n \in 0..MaxVotes}
-----------------------------------------------------------------------------
(* Decisions.strongest: the first in configuration order on a tie.         *)
Strongest(ds) ==
  CHOOSE k \in DOMAIN ds : \A l \in DOMAIN ds :
    /\ PRECEDENCE[ds[k]] >= PRECEDENCE[ds[l]]
    /\ PRECEDENCE[ds[k]] = PRECEDENCE[ds[l]] => k <= l

(* The first of two rewrites is taken.                                     *)
ContestedNever(ds) == FALSE

(* Another rewrite contests the one that is the strongest vote.            *)
Contested(ds) ==
  LET k == Strongest(ds)
  IN  ds[k] = "modify" /\ \E l \in DOMAIN ds : l # k /\ ds[l] = "modify"

(* What concurrent() makes of its children's votes.                        *)
Vote(ds) == IF Contested(ds) THEN "reject" ELSE ds[Strongest(ds)]
-----------------------------------------------------------------------------
ChainInit ==
  /\ stage \in Stages
  /\ chain \in UNION {[1..n -> Kinds] : n \in 1..MaxLinks}
  /\ at = 1 /\ votes = <<>> /\ handed = <<>>
  /\ participated = FALSE /\ result = Running

(* The link, once for each escalation among its decisions.                 *)
Escalations(ds) ==
  [k \in 1..Cardinality({l \in DOMAIN ds : ds[l] = "escalate"}) |-> at]

(* What a link returned: anything but an escalate ends the chain, and the  *)
(* escalations are handed to the next link.                                *)
LinkReturns(ds) ==
  /\ at' = at + 1
  /\ IF ds = <<>> THEN UNCHANGED <<handed, participated, result>>
     ELSE /\ participated' = TRUE
          /\ IF ds[Strongest(ds)] # "escalate"
             THEN /\ result' = [action |-> ds[Strongest(ds)], link |-> at]
                  /\ UNCHANGED handed
             ELSE /\ handed' = handed \o Escalations(ds)
                  /\ UNCHANGED result
  /\ UNCHANGED <<stage, chain>>

AtLink(kind) == result = Running /\ at <= Len(chain) /\ chain[at] = kind

(* A monitor abstains, observes or fails, and falls through.               *)
Monitor ==
  /\ AtLink("monitor")
  /\ at' = at + 1
  /\ votes' = <<>>
  /\ participated' \in {participated, TRUE}
  /\ UNCHANGED <<stage, chain, handed, result>>

(* A protocol or a group of them decides or abstains, function by function,*)
(* and no function runs after one that terminates.                         *)
Protocols ==
  /\ AtLink("protocols")
  /\ \E ds \in Decided :
       /\ \A k \in 1..(Len(ds) - 1) : ds[k] # "terminate"
       /\ votes' = ds /\ LinkReturns(ds)

(* A concurrent() layer votes, and abstains if no protocol of it decided.  *)
Concurrent ==
  /\ AtLink("concurrent")
  /\ \E ds \in Decided :
       votes' = ds /\ LinkReturns(IF ds = <<>> THEN <<>> ELSE <<Vote(ds)>>)

(* The policy answers only a step that it is told was escalated.           *)
Handle(action) == IF handed = <<>> THEN <<>> ELSE <<action>>

HandleEscalation ==
  \/ AtLink("terminates") /\ votes' = Handle("terminate") /\ LinkReturns(votes')
  \/ AtLink("proceeds") /\ votes' = Handle("proceed") /\ LinkReturns(votes')

(* What a person's answer decides.                                         *)
Answer == [approve |-> "proceed", reject |-> "reject", terminate |-> "terminate",
           modify |-> "modify"]

(* The host's answer is not checked against what was offered.              *)
HumanUnchecked ==
  /\ AtLink("human")
  /\ \E choice \in HumanChoices : votes' = <<Answer[choice]>>
  /\ LinkReturns(votes')

(* A person is asked: a terminate is taken even where it isn't offered.    *)
Human ==
  /\ AtLink("human")
  /\ IF Offered[stage] = {} THEN votes' = <<>>
     ELSE \E choice \in Offered[stage] \cup {"terminate"} : votes' = <<Answer[choice]>>
  /\ LinkReturns(votes')

(* A link raises, the host's answer is none of the choices, or a decision  *)
(* has an illegal shape: the chain raises with it.                         *)
LinkRaises ==
  /\ result = Running
  /\ at <= Len(chain)
  /\ chain[at] \notin {"terminates", "proceeds"}
  /\ result' = Raised
  /\ votes' = <<>>
  /\ UNCHANGED <<stage, chain, at, handed, participated>>

(* A chain that took part proceeds, escalated or not.                      *)
ConclusionIfParticipated ==
  IF participated THEN [action |-> "proceed", link |-> 0] ELSE Nothing

(* What the chain returns when no link decided anything but an escalate.   *)
Conclusion ==
  IF handed # <<>> THEN [action |-> "escalate", link |-> handed[Len(handed)]]
  ELSE IF participated THEN [action |-> "proceed", link |-> 0]
  ELSE Nothing

EndOfChain ==
  /\ result = Running
  /\ at > Len(chain)
  /\ result' = Conclusion
  /\ UNCHANGED <<stage, chain, at, votes, handed, participated>>

ChainNext == \/ Monitor \/ Protocols \/ Concurrent \/ HandleEscalation \/ Human \/ LinkRaises
        \/ EndOfChain

ChainSpec == ChainInit /\ [][ChainNext]_chainVars
-----------------------------------------------------------------------------
(* Every variable has a value of its type, and what the chain returns is   *)
(* legal at the stage.                                                     *)
ChainTypeOK ==
  /\ stage \in Stages
  /\ chain \in Seq(Kinds) /\ chain # <<>>
  /\ at \in Nat \ {0}
  /\ votes \in Seq(Legal(stage))
  /\ handed \in Seq(Nat \ {0})
  /\ participated \in BOOLEAN
  /\ result \in [action : Legal(stage), link : Nat] \cup {Nothing, Running, Raised}

(* A step some link escalated is never let go on by falling through: it is *)
(* escalated further, or decided by a link that ran after the escalation   *)
(* and was handed it; and a chain that ends in a handle_escalation() never *)
(* escalates, whatever its other links do (sequential, handle_escalation). *)
EscalationIsAnswered ==
  /\ handed # <<>> /\ result \notin {Running, Raised} =>
       \/ result.action = "escalate"
       \/ \A k \in DOMAIN handed : handed[k] < result.link
  /\ chain[Len(chain)] \in {"terminates", "proceeds"} => result.action # "escalate"

(* What became of the link just run.                                       *)
Outcome == IF result.link = at - 1 /\ result.action # "escalate" THEN result.action
           ELSE "escalate"

(* A group is decided by its strictest function and a layer by its         *)
(* strictest child: no terminate, reject or escalate is outvoted, and a    *)
(* rewrite a layer's children disagree on never takes effect.              *)
NoObjectionIsOutvoted ==
  votes # <<>> /\ result # Raised =>
    /\ \A k \in DOMAIN votes : PRECEDENCE[Outcome] >= PRECEDENCE[votes[k]]
    /\ chain[at - 1] = "concurrent" /\ Outcome = "modify" =>
         \A k, l \in DOMAIN votes : votes[k] = "modify" /\ votes[l] = "modify" => k = l
=============================================================================
