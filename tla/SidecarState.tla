---------------------------- MODULE SidecarState ----------------------------
(***************************************************************************)
(* What the sidecar keeps in memory (sidecar/_state.py) for the exchanges  *)
(* of evals' samples: each sample's run, the requests that await a reply,  *)
(* what was recorded, each request's attempts and the tasks registered.    *)
(* All of it expires, a time after it was last used, and an exchange holds *)
(* on to the Run it found while the sentinel judges.                       *)
(***************************************************************************)
EXTENDS Naturals, Sequences, SequencesExt

CONSTANTS
  Exchanges, Samples, Ids, Tasks,
  SampleOf, IdOf,  \* [Exchanges -> Samples], and the eval's id for the request
  TaskOf,          \* [Samples -> Tasks]
  Expiry,          \* RUN_EXPIRY
  TaskExpiries,    \* the expiries a registration asks for
  TaskExpiry,      \* the longest it is granted, MAX_TASK_EXPIRY
  TaskLimit,       \* MAX_TASK_REGISTRATIONS
  DroppedLimit,    \* DROPPED_IDS
  MaxNow, MaxReplies, MaxFacts  \* bounds on time, on how often a reply is
                                \*   handed over, and on registrations

SidecarStateAssumption ==
  /\ SampleOf \in [Exchanges -> Samples] /\ IdOf \in [Exchanges -> Ids]
  /\ TaskOf \in [Samples -> Tasks]
  /\ {Expiry, TaskExpiry, TaskLimit, DroppedLimit} \cup TaskExpiries \subseteq Nat \ {0}
  /\ {MaxNow, MaxReplies, MaxFacts} \subseteq Nat

VARIABLES
  now,
  runs, held, recorders, ended, dropped, attempts, \* each an _Expiring
  tasks,     \* the registrations, as a sequence of entries
  facts,     \* of each Run made, in order: which registration it found, or 0
  refused,   \* the Runs whose refusal is set
  pc, obj,   \* where an exchange stands, and the Run it holds and since when
  registered, \* how many registrations were made
  replies,   \* how often an exchange's reply was handed over
  \* history
  passed,    \* how often it was passed on
  named,     \* when a sample's run was last named, and which it was
  stopped,   \* the samples ended, while they are named in time
  seenAt,    \* when a request's id was last seen
  taskAt,    \* when a task was last registered or named, and its expiry
  turnedAway \* a registration was refused though there was room

storeVars == <<runs, held, recorders, ended, dropped, attempts, tasks>>
pastVars  == <<passed, named, stopped, seenAt, taskAt, turnedAway>>
vars == <<now, storeVars, facts, refused, pc, obj, registered, replies, pastVars>>

Ended == 0  \* the Run that stands for one its eval ended

Init ==
  /\ now = 1
  /\ runs = <<>> /\ held = <<>> /\ recorders = <<>> /\ ended = <<>>
  /\ dropped = <<>> /\ attempts = <<>> /\ tasks = <<>>
  /\ facts = <<>> /\ refused = {Ended}
  /\ pc = [x \in Exchanges |-> "new"]
  /\ obj = [x \in Exchanges |-> [run |-> Ended, at |-> 0]]
  /\ registered = 0 /\ replies = [x \in Exchanges |-> 0]
  /\ passed = [x \in Exchanges |-> 0]
  /\ named = [s \in Samples |-> [at |-> 0, run |-> Ended]] /\ stopped = {}
  /\ seenAt = [i \in Ids |-> 0] /\ taskAt = [t \in Tasks |-> [at |-> 0, expiry |-> 0]]
  /\ turnedAway = FALSE
-----------------------------------------------------------------------------
(* _Expiring: entries by their last use, the oldest first.                 *)
Entry(key, value) == [key |-> key, used |-> now, value |-> value]

Swept(kept) == SelectSeq(kept, LAMBDA e : now - e.used < Expiry)

Values(kept, key) == {e.value : e \in {f \in Range(Swept(kept)) : f.key = key}}
Has(kept, key) == Values(kept, key) # {}
Value(kept, key) == CHOOSE value \in Values(kept, key) : TRUE

Without(kept, key) == SelectSeq(Swept(kept), LAMBDA e : e.key # key)

Put(kept, key, value) == Append(Without(kept, key), Entry(key, value))

(* What is found is not marked as used.                                    *)
GetUnused(kept, key) == Swept(kept)

Get(kept, key) ==
  IF Has(kept, key) THEN Put(kept, key, Value(kept, key)) ELSE Swept(kept)

(* The ids of the attempts that expire are kept, up to a limit.            *)
DroppedIds ==
  FoldLeft(LAMBDA ids, e : LET more == Put(ids, e.key, TRUE) IN
                           IF Len(more) > DroppedLimit THEN Tail(more) ELSE more,
           dropped, SelectSeq(attempts, LAMBDA e : now - e.used >= Expiry))

(* State.run: the Run kept, the ended one, or a new one.                   *)
RunOf(s) ==
  IF Has(runs, s) THEN Value(runs, s) ELSE IF Has(ended, s) THEN Ended ELSE Len(facts) + 1

IsNew(run) == run = Len(facts) + 1
WithNew(run) == IF IsNew(run) THEN Append(facts, 0) ELSE facts

FindsRun(x, s, run) ==
  /\ runs' = IF IsNew(run) THEN Put(runs, s, run) ELSE Get(runs, s)
  /\ ended' = IF Has(runs, s) THEN ended ELSE Get(ended, s)
  /\ obj' = [obj EXCEPT ![x] = [run |-> run, at |-> now]]
  /\ named' = [named EXCEPT ![s] = [at |-> now, run |-> run]]
-----------------------------------------------------------------------------
(* _expire_tasks.                                                          *)
TasksNow == SelectSeq(tasks, LAMBDA e : now - e.used < e.value.expiry)
TaskNow(t) == {e \in Range(TasksNow) : e.key = t}
OtherTasks(t) == SelectSeq(TasksNow, LAMBDA e : e.key # t)

(* register_task: another registration, refused past the limit.            *)
Register(t, asks) ==
  /\ registered < MaxFacts /\ registered' = registered + 1
  /\ LET expiry == IF asks < TaskExpiry THEN asks ELSE TaskExpiry
         others == {u \in Tasks \ {t} : taskAt[u].at > 0 /\ now - taskAt[u].at < taskAt[u].expiry}
     IN  IF TaskNow(t) = {} /\ Len(TasksNow) >= TaskLimit
         THEN /\ tasks' = TasksNow /\ UNCHANGED taskAt
              /\ turnedAway' = (turnedAway \/ others = {})
         ELSE /\ tasks' = Append(OtherTasks(t), Entry(t, [expiry |-> expiry, facts |-> registered']))
              /\ taskAt' = [taskAt EXCEPT ![t] = [at |-> now, expiry |-> expiry]]
              /\ UNCHANGED turnedAway
  /\ UNCHANGED <<now, runs, held, recorders, ended, dropped, attempts, facts, refused, pc, obj,
                 replies, passed, named, stopped, seenAt>>

(* Handler._eval: the task is named, and a Run keeps what it first found.  *)
FindsTask(run, t) ==
  LET found == TaskNow(t)
      entry == CHOOSE e \in found : TRUE
  IN  IF found = {}
      THEN tasks' = TasksNow /\ facts' = WithNew(run) /\ UNCHANGED taskAt
      ELSE /\ tasks' = Append(OtherTasks(t), [entry EXCEPT !.used = now])
           /\ facts' = [WithNew(run) EXCEPT ![run] = IF @ = 0 THEN entry.value.facts ELSE @]
           /\ taskAt' = [taskAt EXCEPT ![t].at = now]
-----------------------------------------------------------------------------
(* Handler.request: an attempt at the request the eval's id names.         *)
Arrives(x) ==
  /\ pc[x] = "new" /\ pc' = [pc EXCEPT ![x] = "reading"]
  /\ attempts' = Put(attempts, IdOf[x],
                     Append(IF Has(attempts, IdOf[x]) THEN Value(attempts, IdOf[x]) ELSE <<>>, x))
  /\ dropped' = DroppedIds
  /\ recorders' = Put(recorders, x, TRUE)
  /\ seenAt' = [seenAt EXCEPT ![IdOf[x]] = now]
  /\ UNCHANGED <<now, runs, held, ended, tasks, facts, refused, obj, registered, replies,
                 passed, named, stopped, taskAt, turnedAway>>

(* Handler._request: its run is found, and refuses it if it has ended.     *)
Finds(x) ==
  LET s == SampleOf[x]
      run == RunOf(s)
  IN  /\ pc[x] = "reading" /\ FindsRun(x, s, run)
      /\ IF run \in refused
         THEN /\ pc' = [pc EXCEPT ![x] = "refused"]
              /\ UNCHANGED <<recorders, tasks, facts, taskAt>>
         ELSE /\ pc' = [pc EXCEPT ![x] = "judging"]
              /\ recorders' = Put(recorders, x, TRUE) /\ FindsTask(run, TaskOf[s])
      /\ UNCHANGED <<now, held, dropped, attempts, refused, registered, replies, passed, stopped,
                     seenAt, turnedAway>>

(* _end: the Run the exchange holds is ended.  One that outlasted its      *)
(* expiry is no longer the sample's.                                       *)
EndsRun(x) ==
  /\ refused' = refused \cup {obj[x].run}
  /\ stopped' = IF RunOf(SampleOf[x]) = obj[x].run THEN stopped \cup {SampleOf[x]} ELSE stopped

RequestJudged(x) ==
  /\ pc[x] = "judging"
  /\ \/ /\ obj[x].run \notin refused
        /\ held' = Put(held, x, TRUE)
        /\ pc' = [pc EXCEPT ![x] = "sent"]
        /\ UNCHANGED <<refused, stopped>>
     \/ /\ pc' = [pc EXCEPT ![x] = "refused"]
        /\ EndsRun(x) \/ (obj[x].run \in refused /\ UNCHANGED <<refused, stopped>>)
        /\ UNCHANGED held
  /\ UNCHANGED <<now, runs, recorders, ended, dropped, attempts, tasks, facts, obj, registered,
                 replies, passed, named, seenAt, taskAt, turnedAway>>

(* It can't be read, or the sentinel fails or is out of time.              *)
RequestFails(x) ==
  /\ pc[x] \in {"reading", "judging"}
  /\ pc' = [pc EXCEPT ![x] = "refused"]
  /\ UNCHANGED <<now, storeVars, facts, refused, obj, registered, replies, pastVars>>
-----------------------------------------------------------------------------
HandedOver(x) ==
  /\ pc[x] \in {"sent", "replying", "answered"} /\ replies[x] < MaxReplies
  /\ replies' = [replies EXCEPT ![x] = @ + 1]

(* Handler.reply: the request is let go of and its run found again, or     *)
(* nothing is held and the reply can't be judged.                          *)
ReplyComes(x) ==
  LET s == SampleOf[x]
      run == RunOf(s)
  IN  /\ HandedOver(x)
      /\ held' = Without(held, x)
      /\ IF Has(held, x)
         THEN /\ FindsRun(x, s, run) /\ facts' = WithNew(run)
              /\ pc' = [pc EXCEPT ![x] = "replying"]
         ELSE /\ pc' = [pc EXCEPT ![x] = IF @ = "sent" THEN "answered" ELSE @]
              /\ UNCHANGED <<runs, ended, obj, named, facts>>
      /\ UNCHANGED <<now, recorders, dropped, attempts, tasks, refused, registered, passed,
                     stopped, seenAt, taskAt, turnedAway>>

(* A provider's error, or a reply the proxy doesn't hand over              *)
(* (reply_not_judged).                                                     *)
ReplyUnjudged(x) ==
  /\ HandedOver(x)
  /\ held' = Without(held, x)
  /\ pc' = [pc EXCEPT ![x] = IF @ = "sent" THEN "answered" ELSE @]
  /\ UNCHANGED <<now, runs, recorders, ended, dropped, attempts, tasks, facts, refused, obj,
                 registered, pastVars>>

(* It passes, is rejected or ends the run; or judging it fails.            *)
ReplyJudged(x) ==
  /\ pc[x] = "replying" /\ pc' = [pc EXCEPT ![x] = "answered"]
  /\ \/ /\ obj[x].run \notin refused
        /\ passed' = [passed EXCEPT ![x] = @ + 1]
        /\ UNCHANGED <<refused, stopped>>
     \/ /\ EndsRun(x) \/ UNCHANGED <<refused, stopped>>
        /\ UNCHANGED passed
  /\ UNCHANGED <<now, storeVars, facts, obj, registered, replies, named, seenAt, taskAt,
                 turnedAway>>
-----------------------------------------------------------------------------
(* end_run: the Run is let go of, and whoever holds it finds it ended.     *)
EndSample(s) ==
  LET known == Has(runs, s) \/ Has(ended, s)
  IN  /\ runs' = Without(runs, s)
      /\ ended' = IF Has(runs, s) /\ ~Has(ended, s) THEN Put(ended, s, Ended) ELSE Get(ended, s)
      /\ refused' = refused \cup Values(runs, s)
      /\ stopped' = IF known THEN stopped \cup {s} ELSE stopped
      /\ named' = IF known THEN [named EXCEPT ![s].at = now] ELSE named
      /\ UNCHANGED <<now, held, recorders, dropped, attempts, tasks, facts, pc, obj,
                     registered, replies, passed, seenAt, taskAt, turnedAway>>

SampleResult(s) ==
  /\ runs' = Get(runs, s)
  /\ named' = IF Has(runs, s) THEN [named EXCEPT ![s].at = now] ELSE named
  /\ UNCHANGED <<now, held, recorders, ended, dropped, attempts, tasks, facts, refused, pc, obj,
                 registered, replies, passed, stopped, seenAt, taskAt, turnedAway>>

(* request_result: every attempt's records, until one has none.            *)
RequestResult(i) ==
  /\ attempts' = Get(attempts, i) /\ dropped' = DroppedIds
  /\ recorders' = FoldLeft(LAMBDA k, x : IF k.ok THEN [ok |-> Has(k.kept, x), kept |-> Get(k.kept, x)]
                                         ELSE k,
                           [ok |-> TRUE, kept |-> recorders],
                           IF Has(attempts, i) THEN Value(attempts, i) ELSE <<>>).kept
  /\ seenAt' = IF Has(attempts, i) THEN [seenAt EXCEPT ![i] = now] ELSE seenAt
  /\ UNCHANGED <<now, runs, held, ended, tasks, facts, refused, pc, obj, registered,
                 replies, passed, named, stopped, taskAt, turnedAway>>

Tick ==
  /\ now < MaxNow /\ now' = now + 1
  /\ stopped' = {s \in stopped : now' - named[s].at < Expiry}
  /\ UNCHANGED <<storeVars, facts, refused, pc, obj, registered, replies, passed, named,
                 seenAt, taskAt, turnedAway>>

Next ==
  \/ \E x \in Exchanges : \/ Arrives(x) \/ Finds(x) \/ RequestJudged(x) \/ RequestFails(x)
                          \/ ReplyComes(x) \/ ReplyUnjudged(x) \/ ReplyJudged(x)
  \/ \E s \in Samples : EndSample(s) \/ SampleResult(s)
  \/ \E i \in Ids : RequestResult(i)
  \/ \E t \in Tasks, asks \in TaskExpiries : Register(t, asks)
  \/ Tick

Spec == Init /\ [][Next]_vars
-----------------------------------------------------------------------------
(* Each store's entries are of one key each, the oldest used first.        *)
OldestFirst(kept) ==
  \A i, j \in DOMAIN kept : i < j => kept[i].key # kept[j].key /\ kept[i].used <= kept[j].used

TypeOK ==
  /\ OldestFirst(runs) /\ OldestFirst(held) /\ OldestFirst(recorders) /\ OldestFirst(ended)
  /\ OldestFirst(dropped) /\ OldestFirst(attempts) /\ Len(tasks) <= TaskLimit
  /\ refused \subseteq 0..Len(facts) /\ \A i \in DOMAIN facts : facts[i] \in 0..registered

(* A sample named in time is the run it was, its store and conversations   *)
(* with it, or one that has ended (State.run).                             *)
NamedRunIsKept ==
  \A s \in Samples : named[s].at > 0 /\ now - named[s].at < Expiry =>
    RunOf(s) \in {named[s].run, Ended}

(* A sample that was ended refuses every later request, for as long as it  *)
(* is named in time (end_sample, Handler._end).                            *)
EndedSampleStaysEnded == \A s \in stopped : RunOf(s) \in refused

(* No reply passes once its sample was ended, one being judged meanwhile   *)
(* included, unless judging outlasts the expiry (end_run).                 *)
NothingPassesOnceEnded ==
  \A x \in Exchanges : passed'[x] # passed[x] /\ SampleOf[x] \in stopped =>
    now - obj[x].at >= Expiry

(* An eval asking after its request is told what became of it or that it   *)
(* was dropped, never that it was not seen (State.attempts).               *)
SeenIsNeverUnknown ==
  \A i \in Ids : seenAt[i] > 0 /\ now - seenAt[i] < 2 * Expiry =>
    Has(attempts, i) \/ Has(DroppedIds, i)

(* A registration is refused only when others are kept in its place.       *)
TurnedAwayOnlyWhenFull == ~turnedAway

(* A task named in time is registered, for the expiry it was granted.      *)
NamedTaskIsKept ==
  \A t \in Tasks : now - taskAt[t].at < taskAt[t].expiry => TaskNow(t) # {}

(* A reply handed over again, or after its request expired, doesn't pass   *)
(* (Handler.reply).                                                        *)
ReplyPassedOnce == \A x \in Exchanges : passed[x] <= 1

(* What a run found of its task stays, however it is registered again.     *)
FactsStay == \A run \in DOMAIN facts : facts[run] # 0 => facts'[run] = facts[run]
=============================================================================
