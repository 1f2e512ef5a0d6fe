------------------------------ MODULE Contexts ------------------------------
(***************************************************************************)
(* The contexts of the transcripts a scan reads (scout/_context.py):       *)
(* transcripts of one process are scanned concurrently, and those of one   *)
(* log share what is read of it, its header and its samples' summaries,    *)
(* each read under the log's lock and kept; reads fail and scans are       *)
(* cancelled, at any await.                                                *)
(***************************************************************************)
EXTENDS Naturals, Sequences, FiniteSets, SequencesExt

CONSTANTS
  Transcripts,  \* the transcripts scanned
  LogOf,        \* the log each is from, of Logs
  Logs,
  SampleOf,     \* the sample each is of, one of its log's
  Samples,      \* [Logs -> sets of [uuid, id, epoch]], an id a type and its text
  NoUuid,       \* of a sample recorded before samples had one
  MaxFailures   \* bound on the reads that fail

ASSUME ContextsAssumption ==
  /\ LogOf \in [Transcripts -> Logs] /\ MaxFailures \in Nat
  /\ \A t \in Transcripts : SampleOf[t] \in Samples[LogOf[t]]
  \* inspect_ai refuses ids that share a string
  /\ \A l \in Logs : \A s, u \in Samples[l] :
       s.id.text = u.id.text /\ s.epoch = u.epoch => s = u

VARIABLES
  upNext,    \* what each transcript's scan is to have next
  doing,     \* whether it runs, waits for its log's lock, or reads
  lock,      \* each log's lock: who holds it, first, and who waits for it
  headers,   \* the logs whose header is kept
  samples,   \* each log's samples by key, where they are kept
  given,     \* the sample each transcript's context is of
  succeeded, \* how often each thing was read of each log (history)
  failures   \* how many reads failed

contextVars == <<upNext, doing, lock, headers, samples, given, succeeded, failures>>

NoSample == [id |-> [type |-> "none", text |-> "none"], epoch |-> 0]
Ended == {"done", "error", "cancelled"}

(* replay reads the header, rebuilds the steps, then asks for the context  *)
NextOf == [info |-> "header", header |-> "identity", identity |-> "sample"]
Cached(t) == IF upNext[t] = "identity" THEN samples[LogOf[t]] # {} ELSE LogOf[t] \in headers
Waits(t) == \E i \in DOMAIN lock[LogOf[t]] : lock[LogOf[t]][i] = t
Holds(t) == lock[LogOf[t]] # <<>> /\ lock[LogOf[t]][1] = t

(* A summary by its key: its uuid, else its id's text and its epoch        *)
KeyOf(s) == IF s.uuid # NoUuid THEN <<s.uuid>> ELSE <<s.id.text, s.epoch>>
ById(s) == <<s.id.text, s.epoch>>

Kept(l) == {<<KeyOf(s), s>> : s \in Samples[l]}

(* _identity: by what Scout calls the transcript, the sample's uuid or a   *)
(* name of Scout's own, else by its task id and repeat                     *)
FoundIn(t, kept) ==
  LET s == SampleOf[t]
      named == {p \in kept : p[1] = <<s.uuid>> /\ s.uuid # NoUuid}
      found == IF named # {} THEN named ELSE {p \in kept : p[1] = ById(s)}
  IN  {[id |-> p[2].id, epoch |-> p[2].epoch] : p \in found}

ContextsInit ==
  /\ upNext = [t \in Transcripts |-> "info"] /\ doing = [t \in Transcripts |-> "runs"]
  /\ lock = [l \in Logs |-> <<>>] /\ headers = {} /\ samples = [l \in Logs |-> {}]
  /\ given = [t \in Transcripts |-> NoSample]
  /\ succeeded = [l \in Logs |-> [header |-> 0, summaries |-> 0]] /\ failures = 0

(* What a transcript's scan goes on to with what it asked for; a sample    *)
(* the log doesn't hold is an error.                                       *)
Advanced(t, kept) ==
  IF upNext[t] # "identity" THEN [upNext EXCEPT ![t] = NextOf[upNext[t]]]
  ELSE [upNext EXCEPT ![t] = IF FoundIn(t, kept) = {} THEN "error" ELSE "sample"]
Given(t, kept) ==
  IF upNext[t] = "identity" /\ FoundIn(t, kept) # {}
  THEN [given EXCEPT ![t] = CHOOSE s \in FoundIn(t, kept) : TRUE] ELSE given

(* eval_info, _header and _identity, up to the lock                        *)
AsksFor(t) ==
  /\ upNext[t] \in DOMAIN NextOf /\ doing[t] = "runs"
  /\ IF Cached(t)
     THEN /\ upNext' = Advanced(t, samples[LogOf[t]]) /\ given' = Given(t, samples[LogOf[t]])
          /\ UNCHANGED <<doing, lock>>
     ELSE /\ lock' = [lock EXCEPT ![LogOf[t]] = Append(@, t)]
          /\ doing' = [doing EXCEPT ![t] = "waits"] /\ UNCHANGED <<upNext, given>>
  /\ UNCHANGED <<headers, samples, succeeded, failures>>

(* The lock is given up, or no longer waited for.                          *)
Without(s, t) ==
  IF \E i \in DOMAIN s : s[i] = t THEN RemoveAt(s, CHOOSE i \in DOMAIN s : s[i] = t) ELSE s
Released(t) == [lock EXCEPT ![LogOf[t]] = Without(@, t)]

(* As if what was read while it waited was read again                      *)
AcquiresAnyway(t) ==
  /\ doing[t] = "waits" /\ Holds(t)
  /\ doing' = [doing EXCEPT ![t] = "reads"]
  /\ UNCHANGED <<upNext, lock, headers, samples, given, succeeded, failures>>

(* Its turn came: what it asked for may have been read meanwhile.          *)
Acquires(t) ==
  /\ doing[t] = "waits" /\ Holds(t)
  /\ IF Cached(t)
     THEN /\ upNext' = Advanced(t, samples[LogOf[t]]) /\ given' = Given(t, samples[LogOf[t]])
          /\ lock' = Released(t) /\ doing' = [doing EXCEPT ![t] = "runs"]
     ELSE doing' = [doing EXCEPT ![t] = "reads"] /\ UNCHANGED <<upNext, lock, given>>
  /\ UNCHANGED <<headers, samples, succeeded, failures>>

Reads(t) ==
  LET l == LogOf[t] IN
  /\ doing[t] = "reads" /\ upNext[t] # "sample"
  /\ IF upNext[t] = "identity"
     THEN /\ samples' = [samples EXCEPT ![l] = Kept(l)]
          /\ succeeded' = [succeeded EXCEPT ![l].summaries = @ + 1]
          /\ UNCHANGED headers
     ELSE /\ headers' = headers \cup {l}
          /\ succeeded' = [succeeded EXCEPT ![l].header = @ + 1]
          /\ UNCHANGED samples
  /\ upNext' = Advanced(t, Kept(l)) /\ given' = Given(t, Kept(l))
  /\ lock' = Released(t) /\ doing' = [doing EXCEPT ![t] = "runs"]
  /\ UNCHANGED failures

Fails(t) ==
  /\ doing[t] = "reads" /\ failures < MaxFailures /\ failures' = failures + 1
  /\ upNext' = [upNext EXCEPT ![t] = "error"] /\ doing' = [doing EXCEPT ![t] = "runs"]
  /\ lock' = Released(t)
  /\ UNCHANGED <<headers, samples, given, succeeded>>

(* The sample itself is read for each transcript, under no lock.           *)
ReadsSample(t) ==
  /\ upNext[t] = "sample"
  /\ IF doing[t] = "runs" THEN doing' = [doing EXCEPT ![t] = "reads"] /\ UNCHANGED upNext
     ELSE doing' = [doing EXCEPT ![t] = "runs"] /\ upNext' = [upNext EXCEPT ![t] = "done"]
  /\ UNCHANGED <<lock, headers, samples, given, succeeded, failures>>

(* The scan is cancelled where it awaits.                                  *)
Cancelled(t) ==
  /\ upNext[t] \notin Ended /\ doing[t] \in {"waits", "reads"}
  /\ upNext' = [upNext EXCEPT ![t] = "cancelled"] /\ doing' = [doing EXCEPT ![t] = "runs"]
  /\ lock' = Released(t)
  /\ UNCHANGED <<headers, samples, given, succeeded, failures>>

Step(t) == AsksFor(t) \/ Acquires(t) \/ Reads(t) \/ ReadsSample(t)
ContextsNext == \E t \in Transcripts : Step(t) \/ Fails(t) \/ Cancelled(t)
ContextsSpec == ContextsInit /\ [][ContextsNext]_contextVars

(* Each scan goes on, its reads answer, and the lock goes to each in turn. *)
Live == ContextsSpec /\ \A t \in Transcripts : WF_contextVars(Step(t))
-----------------------------------------------------------------------------
(* Type invariant                                                          *)
ContextsTyped ==
  /\ upNext \in [Transcripts -> {"info", "header", "identity", "sample"} \cup Ended]
  /\ doing \in [Transcripts -> {"runs", "waits", "reads"}]
  /\ \A l \in Logs : IsInjective(lock[l]) /\ Range(lock[l]) \subseteq Transcripts
  /\ headers \subseteq Logs /\ failures \in 0..MaxFailures

(* Transcripts that miss together share one read, and one that failed or   *)
(* was cancelled is not the last (_header, _identity): nothing is read     *)
(* twice of a log once it was read, whatever the order.                    *)
ReadOnce ==
  \A l \in Logs : succeeded[l].header <= 1 /\ succeeded[l].summaries <= 1

(* One read of a log at a time, its sample reads aside (_reading).         *)
OneReadAtATime ==
  \A t, u \in Transcripts :
    LogOf[t] = LogOf[u] /\ t # u =>
      ~ \A x \in {t, u} : doing[x] = "reads" /\ upNext[x] # "sample"

(* A transcript's context is that of the sample it was made from, with the *)
(* id's own type (_identity), whoever read the log.                        *)
ContextIsItsOwn ==
  \A t \in Transcripts :
    /\ given[t] # NoSample => given[t] = [id |-> SampleOf[t].id, epoch |-> SampleOf[t].epoch]
    /\ upNext[t] = "done" => given[t] # NoSample
    /\ upNext[t] = "error" => failures > 0

(* Every scan ends, whichever of the others fail or are cancelled while    *)
(* they hold the log's lock or wait for it.                                *)
EveryScanEnds == \A t \in Transcripts : <>(upNext[t] \in Ended)
=============================================================================
