------------------------------- MODULE Windows ------------------------------
(***************************************************************************)
(* What an incremental monitor is shown of a conversation                  *)
(* (_preprocess.py): NewSinceLastReport shows each of its functions the    *)
(* messages after the last one it reported on, marked by its id, how many  *)
(* copies of it the list held, and its position, when the function         *)
(* succeeds; steps of a conversation run at once, fail and are cancelled.  *)
(* LastTurns shows the last turns.                                         *)
(***************************************************************************)
EXTENDS Integers, FiniteSets, Sequences, SequencesExt, FiniteSetsExt

CONSTANTS
  Source,      \* the list windowed: history, which only grows, or input
  Functions,   \* the monitor's functions
  Slots,       \* the steps that may run at once
  Edits,       \* whether an edited version of a message may come, under its id
  MaxMessages, \* bound on the messages sent
  MaxTurns     \* bound on the turns LastTurns keeps

WindowsAssumption ==
  /\ Source \in {"history", "input"} /\ Edits \in BOOLEAN /\ IsFiniteSet(Slots)
  /\ MaxMessages \in Nat /\ MaxTurns \in Nat

VARIABLES
  conversation, \* the list: each message's number, id and role
  messagesSent, \* how many messages there were
  running,      \* each step: the function run, the list it was handed, what it shows
  marks,        \* each function's mark, or none yet
  reported,     \* the messages each function was shown at a step it reported on
  lastTurns     \* the last cut of LastTurns

windowVars == <<conversation, messagesSent, running, marks, reported, lastTurns>>

(* A message's id is its number, or its first version's, or none; a mark   *)
(* is of a message, whose number the code doesn't keep.                    *)
NoId == 0
NoMark == [id |-> NoId, copies |-> 0, length |-> 0, number |-> 0]
Idle == [at |-> "idle", function |-> "none", held |-> <<>>, start |-> 0, mark |-> NoMark]
Positions(messages, id) == {i \in DOMAIN messages : messages[i].id = id}
Nth(set, n) == CHOOSE i \in set : Cardinality({j \in set : j <= i}) = n

(* _resumed: after how many messages to show, and whether the list only    *)
(* grew since                                                              *)
Resumed(messages, seen) ==
  IF seen = NoMark THEN [after |-> 0, grew |-> FALSE]
  ELSE IF /\ Source = "history" /\ seen.length \in DOMAIN messages
          /\ messages[seen.length].id = seen.id
       THEN [after |-> seen.length, grew |-> TRUE]
       ELSE LET found == Positions(messages, seen.id)
            IN  [after |-> IF Cardinality(found) >= seen.copies THEN Nth(found, seen.copies) ELSE 0,
                 grew |-> FALSE]

(* The mark of the last message with an id (_last_with_id, _after_mark)    *)
MarkOf(messages, seen) ==
  LET ided == {i \in DOMAIN messages : messages[i].id # NoId}
      last == Max(ided)
      id == messages[last].id
      resumed == Resumed(messages, seen)
      new == {i \in Positions(messages, id) : i > resumed.after}
  IN  IF ided = {} THEN NoMark
      ELSE [id |-> id, length |-> last, number |-> messages[last].number,
            copies |-> IF resumed.grew
                       THEN (IF id = seen.id THEN seen.copies ELSE 0) + Cardinality(new)
                       ELSE Cardinality(Positions(messages, id))]
-----------------------------------------------------------------------------
WindowsInit ==
  /\ conversation = <<>> /\ messagesSent = 0 /\ running = [s \in Slots |-> Idle]
  /\ marks = [f \in Functions |-> NoMark] /\ reported = [f \in Functions |-> {}]
  /\ lastTurns = [turns |-> 0, of |-> <<>>, start |-> 0]

(* A message is added: one of its own, or an edited version of an earlier. *)
Appends ==
  /\ messagesSent < MaxMessages /\ messagesSent' = messagesSent + 1
  /\ \E id \in {NoId, messagesSent + 1} \cup (IF Edits THEN 1..messagesSent ELSE {}),
        role \in {"assistant", "other"} :
       conversation' = Append(conversation, [number |-> messagesSent + 1, id |-> id, role |-> role])
  /\ UNCHANGED <<running, marks, reported, lastTurns>>

(* The scaffold compacts its request: a summary stands for its head, which *)
(* holds the last message there was.                                       *)
Compacts ==
  /\ Source = "input" /\ conversation # <<>>
  /\ messagesSent < MaxMessages /\ messagesSent' = messagesSent + 1
  /\ conversation' = <<[number |-> messagesSent + 1, id |-> NoId, role |-> "other"]>>
  /\ UNCHANGED <<running, marks, reported, lastTurns>>

(* A step begins: its function is handed the list as it is now.            *)
Begins(s, f) ==
  /\ running[s].at = "idle" /\ conversation # <<>>
  /\ running' = [running EXCEPT
       ![s] = [Idle EXCEPT !.at = "begun", !.function = f, !.held = conversation]]
  /\ UNCHANGED <<conversation, messagesSent, marks, reported, lastTurns>>

(* As if a function that was cut off kept the mark                         *)
ShowsMarking(s) ==
  LET f == running[s].function IN
  /\ running[s].at = "begun"
  /\ running' = [running EXCEPT ![s].at = "shown", ![s].start = Resumed(running[s].held, marks[f]).after,
                                ![s].mark = MarkOf(running[s].held, marks[f])]
  /\ marks' = [marks EXCEPT ![f] = MarkOf(running[s].held, @)]
  /\ UNCHANGED <<conversation, messagesSent, reported, lastTurns>>

(* _after_mark: what it shows is read from the mark as it is now.          *)
Shows(s) ==
  LET f == running[s].function IN
  /\ running[s].at = "begun"
  /\ running' = [running EXCEPT ![s].at = "shown", ![s].start = Resumed(running[s].held, marks[f]).after,
                                ![s].mark = MarkOf(running[s].held, marks[f])]
  /\ UNCHANGED <<conversation, messagesSent, marks, reported, lastTurns>>

ShownAt(s) == {running[s].held[i].number : i \in {x \in DOMAIN running[s].held : x > running[s].start}}

(* on_success: the runner accepted what the function returned.             *)
Reports(s) ==
  LET f == running[s].function IN
  /\ running[s].at = "shown"
  /\ marks' = IF running[s].mark = NoMark THEN marks ELSE [marks EXCEPT ![f] = running[s].mark]
  /\ reported' = [reported EXCEPT ![f] = @ \cup ShownAt(s)]
  /\ running' = [running EXCEPT ![s] = Idle]
  /\ UNCHANGED <<conversation, messagesSent, lastTurns>>

(* It raised or was cancelled.                                             *)
StepFails(s) ==
  /\ running[s].at # "idle" /\ running' = [running EXCEPT ![s] = Idle]
  /\ UNCHANGED <<conversation, messagesSent, marks, reported, lastTurns>>
-----------------------------------------------------------------------------
(* _turns_start, from the end: how many messages LastTurns(n) leaves out   *)
Assistant(messages) == {i \in DOMAIN messages : messages[i].role = "assistant"}

TurnsStart(messages, n) ==
  IF n = 0 THEN Len(messages)
  ELSE FoldRight(LAMBDA i, walk :
         CASE walk.found \/ i \notin Assistant(messages) -> walk
           [] OTHER -> IF walk.left = 0 THEN [walk EXCEPT !.found = TRUE, !.keep = walk.start]
                       ELSE [walk EXCEPT !.left = @ - 1, !.start = i - 1],
         [i \in DOMAIN messages |-> i],
         [left |-> n, start |-> 0, found |-> FALSE, keep |-> 0]).keep

Cuts(n) ==
  /\ lastTurns' = [turns |-> n, of |-> conversation, start |-> TurnsStart(conversation, n)]
  /\ UNCHANGED <<conversation, messagesSent, running, marks, reported>>

WindowsNext ==
  \/ Appends \/ Compacts
  \/ \E s \in Slots : (\E f \in Functions : Begins(s, f)) \/ Shows(s) \/ Reports(s) \/ StepFails(s)
  \/ \E n \in 0..MaxTurns : Cuts(n)
WindowsSpec == WindowsInit /\ [][WindowsNext]_windowVars
-----------------------------------------------------------------------------
(* Type invariant                                                          *)
WindowsTyped ==
  /\ Len(conversation) <= messagesSent /\ messagesSent <= MaxMessages
  /\ \A s \in Slots : /\ running[s].at \in {"idle", "begun", "shown"}
                       /\ running[s].start \in 0..MaxMessages
  /\ \A f \in Functions : marks[f].id \in 0..MaxMessages /\ marks[f].copies \in 0..MaxMessages

(* No message of the list goes unseen by a function: each is shown to it   *)
(* at this step, or was at a step it reported on, also where steps ran at  *)
(* once, one failed, or a message was edited (NewSinceLastReport).         *)
NothingGoesUnseen ==
  \A s \in Slots : running[s].at = "shown" =>
    {m.number : m \in Range(running[s].held)} \subseteq ShownAt(s) \cup reported[running[s].function]

(* "A list that no longer holds that copy, as after a compaction, is shown *)
(* whole" (_preprocess.py:447), the copy shown last.                       *)
GoneIsShownWhole ==
  \A s \in Slots :
    LET mark == marks[running[s].function] IN
    (Cardinality(Slots) = 1 /\ running[s].at = "shown" /\ mark # NoMark
      /\ mark.number \notin {m.number : m \in Range(running[s].held)}) => running[s].start = 0

(* "So an incremental monitor does not re-read its conversations": where   *)
(* one step runs at a time, what it reported on is not shown again, unless *)
(* only messages with no id came after the last with one.                  *)
NothingIsReread ==
  (Source = "history" /\ Cardinality(Slots) = 1) =>
    \A s \in Slots : running[s].at = "shown" =>
      \A i \in DOMAIN running[s].held :
        running[s].held[i].number \in ShownAt(s) \cap reported[running[s].function] =>
          running[s].held[i].id = NoId

(* "Everything from the nth assistant message from the end", and a         *)
(* conversation of no more turns whole (LastTurns).                        *)
LastTurnsAsSaid ==
  LET kept == SubSeq(lastTurns.of, lastTurns.start + 1, Len(lastTurns.of))
      turns == Cardinality(Assistant(lastTurns.of))
  IN  IF lastTurns.turns >= turns /\ lastTurns.turns > 0 THEN kept = lastTurns.of
      ELSE /\ Cardinality(Assistant(kept)) = lastTurns.turns
           /\ kept # <<>> => kept[1].role = "assistant"
=============================================================================
