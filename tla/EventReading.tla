---------------------------- MODULE EventReading ----------------------------
(***************************************************************************)
(* A reply stream's events, read from its bytes as they arrive             *)
(* (EventReader in sidecar/_release.py), against those read from the whole *)
(* stream (written_events in sidecar/_wire.py).  A stream judged early and *)
(* one held whole have to be cut at the same places, or an event would go  *)
(* out in a way the sentinel never read it.                                *)
(***************************************************************************)
EXTENDS Naturals, FiniteSets, Sequences, SequencesExt

CONSTANT MaxBytes  \* bound on the stream's bytes

EventReadingAssumption == MaxBytes \in Nat

VARIABLES
  body,      \* the bytes of the whole stream
  arrived,   \* how many of them have arrived
  decoder,   \* the bytes of a character that is not whole yet
  rest,      \* what has arrived of a line that has not ended
  held,      \* the lines of an event that has not ended
  events,    \* the events read
  ended      \* "no", "yes", or "unreadable"

vars == <<body, arrived, decoder, rest, held, events, ended>>

(* A character of one byte, the two line ends, and a character's two bytes *)
Bytes == {"x", "r", "n", "e1", "e2"}

Init ==
  /\ body \in UNION {[1..n -> Bytes] : n \in 0..MaxBytes}
  /\ arrived = 0 /\ decoder = <<>> /\ rest = <<>> /\ held = <<>> /\ events = <<>>
  /\ ended = "no"
-----------------------------------------------------------------------------
(* What bytes say: the characters, the byte of one that is not whole, and  *)
(* whether they are UTF-8.                                                 *)
Decode(bytes) ==
  FoldLeft(LAMBDA d, b :
             IF d.part # <<>>
             THEN IF b = "e2" THEN [d EXCEPT !.text = Append(@, "e"), !.part = <<>>]
                              ELSE [d EXCEPT !.utf8 = FALSE]
             ELSE IF b = "e1" THEN [d EXCEPT !.part = <<b>>]
             ELSE IF b = "e2" THEN [d EXCEPT !.utf8 = FALSE]
             ELSE [d EXCEPT !.text = Append(@, b)],
           [text |-> <<>>, part |-> <<>>, utf8 |-> TRUE], bytes)

(* LINE_END_KEPT.split: each line with the line end after it, and what     *)
(* follows the last line end.                                              *)
Split(text) ==
  FoldLeft(LAMBDA s, c :
             IF c = "n" /\ s.last = <<>> /\ s.lines # <<>> /\ Last(s.lines).end = <<"r">>
             THEN [s EXCEPT !.lines = Append(Front(@), [Last(@) EXCEPT !.end = <<"r", "n">>])]
             ELSE IF c \in {"r", "n"}
             THEN [lines |-> Append(s.lines, [line |-> s.last, end |-> <<c>>]), last |-> <<>>]
             ELSE [s EXCEPT !.last = Append(@, c)],
           [lines |-> <<>>, last |-> <<>>], text)

(* A blank line ends an event that says something.                         *)
Fold(kept, lines) ==
  FoldLeft(LAMBDA f, l :
             LET now == Append(f.held, l) IN
             IF l.line = <<>> /\ \E i \in 1..Len(f.held) : f.held[i].line # <<>>
             THEN [held |-> <<>>, events |-> Append(f.events, now)]
             ELSE [f EXCEPT !.held = now],
           [held |-> kept, events |-> <<>>], lines)

LeftOver(h) == IF h = <<>> THEN <<>> ELSE <<h>>

(* The events of a whole stream, the last line ended by the stream's end   *)
WrittenEvents(text) ==
  LET s == Split(text)
      f == Fold(<<>>, Append(s.lines, [line |-> s.last, end |-> <<>>]))
  IN  f.events \o LeftOver(f.held)

(* The bytes an event was read from                                        *)
Written(es) == FlattenSeq([i \in 1..Len(es) |->
                 FlattenSeq([j \in 1..Len(es[i]) |-> es[i][j].line \o es[i][j].end])])
-----------------------------------------------------------------------------
(* The lines that have ended: a carriage return that is the last to arrive *)
(* may yet be followed by a line feed.                                     *)
TakeLines(text) ==
  LET s == Split(text)
  IN  IF s.lines # <<>> /\ s.last = <<>> /\ Last(s.lines).end = <<"r">>
      THEN [lines |-> Front(s.lines), last |-> Last(s.lines).line \o <<"r">>]
      ELSE s

Push(n) ==
  LET d == Decode(decoder \o SubSeq(body, arrived + 1, arrived + n))
      t == TakeLines(rest \o d.text)
      f == Fold(held, t.lines)
  IN  /\ ended = "no" /\ n \in 1..(Len(body) - arrived)
      /\ IF d.utf8
         THEN /\ arrived' = arrived + n /\ decoder' = d.part
              /\ rest' = t.last /\ held' = f.held /\ events' = events \o f.events
              /\ UNCHANGED <<body, ended>>
         ELSE ended' = "unreadable" /\ UNCHANGED <<body, arrived, decoder, rest, held, events>>

Finish ==
  LET s == Split(rest)
      f == Fold(held, Append(s.lines, [line |-> s.last, end |-> <<>>]))
  IN  /\ ended = "no" /\ arrived = Len(body)
      /\ IF decoder = <<>>
         THEN /\ events' = events \o f.events \o LeftOver(f.held)
              /\ rest' = <<>> /\ held' = <<>> /\ ended' = "yes"
              /\ UNCHANGED <<body, arrived, decoder>>
         ELSE ended' = "unreadable" /\ UNCHANGED <<body, arrived, decoder, rest, held, events>>

Next == Finish \/ \E n \in 1..MaxBytes : Push(n)

Spec == Init /\ [][Next]_vars
-----------------------------------------------------------------------------
Whole == Decode(body)
Utf8 == Whole.utf8 /\ Whole.part = <<>>

(* However the bytes are split, the events are those of the whole stream;  *)
(* and what isn't UTF-8 is unreadable either way.                          *)
ReadsAsTheWhole ==
  /\ ended = "yes" => Utf8 /\ events = WrittenEvents(Whole.text)
  /\ ended = "unreadable" => ~Utf8

(* An event let go before the rest has arrived is one of the whole         *)
(* stream's, whatever comes after it.                                      *)
NoEventIsGuessed == Utf8 => IsPrefix(events, WrittenEvents(Whole.text))

(* Every character that arrived is in an event or still kept, in order:    *)
(* what is left unchanged goes out as it was written.                      *)
NothingIsLost ==
  ended # "unreadable" =>
    Written(events) \o Written(LeftOver(held)) \o rest = Decode(SubSeq(body, 1, arrived)).text

(* An event is let go once the line feed of its blank line has arrived.    *)
NotHeldLonger ==
  LET so_far == Decode(SubSeq(body, 1, arrived)).text
      s == Split(so_far)
  IN  ended = "no" /\ so_far # <<>> /\ Last(so_far) = "n" =>
        events = Fold(<<>>, s.lines).events
=============================================================================
