--------------------------- MODULE EnvoyShimProofs ---------------------------
(***************************************************************************)
(* That one exchange with Envoy is answered in order and settled once, for *)
(* replies of any length and whatever their streams release, however Envoy *)
(* and the sidecar stop.                                                   *)
(***************************************************************************)
EXTENDS EnvoyShim, SequenceTheorems, TLAPS

Messages ==
  [kind : {"request_headers", "request_body", "response_headers", "response_body",
           "response_trailers"},
   eos : BOOLEAN, status : {"routed", "unrouted", "ok", "error", "encoded"}]

Answers == Kinds \cup {"none"}
Outputs == Ends \cup {"release"}
Ways    == {"cut_off", "unreadable", "reply", "stream"}

PumpTyped ==
  /\ pump \in {"reading", "judging", "putting", "over"} /\ putting \in Seq(Answers)
  /\ queue \in Seq(Answers) /\ Len(queue) <= 1

SequencesTyped ==
  /\ inbox \in Seq(Messages) /\ got \in Seq(Kinds) /\ delivering \in Seq(Answers)
  /\ given \in Seq(Outputs) /\ taken \in Nat /\ taken <= Len(given)
  /\ settled \in Seq(Ways)
FlagsTyped ==
  /\ cancelled \in BOOLEAN /\ finished \in BOOLEAN /\ replied \in BOOLEAN
  /\ passing \in BOOLEAN /\ forwarded \in BOOLEAN /\ bodyEnded \in BOOLEAN
  /\ trailers \in BOOLEAN
PlacesTyped ==
  /\ envoy \in {"request_headers", "request_body", "bodyless", "sent", "body", "all"}
  /\ judgment \in {"none", "request", "bodyless", "reply", "error", "error_whole"}
  /\ delivery \in {"none", "ready", "putting", "over"}
  /\ stream \in {"none", "going", "over", "aborted"} /\ process \in {"on", "over"}
  /\ attempt \in {"none", "judging", "awaiting_reply", "not_judged", "over"}

RestTyped == SequencesTyped /\ FlagsTyped /\ PlacesTyped
Typed == PumpTyped /\ RestTyped

Elements(s) == {s[k] : k \in 1..Len(s)}

(* The answers Envoy has, is to be handed next, and those being put in the *)
(* queue; "none" is not one.                                               *)
Gone       == Elements(got)
Queued     == Elements(queue) \ {"none"}
Putting    == Elements(putting) \ {"none"}
Delivering == Elements(delivering) \ {"none"}
All        == Gone \cup Queued \cup Putting \cup Delivering

Unread(kind) == \E k \in 1..Len(inbox) : inbox[k].kind = kind
Judging(kinds) == pump = "judging" /\ judgment \in kinds

OfReply == {"reply", "error", "error_whole"}
Over == {"end", "response_trailers", "immediate"}
Heads == {"request_headers", "request_body", "response_headers"}

(* a may be answered before b.                                             *)
Before(a, b) ==
  /\ Order(a) < Order(b) \/ (a = "part" /\ b = "part")
  /\ b = "immediate" => a # "part"
AllBefore(S, T) == \A a \in S, b \in T : Before(a, b)

(* Messages are read in the order Envoy sends them.                        *)
InboxAgrees ==
  /\ envoy = "request_headers" => inbox = <<>>
  /\ \A k \in 1..Len(inbox) :
       /\ inbox[k].kind = "request_headers" =>
            Len(inbox) = 1 /\ envoy = IF inbox[k].eos THEN "bodyless" ELSE "request_body"
       /\ inbox[k].kind = "request_body" => Len(inbox) = 1 /\ envoy = "sent"
       /\ inbox[k].kind = "response_headers" => k = 1
       /\ inbox[k].kind \notin {"request_headers", "request_body"} => envoy \in {"body", "all"}
       /\ inbox[k].kind = "response_trailers" => inbox[k].eos

(* What the pump judges, and what it has in hand: one answer, and the end. *)
PumpAgrees ==
  /\ pump = "putting" <=> putting # <<>> /\ pump # "over"
  /\ \A k \in 2..Len(putting) : putting[k] = "none"
  /\ pump = "judging" => judgment # "none" /\ stream = "none"
  /\ pump = "judging" => \A kind \in Heads : ~Unread(kind)
  /\ judgment # "none" => pump = "judging"
  /\ Judging({"request"}) => envoy = "sent"
  /\ Judging({"bodyless"}) => envoy = "bodyless"
  /\ Judging(OfReply) => envoy \in {"body", "all"}
  /\ stream = "none" /\ pump \in {"reading", "judging"} => "none" \notin Elements(queue)
  /\ Len(putting) > 1 => finished

(* What can have been answered by the time of each message.                *)
StagesAgree ==
  /\ envoy = "request_headers" \/ Unread("request_headers") \/ Judging({"bodyless"}) => All = {}
  /\ envoy \in {"request_body", "bodyless"} => All \in {{}, {"request_headers"}, {"immediate"}}
  /\ Unread("request_body") \/ Judging({"request"}) => All = {"request_headers"}
  /\ envoy = "sent" =>
       All \in {{"request_headers"}, {"request_headers", "request_body"},
                {"request_headers", "immediate"}}
  /\ Unread("response_headers") \/ Judging(OfReply) => All \subseteq {"request_headers", "request_body"}
  /\ Unread("response_headers") => Queued = {} /\ Putting = {}
  /\ ~finished => All \cap Over = {}

(* A reply has a stream once its headers were read, and the pump then has  *)
(* nothing but the end to put.                                             *)
DeliveryAgrees ==
  /\ stream = "none" => delivery = "none"
  /\ stream # "none" =>
       Putting = {} /\ envoy \in {"body", "all"} /\ ~Unread("response_headers") /\ replied
  /\ delivery \in {"none", "ready"} => delivering = <<>>
  /\ delivery = "ready" => ~finished
  /\ delivery = "putting" => delivering # <<>> /\ (finished \/ delivering = <<"part">>)
  /\ \A i, j \in 1..Len(delivering) : i < j =>
       delivering[i] # "none" /\ (delivering[j] = "none" \/ Before(delivering[i], delivering[j]))
  /\ \A k \in 1..Len(given) : given[k] = "refuse" => k = 1
  /\ stream # "none" /\ taken = 0 => "part" \notin All

LineInOrder ==
  AllBefore(Gone, Queued) /\ AllBefore(Gone \cup Queued, Putting \cup Delivering)

(* The handler was told once the exchange has begun with the reply, or was *)
(* closed: then nothing more is read.                                      *)
RepliedAgrees ==
  replied /\ pump # "over" /\ "none" \notin Elements(putting) =>
    envoy \in {"body", "all"} /\ ~Unread("response_headers")

Exchanging ==
  InboxAgrees /\ PumpAgrees /\ StagesAgree /\ DeliveryAgrees /\ LineInOrder /\ RepliedAgrees

SettledAgrees ==
  /\ Len(settled) = IF replied THEN 1 ELSE 0
  /\ process = "over" /\ forwarded => replied

ExchangeInv ==
  /\ Typed /\ AnswersInOrder /\ SettledAgrees /\ NothingIsLeftDelivering
  /\ process = "over" => pump = "over"
  /\ process = "on" => Exchanging
-----------------------------------------------------------------------------
LEMMA OrderIs ==
  /\ Order("request_headers") = 1 /\ Order("request_body") = 2 /\ Order("response_headers") = 3
  /\ Order("part") = 4 /\ Order("end") = 5 /\ Order("response_trailers") = 5
  /\ Order("immediate") = 5
BY DEF Order

(* What may be answered after what: all but the end after what comes first *)
(* in the exchange, and the end after anything but the end.                *)
LEMMA WhatComesBefore ==
  /\ \A b \in Kinds \ {"request_headers"} : Before("request_headers", b)
  /\ \A b \in Kinds \ {"request_headers", "request_body"} : Before("request_body", b)
  /\ \A a \in Kinds \ Over : a # "part" => Before(a, "immediate")
  /\ \A a \in Kinds \ Over : Before(a, "part") /\ Before(a, "end") /\ Before(a, "response_trailers")
  /\ \A a \in Kinds : Before(a, a) => a = "part"
BY OrderIs DEF Before, Kinds, Over

LEMMA ElementsEmpty == Elements(<<>>) = {}
BY DEF Elements

LEMMA ElementsAppend ==
  ASSUME NEW S, NEW s \in Seq(S), NEW x \in S
  PROVE  Elements(Append(s, x)) = Elements(s) \cup {x} /\ Append(s, x) # <<>>
<1>1. /\ Len(Append(s, x)) = Len(s) + 1 /\ Append(s, x)[Len(s) + 1] = x
      /\ \A k \in 1..Len(s) : Append(s, x)[k] = s[k]
      /\ Len(s) \in Nat
  OBVIOUS
<1>2. \A k \in 1..(Len(s) + 1) : k \in 1..Len(s) \/ k = Len(s) + 1
  BY <1>1
<1>3. Len(s) + 1 \in 1..(Len(s) + 1) /\ 1..Len(s) \subseteq 1..(Len(s) + 1)
  BY <1>1
<1>4. Append(s, x) # <<>>
  BY <1>1
<1> QED
  BY <1>1, <1>2, <1>3, <1>4 DEF Elements

LEMMA AppendTyped == \A S : \A s \in Seq(S), x \in S : Append(s, x) \in Seq(S) /\ Len(Append(s, x)) = Len(s) + 1
OBVIOUS

LEMMA ElementsTail ==
  ASSUME NEW S, NEW s \in Seq(S), s # <<>>
  PROVE  /\ Elements(s) = {Head(s)} \cup Elements(Tail(s)) /\ Head(s) = s[1] /\ Head(s) \in S
         /\ Tail(s) \in Seq(S) /\ Len(Tail(s)) = Len(s) - 1 /\ Len(s) >= 1
         /\ \A k \in 1..Len(Tail(s)) : Tail(s)[k] = s[k + 1] /\ k + 1 \in 2..Len(s)
<1>1. /\ Tail(s) \in Seq(S) /\ Len(Tail(s)) = Len(s) - 1 /\ Head(s) = s[1] /\ Head(s) \in S
      /\ \A k \in 1..Len(Tail(s)) : Tail(s)[k] = s[k + 1]
      /\ Len(s) \in Nat /\ Len(s) >= 1
  OBVIOUS
<1>2. \A k \in 1..Len(s) : k = 1 \/ (k - 1 \in 1..Len(Tail(s)) /\ (k - 1) + 1 = k)
  BY <1>1
<1>3. \A k \in 1..Len(Tail(s)) : k + 1 \in 1..Len(s) /\ k + 1 \in 2..Len(s)
  BY <1>1
<1>4. 1 \in 1..Len(s)
  BY <1>1
<1>5. ASSUME NEW x PROVE x \in Elements(s) <=> x \in {Head(s)} \cup Elements(Tail(s))
  BY <1>1, <1>2, <1>3, <1>4 DEF Elements
<1> QED
  BY <1>1, <1>3, <1>5

LEMMA ElementsOfOne ==
  /\ \A x : Elements(<<x>>) = {x}
  /\ \A x, y : Elements(<<x, y>>) = {x, y}
<1> SUFFICES ASSUME NEW x, NEW y
             PROVE  Elements(<<x>>) = {x} /\ Elements(<<x, y>>) = {x, y}
  OBVIOUS
<1>1. Len(<<x>>) = 1 /\ <<x>>[1] = x /\ Len(<<x, y>>) = 2 /\ <<x, y>>[1] = x /\ <<x, y>>[2] = y
  OBVIOUS
<1>2. 1..1 = {1} /\ 1..2 = {1, 2}
  OBVIOUS
<1> QED
  BY <1>1, <1>2 DEF Elements

LEMMA AppendToOne ==
  ASSUME NEW x, NEW y
  PROVE  Append(<<x>>, y) = <<x, y>>
<1> DEFINE s == Append(<<x>>, y)
           u == <<x, y>>
<1>1. s \in Seq({x, y}) /\ u \in Seq({x, y}) /\ Len(s) = 2 /\ Len(u) = 2
  OBVIOUS
<1>2. s[1] = u[1] /\ s[2] = u[2]
  OBVIOUS
<1>3. \A k \in 1..2 : k = 1 \/ k = 2
  OBVIOUS
<1> HIDE DEF s, u
<1>4. \A k \in 1..Len(s) : s[k] = u[k]
  BY <1>1, <1>2, <1>3
<1>5. s = u
  BY <1>1, <1>4, SeqEqual
<1> QED
  BY <1>5 DEF s, u

LEMMA AppendToTwo ==
  ASSUME NEW x, NEW y, NEW z
  PROVE  Append(<<x, y>>, z) = <<x, y, z>>
<1> DEFINE s == Append(<<x, y>>, z)
           u == <<x, y, z>>
<1>1. s \in Seq({x, y, z}) /\ u \in Seq({x, y, z}) /\ Len(s) = 3 /\ Len(u) = 3
  OBVIOUS
<1>2. s[1] = u[1] /\ s[2] = u[2] /\ s[3] = u[3]
  OBVIOUS
<1>3. \A k \in 1..3 : k = 1 \/ k = 2 \/ k = 3
  OBVIOUS
<1> HIDE DEF s, u
<1>4. \A k \in 1..Len(s) : s[k] = u[k]
  BY <1>1, <1>2, <1>3
<1>5. s = u
  BY <1>1, <1>4, SeqEqual
<1> QED
  BY <1>5 DEF s, u

LEMMA ElementsAre == \A S : \A s \in Seq(S) : Elements(s) \subseteq S
BY DEF Elements

LEMMA ElementsTyped ==
  ASSUME Typed
  PROVE  /\ Gone \subseteq Kinds /\ Queued \subseteq Kinds /\ Putting \subseteq Kinds
         /\ Delivering \subseteq Kinds /\ All \subseteq Kinds /\ "none" \notin Kinds
         /\ \A kind : kind \in Gone <=> Answered(kind)
<1>1. /\ Gone \subseteq Kinds /\ Elements(queue) \subseteq Answers
      /\ Elements(putting) \subseteq Answers /\ Elements(delivering) \subseteq Answers
  BY ElementsAre DEF Typed, PumpTyped, RestTyped, SequencesTyped, Gone
<1>2. "none" \notin Kinds
  BY DEF Kinds
<1>3. \A kind : kind \in Gone <=> Answered(kind)
  BY DEF Gone, Elements, Answered
<1> QED
  BY <1>1, <1>2, <1>3 DEF Answers, Queued, Putting, Delivering, All

(* The queue has room for one.                                             *)
LEMMA RoomIsEmpty ==
  ASSUME Typed
  PROVE  /\ HasRoom(queue) <=> queue = <<>>
         /\ \A x \in Answers : Append(<<>>, x) = <<x>>
BY DEF Typed, PumpTyped, HasRoom

(* What the pump does with an answer, if any, and the end once it is over. *)
PutsIn(X, E) ==
  /\ \/ queue' = queue /\ Queued' = Queued /\ Putting' = X
     \/ queue = <<>> /\ Queued = {} /\ Queued' = X /\ Putting' = {}
  /\ queue = <<>> => Putting' = {}
  /\ putting' \in Seq(Answers) /\ queue' \in Seq(Answers) /\ Len(queue') <= 1
  /\ pump' \in {"reading", "putting", "over"} /\ (pump' = "putting" <=> putting' # <<>>)
  /\ \A k \in 2..Len(putting') : putting'[k] = "none"
  /\ "none" \in E => pump' = "over" \/ "none" \in Elements(putting')
  /\ Len(putting') > 1 => "none" \in E /\ X # {}
  /\ pump' = "reading" => "none" \notin E /\ ("none" \in Elements(queue') => "none" \in Elements(queue))

LEMMA PutItemsPutsIn ==
  ASSUME Typed, NEW items, NEW over \in BOOLEAN, NEW ws, PutItems(items, over, ws),
         NEW x \in Kinds, NEW X, NEW E,
         \/ ~over /\ E = {} /\ X = {} /\ items = <<>>
         \/ ~over /\ E = {} /\ X = {x} /\ items = <<x>>
         \/ over /\ E = {"none"} /\ X = {} /\ items = <<"none">>
         \/ over /\ E = {"none"} /\ X = {x} /\ items = <<x, "none">>
  PROVE  PutsIn(X, E)
<1>0. "none" \notin Kinds /\ queue \in Seq(Answers) /\ Len(queue) <= 1 /\ (HasRoom(queue) <=> queue = <<>>)
  BY RoomIsEmpty, ElementsTyped DEF Typed, PumpTyped
<1>1. /\ items \in Seq(Answers) /\ <<"none">> \in Seq(Answers) /\ <<>> \in Seq(Answers)
      /\ Elements(items) \ {"none"} = X
      /\ (over <=> "none" \in Elements(items)) /\ (over <=> "none" \in E) /\ \A k \in 2..Len(items) : items[k] = "none"
      /\ Len(items) <= 2 /\ (Len(items) > 1 => over /\ X # {})
  <2>0. "none" \in Answers /\ x \in Answers /\ x # "none" /\ <<"none">> \in Seq(Answers) /\ <<>> \in Seq(Answers)
    BY <1>0 DEF Answers
  <2>1. ASSUME items = <<>>
        PROVE  /\ items \in Seq(Answers) /\ Elements(items) = {} /\ Len(items) = 0
               /\ \A k \in 2..Len(items) : items[k] = "none"
    BY <2>1, ElementsEmpty
  <2>2. ASSUME NEW y \in Answers, items = <<y>>
        PROVE  /\ items \in Seq(Answers) /\ Elements(items) = {y} /\ Len(items) = 1
               /\ \A k \in 2..Len(items) : items[k] = "none"
    BY <2>2, ElementsOfOne
  <2>3. ASSUME items = <<x, "none">>
        PROVE  /\ items \in Seq(Answers) /\ Elements(items) = {x, "none"} /\ Len(items) = 2
               /\ \A k \in 2..Len(items) : items[k] = "none"
    <3>1. Len(items) = 2 /\ items[2] = "none" /\ items \in Seq(Answers)
      BY <2>0, <2>3
    <3>2. \A k \in 2..2 : k = 2
      OBVIOUS
    <3> QED
      BY <2>3, <3>1, <3>2, ElementsOfOne
  <2>4. CASE items = <<>> /\ ~over /\ E = {} /\ X = {}
    BY <2>0, <2>1, <2>4
  <2>5. CASE items = <<x>> /\ ~over /\ E = {} /\ X = {x}
    BY <2>0, <2>2, <2>5
  <2>6. CASE items = <<"none">> /\ over /\ E = {"none"} /\ X = {}
    BY <2>0, <2>2, <2>6
  <2>7. CASE items = <<x, "none">> /\ over /\ E = {"none"} /\ X = {x}
    BY <2>0, <2>3, <2>7
  <2> QED
    BY <2>4, <2>5, <2>6, <2>7
<1>2. CASE items = <<>>
  <2>1. putting' = <<>> /\ queue' = queue /\ pump' = "reading" /\ X = {} /\ ~over
    BY <1>2, <1>1, ElementsEmpty DEF PutItems, PumpGoesOn
  <2>2. Putting' = {} /\ Queued' = Queued
    BY <2>1, ElementsEmpty DEF Putting, Queued
  <2>3. \A k \in 2..Len(putting') : FALSE
    BY <2>1
  <2> QED
    BY <1>0, <1>1, <2>1, <2>2, <2>3 DEF PutsIn
<1>3. CASE items # <<>> /\ ~HasRoom(queue)
  <2>1. putting' = items /\ queue' = queue /\ pump' = "putting" /\ queue # <<>>
    BY <1>0, <1>3 DEF PutItems, PumpGoesOn
  <2>2. Putting' = X /\ Queued' = Queued
    BY <1>1, <2>1 DEF Putting, Queued
  <2> QED
    BY <1>0, <1>1, <1>3, <2>1, <2>2 DEF PutsIn
<1>4. CASE items # <<>> /\ HasRoom(queue)
  <2> DEFINE rest == Tail(items)
  <2>1. /\ putting' = rest /\ queue' = Append(queue, Head(items))
        /\ pump' = IF rest # <<>> THEN "putting" ELSE IF over THEN "over" ELSE "reading"
    BY <1>4 DEF PutItems, PumpGoesOn
  <2>2. /\ Elements(items) = {Head(items)} \cup Elements(rest) /\ Head(items) \in Answers
        /\ rest \in Seq(Answers) /\ Len(rest) = Len(items) - 1
        /\ \A k \in 1..Len(rest) : rest[k] = items[k + 1] /\ k + 1 \in 2..Len(items)
    BY <1>1, <1>4, ElementsTail
  <2>3. queue' = <<Head(items)>> /\ queue = <<>> /\ Len(queue') <= 1 /\ queue' \in Seq(Answers)
    BY <1>0, <1>4, <2>1, <2>2, RoomIsEmpty
  <2>4. \A k \in 1..Len(rest) : rest[k] = "none"
    BY <1>1, <2>2
  <2>5. Elements(rest) \subseteq {"none"} /\ Putting' = {}
    BY <2>1, <2>4 DEF Putting, Elements
  <2>6. Queued = {} /\ Queued' = {Head(items)} \ {"none"}
    BY <2>3, ElementsEmpty, ElementsOfOne DEF Queued
  <2>7. Queued' = X
    BY <1>1, <2>2, <2>5, <2>6
  <2>8. Elements(queue') = {Head(items)}
    BY <2>3, ElementsOfOne
  <2>9. \A k \in 2..Len(putting') : putting'[k] = "none"
    <3>1. rest \in Seq(Answers) /\ \A k \in 2..Len(rest) : k \in 1..Len(rest)
      BY <2>2
    <3> QED
      BY <2>1, <2>4, <3>1
  <2>10. over /\ pump' # "over" => "none" \in Elements(rest)
    <3>1. ASSUME rest # <<>> PROVE "none" \in Elements(rest)
      <4>1. 1 \in 1..Len(rest)
        BY <2>2, <3>1
      <4> QED
        BY <2>4, <4>1 DEF Elements
    <3> QED
      BY <2>1, <3>1
  <2>11. pump' = "reading" => ~over /\ rest = <<>>
    BY <2>1
  <2>12. ~over => "none" \notin Elements(queue')
    BY <1>1, <2>2, <2>8
  <2>14. ~(Len(putting') > 1)
    BY <1>1, <2>1, <2>2
  <2> HIDE DEF rest
  <2>13. pump' \in {"reading", "putting", "over"} /\ (pump' = "putting" <=> putting' # <<>>)
    BY <2>1
  <2> QED
    BY <2>1, <2>2, <2>3, <2>5, <2>6, <2>7, <2>9, <2>10, <2>11, <2>12, <2>13, <2>14 DEF PutsIn
<1> QED
  BY <1>2, <1>3, <1>4

(* What is read is the first of the messages, and the only one of the      *)
(* headers or of the request's body that can be unread.                    *)
LEMMA ReadInOrder ==
  ASSUME Typed, InboxAgrees, inbox # <<>>, inbox' = Tail(inbox), envoy' = envoy
  PROVE  /\ InboxAgrees' /\ Head(inbox) \in Messages /\ inbox' \in Seq(Messages)
         /\ Unread(Head(inbox).kind)
         /\ \A kind \in Heads : ~Unread(kind)'
         /\ Head(inbox).kind = "request_headers" =>
              envoy = IF Head(inbox).eos THEN "bodyless" ELSE "request_body"
         /\ Head(inbox).kind = "request_body" => envoy = "sent"
         /\ Head(inbox).kind = "response_trailers" => Head(inbox).eos
         /\ Head(inbox).kind \notin {"request_headers", "request_body"} => envoy \in {"body", "all"}
<1>1. /\ inbox \in Seq(Messages) /\ inbox' \in Seq(Messages) /\ Head(inbox) = inbox[1]
      /\ Head(inbox) \in Messages /\ 1 \in 1..Len(inbox) /\ Len(inbox') = Len(inbox) - 1
      /\ \A k \in 1..Len(inbox') : inbox'[k] = inbox[k + 1] /\ k + 1 \in 1..Len(inbox) /\ k + 1 # 1
                                   /\ Len(inbox) # 1
  <2>1. inbox \in Seq(Messages)
    BY DEF Typed, RestTyped, SequencesTyped
  <2>2. /\ inbox' \in Seq(Messages) /\ Head(inbox) = inbox[1] /\ Head(inbox) \in Messages
        /\ Len(inbox') = Len(inbox) - 1 /\ Len(inbox) >= 1
        /\ \A k \in 1..Len(inbox') : inbox'[k] = inbox[k + 1] /\ k + 1 \in 2..Len(inbox)
    BY <2>1, ElementsTail
  <2>3. Len(inbox) \in Nat
    BY <2>1
  <2>4. \A k \in 1..Len(inbox') : k + 1 \in 1..Len(inbox) /\ k + 1 # 1 /\ Len(inbox) # 1
    BY <2>2, <2>3
  <2> QED
    BY <2>1, <2>2, <2>3, <2>4
<1>2. \A k \in 1..Len(inbox) :
        /\ inbox[k].kind = "request_headers" =>
             Len(inbox) = 1 /\ envoy = IF inbox[k].eos THEN "bodyless" ELSE "request_body"
        /\ inbox[k].kind = "request_body" => Len(inbox) = 1 /\ envoy = "sent"
        /\ inbox[k].kind = "response_headers" => k = 1
        /\ inbox[k].kind \notin {"request_headers", "request_body"} => envoy \in {"body", "all"}
        /\ inbox[k].kind = "response_trailers" => inbox[k].eos
  BY DEF InboxAgrees
<1>3. \A k \in 1..Len(inbox') : inbox'[k].kind \notin {"request_headers", "request_body", "response_headers"}
  BY <1>1, <1>2
<1>4. envoy # "request_headers"
  BY DEF InboxAgrees
<1>5. InboxAgrees'
  BY <1>1, <1>2, <1>3, <1>4 DEF InboxAgrees
<1>6. Unread(Head(inbox).kind)
  BY <1>1 DEF Unread
<1>7. \A kind \in Heads : ~Unread(kind)'
  BY <1>3 DEF Unread, Heads
<1> QED
  BY <1>1, <1>2, <1>5, <1>6, <1>7

-----------------------------------------------------------------------------
(* The pump goes on reading, once it has put an answer that may come next. *)
Went(X, E) ==
  /\ PumpAgrees' /\ LineInOrder' /\ All' = All \cup X /\ pump' # "judging"
  /\ Putting' \subseteq X /\ (queue = <<>> => Putting' = {})
  /\ "none" \in E => pump' = "over" \/ "none" \in Elements(putting)'

LEMMA PumpAnswers ==
  ASSUME Typed, Exchanging, pump \in {"reading", "judging"}, NEW X, NEW E,
         PutsIn(X, E), UNCHANGED <<got, delivering>>, judgment' = "none", AllBefore(All, X),
         X = {} \/ stream = "none", stream' = "none" => stream = "none",
         "none" \in E /\ X # {} => finished'
  PROVE  Went(X, E)
<1>1. PumpAgrees /\ LineInOrder /\ DeliveryAgrees
  BY DEF Exchanging
<1>2. putting = <<>> /\ Putting = {}
  BY <1>1, ElementsEmpty DEF PumpAgrees, Putting
<1>3. Gone' = Gone /\ Delivering' = Delivering
  BY DEF Gone, Delivering, Elements
<1>4. X = {} \/ Delivering = {}
  BY <1>1, ElementsEmpty DEF DeliveryAgrees, Delivering
<1>5. \/ Queued' = Queued /\ Putting' = X
      \/ Queued = {} /\ Queued' = X /\ Putting' = {}
  BY DEF PutsIn
<1>6. All' = All \cup X
  BY <1>2, <1>3, <1>5 DEF All
<1>7. LineInOrder'
  <2>1. AllBefore(Gone, Queued) /\ AllBefore(Gone \cup Queued, Delivering)
    BY <1>1 DEF LineInOrder, AllBefore
  <2>2. AllBefore(Gone \cup Queued, X) /\ AllBefore(X, Delivering)
    BY <1>4 DEF AllBefore, All
  <2>3. AllBefore(Gone', Queued') /\ AllBefore(Gone' \cup Queued', Putting' \cup Delivering')
    BY <1>3, <1>4, <1>5, <2>1, <2>2 DEF AllBefore
  <2> QED
    BY <2>3 DEF LineInOrder, AllBefore, Before
<1>8. PumpAgrees'
  <2>1. pump' # "judging" /\ (pump' = "putting" <=> putting' # <<>> /\ pump' # "over")
        /\ (\A k \in 2..Len(putting') : putting'[k] = "none")
        /\ (Len(putting') > 1 => finished')
    BY DEF PutsIn
  <2>2. stream' = "none" /\ pump' \in {"reading", "judging"} => "none" \notin Elements(queue')
    BY <1>1, <2>1 DEF PutsIn, PumpAgrees
  <2>3. Elements(queue') = Elements(queue)'
    BY DEF Elements
  <2> QED
    BY <2>1, <2>2, <2>3 DEF PumpAgrees, Judging
<1>9. Putting' \subseteq X /\ (queue = <<>> => Putting' = {}) /\ pump' # "judging"
  BY <1>5 DEF PutsIn
<1>10. "none" \in E => pump' = "over" \/ "none" \in Elements(putting)'
  BY DEF PutsIn, Elements
<1> QED
  BY <1>6, <1>7, <1>8, <1>9, <1>10 DEF Went

LEMMA PutsInTyped == \A X, E : PutsIn(X, E) => PumpTyped'
<1> SUFFICES ASSUME NEW X, NEW E, PutsIn(X, E) PROVE PumpTyped'
  OBVIOUS
<1>1. pump' \in {"reading", "judging", "putting", "over"}
  BY DEF PutsIn
<1>2. putting' \in Seq(Answers) /\ queue' \in Seq(Answers) /\ Len(queue') <= 1
  BY DEF PutsIn
<1> QED
  BY <1>1, <1>2 DEF PumpTyped

(* What else than the pump's answers changes is of its type.               *)
LEMMA FlagsStayTyped ==
  ASSUME FlagsTyped, SequencesTyped, [Next]_vars
  PROVE  FlagsTyped'
<1>0. inbox # <<>> => Head(inbox) \in Messages
  BY DEF SequencesTyped
<1>1. CASE UNCHANGED vars
  BY <1>1 DEF FlagsTyped, vars, envoyVars, flags
<1>2. CASE Envoys
  BY <1>2 DEF FlagsTyped, Envoys, EnvoySends, Sends, EnvoyHalfCloses, EnvoyCancels, shim, flags
<1>3. CASE Read
  BY <1>0, <1>3 DEF FlagsTyped, Read, OnFinished, OnRequestHeaders, OnRequestBody, OnResponseHeaders,
     OnResponseBody, Messages, envoyVars, flags
<1>4. CASE RequestJudged \/ ReplyJudged
  BY <1>4 DEF FlagsTyped, RequestJudged, ReplyJudged, envoyVars
<1>5. CASE PumpPuts \/ ClosesAndEnds \/ Ended \/ EndOfMessages \/ ReadFails
  BY <1>5 DEF FlagsTyped, PumpPuts, ClosesAndEnds, Ended, EndOfMessages, ReadFails, Close, envoyVars, flags
<1>6. CASE Takes
  <2>1. /\ finished' = (finished \/ given[taken + 1] # "release")
        /\ UNCHANGED <<cancelled, replied, passing, forwarded, bodyEnded, trailers>>
    BY <1>6, Zenon DEF Takes, envoyVars
  <2> QED
    BY <2>1 DEF FlagsTyped
<1>7. CASE DeliveryPuts \/ Yields \/ AbortedEnds \/ \E kind \in Ends \cup {"release"} : Gives(kind)
  BY <1>7 DEF FlagsTyped, DeliveryPuts, Yields, AbortedEnds, Gives, envoyVars, flags
<1> QED
  BY <1>1, <1>2, <1>3, <1>4, <1>5, <1>6, <1>7 DEF Next, Pump, Delivery

LEMMA PlacesStayTyped ==
  ASSUME PlacesTyped, [Next]_vars
  PROVE  PlacesTyped'
<1>1. CASE UNCHANGED vars
  BY <1>1 DEF PlacesTyped, vars, envoyVars, reply
<1>2. CASE Envoys
  BY <1>2 DEF PlacesTyped, Envoys, EnvoySends, Sends, EnvoyHalfCloses, EnvoyCancels, shim, reply
<1>3. CASE Read
  BY <1>3 DEF PlacesTyped, Read, OnFinished, OnRequestHeaders, OnRequestBody, OnResponseHeaders,
     OnResponseBody, envoyVars, reply
<1>4. CASE RequestJudged \/ ReplyJudged
  BY <1>4 DEF PlacesTyped, RequestJudged, ReplyJudged, envoyVars, reply
<1>5. CASE PumpPuts \/ ClosesAndEnds \/ Ended \/ EndOfMessages \/ ReadFails
  BY <1>5 DEF PlacesTyped, PumpPuts, ClosesAndEnds, Ended, EndOfMessages, ReadFails, Close, envoyVars, reply
<1>6. CASE Takes
  <2>1. /\ delivery' \in {"putting", "over", "ready"}
        /\ UNCHANGED <<envoy, judgment, stream, process, attempt>>
    BY <1>6, Zenon DEF Takes, DeliveryPutItems, envoyVars
  <2> QED
    BY <2>1 DEF PlacesTyped
<1>7. CASE DeliveryPuts
  BY <1>7 DEF PlacesTyped, DeliveryPuts, DeliveryPutItems, envoyVars
<1>8. CASE Yields \/ AbortedEnds \/ \E kind \in Ends \cup {"release"} : Gives(kind)
  BY <1>8 DEF PlacesTyped, Yields, AbortedEnds, Gives, envoyVars, reply
<1> QED
  BY <1>1, <1>2, <1>3, <1>4, <1>5, <1>6, <1>7, <1>8 DEF Next, Pump, Delivery

(* What the delivery answers an output with, and the end after the last.   *)
AnswersTo(kind) == IF kind = "release" THEN <<"part">> ELSE Append(LastAnswers(kind), "none")

LEMMA AnswersToAre ==
  ASSUME NEW kind
  PROVE  \/ kind = "release" /\ AnswersTo(kind) = <<"part">>
         \/ kind = "refuse" /\ AnswersTo(kind) = <<"immediate", "none">>
         \/ kind \notin {"release", "refuse"} /\ AnswersTo(kind) = <<"part", "response_trailers", "none">>
         \/ kind \notin {"release", "refuse"} /\ AnswersTo(kind) = <<"end", "none">>
<1>1. CASE kind = "release"
  BY <1>1 DEF AnswersTo
<1>2. CASE kind = "refuse"
  BY <1>2, AppendToOne DEF AnswersTo, LastAnswers
<1>3. CASE kind \notin {"release", "refuse"} /\ trailers
  BY <1>3, AppendToTwo DEF AnswersTo, LastAnswers
<1>4. CASE kind \notin {"release", "refuse"} /\ ~trailers
  BY <1>4, AppendToOne DEF AnswersTo, LastAnswers
<1> QED
  BY <1>1, <1>2, <1>3, <1>4

LEMMA SequencesStayTyped ==
  ASSUME EnvoyAssumption, Typed, delivery = "putting" => delivering # <<>>, [Next]_vars
  PROVE  SequencesTyped'
<1>0. PumpTyped /\ SequencesTyped
  BY DEF Typed, RestTyped
<1>1. ASSUME UNCHANGED <<inbox, got, delivering, given, taken, settled>>
      PROVE  SequencesTyped'
  BY <1>0, <1>1 DEF SequencesTyped
<1>2. CASE UNCHANGED vars
  BY <1>1, <1>2 DEF vars, reply
<1>3. CASE EnvoyHalfCloses \/ EnvoyCancels
  BY <1>1, <1>3 DEF EnvoyHalfCloses, EnvoyCancels, shim, reply
<1>4. CASE EnvoySends
  <2>1. (\E m \in Messages : inbox' = Append(inbox, m)) /\ UNCHANGED shim
    <3>1. Statuses \subseteq {"ok", "error", "encoded"}
      BY DEF EnvoyAssumption
    <3> QED
      BY <1>4, <3>1 DEF EnvoySends, Sends, Msg, Messages
  <2>2. inbox' \in Seq(Messages)
    BY <1>0, <2>1 DEF SequencesTyped
  <2> QED
    BY <1>0, <2>1, <2>2 DEF SequencesTyped, shim, reply
<1>5. CASE Read
  <2>1. inbox' \in Seq(Messages)
    BY <1>0, <1>5, ElementsTail DEF Read, SequencesTyped
  <2>2. /\ UNCHANGED <<got, delivering, given, taken>>
        /\ settled' = settled \/ \E x \in {"unreadable", "reply", "stream"} : settled' = Append(settled, x)
    BY <1>5 DEF Read, OnFinished, OnRequestHeaders, OnRequestBody, OnResponseHeaders, OnResponseBody, reply
  <2>3. settled \in Seq(Ways) /\ {"unreadable", "reply", "stream"} \subseteq Ways
    BY <1>0 DEF SequencesTyped, Ways
  <2>4. settled' \in Seq(Ways)
    BY <2>2, <2>3, AppendTyped
  <2> QED
    BY <1>0, <2>1, <2>2, <2>4 DEF SequencesTyped
<1>6. CASE RequestJudged \/ ReplyJudged
  BY <1>1, <1>6 DEF RequestJudged, ReplyJudged, reply
<1>7. CASE PumpPuts
  BY <1>1, <1>7 DEF PumpPuts, reply
<1>8. ASSUME Close, UNCHANGED <<inbox, got, delivering, given, taken>>
      PROVE  SequencesTyped'
  <2>1. settled' = settled \/ settled' = Append(settled, "cut_off")
    BY <1>8 DEF Close
  <2>2. settled \in Seq(Ways) /\ "cut_off" \in Ways
    BY <1>0 DEF SequencesTyped, Ways
  <2>3. settled' \in Seq(Ways)
    BY <2>1, <2>2, AppendTyped
  <2> QED
    BY <1>0, <1>8, <2>3 DEF SequencesTyped
<1>9. CASE ClosesAndEnds \/ Ended
  BY <1>8, <1>9 DEF ClosesAndEnds, Ended
<1>10. CASE EndOfMessages \/ ReadFails
  BY <1>1, <1>9, <1>10 DEF EndOfMessages, ReadFails, reply
<1>11. ASSUME NEW kind \in Outputs, Gives(kind)
       PROVE  SequencesTyped'
  <2>1. given' = Append(given, kind) /\ UNCHANGED <<inbox, got, delivering, taken, settled>>
    BY <1>11 DEF Gives
  <2>2. given \in Seq(Outputs) /\ taken \in Nat /\ taken <= Len(given) /\ Len(given) \in Nat
    BY <1>0 DEF SequencesTyped
  <2>3. given' \in Seq(Outputs) /\ Len(given') = Len(given) + 1
    BY <2>1, <2>2, AppendTyped
  <2> QED
    BY <1>0, <2>1, <2>2, <2>3 DEF SequencesTyped
<1>12. CASE AbortedEnds
  BY <1>1, <1>12 DEF AbortedEnds, reply
<1>13. CASE Takes
  <2> DEFINE items == AnswersTo(given[taken + 1])
  <2>1. items \in Seq(Answers) /\ items # <<>>
    <3>1. items \in {<<"part">>, <<"immediate", "none">>, <<"part", "response_trailers", "none">>,
                     <<"end", "none">>}
      BY AnswersToAre, Zenon
    <3> HIDE DEF items
    <3>2. "part" \in Answers /\ "none" \in Answers /\ "immediate" \in Answers /\ "end" \in Answers
          /\ "response_trailers" \in Answers
      BY DEF Answers, Kinds
    <3>3. /\ <<"part">> \in Seq(Answers) /\ <<"part">> # <<>>
          /\ <<"immediate", "none">> \in Seq(Answers) /\ <<"immediate", "none">> # <<>>
      BY <3>2
    <3>4. /\ <<"part", "response_trailers", "none">> \in Seq(Answers)
          /\ <<"part", "response_trailers", "none">> # <<>>
          /\ <<"end", "none">> \in Seq(Answers) /\ <<"end", "none">> # <<>>
      BY <3>2
    <3> QED
      BY <3>1, <3>3, <3>4, Zenon
  <2>2. /\ taken' = taken + 1 /\ taken < Len(given) /\ delivering' \in {items, Tail(items)}
        /\ UNCHANGED <<inbox, got, given, settled>>
    BY <1>13, Zenon DEF Takes, DeliveryPutItems, AnswersTo
  <2> HIDE DEF items
  <2>3. delivering' \in Seq(Answers)
    BY <2>1, <2>2, ElementsTail
  <2>4. taken' \in Nat /\ taken' <= Len(given)
    BY <1>0, <2>2 DEF SequencesTyped
  <2> QED
    BY <1>0, <2>2, <2>3, <2>4 DEF SequencesTyped
<1>14. CASE DeliveryPuts
  <2>1. delivering' = Tail(delivering) /\ UNCHANGED <<inbox, got, given, taken, settled>>
    BY <1>14 DEF DeliveryPuts, DeliveryPutItems
  <2>2. delivering \in Seq(Answers) /\ delivering # <<>>
    BY <1>0, <1>14 DEF SequencesTyped, DeliveryPuts
  <2>3. delivering' \in Seq(Answers)
    BY <2>1, <2>2, ElementsTail
  <2> QED
    BY <1>0, <2>1, <2>3 DEF SequencesTyped
<1>15. CASE Yields
  <2>1. /\ got' = Append(got, Head(queue)) /\ queue # <<>> /\ Head(queue) # "none"
        /\ UNCHANGED <<inbox, delivering, given, taken, settled>>
    BY <1>15 DEF Yields, reply
  <2>2. Head(queue) \in Kinds
    BY <1>0, <2>1 DEF PumpTyped, Answers
  <2>3. got' \in Seq(Kinds)
    BY <1>0, <2>1, <2>2 DEF SequencesTyped
  <2> QED
    BY <1>0, <2>1, <2>3 DEF SequencesTyped
<1> QED
  BY <1>2, <1>3, <1>4, <1>5, <1>6, <1>7, <1>9, <1>10, <1>11, <1>12, <1>13, <1>14, <1>15
     DEF Next, Envoys, Pump, Delivery, Outputs

LEMMA RestStaysTyped ==
  ASSUME EnvoyAssumption, ExchangeInv, [Next]_vars
  PROVE  RestTyped'
<1>1. delivery = "putting" => delivering # <<>>
  BY DEF ExchangeInv, Exchanging, DeliveryAgrees, NothingIsLeftDelivering, Typed, RestTyped,
         PlacesTyped
<1> QED
  BY <1>1, FlagsStayTyped, PlacesStayTyped, SequencesStayTyped DEF ExchangeInv, Typed, RestTyped

-----------------------------------------------------------------------------

LEMMA FinishedRead ==
  ASSUME Typed, Exchanging, pump = "reading", inbox # <<>>, inbox' = Tail(inbox), finished,
         OnFinished, UNCHANGED <<envoyVars, got, process>>
  PROVE  Exchanging' /\ PumpTyped'
<1>1. InboxAgrees /\ PumpAgrees /\ StagesAgree /\ DeliveryAgrees /\ RepliedAgrees
  BY DEF Exchanging
<1>2. /\ UNCHANGED <<envoy, got, judgment, finished, replied, bodyEnded>>
      /\ UNCHANGED <<delivery, delivering, stream, given, taken>>
  BY DEF OnFinished, envoyVars, flags, reply
<1>3. PutsIn({}, {"none"})
  <2>1. PutItems(<<"none">>, TRUE, waiters)
    BY RoomIsEmpty DEF OnFinished, Puts, Answers
  <2>2. "part" \in Kinds
    BY DEF Kinds
  <2> QED
    BY <2>1, <2>2, PutItemsPutsIn
<1>4. judgment' = "none" /\ AllBefore(All, {})
  BY <1>1, <1>2 DEF PumpAgrees, AllBefore
<1>5. /\ PumpAgrees' /\ LineInOrder' /\ All' = All /\ pump' # "judging" /\ Putting' = {}
      /\ (pump' = "over" \/ "none" \in Elements(putting)')
  <2>1. /\ pump \in {"reading", "judging"} /\ UNCHANGED <<got, delivering>> /\ stream' = stream
        /\ "none" \in {"none"}
    BY <1>2
  <2>2. Went({}, {"none"})
    BY <1>3, <1>4, <2>1, PumpAnswers
  <2> QED
    BY <2>2 DEF Went
<1>6. InboxAgrees' /\ \A kind \in Heads : ~Unread(kind)'
  BY <1>1, <1>2, ReadInOrder
<1>7. StagesAgree'
  BY <1>1, <1>2, <1>5, <1>6 DEF StagesAgree, Judging, InboxAgrees, Heads
<1>8. DeliveryAgrees'
  BY <1>1, <1>2, <1>5, <1>6 DEF DeliveryAgrees, Before, Heads
<1>9. RepliedAgrees'
  BY <1>5 DEF RepliedAgrees
<1> QED
  BY <1>3, <1>5, <1>6, <1>7, <1>8, <1>9, PutsInTyped DEF Exchanging

LEMMA BeforeTheReply ==
  ASSUME Exchanging, pump \in {"reading", "judging"}, envoy \notin {"body", "all"}
  PROVE  stream = "none" /\ delivery = "none" /\ delivering = <<>> /\ ~replied /\ putting = <<>>
<1>1. putting = <<>> /\ "none" \notin Elements(putting)
  BY ElementsEmpty DEF Exchanging, PumpAgrees
<1> QED
  BY <1>1 DEF Exchanging, DeliveryAgrees, RepliedAgrees

(* A judgment begins: the pump waits for it, with nothing to put.          *)
LEMMA PumpWaits ==
  ASSUME Typed, Exchanging, pump = "reading", Waits, UNCHANGED <<got, delivering>>,
         judgment' # "none", stream' = "none", stream = "none", \A kind \in Heads : ~Unread(kind)',
         Judging({"request"})' => envoy' = "sent", Judging({"bodyless"})' => envoy' = "bodyless",
         Judging(OfReply)' => envoy' \in {"body", "all"}
  PROVE  PumpAgrees' /\ LineInOrder' /\ All' = All /\ Queued' = Queued /\ Putting' = {} /\ PumpTyped'
<1>1. /\ pump' = "judging" /\ UNCHANGED <<putting, queue, waiters>>
      /\ putting = <<>> /\ "none" \notin Elements(queue)
  BY DEF Waits, Exchanging, PumpAgrees
<1>2. Gone' = Gone /\ Queued' = Queued /\ Putting' = Putting /\ Delivering' = Delivering /\ Putting = {}
  BY <1>1, ElementsEmpty DEF Gone, Queued, Putting, Delivering, Elements
<1>3. LineInOrder' /\ All' = All
  BY <1>2 DEF Exchanging, LineInOrder, All, AllBefore, Before
<1>4. Elements(queue)' = Elements(queue) /\ Len(putting') = 0
  BY <1>1 DEF Elements
<1>5. PumpAgrees'
  <2>1. (\A k \in 2..Len(putting') : putting'[k] = "none") /\ ~(Len(putting') > 1)
    BY <1>4
  <2>2. (pump' = "putting" <=> putting' # <<>> /\ pump' # "over") /\ "none" \notin Elements(queue)'
    BY <1>1, <1>4
  <2> QED
    BY <1>1, <2>1, <2>2 DEF PumpAgrees
<1>6. PumpTyped'
  BY <1>1 DEF Typed, PumpTyped
<1> QED
  BY <1>2, <1>3, <1>5, <1>6

LEMMA RequestHeadersRead ==
  ASSUME Typed, Exchanging, pump = "reading", inbox # <<>>, inbox' = Tail(inbox), ~finished,
         OnRequestHeaders(Head(inbox)), UNCHANGED <<envoyVars, got, process>>
  PROVE  Exchanging' /\ PumpTyped'
<1> DEFINE m == Head(inbox)
<1>1. InboxAgrees /\ PumpAgrees /\ StagesAgree /\ DeliveryAgrees /\ RepliedAgrees
  BY DEF Exchanging
<1>2. /\ UNCHANGED <<envoy, got, replied, bodyEnded>> /\ m.kind = "request_headers"
      /\ UNCHANGED <<delivery, delivering, stream, given, taken>>
  BY DEF OnRequestHeaders, envoyVars, reply
<1>3. /\ InboxAgrees' /\ (\A kind \in Heads : ~Unread(kind)') /\ Unread("request_headers")
      /\ envoy = IF m.eos THEN "bodyless" ELSE "request_body"
  BY <1>1, <1>2, ReadInOrder
<1>4. stream = "none" /\ delivery = "none" /\ delivering = <<>> /\ ~replied /\ All = {}
      /\ judgment = "none"
  BY <1>1, <1>3, BeforeTheReply DEF StagesAgree, PumpAgrees
<1>5. RepliedAgrees'
  BY <1>2, <1>4 DEF RepliedAgrees
<1>6. DeliveryAgrees'
  BY <1>1, <1>2, <1>4 DEF DeliveryAgrees, Before
<1>7. ASSUME PumpAgrees', LineInOrder', PumpTyped', pump' = "judging" => envoy = "bodyless" /\ All' = {},
             judgment' \in {"none", "bodyless"},
             All' \in {{}, {"request_headers"}, {"immediate"}}, finished' \/ All' # {"immediate"}
      PROVE  Exchanging' /\ PumpTyped'
  <2>1. StagesAgree'
    BY <1>2, <1>3, <1>7 DEF StagesAgree, Judging, OfReply, Heads, Over
  <2> QED
    BY <1>3, <1>5, <1>6, <1>7, <2>1 DEF Exchanging
<1>8. "immediate" \in Kinds /\ "request_headers" \in Kinds
  BY DEF Kinds
<1>9. CASE m.status = "unrouted"
  <2>1. PutItems(<<"immediate", "none">>, TRUE, waiters) /\ finished' /\ judgment' = "none"
    BY <1>4, <1>9, AppendToOne DEF OnRequestHeaders, Puts
  <2>2. PutsIn({"immediate"}, {"none"})
    BY <1>8, <2>1, PutItemsPutsIn
  <2>3. AllBefore(All, {"immediate"}) /\ UNCHANGED <<got, delivering>> /\ pump \in {"reading", "judging"}
    BY <1>2, <1>4 DEF AllBefore
  <2>4. Went({"immediate"}, {"none"})
    BY <1>2, <1>4, <2>1, <2>2, <2>3, PumpAnswers
  <2>5. PumpAgrees' /\ LineInOrder' /\ PumpTyped' /\ pump' # "judging" /\ All' = {"immediate"}
    BY <1>4, <2>2, <2>4, PutsInTyped DEF Went
  <2> QED
    BY <1>7, <2>1, <2>5
<1>10. CASE m.status # "unrouted" /\ m.eos
  <2>1. Waits /\ judgment' = "bodyless" /\ envoy' = "bodyless"
    BY <1>2, <1>3, <1>10 DEF OnRequestHeaders
  <2>2. PumpAgrees' /\ LineInOrder' /\ All' = All /\ PumpTyped'
    BY <1>2, <1>3, <1>4, <2>1, PumpWaits DEF Judging, OfReply
  <2> QED
    BY <1>2, <1>4, <1>7, <2>1, <2>2
<1>11. CASE m.status # "unrouted" /\ ~m.eos
  <2>1. PutItems(<<"request_headers">>, FALSE, waiters) /\ finished' = finished /\ judgment' = "none"
    BY <1>4, <1>11 DEF OnRequestHeaders, Puts
  <2>2. PutsIn({"request_headers"}, {})
    BY <1>8, <2>1, PutItemsPutsIn
  <2>3. AllBefore(All, {"request_headers"}) /\ UNCHANGED <<got, delivering>>
        /\ pump \in {"reading", "judging"}
    BY <1>2, <1>4 DEF AllBefore
  <2>4. Went({"request_headers"}, {})
    BY <1>2, <1>4, <2>1, <2>2, <2>3, PumpAnswers
  <2>5. PumpAgrees' /\ LineInOrder' /\ PumpTyped' /\ pump' # "judging" /\ All' = {"request_headers"}
    BY <1>4, <2>2, <2>4, PutsInTyped DEF Went
  <2> QED
    BY <1>7, <2>1, <2>5
<1> QED
  BY <1>9, <1>10, <1>11

LEMMA RequestBodyRead ==
  ASSUME Typed, Exchanging, pump = "reading", inbox # <<>>, inbox' = Tail(inbox), ~finished,
         OnRequestBody(Head(inbox)), UNCHANGED <<envoyVars, got, process>>
  PROVE  Exchanging' /\ PumpTyped'
<1>1. InboxAgrees /\ PumpAgrees /\ StagesAgree /\ DeliveryAgrees /\ RepliedAgrees
  BY DEF Exchanging
<1>2. /\ UNCHANGED <<envoy, got, finished, replied, bodyEnded>> /\ Head(inbox).kind = "request_body"
      /\ UNCHANGED <<delivery, delivering, stream, given, taken>> /\ judgment' = "request" /\ Waits
  BY DEF OnRequestBody, envoyVars, reply, flags
<1>3. /\ InboxAgrees' /\ (\A kind \in Heads : ~Unread(kind)') /\ Unread("request_body")
      /\ envoy = "sent"
  BY <1>1, <1>2, ReadInOrder
<1>4. stream = "none" /\ delivery = "none" /\ delivering = <<>> /\ ~replied
      /\ All = {"request_headers"}
  BY <1>1, <1>3, BeforeTheReply DEF StagesAgree
<1>5. PumpAgrees' /\ LineInOrder' /\ All' = All /\ PumpTyped'
  BY <1>2, <1>3, <1>4, PumpWaits DEF Judging, OfReply
<1>6. StagesAgree'
  BY <1>1, <1>2, <1>3, <1>4, <1>5 DEF StagesAgree, Judging, OfReply, Heads
<1>7. RepliedAgrees' /\ DeliveryAgrees'
  BY <1>1, <1>2, <1>4 DEF RepliedAgrees, DeliveryAgrees, Before
<1> QED
  BY <1>3, <1>5, <1>6, <1>7 DEF Exchanging

LEMMA ResponseHeadersRead ==
  ASSUME Typed, Exchanging, pump = "reading", inbox # <<>>, inbox' = Tail(inbox), ~finished,
         OnResponseHeaders(Head(inbox)), UNCHANGED <<envoyVars, got, process>>
  PROVE  Exchanging' /\ PumpTyped'
<1> DEFINE m == Head(inbox)
<1>1. InboxAgrees /\ PumpAgrees /\ StagesAgree /\ DeliveryAgrees /\ RepliedAgrees
  BY DEF Exchanging
<1>2. UNCHANGED <<envoy, got, bodyEnded, forwarded>> /\ m.kind = "response_headers" /\ replied'
  BY DEF OnResponseHeaders, envoyVars
<1>3. /\ InboxAgrees' /\ (\A kind \in Heads : ~Unread(kind)') /\ Unread("response_headers")
      /\ envoy \in {"body", "all"}
  BY <1>1, <1>2, ReadInOrder
<1>4. /\ stream = "none" /\ delivery = "none" /\ delivering = <<>> /\ judgment = "none"
      /\ All \subseteq {"request_headers", "request_body"} /\ Queued = {} /\ putting = <<>>
  BY <1>1, <1>3 DEF StagesAgree, PumpAgrees, DeliveryAgrees
<1>5. queue = <<>>
  <2>1. "none" \notin Elements(queue)
    BY <1>1, <1>4 DEF PumpAgrees
  <2>2. Elements(queue) = {}
    BY <1>4, <2>1 DEF Queued
  <2>3. queue \in Seq(Answers)
    BY DEF Typed, PumpTyped
  <2> QED
    BY <2>2, <2>3, ElementsTail
<1>6. \A k \in Kinds \ {"request_headers", "request_body"} : AllBefore(All, {k})
  BY <1>4, WhatComesBefore DEF AllBefore
<1>7. RepliedAgrees'
  BY <1>2, <1>3 DEF RepliedAgrees, Heads
<1>8. "immediate" \in Kinds \ {"request_headers", "request_body"}
      /\ "response_headers" \in Kinds \ {"request_headers", "request_body"}
  BY DEF Kinds
<1>9. CASE m.status = "encoded"
  <2>1. /\ PutItems(<<"immediate", "none">>, TRUE, waiters) /\ finished' /\ judgment' = "none"
        /\ UNCHANGED <<delivery, delivering, stream, given, taken>>
    BY <1>4, <1>9, AppendToOne DEF OnResponseHeaders, Puts, reply
  <2>2. PutsIn({"immediate"}, {"none"})
    BY <1>8, <2>1, PutItemsPutsIn
  <2>3. AllBefore(All, {"immediate"}) /\ UNCHANGED <<got, delivering>> /\ pump \in {"reading", "judging"}
    BY <1>2, <1>6, <1>8, <2>1
  <2>4. Went({"immediate"}, {"none"})
    BY <1>4, <2>1, <2>2, <2>3, PumpAnswers
  <2>5. PumpAgrees' /\ LineInOrder' /\ PumpTyped' /\ pump' # "judging"
    BY <2>2, <2>4, PutsInTyped DEF Went
  <2>6. StagesAgree'
    BY <1>2, <1>3, <2>1, <2>5 DEF StagesAgree, Judging, Heads
  <2>7. DeliveryAgrees'
    BY <1>1, <1>4, <2>1 DEF DeliveryAgrees, Before
  <2> QED
    BY <1>3, <1>7, <2>5, <2>6, <2>7 DEF Exchanging
<1>10. CASE m.status # "encoded" /\ (m.status = "error" \/ m.eos)
  <2>1. /\ Waits /\ judgment' \in OfReply /\ finished' = finished
        /\ UNCHANGED <<delivery, delivering, stream, given, taken>>
    BY <1>10 DEF OnResponseHeaders, OfReply, reply
  <2>2. PumpAgrees' /\ LineInOrder' /\ All' = All /\ PumpTyped'
    BY <1>2, <1>3, <1>4, <2>1, PumpWaits DEF Judging, OfReply
  <2>3. StagesAgree'
    BY <1>2, <1>3, <1>4, <2>1, <2>2 DEF StagesAgree, Judging, OfReply, Heads, Over
  <2>4. DeliveryAgrees'
    BY <1>1, <1>4, <2>1 DEF DeliveryAgrees, Before
  <2> QED
    BY <1>3, <1>7, <2>2, <2>3, <2>4 DEF Exchanging
<1>11. CASE m.status # "encoded" /\ ~(m.status = "error" \/ m.eos)
  <2>1. /\ PutItems(<<"response_headers">>, FALSE, waiters) /\ finished' = finished /\ judgment' = "none"
        /\ stream' = "going" /\ delivery' = "ready" /\ UNCHANGED <<delivering, given, taken>>
    BY <1>4, <1>11 DEF OnResponseHeaders, Puts
  <2>2. PutsIn({"response_headers"}, {})
    BY <1>8, <2>1, PutItemsPutsIn
  <2>3. AllBefore(All, {"response_headers"}) /\ UNCHANGED <<got, delivering>>
        /\ pump \in {"reading", "judging"}
    BY <1>2, <1>6, <1>8, <2>1
  <2>4. Went({"response_headers"}, {})
    BY <1>4, <2>1, <2>2, <2>3, PumpAnswers
  <2>5. /\ PumpAgrees' /\ LineInOrder' /\ PumpTyped' /\ pump' # "judging"
        /\ All' = All \cup {"response_headers"} /\ Putting' = {}
    BY <1>5, <2>2, <2>4, PutsInTyped DEF Went
  <2>6. StagesAgree'
    BY <1>2, <1>3, <1>4, <2>1, <2>5 DEF StagesAgree, Judging, Heads, Over
  <2>7. DeliveryAgrees'
    <3>1. stream' # "none" /\ envoy' \in {"body", "all"} /\ ~Unread("response_headers")' /\ ~finished'
      BY <1>2, <1>3, <2>1 DEF Heads
    <3>2. "part" \notin All'
      BY <1>4, <2>5
    <3>3. \A i, j \in 1..Len(delivering') : FALSE
      BY <1>4, <2>1
    <3> QED
      BY <1>1, <1>2, <1>4, <2>1, <2>5, <3>1, <3>2, <3>3 DEF DeliveryAgrees
  <2> QED
    BY <1>3, <1>7, <2>5, <2>6, <2>7 DEF Exchanging
<1> QED
  BY <1>9, <1>10, <1>11

LEMMA ResponseBodyRead ==
  ASSUME Typed, Exchanging, pump = "reading", inbox # <<>>, inbox' = Tail(inbox), ~finished,
         OnResponseBody(Head(inbox)), UNCHANGED <<envoyVars, got, process>>
  PROVE  Exchanging' /\ PumpTyped'
<1> DEFINE m == Head(inbox)
<1>1. InboxAgrees /\ PumpAgrees /\ StagesAgree /\ DeliveryAgrees /\ RepliedAgrees
  BY DEF Exchanging
<1>2. /\ UNCHANGED <<envoy, got, replied, judgment>> /\ m.kind \in {"response_body", "response_trailers"}
      /\ UNCHANGED <<delivery, delivering, stream, given, taken>>
  BY DEF OnResponseBody, envoyVars, reply
<1>3. /\ InboxAgrees' /\ (\A kind \in Heads : ~Unread(kind)') /\ envoy \in {"body", "all"}
      /\ (m.kind = "response_trailers" => m.eos) /\ m.eos \in BOOLEAN
  BY <1>1, <1>2, ReadInOrder DEF Messages
<1>4. judgment' = "none" /\ putting = <<>> /\ "none" \notin Elements(putting)
  BY <1>1, <1>2, ElementsEmpty DEF PumpAgrees
<1>5. RepliedAgrees'
  BY <1>1, <1>2, <1>3, <1>4 DEF RepliedAgrees, Heads
<1>6. ASSUME NEW X, NEW E, PutsIn(X, E), AllBefore(All, X), X = {} \/ stream = "none",
             "none" \in E /\ X # {} => finished', X \subseteq Kinds, finished' \/ X \cap Over = {},
             stream # "none" => finished' = finished
      PROVE  Exchanging' /\ PumpTyped'
  <2>1. UNCHANGED <<got, delivering>> /\ pump \in {"reading", "judging"}
    BY <1>2
  <2>2. Went(X, E)
    BY <1>2, <1>4, <1>6, <2>1, PumpAnswers
  <2>3. /\ PumpAgrees' /\ LineInOrder' /\ PumpTyped' /\ pump' # "judging" /\ All' = All \cup X
        /\ Putting' \subseteq X
    BY <1>6, <2>2, PutsInTyped DEF Went
  <2>4. StagesAgree'
    BY <1>1, <1>2, <1>3, <1>6, <2>3 DEF StagesAgree, Judging, Heads
  <2>5. DeliveryAgrees'
    BY <1>1, <1>2, <1>3, <1>6, <2>3 DEF DeliveryAgrees, Heads, Before
  <2> QED
    BY <1>3, <1>5, <2>3, <2>4, <2>5 DEF Exchanging
<1>7. CASE stream # "none"
  <2>1. PutItems(<<>>, FALSE, waiters) /\ finished' = finished
    BY <1>7 DEF OnResponseBody, Puts
  <2>2. PutsIn({}, {})
    BY <2>1, PutItemsPutsIn DEF Kinds
  <2>3. AllBefore(All, {})
    BY DEF AllBefore
  <2> QED
    BY <1>6, <2>1, <2>2, <2>3
<1>8. CASE stream = "none"
  <2>1. All \subseteq Kinds \ Over
    BY <1>1, ElementsTyped DEF StagesAgree
  <2>2. \A x \in {"part", "end", "response_trailers"} : AllBefore(All, {x}) /\ x \in Kinds
    BY <2>1, WhatComesBefore DEF AllBefore, Kinds
  <2>3. AllBefore(All, {})
    BY DEF AllBefore
  <2>4. finished' = m.eos
    BY <1>8 DEF OnResponseBody
  <2>5. CASE m.kind = "response_trailers"
    <3>1. Puts(<<"response_trailers">>, m.eos) /\ m.eos
      BY <1>3, <1>8, <2>5 DEF OnResponseBody
    <3>2. PutItems(<<"response_trailers", "none">>, TRUE, waiters)
      BY <3>1, AppendToOne DEF Puts
    <3>3. PutsIn({"response_trailers"}, {"none"})
      BY <2>2, <3>2, PutItemsPutsIn
    <3> QED
      BY <1>6, <1>8, <2>2, <2>4, <3>1, <3>3
  <2>6. CASE m.kind = "response_body" /\ passing /\ m.eos
    <3>1. PutItems(<<"end", "none">>, TRUE, waiters)
      BY <1>8, <2>6, AppendToOne DEF OnResponseBody, Puts
    <3>2. PutsIn({"end"}, {"none"})
      BY <2>2, <3>1, PutItemsPutsIn
    <3> QED
      BY <1>6, <1>8, <2>2, <2>4, <2>6, <3>2
  <2>7. CASE m.kind = "response_body" /\ passing /\ ~m.eos
    <3>1. Puts(<<"part">>, m.eos) /\ m.eos = FALSE
      BY <1>3, <1>8, <2>7 DEF OnResponseBody
    <3>4. PutItems(<<"part">>, FALSE, waiters)
      BY <3>1 DEF Puts
    <3>2. PutsIn({"part"}, {})
      BY <2>2, <3>4, PutItemsPutsIn
    <3>3. {"part"} \cap Over = {}
      BY DEF Over
    <3> QED
      BY <1>6, <1>8, <2>2, <3>2, <3>3
  <2>8. CASE m.kind = "response_body" /\ ~passing /\ m.eos
    <3>1. PutItems(<<"none">>, TRUE, waiters)
      BY <1>8, <2>8, RoomIsEmpty DEF OnResponseBody, Puts, Answers
    <3>2. PutsIn({}, {"none"})
      BY <2>2, <3>1, PutItemsPutsIn
    <3> QED
      BY <1>6, <1>8, <2>3, <3>2
  <2>9. CASE m.kind = "response_body" /\ ~passing /\ ~m.eos
    <3>1. Puts(<<>>, m.eos) /\ m.eos = FALSE
      BY <1>3, <1>8, <2>9 DEF OnResponseBody
    <3>3. PutItems(<<>>, FALSE, waiters)
      BY <3>1 DEF Puts
    <3>2. PutsIn({}, {})
      BY <2>2, <3>3, PutItemsPutsIn
    <3> QED
      BY <1>6, <1>8, <2>3, <3>2
  <2> QED
    BY <1>2, <1>3, <2>5, <2>6, <2>7, <2>8, <2>9
<1> QED
  BY <1>7, <1>8

LEMMA Closed ==
  ASSUME Typed, Exchanging, ClosesAndEnds, pump = "reading"
  PROVE  Exchanging' /\ PumpTyped'
<1>1. InboxAgrees /\ PumpAgrees /\ StagesAgree /\ DeliveryAgrees /\ RepliedAgrees
  BY DEF Exchanging
<1>2. /\ UNCHANGED <<envoy, inbox, got, judgment, finished, delivering, given, taken>>
      /\ delivery' = (IF delivery = "none" THEN "none" ELSE "over")
      /\ stream' = (IF stream = "going" THEN "aborted" ELSE stream)
      /\ (stream # "none" => replied' = replied)
  BY DEF ClosesAndEnds, Close, envoyVars
<1>3. PutsIn({}, {"none"})
  <2>1. \E ws : PutItems(<<"none">>, TRUE, ws)
    BY DEF ClosesAndEnds
  <2>2. "part" \in Kinds
    BY DEF Kinds
  <2> QED
    BY <2>1, <2>2, PutItemsPutsIn
<1>4. judgment' = "none" /\ AllBefore(All, {}) /\ UNCHANGED <<got, delivering>>
      /\ pump \in {"reading", "judging"} /\ (stream' = "none" => stream = "none")
  BY <1>1, <1>2 DEF PumpAgrees, AllBefore
<1>5. Went({}, {"none"})
  BY <1>3, <1>4, PumpAnswers
<1>6. /\ PumpAgrees' /\ LineInOrder' /\ All' = All /\ pump' # "judging" /\ Putting' = {}
      /\ (pump' = "over" \/ "none" \in Elements(putting)')
  BY <1>5 DEF Went
<1>7. (\A kind : Unread(kind)' <=> Unread(kind)) /\ InboxAgrees'
  BY <1>1, <1>2 DEF Unread, InboxAgrees
<1>8. StagesAgree'
  <2>1. Unread("response_headers") => Queued' = {}
    <3>1. Queued' \subseteq All'
      BY DEF All
    <3>2. PutsIn({}, {"none"}) => Queued' = Queued \/ Queued' = {}
      BY DEF PutsIn
    <3> QED
      BY <1>1, <1>3, <3>2 DEF StagesAgree
  <2> QED
    BY <1>1, <1>2, <1>6, <1>7, <2>1 DEF StagesAgree, Judging
<1>9. DeliveryAgrees'
  BY <1>1, <1>2, <1>6, <1>7 DEF DeliveryAgrees, Before
<1>10. RepliedAgrees'
  BY <1>6 DEF RepliedAgrees
<1> QED
  BY <1>3, <1>6, <1>7, <1>8, <1>9, <1>10, PutsInTyped DEF Exchanging

LEMMA MessagesEnd ==
  ASSUME Typed, Exchanging, EndOfMessages
  PROVE  Exchanging' /\ PumpTyped'
<1>1. CASE ClosesAndEnds
  BY <1>1, Closed DEF EndOfMessages
<1>2. CASE ~ClosesAndEnds
  <2>1. /\ InboxAgrees /\ PumpAgrees /\ StagesAgree /\ DeliveryAgrees /\ LineInOrder
        /\ pump = "reading" /\ pump' = "over"
        /\ UNCHANGED <<envoyVars, inbox, got, putting, queue, waiters, judgment, flags, reply,
                       process, settled, attempt>>
    BY <1>2 DEF EndOfMessages, Exchanging
  <2>2. /\ Gone' = Gone /\ Queued' = Queued /\ Putting' = Putting /\ Delivering' = Delivering
        /\ All' = All /\ \A kind : Unread(kind)' <=> Unread(kind)
    BY <2>1 DEF Gone, Queued, Putting, Delivering, All, Elements, Unread, reply
  <2>3. PumpAgrees' /\ PumpTyped' /\ RepliedAgrees'
    BY <2>1 DEF PumpAgrees, PumpTyped, Typed, Judging, RepliedAgrees, flags
  <2>4. InboxAgrees' /\ StagesAgree' /\ LineInOrder'
    BY <2>1, <2>2 DEF InboxAgrees, StagesAgree, LineInOrder, AllBefore, Before, Judging, envoyVars, flags
  <2>5. DeliveryAgrees'
    BY <2>1, <2>2 DEF DeliveryAgrees, Before, envoyVars, flags, reply
  <2> QED
    BY <2>3, <2>4, <2>5 DEF Exchanging
<1> QED
  BY <1>1, <1>2

LEMMA PutsAnAnswer ==
  ASSUME Typed, Exchanging, PumpPuts
  PROVE  Exchanging' /\ PumpTyped'
<1> DEFINE first == Head(putting)
           ends == first = "none"
           rest == IF finished /\ ~ends THEN <<"none">> ELSE <<>>
<1>1. InboxAgrees /\ PumpAgrees /\ StagesAgree /\ DeliveryAgrees /\ RepliedAgrees /\ LineInOrder
  BY DEF Exchanging
<1>2. /\ UNCHANGED <<envoy, inbox, got, judgment, finished, replied, bodyEnded>>
      /\ UNCHANGED <<delivery, delivering, stream, given, taken>>
      /\ pump = "putting" /\ HasRoom(queue)
      /\ putting' = rest /\ queue' = Append(queue, first)
      /\ pump' = IF rest # <<>> THEN "putting" ELSE IF ends THEN "over" ELSE "reading"
  BY DEF PumpPuts, PumpGoesOn, envoyVars, flags, reply
<1>3. /\ putting # <<>> /\ putting \in Seq(Answers) /\ queue = <<>> /\ judgment = "none"
      /\ \A k \in 2..Len(putting) : putting[k] = "none"
  BY <1>1, <1>2, RoomIsEmpty DEF PumpAgrees, Typed, PumpTyped
<1>4. /\ Elements(putting) = {first} \cup Elements(Tail(putting)) /\ first \in Answers
      /\ Elements(Tail(putting)) \subseteq {"none"} /\ first = putting[1]
      /\ (Tail(putting) # <<>> => Len(putting) > 1)
      /\ (Tail(putting) = <<>> => Elements(putting) = {first})
  <2>1. /\ Elements(putting) = {first} \cup Elements(Tail(putting)) /\ first \in Answers
        /\ Len(Tail(putting)) = Len(putting) - 1 /\ Len(putting) >= 1 /\ first = putting[1]
        /\ \A k \in 1..Len(Tail(putting)) :
             Tail(putting)[k] = putting[k + 1] /\ k + 1 \in 2..Len(putting)
        /\ Tail(putting) \in Seq(Answers)
    BY <1>3, ElementsTail
  <2>2. Elements(Tail(putting)) \subseteq {"none"}
    BY <1>3, <2>1 DEF Elements
  <2>3. Tail(putting) # <<>> => Len(putting) > 1
    <3>1. Len(putting) \in Nat /\ (Tail(putting) # <<>> => Len(Tail(putting)) >= 1)
      BY <1>3, <2>1
    <3> QED
      BY <2>1, <3>1
  <2>4. ASSUME Tail(putting) = <<>> PROVE Elements(putting) = {first}
    <3>1. Elements(Tail(putting)) = {}
      BY <2>4, ElementsEmpty
    <3> QED
      BY <2>1, <3>1, Zenon
  <2> QED
    BY <2>1, <2>2, <2>3, <2>4
<1>5. queue' = <<first>> /\ Elements(queue') = {first} /\ Queued' = {first} \ {"none"} /\ Queued = {}
  <2>1. queue' = <<first>>
    BY <1>2, <1>3, <1>4, RoomIsEmpty
  <2> HIDE DEF first
  <2> QED
    BY <1>3, <2>1, ElementsEmpty, ElementsOfOne DEF Queued
<1>6. Putting = {first} \ {"none"} /\ Putting' = {}
  <2>1. rest = <<>> \/ rest = <<"none">>
    OBVIOUS
  <2> HIDE DEF rest, first
  <2> QED
    BY <1>2, <1>4, <2>1, ElementsEmpty, ElementsOfOne DEF Putting
<1>7. /\ Gone' = Gone /\ Delivering' = Delivering /\ All' = All
      /\ (\A kind : Unread(kind)' <=> Unread(kind)) /\ InboxAgrees'
  <2>1. Gone' = Gone /\ Delivering' = Delivering
    BY <1>2 DEF Gone, Delivering, Elements
  <2>2. (\A kind : Unread(kind)' <=> Unread(kind)) /\ InboxAgrees'
    BY <1>1, <1>2 DEF Unread, InboxAgrees
  <2> HIDE DEF first
  <2> QED
    BY <1>5, <1>6, <2>1, <2>2 DEF All
<1>8. LineInOrder'
  <2>1. Delivering = {} \/ Putting = {}
    BY <1>1, ElementsEmpty DEF DeliveryAgrees, Delivering
  <2>2. AllBefore(Gone, Putting) /\ AllBefore(Gone, Delivering)
    BY <1>1 DEF LineInOrder, AllBefore
  <2>3. Queued' = Putting
    BY <1>5, <1>6
  <2>4. AllBefore(Gone', Queued') /\ AllBefore(Gone' \cup Queued', Putting' \cup Delivering')
    BY <1>6, <1>7, <2>1, <2>2, <2>3 DEF AllBefore
  <2> QED
    BY <2>4 DEF LineInOrder, AllBefore, Before
<1>9. /\ PumpTyped' /\ Len(putting') <= 1 /\ (\A k \in 2..Len(putting') : putting'[k] = "none")
      /\ (pump' = "putting" <=> putting' # <<>> /\ pump' # "over")
  <2>1. rest \in Seq(Answers) /\ Len(rest) <= 1 /\ (\A k \in 2..Len(rest) : rest[k] = "none")
    <3>1. <<"none">> \in Seq(Answers) /\ <<>> \in Seq(Answers)
      BY DEF Answers
    <3>2. CASE rest = <<>>
      BY <3>1, <3>2
    <3>3. CASE rest = <<"none">>
      BY <3>1, <3>3
    <3> QED
      BY <3>2, <3>3
  <2>2. <<first>> \in Seq(Answers) /\ Len(<<first>>) = 1
    BY <1>4
  <2>3. pump' \in {"reading", "judging", "putting", "over"}
        /\ (pump' = "putting" <=> putting' # <<>> /\ pump' # "over")
    BY <1>2
  <2> HIDE DEF rest, first
  <2> QED
    BY <1>2, <1>5, <2>1, <2>2, <2>3 DEF PumpTyped
<1>10. PumpAgrees'
  <2>1. stream' = "none" /\ pump' \in {"reading", "judging"} => "none" \notin Elements(queue)'
    <3>1. pump' \in {"reading", "judging"} => first # "none"
      BY <1>2
    <3>2. Elements(queue)' = Elements(queue')
      BY DEF Elements
    <3> QED
      BY <1>5, <3>1, <3>2
  <2>2. pump' # "judging" /\ judgment' = "none" /\ ~(Len(putting') > 1)
    <3>1. Len(putting') \in Nat
      BY <1>9 DEF PumpTyped
    <3> QED
      BY <1>2, <1>3, <1>9, <3>1
  <2> QED
    BY <1>9, <2>1, <2>2 DEF PumpAgrees, Judging
<1>11. StagesAgree'
  BY <1>1, <1>2, <1>5, <1>6, <1>7, <1>10 DEF StagesAgree, Judging, PumpAgrees
<1>12. DeliveryAgrees'
  BY <1>1, <1>2, <1>6, <1>7 DEF DeliveryAgrees, Before
<1>13. RepliedAgrees'
  <2>1. ASSUME pump' # "over", "none" \notin Elements(putting)'
        PROVE  pump # "over" /\ "none" \notin Elements(putting)
    <3>1. rest = <<>> /\ ~ends
      <4>1. rest # <<>> => rest = <<"none">>
        OBVIOUS
      <4>2. Elements(putting)' = Elements(putting')
        BY DEF Elements
      <4>3. Elements(<<"none">>) = {"none"}
        BY ElementsOfOne
      <4>4. rest = <<>>
        BY <1>2, <2>1, <4>1, <4>2, <4>3
      <4> QED
        BY <1>2, <2>1, <4>4
    <3>2. ~finished
      BY <3>1
    <3>3. Tail(putting) = <<>>
      BY <1>1, <1>4, <3>2 DEF PumpAgrees
    <3> QED
      BY <1>2, <1>4, <3>1, <3>3
  <2> QED
    BY <1>1, <1>2, <1>7, <2>1 DEF RepliedAgrees
<1> QED
  BY <1>7, <1>8, <1>9, <1>10, <1>11, <1>12, <1>13 DEF Exchanging

(* The pump answers what was judged, and reads on or ends.                 *)
LEMMA JudgedIsAnswered ==
  ASSUME Typed, Exchanging, pump = "judging", judgment' = "none", NEW x \in Kinds, NEW E,
         PutsIn({x}, E), AllBefore(All, {x}), "none" \in E => finished', finished' \/ x \notin Over,
         UNCHANGED <<envoy, inbox, got, replied, bodyEnded>>,
         UNCHANGED <<delivery, delivering, stream, given, taken>>,
         envoy = "bodyless" => All = {} /\ x \in {"request_headers", "immediate"},
         envoy = "sent" => All = {"request_headers"} /\ x \in {"request_body", "immediate"},
         envoy \in {"sent", "bodyless", "body", "all"}, All \cap Over = {}
  PROVE  Exchanging' /\ PumpTyped'
<1>1. InboxAgrees /\ PumpAgrees /\ StagesAgree /\ DeliveryAgrees /\ RepliedAgrees
  BY DEF Exchanging
<1>2. stream = "none" /\ delivery = "none" /\ delivering = <<>> /\ putting = <<>>
      /\ (\A kind \in Heads : ~Unread(kind)) /\ "none" \notin Elements(putting)
  BY <1>1, ElementsEmpty DEF PumpAgrees, DeliveryAgrees
<1>3. Went({x}, E)
  BY <1>2, PumpAnswers
<1>4. /\ PumpAgrees' /\ LineInOrder' /\ PumpTyped' /\ pump' # "judging" /\ All' = All \cup {x}
  BY <1>3, PutsInTyped DEF Went
<1>5. (\A kind : Unread(kind)' <=> Unread(kind)) /\ InboxAgrees'
  BY <1>1 DEF Unread, InboxAgrees
<1>6. StagesAgree'
  <2>1. ~finished' => All' \cap Over = {}
    BY <1>4
  <2>2. envoy = "bodyless" => All' \in {{}, {"request_headers"}, {"immediate"}}
    BY <1>4
  <2>3. envoy = "sent" =>
       All' \in {{"request_headers"}, {"request_headers", "request_body"},
                {"request_headers", "immediate"}}
    BY <1>4
  <2> QED
    BY <1>2, <1>4, <1>5, <2>1, <2>2, <2>3 DEF StagesAgree, Judging, Heads
<1>7. DeliveryAgrees'
  BY <1>1, <1>2 DEF DeliveryAgrees, Before
<1>8. RepliedAgrees'
  BY <1>1, <1>2, <1>5 DEF RepliedAgrees
<1> QED
  BY <1>4, <1>5, <1>6, <1>7, <1>8 DEF Exchanging

LEMMA RequestIsAnswered ==
  ASSUME Typed, Exchanging, RequestJudged
  PROVE  Exchanging' /\ PumpTyped'
<1>1. InboxAgrees /\ PumpAgrees /\ StagesAgree /\ DeliveryAgrees /\ RepliedAgrees
  BY DEF Exchanging
<1>2. /\ judgment \in {"request", "bodyless"} /\ judgment' = "none" /\ pump = "judging"
      /\ UNCHANGED <<envoy, inbox, got, replied, bodyEnded>>
      /\ UNCHANGED <<delivery, delivering, stream, given, taken>>
  BY <1>1 DEF RequestJudged, PumpAgrees, envoyVars, reply
<1>3. /\ judgment = "request" => envoy = "sent" /\ All = {"request_headers"}
      /\ judgment = "bodyless" => envoy = "bodyless" /\ All = {}
  BY <1>1, <1>2 DEF PumpAgrees, StagesAgree, Judging
<1>4. PICK answer \in {"pass", "replace", "refuse"} :
        LET refused == answer = "refuse" \/ (answer = "replace" /\ judgment = "bodyless")
        IN  /\ finished' = refused
            /\ Puts(<<IF refused THEN "immediate"
                      ELSE IF judgment = "bodyless" THEN "request_headers"
                      ELSE "request_body">>, refused)
  BY <1>2 DEF RequestJudged
<1> DEFINE refused == answer = "refuse" \/ (answer = "replace" /\ judgment = "bodyless")
           x == IF refused THEN "immediate"
                ELSE IF judgment = "bodyless" THEN "request_headers" ELSE "request_body"
<1>5. x \in Kinds /\ AllBefore(All, {x}) /\ All \cap Over = {}
      /\ (envoy = "bodyless" => All = {} /\ x \in {"request_headers", "immediate"})
      /\ (envoy = "sent" => All = {"request_headers"} /\ x \in {"request_body", "immediate"})
  <2>1. x \in Kinds /\ (judgment = "request" => x \in Kinds \ {"request_headers"})
    BY DEF Kinds
  <2> QED
    BY <1>2, <1>3, <2>1, WhatComesBefore DEF AllBefore, Over
<1>6. CASE refused
  <2>1. PutItems(<<x, "none">>, TRUE, waiters) /\ finished' /\ x = "immediate"
    BY <1>4, <1>6, AppendToOne DEF Puts
  <2> HIDE DEF x
  <2>2. PutsIn({x}, {"none"})
    BY <1>5, <2>1, PutItemsPutsIn
  <2> QED
    BY <1>2, <1>3, <1>5, <2>1, <2>2, JudgedIsAnswered
<1>7. CASE ~refused
  <2>1. PutItems(<<x>>, FALSE, waiters) /\ ~finished' /\ x \notin Over
    <3>1. Puts(<<x>>, refused) /\ refused = FALSE /\ finished' = refused
      BY <1>4, <1>7
    <3>2. x \notin Over
      BY <1>7 DEF Over
    <3> HIDE DEF x, refused
    <3>3. PutItems(<<x>>, FALSE, waiters)
      BY <3>1 DEF Puts
    <3> QED
      BY <3>1, <3>2, <3>3
  <2> HIDE DEF x
  <2>2. PutsIn({x}, {})
    BY <1>5, <2>1, PutItemsPutsIn
  <2> QED
    BY <1>2, <1>3, <1>5, <2>1, <2>2, JudgedIsAnswered
<1> QED
  BY <1>6, <1>7

LEMMA ReplyIsAnswered ==
  ASSUME Typed, Exchanging, ReplyJudged
  PROVE  Exchanging' /\ PumpTyped'
<1>1. InboxAgrees /\ PumpAgrees /\ StagesAgree /\ DeliveryAgrees /\ RepliedAgrees
  BY DEF Exchanging
<1>2. /\ judgment \in OfReply /\ judgment' = "none" /\ pump = "judging"
      /\ UNCHANGED <<envoy, inbox, got, replied, bodyEnded>>
      /\ UNCHANGED <<delivery, delivering, stream, given, taken>>
  BY <1>1 DEF ReplyJudged, PumpAgrees, envoyVars, reply, OfReply
<1>3. envoy \in {"body", "all"} /\ All \subseteq {"request_headers", "request_body"}
  BY <1>1, <1>2 DEF PumpAgrees, StagesAgree, Judging, OfReply
<1>4. \A x \in {"immediate", "response_headers"} : x \in Kinds /\ AllBefore(All, {x})
  <2>1. \A x \in {"immediate", "response_headers"} : x \in Kinds \ {"request_headers", "request_body"}
    BY DEF Kinds
  <2> QED
    BY <1>3, <2>1, WhatComesBefore DEF AllBefore
<1>5. All \cap Over = {}
  BY <1>3 DEF Over
<1>6. CASE Puts(<<"immediate">>, TRUE) /\ finished'
  <2>1. PutItems(<<"immediate", "none">>, TRUE, waiters)
    BY <1>6, AppendToOne DEF Puts
  <2>2. PutsIn({"immediate"}, {"none"})
    BY <1>4, <2>1, PutItemsPutsIn
  <2> QED
    BY <1>2, <1>3, <1>4, <1>5, <1>6, <2>2, JudgedIsAnswered
<1>7. CASE judgment = "error" /\ Puts(<<"response_headers">>, FALSE) /\ ~finished'
  <2>1. PutItems(<<"response_headers">>, FALSE, waiters)
    BY <1>7 DEF Puts
  <2>2. PutsIn({"response_headers"}, {}) /\ "response_headers" \notin Over
    BY <1>4, <2>1, PutItemsPutsIn DEF Over
  <2> QED
    BY <1>2, <1>3, <1>4, <1>5, <1>7, <2>2, JudgedIsAnswered
<1>8. CASE Puts(<<"response_headers">>, TRUE) /\ finished'
  <2>1. PutItems(<<"response_headers", "none">>, TRUE, waiters)
    BY <1>8, AppendToOne DEF Puts
  <2>2. PutsIn({"response_headers"}, {"none"}) /\ "response_headers" \notin Over
    BY <1>4, <2>1, PutItemsPutsIn DEF Over
  <2> QED
    BY <1>2, <1>3, <1>4, <1>5, <1>8, <2>2, JudgedIsAnswered
<1>9. \/ Puts(<<"response_headers">>, judgment # "error") /\ finished' = (judgment # "error")
      \/ Puts(<<"immediate">>, TRUE) /\ finished' = TRUE
  BY <1>2 DEF ReplyJudged
<1>10. ASSUME judgment = "error" PROVE (judgment # "error") = FALSE
  BY <1>10
<1>11. ASSUME judgment # "error" PROVE (judgment # "error") = TRUE
  BY <1>11
<1> QED
  BY <1>6, <1>7, <1>8, <1>9, <1>10, <1>11

(* Answers that may be given one after the other, the end the last.        *)
Ordered(s) ==
  \A i, j \in 1..Len(s) : i < j => s[i] # "none" /\ (s[j] = "none" \/ Before(s[i], s[j]))

LEMMA OrderedTail ==
  ASSUME NEW s \in Seq(Answers), s # <<>>, Ordered(s)
  PROVE  Ordered(Tail(s)) /\ AllBefore({Head(s)} \ {"none"}, Elements(Tail(s)) \ {"none"})
<1>1. /\ Tail(s) \in Seq(Answers) /\ Len(Tail(s)) = Len(s) - 1 /\ Len(s) >= 1 /\ Head(s) = s[1]
      /\ \A k \in 1..Len(Tail(s)) : Tail(s)[k] = s[k + 1] /\ k + 1 \in 2..Len(s)
      /\ Len(s) \in Nat
  BY ElementsTail
<1>2. ASSUME NEW i \in 1..Len(Tail(s)), NEW j \in 1..Len(Tail(s)), i < j
      PROVE  Tail(s)[i] # "none" /\ (Tail(s)[j] = "none" \/ Before(Tail(s)[i], Tail(s)[j]))
  <2>1. i + 1 \in 1..Len(s) /\ j + 1 \in 1..Len(s) /\ i + 1 < j + 1
    BY <1>1, <1>2
  <2> QED
    BY <1>1, <2>1 DEF Ordered
<1>3. ASSUME NEW j \in 1..Len(Tail(s)), Tail(s)[j] # "none"
      PROVE  Before(Head(s), Tail(s)[j])
  <2>1. 1 \in 1..Len(s) /\ j + 1 \in 1..Len(s) /\ 1 < j + 1
    BY <1>1
  <2> QED
    BY <1>1, <1>3, <2>1 DEF Ordered
<1> QED
  BY <1>2, <1>3 DEF Ordered, AllBefore, Elements

LEMMA AnswersToAreOrdered ==
  ASSUME Typed, All \cap Over = {}, NEW kind, kind = "refuse" => "part" \notin All
  PROVE  /\ AnswersTo(kind) \in Seq(Answers) /\ AnswersTo(kind) # <<>> /\ Ordered(AnswersTo(kind))
         /\ AllBefore(All, Elements(AnswersTo(kind)) \ {"none"})
         /\ kind = "release" => AnswersTo(kind) = <<"part">>
<1> DEFINE s == AnswersTo(kind)
<1>1. All \subseteq Kinds \ Over
  BY ElementsTyped
<1>2. /\ AllBefore(All, {"part"}) /\ AllBefore(All, {"part", "response_trailers"}) /\ AllBefore(All, {"end"})
      /\ (kind = "refuse" => AllBefore(All, {"immediate"})) /\ Before("part", "response_trailers")
  <2>1. "part" \in Kinds \ Over
    BY DEF Kinds, Over
  <2> QED
    BY <1>1, <2>1, WhatComesBefore DEF AllBefore
<1>3. "part" \in Answers /\ "none" \in Answers /\ "immediate" \in Answers /\ "end" \in Answers
      /\ "response_trailers" \in Answers
  BY DEF Answers, Kinds
<1>4. ASSUME NEW x \in {"part", "immediate", "end"}, s = <<x>>
      PROVE  s \in Seq(Answers) /\ s # <<>> /\ Ordered(s) /\ Elements(s) \ {"none"} = {x}
  <2>1. Len(s) = 1 /\ s \in Seq(Answers) /\ s # <<>> /\ \A i, j \in 1..1 : ~(i < j)
    BY <1>3, <1>4
  <2>2. Elements(s) = {x}
    BY <1>4, ElementsOfOne
  <2> HIDE DEF s
  <2> QED
    BY <2>1, <2>2 DEF Ordered
<1>5. ASSUME NEW x \in {"part", "immediate", "end"}, s = <<x, "none">>
      PROVE  s \in Seq(Answers) /\ s # <<>> /\ Ordered(s) /\ Elements(s) \ {"none"} = {x}
  <2>1. Len(s) = 2 /\ s \in Seq(Answers) /\ s # <<>> /\ s[1] = x /\ s[2] = "none"
    BY <1>3, <1>5
  <2>2. \A i, j \in 1..2 : i < j => i = 1 /\ j = 2
    OBVIOUS
  <2>3. Elements(s) = {x, "none"}
    BY <1>5, ElementsOfOne
  <2> HIDE DEF s
  <2> QED
    BY <2>1, <2>2, <2>3 DEF Ordered
<1>6. ASSUME s = <<"part", "response_trailers", "none">>
      PROVE  s \in Seq(Answers) /\ s # <<>> /\ Ordered(s)
             /\ Elements(s) \ {"none"} = {"part", "response_trailers"}
  <2>1. /\ Len(s) = 3 /\ s \in Seq(Answers) /\ s # <<>>
        /\ s[1] = "part" /\ s[2] = "response_trailers" /\ s[3] = "none"
    BY <1>3, <1>6
  <2>2. /\ \A i, j \in 1..3 : i < j => (i = 1 /\ j = 2) \/ (j = 3 /\ i \in {1, 2})
        /\ 1..3 = {1, 2, 3}
    OBVIOUS
  <2> HIDE DEF s
  <2>3. Elements(s) = {"part", "response_trailers", "none"}
    BY <2>1, <2>2 DEF Elements
  <2>4. Ordered(s)
    BY <1>2, <2>1, <2>2 DEF Ordered
  <2> QED
    BY <2>1, <2>3, <2>4
<1>7. \/ kind = "release" /\ s = <<"part">>
      \/ kind = "refuse" /\ s = <<"immediate", "none">>
      \/ kind # "release" /\ s = <<"part", "response_trailers", "none">>
      \/ kind # "release" /\ s = <<"end", "none">>
  BY AnswersToAre
<1> HIDE DEF s
<1>8. /\ s \in Seq(Answers) /\ s # <<>> /\ Ordered(s) /\ (kind = "release" => s = <<"part">>)
      /\ AllBefore(All, Elements(s) \ {"none"})
  <2>1. CASE kind = "release" /\ s = <<"part">>
    BY <1>2, <1>4, <2>1
  <2>2. CASE kind = "refuse" /\ s = <<"immediate", "none">>
    BY <1>2, <1>5, <2>2
  <2>3. CASE kind # "release" /\ s = <<"part", "response_trailers", "none">>
    BY <1>2, <1>6, <2>3
  <2>4. CASE kind # "release" /\ s = <<"end", "none">>
    BY <1>2, <1>5, <2>4
  <2> QED
    BY <1>7, <2>1, <2>2, <2>3, <2>4
<1> QED
  BY <1>8 DEF s

(* The delivery's answers are put in the queue, and the pump's are not.    *)
LEMMA DeliveryGoesOn ==
  ASSUME Typed, Exchanging, stream # "none",
         UNCHANGED <<envoy, inbox, got, judgment, replied, pump, putting, stream, given, cancelled>>,
         NEW s \in Seq(Answers), s # <<>>, Ordered(s), AllBefore(Gone \cup Queued, Elements(s) \ {"none"}),
         \/ queue # <<>> /\ queue' = queue /\ delivering' = s
         \/ queue = <<>> /\ queue' = Append(queue, Head(s)) /\ delivering' = Tail(s),
         finished \/ finished' \/ (s = <<"part">> /\ All \cap Over = {}),
         finished => finished', taken' \in Nat,
         taken' = 0 => taken = 0 /\ Delivering = Elements(s) \ {"none"},
         delivery' = IF delivering' # <<>> THEN "putting" ELSE IF finished' THEN "over" ELSE "ready",
         All = Gone \cup Queued \cup Delivering,
         Delivering = {} \/ Delivering = Elements(s) \ {"none"}
  PROVE  Exchanging' /\ PumpTyped'
<1>1. InboxAgrees /\ PumpAgrees /\ StagesAgree /\ DeliveryAgrees /\ LineInOrder /\ RepliedAgrees
  BY DEF Exchanging
<1>2. /\ Putting = {} /\ envoy \in {"body", "all"} /\ ~Unread("response_headers") /\ replied
      /\ pump # "judging"
  BY <1>1 DEF DeliveryAgrees, PumpAgrees
<1>3. /\ Gone' = Gone /\ Putting' = {} /\ (\A kind : Unread(kind)' <=> Unread(kind)) /\ InboxAgrees'
      /\ ~(envoy \in {"request_headers", "request_body", "bodyless", "sent"})
  BY <1>1, <1>2 DEF Gone, Putting, Elements, Unread, InboxAgrees
<1>4. /\ Elements(s) = {Head(s)} \cup Elements(Tail(s)) /\ Head(s) \in Answers
      /\ Tail(s) \in Seq(Answers) /\ Ordered(Tail(s))
      /\ AllBefore({Head(s)} \ {"none"}, Elements(Tail(s)) \ {"none"})
  BY ElementsTail, OrderedTail
<1>5. /\ \/ Queued' = Queued /\ Delivering' = Elements(s) \ {"none"}
         \/ Queued = {} /\ Queued' = {Head(s)} \ {"none"}
            /\ Delivering' = Elements(Tail(s)) \ {"none"}
      /\ queue' \in Seq(Answers) /\ Len(queue') <= 1 /\ Ordered(delivering')
  <2>1. queue \in Seq(Answers) /\ Len(queue) <= 1
    BY DEF Typed, PumpTyped
  <2>2. CASE queue # <<>>
    BY <2>1, <2>2 DEF Queued, Delivering, Elements
  <2>3. CASE queue = <<>>
    <3>1. queue' = <<Head(s)>> /\ delivering' = Tail(s)
      BY <1>4, <2>3, RoomIsEmpty
    <3>2. Elements(queue') = {Head(s)} /\ Elements(queue) = {}
      BY <2>3, <3>1, ElementsOfOne, ElementsEmpty
    <3>3. Queued = {} /\ Queued' = {Head(s)} \ {"none"} /\ Delivering' = Elements(Tail(s)) \ {"none"}
      BY <3>1, <3>2 DEF Queued, Delivering
    <3>4. <<Head(s)>> \in Seq(Answers) /\ Len(<<Head(s)>>) = 1
      BY <1>4
    <3> QED
      BY <1>4, <3>1, <3>3, <3>4
  <2> QED
    BY <2>2, <2>3
<1>6. PumpTyped'
  BY <1>5 DEF Typed, PumpTyped
<1>7. LineInOrder'
  <2>1. AllBefore(Gone, Queued)
    BY <1>1 DEF LineInOrder
  <2>2. AllBefore(Gone', Queued') /\ AllBefore(Gone' \cup Queued', Putting' \cup Delivering')
    BY <1>3, <1>4, <1>5, <2>1 DEF AllBefore
  <2> QED
    BY <2>2 DEF LineInOrder, AllBefore, Before
<1>8. PumpAgrees'
  BY <1>1, <1>2, <1>3 DEF PumpAgrees, Judging
<1>9. All' = Gone \cup Queued \cup (Elements(s) \ {"none"})
  BY <1>3, <1>4, <1>5 DEF All
<1>10. StagesAgree'
  <2>1. ~finished' => All' \cap Over = {}
    <3>1. ASSUME s = <<"part">>, All \cap Over = {} PROVE All' \cap Over = {}
      BY <1>9, <3>1, ElementsOfOne DEF Over, All
    <3>2. finished => finished'
      OBVIOUS
    <3> QED
      BY <3>1, <3>2
  <2>2. Unread("request_headers") => FALSE
    BY <1>1, <1>2 DEF InboxAgrees, Unread
  <2>3. Unread("request_body") => FALSE
    BY <1>1, <1>2 DEF InboxAgrees, Unread
  <2> QED
    BY <1>2, <1>3, <2>1, <2>2, <2>3 DEF StagesAgree, Judging
<1>11. DeliveryAgrees'
  <2>1. delivery' \in {"putting", "over", "ready"} /\ (delivery' = "ready" => ~finished')
        /\ (delivery' # "putting" => delivering' = <<>>) /\ (delivery' = "putting" => delivering' # <<>>)
    OBVIOUS
  <2>2. delivery' = "putting" => finished' \/ delivering' = <<"part">>
    <3>1. ASSUME s = <<"part">>, delivering' # <<>> PROVE delivering' = <<"part">>
      <4>1. Tail(<<"part">>) = <<>>
        OBVIOUS
      <4> QED
        BY <3>1, <4>1
    <3> QED
      BY <2>1, <3>1
  <2>3. taken' = 0 => "part" \notin All'
    BY <1>1, <1>9 DEF DeliveryAgrees
  <2> QED
    BY <1>1, <1>2, <1>3, <1>5, <2>1, <2>2, <2>3 DEF DeliveryAgrees, Ordered, Before
<1>12. RepliedAgrees'
  BY <1>2, <1>3 DEF RepliedAgrees
<1> QED
  BY <1>3, <1>6, <1>7, <1>8, <1>10, <1>11, <1>12 DEF Exchanging

LEMMA OutputIsTaken ==
  ASSUME Typed, Exchanging, Takes
  PROVE  Exchanging' /\ PumpTyped'
<1> DEFINE kind == given[taken + 1]
           s == AnswersTo(kind)
<1>1. InboxAgrees /\ PumpAgrees /\ StagesAgree /\ DeliveryAgrees /\ LineInOrder /\ RepliedAgrees
  BY DEF Exchanging
<1>2. /\ UNCHANGED <<envoy, inbox, got, judgment, replied, pump, putting, stream, given, cancelled>>
      /\ delivery = "ready" /\ taken < Len(given) /\ taken' = taken + 1
      /\ finished' = (finished \/ kind # "release")
      /\ IF HasRoom(queue) THEN DeliveryPutItems(Tail(s), Append(queue, Head(s)), waiters)
         ELSE DeliveryPutItems(s, queue, waiters)
  BY Zenon DEF Takes, envoyVars, AnswersTo
<1>3. /\ stream # "none" /\ delivering = <<>> /\ finished = FALSE /\ Delivering = {} /\ Putting = {}
      /\ All = Gone \cup Queued \cup Delivering /\ All \cap Over = {}
  <2>1. stream # "none" /\ delivering = <<>> /\ ~finished /\ Putting = {}
    BY <1>1, <1>2 DEF DeliveryAgrees
  <2>2. Delivering = {}
    BY <2>1, ElementsEmpty DEF Delivering
  <2>3. finished = FALSE
    BY <2>1 DEF Typed, RestTyped, FlagsTyped
  <2> QED
    BY <1>1, <2>1, <2>2, <2>3 DEF All, StagesAgree
<1>4. kind = "refuse" => "part" \notin All
  <2>1. taken \in Nat /\ Len(given) \in Nat /\ taken + 1 \in 1..Len(given)
    BY <1>2 DEF Typed, RestTyped, SequencesTyped
  <2>2. kind = "refuse" => taken = 0
    BY <1>1, <2>1 DEF DeliveryAgrees
  <2> QED
    BY <1>1, <1>3, <2>2 DEF DeliveryAgrees
<1> HIDE DEF kind
<1>5. /\ s \in Seq(Answers) /\ s # <<>> /\ Ordered(s) /\ AllBefore(All, Elements(s) \ {"none"})
      /\ kind = "release" => s = <<"part">>
  BY <1>3, <1>4, AnswersToAreOrdered
<1> HIDE DEF s
<1>6. AllBefore(Gone \cup Queued, Elements(s) \ {"none"})
  BY <1>3, <1>5 DEF AllBefore
<1>7. \/ queue # <<>> /\ queue' = queue /\ delivering' = s
      \/ queue = <<>> /\ queue' = Append(queue, Head(s)) /\ delivering' = Tail(s)
  BY <1>2, RoomIsEmpty DEF DeliveryPutItems
<1>8. delivery' = IF delivering' # <<>> THEN "putting" ELSE IF finished' THEN "over" ELSE "ready"
  BY <1>2 DEF DeliveryPutItems
<1>9. finished \/ finished' \/ (s = <<"part">> /\ All \cap Over = {})
  BY <1>2, <1>3, <1>5
<1>10. taken' \in Nat /\ taken' # 0
  BY <1>2 DEF Typed, RestTyped, SequencesTyped
<1> QED
  BY <1>2, <1>3, <1>5, <1>6, <1>7, <1>8, <1>9, <1>10, DeliveryGoesOn

LEMMA OutputIsPut ==
  ASSUME Typed, Exchanging, DeliveryPuts
  PROVE  Exchanging' /\ PumpTyped'
<1>1. InboxAgrees /\ PumpAgrees /\ StagesAgree /\ DeliveryAgrees /\ LineInOrder /\ RepliedAgrees
  BY DEF Exchanging
<1>2. /\ UNCHANGED <<envoy, inbox, got, judgment, replied, pump, putting, stream, given, cancelled>>
      /\ delivery = "putting" /\ HasRoom(queue) /\ taken' = taken /\ finished' = finished
      /\ DeliveryPutItems(Tail(delivering), Append(queue, Head(delivering)), Tail(waiters))
  BY DEF DeliveryPuts, envoyVars, flags
<1>3. /\ stream # "none" /\ delivering # <<>> /\ Putting = {} /\ queue = <<>>
      /\ finished \/ (delivering = <<"part">> /\ All \cap Over = {})
      /\ Ordered(delivering) /\ delivering \in Seq(Answers) /\ taken' \in Nat
      /\ All = Gone \cup Queued \cup Delivering
  <2>1. stream # "none" /\ delivering # <<>> /\ Putting = {}
    BY <1>1, <1>2 DEF DeliveryAgrees
  <2>2. delivering \in Seq(Answers) /\ taken' \in Nat
    BY <1>2 DEF Typed, RestTyped, SequencesTyped
  <2>3. Ordered(delivering)
    BY <1>1 DEF DeliveryAgrees, Ordered
  <2>4. finished \/ (delivering = <<"part">> /\ All \cap Over = {})
    BY <1>1, <1>2 DEF DeliveryAgrees, StagesAgree
  <2>5. queue = <<>>
    BY <1>2, RoomIsEmpty
  <2> QED
    BY <2>1, <2>2, <2>3, <2>4, <2>5 DEF All
<1>4. AllBefore(Gone \cup Queued, Elements(delivering) \ {"none"})
  BY <1>1 DEF LineInOrder, AllBefore, Delivering
<1>5. /\ queue' = Append(queue, Head(delivering)) /\ delivering' = Tail(delivering)
      /\ delivery' = IF delivering' # <<>> THEN "putting" ELSE IF finished' THEN "over" ELSE "ready"
  BY <1>2 DEF DeliveryPutItems
<1>6. Delivering = Elements(delivering) \ {"none"}
  BY DEF Delivering
<1>7. finished => finished'
  BY <1>2
<1>8. taken' = 0 => taken = 0
  BY <1>2
<1> QED
  BY <1>2, <1>3, <1>4, <1>5, <1>6, <1>7, <1>8, DeliveryGoesOn

(* A step that leaves what was answered, and is to be, as it was.          *)
LEMMA NothingMoves ==
  ASSUME Typed, Exchanging, UNCHANGED <<envoy, inbox, got, pump, putting, queue, judgment>>,
         UNCHANGED <<finished, replied, delivery, delivering, taken>>,
         (stream' = "none") <=> (stream = "none"),
         \A k \in 1..Len(given') : given'[k] = "refuse" => k = 1
  PROVE  Exchanging' /\ PumpTyped'
<1>1. InboxAgrees /\ PumpAgrees /\ StagesAgree /\ DeliveryAgrees /\ LineInOrder /\ RepliedAgrees
  BY DEF Exchanging
<1>2. /\ Gone' = Gone /\ Queued' = Queued /\ Putting' = Putting /\ Delivering' = Delivering
      /\ All' = All /\ \A kind : Unread(kind)' <=> Unread(kind)
  BY DEF Gone, Queued, Putting, Delivering, All, Elements, Unread
<1>3. Elements(queue)' = Elements(queue) /\ Elements(putting)' = Elements(putting)
  BY DEF Elements
<1>4. PumpTyped'
  BY DEF Typed, PumpTyped
<1>5. PumpAgrees'
  BY <1>1, <1>2, <1>3 DEF PumpAgrees, Judging
<1>6. InboxAgrees' /\ RepliedAgrees'
  BY <1>1, <1>2, <1>3 DEF InboxAgrees, RepliedAgrees
<1>7. StagesAgree'
  BY <1>1, <1>2 DEF StagesAgree, Judging
<1>8. LineInOrder'
  BY <1>1, <1>2 DEF LineInOrder, AllBefore, Before
<1>9. DeliveryAgrees'
  BY <1>1, <1>2 DEF DeliveryAgrees, Before
<1> QED
  BY <1>4, <1>5, <1>6, <1>7, <1>8, <1>9 DEF Exchanging

LEMMA OutputIsGiven ==
  ASSUME Typed, Exchanging, NEW kind \in Outputs, Gives(kind)
  PROVE  Exchanging' /\ PumpTyped'
<1>1. /\ UNCHANGED <<envoy, inbox, got, pump, putting, queue, judgment>>
      /\ UNCHANGED <<finished, replied, delivery, delivering, taken>>
      /\ stream = "going" /\ stream' \in {"going", "over"}
      /\ given' = Append(given, kind) /\ (kind = "refuse" => given = <<>>)
  BY DEF Gives, envoyVars, flags, answers
<1>2. given \in Seq(Outputs) /\ \A k \in 1..Len(given) : given[k] = "refuse" => k = 1
  BY DEF Typed, RestTyped, SequencesTyped, Exchanging, DeliveryAgrees
<1>3. \A k \in 1..Len(given') : given'[k] = "refuse" => k = 1
  <2>1. /\ Len(given') = Len(given) + 1 /\ given'[Len(given) + 1] = kind
        /\ \A k \in 1..Len(given) : given'[k] = given[k]
        /\ Len(given) \in Nat
    BY <1>1, <1>2
  <2>2. \A k \in 1..(Len(given) + 1) : k \in 1..Len(given) \/ k = Len(given) + 1
    BY <2>1
  <2>3. kind = "refuse" => Len(given) = 0
    BY <1>1
  <2> QED
    BY <1>2, <2>1, <2>2, <2>3
<1> QED
  BY <1>1, <1>3, NothingMoves

(* Envoy is handed the answer in the queue.                                *)
LEMMA AnswerIsHanded ==
  ASSUME Typed, Exchanging, Yields
  PROVE  /\ Exchanging' /\ PumpTyped'
         /\ got' = Append(got, Head(queue)) /\ Head(queue) \in Kinds
         /\ AllBefore(Gone, {Head(queue)})
<1> DEFINE h == Head(queue)
<1>1. InboxAgrees /\ PumpAgrees /\ StagesAgree /\ DeliveryAgrees /\ LineInOrder /\ RepliedAgrees
  BY DEF Exchanging
<1>2. /\ UNCHANGED <<envoy, inbox, pump, putting, judgment, finished, replied>>
      /\ UNCHANGED <<delivery, delivering, taken, stream, given>>
      /\ queue # <<>> /\ h # "none" /\ got' = Append(got, h) /\ queue' = Tail(queue)
  BY DEF Yields, envoyVars, flags, reply
<1>3. /\ queue \in Seq(Answers) /\ Len(queue) <= 1 /\ Elements(queue) = {h} \cup Elements(Tail(queue))
      /\ h \in Answers /\ Tail(queue) \in Seq(Answers) /\ Len(Tail(queue)) = Len(queue) - 1
      /\ got \in Seq(Kinds) /\ Len(queue) >= 1
  BY <1>2, ElementsTail DEF Typed, PumpTyped, RestTyped, SequencesTyped
<1>4. queue' = <<>> /\ Elements(queue) = {h} /\ h \in Kinds
  <2>1. Tail(queue) = <<>>
    BY <1>3
  <2> QED
    BY <1>2, <1>3, <2>1, ElementsEmpty DEF Answers
<1>5. Queued = {h} /\ Queued' = {} /\ Gone' = Gone \cup {h} /\ Elements(queue)' = {}
  <2>1. Elements(got') = Elements(got) \cup {h}
    BY <1>2, <1>3, <1>4, ElementsAppend
  <2>2. Elements(queue)' = Elements(queue') /\ Elements(got)' = Elements(got')
    BY DEF Elements
  <2> QED
    BY <1>2, <1>4, <2>1, <2>2, ElementsEmpty DEF Queued, Gone
<1> HIDE DEF h
<1>6. Putting' = Putting /\ Delivering' = Delivering /\ (\A kind : Unread(kind)' <=> Unread(kind))
      /\ Elements(putting)' = Elements(putting)
  BY <1>2 DEF Putting, Delivering, Elements, Unread
<1>7. All' = All
  BY <1>5, <1>6 DEF All
<1>8. PumpTyped'
  <2>1. queue' \in Seq(Answers) /\ Len(queue') <= 1
    BY <1>4
  <2> QED
    BY <1>2, <2>1 DEF Typed, PumpTyped
<1>9. PumpAgrees'
  BY <1>1, <1>2, <1>5, <1>6 DEF PumpAgrees, Judging
<1>10. InboxAgrees' /\ RepliedAgrees'
  BY <1>1, <1>2, <1>6 DEF InboxAgrees, RepliedAgrees
<1>11. StagesAgree'
  BY <1>1, <1>2, <1>5, <1>6, <1>7 DEF StagesAgree, Judging
<1>12. LineInOrder'
  <2>1. AllBefore(Gone', Queued') /\ AllBefore(Gone' \cup Queued', Putting' \cup Delivering')
    BY <1>1, <1>5, <1>6 DEF LineInOrder, AllBefore
  <2> QED
    BY <2>1 DEF LineInOrder, AllBefore, Before
<1>13. DeliveryAgrees'
  BY <1>1, <1>2, <1>6, <1>7 DEF DeliveryAgrees, Before
<1>14. AllBefore(Gone, {h})
  BY <1>1, <1>5 DEF LineInOrder
<1> QED
  BY <1>2, <1>4, <1>8, <1>9, <1>10, <1>11, <1>12, <1>13, <1>14 DEF Exchanging, h

LEMMA InboxGrows ==
  ASSUME Typed, NEW m \in Messages, inbox' = Append(inbox, m)
  PROVE  /\ Len(inbox') = Len(inbox) + 1 /\ inbox'[Len(inbox) + 1] = m /\ Len(inbox) \in Nat
         /\ \A k \in 1..Len(inbox) : inbox'[k] = inbox[k]
         /\ \A k \in 1..Len(inbox') : k \in 1..Len(inbox) \/ k = Len(inbox) + 1
         /\ \A kind : Unread(kind)' <=> Unread(kind) \/ kind = m.kind
<1>1. inbox \in Seq(Messages)
  BY DEF Typed, RestTyped, SequencesTyped
<1>2. /\ Len(inbox') = Len(inbox) + 1 /\ inbox'[Len(inbox) + 1] = m /\ Len(inbox) \in Nat
      /\ \A k \in 1..Len(inbox) : inbox'[k] = inbox[k]
  BY <1>1
<1>3. \A k \in 1..Len(inbox') : k \in 1..Len(inbox) \/ k = Len(inbox) + 1
  BY <1>2
<1>4. Len(inbox) + 1 \in 1..Len(inbox') /\ 1..Len(inbox) \subseteq 1..Len(inbox')
  BY <1>2
<1>5. \A kind : Unread(kind)' <=> Unread(kind) \/ kind = m.kind
  BY <1>2, <1>3, <1>4 DEF Unread
<1> QED
  BY <1>2, <1>3, <1>5

(* What Envoy sends leaves the answers as they were.                       *)
LEMMA SentLeavesAnswers ==
  ASSUME Typed, Exchanging, UNCHANGED shim, NEW m \in Messages, inbox' = Append(inbox, m),
         pump = "judging" => envoy \in {"body", "all"} /\ envoy' \in {"body", "all"} /\ m.kind \notin Heads
  PROVE  /\ PumpAgrees' /\ LineInOrder' /\ PumpTyped' /\ All' = All /\ Queued' = Queued
         /\ Putting' = Putting /\ Gone' = Gone /\ Elements(putting)' = Elements(putting)
<1>1. InboxAgrees /\ PumpAgrees /\ StagesAgree /\ DeliveryAgrees /\ LineInOrder /\ RepliedAgrees
  BY DEF Exchanging
<1>2. UNCHANGED <<got, pump, putting, queue, judgment, finished, stream, delivering>>
  BY DEF shim, answers, flags, reply
<1>3. /\ Gone' = Gone /\ Queued' = Queued /\ Putting' = Putting /\ Delivering' = Delivering
      /\ All' = All /\ Elements(queue)' = Elements(queue) /\ Elements(putting)' = Elements(putting)
  BY <1>2 DEF Gone, Queued, Putting, Delivering, All, Elements
<1>4. PumpTyped'
  BY <1>2 DEF Typed, PumpTyped
<1>5. \A kind : Unread(kind)' <=> Unread(kind) \/ kind = m.kind
  BY InboxGrows
<1>6. LineInOrder'
  BY <1>1, <1>3 DEF LineInOrder, AllBefore, Before
<1>7. PumpAgrees'
  <2>1. pump = "judging" => judgment \in OfReply
    <3>1. judgment \in {"none", "request", "bodyless"} \cup OfReply
      BY DEF Typed, RestTyped, PlacesTyped, OfReply
    <3> QED
      BY <1>1, <3>1 DEF PumpAgrees, Judging
  <2> QED
    BY <1>1, <1>2, <1>3, <1>5, <2>1 DEF PumpAgrees, Judging, OfReply
<1> QED
  BY <1>3, <1>4, <1>6, <1>7

(* Before the reply, Envoy sends once it was answered all it sent.         *)
LEMMA SendsBeforeTheReply ==
  ASSUME Typed, Exchanging, NEW m \in Messages, inbox' = Append(inbox, m), UNCHANGED shim,
         envoy \notin {"body", "all"}, inbox = <<>>, pump # "judging",
         \/ /\ m.kind = "request_headers" /\ All = {}
            /\ envoy' = IF m.eos THEN "bodyless" ELSE "request_body"
         \/ m.kind = "request_body" /\ envoy' = "sent" /\ All = {"request_headers"}
         \/ /\ m.kind = "response_headers" /\ envoy' \in {"body", "all"} /\ Queued = {} /\ Putting = {}
            /\ All \subseteq {"request_headers", "request_body"}
  PROVE  Exchanging' /\ PumpTyped'
<1>1. InboxAgrees /\ PumpAgrees /\ StagesAgree /\ DeliveryAgrees /\ LineInOrder /\ RepliedAgrees
  BY DEF Exchanging
<1>2. UNCHANGED <<got, pump, putting, judgment, finished, replied, stream, delivery, delivering, given, taken>>
  BY DEF shim, answers, flags, reply
<1>3. /\ PumpAgrees' /\ LineInOrder' /\ PumpTyped' /\ All' = All /\ Queued' = Queued
      /\ Putting' = Putting /\ Elements(putting)' = Elements(putting)
  BY SentLeavesAnswers
<1>4. \A kind : Unread(kind)' <=> kind = m.kind
  <2>1. \A kind : ~Unread(kind)
    BY DEF Unread
  <2> QED
    BY <2>1, InboxGrows
<1>5. InboxAgrees'
  <2>1. Len(inbox') = 1 /\ inbox'[1] = m /\ \A k \in 1..Len(inbox') : k = 1
    BY InboxGrows
  <2> QED
    BY <2>1 DEF InboxAgrees
<1>6. stream = "none" /\ (pump # "over" /\ "none" \notin Elements(putting) => ~replied)
  BY <1>1 DEF DeliveryAgrees, RepliedAgrees
<1>7. StagesAgree'
  BY <1>1, <1>2, <1>3, <1>4 DEF StagesAgree, Judging
<1>8. DeliveryAgrees' /\ RepliedAgrees'
  BY <1>1, <1>2, <1>3, <1>6 DEF DeliveryAgrees, RepliedAgrees, Before
<1> QED
  BY <1>3, <1>5, <1>7, <1>8 DEF Exchanging

LEMMA SendsOfTheReply ==
  ASSUME Typed, Exchanging, NEW m \in Messages, inbox' = Append(inbox, m), UNCHANGED shim,
         envoy = "body", envoy' \in {"body", "all"}, m.kind \in {"response_body", "response_trailers"},
         m.kind = "response_trailers" => m.eos
  PROVE  Exchanging' /\ PumpTyped'
<1>1. InboxAgrees /\ PumpAgrees /\ StagesAgree /\ DeliveryAgrees /\ LineInOrder /\ RepliedAgrees
  BY DEF Exchanging
<1>2. UNCHANGED <<got, pump, putting, judgment, finished, replied, stream, delivery, delivering, given, taken>>
  BY DEF shim, answers, flags, reply
<1>3. /\ PumpAgrees' /\ LineInOrder' /\ PumpTyped' /\ All' = All /\ Queued' = Queued
      /\ Putting' = Putting /\ Elements(putting)' = Elements(putting)
  BY SentLeavesAnswers DEF Heads
<1>4. \A kind \in Heads : Unread(kind)' <=> Unread(kind)
  BY InboxGrows DEF Heads
<1>5. InboxAgrees'
  <2>1. /\ Len(inbox') = Len(inbox) + 1 /\ inbox'[Len(inbox) + 1] = m
        /\ \A k \in 1..Len(inbox) : inbox'[k] = inbox[k]
        /\ \A k \in 1..Len(inbox') : k \in 1..Len(inbox) \/ k = Len(inbox) + 1
    BY InboxGrows
  <2> QED
    BY <1>1, <2>1 DEF InboxAgrees
<1>6. StagesAgree'
  BY <1>1, <1>2, <1>3, <1>4 DEF StagesAgree, Judging, Heads
<1>7. DeliveryAgrees' /\ RepliedAgrees'
  BY <1>1, <1>2, <1>3, <1>4 DEF DeliveryAgrees, RepliedAgrees, Before, Heads
<1> QED
  BY <1>3, <1>5, <1>6, <1>7 DEF Exchanging

LEMMA EnvoyHasSent ==
  ASSUME EnvoyAssumption, Typed, Exchanging, EnvoySends
  PROVE  Exchanging' /\ PumpTyped'
<1>1. InboxAgrees /\ PumpAgrees /\ StagesAgree /\ DeliveryAgrees /\ LineInOrder /\ RepliedAgrees
  BY DEF Exchanging
<1>2. /\ judgment \in {"none", "request", "bodyless"} \cup OfReply
      /\ Statuses \subseteq {"ok", "error", "encoded"}
  BY DEF Typed, RestTyped, PlacesTyped, OfReply, EnvoyAssumption
<1>3. \A kind : Answered(kind) => kind \in Gone /\ kind \in All
  BY ElementsTyped DEF All
<1>4. ASSUME envoy \notin {"body", "all"}, ~Unread("request_headers"), ~Unread("request_body")
      PROVE  inbox = <<>>
  <2>1. inbox \in Seq(Messages)
    BY DEF Typed, RestTyped, SequencesTyped
  <2>2. inbox # <<>> => 1 \in 1..Len(inbox)
    BY <2>1
  <2> QED
    BY <1>1, <1>4, <2>2 DEF InboxAgrees, Unread
<1>5. ASSUME envoy \notin {"body", "all"}, ~Judging({"request"}), ~Judging({"bodyless"})
      PROVE  pump # "judging"
  BY <1>1, <1>2, <1>5 DEF PumpAgrees, Judging
<1>6. ASSUME envoy = "request_headers" PROVE Exchanging' /\ PumpTyped'
  <2>1. PICK eos \in BOOLEAN, route \in {"routed", "unrouted"} :
          Sends(Msg("request_headers", eos, route), IF eos THEN "bodyless" ELSE "request_body")
    BY <1>6 DEF EnvoySends
  <2> DEFINE m == Msg("request_headers", eos, route)
  <2>2. /\ m \in Messages /\ m.kind = "request_headers" /\ m.eos = eos
        /\ inbox' = Append(inbox, m) /\ UNCHANGED shim
        /\ envoy' = IF m.eos THEN "bodyless" ELSE "request_body"
    BY <2>1 DEF Sends, Msg, Messages
  <2>3. inbox = <<>> /\ All = {} /\ pump # "judging"
    BY <1>1, <1>5, <1>6 DEF InboxAgrees, StagesAgree, PumpAgrees
  <2> HIDE DEF m
  <2> QED
    BY <1>6, <2>2, <2>3, SendsBeforeTheReply
<1>7. ASSUME envoy = "request_body" PROVE Exchanging' /\ PumpTyped'
  <2> DEFINE m == Msg("request_body", TRUE, "ok")
  <2>1. Answered("request_headers")
    BY <1>7 DEF EnvoySends
  <2>2. /\ m \in Messages /\ m.kind = "request_body" /\ inbox' = Append(inbox, m)
        /\ UNCHANGED shim /\ envoy' = "sent"
    <3>1. inbox' = Append(inbox, m) /\ UNCHANGED shim /\ envoy' = "sent"
      BY <1>7 DEF EnvoySends, Sends
    <3>2. m \in Messages /\ m.kind = "request_body"
      BY DEF Msg, Messages
    <3> QED
      BY <3>1, <3>2
  <2> HIDE DEF m
  <2>3. All = {"request_headers"}
    BY <1>1, <1>3, <1>7, <2>1 DEF StagesAgree
  <2>4. inbox = <<>> /\ pump # "judging"
    <3>1. ~Unread("request_headers") /\ ~Judging({"bodyless"}) /\ ~Judging({"request"})
      BY <1>1, <1>7, <2>3 DEF StagesAgree, PumpAgrees
    <3>2. ~Unread("request_body")
      BY <1>1, <1>7 DEF InboxAgrees, Unread
    <3> QED
      BY <1>4, <1>5, <1>7, <3>1, <3>2
  <2> QED
    BY <1>7, <2>2, <2>3, <2>4, SendsBeforeTheReply
<1>8. ASSUME envoy \in {"sent", "bodyless"} PROVE Exchanging' /\ PumpTyped'
  <2>1. PICK eos \in BOOLEAN, status \in Statuses :
          Sends(Msg("response_headers", eos, status), IF eos THEN "all" ELSE "body")
    BY <1>8 DEF EnvoySends
  <2>2. /\ ~Answered("immediate")
        /\ \/ envoy = "sent" /\ Answered("request_body")
           \/ envoy = "bodyless" /\ Answered("request_headers")
    BY <1>8 DEF EnvoySends
  <2> DEFINE m == Msg("response_headers", eos, status)
  <2>3. /\ m \in Messages /\ m.kind = "response_headers" /\ inbox' = Append(inbox, m)
        /\ UNCHANGED shim /\ envoy' \in {"body", "all"}
    BY <1>2, <2>1 DEF Sends, Msg, Messages
  <2> HIDE DEF m
  <2>4. \/ /\ envoy = "sent" /\ "request_body" \in Gone
           /\ All = {"request_headers", "request_body"}
        \/ /\ envoy = "bodyless" /\ "request_headers" \in Gone
           /\ All = {"request_headers"}
    <3>2. CASE envoy = "sent"
      <4>1. "request_body" \in Gone /\ "request_body" \in All
        BY <1>3, <2>2, <3>2
      <4>2. "request_body" \notin {"request_headers"} /\ "request_body" \notin {"request_headers", "immediate"}
        OBVIOUS
      <4> QED
        BY <1>1, <3>2, <4>1, <4>2 DEF StagesAgree
    <3>3. CASE envoy = "bodyless"
      BY <1>1, <1>3, <2>2, <3>3 DEF StagesAgree
    <3> QED
      BY <1>8, <3>2, <3>3
  <2>5. Queued = {} /\ Putting = {}
    <3>1. /\ Queued \subseteq All /\ Putting \subseteq All
          /\ AllBefore(Gone, Queued) /\ AllBefore(Gone, Putting)
      BY <1>1 DEF All, LineInOrder, AllBefore
    <3>2. ~Before("request_body", "request_body") /\ ~Before("request_body", "request_headers")
          /\ ~Before("request_headers", "request_headers")
      BY OrderIs DEF Before
    <3> QED
      BY <2>4, <3>1, <3>2 DEF AllBefore
  <2>6. inbox = <<>> /\ pump # "judging"
    <3>1. ~Unread("request_headers") /\ ~Judging({"bodyless"}) /\ ~Judging({"request"})
          /\ ~Unread("request_body")
      <4>1. All # {} /\ (envoy = "sent" => All # {"request_headers"})
        BY <2>4
      <4>2. envoy = "bodyless" => ~Unread("request_body") /\ ~Judging({"request"})
        BY <1>1 DEF InboxAgrees, Unread, PumpAgrees
      <4> QED
        BY <1>1, <2>4, <4>1, <4>2 DEF StagesAgree
    <3> QED
      BY <1>4, <1>5, <1>8, <3>1
  <2> QED
    BY <1>8, <2>3, <2>4, <2>5, <2>6, SendsBeforeTheReply
<1>9. ASSUME envoy = "body" PROVE Exchanging' /\ PumpTyped'
  <2>1. PICK m \in {Msg("response_body", FALSE, "ok"), Msg("response_body", TRUE, "ok"),
                    Msg("response_trailers", TRUE, "ok")} :
          \E next \in {"body", "all"} : Sends(m, next)
    BY <1>9 DEF EnvoySends
  <2>2. /\ m \in Messages /\ m.kind \in {"response_body", "response_trailers"}
        /\ (m.kind = "response_trailers" => m.eos)
    <3>1. CASE m = Msg("response_body", FALSE, "ok")
      BY <3>1 DEF Msg, Messages
    <3>2. CASE m = Msg("response_body", TRUE, "ok")
      BY <3>2 DEF Msg, Messages
    <3>3. CASE m = Msg("response_trailers", TRUE, "ok")
      BY <3>3 DEF Msg, Messages
    <3> QED
      BY <3>1, <3>2, <3>3
  <2>3. inbox' = Append(inbox, m) /\ UNCHANGED shim /\ envoy' \in {"body", "all"}
    BY <2>1 DEF Sends
  <2> QED
    BY <1>9, <2>2, <2>3, SendsOfTheReply
<1>10. envoy \in {"request_headers", "request_body", "sent", "bodyless", "body"}
  BY DEF EnvoySends
<1> QED
  BY <1>6, <1>7, <1>8, <1>9, <1>10

-----------------------------------------------------------------------------
LEMMA MessageIsRead ==
  ASSUME Typed, Exchanging, Read
  PROVE  Exchanging' /\ PumpTyped'
<1>1. /\ pump = "reading" /\ inbox # <<>> /\ inbox' = Tail(inbox)
      /\ UNCHANGED <<envoyVars, got, process>>
  BY DEF Read
<1>2. CASE finished
  <2>1. OnFinished
    BY <1>2 DEF Read
  <2> QED
    BY <1>1, <1>2, <2>1, FinishedRead
<1>3. CASE ~finished
  <2>1. \/ OnRequestHeaders(Head(inbox)) \/ OnRequestBody(Head(inbox))
        \/ OnResponseHeaders(Head(inbox)) \/ OnResponseBody(Head(inbox))
    BY <1>3 DEF Read
  <2> QED
    BY <1>1, <1>3, <2>1, RequestHeadersRead, RequestBodyRead, ResponseHeadersRead, ResponseBodyRead
<1> QED
  BY <1>2, <1>3

(* Until the exchange is over, each step leaves its parts in agreement.    *)
LEMMA PartsStayAgreed ==
  ASSUME EnvoyAssumption, Typed, Exchanging, [Next]_vars, ~Ended
  PROVE  Exchanging' /\ PumpTyped'
<1>1. \A k \in 1..Len(given) : given[k] = "refuse" => k = 1
  BY DEF Exchanging, DeliveryAgrees
<1>2. CASE UNCHANGED vars
  BY <1>1, <1>2, NothingMoves DEF vars, envoyVars, answers, flags, reply
<1>3. CASE EnvoyHalfCloses \/ EnvoyCancels
  BY <1>1, <1>3, NothingMoves DEF EnvoyHalfCloses, EnvoyCancels, shim, answers, flags, reply
<1>4. CASE AbortedEnds
  BY <1>1, <1>4, NothingMoves DEF AbortedEnds, envoyVars, answers, flags, reply
<1>5. CASE ReadFails
  BY <1>5, Closed DEF ReadFails
<1>6. CASE \E kind \in Ends \cup {"release"} : Gives(kind)
  BY <1>6, OutputIsGiven DEF Outputs
<1>7. CASE EnvoySends \/ Read \/ PumpPuts \/ EndOfMessages \/ RequestJudged \/ ReplyJudged
  BY <1>7, EnvoyHasSent, MessageIsRead, PutsAnAnswer, MessagesEnd, RequestIsAnswered, ReplyIsAnswered
<1>8. CASE Takes \/ DeliveryPuts \/ Yields
  BY <1>8, OutputIsTaken, OutputIsPut, AnswerIsHanded
<1> QED
  BY <1>2, <1>3, <1>4, <1>5, <1>6, <1>7, <1>8 DEF Next, Envoys, Pump, Delivery

(* An exchange that is over answers no more, and tells the handler nothing *)
(* more of the reply.                                                      *)
LEMMA OverStaysOver ==
  ASSUME process = "over", pump = "over", NothingIsLeftDelivering, [Next]_vars
  PROVE  UNCHANGED <<got, pump, putting, queue, replied, forwarded, settled, delivery, stream, process>>
<1>1. delivery \in {"none", "over"} /\ stream # "going"
  BY DEF NothingIsLeftDelivering
<1>2. CASE UNCHANGED vars
  BY <1>2 DEF vars, answers, flags, reply
<1>3. CASE Envoys
  BY <1>3 DEF Envoys, EnvoySends, Sends, EnvoyHalfCloses, EnvoyCancels, shim, answers, flags, reply
<1>4. CASE Pump \/ ReadFails \/ Delivery \/ Yields \/ Ended
  BY <1>1, <1>4 DEF Pump, Read, PumpPuts, EndOfMessages, ReadFails, Delivery, Takes, DeliveryPuts, Yields, Ended
<1>5. CASE RequestJudged \/ ReplyJudged
  BY <1>5 DEF RequestJudged, ReplyJudged, answers, reply
<1>6. CASE \E kind \in Ends \cup {"release"} : Gives(kind)
  BY <1>1, <1>6 DEF Gives
<1>7. CASE AbortedEnds
  BY <1>7 DEF AbortedEnds, answers, flags, reply
<1> QED
  BY <1>2, <1>3, <1>4, <1>5, <1>6, <1>7 DEF Next

(* The handler is told of a reply when it begins or is found cut off, and  *)
(* it is either only while it was not told.                                *)
LEMMA ToldOnce ==
  ASSUME Typed, Exchanging, Len(settled) = (IF replied THEN 1 ELSE 0), [Next]_vars
  PROVE  /\ Len(settled') = IF replied' THEN 1 ELSE 0
         /\ Ended /\ forwarded' => replied'
<1>0. Ended /\ forwarded' => replied'
  BY DEF Ended, Close, Exchanging, DeliveryAgrees
<1> SUFFICES Len(settled') = IF replied' THEN 1 ELSE 0
  BY <1>0
<1>1. settled \in Seq(Ways) /\ replied \in BOOLEAN
  BY DEF Typed, RestTyped, SequencesTyped, FlagsTyped
<1>2. ASSUME ~replied, replied' = TRUE, NEW way \in Ways, settled' = Append(settled, way)
      PROVE  Len(settled') = IF replied' THEN 1 ELSE 0
  <2>1. Len(settled') = Len(settled) + 1 /\ Len(settled) = 0
    BY <1>1, <1>2, AppendTyped
  <2> QED
    BY <1>2, <2>1
<1>3. ASSUME UNCHANGED <<replied, settled>>
      PROVE  Len(settled') = IF replied' THEN 1 ELSE 0
  BY <1>3
<1>4. CASE UNCHANGED vars \/ Envoys \/ AbortedEnds \/ Yields
  BY <1>3, <1>4 DEF vars, Envoys, EnvoySends, Sends, EnvoyHalfCloses, EnvoyCancels, AbortedEnds, Yields, shim,
     flags, Ended, envoyVars
<1>5. CASE PumpPuts \/ RequestJudged \/ ReplyJudged \/ \E kind \in Ends \cup {"release"} : Gives(kind)
  BY <1>3, <1>5 DEF PumpPuts, RequestJudged, ReplyJudged, Gives, flags, Ended
<1>6. CASE Takes \/ DeliveryPuts
  <2>1. UNCHANGED <<replied, settled>>
    <3>1. CASE Takes
      BY <3>1, Zenon DEF Takes
    <3>2. CASE DeliveryPuts
      BY <3>2 DEF DeliveryPuts, flags
    <3> QED
      BY <1>6, <3>1, <3>2
  <2> QED
    BY <1>3, <2>1
<1>7. ASSUME Close
      PROVE  Len(settled') = IF replied' THEN 1 ELSE 0
  <2>1. CASE stream = "none" /\ forwarded /\ ~replied
    BY <1>2, <1>7, <2>1 DEF Close, Ways
  <2>2. CASE ~(stream = "none" /\ forwarded /\ ~replied)
    BY <1>3, <1>7, <2>2 DEF Close
  <2> QED
    BY <2>1, <2>2
<1>8. CASE Read
  <2>1. CASE ~finished /\ OnResponseHeaders(Head(inbox))
    <3>1. InboxAgrees /\ PumpAgrees /\ RepliedAgrees /\ pump = "reading"
      BY <1>8 DEF Exchanging, Read
    <3>2. ~replied
      <4>1. inbox # <<>> /\ inbox' = Tail(inbox) /\ envoy' = envoy /\ Head(inbox).kind = "response_headers"
        BY <1>8, <2>1 DEF Read, OnResponseHeaders, envoyVars
      <4>2. Unread("response_headers")
        BY <3>1, <4>1, ReadInOrder
      <4>3. putting = <<>> /\ "none" \notin Elements(putting)
        BY <3>1, ElementsEmpty DEF PumpAgrees
      <4> QED
        BY <3>1, <4>2, <4>3 DEF RepliedAgrees
    <3>3. replied' = TRUE /\ \E way \in Ways : settled' = Append(settled, way)
      BY <2>1 DEF OnResponseHeaders, Ways
    <3> QED
      BY <1>2, <3>2, <3>3
  <2>2. CASE finished \/ ~OnResponseHeaders(Head(inbox))
    <3>1. UNCHANGED <<replied, settled>>
      BY <1>8, <2>2 DEF Read, OnFinished, OnRequestHeaders, OnRequestBody, OnResponseBody, flags
    <3> QED
      BY <1>3, <3>1
  <2> QED
    BY <2>1, <2>2
<1>9. CASE EndOfMessages \/ ReadFails
  BY <1>3, <1>7, <1>9 DEF EndOfMessages, ReadFails, ClosesAndEnds, flags
<1>10. CASE Ended
  BY <1>7, <1>10 DEF Ended
<1> QED
  BY <1>4, <1>5, <1>6, <1>8, <1>9, <1>10 DEF Next, Pump, Delivery

LEMMA OrderIsKept ==
  ASSUME Typed, AnswersInOrder, NEW h \in Kinds, AllBefore(Gone, {h}), got' = Append(got, h)
  PROVE  AnswersInOrder'
<1>1. got \in Seq(Kinds)
  BY DEF Typed, RestTyped, SequencesTyped
<1>2. /\ Len(got') = Len(got) + 1 /\ got'[Len(got) + 1] = h /\ Len(got) \in Nat
      /\ \A k \in 1..Len(got) : got'[k] = got[k]
  BY <1>1
<1>3. ASSUME NEW i \in 1..Len(got'), NEW j \in 1..Len(got'), i < j
      PROVE  Before(got'[i], got'[j])
  <2>1. i \in 1..Len(got) /\ (j \in 1..Len(got) \/ j = Len(got) + 1)
    BY <1>2, <1>3
  <2>2. CASE j \in 1..Len(got)
    BY <1>2, <1>3, <2>1, <2>2 DEF AnswersInOrder, Before
  <2>3. CASE j = Len(got) + 1
    <3>1. got'[i] \in Gone /\ got'[j] = h
      BY <1>2, <2>1, <2>3 DEF Gone, Elements
    <3> QED
      BY <3>1 DEF AllBefore
  <2> QED
    BY <2>1, <2>2, <2>3
<1> QED
  BY <1>3 DEF AnswersInOrder, Before

LEMMA ExchangeBegins ==
  ASSUME Init
  PROVE  ExchangeInv
<1>1. Typed
  <2>1. PumpTyped
    BY DEF Init, PumpTyped
  <2>2. RestTyped
    <3>1. SequencesTyped
      BY DEF Init, SequencesTyped
    <3>2. FlagsTyped /\ PlacesTyped
      BY DEF Init, FlagsTyped, PlacesTyped
    <3> QED
      BY <3>1, <3>2 DEF RestTyped
  <2> QED
    BY <2>1, <2>2 DEF Typed
<1>2. /\ Gone = {} /\ Queued = {} /\ Putting = {} /\ Delivering = {} /\ All = {}
      /\ Elements(queue) = {} /\ Elements(putting) = {}
  BY ElementsEmpty DEF Init, Gone, Queued, Putting, Delivering, All
<1>3. \A kind : ~Unread(kind)
  BY DEF Init, Unread
<1>4. Len(putting) = 0 /\ Len(inbox) = 0 /\ Len(got) = 0 /\ Len(given) = 0 /\ Len(delivering) = 0
  BY DEF Init
<1>5. InboxAgrees /\ PumpAgrees
  <2>1. (\A k \in 2..Len(putting) : FALSE) /\ (\A k \in 1..Len(inbox) : FALSE) /\ ~(Len(putting) > 1)
    BY <1>4
  <2> QED
    BY <1>2, <2>1 DEF Init, InboxAgrees, PumpAgrees, Judging
<1>6. StagesAgree /\ LineInOrder /\ RepliedAgrees
  BY <1>2, <1>3 DEF Init, StagesAgree, LineInOrder, AllBefore, RepliedAgrees, Judging
<1>7. DeliveryAgrees
  <2>1. (\A k \in 1..Len(given) : FALSE) /\ (\A i, j \in 1..Len(delivering) : FALSE)
    BY <1>4
  <2> QED
    BY <2>1 DEF Init, DeliveryAgrees
<1>8. AnswersInOrder
  BY <1>4 DEF AnswersInOrder
<1>9. SettledAgrees /\ NothingIsLeftDelivering
  BY DEF Init, SettledAgrees, NothingIsLeftDelivering
<1> QED
  BY <1>1, <1>5, <1>6, <1>7, <1>8, <1>9 DEF Init, ExchangeInv, Exchanging

LEMMA ExchangeGoesOn ==
  ASSUME EnvoyAssumption, ExchangeInv, [Next]_vars
  PROVE  ExchangeInv'
<1>1. Typed /\ AnswersInOrder /\ SettledAgrees /\ NothingIsLeftDelivering /\ RestTyped'
  BY RestStaysTyped DEF ExchangeInv
<1>2. process \in {"on", "over"}
  BY <1>1 DEF Typed, RestTyped, PlacesTyped
<1>3. got' = got => AnswersInOrder'
  BY <1>1 DEF AnswersInOrder
<1>4. CASE process = "over"
  <2>1. pump = "over"
    BY <1>4 DEF ExchangeInv
  <2>2. UNCHANGED <<got, pump, putting, queue, replied, forwarded, settled, delivery, stream, process>>
    BY <1>1, <1>4, <2>1, OverStaysOver
  <2>3. PumpTyped' /\ SettledAgrees' /\ NothingIsLeftDelivering'
    BY <1>1, <2>2 DEF Typed, PumpTyped, SettledAgrees, NothingIsLeftDelivering
  <2> QED
    BY <1>1, <1>3, <1>4, <2>1, <2>2, <2>3 DEF ExchangeInv, Typed
<1>5. CASE process = "on" /\ ~Ended
  <2>1. Exchanging
    BY <1>5 DEF ExchangeInv
  <2>2. Exchanging' /\ PumpTyped'
    BY <1>1, <1>5, <2>1, PartsStayAgreed
  <2>3. process' = "on"
    <3>1. CASE UNCHANGED vars \/ Envoys \/ Pump \/ ReadFails \/ RequestJudged \/ ReplyJudged
      BY <1>5, <3>1 DEF vars, Envoys, EnvoySends, Sends, EnvoyHalfCloses, EnvoyCancels, shim, Pump, Read,
         PumpPuts, EndOfMessages, ReadFails, ClosesAndEnds, RequestJudged, ReplyJudged
    <3>2. CASE AbortedEnds \/ Yields \/ \E kind \in Ends \cup {"release"} : Gives(kind)
      BY <1>5, <3>2 DEF AbortedEnds, Yields, Gives
    <3>3. CASE Delivery
      BY <1>5, <3>3, Zenon DEF Delivery, Takes, DeliveryPuts
    <3> QED
      BY <1>5, <3>1, <3>2, <3>3 DEF Next
  <2>4. SettledAgrees'
    BY <1>1, <2>1, <2>3, ToldOnce DEF SettledAgrees
  <2>5. AnswersInOrder'
    <3>1. CASE Yields
      BY <1>1, <2>1, <3>1, AnswerIsHanded, OrderIsKept
    <3>2. CASE UNCHANGED vars \/ Envoys \/ Pump \/ ReadFails \/ RequestJudged \/ ReplyJudged
      <4>1. got' = got
        BY <3>2 DEF vars, Envoys, EnvoySends, Sends, EnvoyHalfCloses, EnvoyCancels, shim, Pump, Read,
           PumpPuts, EndOfMessages, ReadFails, ClosesAndEnds, RequestJudged, ReplyJudged
      <4> QED
        BY <1>3, <4>1
    <3>3. CASE AbortedEnds \/ \E kind \in Ends \cup {"release"} : Gives(kind)
      BY <1>3, <3>3 DEF AbortedEnds, Gives
    <3>4. CASE Delivery
      <4>1. got' = got
        BY <3>4, Zenon DEF Delivery, Takes, DeliveryPuts
      <4> QED
        BY <1>3, <4>1
    <3> QED
      BY <1>5, <3>1, <3>2, <3>3, <3>4 DEF Next
  <2>6. NothingIsLeftDelivering'
    BY <2>3 DEF NothingIsLeftDelivering
  <2> QED
    BY <1>1, <2>2, <2>3, <2>4, <2>5, <2>6 DEF ExchangeInv, Typed
<1>6. CASE process = "on" /\ Ended
  <2>1. Exchanging
    BY <1>6 DEF ExchangeInv
  <2>2. /\ process' = "over" /\ pump' = "over" /\ queue' = <<>> /\ UNCHANGED <<got, putting>> /\ Close
    BY <1>6 DEF Ended
  <2>3. PumpTyped'
    BY <1>1, <2>2 DEF Typed, PumpTyped
  <2>4. SettledAgrees'
    BY <1>1, <1>6, <2>1, ToldOnce DEF SettledAgrees
  <2>5. NothingIsLeftDelivering'
    <3>1. stream \in {"none", "going", "over", "aborted"}
      BY <1>1 DEF Typed, RestTyped, PlacesTyped
    <3> QED
      BY <2>2, <3>1 DEF Close, NothingIsLeftDelivering
  <2> QED
    BY <1>1, <1>3, <2>2, <2>3, <2>4, <2>5 DEF ExchangeInv, Typed
<1> QED
  BY <1>2, <1>4, <1>5, <1>6

LEMMA ExchangeInvImplies ==
  ASSUME ExchangeInv
  PROVE  TypeOK /\ SettledOnce /\ AnswersInOrder /\ NothingIsLeftDelivering
<1>1. Typed /\ SettledAgrees /\ AnswersInOrder /\ NothingIsLeftDelivering
  BY DEF ExchangeInv
<1>2. TypeOK
  BY <1>1 DEF Typed, PumpTyped, RestTyped, SequencesTyped, PlacesTyped, TypeOK, Answers
<1>3. SettledOnce
  BY <1>1 DEF SettledAgrees, SettledOnce
<1> QED
  BY <1>1, <1>2, <1>3

-----------------------------------------------------------------------------
LEMMA ExchangeHolds ==
  ASSUME EnvoyAssumption
  PROVE  Safe => []ExchangeInv
<1>1. Init => ExchangeInv
  BY ExchangeBegins
<1>2. ExchangeInv /\ [Next]_vars => ExchangeInv'
  BY ExchangeGoesOn
<1> QED
  BY <1>1, <1>2, PTL DEF Safe

(* Envoy is answered in the order of the exchange: each part once, the     *)
(* body's after the headers', nothing after the end of it, and a refusal   *)
(* with a status only while none of the reply has gone out, whichever of   *)
(* the pump and the delivery puts the answers (_answers, _deliver).        *)
THEOREM EnvoyIsAnsweredInOrder ==
  ASSUME EnvoyAssumption
  PROVE  Safe => []AnswersInOrder
<1>1. ExchangeInv => AnswersInOrder
  BY ExchangeInvImplies
<1> QED
  BY <1>1, ExchangeHolds, PTL

(* The handler is told once what became of a reply, and always of a        *)
(* request that was sent on, however the exchange stops (close).           *)
THEOREM RepliesAreSettled ==
  ASSUME EnvoyAssumption
  PROVE  Safe => []SettledOnce
<1>1. ExchangeInv => SettledOnce
  BY ExchangeInvImplies
<1> QED
  BY <1>1, ExchangeHolds, PTL

(* Once Envoy is answered nothing more, no task delivers a stream and no   *)
(* stream goes on judging (Process, close).                                *)
THEOREM NothingDeliversAfterwards ==
  ASSUME EnvoyAssumption
  PROVE  Safe => []NothingIsLeftDelivering
<1>1. ExchangeInv => NothingIsLeftDelivering
  BY ExchangeInvImplies
<1> QED
  BY <1>1, ExchangeHolds, PTL

(* An exchange's variables keep their types.                               *)
THEOREM ExchangesAreTyped ==
  ASSUME EnvoyAssumption
  PROVE  Safe => []TypeOK
<1>1. ExchangeInv => TypeOK
  BY ExchangeInvImplies
<1> QED
  BY <1>1, ExchangeHolds, PTL
==============================================================================
