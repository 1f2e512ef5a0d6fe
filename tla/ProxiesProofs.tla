--------------------------- MODULE ProxiesProofs ----------------------------
(***************************************************************************)
(* For any sizes and limits of the relay: the sidecar is told a reply has  *)
(* ended only when it has all of it, and an error under its status is all  *)
(* the caller is sent.                                                     *)
(***************************************************************************)
EXTENDS MCProxies, TLAPS

(* What was read is with the sidecar, on its way or pending, until handing *)
(* over stops; and only a waiting uploader may take more of it.            *)
HandedOK ==
  /\ relay = "beginning" => uploader = "none" /\ ~told
  /\ ~stopped => handed + inflight + pending = read
  /\ uploader # "sending" => inflight = 0
  /\ told => uploader \in {"ended", "done"}
  /\ told \/ uploader = "ending" => source = "ended" /\ handed = read

(* While the relay goes on the caller has no error, and nothing at all     *)
(* before something is committed, unless the reply goes through unjudged.  *)
YieldsOK ==
  /\ relay # "over" => \A k \in DOMAIN got : got[k].what # "error"
  /\ relay \notin {"over", "passing"} /\ ~committed => got = <<>>
  /\ sent => committed
  /\ StatusErrorComesFirst

USE RelayAssumption

LEMMA ItemTyped ==
  ASSUME NEW what \in {"error", "error_event", "keepalive", "garbled", "refuse", "not_judged",
                       "finished", "raised"}
  PROVE  Item(what) \in Items /\ Item(what).what = what
BY DEF Item, Items

LEMMA ReleaseTyped ==
  ASSUME NEW n \in Nat
  PROVE  Release(n) \in Items /\ Release(n).what = "release"
         /\ Raw(n) \in Items /\ Raw(n).what = "raw"
BY DEF Release, Raw, Items

(* What is said of a sequence of items that one is appended to.            *)
LEMMA Appended ==
  ASSUME NEW s \in Seq(Items), NEW item \in Items
  PROVE  /\ Append(s, item) \in Seq(Items) /\ Len(Append(s, item)) = Len(s) + 1
         /\ \A k \in DOMAIN Append(s, item) :
              \/ k \in DOMAIN s /\ Append(s, item)[k] = s[k]
              \/ k = Len(s) + 1 /\ Append(s, item)[k] = item
OBVIOUS

LEMMA RefusedTyped == Refused \in Items /\ Refused.what \in {"error", "error_event"}
                      /\ (committed => Refused.what = "error_event")
BY ItemTyped DEF Refused, ErrorEvent, StatusError

-----------------------------------------------------------------------------
LEMMA InitTyped == Init => TypeOK
BY DEF Init, TypeOK, RelayAssumption

LEMMA SentTyped ==
  ASSUME TypeOK, NEW item \in Items
  PROVE  /\ Sends(item) => got' \in Seq(Items)
         /\ SendsLast(item) => got' \in Seq(Items) /\ outputs' \in Seq(Items) /\ relay' = "over"
<1>1. got \in Seq(Items) BY DEF TypeOK
<1>2. Append(got, item) \in Seq(Items) BY <1>1, Appended
<1>3. Sends(item) => got' \in Seq(Items) BY <1>2 DEF Sends
<1>4. SendsLast(item) => Sends(item) /\ outputs' = <<>> /\ relay' = "over"
  BY DEF SendsLast, Closes
<1>5. <<>> \in Seq(Items) OBVIOUS
<1> QED BY <1>3, <1>4, <1>5

LEMMA GivesUpTyped ==
  ASSUME TypeOK, GivesUp
  PROVE  /\ pending' \in Nat /\ unsent' = unsent
         /\ outputs' \in Seq(Items) /\ got' \in Seq(Items)
         /\ relay' \in {"over", "passing"}
<1>1. ErrorEvent \in Items /\ Refused \in Items
  BY ItemTyped, RefusedTyped DEF ErrorEvent
<1>2. pending' \in Nat /\ unsent' = unsent
  BY DEF GivesUp, TypeOK, Stops
<1>3. CASE SendsLast(ErrorEvent) BY <1>1, <1>2, <1>3, SentTyped
<1>4. CASE SendsLast(Refused) BY <1>1, <1>2, <1>4, SentTyped
<1>5. CASE relay' = "passing" /\ outputs' = <<>> /\ UNCHANGED <<got, letGo>>
  BY <1>2, <1>5 DEF TypeOK
<1> QED BY <1>3, <1>4, <1>5 DEF GivesUp

LEMMA LastOutputTyped ==
  ASSUME TypeOK, NEW what \in {"finished", "refuse", "error_event", "not_judged"},
         LastOutput(what)
  PROVE  /\ pending' \in Nat /\ unsent' = unsent
         /\ outputs' \in Seq(Items) /\ got' \in Seq(Items)
         /\ relay' \in {"over", "passing"}
<1>1. /\ ErrorEvent \in Items /\ Refused \in Items /\ Item("finished") \in Items
  BY ItemTyped, RefusedTyped DEF ErrorEvent
<1>2. CASE GoesUnjudged(what) BY <1>2 DEF LastOutput, TypeOK, Stops
<1>3. CASE ~GoesUnjudged(what)
  <2>1. pending' \in Nat /\ unsent' = unsent BY <1>3 DEF LastOutput, TypeOK
  <2> DEFINE last == CASE what = "refuse" -> Refused [] what = "finished" -> Item("finished")
                       [] OTHER -> ErrorEvent
  <2>2. last \in Items BY <1>1
  <2>3. SendsLast(last) BY <1>3 DEF LastOutput
  <2> QED BY <2>1, <2>2, <2>3, SentTyped
<1> QED BY <1>2, <1>3

LEMMA StepTyped == TypeOK /\ [Next]_vars => TypeOK'
<1> SUFFICES ASSUME TypeOK, [Next]_vars PROVE TypeOK'
  OBVIOUS
<1> USE DEF TypeOK, readVars, handVars, sidecarVars, yieldVars
<1>1. CASE Read BY <1>1 DEF Read
<1>2. CASE ReaderGoesOn BY <1>2 DEF ReaderGoesOn
<1>3. CASE ReadEnds BY <1>3 DEF ReadEnds
<1>4. CASE Upload BY <1>4 DEF Upload, UploadRest
<1>5. CASE SidecarTakes BY <1>5 DEF SidecarTakes
<1>6. CASE UploadAnswered BY <1>6 DEF UploadAnswered
<1>7. CASE UploadFails BY <1>7 DEF UploadFails
<1>8. CASE SidecarReleases
  <2>1. KeepAlive \in Items /\ Garbled \in Items /\ \A n \in Nat : Release(n) \in Items
    BY ItemTyped, ReleaseTyped DEF KeepAlive, Garbled
  <2>2. released' \in Nat BY <1>8 DEF SidecarReleases, Gives
  <2>3. \E item \in Items : ready' = Append(ready, item)
    BY <1>8, <2>1 DEF SidecarReleases, Gives
  <2> QED BY SMTT(30), <1>8, <2>2, <2>3, Appended DEF SidecarReleases, Gives
<1>9. CASE SidecarEnds
  <2>1. \E item \in Items : ready' = Append(ready, item)
    BY <1>9, ItemTyped DEF SidecarEnds, Gives
  <2> QED BY SMTT(30), <1>9, <2>1, Appended DEF SidecarEnds, Gives
<1>10. CASE OutOfTime BY <1>10 DEF OutOfTime, Stops
<1>11. CASE Begin BY <1>11, GivesUpTyped DEF Begin
<1>12. CASE PollAnswered BY <1>12 DEF PollAnswered
<1>13. CASE PollFails BY <1>13 DEF PollFails
<1>14. CASE WaitEnds
  <2>1. CASE GivesUp BY <1>14, <2>1, GivesUpTyped DEF WaitEnds
  <2>2. CASE relay = "answered" /\ ~GivesUp BY <1>14, <2>2 DEF WaitEnds
  <2>3. CASE SendsLast(Item("raised")) /\ UNCHANGED <<unsent, pending>>
    <3>1. got' \in Seq(Items) /\ outputs' \in Seq(Items) /\ relay' = "over"
      BY <2>3, ItemTyped, SentTyped
    <3> QED BY <1>14, <2>3, <3>1 DEF WaitEnds
  <2> QED BY <1>14, <2>1, <2>2, <2>3 DEF WaitEnds
<1>15. CASE YieldOutput
  <2> DEFINE output == Head(outputs)
  <2>1. output \in Items /\ Tail(outputs) \in Seq(Items) BY <1>15 DEF YieldOutput
  <2>2. CASE Sends(output) /\ outputs' = Tail(outputs) /\ UNCHANGED <<pending, relay>>
             /\ unsent' \in {0, unsent}
    <3>1. got' \in Seq(Items) BY <2>1, <2>2, SentTyped
    <3> QED BY <1>15, <2>1, <2>2, <3>1 DEF YieldOutput
  <2>3. CASE GivesUp BY <1>15, <2>3, GivesUpTyped DEF YieldOutput
  <2>4. CASE output.what \in {"finished", "refuse", "error_event", "not_judged"}
             /\ LastOutput(output.what)
    <3>1. /\ pending' \in Nat /\ unsent' = unsent /\ outputs' \in Seq(Items)
          /\ got' \in Seq(Items) /\ relay' \in {"over", "passing"}
      BY <2>4, LastOutputTyped
    <3> QED BY <1>15, <3>1 DEF YieldOutput
  <2> QED BY <1>15, <2>2, <2>3, <2>4 DEF YieldOutput
<1>16. CASE PollAgain BY <1>16 DEF PollAgain
<1>17. CASE PassOn
  <2>1. CASE unsent > 0
    <3>1. read - unsent + 1 \in Nat BY <2>1
    <3>2. Raw(read - unsent + 1) \in Items BY <3>1, ReleaseTyped
    <3>3. Sends(Raw(read - unsent + 1)) BY <1>17, <2>1 DEF PassOn
    <3>4. got' \in Seq(Items) BY <3>2, <3>3, SentTyped
    <3> QED BY <1>17, <2>1, <3>4 DEF PassOn
  <2>2. CASE unsent = 0
    <3> DEFINE last == Item(IF source = "raised" THEN "raised" ELSE "finished")
    <3>1. last \in Items BY ItemTyped
    <3>2. Sends(last) /\ Closes(endedAt) BY <1>17, <2>2 DEF PassOn, Sends
    <3>3. got' \in Seq(Items) BY <3>1, <3>2, SentTyped
    <3>4. outputs' = <<>> /\ relay' = "over" BY <3>2 DEF Closes
    <3> HIDE DEF last
    <3> QED BY <1>17, <2>2, <3>3, <3>4 DEF PassOn
  <2>3. unsent > 0 \/ unsent = 0
    <3>1. unsent \in 0..read /\ read \in Nat OBVIOUS
    <3> QED BY <3>1
  <2> QED BY <2>1, <2>2, <2>3
<1>18. CASE CallerLeaves BY <1>18 DEF CallerLeaves, Closes
<1>19. CASE UNCHANGED vars BY <1>19 DEF vars
<1> QED
  BY <1>1, <1>2, <1>3, <1>4, <1>5, <1>6, <1>7, <1>8, <1>9, <1>10, <1>11, <1>12, <1>13, <1>14,
     <1>15, <1>16, <1>17, <1>18, <1>19 DEF Next, Reader, Uploads, Yields

(* The relay's variables have values of their types in every state.        *)
THEOREM AlwaysTyped == Spec => []TypeOK
BY InitTyped, StepTyped, PTL DEF Spec

-----------------------------------------------------------------------------
LEMMA InitHanded == Init => HandedOK
BY DEF Init, HandedOK

LEMMA GivesUpStops ==
  ASSUME GivesUp
  PROVE  Stops /\ relay' \in {"over", "passing"}
BY DEF GivesUp, SendsLast, Closes

LEMMA StepHanded == TypeOK /\ HandedOK /\ [Next]_vars => HandedOK'
<1> SUFFICES ASSUME TypeOK, HandedOK, [Next]_vars PROVE HandedOK'
  OBVIOUS
<1> USE DEF TypeOK, HandedOK, readVars, handVars, sidecarVars, yieldVars
<1>1. CASE Read
  <2>1. /\ source = "more" /\ read' = read + 1 /\ UNCHANGED <<source, handVars, relay>>
        /\ stopped' => pending' = 0
        /\ ~stopped' => ~stopped /\ pending' = pending + 1
    BY <1>1 DEF Read
  <2> QED BY <2>1
<1>2. CASE ReaderGoesOn BY <1>2 DEF ReaderGoesOn
<1>3. CASE ReadEnds BY <1>3 DEF ReadEnds
<1>4. CASE Upload BY <1>4 DEF Upload, UploadRest
<1>5. CASE SidecarTakes BY <1>5 DEF SidecarTakes
<1>6. CASE UploadAnswered BY <1>6 DEF UploadAnswered
<1>7. CASE UploadFails BY <1>7 DEF UploadFails
<1>8. CASE SidecarReleases
  <2>1. UNCHANGED <<readVars, handVars, pending, stopped, relay>>
    BY <1>8 DEF SidecarReleases, Gives
  <2> QED BY <2>1
<1>9. CASE SidecarEnds
  <2>1. UNCHANGED <<readVars, handVars, pending, stopped, relay>>
    BY <1>9 DEF SidecarEnds, Gives
  <2> QED BY <2>1
<1>10. CASE OutOfTime BY <1>10 DEF OutOfTime, Stops
<1>11. CASE Begin BY <1>11, GivesUpStops DEF Begin, Stops
<1>12. CASE PollAnswered BY <1>12 DEF PollAnswered
<1>13. CASE PollFails BY <1>13 DEF PollFails
<1>14. CASE WaitEnds BY <1>14, GivesUpStops DEF WaitEnds, Stops, SendsLast, Closes
<1>15. CASE YieldOutput
  <2>1. relay = "yielding" /\ UNCHANGED <<readVars, handVars>>
    BY <1>15 DEF YieldOutput
  <2>2. \A what : LastOutput(what) =>
          (Stops \/ UNCHANGED <<stopped, pending>>) /\ relay' \in {"passing", "over"}
    BY DEF LastOutput, SendsLast, Closes
  <2>3. (Stops \/ UNCHANGED <<stopped, pending>>) /\ relay' # "beginning"
    BY <1>15, <2>2, GivesUpStops DEF YieldOutput
  <2> QED BY <2>1, <2>3 DEF Stops
<1>16. CASE PollAgain BY <1>16 DEF PollAgain
<1>17. CASE PassOn BY <1>17 DEF PassOn, Closes
<1>18. CASE CallerLeaves BY <1>18 DEF CallerLeaves, Closes
<1>19. CASE UNCHANGED vars BY <1>19 DEF vars
<1> QED
  BY <1>1, <1>2, <1>3, <1>4, <1>5, <1>6, <1>7, <1>8, <1>9, <1>10, <1>11, <1>12, <1>13, <1>14,
     <1>15, <1>16, <1>17, <1>18, <1>19 DEF Next, Reader, Uploads, Yields

(* The sidecar is told a reply has ended only when it has all of it.       *)
THEOREM JudgesTheWholeReply == Spec => []SidecarJudgesTheWholeReply
<1>1. TypeOK /\ HandedOK => SidecarJudgesTheWholeReply
  BY DEF HandedOK, SidecarJudgesTheWholeReply
<1> QED BY InitTyped, StepTyped, InitHanded, StepHanded, <1>1, PTL DEF Spec

-----------------------------------------------------------------------------
LEMMA InitYields == Init => YieldsOK
BY DEF Init, YieldsOK, StatusErrorComesFirst

(* What may be sent the caller while the relay goes on: an error under its *)
(* status only when nothing was.                                           *)
LEMMA SendYields ==
  ASSUME TypeOK, YieldsOK, relay # "over", NEW item \in Items, Sends(item),
         item.what = "error" => got = <<>>
  PROVE  /\ StatusErrorComesFirst'
         /\ item.what # "error" => \A k \in DOMAIN got' : got'[k].what # "error"
<1>1. got \in Seq(Items) BY DEF TypeOK
<1>2. \A k \in DOMAIN got : got[k].what # "error" BY DEF YieldsOK
<1>3. got' = Append(got, item) BY DEF Sends
<1>4. CASE item.what = "error"
  <2>1. got' = <<item>> BY <1>3, <1>4
  <2> QED BY <1>4, <2>1 DEF StatusErrorComesFirst
<1>5. CASE item.what # "error"
  <2>1. \A k \in DOMAIN got' : got'[k].what # "error" BY <1>1, <1>2, <1>3, <1>5, Appended
  <2> QED BY <1>5, <2>1 DEF StatusErrorComesFirst
<1> QED BY <1>4, <1>5

LEMMA LastSendYields ==
  ASSUME TypeOK, YieldsOK, relay # "over", NEW item \in Items, SendsLast(item),
         item.what = "error" => got = <<>>, sent' => committed'
  PROVE  YieldsOK'
<1>1. Sends(item) /\ relay' = "over" BY DEF SendsLast, Closes
<1>2. StatusErrorComesFirst' BY <1>1, SendYields
<1> QED BY <1>1, <1>2 DEF YieldsOK

LEMMA RefusedYields ==
  ASSUME YieldsOK, relay \notin {"over", "passing"}
  PROVE  Refused.what = "error" => got = <<>>
<1>1. committed => Refused.what # "error" BY RefusedTyped
<1>2. ~committed => got = <<>> BY DEF YieldsOK
<1> QED BY <1>1, <1>2

LEMMA GivesUpYields ==
  ASSUME TypeOK, YieldsOK, relay \notin {"over", "passing"}, GivesUp
  PROVE  YieldsOK'
<1>1. sent' => committed' BY DEF GivesUp, YieldsOK
<1>2. CASE SendsLast(ErrorEvent)
  BY <1>1, <1>2, LastSendYields, ItemTyped DEF ErrorEvent
<1>3. CASE SendsLast(Refused)
  BY <1>1, <1>3, LastSendYields, RefusedTyped, RefusedYields
<1>4. CASE relay' = "passing" /\ UNCHANGED got
  BY <1>1, <1>4 DEF YieldsOK, StatusErrorComesFirst
<1> QED BY <1>2, <1>3, <1>4 DEF GivesUp

LEMMA LastOutputYields ==
  ASSUME TypeOK, YieldsOK, relay = "yielding",
         NEW what \in {"finished", "refuse", "error_event", "not_judged"}, LastOutput(what)
  PROVE  YieldsOK'
<1>1. sent' => committed' BY DEF LastOutput, YieldsOK
<1>2. CASE GoesUnjudged(what)
  <2>1. relay' = "passing" /\ UNCHANGED got BY <1>2 DEF LastOutput
  <2> QED BY <1>1, <2>1 DEF YieldsOK, StatusErrorComesFirst
<1>3. CASE ~GoesUnjudged(what)
  <2> DEFINE last == CASE what = "refuse" -> Refused [] what = "finished" -> Item("finished")
                       [] OTHER -> ErrorEvent
  <2>1. last \in Items /\ (last.what = "error" => got = <<>>)
    BY ItemTyped, RefusedTyped, RefusedYields DEF ErrorEvent
  <2>2. SendsLast(last) BY <1>3 DEF LastOutput
  <2> HIDE DEF last
  <2> QED BY <1>1, <2>1, <2>2, LastSendYields
<1> QED BY <1>2, <1>3

LEMMA StepYields == TypeOK /\ YieldsOK /\ [Next]_vars => YieldsOK'
<1> SUFFICES ASSUME TypeOK, YieldsOK, [Next]_vars PROVE YieldsOK'
  OBVIOUS
<1> USE DEF YieldsOK, StatusErrorComesFirst, readVars, handVars, sidecarVars, yieldVars
<1>1. CASE Read BY <1>1 DEF Read
<1>2. CASE ReaderGoesOn BY <1>2 DEF ReaderGoesOn
<1>3. CASE ReadEnds BY <1>3 DEF ReadEnds
<1>4. CASE Upload BY <1>4 DEF Upload
<1>5. CASE SidecarTakes BY <1>5 DEF SidecarTakes
<1>6. CASE UploadAnswered BY <1>6 DEF UploadAnswered
<1>7. CASE UploadFails BY <1>7 DEF UploadFails
<1>8. CASE SidecarReleases BY <1>8 DEF SidecarReleases, Gives
<1>9. CASE SidecarEnds BY <1>9 DEF SidecarEnds, Gives
<1>10. CASE OutOfTime BY <1>10 DEF OutOfTime, Stops
<1>12. CASE PollAnswered BY <1>12 DEF PollAnswered
<1>13. CASE PollFails BY <1>13 DEF PollFails
<1>16. CASE PollAgain BY <1>16 DEF PollAgain
<1>18. CASE CallerLeaves BY <1>18 DEF CallerLeaves, Closes
<1>19. CASE UNCHANGED vars BY <1>19 DEF vars
<1>11. CASE Begin BY <1>11, GivesUpYields DEF Begin
<1>14. CASE WaitEnds
  <2>1. CASE GivesUp BY <1>14, <2>1, GivesUpYields DEF WaitEnds
  <2>2. CASE UNCHANGED <<sent, committed, got>> /\ relay = "answered" /\ relay' = "yielding"
    BY <2>2
  <2>3. CASE UNCHANGED <<sent, committed>> /\ relay = "polling" /\ SendsLast(Item("raised"))
    BY <2>3, LastSendYields, ItemTyped
  <2> QED BY <1>14, <2>1, <2>2, <2>3 DEF WaitEnds
<1>15. CASE YieldOutput
  <2> DEFINE output == Head(outputs)
  <2>1. output \in Items /\ relay = "yielding" BY <1>15 DEF YieldOutput, TypeOK
  <2>2. CASE /\ output = KeepAlive \/ output.what = "release"
             /\ Sends(output) /\ committed' = TRUE /\ relay' = relay
    <3>1. output.what # "error" BY <2>2, ItemTyped DEF KeepAlive
    <3>2. \A k \in DOMAIN got' : got'[k].what # "error" BY <2>1, <2>2, <3>1, SendYields
    <3> QED BY <2>1, <2>2, <3>2
  <2>3. CASE GivesUp BY <2>1, <2>3, GivesUpYields
  <2>4. CASE output.what \in {"finished", "refuse", "error_event", "not_judged"}
             /\ LastOutput(output.what)
    BY <2>1, <2>4, LastOutputYields
  <2> QED BY <1>15, <2>2, <2>3, <2>4 DEF YieldOutput
<1>17. CASE PassOn
  <2>1. CASE unsent > 0
    <3> DEFINE raw == Raw(read - unsent + 1)
    <3>1. unsent \in 0..read /\ read \in Nat BY DEF TypeOK
    <3>2. raw \in Items /\ raw.what = "raw" BY <2>1, <3>1, ReleaseTyped
    <3>3. Sends(raw) /\ relay = "passing" /\ UNCHANGED <<relay, sent, committed>>
      BY <1>17, <2>1 DEF PassOn
    <3> HIDE DEF raw
    <3>4. \A k \in DOMAIN got' : got'[k].what # "error" BY <3>2, <3>3, SendYields
    <3> QED BY <3>3, <3>4
  <2>2. CASE unsent = 0
    <3> DEFINE last == Item(IF source = "raised" THEN "raised" ELSE "finished")
    <3>1. last \in Items /\ last.what # "error" BY ItemTyped
    <3>2. Sends(last) /\ Closes(endedAt) BY <1>17, <2>2 DEF PassOn, Sends
    <3>3. relay = "passing" /\ relay' = "over" /\ UNCHANGED <<sent, committed>>
      BY <1>17, <3>2 DEF PassOn, Closes
    <3> HIDE DEF last
    <3>4. StatusErrorComesFirst' BY <3>1, <3>2, <3>3, SendYields
    <3> QED BY <3>3, <3>4
  <2>3. unsent > 0 \/ unsent = 0
    <3>1. unsent \in 0..read /\ read \in Nat BY DEF TypeOK
    <3> QED BY <3>1
  <2> QED BY <2>1, <2>2, <2>3
<1> QED
  BY <1>1, <1>2, <1>3, <1>4, <1>5, <1>6, <1>7, <1>8, <1>9, <1>10, <1>11, <1>12, <1>13, <1>14,
     <1>15, <1>16, <1>17, <1>18, <1>19 DEF Next, Reader, Uploads, Yields

(* An error under its status is all the caller of a refused reply is sent. *)
THEOREM StatusErrorIsFirst == Spec => []StatusErrorComesFirst
<1>1. YieldsOK => StatusErrorComesFirst
  BY DEF YieldsOK
<1> QED BY InitTyped, StepTyped, InitYields, StepYields, <1>1, PTL DEF Spec

-----------------------------------------------------------------------------
(* The last release of s is of n chunks; s has no release.                 *)
ReleasedIn(s, n) ==
  \E k \in DOMAIN s : s[k] = Release(n) /\ \A j \in k + 1..Len(s) : s[j].what # "release"
NoRelease(s) == \A k \in DOMAIN s : s[k].what # "release"

LEMMA ReleaseAppended ==
  ASSUME NEW s \in Seq(Items), NEW item \in Items, NEW n \in Nat
  PROVE  /\ ReleasedIn(Append(s, Release(n)), n)
         /\ item.what # "release" => /\ ReleasedIn(s, n) => ReleasedIn(Append(s, item), n)
                                     /\ NoRelease(s) => NoRelease(Append(s, item))
<1>1. ReleasedIn(Append(s, Release(n)), n)
  <2> DEFINE t == Append(s, Release(n))
  <2>1. t \in Seq(Items) /\ Len(t) = Len(s) + 1 /\ t[Len(s) + 1] = Release(n)
    BY ReleaseTyped
  <2>2. Len(s) + 1 \in DOMAIN t BY <2>1
  <2>3. Len(s) + 1 + 1..Len(t) = {} BY <2>1
  <2> HIDE DEF t
  <2>4. ReleasedIn(t, n) BY <2>1, <2>2, <2>3 DEF ReleasedIn
  <2> QED BY <2>4 DEF t
<1>2. ASSUME item.what # "release", ReleasedIn(s, n) PROVE ReleasedIn(Append(s, item), n)
  <2>1. PICK k \in DOMAIN s : s[k] = Release(n) /\ \A j \in k + 1..Len(s) : s[j].what # "release"
    BY <1>2 DEF ReleasedIn
  <2> DEFINE t == Append(s, item)
  <2>2. Len(t) = Len(s) + 1 /\ t[Len(s) + 1] = item /\ \A j \in 1..Len(s) : t[j] = s[j]
    OBVIOUS
  <2>3. k \in 1..Len(s) /\ DOMAIN t = 1..Len(s) + 1 /\ Len(s) \in Nat OBVIOUS
  <2> HIDE DEF t
  <2>4. k \in DOMAIN t /\ t[k] = Release(n) BY <2>1, <2>2, <2>3
  <2>5. \A j \in k + 1..Len(t) : t[j].what # "release"
    <3> TAKE j \in k + 1..Len(t)
    <3>1. CASE j = Len(s) + 1 BY <3>1, <2>2, <1>2
    <3>2. CASE j \in k + 1..Len(s) BY <3>2, <2>1, <2>2, <2>3
    <3> QED BY <3>1, <3>2, <2>2, <2>3
  <2>6. ReleasedIn(t, n) BY <2>4, <2>5 DEF ReleasedIn
  <2> QED BY <2>6 DEF t
<1>3. item.what # "release" /\ NoRelease(s) => NoRelease(Append(s, item))
  BY Appended DEF NoRelease
<1> QED BY <1>1, <1>2, <1>3

LEMMA ReleaseOfTail ==
  ASSUME NEW s \in Seq(Items), s # <<>>, NEW n \in Nat
  PROVE  /\ ReleasedIn(s, n) =>
              ReleasedIn(Tail(s), n) \/ (Head(s) = Release(n) /\ NoRelease(Tail(s)))
         /\ NoRelease(s) => Head(s).what # "release" /\ NoRelease(Tail(s))
<1> DEFINE t == Tail(s)
<1>1. /\ Len(s) \in Nat \ {0} /\ Len(t) = Len(s) - 1 /\ Head(s) = s[1]
      /\ \A j \in 1..Len(s) - 1 : t[j] = s[j + 1]
  OBVIOUS
<1>2. DOMAIN s = 1..Len(s) /\ DOMAIN t = 1..Len(s) - 1 OBVIOUS
<1> HIDE DEF t
<1>3. ASSUME ReleasedIn(s, n) PROVE ReleasedIn(t, n) \/ (s[1] = Release(n) /\ NoRelease(t))
  <2>1. PICK k \in 1..Len(s) :
          s[k] = Release(n) /\ \A j \in k + 1..Len(s) : s[j].what # "release"
    BY <1>2, <1>3 DEF ReleasedIn
  <2>2. \A j \in 1..Len(s) - 1 : j >= k => t[j].what # "release"
    <3> TAKE j \in 1..Len(s) - 1
    <3>1. HAVE j >= k
    <3>2. j + 1 \in k + 1..Len(s) BY <3>1, <1>1
    <3> QED BY <3>2, <2>1, <1>1
  <2>3. CASE k = 1 BY <2>1, <2>2, <2>3, <1>2 DEF NoRelease
  <2>4. CASE k > 1
    <3>1. k - 1 \in 1..Len(s) - 1 /\ (k - 1) + 1 = k BY <2>4, <1>1
    <3>2. t[k - 1] = Release(n) BY <3>1, <2>1, <1>1
    <3>3. \A j \in (k - 1) + 1..Len(t) : t[j].what # "release" BY <3>1, <2>2, <1>1
    <3> QED BY <3>1, <3>2, <3>3, <1>2 DEF ReleasedIn
  <2> QED BY <2>3, <2>4
<1>4. ASSUME NoRelease(s) PROVE s[1].what # "release" /\ NoRelease(t)
  <2>1. \A j \in 1..Len(s) : s[j].what # "release" BY <1>2, <1>4 DEF NoRelease
  <2>2. \A j \in 1..Len(s) - 1 : j + 1 \in 1..Len(s) BY <1>1
  <2> QED BY <2>1, <2>2, <1>1, <1>2 DEF NoRelease
<1> QED BY <1>1, <1>3, <1>4 DEF t

LEMMA NoneReleased ==
  /\ NoRelease(<<>>)
  /\ \A s, n : ~(ReleasedIn(s, n) /\ NoRelease(s))
<1>1. NoRelease(<<>>) BY DEF NoRelease
<1>2. \A n : Release(n).what = "release" BY DEF Release
<1> QED BY <1>1, <1>2 DEF NoRelease, ReleasedIn

-----------------------------------------------------------------------------
(* The last release the sidecar gave is the last the caller was sent, or   *)
(* is on its way to the caller.                                            *)
LastReleaseOK ==
  \/ ReleasedIn(ready, released)
  \/ NoRelease(ready) /\ ReleasedIn(outputs, released)
  \/ /\ NoRelease(ready) /\ NoRelease(outputs)
     /\ (released = 0 /\ NoRelease(got)) \/ ReleasedIn(got, released)

(* The end of a reply is the last output, and all of the reply was then    *)
(* handed over and released.                                               *)
EndOK ==
  /\ \A k \in DOMAIN ready : ready[k].what = "finished" =>
       k = Len(ready) /\ gave = "end" /\ told /\ released = handed
  /\ \A k \in DOMAIN outputs : outputs[k].what = "finished" =>
       k = Len(outputs) /\ ready = <<>> /\ gave = "end" /\ told /\ released = handed
  /\ relay \in {"beginning", "polling", "unanswered"} => outputs = <<>>

(* While the sidecar's outputs are yielded, ...                            *)
GoingOK ==
  relay \notin {"passing", "over"} =>
    /\ \A k \in DOMAIN got : got[k].what \in {"keepalive", "release"}
    /\ ~sent => NoRelease(got)
    /\ letThrough /\ ~sent => keeping /\ unsent = read
    /\ LastReleaseOK

(* ... and while LiteLLM's own chunks are.                                 *)
PassingOK ==
  relay = "passing" =>
    /\ letThrough /\ keeping
    /\ \A k \in DOMAIN got : got[k].what = "keepalive" \/ (got[k].what = "raw" /\ RawInOrder(k))
    /\ IF unsent = read THEN \A k \in DOMAIN got : got[k].what = "keepalive"
       ELSE got # <<>> /\ got[Len(got)] = Raw(read - unsent)

OverOK == relay = "over" => RelayIsWholeOrRefused

LEMMA GoingOrPassingIsWhole ==
  ASSUME TypeOK, GoingOK, PassingOK, OverOK
  PROVE  RelayIsWholeOrRefused
<1>1. got \in Seq(Items) BY DEF TypeOK
<1>2. got # <<>> => Len(got) \in DOMAIN got /\ Last(got) = got[Len(got)]
  BY <1>1 DEF Last
<1>3. CASE relay \notin {"passing", "over"}
  BY <1>2, <1>3 DEF GoingOK, RelayIsWholeOrRefused
<1>4. CASE relay = "passing"
  <2>1. \A k \in DOMAIN got : got[k].what \in {"keepalive", "raw"} BY <1>4 DEF PassingOK
  <2>2. \A k \in DOMAIN got : got[k].what = "raw" => letThrough /\ RawInOrder(k)
    BY <1>4 DEF PassingOK
  <2>3. got # <<>> => Last(got).what # "finished" BY <1>2, <2>1
  <2> QED BY <2>1, <2>2, <2>3 DEF RelayIsWholeOrRefused
<1> QED BY <1>3, <1>4 DEF OverOK

(* A relay that was yielding the sidecar's outputs ends with something     *)
(* other than the end of the reply.                                        *)
LEMMA EndsRefused ==
  ASSUME TypeOK, GoingOK, relay \notin {"passing", "over"},
         NEW item \in Items, item.what \notin {"finished", "raw", "release"},
         got' = Append(got, item)
  PROVE  RelayIsWholeOrRefused'
<1>1. got \in Seq(Items) BY DEF TypeOK
<1>2. \A k \in DOMAIN got : got[k].what \in {"keepalive", "release"} BY DEF GoingOK
<1>3. \A k \in DOMAIN got' : got'[k].what # "raw" BY <1>1, <1>2, Appended
<1>4. got' # <<>> => Last(got') = item BY <1>1 DEF Last
<1>5. \A k \in DOMAIN got' : \A j \in 1..k - 1 : j \in DOMAIN got'
  BY <1>1
<1> QED BY <1>3, <1>4, <1>5 DEF RelayIsWholeOrRefused

LEMMA StepReady ==
  ASSUME TypeOK, GoingOK, EndOK, PassingOK, gave # "end",
         SidecarReleases \/ SidecarEnds
  PROVE  EndOK' /\ GoingOK' /\ PassingOK' /\ OverOK'
<1>1. relay # "over" /\ UNCHANGED <<relay, outputs, got, sent, letThrough, read, source, keeping,
                                     unsent, told, handed>>
  BY DEF SidecarReleases, SidecarEnds, Gives, readVars, handVars, yieldVars
<1>2. PassingOK' /\ OverOK'
  BY <1>1 DEF PassingOK, OverOK, RawInOrder
<1>3. /\ \A k \in DOMAIN ready : ready[k].what # "finished"
      /\ \A k \in DOMAIN outputs : outputs[k].what # "finished"
  BY DEF EndOK
<1>4. KeepAlive \in Items /\ KeepAlive.what = "keepalive"
      /\ Garbled \in Items /\ Garbled.what = "garbled"
  BY ItemTyped DEF KeepAlive, Garbled
<1>5. ready \in Seq(Items) /\ outputs \in Seq(Items) /\ got \in Seq(Items) /\ released \in Nat
  BY DEF TypeOK
<1>6. CASE \E n \in released + 1..handed : ready' = Append(ready, Release(n)) /\ released' = n
  <2>1. PICK n \in released + 1..handed : ready' = Append(ready, Release(n)) /\ released' = n
    BY <1>6
  <2>2. n \in Nat BY <2>1, <1>5 DEF TypeOK
  <2>3. Release(n) \in Items /\ Release(n).what = "release" BY <2>2, ReleaseTyped
  <2>4. ReleasedIn(ready', released')
    <3>1. ReleasedIn(Append(ready, Release(n)), n) BY <1>5, <2>2, <2>3, ReleaseAppended
    <3> QED BY <2>1, <3>1
  <2>5. \A k \in DOMAIN ready' : ready'[k].what # "finished"
    BY <1>3, <1>5, <2>1, <2>3, Appended
  <2>6. EndOK' BY <1>1, <1>3, <2>5 DEF EndOK
  <2>7. GoingOK' BY <1>1, <2>4 DEF GoingOK, LastReleaseOK, NoRelease
  <2> QED BY <1>2, <2>6, <2>7
<1>7. CASE \E item \in Items :
             /\ ready' = Append(ready, item) /\ released' = released /\ item.what # "release"
             /\ item.what = "finished" => gave' = "end" /\ told /\ released = handed
  <2>1. PICK item \in Items :
             /\ ready' = Append(ready, item) /\ released' = released /\ item.what # "release"
             /\ item.what = "finished" => gave' = "end" /\ told /\ released = handed
    BY <1>7
  <2>2. /\ ReleasedIn(ready, released) => ReleasedIn(ready', released)
        /\ NoRelease(ready) => NoRelease(ready')
    BY <1>5, <2>1, ReleaseAppended
  <2>3. \A k \in DOMAIN ready' : ready'[k].what = "finished" =>
          k = Len(ready') /\ item.what = "finished"
    BY <1>3, <1>5, <2>1, Appended
  <2>4. EndOK' BY <1>1, <1>3, <2>1, <2>3 DEF EndOK
  <2>5. LastReleaseOK => LastReleaseOK' BY <1>1, <2>1, <2>2 DEF LastReleaseOK, ReleasedIn, NoRelease
  <2>6. GoingOK' BY <1>1, <2>5 DEF GoingOK, NoRelease
  <2> QED BY <1>2, <2>4, <2>6
<1>8. CASE SidecarReleases BY <1>4, <1>6, <1>7, <1>8 DEF SidecarReleases, Gives
<1>9. CASE SidecarEnds
  <2>1. PICK what \in {"finished", "refuse", "error_event", "not_judged"} :
          /\ ready' = Append(ready, Item(what)) /\ gave' = "end" /\ released' = released
          /\ what = "finished" => told /\ released = handed
    BY <1>9 DEF SidecarEnds, Gives
  <2>2. Item(what) \in Items /\ Item(what).what = what BY ItemTyped
  <2> QED BY <2>1, <2>2, <1>7
<1> QED BY <1>8, <1>9

(* Giving up on the sidecar: LiteLLM's own chunks, if none went out.       *)
LEMMA PassesWhole ==
  ASSUME TypeOK, GoingOK, EndOK, relay \notin {"passing", "over"}, ~sent, letThrough,
         relay' = "passing",
         UNCHANGED <<got, letThrough, keeping, unsent, read>>
  PROVE  PassingOK' /\ GoingOK' /\ OverOK'
<1>1. keeping /\ unsent = read /\ \A k \in DOMAIN got : got[k].what = "keepalive"
  BY DEF GoingOK, NoRelease
<1>2. PassingOK' BY <1>1 DEF PassingOK
<1> QED BY <1>2 DEF GoingOK, OverOK

LEMMA GivesUpWhole ==
  ASSUME TypeOK, GoingOK, EndOK, relay \notin {"passing", "over"}, GivesUp,
         UNCHANGED <<letThrough, read>>
  PROVE  PassingOK' /\ GoingOK' /\ OverOK' /\ outputs' = <<>> /\ relay' \in {"passing", "over"}
<1>1. ASSUME NEW item \in {ErrorEvent, Refused}, SendsLast(item)
      PROVE  OverOK' /\ relay' = "over" /\ outputs' = <<>>
  <2>1. item \in Items /\ item.what \in {"error", "error_event"}
    BY <1>1, RefusedTyped, ItemTyped DEF ErrorEvent
  <2>2. got' = Append(got, item) /\ relay' = "over" /\ outputs' = <<>>
    BY <1>1 DEF SendsLast, Sends, Closes
  <2> QED BY <2>1, <2>2, EndsRefused DEF OverOK
<1>2. CASE SendsLast(ErrorEvent) \/ SendsLast(Refused)
  BY <1>1, <1>2 DEF PassingOK, GoingOK
<1>3. CASE ~sent /\ letThrough /\ relay' = "passing" /\ outputs' = <<>> /\ UNCHANGED got
  BY <1>3, PassesWhole DEF GivesUp
<1> QED BY <1>2, <1>3 DEF GivesUp

LEMMA StepAnswered ==
  ASSUME TypeOK, EndOK, GoingOK, PassingOK, PollAnswered
  PROVE  EndOK' /\ GoingOK' /\ PassingOK' /\ OverOK'
<1>1. /\ relay = "polling" /\ relay' = "answered" /\ outputs' = ready /\ ready' = <<>>
      /\ UNCHANGED <<got, sent, letThrough, read, keeping, unsent, told, handed, gave, released>>
  BY DEF PollAnswered, readVars, handVars
<1>2. outputs = <<>> BY <1>1 DEF EndOK
<1>3. EndOK' BY <1>1 DEF EndOK
<1>4. LastReleaseOK'
  <2>1. LastReleaseOK BY <1>1 DEF GoingOK
  <2>2. CASE ReleasedIn(ready, released)
    BY <1>1, <2>2, NoneReleased DEF LastReleaseOK, NoRelease, ReleasedIn
  <2>3. CASE ReleasedIn(outputs, released) BY <1>2, <2>3, NoneReleased
  <2>4. CASE NoRelease(ready) /\ ((released = 0 /\ NoRelease(got)) \/ ReleasedIn(got, released))
    BY <1>1, <2>4, NoneReleased DEF LastReleaseOK, NoRelease, ReleasedIn
  <2> QED BY <2>1, <2>2, <2>3, <2>4 DEF LastReleaseOK
<1>5. GoingOK' BY <1>1, <1>4 DEF GoingOK, NoRelease
<1> QED BY <1>1, <1>3, <1>5 DEF PassingOK, OverOK

(* An output that is sent on.                                              *)
LEMMA StepOutputSent ==
  ASSUME TypeOK, EndOK, GoingOK, relay = "yielding", outputs # <<>>, NEW output \in Items,
         output = Head(outputs), output = KeepAlive \/ output.what = "release", Sends(output),
         outputs' = Tail(outputs), output.what = "release" => sent', sent => sent',
         output = KeepAlive => UNCHANGED <<keeping, unsent, sent>>,
         UNCHANGED <<relay, letThrough, read, ready, gave, told, handed, released>>
  PROVE  EndOK' /\ GoingOK' /\ PassingOK' /\ OverOK'
<1>1. outputs \in Seq(Items) /\ got \in Seq(Items) /\ released \in Nat BY DEF TypeOK
<1>2. output.what \in {"keepalive", "release"} BY ItemTyped DEF KeepAlive
<1>3. got' = Append(got, output) BY DEF Sends
<1>4. EndOK'
  <2>1. \A k \in DOMAIN outputs' : k + 1 \in DOMAIN outputs /\ outputs'[k] = outputs[k + 1]
    BY <1>1
  <2>2. Len(outputs') = Len(outputs) - 1 /\ Len(outputs) \in Nat BY <1>1
  <2>3. \A k \in DOMAIN outputs' : outputs'[k].what = "finished" =>
          k = Len(outputs') /\ ready' = <<>> /\ gave' = "end" /\ told' /\ released' = handed'
    <3> TAKE k \in DOMAIN outputs'
    <3>1. HAVE outputs'[k].what = "finished"
    <3>2. k + 1 = Len(outputs) /\ ready = <<>> /\ gave = "end" /\ told /\ released = handed
      BY <2>1, <3>1 DEF EndOK
    <3>3. k \in Int BY <2>2, <1>1
    <3> QED BY <2>2, <3>2, <3>3
  <2> QED BY <2>3 DEF EndOK
<1>5. LastReleaseOK'
  <2>1. LastReleaseOK BY DEF GoingOK
  <2>2. CASE ReleasedIn(ready, released) BY <2>2 DEF LastReleaseOK, ReleasedIn
  <2>3. CASE NoRelease(ready) /\ ReleasedIn(outputs, released)
    <3>1. ReleasedIn(outputs', released) \/ (output = Release(released) /\ NoRelease(outputs'))
      BY <2>3, <1>1, ReleaseOfTail
    <3>2. output = Release(released) => ReleasedIn(got', released)
      BY <1>1, <1>3, ReleaseAppended
    <3> QED BY <2>3, <3>1, <3>2 DEF LastReleaseOK, ReleasedIn, NoRelease
  <2>4. CASE /\ NoRelease(ready) /\ NoRelease(outputs)
             /\ (released = 0 /\ NoRelease(got)) \/ ReleasedIn(got, released)
    <3>1. output.what # "release" /\ NoRelease(outputs') BY <2>4, <1>1, ReleaseOfTail
    <3>2. (released = 0 /\ NoRelease(got')) \/ ReleasedIn(got', released)
      BY <2>4, <3>1, <1>1, <1>3, ReleaseAppended
    <3> QED BY <2>4, <3>1, <3>2 DEF LastReleaseOK, ReleasedIn, NoRelease
  <2> QED BY <2>1, <2>2, <2>3, <2>4 DEF LastReleaseOK
<1>6. \A k \in DOMAIN got' : got'[k].what \in {"keepalive", "release"}
  BY <1>1, <1>2, <1>3, Appended DEF GoingOK
<1>7. ~sent' => NoRelease(got')
  <2>1. HAVE ~sent'
  <2>2. output.what # "release" /\ NoRelease(got) BY <2>1 DEF GoingOK
  <2> QED BY <2>2, <1>1, <1>3, ReleaseAppended
<1>8. letThrough' /\ ~sent' => keeping' /\ unsent' = read'
  <2>1. HAVE letThrough' /\ ~sent'
  <2>2. UNCHANGED <<keeping, unsent, sent>> BY <2>1
  <2> QED BY <2>1, <2>2 DEF GoingOK
<1>9. GoingOK' BY <1>5, <1>6, <1>7, <1>8 DEF GoingOK
<1> QED BY <1>4, <1>9 DEF PassingOK, OverOK

(* An output that ends the reply: the end of it came after all of it.      *)
LEMMA StepLastOutput ==
  ASSUME TypeOK, HandedOK, EndOK, GoingOK, relay = "yielding", outputs # <<>>,
         NEW what \in {"finished", "refuse", "error_event", "not_judged"},
         Head(outputs).what = what, LastOutput(what),
         UNCHANGED <<letThrough, read, source>>
  PROVE  GoingOK' /\ PassingOK' /\ OverOK' /\ outputs' = <<>> /\ relay' \in {"passing", "over"}
<1>0. outputs \in Seq(Items) /\ got \in Seq(Items) BY DEF TypeOK
<1>1. CASE GoesUnjudged(what)
  <2>1. ~sent /\ letThrough /\ relay' = "passing" /\ outputs' = <<>> /\ UNCHANGED <<got, keeping, unsent>>
    BY <1>1 DEF LastOutput, GoesUnjudged
  <2> QED BY <2>1, PassesWhole
<1>2. CASE ~GoesUnjudged(what) /\ what # "finished"
  <2> DEFINE last == CASE what = "refuse" -> Refused [] what = "finished" -> Item("finished")
                       [] OTHER -> ErrorEvent
  <2>1. last \in Items /\ last.what \in {"error", "error_event"}
    BY <1>2, RefusedTyped, ItemTyped DEF ErrorEvent
  <2>2. SendsLast(last) BY <1>2 DEF LastOutput
  <2> HIDE DEF last
  <2>3. got' = Append(got, last) /\ relay' = "over" /\ outputs' = <<>>
    BY <2>2 DEF SendsLast, Sends, Closes
  <2> QED BY <2>1, <2>3, EndsRefused DEF OverOK, PassingOK, GoingOK
<1>3. CASE ~GoesUnjudged(what) /\ what = "finished"
  <2>1. SendsLast(Item("finished")) BY <1>3 DEF LastOutput
  <2>2. got' = Append(got, Item("finished")) /\ relay' = "over" /\ outputs' = <<>>
    BY <2>1 DEF SendsLast, Sends, Closes
  <2>3. 1 \in DOMAIN outputs /\ outputs[1].what = "finished" BY <1>0, <1>3
  <2>4. /\ Len(outputs) = 1 /\ ready = <<>> /\ told /\ released = handed
    BY <2>3 DEF EndOK
  <2>5. source = "ended" /\ released = read BY <2>4 DEF HandedOK
  <2>6. NoRelease(outputs) BY <2>3, <2>4 DEF NoRelease
  <2>7. (released = 0 /\ NoRelease(got)) \/ ReleasedIn(got, released)
    <3>1. LastReleaseOK BY DEF GoingOK
    <3> QED BY <2>4, <2>6, <3>1, NoneReleased DEF LastReleaseOK
  <2>8. Item("finished") \in Items /\ Item("finished").what = "finished" BY ItemTyped
  <2>9. WholeAsYielded' \/ WholeAsReleased'
    <3>1. CASE released = 0 /\ NoRelease(got)
      <4>1. NoRelease(got') BY <1>0, <2>2, <2>8, <3>1, ReleaseAppended
      <4>2. ~(read' > 0) BY <2>5, <3>1
      <4> QED BY <4>1, <4>2 DEF WholeAsYielded, NoRelease
    <3>2. CASE ReleasedIn(got, released)
      <4>1. released \in Nat BY DEF TypeOK
      <4>2. ReleasedIn(got', read') BY <1>0, <2>2, <2>5, <2>8, <3>2, <4>1, ReleaseAppended
      <4> QED BY <4>2 DEF WholeAsReleased, ReleasedIn
    <3> QED BY <2>7, <3>1, <3>2
  <2>10. \A k \in DOMAIN got' : got'[k].what # "raw"
    BY <1>0, <2>2, <2>8, Appended DEF GoingOK
  <2>11. \A k \in DOMAIN got' : \A j \in 1..k - 1 : j \in DOMAIN got' BY <1>0, <2>2
  <2>12. RelayIsWholeOrRefused'
    BY <2>5, <2>9, <2>10, <2>11 DEF RelayIsWholeOrRefused
  <2> QED BY <2>2, <2>12 DEF OverOK, PassingOK, GoingOK
<1> QED BY <1>1, <1>2, <1>3

(* LiteLLM's own chunks, in order, and then its own end.                   *)
LEMMA StepPassed ==
  ASSUME TypeOK, EndOK, PassingOK, PassOn
  PROVE  EndOK' /\ GoingOK' /\ PassingOK' /\ OverOK'
<1>1. /\ relay = "passing"
      /\ UNCHANGED <<letThrough, read, source, keeping, ready, gave, told, handed, released>>
  BY DEF PassOn, readVars, handVars, sidecarVars
<1>2. got \in Seq(Items) /\ unsent \in 0..read /\ read \in Nat BY DEF TypeOK
<1>3. /\ letThrough /\ keeping
      /\ \A k \in DOMAIN got : got[k].what = "keepalive" \/ (got[k].what = "raw" /\ RawInOrder(k))
      /\ unsent = read => \A k \in DOMAIN got : got[k].what = "keepalive"
      /\ unsent # read => got # <<>> /\ got[Len(got)] = Raw(read - unsent)
  BY <1>1 DEF PassingOK
<1>4. ASSUME NEW item \in Items, got' = Append(got, item), NEW k \in DOMAIN got, RawInOrder(k)
      PROVE  RawInOrder(k)'
  <2>1. \A j \in 1..k : j \in DOMAIN got /\ got'[j] = got[j] BY <1>2, <1>4
  <2>2. k \in Nat \ {0} BY <1>2
  <2>3. k \in 1..k /\ (k > 1 => k - 1 \in 1..k) /\ \A j \in 1..k - 1 : j \in 1..k BY <2>2
  <2> QED BY <2>1, <2>3, <1>4 DEF RawInOrder
<1>5. CASE unsent > 0
  <2> DEFINE n == read - unsent + 1
  <2>1. n \in Nat /\ Raw(n) \in Items /\ Raw(n).what = "raw" /\ Raw(n).upto = n
    BY <1>2, <1>5, ReleaseTyped DEF Raw
  <2>2. got' = Append(got, Raw(n)) /\ unsent' = unsent - 1 /\ UNCHANGED <<relay, outputs>>
    BY <1>5 DEF PassOn, Sends
  <2>3. Len(got') = Len(got) + 1 /\ got'[Len(got')] = Raw(n) /\ got' # <<>>
        /\ \A j \in 1..Len(got) : got'[j] = got[j]
    BY <1>2, <2>1, <2>2
  <2>4. ASSUME NEW k, k = Len(got') PROVE RawInOrder(k)'
    <3>1. CASE unsent = read
      <4>1. n = 1 BY <1>2, <3>1
      <4>2. \A j \in 1..k - 1 : got'[j].what = "keepalive"
        BY <1>2, <1>3, <2>3, <2>4, <3>1
      <4>3. got'[k].upto = 1 BY <2>1, <2>3, <2>4, <4>1
      <4> QED BY <4>2, <4>3 DEF RawInOrder
    <3>2. CASE unsent # read
      <4>1. n # 1 /\ n - 1 = read - unsent BY <1>2, <3>2
      <4>2. got[Len(got)] = Raw(n - 1) /\ Len(got) \in 1..Len(got) /\ k > 1 /\ k - 1 = Len(got)
        BY <1>2, <1>3, <2>3, <2>4, <3>2, <4>1
      <4>3. got'[k - 1] = Raw(n - 1) BY <4>2, <2>3
      <4>4. got'[k].upto = n BY <2>1, <2>3, <2>4
      <4> HIDE DEF n
      <4> QED BY <4>1, <4>2, <4>3, <4>4 DEF RawInOrder
    <3> QED BY <3>1, <3>2
  <2>5. \A k \in DOMAIN got' :
          got'[k].what = "keepalive" \/ (got'[k].what = "raw" /\ RawInOrder(k)')
    <3> TAKE k \in DOMAIN got'
    <3>1. CASE k \in DOMAIN got /\ got'[k] = got[k]
      BY <3>1, <1>3, <1>4, <2>1, <2>2
    <3>2. CASE k = Len(got') BY <3>2, <2>1, <2>3, <2>4
    <3> QED BY <3>1, <3>2, <1>2, <2>1, <2>2, <2>3, Appended
  <2>6. unsent' # read' /\ n = read' - unsent'
    BY <1>1, <1>2, <1>5, <2>2
  <2>7. PassingOK' BY <1>1, <1>3, <2>2, <2>3, <2>5, <2>6 DEF PassingOK
  <2>8. EndOK' BY <1>1, <2>2 DEF EndOK
  <2> QED BY <1>1, <2>2, <2>7, <2>8 DEF GoingOK, OverOK
<1>6. CASE unsent = 0
  <2> DEFINE last == Item(IF source = "raised" THEN "raised" ELSE "finished")
  <2>1. last \in Items /\ last.what \in {"raised", "finished"}
        /\ (last.what = "finished" => source # "raised")
    BY ItemTyped
  <2>2. got' = Append(got, last) /\ relay' = "over" /\ outputs' = <<>> /\ source # "more"
    BY <1>6 DEF PassOn, Closes
  <2> HIDE DEF last
  <2>3. Len(got') = Len(got) + 1 /\ got'[Len(got')] = last /\ Last(got') = last
        /\ \A j \in 1..Len(got) : got'[j] = got[j]
    BY <1>2, <2>1, <2>2 DEF Last
  <2>4. \A k \in DOMAIN got' : got'[k].what # "release"
    BY <1>2, <1>3, <2>1, <2>2, Appended
  <2>5. \A k \in DOMAIN got' : got'[k].what = "raw" => letThrough' /\ RawInOrder(k)'
    <3> TAKE k \in DOMAIN got'
    <3>1. HAVE got'[k].what = "raw"
    <3>2. k \in DOMAIN got /\ got'[k] = got[k] BY <3>1, <1>2, <2>1, <2>2, Appended
    <3> QED BY <3>1, <3>2, <1>1, <1>3, <1>4, <2>1, <2>2
  <2>6. read > 0 => Len(got') > 1 /\ got'[Len(got') - 1] = Raw(read)
    <3>1. HAVE read > 0
    <3>2. Len(got) > 0 /\ got[Len(got)] = Raw(read) BY <3>1, <1>2, <1>3, <1>6
    <3> QED BY <3>2, <2>3, <1>2
  <2>7. WholeAsYielded' BY <1>1, <2>4, <2>6 DEF WholeAsYielded
  <2>8. last.what = "finished" => source' = "ended" BY <1>1, <2>1, <2>2 DEF TypeOK
  <2>9. RelayIsWholeOrRefused'
    BY <2>3, <2>4, <2>5, <2>7, <2>8 DEF RelayIsWholeOrRefused
  <2> QED BY <1>1, <2>2, <2>9 DEF EndOK, GoingOK, PassingOK, OverOK
<1>7. unsent > 0 \/ unsent = 0 BY <1>2
<1> QED BY <1>5, <1>6, <1>7

WholeOK == EndOK /\ GoingOK /\ PassingOK /\ OverOK

LEMMA InitWhole == Init => WholeOK
BY DEF Init, WholeOK, EndOK, GoingOK, PassingOK, OverOK, LastReleaseOK, NoRelease

LEMMA StepWhole == TypeOK /\ HandedOK /\ WholeOK /\ [Next]_vars => WholeOK'
<1> SUFFICES ASSUME TypeOK, HandedOK, WholeOK, [Next]_vars PROVE WholeOK'
  OBVIOUS
<1> USE DEF readVars, handVars, sidecarVars, yieldVars
<1>0. WholeOK' <=> EndOK' /\ GoingOK' /\ PassingOK' /\ OverOK' BY DEF WholeOK
<1>a. EndOK /\ GoingOK /\ PassingOK /\ OverOK BY DEF WholeOK
<1>b. LastReleaseOK /\ UNCHANGED <<ready, outputs, got, released>> => LastReleaseOK'
  BY DEF LastReleaseOK, ReleasedIn, NoRelease
<1>1. ASSUME relay # "over", UNCHANGED <<sidecarVars, relay, outputs, got, sent, letThrough>>,
             \/ UNCHANGED <<read, unsent, keeping>>
             \/ /\ read' = read + 1 /\ UNCHANGED keeping
                /\ unsent' = IF keeping THEN unsent + 1 ELSE unsent,
             told => told' /\ handed' = handed
      PROVE  WholeOK'
  <2>1. EndOK' BY <1>a, <1>1 DEF EndOK
  <2>2. GoingOK'
    <3>1. CASE UNCHANGED <<read, unsent, keeping>>
      BY <3>1, <1>a, <1>b, <1>1 DEF GoingOK, NoRelease
    <3>2. CASE /\ read' = read + 1 /\ UNCHANGED keeping
               /\ unsent' = IF keeping THEN unsent + 1 ELSE unsent
      BY <3>2, <1>a, <1>b, <1>1 DEF GoingOK, NoRelease
    <3> QED BY <3>1, <3>2, <1>1
  <2>3. PassingOK'
    <3>1. CASE UNCHANGED <<read, unsent, keeping>>
      BY <3>1, <1>a, <1>1 DEF PassingOK, RawInOrder
    <3>2. CASE /\ read' = read + 1 /\ UNCHANGED keeping
               /\ unsent' = IF keeping THEN unsent + 1 ELSE unsent
      <4>1. unsent \in 0..read /\ read \in Nat BY DEF TypeOK
      <4>2. relay = "passing" => unsent' = unsent + 1 BY <3>2, <1>a DEF PassingOK
      <4>3. relay = "passing" => read' - unsent' = read - unsent /\ (unsent' = read' <=> unsent = read)
        BY <3>2, <4>1, <4>2
      <4> QED BY <3>2, <4>3, <1>a, <1>1 DEF PassingOK, RawInOrder
    <3> QED BY <3>1, <3>2, <1>1
  <2> QED BY <1>0, <1>1, <2>1, <2>2, <2>3 DEF OverOK
<1>2. CASE Read BY <1>1, <1>2 DEF Read
<1>3. CASE ReaderGoesOn BY <1>1, <1>3 DEF ReaderGoesOn
<1>4. CASE ReadEnds BY <1>1, <1>4 DEF ReadEnds
<1>5. CASE Upload BY <1>1, <1>5 DEF Upload
<1>6. CASE SidecarTakes
  <2>1. told => uploader \notin {"sending", "ending"} BY DEF HandedOK
  <2> QED BY <1>1, <1>6, <2>1 DEF SidecarTakes
<1>7. CASE UploadAnswered BY <1>1, <1>7 DEF UploadAnswered
<1>8. CASE UploadFails BY <1>1, <1>8 DEF UploadFails
<1>9. CASE SidecarReleases \/ SidecarEnds
  <2>1. gave # "end" BY <1>9 DEF SidecarReleases, SidecarEnds, Gives
  <2> QED BY <1>0, <1>a, <1>9, <2>1, StepReady
<1>10. CASE OutOfTime BY <1>1, <1>10 DEF OutOfTime
<1>11. CASE PollAnswered BY <1>0, <1>a, <1>11, StepAnswered
<1>12. ASSUME relay \notin {"passing", "over"}, GivesUp,
              UNCHANGED <<letThrough, read, ready, gave, told, handed, released>>
       PROVE  WholeOK'
  <2>1. PassingOK' /\ GoingOK' /\ OverOK' /\ outputs' = <<>> BY <1>a, <1>12, GivesUpWhole
  <2>2. EndOK' BY <1>a, <1>12, <2>1 DEF EndOK
  <2> QED BY <1>0, <2>1, <2>2
<1>13. ASSUME /\ relay \notin {"passing", "over"} /\ relay' \notin {"passing", "over"}
              /\ outputs = <<>> \/ relay' \notin {"beginning", "polling", "unanswered"},
              UNCHANGED <<outputs, got, sent, letThrough, read, keeping, unsent, ready, gave, told,
                          handed, released>>
       PROVE  WholeOK'
  <2>1. EndOK' BY <1>a, <1>13 DEF EndOK
  <2>2. GoingOK' BY <1>a, <1>b, <1>13 DEF GoingOK, NoRelease
  <2> QED BY <1>0, <1>13, <2>1, <2>2 DEF PassingOK, OverOK
<1>14. CASE Begin
  <2>1. CASE GivesUp BY <1>12, <1>14, <2>1 DEF Begin
  <2>2. CASE relay' = "polling"
    <3>1. outputs = <<>> BY <1>14, <1>a DEF Begin, EndOK
    <3>2. ~GivesUp BY <2>2, GivesUpStops
    <3> QED BY <1>13, <1>14, <2>2, <3>1, <3>2 DEF Begin
  <2> QED BY <1>14, <2>1, <2>2 DEF Begin
<1>15. CASE PollFails
  <2>1. outputs = <<>> BY <1>15, <1>a DEF PollFails, EndOK
  <2> QED BY <1>13, <1>15, <2>1 DEF PollFails
<1>16. CASE PollAgain BY <1>13, <1>16 DEF PollAgain
<1>17. CASE WaitEnds
  <2>0. UNCHANGED <<letThrough, read, ready, gave, told, handed, released>>
        /\ relay \in {"answered", "unanswered", "polling"}
    BY <1>17 DEF WaitEnds
  <2>1. CASE GivesUp BY <1>12, <2>0, <2>1
  <2>2. CASE relay = "answered" /\ relay' = "yielding"
             /\ UNCHANGED <<keeping, unsent, outputs, sent, got>>
    BY <1>13, <2>0, <2>2
  <2>3. CASE relay = "polling" /\ SendsLast(Item("raised"))
    <3>1. got' = Append(got, Item("raised")) /\ relay' = "over" /\ outputs' = <<>>
      BY <2>3 DEF SendsLast, Sends, Closes
    <3>2. Item("raised") \in Items /\ Item("raised").what = "raised" BY ItemTyped
    <3>3. RelayIsWholeOrRefused' BY <1>a, <2>0, <3>1, <3>2, EndsRefused
    <3>4. EndOK' BY <1>a, <2>0, <3>1 DEF EndOK
    <3> QED BY <1>0, <3>1, <3>3, <3>4 DEF GoingOK, PassingOK, OverOK
  <2> QED BY <1>17, <2>1, <2>2, <2>3 DEF WaitEnds
<1>18. CASE YieldOutput
  <2> DEFINE output == Head(outputs)
  <2>0. relay = "yielding" /\ outputs # <<>>
        /\ UNCHANGED <<letThrough, read, source, ready, gave, told, handed, released>>
    BY <1>18 DEF YieldOutput
  <2>1. output \in Items BY <2>0 DEF TypeOK
  <2>2. CASE output = KeepAlive /\ Sends(output) /\ outputs' = Tail(outputs)
             /\ UNCHANGED <<keeping, unsent, relay, sent>>
    BY <1>0, <1>a, <2>0, <2>1, <2>2, StepOutputSent, ItemTyped DEF KeepAlive
  <2>3. CASE output.what = "release" /\ Sends(output) /\ sent' = TRUE /\ outputs' = Tail(outputs)
             /\ UNCHANGED relay
    <3>1. output # KeepAlive BY <2>3, ItemTyped DEF KeepAlive
    <3> QED BY <1>0, <1>a, <2>0, <2>1, <2>3, <3>1, StepOutputSent
  <2>4. CASE GivesUp BY <1>12, <2>0, <2>4
  <2>5. CASE output.what \in {"finished", "refuse", "error_event", "not_judged"}
             /\ LastOutput(output.what)
    <3>1. GoingOK' /\ PassingOK' /\ OverOK' /\ outputs' = <<>> /\ relay' \in {"passing", "over"}
      BY <1>a, <2>0, <2>5, StepLastOutput
    <3>2. EndOK' BY <1>a, <2>0, <3>1 DEF EndOK
    <3> QED BY <1>0, <3>1, <3>2
  <2> QED BY <1>18, <2>2, <2>3, <2>4, <2>5 DEF YieldOutput
<1>19. CASE PassOn BY <1>0, <1>a, <1>19, StepPassed
<1>20. CASE CallerLeaves
  <2>1. relay' = "over" /\ outputs' = <<>>
        /\ UNCHANGED <<got, read, source, letThrough, ready, gave, told, handed, released>>
    BY <1>20 DEF CallerLeaves, Closes
  <2>2. RelayIsWholeOrRefused BY <1>a, GoingOrPassingIsWhole
  <2>3. RelayIsWholeOrRefused'
    BY <2>1, <2>2 DEF RelayIsWholeOrRefused, RawInOrder, WholeAsYielded, WholeAsReleased
  <2>4. EndOK' BY <1>a, <2>1 DEF EndOK
  <2> QED BY <1>0, <2>1, <2>3, <2>4 DEF GoingOK, PassingOK, OverOK
<1>21. CASE UNCHANGED vars
  <2>1. UNCHANGED <<sidecarVars, relay, outputs, got, sent, letThrough, read, source, unsent, keeping,
                    told, handed>>
    BY <1>21 DEF vars
  <2>2. CASE relay # "over" BY <1>1, <2>1, <2>2
  <2>3. CASE relay = "over"
    BY <1>0, <1>a, <2>1, <2>3
    DEF EndOK, GoingOK, PassingOK, OverOK, RelayIsWholeOrRefused, RawInOrder, WholeAsYielded,
        WholeAsReleased
  <2> QED BY <2>2, <2>3
<1> QED
  BY <1>2, <1>3, <1>4, <1>5, <1>6, <1>7, <1>8, <1>9, <1>10, <1>11, <1>14, <1>15, <1>16, <1>17,
     <1>18, <1>19, <1>20, <1>21 DEF Next, Reader, Uploads, Yields

(* A reply the caller is told has ended is whole, each chunk once, as the  *)
(* sidecar released it or as LiteLLM yielded it, and never a mix.          *)
THEOREM EndedReplyIsWhole == Spec => []RelayIsWholeOrRefused
<1>1. TypeOK /\ WholeOK => RelayIsWholeOrRefused
  BY GoingOrPassingIsWhole DEF WholeOK
<1> QED
  BY InitTyped, StepTyped, InitHanded, StepHanded, InitWhole, StepWhole, <1>1, PTL DEF Spec
-----------------------------------------------------------------------------
(* The endpoint's streams, as a hook feeds them, as it polls them and as it*)
(* begins one again: the invariant of ProxyStreamsProofs, part by part.    *)

LEMMA FeedingAssumed == Feeding!StreamsAssumption
<1>1. Feeding!IsFiniteSet({"a"} \cup {"b"})
  BY Feeding!FS_EmptySet, Feeding!FS_AddElement, Feeding!FS_Singleton
<1>2. {"a"} \cup {"b"} = {"a", "b"} /\ "none" \notin {"a", "b"}
  OBVIOUS
<1> QED
  BY <1>1, <1>2 DEF Feeding!StreamsAssumption, Feeding!ProxyStreamsAssumption

LEMMA FeedingAgrees ==
  /\ Feeding!Init => Feeding!StreamsInv
  /\ Feeding!StreamsInv /\ [Feeding!Next]_(Feeding!vars) => Feeding!StreamsInv'
  /\ Feeding!StreamsInv => Feeding!TypeOK /\ Feeding!StreamHasWhatWasTaken
                        /\ Feeding!HookHasOutputsInOrder
<1>1. ASSUME Feeding!Init PROVE Feeding!StreamsInv
  BY <1>1, FeedingAssumed, Feeding!StreamsInitially
<1>2. ASSUME Feeding!StreamsInv, [Feeding!Next]_(Feeding!vars) PROVE Feeding!StreamsInv'
  BY <1>2, FeedingAssumed, Feeding!StreamsStayAgreed
<1>3. ASSUME Feeding!StreamsInv
      PROVE  Feeding!TypeOK /\ Feeding!StreamHasWhatWasTaken /\ Feeding!HookHasOutputsInOrder
  BY <1>3, FeedingAssumed, Feeding!StreamsInvImplies
<1> QED
  BY <1>1, <1>2, <1>3

LEMMA PollingAssumed == Polling!StreamsAssumption
<1>1. Polling!IsFiniteSet({"a"} \cup {"b"})
  BY Polling!FS_EmptySet, Polling!FS_AddElement, Polling!FS_Singleton
<1>2. {"a"} \cup {"b"} = {"a", "b"} /\ "none" \notin {"a", "b"}
  OBVIOUS
<1> QED
  BY <1>1, <1>2 DEF Polling!StreamsAssumption, Polling!ProxyStreamsAssumption

LEMMA PollingAgrees ==
  /\ Polling!Init => Polling!StreamsInv
  /\ Polling!StreamsInv /\ [Polling!Next]_(Polling!vars) => Polling!StreamsInv'
  /\ Polling!StreamsInv => Polling!TypeOK /\ Polling!StreamHasWhatWasTaken
                        /\ Polling!HookHasOutputsInOrder
<1>1. ASSUME Polling!Init PROVE Polling!StreamsInv
  BY <1>1, PollingAssumed, Polling!StreamsInitially
<1>2. ASSUME Polling!StreamsInv, [Polling!Next]_(Polling!vars) PROVE Polling!StreamsInv'
  BY <1>2, PollingAssumed, Polling!StreamsStayAgreed
<1>3. ASSUME Polling!StreamsInv
      PROVE  Polling!TypeOK /\ Polling!StreamHasWhatWasTaken /\ Polling!HookHasOutputsInOrder
  BY <1>3, PollingAssumed, Polling!StreamsInvImplies
<1> QED
  BY <1>1, <1>2, <1>3

LEMMA ReopenedAssumed == Reopened!StreamsAssumption
<1>1. Reopened!IsFiniteSet({"a"}) /\ "none" \notin {"a"}
  BY Reopened!FS_Singleton
<1> QED
  BY <1>1 DEF Reopened!StreamsAssumption, Reopened!ProxyStreamsAssumption

LEMMA ReopenedAgrees ==
  /\ Reopened!Init => Reopened!StreamsInv
  /\ Reopened!StreamsInv /\ [Reopened!Next]_(Reopened!vars) => Reopened!StreamsInv'
  /\ Reopened!StreamsInv => Reopened!TypeOK /\ Reopened!StreamHasWhatWasTaken
                        /\ Reopened!HookHasOutputsInOrder
<1>1. ASSUME Reopened!Init PROVE Reopened!StreamsInv
  BY <1>1, ReopenedAssumed, Reopened!StreamsInitially
<1>2. ASSUME Reopened!StreamsInv, [Reopened!Next]_(Reopened!vars) PROVE Reopened!StreamsInv'
  BY <1>2, ReopenedAssumed, Reopened!StreamsStayAgreed
<1>3. ASSUME Reopened!StreamsInv
      PROVE  Reopened!TypeOK /\ Reopened!StreamHasWhatWasTaken /\ Reopened!HookHasOutputsInOrder
  BY <1>3, ReopenedAssumed, Reopened!StreamsInvImplies
<1> QED
  BY <1>1, <1>2, <1>3

StreamsAgree ==
  /\ part = "feeding" => Feeding!StreamsInv
  /\ part = "polling" => Polling!StreamsInv
  /\ part = "reopened" => Reopened!StreamsInv

LEMMA StreamsAgreeInitially == ProxiesInit => StreamsAgree
BY FeedingAgrees, PollingAgrees, ReopenedAgrees DEF ProxiesInit, StreamsAgree

LEMMA StreamsGoOnAgreeing ==
  ASSUME StreamsAgree, [ProxiesNext]_allVars
  PROVE  StreamsAgree'
<1>1. ASSUME part = "feeding" => Feeding!StreamsInv
      PROVE  part' = "feeding" => Feeding!StreamsInv'
  <2>1. part' = part
    BY DEF ProxiesNext, RelayPart, FeedingPart, PollingPart, ReopenedPart, EnvoyPart, FieldsPart,
           OpenPart, ClosedPart, AnsweringPart, StoppingPart, allVars
  <2>2. ASSUME part = "feeding" PROVE [Feeding!Next]_(Feeding!vars)
    <3>1. CASE FeedingPart
      BY <3>1 DEF FeedingPart
    <3>2. CASE UNCHANGED allVars
      BY <3>2 DEF allVars, streamsVars, Feeding!vars, Feeding!streamVars, Feeding!feedVars, Feeding!outputVars,
                  Feeding!hookVars
    <3> QED
      BY <2>2, <3>1, <3>2 DEF ProxiesNext, RelayPart, FeedingPart, PollingPart, ReopenedPart,
         EnvoyPart, FieldsPart, OpenPart, ClosedPart, AnsweringPart, StoppingPart
  <2> QED
    BY <1>1, <2>1, <2>2, FeedingAgrees
<1>2. ASSUME part = "polling" => Polling!StreamsInv
      PROVE  part' = "polling" => Polling!StreamsInv'
  <2>1. part' = part
    BY DEF ProxiesNext, RelayPart, FeedingPart, PollingPart, ReopenedPart, EnvoyPart, FieldsPart,
           OpenPart, ClosedPart, AnsweringPart, StoppingPart, allVars
  <2>2. ASSUME part = "polling" PROVE [Polling!Next]_(Polling!vars)
    <3>1. CASE PollingPart
      BY <3>1 DEF PollingPart
    <3>2. CASE UNCHANGED allVars
      BY <3>2 DEF allVars, streamsVars, Polling!vars, Polling!streamVars, Polling!feedVars, Polling!outputVars,
                  Polling!hookVars
    <3> QED
      BY <2>2, <3>1, <3>2 DEF ProxiesNext, RelayPart, FeedingPart, PollingPart, ReopenedPart,
         EnvoyPart, FieldsPart, OpenPart, ClosedPart, AnsweringPart, StoppingPart
  <2> QED
    BY <1>2, <2>1, <2>2, PollingAgrees
<1>3. ASSUME part = "reopened" => Reopened!StreamsInv
      PROVE  part' = "reopened" => Reopened!StreamsInv'
  <2>1. part' = part
    BY DEF ProxiesNext, RelayPart, FeedingPart, PollingPart, ReopenedPart, EnvoyPart, FieldsPart,
           OpenPart, ClosedPart, AnsweringPart, StoppingPart, allVars
  <2>2. ASSUME part = "reopened" PROVE [Reopened!Next]_(Reopened!vars)
    <3>1. CASE ReopenedPart
      BY <3>1 DEF ReopenedPart
    <3>2. CASE UNCHANGED allVars
      BY <3>2 DEF allVars, streamsVars, Reopened!vars, Reopened!streamVars, Reopened!feedVars, Reopened!outputVars,
                  Reopened!hookVars
    <3> QED
      BY <2>2, <3>1, <3>2 DEF ProxiesNext, RelayPart, FeedingPart, PollingPart, ReopenedPart,
         EnvoyPart, FieldsPart, OpenPart, ClosedPart, AnsweringPart, StoppingPart
  <2> QED
    BY <1>3, <2>1, <2>2, ReopenedAgrees
<1> QED
  BY <1>1, <1>2, <1>3 DEF StreamsAgree

(* In each part, whatever calls are lost and made again, a stream has each *)
(* chunk once and in order with all its hook was told is taken, and the    *)
(* hook the outputs of its own stream in order (chunk, next).              *)
THEOREM HooksAndStreamsAgree == ProxiesSpec => []HookAndStreamAgree
<1>1. StreamsAgree => HookAndStreamAgree
  BY FeedingAgrees, PollingAgrees, ReopenedAgrees DEF StreamsAgree, HookAndStreamAgree
<1> QED
  BY <1>1, StreamsAgreeInitially, StreamsGoOnAgreeing, PTL DEF ProxiesSpec
-----------------------------------------------------------------------------
(* How an exchange with Envoy and the sidecar's servers go on: the         *)
(* invariants of EnvoyShimProofs and ServingProofs, part by part.          *)

LEMMA EnvoyAssumed == Envoy!EnvoyAssumption
BY DEF Envoy!EnvoyAssumption

LEMMA SaysSettings ==
  ASSUME NEW a \in {"unset", "on", "off"}, NEW b \in {"unset", "on", "off"},
         NEW c \in {"unset", "on", "off"}, NEW d \in {"unset", "on", "off"}
  PROVE  Says(a, b, c, d) \in [{"eval_port", "envoy_port", "eval_results", "runtime_task_registration"}
                                -> {"unset", "on", "off"}]
BY DEF Says

LEMMA SoundIsACall ==
  ASSUME NEW at \in {"main", "evals"}, NEW path \in {"proxy", "evals"}, NEW method \in Methods
  PROVE  Sound(at, path, method) \in Stopping!AnyCall
BY DEF Sound, Methods, Stopping!AnyCall, Stopping!IsServer, Stopping!ProxyMethods, Stopping!EvalMethods

LEMMA StartedIsAConfiguration ==
  ASSUME NEW readable \in BOOLEAN, NEW token \in BOOLEAN, NEW extra \in BOOLEAN,
         NEW folder \in Seq(Seq({"t"})),
         NEW file \in [{"eval_port", "envoy_port", "eval_results", "runtime_task_registration"}
                        -> {"unset", "on", "off"}],
         NEW given \in [{"eval_port", "envoy_port", "eval_results", "runtime_task_registration"}
                         -> {"unset", "on", "off"}]
  PROVE  Stopping!IsConfiguration(Started(readable, token, extra, folder, file, given))
BY DEF Started, Stopping!IsConfiguration, Stopping!Settings, Stopping!Unset

LEMMA SingleSeq == \A S : \A s \in S : <<s>> \in Seq(S)
OBVIOUS

LEMMA StoppingAssumed == Stopping!ServingAssumption
<1>1. ASSUME NEW c \in ToStop PROVE Stopping!IsConfiguration(c)
  <2>1. /\ \A port \in {"unset", "on"}, envoy_port \in {"unset", "on"} :
             Says(port, envoy_port, "unset", "unset")
               \in [{"eval_port", "envoy_port", "eval_results", "runtime_task_registration"}
                     -> {"unset", "on", "off"}]
    BY SaysSettings
  <2>2. /\ Says("unset", "unset", "unset", "unset")
               \in [{"eval_port", "envoy_port", "eval_results", "runtime_task_registration"}
                     -> {"unset", "on", "off"}]
        /\ Says("on", "on", "unset", "unset")
               \in [{"eval_port", "envoy_port", "eval_results", "runtime_task_registration"}
                     -> {"unset", "on", "off"}]
    BY SaysSettings
  <2>3. <<>> \in Seq(Seq({"t"})) /\ <<<<"t">>, <<"t">>>> \in Seq(Seq({"t"}))
    <3>1. "t" \in {"t"}
      OBVIOUS
    <3>2. \A s \in {"t"} : <<s>> \in Seq({"t"})
      BY SingleSeq
    <3>3. \A s, u \in Seq({"t"}) : <<s, u>> \in Seq(Seq({"t"}))
      OBVIOUS
    <3>4. <<>> \in Seq(Seq({"t"}))
      OBVIOUS
    <3> QED
      BY <3>1, <3>2, <3>3, <3>4, Zenon
  <2>4. ASSUME NEW port \in {"unset", "on"}, NEW envoy_port \in {"unset", "on"},
               c = Started(TRUE, TRUE, TRUE, <<>>, Says(port, envoy_port, "unset", "unset"),
                           Says("unset", "unset", "unset", "unset"))
        PROVE  Stopping!IsConfiguration(c)
    BY <2>1, <2>2, <2>3, <2>4, StartedIsAConfiguration
  <2>5. ASSUME NEW readable \in BOOLEAN, NEW token \in BOOLEAN, NEW extra \in BOOLEAN,
               NEW folder \in {<<>>, <<<<"t">>, <<"t">>>>},
               c = Started(readable, token, extra, folder, Says("on", "on", "unset", "unset"),
                           Says("unset", "unset", "unset", "unset"))
        PROVE  Stopping!IsConfiguration(c)
    <3>1. folder \in Seq(Seq({"t"}))
      BY <2>3
    <3> QED
      BY <2>2, <2>5, <3>1, StartedIsAConfiguration
  <2>6. \/ \E port \in {"unset", "on"}, envoy_port \in {"unset", "on"} :
             c = Started(TRUE, TRUE, TRUE, <<>>, Says(port, envoy_port, "unset", "unset"),
                         Says("unset", "unset", "unset", "unset"))
        \/ \E readable \in BOOLEAN, token \in BOOLEAN, extra \in BOOLEAN,
              folder \in {<<>>, <<<<"t">>, <<"t">>>>} :
             c = Started(readable, token, extra, folder, Says("on", "on", "unset", "unset"),
                         Says("unset", "unset", "unset", "unset"))
    <3> DEFINE StoppedOn(port, envoy_port) ==
                 Started(TRUE, TRUE, TRUE, <<>>, Says(port, envoy_port, "unset", "unset"),
                         Says("unset", "unset", "unset", "unset"))
               Checks(readable, token, extra, folder) ==
                 Started(readable, token, extra, folder, Says("on", "on", "unset", "unset"),
                         Says("unset", "unset", "unset", "unset"))
    <3>1. ToStop = {StoppedOn(port, envoy_port) : port \in {"unset", "on"}, envoy_port \in {"unset", "on"}}
                   \cup {Checks(readable, token, extra, folder) :
                        readable \in BOOLEAN, token \in BOOLEAN, extra \in BOOLEAN,
                        folder \in {<<>>, <<<<"t">>, <<"t">>>>}}
      BY DEF ToStop
    <3> HIDE DEF StoppedOn, Checks
    <3>2. \/ \E port \in {"unset", "on"}, envoy_port \in {"unset", "on"} : c = StoppedOn(port, envoy_port)
          \/ \E readable \in BOOLEAN, token \in BOOLEAN, extra \in BOOLEAN,
                folder \in {<<>>, <<<<"t">>, <<"t">>>>} : c = Checks(readable, token, extra, folder)
      <4>1. c \in ToStop
        OBVIOUS
      <4> QED
        BY <3>1, <4>1
    <3> QED
      BY <3>2 DEF StoppedOn, Checks
  <2> QED
    BY <2>4, <2>5, <2>6, Zenon
<1>2. {Sound("main", "proxy", "judge_reply"), Sound("main", "evals", "end_sample"),
       Sound("evals", "evals", "request_result")} \subseteq Stopping!AnyCall
  BY SoundIsACall DEF Methods
<1> QED
  BY <1>1, <1>2 DEF Stopping!ServingAssumption

LEMMA EnvoyAgrees ==
  /\ Envoy!Init => Envoy!ExchangeInv
  /\ Envoy!ExchangeInv /\ [Envoy!Next]_(Envoy!vars) => Envoy!ExchangeInv'
  /\ Envoy!ExchangeInv => Envoy!SettledOnce /\ Envoy!AnswersInOrder /\ Envoy!NothingIsLeftDelivering
<1>1. ASSUME Envoy!Init PROVE Envoy!ExchangeInv
  BY <1>1, Envoy!ExchangeBegins, EnvoyAssumed
<1>2. ASSUME Envoy!ExchangeInv, [Envoy!Next]_(Envoy!vars) PROVE Envoy!ExchangeInv'
  BY <1>2, EnvoyAssumed, Envoy!ExchangeGoesOn
<1>3. ASSUME Envoy!ExchangeInv
      PROVE  Envoy!SettledOnce /\ Envoy!AnswersInOrder /\ Envoy!NothingIsLeftDelivering
  BY <1>3, EnvoyAssumed, Envoy!ExchangeInvImplies
<1> QED
  BY <1>1, <1>2, <1>3

LEMMA StoppingAgrees ==
  /\ Stopping!Init => Stopping!AnswersInv
  /\ Stopping!AnswersInv /\ [Stopping!Next]_(Stopping!vars) => Stopping!AnswersInv'
  /\ Stopping!AnswersInv => Stopping!StoppedTogether /\ Stopping!NothingIsCutShort
<1>1. ASSUME Stopping!Init PROVE Stopping!AnswersInv
  BY <1>1, Stopping!AnswersBegin, StoppingAssumed
<1>2. ASSUME Stopping!AnswersInv, [Stopping!Next]_(Stopping!vars) PROVE Stopping!AnswersInv'
  BY <1>2, StoppingAssumed, Stopping!AnswersGoOn
<1>3. ASSUME Stopping!AnswersInv
      PROVE  Stopping!StoppedTogether /\ Stopping!NothingIsCutShort
  BY <1>3, StoppingAssumed, Stopping!ServingInvImplies DEF Stopping!AnswersInv
<1> QED
  BY <1>1, <1>2, <1>3

ExchangesGoOn ==
  /\ part = "envoy" => Envoy!ExchangeInv
  /\ part = "stopping" => Stopping!AnswersInv

LEMMA ExchangesBegin == ProxiesInit => ExchangesGoOn
BY EnvoyAgrees, StoppingAgrees DEF ProxiesInit, ExchangesGoOn

LEMMA ExchangesStayOn ==
  ASSUME ExchangesGoOn, [ProxiesNext]_allVars
  PROVE  ExchangesGoOn'
<1>1. ASSUME part = "envoy" => Envoy!ExchangeInv
      PROVE  part' = "envoy" => Envoy!ExchangeInv'
  <2>1. part' = part
    BY DEF ProxiesNext, RelayPart, FeedingPart, PollingPart, ReopenedPart, EnvoyPart, FieldsPart,
           OpenPart, ClosedPart, AnsweringPart, StoppingPart, allVars
  <2>2. ASSUME part = "envoy" PROVE [Envoy!Next]_(Envoy!vars)
    <3>1. CASE EnvoyPart
      BY <3>1 DEF EnvoyPart
    <3>2. CASE UNCHANGED allVars
      BY <3>2 DEF allVars, envoyVars, Envoy!vars, Envoy!envoyVars, Envoy!answers, Envoy!flags, Envoy!reply
    <3> QED
      BY <2>2, <3>1, <3>2 DEF ProxiesNext, RelayPart, FeedingPart, PollingPart, ReopenedPart,
         EnvoyPart, FieldsPart, OpenPart, ClosedPart, AnsweringPart, StoppingPart
  <2> QED
    BY <1>1, <2>1, <2>2, EnvoyAgrees
<1>2. ASSUME part = "stopping" => Stopping!AnswersInv
      PROVE  part' = "stopping" => Stopping!AnswersInv'
  <2>1. part' = part
    BY DEF ProxiesNext, RelayPart, FeedingPart, PollingPart, ReopenedPart, EnvoyPart, FieldsPart,
           OpenPart, ClosedPart, AnsweringPart, StoppingPart, allVars
  <2>2. ASSUME part = "stopping" PROVE [Stopping!Next]_(Stopping!vars)
    <3>1. CASE StoppingPart
      BY <3>1 DEF StoppingPart
    <3>2. CASE UNCHANGED allVars
      BY <3>2 DEF allVars, serversVars, Stopping!vars, Stopping!callVars
    <3> QED
      BY <2>2, <3>1, <3>2 DEF ProxiesNext, RelayPart, FeedingPart, PollingPart, ReopenedPart,
         EnvoyPart, FieldsPart, OpenPart, ClosedPart, AnsweringPart, StoppingPart
  <2> QED
    BY <1>2, <2>1, <2>2, StoppingAgrees
<1> QED
  BY <1>1, <1>2 DEF ExchangesGoOn

(* However Envoy or the sidecar stops, what was sent is settled once and   *)
(* answered in order, nothing is judged for no one, and no call is cut     *)
(* short (_Exchange.close, _serve_all).                                    *)
THEOREM RepliesAreAlwaysSettledOnce == ProxiesSpec => []RepliesAreSettledOnce
<1>1. ExchangesGoOn => RepliesAreSettledOnce
  BY EnvoyAgrees, StoppingAgrees DEF ExchangesGoOn, RepliesAreSettledOnce
<1> QED
  BY <1>1, ExchangesBegin, ExchangesStayOn, PTL DEF ProxiesSpec
-----------------------------------------------------------------------------
(* How the guardrail's hooks and the answers to calls go on: the invariants*)
(* of GuardrailProofs and ServingProofs, part by part.                     *)

LEMMA SettingsAreSettings ==
  \A s \in VariedSettings : /\ s.modes \subseteq {"pre_call", "post_call"}
                           /\ s.listed \subseteq SUBSET OneRequest!Headers
<1> DEFINE Set(m, l) == [modes |-> m, listed |-> l]
           Lists == {{}, {{"x-team"}}, {{"x-team"}, {"x-irid", "authorization", "x-team"}}}
<1>1. VariedSettings = {Set(m, l) : m \in SUBSET {"pre_call", "post_call"}, l \in Lists}
  BY DEF VariedSettings
<1>2. \A m, l : Set(m, l).modes = m /\ Set(m, l).listed = l
  OBVIOUS
<1>3. \A l \in Lists : l \subseteq SUBSET OneRequest!Headers
  BY DEF OneRequest!Headers
<1> HIDE DEF Set, Lists
<1> SUFFICES ASSUME NEW s \in VariedSettings
             PROVE  /\ s.modes \subseteq {"pre_call", "post_call"}
                    /\ s.listed \subseteq SUBSET OneRequest!Headers
  OBVIOUS
<1>4. PICK m \in SUBSET {"pre_call", "post_call"}, l \in Lists : s = Set(m, l)
  BY <1>1
<1>5. s.modes = m /\ s.listed = l
  BY <1>2, <1>4
<1> QED
  BY <1>3, <1>5

LEMMA WithIsABody ==
  ASSUME NEW input \in {"sent", "odd"}, NEW secret \in {"absent", "sent"},
         NEW metadata \in {"absent", "sent", "known"}, NEW litellm \in {"absent", "known"}
  PROVE  With(input, secret, metadata, litellm) \in OneRequest!Bodies
BY DEF With, OneRequest!Bodies, OneRequest!Fields, OneRequest!Values, OneRequest!Absent

LEMMA ReplacementIsABody ==
  ASSUME NEW i \in {"absent", "sent", "right", "other"}, NEW s \in {"absent", "other"},
         NEW x \in {"absent", "other"}
  PROVE  Replacement(i, s, x) \in OneRequest!Bodies
BY DEF Replacement, OneRequest!Bodies, OneRequest!Fields, OneRequest!Values, OneRequest!Absent

IsIncoming(q, Ids) ==
  /\ q.read \in BOOLEAN /\ q.stream \in BOOLEAN
  /\ q.recorded \in BOOLEAN
  /\ q.sets \subseteq {"rewritten", "gateway"}
  /\ q.fields \in OneRequest!Bodies
  /\ q.named \subseteq OneRequest!Fields \ {"state", "extra"}
  /\ \A f \in q.named : q.fields[f] = "known" => f = OneRequest!Notes(q.fields)
  /\ q.caller_id \in Ids
  /\ q.headers \subseteq OneRequest!Headers

LEMMA RequestIsIncoming ==
  ASSUME NEW Ids, NEW r \in BOOLEAN, NEW s \in BOOLEAN, NEW recorded \in BOOLEAN,
         NEW sets \in SUBSET {"rewritten", "gateway"}, NEW fields \in OneRequest!Bodies,
         NEW named \in SUBSET (OneRequest!Fields \ {"state", "extra"}), NEW id \in Ids,
         \A f \in named : fields[f] = "known" => f = OneRequest!Notes(fields)
  PROVE  IsIncoming(Request(r, s, recorded, sets, fields, named, id), Ids)
<1> DEFINE q == Request(r, s, recorded, sets, fields, named, id)
<1>1. /\ q.read = r /\ q.stream = s /\ q.recorded = recorded /\ q.sets = sets
      /\ q.fields = fields /\ q.named = named /\ q.caller_id = id
      /\ q.headers = {"x-irid", "authorization", "x-team"}
  BY DEF Request
<1>2. q.headers \subseteq OneRequest!Headers
  BY <1>1 DEF OneRequest!Headers
<1> HIDE DEF q
<1>3. IsIncoming(q, Ids)
  BY <1>1, <1>2 DEF IsIncoming
<1> QED
  BY <1>3 DEF q

LEMMA VariedIsIncoming == \A q \in Varied : IsIncoming(q, {"r1"})
<1> DEFINE Is(r, recorded, sets, input, secret, m, named) ==
             Request(r, FALSE, recorded, sets, With(input, secret, m[1], m[2]), named, "r1")
           Names == {{"input"}, {"input", "secret", "metadata", "litellm_metadata"}}
           Flags == BOOLEAN
           Sets == SUBSET {"rewritten", "gateway"}
           Inputs == {"sent", "odd"}
           Secrets == {"absent", "sent"}
<1>1. Varied = {Is(r, recorded, sets, input, secret, m, named) :
        r \in Flags, recorded \in Flags, sets \in Sets, input \in Inputs,
        secret \in Secrets, m \in Metadata, named \in Names}
  BY DEF Varied
<1>2. ASSUME NEW r \in BOOLEAN, NEW recorded \in BOOLEAN,
             NEW sets \in SUBSET {"rewritten", "gateway"}, NEW input \in {"sent", "odd"},
             NEW secret \in {"absent", "sent"}, NEW m \in Metadata, NEW named \in Names
      PROVE  IsIncoming(Is(r, recorded, sets, input, secret, m, named), {"r1"})
  <2> DEFINE body == With(input, secret, m[1], m[2])
  <2>1. /\ m[1] \in {"absent", "sent", "known"} /\ m[2] \in {"absent", "known"}
        /\ m[1] = "known" => m[2] = "absent"
    BY DEF Metadata
  <2>2. body \in OneRequest!Bodies
    BY <2>1, WithIsABody
  <2>3. named \in SUBSET (OneRequest!Fields \ {"state", "extra"})
        /\ named \subseteq {"input", "secret", "metadata", "litellm_metadata"}
    BY DEF OneRequest!Fields
  <2>4. /\ body["input"] = input /\ body["secret"] = secret /\ body["metadata"] = m[1]
        /\ body["litellm_metadata"] = m[2]
    BY DEF With
  <2> HIDE DEF body
  <2>5. ASSUME NEW f \in named, body[f] = "known" PROVE f = OneRequest!Notes(body)
    BY <2>1, <2>3, <2>4, <2>5 DEF OneRequest!Notes, OneRequest!Absent
  <2>6. IsIncoming(Request(r, FALSE, recorded, sets, body, named, "r1"), {"r1"})
    BY <2>2, <2>3, <2>5, RequestIsIncoming
  <2> QED
    BY <2>6 DEF body
<1> HIDE DEF Is, Names, Flags, Sets, Inputs, Secrets
<1> SUFFICES ASSUME NEW q \in Varied PROVE IsIncoming(q, {"r1"})
  OBVIOUS
<1>3. \E r \in Flags, recorded \in Flags, sets \in Sets, input \in Inputs, secret \in Secrets,
         m \in Metadata, named \in Names : q = Is(r, recorded, sets, input, secret, m, named)
  BY <1>1
<1>4. PICK r \in BOOLEAN, recorded \in BOOLEAN, sets \in SUBSET {"rewritten", "gateway"},
           input \in {"sent", "odd"}, secret \in {"absent", "sent"}, m \in Metadata,
           named \in Names : q = Is(r, recorded, sets, input, secret, m, named)
  BY <1>3 DEF Flags, Sets, Inputs, Secrets
<1> QED
  BY <1>2, <1>4

LEMMA FewAreIncoming == \A q \in Few : IsIncoming(q, {"r1", "r2"})
<1> DEFINE body == With("odd", "absent", "known", "absent")
           Is(r, s) == Request(r, s, TRUE, {}, body, {"input"}, "r1")
<1>1. Few = {Is(r, s) : r \in BOOLEAN, s \in BOOLEAN}
  BY DEF Few
<1>2. body \in OneRequest!Bodies
  BY WithIsABody
<1>3. body["input"] = "odd"
  BY DEF With
<1> HIDE DEF body
<1>4. ASSUME NEW r \in BOOLEAN, NEW s \in BOOLEAN PROVE IsIncoming(Is(r, s), {"r1", "r2"})
  <2>1. {"input"} \in SUBSET (OneRequest!Fields \ {"state", "extra"})
    BY DEF OneRequest!Fields
  <2>2. {} \in SUBSET {"rewritten", "gateway"} /\ TRUE \in BOOLEAN /\ "r1" \in {"r1", "r2"}
    OBVIOUS
  <2>3. \A f \in {"input"} : body[f] = "known" => f = OneRequest!Notes(body)
    BY <1>3
  <2> QED
    BY <1>2, <2>1, <2>2, <2>3, RequestIsIncoming
<1> HIDE DEF Is
<1> QED
  BY <1>1, <1>4

LEMMA ReplacementsAreBodies ==
  VariedReplacements \subseteq OneRequest!Bodies /\ FewReplacements \subseteq OneRequest!Bodies
<1>1. VariedReplacements \subseteq OneRequest!Bodies
  <2>1. \A i \in {"absent", "sent", "right", "other"}, s \in {"absent", "other"},
           x \in {"absent", "other"} : Replacement(i, s, x) \in OneRequest!Bodies
    BY ReplacementIsABody
  <2> QED
    BY <2>1 DEF VariedReplacements
<1>2. Replacement("other", "absent", "absent") \in OneRequest!Bodies
  BY ReplacementIsABody
<1> QED
  BY <1>1, <1>2 DEF FewReplacements

LEMMA OneRequestAssumed == OneRequest!GuardrailAssumption
<1>1. OneRequest!None \notin {"r1"}
  BY DEF OneRequest!None
<1> QED
  BY <1>1, SettingsAreSettings, VariedIsIncoming, ReplacementsAreBodies
  DEF IsIncoming, OneRequest!GuardrailAssumption

LEMMA LetThroughHooksAssumed == LetThroughHooks!GuardrailAssumption
<1>1. LetThroughHooks!None \notin {"r1", "r2"}
  BY DEF LetThroughHooks!None
<1>2. \A q \in Few : \A f \in q.named : q.fields[f] = "known" => f = LetThroughHooks!Notes(q.fields)
  BY FewAreIncoming DEF IsIncoming, OneRequest!Notes, LetThroughHooks!Notes, OneRequest!Absent, LetThroughHooks!Absent
<1>3. /\ \A s \in VariedSettings : /\ s.modes \subseteq {"pre_call", "post_call"}
                                 /\ s.listed \subseteq SUBSET LetThroughHooks!Headers
      /\ FewReplacements \subseteq LetThroughHooks!Bodies
  BY SettingsAreSettings, ReplacementsAreBodies
  DEF OneRequest!Headers, LetThroughHooks!Headers, OneRequest!Bodies, LetThroughHooks!Bodies, OneRequest!Fields,
      LetThroughHooks!Fields, OneRequest!Values, LetThroughHooks!Values, OneRequest!Absent, LetThroughHooks!Absent
<1>4. \A q \in Few :
        /\ q.fields \in LetThroughHooks!Bodies /\ q.named \subseteq LetThroughHooks!Fields \ {"state", "extra"}
        /\ q.headers \subseteq LetThroughHooks!Headers
  BY FewAreIncoming
  DEF IsIncoming, OneRequest!Headers, LetThroughHooks!Headers, OneRequest!Bodies, LetThroughHooks!Bodies,
      OneRequest!Fields, LetThroughHooks!Fields, OneRequest!Values, LetThroughHooks!Values, OneRequest!Absent,
      LetThroughHooks!Absent
<1> QED
  BY <1>1, <1>2, <1>3, <1>4, FewAreIncoming DEF IsIncoming, LetThroughHooks!GuardrailAssumption

LEMMA ClosedHooksAssumed == ClosedHooks!GuardrailAssumption
<1>1. ClosedHooks!None \notin {"r1", "r2"}
  BY DEF ClosedHooks!None
<1>2. \A q \in Few : \A f \in q.named : q.fields[f] = "known" => f = ClosedHooks!Notes(q.fields)
  BY FewAreIncoming DEF IsIncoming, OneRequest!Notes, ClosedHooks!Notes, OneRequest!Absent, ClosedHooks!Absent
<1>3. /\ \A s \in VariedSettings : /\ s.modes \subseteq {"pre_call", "post_call"}
                                 /\ s.listed \subseteq SUBSET ClosedHooks!Headers
      /\ FewReplacements \subseteq ClosedHooks!Bodies
  BY SettingsAreSettings, ReplacementsAreBodies
  DEF OneRequest!Headers, ClosedHooks!Headers, OneRequest!Bodies, ClosedHooks!Bodies, OneRequest!Fields,
      ClosedHooks!Fields, OneRequest!Values, ClosedHooks!Values, OneRequest!Absent, ClosedHooks!Absent
<1>4. \A q \in Few :
        /\ q.fields \in ClosedHooks!Bodies /\ q.named \subseteq ClosedHooks!Fields \ {"state", "extra"}
        /\ q.headers \subseteq ClosedHooks!Headers
  BY FewAreIncoming
  DEF IsIncoming, OneRequest!Headers, ClosedHooks!Headers, OneRequest!Bodies, ClosedHooks!Bodies,
      OneRequest!Fields, ClosedHooks!Fields, OneRequest!Values, ClosedHooks!Values, OneRequest!Absent,
      ClosedHooks!Absent
<1> QED
  BY <1>1, <1>2, <1>3, <1>4, FewAreIncoming DEF IsIncoming, ClosedHooks!GuardrailAssumption

LEMMA FolderSays ==
  ASSUME NEW folder \in {<<>>, <<<<"t">>>>}
  PROVE  folder \in Seq(Seq({"t"}))
<1>1. "t" \in {"t"}
  OBVIOUS
<1>2. \A s \in {"t"} : <<s>> \in Seq({"t"})
  BY SingleSeq
<1>3. \A s \in Seq({"t"}) : <<s>> \in Seq(Seq({"t"}))
  BY SingleSeq
<1>4. <<>> \in Seq(Seq({"t"}))
  OBVIOUS
<1> QED
  BY <1>1, <1>2, <1>3, <1>4, Zenon

LEMMA ToAnswerIsConfigured == \A c \in ToAnswer : Answering!IsConfiguration(c)
<1> DEFINE Is(folder, port, results, given, registration) ==
             Started(TRUE, TRUE, TRUE, folder, Says(port, "unset", results, "unset"),
                     Says("unset", "unset", given, registration))
<1>1. ToAnswer = {Is(folder, port, results, given, registration) :
        folder \in {<<>>, <<<<"t">>>>}, port \in {"unset", "on"},
        results \in {"unset", "on", "off"}, given \in {"unset", "off"},
        registration \in {"unset", "off"}}
  BY DEF ToAnswer
<1>2. ASSUME NEW folder \in {<<>>, <<<<"t">>>>}, NEW port \in {"unset", "on"},
             NEW results \in {"unset", "on", "off"}, NEW given \in {"unset", "off"},
             NEW registration \in {"unset", "off"}
      PROVE  Answering!IsConfiguration(Is(folder, port, results, given, registration))
  <2> DEFINE Given == [{"eval_port", "envoy_port", "eval_results", "runtime_task_registration"}
                       -> {"unset", "on", "off"}]
  <2>1. Says(port, "unset", results, "unset") \in Given
    BY SaysSettings
  <2>2. Says("unset", "unset", given, registration) \in Given
    BY SaysSettings
  <2>3. folder \in Seq(Seq({"t"}))
    BY FolderSays
  <2>4. Stopping!IsConfiguration(Is(folder, port, results, given, registration))
    BY <2>1, <2>2, <2>3, StartedIsAConfiguration
  <2> QED
    BY <2>4 DEF Stopping!IsConfiguration, Answering!IsConfiguration, Stopping!Settings,
       Answering!Settings, Stopping!Unset, Answering!Unset
<1> HIDE DEF Is
<1> QED
  BY <1>1, <1>2

LEMMA SoundOrNotAreCalls == SoundOrNot \subseteq Answering!AnyCall
<1>1. ASSUME NEW at \in {"main", "evals"}, NEW path \in {"proxy", "evals"},
             NEW method \in Methods
      PROVE  Sound(at, path, method) \in Answering!AnyCall
  BY DEF Sound, Methods, Answering!AnyCall, Answering!IsServer, Answering!ProxyMethods,
     Answering!EvalMethods
<1>2. ASSUME NEW c \in Answering!AnyCall
      PROVE  /\ [c EXCEPT !.large = TRUE] \in Answering!AnyCall
             /\ [c EXCEPT !.fits = FALSE] \in Answering!AnyCall
             /\ \A form \in {"no_id", "not_json", "not_call"} :
                  [c EXCEPT !.form = form] \in Answering!AnyCall
             /\ \A bearer \in BOOLEAN : [c EXCEPT !.bearer = bearer] \in Answering!AnyCall
  BY DEF Answering!AnyCall
<1> DEFINE Spoiled(c) ==
             {c, [c EXCEPT !.large = TRUE], [c EXCEPT !.fits = FALSE]}
             \cup {[c EXCEPT !.form = form] : form \in {"no_id", "not_json", "not_call"}}
           Each(c) == {[d EXCEPT !.bearer = bearer] : bearer \in BOOLEAN, d \in Spoiled(c)}
<1>3. \A c \in Answering!AnyCall : Spoiled(c) \subseteq Answering!AnyCall
  BY <1>2
<1>4. SoundOrNot = UNION {Each(Sound(at, path, method)) :
        at \in {"main", "evals"}, path \in {"proxy", "evals"}, method \in Methods}
  BY DEF SoundOrNot
<1> HIDE DEF Spoiled
<1>5. ASSUME NEW c \in Answering!AnyCall, NEW e \in Each(c) PROVE e \in Answering!AnyCall
  <2>1. PICK bearer \in BOOLEAN, d \in Spoiled(c) : e = [d EXCEPT !.bearer = bearer]
    BY <1>5
  <2>2. d \in Answering!AnyCall
    BY <1>3
  <2>3. [d EXCEPT !.bearer = bearer] \in Answering!AnyCall
    BY <2>2 DEF Answering!AnyCall
  <2> QED
    BY <2>1, <2>3
<1> HIDE DEF Each
<1> QED
  BY <1>1, <1>4, <1>5

LEMMA AnsweringAssumed == Answering!ServingAssumption
BY ToAnswerIsConfigured, SoundOrNotAreCalls DEF Answering!ServingAssumption

LEMMA OneRequestAgrees ==
  /\ OneRequest!Init => OneRequest!GuardInv
  /\ OneRequest!GuardInv /\ [OneRequest!Next]_(OneRequest!vars) => OneRequest!GuardInv'
  /\ OneRequest!GuardInv => OneRequest!ProviderIsSentWhatWasJudged /\ OneRequest!LiteLLMsOwnIsKept /\ OneRequest!NothingHiddenIsShown /\ OneRequest!UnjudgeableIsRefused /\ OneRequest!InspectHeadersStopHere
<1>1. ASSUME OneRequest!Init PROVE OneRequest!GuardInv
  BY <1>1, OneRequest!HooksBegin, OneRequestAssumed
<1>2. ASSUME OneRequest!GuardInv, [OneRequest!Next]_(OneRequest!vars) PROVE OneRequest!GuardInv'
  BY <1>2, OneRequestAssumed, OneRequest!HooksGoOn
<1>3. ASSUME OneRequest!GuardInv
      PROVE  OneRequest!ProviderIsSentWhatWasJudged /\ OneRequest!LiteLLMsOwnIsKept /\ OneRequest!NothingHiddenIsShown /\ OneRequest!UnjudgeableIsRefused /\ OneRequest!InspectHeadersStopHere
  BY <1>3, OneRequestAssumed, OneRequest!GuardInvImplies
<1> QED
  BY <1>1, <1>2, <1>3

LEMMA LetThroughHooksAgrees ==
  /\ LetThroughHooks!Init => LetThroughHooks!GuardInv
  /\ LetThroughHooks!GuardInv /\ [LetThroughHooks!Next]_(LetThroughHooks!vars) => LetThroughHooks!GuardInv'
  /\ LetThroughHooks!GuardInv => LetThroughHooks!TypeOK /\ LetThroughHooks!RepliesMeetTheirRequests /\ LetThroughHooks!AskedOnce /\ LetThroughHooks!RefusalRefuses
<1>1. ASSUME LetThroughHooks!Init PROVE LetThroughHooks!GuardInv
  BY <1>1, LetThroughHooks!HooksBegin, LetThroughHooksAssumed
<1>2. ASSUME LetThroughHooks!GuardInv, [LetThroughHooks!Next]_(LetThroughHooks!vars) PROVE LetThroughHooks!GuardInv'
  BY <1>2, LetThroughHooksAssumed, LetThroughHooks!HooksGoOn
<1>3. ASSUME LetThroughHooks!GuardInv
      PROVE  LetThroughHooks!TypeOK /\ LetThroughHooks!RepliesMeetTheirRequests /\ LetThroughHooks!AskedOnce /\ LetThroughHooks!RefusalRefuses
  BY <1>3, LetThroughHooksAssumed, LetThroughHooks!GuardInvImplies
<1> QED
  BY <1>1, <1>2, <1>3

LEMMA ClosedHooksAgrees ==
  /\ ClosedHooks!Init => ClosedHooks!GuardInv
  /\ ClosedHooks!GuardInv /\ [ClosedHooks!Next]_(ClosedHooks!vars) => ClosedHooks!GuardInv'
  /\ ClosedHooks!GuardInv => ClosedHooks!NothingUnjudgedIsAnswered
<1>1. ASSUME ClosedHooks!Init PROVE ClosedHooks!GuardInv
  BY <1>1, ClosedHooks!HooksBegin, ClosedHooksAssumed
<1>2. ASSUME ClosedHooks!GuardInv, [ClosedHooks!Next]_(ClosedHooks!vars) PROVE ClosedHooks!GuardInv'
  BY <1>2, ClosedHooksAssumed, ClosedHooks!HooksGoOn
<1>3. ASSUME ClosedHooks!GuardInv
      PROVE  ClosedHooks!NothingUnjudgedIsAnswered
  BY <1>3, ClosedHooksAssumed, ClosedHooks!GuardInvImplies
<1> QED
  BY <1>1, <1>2, <1>3

LEMMA AnsweringAgrees ==
  /\ Answering!Init => Answering!AnswersInv
  /\ Answering!AnswersInv /\ [Answering!Next]_(Answering!vars) => Answering!AnswersInv'
  /\ Answering!AnswersInv => Answering!UnjudgedIsAnError /\ Answering!KeptFromEvals /\ Answering!TakenWhereServed
<1>1. ASSUME Answering!Init PROVE Answering!AnswersInv
  BY <1>1, Answering!AnswersBegin, AnsweringAssumed
<1>2. ASSUME Answering!AnswersInv, [Answering!Next]_(Answering!vars) PROVE Answering!AnswersInv'
  BY <1>2, AnsweringAssumed, Answering!AnswersGoOn
<1>3. ASSUME Answering!AnswersInv
      PROVE  Answering!UnjudgedIsAnError /\ Answering!KeptFromEvals /\ Answering!TakenWhereServed
  BY <1>3, AnsweringAssumed, Answering!AnswersInvImplies
<1> QED
  BY <1>1, <1>2, <1>3

HooksGoOn ==
  /\ part = "fields" => OneRequest!GuardInv
  /\ part = "open" => LetThroughHooks!GuardInv
  /\ part = "closed" => ClosedHooks!GuardInv
  /\ part = "answering" => Answering!AnswersInv

LEMMA HooksStart == ProxiesInit => HooksGoOn
BY OneRequestAgrees, LetThroughHooksAgrees, ClosedHooksAgrees, AnsweringAgrees
DEF ProxiesInit, HooksGoOn

LEMMA HooksStayOn ==
  ASSUME HooksGoOn, [ProxiesNext]_allVars
  PROVE  HooksGoOn'
<1>1. ASSUME part = "fields" => OneRequest!GuardInv
      PROVE  part' = "fields" => OneRequest!GuardInv'
  <2>1. part' = part
    BY DEF ProxiesNext, RelayPart, FeedingPart, PollingPart, ReopenedPart, EnvoyPart, FieldsPart,
           OpenPart, ClosedPart, AnsweringPart, StoppingPart, allVars
  <2>2. ASSUME part = "fields" PROVE [OneRequest!Next]_(OneRequest!vars)
    <3>1. CASE FieldsPart
      BY <3>1 DEF FieldsPart
    <3>2. CASE UNCHANGED allVars
      BY <3>2 DEF allVars, hooksVars, OneRequest!vars, OneRequest!askVars, OneRequest!judgedVars
    <3> QED
      BY <2>2, <3>1, <3>2 DEF ProxiesNext, RelayPart, FeedingPart, PollingPart, ReopenedPart,
         EnvoyPart, FieldsPart, OpenPart, ClosedPart, AnsweringPart, StoppingPart
  <2> QED
    BY <1>1, <2>1, <2>2, OneRequestAgrees
<1>2. ASSUME part = "open" => LetThroughHooks!GuardInv
      PROVE  part' = "open" => LetThroughHooks!GuardInv'
  <2>1. part' = part
    BY DEF ProxiesNext, RelayPart, FeedingPart, PollingPart, ReopenedPart, EnvoyPart, FieldsPart,
           OpenPart, ClosedPart, AnsweringPart, StoppingPart, allVars
  <2>2. ASSUME part = "open" PROVE [LetThroughHooks!Next]_(LetThroughHooks!vars)
    <3>1. CASE OpenPart
      BY <3>1 DEF OpenPart
    <3>2. CASE UNCHANGED allVars
      BY <3>2 DEF allVars, hooksVars, LetThroughHooks!vars, LetThroughHooks!askVars, LetThroughHooks!judgedVars
    <3> QED
      BY <2>2, <3>1, <3>2 DEF ProxiesNext, RelayPart, FeedingPart, PollingPart, ReopenedPart,
         EnvoyPart, FieldsPart, OpenPart, ClosedPart, AnsweringPart, StoppingPart
  <2> QED
    BY <1>2, <2>1, <2>2, LetThroughHooksAgrees
<1>3. ASSUME part = "closed" => ClosedHooks!GuardInv
      PROVE  part' = "closed" => ClosedHooks!GuardInv'
  <2>1. part' = part
    BY DEF ProxiesNext, RelayPart, FeedingPart, PollingPart, ReopenedPart, EnvoyPart, FieldsPart,
           OpenPart, ClosedPart, AnsweringPart, StoppingPart, allVars
  <2>2. ASSUME part = "closed" PROVE [ClosedHooks!Next]_(ClosedHooks!vars)
    <3>1. CASE ClosedPart
      BY <3>1 DEF ClosedPart
    <3>2. CASE UNCHANGED allVars
      BY <3>2 DEF allVars, hooksVars, ClosedHooks!vars, ClosedHooks!askVars, ClosedHooks!judgedVars
    <3> QED
      BY <2>2, <3>1, <3>2 DEF ProxiesNext, RelayPart, FeedingPart, PollingPart, ReopenedPart,
         EnvoyPart, FieldsPart, OpenPart, ClosedPart, AnsweringPart, StoppingPart
  <2> QED
    BY <1>3, <2>1, <2>2, ClosedHooksAgrees
<1>4. ASSUME part = "answering" => Answering!AnswersInv
      PROVE  part' = "answering" => Answering!AnswersInv'
  <2>1. part' = part
    BY DEF ProxiesNext, RelayPart, FeedingPart, PollingPart, ReopenedPart, EnvoyPart, FieldsPart,
           OpenPart, ClosedPart, AnsweringPart, StoppingPart, allVars
  <2>2. ASSUME part = "answering" PROVE [Answering!Next]_(Answering!vars)
    <3>1. CASE AnsweringPart
      BY <3>1 DEF AnsweringPart
    <3>2. CASE UNCHANGED allVars
      BY <3>2 DEF allVars, serversVars, Answering!vars, Answering!callVars
    <3> QED
      BY <2>2, <3>1, <3>2 DEF ProxiesNext, RelayPart, FeedingPart, PollingPart, ReopenedPart,
         EnvoyPart, FieldsPart, OpenPart, ClosedPart, AnsweringPart, StoppingPart
  <2> QED
    BY <1>4, <2>1, <2>2, AnsweringAgrees
<1> QED
  BY <1>1, <1>2, <1>3, <1>4 DEF HooksGoOn

(* The provider is sent what the sidecar judged, and LiteLLM's own fields  *)
(* as they were, while the sidecar is shown nothing of LiteLLM's callers   *)
(* (_body, _replace_request).                                              *)
THEOREM ProviderIsOnlySentTheJudged == ProxiesSpec => []ProviderIsSentWhatWasJudged
<1>1. HooksGoOn => ProviderIsSentWhatWasJudged
  BY OneRequestAgrees DEF HooksGoOn, ProviderIsSentWhatWasJudged
<1> QED
  BY <1>1, HooksStart, HooksStayOn, PTL DEF ProxiesSpec

(* Each reply is judged once and with the request it answers, a refusal    *)
(* refuses, and where nothing is let through only what was judged goes out *)
(* (the guardrail's hooks); and a call to the sidecar is answered as it    *)
(* was judged, and what is withheld from evals kept from them (_judge).    *)
THEOREM RepliesAlwaysMeetTheirRequests == ProxiesSpec => []RepliesMeetTheirRequests
<1>1. HooksGoOn => RepliesMeetTheirRequests
  BY LetThroughHooksAgrees, ClosedHooksAgrees, AnsweringAgrees DEF HooksGoOn, RepliesMeetTheirRequests
<1> QED
  BY <1>1, HooksStart, HooksStayOn, PTL DEF ProxiesSpec
=============================================================================
