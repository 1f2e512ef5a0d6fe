---------------------------- MODULE GuardrailProofs ---------------------------
(***************************************************************************)
(* That the guardrail's hooks send on and answer only what was judged, for *)
(* any number of requests at once, whatever they are and whatever the      *)
(* sidecar puts in their place, and with or without letting through.       *)
(***************************************************************************)
EXTENDS Guardrail, TLAPS

Unsent == {"coming", "pre_call", "asking"}
Unasked == Unsent \cup {"provider", "post_call"}
Stages == Unasked \cup {"relaying", "judging", "done"}
Verdicts == {None} \cup Answers

HooksTyped ==
  /\ came \in [Requests -> Incoming \cup {NoRequest}]
  /\ phase \in [Requests -> Stages]
  /\ data \in [Requests -> Bodies] /\ shown \in [Requests -> Bodies]
  /\ sentOn \in [Requests -> Bodies] /\ inPlace \in [Requests -> Bodies]
  /\ inspect \in [Requests -> BOOLEAN] /\ streamed \in [Requests -> BOOLEAN]
  /\ headers \in [Requests -> SUBSET Headers]
  /\ told \in [Requests -> Requests \cup {None}] /\ about \in [Requests -> SUBSET Requests]
  /\ verdict \in [Requests -> Verdicts] /\ judged \in [Requests -> Verdicts \cup {"unreachable"}]
  /\ asked \in [Requests -> 0..1]
  /\ got \in [Requests -> {None, "refusal", "provider_error", "reply", "replacement"}]
Loaded ==
  /\ loaded \in Settings \cup {[modes |-> {}]}
  /\ loaded.modes = {} \/ "post_call" \in loaded.modes

(* How far a request is says what has come of it.                          *)
Coming(r) ==
  /\ phase[r] = "coming" => came[r] = NoRequest
  /\ phase[r] # "coming" => came[r] \in Incoming /\ loaded.modes # {}
Asking(r) ==
  /\ phase[r] \in {"coming", "pre_call"} => about[r] = {}
  /\ phase[r] \in Unsent => told[r] = None /\ verdict[r] = None /\ sentOn[r] = Empty
  /\ phase[r] = "asking" => came[r].read /\ about[r] = {r}
  /\ phase[r] \notin {"coming", "pre_call"} => ~inspect[r]
Unjudged(r) ==
  phase[r] \notin {"coming", "pre_call"} /\ came[r].read /\ Unjudgeable(r) => sentOn[r] = Empty /\ phase[r] = "done"
Telling(r) ==
  /\ about[r] \subseteq {r}
  /\ told[r] # None => told[r] = r /\ about[r] = {r} /\ verdict[r] \in {"pass", "replace"}
  /\ verdict[r] \in Refusals => phase[r] = "done" /\ got[r] = "refusal" /\ sentOn[r] = Empty
  /\ phase[r] \in {"provider", "post_call"} /\ came[r].read /\ ~LetThrough => told[r] # None
Judging(r) ==
  /\ phase[r] # "done" => got[r] = None /\ judged[r] = None
  /\ phase[r] \in Unasked => asked[r] = 0 /\ ~streamed[r]
  /\ phase[r] \in {"relaying", "judging"} => told[r] # None
  /\ phase[r] = "relaying" => streamed[r]
  /\ asked[r] = 1 => told[r] # None
  /\ judged[r] \in Refusals => got[r] = "refusal"
  /\ ~LetThrough /\ got[r] \in {"reply", "replacement"} /\ came[r].read => judged[r] \in {"pass", "replace"}

(* What the sidecar is shown of a request, and what is sent on of it.      *)
Showing(r) ==
  /\ phase[r] \in {"pre_call", "asking"} => data[r] = came[r].fields
  /\ phase[r] = "asking" => shown[r] = Body(r)
  /\ shown[r]["secret"] = Absent /\ \A f \in Fields : shown[r][f] # "known"
  /\ headers[r] \cap Credentials = {}
KeepsOwn(r) ==
  \A f \in Fields : came[r].fields[f] # Absent /\ (f \notin came[r].named \/ came[r].fields[f] = "known") =>
    sentOn[r][f] = came[r].fields[f]
IsAsReplaced(r) ==
  \A f \in Fields : shown[r][f] # Absent \/ inPlace[r][f] # Absent =>
    /\ inPlace[r][f] = shown[r][f] => sentOn[r][f] = came[r].fields[f]
    /\ inPlace[r][f] # shown[r][f] => sentOn[r][f] = inPlace[r][f]
Sending(r) ==
  phase[r] \notin Unsent =>
    \/ sentOn[r] = Empty
    \/ sentOn[r] = came[r].fields /\ (came[r].read => verdict[r] = "pass" \/ (LetThrough /\ told[r] = None))
    \/ verdict[r] = "replace" /\ told[r] # None /\ IsAsReplaced(r) /\ KeepsOwn(r)

RequestOK(r) == /\ Coming(r) /\ Asking(r) /\ Unjudged(r) /\ Telling(r) /\ Judging(r)
                /\ Showing(r) /\ Sending(r)
GuardInv == HooksTyped /\ Loaded /\ \A r \in Requests : RequestOK(r)

-----------------------------------------------------------------------------
Same(j) ==
  /\ came'[j] = came[j] /\ phase'[j] = phase[j] /\ data'[j] = data[j] /\ inspect'[j] = inspect[j]
  /\ told'[j] = told[j] /\ streamed'[j] = streamed[j] /\ shown'[j] = shown[j]
  /\ headers'[j] = headers[j] /\ verdict'[j] = verdict[j] /\ inPlace'[j] = inPlace[j]
  /\ asked'[j] = asked[j] /\ judged'[j] = judged[j] /\ about'[j] = about[j]
  /\ sentOn'[j] = sentOn[j] /\ got'[j] = got[j]

(* A step about another request leaves this one as it is.                  *)
LEMMA OthersStay ==
  ASSUME NEW j \in Requests, RequestOK(j), Same(j), loaded' = loaded \/ loaded'.modes # {}
  PROVE  RequestOK(j)'
<1>1. Coming(j)' /\ Asking(j)' /\ Telling(j)' /\ Judging(j)'
  BY DEF RequestOK, Same, Coming, Asking, Telling, Judging
<1>2. Unjudgeable(j)' <=> Unjudgeable(j)
  BY DEF Same, Unjudgeable
<1>3. Unjudged(j)'
  BY <1>2 DEF RequestOK, Same, Unjudged
<1>4. Body(j)' = Body(j)
  BY DEF Body, Own, Hidden, Same
<1>5. Showing(j)'
  BY <1>4 DEF RequestOK, Same, Showing
<1>6. IsAsReplaced(j)' <=> IsAsReplaced(j)
  BY DEF Same, IsAsReplaced
<1>7. KeepsOwn(j)' <=> KeepsOwn(j)
  BY DEF Same, KeepsOwn
<1>8. Sending(j)'
  BY <1>6, <1>7 DEF RequestOK, Same, Sending
<1> QED
  BY <1>1, <1>3, <1>5, <1>8 DEF RequestOK

LEMMA FieldsTyped ==
  ASSUME GuardrailAssumption, NEW q \in Incoming
  PROVE  /\ q.fields \in Bodies /\ q.named \subseteq Fields \ {"state", "extra"}
         /\ \A f \in q.named : q.fields[f] = "known" => f = Notes(q.fields)
BY DEF GuardrailAssumption

LEMMA HooksBegin == ASSUME GuardrailAssumption, Init PROVE GuardInv
<1>1. Empty \in Bodies
  BY DEF Empty, Bodies, Values, Fields, Absent
<1>2. HooksTyped
  BY <1>1 DEF Init, HooksTyped, Stages, Unasked, Unsent, Verdicts
<1>3. Loaded
  BY DEF Init, Loaded
<1>4. ASSUME NEW r \in Requests PROVE RequestOK(r)
  <2>1. Coming(r) /\ Asking(r) /\ Unjudged(r) /\ Sending(r)
    BY DEF Init, Coming, Asking, Unjudged, Sending, Unsent
  <2>2. Telling(r)
    BY DEF Init, Telling, Refusals, None
  <2>3. Judging(r)
    BY DEF Init, Judging, Refusals, None
  <2>4. Showing(r)
    BY DEF Init, Showing, Empty, Fields, Absent, Credentials
  <2> QED
    BY <2>1, <2>2, <2>3, <2>4 DEF RequestOK
<1> QED
  BY <1>2, <1>3, <1>4 DEF GuardInv

LEMMA LoadsOn ==
  ASSUME GuardInv, NEW s \in Settings, Load(s)
  PROVE  GuardInv'
<1>1. \A j \in Requests : Same(j)
  BY DEF Load, Same, judgedVars
<1>2. loaded' = s /\ s.modes = {"pre_call", "post_call"}
  BY DEF Load, Sensible
<1>3. HooksTyped'
  BY DEF GuardInv, HooksTyped, Load, judgedVars
<1>4. Loaded'
  BY <1>2 DEF Loaded
<1> QED
  BY <1>1, <1>2, <1>3, <1>4, OthersStay DEF GuardInv

LEMMA RequestComes ==
  ASSUME GuardrailAssumption, GuardInv, NEW r \in Requests, NEW q \in Incoming, Comes(r, q)
  PROVE  GuardInv'
<1>1. HooksTyped /\ RequestOK(r)
  BY DEF GuardInv
<1>2. HooksTyped' /\ Loaded'
  BY <1>1, FieldsTyped DEF GuardInv, HooksTyped, Loaded, Comes, judgedVars, Stages, Unasked, Unsent
<1>3. ASSUME NEW j \in Requests \ {r} PROVE RequestOK(j)'
  <2>1. Same(j) /\ loaded' = loaded
    BY <1>1 DEF Comes, judgedVars, Same, HooksTyped
  <2> QED
    BY <2>1, OthersStay DEF GuardInv
<1>4. RequestOK(r)'
  <2>1. /\ came'[r] = q /\ data'[r] = q.fields /\ phase[r] = "coming" /\ phase'[r] = "pre_call"
        /\ loaded.modes # {} /\ loaded' = loaded
        /\ UNCHANGED <<told, streamed, shown, headers, verdict, inPlace, about, asked, judged, sentOn, got>>
    BY <1>1 DEF Comes, judgedVars, HooksTyped
  <2>2. Coming(r)' /\ Asking(r)' /\ Unjudged(r)' /\ Sending(r)'
    BY <1>1, <2>1 DEF RequestOK, Coming, Asking, Unjudged, Sending, Unsent
  <2>3. Telling(r)' /\ Judging(r)'
    <3>1. told[r] = None /\ verdict[r] = None /\ got[r] = None /\ judged[r] = None /\ asked[r] = 0 /\ ~streamed[r]
      BY <1>1, <2>1 DEF RequestOK, Asking, Judging, Unsent, Unasked
    <3> QED
      BY <1>1, <2>1, <3>1 DEF RequestOK, Telling, Judging, Refusals, None
  <2>4. Showing(r)'
    BY <1>1, <2>1 DEF RequestOK, Showing
  <2> QED
    BY <2>2, <2>3, <2>4 DEF RequestOK
<1> QED
  BY <1>2, <1>3, <1>4 DEF GuardInv

(* What the sidecar is shown is the request's own, put right for reading.  *)
LEMMA BodyIsOwn ==
  ASSUME GuardrailAssumption, HooksTyped, NEW r \in Requests, came[r] \in Incoming,
         data[r] = came[r].fields
  PROVE  /\ Body(r) \in Bodies /\ Body(r)["secret"] = Absent
         /\ \A f \in Fields : Body(r)[f] # "known"
         /\ \A f \in Fields : f \in Own(r) => /\ data[r][f] # Absent /\ data[r][f] # "known" /\ f \in came[r].named
                                              /\ Body(r)[f] = IF f = "input" THEN Readable(data[r][f])
                                                              ELSE data[r][f]
         /\ \A f \in Fields : f \notin Own(r) => Body(r)[f] = Absent
<1>1. data[r] \in Bodies /\ came[r].named \subseteq Fields
      /\ \A f \in came[r].named : data[r][f] = "known" => f = Notes(data[r])
  BY FieldsTyped DEF HooksTyped
<1>2. \A f \in Fields : data[r][f] \in Values
  BY <1>1 DEF Bodies
<1>3. \A f \in Fields : f \in Own(r) => f \in came[r].named /\ data[r][f] # Absent /\ f # "secret" /\ f # Notes(data[r])
  BY DEF Own, Hidden
<1>4. \A f \in Fields : f \in Own(r) => data[r][f] # "known"
  BY <1>1, <1>3
<1>5. \A f \in Fields : Body(r)[f] = IF f \notin Own(r) THEN Absent
                                     ELSE IF f = "input" THEN Readable(data[r][f]) ELSE data[r][f]
  BY DEF Body
<1>6. \A v \in Values : Readable(v) \in Values /\ (v # "known" => Readable(v) # "known")
  BY DEF Readable, Values
<1>7. \A f \in Fields : Body(r)[f] \in Values /\ Body(r)[f] # "known"
  BY <1>2, <1>4, <1>5, <1>6 DEF Values, Absent
<1>8. Body(r) \in Bodies
  BY <1>7 DEF Body, Bodies
<1>9. Body(r)["secret"] = Absent
  BY <1>3, <1>5 DEF Fields
<1> QED
  BY <1>3, <1>4, <1>5, <1>7, <1>8, <1>9

LEMMA HookIsCalled ==
  ASSUME GuardrailAssumption, GuardInv, NEW r \in Requests, PreCall(r)
  PROVE  GuardInv'
<1>1. HooksTyped /\ RequestOK(r) /\ phase[r] = "pre_call" /\ came[r] \in Incoming
      /\ data[r] = came[r].fields /\ about[r] = {}
  BY DEF GuardInv, RequestOK, PreCall, Coming, Showing, Asking
<1>2. /\ UNCHANGED <<loaded, came, data, told, streamed, verdict, inPlace, asked, judged>>
      /\ inspect' = [inspect EXCEPT ![r] = FALSE]
  BY DEF PreCall, askVars, Withheld
<1>3. told[r] = None /\ verdict[r] = None /\ got[r] = None /\ judged[r] = None /\ asked[r] = 0 /\ ~streamed[r]
      /\ sentOn[r] = Empty
  BY <1>1 DEF RequestOK, Asking, Judging, Unsent, Unasked
<1>4. Body(r) \in Bodies /\ data[r] \in Bodies /\ Unjudgeable(r)' = Unjudgeable(r)
  BY <1>1, <1>2, BodyIsOwn DEF HooksTyped, Unjudgeable
<1>5. Loaded'
  BY <1>2 DEF GuardInv, Loaded
<1>6. CASE /\ ~came[r].read \/ (LetThrough /\ ~Unjudgeable(r))
           /\ SendOn(r, data[r]) /\ UNCHANGED <<shown, headers, about, got>>
  <2>1. HooksTyped' /\ phase'[r] = "provider" /\ sentOn'[r] = data[r] /\ ~inspect'[r]
        /\ \A j \in Requests \ {r} : Same(j)
    BY <1>1, <1>2, <1>4, <1>6 DEF HooksTyped, SendOn, Stages, Unasked, Same
  <2>2. Coming(r)' /\ Asking(r)'
    BY <1>1, <1>2, <1>3, <1>6, <2>1 DEF RequestOK, Coming, Asking, Unsent
  <2>3. Unjudged(r)' /\ Telling(r)'
    BY <1>1, <1>2, <1>3, <1>4, <1>6, <2>1 DEF RequestOK, Unjudged, Telling, Refusals, None
  <2>4. Judging(r)'
    BY <1>1, <1>2, <1>3, <1>6, <2>1 DEF RequestOK, Judging, Refusals, None
  <2>5. Showing(r)' /\ Sending(r)'
    BY <1>1, <1>2, <1>3, <1>6, <2>1 DEF RequestOK, Showing, Sending
  <2> QED
    BY <1>2, <1>5, <2>1, <2>2, <2>3, <2>4, <2>5, OthersStay DEF GuardInv, RequestOK
<1>7. CASE came[r].read /\ Refuse(r) /\ UNCHANGED <<shown, headers, about, sentOn>>
  <2>1. HooksTyped' /\ phase'[r] = "done" /\ got'[r] = "refusal" /\ ~inspect'[r]
        /\ \A j \in Requests \ {r} : Same(j)
    BY <1>1, <1>2, <1>7 DEF HooksTyped, Refuse, Stages, Same
  <2>2. Coming(r)' /\ Asking(r)'
    BY <1>1, <1>2, <1>3, <1>7, <2>1 DEF RequestOK, Coming, Asking, Unsent
  <2>3. Unjudged(r)' /\ Telling(r)'
    BY <1>1, <1>2, <1>3, <1>7, <2>1 DEF RequestOK, Unjudged, Telling, Refusals, None
  <2>4. Judging(r)'
    BY <1>1, <1>2, <1>3, <1>7, <2>1 DEF RequestOK, Judging, Refusals, None
  <2>5. Showing(r)' /\ Sending(r)'
    BY <1>1, <1>2, <1>3, <1>7, <2>1 DEF RequestOK, Showing, Sending
  <2> QED
    BY <1>2, <1>5, <2>1, <2>2, <2>3, <2>4, <2>5, OthersStay DEF GuardInv, RequestOK
<1>8. CASE /\ came[r].read /\ ~Unjudgeable(r)
           /\ shown' = [shown EXCEPT ![r] = Body(r)]
           /\ headers' = [headers EXCEPT ![r] = {h \in came[r].headers : Shows(h)}]
           /\ about' = [about EXCEPT ![Id(r)] = @ \cup {r}]
           /\ phase' = [phase EXCEPT ![r] = "asking"]
           /\ UNCHANGED <<sentOn, got>>
  <2> DEFINE H == {h \in came[r].headers : Shows(h)}
  <2>1. H \subseteq Headers /\ H \cap Credentials = {}
    BY <1>1 DEF GuardrailAssumption, Shows
  <2> HIDE DEF H
  <2>2. /\ HooksTyped' /\ phase'[r] = "asking" /\ about'[r] = {r} /\ shown'[r] = Body(r) /\ headers'[r] = H
        /\ ~inspect'[r] /\ \A j \in Requests \ {r} : Same(j)
    BY <1>1, <1>2, <1>4, <1>8, <2>1 DEF HooksTyped, Stages, Unasked, Unsent, Same, Id, H
  <2>3. Coming(r)' /\ Asking(r)'
    BY <1>1, <1>2, <1>3, <1>8, <2>2 DEF RequestOK, Coming, Asking, Unsent
  <2>4. Unjudged(r)' /\ Telling(r)'
    BY <1>1, <1>2, <1>3, <1>4, <1>8, <2>2 DEF RequestOK, Unjudged, Telling, Refusals, None
  <2>5. Judging(r)'
    BY <1>1, <1>2, <1>3, <1>8, <2>2 DEF RequestOK, Judging, Refusals, None
  <2>6. Showing(r)' /\ Sending(r)'
    <3>1. Body(r)' = Body(r)
      BY <1>2 DEF Body, Own, Hidden
    <3>2. Sending(r)'
      BY <2>2 DEF Sending, Unsent
    <3>3. Showing(r)'
      BY <1>1, <1>2, <2>1, <2>2, <3>1, BodyIsOwn DEF Showing
    <3> QED
      BY <3>2, <3>3
  <2> QED
    BY <1>2, <1>5, <2>2, <2>3, <2>4, <2>5, <2>6, OthersStay DEF GuardInv, RequestOK
<1> QED
  BY <1>6, <1>7, <1>8 DEF PreCall, RequestUnanswered

LEMMA AnswersRead ==
  ASSUME NEW answer \in Answers
  PROVE  /\ Read(answer) = "pass" <=> answer = "pass"
         /\ Read(answer) = "replace" <=> answer = "replace"
         /\ Read(answer) = "refuse" <=> answer \in Refusals
         /\ Read(answer) = "no_answer" <=> answer \in Failures
         /\ Refusals \cap Failures = {} /\ "pass" \notin Refusals \cup Failures
         /\ "replace" \notin Refusals \cup Failures /\ None \notin Answers
BY DEF Answers, Read, Failures, Refusals, None

(* A replacement's fields are put in place of the request's own alone, and *)
(* what it leaves as the sidecar was shown it is as the client sent it.    *)
LEMMA ReplacementIsSent ==
  ASSUME GuardrailAssumption, HooksTyped, NEW r \in Requests, came[r] \in Incoming,
         data[r] = came[r].fields, NEW body \in Replacements, Settable(r, body)
  PROVE  /\ Replaced(r, body) \in Bodies
         /\ \A f \in Fields : Body(r)[f] # Absent \/ body[f] # Absent =>
              /\ body[f] = Body(r)[f] => Replaced(r, body)[f] = came[r].fields[f]
              /\ body[f] # Body(r)[f] => Replaced(r, body)[f] = body[f]
         /\ \A f \in Fields : came[r].fields[f] # Absent /\ (f \notin came[r].named \/ came[r].fields[f] = "known") =>
              Replaced(r, body)[f] = came[r].fields[f]
<1>1. data[r] \in Bodies /\ body \in Bodies
  BY DEF HooksTyped, GuardrailAssumption
<1>2. \A f \in Fields : data[r][f] \in Values /\ body[f] \in Values
  BY <1>1 DEF Bodies
<1>3. \A f \in Fields : Replaced(r, body)[f] = IF body[f] # Absent THEN Restored(r, f, body[f])
                                               ELSE IF f \in Own(r) THEN Absent ELSE data[r][f]
  BY DEF Replaced
<1>4. \A f \in Fields : Restored(r, f, body[f]) = IF f = "input" /\ body[f] = Readable(data[r][f])
                                                  THEN data[r][f] ELSE body[f]
  BY DEF Restored
<1>5. \A f \in Fields : body[f] # Absent => f \in Own(r) \/ data[r][f] = Absent
  BY DEF Settable
<1>6. Absent \in Values /\ Readable(Absent) = Absent
  BY DEF Readable, Values, Absent
<1>7. Replaced(r, body) \in Bodies
  <2>1. \A f \in Fields : Replaced(r, body)[f] \in Values
    BY <1>2, <1>3, <1>4, <1>6
  <2> QED
    BY <2>1 DEF Replaced, Bodies
<1>8. ASSUME NEW f \in Fields, Body(r)[f] # Absent \/ body[f] # Absent
      PROVE  /\ body[f] = Body(r)[f] => Replaced(r, body)[f] = came[r].fields[f]
             /\ body[f] # Body(r)[f] => Replaced(r, body)[f] = body[f]
  <2>1. CASE f \in Own(r)
    <3>1. Body(r)[f] = IF f = "input" THEN Readable(data[r][f]) ELSE data[r][f]
      BY <2>1, BodyIsOwn
    <3> QED
      BY <1>3, <1>4, <1>8, <2>1, <3>1
  <2>2. CASE f \notin Own(r)
    <3>1. Body(r)[f] = Absent /\ body[f] # Absent
      BY <1>8, <2>2, BodyIsOwn
    <3> QED
      BY <1>3, <1>4, <1>5, <1>6, <2>2, <3>1
  <2> QED
    BY <2>1, <2>2
<1>9. ASSUME NEW f \in Fields, data[r][f] # Absent, f \notin came[r].named \/ data[r][f] = "known"
      PROVE  Replaced(r, body)[f] = data[r][f]
  <2>1. f \notin Own(r)
    BY <1>9, BodyIsOwn
  <2> QED
    BY <1>3, <1>5, <1>9, <2>1
<1> QED
  BY <1>7, <1>8, <1>9

LEMMA RequestIsAnswered ==
  ASSUME GuardrailAssumption, GuardInv, NEW r \in Requests, Answered(r)
  PROVE  GuardInv'
<1>1. HooksTyped /\ RequestOK(r) /\ phase[r] = "asking" /\ came[r] \in Incoming /\ came[r].read
      /\ data[r] = came[r].fields /\ about[r] = {r} /\ shown[r] = Body(r) /\ ~inspect[r]
  BY DEF GuardInv, RequestOK, Answered, Coming, Showing, Asking
<1>2. /\ UNCHANGED <<loaded, came, inspect, streamed, shown, headers, asked, judged, about>>
  BY DEF Answered, askVars
<1>3. told[r] = None /\ verdict[r] = None /\ got[r] = None /\ judged[r] = None /\ asked[r] = 0 /\ ~streamed[r]
      /\ sentOn[r] = Empty /\ ~Unjudgeable(r)
  BY <1>1 DEF RequestOK, Asking, Judging, Unjudged, Unsent, Unasked
<1>4. data[r] \in Bodies /\ Unjudgeable(r)' = Unjudgeable(r)
  BY <1>1, <1>2 DEF HooksTyped, Unjudgeable
<1>5. Loaded'
  BY <1>2 DEF GuardInv, Loaded
<1>6. PICK answer \in Answers :
       /\ verdict' = [verdict EXCEPT ![r] = answer]
       /\ \/ /\ Read(answer) = "pass"
             /\ told' = [told EXCEPT ![r] = Id(r)]
             /\ SendOn(r, data[r]) /\ UNCHANGED <<data, inPlace, got>>
          \/ /\ Read(answer) = "replace"
             /\ \E body \in Replacements :
                  /\ inPlace' = [inPlace EXCEPT ![r] = body]
                  /\ IF Settable(r, body)
                     THEN /\ told' = [told EXCEPT ![r] = Id(r)]
                          /\ data' = [data EXCEPT ![r] = Replaced(r, body)]
                          /\ SendOn(r, data'[r]) /\ UNCHANGED got
                     ELSE RequestUnanswered(r) /\ UNCHANGED <<data, told>>
          \/ /\ Read(answer) = "refuse"
             /\ Refuse(r) /\ UNCHANGED <<data, told, inPlace, sentOn>>
          \/ /\ Read(answer) = "no_answer"
             /\ RequestUnanswered(r) /\ UNCHANGED <<data, told, inPlace>>
  BY DEF Answered
<1>7. answer \in Verdicts /\ verdict'[r] = answer /\ \A j \in Requests \ {r} : verdict'[j] = verdict[j]
  BY <1>1, <1>6 DEF Verdicts, HooksTyped
<1>8. ASSUME inPlace' = inPlace \/ \E body \in Replacements : inPlace' = [inPlace EXCEPT ![r] = body]
      PROVE  inPlace' \in [Requests -> Bodies] /\ \A j \in Requests \ {r} : inPlace'[j] = inPlace[j]
  BY <1>1, <1>8 DEF HooksTyped, GuardrailAssumption
<1>9. ASSUME Refuse(r), UNCHANGED <<data, told, sentOn>>,
             inPlace' = inPlace \/ \E body \in Replacements : inPlace' = [inPlace EXCEPT ![r] = body]
      PROVE  GuardInv'
  <2>1. HooksTyped' /\ phase'[r] = "done" /\ got'[r] = "refusal" /\ \A j \in Requests \ {r} : Same(j)
    BY <1>1, <1>2, <1>6, <1>7, <1>8, <1>9 DEF HooksTyped, Refuse, Stages, Same
  <2>2. Coming(r)' /\ Asking(r)'
    BY <1>1, <1>2, <1>3, <1>9, <2>1 DEF RequestOK, Coming, Asking, Unsent
  <2>3. Unjudged(r)' /\ Telling(r)'
    BY <1>1, <1>2, <1>3, <1>4, <1>9, <2>1 DEF RequestOK, Unjudged, Telling
  <2>4. Judging(r)'
    BY <1>1, <1>2, <1>3, <1>9, <2>1 DEF RequestOK, Judging, Refusals, None
  <2>5. Showing(r)' /\ Sending(r)'
    BY <1>1, <1>2, <1>3, <1>9, <2>1 DEF RequestOK, Showing, Sending
  <2> QED
    BY <1>2, <1>5, <2>1, <2>2, <2>3, <2>4, <2>5, OthersStay DEF GuardInv, RequestOK
<1>10. ASSUME SendOn(r, data[r]), UNCHANGED <<data, got>>,
              \/ answer = "pass" /\ told' = [told EXCEPT ![r] = r]
              \/ LetThrough /\ answer \notin Refusals /\ UNCHANGED told,
              inPlace' = inPlace \/ \E body \in Replacements : inPlace' = [inPlace EXCEPT ![r] = body]
       PROVE  GuardInv'
  <2>1. HooksTyped' /\ phase'[r] = "provider" /\ sentOn'[r] = data[r] /\ \A j \in Requests \ {r} : Same(j)
    BY <1>1, <1>2, <1>6, <1>7, <1>8, <1>10 DEF HooksTyped, SendOn, Stages, Unasked, Same
  <2>2. \/ answer = "pass" /\ told'[r] = r
        \/ LetThrough /\ answer \notin Refusals /\ told'[r] = None
    BY <1>1, <1>3, <1>10 DEF HooksTyped
  <2>3. Coming(r)' /\ Asking(r)'
    BY <1>1, <1>2, <1>3, <1>10, <2>1 DEF RequestOK, Coming, Asking, Unsent
  <2>4. Unjudged(r)' /\ Telling(r)'
    <3>1. answer \notin Refusals
      BY <2>2, AnswersRead
    <3>2. r # None
      BY DEF GuardrailAssumption
    <3> QED
      BY <1>1, <1>2, <1>3, <1>4, <1>7, <2>1, <2>2, <3>1, <3>2 DEF RequestOK, Unjudged, Telling
  <2>5. Judging(r)'
    BY <1>1, <1>2, <1>3, <1>10, <2>1 DEF RequestOK, Judging, Refusals, None
  <2>6. Showing(r)' /\ Sending(r)'
    BY <1>1, <1>2, <1>3, <1>7, <1>10, <2>1, <2>2 DEF RequestOK, Showing, Sending
  <2> QED
    BY <1>2, <1>5, <2>1, <2>3, <2>4, <2>5, <2>6, OthersStay DEF GuardInv, RequestOK
<1>11. ASSUME NEW body \in Replacements, answer = "replace", Settable(r, body),
              inPlace' = [inPlace EXCEPT ![r] = body], told' = [told EXCEPT ![r] = r],
              data' = [data EXCEPT ![r] = Replaced(r, body)], SendOn(r, data'[r]), UNCHANGED got
       PROVE  GuardInv'
  <2> DEFINE new == Replaced(r, body)
  <2>1. /\ new \in Bodies
        /\ \A f \in Fields : shown[r][f] # Absent \/ body[f] # Absent =>
             /\ body[f] = shown[r][f] => new[f] = came[r].fields[f]
             /\ body[f] # shown[r][f] => new[f] = body[f]
        /\ \A f \in Fields : came[r].fields[f] # Absent /\ (f \notin came[r].named \/ came[r].fields[f] = "known") =>
             new[f] = came[r].fields[f]
    BY <1>1, <1>11, ReplacementIsSent
  <2> HIDE DEF new
  <2>2. data'[r] = new /\ data' \in [Requests -> Bodies] /\ \A j \in Requests \ {r} : data'[j] = data[j]
    BY <1>1, <1>11, <2>1 DEF HooksTyped, new
  <2>3. /\ HooksTyped' /\ phase'[r] = "provider" /\ sentOn'[r] = new /\ told'[r] = r /\ inPlace'[r] = body
        /\ \A j \in Requests \ {r} : Same(j)
    <3>1. verdict' \in [Requests -> Verdicts]
      BY <1>1, <1>6, <1>7 DEF HooksTyped
    <3>2. /\ phase' \in [Requests -> Stages] /\ phase'[r] = "provider"
          /\ sentOn' \in [Requests -> Bodies] /\ sentOn'[r] = new
          /\ \A j \in Requests \ {r} : phase'[j] = phase[j] /\ sentOn'[j] = sentOn[j]
      BY <1>1, <1>11, <2>1, <2>2 DEF HooksTyped, SendOn, Stages, Unasked
    <3>3. /\ told' \in [Requests -> Requests \cup {None}] /\ told'[r] = r /\ inPlace'[r] = body
          /\ \A j \in Requests \ {r} : told'[j] = told[j]
      BY <1>1, <1>11 DEF HooksTyped
    <3> QED
      BY <1>1, <1>2, <1>7, <1>8, <1>11, <2>2, <3>1, <3>2, <3>3 DEF HooksTyped, Same
  <2>4. Coming(r)' /\ Asking(r)'
    BY <1>1, <1>2, <1>3, <1>11, <2>3 DEF RequestOK, Coming, Asking, Unsent
  <2>5. Unjudged(r)' /\ Telling(r)'
    <3>1. answer \notin Refusals
      BY <1>11, AnswersRead
    <3>2. r # None
      BY DEF GuardrailAssumption
    <3> QED
      BY <1>1, <1>2, <1>3, <1>4, <1>7, <1>11, <2>3, <3>1, <3>2 DEF RequestOK, Unjudged, Telling
  <2>6. Judging(r)'
    BY <1>1, <1>2, <1>3, <1>11, <2>3 DEF RequestOK, Judging, Refusals, None
  <2>7. Showing(r)'
    BY <1>1, <1>2, <2>3 DEF RequestOK, Showing
  <2>8. IsAsReplaced(r)' /\ KeepsOwn(r)'
    BY <1>2, <2>1, <2>3 DEF IsAsReplaced, KeepsOwn
  <2>9. Sending(r)'
    BY <1>7, <1>11, <2>3, <2>8 DEF Sending, GuardrailAssumption
  <2> QED
    BY <1>2, <1>5, <2>3, <2>4, <2>5, <2>6, <2>7, <2>9, OthersStay DEF GuardInv, RequestOK
<1> QED
  <2>1. CASE Read(answer) = "pass" \/ Read(answer) = "refuse" \/ Read(answer) = "no_answer"
    BY <1>6, <1>9, <1>10, <2>1, AnswersRead DEF Id, RequestUnanswered
  <2>2. CASE Read(answer) = "replace"
    BY <1>6, <1>9, <1>10, <1>11, <2>2, AnswersRead DEF Id, RequestUnanswered
  <2> QED
    BY <1>6, <2>1, <2>2

(* What comes after a request is sent on concerns its reply alone.         *)
LEMMA ReplyGoesOn ==
  ASSUME GuardInv, NEW r \in Requests,
         UNCHANGED <<askVars, data, inspect, told, judgedVars, sentOn>>,
         phase[r] \notin Unsent, phase[r] # "done", phase'[r] \notin Unsent,
         phase'[r] \in {"provider", "post_call"} => phase[r] \in {"provider", "post_call"},
         phase' \in [Requests -> Stages], streamed' \in [Requests -> BOOLEAN], asked' \in [Requests -> 0..1],
         judged' \in [Requests -> Verdicts \cup {"unreachable"}],
         got' \in [Requests -> {None, "refusal", "provider_error", "reply", "replacement"}],
         \A j \in Requests \ {r} : /\ phase'[j] = phase[j] /\ streamed'[j] = streamed[j]
                                   /\ asked'[j] = asked[j] /\ judged'[j] = judged[j] /\ got'[j] = got[j],
         Judging(r)'
  PROVE  GuardInv'
<1>1. /\ HooksTyped /\ RequestOK(r)
      /\ UNCHANGED <<loaded, came, data, inspect, told, shown, headers, verdict, inPlace, about, sentOn>>
  BY DEF GuardInv, askVars, judgedVars
<1>2. HooksTyped' /\ Loaded'
  BY <1>1 DEF GuardInv, HooksTyped, Loaded
<1>3. ASSUME NEW j \in Requests \ {r} PROVE RequestOK(j)'
  <2>1. Same(j) /\ loaded' = loaded
    BY <1>1 DEF Same
  <2> QED
    BY <2>1, OthersStay DEF GuardInv
<1>4. RequestOK(r)'
  <2>1. Coming(r)' /\ Asking(r)'
    BY <1>1 DEF RequestOK, Coming, Asking, Unsent
  <2>2. Unjudged(r)'
    BY <1>1 DEF RequestOK, Unjudged, Unjudgeable, Unsent
  <2>3. Telling(r)'
    BY <1>1 DEF RequestOK, Telling
  <2>4. Showing(r)'
    BY <1>1 DEF RequestOK, Showing, Unsent
  <2>5. Sending(r)'
    <3>1. IsAsReplaced(r)' = IsAsReplaced(r) /\ KeepsOwn(r)' = KeepsOwn(r)
      BY <1>1 DEF IsAsReplaced, KeepsOwn
    <3> QED
      BY <1>1, <3>1 DEF RequestOK, Sending
  <2> QED
    BY <2>1, <2>2, <2>3, <2>4, <2>5 DEF RequestOK
<1> QED
  BY <1>2, <1>3, <1>4 DEF GuardInv

LEMMA ReplySteps ==
  ASSUME GuardrailAssumption, GuardInv, NEW r \in Requests,
         ProviderAnswers(r) \/ StreamHook(r) \/ Relayed(r) \/ SuccessHook(r) \/ ReplyAnswered(r)
  PROVE  GuardInv'
<1>1. HooksTyped /\ RequestOK(r) /\ Judging(r) /\ Telling(r) /\ Loaded
  BY DEF GuardInv, RequestOK
<1>2. UNCHANGED <<askVars, data, inspect, told, judgedVars, sentOn>>
  BY DEF ProviderAnswers, StreamHook, Relayed, SuccessHook, ReplyAnswered
<1>3. /\ UNCHANGED <<loaded, came, told, verdict>>
      /\ phase \in [Requests -> Stages] /\ streamed \in [Requests -> BOOLEAN] /\ asked \in [Requests -> 0..1]
      /\ judged \in [Requests -> Verdicts \cup {"unreachable"}]
      /\ got \in [Requests -> {None, "refusal", "provider_error", "reply", "replacement"}]
  BY <1>1, <1>2 DEF askVars, judgedVars, HooksTyped
<1>4. CASE ProviderAnswers(r)
  <2>1. phase[r] = "provider" /\ UNCHANGED <<streamed, asked, judged>>
    BY <1>4 DEF ProviderAnswers
  <2>2. "post_call" \in loaded.modes
    BY <1>1, <2>1 DEF RequestOK, Coming, Loaded
  <2>3. \/ phase' = [phase EXCEPT ![r] = "post_call"] /\ got' = got
        \/ phase' = [phase EXCEPT ![r] = "done"] /\ got' = [got EXCEPT ![r] = "provider_error"]
    BY <1>4, <2>2 DEF ProviderAnswers, Give
  <2>4. Judging(r)'
    BY <1>1, <1>3, <2>1, <2>3 DEF Judging, Unasked, Unsent, Refusals, None
  <2> QED
    BY <1>2, <1>3, <2>1, <2>3, <2>4, ReplyGoesOn DEF Unsent, Unasked, Stages
<1>5. CASE StreamHook(r)
  <2>1. /\ phase[r] = "post_call" /\ judged' = judged
        /\ \/ /\ told[r] = None /\ UNCHANGED <<streamed, asked>>
              /\ phase' = [phase EXCEPT ![r] = "done"] /\ got' = [got EXCEPT ![r] = "reply"]
           \/ /\ told[r] # None /\ streamed' = [streamed EXCEPT ![r] = TRUE]
              /\ asked' = [asked EXCEPT ![r] = @ + 1]
              /\ phase' = [phase EXCEPT ![r] = "relaying"] /\ got' = got
    BY <1>5 DEF StreamHook, Give, Streamed, Asked
  <2>2. asked[r] = 0 /\ ~streamed[r] /\ judged[r] = None /\ got[r] = None
    BY <1>1, <2>1 DEF Judging, Unasked
  <2>3. Judging(r)'
    BY <1>1, <1>3, <2>1, <2>2 DEF Judging, Telling, Unasked, Unsent, Refusals, None
  <2>4. /\ phase' \in [Requests -> Stages] /\ streamed' \in [Requests -> BOOLEAN]
        /\ asked' \in [Requests -> 0..1] /\ judged' \in [Requests -> Verdicts \cup {"unreachable"}]
        /\ got' \in [Requests -> {None, "refusal", "provider_error", "reply", "replacement"}]
        /\ phase'[r] \in {"done", "relaying"}
    <3>1. asked' \in [Requests -> 0..1] /\ judged' \in [Requests -> Verdicts \cup {"unreachable"}]
      BY <1>3, <2>1, <2>2
    <3>2. streamed' \in [Requests -> BOOLEAN]
      BY <1>3, <2>1
    <3>3. /\ phase' \in [Requests -> Stages] /\ phase'[r] \in {"done", "relaying"}
          /\ got' \in [Requests -> {None, "refusal", "provider_error", "reply", "replacement"}]
      BY <1>3, <2>1 DEF Stages
    <3> QED
      BY <3>1, <3>2, <3>3
  <2>5. \A j \in Requests \ {r} : /\ phase'[j] = phase[j] /\ streamed'[j] = streamed[j]
                                  /\ asked'[j] = asked[j] /\ judged'[j] = judged[j] /\ got'[j] = got[j]
    BY <1>3, <2>1
  <2> QED
    BY <1>2, <2>1, <2>3, <2>4, <2>5, ReplyGoesOn DEF Unsent
<1>6. CASE Relayed(r)
  <2>1. PICK as \in {"pass", "refuse", "unreachable"}, what \in {"reply", "refusal"} :
          /\ phase[r] = "relaying" /\ UNCHANGED <<streamed, asked>>
          /\ judged' = [judged EXCEPT ![r] = as] /\ got' = [got EXCEPT ![r] = what]
          /\ phase' = [phase EXCEPT ![r] = "done"]
          /\ as = "refuse" => what = "refusal"
          /\ as = "unreachable" /\ ~LetThrough => what = "refusal"
    BY <1>6 DEF Relayed, Give
  <2>2. as \in Verdicts \cup {"unreachable"} /\ (as \in Refusals => as = "refuse")
    BY DEF Verdicts, Answers, Refusals, Failures
  <2>3. Judging(r)'
    BY <1>1, <1>3, <2>1, <2>2 DEF Judging, Unasked, Unsent
  <2> QED
    BY <1>2, <1>3, <2>1, <2>2, <2>3, ReplyGoesOn DEF Unsent, Unasked, Stages
<1>7. CASE SuccessHook(r)
  <2>1. /\ phase[r] \in {"post_call", "relaying"} /\ UNCHANGED <<streamed, judged>>
        /\ \/ phase[r] = "relaying" /\ UNCHANGED <<phase, got, asked>>
           \/ /\ phase[r] = "post_call" /\ told[r] = None /\ asked' = asked
              /\ phase' = [phase EXCEPT ![r] = "done"] /\ got' = [got EXCEPT ![r] = "reply"]
           \/ /\ phase[r] = "post_call" /\ told[r] # None /\ asked' = [asked EXCEPT ![r] = @ + 1]
              /\ phase' = [phase EXCEPT ![r] = "judging"] /\ got' = got
    <3>1. /\ phase[r] \in {"post_call", "relaying"} /\ UNCHANGED <<streamed, judged>>
          /\ phase[r] = "relaying" => streamed[r]
          /\ phase[r] = "post_call" => ~streamed[r]
      BY <1>1, <1>7 DEF SuccessHook, Judging, Unasked
    <3>2. CASE told[r] = None \/ streamed[r]
      BY <1>7, <3>1, <3>2 DEF SuccessHook, Give
    <3>3. CASE ~(told[r] = None \/ streamed[r])
      BY <1>7, <3>1, <3>3, <1>3 DEF SuccessHook, Asked
    <3> QED
      BY <3>2, <3>3
  <2>2. /\ judged[r] = None /\ got[r] = None
        /\ phase[r] = "post_call" => asked[r] = 0 /\ ~streamed[r]
    BY <1>1, <2>1 DEF Judging, Unasked
  <2>3. Judging(r)'
    BY <1>1, <1>3, <2>1, <2>2 DEF Judging, Telling, Unasked, Unsent, Refusals, None
  <2> QED
    BY <1>2, <1>3, <2>1, <2>2, <2>3, ReplyGoesOn DEF Unsent, Unasked, Stages
<1>8. CASE ReplyAnswered(r)
  <2>1. PICK answer \in Answers, what \in {"reply", "replacement", "refusal"} :
          /\ phase[r] = "judging" /\ UNCHANGED <<streamed, asked>>
          /\ judged' = [judged EXCEPT ![r] = answer] /\ got' = [got EXCEPT ![r] = what]
          /\ phase' = [phase EXCEPT ![r] = "done"]
          /\ Read(answer) = "refuse" => what = "refusal"
          /\ Read(answer) = "no_answer" /\ ~LetThrough => what = "refusal"
    BY <1>8 DEF ReplyAnswered, Give, ReplyUnanswered
  <2>2. /\ answer \in Verdicts /\ (answer \in Refusals => what = "refusal")
        /\ ~LetThrough /\ what # "refusal" => answer \in {"pass", "replace"}
    BY <2>1, AnswersRead DEF Verdicts, Answers
  <2>3. Judging(r)'
    BY <1>1, <1>3, <2>1, <2>2 DEF Judging, Unasked, Unsent
  <2> QED
    BY <1>2, <1>3, <2>1, <2>2, <2>3, ReplyGoesOn DEF Unsent, Unasked, Stages
<1> QED
  BY <1>4, <1>5, <1>6, <1>7, <1>8

LEMMA HooksGoOn ==
  ASSUME GuardrailAssumption, GuardInv, [Next]_vars
  PROVE  GuardInv'
<1>1. CASE UNCHANGED vars
  <2>1. loaded' = loaded /\ \A j \in Requests : Same(j)
    BY <1>1 DEF vars, askVars, judgedVars, Same
  <2>2. HooksTyped' /\ Loaded'
    BY <1>1 DEF vars, askVars, judgedVars, GuardInv, HooksTyped, Loaded
  <2> QED
    BY <2>1, <2>2, OthersStay DEF GuardInv
<1>2. CASE \E s \in Settings : Load(s)
  BY <1>2, LoadsOn
<1>3. CASE \E r \in Requests : (\E q \in Incoming : Comes(r, q)) \/ Step(r)
  BY <1>3, RequestComes, HookIsCalled, RequestIsAnswered, ReplySteps DEF Step
<1> QED
  BY <1>1, <1>2, <1>3 DEF Next

LEMMA GuardInvImplies ==
  ASSUME GuardrailAssumption, GuardInv
  PROVE  /\ TypeOK /\ NothingHiddenIsShown /\ ProviderIsSentWhatWasJudged /\ LiteLLMsOwnIsKept
         /\ UnjudgeableIsRefused /\ InspectHeadersStopHere /\ RefusalRefuses
         /\ NothingUnjudgedIsAnswered /\ AskedOnce /\ RepliesMeetTheirRequests
<1>1. TypeOK
  BY DEF GuardInv, HooksTyped, Loaded, TypeOK, Stages, Unasked, Unsent
<1>2. \A r \in Requests : RequestOK(r) /\ (Sent(r) => phase[r] \notin Unsent /\ sentOn[r] # Empty)
  BY DEF GuardInv, Sent, Unsent
<1>3. NothingHiddenIsShown
  BY <1>2 DEF NothingHiddenIsShown, RequestOK, Showing
<1>4. ProviderIsSentWhatWasJudged
  BY <1>2 DEF ProviderIsSentWhatWasJudged, RequestOK, Sending, IsAsReplaced
<1>5. LiteLLMsOwnIsKept
  BY <1>2 DEF LiteLLMsOwnIsKept, RequestOK, Sending, KeepsOwn
<1>6. UnjudgeableIsRefused
  BY <1>2 DEF UnjudgeableIsRefused, RequestOK, Unjudged, Unjudgeable, Unsent
<1>7. InspectHeadersStopHere
  BY <1>2 DEF InspectHeadersStopHere, RequestOK, Asking, Unsent
<1>8. RefusalRefuses
  BY <1>2 DEF RefusalRefuses, RequestOK, Telling, Judging
<1>9. NothingUnjudgedIsAnswered
  BY <1>2 DEF NothingUnjudgedIsAnswered, RequestOK, Judging
<1>10. AskedOnce
  <2>1. \A r \in Requests : asked[r] \in 0..1
    BY DEF GuardInv, HooksTyped
  <2> QED
    BY <1>2, <2>1 DEF AskedOnce, RequestOK, Judging, Telling
<1>11. RepliesMeetTheirRequests
  BY <1>2 DEF RepliesMeetTheirRequests, RequestOK, Telling
<1> QED
  BY <1>1, <1>3, <1>4, <1>5, <1>6, <1>7, <1>8, <1>9, <1>10, <1>11

-----------------------------------------------------------------------------
LEMMA HooksHold ==
  ASSUME GuardrailAssumption
  PROVE  Spec => []GuardInv
<1>1. Init => GuardInv
  BY HooksBegin
<1>2. GuardInv /\ [Next]_vars => GuardInv'
  BY HooksGoOn
<1> QED
  BY <1>1, <1>2, PTL DEF Spec

(* The provider is sent what the sidecar passed or put in its place, each  *)
(* item as the client sent it and LiteLLM's own fields as they were, or    *)
(* where nothing could judge it and that is let through, the request as it *)
(* came; and no request that can't be judged (_replace_request).           *)
THEOREM OnlyJudgedRequestsAreSent ==
  ASSUME GuardrailAssumption
  PROVE  Spec => [](ProviderIsSentWhatWasJudged /\ LiteLLMsOwnIsKept /\ UnjudgeableIsRefused)
<1>1. GuardInv => ProviderIsSentWhatWasJudged /\ LiteLLMsOwnIsKept /\ UnjudgeableIsRefused
  BY GuardInvImplies
<1> QED
  BY <1>1, HooksHold, PTL

(* The sidecar is shown nothing that LiteLLM knows of its callers and no   *)
(* credential, and Inspect's headers go no further (_body, _shows,         *)
(* _withhold_inspect_headers).                                             *)
THEOREM NothingHiddenIsEverShown ==
  ASSUME GuardrailAssumption
  PROVE  Spec => [](NothingHiddenIsShown /\ InspectHeadersStopHere)
<1>1. GuardInv => NothingHiddenIsShown /\ InspectHeadersStopHere
  BY GuardInvImplies
<1> QED
  BY <1>1, HooksHold, PTL

(* A reply is judged once and with the request it answers, a refusal       *)
(* refuses, and where nothing is let through only what was judged is       *)
(* answered, whichever hooks LiteLLM calls of a reply.                     *)
THEOREM RepliesAreJudgedOnce ==
  ASSUME GuardrailAssumption
  PROVE  Spec => [](/\ RepliesMeetTheirRequests /\ AskedOnce
                    /\ RefusalRefuses /\ NothingUnjudgedIsAnswered)
<1>1. GuardInv => RepliesMeetTheirRequests /\ AskedOnce /\ RefusalRefuses /\ NothingUnjudgedIsAnswered
  BY GuardInvImplies
<1> QED
  BY <1>1, HooksHold, PTL
==============================================================================
