----------------------------- MODULE Guardrail ------------------------------
(***************************************************************************)
(* LiteLLM's hooks of the guardrail (LiteLLMGuardrail in                   *)
(* proxies/litellm/.../_guardrail.py): a request is put to the sidecar     *)
(* before LiteLLM sends it on, and the reply before LiteLLM answers its    *)
(* caller.  A request is a function from its fields to what they hold; the *)
(* chunks of a streamed reply are Relay's.                                 *)
(***************************************************************************)
EXTENDS Naturals, FiniteSets

CONSTANTS
  Requests,    \* the requests in flight
  Incoming,    \* what a request may be as LiteLLM has it
  Replacements, \* bodies the sidecar may put in a request's place
  Settings,    \* what LiteLLM's config may set of the guardrail
  LetThrough   \* unreachable_fallback is fail_open

(* The fields told apart: what the model is given, one that carries a      *)
(* credential, LiteLLM's two places for what it knows of the caller, its   *)
(* working state, and one that is not there.                               *)
Fields == {"input", "secret", "metadata", "litellm_metadata", "state", "extra"}
Absent == "absent"
None == "none"
Values == {Absent, "sent", "odd", "right", "known", "other"}
Bodies == [Fields -> Values]

(* A listed pattern is the set of the headers it covers.                   *)
Headers == {"x-irid", "authorization", "x-team"}
Credentials == {"authorization"}
InspectHeaders == {"x-irid"}

(* Where LiteLLM keeps what it knows of the caller, among these fields     *)
Notes(fields) == IF fields["litellm_metadata"] # Absent THEN "litellm_metadata" ELSE "metadata"

GuardrailAssumption ==
  /\ \A s \in Settings : /\ s.modes \subseteq {"pre_call", "post_call"}
                        /\ s.listed \subseteq SUBSET Headers
  /\ LetThrough \in BOOLEAN /\ None \notin Requests
  /\ Replacements \subseteq Bodies
  /\ \A q \in Incoming :
       /\ q.read \in BOOLEAN /\ q.stream \in BOOLEAN
       /\ q.recorded \in BOOLEAN
       /\ q.sets \subseteq {"rewritten", "gateway"}
       /\ q.fields \in Bodies /\ q.named \subseteq Fields \ {"state", "extra"}
       /\ \A f \in q.named : q.fields[f] = "known" => f = Notes(q.fields)
       /\ q.caller_id \in Requests
       /\ q.headers \subseteq Headers

VARIABLES
  loaded,   \* the settings the guardrail was loaded with, or none
  came,     \* what each request is as LiteLLM has it, once it has come
  phase,    \* where it is
  data,     \* its fields now, which LiteLLM sends on
  inspect,  \* Inspect's own headers are among those sent on
  told,     \* the id the sidecar was told it under, kept in LiteLLM's record
  streamed, \* the record says that its reply was handed over as a stream
  shown,    \* history: the body the sidecar was shown
  headers,  \* history: the headers the sidecar was shown
  verdict,  \* history: what the sidecar answered of the request
  inPlace,  \* history: the body it answered with
  asked,    \* history: how often its reply was put to the sidecar
  judged,   \* history: what the sidecar answered of the reply
  about,    \* history: the requests the sidecar was told of under each id
  sentOn,   \* history: the fields the provider was sent
  got       \* what the caller has got

judgedVars == <<shown, headers, verdict, inPlace, about>>
askVars == <<loaded, came>>

vars == <<askVars, phase, data, inspect, told, streamed, judgedVars, asked, judged, sentOn,
          got>>

NoRequest == [read |-> FALSE]
Empty == [f \in Fields |-> Absent]

Init ==
  /\ loaded = [modes |-> {}]
  /\ came = [r \in Requests |-> NoRequest]
  /\ phase = [r \in Requests |-> "coming"]
  /\ data = [r \in Requests |-> Empty]
  /\ inspect = [r \in Requests |-> FALSE]
  /\ told = [r \in Requests |-> None]
  /\ streamed = [r \in Requests |-> FALSE]
  /\ shown = [r \in Requests |-> Empty]
  /\ headers = [r \in Requests |-> {}]
  /\ verdict = [r \in Requests |-> None]
  /\ inPlace = [r \in Requests |-> Empty]
  /\ asked = [r \in Requests |-> 0]
  /\ judged = [r \in Requests |-> None]
  /\ about = [i \in Requests |-> {}]
  /\ sentOn = [r \in Requests |-> Empty]
  /\ got = [r \in Requests |-> None]

(* Both hooks are called, and no header that is listed carries a           *)
(* credential.                                                             *)
Sensible(s) ==
  s.modes = {"pre_call", "post_call"} /\ UNION s.listed \cap Credentials = {}

(* __init__: LiteLLM serves nothing while a guardrail doesn't load.        *)
Load(s) ==
  /\ loaded.modes = {} /\ Sensible(s)
  /\ loaded' = s
  /\ UNCHANGED <<came, phase, data, inspect, told, streamed, judgedVars, asked, judged, sentOn,
                 got>>

(* LiteLLM calls the hooks its mode lists.                                 *)
Comes(r, q) ==
  /\ loaded.modes # {}
  /\ phase[r] = "coming"
  /\ came' = [came EXCEPT ![r] = q]
  /\ data' = [data EXCEPT ![r] = q.fields]
  /\ inspect' = [inspect EXCEPT ![r] = InspectHeaders \cap q.headers # {}]
  /\ phase' = [phase EXCEPT ![r] = "pre_call"]
  /\ UNCHANGED <<loaded, told, streamed, judgedVars, asked, judged, sentOn, got>>
-----------------------------------------------------------------------------
(* _body: LiteLLM keeps what it knows of the caller in litellm_metadata    *)
(* where the route has it, and in metadata elsewhere.                      *)
Hidden(r) == {"secret", Notes(data[r])}

(* The request's own fields: those the caller named that it still has.     *)
Own(r) == {f \in came[r].named : data[r][f] # Absent} \ Hidden(r)

(* _readable: an item LiteLLM wrote its own way is put right for reading.  *)
Readable(v) == IF v = "odd" THEN "right" ELSE v

(* _body and _readable_request                                             *)
Body(r) ==
  [f \in Fields |-> IF f \notin Own(r) THEN Absent
                    ELSE IF f = "input" THEN Readable(data[r][f]) ELSE data[r][f]]

(* What was put right stays so.                                            *)
RestoredNever(r, f, v) == v

(* _restored: an item that was put right is again as the client sent it.   *)
Restored(r, f, v) ==
  IF f = "input" /\ v = Readable(data[r][f]) THEN data[r][f] ELSE v

(* _replace_request sets a field of the request, or one nobody has.        *)
Settable(r, body) ==
  \A f \in Fields : body[f] # Absent => f \in Own(r) \/ data[r][f] = Absent

(* _replace_request                                                        *)
Replaced(r, body) ==
  [f \in Fields |-> IF body[f] # Absent THEN Restored(r, f, body[f])
                    ELSE IF f \in Own(r) THEN Absent ELSE data[r][f]]
-----------------------------------------------------------------------------
(* LiteLLM sends the request on.                                           *)
SendOn(r, fields) ==
  /\ phase' = [phase EXCEPT ![r] = "provider"]
  /\ sentOn' = [sentOn EXCEPT ![r] = fields]

(* The hook raises, which LiteLLM answers the caller with.                 *)
Refuse(r) ==
  /\ phase' = [phase EXCEPT ![r] = "done"]
  /\ got' = [got EXCEPT ![r] = "refusal"]

(* _unanswered, before the request goes on.                                *)
RequestUnanswered(r) ==
  \/ LetThrough /\ SendOn(r, data[r]) /\ UNCHANGED got
  \/ ~LetThrough /\ Refuse(r) /\ UNCHANGED sentOn

(* _withhold_inspect_headers, on every route                               *)
Withheld(r) == FALSE

(* A field LiteLLM rewrites the request from, or a tool its gateway runs.  *)
Unjudgeable(r) == came[r].sets # {}

(* The caller's own id for the call is used.                               *)
IdOfCaller(r) == came[r].caller_id

(* uuid4 *)
Id(r) == r

(* _shows                                                                  *)
Shows(h) == h \notin Credentials /\ (h \in InspectHeaders \/ h \in UNION loaded.listed)

(* async_pre_call_hook, as far as its call to judge_request                *)
PreCall(r) ==
  /\ phase[r] = "pre_call"
  /\ inspect' = [inspect EXCEPT ![r] = Withheld(r)]
  /\ \/ /\ ~came[r].read
        /\ SendOn(r, data[r])
        /\ UNCHANGED <<shown, headers, about, got>>
     \/ /\ came[r].read /\ Unjudgeable(r)
        /\ Refuse(r)
        /\ UNCHANGED <<shown, headers, about, sentOn>>
     \/ /\ came[r].read /\ ~Unjudgeable(r) /\ ~came[r].recorded
        /\ RequestUnanswered(r)
        /\ UNCHANGED <<shown, headers, about>>
     \/ /\ came[r].read /\ ~Unjudgeable(r) /\ came[r].recorded
        /\ shown' = [shown EXCEPT ![r] = Body(r)]
        /\ headers' = [headers EXCEPT ![r] = {h \in came[r].headers : Shows(h)}]
        /\ about' = [about EXCEPT ![Id(r)] = @ \cup {r}]
        /\ phase' = [phase EXCEPT ![r] = "asking"]
        /\ UNCHANGED <<sentOn, got>>
  /\ UNCHANGED <<askVars, data, told, streamed, verdict, inPlace, asked, judged>>

(* What may come of a call to the sidecar (_call), and of its answer.      *)
Failures == {"unreachable", "status", "not_json", "error", "no_result", "no_action"}
Refusals == {"refuse", "unreadable_refusal"}
Answers == Failures \cup Refusals \cup {"pass", "replace"}

(* _ask and _refusal: a refusal that can't be carried out as asked refuses *)
(* all the same.                                                           *)
Read(answer) ==
  IF answer \in Failures THEN "no_answer" ELSE IF answer \in Refusals THEN "refuse" ELSE answer

(* judge_request answers, or gives no usable answer.                       *)
Answered(r) ==
  /\ phase[r] = "asking"
  /\ \E answer \in Answers :
       /\ verdict' = [verdict EXCEPT ![r] = answer]
       /\ \/ /\ Read(answer) = "pass"
             /\ told' = [told EXCEPT ![r] = Id(r)]
             /\ SendOn(r, data[r]) /\ UNCHANGED <<data, inPlace, got>>
          \/ /\ Read(answer) = "replace"
             /\ \E body \in Replacements :
                  /\ inPlace' = [inPlace EXCEPT ![r] = body]
                  /\ IF Settable(r, body)
                     THEN /\ told' = [told EXCEPT ![r] = Id(r)]
                          /\ data' = [data EXCEPT ![r] = Replaced(r, body)]
                          /\ SendOn(r, data'[r]) /\ UNCHANGED got
                     ELSE RequestUnanswered(r) /\ UNCHANGED <<data, told>>
          \/ /\ Read(answer) = "refuse"
             /\ Refuse(r) /\ UNCHANGED <<data, told, inPlace, sentOn>>
          \/ /\ Read(answer) = "no_answer"
             /\ RequestUnanswered(r) /\ UNCHANGED <<data, told, inPlace>>
  /\ UNCHANGED <<askVars, inspect, streamed, shown, headers, asked, judged, about>>
-----------------------------------------------------------------------------
Give(r, what) ==
  /\ phase' = [phase EXCEPT ![r] = "done"]
  /\ got' = [got EXCEPT ![r] = what]

(* The provider answers with a reply, or with an error, which no guardrail *)
(* is shown.                                                               *)
ProviderAnswers(r) ==
  /\ phase[r] = "provider"
  /\ \/ IF "post_call" \in loaded.modes
        THEN phase' = [phase EXCEPT ![r] = "post_call"] /\ UNCHANGED got
        ELSE Give(r, "reply")
     \/ Give(r, "provider_error")
  /\ UNCHANGED <<askVars, data, inspect, told, streamed, judgedVars, asked, judged, sentOn>>

Streamed(r) == [streamed EXCEPT ![r] = TRUE]

(* The sidecar is asked of r's reply.                                      *)
Asked(r) == asked' = [asked EXCEPT ![r] = @ + 1]

(* async_post_call_streaming_iterator_hook: a reply the sidecar was told   *)
(* nothing of goes on, another is handed over as it is read.               *)
StreamHook(r) ==
  /\ phase[r] = "post_call" /\ came[r].stream
  /\ \/ /\ told[r] = None
        /\ Give(r, "reply") /\ UNCHANGED <<streamed, asked>>
     \/ /\ told[r] # None
        /\ streamed' = Streamed(r)
        /\ Asked(r)
        /\ phase' = [phase EXCEPT ![r] = "relaying"]
        /\ UNCHANGED got
  /\ UNCHANGED <<askVars, data, inspect, told, judgedVars, judged, sentOn>>

(* The relay has what it yields: the whole reply, an error, or the reply   *)
(* as LiteLLM yields it.                                                   *)
Relayed(r) ==
  /\ phase[r] = "relaying"
  /\ \/ judged' = [judged EXCEPT ![r] = "pass"] /\ Give(r, "reply")
     \/ judged' = [judged EXCEPT ![r] = "refuse"] /\ Give(r, "refusal")
     \/ /\ judged' = [judged EXCEPT ![r] = "unreachable"]
        /\ Give(r, IF LetThrough THEN "reply" ELSE "refusal")
  /\ UNCHANGED <<askVars, data, inspect, told, streamed, judgedVars, asked, sentOn>>

(* async_post_call_success_hook, as far as its call to judge_reply.        *)
(* LiteLLM 1.83 calls it of a streamed reply too, while the last chunk is  *)
(* read.                                                                   *)
SuccessHook(r) ==
  /\ (phase[r] = "post_call" /\ ~came[r].stream) \/ phase[r] = "relaying"
  /\ asked[r] < 2
  /\ IF told[r] = None \/ streamed[r]
     THEN /\ IF phase[r] = "relaying" THEN UNCHANGED <<phase, got>> ELSE Give(r, "reply")
          /\ UNCHANGED asked
     ELSE /\ Asked(r)
          /\ phase' = [phase EXCEPT ![r] = IF @ = "relaying" THEN @ ELSE "judging"]
          /\ UNCHANGED got
  /\ UNCHANGED <<askVars, data, inspect, told, streamed, judgedVars, judged, sentOn>>

(* _unanswered, once there is a reply                                      *)
ReplyUnanswered(r) == Give(r, IF LetThrough THEN "reply" ELSE "refusal")

(* judge_reply answers, or gives no usable answer: a replacement LiteLLM   *)
(* can't take is none.                                                     *)
ReplyAnswered(r) ==
  /\ phase[r] = "judging"
  /\ \E answer \in Answers :
       /\ judged' = [judged EXCEPT ![r] = answer]
       /\ \/ Read(answer) = "pass" /\ Give(r, "reply")
          \/ Read(answer) = "replace" /\ (Give(r, "replacement") \/ ReplyUnanswered(r))
          \/ Read(answer) = "refuse" /\ Give(r, "refusal")
          \/ Read(answer) = "no_answer" /\ ReplyUnanswered(r)
  /\ UNCHANGED <<askVars, data, inspect, told, streamed, judgedVars, asked, sentOn>>
-----------------------------------------------------------------------------
Step(r) == \/ PreCall(r) \/ Answered(r) \/ ProviderAnswers(r) \/ StreamHook(r)
           \/ Relayed(r) \/ SuccessHook(r) \/ ReplyAnswered(r)

Next == \/ \E s \in Settings : Load(s)
        \/ \E r \in Requests :
             (\E q \in Incoming : Comes(r, q)) \/ Step(r)

Spec == Init /\ [][Next]_vars
-----------------------------------------------------------------------------
(* Every variable has a value of its type.                                 *)
TypeOK ==
  /\ \A r \in Requests : came[r] \in Incoming \cup {NoRequest}
  /\ loaded \in Settings \cup {[modes |-> {}]}
  /\ headers \in [Requests -> SUBSET Headers]
  /\ phase \in [Requests -> {"coming", "pre_call", "asking", "provider", "post_call",
                             "relaying", "judging", "done"}]
  /\ data \in [Requests -> Bodies] /\ shown \in [Requests -> Bodies]
  /\ sentOn \in [Requests -> Bodies] /\ inPlace \in [Requests -> Bodies]
  /\ inspect \in [Requests -> BOOLEAN] /\ streamed \in [Requests -> BOOLEAN]
  /\ told \in [Requests -> Requests \cup {None}]
  /\ asked \in [Requests -> 0..1]
  /\ about \in [Requests -> SUBSET Requests]
  /\ got \in [Requests -> {None, "refusal", "provider_error", "reply", "replacement"}]

(* The sidecar is shown nothing LiteLLM knows of the caller, and no field  *)
(* or header that carries a credential, whichever field LiteLLM keeps them *)
(* in and whatever is listed.                                              *)
NothingHiddenIsShown ==
  \A r \in Requests : shown[r]["secret"] = Absent /\ headers[r] \cap Credentials = {}
                      /\ \A f \in Fields : shown[r][f] # "known"

Sent(r) == phase[r] \notin {"coming", "pre_call", "asking"} /\ sentOn[r] # Empty

(* The provider is sent what the sidecar passed or put in its place, each  *)
(* item as the client sent it, or, where nothing could judge it and the    *)
(* operator lets that through, the request as it came.                     *)
ProviderIsSentWhatWasJudged ==
  \A r \in Requests : Sent(r) /\ came[r].read =>
    \/ verdict[r] = "pass" /\ sentOn[r] = came[r].fields
    \/ /\ verdict[r] = "replace" /\ told[r] # None
       /\ \A f \in Fields : shown[r][f] # Absent \/ inPlace[r][f] # Absent =>
            /\ inPlace[r][f] = shown[r][f] => sentOn[r][f] = came[r].fields[f]
            /\ inPlace[r][f] # shown[r][f] => sentOn[r][f] = inPlace[r][f]
    \/ LetThrough /\ told[r] = None /\ sentOn[r] = came[r].fields

(* What LiteLLM keeps in the request's fields is as LiteLLM left it.       *)
LiteLLMsOwnIsKept ==
  \A r \in Requests : Sent(r) =>
    \A f \in Fields : came[r].fields[f] # Absent /\ (f \notin came[r].named
                      \/ came[r].fields[f] = "known") => sentOn[r][f] = came[r].fields[f]

(* A request that LiteLLM would rewrite after it was judged, or whose      *)
(* tools' results no guardrail is shown, is refused, whatever is let       *)
(* through.                                                                *)
UnjudgeableIsRefused ==
  \A r \in Requests : came[r] # NoRequest /\ came[r].read /\ came[r].sets # {} => ~Sent(r)

(* Inspect's headers go no further, on a route that is read or not.        *)
InspectHeadersStopHere == \A r \in Requests : Sent(r) => ~inspect[r]

(* A refusal of the sidecar's refuses, even one that can't be read where   *)
(* what gets no answer is let through.                                     *)
RefusalRefuses ==
  \A r \in Requests :
    /\ verdict[r] \in Refusals => ~Sent(r) /\ got[r] = "refusal"
    /\ judged[r] \in Refusals => got[r] = "refusal"

(* Where nothing is let through, a caller gets only a reply that the       *)
(* sidecar passed or replaced, but for routes that are not read.           *)
NothingUnjudgedIsAnswered ==
  ~LetThrough => \A r \in Requests : got[r] \in {"reply", "replacement"} /\ came[r].read =>
                   judged[r] \in {"pass", "replace"}

(* A reply is put to the sidecar at most once, whichever hooks LiteLLM     *)
(* calls of it, and only if its request was.                               *)
AskedOnce ==
  \A r \in Requests : asked[r] <= 1 /\ (asked[r] = 1 => verdict[r] \in {"pass", "replace"})

(* The sidecar is told of one request under an id, so a reply is judged    *)
(* with the request it answers, whatever ids its callers set.              *)
RepliesMeetTheirRequests ==
  \A r \in Requests : told[r] # None => about[told[r]] = {r}
=============================================================================
