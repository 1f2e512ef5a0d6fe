------------------------------- MODULE Serving ------------------------------
(***************************************************************************)
(* The sidecar as a process: the configuration it is started with          *)
(* (sidecar/_serve.py), its two endpoints on one port or on two, the Envoy *)
(* shim beside them, and how they stop together; and each call dispatched  *)
(* at an endpoint and answered (sidecar/_proxy_endpoint.py,                *)
(* _eval_endpoint.py, _json_rpc.py).  What a judgment comes to is a free   *)
(* choice, and so is uvicorn's failing to start.                           *)
(***************************************************************************)
EXTENDS Naturals, Sequences, FiniteSets, SequencesExt

CONSTANTS
  Configurations, \* how the sidecar is started, a subset of AnyConfiguration
  Tasks,          \* what the tasks folder's files may name
  Slots,          \* the calls in flight at once
  Calls,          \* the calls clients make, a subset of AnyCall
  MaxCalls,       \* bound on the calls made
  Exchanges,      \* Envoy's streams at the shim
  Signals         \* the signals that stop the process

(* A port the endpoint for evals or the shim has of its own is "on".       *)
Settings == {"eval_port", "envoy_port", "eval_results", "runtime_task_registration"}

Servers == <<"main", "evals">>   \* in the order they are started
IsServer == {"main", "evals"}

ProxyMethods == {"judge_request", "judge_reply", "begin_reply", "reply_chunk", "end_reply",
                 "abort_reply", "next_release"}
EvalMethods == {"register_task", "request_result", "sample_result", "end_sample"}

Judging == {"judge_request", "judge_reply"}

(* What is sent: where, to which path, whether with the token, larger than *)
(* is read, what of a JSON-RPC call it is, and its method and parameters.  *)
AnyCall ==
  [at : IsServer, path : {"proxy", "evals"}, bearer : BOOLEAN, large : BOOLEAN,
   form : {"call", "no_id", "not_json", "not_call"},
   method : ProxyMethods \cup EvalMethods \cup {"unheard_of"}, fits : BOOLEAN]

Unset == "unset"

(* `file` is the server stanza and `given` the command line; the tasks     *)
(* folder's files each name some tasks.  What else the file and the options*)
(* say, the sentinel included, is readable or not.                         *)
IsConfiguration(c) ==
  /\ c.readable \in BOOLEAN /\ c.token \in BOOLEAN /\ c.extra \in BOOLEAN
  /\ c.file \in [Settings -> {Unset, "on", "off"}]
  /\ c.given \in [Settings -> {Unset, "on", "off"}]
  /\ c.folder \in Seq(Seq(Tasks))

ServingAssumption ==
  /\ \A c \in Configurations : IsConfiguration(c)
  /\ Calls \subseteq AnyCall /\ MaxCalls \in Nat
  /\ Signals \subseteq {"SIGINT", "SIGTERM"}

VARIABLES
  config, process,  \* how it was started, and how far it is
  server,           \* each server
  told,             \* the servers whose should_exit is set
  caught,           \* the signal that stops the sidecar, or "none"
  streams,          \* whether the reply streams' work runs
  shim,             \* the Envoy shim's server
  exchange,         \* each of Envoy's streams
  call, pc,         \* the call in a slot, and where it stands
  outcome,          \* what came of it, or "none"
  answer,           \* what it was answered
  made              \* how many calls were made

callVars == <<call, pc, outcome, answer, made>>
vars == <<config, process, server, told, caught, streams, shim, exchange, callVars>>

NoAnswer == [kind |-> "none", code |-> "none", records |-> FALSE]
NoCall == [at |-> "main", path |-> "proxy", bearer |-> FALSE, large |-> FALSE,
           form |-> "not_json", method |-> "unheard_of", fits |-> FALSE]

Init ==
  /\ config \in Configurations /\ process = "reading"
  /\ server = [s \in IsServer |-> "absent"] /\ told = {} /\ caught = "none"
  /\ streams = "off" /\ shim = "absent"
  /\ exchange = [x \in Exchanges |-> "none"]
  /\ call = [k \in Slots |-> NoCall] /\ pc = [k \in Slots |-> "free"]
  /\ outcome = [k \in Slots |-> "none"] /\ answer = [k \in Slots |-> NoAnswer]
  /\ made = 0
-----------------------------------------------------------------------------
(* add_arguments: the options' defaults, and what an option can be set to. *)
Default == [s \in Settings |-> IF s \in {"eval_port", "envoy_port"} THEN "off" ELSE "on"]
Sets == [s \in Settings |-> IF Default[s] = "on" THEN "off" ELSE "on"]

(* parse_arguments: an option given wins over the stanza.                  *)
Setting(s) ==
  IF config.given[s] # Unset THEN Sets[s]
  ELSE IF config.file[s] # Unset THEN config.file[s] ELSE Default[s]

IsOn(s) == Setting(s) = "on"

(* read_tasks_folder: each task is named once, in one file.                *)
Named == FlattenSeq(config.folder)
FolderReads == Cardinality(Range(Named)) = Len(Named)
FixedTasks == Range(Named)

OwnPort == IsOn("eval_port")

(* The servers apps makes, in order                                        *)
Served == IF OwnPort THEN IsServer ELSE {"main"}

CanServe ==
  /\ config.readable /\ FolderReads
  /\ OwnPort => config.token
  /\ IsOn("envoy_port") => config.extra

Reads ==
  /\ process = "reading"
  /\ process' = IF CanServe THEN "starting" ELSE "refused"
  /\ shim' = IF CanServe /\ IsOn("envoy_port") THEN "starting" ELSE "absent"
  /\ UNCHANGED <<config, server, told, caught, streams, exchange, callVars>>
-----------------------------------------------------------------------------
Open == {x \in Exchanges : exchange[x] = "open"}
InFlight(s) == {k \in Slots : pc[k] \in {"sent", "judging"} /\ call[k].at = s}

CutExchanges == exchange' = [x \in Exchanges |-> IF x \in Open THEN "cut" ELSE exchange[x]]
CutCalls == pc' = [k \in Slots |-> IF pc[k] \in {"sent", "judging"} THEN "cut" ELSE pc[k]]

(* _serve_all starts the shim before its servers, and starts none if it    *)
(* can't.                                                                  *)
ShimStarts ==
  /\ process = "starting" /\ shim = "starting"
  /\ shim' \in {"up", "absent"}
  /\ process' = IF shim' = "up" THEN "starting" ELSE "ended"
  /\ UNCHANGED <<config, server, told, caught, streams, exchange, callVars>>

GroupStarts ==
  /\ process = "starting" /\ shim # "starting"
  /\ process' = "serving"
  /\ server' = [s \in IsServer |-> IF s \in Served THEN "starting" ELSE "absent"]
  /\ UNCHANGED <<config, told, caught, streams, shim, exchange, callVars>>

(* What a server that has stopped does to the others (until_one_stops)     *)
Others(s) == Served \ {s}

(* One told to stop meanwhile stops as it has started.                     *)
ServerStarts(s) ==
  /\ process = "serving" /\ server[s] = "starting"
  /\ IF s \in told
     THEN server' = [server EXCEPT ![s] = "stopped"] /\ told' = told \cup Others(s) /\ UNCHANGED streams
     ELSE /\ server' = [server EXCEPT ![s] = "up"] /\ UNCHANGED told
          /\ streams' = IF s = "main" THEN "serving" ELSE streams
  /\ UNCHANGED <<config, process, caught, shim, exchange, callVars>>

(* Its port is taken: the exit it raises cancels all that runs.            *)
ServerFails(s) ==
  /\ process = "serving" /\ server[s] = "starting"
  /\ server' = [t \in IsServer |-> IF server[t] \in {"starting", "up"} THEN "cancelled" ELSE server[t]]
  /\ process' = "stopping"
  /\ streams' = IF streams = "serving" THEN "closed" ELSE streams
  /\ CutCalls /\ CutExchanges
  /\ UNCHANGED <<config, told, caught, shim, call, outcome, answer, made>>

(* A signal is caught by the server that was started last.                 *)
Signal(signal) ==
  /\ process = "serving" /\ caught = "none"
  /\ \A s \in Served : server[s] \in {"starting", "up"}
  /\ caught' = signal
  /\ told' = told \cup {IF OwnPort THEN "evals" ELSE "main"}
  /\ UNCHANGED <<config, process, server, streams, shim, exchange, callVars>>

(* Its calls are answered first.                                           *)
ServerStops(s) ==
  /\ process = "serving" /\ server[s] = "up" /\ s \in told /\ InFlight(s) = {}
  /\ server' = [server EXCEPT ![s] = "stopped"]
  /\ told' = told \cup Others(s)
  /\ streams' = IF s = "main" THEN "closed" ELSE streams
  /\ UNCHANGED <<config, process, caught, shim, exchange, callVars>>

(* uvicorn raises the signal again once the last has stopped.  SIGTERM     *)
(* then ends the process, unless the process is the container's first.     *)
AllStopped ==
  /\ process = "serving" /\ \A s \in Served : server[s] = "stopped"
  /\ \/ process' = "stopping" /\ UNCHANGED <<shim, exchange>>
     \/ /\ caught = "SIGTERM" /\ process' = "killed" /\ CutExchanges
        /\ shim' = IF shim = "up" THEN "killed" ELSE shim
  /\ UNCHANGED <<config, server, told, caught, streams, callVars>>

(* The shim's streams are given a while to finish.                         *)
ShimStops ==
  /\ process = "stopping"
  /\ \/ shim = "up" /\ shim' = "stopping" /\ UNCHANGED <<process, exchange>>
     \/ shim = "stopping" /\ shim' = "stopped" /\ process' = "ended" /\ CutExchanges
     \/ shim = "absent" /\ process' = "ended" /\ UNCHANGED <<shim, exchange>>
  /\ UNCHANGED <<config, server, told, caught, streams, callVars>>

ExchangeOpens(x) ==
  /\ shim = "up" /\ exchange[x] = "none"
  /\ exchange' = [exchange EXCEPT ![x] = "open"]
  /\ UNCHANGED <<config, process, server, told, caught, streams, shim, callVars>>

ExchangeEnds(x) ==
  /\ exchange[x] = "open" /\ shim \in {"up", "stopping"}
  /\ exchange' = [exchange EXCEPT ![x] = "done"]
  /\ UNCHANGED <<config, process, server, told, caught, streams, shim, callVars>>
-----------------------------------------------------------------------------
Arrives(k, c) ==
  /\ made < MaxCalls /\ made' = made + 1
  /\ pc[k] = "free" /\ server[c.at] = "up" /\ c.at \notin told
  /\ call' = [call EXCEPT ![k] = c] /\ pc' = [pc EXCEPT ![k] = "sent"]
  /\ UNCHANGED <<config, process, server, told, caught, streams, shim, exchange, outcome, answer>>

Http(code) == [kind |-> "http", code |-> code, records |-> FALSE]
Error(code) == [kind |-> "error", code |-> code, records |-> FALSE]

(* The paths apps serves at a server                                       *)
Paths(s) == IF s = "evals" THEN {"evals"} ELSE IF OwnPort THEN {"proxy"} ELSE {"proxy", "evals"}
Methods(path) == IF path = "proxy" THEN ProxyMethods ELSE EvalMethods

(* Why a call is answered without a method being run, in the order it is   *)
(* looked for; the token is asked for before the body is read.             *)
Rejections(c) ==
  << <<c.path \notin Paths(c.at), Http("404")>>,
     <<c.path = "evals" /\ OwnPort /\ ~c.bearer, Http("401")>>,
     <<c.large, Http("413")>>,
     <<c.form = "not_json", Error("PARSE_ERROR")>>,
     <<c.form = "not_call", Error("INVALID_REQUEST")>>,
     <<c.path = "proxy" /\ c.form = "no_id", Error("INVALID_REQUEST")>>,
     <<c.method = "sample_result" /\ c.path = "evals" /\ ~IsOn("eval_results"),
       Error("METHOD_NOT_FOUND")>>,
     <<c.method \notin Methods(c.path), Error("METHOD_NOT_FOUND")>>,
     <<~c.fits, Error("INVALID_PARAMS")>> >>

Rejected(c) == {i \in DOMAIN Rejections(c) : Rejections(c)[i][1]}

Answers(k, a) ==
  /\ answer' = [answer EXCEPT ![k] = a] /\ pc' = [pc EXCEPT ![k] = "answered"]

Dispatch(k) ==
  /\ pc[k] = "sent"
  /\ LET rejected == Rejected(call[k]) IN
       IF rejected # {} THEN Answers(k, Rejections(call[k])[Min(rejected)][2])
       ELSE pc' = [pc EXCEPT ![k] = "judging"] /\ UNCHANGED answer
  /\ UNCHANGED <<config, process, server, told, caught, streams, shim, exchange, call, outcome, made>>

Decisions == {"pass", "replace", "refuse"}
NotJudged == {"time_limit", "unregistered", "unreadable", "failed"}

(* What a method may come to                                               *)
Outcomes(method) ==
  CASE method = "judge_request" -> Decisions \cup NotJudged
    [] method = "judge_reply" -> Decisions \cup (NotJudged \ {"unregistered"})
    [] method = "begin_reply" -> IF streams = "serving" THEN {"taken", "other_details"}
                                 ELSE {"not_served"}
    [] method \in {"reply_chunk", "end_reply", "next_release"} -> {"taken", "unknown_stream"}
    [] method = "abort_reply" -> {"taken"}
    [] method = "register_task" ->
         (IF FixedTasks # {} THEN {"fixed"} ELSE {})
         \cup (IF IsOn("runtime_task_registration") THEN {"granted", "full"} ELSE {"refused"})
    [] method = "request_result" -> {"held", "dropped", "unknown"}
    [] method = "sample_result" -> {"held", "nothing"}
    [] method = "end_sample" -> {"ended", "unknown"}

(* _not_judged, and what else is answered with an error                    *)
Codes ==
  [time_limit |-> "TIME_LIMIT", unregistered |-> "UNREGISTERED", unreadable |-> "UNREADABLE",
   failed |-> "SENTINEL_FAILED", other_details |-> "INVALID_PARAMS",
   not_served |-> "INVALID_REQUEST", unknown_stream |-> "UNKNOWN_STREAM",
   full |-> "REGISTRATIONS_FULL", refused |-> "REGISTRATION_REFUSED",
   nothing |-> "UNKNOWN_SAMPLE"]

(* What a method's outcome is answered with; a call without an id is not   *)
(* answered unless it fails.                                               *)
AnswerTo(c, came) ==
  IF came \in DOMAIN Codes THEN Error(Codes[came])
  ELSE IF c.form = "no_id" THEN [NoAnswer EXCEPT !.kind = "empty"]
  ELSE [kind |-> "result", code |-> came,
        records |-> /\ c.method \in {"request_result", "sample_result"} /\ came = "held"
                    /\ IsOn("eval_results")]

Finishes(k, came) ==
  /\ pc[k] = "judging" /\ came \in Outcomes(call[k].method)
  /\ outcome' = [outcome EXCEPT ![k] = came]
  /\ Answers(k, AnswerTo(call[k], came))
  /\ UNCHANGED <<config, process, server, told, caught, streams, shim, exchange, call, made>>

(* The caller has its answer, and the slot is free for another.            *)
Leaves(k) ==
  /\ pc[k] = "answered" /\ made < MaxCalls
  /\ pc' = [pc EXCEPT ![k] = "free"] /\ call' = [call EXCEPT ![k] = NoCall]
  /\ outcome' = [outcome EXCEPT ![k] = "none"] /\ answer' = [answer EXCEPT ![k] = NoAnswer]
  /\ UNCHANGED <<config, process, server, told, caught, streams, shim, exchange, made>>

AnyOutcome == UNION {Decisions, NotJudged, DOMAIN Codes,
                     {"taken", "fixed", "granted", "held", "dropped", "unknown", "ended"}}

Next ==
  \/ Reads \/ ShimStarts \/ GroupStarts \/ AllStopped \/ ShimStops
  \/ \E s \in IsServer : ServerStarts(s) \/ ServerFails(s) \/ ServerStops(s)
  \/ \E signal \in Signals : Signal(signal)
  \/ \E x \in Exchanges : ExchangeOpens(x) \/ ExchangeEnds(x)
  \/ \E k \in Slots : \/ \E c \in Calls : Arrives(k, c)
                      \/ Dispatch(k) \/ Leaves(k)
                      \/ \E came \in AnyOutcome : Finishes(k, came)

Spec == Init /\ [][Next]_vars
-----------------------------------------------------------------------------
Answered(k) == pc[k] = "answered"

(* A call is answered with a decision only if it was judged so, and one    *)
(* that was not is told from a refusal, by an error that says why          *)
(* (_judge, _not_judged).                                                  *)
UnjudgedIsAnError == \A k \in Slots : Answered(k) =>
  /\ answer[k].kind = "result" => outcome[k] = answer[k].code
  /\ outcome[k] \in Decisions => answer[k].kind = "result"
  /\ call[k].method \in Judging /\ call[k].path = "proxy" /\ outcome[k] \notin Decisions =>
       answer[k].kind \in {"error", "http"} /\ answer[k].code # "UNKNOWN_STREAM"

(* What the stanza or the command line withholds from evals is not sent,   *)
(* and what has a port of its own is served there alone, and no method is  *)
(* run there without the token, whatever else is wrong with the call       *)
(* (eval_routes, apps).                                                    *)
KeptFromEvals == \A k \in Slots :
  /\ config.given["eval_results"] # Unset => ~answer[k].records
  /\ config.file["eval_results"] = "off" => ~answer[k].records
  /\ OwnPort /\ (pc[k] = "judging" \/ outcome[k] # "none") =>
       /\ (call[k].method \in EvalMethods) <=> (call[k].at = "evals")
       /\ call[k].at = "evals" => call[k].bearer /\ config.token

(* A task of the folder is never registered by an eval where evals may not *)
(* (register_task), and a reply stream is taken wherever its endpoint is   *)
(* served, on a port it shares too (apps passes its lifespan on).          *)
TakenWhereServed == \A k \in Slots :
  /\ outcome[k] = "granted" => IsOn("runtime_task_registration")
  /\ outcome[k] # "not_served"

(* A server that has stopped has told each other one, the shim is stopped  *)
(* after them, and nothing runs once the sidecar has ended (_serve_all).   *)
StoppedTogether ==
  /\ \A s \in Served : server[s] = "stopped" => Others(s) \subseteq told
  /\ shim \in {"stopping", "stopped"} =>
       \A s \in Served : server[s] \in {"stopped", "cancelled"}
  /\ process \in {"ended", "killed"} =>
       /\ shim \notin {"up", "stopping"} /\ streams # "serving" /\ Open = {}
       /\ \A s \in IsServer : server[s] \in {"absent", "stopped", "cancelled"}

(* However the sidecar is stopped, calls it took are answered, unless a    *)
(* server couldn't start beside another; and an exchange with Envoy is     *)
(* given its while, unless that or SIGTERM ends the process.               *)
NothingIsCutShort ==
  /\ (\E k \in Slots : pc[k] = "cut") => \E s \in Served : server[s] = "cancelled"
  /\ (\E x \in Exchanges : exchange[x] = "cut") =>
       \/ \E s \in Served : server[s] = "cancelled"
       \/ caught = "SIGTERM" \/ shim = "stopped"
=============================================================================
