---------------------------- MODULE ServingProofs ----------------------------
(***************************************************************************)
(* That the sidecar's servers and the shim stop together and cut nothing   *)
(* short, and what a call is answered with, for every configuration, any   *)
(* number of calls at once and any number of exchanges with Envoy.         *)
(***************************************************************************)
EXTENDS Serving, TLAPS

Stages == {"free", "sent", "judging", "answered", "cut"}

ServerTyped ==
  /\ process \in {"reading", "refused", "starting", "serving", "stopping", "ended", "killed"}
  /\ server \in [IsServer -> {"absent", "starting", "up", "stopped", "cancelled"}]
  /\ told \subseteq IsServer /\ streams \in {"off", "serving", "closed"}
  /\ shim \in {"absent", "starting", "up", "stopping", "stopped", "killed"}
CallTyped ==
  /\ exchange \in [Exchanges -> {"none", "open", "done", "cut"}]
  /\ call \in [Slots -> Calls \cup {NoCall}] /\ pc \in [Slots -> Stages]

(* How far the sidecar is says where its servers and the shim stand.       *)
Early ==
  process \in {"reading", "refused", "starting"} =>
    /\ \A s \in IsServer : server[s] = "absent"
    /\ told = {} /\ caught = "none" /\ streams = "off"
    /\ \A k \in Slots : pc[k] = "free"
ShimPlaced ==
  /\ process \in {"reading", "refused"} => shim = "absent"
  /\ process = "starting" => shim \in {"starting", "up", "absent"}
  /\ process = "serving" => shim \in {"up", "absent"}
  /\ process = "stopping" => shim \in {"up", "stopping", "absent"}
  /\ process = "ended" => shim \in {"stopped", "absent"}
  /\ process = "killed" => shim \in {"killed", "absent"}
ServersPlaced ==
  /\ process = "serving" => \A s \in Served : server[s] \in {"starting", "up", "stopped"}
  /\ process \in {"stopping", "ended", "killed"} =>
       \A s \in Served : server[s] \in {"absent", "stopped", "cancelled"}
  /\ shim \in {"stopping", "stopped"} \/ process = "stopping" =>
       \A s \in Served : server[s] \in {"stopped", "cancelled"}
  /\ \A s \in IsServer \ Served : server[s] = "absent"

Told == \A s \in Served : server[s] = "stopped" => Others(s) \subseteq told

(* The streams run while the server of proxies is up, exchanges are open   *)
(* while the shim is, and calls are in flight while their server is up.    *)
RunsWhileServed ==
  /\ streams = "serving" <=> server["main"] = "up"
  /\ Open # {} => shim \in {"up", "stopping"}
  /\ \A k \in Slots : pc[k] \in {"sent", "judging"} => server[call[k].at] = "up"

Cancelled == \E s \in Served : server[s] = "cancelled"
CutCallsHaveCause == \A k \in Slots : pc[k] = "cut" => Cancelled
CutExchangesHaveCause ==
  \A x \in Exchanges : exchange[x] = "cut" => Cancelled \/ caught = "SIGTERM" \/ shim = "stopped"

ServingInv ==
  /\ ServerTyped /\ CallTyped
  /\ Early /\ ShimPlaced /\ ServersPlaced /\ Told /\ RunsWhileServed
  /\ CutCallsHaveCause /\ CutExchangesHaveCause
  /\ process \in {"reading", "refused"} \/ CanServe
-----------------------------------------------------------------------------
LEMMA ServedAre == /\ Served \subseteq IsServer /\ "main" \in Served /\ "main" \in IsServer
                   /\ Served # IsServer => Served = {"main"} /\ ~OwnPort
BY DEF Served, IsServer

(* The configuration stays, and what is read of it.                        *)
LEMMA SettingsStay ==
  ASSUME config' = config
  PROVE  /\ Served' = Served /\ CanServe' = CanServe /\ OwnPort' = OwnPort
         /\ \A s : Others(s)' = Others(s) /\ IsOn(s)' = IsOn(s)
BY DEF Served, CanServe, OwnPort, IsOn, Setting, FolderReads, Named, Others

LEMMA Configured ==
  ASSUME [Next]_vars
  PROVE  config' = config
BY DEF Next, vars, Reads, ShimStarts, GroupStarts, AllStopped, ShimStops, ServerStarts, ServerFails,
       ServerStops, Signal, ExchangeOpens, ExchangeEnds, Arrives, Dispatch, Leaves, Finishes

(* Calls come and go while their server is up.                             *)
LEMMA CallsCome ==
  ASSUME ServingAssumption, ServingInv, NEW k \in Slots,
         (\E c \in Calls : Arrives(k, c)) \/ Dispatch(k) \/ Leaves(k) \/ \E came \in AnyOutcome : Finishes(k, came)
  PROVE  ServingInv'
<1>1. UNCHANGED <<config, process, server, told, caught, streams, shim, exchange>>
  BY DEF Arrives, Dispatch, Leaves, Finishes
<1>2. /\ Served' = Served /\ CanServe' = CanServe /\ Open' = Open
      /\ \A s : Others(s)' = Others(s)
  BY <1>1, SettingsStay DEF Open
<1>3. CallTyped /\ ServerTyped /\ RunsWhileServed /\ Early /\ Calls \subseteq AnyCall
  BY DEF ServingInv, ServingAssumption
<1>4. /\ call' \in [Slots -> Calls \cup {NoCall}] /\ pc' \in [Slots -> Stages]
      /\ \A j \in Slots : j # k => pc'[j] = pc[j] /\ call'[j] = call[j]
      /\ pc'[k] \in {"free", "sent", "judging", "answered"}
      /\ pc'[k] = "sent" => server[call'[k].at] = "up"
      /\ pc'[k] = "judging" => pc[k] = "sent" /\ call'[k] = call[k]
  <2>1. CASE \E c \in Calls : Arrives(k, c)
    BY <1>3, <2>1 DEF Arrives, CallTyped, Stages
  <2>2. CASE Dispatch(k) \/ \E came \in AnyOutcome : Finishes(k, came)
    <3>1. call' = call /\ (pc' = [pc EXCEPT ![k] = "answered"] \/
                           (pc[k] = "sent" /\ pc' = [pc EXCEPT ![k] = "judging"]))
      BY <2>2 DEF Dispatch, Finishes, Answers
    <3> QED
      BY <1>3, <3>1 DEF CallTyped, Stages
  <2>3. CASE Leaves(k)
    BY <1>3, <2>3 DEF Leaves, CallTyped, Stages
  <2> QED
    BY <2>1, <2>2, <2>3
<1>5. process \notin {"reading", "refused", "starting"}
  <2>1. CASE \E c \in Calls : Arrives(k, c)
    BY <1>3, <2>1 DEF Arrives, Early, AnyCall
  <2>2. CASE Dispatch(k) \/ Leaves(k) \/ \E came \in AnyOutcome : Finishes(k, came)
    BY <1>3, <2>2 DEF Dispatch, Leaves, Finishes, Early
  <2> QED
    BY <2>1, <2>2
<1>6. ServerTyped' /\ CallTyped' /\ Early' /\ ShimPlaced' /\ ServersPlaced' /\ Told'
  BY <1>1, <1>2, <1>3, <1>4, <1>5 DEF ServingInv, ServerTyped, CallTyped, Early, ShimPlaced, ServersPlaced, Told
<1>7. RunsWhileServed'
  BY <1>1, <1>2, <1>3, <1>4 DEF RunsWhileServed
<1>8. CutCallsHaveCause' /\ CutExchangesHaveCause'
  <2>1. Cancelled' = Cancelled
    BY <1>1, <1>2 DEF Cancelled
  <2>2. \A j \in Slots : pc'[j] = "cut" => pc[j] = "cut"
    BY <1>4
  <2> QED
    BY <1>1, <2>1, <2>2 DEF ServingInv, CutCallsHaveCause, CutExchangesHaveCause
<1> QED
  BY <1>1, <1>2, <1>6, <1>7, <1>8 DEF ServingInv

(* Until its servers start, the sidecar has nothing to cut short.          *)
LEMMA NothingEarly ==
  ASSUME ServingInv, process \in {"reading", "refused", "starting"}
  PROVE  /\ \A k \in Slots : pc[k] = "free"
         /\ \A x \in Exchanges : exchange[x] # "cut"
         /\ ~Cancelled
<1>1. ~Cancelled
  BY ServedAre DEF ServingInv, Early, Cancelled
<1>2. \A x \in Exchanges : exchange[x] # "cut"
  BY <1>1 DEF ServingInv, Early, ShimPlaced, CutExchangesHaveCause
<1> QED
  BY <1>1, <1>2 DEF ServingInv, Early

LEMMA SidecarStarts ==
  ASSUME ServingInv, Reads \/ ShimStarts \/ GroupStarts
  PROVE  ServingInv'
<1>1. /\ UNCHANGED <<config, told, caught, streams, exchange, call, pc>>
      /\ process \in {"reading", "starting"}
  BY DEF Reads, ShimStarts, GroupStarts, callVars
<1>2. /\ Served' = Served /\ CanServe' = CanServe /\ Open' = Open
      /\ \A s : Others(s)' = Others(s)
  BY <1>1, SettingsStay DEF Open
<1>3. /\ \A k \in Slots : pc[k] = "free"
      /\ \A x \in Exchanges : exchange[x] # "cut"
      /\ \A s \in IsServer : server[s] = "absent"
      /\ told = {} /\ caught = "none" /\ streams = "off"
  BY <1>1, NothingEarly DEF ServingInv, Early
<1>4. CASE Reads \/ ShimStarts
  <2>1. server' = server
    BY <1>4 DEF Reads, ShimStarts
  <2>2. ServerTyped' /\ CallTyped' /\ Told' /\ CutCallsHaveCause' /\ CutExchangesHaveCause'
    BY <1>1, <1>2, <1>3, <1>4, <2>1, ServedAre
       DEF ServingInv, ServerTyped, CallTyped, Told, CutCallsHaveCause, CutExchangesHaveCause, Reads, ShimStarts
  <2>3. Early' /\ ServersPlaced' /\ ShimPlaced'
    BY <1>1, <1>2, <1>3, <1>4, <2>1, ServedAre
       DEF ServingInv, Early, ShimPlaced, ServersPlaced, Reads, ShimStarts
  <2>4. RunsWhileServed'
    BY <1>1, <1>2, <1>3, <1>4, <2>1, ServedAre DEF ServingInv, ShimPlaced, RunsWhileServed, Reads, ShimStarts
  <2>5. process' \in {"reading", "refused"} \/ CanServe'
    BY <1>1, <1>2, <1>4 DEF ServingInv, Reads, ShimStarts
  <2> QED
    BY <2>2, <2>3, <2>4, <2>5 DEF ServingInv
<1>5. CASE GroupStarts
  <2>1. /\ process' = "serving" /\ shim' = shim /\ shim # "starting" /\ process = "starting"
        /\ server' = [s \in IsServer |-> IF s \in Served THEN "starting" ELSE "absent"]
    BY <1>5 DEF GroupStarts
  <2>2. ServerTyped' /\ CallTyped' /\ Told' /\ CutCallsHaveCause' /\ CutExchangesHaveCause'
    BY <1>1, <1>2, <1>3, <2>1, ServedAre
       DEF ServingInv, ServerTyped, CallTyped, Told, CutCallsHaveCause, CutExchangesHaveCause
  <2>3. Early' /\ ServersPlaced' /\ ShimPlaced' /\ RunsWhileServed'
    BY <1>1, <1>2, <1>3, <2>1, ServedAre
       DEF ServingInv, Early, ShimPlaced, ServersPlaced, RunsWhileServed
  <2> QED
    BY <1>2, <2>1, <2>2, <2>3 DEF ServingInv
<1> QED
  BY <1>4, <1>5

LEMMA CallsAreAtServers ==
  ASSUME ServingAssumption, ServingInv, NEW k \in Slots
  PROVE  call[k].at \in IsServer
BY DEF ServingAssumption, ServingInv, CallTyped, AnyCall, NoCall, IsServer

(* A server that starts, or that stops once it has no call in flight and   *)
(* has told the others.                                                    *)
LEMMA ServersRun ==
  ASSUME ServingAssumption, ServingInv, NEW s \in IsServer, ServerStarts(s) \/ ServerStops(s)
  PROVE  ServingInv'
<1>1. /\ UNCHANGED <<config, process, caught, shim, exchange, call, pc>>
      /\ process = "serving"
  BY DEF ServerStarts, ServerStops, callVars
<1>2. /\ Served' = Served /\ CanServe' = CanServe /\ Open' = Open
      /\ \A t : Others(t)' = Others(t)
  BY <1>1, SettingsStay DEF Open
<1>3. /\ ServerTyped /\ CallTyped /\ ShimPlaced /\ ServersPlaced /\ Told /\ RunsWhileServed
      /\ server \in [IsServer -> {"absent", "starting", "up", "stopped", "cancelled"}]
  BY DEF ServingInv, ServerTyped
<1>4. s \in Served /\ Others(s) \subseteq IsServer /\ shim \in {"up", "absent"}
  BY <1>1, <1>3, ServedAre DEF ServerStarts, ServerStops, ServersPlaced, ShimPlaced, Others
<1>5. /\ server'[s] \in {"up", "stopped"} /\ told \subseteq told' /\ told' \subseteq IsServer
      /\ server' \in [IsServer -> {"absent", "starting", "up", "stopped", "cancelled"}]
      /\ server'[s] = "stopped" => Others(s) \subseteq told'
      /\ \A t \in IsServer \ {s} : server'[t] = server[t]
  <2>1. CASE ServerStarts(s)
    BY <1>3, <1>4, <2>1 DEF ServerStarts, ServerTyped
  <2>2. CASE ServerStops(s)
    BY <1>3, <1>4, <2>2 DEF ServerStops, ServerTyped
  <2> QED
    BY <2>1, <2>2
<1>6. ServerTyped' /\ CallTyped'
  <2>1. streams' \in {"off", "serving", "closed"}
    BY <1>3 DEF ServerStarts, ServerStops, ServerTyped
  <2> QED
    BY <1>1, <1>3, <1>5, <2>1 DEF ServerTyped, CallTyped
<1>7. Early' /\ ShimPlaced' /\ ServersPlaced' /\ Told'
  BY <1>1, <1>2, <1>3, <1>4, <1>5, ServedAre DEF Early, ShimPlaced, ServersPlaced, Told
<1>8. RunsWhileServed'
  <2>1. (streams = "serving") <=> server["main"] = "up"
    BY <1>3 DEF RunsWhileServed
  <2>2. (streams' = "serving") <=> server'["main"] = "up"
    <3>1. CASE ServerStarts(s)
      BY <1>3, <2>1, <3>1, ServedAre DEF ServerStarts
    <3>2. CASE ServerStops(s)
      BY <1>3, <2>1, <3>2, ServedAre DEF ServerStops
    <3> QED
      BY <3>1, <3>2
  <2>3. ASSUME NEW k \in Slots, pc'[k] \in {"sent", "judging"}
        PROVE  server'[call'[k].at] = "up"
    <3>1. server[call[k].at] = "up" /\ call[k].at \in IsServer
      BY <1>1, <1>3, <2>3, CallsAreAtServers DEF RunsWhileServed
    <3>2. call[k].at # s
      <4>1. CASE ServerStarts(s)
        BY <3>1, <4>1 DEF ServerStarts
      <4>2. CASE ServerStops(s)
        BY <1>1, <2>3, <4>2 DEF ServerStops, InFlight
      <4> QED
        BY <4>1, <4>2
    <3> QED
      BY <1>1, <1>5, <3>1, <3>2
  <2>4. Open' # {} => shim' \in {"up", "stopping"}
    BY <1>1, <1>2, <1>3 DEF RunsWhileServed
  <2> QED
    BY <2>2, <2>3, <2>4 DEF RunsWhileServed
<1>9. CutCallsHaveCause' /\ CutExchangesHaveCause'
  <2>1. ~Cancelled /\ ~Cancelled'
    BY <1>1, <1>2, <1>3, <1>4, <1>5, ServedAre DEF Cancelled, ServersPlaced
  <2> QED
    BY <1>1, <2>1 DEF ServingInv, CutCallsHaveCause, CutExchangesHaveCause
<1> QED
  BY <1>1, <1>2, <1>6, <1>7, <1>8, <1>9 DEF ServingInv

(* Those that run are cancelled, and all they were at is cut.              *)
LEMMA SidecarFails ==
  ASSUME ServingAssumption, ServingInv, NEW s \in IsServer, ServerFails(s)
  PROVE  ServingInv'
<1>1. /\ UNCHANGED <<config, told, caught, shim, call>> /\ process = "serving" /\ process' = "stopping"
      /\ CutCalls /\ CutExchanges
  BY DEF ServerFails
<1>2. /\ Served' = Served /\ CanServe' = CanServe /\ \A t : Others(t)' = Others(t)
  BY <1>1, SettingsStay
<1>3. /\ ServerTyped /\ CallTyped /\ ShimPlaced /\ ServersPlaced /\ Told /\ RunsWhileServed
      /\ server \in [IsServer -> {"absent", "starting", "up", "stopped", "cancelled"}]
  BY DEF ServingInv, ServerTyped
<1>4. s \in Served /\ shim \in {"up", "absent"} /\ server[s] = "starting"
  BY <1>1, <1>3, ServedAre DEF ServerFails, ServersPlaced, ShimPlaced
<1>5. /\ server' = [t \in IsServer |-> IF server[t] \in {"starting", "up"} THEN "cancelled" ELSE server[t]]
      /\ streams' = IF streams = "serving" THEN "closed" ELSE streams
  BY DEF ServerFails
<1>6. /\ pc' \in [Slots -> Stages] /\ exchange' \in [Exchanges -> {"none", "open", "done", "cut"}]
      /\ \A k \in Slots : pc'[k] \notin {"sent", "judging"}
      /\ \A x \in Exchanges : exchange'[x] # "open"
  BY <1>1, <1>3 DEF CallTyped, CutCalls, CutExchanges, Open, Stages
<1>7. Cancelled'
  BY <1>2, <1>4, <1>5, ServedAre DEF Cancelled
<1>8. ServerTyped' /\ CallTyped'
  BY <1>1, <1>3, <1>5, <1>6 DEF ServerTyped, CallTyped
<1>9. Early' /\ ShimPlaced' /\ ServersPlaced' /\ Told'
  BY <1>1, <1>2, <1>3, <1>4, <1>5, ServedAre DEF Early, ShimPlaced, ServersPlaced, Told
<1>10. RunsWhileServed'
  BY <1>3, <1>5, <1>6, ServedAre DEF RunsWhileServed, Open
<1> QED
  BY <1>1, <1>2, <1>7, <1>8, <1>9, <1>10 DEF ServingInv, CutCallsHaveCause, CutExchangesHaveCause

(* A signal tells one server to stop.                                      *)
LEMMA SignalsCome ==
  ASSUME ServingInv, NEW signal \in Signals, Signal(signal)
  PROVE  ServingInv'
<1>1. /\ UNCHANGED <<config, process, server, streams, shim, exchange, call, pc>>
      /\ process = "serving" /\ caught = "none" /\ caught' = signal
      /\ told \subseteq told' /\ told' \subseteq told \cup IsServer
  BY DEF Signal, callVars, IsServer
<1>2. /\ Served' = Served /\ CanServe' = CanServe /\ Open' = Open
      /\ \A t : Others(t)' = Others(t)
  BY <1>1, SettingsStay DEF Open
<1>3. ServerTyped' /\ CallTyped' /\ Early' /\ ShimPlaced' /\ ServersPlaced' /\ Told' /\ RunsWhileServed'
  BY <1>1, <1>2
     DEF ServingInv, ServerTyped, CallTyped, Early, ShimPlaced, ServersPlaced, Told, RunsWhileServed
<1>4. Cancelled' = Cancelled
  BY <1>1, <1>2 DEF Cancelled
<1>5. CutCallsHaveCause' /\ CutExchangesHaveCause'
  BY <1>1, <1>4 DEF ServingInv, CutCallsHaveCause, CutExchangesHaveCause
<1> QED
  BY <1>1, <1>2, <1>3, <1>5 DEF ServingInv

(* The shim is stopped after the servers, or killed with the process.      *)
LEMMA SidecarEnds ==
  ASSUME ServingInv, AllStopped \/ ShimStops
  PROVE  ServingInv'
<1>1. /\ UNCHANGED <<config, server, told, caught, streams, call, pc>>
      /\ process \in {"serving", "stopping"} /\ process' \in {"stopping", "ended", "killed"}
  BY DEF AllStopped, ShimStops, callVars
<1>2. /\ Served' = Served /\ CanServe' = CanServe /\ \A t : Others(t)' = Others(t)
  BY <1>1, SettingsStay
<1>3. /\ ServerTyped /\ CallTyped /\ ShimPlaced /\ ServersPlaced /\ Told /\ RunsWhileServed
      /\ CutCallsHaveCause /\ CutExchangesHaveCause
  BY DEF ServingInv
<1>4. /\ \A s \in Served : server[s] \in {"stopped", "cancelled"}
      /\ \A s \in IsServer \ Served : server[s] = "absent"
  BY <1>3 DEF AllStopped, ShimStops, ServersPlaced
<1>5. Cancelled' = Cancelled
  BY <1>1, <1>2 DEF Cancelled
<1>6. ServerTyped' /\ ShimPlaced'
  BY <1>1, <1>3 DEF ServerTyped, ShimPlaced, AllStopped, ShimStops
<1>7. Early' /\ ServersPlaced' /\ Told'
  BY <1>1, <1>2, <1>3, <1>4 DEF Early, ServersPlaced, Told
<1>8. /\ exchange' \in [Exchanges -> {"none", "open", "done", "cut"}]
      /\ exchange' = exchange \/ \A x \in Exchanges : exchange'[x] # "open"
      /\ exchange' = exchange \/ caught = "SIGTERM" \/ shim' = "stopped"
      /\ shim' = "stopping" \/ (shim' = shim /\ exchange' = exchange) \/ \A x \in Exchanges : exchange'[x] # "open"
      /\ shim = "stopped" => shim' = "stopped"
  BY <1>3 DEF AllStopped, ShimStops, CutExchanges, CallTyped, Open, ShimPlaced
<1>9. CallTyped' /\ CutCallsHaveCause' /\ CutExchangesHaveCause'
  BY <1>1, <1>3, <1>5, <1>8 DEF CallTyped, CutCallsHaveCause, CutExchangesHaveCause
<1>10. RunsWhileServed'
  BY <1>1, <1>3, <1>8 DEF RunsWhileServed, Open
<1> QED
  BY <1>1, <1>2, <1>6, <1>7, <1>9, <1>10 DEF ServingInv

LEMMA ExchangesCome ==
  ASSUME ServingInv, NEW x \in Exchanges, ExchangeOpens(x) \/ ExchangeEnds(x)
  PROVE  ServingInv'
<1>1. /\ UNCHANGED <<config, process, server, told, caught, streams, shim, call, pc>>
      /\ shim \in {"up", "stopping"}
  BY DEF ExchangeOpens, ExchangeEnds, callVars
<1>2. /\ Served' = Served /\ CanServe' = CanServe /\ \A t : Others(t)' = Others(t)
  BY <1>1, SettingsStay
<1>3. /\ exchange' \in [Exchanges -> {"none", "open", "done", "cut"}]
      /\ \A y \in Exchanges : exchange'[y] = "cut" => exchange[y] = "cut"
  BY DEF ExchangeOpens, ExchangeEnds, ServingInv, CallTyped
<1>4. Cancelled' = Cancelled
  BY <1>1, <1>2 DEF Cancelled
<1>5. ServerTyped' /\ CallTyped' /\ Early' /\ ShimPlaced' /\ ServersPlaced' /\ Told' /\ RunsWhileServed'
  BY <1>1, <1>2, <1>3
     DEF ServingInv, ServerTyped, CallTyped, Early, ShimPlaced, ServersPlaced, Told, RunsWhileServed
<1>6. CutCallsHaveCause' /\ CutExchangesHaveCause'
  BY <1>1, <1>3, <1>4 DEF ServingInv, CutCallsHaveCause, CutExchangesHaveCause
<1> QED
  BY <1>1, <1>2, <1>5, <1>6 DEF ServingInv

LEMMA ServingBegins == Init => ServingInv
<1> SUFFICES ASSUME Init PROVE ServingInv
  OBVIOUS
<1>1. /\ process = "reading" /\ server = [s \in IsServer |-> "absent"] /\ told = {} /\ caught = "none"
      /\ streams = "off" /\ shim = "absent" /\ exchange = [x \in Exchanges |-> "none"]
      /\ call = [k \in Slots |-> NoCall] /\ pc = [k \in Slots |-> "free"]
  BY DEF Init
<1>2. ServerTyped /\ CallTyped /\ Early /\ ShimPlaced /\ ServersPlaced
  BY <1>1, ServedAre DEF ServerTyped, CallTyped, Early, ShimPlaced, ServersPlaced, Stages
<1>3. Told /\ RunsWhileServed /\ CutCallsHaveCause /\ CutExchangesHaveCause
  BY <1>1, ServedAre DEF Told, RunsWhileServed, CutCallsHaveCause, CutExchangesHaveCause, Open
<1> QED
  BY <1>1, <1>2, <1>3 DEF ServingInv

LEMMA ServingGoesOn ==
  ASSUME ServingAssumption, ServingInv, [Next]_vars
  PROVE  ServingInv'
<1>1. CASE UNCHANGED vars
  <2>1. UNCHANGED <<config, process, server, told, caught, streams, shim, exchange, call, pc>>
    BY <1>1 DEF vars, callVars
  <2>2. /\ Served' = Served /\ CanServe' = CanServe /\ Open' = Open
        /\ \A s : Others(s)' = Others(s)
    BY <2>1, SettingsStay DEF Open
  <2>3. ServerTyped' /\ CallTyped' /\ Early' /\ ShimPlaced' /\ ServersPlaced' /\ Told' /\ RunsWhileServed'
    BY <2>1, <2>2
       DEF ServingInv, ServerTyped, CallTyped, Early, ShimPlaced, ServersPlaced, Told, RunsWhileServed
  <2>4. CutCallsHaveCause' /\ CutExchangesHaveCause'
    BY <2>1, <2>2 DEF ServingInv, Cancelled, CutCallsHaveCause, CutExchangesHaveCause
  <2> QED
    BY <2>1, <2>2, <2>3, <2>4 DEF ServingInv
<1>2. CASE Reads \/ ShimStarts \/ GroupStarts
  BY <1>2, SidecarStarts
<1>3. CASE AllStopped \/ ShimStops
  BY <1>3, SidecarEnds
<1>4. CASE \E s \in IsServer : ServerStarts(s) \/ ServerFails(s) \/ ServerStops(s)
  BY <1>4, ServersRun, SidecarFails
<1>5. CASE \E signal \in Signals : Signal(signal)
  BY <1>5, SignalsCome
<1>6. CASE \E x \in Exchanges : ExchangeOpens(x) \/ ExchangeEnds(x)
  BY <1>6, ExchangesCome
<1>7. CASE \E k \in Slots : \/ \E c \in Calls : Arrives(k, c)
                            \/ Dispatch(k) \/ Leaves(k)
                            \/ \E came \in AnyOutcome : Finishes(k, came)
  BY <1>7, CallsCome
<1> QED
  BY <1>1, <1>2, <1>3, <1>4, <1>5, <1>6, <1>7 DEF Next

LEMMA ServingInvImplies == ServingInv => StoppedTogether /\ NothingIsCutShort
<1> SUFFICES ASSUME ServingInv PROVE StoppedTogether /\ NothingIsCutShort
  OBVIOUS
<1>1. NothingIsCutShort
  BY DEF ServingInv, NothingIsCutShort, CutCallsHaveCause, CutExchangesHaveCause, Cancelled
<1>2. process \in {"ended", "killed"} =>
        /\ shim \notin {"up", "stopping"} /\ streams # "serving" /\ Open = {}
        /\ \A s \in IsServer : server[s] \in {"absent", "stopped", "cancelled"}
  BY ServedAre DEF ServingInv, ShimPlaced, ServersPlaced, RunsWhileServed
<1> QED
  BY <1>1, <1>2 DEF ServingInv, StoppedTogether, Told, ServersPlaced

-----------------------------------------------------------------------------
(* A call without a method run for it is one of those rejected, and what   *)
(* has a method run is rejected for nothing.                               *)
Rejection(a) ==
  /\ a.kind \in {"http", "error"} /\ a.code # "UNKNOWN_STREAM" /\ ~a.records
Sound(c) ==
  /\ c.path \in Paths(c.at) /\ c.method \in Methods(c.path)
  /\ c.path = "evals" /\ OwnPort => c.bearer
  /\ c.path = "proxy" => c.form # "no_id"

LEMMA FirstOfNine ==
  ASSUME NEW S \in SUBSET (1..9), S # {}
  PROVE  Min(S) \in S
<1>1. \A j \in S : j \in 1..9
  OBVIOUS
<1>2. PICK i \in S : TRUE
  OBVIOUS
<1>3. \A j \in 1..9 : j = 1 \/ j = 2 \/ j = 3 \/ j = 4 \/ j = 5 \/ j = 6 \/ j = 7 \/ j = 8 \/ j = 9
  OBVIOUS
<1>4. \E first \in S : \A j \in S : first <= j
  <2>1. CASE 1 \in S
    BY <1>1, <2>1
  <2>2. CASE 1 \notin S /\ 2 \in S
    BY <1>1, <1>3, <2>2
  <2>3. CASE 1 \notin S /\ 2 \notin S /\ 3 \in S
    BY <1>1, <1>3, <2>3
  <2> DEFINE PastThree == 1 \notin S /\ 2 \notin S /\ 3 \notin S
  <2>4. CASE PastThree /\ 4 \in S
    BY <1>1, <1>3, <2>4
  <2>5. CASE PastThree /\ 4 \notin S /\ 5 \in S
    BY <1>1, <1>3, <2>5
  <2>6. CASE PastThree /\ 4 \notin S /\ 5 \notin S /\ 6 \in S
    BY <1>1, <1>3, <2>6
  <2> DEFINE PastSix == PastThree /\ 4 \notin S /\ 5 \notin S /\ 6 \notin S
  <2>7. CASE PastSix /\ 7 \in S
    BY <1>1, <1>3, <2>7
  <2>8. CASE PastSix /\ 7 \notin S /\ 8 \in S
    BY <1>1, <1>3, <2>8
  <2>9. CASE PastSix /\ 7 \notin S /\ 8 \notin S
    BY <1>1, <1>2, <1>3, <2>9
  <2> QED
    BY <2>1, <2>2, <2>3, <2>4, <2>5, <2>6, <2>7, <2>8, <2>9
<1> QED
  BY <1>4 DEF Min

LEMMA FirstOfPair == \A P \in BOOLEAN : \A a : <<P, a>>[1] = P
OBVIOUS

LEMMA RejectionsAre ==
  ASSUME NEW c
  PROVE  /\ DOMAIN Rejections(c) = 1..9
         /\ \A i \in 1..9 : Rejection(Rejections(c)[i][2])
         /\ Rejected(c) = {} => Sound(c)
<1>1. DOMAIN Rejections(c) = 1..9
  BY DEF Rejections
<1>2. /\ Rejections(c)[1] = <<c.path \notin Paths(c.at), Http("404")>>
      /\ Rejections(c)[2] = <<c.path = "evals" /\ OwnPort /\ ~c.bearer, Http("401")>>
      /\ Rejections(c)[3] = <<c.large, Http("413")>>
      /\ Rejections(c)[4] = <<c.form = "not_json", Error("PARSE_ERROR")>>
      /\ Rejections(c)[5] = <<c.form = "not_call", Error("INVALID_REQUEST")>>
      /\ Rejections(c)[6] = <<c.path = "proxy" /\ c.form = "no_id", Error("INVALID_REQUEST")>>
      /\ Rejections(c)[7] = <<c.method = "sample_result" /\ c.path = "evals" /\ ~IsOn("eval_results"),
                              Error("METHOD_NOT_FOUND")>>
      /\ Rejections(c)[8] = <<c.method \notin Methods(c.path), Error("METHOD_NOT_FOUND")>>
      /\ Rejections(c)[9] = <<~c.fits, Error("INVALID_PARAMS")>>
  BY DEF Rejections
<1>3. \A i \in 1..9 : Rejection(Rejections(c)[i][2])
  <2>1. \A code \in {"404", "401", "413"} : Rejection(Http(code))
    BY DEF Rejection, Http
  <2>2. \A code \in {"PARSE_ERROR", "INVALID_REQUEST", "METHOD_NOT_FOUND", "INVALID_PARAMS"} :
          Rejection(Error(code))
    BY DEF Rejection, Error
  <2> QED
    BY <1>2, <2>1, <2>2
<1>4. ASSUME Rejected(c) = {} PROVE Sound(c)
  <2>1. \A i \in 1..9 : ~Rejections(c)[i][1]
    BY <1>1, <1>4 DEF Rejected
  <2> DEFINE Astray == c.path \notin Paths(c.at)
             Bare == c.path = "evals" /\ OwnPort /\ ~c.bearer
             NoId == c.path = "proxy" /\ c.form = "no_id"
             Unheard == c.method \notin Methods(c.path)
  <2>2. ~Astray
    <3>1. Rejections(c)[1][1] = Astray
      BY <1>2, FirstOfPair, Zenon
    <3>2. ~Rejections(c)[1][1]
      BY <2>1
    <3> QED
      BY <3>1, <3>2, Zenon
  <2>3. ~Bare
    <3>1. Rejections(c)[2][1] = Bare
      BY <1>2, FirstOfPair, Zenon
    <3>2. ~Rejections(c)[2][1]
      BY <2>1
    <3> QED
      BY <3>1, <3>2, Zenon
  <2>4. ~NoId
    <3>1. Rejections(c)[6][1] = NoId
      BY <1>2, FirstOfPair, Zenon
    <3>2. ~Rejections(c)[6][1]
      BY <2>1
    <3> QED
      BY <3>1, <3>2, Zenon
  <2>5. ~Unheard
    <3>1. Rejections(c)[8][1] = Unheard
      BY <1>2, FirstOfPair, Zenon
    <3>2. ~Rejections(c)[8][1]
      BY <2>1
    <3> QED
      BY <3>1, <3>2, Zenon
  <2> QED
    BY <2>2, <2>3, <2>4, <2>5 DEF Sound
<1> QED
  BY <1>1, <1>3, <1>4

(* What a method may come to, whenever it does.                            *)
CameOf(c, came) ==
  /\ came \notin {"none", "not_served"}
  /\ came \in Decisions => c.method \in Judging
  /\ c.method \in Judging => came \in Decisions \cup NotJudged
  /\ came = "granted" => IsOn("runtime_task_registration")

LEMMA MethodsComeTo ==
  ASSUME NEW c, Sound(c), NEW came \in Outcomes(c.method),
         c.method = "begin_reply" => streams = "serving"
  PROVE  CameOf(c, came)
<1> DEFINE m == c.method
<1>1. m \in ProxyMethods \cup EvalMethods
  BY DEF Sound, Methods
<1>2. CASE m = "judge_request"
  <2>1. came \in Decisions \cup NotJudged
    BY <1>2, Zenon DEF Outcomes
  <2> QED
    BY <1>2, <2>1 DEF CameOf, Decisions, NotJudged, Judging
<1>3. CASE m = "judge_reply"
  <2>1. came \in Decisions \cup (NotJudged \ {"unregistered"})
    BY <1>3, Zenon DEF Outcomes
  <2> QED
    BY <1>3, <2>1 DEF CameOf, Decisions, NotJudged, Judging
<1>4. CASE m = "begin_reply"
  <2>1. came \in {"taken", "other_details"}
    BY <1>4, Zenon DEF Outcomes
  <2> QED
    BY <1>4, <2>1 DEF CameOf, Decisions, Judging
<1>5. CASE m \in {"reply_chunk", "end_reply", "next_release"}
  <2>1. came \in {"taken", "unknown_stream"}
    BY <1>5, Zenon DEF Outcomes
  <2> QED
    BY <1>5, <2>1 DEF CameOf, Decisions, Judging
<1>6. CASE m = "abort_reply"
  <2>1. came \in {"taken"}
    BY <1>6, Zenon DEF Outcomes
  <2> QED
    BY <1>6, <2>1 DEF CameOf, Decisions, Judging
<1>7. CASE m = "register_task"
  <2> DEFINE Registered == (IF FixedTasks # {} THEN {"fixed"} ELSE {})
               \cup (IF IsOn("runtime_task_registration") THEN {"granted", "full"} ELSE {"refused"})
  <2>1. came \in Registered
    BY <1>7, Zenon DEF Outcomes
  <2>2. came \in {"fixed", "granted", "full", "refused"}
        /\ (came = "granted" => IsOn("runtime_task_registration"))
    BY <2>1
  <2> QED
    BY <1>7, <2>2 DEF CameOf, Decisions, Judging
<1>8. CASE m = "request_result"
  <2>1. came \in {"held", "dropped", "unknown"}
    BY <1>8, Zenon DEF Outcomes
  <2> QED
    BY <1>8, <2>1 DEF CameOf, Decisions, Judging
<1>9. CASE m = "sample_result"
  <2>1. came \in {"held", "nothing"}
    BY <1>9, Zenon DEF Outcomes
  <2> QED
    BY <1>9, <2>1 DEF CameOf, Decisions, Judging
<1>10. CASE m = "end_sample"
  <2>1. came \in {"ended", "unknown"}
    BY <1>10, Zenon DEF Outcomes
  <2> QED
    BY <1>10, <2>1 DEF CameOf, Decisions, Judging
<1> QED
  BY <1>1, <1>2, <1>3, <1>4, <1>5, <1>6, <1>7, <1>8, <1>9, <1>10 DEF ProxyMethods, EvalMethods

LEMMA AnswersAre ==
  ASSUME NEW c, NEW came
  PROVE  /\ AnswerTo(c, came).kind = "result" => AnswerTo(c, came).code = came
         /\ came \in Decisions /\ c.form # "no_id" => AnswerTo(c, came).kind = "result"
         /\ came \in NotJudged => /\ AnswerTo(c, came).kind = "error"
                                  /\ AnswerTo(c, came).code # "UNKNOWN_STREAM"
         /\ AnswerTo(c, came).records => IsOn("eval_results")
<1>1. DOMAIN Codes = {"time_limit", "unregistered", "unreadable", "failed", "other_details", "not_served",
                      "unknown_stream", "full", "refused", "nothing"}
  BY DEF Codes
<1>2. CASE came \in DOMAIN Codes
  <2>1. AnswerTo(c, came) = [kind |-> "error", code |-> Codes[came], records |-> FALSE]
    BY <1>2 DEF AnswerTo, Error
  <2>2. came \in NotJudged => Codes[came] # "UNKNOWN_STREAM"
    BY DEF NotJudged, Codes
  <2>3. came \notin Decisions
    BY <1>1, <1>2 DEF Decisions
  <2> QED
    BY <2>1, <2>2, <2>3
<1>3. CASE came \notin DOMAIN Codes
  <2>1. came \notin NotJudged
    BY <1>1, <1>3 DEF NotJudged
  <2>2. CASE c.form = "no_id"
    BY <1>3, <2>1, <2>2 DEF AnswerTo, NoAnswer
  <2>3. CASE c.form # "no_id"
    <3> DEFINE Sent == c.method \in {"request_result", "sample_result"} /\ came = "held" /\ IsOn("eval_results")
    <3>1. AnswerTo(c, came) = [kind |-> "result", code |-> came, records |-> Sent]
      BY <1>3, <2>3, Zenon DEF AnswerTo
    <3>2. AnswerTo(c, came).kind = "result" /\ AnswerTo(c, came).code = came /\ AnswerTo(c, came).records = Sent
      <4> HIDE DEF Sent
      <4> QED
        BY <3>1
    <3> QED
      BY <2>1, <3>2
  <2> QED
    BY <2>2, <2>3
<1> QED
  BY <1>2, <1>3

(* A call has no outcome and no answer until it is answered, as its outcome*)
(* is or with why no method was run for it.                                *)
AnswerOK(k) ==
  /\ pc[k] # "answered" => outcome[k] = "none" /\ answer[k] = NoAnswer
  /\ pc[k] = "judging" => Sound(call[k])
  /\ pc[k] = "answered" =>
       \/ outcome[k] = "none" /\ Rejection(answer[k])
       \/ /\ Sound(call[k]) /\ CameOf(call[k], outcome[k])
          /\ answer[k] = AnswerTo(call[k], outcome[k])
AnswersTyped == DOMAIN outcome = Slots /\ DOMAIN answer = Slots
                /\ outcome = [k \in Slots |-> outcome[k]] /\ answer = [k \in Slots |-> answer[k]]
AnswersInv == ServingInv /\ AnswersTyped /\ \A k \in Slots : AnswerOK(k)

LEMMA AnswersBegin == Init => AnswersInv
BY ServingBegins DEF Init, AnswersInv, AnswersTyped, AnswerOK

LEMMA SoundStays ==
  ASSUME config' = config
  PROVE  /\ \A c : Sound(c)' <=> Sound(c)
         /\ \A c, came : CameOf(c, came)' <=> CameOf(c, came)
         /\ \A c, came : AnswerTo(c, came)' = AnswerTo(c, came)
<1>1. OwnPort' = OwnPort /\ \A s : IsOn(s)' = IsOn(s)
  BY SettingsStay
<1>2. \A s : Paths(s)' = Paths(s)
  BY <1>1 DEF Paths
<1> QED
  BY <1>1, <1>2 DEF Sound, CameOf, AnswerTo

(* Only what the step does to this call concerns its answer.               *)
LEMMA OtherAnswersStay ==
  ASSUME AnswersInv, config' = config, NEW k \in Slots,
         outcome'[k] = outcome[k], answer'[k] = answer[k],
         \/ pc'[k] = pc[k] /\ call'[k] = call[k]
         \/ pc'[k] \in {"sent", "cut"} /\ pc[k] # "answered"
  PROVE  AnswerOK(k)'
BY SoundStays DEF AnswersInv, AnswerOK

LEMMA DispatchIsAnswered ==
  ASSUME AnswersInv, NEW k \in Slots, Dispatch(k)
  PROVE  AnswersTyped' /\ \A j \in Slots : AnswerOK(j)'
<1> DEFINE rejected == Rejected(call[k])
<1>1. /\ config' = config /\ call' = call /\ outcome' = outcome /\ pc[k] = "sent"
      /\ IF rejected # {} THEN Answers(k, Rejections(call[k])[Min(rejected)][2])
         ELSE pc' = [pc EXCEPT ![k] = "judging"] /\ answer' = answer
  BY DEF Dispatch
<1>2. pc \in [Slots -> Stages] /\ DOMAIN answer = Slots /\ AnswerOK(k)
  BY DEF AnswersInv, AnswersTyped, ServingInv, CallTyped
<1>3. CASE rejected # {}
  <2>1. Rejection(Rejections(call[k])[Min(rejected)][2])
    <3>1. DOMAIN Rejections(call[k]) = 1..9 /\ \A i \in 1..9 : Rejection(Rejections(call[k])[i][2])
      BY RejectionsAre
    <3>2. rejected \subseteq 1..9
      BY <3>1 DEF Rejected
    <3>3. Min(rejected) \in rejected
      BY <1>3, <3>2, FirstOfNine
    <3> QED
      BY <3>1, <3>2, <3>3
  <2>2. PICK a : Rejection(a) /\ answer' = [answer EXCEPT ![k] = a] /\ pc' = [pc EXCEPT ![k] = "answered"]
    BY <1>1, <1>3, <2>1 DEF Answers
  <2>3. AnswersTyped'
    BY <1>1, <1>2, <2>2 DEF AnswersInv, AnswersTyped
  <2>4. AnswerOK(k)'
    <3>1. outcome'[k] = "none" /\ answer'[k] = a /\ pc'[k] = "answered"
      BY <1>1, <1>2, <2>2 DEF AnswerOK
    <3>2. Rejection(answer[k])'
      BY <2>2, <3>1 DEF Rejection
    <3> QED
      BY <3>1, <3>2 DEF AnswerOK
  <2>5. ASSUME NEW j \in Slots \ {k} PROVE AnswerOK(j)'
    <3>1. pc'[j] = pc[j] /\ answer'[j] = answer[j] /\ outcome'[j] = outcome[j] /\ call'[j] = call[j]
      BY <1>1, <1>2, <2>2
    <3> QED
      BY <1>1, <3>1, OtherAnswersStay
  <2> QED
    BY <2>3, <2>4, <2>5
<1>4. CASE rejected = {}
  <2>1. /\ pc' = [pc EXCEPT ![k] = "judging"] /\ answer' = answer
        /\ pc'[k] = "judging"
    BY <1>1, <1>2, <1>4
  <2>2. Sound(call[k])' <=> Sound(call[k])
    BY <1>1, SettingsStay DEF Sound, Paths
  <2>3. Sound(call[k])'
    BY <1>4, <2>2, RejectionsAre
  <2>4. AnswersTyped'
    BY <1>1, <2>1 DEF AnswersInv, AnswersTyped
  <2>5. AnswerOK(k)'
    BY <1>1, <1>2, <2>1, <2>3 DEF AnswerOK
  <2>6. ASSUME NEW j \in Slots \ {k} PROVE AnswerOK(j)'
    <3>1. pc'[j] = pc[j] /\ answer'[j] = answer[j] /\ outcome'[j] = outcome[j] /\ call'[j] = call[j]
      BY <1>1, <1>2, <2>1
    <3> QED
      BY <1>1, <3>1, OtherAnswersStay
  <2> QED
    BY <2>4, <2>5, <2>6
<1> QED
  BY <1>3, <1>4

LEMMA FinishIsAnswered ==
  ASSUME ServingAssumption, AnswersInv, NEW k \in Slots, NEW came \in AnyOutcome, Finishes(k, came)
  PROVE  AnswersTyped' /\ \A j \in Slots : AnswerOK(j)'
<1> DEFINE c == call[k]
<1>1. /\ config' = config /\ call' = call /\ pc[k] = "judging" /\ came \in Outcomes(c.method)
      /\ outcome' = [outcome EXCEPT ![k] = came]
      /\ answer' = [answer EXCEPT ![k] = AnswerTo(c, came)] /\ pc' = [pc EXCEPT ![k] = "answered"]
  BY DEF Finishes, Answers
<1>2. /\ pc \in [Slots -> Stages] /\ DOMAIN answer = Slots /\ DOMAIN outcome = Slots /\ AnswerOK(k)
      /\ RunsWhileServed
  BY DEF AnswersInv, AnswersTyped, ServingInv, CallTyped
<1>3. Sound(c)
  BY <1>1, <1>2 DEF AnswerOK
<1>4. c.method = "begin_reply" => streams = "serving"
  <2>1. c.at \in IsServer /\ server[c.at] = "up"
    BY <1>1, <1>2, CallsAreAtServers DEF RunsWhileServed, AnswersInv
  <2>2. c.method = "begin_reply" => c.path # "evals" /\ c.at = "main"
    BY <1>3, <2>1 DEF Sound, Methods, EvalMethods, Paths, IsServer
  <2> QED
    BY <1>2, <2>1, <2>2 DEF RunsWhileServed
<1>5. CameOf(c, came)
  BY <1>1, <1>3, <1>4, MethodsComeTo
<1>6. AnswersTyped'
  BY <1>1, <1>2 DEF AnswersInv, AnswersTyped
<1>7. AnswerOK(k)'
  <2>1. pc'[k] = "answered" /\ outcome'[k] = came /\ answer'[k] = AnswerTo(c, came) /\ call'[k] = c
    BY <1>1, <1>2
  <2>2. Sound(call[k])' /\ CameOf(call[k], outcome[k])' /\ AnswerTo(call[k], outcome[k])' = AnswerTo(c, came)
    <3>1. /\ OwnPort' = OwnPort /\ \A s : IsOn(s)' = IsOn(s)
      BY <1>1, SettingsStay
    <3>2. Sound(call[k])'
      BY <1>3, <2>1, <3>1 DEF Sound, Paths
    <3>3. CameOf(call[k], outcome[k])'
      BY <1>5, <2>1, <3>1 DEF CameOf
    <3>4. AnswerTo(call[k], outcome[k])' = AnswerTo(c, came)
      BY <2>1, <3>1 DEF AnswerTo
    <3> QED
      BY <3>2, <3>3, <3>4
  <2> QED
    BY <2>1, <2>2 DEF AnswerOK
<1>8. ASSUME NEW j \in Slots \ {k} PROVE AnswerOK(j)'
  <2>1. pc'[j] = pc[j] /\ answer'[j] = answer[j] /\ outcome'[j] = outcome[j] /\ call'[j] = call[j]
    BY <1>1, <1>2
  <2> QED
    BY <1>1, <2>1, OtherAnswersStay
<1> QED
  BY <1>6, <1>7, <1>8

LEMMA AnswersGoOn ==
  ASSUME ServingAssumption, AnswersInv, [Next]_vars
  PROVE  AnswersInv'
<1>1. /\ ServingInv' /\ config' = config /\ AnswersTyped /\ pc \in [Slots -> Stages]
      /\ call \in [Slots -> Calls \cup {NoCall}] /\ \A k \in Slots : AnswerOK(k)
  <2>1. ServingInv /\ CallTyped
    BY DEF AnswersInv, ServingInv
  <2> QED
    BY <2>1, ServingGoesOn, Configured DEF AnswersInv, CallTyped
<1> SUFFICES AnswersTyped' /\ \A k \in Slots : AnswerOK(k)'
  BY <1>1 DEF AnswersInv
<1>2. ASSUME UNCHANGED <<call, outcome, answer>>, pc' = pc \/ CutCalls
      PROVE  AnswersTyped' /\ \A k \in Slots : AnswerOK(k)'
  <2>1. AnswersTyped'
    BY <1>1, <1>2 DEF AnswersTyped
  <2>2. ASSUME NEW k \in Slots PROVE AnswerOK(k)'
    <3>1. pc'[k] = pc[k] \/ (pc'[k] = "cut" /\ pc[k] # "answered")
      BY <1>2 DEF CutCalls
    <3> QED
      BY <1>1, <1>2, <3>1, OtherAnswersStay
  <2> QED
    BY <2>1, <2>2
<1>3. CASE \/ UNCHANGED vars \/ Reads \/ ShimStarts \/ GroupStarts \/ AllStopped \/ ShimStops
           \/ \E s \in IsServer : ServerStarts(s) \/ ServerFails(s) \/ ServerStops(s)
           \/ \E signal \in Signals : Signal(signal)
           \/ \E x \in Exchanges : ExchangeOpens(x) \/ ExchangeEnds(x)
  <2>1. UNCHANGED <<call, outcome, answer>> /\ (pc' = pc \/ CutCalls)
    BY <1>3 DEF vars, callVars, Reads, ShimStarts, GroupStarts, AllStopped, ShimStops, ServerStarts,
                ServerFails, ServerStops, Signal, ExchangeOpens, ExchangeEnds
  <2> QED
    BY <1>2, <2>1
<1>4. ASSUME NEW k \in Slots, (\E c \in Calls : Arrives(k, c)) \/ Leaves(k)
      PROVE  AnswersTyped' /\ \A j \in Slots : AnswerOK(j)'
  <2>1. /\ \A j \in Slots \ {k} : /\ pc'[j] = pc[j] /\ call'[j] = call[j]
                                  /\ outcome'[j] = outcome[j] /\ answer'[j] = answer[j]
        /\ AnswersTyped' /\ outcome'[k] = "none" /\ answer'[k] = NoAnswer /\ pc'[k] \in {"sent", "free"}
    <3>1. CASE \E c \in Calls : Arrives(k, c)
      <4>1. /\ UNCHANGED <<outcome, answer>> /\ pc[k] = "free" /\ pc' = [pc EXCEPT ![k] = "sent"]
            /\ \E c \in Calls : call' = [call EXCEPT ![k] = c]
        BY <3>1 DEF Arrives
      <4>2. outcome[k] = "none" /\ answer[k] = NoAnswer
        BY <1>1, <4>1 DEF AnswerOK
      <4> QED
        BY <1>1, <4>1, <4>2 DEF AnswersTyped
    <3>2. CASE Leaves(k)
      BY <1>1, <3>2 DEF Leaves, AnswersTyped
    <3> QED
      BY <1>4, <3>1, <3>2
  <2>2. AnswerOK(k)'
    BY <2>1 DEF AnswerOK, NoAnswer
  <2>3. ASSUME NEW j \in Slots \ {k} PROVE AnswerOK(j)'
    BY <1>1, <2>1, OtherAnswersStay
  <2> QED
    BY <2>1, <2>2, <2>3
<1>5. CASE \E k \in Slots : \/ \E c \in Calls : Arrives(k, c)
                            \/ Dispatch(k) \/ Leaves(k)
                            \/ \E came \in AnyOutcome : Finishes(k, came)
  BY <1>4, <1>5, DispatchIsAnswered, FinishIsAnswered
<1> QED
  BY <1>3, <1>5 DEF Next

LEMMA AnswersInvImplies ==
  ASSUME ServingAssumption, AnswersInv
  PROVE  UnjudgedIsAnError /\ KeptFromEvals /\ TakenWhereServed
<1>1. UnjudgedIsAnError
  <2> SUFFICES ASSUME NEW k \in Slots, pc[k] = "answered"
               PROVE  /\ answer[k].kind = "result" => outcome[k] = answer[k].code
                      /\ outcome[k] \in Decisions => answer[k].kind = "result"
                      /\ call[k].method \in Judging /\ call[k].path = "proxy" /\ outcome[k] \notin Decisions =>
                           answer[k].kind \in {"error", "http"} /\ answer[k].code # "UNKNOWN_STREAM"
    BY DEF UnjudgedIsAnError, Answered
  <2>1. CASE outcome[k] = "none" /\ Rejection(answer[k])
    BY <2>1 DEF Rejection, Decisions
  <2>2. CASE Sound(call[k]) /\ CameOf(call[k], outcome[k]) /\ answer[k] = AnswerTo(call[k], outcome[k])
    <3>1. outcome[k] \in Decisions => call[k].form # "no_id"
      BY <2>2 DEF Sound, CameOf, Judging, Methods, EvalMethods
    <3> QED
      BY <2>2, <3>1, AnswersAre DEF CameOf
  <2> QED
    BY <2>1, <2>2 DEF AnswersInv, AnswerOK
<1>2. KeptFromEvals
  <2> SUFFICES ASSUME NEW k \in Slots
               PROVE  /\ config.given["eval_results"] # Unset => ~answer[k].records
                      /\ config.file["eval_results"] = "off" => ~answer[k].records
                      /\ OwnPort /\ (pc[k] = "judging" \/ outcome[k] # "none") =>
                           /\ (call[k].method \in EvalMethods) <=> (call[k].at = "evals")
                           /\ call[k].at = "evals" => call[k].bearer /\ config.token
    BY DEF KeptFromEvals
  <2>1. AnswerOK(k) /\ CallTyped /\ Early
    BY DEF AnswersInv, ServingInv
  <2>2. answer[k].records => IsOn("eval_results")
    <3>1. answer[k] = NoAnswer \/ Rejection(answer[k]) \/ answer[k] = AnswerTo(call[k], outcome[k])
      BY <2>1 DEF AnswerOK, CallTyped, Stages
    <3> QED
      BY <3>1, AnswersAre DEF NoAnswer, Rejection
  <2>3. IsOn("eval_results") => config.given["eval_results"] = Unset /\ config.file["eval_results"] # "off"
    BY DEF IsOn, Setting, Sets, Default, Settings, Unset
  <2>4. ASSUME OwnPort, pc[k] = "judging" \/ outcome[k] # "none"
        PROVE  /\ (call[k].method \in EvalMethods) <=> (call[k].at = "evals")
               /\ call[k].at = "evals" => call[k].bearer /\ config.token
    <3>1. Sound(call[k]) /\ pc[k] # "free"
      BY <2>1, <2>4 DEF AnswerOK
    <3>2. CanServe /\ config.token
      BY <2>1, <2>4, <3>1 DEF AnswersInv, ServingInv, Early, CanServe
    <3>3. call[k].at \in IsServer
      BY CallsAreAtServers DEF AnswersInv
    <3> QED
      BY <2>4, <3>1, <3>2, <3>3 DEF Sound, Paths, Methods, ProxyMethods, EvalMethods, IsServer
  <2> QED
    BY <2>2, <2>3, <2>4
<1>3. TakenWhereServed
  BY DEF TakenWhereServed, AnswersInv, AnswerOK, CameOf
<1> QED
  BY <1>1, <1>2, <1>3

-----------------------------------------------------------------------------
LEMMA ServingHolds ==
  ASSUME ServingAssumption
  PROVE  Spec => []AnswersInv
<1>1. Init => AnswersInv
  BY AnswersBegin
<1>2. AnswersInv /\ [Next]_vars => AnswersInv'
  BY AnswersGoOn
<1> QED
  BY <1>1, <1>2, PTL DEF Spec

(* A server that has stopped has told the others, the shim stops after     *)
(* them, and nothing runs once the sidecar has ended (_serve_all).         *)
THEOREM ServersStopTogether ==
  ASSUME ServingAssumption
  PROVE  Spec => []StoppedTogether
<1>1. AnswersInv => StoppedTogether
  BY ServingInvImplies DEF AnswersInv
<1> QED
  BY <1>1, ServingHolds, PTL

(* A call that was taken is cut only where a server couldn't start, and an *)
(* exchange only so, by SIGTERM or once the shim's while is up             *)
(* (_serve_all).                                                           *)
THEOREM CallsAreNotCutShort ==
  ASSUME ServingAssumption
  PROVE  Spec => []NothingIsCutShort
<1>1. AnswersInv => NothingIsCutShort
  BY ServingInvImplies DEF AnswersInv
<1> QED
  BY <1>1, ServingHolds, PTL

(* Only what was judged is answered with a decision, and what was not, with*)
(* an error that says why (_judge, _not_judged).                           *)
THEOREM UnjudgedIsAnsweredSo ==
  ASSUME ServingAssumption
  PROVE  Spec => []UnjudgedIsAnError
<1>1. AnswersInv => UnjudgedIsAnError
  BY AnswersInvImplies
<1> QED
  BY <1>1, ServingHolds, PTL

(* What is withheld from evals is not sent, what has a port of its own is  *)
(* served there alone and only with the token, and an eval registers tasks *)
(* only where evals may (eval_routes, apps, register_task).                *)
THEOREM EvalsAreKeptApart ==
  ASSUME ServingAssumption
  PROVE  Spec => [](KeptFromEvals /\ TakenWhereServed)
<1>1. AnswersInv => KeptFromEvals /\ TakenWhereServed
  BY AnswersInvImplies
<1> QED
  BY <1>1, ServingHolds, PTL
==============================================================================
