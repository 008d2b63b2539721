----------------------- MODULE SecureTunnelingFeature -----------------------
(***************************************************************************)
(* The session registry and lifecycle of SecureTunnelingFeature.cpp.       *)
(*                                                                         *)
(* Three threads act on the feature:                                       *)
(*  - the main thread calls init (LoadFromConfig), start                   *)
(*    (RunSecureTunneling) and stop, in that order;                        *)
(*  - MQTT callback threads run OnSubscribeToTunnelsNotifyResponse for     *)
(*    each delivered notification (at-least-once, so duplicates arrive);   *)
(*  - each tunnel's event loop runs OnConnectionShutdown when the tunnel   *)
(*    closes, on its own or after StopSecureTunnel.                        *)
(* mContexts is the vector of contexts, shared by all three without a      *)
(* lock.  Each vector operation is one step; the handler of a notification *)
(* is two steps, because the tunnel may close between                      *)
(* ConnectToSecureTunnel and push_back, and the range-for of stop() is one *)
(* step per element, over a position and an end fixed when it begins.     *)
(* The tunnel itself (SecureTunnelingContext, outside src/) is the         *)
(* environment: connect succeeds or fails, and an open or stopping tunnel  *)
(* may close at any time, but need not.                                    *)
(***************************************************************************)
EXTENDS TunnelResolver, Integers, SequencesExt, FiniteSets

CONSTANTS
    Ctx,            \* SecureTunnelingContext objects the run may create
    NoCtx,          \* no context
    Static,         \* origin of the context built from the config
    NoOrigin,       \* origin of a context not yet created
    Threads,        \* MQTT callback threads
    Notifications,  \* tunnel notifications the broker may deliver
    Lines,          \* outcomes of reading TCP_OPERSTATE_FILE
    MaxDeliveries,  \* bound on the deliveries of a run
    SubscribeModes  \* values config.tunneling.subscribeNotification may take

ASSUME MaxDeliveries \in Nat /\ SubscribeModes \subseteq BOOLEAN

VARIABLES
    mSubscribeNotification, \* copied from the config by LoadFromConfig
    phase,          \* where the main thread is: init, start, stop
    mContexts,      \* the vector of contexts
    tunnel,         \* the state of each context's tunnel
    origin,         \* the notification a context was built from
    worker,         \* context a callback thread has connected, not pushed
    delivered,      \* notifications delivered so far
    stopPos,        \* the range-for of stop(): current position
    stopEnd,        \*   and the end it fixed when it began
    stopTargets,    \* history: the contexts registered when stop() began
    ub,             \* an undefined operation has been executed
    subscription,   \* the broker's state of the notify subscription
    events,         \* events reported to mClientBaseNotifier, in order
    pushing         \* callback threads inside mContexts.push_back

vars == <<mSubscribeNotification, phase, mContexts, tunnel, origin, worker,
          delivered, stopPos, stopEnd, stopTargets, ub, subscription, events,
          pushing>>

(* Variables of the transport and of the notifier.                         *)
envVars == <<subscription, events>>

Phases == {"constructed", "initialized", "running", "stopping", "stopped"}
TunnelStates == {"unused", "created", "open", "stopping", "closed", "failed"}

(* The context LoadFromConfig builds in static mode.                       *)
StaticCtx == CHOOSE c \in Ctx : TRUE

Registered == ToSet(mContexts)

TypeOK ==
    /\ mSubscribeNotification \in BOOLEAN
    /\ phase \in Phases
    /\ mContexts \in Seq(Ctx)
    /\ tunnel \in [Ctx -> TunnelStates]
    /\ origin \in [Ctx -> Notifications \cup {Static, NoOrigin}]
    /\ worker \in [Threads -> Ctx \cup {NoCtx}]
    /\ delivered \in 0 .. MaxDeliveries
    /\ stopPos \in Nat /\ stopEnd \in Nat
    /\ stopTargets \subseteq Ctx
    /\ ub \in BOOLEAN
    /\ subscription \in {"none", "requested", "granted", "refused"}
    /\ events \in Seq({"FEATURE_STARTED", "FEATURE_STOPPED"})
    /\ pushing \subseteq Threads

-----------------------------------------------------------------------------
(* SecureTunnelingContext::IsDuplicateNotification (outside src/): the     *)
(* context was built from a notification with the same access token,      *)
(* region and services.                                                    *)
IsDuplicateNotification(c, n) ==
    /\ origin[c] \in Notifications
    /\ origin[c].token = n.token
    /\ origin[c].region = n.region
    /\ origin[c].services = n.services

(* Fault model of RequestRejection: the multi-port check left out.        *)
RequestRejectionNoMultiPortCheck(n, line) ==
    CASE n.clientMode # "destination"    -> "client_mode"
      [] n.services = <<>>               -> "no_service"
      [] n.token = ""                    -> "no_token"
      [] n.region = <<"">>               -> "no_region"
      [] ~IsValidAddress(GetAddressFromService(n.services[1], line))
                                         -> "address"
      [] ~IsValidPort(GetPortFromService(BaseService(n.services[1])))
                                         -> "port"
      [] OTHER                           -> "none"

(* The checks of OnSubscribeToTunnelsNotifyResponse after the duplicate    *)
(* scan, in the code's order; "none" when the request is accepted.  An     *)
(* absent optional field is represented as an empty one.                   *)
RequestRejection(n, line) ==
    CASE n.clientMode # "destination"    -> "client_mode"
      [] n.services = <<>>               -> "no_service"
      [] Len(n.services) > 1             -> "multi_port"
      [] n.token = ""                    -> "no_token"
      [] n.region = <<"">>               -> "no_region"
      [] ~IsValidAddress(GetAddressFromService(n.services[1], line))
                                         -> "address"
      [] ~IsValidPort(GetPortFromService(BaseService(n.services[1])))
                                         -> "port"
      [] OTHER                           -> "none"

-----------------------------------------------------------------------------
(* mSubscribeNotification is not read before init().                      *)
Init ==
    /\ mSubscribeNotification = FALSE
    /\ phase = "constructed"
    /\ mContexts = <<>>
    /\ tunnel = [c \in Ctx |-> "unused"]
    /\ origin = [c \in Ctx |-> NoOrigin]
    /\ worker = [t \in Threads |-> NoCtx]
    /\ delivered = 0
    /\ stopPos = 0 /\ stopEnd = 0 /\ stopTargets = {}
    /\ ub = FALSE
    /\ subscription = "none"
    /\ events = <<>>
    /\ pushing = {}

(* LoadFromConfig: without subscription it builds the context of the      *)
(* configured tunnel and pushes it.  Its address, port, token and region   *)
(* come from the config and are not distinguished by any property.         *)
LoadFromConfig ==
    /\ \E subscribe \in SubscribeModes : mSubscribeNotification' = subscribe
    /\ IF mSubscribeNotification'
       THEN UNCHANGED <<mContexts, tunnel, origin>>
       ELSE /\ mContexts' = <<StaticCtx>>
            /\ tunnel' = [tunnel EXCEPT ![StaticCtx] = "created"]
            /\ origin' = [origin EXCEPT ![StaticCtx] = Static]
    /\ UNCHANGED <<worker, pushing, delivered, stopPos, stopEnd, stopTargets, ub,
                   subscription, events>>

(* init(): keeps the CRT resource manager and the notifier (no state of    *)
(* the model), then LoadFromConfig.                                        *)
init ==
    /\ phase = "constructed"
    /\ phase' = "initialized"
    /\ LoadFromConfig

(* Fault model of RunSecureTunneling: a static context whose connect      *)
(* fails is dropped, as in notification mode.                              *)
RunSecureTunnelingDropFailed ==
    /\ phase = "initialized"
    /\ phase' = "running"
    /\ IF mSubscribeNotification
       THEN /\ subscription' = "requested"
            /\ UNCHANGED <<tunnel, mContexts>>
       ELSE /\ UNCHANGED subscription
            /\ \E connected \in [Registered -> BOOLEAN] :
                 /\ tunnel' = [c \in Ctx |->
                                 IF c \in Registered
                                 THEN IF connected[c] THEN "open" ELSE "failed"
                                 ELSE tunnel[c]]
                 /\ mContexts' = SelectSeq(mContexts, LAMBDA c : connected[c])
    /\ UNCHANGED <<mSubscribeNotification, origin, worker, pushing, delivered,
                   stopPos, stopEnd, stopTargets, ub>>

(* RunSecureTunneling.  With subscription it creates the client and        *)
(* subscribes to the notify topic at QoS 1; otherwise it connects every    *)
(* context and keeps it whatever connect returns.                          *)
RunSecureTunneling ==
    /\ phase = "initialized"
    /\ phase' = "running"
    /\ IF mSubscribeNotification
       THEN /\ subscription' = "requested"
            /\ UNCHANGED tunnel
       ELSE /\ UNCHANGED subscription
            /\ \E connected \in [Registered -> BOOLEAN] :
                 tunnel' = [c \in Ctx |->
                              IF c \in Registered
                              THEN IF connected[c] THEN "open" ELSE "failed"
                              ELSE tunnel[c]]
    /\ UNCHANGED <<mSubscribeNotification, mContexts, origin, worker, pushing, delivered,
                   stopPos, stopEnd, stopTargets, ub>>

(* start(): RunSecureTunneling, then FEATURE_STARTED is reported, before   *)
(* the outcome of the subscription is known.                               *)
Start ==
    /\ RunSecureTunneling
    /\ events' = Append(events, "FEATURE_STARTED")

(* The broker answers the subscription and the client calls                *)
(* OnSubscribeComplete(ioErr), which only logs: the feature records        *)
(* nothing, retries nothing and reports nothing.                           *)
OnSubscribeComplete(ioErr) ==
    /\ subscription = "requested"
    /\ subscription' = IF ioErr THEN "refused" ELSE "granted"
    /\ UNCHANGED <<mSubscribeNotification, phase, mContexts, tunnel, origin,
                   worker, pushing, delivered, stopPos, stopEnd, stopTargets, ub,
                   events>>

(* The broker delivers on a granted subscription.  Nothing unsubscribes:   *)
(* delivery goes on through and after stop().                             *)
CanDeliver(t) ==
    /\ subscription = "granted"
    /\ worker[t] = NoCtx
    /\ delivered < MaxDeliveries

(* OnSubscribeToTunnelsNotifyResponse returning early: an I/O error, a     *)
(* duplicate of a registered context, or a rejected request.               *)
NotifyIgnored(t, n, line) ==
    /\ CanDeliver(t)
    /\ \/ n.ioErr
       \/ \E c \in Registered : IsDuplicateNotification(c, n)
       \/ RequestRejection(n, line) # "none"
    /\ delivered' = delivered + 1
    /\ UNCHANGED <<mSubscribeNotification, phase, mContexts, tunnel, origin,
                   worker, pushing, stopPos, stopEnd, stopTargets, ub,
                   envVars>>

(* createContext: a new SecureTunnelingContext for the request.  Its      *)
(* token, region and services are those of the notification it was built   *)
(* from; the endpoint, address and port derived from them are not kept.    *)
createContext(c, n) ==
    origin' = [origin EXCEPT ![c] = n]

(* Fault model of NotifyConnect: the duplicate scan left out.              *)
NotifyConnectNoDuplicateScan(t, n, line, c, connected) ==
    /\ CanDeliver(t)
    /\ ~n.ioErr
    /\ RequestRejection(n, line) = "none"
    /\ tunnel[c] = "unused"
    /\ delivered' = delivered + 1
    /\ createContext(c, n)
    /\ tunnel' = [tunnel EXCEPT ![c] = IF connected THEN "open" ELSE "failed"]
    /\ worker' = IF connected THEN [worker EXCEPT ![t] = c] ELSE worker
    /\ UNCHANGED <<mSubscribeNotification, phase, mContexts, stopPos, stopEnd,
                   stopTargets, ub, subscription, events, pushing>>

(* OnSubscribeToTunnelsNotifyResponse for an accepted request, up to the   *)
(* push_back: createContext and ConnectToSecureTunnel.  A context whose    *)
(* connect fails is destroyed when the handler returns.                    *)
NotifyConnect(t, n, line, c, connected) ==
    /\ CanDeliver(t)
    /\ ~n.ioErr
    /\ ~\E d \in Registered : IsDuplicateNotification(d, n)
    /\ RequestRejection(n, line) = "none"
    /\ tunnel[c] = "unused"
    /\ delivered' = delivered + 1
    /\ createContext(c, n)
    /\ tunnel' = [tunnel EXCEPT ![c] = IF connected THEN "open" ELSE "failed"]
    /\ worker' = IF connected THEN [worker EXCEPT ![t] = c] ELSE worker
    /\ UNCHANGED <<mSubscribeNotification, phase, mContexts, stopPos, stopEnd,
                   stopTargets, ub, subscription, events, pushing>>

(* The handler calls mContexts.push_back: the vector is being written,    *)
(* and the new element is not there yet.                                   *)
PushBegin(t) ==
    /\ worker[t] # NoCtx
    /\ t \notin pushing
    /\ pushing' = pushing \cup {t}
    /\ UNCHANGED <<mSubscribeNotification, phase, mContexts, tunnel, origin,
                   worker, delivered, stopPos, stopEnd, stopTargets, ub,
                   envVars>>

(* Fault model of Register: the thread's context is released before it is *)
(* pushed, so a null pointer is pushed.                                    *)
RegisterAfterRelease(t) ==
    /\ t \in pushing
    /\ worker' = [worker EXCEPT ![t] = NoCtx]
    /\ mContexts' = Append(mContexts, worker'[t])
    /\ pushing' = pushing \ {t}
    /\ UNCHANGED <<mSubscribeNotification, phase, tunnel, origin, delivered,
                   stopPos, stopEnd, stopTargets, ub,
                   envVars>>

(* push_back completes: the context is the vector's last element and the   *)
(* handler returns.                                                        *)
Register(t) ==
    /\ t \in pushing
    /\ mContexts' = Append(mContexts, worker[t])
    /\ worker' = [worker EXCEPT ![t] = NoCtx]
    /\ pushing' = pushing \ {t}
    /\ UNCHANGED <<mSubscribeNotification, phase, tunnel, origin, delivered,
                   stopPos, stopEnd, stopTargets, ub,
                   envVars>>

(* What mContexts.erase(std::remove(..., *it)) leaves when find_if found   *)
(* nothing: *it reads past the end and erase(end()) is undefined; with     *)
(* libstdc++ it either leaves the vector alone or drops its last element.  *)
EraseAtEnd(s) == {s} \cup (IF s = <<>> THEN {} ELSE {Front(s)})

(* The tunnel of c closes and OnConnectionShutdown(c) runs on its thread:  *)
(* the context is located by identity and erased.                          *)
OnConnectionShutdown(c) ==
    /\ tunnel[c] \in {"open", "stopping"}
    /\ tunnel' = [tunnel EXCEPT ![c] = "closed"]
    /\ LET i == SelectInSeq(mContexts, LAMBDA x : x = c)
       IN  IF i > 0
           THEN /\ mContexts' = RemoveAt(mContexts, i)
                /\ UNCHANGED ub
           ELSE /\ mContexts' \in EraseAtEnd(mContexts)
                /\ ub' = TRUE
    /\ UNCHANGED <<mSubscribeNotification, phase, origin, worker, pushing, delivered,
                   stopPos, stopEnd, stopTargets,
                   envVars>>

(* stop(): the range-for over mContexts begins, fixing its end.            *)
StopBegin ==
    /\ phase = "running"
    /\ phase' = "stopping"
    /\ stopPos' = 1
    /\ stopEnd' = Len(mContexts)
    /\ stopTargets' = Registered
    /\ UNCHANGED <<mSubscribeNotification, mContexts, tunnel, origin, worker, pushing,
                   delivered, ub,
                   envVars>>

(* One iteration: c->StopSecureTunnel() on the element at the current      *)
(* position.  After a concurrent erase the position may be past the new    *)
(* end: the slot holds a moved-from pointer and the call is undefined.     *)
StopSecureTunnel ==
    /\ phase = "stopping"
    /\ stopPos <= stopEnd
    /\ stopPos' = stopPos + 1
    /\ IF stopPos <= Len(mContexts)
       THEN LET c == mContexts[stopPos]
            IN  /\ tunnel' = IF tunnel[c] = "open"
                             THEN [tunnel EXCEPT ![c] = "stopping"]
                             ELSE tunnel
                /\ UNCHANGED ub
       ELSE /\ ub' = TRUE
            /\ UNCHANGED tunnel
    /\ UNCHANGED <<mSubscribeNotification, phase, mContexts, origin, worker, pushing,
                   delivered, stopEnd, stopTargets,
                   envVars>>

(* The loop is over; FEATURE_STOPPED is reported without waiting.          *)
StopDone ==
    /\ phase = "stopping"
    /\ stopPos > stopEnd
    /\ phase' = "stopped"
    /\ events' = Append(events, "FEATURE_STOPPED")
    /\ UNCHANGED <<mSubscribeNotification, mContexts, tunnel, origin, worker, pushing,
                   delivered, stopPos, stopEnd, stopTargets, ub,
                   subscription>>

Next ==
    \/ init
    \/ Start
    \/ \E ioErr \in BOOLEAN : OnSubscribeComplete(ioErr)
    \/ \E t \in Threads, n \in Notifications, line \in Lines :
          \/ NotifyIgnored(t, n, line)
          \/ \E c \in Ctx, connected \in BOOLEAN :
                NotifyConnect(t, n, line, c, connected)
    \/ \E t \in Threads : PushBegin(t) \/ Register(t)
    \/ \E c \in Ctx : OnConnectionShutdown(c)
    \/ StopBegin
    \/ StopSecureTunnel
    \/ StopDone

(* A callback thread that has connected goes on to push_back, and stop()   *)
(* runs its loop to the end once called.  Nothing obliges the broker to    *)
(* deliver, a tunnel to close, even one asked to stop (spec sections 5 and *)
(* 9), or the process to be stopped.                                       *)
Fairness ==
    /\ \A t \in Threads : WF_vars(PushBegin(t) \/ Register(t))
    /\ WF_vars(StopSecureTunnel)
    /\ WF_vars(StopDone)

Spec == Init /\ [][Next]_vars /\ Fairness

-----------------------------------------------------------------------------
(* Duplicate suppression (spec section 3): at-least-once delivery never    *)
(* leaves two registered contexts built from notifications with the same   *)
(* token, region and service.                                              *)
NoDuplicateOutstanding ==
    \A i, j \in 1 .. Len(mContexts) :
        /\ i # j
        /\ origin[mContexts[j]] \in Notifications
        => ~IsDuplicateNotification(mContexts[i], origin[mContexts[j]])

(* Every registered context came from the config, or from a notification   *)
(* of the spec's valid shape (section 4.2: destination mode, exactly one   *)
(* service, a token and a region, a resolvable address and port) whose     *)
(* connect succeeded.                                                      *)
EveryRegisteredSessionWasAccepted ==
    \A c \in Registered :
        \/ origin[c] = Static
        \/ LET n == origin[c] IN
           /\ n \in Notifications
           /\ ~n.ioErr
           /\ n.clientMode = "destination"
           /\ Len(n.services) = 1
           /\ n.token # "" /\ n.region # <<"">>
           /\ \E line \in Lines :
                 /\ IsValidAddress(GetAddressFromService(n.services[1], line))
                 /\ IsValidPort(GetPortFromService(BaseService(n.services[1])))
           /\ tunnel[c] # "failed"

(* Static mode: from init on, the configured context is registered exactly *)
(* as long as its tunnel has not closed, whether or not connect succeeded. *)
StaticSessionTracked ==
    (~mSubscribeNotification /\ phase # "constructed") =>
        (StaticCtx \in Registered <=> tunnel[StaticCtx] # "closed")

(* OnConnectionShutdown removes the closing context and no other: no step  *)
(* drops a context from the registry except the one closing its tunnel.    *)
RemovesOnlyClosingContext ==
    \A c \in Registered \ ToSet(mContexts') :
        tunnel[c] # "closed" /\ tunnel'[c] = "closed"

CloseRemovesOnlyItself == [][RemovesOnlyClosingContext]_vars

(* When stop() returns, every context registered when it began that is     *)
(* still registered has been asked to stop.                                *)
StopReachesEveryRegisteredSession ==
    phase = "stopped" =>
        \A c \in stopTargets \cap Registered : tunnel[c] # "open"

(* Once stop() has been called the feature opens no further tunnel.        *)
OpensNoTunnelOnceStopped ==
    phase \in {"stopping", "stopped"} =>
        \A c \in Ctx : tunnel'[c] = "open" => tunnel[c] = "open"

NoSessionOpenedAfterStop == [][OpensNoTunnelOnceStopped]_vars

(* The steps of the other threads that read or write mContexts: the        *)
(* duplicate scan of a notification, push_back, the erase of               *)
(* OnConnectionShutdown, and stop()'s size and element reads.             *)
TouchesContexts ==
    \/ \E c \in Ctx : OnConnectionShutdown(c)
    \/ StopBegin \/ StopSecureTunnel
    \/ \E t \in Threads : PushBegin(t)
    \/ \E t \in Threads, n \in Notifications, line \in Lines :
          /\ ~n.ioErr
          /\ \/ NotifyIgnored(t, n, line)
             \/ \E c \in Ctx, ok \in BOOLEAN : NotifyConnect(t, n, line, c, ok)

(* mContexts is a plain std::vector with no lock: while a callback thread  *)
(* is inside push_back (line 343), no other thread reads or writes it.     *)
NoAccessDuringPush == [][pushing # {} => ~TouchesContexts]_vars

=============================================================================
