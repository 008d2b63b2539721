# TLA+ models of the secure-tunneling feature

These modules model `src/source/tunneling/SecureTunnelingFeature.cpp`. That file is the control
plane of the device-side secure-tunnel agent. It receives "open a tunnel" notifications over MQTT,
validates them and removes duplicates, and resolves the requested service to an address and
port. It also keeps `mContexts`, the vector of live tunnel contexts, and removes a context when
its tunnel closes. The file also launches two helper processes, a netcat listener and the dropbear SSH server. These
are modelled too. The other source file, a Device Defender integration test, is not modelled
(see *Not modelled*).

## 1. Inventory

### Components, their state and operations

| Component | State | Operations (code) |
|---|---|---|
| Service Resolver | the static maps `mServiceToAddressMap` and `mServiceToPortMap`, filled on first use | `GetAddressFromService`, `GetPortFromService`, `AppendPostfixToService` (reads the link-state file), `AddInterlakeEndpoints`, `IsValidAddress`, `IsValidPort` |
| Request Validator | none | the early returns of `OnSubscribeToTunnelsNotifyResponse` (lines 269–335) |
| Session Factory | none (reads `mEndpoint`, `mRootCa`) | `createContext`, `GetEndpoint` |
| Session Registry | `mContexts` (vector of `unique_ptr<SecureTunnelingContext>`) | `push_back` (l. 228, 343), the duplicate scan (l. 275), erase by identity in `OnConnectionShutdown`, the loop in `stop()` |
| Feature Controller | `mSubscribeNotification`, `mThingName`, `mEndpoint`, `mRootCa`, the client | `init`/`LoadFromConfig`, `start`/`RunSecureTunneling`, `stop`, `OnSubscribeComplete` |
| Tunnel session (external, not under `src/`) | connection state | `ConnectToSecureTunnel` returns success or failure, `StopSecureTunnel`, the close callback, `IsDuplicateNotification` |
| Auxiliary services | the launched `nc` and `dropbear` processes | `StartDropbearServer`, `StartNetcatListener` (never called in this file) |

### Interaction

Three kinds of thread act on the feature:

1. The **main thread** calls `init`, `start` and `stop`, in that order.
2. The **MQTT client** calls `OnSubscribeToTunnelsNotifyResponse` for each notification. It does
   this on its event loop, so notifications are delivered one at a time, at least once, possibly
   as duplicates and in any order.
3. **Each tunnel** calls `OnConnectionShutdown` through the callback bound in `createContext`.
   It does this on the tunnel's own thread when the tunnel closes: either by itself, or after
   `StopSecureTunnel`.

All three read and write `mContexts` with no lock.

`StartNetcatListener` and `StartDropbearServer` run `system()` on detached threads. Their callers
are not in this file, so the model lets any number of threads call them any number of times.

### What is hard

- A tunnel can close between `ConnectToSecureTunnel` (l. 341) and `push_back` (l. 343). The close
  callback then searches a vector that does not yet contain the context.
- `stop()` loops over `mContexts` while tunnel threads erase from it.
- Delivery is at least once, and `stop()` never unsubscribes.
- The choice of TIVA variant depends on a file read at the moment the notification arrives.
- `start()` reports FEATURE_STARTED before it knows whether the subscription succeeded.
- `StartNetcatListener` checks with `pidof nc`, launches `nc` on a detached thread, sleeps one
  second and checks again. The sleep bounds nothing. `pidof` cannot see a launch whose shell has
  not yet run `nc`, and it cannot tell a bound listener from one that is still starting.

### Correctness properties per component

- **Resolver.** Requests resolve to the address and port the spec's table gives:
  - the link line "up" selects TIVA over TCP;
  - anything else, a read failure included, selects the RS485 variant;
  - ports are looked up by the name before "_";
  - the interlake fan-out counts up from the master host;
  - the endpoint is the override if one is set, otherwise the template, with ".cn" added for
    regions that start with "cn-".
- **Validator and Factory.** Only a notification that passes every check is connected, and only
  a context whose connect succeeded is registered.
- **Registry.**
  - Two requests with the same token, region and services are never outstanding at once.
  - A close removes exactly the closing context.
  - No other thread touches the vector while `push_back` writes it.
- **Controller.**
  - Static mode registers its one context whether or not connect succeeds.
  - `stop()` asks every registered session to stop.
  - After `stop()` no new tunnel is opened.
- **Auxiliary services.** At most one `nc` holds the RS485 device file.

The hazards, each at its line, are listed in `PROJECT.json`.

## 2. Modules

| Module | Models | State / actions |
|---|---|---|
| `TunnelResolver` | lines 90–209, 329, 360–378 | Pure operators with the code's names. A service name is the sequence of its "_"-separated fields, a region the sequence of its "-"-separated fields, and an IPv4 string the sequence of its numbers. These are exactly the structures that `find("_")`, `substr(0,3)=="cn-"` and `inet_pton` inspect. The header's constants are `CONSTANTS`. |
| `SecureTunnelingFeature` | lines 38–78, 211–358, 380–394, 402–410 | Variables: `mSubscribeNotification`, `phase` (where the main thread is), `mContexts` (a sequence of context ids), `tunnel` (each context's tunnel state), `origin` (the notification each context was built from), `worker` (a context connected by the callback thread and not yet pushed), `delivered`, the stop loop's `stopPos`/`stopEnd`, a history variable `stopTargets`, `ub` (an undefined operation was executed), the broker's `subscription` state, the notifier `events` reported so far, and `pushing` (callback threads inside `push_back`). Actions: `init` (`LoadFromConfig`), `Start` (`RunSecureTunneling`, then FEATURE_STARTED), `OnSubscribeComplete`, `NotifyIgnored` (every early return), `NotifyConnect` (`createContext` and connect), `PushBegin` and `Register` (push_back), `OnConnectionShutdown`, `StopBegin`, `StopSecureTunnel` (one loop iteration), `StopDone` (FEATURE_STOPPED). It EXTENDS `TunnelResolver`. |
| `AuxiliaryServices` | lines 164–201 | Variables: `nc` (the state of each launched process: forked, starting, listening, exited; a slot of `Slots` is a process table entry reused after exit), `pc` and `mine` (each caller's place in `StartNetcatListener` and its launch), `reported` (what the call logged of each launch), `dropbear` and `scripts` (init-script threads not yet run). Actions: `PidofCheck`, `Launch` (thread and sleep), `Verify` (second pidof and log), `StartDropbearServer`, and as environment `Exec`, `Bind`, `Serve`, `DropbearScript`, `DropbearExit`. |
| `MCResolverValues` | — | Values for the header constants, shared by the MC modules. |
| `MCTunnelResolver` | — | The inputs as state, including the master host number and the endpoint setting. The resolver is instantiated with those two as parameters (`R == INSTANCE TunnelResolver WITH ...`). It also holds a reference written from spec §4.1, §4.2 and §4.4. |
| `MCAuxiliaryServices` | — | The module as the configuration instantiates it. |
| `MCSecureTunnelingFeature` | — | The set of notifications: two accepted ones and one for each early return. |

Modelling choices tied to the code:

- **The handler takes three steps.** The tunnel thread can run between connect and `push_back`,
  so `NotifyConnect` is a separate action. `push_back` itself is not atomic either: `PushBegin`
  starts the write, and `Register` puts the element in place. `pushing` holds the threads between
  the two. The outcome of a racing access is not modelled. The property `NoAccessDuringPush`
  flags the race itself.
- **The `stop()` loop takes one step per element.** A range-for fixes `end` when it starts and
  walks a position, and an erase on another thread shifts later elements into the slots already
  visited. The model keeps this as a position (`stopPos`) and a fixed end (`stopEnd`).
- **Undefined behaviour is modelled as a choice.** In `OnConnectionShutdown`, dereferencing and
  erasing `end()` is undefined. With libstdc++, `erase(end())` decrements the finish pointer. The
  model therefore offers two outcomes for a non-empty vector: it is unchanged, or it loses its
  last element. On an empty vector, `erase(end())` moves the finish pointer below the start and
  destroys memory before the buffer. The model records this only by setting `ub` and leaves the
  vector unchanged; what follows is not modelled. Calling `StopSecureTunnel` through the
  moved-from slot past the new end also sets `ub`. No property reads `ub`. The faults the runs
  show come before the undefined step or do not depend on its outcome.
- **The `stop()` loop reads the current vector.** If a `push_back` reallocates while the loop
  runs, the code's iterators dangle. The model reads the new buffer instead.
- **Notifications are accepted in both phases.** Delivery continues during and after `stop()`,
  because nothing unsubscribes.
- **The tunnel is the environment.** Connect succeeds or fails. An open or stopping tunnel may
  close at any time, and need not. A failed context gets no callback.
- **The broker is the environment.** `start()` requests the subscription. The broker grants or
  refuses it and the client calls `OnSubscribeComplete`, which only logs. Notifications are
  delivered only on a granted subscription.
- **Ports are not carried in the feature state.** The port of a context, and the `uint16_t`
  cast of the static port in `LoadFromConfig`, are not modelled. The config loader outside
  `src/` decides which ports reach the cast, and no property tells ports apart. The resolver's
  port map is modelled in `TunnelResolver`.
- **Processes are the environment.** A launched `nc` goes from forked to starting (the shell has
  opened the device file and `nc` runs; `pidof` now sees it), then to listening, unless its bind
  fails because another `nc` listens. It exits after its one connection (`nc -l`). The shell may
  also fail before `nc` runs. `sleep(1)` is not a bound on any of these steps, so the caller's
  second check may fall anywhere among them.
- **`start()` and `stop()` include their notifier calls.** `Start` is `RunSecureTunneling` followed
  by FEATURE_STARTED. `StopDone` reports FEATURE_STOPPED.

## 3. Runs

| Run | Expect | Checks | Shows |
|---|---|---|---|
| `resolver` (`MCTunnelResolver.cfg`) | pass | `ResolutionAgreesWithSpec` | 12 services × 5 link-read outcomes × 4 regions × master hosts {6, 254} × {no endpoint, an override} (960 states) agree with the spec's table. The override is used verbatim, `TIVA_1` resolves to host 255 under master 254, and `TIVA_2` (host 256) is rejected. |
| `feature` (`MCSecureTunnelingFeature.cfg`) | pass | `TypeOK`, `NoDuplicateOutstanding`, `EveryRegisteredSessionWasAccepted`, `StaticSessionTracked` | Both config modes, granted and refused subscriptions, with one callback thread: at-least-once redelivery never registers a duplicate (the l. 275 scan), only accepted and connected requests are registered, and the static context stays registered exactly until it closes. 46,024 states, every action fired, including the undefined-behaviour branches. |
| `close_before_register` | violation | `CloseRemovesOnlyItself` | c1 is registered. c2 connects, then closes before its push_back. The callback finds nothing, `erase(end())` drops c1, and the closed c2 is registered afterwards. |
| `stop_skips` | violation | `StopReachesEveryRegisteredSession` | c1 and c2 are registered. stop() stops c1, c1 closes and is erased, and c2 moves into slot 1. The loop continues at slot 2, past the end, and c2 stays open. |
| `notify_after_stop` | violation | `NoSessionOpenedAfterStop` | A notification delivered after stop() opens a tunnel. |
| `push_race` | violation | `NoAccessDuringPush` | With one callback thread: a context connects, `push_back` begins, and its tunnel closes. `OnConnectionShutdown` runs `find_if`/`erase` on the vector during the write. |
| `aux_duplicate_listener` | violation | `DeviceOpenedOnce` | One caller. Its first launch is still forked at the check and is logged as failed. The next call's `pidof` sees nothing and launches again. Both shells open the RS485 device. |

Each property of a passing run has a mutant in `PROJECT.json`. A mutant is a plausible fault in
the mapped operator, and TLC reports it under the run's config:

- a dropped duplicate scan;
- a dropped multi-port check;
- a static context dropped on a failed connect;
- a push after release;
- a link test written as `!= "down"`;
- the endpoint override ignored.

**Bounds.**
- 3 contexts, 1 callback thread, 4 deliveries, and the link-read outcomes {no file, "up", "down"}.
- Every bug above needs 2 contexts and at most 3 deliveries. The third context and the fourth
  delivery leave room for a duplicate to arrive while two sessions are live, and for a
  notification after stop.
- One callback thread matches the MQTT client's single event loop, which delivers one
  notification at a time. Two handlers never run at once, so no run uses two.
- `aux_duplicate_listener` needs one caller and two process slots.

**Fairness.** Only what the code or the transport guarantees:
- weak fairness for `PushBegin` and `Register` (the callback thread finishes its handler);
- weak fairness for `StopSecureTunnel` and `StopDone` (stop() runs its loop to the end);

Delivery, closes (even of a tunnel asked to stop: spec §5 and §9 accept a session that never
closes) and the call to `stop()` are not fair. No run states a liveness property: nothing the
code does is promised to happen unless an unfair actor acts. Deadlock checking is off
for the feature, because the real process idles indefinitely once no notification arrives.
`AuxiliaryServices` assumes no fairness and keeps deadlock checking on: a launched process can
always progress, and an idle caller can always call again.

## 4. Findings

1. **Close before register** (code bug, l. 341–343, 405–409). See the run above. Spec §3 says a
   removal that finds nothing is a no-op.
2. **Stop skips sessions** (code bug, l. 70–73). There is no lock on the registry, which spec §5
   requires.
3. **Notifications after stop** (spec/code divergence, l. 67–78). The spec makes Stopped
   terminal, but the code keeps creating tunnels.
4. **Unlocked push_back** (code bug, l. 343). The vector is written while tunnel threads
   search and erase it.
5. **Duplicate netcat** (code bug, l. 175–181). `pidof` and the launch are not atomic, and a
   launch not yet exec'd is invisible. A repeated call after a failure log launches a second `nc`,
   and both hold the serial device open until the second one's bind fails.

All of them occur with the client's single callback thread. Finding 5 needs a single caller.

A refused subscription is only logged after FEATURE_STARTED (l. 347–358). The code's TODO at
l. 356 and spec §9 already record this, so no run restates it.

## 5. Not modelled

- The dropbear daemon beyond running or stopped. `StartDropbearServer` logs "started" before its
  thread has run the script. No property is stated about it, because the function has no check
  to be wrong.
- The Device Defender integration test. It is a gtest of another feature. `SetUp`, `TearDown`
  and each poll are calls to the cloud API. Its only state is a countdown: `waitTime` starts at
  `WAIT_TIME` = 1300 and drops by `INTERVAL` = 30 after each unsuccessful poll. That allows 44
  polls and 1,320 s of sleep, while the comment says "10 minutes 30 seconds". The disagreement is
  arithmetic and needs no model checker, so it is recorded here and not checked.
- The `DISABLE_MQTT` build, in which `OnConnectionShutdown` raises SIGTERM (l. 411–414). What SIGTERM does is decided by the process's signal handler, which is outside these files.
- What a racing vector access does. The race is flagged (`NoAccessDuringPush`), but its
  outcome, a dangling iterator into a reallocated buffer, is not modelled.
- The lazy fill of the static maps (l. 102–109, 124–128). With the one callback thread the fill
  finishes before the first lookup returns, and nothing else reads the maps, so the model uses
  the complete tables.
- The `uint16_t` cast of the static port (l. 226). The config validation before it is outside
  `src/`, so which ports reach it is not known here.
- The result of the netcat check after `sleep(1)`. Spec §4.5 and §9 call it best-effort, so no
  property says what it should report. Its consequence that matters, a second launch, is
  checked by `DeviceOpenedOnce`.
- The close of a stopped session. Spec §5 and §9 accept that it may never come, so no liveness
  property about the registry emptying after `stop()` is stated.
- The link state read at l. 148 is taken per notification, as spec §4.1 prescribes. A session
  keeps the variant it was resolved to. No property is stated about the link changing later,
  because the code is not meant to react to it.
- **Registry refinement.** An abstract registry after spec §4.3 and §4.5 (atomic
  add-if-not-duplicate, remove exactly the closing session, stop-all, Stopped terminal) was not
  checked as a refinement. Each of findings 1–3 breaks it in notification mode, in every
  configuration with a delivery and a close. Static mode alone refines it but has only 18
  states. Each of those three faults is checked instead by its own property.

## 6. Further work

1. **Static-mode endpoint.** Carry the context's endpoint (`GetEndpoint` at l. 224 and l. 390)
   and relate it to the override in the feature model.
2. **Destruction.** Model the defaulted destructor after `stop()`, and the callbacks that
   still arrive (the stale-state hazard at l. 40).
