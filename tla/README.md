# TLA+ models of goby3's middleware and modem drivers

This directory holds TLA+ models of the parts of goby3 under `src/` that
have state and concurrency the TLC model checker can explore. Each model is
translated from the C++ source. `PROJECT.json` has the machine-readable
inventory:
- components;
- runs, each with its cfg and expected result;
- mutants;
- the definition-to-source map;
- findings;
- hazards.

## The system and how its parts interact

- **Transport layers.** goby3's transport layers are nested.
  - The interthread layer is a process-wide store of subscriptions, keyed
    by (scheme, type, group) (`middleware/transport/interthread.cpp`).
  - The interprocess layer sits above it. An `InterProcessForwarder`
    (`middleware/transport-interprocess.h`) lives in every thread of a
    process except the one that runs the `InterProcessPortal`.
  - The forwarder publishes each value locally, and also sends it as
    `forward_group_` data to the portal.
  - A subscription registers the handler locally. It also sends the portal
    a subscription descriptor, whose relay lambda republishes data that
    arrives from other processes into the local store.
  - Regex subscriptions go the same way. Their data returns on
    `regex_group_` and is posted to every regex subscription of the
    forwarder.
  - The portal, the ZeroMQ manager and the other process are not under
    `src/`. They are modelled from `spec.md` (4.3, 4.4, 6) as the
    environment.
- **MAVLink marshalling** (`middleware/marshalling/mavlink.h`).
  - A process-wide `MAVLinkRegistry` maps msgid to CRC_EXTRA, under a
    mutex.
  - `SerializerParserHelper` serializes a message into a MAVLink frame.
    It parses a byte range by feeding it, byte by byte, to the MAVLink
    framer, which takes the CRC_EXTRA from the registry.
  - The serial gateway application uses both.
- **Acoustic modem drivers** are called by a MAC.
  - `BenthosATM900Driver` (`acomms/modemdriver/benthos_atm900_driver.cpp`)
    drives a serial modem through a state machine (`benthos::fsm`, not under
    `src/`). It starts up and shuts down with polling loops. It turns
    received transmissions into acks and signals.
  - `UFldDriver` (`moos/moos_ufield_sim_driver.cpp`) simulates a modem over
    a MOOSDB. The uField toolbox routes its messages to other nodes and
    answers range requests.

## Modules

| Module | Models | State (code) | Actions (code) |
|---|---|---|---|
| `InterThread` | the subscription store | `store` (`stores_`), per-entry `inbox` queues, `received` handler history | `Subscribe`, `Publish` (to the entries of other threads: `PeerAudience`), `Handle` (poll running one handler) |
| `PubSubDelivery` | the abstract delivery contract of spec.md 3, 4.2, 4.4, 5 | `subs` (subscriptions and the keys they accept), `issued` (publications per publisher), `got` (each handler's calls) | `Subscribe`, `Issue`, `Deliver` (one publication to a set of handlers) |
| `InterProcessForwarder` | forwarder + portal + a remote peer; INSTANCEs `InterThread`, and `PubSubDelivery` as its refinement target | `portalQ` (`forward_group_` traffic), `regexSubs`, `regexInbox`, portal descriptors, remote queue `toRemote` | `PublishDynamic` (`publish_dynamic`'s `_publish`) and `PublishLocal` (its `inner_.publish_dynamic`), two steps with `inPublish` between them, `SubscribeDynamic` (+`_subscribe`), `SubscribeRegex`, `ReceiveRegexDataForwarded`, `HandleData` (poll); environment: `PortalForwardData`, `PortalForwardSubscription`, `RemotePublish`, `PortalReceive` |
| `MAVLinkRegistry` | `MAVLinkRegistry` with concurrent threads | `entries` (`entries_`), `owner` (the mutex), per-thread `pc`, `pending` dialects, `todo` entries | `CallRegister`, `CallGetMsgEntry` (the unlocked `empty()` read), `RegisterLock`/`RegisterInsert`/`RegisterUnlock` (the lock_guard and the insert loop), `Lookup` |
| `MAVLinkParse` | `serialize`, the `parse` loop and the typed tuple parse | `sent`/`following` (the messages serialized into the range), `c` (the iterator), `fs` (framer status), `msg`, `actualEnd`, `done` | `StepIncomplete`, `StepFramed`, `StepBadFrame`, `Exhausted`; `FinalizeMessage` (tuple serialize), `SendBuffer` (raw serialize, lines 89-96), `Serialize`, `FramedMsg` and `TupleParse` (lines 199-214) are operators |
| `BenthosATM900Driver` | the Benthos driver and its modem | `phase` (where startup/shutdown/running is), `i` (startup's counter), `fsm` (abstract FSM state), `modemIn` (lines from the serial port), `outbox`/`wire` (`out_` and what was written), `handled` | `Startup`, `StartupPoll`, `StartupReady`, `Poll`/`DoWork`, `InitiateTransmission`, `Shutdown`, `ShutdownPollReady`, `ShutdownLowPower`, `ShutdownPollLowPower`, `ShutdownClose`; modem: `ModemAnswer`, `ModemDeliver`, `ModemHangs` |
| `UFldDriver` | three nodes each running a `UFldDriver`, with the MOOSDB and uField | `phase`, `connected`, `lastDest` (`last_ccmpc_dest_`), `mailbox` (MOOS mail), `air` (routed messages), `rangeReqs`, `signalled`, `replies` | `Startup`, `StartupConnected`, `Shutdown`, `InitiateData`, `ccmpc`, `DoWork` (mail, then range reports); environment: `MoosConnect`, `Deliver`, `UFieldRoute` (may lose a message), `UFieldRange` |

Each `MC_*.tla` module gives the model values and small sets that its cfgs
use.

- **Action granularity.** An action covers a whole handler, including the
  sends, sorts and signals it makes. Steps that another thread can
  interleave with are split only where the code releases a lock or waits:
  - the registry's lock, insert loop and unlock;
  - the forwarder's separately locked forward and local publish;
  - the drivers' poll loops.
- **Data.** Data is abstracted to model values:
  - a payload is a publisher/sequence-number pair;
  - a MAVLink payload is a short sequence of small bytes;
  - a modem transmission is a record of type, source, destination, ack
    flag and frame range.
- **Spec-modelled definitions.** Some code is not under `src/`: the
  interthread store's behaviour, the portal, the MAVLink framer's
  checksum, and the Benthos FSM. Definitions for it are taken from
  `spec.md` and marked `spec_modelled` in the map.

## Runs

| Run | Expect | What it shows |
|---|---|---|
| `fwd_local` | pass | Two threads, two groups and a remote peer. The forwarder with its portal implements `PubSubDelivery` (`ImplementsPubSub`, a refinement mapping `got <- received \o regexReceived`, `subs <-` the store and the regex subscriptions). So typed and regex handlers only see data of keys they accept, published before, in per-publisher order. Each local publication reaches each earlier subscription of another thread exactly once, and none of the publishing thread's own (`LocalNoLossNoDuplicate`). All queues drain (`EventuallyDrained`). A peer publication made once the portal holds a subscription's descriptor reaches that handler (`RemoteDelivered`). |
| `fwd_transient` | violation | `NoCrossTalk`. The relay lambda captures the `Group` by reference (line 142). With a temporary `Group`, data relayed later reaches a handler of another group. |
| `fwd_dup` | violation | `HandlersAtMostOnce`. Two subscriptions to one group give two portal descriptors, and each republishes to every subscriber, so each handler gets a remote value twice. The property also covers regex handlers, which two regex subscriptions duplicate the same way on `regex_group_` (lines 166, 189). TLC reports the typed trace. |
| `parse` | pass | Through the typed tuple parse, `parse(serialize(m))` gives back `m`'s sysid and packet (the wire drops trailing zeros, the typed parse reads them back as zeros), with noise before and after the frame or another frame after it (`RoundTripValue`). `parse` always returns (`Terminates`). |
| `parse_consumed` | violation | `RoundTripConsumed`. `actual_end = c` (line 123) reports one byte fewer consumed than the frame. |
| `parse_skip` | violation | `FollowingFrameKept`. A frame of a msgid the registry lacks fails its CRC; `fail:` sets `actual_end = bytes_end` (line 158), so a valid frame after it in the same range is consumed unseen. |
| `registry` | pass | Two threads and a user dialect that contains the common messages. Whatever the racy `entries_.empty()` read returns, every lookup of a default msgid succeeds (`DefaultDialectsKnown`), and every call returns (`CallsReturn`). |
| `registry_standalone` | violation | `DefaultDialectsKnown`. A dialect without the common messages, registered before the first lookup, suppresses the defaults for good (line 70). |
| `benthos` | pass | A modem that may hang. Startup returns, through Ready or its timeout (`StartupReturns`). |
| `benthos_shutdown_hang` | violation | `ShutdownReturns`. Shutdown's loops (lines 97, 105) have no timeout. |
| `benthos_startup_ready` | violation | `StartupFailsOnlyUnready`. The modem's READY is read by the `do_work` of the iteration that reaches the timeout; `++i` and the timeout test (line 87) follow without looking at the FSM, so startup throws `STARTUP_FAILED` with the FSM in Ready. |
| `ufld` | pass | Three nodes over a lossy uField. Polled DATA carries the polled node's queue and goes to the requested destination (`DataFromInitiated`). `last_ccmpc_dest_` is one slot with no timeout, and reports of an older request can arrive after a newer ping. Even so, a node never signals more replies for a target than pings it sent to that target (`RepliesAtMostPings`). |

Each property of a pass run has a mutant in `PROJECT.json`: a plausible bug
in the mapped definition that TLC must catch. Examples include a handler
that does not pop its queue, a lookup that skips the defaults, an ack
range that includes the end, and a startup loop that does not count.

## Bounds

- **Forwarder:** 2 threads, 2 groups, one scheme and 2 subscriptions.
  One local thread publishes twice and the remote peer once. That is
  enough for:
  - two subscribers of one group or of two groups;
  - a regex subscription;
  - a peer publication before and after the portal holds the descriptor;
  - a local sequence whose order survives the store, the portal and
    `regex_group_`.

  The peer's own order rests on the FIFO link to the portal, so a second
  peer publication adds states (2.7M, over 6 minutes) but no new case.
  A second local publisher (t2) would interleave two split publishes, but the run then takes over 15 minutes. Two threads still interleave in every other way: t2 subscribes and polls while t1 is between its forward and its local publish. The run reaches 299k states in under a minute.
- **Parse:** byte values 0..3 with 3 as the start marker; payloads of up
  to 2 bytes; one noise byte; msgid 3 is unknown to the registry. This covers noise, a frame, a bad-CRC frame, two frames back to back and truncation.
- **Registry:** 2 threads, 2 calls each. This is the smallest setting
  where one thread's insert races with another's `empty()` read.
- **Benthos:** start timeout 1 s at 2 polls a second. The loop throws
  in its 4th iteration (i = 4, 4 / 2 = 2 > 1), so the modem can answer
  before the first, in any of the middle ones or in the last. Up to 2
  received transmissions with frame starts 0/1 and up to 2 frames; one
  outgoing transmission.
- **uFld:** 3 nodes, because a third-party poll needs a poller, a polled
  node and a destination. One initiate call and two pings. Two pings are
  the fewest for which a report of the older request can meet the
  newer ping. The run reaches 3.9M states in under 2 minutes.

## Fairness

Fairness is weak fairness throughout.
- **Poll loops.** Every driver and forwarder loop the code runs
  unconditionally gets weak fairness: `poll`, `do_work`, and the startup
  and shutdown loops.
- **Calls in progress.** A thread inside a registry call, or between
  the two steps of `publish_dynamic`, keeps running.
- **Environment.** The environment gets fairness only where the run
  assumes it behaves: the portal processes its queue; a responsive modem
  answers; the MOOSDB connects and uField routes.
- **No fairness.** Application calls (publish, subscribe,
  `handle_initiate_transmission`) get none.

## Not modelled

The following are not modelled:
- `ModemIdConvert`, the MOOS plugin translator, frontseat `convert.h` and
  `acomms.h`: declarations only.
- `SerialClient`: port I/O.
- The serial gateway application: thread launch and configuration.
- The linebasedcomms and app-config tests: socket I/O and parsing.
- In `mavlink.h`: the `type_name`/`scheme` overloads, which are pure
  functions of the type. The DataType wrappers (lines 218-245) only
  forward to the tuple versions with sysid = compid = 1.
- The uint64 time cast in the uFld range report (line 262). The model
  does not keep report times.
- The `multi_thread_app1` test. It rests on the manager's hold with
  required clients (`hold_state`, `ready`), outside `src/`. What it
  shows of the interthread store is modelled: its Rx thread republishes
  on `widget2` every widget it handles (lines 102-105), which only works
  if a publication never comes back to the publishing thread's own
  subscriptions, so `InterThread.Publish` skips them.

## Plan

1. Model a forwarder being destroyed while the portal still holds its
   descriptors. The forwarder has no destructor that withdraws them, so
   their relay lambdas would outlive it. Thread teardown happens in
   `MultiThreadApplication`, which is not under `src/`.

A streaming parse across chunk boundaries needs no model of its own.
`parse` keeps its framer state in locals (lines 108-111), so a frame cut
off at `bytes_end` is dropped with the range (`Exhausted` sets
`actual_end = bytes_end`). The `parse` run already covers that case with
truncated ranges.
