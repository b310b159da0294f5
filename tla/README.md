# Formal models of the gossip comm layer

This directory holds TLA+ models of `src/gossip/comm/comm_impl.go`, the
communication layer of gossip. TLC checks the models on small instances and
TLAPS proves theorems about them for every instance. The
natural-language description is `spec.md` at the repository root.

## 1. The system and its parts (inventory)

| Part | Code | State | Operations | Modelled in |
|---|---|---|---|---|
| Comm facade lifecycle | `comm_impl.go` 67-117, 220-253, 305-378, 524-530 | `stopping`, `subscriptions`, `exitChan` (1 slot), `deadEndpoints` (100 slots), `stopWG`, the Serve goroutine, one bridge goroutine per `Accept` | `Stop`, `Accept` and its bridge loop, `Send`/`sendToEndpoint`, `disconnect`, `PresumedDead` | `CommLifecycle` |
| Session management | `comm_impl.go` 162-253, 344-347, 481-530; the connection store (`conn.go`) is not in the sources and is modelled from spec §4.4 | `pki2Conn`, per-PKI-ID dial latch, store shut down, each connection open/closed, service loops | `getConnection`, `createConnection`, `onConnected`, the `GossipStream` service and deferred teardown, `closeByPKIid`, `CloseConn`, `shutdown` | `ConnStore`, refining the abstract `SessionMap` |
| Handshake engine | `comm_impl.go` 278-303, 395-479, 532-566, 568-585, 593-642 | own TLS hash, `skipHandshake`, the identity mapper; during the read of the reply, a reader goroutine, `incChan` and `errChan` (1 slot each) and a ticker | `authenticateRemotePeer`, `readWithTimeout`, `createConnectionMsg`, the expected-PKI-ID checks of `createConnection` and `Handshake` | `Handshake` (decision), `HandshakeRead` (the read and its timeout) |
| Channel demultiplexer | not in the sources (spec §4.2) | one bounded generic channel per subscriber, closed flag | `AddChannel`, `DeMultiplex`, `Close` | part of `CommLifecycle` |
| Connection (`conn.go`) | not in the sources (spec §4.3) | send buffer, service loop | `send`, `serviceConnection`, `close` | abstracted in `ConnStore` |
| Envelope codec, identity mapper | protobuf / interfaces elsewhere | | `Sign`, `Verify`, `Put` | not modelled: a signature is the pair (signer, payload), and `Put` accepts a certificate only under its own PKI-ID |
| `docker-compose-no-tls.yaml` | deployment config | | | not modelled: it is the `localTLS = FALSE` initial states of `Handshake` |

How the parts interact:
- `Stop` sets `stopping`, stops the gRPC server (this ends the Serve
  goroutine), shuts the connection store down, puts one token into
  `exitChan`, closes the demultiplexer, closes every subscription channel
  and waits on `stopWG`.
- Each `Accept` bridge moves messages from its demultiplexer channel to the
  subscriber's channel. It exits when the generic channel is closed (the
  nil type assertion panics and `recover` absorbs the panic), when its send
  hits a closed channel (another recovered panic), or when it takes the
  exit token, which it puts back for the next bridge.
- `sendToEndpoint` asks the store for a connection. The store dials
  through `createConnection`, and the dial runs the handshake. On failure
  it calls `disconnect`, which writes `deadEndpoints` and closes the
  session.
- Inbound streams run the handshake and `onConnected`, then service the
  connection. On exit, their deferred teardown calls `closeByPKIid`.

The hard behaviours:
- check-then-act on `stopping` (in `Stop`, `Accept`, `disconnect` and
  `createConnection`);
- `WaitGroup.Add` inside the goroutine;
- blocking channel sends and panics that are recovered;
- dials and inbound streams for the same peer racing each other;
- teardown that uses a PKI-ID captured earlier;
- an attacker that replays captured handshake signatures;
- a handshake read that races a ticker, with a reader goroutine that can
  outlive the call.

PROJECT.json `hazards` lists each of these at the line where it bites.

## 2. Modules

Each goroutine of the code is a process in the model, with its own program
counter. A step is the code between two points where another goroutine can
observe or block it: atomic loads and stores, lock sections, channel
operations and WaitGroup calls. Every action's comment names the lines it
translates, and PROJECT.json `map` lists them all.

- **`CommLifecycle`** models the facade.
  - `Stop` is seven actions, one per statement, in the code's order:
    `StopCall` (the Load at 358), `StopStore` (361), `StopShutdown`
    (364-371), `StopExit` (372), `StopClosePublisher` (373), `StopEmpty`
    (349-355), and `StopWait` and `StopWake` (377).
  - `stopWG` is a `sync.WaitGroup` with its real protocol: the counter
    `wg`, the number of `waiters` asleep in `Wait` and the pending
    releases `sema` of its semaphore. `StopWait` returns at once on a
    zero counter, or registers as a waiter and sleeps. `WGDone` (every
    `Done()`) resets the state and releases the waiters when the counter
    reaches 0. `StopWake` re-reads the state after waking and panics if
    an `Add(1)` came in between ("WaitGroup is reused before previous
    Wait has returned"). `BridgeStart` is `Add(1)`, with Add's own
    misuse panic.
  - `Accept` is three actions (`AcceptAdd`, `AcceptCheck`,
    `AcceptRegister`). Its bridge goroutine is six: `BridgeStart` is the
    `Add(1)`, and `BridgeRecvMsg`, `BridgeRecvClosed`, `BridgeRecvExit`,
    `BridgeReput` and `BridgeSend` are the select cases with their
    recovered panics.
  - Each sender is `SendCall`, `SendCheck`, `SendGet`, `DisconnectCheck`
    and `DisconnectWrite`.
  - A channel is a state (`none`, `open`, `closed`) plus a buffer count.
  - Closing a closed channel, and the two WaitGroup panics, set
    `panicked` (an unrecovered panic), after which nothing runs.
  - The subscribers (`Consume`), the reader of `PresumedDead`
    (`DrainDead`) and the remote peers (`DeMultiplex`) form the
    environment.
- **`ConnStore`** models session management.
  - A connection is named after the goroutine that creates it. Its
    PKI-ID (`ConnID`) is what the handshake of its stream returned.
  - A dialer goes `SendToEndpoint`, `GetConnLock`, `GetConnCheck`,
    `CreateConnection`, `GetConnCommit`, `ConnSend`, then `Disconnect`
    (the `stopping` check of 525) and `DisconnectWrite` (the blocking
    write to `deadEndpoints` at 528 and `closeByPKIid`); `DrainDead` is
    the reader of `PresumedDead`.
  - `CreateConnection` fails, succeeds, or hangs: `Ping` at line 182 is
    called with `context.Background()`, so a peer that never answers
    keeps the dialer in `hung`, holding the dial latch, for good.
  - An inbound stream goes `GossipStreamAuth`, `OnConnected`,
    `ServiceEnd`, `StreamTeardown`.
  - `CloseConn`, `StopSet` and `StoreShutdown` are the facade calls.
  - The store's own operations (the getConnection latch and commit,
    onConnected's refusal, closeByPKIid, shutdown) come from spec §4.4
    and are marked `spec_modelled` in the map.
- **`Handshake`** models identity authentication.
  - `Authenticated(e, obs)` is `authenticateRemotePeer` run by the local
    instance on a received envelope `e` over a stream whose remote TLS
    certificate hash is `obs`.
  - `ConnMsg` is `createConnectionMsg` with the signer choice of lines
    403-414.
  - Honest peers run the same code (`HonestInbound`, and the local
    instance's `LocalDials`).
  - The attacker has its own key and certificate. It collects the
    signatures that honest peers send it (`HonestMeetsAttacker`). It can
    send any envelope built from its own signature, no signature, or a
    captured one (`AttackerInbound`, and `LocalDials` to the attacker).

- **`HandshakeRead`** models the read of the handshake reply.
  - The caller is `CallerSend` (the `stream.Send` of line 419, whose
    error is ignored: the envelope only arrives if the stream works),
    `CallerSpawn` (the channels and the reader goroutine), the three
    select cases `SelectTimeout`, `SelectMsg`, `SelectErr`, and
    `CallerClose`: after a failure the stream is torn down (`cc.Close()`
    at line 216 for a dial, the handler returning at 482-485 for an
    inbound stream).
  - The reader goroutine is `ReaderRecv` (one `Recv`, then
    `ToGossipMessage`; a `Recv` error sends nothing), `ReaderPutMsg` and
    `ReaderPutErr`. `IncCap` and `ErrCap` are the buffer sizes of lines
    533-534.
  - `Tick` is the ticker firing. The remote peer (`PeerSend`: its
    ConnEstablish, good or malformed, then gossip once it has ours) and
    the transport (`Break`) are the environment.
  - The model is one call, so it stops when the call is over; the cfgs say
    `CHECK_DEADLOCK FALSE`, and `CallerReturns` and `ReaderExits` are
    what require the call and its reader to get there.
- **`SessionMap`** is the abstract contract of the store (spec §4.4):
  `Open(p, c)` files a connection that was never a session under a PKI-ID
  without one, `Close(p)` and `CloseAll` remove sessions. `ConnStore`
  instantiates it as `SM == INSTANCE SessionMap WITH sess <- store,
  used <- serviced` and states `SessionMapSpec == SM!SMSpec`.
- **`HandshakeReply`** is the abstract contract of `readWithTimeout`
  (spec §4.5): `Hello(k)` is the peer's ConnEstablish, good or malformed;
  `Return(r)` happens once, with `msg` only after a good one and `err`
  only after a malformed one, `timeout` always. `HandshakeRead`
  instantiates it as `RR == INSTANCE HandshakeReply WITH reply <- result,
  first <- FirstEnvelope`, where `FirstEnvelope` is the head of what the
  peer sent, and states `ReplySpec == RR!ReplySpec`.

The MC modules (`MCCommLifecycle`, `MCConnStore`, `MCHandshake`,
`MCHandshakeRead`) declare
model values and give the constant sets and functions. `ConnStoreProofs`,
`HandshakeProofs`, `HandshakeReadProofs` and `CommLifecycleProofs` hold
the TLAPS proofs.

## 3. Runs

| Run | cfg | Expect | What it shows |
|---|---|---|---|
| lifecycle | `CommLifecycle.cfg` | pass | The instance has two subscribers, one failing sender, one Stop and up to two demultiplexed messages (about 150k states). `TypeOK`, whose `wg \in Nat` is the absence of Go's negative-counter panic. `WaitJoinsCountedWorkers`: when `stopWG.Wait` returns, at once or after sleeping, the Serve goroutine and every bridge that did `Add(1)` have exited. `StopTerminates`: no Stop blocks forever, even if nobody reads any channel; it returns or the process panics (the panic is `wait_panic`). `ExitTokenKept`: the exit signal relayed through `exitChan` is never duplicated, and exists while Stop is between its send and its return. |
| subs_closed_after_stop | `SubsClosedAfterStop.cfg` | violation | An `Accept` that races `Stop` returns a channel that is never closed (finding F1). |
| workers_after_stop | `WorkersAfterStop.cfg` | violation | `Stop` returns while a bridge still runs, because `Add(1)` is inside the goroutine (F2). |
| dead_write_after_stop | `DeadWriteAfterStop.cfg` | violation | `disconnect` writes `deadEndpoints` after `Stop` returned (F3). |
| concurrent_stop | `ConcurrentStop.cfg` | violation | Two `Stop` calls both pass the Load; the second blocks forever on `exitChan`, which still holds the first one's signal (F4). |
| wait_panic | `WaitPanic.cfg` | violation | `NoPanic`: an `Accept` registered just before `Stop` runs `Add(1)` after Serve's `Done` has woken Stop's sleeping `Wait`, and `Wait` panics (F8). |
| connstore | `ConnStore.cfg` | pass | The instance has 3 dialers (for p1 expecting p1, p1 expecting nothing, p2 expecting p1) and 2 inbound streams from p1, with CloseConn and Stop (about 2.1M states). At most one live session per PKI-ID, the store holds only live sessions, and `SessionMapSpec`: every step of the store is a step of `SessionMap` or leaves it unchanged, so a stored session is never replaced. |
| stale_teardown | `StaleTeardown.cfg` | violation | The deferred `closeByPKIid` of an old inbound stream closes the newer session of the same peer (F5). |
| dead_endpoints_block | `DeadEndpointsBlock.cfg` | violation | `DisconnectReturns`: with one slot in `deadEndpoints` and nobody reading `PresumedDead`, the second failing send blocks for ever in `disconnect` (F6). |
| handshake_read | `HandshakeRead.cfg` | pass | Against a peer that is silent, sends a malformed ConnEstablish or sends gossip behind it, and a transport that may break (238 states): `ReplyIsFirstEnvelope` (only the peer's first envelope is returned), `CallerReturns` (the call always returns, through the ticker when `Send` or `Recv` failed silently) and `ReaderExits` (the reader goroutine always ends, because its channels have a slot and a failed call closes the stream), and `ReplySpec` (the read implements `HandshakeReply`: one return, as the first envelope warrants). |
| reader_leak | `ReaderLeak.cfg` | violation | `ReaderJoinedOnTimeout`: on timeout the reader is still blocked in `Recv` (F7). |
| handshake | `Handshake.cfg` | pass | With the local instance, one honest peer and an attacker, over all TLS and `skipHandshake` settings: with TLS on and no skip, no session is ever accepted under another peer's identity. |

Every property of a passing run has a mutant in PROJECT.json. A mutant is
a plausible bug (a dropped guard, close or check) that TLC reports as a
violation.

**Bounds.**
- Buffers have capacity 1, so a blocked sender is reached in one message.
- Two subscribers are enough for the exit token to be passed from one
  bridge to the next.
- Two senders (in `dead_write_after_stop` and `dead_endpoints_block`)
  let one of them pass the `stopping` check before Stop and the other
  after it, or fill the one-slot `deadEndpoints`; the lifecycle run needs
  only one, whose send may fail before or after Stop.
- Three dialers, two of them for the same peer, produce every latch
  conflict. The dialer whose endpoint answers as a different peer covers
  the expected-PKI-ID rejection.
- Two inbound streams from one peer produce the replacement that F5
  needs.
- In the handshake, one honest peer plus the attacker cover all of
  capture, replay and forging.
- In the handshake read, three envelopes from the peer are its
  ConnEstablish and two gossip envelopes, enough for a reader that read
  past the first one to be caught; the ticker may fire at any point.

**Fairness.**
- The Go scheduler runs every runnable goroutine, so every goroutine gets
  weak fairness.
- Subscribers, the `PresumedDead` reader, remote peers, `CloseConn` and
  `Stop` are callers that are never obliged to act.
- In `HandshakeRead` the caller, the reader and the ticker are fair (the
  Go runtime fires a ticker's timer); the peer need never send and the
  transport need never break. A service loop is
  only obliged to end once its connection is closed.

## 4. Proofs

`ConnStoreProofs` proves, for all constants satisfying `StoreAssumption`:
- `TypeCorrect`: `Spec => []TypeOK`.
- `SingleSession`: `Spec => []AtMostOneLiveSession`.
- `StoreHoldsSessions`: `Spec => []StoreEntriesAreSessions`.
- `Refinement`: `Spec => SessionMapSpec`, that `ConnStore` implements
  `SessionMap`.

`AtMostOneLiveSession` is not inductive as it stands. A step that stores
a connection has to know that no other live session exists for the same
PKI-ID. The strengthening `IInv` therefore adds three facts:
- `SessionsAreStored`: every live session is the connection stored under
  its PKI-ID. This makes uniqueness immediate.
- `StoreEntriesAreSessions`.
- `ConnLifecycle`: a connection that is not yet stored is not live. This
  matters because the code stores the connection and starts its service
  loop in one step.

TLC checks `IInv` on the connstore instance. The lemma `InitIInv` and the
lemma `NextIInv` (one step per action, with a CASE split where an action
branches) prove it inductive, and temporal induction (PTL) gives the
theorems.

The refinement follows the usual two facts: `InitRefines` (the empty
store is the empty map) and `NextRefines`: under `IInv`, every step is an
`SMNext` step or leaves `store` and `serviced` alone. The stores of
`GetConnCommit` and `OnConnected` are `Open` steps; they need the
connection to be fresh, which is `ConnLifecycle` (a connection waiting to
be committed is not yet serviced). `CloseByPKIidRefines` states once that
`closeByPKIid` is a `Close` or nothing; `DisconnectWrite`,
`StreamTeardown` and `CloseConn` cite it. `StoreShutdown` is `CloseAll`.

`HandshakeReadProofs` proves, for every `MaxEnv` in `Nat \ {0}`:
- `ReadTypeCorrect`: `Spec => []TypeOK`.
- `FirstEnvelopeProved`: `Spec => []ReplyIsFirstEnvelope`.
- `ReadRefinement`: `Spec => ReplySpec`, that the read implements
  `HandshakeReply`.

The strengthening `ReaderSeesFirst` says that until the reader has
received, on a working stream it sees everything the peer sent
(`inbox = peerSent`); that what it received is the head of `peerSent`,
which is a ConnEstablish; and that what sits in `incChan` and `errChan`
and what the caller took match what it decoded. The lemmas `OneSlot` and
`AppendHead` give the facts about sequences (from `SequenceTheorems`).
`ReaderSeesFirst` also says that the caller has no result before it
leaves the select, which makes every select case a `Return` from
`reply = "none"`. The refinement then takes `ReadInitRefines` and
`ReadNextRefines`: the select cases are `Return("timeout")`,
`Return("msg")` (what `incChan` holds is the head of `peerSent`, which
is good) and `Return("err")`; the peer's first `PeerSend` is `Hello(k)`,
a later one keeps the head of `peerSent` (`AppendHead`); every other step
leaves `result` and `peerSent` alone.

`HandshakeProofs` proves, for all constants satisfying
`HandshakeAssumption`:
- `HandshakeTypeCorrect`: `Spec => []TypeOK`.
- `NoImpersonationProved`: `Spec => []NoImpersonation`.

The assumptions are that the attacker is not the local instance and that
TLS certificate hashes are injective.

`NoImpersonation` alone is not inductive: it says nothing about the
signatures the attacker may replay later. The strengthening
`CapturedHonest` states that every captured signature was made by an honest
peer over the payload naming that peer and its own TLS hash. The argument
is the lemma `AttackerClaimsItself`:
- With TLS on and no skip, an envelope from the attacker is accepted only
  if its hash equals the hash of the attacker's certificate (line 451).
- Its signature must also verify under the certificate it carries (line
  458).
- A replayed honest signature covers an honest hash, which differs from
  the attacker's hash, so it cannot be used.
- The attacker's own signature verifies only for a certificate that
  `Put` maps to the attacker's own PKI-ID.

The lemmas `AuthStepType` and `AuthStepNoImp` state once what the
authentication step preserves. Every action cites them.

`CommLifecycleProofs` proves, for all constants satisfying
`ConstantsAssumption` (finite sets of subscribers, senders and Stop
calls, positive buffers):
- `LifecycleTypeCorrect`: `Spec => []TypeOK`.
- `WaitJoins`: `Spec => WaitJoinsCountedWorkers`.
- `ExitTokenProved`: `Spec => []ExitTokenKept`.

`TypeOK` is not inductive on its own: `wg \in Nat` needs to know that
every `stopWG.Done()` (Serve returning, a bridge exiting by the reput, the
closed generic channel or the closed subscription channel) has a matching
`Add(1)`. The strengthening `LInv` adds `WGAccount`, that `wg` is the
number of counted bridges (`Counted`, pcs `loop`, `send`, `reput`) plus one
while Serve runs, and `BridgeAfterRegister`, that no bridge runs before
its `Accept` registered it. The lemma `CountedStep` says once how a step
of one bridge changes `Cardinality(Counted)` (by +1, -1 or 0, from
`FS_AddElement` and `FS_RemoveElement`); `NextWGAccount`,
`NextBridgeAfterRegister` and `NextTypeOK` take one case per action. With
`LInv`, a `StopWait` or `StopWake` that returns (both only on `wg = 0`)
forces `Counted = {}` and `~serving`. The theorem says nothing of the
`StopWake` that panics: that is the finding F8, which TLC shows.

`ExitTokenKept` is inductive together with `LInv`. The lemma `CountStep`
states once, for any finite set and two functions that differ at one
point, how `CountIn(S, f, L)` (the number of elements mapped into `L`)
changes. `StopStepSignals` uses it on the Stop calls past their send
(`PastExit`, which counts a sleeping Wait as past its send, grows by one
exactly at `StopExit`, which also adds the
signal), `BridgeStepSignals` on the bridges holding the signal
(`BridgeRecvExit` moves it from `exitChan` to the bridge, `BridgeReput`
back). `AcceptRegister` sets a bridge to `start`, which needs
`BridgeAfterRegister`: the bridge was `none`, not a holder.

Only TLC checks the following:
- the liveness properties (`StopTerminates`, `CallerReturns`,
  `ReaderExits`), because TLAPS does not handle fairness or ENABLED;
- nothing else of `CommLifecycle`: `AllSubscriptionsClosed`,
  `NoWorkerAfterStop`, `NoDeadEndpointWriteAfterStop` and `NoPanic` are
  violated by the code (section 3), so they are findings, not theorems.

No property says that every `sendToEndpoint` finishes: the code does not
guarantee it. A `Ping` without deadline can hang while it holds the dial
latch (line 182), and a full `deadEndpoints` blocks `disconnect` (line
528, run `dead_endpoints_block`).

## 5. Not modelled

- Certificate generation and file I/O in `createGRPCLayer`.
- Logging.
- Time as a quantity: the ticker of `readWithTimeout` is one event that
  may come at any point of the wait, and the ticker left running after
  the call (line 559, never stopped) changes no observable state.
- The panic of `readWithTimeout` for a stream of another type (line 555):
  gRPC only passes the two stream types.
- `Probe`, which has no state.
- The contents of messages.

## 6. Plan for the next sittings

1. Prove the weaker statements that do hold: a bridge that did
   `Add(1)` before Stop's `Wait` has exited when Stop returns.
2. Compose the lifecycle with `ConnStore` so that `Stop`'s store shutdown
   and `disconnect` share one `stopping` flag.
3. Model the per-connection send and receive workers of spec §4.3.
