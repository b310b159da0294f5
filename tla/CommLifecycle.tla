--------------------------- MODULE CommLifecycle ---------------------------
(***************************************************************************)
(* Lifecycle of one gossip comm instance (commImpl, comm_impl.go): Stop,  *)
(* Accept with its bridge goroutine, the gRPC Serve goroutine, the        *)
(* stopWG wait group, the exitChan token, the subscription channels, and  *)
(* the sendToEndpoint/disconnect goroutines that write PKI-IDs to the     *)
(* bounded deadEndpoints channel.                                          *)
(*                                                                         *)
(* Connections are abstracted: a send either succeeds or fails (and then  *)
(* disconnect runs), and connection handlers appear only as DeMultiplex   *)
(* calls that feed the generic channels of the demultiplexer.  Messages   *)
(* carry no data: a channel is its state and the number of buffered items.*)
(* Every label of the code where a goroutine can be preempted between two *)
(* accesses to shared state (the atomic stopping flag, the comm lock, a   *)
(* channel operation, the wait group) is a step of its own.               *)
(***************************************************************************)
EXTENDS Naturals, FiniteSets

CONSTANTS
    Subscribers,  \* goroutines that each call Accept once
    Senders,      \* sendToEndpoint goroutines spawned by Send, one per peer
    Stoppers,     \* goroutines that call Stop
    SubCap,       \* buffer of a subscription channel (10 at line 307)
    GenericCap,   \* buffer of a demultiplexer channel
    DeadCap,      \* buffer of deadEndpoints (100 at line 95)
    MaxMsgs       \* bound on the number of DeMultiplex calls

ASSUME ConstantsAssumption ==
    /\ IsFiniteSet(Subscribers) /\ IsFiniteSet(Senders)
    /\ IsFiniteSet(Stoppers) /\ Stoppers # {}
    /\ SubCap \in Nat \ {0}
    /\ GenericCap \in Nat \ {0}
    /\ DeadCap \in Nat \ {0}
    /\ MaxMsgs \in Nat

VARIABLES
    stopping,     \* the atomic flag c.stopping
    stopPc,       \* program counter of each Stop call
    accPc,        \* program counter of each Accept call
    bridgePc,     \* program counter of the goroutine spawned by Accept
    sndPc,        \* program counter of each sendToEndpoint goroutine
    genState,     \* state of the demultiplexer channel of each subscriber
    genLen,       \*   and the number of messages buffered in it
    specState,    \* state of the subscription channel returned by Accept
    specLen,      \*   and the number of messages buffered in it
    subs,         \* c.subscriptions
    demuxClosed,  \* the demultiplexer has been closed
    srvStopped,   \* gSrv.Stop has been called
    serving,      \* the Serve goroutine is still running
    wg,           \* counter of c.stopWG
    waiters,      \*   and its count of Wait callers asleep on it
    sema,         \*   and the pending releases of its semaphore
    exitTok,      \* number of tokens in c.exitChan (buffer 1)
    dead,         \* number of PKI-IDs buffered in c.deadEndpoints
    demuxed,      \* number of DeMultiplex calls so far
    panicked      \* an unrecovered panic has killed the process

vars == <<stopping, stopPc, accPc, bridgePc, sndPc, genState, genLen,
          specState, specLen, subs, demuxClosed, srvStopped, serving, wg,
          waiters, sema, exitTok, dead, demuxed, panicked>>

StopLabels   == {"idle", "store", "shutdown", "exit", "close", "empty",
                 "wait", "sleep", "done"}
AcceptLabels == {"idle", "check", "register", "done"}
BridgeLabels == {"none", "start", "loop", "send", "reput", "exited"}
SendLabels   == {"idle", "ep", "get", "disc", "write", "done"}
ChanStates   == {"none", "open", "closed", "orphan"}

\* Goroutines counted by stopWG: a bridge between Add and Done.
Counted == {s \in Subscribers : bridgePc[s] \in {"loop", "send", "reput"}}

\* stopWG.Done(), i.e. Add(-1) (sync.WaitGroup): when the counter reaches 0
\* with Wait callers asleep, the state (counter and waiters) is reset to 0
\* and the semaphore released once per waiter.  A counter going below 0
\* panics in Go; TypeOK's wg \in Nat states that this never happens.
WGDone ==
    /\ wg' = wg - 1
    /\ IF wg = 1 /\ waiters > 0
          THEN waiters' = 0 /\ sema' = sema + waiters
          ELSE UNCHANGED <<waiters, sema>>

-----------------------------------------------------------------------------
Init ==
    /\ stopping = FALSE
    /\ stopPc = [t \in Stoppers |-> "idle"]
    /\ accPc = [s \in Subscribers |-> "idle"]
    /\ bridgePc = [s \in Subscribers |-> "none"]
    /\ sndPc = [d \in Senders |-> "idle"]
    /\ genState = [s \in Subscribers |-> "none"]
    /\ genLen = [s \in Subscribers |-> 0]
    /\ specState = [s \in Subscribers |-> "none"]
    /\ specLen = [s \in Subscribers |-> 0]
    /\ subs = {}
    /\ demuxClosed = FALSE
    /\ srvStopped = FALSE
    \* NewCommInstanceWithServer with port > 0: stopWG.Add(1); go Serve
    /\ serving = TRUE
    /\ wg = 1
    /\ waiters = 0
    /\ sema = 0
    /\ exitTok = 0
    /\ dead = 0
    /\ demuxed = 0
    /\ panicked = FALSE

-----------------------------------------------------------------------------
(* Stop (lines 357-378).                                                   *)

\* if c.isStopping() { return }: the load, separate from the store below.
StopCall(t) ==
    /\ ~panicked
    /\ stopPc[t] = "idle"
    /\ stopPc' = [stopPc EXCEPT ![t] = IF stopping THEN "done" ELSE "store"]
    /\ UNCHANGED <<stopping, accPc, bridgePc, sndPc, genState, genLen,
                   specState, specLen, subs, demuxClosed, srvStopped,
                   serving, wg, waiters, sema, exitTok, dead, demuxed, panicked>>

\* atomic.StoreInt32(&c.stopping, 1)
StopStore(t) ==
    /\ ~panicked
    /\ stopPc[t] = "store"
    /\ stopping' = TRUE
    /\ stopPc' = [stopPc EXCEPT ![t] = "shutdown"]
    /\ UNCHANGED <<accPc, bridgePc, sndPc, genState, genLen, specState,
                   specLen, subs, demuxClosed, srvStopped, serving, wg, waiters, sema,
                   exitTok, dead, demuxed, panicked>>

\* gSrv.Stop(); lsnr.Close(); connStore.shutdown()
StopShutdown(t) ==
    /\ ~panicked
    /\ stopPc[t] = "shutdown"
    /\ srvStopped' = TRUE
    /\ stopPc' = [stopPc EXCEPT ![t] = "exit"]
    /\ UNCHANGED <<stopping, accPc, bridgePc, sndPc, genState, genLen,
                   specState, specLen, subs, demuxClosed, serving, wg, waiters, sema,
                   exitTok, dead, demuxed, panicked>>

\* c.exitChan <- struct{}{}: blocks while the one-slot buffer is full.
StopExit(t) ==
    /\ ~panicked
    /\ stopPc[t] = "exit"
    /\ exitTok < 1
    /\ exitTok' = exitTok + 1
    /\ stopPc' = [stopPc EXCEPT ![t] = "close"]
    /\ UNCHANGED <<stopping, accPc, bridgePc, sndPc, genState, genLen,
                   specState, specLen, subs, demuxClosed, srvStopped,
                   serving, wg, waiters, sema, dead, demuxed, panicked>>

\* c.msgPublisher.Close(): closes every registered demultiplexer channel.
StopClosePublisher(t) ==
    /\ ~panicked
    /\ stopPc[t] = "close"
    /\ demuxClosed' = TRUE
    /\ genState' = [s \in Subscribers |->
                      IF genState[s] = "open" THEN "closed" ELSE genState[s]]
    /\ stopPc' = [stopPc EXCEPT ![t] = "empty"]
    /\ UNCHANGED <<stopping, accPc, bridgePc, sndPc, genLen, specState,
                   specLen, subs, srvStopped, serving, wg, waiters, sema, exitTok, dead,
                   demuxed, panicked>>
StopEmpty(t) ==
    /\ ~panicked
    /\ stopPc[t] = "empty"
    /\ specState' = [s \in Subscribers |->
                       IF s \in subs THEN "closed" ELSE specState[s]]
    /\ panicked' = (\E s \in subs : specState[s] = "closed")
    /\ stopPc' = [stopPc EXCEPT ![t] = "wait"]
    /\ UNCHANGED <<stopping, accPc, bridgePc, sndPc, genState, genLen,
                   specLen, subs, demuxClosed, srvStopped, serving, wg, waiters, sema,
                   exitTok, dead, demuxed>>
\* Mutant: Stop that does not wait for stopWG.
StopWaitNoJoin(t) ==
    /\ stopPc[t] = "wait"
    /\ stopPc' = [stopPc EXCEPT ![t] = "done"]
    /\ UNCHANGED <<stopping, accPc, bridgePc, sndPc, genState, genLen,
                   specState, specLen, subs, demuxClosed, srvStopped,
                   serving, wg, waiters, sema, exitTok, dead, demuxed, panicked>>


\* c.stopWG.Wait(): returns at once on a zero counter; otherwise registers
\* as a waiter (the CompareAndSwap of the state) and sleeps on the
\* semaphore.
StopWait(t) ==
    /\ ~panicked
    /\ stopPc[t] = "wait"
    /\ \/ /\ wg = 0
          /\ stopPc' = [stopPc EXCEPT ![t] = "done"]
          /\ UNCHANGED waiters
       \/ /\ wg > 0
          /\ stopPc' = [stopPc EXCEPT ![t] = "sleep"]
          /\ waiters' = waiters + 1
    /\ UNCHANGED <<stopping, accPc, bridgePc, sndPc, genState, genLen,
                   specState, specLen, subs, demuxClosed, srvStopped,
                   serving, wg, sema, exitTok, dead, demuxed, panicked>>

\* Wait wakes on the semaphore and reads the state again: if it is no longer
\* 0 (an Add(1) ran after the last Done reset it) Wait panics with "WaitGroup
\* is reused before previous Wait has returned", and nothing recovers it.
StopWake(t) ==
    /\ ~panicked
    /\ stopPc[t] = "sleep"
    /\ sema > 0
    /\ sema' = sema - 1
    /\ \/ /\ wg = 0 /\ waiters = 0
          /\ stopPc' = [stopPc EXCEPT ![t] = "done"]
          /\ UNCHANGED panicked
       \/ /\ wg # 0 \/ waiters # 0
          /\ panicked' = TRUE
          /\ UNCHANGED stopPc
    /\ UNCHANGED <<stopping, accPc, bridgePc, sndPc, genState, genLen,
                   specState, specLen, subs, demuxClosed, srvStopped,
                   serving, wg, waiters, exitTok, dead, demuxed>>

\* The Serve goroutine (lines 105-108) returns once the server is stopped.
ServeReturn ==
    /\ ~panicked
    /\ serving /\ srvStopped
    /\ serving' = FALSE
    /\ WGDone
    /\ UNCHANGED <<stopping, stopPc, accPc, bridgePc, sndPc, genState, genLen,
                   specState, specLen, subs, demuxClosed, srvStopped,
                   exitTok, dead, demuxed, panicked>>

-----------------------------------------------------------------------------
(* Accept (lines 305-338) and the bridge goroutine it spawns.             *)

\* genericChan := c.msgPublisher.AddChannel(acceptor); a closed
\* demultiplexer no longer registers the channel.  specificChan := make(...)
AcceptAdd(s) ==
    /\ ~panicked
    /\ accPc[s] = "idle"
    /\ genState' = [genState EXCEPT ![s] = IF demuxClosed THEN "orphan"
                                                          ELSE "open"]
    /\ specState' = [specState EXCEPT ![s] = "open"]
    /\ accPc' = [accPc EXCEPT ![s] = "check"]
    /\ UNCHANGED <<stopping, stopPc, bridgePc, sndPc, genLen, specLen, subs,
                   demuxClosed, srvStopped, serving, wg, waiters, sema, exitTok, dead,
                   demuxed, panicked>>

\* if c.isStopping() { return specificChan }
AcceptCheck(s) ==
    /\ ~panicked
    /\ accPc[s] = "check"
    /\ accPc' = [accPc EXCEPT ![s] = IF stopping THEN "done" ELSE "register"]
    /\ UNCHANGED <<stopping, stopPc, bridgePc, sndPc, genState, genLen,
                   specState, specLen, subs, demuxClosed, srvStopped,
                   serving, wg, waiters, sema, exitTok, dead, demuxed, panicked>>

\* c.lock.Lock(); append(c.subscriptions, specificChan); c.lock.Unlock();
\* go func() {...}
AcceptRegister(s) ==
    /\ ~panicked
    /\ accPc[s] = "register"
    /\ subs' = subs \cup {s}
    /\ bridgePc' = [bridgePc EXCEPT ![s] = "start"]
    /\ accPc' = [accPc EXCEPT ![s] = "done"]
    /\ UNCHANGED <<stopping, stopPc, sndPc, genState, genLen, specState,
                   specLen, demuxClosed, srvStopped, serving, wg, waiters, sema, exitTok,
                   dead, demuxed, panicked>>

\* Mutant: the bridge goroutine without its stopWG.Add(1).
BridgeStartNoAdd(s) ==
    /\ ~panicked
    /\ bridgePc[s] = "start"
    /\ bridgePc' = [bridgePc EXCEPT ![s] = "loop"]
    /\ UNCHANGED <<stopping, stopPc, accPc, sndPc, genState, genLen,
                   specState, specLen, subs, demuxClosed, srvStopped,
                   serving, wg, waiters, sema, exitTok, dead, demuxed,
                   panicked>>

\* c.stopWG.Add(1), executed inside the new goroutine.  Add panics ("Add
\* called concurrently with Wait") when it raises the counter from 0 while
\* waiters are registered.
BridgeStart(s) ==
    /\ ~panicked
    /\ bridgePc[s] = "start"
    /\ wg' = wg + 1
    /\ panicked' = (wg = 0 /\ waiters # 0)
    /\ bridgePc' = [bridgePc EXCEPT ![s] = "loop"]
    /\ UNCHANGED <<stopping, stopPc, accPc, sndPc, genState, genLen,
                   specState, specLen, subs, demuxClosed, srvStopped,
                   serving, waiters, sema, exitTok, dead, demuxed>>

\* case msg := <-genericChan with a buffered message.
BridgeRecvMsg(s) ==
    /\ ~panicked
    /\ bridgePc[s] = "loop"
    /\ genLen[s] > 0
    /\ genLen' = [genLen EXCEPT ![s] = @ - 1]
    /\ bridgePc' = [bridgePc EXCEPT ![s] = "send"]
    /\ UNCHANGED <<stopping, stopPc, accPc, sndPc, genState, specState,
                   specLen, subs, demuxClosed, srvStopped, serving, wg, waiters, sema,
                   exitTok, dead, demuxed, panicked>>

\* case msg := <-genericChan on a closed, drained channel: msg is nil, the
\* type assertion panics, recover() swallows it, stopWG.Done() runs.
BridgeRecvClosed(s) ==
    /\ ~panicked
    /\ bridgePc[s] = "loop"
    /\ genState[s] = "closed" /\ genLen[s] = 0
    /\ WGDone
    /\ bridgePc' = [bridgePc EXCEPT ![s] = "exited"]
    /\ UNCHANGED <<stopping, stopPc, accPc, sndPc, genState, genLen,
                   specState, specLen, subs, demuxClosed, srvStopped,
                   serving, exitTok, dead, demuxed, panicked>>

\* Mutant: the bridge returns on the exit signal without putting it back.
BridgeRecvExitNoReput(s) ==
    /\ ~panicked
    /\ bridgePc[s] = "loop"
    /\ exitTok > 0
    /\ exitTok' = exitTok - 1
    /\ WGDone
    /\ bridgePc' = [bridgePc EXCEPT ![s] = "exited"]
    /\ UNCHANGED <<stopping, stopPc, accPc, sndPc, genState, genLen,
                   specState, specLen, subs, demuxClosed, srvStopped,
                   serving, dead, demuxed, panicked>>

\* case s := <-c.exitChan
BridgeRecvExit(s) ==
    /\ ~panicked
    /\ bridgePc[s] = "loop"
    /\ exitTok > 0
    /\ exitTok' = exitTok - 1
    /\ bridgePc' = [bridgePc EXCEPT ![s] = "reput"]
    /\ UNCHANGED <<stopping, stopPc, accPc, sndPc, genState, genLen,
                   specState, specLen, subs, demuxClosed, srvStopped,
                   serving, wg, waiters, sema, dead, demuxed, panicked>>

\* c.exitChan <- s; return (stopWG.Done deferred)
BridgeReput(s) ==
    /\ ~panicked
    /\ bridgePc[s] = "reput"
    /\ exitTok < 1
    /\ exitTok' = exitTok + 1
    /\ WGDone
    /\ bridgePc' = [bridgePc EXCEPT ![s] = "exited"]
    /\ UNCHANGED <<stopping, stopPc, accPc, sndPc, genState, genLen,
                   specState, specLen, subs, demuxClosed, srvStopped,
                   serving, dead, demuxed, panicked>>

\* specificChan <- msg: blocks while the buffer is full; on a closed channel
\* it panics and the deferred recover() and stopWG.Done() end the goroutine.
BridgeSend(s) ==
    /\ ~panicked
    /\ bridgePc[s] = "send"
    /\ \/ /\ specState[s] = "open" /\ specLen[s] < SubCap
          /\ specLen' = [specLen EXCEPT ![s] = @ + 1]
          /\ bridgePc' = [bridgePc EXCEPT ![s] = "loop"]
          /\ UNCHANGED <<wg, waiters, sema>>
       \/ /\ specState[s] = "closed"
          /\ WGDone
          /\ bridgePc' = [bridgePc EXCEPT ![s] = "exited"]
          /\ UNCHANGED specLen
    /\ UNCHANGED <<stopping, stopPc, accPc, sndPc, genState, genLen,
                   specState, subs, demuxClosed, srvStopped, serving,
                   exitTok, dead, demuxed, panicked>>

\* The subscriber reads its channel (environment; it may never do so).
Consume(s) ==
    /\ ~panicked
    /\ specLen[s] > 0
    /\ specLen' = [specLen EXCEPT ![s] = @ - 1]
    /\ UNCHANGED <<stopping, stopPc, accPc, bridgePc, sndPc, genState, genLen,
                   specState, subs, demuxClosed, srvStopped, serving, wg, waiters, sema,
                   exitTok, dead, demuxed, panicked>>

\* A connection handler calls msgPublisher.DeMultiplex: every open channel
\* whose predicate accepts the message (the set m) gets it unless full.
DeMultiplex ==
    /\ ~panicked
    /\ ~demuxClosed
    /\ demuxed < MaxMsgs
    /\ \E m \in SUBSET {s \in Subscribers : genState[s] = "open"} :
          genLen' = [s \in Subscribers |->
                       IF s \in m /\ genLen[s] < GenericCap
                       THEN genLen[s] + 1 ELSE genLen[s]]
    /\ demuxed' = demuxed + 1
    /\ UNCHANGED <<stopping, stopPc, accPc, bridgePc, sndPc, genState,
                   specState, specLen, subs, demuxClosed, srvStopped,
                   serving, wg, waiters, sema, exitTok, dead, panicked>>

-----------------------------------------------------------------------------
(* Send (lines 220-232), sendToEndpoint (234-253), disconnect (524-530).  *)

\* Send: if c.isStopping() { return }; go sendToEndpoint(peer, msg)
SendCall(d) ==
    /\ ~panicked
    /\ sndPc[d] = "idle"
    /\ sndPc' = [sndPc EXCEPT ![d] = IF stopping THEN "done" ELSE "ep"]
    /\ UNCHANGED <<stopping, stopPc, accPc, bridgePc, genState, genLen,
                   specState, specLen, subs, demuxClosed, srvStopped,
                   serving, wg, waiters, sema, exitTok, dead, demuxed, panicked>>

\* sendToEndpoint: if c.isStopping() { return }
SendCheck(d) ==
    /\ ~panicked
    /\ sndPc[d] = "ep"
    /\ sndPc' = [sndPc EXCEPT ![d] = IF stopping THEN "done" ELSE "get"]
    /\ UNCHANGED <<stopping, stopPc, accPc, bridgePc, genState, genLen,
                   specState, specLen, subs, demuxClosed, srvStopped,
                   serving, wg, waiters, sema, exitTok, dead, demuxed, panicked>>

\* getConnection and conn.send: the message is queued, or obtaining the
\* connection fails, or the send reports an error through disConnectOnErr;
\* the two failures both call disconnect(peer.PKIID).
SendGet(d) ==
    /\ ~panicked
    /\ sndPc[d] = "get"
    /\ \E next \in {"done", "disc"} : sndPc' = [sndPc EXCEPT ![d] = next]
    /\ UNCHANGED <<stopping, stopPc, accPc, bridgePc, genState, genLen,
                   specState, specLen, subs, demuxClosed, srvStopped,
                   serving, wg, waiters, sema, exitTok, dead, demuxed, panicked>>

\* disconnect: if c.isStopping() { return }
DisconnectCheck(d) ==
    /\ ~panicked
    /\ sndPc[d] = "disc"
    /\ sndPc' = [sndPc EXCEPT ![d] = IF stopping THEN "done" ELSE "write"]
    /\ UNCHANGED <<stopping, stopPc, accPc, bridgePc, genState, genLen,
                   specState, specLen, subs, demuxClosed, srvStopped,
                   serving, wg, waiters, sema, exitTok, dead, demuxed, panicked>>
\* c.deadEndpoints <- pkiID (blocks while full); connStore.closeByPKIid
DisconnectWrite(d) ==
    /\ ~panicked
    /\ sndPc[d] = "write"
    /\ dead < DeadCap
    /\ dead' = dead + 1
    /\ sndPc' = [sndPc EXCEPT ![d] = "done"]
    /\ UNCHANGED <<stopping, stopPc, accPc, bridgePc, genState, genLen,
                   specState, specLen, subs, demuxClosed, srvStopped,
                   serving, wg, waiters, sema, exitTok, demuxed, panicked>>

\* The reader of PresumedDead() takes one PKI-ID (environment).
DrainDead ==
    /\ ~panicked
    /\ dead > 0
    /\ dead' = dead - 1
    /\ UNCHANGED <<stopping, stopPc, accPc, bridgePc, sndPc, genState, genLen,
                   specState, specLen, subs, demuxClosed, srvStopped,
                   serving, wg, waiters, sema, exitTok, demuxed, panicked>>

-----------------------------------------------------------------------------
StopStep(t) ==
    \/ StopCall(t) \/ StopStore(t) \/ StopShutdown(t) \/ StopExit(t)
    \/ StopClosePublisher(t) \/ StopEmpty(t) \/ StopWait(t) \/ StopWake(t)

AcceptStep(s) == AcceptAdd(s) \/ AcceptCheck(s) \/ AcceptRegister(s)

BridgeStep(s) ==
    \/ BridgeStart(s) \/ BridgeRecvMsg(s) \/ BridgeRecvClosed(s)
    \/ BridgeRecvExit(s) \/ BridgeReput(s) \/ BridgeSend(s)

SendStep(d) ==
    \/ SendCall(d) \/ SendCheck(d) \/ SendGet(d)
    \/ DisconnectCheck(d) \/ DisconnectWrite(d)

\* Every goroutine has finished (the process is at rest).
Terminated ==
    /\ \A t \in Stoppers : stopPc[t] = "done"
    /\ \A s \in Subscribers : accPc[s] = "done"
                               /\ bridgePc[s] \in {"none", "exited"}
    /\ \A d \in Senders : sndPc[d] = "done"
    /\ ~serving

Next ==
    \/ \E t \in Stoppers : StopStep(t)
    \/ ServeReturn
    \/ \E s \in Subscribers : AcceptStep(s) \/ BridgeStep(s) \/ Consume(s)
    \/ DeMultiplex
    \/ \E d \in Senders : SendStep(d)
    \/ DrainDead
    \/ (Terminated \/ panicked) /\ UNCHANGED vars

\* The Go scheduler eventually runs every runnable goroutine; the readers
\* of the subscription channels and of PresumedDead, and the remote peers
\* that cause DeMultiplex, are not obliged to do anything.
Fairness ==
    /\ \A t \in Stoppers : WF_vars(StopStep(t))
    /\ WF_vars(ServeReturn)
    /\ \A s \in Subscribers : WF_vars(AcceptStep(s))
                               /\ WF_vars(BridgeStep(s))
    /\ \A d \in Senders : WF_vars(SendStep(d))

Spec == Init /\ [][Next]_vars /\ Fairness

-----------------------------------------------------------------------------
(* Properties.                                                             *)

TypeOK ==
    /\ stopping \in BOOLEAN
    /\ stopPc \in [Stoppers -> StopLabels]
    /\ accPc \in [Subscribers -> AcceptLabels]
    /\ bridgePc \in [Subscribers -> BridgeLabels]
    /\ sndPc \in [Senders -> SendLabels]
    /\ genState \in [Subscribers -> ChanStates]
    /\ genLen \in [Subscribers -> 0..GenericCap]
    /\ specState \in [Subscribers -> ChanStates \ {"orphan"}]
    /\ specLen \in [Subscribers -> 0..SubCap]
    /\ subs \in SUBSET Subscribers
    /\ demuxClosed \in BOOLEAN
    /\ srvStopped \in BOOLEAN
    /\ serving \in BOOLEAN
    /\ wg \in Nat
    /\ waiters \in Nat
    /\ sema \in Nat
    /\ exitTok \in 0..1
    /\ dead \in 0..DeadCap
    /\ demuxed \in 0..MaxMsgs
    /\ panicked \in BOOLEAN

\* Some call of Stop has returned.
StopReturned == \E t \in Stoppers : stopPc[t] = "done"

\* When stopWG.Wait() returns inside Stop, at once or after sleeping, the
\* Serve goroutine and every bridge goroutine that has done stopWG.Add(1)
\* have exited: the wait group joins every goroutine it counts.
WaitJoinsCountedWorkers ==
    [][\A t \in Stoppers :
         (StopWait(t) \/ StopWake(t)) /\ stopPc'[t] = "done"
            => Counted = {} /\ ~serving]_vars

\* No call of Stop blocks forever: each returns, or the process dies of a
\* panic (NoPanic is about that), even when no subscriber ever reads its
\* channel and nobody drains PresumedDead(): a bridge blocked on a full
\* subscription channel is released by emptySubscriptions closing it.
StopTerminates ==
    \A t \in Stoppers : stopPc[t] # "idle" ~> (stopPc[t] = "done" \/ panicked)

\* Stop never crashes the process: no unrecovered panic, in particular none
\* in stopWG.Wait (spec section 8, scenario 6: Stop returns, no panic).
NoPanic == ~panicked

\* After Stop returns, every channel that Accept returned has been closed,
\* so its readers observe the close (spec section 3, section 8).
AllSubscriptionsClosed ==
    StopReturned =>
        \A s \in Subscribers : accPc[s] = "done" => specState[s] = "closed"

\* After Stop returns, no goroutine of the instance is left running: the
\* Serve goroutine and every Accept bridge have exited (spec section 3).
NoWorkerAfterStop ==
    StopReturned =>
        /\ ~serving
        /\ \A s \in Subscribers : bridgePc[s] \in {"none", "exited"}

\* Once Stop has returned, disconnect never writes to deadEndpoints again
\* (spec section 3).
NoDeadEndpointWriteAfterStop ==
    [][StopReturned => ~\E d \in Senders : DisconnectWrite(d)]_vars

\* Every disconnect returns: the write of the PKI-ID to deadEndpoints never
\* blocks its sendToEndpoint goroutine for good, even when the reader of
\* PresumedDead() stops reading (spec section 4.6 calls it a non-blocking
\* write, section 9 asks not to silently deadlock).
DisconnectReturns ==
    \A d \in Senders : sndPc[d] = "write" ~> sndPc[d] = "done"

\* Bridges holding the exit signal: received from exitChan, not yet put back.
TokenHolders == {s \in Subscribers : bridgePc[s] = "reput"}

\* Stop calls past their send on exitChan (or returned early).
PastExit == {t \in Stoppers :
                stopPc[t] \in {"close", "empty", "wait", "sleep", "done"}}

\* The exit signal of Stop (line 364) is relayed from bridge to bridge
\* (lines 332-334) and is neither duplicated nor lost: there are never more
\* signals, in exitChan or held by a bridge, than Stop calls that sent one,
\* and while a Stop is between its send and its return the signal exists.
ExitTokenKept ==
    /\ exitTok + Cardinality(TokenHolders) <= Cardinality(PastExit)
    /\ (\E t \in Stoppers : stopPc[t] \in {"close", "empty", "wait", "sleep"})
          => exitTok + Cardinality(TokenHolders) >= 1

=============================================================================
