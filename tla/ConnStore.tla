----------------------------- MODULE ConnStore -----------------------------
(***************************************************************************)
(* Per-PKI-ID session management of one comm instance: the outbound path  *)
(* sendToEndpoint -> connStore.getConnection -> createConnection, the     *)
(* inbound path GossipStream -> connStore.onConnected -> service loop ->  *)
(* deferred closeByPKIid, disconnect, CloseConn and the shutdown of the   *)
(* store by Stop.                                                          *)
(*                                                                         *)
(* The comm functions are translated from comm_impl.go.  The connection   *)
(* store itself (conn.go) is not part of the sources at hand: its         *)
(* operations are modelled from the specification (section 4.4).         *)
(*                                                                         *)
(* A connection is named after the goroutine that creates it (a dialer or *)
(* an inbound stream handler), so Conns = Dialers \cup Inbounds.  The     *)
(* handshake is abstracted to its outcome: it fails, or it yields the     *)
(* PKI-ID of the peer that really answers at the endpoint.                *)
(***************************************************************************)
EXTENDS Naturals, FiniteSets

CONSTANTS
    Peers,       \* PKI-IDs of the remote peers
    Nil,         \* the empty PKI-ID (RemotePeer.PKIID unknown)
    NoConn,      \* no connection
    Dialers,     \* sendToEndpoint goroutines
    Inbounds,    \* inbound GossipStream calls
    Endpoint,    \* Endpoint[d]: PKI-ID of the peer answering d's endpoint
    Expected,    \* Expected[d]: RemotePeer.PKIID given to d (may be Nil)
    InboundFrom, \* InboundFrom[i]: PKI-ID of the peer that opened stream i
    DeadCap      \* buffer of deadEndpoints (100 at line 95)

Conns == Dialers \cup Inbounds
Keys  == Peers \cup {Nil}

ASSUME StoreAssumption ==
    /\ Nil \notin Peers
    /\ NoConn \notin Conns
    /\ Dialers \cap Inbounds = {}
    /\ Endpoint \in [Dialers -> Peers]
    /\ Expected \in [Dialers -> Keys]
    /\ InboundFrom \in [Inbounds -> Peers]
    /\ DeadCap \in Nat \ {0}

VARIABLES
    stopping,    \* c.stopping
    closing,     \* the store has been shut down
    store,       \* pki2Conn: PKI-ID -> connection
    lockHolder,  \* per-PKI-ID dial latch: the dialer holding it, or NoConn
    connState,   \* "none" (not created), "open" or "closed"
    serviced,    \* connections whose service loop has been started
    dPc,         \* program counter of each dialer
    dUse,        \* the connection getConnection returned to a dialer
    iPc,         \* program counter of each inbound stream handler
    dead         \* number of PKI-IDs buffered in c.deadEndpoints

vars == <<stopping, closing, store, lockHolder, connState, serviced, dPc,
          dUse, iPc, dead>>

DialLabels    == {"idle", "lock", "check", "dial", "hung", "commit", "send",
                  "disc", "write", "done"}
InboundLabels == {"idle", "onconn", "serve", "teardown", "done"}

\* connInfo.ID of a connection: what the handshake of its stream returned.
ConnID(c) == IF c \in Dialers THEN Endpoint[c] ELSE InboundFrom[c]

\* A session: a connection in service that has not been closed.
Live(c) == c \in serviced /\ connState[c] = "open"
\* Mutant: closeByPKIid that closes the connection but keeps the entry.
CloseByPKIidStoreNoDelete(k) == store


\* closeByPKIid(k) on the store and connection state, as a pair of updates.
CloseByPKIidStore(k) ==
    IF k \in Peers /\ store[k] # NoConn
    THEN [store EXCEPT ![k] = NoConn] ELSE store
CloseByPKIidConns(k) ==
    IF k \in Peers /\ store[k] # NoConn
    THEN [connState EXCEPT ![store[k]] = "closed"] ELSE connState

-----------------------------------------------------------------------------
Init ==
    /\ stopping = FALSE
    /\ closing = FALSE
    /\ store = [p \in Peers |-> NoConn]
    /\ lockHolder = [k \in Keys |-> NoConn]
    /\ connState = [c \in Conns |-> "none"]
    /\ serviced = {}
    /\ dPc = [d \in Dialers |-> "idle"]
    /\ dUse = [d \in Dialers |-> NoConn]
    /\ iPc = [i \in Inbounds |-> "idle"]
    /\ dead = 0

-----------------------------------------------------------------------------
(* Outbound: sendToEndpoint (lines 234-253).                               *)

\* if c.isStopping() { return }
SendToEndpoint(d) ==
    /\ dPc[d] = "idle"
    /\ dPc' = [dPc EXCEPT ![d] = IF stopping THEN "done" ELSE "lock"]
    /\ UNCHANGED <<stopping, closing, store, lockHolder, connState, 
                   serviced, dUse, iPc, dead>>

\* getConnection: a closed store fails; otherwise wait for the dial latch
\* of the expected PKI-ID.
GetConnLock(d) ==
    /\ dPc[d] = "lock"
    /\ \/ /\ closing
          /\ dPc' = [dPc EXCEPT ![d] = "disc"]
          /\ UNCHANGED lockHolder
       \/ /\ ~closing
          /\ lockHolder[Expected[d]] = NoConn
          /\ lockHolder' = [lockHolder EXCEPT ![Expected[d]] = d]
          /\ dPc' = [dPc EXCEPT ![d] = "check"]
    /\ UNCHANGED <<stopping, closing, store, connState, serviced,
                   dUse, iPc, dead>>

\* getConnection: return the stored connection of the expected PKI-ID.
GetConnCheck(d) ==
    /\ dPc[d] = "check"
    /\ IF Expected[d] \in Peers /\ store[Expected[d]] # NoConn
       THEN /\ lockHolder' = [lockHolder EXCEPT ![Expected[d]] = NoConn]
            /\ dUse' = [dUse EXCEPT ![d] = store[Expected[d]]]
            /\ dPc' = [dPc EXCEPT ![d] = "send"]
       ELSE /\ dPc' = [dPc EXCEPT ![d] = "dial"]
            /\ UNCHANGED <<lockHolder, dUse>>
    /\ UNCHANGED <<stopping, closing, store, connState, serviced,
                   iPc, dead>>
\* createConnection (lines 162-218), then the latch is released.  It fails
\* when stopping, when Dial, Ping or GossipStream fail, when the handshake
\* fails, or when the peer is not the expected one (lines 191-196).
\* Otherwise it opens a connection whose info carries the peer's PKI-ID.
\* Ping(context.Background()) (line 182) has no deadline: a peer that never
\* answers keeps the dialer, and the latch it holds, forever.
CreateConnection(d) ==
    /\ dPc[d] = "dial"
    /\ \/ /\ lockHolder' = [lockHolder EXCEPT ![Expected[d]] = NoConn]
          /\ \/ /\ dPc' = [dPc EXCEPT ![d] = "disc"]
                /\ UNCHANGED connState
             \/ /\ ~stopping
                /\ Expected[d] \in {Nil, Endpoint[d]}
                /\ connState' = [connState EXCEPT ![d] = "open"]
                /\ dPc' = [dPc EXCEPT ![d] = "commit"]
       \/ /\ dPc' = [dPc EXCEPT ![d] = "hung"]
          /\ UNCHANGED <<lockHolder, connState>>
    /\ UNCHANGED <<stopping, closing, store, serviced, dUse, iPc, dead>>

\* Mutant: the loser of a crossed dial replaces the stored session
\* instead of closing itself (last writer wins).
GetConnCommitReplace(d) ==
    /\ dPc[d] = "commit"
    /\ \/ /\ closing
          /\ connState' = [connState EXCEPT ![d] = "closed"]
          /\ dPc' = [dPc EXCEPT ![d] = "disc"]
          /\ UNCHANGED <<store, serviced, dUse>>
       \/ /\ ~closing
          /\ connState' = [c \in Conns |->
                IF c = store[ConnID(d)] THEN "closed" ELSE connState[c]]
          /\ store' = [store EXCEPT ![ConnID(d)] = d]
          /\ serviced' = serviced \cup {d}
          /\ dUse' = [dUse EXCEPT ![d] = d]
          /\ dPc' = [dPc EXCEPT ![d] = "send"]
    /\ UNCHANGED <<stopping, closing, lockHolder, iPc, dead>>

\* getConnection after the dial: a closed store fails; whoever committed
\* first for the PKI-ID wins and the new connection is closed; otherwise it
\* is stored under its PKI-ID and its service loop starts.
GetConnCommit(d) ==
    /\ dPc[d] = "commit"
    /\ \/ /\ closing
          /\ connState' = [connState EXCEPT ![d] = "closed"]
          /\ dPc' = [dPc EXCEPT ![d] = "disc"]
          /\ UNCHANGED <<store, serviced, dUse>>
       \/ /\ ~closing
          /\ store[ConnID(d)] # NoConn
          /\ connState' = [connState EXCEPT ![d] = "closed"]
          /\ dUse' = [dUse EXCEPT ![d] = store[ConnID(d)]]
          /\ dPc' = [dPc EXCEPT ![d] = "send"]
          /\ UNCHANGED <<store, serviced>>
       \/ /\ ~closing
          /\ store[ConnID(d)] = NoConn
          /\ store' = [store EXCEPT ![ConnID(d)] = d]
          /\ serviced' = serviced \cup {d}
          /\ dUse' = [dUse EXCEPT ![d] = d]
          /\ dPc' = [dPc EXCEPT ![d] = "send"]
          /\ UNCHANGED connState
    /\ UNCHANGED <<stopping, closing, lockHolder, iPc, dead>>

\* conn.send(msg, disConnectOnErr): queued, or the send buffer overflows or
\* the stream is broken and disconnect(peer.PKIID) follows.
ConnSend(d) ==
    /\ dPc[d] = "send"
    /\ \E next \in {"done", "disc"} : dPc' = [dPc EXCEPT ![d] = next]
    /\ UNCHANGED <<stopping, closing, store, lockHolder, connState, 
                   serviced, dUse, iPc, dead>>

\* disconnect (lines 524-527): if c.isStopping() { return }
Disconnect(d) ==
    /\ dPc[d] = "disc"
    /\ dPc' = [dPc EXCEPT ![d] = IF stopping THEN "done" ELSE "write"]
    /\ UNCHANGED <<stopping, closing, store, lockHolder, connState,
                   serviced, dUse, iPc, dead>>

\* c.deadEndpoints <- pkiID, which blocks while the buffer is full; then
\* c.connStore.closeByPKIid(pkiID) (lines 528-529).
DisconnectWrite(d) ==
    /\ dPc[d] = "write"
    /\ dead < DeadCap
    /\ dead' = dead + 1
    /\ store' = CloseByPKIidStore(Expected[d])
    /\ connState' = CloseByPKIidConns(Expected[d])
    /\ dPc' = [dPc EXCEPT ![d] = "done"]
    /\ UNCHANGED <<stopping, closing, lockHolder, serviced, dUse, iPc>>

\* The reader of PresumedDead() takes one PKI-ID (environment).
DrainDead ==
    /\ dead > 0
    /\ dead' = dead - 1
    /\ UNCHANGED <<stopping, closing, store, lockHolder, connState,
                   serviced, dPc, dUse, iPc>>

-----------------------------------------------------------------------------
(* Inbound: GossipStream (lines 481-518).                                  *)

\* if c.isStopping() { return err }; authenticateRemotePeer; on failure the
\* stream is closed.
GossipStreamAuth(i) ==
    /\ iPc[i] = "idle"
    /\ \/ iPc' = [iPc EXCEPT ![i] = "done"]
       \/ /\ ~stopping
          /\ iPc' = [iPc EXCEPT ![i] = "onconn"]
    /\ UNCHANGED <<stopping, closing, store, lockHolder, connState, 
                   serviced, dUse, dPc, dead>>
\* Mutant: onConnected that files the new stream even when the PKI-ID
\* already has a session.
OnConnectedNoCheck(i) ==
    /\ iPc[i] = "onconn"
    /\ store' = [store EXCEPT ![InboundFrom[i]] = i]
    /\ connState' = [connState EXCEPT ![i] = "open"]
    /\ serviced' = serviced \cup {i}
    /\ iPc' = [iPc EXCEPT ![i] = "serve"]
    /\ UNCHANGED <<stopping, closing, lockHolder, dUse, dPc, dead>>


\* connStore.onConnected: refused when the PKI-ID already has an entry (the
\* handler returns and the stream closes); otherwise stored and serviced.
OnConnected(i) ==
    /\ iPc[i] = "onconn"
    /\ IF store[InboundFrom[i]] # NoConn
       THEN /\ iPc' = [iPc EXCEPT ![i] = "done"]
            /\ UNCHANGED <<store, connState, serviced>>
       ELSE /\ store' = [store EXCEPT ![InboundFrom[i]] = i]
            /\ connState' = [connState EXCEPT ![i] = "open"]
            /\ serviced' = serviced \cup {i}
            /\ iPc' = [iPc EXCEPT ![i] = "serve"]
    /\ UNCHANGED <<stopping, closing, lockHolder, dUse, dPc, dead>>

\* conn.serviceConnection() returns: the connection was closed locally, or
\* the remote side hung up or the stream broke (at any time).
ServiceEnd(i) ==
    /\ iPc[i] = "serve"
    /\ iPc' = [iPc EXCEPT ![i] = "teardown"]
    /\ UNCHANGED <<stopping, closing, store, lockHolder, connState, 
                   serviced, dUse, dPc, dead>>

\* The deferred c.connStore.closeByPKIid(connInfo.ID); conn.close()
StreamTeardown(i) ==
    /\ iPc[i] = "teardown"
    /\ store' = CloseByPKIidStore(ConnID(i))
    /\ connState' = [CloseByPKIidConns(ConnID(i)) EXCEPT ![i] = "closed"]
    /\ iPc' = [iPc EXCEPT ![i] = "done"]
    /\ UNCHANGED <<stopping, closing, lockHolder, serviced, dUse, dPc, dead>>

-----------------------------------------------------------------------------
(* Facade calls made by the rest of the peer.                              *)

\* CloseConn (lines 344-347): connStore.closeConn(peer), i.e. closeByPKIid.
CloseConn(p) ==
    /\ store[p] # NoConn
    /\ store' = CloseByPKIidStore(p)
    /\ connState' = CloseByPKIidConns(p)
    /\ UNCHANGED <<stopping, closing, lockHolder, serviced, dPc,
                   dUse, iPc, dead>>

\* Stop (lines 357-370): stopping is set, then connStore.shutdown() closes
\* every stored connection and refuses further work.
StopSet ==
    /\ ~stopping
    /\ stopping' = TRUE
    /\ UNCHANGED <<closing, store, lockHolder, connState, serviced,
                   dPc, dUse, iPc, dead>>

StoreShutdown ==
    /\ stopping /\ ~closing
    /\ closing' = TRUE
    /\ store' = [p \in Peers |-> NoConn]
    /\ connState' = [c \in Conns |->
                       IF \E p \in Peers : store[p] = c
                       THEN "closed" ELSE connState[c]]
    /\ UNCHANGED <<stopping, lockHolder, serviced, dPc, dUse, iPc, dead>>

-----------------------------------------------------------------------------
DialStep(d) ==
    \/ SendToEndpoint(d) \/ GetConnLock(d) \/ GetConnCheck(d)
    \/ CreateConnection(d) \/ GetConnCommit(d) \/ ConnSend(d)
    \/ Disconnect(d) \/ DisconnectWrite(d)

InboundStep(i) ==
    \/ GossipStreamAuth(i) \/ OnConnected(i) \/ ServiceEnd(i)
    \/ StreamTeardown(i)

\* Every goroutine has returned, or hangs in a Ping that is never answered.
Done ==
    /\ \A d \in Dialers : dPc[d] \in {"done", "hung"}
    /\ \A i \in Inbounds : iPc[i] = "done"

Next ==
    \/ \E d \in Dialers : DialStep(d)
    \/ \E i \in Inbounds : InboundStep(i)
    \/ \E p \in Peers : CloseConn(p)
    \/ StopSet \/ StoreShutdown
    \/ DrainDead
    \/ Done /\ UNCHANGED vars

\* Goroutines are scheduled fairly; a service loop is only obliged to end
\* once its connection is closed; Stop and CloseConn are calls of the
\* environment, never obliged to happen.
Fairness ==
    /\ \A d \in Dialers : WF_vars(DialStep(d))
    /\ \A i \in Inbounds :
          /\ WF_vars(GossipStreamAuth(i) \/ OnConnected(i) \/ StreamTeardown(i))
          /\ WF_vars(connState[i] = "closed" /\ ServiceEnd(i))

Spec == Init /\ [][Next]_vars /\ Fairness

-----------------------------------------------------------------------------
(* Properties.                                                             *)

TypeOK ==
    /\ stopping \in BOOLEAN
    /\ closing \in BOOLEAN
    /\ store \in [Peers -> Conns \cup {NoConn}]
    /\ lockHolder \in [Keys -> Dialers \cup {NoConn}]
    /\ connState \in [Conns -> {"none", "open", "closed"}]
    /\ serviced \in SUBSET Conns
    /\ dPc \in [Dialers -> DialLabels]
    /\ dUse \in [Dialers -> Conns \cup {NoConn}]
    /\ iPc \in [Inbounds -> InboundLabels]
    /\ dead \in 0..DeadCap

\* At most one session per PKI-ID, whatever the interleaving of outbound
\* dials (getConnection) and inbound streams (onConnected) for that peer,
\* crossed dials included (spec section 3 and scenario 2).
AtMostOneLiveSession ==
    \A p \in Peers : \A c1, c2 \in Conns :
        (Live(c1) /\ Live(c2) /\ ConnID(c1) = p /\ ConnID(c2) = p) => c1 = c2

\* Every entry of the store is a session whose connInfo.ID is its key:
\* a connection that is closed is never left behind in the store, and no
\* connection is filed under another peer's PKI-ID (spec section 3).
StoreEntriesAreSessions ==
    \A p \in Peers :
        store[p] # NoConn => Live(store[p]) /\ ConnID(store[p]) = p

\* When an inbound stream ends, its teardown closes only its own
\* connection: the deferred closeByPKIid(connInfo.ID) must not close a
\* newer session that has meanwhile been stored for the same PKI-ID.
TeardownClosesOnlyOwn ==
    [][\A i \in Inbounds :
         StreamTeardown(i) =>
            \A c \in Conns \ {i} : Live(c) => connState'[c] = "open"]_vars

-----------------------------------------------------------------------------
(* Inductive invariant behind AtMostOneLiveSession.                        *)

\* Every session is the store's entry for its PKI-ID.
SessionsAreStored ==
    \A c \in Conns : Live(c) => store[ConnID(c)] = c

\* A dialer's connection does not exist before createConnection, and is
\* open but not yet in service while it waits to be committed; an inbound
\* stream has no connection before onConnected.
ConnLifecycle ==
    /\ \A d \in Dialers :
          /\ dPc[d] \in {"idle", "lock", "check", "dial", "hung"} =>
                connState[d] = "none" /\ d \notin serviced
          /\ dPc[d] = "commit" => connState[d] = "open" /\ d \notin serviced
    /\ \A i \in Inbounds :
          iPc[i] \in {"idle", "onconn"} =>
                connState[i] = "none" /\ i \notin serviced

IInv ==
    /\ TypeOK
    /\ StoreEntriesAreSessions
    /\ SessionsAreStored
    /\ ConnLifecycle

-----------------------------------------------------------------------------
(* Refinement: the store is the session map of SessionMap.                 *)

SM == INSTANCE SessionMap WITH sess <- store, used <- serviced

\* The store keeps the promise of spec section 4.4: every change of
\* pki2Conn, by getConnection, onConnected, closeByPKIid, closeConn or
\* shutdown, files a fresh connection under a PKI-ID that has no session,
\* or removes sessions; a stored session is never replaced.
SessionMapSpec == SM!SMSpec

=============================================================================
