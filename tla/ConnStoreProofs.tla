--------------------------- MODULE ConnStoreProofs ---------------------------
(***************************************************************************)
(* Proofs about ConnStore for every instance of its constants: the type   *)
(* invariant, at most one session per PKI-ID and a store that holds only  *)
(* sessions, through the inductive invariant IInv; and that the store     *)
(* implements the session map of SessionMap.                               *)
(***************************************************************************)
EXTENDS ConnStore, TLAPS

\* The PKI-ID of every connection is a peer.
LEMMA ConnIDType == \A c \in Conns : ConnID(c) \in Peers
BY StoreAssumption DEF ConnID, Conns

\* IInv holds initially.
LEMMA InitIInv == Init => IInv
<1> SUFFICES ASSUME Init PROVE IInv
  OBVIOUS
<1>1. TypeOK
  <2>1. dead \in 0..DeadCap
    BY StoreAssumption DEF Init
  <2>2. QED
    BY <2>1 DEF Init, TypeOK, DialLabels, InboundLabels, Keys, Conns
<1>2. StoreEntriesAreSessions
  BY DEF Init, StoreEntriesAreSessions
<1>3. SessionsAreStored
  BY DEF Init, SessionsAreStored, Live
<1>4. ConnLifecycle
  BY DEF Init, ConnLifecycle, Conns
<1>5. QED
  BY <1>1, <1>2, <1>3, <1>4 DEF IInv

\* Every step of Next, and every stuttering step, preserves IInv.
LEMMA NextIInv == IInv /\ [Next]_vars => IInv'
<1> SUFFICES ASSUME IInv, [Next]_vars PROVE IInv'
    OBVIOUS
<1> USE StoreAssumption, ConnIDType
    DEF IInv, TypeOK, StoreEntriesAreSessions, SessionsAreStored,
        ConnLifecycle, Live, DialLabels, InboundLabels, Keys, Conns
<1>1. ASSUME NEW d \in Dialers, SendToEndpoint(d) PROVE IInv'
  BY <1>1 DEF SendToEndpoint
<1>2. ASSUME NEW d \in Dialers, GetConnLock(d) PROVE IInv'
  BY <1>2 DEF GetConnLock
<1>3. ASSUME NEW d \in Dialers, GetConnCheck(d) PROVE IInv'
  <2>1. CASE Expected[d] \in Peers /\ store[Expected[d]] # NoConn
    BY <1>3, <2>1 DEF GetConnCheck
  <2>2. CASE ~(Expected[d] \in Peers /\ store[Expected[d]] # NoConn)
    BY <1>3, <2>2 DEF GetConnCheck
  <2>3. QED
    BY <2>1, <2>2
<1>4. ASSUME NEW d \in Dialers, CreateConnection(d) PROVE IInv'
  BY <1>4 DEF CreateConnection
<1>5. ASSUME NEW d \in Dialers, GetConnCommit(d) PROVE IInv'
  BY <1>5 DEF GetConnCommit
<1>6. ASSUME NEW d \in Dialers, ConnSend(d) PROVE IInv'
  BY <1>6 DEF ConnSend
<1>7. ASSUME NEW d \in Dialers, Disconnect(d) PROVE IInv'
  BY <1>7 DEF Disconnect
<1>17. ASSUME NEW d \in Dialers, DisconnectWrite(d) PROVE IInv'
  BY <1>17 DEF DisconnectWrite, CloseByPKIidStore, CloseByPKIidConns
<1>18. CASE DrainDead
  BY <1>18 DEF DrainDead
<1>8. ASSUME NEW i \in Inbounds, GossipStreamAuth(i) PROVE IInv'
  BY <1>8 DEF GossipStreamAuth
<1>9. ASSUME NEW i \in Inbounds, OnConnected(i) PROVE IInv'
  <2>1. CASE store[InboundFrom[i]] # NoConn
    BY <1>9, <2>1 DEF OnConnected
  <2>2. CASE store[InboundFrom[i]] = NoConn
    <3>1. ConnID(i) = InboundFrom[i]
      BY DEF ConnID
    <3>2. QED
      BY <1>9, <2>2, <3>1 DEF OnConnected
  <2>3. QED
    BY <2>1, <2>2
<1>10. ASSUME NEW i \in Inbounds, ServiceEnd(i) PROVE IInv'
  BY <1>10 DEF ServiceEnd
<1>11. ASSUME NEW i \in Inbounds, StreamTeardown(i) PROVE IInv'
  BY <1>11 DEF StreamTeardown, CloseByPKIidStore, CloseByPKIidConns
<1>12. ASSUME NEW p \in Peers, CloseConn(p) PROVE IInv'
  BY <1>12 DEF CloseConn, CloseByPKIidStore, CloseByPKIidConns
<1>13. CASE StopSet
  BY <1>13 DEF StopSet
<1>14. CASE StoreShutdown
  BY <1>14 DEF StoreShutdown
<1>15. CASE UNCHANGED vars
  BY <1>15 DEF vars
<1>16. QED
  BY <1>1, <1>2, <1>3, <1>4, <1>5, <1>6, <1>7, <1>8, <1>9, <1>10, <1>11,
     <1>12, <1>13, <1>14, <1>15, <1>17, <1>18
     DEF Next, DialStep, InboundStep, Done

\* The inductive invariant gives at most one session per PKI-ID.
LEMMA IInvAtMostOne == IInv => AtMostOneLiveSession
BY DEF IInv, SessionsAreStored, AtMostOneLiveSession

\* Type correctness of the session manager.
THEOREM TypeCorrect == Spec => []TypeOK
<1>1. IInv => TypeOK
  BY DEF IInv
<1>2. QED
  BY <1>1, InitIInv, NextIInv, PTL DEF Spec

\* However outbound dials and inbound streams for the same peer interleave,
\* and whatever disconnect, CloseConn and Stop do meanwhile, no PKI-ID ever
\* has two sessions.
THEOREM SingleSession == Spec => []AtMostOneLiveSession
BY InitIInv, NextIInv, IInvAtMostOne, PTL DEF Spec

\* The store only ever holds sessions filed under their own PKI-ID, even
\* when Stop shuts the store down while a dial is being committed.
THEOREM StoreHoldsSessions == Spec => []StoreEntriesAreSessions
<1>1. IInv => StoreEntriesAreSessions
  BY DEF IInv
<1>2. QED
  BY <1>1, InitIInv, NextIInv, PTL DEF Spec

-----------------------------------------------------------------------------
(* Refinement of SessionMap under sess <- store, used <- serviced.         *)

\* The initial store is the empty session map.
LEMMA InitRefines == Init => SM!SMInit
BY DEF Init, SM!SMInit

\* closeByPKIid(k) is a Close of the session map, or leaves it alone.
LEMMA CloseByPKIidRefines ==
    ASSUME TypeOK, NEW k \in Keys,
           store' = CloseByPKIidStore(k), serviced' = serviced
    PROVE  [SM!SMNext]_SM!smVars
<1>1. CASE k \in Peers /\ store[k] # NoConn
  <2>1. SM!Close(k)
    BY <1>1 DEF CloseByPKIidStore, SM!Close
  <2>2. QED
    BY <1>1, <2>1 DEF SM!SMNext
<1>2. CASE ~(k \in Peers /\ store[k] # NoConn)
  BY <1>2 DEF CloseByPKIidStore, SM!smVars
<1>3. QED
  BY <1>1, <1>2

\* Under IInv, every step of Next is a step of SMNext or leaves the map
\* and the used connections alone.
LEMMA NextRefines == IInv /\ [Next]_vars => [SM!SMNext]_SM!smVars
<1> SUFFICES ASSUME IInv, [Next]_vars PROVE [SM!SMNext]_SM!smVars
    OBVIOUS
<1> USE StoreAssumption, ConnIDType DEF IInv, Keys, Conns
<1>0. UNCHANGED <<store, serviced>> => [SM!SMNext]_SM!smVars
  BY DEF SM!smVars
<1>1. ASSUME NEW d \in Dialers, GetConnCommit(d)
      PROVE  [SM!SMNext]_SM!smVars
  <2>1. CASE closing \/ store[ConnID(d)] # NoConn
    BY <1>0, <1>1, <2>1 DEF GetConnCommit
  <2>2. CASE ~closing /\ store[ConnID(d)] = NoConn
    <3>1. d \notin serviced
      BY <1>1 DEF GetConnCommit, ConnLifecycle
    <3>2. SM!Open(ConnID(d), d)
      BY <1>1, <2>2, <3>1 DEF GetConnCommit, SM!Open
    <3>3. QED
      BY <3>2 DEF SM!SMNext
  <2>3. QED
    BY <2>1, <2>2
<1>2. ASSUME NEW d \in Dialers, DisconnectWrite(d)
      PROVE  [SM!SMNext]_SM!smVars
  BY <1>2, CloseByPKIidRefines DEF DisconnectWrite
<1>3. ASSUME NEW i \in Inbounds, OnConnected(i) PROVE [SM!SMNext]_SM!smVars
  <2>1. CASE store[InboundFrom[i]] # NoConn
    BY <1>0, <1>3, <2>1 DEF OnConnected
  <2>2. CASE store[InboundFrom[i]] = NoConn
    <3>1. i \notin serviced
      BY <1>3 DEF OnConnected, ConnLifecycle
    <3>2. SM!Open(InboundFrom[i], i)
      BY <1>3, <2>2, <3>1 DEF OnConnected, SM!Open, TypeOK
    <3>3. QED
      BY <3>2 DEF SM!SMNext
  <2>3. QED
    BY <2>1, <2>2
<1>4. ASSUME NEW i \in Inbounds, StreamTeardown(i)
      PROVE  [SM!SMNext]_SM!smVars
  BY <1>4, CloseByPKIidRefines DEF StreamTeardown
<1>5. ASSUME NEW p \in Peers, CloseConn(p) PROVE [SM!SMNext]_SM!smVars
  BY <1>5, CloseByPKIidRefines DEF CloseConn
<1>6. CASE StoreShutdown
  <2>1. SM!CloseAll
    BY <1>6 DEF StoreShutdown, SM!CloseAll
  <2>2. QED
    BY <2>1 DEF SM!SMNext
<1>7. CASE \/ \E d \in Dialers :
                \/ SendToEndpoint(d) \/ GetConnLock(d) \/ GetConnCheck(d)
                \/ CreateConnection(d) \/ ConnSend(d) \/ Disconnect(d)
           \/ \E i \in Inbounds : GossipStreamAuth(i) \/ ServiceEnd(i)
           \/ StopSet \/ DrainDead
           \/ UNCHANGED vars
  BY <1>0, <1>7 DEF SendToEndpoint, GetConnLock, GetConnCheck,
     CreateConnection, ConnSend, Disconnect, GossipStreamAuth, ServiceEnd,
     StopSet, DrainDead, vars
<1>8. QED
  BY <1>1, <1>2, <1>3, <1>4, <1>5, <1>6, <1>7
     DEF Next, DialStep, InboundStep, Done

\* The connection store implements the session map: whatever the dialers,
\* inbound streams, disconnects, CloseConn and Stop do, pki2Conn only
\* changes by filing a fresh connection under a free PKI-ID or by closing.
THEOREM Refinement == Spec => SessionMapSpec
<1>1. Spec => []IInv
  BY InitIInv, NextIInv, PTL DEF Spec
<1>2. QED
  BY <1>1, InitRefines, NextRefines, PTL DEF Spec, SessionMapSpec, SM!SMSpec

=============================================================================
