------------------------- MODULE CommLifecycleProofs -------------------------
(***************************************************************************)
(* Proofs about CommLifecycle for every instance of its constants: the    *)
(* type invariant and the stopWG accounting, from which Stop's Wait joins *)
(* every goroutine the wait group counts.                                  *)
(***************************************************************************)
EXTENDS CommLifecycle, FiniteSetTheorems, TLAPS

\* The counter of stopWG is the number of goroutines between their Add(1)
\* and their Done(): the Serve goroutine and the counted bridges.
WGAccount == wg = Cardinality(Counted) + (IF serving THEN 1 ELSE 0)

\* A bridge goroutine exists only once its Accept has registered it.
BridgeAfterRegister ==
    \A s \in Subscribers : accPc[s] # "done" => bridgePc[s] = "none"

LInv == TypeOK /\ WGAccount /\ BridgeAfterRegister

-----------------------------------------------------------------------------
(* Counting the bridges between Add and Done.                              *)

CountedLabels == {"loop", "send", "reput"}

\* The counted bridges form a finite set.
LEMMA CountedFinite ==
    ASSUME NEW B
    PROVE  /\ IsFiniteSet({s \in Subscribers : B[s] \in CountedLabels})
           /\ Cardinality({s \in Subscribers : B[s] \in CountedLabels}) \in Nat
BY ConstantsAssumption, FS_Subset, FS_CardinalityType

\* A step of one bridge s changes the counted set by at most s.
LEMMA CountedStep ==
    ASSUME NEW s \in Subscribers, NEW v,
           bridgePc \in [Subscribers -> BridgeLabels],
           bridgePc' = [bridgePc EXCEPT ![s] = v]
    PROVE  /\ bridgePc[s] \notin CountedLabels /\ v \in CountedLabels =>
                Cardinality(Counted') = Cardinality(Counted) + 1
           /\ bridgePc[s] \in CountedLabels /\ v \notin CountedLabels =>
                Cardinality(Counted') = Cardinality(Counted) - 1
           /\ (bridgePc[s] \in CountedLabels <=> v \in CountedLabels) =>
                Cardinality(Counted') = Cardinality(Counted)
<1> DEFINE C == {x \in Subscribers : bridgePc[x] \in CountedLabels}
           C1 == {x \in Subscribers : bridgePc'[x] \in CountedLabels}
<1>1. Counted = C /\ Counted' = C1
  BY DEF Counted, CountedLabels
<1>2. IsFiniteSet(C)
  BY CountedFinite
<1>3. bridgePc[s] \notin CountedLabels /\ v \in CountedLabels =>
         C1 = C \cup {s} /\ s \notin C
  OBVIOUS
<1>4. bridgePc[s] \in CountedLabels /\ v \notin CountedLabels =>
         C1 = C \ {s} /\ s \in C
  OBVIOUS
<1>5. (bridgePc[s] \in CountedLabels <=> v \in CountedLabels) => C1 = C
  OBVIOUS
<1>6. s \notin C => Cardinality(C \cup {s}) = Cardinality(C) + 1
  BY <1>2, FS_AddElement
<1>7. s \in C => Cardinality(C \ {s}) = Cardinality(C) - 1
  BY <1>2, FS_RemoveElement
<1>8. QED
  BY <1>1, <1>3, <1>4, <1>5, <1>6, <1>7

-----------------------------------------------------------------------------
\* LInv holds initially: only the Serve goroutine is counted.
LEMMA InitLInv == Init => LInv
<1> SUFFICES ASSUME Init PROVE LInv
  OBVIOUS
<1>1. TypeOK
  <2>1. /\ stopPc \in [Stoppers -> StopLabels]
        /\ accPc \in [Subscribers -> AcceptLabels]
        /\ bridgePc \in [Subscribers -> BridgeLabels]
        /\ sndPc \in [Senders -> SendLabels]
    BY DEF Init, StopLabels, AcceptLabels, BridgeLabels, SendLabels
  <2>2. /\ genState \in [Subscribers -> ChanStates]
        /\ specState \in [Subscribers -> ChanStates \ {"orphan"}]
        /\ genLen \in [Subscribers -> 0..GenericCap]
        /\ specLen \in [Subscribers -> 0..SubCap]
    BY ConstantsAssumption DEF Init, ChanStates
  <2>3. /\ wg \in Nat /\ waiters \in Nat /\ sema \in Nat
        /\ exitTok \in 0..1 /\ dead \in 0..DeadCap
        /\ demuxed \in 0..MaxMsgs
    BY ConstantsAssumption DEF Init
  <2>4. /\ stopping \in BOOLEAN /\ subs \in SUBSET Subscribers
        /\ demuxClosed \in BOOLEAN /\ srvStopped \in BOOLEAN
        /\ serving \in BOOLEAN /\ panicked \in BOOLEAN
    BY DEF Init
  <2>5. QED
    BY <2>1, <2>2, <2>3, <2>4 DEF TypeOK
<1>2. Counted = {}
  BY DEF Init, Counted
<1>3. WGAccount
  BY <1>2, FS_EmptySet DEF Init, WGAccount
<1>4. BridgeAfterRegister
  BY DEF Init, BridgeAfterRegister
<1>5. QED
  BY <1>1, <1>3, <1>4 DEF LInv

\* Counted' is finite, and its size a natural number.
LEMMA CountedPrimeFinite == Cardinality(Counted') \in Nat
BY CountedFinite DEF Counted, CountedLabels

\* Actions of the goroutines that do not touch stopWG or the bridges.
OtherAction ==
    \/ \E t \in Stoppers : StopStep(t)
    \/ \E s \in Subscribers : AcceptAdd(s) \/ AcceptCheck(s) \/ Consume(s)
    \/ DeMultiplex
    \/ \E d \in Senders : SendStep(d)
    \/ DrainDead

\* Each step keeps the stopWG counter equal to the goroutines it counts.
LEMMA NextWGAccount == LInv /\ [Next]_vars => WGAccount'
<1> SUFFICES ASSUME LInv, [Next]_vars PROVE WGAccount'
    OBVIOUS
<1> USE DEF LInv, TypeOK
<1>0. Cardinality(Counted) \in Nat
  BY CountedFinite DEF Counted, CountedLabels
<1>1. ASSUME UNCHANGED <<bridgePc, serving, wg>> PROVE WGAccount'
  <2>1. Counted' = Counted
    BY <1>1 DEF Counted
  <2>2. QED
    BY <1>1, <2>1 DEF WGAccount
<1>2. CASE OtherAction \/ UNCHANGED vars
  <2>1. UNCHANGED <<bridgePc, serving, wg>>
    BY <1>2 DEF OtherAction, StopStep, StopCall, StopStore, StopShutdown,
       StopExit, StopClosePublisher, StopEmpty, StopWait, StopWake, AcceptAdd,
       AcceptCheck, Consume, DeMultiplex, SendStep, SendCall, SendCheck,
       SendGet, DisconnectCheck, DisconnectWrite, DrainDead, vars
  <2>2. QED
    BY <1>1, <2>1
<1>3. CASE ServeReturn
  <2>1. Counted' = Counted
    BY <1>3 DEF ServeReturn, Counted
  <2>2. QED
    BY <1>0, <1>3, <2>1 DEF ServeReturn, WGDone, WGAccount
<1>4. ASSUME NEW s \in Subscribers, AcceptRegister(s) PROVE WGAccount'
  <2>1. Counted' = Counted
    BY <1>4 DEF AcceptRegister, BridgeAfterRegister, Counted
  <2>2. QED
    BY <1>4, <2>1 DEF AcceptRegister, WGAccount
<1>5. ASSUME NEW s \in Subscribers, BridgeStep(s) PROVE WGAccount'
  <2>1. CASE BridgeStart(s)
    <3>1. Cardinality(Counted') = Cardinality(Counted) + 1
      BY <2>1, CountedStep DEF BridgeStart, CountedLabels
    <3>2. QED
      BY <1>0, <2>1, <3>1 DEF BridgeStart, WGAccount
  <2>2. CASE BridgeRecvMsg(s) \/ BridgeRecvExit(s)
    <3>1. Cardinality(Counted') = Cardinality(Counted)
      BY <2>2, CountedStep DEF BridgeRecvMsg, BridgeRecvExit, CountedLabels
    <3>2. QED
      BY <1>0, <2>2, <3>1 DEF BridgeRecvMsg, BridgeRecvExit, WGAccount
  <2>3. CASE BridgeRecvClosed(s) \/ BridgeReput(s)
    <3>1. Cardinality(Counted') = Cardinality(Counted) - 1
      BY <2>3, CountedStep DEF BridgeRecvClosed, BridgeReput, CountedLabels
    <3>2. QED
      BY <1>0, <2>3, <3>1 DEF BridgeRecvClosed, BridgeReput, WGDone, WGAccount
  <2>4. CASE BridgeSend(s) /\ bridgePc'[s] = "loop"
    <3>1. Cardinality(Counted') = Cardinality(Counted)
      BY <2>4, CountedStep DEF BridgeSend, CountedLabels
    <3>2. QED
      BY <1>0, <2>4, <3>1 DEF BridgeSend, WGAccount
  <2>5. CASE BridgeSend(s) /\ bridgePc'[s] # "loop"
    <3>1. Cardinality(Counted') = Cardinality(Counted) - 1
      BY <2>5, CountedStep DEF BridgeSend, CountedLabels
    <3>2. QED
      BY <1>0, <2>5, <3>1 DEF BridgeSend, WGDone, WGAccount
  <2>6. QED
    BY <1>5, <2>1, <2>2, <2>3, <2>4, <2>5 DEF BridgeStep
<1>6. QED
  BY <1>2, <1>3, <1>4, <1>5 DEF Next, OtherAction, AcceptStep

\* A bridge goroutine only ever starts from Accept's registration.
LEMMA NextBridgeAfterRegister == LInv /\ [Next]_vars => BridgeAfterRegister'
<1> SUFFICES ASSUME LInv, [Next]_vars PROVE BridgeAfterRegister'
    OBVIOUS
<1> USE DEF LInv, TypeOK, BridgeAfterRegister
<1>1. CASE UNCHANGED <<accPc, bridgePc>>
  BY <1>1
<1>2. CASE \E t \in Stoppers : StopStep(t)
  BY <1>1, <1>2 DEF StopStep, StopCall, StopStore, StopShutdown,
     StopExit, StopClosePublisher, StopEmpty, StopWait, StopWake
<1>3. ASSUME NEW s \in Subscribers, AcceptStep(s) PROVE BridgeAfterRegister'
  BY <1>3 DEF AcceptStep, AcceptAdd, AcceptCheck, AcceptRegister
<1>4. ASSUME NEW s \in Subscribers, BridgeStep(s) PROVE BridgeAfterRegister'
  BY <1>4 DEF BridgeStep, BridgeStart, BridgeRecvMsg, BridgeRecvClosed,
     BridgeRecvExit, BridgeReput, BridgeSend
<1>5. CASE ServeReturn \/ DeMultiplex \/ DrainDead \/ UNCHANGED vars
       \/ \E s \in Subscribers : Consume(s)
  BY <1>1, <1>5 DEF ServeReturn, DeMultiplex, DrainDead, Consume, vars
<1>6. CASE \E d \in Senders : SendStep(d)
  BY <1>1, <1>6 DEF SendStep, SendCall, SendCheck, SendGet,
     DisconnectCheck, DisconnectWrite
<1>7. QED
  BY <1>2, <1>3, <1>4, <1>5, <1>6 DEF Next

\* The type is kept; the counter stays a natural number because it counts.
LEMMA NextTypeOK == LInv /\ [Next]_vars /\ WGAccount' => TypeOK'
<1> SUFFICES ASSUME LInv, [Next]_vars, WGAccount' PROVE TypeOK'
    OBVIOUS
<1> USE ConstantsAssumption DEF LInv, TypeOK, StopLabels, AcceptLabels,
        BridgeLabels, SendLabels, ChanStates
<1>0. wg' \in Nat
  BY CountedPrimeFinite DEF WGAccount
<1>11. WGDone => waiters' \in Nat /\ sema' \in Nat
  BY DEF WGDone
<1>1. ASSUME NEW t \in Stoppers, StopStep(t) PROVE TypeOK'
  <2>1. CASE StopCall(t) \/ StopStore(t)
    BY <2>1 DEF StopCall, StopStore
  <2>8. CASE StopWait(t)
    <3>1. stopPc' \in [Stoppers -> StopLabels] /\ waiters' \in Nat
      BY <2>8 DEF StopWait
    <3>2. QED
      BY <2>8, <3>1 DEF StopWait
  <2>7. CASE StopWake(t)
    <3>1. panicked' \in BOOLEAN
      BY <2>7, Zenon DEF StopWake
    <3>2. QED
      BY <2>7, <3>1 DEF StopWake
  <2>5. CASE StopShutdown(t)
    <3>1. srvStopped' \in BOOLEAN
      BY <2>5, Zenon DEF StopShutdown
    <3>2. QED
      BY <2>5, <3>1 DEF StopShutdown
  <2>6. CASE StopExit(t)
    BY <2>6 DEF StopExit
  <2>2. CASE StopClosePublisher(t)
    BY <2>2 DEF StopClosePublisher
  <2>3. CASE StopEmpty(t)
    <3>1. panicked' \in BOOLEAN
      BY <2>3, Zenon DEF StopEmpty
    <3>2. QED
      BY <2>3, <3>1 DEF StopEmpty
  <2>4. QED
    BY <1>1, <2>1, <2>2, <2>3, <2>5, <2>6, <2>7, <2>8 DEF StopStep
<1>2. CASE ServeReturn
  BY <1>0, <1>2, <1>11 DEF ServeReturn
<1>3. ASSUME NEW s \in Subscribers, AcceptStep(s) PROVE TypeOK'
  BY <1>3 DEF AcceptStep, AcceptAdd, AcceptCheck, AcceptRegister
<1>4. ASSUME NEW s \in Subscribers, BridgeStep(s) PROVE TypeOK'
  <2>1. CASE BridgeStart(s)
    <3>1. panicked' \in BOOLEAN
      BY <2>1, Zenon DEF BridgeStart
    <3>2. QED
      BY <1>0, <2>1, <3>1 DEF BridgeStart
  <2>5. CASE BridgeRecvClosed(s) \/ BridgeReput(s)
    BY <1>0, <1>11, <2>5 DEF BridgeRecvClosed, BridgeReput
  <2>2. CASE BridgeRecvMsg(s) \/ BridgeRecvExit(s)
    BY <2>2 DEF BridgeRecvMsg, BridgeRecvExit
  <2>3. CASE BridgeSend(s)
    BY <1>0, <1>11, <2>3 DEF BridgeSend
  <2>4. QED
    BY <1>4, <2>1, <2>2, <2>3, <2>5 DEF BridgeStep
<1>5. ASSUME NEW s \in Subscribers, Consume(s) PROVE TypeOK'
  BY <1>5 DEF Consume
<1>6. CASE DeMultiplex
  BY <1>6 DEF DeMultiplex
<1>7. ASSUME NEW d \in Senders, SendStep(d) PROVE TypeOK'
  BY <1>7 DEF SendStep, SendCall, SendCheck, SendGet, DisconnectCheck,
     DisconnectWrite
<1>8. CASE DrainDead
  BY <1>8 DEF DrainDead
<1>9. CASE UNCHANGED vars
  BY <1>9 DEF vars
<1>10. QED
  BY <1>1, <1>2, <1>3, <1>4, <1>5, <1>6, <1>7, <1>8, <1>9 DEF Next

\* LInv is an inductive invariant.
LEMMA NextLInv == LInv /\ [Next]_vars => LInv'
BY NextWGAccount, NextBridgeAfterRegister, NextTypeOK DEF LInv

-----------------------------------------------------------------------------
\* Every reachable state is well typed (CommLifecycle's TypeOK).
THEOREM LifecycleTypeCorrect == Spec => []TypeOK
<1>1. Init => LInv
  BY InitLInv
<1>2. LInv /\ [Next]_vars => LInv'
  BY NextLInv
<1>3. LInv => TypeOK
  BY DEF LInv
<1>4. QED
  BY <1>1, <1>2, <1>3, PTL DEF Spec

\* Stop's stopWG.Wait() returns only when the Serve goroutine and every
\* bridge that did stopWG.Add(1) have called Done: the property the
\* lifecycle run checks, for every number of subscribers, senders and Stop
\* calls and every buffer size.
THEOREM WaitJoins == Spec => WaitJoinsCountedWorkers
<1>1. ASSUME LInv, NEW t \in Stoppers, StopWait(t) \/ StopWake(t),
             stopPc'[t] = "done"
      PROVE  Counted = {} /\ ~serving
  <2>1. wg = 0
    BY <1>1 DEF StopWait, StopWake, LInv, TypeOK
  <2>2. IsFiniteSet(Counted) /\ Cardinality(Counted) \in Nat
    BY CountedFinite DEF Counted, CountedLabels
  <2>3. Cardinality(Counted) = 0 /\ ~serving
    BY <1>1, <2>1, <2>2 DEF LInv, WGAccount, TypeOK
  <2>4. QED
    BY <2>2, <2>3, FS_EmptySet
<1>2. LInv /\ [Next]_vars => LInv'
  BY NextLInv
<1>3. Init => LInv
  BY InitLInv
<1>4. LInv => \A t \in Stoppers :
                (StopWait(t) \/ StopWake(t)) /\ stopPc'[t] = "done"
                   => Counted = {} /\ ~serving
  BY <1>1
<1>5. QED
  BY <1>2, <1>3, <1>4, PTL DEF Spec, WaitJoinsCountedWorkers

-----------------------------------------------------------------------------
(* The exit signal relayed through exitChan.                               *)

\* The number of elements of S that f maps into L.
CountIn(S, f, L) == Cardinality({y \in S : f[y] \in L})

\* A function g that differs from f at most at x changes the number of
\* elements of S that f maps into L by at most one.
LEMMA CountStep ==
    ASSUME NEW S, IsFiniteSet(S), NEW f, NEW g, NEW L, NEW x \in S,
           \A y \in S \ {x} : g[y] = f[y]
    PROVE  /\ CountIn(S, f, L) \in Nat /\ CountIn(S, g, L) \in Nat
           /\ f[x] \notin L /\ g[x] \in L =>
                CountIn(S, g, L) = CountIn(S, f, L) + 1
           /\ f[x] \in L /\ g[x] \notin L =>
                CountIn(S, f, L) = CountIn(S, g, L) + 1
           /\ (f[x] \in L <=> g[x] \in L) =>
                CountIn(S, g, L) = CountIn(S, f, L)
<1> DEFINE C  == {y \in S : f[y] \in L}
           C1 == {y \in S : g[y] \in L}
<1>0. CountIn(S, f, L) = Cardinality(C) /\ CountIn(S, g, L) = Cardinality(C1)
  BY DEF CountIn
<1>1. IsFiniteSet(C) /\ IsFiniteSet(C1)
  BY FS_Subset
<1>2. Cardinality(C) \in Nat /\ Cardinality(C1) \in Nat
  BY <1>1, FS_CardinalityType
<1>3. f[x] \notin L /\ g[x] \in L => C1 = C \cup {x} /\ x \notin C
  OBVIOUS
<1>4. f[x] \in L /\ g[x] \notin L => C1 = C \ {x} /\ x \in C
  OBVIOUS
<1>5. (f[x] \in L <=> g[x] \in L) => C1 = C
  OBVIOUS
<1>6. x \notin C => Cardinality(C \cup {x}) = Cardinality(C) + 1
  BY <1>1, FS_AddElement
<1>7. x \in C => Cardinality(C \ {x}) = Cardinality(C) - 1
  BY <1>1, FS_RemoveElement
<1>8. f[x] \in L /\ g[x] \notin L => Cardinality(C) = Cardinality(C1) + 1
  BY <1>2, <1>4, <1>7
<1>9. QED
  BY <1>0, <1>2, <1>3, <1>5, <1>6, <1>8

AfterExitLabels == {"close", "empty", "wait", "sleep", "done"}
InFlightLabels  == {"close", "empty", "wait", "sleep"}

HolderLabels    == {"reput"}

\* The signals in exitChan or held by a bridge.
Signals == exitTok + Cardinality(TokenHolders)

\* A step of Stop call t changes neither the holders nor, except for the
\* send on exitChan, exitTok; PastExit grows by t or stays.
LEMMA StopStepSignals ==
    ASSUME TypeOK, NEW t \in Stoppers, StopStep(t)
    PROVE  /\ Cardinality(TokenHolders') = Cardinality(TokenHolders)
           /\ Cardinality(PastExit) \in Nat
           /\ Cardinality(PastExit') \in Nat
           /\ Cardinality(PastExit) <= Cardinality(PastExit')
           /\ \/ /\ Signals' = Signals
                 /\ \A u \in Stoppers : stopPc'[u] \in InFlightLabels
                                          => stopPc[u] \in InFlightLabels
              \/ /\ Signals' = Signals + 1
                 /\ Cardinality(PastExit') = Cardinality(PastExit) + 1
<1> USE ConstantsAssumption DEF TypeOK, StopLabels
<1>1. TokenHolders' = TokenHolders
  BY DEF StopStep, StopCall, StopStore, StopShutdown, StopExit,
     StopClosePublisher, StopEmpty, StopWait, StopWake, TokenHolders
<1>2. Cardinality(TokenHolders) \in Nat
  BY FS_Subset, FS_CardinalityType DEF TokenHolders
<1>3. /\ Cardinality(PastExit) = CountIn(Stoppers, stopPc, AfterExitLabels)
      /\ Cardinality(PastExit') = CountIn(Stoppers, stopPc', AfterExitLabels)
  BY DEF PastExit, AfterExitLabels, CountIn
<1>4. PICK v : stopPc' = [stopPc EXCEPT ![t] = v]
  <2>1. stopPc = [stopPc EXCEPT ![t] = stopPc[t]]
    OBVIOUS
  <2>2. QED
    BY <2>1 DEF StopStep, StopCall, StopStore, StopShutdown, StopExit,
       StopClosePublisher, StopEmpty, StopWait, StopWake
<1>5. \A y \in Stoppers \ {t} : stopPc'[y] = stopPc[y]
  BY <1>4
<1>6. /\ CountIn(Stoppers, stopPc, AfterExitLabels) \in Nat
      /\ CountIn(Stoppers, stopPc', AfterExitLabels) \in Nat
      /\ stopPc[t] \notin AfterExitLabels /\ stopPc'[t] \in AfterExitLabels
           => CountIn(Stoppers, stopPc', AfterExitLabels)
                = CountIn(Stoppers, stopPc, AfterExitLabels) + 1
      /\ (stopPc[t] \in AfterExitLabels <=> stopPc'[t] \in AfterExitLabels)
           => CountIn(Stoppers, stopPc', AfterExitLabels)
                = CountIn(Stoppers, stopPc, AfterExitLabels)
  <2>1. IsFiniteSet(Stoppers)
    OBVIOUS
  <2>2. QED
    BY ONLY <1>5, <2>1, CountStep
<1>7. CASE StopExit(t)
  <2>1. stopPc[t] = "exit" /\ stopPc'[t] = "close" /\ exitTok' = exitTok + 1
    BY <1>7 DEF StopExit
  <2>2. QED
    BY <1>1, <1>2, <1>3, <1>6, <2>1 DEF Signals, AfterExitLabels
<1>8. CASE StopCall(t)
  <2>1. stopPc[t] = "idle" /\ stopPc'[t] \in {"done", "store"}
        /\ exitTok' = exitTok
    BY <1>8 DEF StopCall
  <2>2. \A u \in Stoppers : stopPc'[u] \in InFlightLabels
                              => stopPc[u] \in InFlightLabels
    BY <1>5, <2>1 DEF InFlightLabels
  <2>3. QED
    BY <1>1, <1>2, <1>3, <1>6, <2>1, <2>2 DEF Signals, AfterExitLabels
<1>9. CASE StopStore(t) \/ StopShutdown(t) \/ StopClosePublisher(t)
           \/ StopEmpty(t) \/ StopWait(t) \/ StopWake(t)
  <2>1. /\ stopPc[t] \in {"store", "shutdown", "close", "empty", "wait",
                          "sleep"}
        /\ stopPc'[t] \in {"shutdown", "exit", "empty", "wait", "sleep",
                           "done"}
        /\ stopPc[t] \in AfterExitLabels <=> stopPc'[t] \in AfterExitLabels
        /\ stopPc'[t] \in InFlightLabels => stopPc[t] \in InFlightLabels
        /\ exitTok' = exitTok
    BY <1>9 DEF StopStore, StopShutdown, StopClosePublisher, StopEmpty,
       StopWait, StopWake, AfterExitLabels, InFlightLabels
  <2>2. \A u \in Stoppers : stopPc'[u] \in InFlightLabels
                              => stopPc[u] \in InFlightLabels
    BY <1>5, <2>1
  <2>3. QED
    BY <1>1, <1>2, <1>3, <1>6, <2>1, <2>2 DEF Signals
<1>10. QED
  BY <1>7, <1>8, <1>9 DEF StopStep

\* A bridge passes the signal on and never makes or drops one.
LEMMA BridgeStepSignals ==
    ASSUME TypeOK, NEW s \in Subscribers, BridgeStep(s)
    PROVE  Signals' = Signals /\ UNCHANGED stopPc
<1> USE ConstantsAssumption DEF TypeOK, BridgeLabels
<1>1. /\ Cardinality(TokenHolders) = CountIn(Subscribers, bridgePc, HolderLabels)
      /\ Cardinality(TokenHolders') = CountIn(Subscribers, bridgePc', HolderLabels)
  BY DEF TokenHolders, CountIn, HolderLabels
<1>2. PICK v : bridgePc' = [bridgePc EXCEPT ![s] = v]
  BY DEF BridgeStep, BridgeStart, BridgeRecvMsg, BridgeRecvClosed,
     BridgeRecvExit, BridgeReput, BridgeSend
<1>3. /\ IsFiniteSet(Subscribers)
      /\ \A y \in Subscribers \ {s} : bridgePc'[y] = bridgePc[y]
  BY <1>2
<1> DEFINE H  == CountIn(Subscribers, bridgePc, HolderLabels)
           H1 == CountIn(Subscribers, bridgePc', HolderLabels)
<1>4. H \in Nat /\ H1 \in Nat
  BY ONLY <1>3, CountStep
<1>5. bridgePc[s] \notin HolderLabels /\ bridgePc'[s] \in HolderLabels
        => H1 = H + 1
  BY ONLY <1>3, CountStep
<1>6. bridgePc[s] \in HolderLabels /\ bridgePc'[s] \notin HolderLabels
        => H = H1 + 1
  BY ONLY <1>3, CountStep
<1>7. (bridgePc[s] \in HolderLabels <=> bridgePc'[s] \in HolderLabels)
        => H1 = H
  BY ONLY <1>3, CountStep
<1>8. CASE BridgeRecvExit(s)
  BY <1>1, <1>4, <1>5, <1>6, <1>7, <1>8
     DEF BridgeRecvExit, Signals, HolderLabels
<1>9. CASE BridgeReput(s)
  BY <1>1, <1>4, <1>5, <1>6, <1>7, <1>9
     DEF BridgeReput, Signals, HolderLabels
<1>10. CASE BridgeStart(s) \/ BridgeRecvMsg(s) \/ BridgeRecvClosed(s)
           \/ BridgeSend(s)
  BY <1>1, <1>4, <1>5, <1>6, <1>7, <1>10
     DEF BridgeStart, BridgeRecvMsg, BridgeRecvClosed, BridgeSend, Signals,
         HolderLabels
<1>11. QED
  BY <1>8, <1>9, <1>10 DEF BridgeStep

\* Every step keeps ExitTokenKept.
LEMMA NextExitTokenKept ==
    LInv /\ ExitTokenKept /\ [Next]_vars => ExitTokenKept'
<1> SUFFICES ASSUME LInv, ExitTokenKept, [Next]_vars PROVE ExitTokenKept'
    OBVIOUS
<1>9. TypeOK /\ BridgeAfterRegister
  BY DEF LInv
<1> USE ConstantsAssumption, <1>9
<1>0. /\ Signals \in Nat
      /\ ExitTokenKept <=>
           /\ Signals <= Cardinality(PastExit)
           /\ (\E t \in Stoppers : stopPc[t] \in InFlightLabels) => Signals >= 1
      /\ ExitTokenKept' <=>
           /\ Signals' <= Cardinality(PastExit')
           /\ (\E t \in Stoppers : stopPc'[t] \in InFlightLabels) => Signals' >= 1
  <2>1. TokenHolders \subseteq Subscribers /\ exitTok \in 0..1
    BY DEF TokenHolders, TypeOK
  <2>2. Cardinality(TokenHolders) \in Nat
    BY <2>1, FS_Subset, FS_CardinalityType
  <2>3. QED
    BY <2>1, <2>2 DEF Signals, ExitTokenKept, InFlightLabels
<1>1. ASSUME NEW t \in Stoppers, StopStep(t) PROVE ExitTokenKept'
  BY <1>0, <1>1, StopStepSignals
<1>2. ASSUME NEW s \in Subscribers, BridgeStep(s) PROVE ExitTokenKept'
  <2>1. PastExit' = PastExit
    BY <1>2, BridgeStepSignals DEF PastExit
  <2>2. QED
    BY <1>0, <1>2, <2>1, BridgeStepSignals
<1>3. ASSUME UNCHANGED <<stopPc, exitTok>>, TokenHolders' = TokenHolders
      PROVE  ExitTokenKept'
  BY <1>3 DEF ExitTokenKept, PastExit
<1>4. CASE \/ ServeReturn \/ DeMultiplex \/ DrainDead \/ UNCHANGED vars
           \/ \E s \in Subscribers : AcceptAdd(s) \/ AcceptCheck(s) \/ Consume(s)
           \/ \E d \in Senders : SendStep(d)
  <2>1. UNCHANGED <<stopPc, bridgePc, exitTok>>
    BY <1>4 DEF ServeReturn, DeMultiplex, DrainDead, vars, AcceptAdd,
       AcceptCheck, Consume, SendStep, SendCall, SendCheck, SendGet,
       DisconnectCheck, DisconnectWrite
  <2>2. QED
    BY <1>3, <2>1 DEF TokenHolders
<1>5. ASSUME NEW s \in Subscribers, AcceptRegister(s) PROVE ExitTokenKept'
  <2>1. TokenHolders' = TokenHolders
    BY <1>5 DEF AcceptRegister, TokenHolders, TypeOK,
       BridgeAfterRegister
  <2>2. stopPc' = stopPc /\ exitTok' = exitTok
    BY <1>5 DEF AcceptRegister
  <2>3. QED
    BY <1>3, <2>1, <2>2
<1>6. QED
  BY <1>1, <1>2, <1>4, <1>5 DEF Next, AcceptStep

\* The exit signal Stop sends on exitChan is relayed from bridge to bridge
\* without ever being duplicated, and is not lost while a Stop that sent it
\* has not returned: for every number of subscribers and Stop calls.
THEOREM ExitTokenProved == Spec => []ExitTokenKept
<1>1. Init => ExitTokenKept
  <2> SUFFICES ASSUME Init PROVE ExitTokenKept
    OBVIOUS
  <2>1. TokenHolders = {} /\ PastExit = {}
    BY DEF Init, TokenHolders, PastExit
  <2>2. QED
    BY <2>1, FS_EmptySet DEF Init, ExitTokenKept
<1>2. QED
  BY <1>1, InitLInv, NextLInv, NextExitTokenKept, PTL DEF Spec

=============================================================================
