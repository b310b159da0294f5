--------------------------- MODULE HandshakeProofs ---------------------------
(***************************************************************************)
(* Proofs about Handshake for every set of peers and every injective       *)
(* assignment of TLS certificate hashes: the type invariant, and that with *)
(* TLS on and the handshake not skipped no stream is accepted under        *)
(* another peer's identity, through the inductive invariant IInv.          *)
(***************************************************************************)
EXTENDS Handshake, TLAPS

\* The authenticated PKI-ID of an accepted envelope is an identity.
LEMMA AcceptedId ==
    ASSUME NEW e \in Envelopes, ReadConn(e)
    PROVE  e.body.pki \in Ids
BY DEF ReadConn, Envelopes, Payloads

\* The heart of the argument: with TLS on and no skip, whatever envelope
\* the attacker builds and whichever certificate it presents, an envelope
\* that authenticateRemotePeer accepts claims the attacker's own PKI-ID.
\* A replayed honest signature covers the honest peer's TLS hash, which is
\* not the hash of the attacker's certificate (lines 450-452).
LEMMA AttackerClaimsItself ==
    ASSUME TypeOK, CapturedHonest, localTLS, ~skip,
           NEW e \in Forgeable,
           NEW obs \in {TlsHash[Attacker], NoHash},
           Authenticated(e, obs)
    PROVE  e.body.pki = Attacker
<1> USE HandshakeAssumption
<1>1. obs = TlsHash[Attacker]
  BY DEF Authenticated
<1>2. obs # NoHash
  BY <1>1 DEF Hashes
<1>3. obs = e.body.hash /\ Verifies(e)
  BY <1>2 DEF Authenticated, Binds
<1>4. e.body.cert = e.body.pki /\ e.body.cert \in Ids
  BY DEF Authenticated, MapperAccepts, Forgeable, Envelopes, Payloads
<1>5. e.sig = [by |-> e.body.cert, over |-> e.body]
  BY <1>3 DEF Verifies
<1>6. CASE e.sig = Plain
  BY <1>4, <1>5, <1>6 DEF Plain
<1>7. CASE e.sig.by = Attacker
  BY <1>4, <1>5, <1>7
<1>8. CASE e.sig \in captured
  <2>0. /\ e.sig.by \in Honest
        /\ e.sig.over = [pki |-> e.sig.by, cert |-> e.sig.by,
                         hash |-> TlsHash[e.sig.by]]
    BY <1>8 DEF CapturedHonest
  <2>1. e.sig.by \in Honest /\ e.body.hash = TlsHash[e.sig.by]
    BY <1>5, <2>0
  <2>2. e.sig.by \in Ids /\ e.sig.by # Attacker
    BY <2>1 DEF Honest
  <2>3. QED
    BY <1>1, <1>3, <2>1, <2>2
<1>9. QED
  BY <1>6, <1>7, <1>8 DEF Forgeable

\* The identity and session that AuthStep records are well typed when
\* only an envelope that was read as a ConnEstablish can be accepted.
LEMMA AuthStepType ==
    ASSUME TypeOK, NEW q \in Ids, NEW e \in Envelopes, NEW obs,
           NEW accept \in BOOLEAN, accept => ReadConn(e),
           AuthStep(q, e, obs, accept),
           UNCHANGED <<localTLS, skip, tls, peerSkip, captured>>
    PROVE  TypeOK'
<1>1. ReadConn(e) => e.body.pki \in Ids
  BY AcceptedId
<1>2. installed' \subseteq Ids
  BY <1>1 DEF AuthStep, TypeOK
<1>3. Binds(localTLS, obs, skip) \in BOOLEAN
  BY DEF Binds
<1>4. sessions' \subseteq [from : Ids, id : Ids, auth : BOOLEAN]
  BY <1>1, <1>3 DEF AuthStep, TypeOK
<1>5. QED
  BY <1>2, <1>4 DEF TypeOK

\* AuthStep keeps NoImpersonation when, with TLS on and no skip, only an
\* envelope claiming the sender's own PKI-ID can be accepted.
LEMMA AuthStepNoImp ==
    ASSUME NoImpersonation, NEW q, NEW e, NEW obs, NEW accept \in BOOLEAN,
           accept /\ localTLS /\ ~skip => e.body.pki = q,
           AuthStep(q, e, obs, accept),
           UNCHANGED <<localTLS, skip>>
    PROVE  NoImpersonation'
<1>1. SUFFICES ASSUME localTLS, ~skip, NEW s \in sessions'
               PROVE  s.id = s.from
  BY DEF NoImpersonation
<1>2. CASE s \in sessions
  BY <1>1, <1>2 DEF NoImpersonation
<1>3. CASE s \notin sessions
  <2>1. accept /\ s = [from |-> q, id |-> e.body.pki,
                       auth |-> Binds(localTLS, obs, skip)]
    BY <1>1, <1>3 DEF AuthStep
  <2>2. QED
    BY <1>1, <2>1
<1>4. QED
  BY <1>2, <1>3

\* IInv holds initially.
LEMMA InitIInv == Init => IInv
BY HandshakeAssumption DEF Init, IInv, TypeOK, CapturedHonest, NoImpersonation

\* What Local receives from an honest peer q: a well-formed ConnEstablish
\* claiming q's own PKI-ID.
LEMMA HonestMsg ==
    ASSUME TypeOK, NEW q \in Honest
    PROVE  LET e == ConnMsg(q, tls[q], LocalCertHash, peerSkip[q])
           IN  e \in Envelopes /\ e.body.pki = q
<1>1. q \in Ids /\ tls[q] \in BOOLEAN
  BY DEF TypeOK, Honest
<1>2. QED
  BY <1>1, HandshakeAssumption
  DEF ConnMsg, Binds, Envelopes, Payloads, Signatures, Plain, Hashes

\* Every step of Next, and every stuttering step, preserves IInv.
LEMMA NextIInv == IInv /\ [Next]_vars => IInv'
<1> SUFFICES ASSUME IInv, [Next]_vars PROVE IInv'
  OBVIOUS
<1> USE DEF IInv
<1>1. ASSUME NEW p \in Honest, HonestInbound(p) PROVE IInv'
  <2> DEFINE e   == ConnMsg(p, tls[p], LocalCertHash, peerSkip[p])
             obs == Observed(p)
  <2>1. e \in Envelopes /\ e.body.pki = p
    BY HonestMsg
  <2>2. AuthStep(p, e, obs, Authenticated(e, obs))
        /\ UNCHANGED <<localTLS, skip, tls, peerSkip, captured>>
    BY <1>1 DEF HonestInbound
  <2>3. p \in Ids
    BY DEF Honest
  <2>4. TypeOK'
    BY <2>1, <2>2, <2>3, AuthStepType DEF Authenticated
  <2>5. CapturedHonest'
    BY <2>2 DEF CapturedHonest
  <2>6. NoImpersonation'
    BY <2>1, <2>2, AuthStepNoImp DEF Authenticated
  <2>7. QED
    BY <2>4, <2>5, <2>6
<1>2. ASSUME NEW p \in Honest, HonestMeetsAttacker(p) PROVE IInv'
  <2>1. PICK attHash \in {NoHash, TlsHash[Attacker]} :
            LET e == ConnMsg(p, tls[p], attHash, peerSkip[p])
            IN  /\ e.sig # Plain
                /\ captured' = captured \cup {e.sig}
    BY <1>2 DEF HonestMeetsAttacker
  <2> DEFINE e == ConnMsg(p, tls[p], attHash, peerSkip[p])
  <2>2. /\ e.sig \in Signatures
        /\ e.sig.by = p
        /\ e.sig.over = [pki |-> p, cert |-> p, hash |-> TlsHash[p]]
    <3>1. p \in Ids /\ tls[p] \in BOOLEAN
      BY DEF TypeOK, Honest
    <3>2. QED
      BY <2>1, <3>1, HandshakeAssumption
      DEF ConnMsg, Binds, Signatures, Payloads, Plain, Hashes
  <2>3. TypeOK'
    BY <1>2, <2>1, <2>2 DEF HonestMeetsAttacker, TypeOK
  <2>4. CapturedHonest'
    BY <2>1, <2>2 DEF CapturedHonest
  <2>5. NoImpersonation'
    BY <1>2 DEF HonestMeetsAttacker, NoImpersonation
  <2>6. QED
    BY <2>3, <2>4, <2>5
<1>3. ASSUME NEW q \in Ids \ {Local},
             NEW obs \in IF localTLS THEN {TlsHash[Attacker], NoHash}
                         ELSE {NoHash},
             NEW e \in Forgeable,
             NEW accept \in BOOLEAN,
             accept => Authenticated(e, obs),
             q = Attacker,
             AuthStep(q, e, obs, accept),
             UNCHANGED <<localTLS, skip, tls, peerSkip, captured>>
      PROVE IInv'
  \* The attacker's stream, inbound or dialled by Local.
  <2>1. e \in Envelopes
    BY DEF Forgeable
  <2>2. TypeOK'
    BY <1>3, <2>1, AuthStepType, HandshakeAssumption DEF Authenticated
  <2>3. CapturedHonest'
    BY <1>3 DEF CapturedHonest
  <2>4. accept /\ localTLS /\ ~skip => e.body.pki = q
    <3>1. SUFFICES ASSUME accept, localTLS, ~skip PROVE e.body.pki = q
      OBVIOUS
    <3>2. obs \in {TlsHash[Attacker], NoHash}
      BY <1>3, <3>1
    <3>3. QED
      BY <1>3, <3>1, <3>2, AttackerClaimsItself
  <2>5. NoImpersonation'
    BY <1>3, <2>4, AuthStepNoImp
  <2>6. QED
    BY <2>2, <2>3, <2>5
<1>4. CASE AttackerInbound
  <2>1. PICK obs \in IF localTLS THEN {TlsHash[Attacker], NoHash} ELSE {NoHash} :
          \E e \in Forgeable : AuthStep(Attacker, e, obs, Authenticated(e, obs))
    BY <1>4 DEF AttackerInbound
  <2>2. PICK e \in Forgeable : AuthStep(Attacker, e, obs, Authenticated(e, obs))
    BY <2>1
  <2>3. Authenticated(e, obs) \in BOOLEAN
    BY DEF Authenticated
  <2>4. Attacker \in Ids \ {Local}
    BY HandshakeAssumption
  <2>5. UNCHANGED <<localTLS, skip, tls, peerSkip, captured>>
    BY <1>4 DEF AttackerInbound
  <2>6. QED
    BY <2>2, <2>3, <2>4, <2>5, <1>3
<1>5. ASSUME NEW q \in Ids \ {Local}, NEW x \in Ids \cup {NoId}, LocalDials(q, x)
      PROVE IInv'
  <2>1. CASE q = Attacker
    <3>1. PICK obs \in IF localTLS THEN {TlsHash[Attacker], NoHash} ELSE {NoHash} :
            \E e \in Forgeable :
               AuthStep(q, e, obs, Authenticated(e, obs) /\ (x = NoId \/ e.body.pki = x))
      BY <1>5, <2>1 DEF LocalDials
    <3>2. PICK e \in Forgeable :
            AuthStep(q, e, obs, Authenticated(e, obs) /\ (x = NoId \/ e.body.pki = x))
      BY <3>1
    <3>3. QED
      BY <1>5, <2>1, <3>2, <1>3 DEF LocalDials
  <2>2. CASE q # Attacker
    <3>1. q \in Honest
      BY <2>2 DEF Honest
    <3> DEFINE e      == ConnMsg(q, tls[q], LocalCertHash, peerSkip[q])
               obs    == Observed(q)
               accept == Authenticated(e, obs) /\ (x = NoId \/ e.body.pki = x)
    <3>2. e \in Envelopes /\ e.body.pki = q
      BY <3>1, HonestMsg
    <3>3. AuthStep(q, e, obs, accept)
          /\ UNCHANGED <<localTLS, skip, tls, peerSkip, captured>>
      BY <1>5, <2>2 DEF LocalDials
    <3>4. TypeOK'
      BY <3>2, <3>3, AuthStepType DEF Authenticated
    <3>5. CapturedHonest'
      BY <3>3 DEF CapturedHonest
    <3>6. NoImpersonation'
      BY <3>2, <3>3, AuthStepNoImp
    <3>7. QED
      BY <3>4, <3>5, <3>6
  <2>3. QED
    BY <2>1, <2>2
<1>6. CASE UNCHANGED vars
  BY <1>6 DEF vars, TypeOK, CapturedHonest, NoImpersonation
<1>7. QED
  BY <1>1, <1>2, <1>4, <1>5, <1>6 DEF Next

\* Type correctness of the handshake model.
THEOREM HandshakeTypeCorrect == Spec => []TypeOK
<1>1. IInv => TypeOK
  BY DEF IInv
<1>2. QED
  BY <1>1, InitIInv, NextIInv, PTL DEF Spec

\* authenticateRemotePeer with TLS on and skipHandshake off never accepts a
\* stream, inbound or dialled, under an identity other than that of the
\* peer at the other end, however many signatures the attacker replays.
THEOREM NoImpersonationProved == Spec => []NoImpersonation
<1>1. IInv => NoImpersonation
  BY DEF IInv
<1>2. QED
  BY <1>1, InitIInv, NextIInv, PTL DEF Spec

=============================================================================
