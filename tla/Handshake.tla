----------------------------- MODULE Handshake -----------------------------
(***************************************************************************)
(* The identity handshake of comm_impl.go: createConnectionMsg and the    *)
(* signer choice, readWithTimeout, authenticateRemotePeer, and the         *)
(* expected-PKI-ID checks of createConnection and Handshake.              *)
(*                                                                         *)
(* The local instance Local authenticates streams opened by, or dialled   *)
(* to, other peers.  Honest peers run the same code.  The peer Attacker   *)
(* owns its own identity key and TLS certificate, sees the ConnEstablish  *)
(* envelopes honest peers send it, and may send Local any envelope it can *)
(* build from them: any fields, signed by itself, unsigned, or carrying a *)
(* signature it has captured.  Certificates, hashes and signatures are    *)
(* abstract: the identity certificate of peer p is p itself (its PKI-ID   *)
(* is p), the TLS certificate hash of p is TlsHash[p], and a signature is *)
(* the pair of its signer and the payload it covers.                      *)
(***************************************************************************)
EXTENDS Naturals, FiniteSets

CONSTANTS
    Ids,       \* identities (= PKI-IDs) of the peers
    Local,     \* the instance whose handshakes are checked
    Attacker,  \* the malicious peer
    TlsHash,   \* TlsHash[p]: hash of p's self-signed TLS certificate
    NoId,      \* a ConnEstablish without PKI-ID
    NoHash     \* no TLS certificate (selfCertHash or remoteCertHash nil)

Honest == Ids \ {Local, Attacker}
Hashes == {TlsHash[p] : p \in Ids}

ASSUME HandshakeAssumption ==
    /\ Local \in Ids /\ Attacker \in Ids /\ Local # Attacker
    /\ NoId \notin Ids
    /\ TlsHash \in [Ids -> Hashes]
    /\ \A p, q \in Ids : TlsHash[p] = TlsHash[q] => p = q
    /\ NoHash \notin Hashes

\* The payload of a ConnEstablish and the envelopes carrying it: sig is
\* Plain when the signer is the identity function (lines 411-413), which
\* yields no signature of anybody.
Payloads   == [pki : Ids \cup {NoId}, cert : Ids, hash : Hashes \cup {NoHash}]
Signatures == [by : Ids, over : Payloads]
Plain      == [by |-> NoId]
Envelopes  == [kind : {"conn", "other"}, body : Payloads,
               sig : Signatures \cup {Plain}]

VARIABLES
    localTLS,  \* Local has a TLS certificate (selfCertHash # nil)
    skip,      \* Local's peer.gossip.skipHandshake
    tls,       \* tls[p]: honest peer p has a TLS certificate
    peerSkip,  \* peerSkip[p]: honest peer p's skipHandshake
    captured,  \* signatures the attacker has received
    installed, \* PKI-IDs put into Local's identity mapper
    sessions   \* handshakes Local accepted: [from, id, auth]

vars == <<localTLS, skip, tls, peerSkip, captured, installed, sessions>>

-----------------------------------------------------------------------------
(* Helpers translated from the code.                                       *)

\* The condition of lines 405 and 450: both sides use TLS and the
\* handshake is not skipped.
Binds(selfTLS, remoteHash, skipping) ==
    selfTLS /\ remoteHash # NoHash /\ ~skipping

\* createConnectionMsg (lines 568-585) with the signer of lines 405-414:
\* sender p, whose remote certificate hash is remoteHash.
ConnMsg(p, selfTLS, remoteHash, skipping) ==
    LET body == [pki |-> p, cert |-> p,
                 hash |-> IF selfTLS THEN TlsHash[p] ELSE NoHash]
    IN  [kind |-> "conn", body |-> body,
         sig  |-> IF Binds(selfTLS, remoteHash, skipping)
                  THEN [by |-> p, over |-> body] ELSE Plain]

\* m.Verify(receivedMsg.Cert, verifier) (lines 454-461): the signature is
\* checked under the PKI-ID of the certificate the message carries.
Verifies(e) == e.sig = [by |-> e.body.cert, over |-> e.body]

\* readWithTimeout and lines 426-436: a ConnEstablish with a PKI-ID was read.
ReadConn(e) == e.kind = "conn" /\ e.body.pki # NoId

\* idMapper.Put(pkiID, cert) (line 438): the mapper accepts a certificate
\* only under its own PKI-ID.
MapperAccepts(e) == e.body.cert = e.body.pki

\* Mutant: the bytes.Equal(remoteCertHash, receivedMsg.Hash) check of
\* line 451 dropped.
AuthenticatedNoHashCheck(e, obs) ==
    /\ ReadConn(e)
    /\ MapperAccepts(e)
    /\ Binds(localTLS, obs, skip) => Verifies(e)
    /\ ~(obs = NoHash /\ localTLS /\ ~skip)

\* authenticateRemotePeer (lines 395-479) run by Local on envelope e over a
\* stream whose observed remote certificate hash is obs.
Authenticated(e, obs) ==
    /\ ReadConn(e)
    /\ MapperAccepts(e)
    /\ Binds(localTLS, obs, skip) => obs = e.body.hash /\ Verifies(e)
    /\ ~(obs = NoHash /\ localTLS /\ ~skip)

\* Local's state after authenticating e from sender q: the identity is
\* installed once Put succeeded (even if a later check fails); the session
\* is recorded with AuthInfo when the binding was verified (lines 463-466).
AuthStep(q, e, obs, accept) ==
    /\ installed' = IF ReadConn(e) /\ MapperAccepts(e)
                    THEN installed \cup {e.body.pki} ELSE installed
    /\ sessions' = IF accept
                   THEN sessions \cup {[from |-> q, id |-> e.body.pki,
                                        auth |-> Binds(localTLS, obs, skip)]}
                   ELSE sessions

\* The TLS certificate hash an honest peer observes on its stream with
\* Local: Local's selfCertHash (lines 84, 618), nil without TLS.
LocalCertHash == IF localTLS THEN TlsHash[Local] ELSE NoHash

\* The transport (createGRPCLayer, lines 593-642): a stream between two
\* honest instances exists only when both use TLS or neither does.
Observed(p) == IF localTLS /\ tls[p] THEN TlsHash[p] ELSE NoHash

-----------------------------------------------------------------------------
Init ==
    /\ localTLS \in BOOLEAN
    /\ skip \in BOOLEAN
    /\ tls \in [Honest -> BOOLEAN]
    /\ peerSkip \in [Honest -> BOOLEAN]
    /\ captured = {}
    \* NewCommInstanceWithServer puts Local's own identity (line 101)
    /\ installed = {Local}
    /\ sessions = {}

\* An honest peer p opens a stream to Local (GossipStream, line 485).
HonestInbound(p) ==
    /\ localTLS = tls[p]
    /\ LET obs == Observed(p)
           e   == ConnMsg(p, tls[p], LocalCertHash, peerSkip[p])
       IN  AuthStep(p, e, obs, Authenticated(e, obs))
    /\ UNCHANGED <<localTLS, skip, tls, peerSkip, captured>>

\* An honest peer p handshakes with the attacker, which either presents its
\* TLS certificate or not; it keeps p's envelope and its signature.
HonestMeetsAttacker(p) ==
    /\ \E attHash \in {NoHash, TlsHash[Attacker]} :
          LET e == ConnMsg(p, tls[p], attHash, peerSkip[p])
          IN  /\ e.sig # Plain
              /\ captured' = captured \cup {e.sig}
    /\ UNCHANGED <<localTLS, skip, tls, peerSkip, installed, sessions>>

\* The attacker opens a stream to Local, presenting its own TLS certificate
\* or none, and sends any envelope it can build.
Forgeable ==
    {e \in Envelopes : e.sig = Plain \/ e.sig.by = Attacker
                       \/ e.sig \in captured}

AttackerInbound ==
    /\ \E obs \in IF localTLS THEN {TlsHash[Attacker], NoHash} ELSE {NoHash} :
       \E e \in Forgeable :
          AuthStep(Attacker, e, obs, Authenticated(e, obs))
    /\ UNCHANGED <<localTLS, skip, tls, peerSkip, captured>>

\* Local dials the endpoint of peer q expecting PKI-ID x (createConnection
\* lines 188-196, Handshake lines 294-301): authentication, then the
\* claimed PKI-ID must be the expected one unless none was given.
LocalDials(q, x) ==
    /\ q # Attacker => localTLS = tls[q]
    /\ \E obs \in IF q = Attacker
                  THEN (IF localTLS THEN {TlsHash[Attacker], NoHash}
                        ELSE {NoHash})
                  ELSE {Observed(q)} :
       \E e \in IF q = Attacker THEN Forgeable
                ELSE {ConnMsg(q, tls[q], LocalCertHash, peerSkip[q])} :
          AuthStep(q, e, obs,
                   Authenticated(e, obs) /\ (x = NoId \/ e.body.pki = x))
    /\ UNCHANGED <<localTLS, skip, tls, peerSkip, captured>>

Next ==
    \/ \E p \in Honest : HonestInbound(p) \/ HonestMeetsAttacker(p)
    \/ AttackerInbound
    \/ \E q \in Ids \ {Local}, x \in Ids \cup {NoId} : LocalDials(q, x)

Spec == Init /\ [][Next]_vars

-----------------------------------------------------------------------------
(* Properties.                                                             *)

TypeOK ==
    /\ localTLS \in BOOLEAN
    /\ skip \in BOOLEAN
    /\ tls \in [Honest -> BOOLEAN]
    /\ peerSkip \in [Honest -> BOOLEAN]
    /\ captured \subseteq Signatures
    /\ installed \subseteq Ids
    /\ sessions \subseteq [from : Ids, id : Ids, auth : BOOLEAN]

\* With TLS on and the handshake not skipped, Local never accepts a stream
\* under another peer's identity, inbound or dialled, whatever envelopes
\* the attacker has captured from honest peers and replays: the signature
\* over the observed TLS certificate hash binds the identity to the
\* transport session (spec sections 4.5 and 8).
NoImpersonation ==
    (localTLS /\ ~skip) => \A s \in sessions : s.id = s.from

-----------------------------------------------------------------------------
(* The inductive invariant behind NoImpersonation.                        *)

\* A signature the attacker holds was made by an honest peer over its own
\* ConnEstablish, which carries that peer's own TLS certificate hash: the
\* signer of lines 405-414 only signs when the sender has a certificate.
CapturedHonest ==
    \A sig \in captured :
        /\ sig.by \in Honest
        /\ sig.over = [pki |-> sig.by, cert |-> sig.by, hash |-> TlsHash[sig.by]]

IInv == TypeOK /\ CapturedHonest /\ NoImpersonation

=============================================================================
