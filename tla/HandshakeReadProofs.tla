------------------------- MODULE HandshakeReadProofs -------------------------
(***************************************************************************)
(* Proofs about HandshakeRead for every bound on the peer's envelopes:    *)
(* the type invariant, and that readWithTimeout only ever returns the     *)
(* peer's first envelope, through the inductive invariant RInv.           *)
(***************************************************************************)
EXTENDS HandshakeRead, SequenceTheorems, TLAPS

\* Until the reader has received, it sees every envelope the peer has sent
\* on a working stream; what it received is the peer's first envelope,
\* which is a ConnEstablish; what it hands on matches what it decoded.
ReaderSeesFirst ==
    /\ peerSent # <<>> => Head(peerSent) \in {"good", "bad"}
    /\ callerPc \in {"send", "read"} => readerPc = "none"
    /\ readerPc \in {"none", "recv"} => rmsg = "none"
    /\ stream = "up" /\ rmsg = "none" => inbox = peerSent
    /\ rmsg # "none" => peerSent # <<>> /\ rmsg = Head(peerSent)
    /\ readerPc = "putMsg" => rmsg = "good"
    /\ readerPc = "putErr" => rmsg = "bad"
    /\ incChan # <<>> => incChan = <<"good">> /\ rmsg = "good"
    /\ errChan # <<>> => rmsg = "bad"
    /\ result = "msg" => got = "good" /\ rmsg = "good"
    /\ result = "err" => rmsg = "bad"
    /\ callerPc \in {"send", "read", "select"} => result = "none"

RInv == TypeOK /\ ReaderSeesFirst

\* RInv holds initially.
LEMMA InitRInv == Init => RInv
<1> SUFFICES ASSUME Init PROVE RInv
  OBVIOUS
<1>1. /\ callerPc \in CallerLabels
      /\ result \in {"none", "msg", "err", "timeout"}
      /\ got \in Kinds \cup {"none"}
      /\ readerPc \in ReaderLabels
      /\ rmsg \in Kinds \cup {"none"}
  BY DEF Init, CallerLabels, ReaderLabels, Kinds
<1>2. /\ incChan \in Seq(Kinds) /\ Len(incChan) <= IncCap
      /\ errChan \in Seq({"decodeErr"}) /\ Len(errChan) <= ErrCap
  BY DEF Init, IncCap, ErrCap
<1>3. ticked \in BOOLEAN /\ delivered \in BOOLEAN
  BY DEF Init
<1>4. stream \in {"up", "broken", "closed"} /\ inbox \in Seq(Kinds)
  BY DEF Init
<1>5. peerSent \in Seq(Kinds) /\ Len(peerSent) <= MaxEnv
  BY MaxEnvAssumption DEF Init
<1>6. ReaderSeesFirst
  BY DEF Init, ReaderSeesFirst
<1>7. QED
  BY <1>1, <1>2, <1>3, <1>4, <1>5, <1>6 DEF RInv, TypeOK

\* The channels of the reader: Len(c) < 1 leaves only the empty sequence,
\* and a send on it yields the one-element sequence.
LEMMA OneSlot ==
    ASSUME NEW S, NEW c \in Seq(S), Len(c) < 1, NEW e \in S
    PROVE  c = <<>> /\ Append(c, e) = <<e>> /\ Len(<<e>>) = 1
<1>1. c = <<>>
  BY EmptySeq, LenProperties
<1>2. Append(c, e) = <<e>>
  BY <1>1, AppendIsConcat, ConcatEmptySeq
<1>3. QED
  BY <1>1, <1>2

\* Appending to a non-empty sequence keeps its head.
LEMMA AppendHead ==
    ASSUME NEW S, NEW s \in Seq(S), NEW e \in S
    PROVE  /\ Append(s, e) \in Seq(S) /\ Append(s, e) # <<>>
           /\ Len(Append(s, e)) = Len(s) + 1
           /\ s # <<>> => Head(Append(s, e)) = Head(s)
           /\ s = <<>> => Head(Append(s, e)) = e
<1>1. /\ Append(s, e) \in Seq(S) /\ Append(s, e) # <<>>
      /\ Len(Append(s, e)) = Len(s) + 1
      /\ \A i \in 1 .. Len(s) : Append(s, e)[i] = s[i]
      /\ Append(s, e)[Len(s) + 1] = e
  BY AppendProperties
<1>2. s # <<>> => Head(Append(s, e)) = Head(s)
  BY <1>1, EmptySeq
<1>3. s = <<>> => Head(Append(s, e)) = e
  BY <1>1, EmptySeq
<1>4. QED
  BY <1>1, <1>2, <1>3

\* Every step of Next, and every stuttering step, preserves RInv.
LEMMA NextRInv == RInv /\ [Next]_vars => RInv'
<1> SUFFICES ASSUME RInv, [Next]_vars PROVE RInv'
    OBVIOUS
<1> USE MaxEnvAssumption DEF RInv, TypeOK, ReaderSeesFirst, CallerLabels,
        ReaderLabels, Kinds, IncCap, ErrCap
<1>1. CASE CallerSend
  <2>1. delivered' \in BOOLEAN
    BY <1>1, Zenon DEF CallerSend
  <2>2. QED
    BY <1>1, <2>1 DEF CallerSend
<1>2. CASE CallerSpawn
  BY <1>2 DEF CallerSpawn
<1>3. CASE SelectTimeout
  BY <1>3 DEF SelectTimeout
<1>4. CASE SelectMsg
  BY <1>4 DEF SelectMsg
<1>5. CASE SelectErr
  BY <1>5 DEF SelectErr
<1>6. CASE CallerClose
  BY <1>6 DEF CallerClose
<1>7. CASE Tick
  BY <1>7 DEF Tick
<1>8. CASE ReaderRecv
  <2>1. CASE stream = "up" /\ inbox # <<>>
    <3>1. Head(inbox) \in Kinds /\ Tail(inbox) \in Seq(Kinds)
      BY <2>1, HeadTailProperties
    <3>2. inbox = peerSent
      BY <1>8, <2>1 DEF ReaderRecv
    <3>3. QED
      BY <1>8, <2>1, <3>1, <3>2 DEF ReaderRecv
  <2>2. CASE ~(stream = "up" /\ inbox # <<>>)
    BY <1>8, <2>2 DEF ReaderRecv
  <2>3. QED
    BY <2>1, <2>2
<1>9. CASE ReaderPutMsg
  <2>1. incChan = <<>> /\ incChan' = <<"good">> /\ Len(incChan') = 1
    BY <1>9, OneSlot DEF ReaderPutMsg
  <2>2. QED
    BY <1>9, <2>1 DEF ReaderPutMsg
<1>10. CASE ReaderPutErr
  <2>1. errChan' = <<"decodeErr">> /\ Len(errChan') = 1
    BY <1>10, OneSlot DEF ReaderPutErr
  <2>2. QED
    BY <1>10, <2>1 DEF ReaderPutErr
<1>11. CASE PeerSend
  <2>1. PICK k \in Kinds :
          /\ peerSent = <<>> => k \in {"good", "bad"}
          /\ peerSent' = Append(peerSent, k)
          /\ inbox' = Append(inbox, k)
    BY <1>11 DEF PeerSend
  <2>2. /\ peerSent' \in Seq(Kinds) /\ peerSent' # <<>>
        /\ Len(peerSent') = Len(peerSent) + 1
        /\ Head(peerSent') \in {"good", "bad"}
        /\ peerSent # <<>> => Head(peerSent') = Head(peerSent)
        /\ inbox' \in Seq(Kinds)
    BY <2>1, AppendHead
  <2>3. QED
    BY <1>11, <2>1, <2>2 DEF PeerSend
<1>12. CASE Break
  BY <1>12 DEF Break
<1>13. CASE UNCHANGED vars
  BY <1>13 DEF vars
<1>14. QED
  BY <1>1, <1>2, <1>3, <1>4, <1>5, <1>6, <1>7, <1>8, <1>9, <1>10, <1>11,
     <1>12, <1>13 DEF Next, CallerStep, ReaderStep

\* The handshake read keeps its variables in their types.
THEOREM ReadTypeCorrect == Spec => []TypeOK
<1>1. RInv => TypeOK
  BY DEF RInv
<1>2. QED
  BY <1>1, InitRInv, NextRInv, PTL DEF Spec

\* Whatever the peer sends, in whichever order the ticker, the reader and
\* the transport act, readWithTimeout returns the peer's first envelope
\* when it returns a message, and a decode error only for a malformed one.
THEOREM FirstEnvelopeProved == Spec => []ReplyIsFirstEnvelope
<1>1. RInv => ReplyIsFirstEnvelope
  BY DEF RInv, ReaderSeesFirst, ReplyIsFirstEnvelope
<1>2. QED
  BY <1>1, InitRInv, NextRInv, PTL DEF Spec

-----------------------------------------------------------------------------
(* readWithTimeout implements the abstract read HandshakeReply.           *)

\* The initial state is the abstract one: no reply, no envelope yet.
LEMMA ReadInitRefines == Init => RR!ReplyInit
BY DEF Init, RR!ReplyInit, FirstEnvelope

\* Every step is a Hello, a Return, or leaves the reply and the peer's
\* first envelope alone.
LEMMA ReadNextRefines == RInv /\ [Next]_vars => [RR!ReplyNext]_RR!replyVars
<1> SUFFICES ASSUME RInv, [Next]_vars PROVE [RR!ReplyNext]_RR!replyVars
    OBVIOUS
<1> USE DEF RInv, TypeOK, ReaderSeesFirst
<1>0. UNCHANGED <<result, peerSent>> => [RR!ReplyNext]_RR!replyVars
  BY DEF RR!replyVars, FirstEnvelope
<1>1. CASE SelectTimeout
  <2>1. RR!Return("timeout")
    BY <1>1 DEF SelectTimeout, RR!Return, FirstEnvelope
  <2>2. QED
    BY <2>1 DEF RR!ReplyNext
<1>2. CASE SelectMsg
  <2>1. FirstEnvelope = "good"
    BY <1>2 DEF SelectMsg, FirstEnvelope
  <2>2. RR!Return("msg")
    BY <1>2, <2>1 DEF SelectMsg, RR!Return, FirstEnvelope
  <2>3. QED
    BY <2>2 DEF RR!ReplyNext
<1>3. CASE SelectErr
  <2>1. FirstEnvelope = "bad"
    BY <1>3 DEF SelectErr, FirstEnvelope
  <2>2. RR!Return("err")
    BY <1>3, <2>1 DEF SelectErr, RR!Return, FirstEnvelope
  <2>3. QED
    BY <2>2 DEF RR!ReplyNext
<1>4. CASE PeerSend
  <2>1. PICK k \in Kinds :
          /\ peerSent = <<>> => k \in {"good", "bad"}
          /\ peerSent' = Append(peerSent, k)
    BY <1>4 DEF PeerSend, Kinds
  <2>2. /\ peerSent # <<>> => Head(peerSent') = Head(peerSent)
        /\ peerSent = <<>> => Head(peerSent') = k
        /\ peerSent' # <<>>
    BY <2>1, AppendHead
  <2>3. CASE peerSent = <<>>
    <3>1. RR!Hello(k)
      BY <1>4, <2>1, <2>2, <2>3 DEF PeerSend, RR!Hello, FirstEnvelope
    <3>2. QED
      BY <2>1, <2>3, <3>1 DEF RR!ReplyNext
  <2>4. CASE peerSent # <<>>
    BY <1>4, <2>2, <2>4 DEF PeerSend, RR!replyVars, FirstEnvelope
  <2>5. QED
    BY <2>3, <2>4
<1>5. CASE \/ CallerSend \/ CallerSpawn \/ CallerClose \/ Tick
           \/ ReaderRecv \/ ReaderPutMsg \/ ReaderPutErr \/ Break
           \/ UNCHANGED vars
  BY <1>0, <1>5 DEF CallerSend, CallerSpawn, CallerClose, Tick, ReaderRecv,
     ReaderPutMsg, ReaderPutErr, Break, vars
<1>6. QED
  BY <1>1, <1>2, <1>3, <1>4, <1>5 DEF Next, CallerStep, ReaderStep

\* Whatever the interleaving of the caller, the reader goroutine, the
\* ticker, the peer and the transport, readWithTimeout returns once, and a
\* message or a decode error only as the peer's first envelope warrants:
\* the handshake read implements HandshakeReply.
THEOREM ReadRefinement == Spec => ReplySpec
<1>1. Spec => []RInv
  BY InitRInv, NextRInv, PTL DEF Spec
<1>2. QED
  BY <1>1, ReadInitRefines, ReadNextRefines, PTL
     DEF Spec, ReplySpec, RR!ReplySpec

=============================================================================
