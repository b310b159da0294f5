--------------------------- MODULE HandshakeRead ---------------------------
(***************************************************************************)
(* The read side of one handshake (comm_impl.go): authenticateRemotePeer  *)
(* sends its ConnEstablish (line 419, error ignored) and calls            *)
(* readWithTimeout (lines 532-566), which starts a reader goroutine that   *)
(* does one Recv on the stream and hands the decoded envelope, or the     *)
(* decode error, to the caller over two channels of one slot each, while  *)
(* the caller selects on those channels and a ticker.  On failure the     *)
(* caller's stream is torn down: createConnection calls cc.Close() (line  *)
(* 216), GossipStream returns its error to gRPC (lines 482-485).          *)
(*                                                                         *)
(* The remote peer and the transport are the environment: the peer sends  *)
(* its own ConnEstablish (well formed or not) and, once it has ours,      *)
(* further gossip envelopes; the transport may break at any time, which   *)
(* makes Send and Recv fail and loses what was in flight.  Envelopes are  *)
(* their kind only.  Time is the ticker firing, at any point of the wait.  *)
(***************************************************************************)
EXTENDS Naturals, Sequences

CONSTANTS
    MaxEnv      \* bound on the envelopes the remote peer sends

ASSUME MaxEnvAssumption == MaxEnv \in Nat \ {0}

\* Kinds of envelope: a ConnEstablish that decodes, one that does not
\* (ToGossipMessage fails), and a later gossip message.
Kinds == {"good", "bad", "data"}

VARIABLES
    callerPc,   \* program counter of authenticateRemotePeer
    result,     \* which case of the select the caller took
    got,        \* the message the caller received from incChan
    readerPc,   \* program counter of the reader goroutine
    rmsg,       \* the reader's decoded message
    incChan,    \* incChan: make(chan *SignedGossipMessage, 1)
    errChan,    \* errChan: make(chan error, 1)
    ticked,     \* the ticker has fired
    stream,     \* "up", "broken" by the transport, "closed" by our side
    inbox,      \* envelopes sent by the remote peer, not yet received
    peerSent,   \* envelopes the remote peer has sent, in order
    delivered   \* our ConnEstablish reached the remote peer

vars == <<callerPc, result, got, readerPc, rmsg, incChan, errChan, ticked,
          stream, inbox, peerSent, delivered>>

CallerLabels == {"send", "read", "select", "close", "done"}
ReaderLabels == {"none", "recv", "putMsg", "putErr", "exited"}

\* Mutant: incChan made unbuffered.
IncCapUnbuffered == 0

\* Buffer sizes of incChan and errChan (lines 533-534).
IncCap == 1
ErrCap == 1

-----------------------------------------------------------------------------
Init ==
    /\ callerPc = "send"
    /\ result = "none"
    /\ got = "none"
    /\ readerPc = "none"
    /\ rmsg = "none"
    /\ incChan = <<>>
    /\ errChan = <<>>
    /\ ticked = FALSE
    /\ stream = "up"
    /\ inbox = <<>>
    /\ peerSent = <<>>
    /\ delivered = FALSE

-----------------------------------------------------------------------------
(* The caller, authenticateRemotePeer.                                     *)

\* stream.Send(cMsg.Envelope): the envelope arrives only on a working
\* stream, and the returned error is not looked at.
CallerSend ==
    /\ callerPc = "send"
    /\ delivered' = (stream = "up")
    /\ callerPc' = "read"
    /\ UNCHANGED <<result, got, readerPc, rmsg, incChan, errChan, ticked,
                   stream, inbox, peerSent>>

\* readWithTimeout: make the two channels, go the reader, enter the select.
CallerSpawn ==
    /\ callerPc = "read"
    /\ readerPc' = "recv"
    /\ callerPc' = "select"
    /\ UNCHANGED <<result, got, rmsg, incChan, errChan, ticked, stream,
                   inbox, peerSent, delivered>>

\* Mutant: a select without the ticker case.
SelectNoTimeout ==
    /\ FALSE
    /\ UNCHANGED vars

\* case <-time.NewTicker(timeout).C: return a timeout error.
SelectTimeout ==
    /\ callerPc = "select"
    /\ ticked
    /\ result' = "timeout"
    /\ callerPc' = "close"
    /\ UNCHANGED <<got, readerPc, rmsg, incChan, errChan, ticked, stream,
                   inbox, peerSent, delivered>>

\* case m := <-incChan: return m; authentication goes on with it.
SelectMsg ==
    /\ callerPc = "select"
    /\ incChan # <<>>
    /\ got' = Head(incChan)
    /\ incChan' = Tail(incChan)
    /\ result' = "msg"
    /\ callerPc' = "done"
    /\ UNCHANGED <<readerPc, rmsg, errChan, ticked, stream, inbox, peerSent,
                   delivered>>

\* Mutant: the error case does not return; the select is entered again.
SelectErrNoReturn ==
    /\ callerPc = "select"
    /\ errChan # <<>>
    /\ errChan' = Tail(errChan)
    /\ result' = "err"
    /\ UNCHANGED <<callerPc, got, readerPc, rmsg, incChan, ticked, stream,
                   inbox, peerSent, delivered>>

\* case err := <-errChan: return the decode error.
SelectErr ==
    /\ callerPc = "select"
    /\ errChan # <<>>
    /\ errChan' = Tail(errChan)
    /\ result' = "err"
    /\ callerPc' = "close"
    /\ UNCHANGED <<got, readerPc, rmsg, incChan, ticked, stream, inbox,
                   peerSent, delivered>>

\* The failed handshake ends the stream: cc.Close() in createConnection,
\* or GossipStream returning, after which gRPC cancels the server stream.
CallerClose ==
    /\ callerPc = "close"
    /\ stream' = "closed"
    /\ inbox' = <<>>
    /\ callerPc' = "done"
    /\ UNCHANGED <<result, got, readerPc, rmsg, incChan, errChan, ticked,
                   peerSent, delivered>>

\* The ticker created by the select fires (the runtime's timer).
Tick ==
    /\ callerPc = "select"
    /\ ~ticked
    /\ ticked' = TRUE
    /\ UNCHANGED <<callerPc, result, got, readerPc, rmsg, incChan, errChan,
                   stream, inbox, peerSent, delivered>>

-----------------------------------------------------------------------------
(* The reader goroutine of readWithTimeout.                                *)

\* Mutant: the decode error of ToGossipMessage not checked.
ReaderRecvNoDecodeCheck ==
    /\ readerPc = "recv"
    /\ \/ /\ stream = "up" /\ inbox # <<>>
          /\ rmsg' = Head(inbox)
          /\ inbox' = Tail(inbox)
          /\ readerPc' = "putMsg"
       \/ /\ stream # "up"
          /\ readerPc' = "exited"
          /\ UNCHANGED <<rmsg, inbox>>
    /\ UNCHANGED <<callerPc, result, got, incChan, errChan, ticked, stream,
                   peerSent, delivered>>

\* m, err := Recv(); on success msg, err := m.ToGossipMessage().  A Recv
\* error on a broken or closed stream ends the goroutine and sends nothing.
ReaderRecv ==
    /\ readerPc = "recv"
    /\ \/ /\ stream = "up" /\ inbox # <<>>
          /\ rmsg' = Head(inbox)
          /\ inbox' = Tail(inbox)
          /\ readerPc' = IF Head(inbox) = "bad" THEN "putErr" ELSE "putMsg"
       \/ /\ stream # "up"
          /\ readerPc' = "exited"
          /\ UNCHANGED <<rmsg, inbox>>
    /\ UNCHANGED <<callerPc, result, got, incChan, errChan, ticked, stream,
                   peerSent, delivered>>

\* incChan <- msg: blocks while the buffer is full.
ReaderPutMsg ==
    /\ readerPc = "putMsg"
    /\ Len(incChan) < IncCap
    /\ incChan' = Append(incChan, rmsg)
    /\ readerPc' = "exited"
    /\ UNCHANGED <<callerPc, result, got, rmsg, errChan, ticked, stream,
                   inbox, peerSent, delivered>>

\* errChan <- err; return
ReaderPutErr ==
    /\ readerPc = "putErr"
    /\ Len(errChan) < ErrCap
    /\ errChan' = Append(errChan, "decodeErr")
    /\ readerPc' = "exited"
    /\ UNCHANGED <<callerPc, result, got, rmsg, incChan, ticked, stream,
                   inbox, peerSent, delivered>>

-----------------------------------------------------------------------------
(* The environment: the remote peer and the transport.                     *)

\* The remote peer's first envelope is its ConnEstablish; it sends gossip
\* only after our ConnEstablish has reached it.
PeerSend ==
    /\ stream = "up"
    /\ Len(peerSent) < MaxEnv
    /\ \E k \in IF peerSent = <<>> THEN {"good", "bad"}
                ELSE IF delivered THEN {"data"} ELSE {} :
          /\ peerSent' = Append(peerSent, k)
          /\ inbox' = Append(inbox, k)
    /\ UNCHANGED <<callerPc, result, got, readerPc, rmsg, incChan, errChan,
                   ticked, stream, delivered>>

\* The transport fails: Send and Recv return errors, in-flight data is lost.
Break ==
    /\ stream = "up"
    /\ stream' = "broken"
    /\ inbox' = <<>>
    /\ UNCHANGED <<callerPc, result, got, readerPc, rmsg, incChan, errChan,
                   ticked, peerSent, delivered>>

-----------------------------------------------------------------------------
CallerStep ==
    \/ CallerSend \/ CallerSpawn \/ SelectTimeout \/ SelectMsg \/ SelectErr
    \/ CallerClose

ReaderStep == ReaderRecv \/ ReaderPutMsg \/ ReaderPutErr

\* One call of authenticateRemotePeer: the model stops when it is over.
\* That the call and its reader do get there is what CallerReturns and
\* ReaderExits check.
Next ==
    \/ CallerStep \/ Tick \/ ReaderStep
    \/ PeerSend \/ Break

\* The scheduler runs both goroutines and the runtime fires the ticker;
\* the remote peer need never send and the transport need never fail.
Fairness == WF_vars(CallerStep) /\ WF_vars(ReaderStep) /\ WF_vars(Tick)

Spec == Init /\ [][Next]_vars /\ Fairness

-----------------------------------------------------------------------------
(* Properties.                                                             *)

TypeOK ==
    /\ callerPc \in CallerLabels
    /\ result \in {"none", "msg", "err", "timeout"}
    /\ got \in Kinds \cup {"none"}
    /\ readerPc \in ReaderLabels
    /\ rmsg \in Kinds \cup {"none"}
    /\ incChan \in Seq(Kinds) /\ Len(incChan) <= IncCap
    /\ errChan \in Seq({"decodeErr"}) /\ Len(errChan) <= ErrCap
    /\ ticked \in BOOLEAN
    /\ stream \in {"up", "broken", "closed"}
    /\ inbox \in Seq(Kinds)
    /\ peerSent \in Seq(Kinds) /\ Len(peerSent) <= MaxEnv
    /\ delivered \in BOOLEAN

\* What readWithTimeout returns is the remote peer's ConnEstablish: a
\* message only when the first envelope the peer sent decodes, and then
\* that envelope; a decode error only when it does not.  A later gossip
\* envelope is never taken for the handshake reply.
ReplyIsFirstEnvelope ==
    /\ result = "msg" => peerSent # <<>> /\ got = Head(peerSent)
                         /\ got = "good"
    /\ result = "err" => peerSent # <<>> /\ Head(peerSent) = "bad"

\* authenticateRemotePeer always returns: with the reply, the decode
\* error, or a timeout when the peer stays silent, sends nothing decodable
\* in time, or the stream breaks (the ignored Send error of line 419 and
\* the silent Recv error of lines 539 and 548 both end in the ticker).
CallerReturns == <>(callerPc = "done")

\* The reader goroutine ends: after a reply it never blocks on its
\* channel, and after a timeout the stream is torn down so its Recv fails.
ReaderExits == readerPc = "recv" ~> readerPc = "exited"

\* When readWithTimeout returns a timeout its reader goroutine has already
\* ended (spec section 9: the read task should not outlive the timeout).
ReaderJoinedOnTimeout ==
    result = "timeout" => readerPc = "exited"

-----------------------------------------------------------------------------
(* The abstract read (HandshakeReply) that this module implements.        *)

\* The peer's first envelope, as the abstract read sees it.
FirstEnvelope == IF peerSent = <<>> THEN "none" ELSE Head(peerSent)

RR == INSTANCE HandshakeReply WITH reply <- result, first <- FirstEnvelope

\* readWithTimeout implements the abstract read: it returns at most once,
\* and a message or a decode error only as the peer's first envelope
\* warrants; every other step of the caller, the reader goroutine, the
\* ticker, the peer and the transport leaves the abstract state alone.
ReplySpec == RR!ReplySpec

=============================================================================
