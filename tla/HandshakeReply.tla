--------------------------- MODULE HandshakeReply ---------------------------
(***************************************************************************)
(* What readWithTimeout promises authenticateRemotePeer (spec section     *)
(* 4.5): the remote peer's first envelope is its ConnEstablish, well      *)
(* formed or not; the read returns once, with that message if it decodes, *)
(* with the decode error if it does not, or with a timeout whatever the   *)
(* peer did.  Which goroutine receives, the channels and the ticker are   *)
(* left to the implementation (HandshakeRead).                             *)
(***************************************************************************)
VARIABLES
    reply,     \* what the read returned: "none" yet, "msg", "err", "timeout"
    first      \* the peer's first envelope: "none" yet, "good", "bad"

replyVars == <<reply, first>>

ReplyInit ==
    /\ reply = "none"
    /\ first = "none"

\* The remote peer sends its ConnEstablish, which decodes or does not.
Hello(k) ==
    /\ first = "none"
    /\ first' = k
    /\ UNCHANGED reply

\* The read returns, once: a message only for a well-formed first
\* envelope, a decode error only for a malformed one.
Return(r) ==
    /\ reply = "none"
    /\ r = "msg" => first = "good"
    /\ r = "err" => first = "bad"
    /\ reply' = r
    /\ UNCHANGED first

ReplyNext ==
    \/ \E k \in {"good", "bad"} : Hello(k)
    \/ \E r \in {"msg", "err", "timeout"} : Return(r)

ReplySpec == ReplyInit /\ [][ReplyNext]_replyVars

=============================================================================
