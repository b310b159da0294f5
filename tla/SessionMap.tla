---------------------------- MODULE SessionMap ----------------------------
(***************************************************************************)
(* What the connection store promises its users (spec section 4.4): a     *)
(* map from PKI-ID to the one session of that peer.  A session is filed   *)
(* only under a PKI-ID that has none, with a connection that never held a *)
(* session before; it leaves the map by closeByPKIid for its PKI-ID, or    *)
(* all at once by shutdown.  How dials are coalesced, how crossed dials   *)
(* and inbound streams race, and when a stream ends are left to the       *)
(* implementation (ConnStore).                                             *)
(***************************************************************************)
CONSTANTS
    Peers,     \* PKI-IDs
    Conns,     \* connections
    NoConn     \* no connection

VARIABLES
    sess,      \* sess[p]: the session of p, or NoConn
    used       \* the connections that have been filed as a session

smVars == <<sess, used>>

SMTypeOK ==
    /\ sess \in [Peers -> Conns \cup {NoConn}]
    /\ used \subseteq Conns

SMInit ==
    /\ sess = [p \in Peers |-> NoConn]
    /\ used = {}

\* A session for p on the fresh connection c: p has none.
Open(p, c) ==
    /\ sess[p] = NoConn
    /\ c \notin used
    /\ sess' = [sess EXCEPT ![p] = c]
    /\ used' = used \cup {c}

\* closeByPKIid(p) for a PKI-ID that has a session.
Close(p) ==
    /\ sess[p] # NoConn
    /\ sess' = [sess EXCEPT ![p] = NoConn]
    /\ UNCHANGED used

\* shutdown(): every session is closed.
CloseAll ==
    /\ sess' = [p \in Peers |-> NoConn]
    /\ UNCHANGED used

SMNext ==
    \/ \E p \in Peers, c \in Conns : Open(p, c)
    \/ \E p \in Peers : Close(p)
    \/ CloseAll

SMSpec == SMInit /\ [][SMNext]_smVars

=============================================================================
