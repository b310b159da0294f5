-------------------------- MODULE MCCommLifecycle --------------------------
(* Small instances of CommLifecycle for TLC. *)
EXTENDS CommLifecycle, TLC

CONSTANTS s1, s2, d1, d2, t1, t2

MCSubscribers == {s1, s2}
MCSenders     == {d1}
MCOneStopper  == {t1}
MCTwoStoppers == {t1, t2}
MCTwoSenders  == {d1, d2}
MCNoSenders   == {}
=============================================================================
