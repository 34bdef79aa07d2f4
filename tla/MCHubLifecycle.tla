-------------------------- MODULE MCHubLifecycle --------------------------
(* Instances of HubLifecycle for TLC. *)
EXTENDS HubLifecycle, TLC

CONSTANTS h1, h2, h3   \* process ids
CONSTANTS e1, e2       \* calls of ensure_server_running
CONSTANTS s1, s2       \* calls of stop_server

MCProc == {h1, h2, h3}
MCNoEnsure == {}
MCOneEnsure == {e1}
MCTwoEnsures == {e1, e2}
MCOneStop == {s1}
MCTwoStops == {s1, s2}
MCNoStop == {}

\* Process ids are interchangeable; used in runs without liveness.
MCSymmetry == Permutations(MCProc)
=============================================================================
