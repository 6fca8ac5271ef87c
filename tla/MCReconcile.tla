----------------------------- MODULE MCReconcile -----------------------------
(* Values of the constants of IronicReconcile for TLC. *)
EXTENDS IronicReconcile

CONSTANTS d1, d2

TwoReleases == {37, 38}
ReleasesAndLatest == {0, 35, 38}
OneDatabase == {d1}
TwoDatabases == {d1, d2}
Either == {TRUE, FALSE}
Never == {FALSE}
=============================================================================
