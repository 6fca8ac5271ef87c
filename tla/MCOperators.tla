---------------------------- MODULE MCOperators ----------------------------
(***************************************************************************)
(* Two releases of the operator, each with the Ironic release it was made  *)
(* for; only the new one is given an image.                                *)
(***************************************************************************)
EXTENDS Operators, TLC

CONSTANTS older, newer, pinned

Both == {older, newer}
TheirVersion == older :> <<37, 0>> @@ newer :> <<38, 0>>
TheirImage == older :> None @@ newer :> pinned
EmptyNewerOrLatest == {Default, <<38, 0>>, Latest}
=============================================================================
