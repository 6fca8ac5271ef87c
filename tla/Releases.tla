------------------------------ MODULE Releases ------------------------------
(***************************************************************************)
(* Releases of Ironic in the order of api/v1alpha1/version.go.  Every      *)
(* supported release is X.0, so a release is its major number; 0 stands    *)
(* for "latest".                                                           *)
(***************************************************************************)
EXTENDS Integers

Latest == 0

\* Version.Compare: "latest" is above every other version; a numeric version
\* is compared with the zero fields of "latest" as with any other number.
Compare(v, w) ==
  CASE v = w       -> 0
    [] v = Latest  -> 1
    [] OTHER       -> IF v < w THEN -1 ELSE 1

Less(v, w) == Compare(v, w) < 0
=============================================================================
