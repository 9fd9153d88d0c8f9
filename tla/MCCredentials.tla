---------------------------- MODULE MCCredentials ----------------------------
(* Model checking of Credentials: sets of model values, and the symmetry   *)
(* that is sound because only safety is checked here.                      *)
EXTENDS Credentials, TLC

Symmetry == Permutations(Rows) \cup Permutations(Handlers)
                \cup Permutations(Devices)
=============================================================================
