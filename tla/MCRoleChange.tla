---------------------------- MODULE MCRoleChange ----------------------------
(* Model checking of RoleChange; only safety is checked, so the three sets *)
(* of model values may be permuted.                                        *)
EXTENDS RoleChange, TLC

Symmetry == Permutations(Users) \cup Permutations(Requests)
                \cup Permutations(Handlers)
=============================================================================
