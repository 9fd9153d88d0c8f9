------------------------------ MODULE MCQrLogin ------------------------------
(* Model checking of QrLogin.  The handlers of one kind are interchangeable *)
(* where only safety is checked.                                            *)
EXTENDS QrLogin, TLC

ASSUME ConstantsAreSound == NoneIsNoValue /\ HandlersDisjoint

Symmetry == Permutations(Exchanges) \cup Permutations(Apps)
                \cup Permutations(Users) \cup Permutations(Tokens)
=============================================================================
