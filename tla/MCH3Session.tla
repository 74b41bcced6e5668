----------------------------- MODULE MCH3Session -----------------------------
(* Model-checking instances of H3Session.                                    *)
EXTENDS H3Session, TLC

CONSTANTS r1, r2, r3

TwoRequests == {r1, r2}
ThreeRequests == {r1, r2, r3}
RequestSymmetry == Permutations(ThreeRequests)

=============================================================================
