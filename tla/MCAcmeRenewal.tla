---------------------------- MODULE MCAcmeRenewal ----------------------------
(* Model-checking instances of AcmeRenewal.                                  *)
EXTENDS AcmeRenewal, TLC

CONSTANTS d1, d2

OneDomain == {d1}
TwoDomains == {d1, d2}
DomainSymmetry == Permutations(TwoDomains)

=============================================================================
