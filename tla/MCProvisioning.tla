--------------------------- MODULE MCProvisioning ---------------------------
(* Small instances of the provisioning of one account.                      *)
EXTENDS Provisioning, TLC
CONSTANTS q1, q2
Symmetry == Permutations({q1, q2})
=============================================================================
