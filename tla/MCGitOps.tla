------------------------------ MODULE MCGitOps ------------------------------
(* Small instances of the git operations.                                   *)
EXTENDS GitOps, TLC
CONSTANTS r1, r2, s1, s2, w1, w2, v1, d1

FirstsPage == v1 :> r1
=============================================================================
