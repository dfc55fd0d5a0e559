----------------------------- MODULE MCWpPoints -----------------------------
(* Small instances of the restore points of one WordPress.                 *)
EXTENDS WpPoints
CONSTANTS t1, p1, r1, s1
=============================================================================
