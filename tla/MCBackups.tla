------------------------------ MODULE MCBackups ------------------------------
(* A small instance of the backups of an account: the timer and one thread   *)
(* of the executor, which is enough for two runs at once.                   *)
EXTENDS Backups, TLC
CONSTANTS u1, s1, s2, w1

Keep1(dest, suffix) == [dest |-> dest, suffix |-> suffix, keep |-> 1, users |-> Users]

\* A schedule that sends its archives away, and one that keeps them here.
AwayAndHere == {s1 :> Keep1("sftp", "none") @@ s2 :> Keep1("none", "none"),
                s1 :> Keep1("s3", "full_date") @@ s2 :> Keep1("none", "none")}
=============================================================================
