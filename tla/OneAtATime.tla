----------------------------- MODULE OneAtATime -----------------------------
(***************************************************************************)
(* What the panel's background work promises: several doers may be at work,  *)
(* but never two on the same thing, and one doer on one thing at a time.     *)
(* All work may stop at once, when the panel's process goes.                *)
(***************************************************************************)
CONSTANTS Things, Doers

VARIABLE doing  \* Things -> the set of doers at work on it

Init == doing = [t \in Things |-> {}]

Begin(t, d) ==
    /\ doing[t] = {}
    /\ doing' = [doing EXCEPT ![t] = {d}]
    /\ \A u \in Things : d \notin doing[u]

End(t, d) ==
    /\ doing[t] = {d}
    /\ doing' = [doing EXCEPT ![t] = {}]

StopAll == doing' = [t \in Things |-> {}]

Next == (\E t \in Things, d \in Doers : Begin(t, d) \/ End(t, d)) \/ StopAll

Spec == Init /\ [][Next]_doing
=============================================================================
