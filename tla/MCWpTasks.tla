------------------------------ MODULE MCWpTasks ------------------------------
(***************************************************************************)
(* Small instances of the WordPress task queue: a live WordPress, its       *)
(* staging copy, and scans of everything.                                   *)
(***************************************************************************)
EXTENDS WpTasks

CONSTANTS live1, stage1, s1, s2, w1, w2, c1, c2, v1, v2

MCLiveOf == [i \in {live1, stage1} |-> IF i = stage1 THEN live1 ELSE None]

OnLive == [kind |-> "change", install |-> live1, site |-> None]
OnStage == [kind |-> "change", install |-> stage1, site |-> None]
PushStage == [kind |-> "push", install |-> stage1, site |-> None]
ScanAll == [kind |-> "scan", install |-> None, site |-> None]

MixedRequests == {OnLive, ScanAll}
PushRequests == {OnLive, OnStage, PushStage}

=============================================================================
