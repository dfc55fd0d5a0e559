------------------------- MODULE MCSharedBlocklist -------------------------
(* Small instances of the shared blocklist, each a regime of its own: two     *)
(* events that may share a second, told by the timer alone; one event and     *)
(* both processes; crashes, lost files, forgotten keys and failures.          *)
EXTENDS SharedBlocklist

Quiet == [keys |-> 1, events |-> 0, clicks |-> 0, mishaps |-> 0,
          approvals |-> TRUE, failures |-> FALSE, sameSecond |-> FALSE]
MCRegimes == {[Quiet EXCEPT !.events = 2, !.sameSecond = TRUE],
              [Quiet EXCEPT !.events = 1, !.clicks = 1],
              [Quiet EXCEPT !.keys = 2, !.clicks = 1, !.mishaps = 1, !.approvals = FALSE, !.failures = TRUE]}
============================================================================
