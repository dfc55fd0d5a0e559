---------------------------- MODULE MCMalwareScans ----------------------------
(* A small instance of the malware scans: two schedules, and a day with room *)
(* for two runs of each a gap apart, in two regimes: settings saved and      *)
(* denied with nobody at the pages; pages open and scans asked for, with two *)
(* mishaps, or with two scans at once.                                       *)
EXTENDS MalwareScans, TLC
CONSTANTS websites, server

ThreeScans == 1..3
FirstAndSecond == websites :> 0 @@ server :> 1
MCRegimes == {[until |-> 2, scans |-> 3, saves |-> 1, faults |-> 1, pages |-> FALSE],
              [until |-> 1, scans |-> 1, saves |-> 0, faults |-> 2, pages |-> TRUE],
              [until |-> 0, scans |-> 2, saves |-> 0, faults |-> 1, pages |-> TRUE]}
=============================================================================
