------------------------------ MODULE WpPoints ------------------------------
(***************************************************************************)
(* The restore points of one WordPress (wp_manager.py, wp_extras.py): the   *)
(* folders on the account's disk, and the list of them that is kept, with   *)
(* the owner's "a point before every update" switch, inside the install's   *)
(* inventory, one JSON column that every writer reads, changes and writes   *)
(* back whole.                                                              *)
(*                                                                         *)
(* Tasks of this WordPress share its lock (module WpTasks).  A push from a  *)
(* staging copy runs under the copy's lock, a scan under its website's, the *)
(* daily check in another process, and the switch in a request thread: none *)
(* of those waits for the others.                                           *)
(***************************************************************************)
EXTENDS Integers, Sequences, SequencesExt

CONSTANTS
    Tasks,       \* pool threads that run a task of this WordPress
    Pushes,      \* pool threads that run a push into it, under another lock
    Readers,     \* scans and daily checks, which re-read the inventory
    Switches,    \* request threads inside set_auto_points
    KeepPoints,  \* KEEP_POINTS
    MaxPoints,   \* bound: restore points ever begun
    MaxEvents,   \* bound: restarts of the panel and clicks of the switch, together
    Failures     \* whether a helper or WP-CLI command may fail

ASSUME PointConstants ==
    /\ KeepPoints \in Nat \ {0}
    /\ MaxPoints \in Nat
    /\ MaxEvents \in Nat
    /\ Failures \in BOOLEAN
    /\ Tasks \cap Pushes = {}

\* A point is named by the second it was begun: later points have larger names.
Names == 1..MaxPoints

VARIABLES
    saved,    \* the inventory's [points, auto]
    disk,     \* Names -> "none", "files" (no db.sql yet) or "full"
    clock,    \* the last name given
    task,     \* Tasks \cup Pushes -> [pc, op, name, seen]
    reader,   \* Readers -> [pc, seen]
    switch,   \* Switches -> [pc, seen, on]
    events,   \* restarts and clicks so far
    pushed    \* history: a push into this WordPress has begun

vars == <<saved, disk, clock, task, reader, switch, events, pushed>>

Nothing == [points |-> <<>>, auto |-> FALSE]
IdleTask == [pc |-> "idle", op |-> "none", name |-> 0, seen |-> Nothing]
IdleReader == [pc |-> "idle", seen |-> Nothing]
IdleSwitch == [pc |-> "idle", seen |-> Nothing, on |-> FALSE]

Init ==
    /\ saved \in {[Nothing EXCEPT !.auto = on] : on \in BOOLEAN}
    /\ disk = [n \in Names |-> "none"]
    /\ clock = 0
    /\ task = [t \in Tasks \cup Pushes |-> IdleTask]
    /\ reader = [r \in Readers |-> IdleReader]
    /\ switch = [s \in Switches |-> IdleSwitch]
    /\ events = 0
    /\ pushed = FALSE

Idle(t) == task[t].pc = "idle"

\* A task of this WordPress starts under its lock; a push under another one.
MayStart(t) == Idle(t) /\ (t \in Tasks => \A u \in Tasks : Idle(u))

Go(t, pc) == task' = [task EXCEPT ![t].pc = pc]
GoReading(t, pc) == task' = [task EXCEPT ![t].pc = pc, ![t].seen = saved]
Ends(t) == task' = [task EXCEPT ![t] = IdleTask]
Works(t) == task' = [task EXCEPT ![t].pc = "working", ![t].seen = Nothing]
Checks(t) == task' = [task EXCEPT ![t] = [IdleTask EXCEPT !.pc = "checking", !.seen = saved]]

\* The row's inventory is written back as the session had read it, changed to
\* new; the column is not written when that is what was read.
WriteBack(seen, new) == saved' = IF new = seen THEN saved ELSE new

-----------------------------------------------------------------------------
(* create_point, first in an update (_point_first) or a push, or on its own. *)

\* An update of a WordPress whose switch is off, or asked not to, takes none.
BeginUpdateWithoutPoint(t) ==
    /\ t \in Tasks /\ MayStart(t)
    /\ task' = [task EXCEPT ![t] = [pc |-> "working", op |-> "update", name |-> 0, seen |-> Nothing]]
    /\ UNCHANGED <<saved, disk, clock, reader, switch, events, pushed>>

BeginPoint(t, op) ==
    /\ MayStart(t) /\ clock < MaxPoints
    /\ IF t \in Pushes THEN op = "push" ELSE op \in {"point", "update"}
    /\ op = "update" => saved.auto
    /\ clock' = clock + 1
    /\ task' = [task EXCEPT ![t] = [pc |-> "files", op |-> op, name |-> clock + 1, seen |-> Nothing]]
    /\ pushed' = (pushed \/ t \in Pushes)
    /\ UNCHANGED <<saved, disk, reader, switch, events>>

\* wp-point-create returned; the stage that follows commits, so the row is read
\* again as the path of the export is worked out.
FilesTaken(t) ==
    /\ task[t].pc = "files"
    /\ disk' = [disk EXCEPT ![task[t].name] = "files"]
    /\ GoReading(t, "export")
    /\ UNCHANGED <<saved, clock, reader, switch, events, pushed>>

\* Mutant: the database is left out of the point.
ExportedNothing(t) ==
    /\ task[t].pc = "export"
    /\ Go(t, "trim")
    /\ UNCHANGED <<saved, disk, clock, reader, switch, events, pushed>>

\* wp db export
Exported(t) ==
    /\ task[t].pc = "export"
    /\ disk' = [disk EXCEPT ![task[t].name] = "full"]
    /\ Go(t, "trim")
    /\ UNCHANGED <<saved, clock, reader, switch, events, pushed>>

\* Either command fails: the task fails, what is in the folder stays.
PointFails(t) ==
    /\ Failures
    /\ task[t].pc \in {"files", "export"}
    /\ disk' = [disk EXCEPT ![task[t].name] = "files"]
    /\ Ends(t)
    /\ UNCHANGED <<saved, clock, reader, switch, events, pushed>>

\* The list as this thread read it before the export, with the new point.
WithNew(t) == Append(task[t].seen.points, task[t].name)

\* Mutant: the oldest are kept.
OldestKept(points) == SubSeq(points, 1, KeepPoints)

LastKept(points) == SubSeq(points, Len(points) - KeepPoints + 1, Len(points))
Newest(points) == IF Len(points) <= KeepPoints THEN points ELSE LastKept(points)

\* A folder's wp-point-delete may fail: its answer is not looked at.
Delete(old) ==
    \E gone \in SUBSET old :
        /\ Failures \/ gone = old
        /\ disk' = [n \in Names |-> IF n \in gone THEN "none" ELSE disk[n]]

\* for old in points[:-KEEP_POINTS]: wp-point-delete
Trim(t) ==
    /\ task[t].pc = "trim"
    /\ Delete(ToSet(WithNew(t)) \ ToSet(Newest(WithNew(t))))
    /\ Go(t, "save")
    /\ UNCHANGED <<saved, clock, reader, switch, events, pushed>>

\* _save_points
SavePoint(t) ==
    /\ task[t].pc = "save"
    /\ saved' = [task[t].seen EXCEPT !.points = Newest(WithNew(t))]
    /\ IF task[t].op = "point" THEN Ends(t) ELSE Works(t)
    /\ UNCHANGED <<disk, clock, reader, switch, events, pushed>>

-----------------------------------------------------------------------------
(* What the task does to the WordPress, then refresh_install.                *)

\* The work is done; its stage commits and the row is read for the check.
Worked(t) ==
    /\ task[t].pc = "working"
    /\ Checks(t)
    /\ UNCHANGED <<saved, disk, clock, reader, switch, events, pushed>>

\* Mutant: apply_inventory does not carry the restore points over.
CheckedForgetsPoints(t) ==
    /\ task[t].pc = "checking"
    /\ saved' = [auto |-> task[t].seen.auto]
    /\ Ends(t)
    /\ UNCHANGED <<disk, clock, reader, switch, events, pushed>>

\* apply_inventory carries points and auto over from the row as it was read:
\* written with what the check found, or not at all when nothing changed.
Checked(t) ==
    /\ task[t].pc = "checking"
    /\ saved' \in {saved, task[t].seen}
    /\ Ends(t)
    /\ UNCHANGED <<disk, clock, reader, switch, events, pushed>>

WorkFails(t) ==
    /\ Failures
    /\ task[t].pc \in {"working", "checking"}
    /\ Ends(t)
    /\ UNCHANGED <<saved, disk, clock, reader, switch, events, pushed>>

-----------------------------------------------------------------------------
(* _handle_point_restore and _handle_point_delete                           *)

BeginRestore(t, n) ==
    /\ t \in Tasks /\ MayStart(t)
    /\ n \in ToSet(saved.points)
    /\ task' = [task EXCEPT ![t] = [pc |-> "restoring", op |-> "restore", name |-> n, seen |-> Nothing]]
    /\ UNCHANGED <<saved, disk, clock, reader, switch, events, pushed>>

\* The files go back, then the database: each needs its half of the folder.
Restored(t) ==
    /\ task[t].pc = "restoring"
    /\ IF disk[task[t].name] = "full" THEN Checks(t) ELSE Ends(t)
    /\ UNCHANGED <<saved, disk, clock, reader, switch, events, pushed>>

\* The list is read before the stage's commit.
BeginDelete(t, n) ==
    /\ t \in Tasks /\ MayStart(t)
    /\ n \in ToSet(saved.points)
    /\ task' = [task EXCEPT ![t] = [pc |-> "deleting", op |-> "delete", name |-> n, seen |-> saved]]
    /\ UNCHANGED <<saved, disk, clock, reader, switch, events, pushed>>

\* wp-point-delete; the row has been read again for the folder's name, the
\* list has not.
DeleteFolder(t) ==
    /\ task[t].pc = "deleting"
    /\ Delete({task[t].name})
    /\ task' = [task EXCEPT ![t].pc = "unlisting", ![t].seen.auto = saved.auto]
    /\ UNCHANGED <<saved, clock, reader, switch, events, pushed>>

\* A name is listed once.
Without(points, name) ==
    IF Contains(points, name) THEN RemoveAt(points, CHOOSE i \in 1..Len(points) : points[i] = name) ELSE points

Unlist(t) ==
    /\ task[t].pc = "unlisting"
    /\ saved' = [task[t].seen EXCEPT !.points = Without(@, task[t].name)]
    /\ Ends(t)
    /\ UNCHANGED <<disk, clock, reader, switch, events, pushed>>

-----------------------------------------------------------------------------
(* The daily check, which reads the row, then the WordPress with WP-CLI, then *)
(* writes the row back; and a scan, whose read and write are closer together. *)

Read(r) ==
    /\ reader[r].pc = "idle"
    /\ reader' = [reader EXCEPT ![r] = [pc |-> "reading", seen |-> saved]]
    /\ UNCHANGED <<saved, disk, clock, task, switch, events, pushed>>

ReadDone(r) ==
    /\ reader[r].pc = "reading"
    /\ saved' \in {saved, reader[r].seen}
    /\ reader' = [reader EXCEPT ![r] = IdleReader]
    /\ UNCHANGED <<disk, clock, task, switch, events, pushed>>

\* set_auto_points: the row read by _install_for, written by the switch.
LoadSwitch(s, on) ==
    /\ switch[s].pc = "idle" /\ events < MaxEvents
    /\ switch' = [switch EXCEPT ![s] = [pc |-> "loaded", seen |-> saved, on |-> on]]
    /\ events' = events + 1
    /\ UNCHANGED <<saved, disk, clock, task, reader, pushed>>

SetAuto(s) ==
    /\ switch[s].pc = "loaded"
    /\ WriteBack(switch[s].seen, [switch[s].seen EXCEPT !.auto = switch[s].on])
    /\ switch' = [switch EXCEPT ![s] = IdleSwitch]
    /\ UNCHANGED <<disk, clock, task, reader, events, pushed>>

\* The panel restarts: its threads are gone, what they wrote stays.  The daily
\* check is another process and goes on.
Crash ==
    /\ events < MaxEvents
    /\ events' = events + 1
    /\ task' = [t \in Tasks \cup Pushes |-> IdleTask]
    /\ switch' = [s \in Switches |-> IdleSwitch]
    /\ UNCHANGED <<saved, disk, clock, reader, pushed>>

TaskStep(t) ==
    \/ \E op \in {"point", "update", "push"} : BeginPoint(t, op)
    \/ BeginUpdateWithoutPoint(t)
    \/ FilesTaken(t) \/ Exported(t) \/ PointFails(t) \/ Trim(t) \/ SavePoint(t)
    \/ Worked(t) \/ Checked(t) \/ WorkFails(t)
    \/ \E n \in Names : BeginRestore(t, n) \/ BeginDelete(t, n)
    \/ Restored(t) \/ DeleteFolder(t) \/ Unlist(t)

Next ==
    \/ \E t \in Tasks \cup Pushes : TaskStep(t)
    \/ \E r \in Readers : Read(r) \/ ReadDone(r)
    \/ \E s \in Switches : (\E on \in BOOLEAN : LoadSwitch(s, on)) \/ SetAuto(s)
    \/ Crash

Spec == Init /\ [][Next]_vars

-----------------------------------------------------------------------------
(* Properties                                                               *)

Inventory == [points : Seq(Names), auto : BOOLEAN]

\* Every variable has its type.
TypeOK ==
    /\ saved \in Inventory
    /\ disk \in [Names -> {"none", "files", "full"}]
    /\ clock \in 0..MaxPoints
    /\ \A t \in Tasks \cup Pushes :
          /\ task[t].pc \in {"idle", "files", "export", "trim", "save", "working", "checking",
                             "restoring", "deleting", "unlisting"}
          /\ task[t].op \in {"none", "point", "update", "push", "restore", "delete"}
          /\ task[t].name \in 0..MaxPoints
          /\ task[t].seen \in Inventory
    /\ reader \in [Readers -> [pc : {"idle", "reading"}, seen : Inventory]]
    /\ switch \in [Switches -> [pc : {"idle", "loaded"}, seen : Inventory, on : BOOLEAN]]
    /\ events \in 0..MaxEvents
    /\ pushed \in BOOLEAN

\* While only the tasks of this WordPress make points, the point an update was
\* promised is there, whole, for as long as the update runs: no scan, check or
\* switch that writes the list behind its back makes anyone delete it.
UpdateIsCovered ==
    \A t \in Tasks :
        ~pushed /\ task[t].pc = "working" /\ task[t].name # 0 => disk[task[t].name] = "full"

\* However pushes, scans, crashes and failures interleave, a whole point leaves
\* the disk because its owner deletes it or because another whole point stays
\* there - a newer one, while only the tasks of this WordPress make points and
\* so take turns.
KeepsTheNewest ==
    [][\A n \in Names :
         disk[n] = "full" /\ disk'[n] = "none"
         => \/ \E t \in Tasks : task[t].pc = "deleting" /\ task[t].name = n
            \/ \E m \in Names : disk'[m] = "full" /\ (pushed \/ (m > n /\ disk[m] = "full"))]_disk
=============================================================================
