----------------------------- MODULE MalwareScans -----------------------------
(***************************************************************************)
(* Malware scans and the settings file (backend/app/services:                *)
(* panel_settings.py, malware_schedule.py).  A scan is a job, kept in the    *)
(* memory of the process that runs it and in a file of its own; the panel    *)
(* runs those asked of it, the scheduler - a process systemd starts every    *)
(* quarter of an hour, never twice at once - those that are due.  Both list  *)
(* every job and call one whose worker they do not find interrupted.  The    *)
(* schedule is a part of the panel's settings file, which every writer of    *)
(* either process reads, changes and writes back whole.                     *)
(***************************************************************************)
EXTENDS Integers, FiniteSets

CONSTANTS
    Panel, Sched,   \* the two processes
    Names,          \* the schedules: "websites", "server"
    None,
    Hour,           \* Names -> the hour from which each is due
    Gap,            \* MIN_HOURS_BETWEEN_RUNS, in the clock's units
    Day,            \* the appointed day, in the clock's units
    Jobs,           \* the ids of jobs, numbers from 1 on
    Regimes         \* what behaviours are bounded by and allow, each of a regime:
                    \*   until   bound: the clock's last reading
                    \*   scans   bound: scans started
                    \*   saves   bound: settings saved in the panel
                    \*   faults  bound: processes that die, times the file is denied
                    \*   pages   whether the panel's pages are open, and scan

Procs == {Panel, Sched}
Hours == 0..(Day - 1)

ASSUME ScansConstants ==
    /\ Panel # Sched
    /\ Day \in Nat \ {0} /\ Gap \in 1..Day /\ Hour \in [Names -> Hours]
    /\ Jobs \subseteq Nat \ {0} /\ IsFiniteSet(Jobs)
    /\ Regimes \subseteq [until : Hours, scans : Jobs \cup {0}, saves : Nat, faults : Nat, pages : BOOLEAN]
    /\ None \notin Nat \cup Procs \cup Names

VARIABLES
    now,        \* the clock, on the appointed day
    settings,   \* the settings file: [on, last, rest], rest: the other settings
    readable,   \* whether the file can be read
    writer,     \* Procs -> who is about to write the file, and what: [pc, part, rest]
    saves,
    memory,     \* MALWARE_JOBS: Procs -> Jobs -> [status, stamp]
    disk,       \* the jobs' files: Jobs -> [status, stamp]
    worker,     \* Jobs -> [proc, pc], the thread
    listed,     \* MALWARE_JOB_THREADS of both processes: the jobs in it
    view,       \* a list or a page in the panel: [pc, job, stamp]
    sched,      \* run_due: [pc, due, name, job, at]
    lastStart,  \* history: Names -> when the last scheduled scan was found due
    lost,       \* history: the schedules whose last start is no longer on record
    faults,
    regime      \* the regime of the behaviour

file == <<settings, readable, writer, saves>>
jobs == <<memory, disk, worker, listed, view>>
run == <<sched, lastStart, lost>>
counts == <<faults, regime>>
vars == <<now, file, jobs, run, counts>>

Absent == [status |-> "absent", stamp |-> 0]
Unfinished == {"queued", "running"}
Ended == {"done", "interrupted"}    \* "done": done, infected or error

NoSchedule == [on |-> [n \in Names |-> FALSE], last |-> [n \in Names |-> None]]
IdleWriter == [pc |-> "idle", part |-> NoSchedule, rest |-> FALSE]
IdleView == [pc |-> "idle", job |-> 0, stamp |-> 0]
IdleSched == [pc |-> "idle", due |-> {}, name |-> None, job |-> 0, at |-> 0]

\* Schedules switched on, other settings in the file, nothing run yet.
Init ==
    /\ now = 0
    /\ settings = [on |-> [n \in Names |-> TRUE], last |-> [n \in Names |-> None], rest |-> TRUE]
    /\ readable = TRUE
    /\ writer = [p \in Procs |-> IdleWriter]
    /\ memory = [p \in Procs |-> [j \in Jobs |-> Absent]]
    /\ disk = [j \in Jobs |-> Absent]
    /\ worker = [j \in Jobs |-> [proc |-> None, pc |-> "none"]]
    /\ listed = {} /\ view = IdleView
    /\ sched = IdleSched
    /\ lastStart = [n \in Names |-> None] /\ lost = {}
    /\ saves = 0 /\ faults = 0 /\ regime \in Regimes

Tick ==
    /\ now < regime.until
    /\ now' = now + 1
    /\ UNCHANGED <<file, jobs, run, counts>>

-----------------------------------------------------------------------------
(* The settings file                                                        *)

\* malware_schedule._read: a file that cannot be read is one with no schedule.
Schedule == IF readable THEN [on |-> settings.on, last |-> settings.last] ELSE NoSchedule

Write(p, part) == writer' = [writer EXCEPT ![p] = [IdleWriter EXCEPT !.pc = "schedule", !.part = part]]

\* set_schedules: one of them is switched on or off.
SetSchedule ==
    /\ writer[Panel].pc = "idle" /\ saves < regime.saves
    /\ saves' = saves + 1
    /\ \E n \in Names, b \in BOOLEAN : Write(Panel, [Schedule EXCEPT !.on[n] = b])
    /\ UNCHANGED <<now, settings, readable, jobs, run, counts>>

\* clear(): the addon removed with "delete data".
Clear ==
    /\ writer[Panel].pc = "idle" /\ saves < regime.saves
    /\ saves' = saves + 1
    /\ Write(Panel, NoSchedule)
    /\ UNCHANGED <<now, settings, readable, jobs, run, counts>>

\* Any other setting: read strictly, to be written back with all that was read.
SaveOther ==
    /\ writer[Panel].pc = "idle" /\ saves < regime.saves
    /\ saves' = saves + 1
    /\ readable
    /\ writer' = [writer EXCEPT ![Panel] = [pc |-> "write", part |-> Schedule, rest |-> settings.rest]]
    /\ UNCHANGED <<now, settings, readable, jobs, run, counts>>

\* The start of n is on record.
OnRecord(n, last) == lastStart[n] # None /\ last[n] # None /\ last[n] >= lastStart[n]

\* A process that dies takes its threads with it.
Dies(p) ==
    /\ memory' = [memory EXCEPT ![p] = [j \in Jobs |-> Absent]]
    /\ worker' = [j \in Jobs |-> IF worker[j].proc = p THEN [worker[j] EXCEPT !.pc = "gone"] ELSE worker[j]]
    /\ listed' = {j \in listed : worker[j].proc # p}
    /\ writer' = [writer EXCEPT ![p] = IdleWriter]
    /\ IF p = Panel
       THEN view' = IdleView /\ UNCHANGED run
       ELSE /\ sched' = IdleSched
            /\ lost' = lost \cup {n \in Names : /\ sched.pc \in {"start", "started"} /\ sched.name = n
                                                /\ ~OnRecord(n, settings.last)}
            /\ UNCHANGED <<view, lastStart>>

\* _write: the settings around the schedule.
ReadAround(p) ==
    /\ writer[p].pc = "schedule" /\ readable
    /\ writer' = [writer EXCEPT ![p].pc = "write", ![p].rest = settings.rest]
    /\ UNCHANGED <<now, settings, readable, saves, jobs, run, counts>>

\* SettingsUnreadable: the request fails, the scheduler's process ends.
ReadAroundRaises(p) ==
    /\ writer[p].pc = "schedule" /\ ~readable
    /\ IF p = Panel THEN writer' = [writer EXCEPT ![p] = IdleWriter] /\ UNCHANGED <<jobs, run>>
                    ELSE Dies(Sched) /\ UNCHANGED disk
    /\ UNCHANGED <<now, settings, readable, saves, counts>>

\* _write_raw: the whole file is replaced by one this account can read.
Replace(p) ==
    /\ writer[p].pc = "write"
    /\ settings' = [on |-> writer[p].part.on, last |-> writer[p].part.last, rest |-> writer[p].rest]
    /\ readable' = TRUE
    /\ writer' = [writer EXCEPT ![p] = IdleWriter]
    /\ lost' = {n \in Names : \/ n \in lost /\ ~OnRecord(n, writer[p].part.last)
                              \/ OnRecord(n, settings.last) /\ ~OnRecord(n, writer[p].part.last)}
    /\ UNCHANGED <<now, saves, jobs, sched, lastStart, counts>>

\* The file is handed to another account, or given back.
Deny ==
    /\ readable /\ faults < regime.faults
    /\ readable' = FALSE /\ faults' = faults + 1
    /\ UNCHANGED <<now, settings, writer, saves, jobs, run, regime>>

Allow ==
    /\ ~readable /\ readable' = TRUE
    /\ UNCHANGED <<now, settings, writer, saves, jobs, run, counts>>

-----------------------------------------------------------------------------
(* A scan                                                                  *)

Alive(p, j) == worker[j].proc = p /\ worker[j].pc \in {"started", "running", "over"}

\* The job's record in the memory of p and in its file.
Put(p, j, status) ==
    /\ memory' = [memory EXCEPT ![p][j] = [status |-> status, stamp |-> now]]
    /\ disk' = [disk EXCEPT ![j] = [status |-> status, stamp |-> now]]

\* _remember_malware_job: the job is there before its thread.
Remember(p, j) ==
    /\ j <= regime.scans
    /\ worker[j].pc = "none" /\ \A i \in Jobs : i < j => worker[i].pc # "none"
    /\ Put(p, j, "queued")
    /\ worker' = [worker EXCEPT ![j] = [proc |-> p, pc |-> "remembered"]]
    /\ UNCHANGED <<listed, view>>

Move(j, from, to) == worker[j].pc = from /\ worker' = [worker EXCEPT ![j].pc = to]

\* POST /malware/run
ScanNow ==
    /\ regime.pages
    /\ \E j \in Jobs : Remember(Panel, j)
    /\ UNCHANGED <<now, file, run, counts>>

Register(j) ==
    /\ Move(j, "remembered", "registered")
    /\ listed' = listed \cup {j}
    /\ UNCHANGED <<now, file, memory, disk, view, run, counts>>

StartThread(j) ==
    /\ Move(j, "registered", "started")
    /\ UNCHANGED <<now, file, memory, disk, listed, view, run, counts>>

\* The first words of every _run_*_job.
Begin(j) ==
    /\ Move(j, "started", "running")
    /\ Put(worker[j].proc, j, "running")
    /\ UNCHANGED <<now, file, listed, view, run, counts>>

\* _update_malware_job, _append_malware_log: the status its process remembers.
Progress(j) ==
    /\ worker[j].pc = "running"
    /\ Put(worker[j].proc, j, memory[worker[j].proc][j].status)
    /\ UNCHANGED <<now, file, worker, listed, view, run, counts>>

\* Mutant: a status the page does not know.
FinishUnknown(j) ==
    /\ Move(j, "running", "over")
    /\ Put(worker[j].proc, j, "finished")
    /\ UNCHANGED <<now, file, listed, view, run, counts>>

Finish(j) ==
    /\ Move(j, "running", "over")
    /\ Put(worker[j].proc, j, "done")
    /\ UNCHANGED <<now, file, listed, view, run, counts>>

\* finally: MALWARE_JOB_THREADS.pop
Leave(j) ==
    /\ Move(j, "over", "gone")
    /\ listed' = listed \ {j}
    /\ UNCHANGED <<now, file, memory, disk, view, run, counts>>

-----------------------------------------------------------------------------
(* What a page of the panel does                                           *)

\* Of the job in memory and the one in the file, the one changed last.
Newest(j) ==
    IF disk[j].status # "absent" /\ (memory[Panel][j].status = "absent" \/ disk[j].stamp >= memory[Panel][j].stamp)
    THEN disk[j] ELSE memory[Panel][j]

\* Mutant: the panel's memory is all it lists.
LookInMemory(j) ==
    /\ regime.pages /\ view.pc = "idle"
    /\ memory[Panel][j].status \in Unfinished
    /\ view' = [IdleView EXCEPT !.pc = "judge", !.job = j]
    /\ UNCHANGED <<now, file, memory, disk, worker, listed, run, counts>>

\* list_malware_scan_jobs, get_latest_malware_scan_job, and get_malware_scan_job
\* of one that is not in memory: an unfinished one is looked into.
Look(j) ==
    /\ regime.pages /\ view.pc = "idle"
    /\ Newest(j).status \in Unfinished
    /\ view' = [IdleView EXCEPT !.pc = "judge", !.job = j]
    /\ UNCHANGED <<now, file, memory, disk, worker, listed, run, counts>>

\* _finalize_stale_malware_job: a thread of this process that is alive?
Judge ==
    /\ view.pc = "judge"
    /\ LET j == view.job
           found == j \in listed /\ Alive(Panel, j)
       IN  /\ view' = IF found THEN IdleView ELSE [view EXCEPT !.pc = "file", !.stamp = now]
           /\ listed' = IF ~found /\ worker[j].proc = Panel THEN listed \ {j} ELSE listed
    /\ UNCHANGED <<now, file, memory, disk, worker, run, counts>>

Interrupted(stamp) == [status |-> "interrupted", stamp |-> stamp]

SaveFile ==
    /\ view.pc = "file"
    /\ disk' = [disk EXCEPT ![view.job] = Interrupted(view.stamp)]
    /\ view' = [view EXCEPT !.pc = "memory"]
    /\ UNCHANGED <<now, file, memory, worker, listed, run, counts>>

SaveMemory ==
    /\ view.pc = "memory"
    /\ memory' = [memory EXCEPT ![Panel][view.job] = Interrupted(view.stamp)]
    /\ view' = IdleView
    /\ UNCHANGED <<now, file, disk, worker, listed, run, counts>>

\* get_malware_scan_job of one in memory: all of it under the lock.
Get(j) ==
    /\ regime.pages
    /\ memory[Panel][j].status \in Unfinished
    /\ ~(j \in listed /\ Alive(Panel, j))
    /\ memory' = [memory EXCEPT ![Panel][j] = Interrupted(now)]
    /\ disk' = [disk EXCEPT ![j] = Interrupted(now)]
    /\ listed' = IF worker[j].proc = Panel THEN listed \ {j} ELSE listed
    /\ UNCHANGED <<now, file, worker, view, run, counts>>

-----------------------------------------------------------------------------
(* run_due                                                                 *)

Due(n) ==
    /\ Schedule.on[n] /\ now >= Hour[n]
    /\ Schedule.last[n] # None => now - Schedule.last[n] >= Gap

At(pc) == sched.pc = pc /\ writer[Sched].pc = "idle"
Goto(pc) == sched' = [sched EXCEPT !.pc = pc]

\* The timer: nothing due, or those that are, one after the other (in any order:
\* nothing depends on it).
RunDue ==
    /\ At("idle") /\ \E n \in Names : Due(n)
    /\ sched' = [IdleSched EXCEPT !.pc = "next", !.due = {n \in Names : Due(n)}, !.at = now]
    /\ UNCHANGED <<now, file, jobs, lastStart, lost, counts>>

StartDue ==
    /\ At("next")
    /\ \E n \in sched.due, j \in Jobs :
          /\ Remember(Sched, j)
          /\ sched' = [sched EXCEPT !.pc = "start", !.name = n, !.job = j, !.due = @ \ {n}]
          /\ lastStart' = [lastStart EXCEPT ![n] = sched.at]
          /\ lost' = lost \ {n}
    /\ UNCHANGED <<now, file, counts>>

\* record_run, up to its own read of the file.
Record(n, at) == Write(Sched, [Schedule EXCEPT !.last[n] = at])

\* No engine, no websites, a folder that is gone: an error is recorded.
StartFails ==
    /\ At("next")
    /\ \E n \in sched.due :
          /\ Record(n, sched.at)
          /\ sched' = [sched EXCEPT !.pc = "final", !.name = n, !.due = @ \ {n}]
    /\ UNCHANGED <<now, settings, readable, saves, jobs, lastStart, lost, counts>>

\* Mutant: the run is recorded when it is over.
RecordNothingYet ==
    /\ At("start") /\ worker[sched.job].pc \notin {"remembered", "registered"}
    /\ Goto("started")
    /\ UNCHANGED <<now, file, jobs, lastStart, lost, counts>>

RecordStart ==
    /\ At("start") /\ worker[sched.job].pc \notin {"remembered", "registered"}
    /\ Record(sched.name, sched.at)
    /\ Goto("started")
    /\ UNCHANGED <<now, settings, readable, saves, jobs, lastStart, lost, counts>>

WaitForScan ==
    /\ At("started")
    /\ Goto("join")
    /\ UNCHANGED <<now, file, jobs, lastStart, lost, counts>>

\* thread.join(), and the outcome is recorded.
RecordEnd ==
    /\ At("join") /\ worker[sched.job].pc = "gone"
    /\ Record(sched.name, now)
    /\ Goto("final")
    /\ UNCHANGED <<now, settings, readable, saves, jobs, lastStart, lost, counts>>

NextDue ==
    \/ At("final") /\ sched' = [sched EXCEPT !.pc = "next", !.name = None, !.job = 0]
                   /\ UNCHANGED <<now, file, jobs, lastStart, lost, counts>>
    \/ At("next") /\ sched.due = {} /\ sched' = IdleSched
                  /\ UNCHANGED <<now, file, jobs, lastStart, lost, counts>>

-----------------------------------------------------------------------------
Crash(p) ==
    /\ faults < regime.faults
    /\ faults' = faults + 1
    /\ Dies(p)
    /\ UNCHANGED <<now, settings, readable, saves, disk, regime>>

WorkerStep(j) == Register(j) \/ StartThread(j) \/ Begin(j) \/ Finish(j) \/ Leave(j)
ViewStep == (\E j \in Jobs : Look(j)) \/ Judge \/ SaveFile \/ SaveMemory
SchedStep == RunDue \/ StartDue \/ StartFails \/ RecordStart \/ WaitForScan \/ RecordEnd \/ NextDue

Next ==
    \/ Tick \/ SetSchedule \/ Clear \/ SaveOther \/ Deny \/ Allow
    \/ \E p \in Procs : ReadAround(p) \/ ReadAroundRaises(p) \/ Replace(p) \/ Crash(p)
    \/ ScanNow \/ \E j \in Jobs : WorkerStep(j) \/ Progress(j) \/ Get(j)
    \/ ViewStep \/ SchedStep

Spec == Init /\ [][Next]_vars

\* A scan ends - the scanner's call has a timeout of hours - and somebody opens
\* the page again.  Nothing is asked of the scheduler, or of who saves settings.
Fairness == WF_vars(ViewStep) /\ \A j \in Jobs : WF_vars(WorkerStep(j))

FairSpec == Spec /\ Fairness

-----------------------------------------------------------------------------
(* Properties                                                              *)

Schedules == [on : [Names -> BOOLEAN], last : [Names -> Hours \cup {None}]]
Records == [status : {"absent"} \cup Unfinished \cup Ended, stamp : Hours]

\* Every variable has its type.
TypeOK ==
    /\ now \in Hours
    /\ settings \in [on : [Names -> BOOLEAN], last : [Names -> Hours \cup {None}], rest : BOOLEAN]
    /\ readable \in BOOLEAN
    /\ writer \in [Procs -> [pc : {"idle", "schedule", "write"}, part : Schedules, rest : BOOLEAN]]
    /\ saves \in 0..regime.saves /\ faults \in 0..regime.faults
    /\ memory \in [Procs -> [Jobs -> Records]]
    /\ disk \in [Jobs -> Records]
    /\ worker \in [Jobs -> [proc : Procs \cup {None},
                            pc : {"none", "remembered", "registered", "started", "running", "over", "gone"}]]
    /\ listed \subseteq Jobs
    /\ view \in [pc : {"idle", "judge", "file", "memory"}, job : Jobs \cup {0}, stamp : Hours]
    /\ sched \in [pc : {"idle", "next", "start", "started", "join", "final"}, due : SUBSET Names,
                  name : Names \cup {None}, job : Jobs \cup {0}, at : Hours]
    /\ lastStart \in [Names -> Hours \cup {None}] /\ lost \subseteq Names

\* What the settings file holds is not forgotten.  The other settings outlive
\* every failed read.  Two scans of one schedule are found due Gap apart, over
\* dying processes and long scans, unless the record of the first was lost: to
\* a save that had read before it, to a file nobody could read, to a death
\* before it was written.
NothingForgotten ==
    [][/\ settings'.rest
       /\ \A n \in Names :
            sched.pc = "next" /\ sched'.pc = "start" /\ sched'.name = n /\ n \notin lost
            => lastStart[n] = None \/ sched.at - lastStart[n] >= Gap]_vars

\* Whatever dies and whoever calls it interrupted on the way, a scan ends on the
\* page and stays ended there - somebody has one open.
JobsSettle == regime.pages => \A j \in Jobs : <>[](Newest(j).status \notin Unfinished)
=============================================================================
