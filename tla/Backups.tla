-------------------------------- MODULE Backups --------------------------------
(***************************************************************************)
(* Backups of accounts (backend/app/services/backup_scheduler.py, backup.py, *)
(* backup_s3.py, the jobs of backend/app/api/maintenance.py). Three kinds of *)
(* actor write archives: the timer's process, which runs the schedules that  *)
(* are due, and the two threads of the web process's executor, which run     *)
(* "Run now" and manual backups in the order they were asked for.  *)
(* Nothing keeps two of them off one account.                                *)
(***************************************************************************)
EXTENDS Integers, Sequences, FiniteSets

CONSTANTS
    Users,        \* accounts
    Schedules,    \* rows of backup_schedules
    Plans,        \* what the schedules may say: each names the schedule's
                  \* destination, suffix, retention and accounts
    Timer,        \* the process of the backup timer
    Workers,      \* threads of _backup_job_executor
    Nobody,
    MaxNow,       \* bound: seconds
    SecondsPerDay,\* for the names of what is stored
    MaxJobs,      \* bound: manual backups asked for
    JobLimit,     \* BACKUP_JOB_LIMIT
    MaxEvents,    \* bound: requests, runs of the timer and crashes
    Faults        \* whether a dump, a write, an upload, a prune or a commit may fail

Actors == {Timer} \cup Workers
Jobs == 1..MaxJobs
Seconds == 1..MaxNow

ASSUME BackupConstants ==
    /\ Plans \subseteq [Schedules -> [dest : {"none", "sftp", "s3"}, suffix : {"none", "full_date"},
                                      keep : Nat, users : SUBSET Users]]
    /\ Timer \notin Workers /\ Nobody \notin Actors \cup Users \cup Schedules
    /\ {MaxNow, SecondsPerDay, JobLimit} \subseteq Nat \ {0}
    /\ {MaxJobs, MaxEvents} \subseteq Nat
    /\ Faults \in BOOLEAN

\* Where an archive is stored: the destination and the name there. A manual
\* upload keeps the second in its name (0 stands for no second and no day).
Day(t) == t \div SecondsPerDay
Places == [dest : {"sftp"}, name : {"stamp"}, of : Seconds]
          \cup [dest : {"sftp", "s3"}, name : {"full_date"}, of : 0..Day(MaxNow)]
          \cup [dest : {"sftp", "s3"}, name : {"none"}, of : {0}]

\* What an upload left at a place: nothing, a torn file, or the whole archive
\* begun at a second.
Nothing == 0
Torn == -1

VARIABLES
    now,       \* the clock
    plan,      \* Schedules -> what it says
    status,    \* Schedules -> last_status, "deleted" for a row that is gone
    local,     \* <<user, second>> -> the file on this disk
    remote,    \* <<user, place>> -> Nothing, Torn or a second
    act,       \* Actors -> what it is doing
    timer,     \* the schedules the timer still has to look at and what it loaded
    queue,     \* the executor's tasks
    job,       \* Jobs -> [status, user]
    events,    \* requests, runs of the timer and crashes so far
    restarts,  \* restarts of the web process
    unended,   \* history: schedules of whom a thread's run could not write how it
               \* ended, and nobody has written since
    mixed      \* history: accounts that two runs had at once, whose archives two
               \* runs began in one second, or that lost one by hand

backupsVars == <<now, plan, status, local, remote, act, timer, queue, job,
                events, restarts, unended, mixed>>

NoTask == [kind |-> "none", of |-> Nobody]
Resting == [pc |-> "idle", task |-> NoTask, user |-> Nobody, at |-> 0, since |-> 0,
            left |-> {}, failed |-> FALSE, seen |-> "pending", place |-> Nobody, got |-> Nothing]
NoJob == [status |-> "none", user |-> Nobody]
NoTimer == [left |-> {}, loaded |-> [s \in Schedules |-> "pending"], fresh |-> FALSE]

BackupsInit ==
    /\ now = 1
    /\ plan \in Plans
    /\ status = [s \in Schedules |-> "pending"]
    /\ local = [f \in Users \X Seconds |-> "none"]
    /\ remote = [f \in Users \X Places |-> Nothing]
    /\ act = [a \in Actors |-> Resting]
    /\ timer = NoTimer
    /\ queue = <<>>
    /\ job = [j \in Jobs |-> NoJob]
    /\ events = 0
    /\ restarts = 0
    /\ unended = {}
    /\ mixed = {}

\* The task's schedule says what, or the manual job does.
Scheduled(a) == act[a].task.kind = "schedule"
PlanOf(a) == plan[act[a].task.of]
Dest(a) == CASE act[a].task.kind = "schedule" -> PlanOf(a).dest
             [] act[a].task.kind = "upload" -> "sftp"
             [] OTHER -> "none"

\* backup_s3.stored_name: a rotating name, the day, or the archive's own name.
Place(a) ==
    IF ~Scheduled(a) THEN [dest |-> "sftp", name |-> "stamp", of |-> act[a].at]
    ELSE [dest |-> Dest(a), name |-> PlanOf(a).suffix,
          of |-> IF PlanOf(a).suffix = "none" THEN 0 ELSE Day(now)]

Mine(a) == <<act[a].user, act[a].at>>
There(u) == {t \in Seconds : local[<<u, t>>] # "none"}
Handles(a, u) == CASE Scheduled(a) -> u \in PlanOf(a).users
                   [] act[a].task.kind \in {"backup", "upload"} -> job[act[a].task.of].user = u
                   [] OTHER -> FALSE


\* Files leave the disk: who is still writing one now writes to no name.
Without(files) == [f \in DOMAIN local |-> IF f \in files THEN "none" ELSE local[f]]
Orphaned(files) == [a \in Actors |-> IF act[a].pc = "write" /\ Mine(a) \in files
                                     THEN [act[a] EXCEPT !.pc = "orphan"] ELSE act[a]]

-----------------------------------------------------------------------------
(* Requests. The registry of jobs, the queue and the row's "running".       *)

InFlight == {"queued", "running"}

\* Mutant: past the limit the oldest jobs are dropped, whatever their status.
RememberAny(j, u) ==
    LET kept == {i \in Jobs : i # j /\ job[i].status \notin {"none", "gone"}}
        excess == Cardinality(kept) + 1 - JobLimit
        dropped == {i \in kept : Cardinality({k \in kept : k < i}) < excess}
    IN  job' = [i \in Jobs |-> IF i = j THEN [status |-> "queued", user |-> u]
                               ELSE IF i \in dropped THEN [NoJob EXCEPT !.status = "gone"]
                               ELSE job[i]]

\* _remember_backup_job: past the limit the oldest jobs that ended are dropped.
Remember(j, u) ==
    LET kept == {i \in Jobs : i # j /\ job[i].status \notin {"none", "gone"}}
        ended == {i \in kept : job[i].status \notin InFlight}
        excess == Cardinality(kept) + 1 - JobLimit
        dropped == {i \in ended : Cardinality({k \in ended : k < i}) < excess}
    IN  job' = [i \in Jobs |-> IF i = j THEN [status |-> "queued", user |-> u]
                               ELSE IF i \in dropped THEN [NoJob EXCEPT !.status = "gone"]
                               ELSE job[i]]

Submit(kind, of) == queue' = Append(queue, [kind |-> kind, of |-> of])

NextJob(j) == job[j].status = "none" /\ \A i \in 1..(j - 1) : job[i].status # "none"

\* run_backup_schedule_now.
RunNow(s) ==
    /\ events < MaxEvents /\ status[s] # "deleted"
    /\ events' = events + 1
    /\ status' = [status EXCEPT ![s] = "running"]
    /\ unended' = unended \ {s}
    /\ Submit("schedule", s)
    /\ UNCHANGED <<now, plan, local, remote, act, timer, job, restarts, mixed>>

\* create_user_backup (the handler), with a destination ("upload") or without.
AskBackup(j, u, kind) ==
    /\ events < MaxEvents /\ NextJob(j)
    /\ events' = events + 1
    /\ Remember(j, u)
    /\ Submit(kind, j)
    /\ UNCHANGED <<now, plan, status, local, remote, act, timer, restarts, unended, mixed>>

\* delete_backup_schedule
DeleteSchedule(s) ==
    /\ events < MaxEvents /\ status[s] # "deleted"
    /\ events' = events + 1
    /\ status' = [status EXCEPT ![s] = "deleted"]
    /\ UNCHANGED <<now, plan, local, remote, act, timer, queue, job, restarts, unended, mixed>>

\* delete_user_backup
DeleteArchive(u, t) ==
    /\ events < MaxEvents /\ t \in There(u)
    /\ events' = events + 1
    /\ local' = Without({<<u, t>>})
    /\ act' = Orphaned({<<u, t>>})
    /\ mixed' = mixed \cup {u}
    /\ UNCHANGED <<now, plan, status, remote, timer, queue, job, restarts, unended>>

-----------------------------------------------------------------------------
(* The timer: run_due_schedules. Its session caches the rows it loaded until *)
(* its first commit; then each is read again when its turn comes.            *)

TimerStart ==
    /\ act[Timer].pc = "idle" /\ timer.left = {} /\ events < MaxEvents
    /\ events' = events + 1
    /\ timer' = [left |-> {s \in Schedules : status[s] # "deleted"}, loaded |-> status, fresh |-> FALSE]
    /\ UNCHANGED <<now, plan, status, local, remote, act, queue, job, restarts, unended, mixed>>

Readable(s) == ~timer.fresh \/ status[s] # "deleted"

\* The row is gone when it is read again: the whole round ends.
TimerBreaks(s) ==
    /\ act[Timer].pc = "idle" /\ s \in timer.left /\ ~Readable(s)
    /\ timer' = NoTimer
    /\ UNCHANGED <<now, plan, status, local, remote, act, queue, job, events, restarts, unended, mixed>>

\* Not due, or already run in this minute.
TimerSkips(s) ==
    /\ act[Timer].pc = "idle" /\ s \in timer.left /\ Readable(s)
    /\ timer' = IF timer.left = {s} THEN NoTimer ELSE [timer EXCEPT !.left = @ \ {s}]
    /\ UNCHANGED <<now, plan, status, local, remote, act, queue, job, events, restarts, unended, mixed>>

\* run_one begins.
Running(s, loaded) ==
    [Resting EXCEPT !.pc = "next", !.task = [kind |-> "schedule", of |-> s], !.since = now,
                 !.left = plan[s].users, !.seen = loaded]

TimerTakes(s) ==
    /\ act[Timer].pc = "idle" /\ s \in timer.left /\ Readable(s)
    /\ timer' = IF timer.left = {s} THEN NoTimer ELSE [timer EXCEPT !.left = @ \ {s}]
    /\ act' = [act EXCEPT ![Timer] = Running(s, IF timer.fresh THEN status[s] ELSE timer.loaded[s])]
    /\ UNCHANGED <<now, plan, status, local, remote, queue, job, events, restarts, unended, mixed>>

-----------------------------------------------------------------------------
(* One account's archive.                                                   *)

\* create_user_backup, once the databases are dumped: the archive is named by the
\* second - the clock moves only here, where it is read - and tarfile.open
\* truncates what another run of that second wrote or is writing.
OpenArchive(a, u, t) ==
    /\ act[a].pc = "next" /\ u \in act[a].left
    /\ now' = t
    /\ LET others == {b \in Actors \ {a} : Mine(b) = <<u, t>>}
           writing == \E b \in others : act[b].pc = "write"
       IN  /\ local' = [local EXCEPT ![<<u, t>>] = IF writing THEN "torn" ELSE "part"]
           /\ act' = [b \in Actors |->
                        IF b = a THEN [act[a] EXCEPT !.pc = "write", !.user = u, !.at = t, !.left = @ \ {u}]
                        ELSE IF b \in others /\ act[b].pc = "put" THEN [act[b] EXCEPT !.got = Torn]
                        ELSE act[b]]
    /\ mixed' = IF local[<<u, t>>] # "none" \/ \E b \in Actors \ {a} : Handles(b, u)
                THEN mixed \cup {u} ELSE mixed
    /\ UNCHANGED <<plan, status, remote, timer, queue, job, events, restarts, unended>>

CloseArchive(a) ==
    /\ act[a].pc \in {"write", "orphan"}
    /\ local' = IF act[a].pc = "write" /\ local[Mine(a)] = "part"
                THEN [local EXCEPT ![Mine(a)] = "whole"] ELSE local
    /\ act' = [act EXCEPT ![a].pc = IF Dest(a) # "none" THEN "made"
                                    ELSE IF Scheduled(a) THEN "prune" ELSE "told"]
    /\ UNCHANGED <<now, plan, status, remote, timer, queue, job, events, restarts, unended, mixed>>

-----------------------------------------------------------------------------
(* Uploads. SFTP writes in place; the object store shows whole objects only. *)

Readied(a) == IF local[Mine(a)] = "whole" THEN act[a].at ELSE Torn

\* upload_to_sftp: the file at the other end is truncated first; two that write
\* one file at once leave neither's.
PutBegins(a) ==
    /\ act[a].pc = "made" /\ Dest(a) = "sftp" /\ local[Mine(a)] # "none"
    /\ LET others == {b \in Actors \ {a} : /\ act[b].pc = "put" /\ act[b].user = act[a].user
                                           /\ act[b].place = Place(a)}
       IN  act' = [b \in Actors |->
                     IF b = a THEN [act[a] EXCEPT !.pc = "put", !.place = Place(a),
                                                  !.got = IF others = {} THEN Readied(a) ELSE Torn]
                     ELSE IF b \in others THEN [act[b] EXCEPT !.got = Torn] ELSE act[b]]
    /\ remote' = [remote EXCEPT ![<<act[a].user, Place(a)>>] = Torn]
    /\ UNCHANGED <<now, plan, status, local, timer, queue, job, events, restarts, unended, mixed>>

PutEnds(a) ==
    /\ act[a].pc = "put"
    /\ remote' = [remote EXCEPT ![<<act[a].user, act[a].place>>] = act[a].got]
    /\ act' = [act EXCEPT ![a].pc = "stored"]
    /\ UNCHANGED <<now, plan, status, local, timer, queue, job, events, restarts, unended, mixed>>

\* backup_s3.upload
PutObject(a) ==
    /\ act[a].pc = "made" /\ Dest(a) = "s3" /\ local[Mine(a)] # "none"
    /\ remote' = [remote EXCEPT ![<<act[a].user, Place(a)>>] = Readied(a)]
    /\ act' = [act EXCEPT ![a].pc = "stored"]
    /\ UNCHANGED <<now, plan, status, local, timer, queue, job, events, restarts, unended, mixed>>

\* discard_local_copy
Discard(a) ==
    /\ act[a].pc = "stored"
    /\ local' = Without({Mine(a)})
    /\ act' = [Orphaned({Mine(a)}) EXCEPT ![a].pc = IF Scheduled(a) THEN "prune" ELSE "told"]
    /\ UNCHANGED <<now, plan, status, remote, timer, queue, job, events, restarts, unended, mixed>>

\* prune_user_backups: whoever made them, whole or not, the newest stay.
Pruned(u, keep) == {<<u, t>> : t \in {t \in There(u) : Cardinality({v \in There(u) : v > t}) >= keep}}
AtLeastOne(keep) == IF keep < 1 THEN 1 ELSE keep

Prune(a) ==
    /\ act[a].pc = "prune"
    /\ LET old == Pruned(act[a].user, AtLeastOne(PlanOf(a).keep))
       IN  /\ local' = Without(old)
           /\ act' = [Orphaned(old) EXCEPT ![a].pc = "next", ![a].user = Nobody, ![a].at = 0,
                                              ![a].place = Nobody, ![a].got = Nothing]
    /\ UNCHANGED <<now, plan, status, remote, timer, queue, job, events, restarts, unended, mixed>>

-----------------------------------------------------------------------------
(* How runs and jobs end.                                                   *)

\* The rest of run_one goes on with the next account; a job ends.
NextAccount(a) == [act[a] EXCEPT !.pc = "next", !.user = Nobody, !.at = 0, !.failed = TRUE,
                                 !.place = Nobody, !.got = Nothing]

Step == {"write", "orphan", "made", "put", "prune"}
MayFail(a) == Faults \/ (act[a].pc = "made" /\ local[Mine(a)] = "none")

\* Mutant: a run that fails takes its archive away.
FailsAndCleans(a) ==
    /\ act[a].pc \in Step /\ MayFail(a) /\ Scheduled(a)
    /\ act' = [act EXCEPT ![a] = NextAccount(a)]
    /\ local' = Without({Mine(a)})
    /\ UNCHANGED <<now, plan, status, remote, timer, queue, job, events, restarts, unended, mixed>>

\* Mutant: the error is noted and the account counted as backed up.
FailsQuietly(a) ==
    /\ act[a].pc \in Step /\ MayFail(a) /\ Scheduled(a)
    /\ act' = [act EXCEPT ![a] = [NextAccount(a) EXCEPT !.failed = act[a].failed]]
    /\ UNCHANGED <<now, plan, status, local, remote, timer, queue, job, events, restarts, unended, mixed>>

\* What raises in run_one is this account's error; its archive stays as it is.
Fails(a) ==
    /\ act[a].pc \in Step /\ MayFail(a) /\ Scheduled(a)
    /\ act' = [act EXCEPT ![a] = NextAccount(a)]
    /\ UNCHANGED <<now, plan, status, local, remote, timer, queue, job, events, restarts, unended, mixed>>

\* A database that cannot be dumped: there is no archive yet.
DumpFails(a, u) ==
    /\ Faults /\ act[a].pc = "next" /\ u \in act[a].left /\ Scheduled(a)
    /\ act' = [act EXCEPT ![a] = [NextAccount(a) EXCEPT !.left = @ \ {u}]]
    /\ UNCHANGED <<now, plan, status, local, remote, timer, queue, job, events, restarts, unended, mixed>>

\* _set_backup_job: a job that is no longer kept is left alone.
SetJob(j, st) == IF job[j].status \in {"none", "gone"} THEN job ELSE [job EXCEPT ![j].status = st]

\* _run_user_backup_job ends.
EndJob(a, st) ==
    /\ job' = SetJob(act[a].task.of, st)
    /\ act' = [act EXCEPT ![a] = Resting]
    /\ UNCHANGED <<now, plan, status, local, remote, timer, queue, events, restarts, unended, mixed>>

JobFails(a) ==
    /\ ~Scheduled(a)
    /\ \/ act[a].pc \in Step /\ MayFail(a)
       \/ act[a].pc = "next" /\ Faults
    /\ EndJob(a, "error")

JobDone(a) == act[a].pc = "told" /\ EndJob(a, "done")

\* The end of run_one. The session writes last_status only when it differs from
\* what it loaded; a row deleted meanwhile raises, which ends the timer's round.
EndRun(a) ==
    /\ act[a].pc = "next" /\ act[a].left = {} /\ Scheduled(a)
    /\ LET s == act[a].task.of
           outcome == IF act[a].failed \/ plan[s].users = {} THEN "error" ELSE "ok"
       IN  /\ status' = IF status[s] = "deleted" \/ outcome = act[a].seen THEN status
                        ELSE [status EXCEPT ![s] = outcome]
           /\ timer' = IF a # Timer THEN timer
                       ELSE IF status[s] = "deleted" \/ timer.left = {} THEN NoTimer
                       ELSE [NoTimer EXCEPT !.left = timer.left, !.fresh = TRUE]
           /\ unended' = IF status' = status THEN unended ELSE unended \ {s}
    /\ act' = [act EXCEPT ![a] = Resting]
    /\ UNCHANGED <<now, plan, local, remote, queue, job, events, restarts, mixed>>

\* SQLite refuses that write, or a write before it has left the session unusable:
\* the timer's round ends; a thread writes "error", if the session still can, and
\* otherwise nothing.
EndRefused(a) ==
    /\ Faults /\ act[a].pc = "next" /\ act[a].left = {} /\ Scheduled(a)
    /\ LET s == act[a].task.of
       IN  \/ /\ a = Timer
              /\ timer' = NoTimer
              /\ UNCHANGED <<status, unended>>
           \/ /\ a # Timer
              /\ unended' = unended \cup {s}
              /\ UNCHANGED <<status, timer>>
           \/ /\ a # Timer /\ status[s] # "deleted"
              /\ status' = [status EXCEPT ![s] = "error"]
              /\ unended' = unended \ {s}
              /\ UNCHANGED timer
    /\ act' = [act EXCEPT ![a] = Resting]
    /\ UNCHANGED <<now, plan, local, remote, queue, job, events, restarts, mixed>>

-----------------------------------------------------------------------------
(* The executor's threads.                                                  *)

\* Mutant: "Run now" does nothing while the timer runs the schedule.
TakeUnlessRun(w) ==
    /\ act[w].pc = "idle" /\ queue # <<>>
    /\ LET task == Head(queue)
       IN  /\ act' = [act EXCEPT ![w] =
                        IF task.kind # "schedule"
                        THEN [Resting EXCEPT !.pc = "next", !.task = task, !.since = now,
                                          !.left = {job[task.of].user}]
                        ELSE IF status[task.of] = "deleted" \/ act[Timer].task = task THEN Resting
                        ELSE Running(task.of, status[task.of])]
           /\ job' = IF task.kind = "schedule" THEN job ELSE SetJob(task.of, "running")
    /\ queue' = Tail(queue)
    /\ UNCHANGED <<now, plan, status, local, remote, timer, events, restarts, unended, mixed>>

\* _run_schedule_now_job loads the row, _run_user_backup_job the account.
Take(w) ==
    /\ act[w].pc = "idle" /\ queue # <<>>
    /\ LET task == Head(queue)
       IN  /\ act' = [act EXCEPT ![w] =
                        IF task.kind # "schedule"
                        THEN [Resting EXCEPT !.pc = "next", !.task = task, !.since = now,
                                          !.left = {job[task.of].user}]
                        ELSE IF status[task.of] = "deleted" THEN Resting
                        ELSE Running(task.of, status[task.of])]
           /\ job' = IF task.kind = "schedule" THEN job ELSE SetJob(task.of, "running")
    /\ queue' = Tail(queue)
    /\ UNCHANGED <<now, plan, status, local, remote, timer, events, restarts, unended, mixed>>

-----------------------------------------------------------------------------
(* Crashes.                                                                 *)

\* The web process: the queue and the jobs are in its memory.
Restart ==
    /\ events < MaxEvents
    /\ events' = events + 1
    /\ restarts' = restarts + 1
    /\ act' = [a \in Actors |-> IF a \in Workers THEN Resting ELSE act[a]]
    /\ queue' = <<>>
    /\ job' = [j \in Jobs |-> IF job[j].status = "none" THEN NoJob ELSE [NoJob EXCEPT !.status = "gone"]]
    /\ UNCHANGED <<now, plan, status, local, remote, timer, unended, mixed>>

TimerDies ==
    /\ events < MaxEvents /\ (act[Timer].pc # "idle" \/ timer.left # {})
    /\ events' = events + 1
    /\ act' = [act EXCEPT ![Timer] = Resting]
    /\ timer' = NoTimer
    /\ UNCHANGED <<now, plan, status, local, remote, queue, job, restarts, unended, mixed>>

ActorStep(a) ==
    \/ \E u \in Users : DumpFails(a, u) \/ \E t \in now..MaxNow : OpenArchive(a, u, t)
    \/ CloseArchive(a) \/ PutBegins(a) \/ PutEnds(a) \/ PutObject(a)
    \/ Discard(a) \/ Prune(a) \/ Fails(a) \/ EndRun(a) \/ EndRefused(a)

WorkerStep(w) ==
    \/ ActorStep(w) \/ Take(w) \/ JobFails(w) \/ JobDone(w)

BackupsNext ==
    \/ \E s \in Schedules : RunNow(s) \/ DeleteSchedule(s)
                            \/ TimerBreaks(s) \/ TimerSkips(s) \/ TimerTakes(s)
    \/ \E j \in Jobs, u \in Users, kind \in {"backup", "upload"} : AskBackup(j, u, kind)
    \/ \E u \in Users, t \in Seconds : DeleteArchive(u, t)
    \/ TimerStart \/ ActorStep(Timer) \/ TimerDies
    \/ \E w \in Workers : WorkerStep(w)
    \/ Restart

BackupsSpec == BackupsInit /\ [][BackupsNext]_backupsVars

-----------------------------------------------------------------------------
(* Properties.                                                              *)

\* An account has a whole archive, begun at or after a second, where asked.
KeptHere(u, t) == \E v \in Seconds : v >= t /\ local[<<u, v>>] = "whole"
StoredAt(u, dest, t) == \E p \in Places : p.dest = dest /\ remote[<<u, p>>] >= t
HasWhole(u) == KeptHere(u, 1) \/ \E d \in {"sftp", "s3"} : StoredAt(u, d, 1)

\* Types; the registry keeps every job that a thread or the queue still has
\* (_remember_backup_job).
BackupsTypeOK ==
    /\ now \in Seconds /\ plan \in Plans
    /\ status \in [Schedules -> {"pending", "running", "ok", "error", "deleted"}]
    /\ local \in [Users \X Seconds -> {"none", "part", "torn", "whole"}]
    /\ remote \in [Users \X Places -> {Nothing, Torn} \cup Seconds]
    /\ \A a \in Workers : act[a].task.kind \in {"backup", "upload"} => job[act[a].task.of].status = "running"
    /\ \A i \in DOMAIN queue : queue[i].kind # "schedule" => job[queue[i].of].status = "queued"
    /\ mixed \subseteq Users

\* An account that has a whole archive, on this disk or at a destination, is
\* never left without one - not by a failed upload, not by the retention, not by
\* a crash - as long as its archives are made one at a time (discard_local_copy,
\* prune_user_backups, upload_to_sftp).
CopyStays == [][\A u \in Users \ mixed' : HasWhole(u) => HasWhole(u)']_backupsVars

\* A run that ends "ok" has left each of its accounts a whole archive made since
\* it began, at its destination or on this disk; so has a job that ends "done"
\* (run_one, _run_user_backup_job).
OkIsFresh ==
    [][\A a \in Actors :
         /\ EndRun(a) /\ ~act[a].failed /\ status[act[a].task.of] # "deleted"
            => \A u \in PlanOf(a).users \ mixed :
                 IF Dest(a) = "none" THEN KeptHere(u, act[a].since) ELSE StoredAt(u, Dest(a), act[a].since)
         /\ JobDone(a) /\ act[a].user \notin mixed
            => IF Dest(a) = "none" THEN KeptHere(act[a].user, act[a].since)
               ELSE StoredAt(act[a].user, Dest(a), act[a].since)]_backupsVars

\* A schedule says "running" only while a run that will say otherwise is queued
\* or under way, whatever the timer's session wrote from the row it had loaded
\* (run_backup_schedule_now, run_one) - until a restart loses the queue, or the
\* write of how the schedule's run ended is refused, which only another run repairs.
RunningIsRun ==
    \A s \in Schedules \ unended : status[s] = "running" /\ restarts = 0 =>
        \/ \E i \in DOMAIN queue : queue[i].kind = "schedule" /\ queue[i].of = s
        \/ \E a \in Actors : Scheduled(a) /\ act[a].task.of = s
=============================================================================
