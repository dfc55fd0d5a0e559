-------------------------- MODULE MalwareScansProofs --------------------------
(***************************************************************************)
(* Proofs about the malware scans, for every set of schedules and jobs, every *)
(* gap between runs, and every number of saves and mishaps.  Who writes the   *)
(* settings file writes back what it read, however long ago: what is said of  *)
(* the file has to be said of what the writers have in hand, and of the order *)
(* in which they read it.                                                    *)
(***************************************************************************)
EXTENDS MalwareScans, TLAPS

Times == Hours \cup {None}
Parts == [on : [Names -> BOOLEAN], last : [Names -> Times]]

\* What each part of the state is, and what the pc's say of the rest.
CountTypes ==
    /\ regime \in Regimes /\ now \in 0..regime.until /\ faults \in 0..regime.faults
FileTypes ==
    /\ settings \in [on : [Names -> BOOLEAN], last : [Names -> Times], rest : BOOLEAN]
    /\ readable \in BOOLEAN
    /\ writer \in [Procs -> [pc : {"idle", "schedule", "write"}, part : Parts, rest : BOOLEAN]]
    /\ saves \in 0..regime.saves
JobTypes ==
    /\ memory \in [Procs -> [Jobs -> Records]] /\ disk \in [Jobs -> Records]
    /\ worker \in [Jobs -> [proc : Procs \cup {None},
                            pc : {"none", "remembered", "registered", "started", "running", "over", "gone"}]]
    /\ \A j \in Jobs : worker[j].pc # "none" => worker[j].proc \in Procs
    /\ listed \subseteq Jobs
    /\ view \in [pc : {"idle", "judge", "file", "memory"}, job : Jobs \cup {0}, stamp : Hours]
    /\ view.pc # "idle" => view.job \in Jobs
RunTypes ==
    /\ sched \in [pc : {"idle", "next", "start", "started", "join", "final"}, due : SUBSET Names,
                  name : Names \cup {None}, job : Jobs \cup {0}, at : Hours]
    /\ sched.pc \notin {"idle", "next"} => sched.name \in Names
    /\ lastStart \in [Names -> Times] /\ lost \subseteq Names

TypeInv == CountTypes /\ FileTypes /\ JobTypes /\ RunTypes

LEMMA TypeInvTypeOK == TypeInv => TypeOK
<1> SUFFICES ASSUME TypeInv PROVE TypeOK
  OBVIOUS
<1>1. now \in Hours
  BY ScansConstants DEF TypeInv, CountTypes, Hours
<1> QED
  BY <1>1 DEF TypeInv, TypeOK, CountTypes, FileTypes, JobTypes, RunTypes, Times, Parts, Schedules

LEMMA RegimeType ==
  ASSUME TypeInv
  PROVE  /\ regime.until \in Hours /\ regime.saves \in Nat /\ regime.faults \in Nat
         /\ now \in Hours /\ now \in Nat /\ Day \in Nat /\ 0 \in Hours
         /\ Panel \in Procs /\ Sched \in Procs /\ Panel # Sched /\ None \notin Hours
BY ScansConstants DEF TypeInv, CountTypes, Hours, Procs

LEMMA Values ==
  ASSUME TypeInv
  PROVE  /\ NoSchedule \in Parts /\ Schedule \in Parts
         /\ [pc |-> "idle", part |-> NoSchedule, rest |-> FALSE] = IdleWriter
         /\ IdleWriter \in [pc : {"idle", "schedule", "write"}, part : Parts, rest : BOOLEAN]
         /\ IdleWriter.pc = "idle" /\ IdleWriter.part = NoSchedule /\ IdleWriter.rest = FALSE
         /\ Absent \in Records
         /\ IdleView \in [pc : {"idle", "judge", "file", "memory"}, job : Jobs \cup {0}, stamp : Hours]
         /\ IdleView.pc = "idle"
         /\ IdleSched \in [pc : {"idle", "next", "start", "started", "join", "final"}, due : SUBSET Names,
                           name : Names \cup {None}, job : Jobs \cup {0}, at : Hours]
         /\ IdleSched.pc = "idle"
<1>1. NoSchedule \in Parts
  BY DEF NoSchedule, Parts, Times
<1>2. Schedule \in Parts
  BY <1>1 DEF Schedule, Parts, TypeInv, FileTypes
<1>3. /\ IdleWriter \in [pc : {"idle", "schedule", "write"}, part : Parts, rest : BOOLEAN]
      /\ IdleWriter.pc = "idle" /\ IdleWriter.part = NoSchedule /\ IdleWriter.rest = FALSE
      /\ [pc |-> "idle", part |-> NoSchedule, rest |-> FALSE] = IdleWriter
  BY <1>1 DEF IdleWriter
<1>4. Absent \in Records
  BY RegimeType DEF Absent, Records
<1>5. /\ IdleView \in [pc : {"idle", "judge", "file", "memory"}, job : Jobs \cup {0}, stamp : Hours]
      /\ IdleView.pc = "idle"
  BY RegimeType DEF IdleView
<1>6. /\ IdleSched \in [pc : {"idle", "next", "start", "started", "join", "final"}, due : SUBSET Names,
                        name : Names \cup {None}, job : Jobs \cup {0}, at : Hours]
      /\ IdleSched.pc = "idle"
  BY RegimeType DEF IdleSched
<1> QED
  BY <1>1, <1>2, <1>3, <1>4, <1>5, <1>6

LEMMA TypeInit == Init => TypeInv
<1> SUFFICES ASSUME Init PROVE TypeInv
  OBVIOUS
<1> USE DEF Init
<1>1. 0 \in Hours /\ regime.until \in Hours /\ regime.saves \in Nat /\ regime.faults \in Nat /\ regime \in Regimes
  BY ScansConstants DEF Hours
<1>2. NoSchedule \in Parts
  BY DEF NoSchedule, Parts, Times
<1>3. CountTypes
  BY <1>1 DEF CountTypes, Hours
<1>4. FileTypes
  BY <1>1, <1>2 DEF FileTypes, IdleWriter, Times
<1>5. Absent \in Records
  BY <1>1 DEF Absent, Records
<1>6. JobTypes
  BY <1>1, <1>5 DEF JobTypes, IdleView
<1>7. RunTypes
  BY <1>1 DEF RunTypes, IdleSched, Times
<1> QED
  BY <1>3, <1>4, <1>6, <1>7 DEF TypeInv

LEMMA FrameFile == FileTypes /\ UNCHANGED file /\ regime' = regime => FileTypes'
BY DEF FileTypes, file
LEMMA FrameJobs == JobTypes /\ UNCHANGED jobs => JobTypes'
BY DEF JobTypes, jobs
LEMMA FrameRun == RunTypes /\ UNCHANGED run => RunTypes'
BY DEF RunTypes, run
LEMMA FrameCounts == CountTypes /\ UNCHANGED counts /\ now' = now => CountTypes'
BY DEF CountTypes, counts

-----------------------------------------------------------------------------
(* The settings file's types.                                               *)

\* A writer takes something in hand.
LEMMA TypeTakes ==
  ASSUME TypeInv, NEW p \in Procs,
         NEW w \in [pc : {"idle", "schedule", "write"}, part : Parts, rest : BOOLEAN],
         writer' = [writer EXCEPT ![p] = w], saves' \in 0..regime.saves,
         UNCHANGED <<settings, readable, regime>>
  PROVE  FileTypes'
BY DEF TypeInv, FileTypes

LEMMA WriteType ==
  ASSUME TypeInv, NEW part \in Parts
  PROVE  [IdleWriter EXCEPT !.pc = "schedule", !.part = part]
            \in [pc : {"idle", "schedule", "write"}, part : Parts, rest : BOOLEAN]
BY Values

LEMMA TypeWrite ==
  ASSUME TypeInv, NEW p \in Procs, NEW part \in Parts, Write(p, part),
         saves' \in 0..regime.saves, UNCHANGED <<settings, readable, regime>>
  PROVE  FileTypes'
BY WriteType, TypeTakes DEF Write

LEMMA RecordType ==
  ASSUME TypeInv, NEW n \in Names, NEW t \in Hours
  PROVE  [Schedule EXCEPT !.last[n] = t] \in Parts
BY Values DEF Parts, Times

LEMMA TypeSaves ==
  ASSUME TypeInv, SetSchedule \/ Clear \/ SaveOther
  PROVE  TypeInv'
<1>1. saves' \in 0..regime.saves
  BY RegimeType DEF SetSchedule, Clear, SaveOther, TypeInv, FileTypes
<1>2. UNCHANGED <<now, settings, readable, jobs, run, counts, regime>>
  BY DEF SetSchedule, Clear, SaveOther, counts
<1>3. CASE SetSchedule
  <2>1. PICK n \in Names, b \in BOOLEAN : Write(Panel, [Schedule EXCEPT !.on[n] = b])
    BY <1>3 DEF SetSchedule
  <2>2. [Schedule EXCEPT !.on[n] = b] \in Parts
    BY Values DEF Parts
  <2>3. FileTypes'
    BY <1>1, <1>2, <2>1, <2>2, RegimeType, TypeWrite
  <2> QED
    BY <1>2, <2>3, FrameJobs, FrameRun, FrameCounts DEF TypeInv
<1>4. CASE Clear
  <2>1. FileTypes'
    BY <1>1, <1>2, <1>4, RegimeType, Values, TypeWrite DEF Clear
  <2> QED
    BY <1>2, <2>1, FrameJobs, FrameRun, FrameCounts DEF TypeInv
<1>5. CASE SaveOther
  <2>1. [pc |-> "write", part |-> Schedule, rest |-> settings.rest]
          \in [pc : {"idle", "schedule", "write"}, part : Parts, rest : BOOLEAN]
    BY Values DEF TypeInv, FileTypes
  <2>2. FileTypes'
    BY <1>1, <1>2, <1>5, <2>1, RegimeType, TypeTakes DEF SaveOther
  <2> QED
    BY <1>2, <2>2, FrameJobs, FrameRun, FrameCounts DEF TypeInv
<1> QED
  BY <1>3, <1>4, <1>5

\* A process that dies.
LEMMA TypeDies ==
  ASSUME TypeInv, NEW p \in Procs, Dies(p), UNCHANGED <<settings, readable, saves, disk, regime>>
  PROVE  FileTypes' /\ JobTypes' /\ RunTypes'
<1>1. FileTypes'
  BY Values, TypeTakes DEF Dies, TypeInv, FileTypes
<1>2. JobTypes'
  <2>1. [j \in Jobs |-> Absent] \in [Jobs -> Records]
    BY Values
  <2>2. memory' \in [Procs -> [Jobs -> Records]]
    BY <2>1 DEF Dies, TypeInv, JobTypes
  <2>3. /\ worker' \in [Jobs -> [proc : Procs \cup {None},
                         pc : {"none", "remembered", "registered", "started", "running", "over", "gone"}]]
        /\ \A j \in Jobs : worker'[j].pc # "none" => worker'[j].proc \in Procs
    <3>1. \A j \in Jobs : worker'[j] = IF worker[j].proc = p THEN [worker[j] EXCEPT !.pc = "gone"] ELSE worker[j]
      BY DEF Dies
    <3>2. \A j \in Jobs : worker'[j].proc = worker[j].proc
      BY <3>1 DEF TypeInv, JobTypes
    <3>3. \A j \in Jobs : worker'[j].pc = worker[j].pc \/ worker[j].proc = p
      BY <3>1
    <3>4. worker' \in [Jobs -> [proc : Procs \cup {None},
                         pc : {"none", "remembered", "registered", "started", "running", "over", "gone"}]]
      BY DEF Dies, TypeInv, JobTypes
    <3> QED
      BY <3>2, <3>3, <3>4 DEF TypeInv, JobTypes
  <2>4. listed' \subseteq Jobs
    BY DEF Dies, TypeInv, JobTypes
  <2>5. view' \in {IdleView, view}
    BY DEF Dies
  <2> QED
    BY <2>2, <2>3, <2>4, <2>5, Values DEF TypeInv, JobTypes
<1>3. RunTypes'
  <2>1. lost' \subseteq Names /\ lastStart' = lastStart /\ sched' \in {IdleSched, sched}
    BY DEF Dies, run, TypeInv, RunTypes
  <2> QED
    BY <2>1, Values DEF TypeInv, RunTypes
<1> QED
  BY <1>1, <1>2, <1>3

LEMMA TypeFile ==
  ASSUME TypeInv, NEW p \in Procs,
         ReadAround(p) \/ ReadAroundRaises(p) \/ Replace(p) \/ Crash(p) \/ Deny \/ Allow
  PROVE  TypeInv'
<1>1. CASE ReadAround(p)
  <2> DEFINE w == [writer[p] EXCEPT !.pc = "write", !.rest = settings.rest]
  <2>1. w \in [pc : {"idle", "schedule", "write"}, part : Parts, rest : BOOLEAN]
    BY DEF TypeInv, FileTypes
  <2>2. writer' = [writer EXCEPT ![p] = w]
    BY <1>1 DEF ReadAround, TypeInv, FileTypes
  <2>3. UNCHANGED <<now, settings, readable, saves, jobs, run, counts, regime>>
    BY <1>1 DEF ReadAround, counts
  <2>4. FileTypes'
    BY <2>1, <2>2, <2>3, TypeTakes DEF TypeInv, FileTypes
  <2> QED
    BY <2>3, <2>4, FrameJobs, FrameRun, FrameCounts DEF TypeInv
<1>2. CASE ReadAroundRaises(p)
  <2>1. UNCHANGED <<now, settings, readable, saves, counts, regime, disk>>
    BY <1>2 DEF ReadAroundRaises, counts, jobs
  <2>2. CASE p = Panel
    <3>1. writer' = [writer EXCEPT ![p] = IdleWriter] /\ saves' \in 0..regime.saves
      BY <1>2, <2>1, <2>2 DEF ReadAroundRaises, TypeInv, FileTypes
    <3>2. FileTypes'
      BY <2>1, <3>1, Values, TypeTakes
    <3> QED
      BY <1>2, <2>1, <2>2, <3>2, FrameJobs, FrameRun, FrameCounts DEF ReadAroundRaises, TypeInv
  <2>3. CASE p # Panel
    BY <1>2, <2>1, <2>3, RegimeType, TypeDies, FrameCounts DEF ReadAroundRaises, TypeInv
  <2> QED
    BY <2>2, <2>3
<1>3. CASE Replace(p)
  <2>1. UNCHANGED <<now, saves, jobs, sched, lastStart, counts, regime>> /\ lost' \subseteq Names /\ readable' = TRUE
    BY <1>3 DEF Replace, counts
  <2>2. settings' \in [on : [Names -> BOOLEAN], last : [Names -> Times], rest : BOOLEAN]
    BY <1>3 DEF Replace, TypeInv, FileTypes, Parts
  <2>3. writer' \in [Procs -> [pc : {"idle", "schedule", "write"}, part : Parts, rest : BOOLEAN]]
    BY <1>3, Values DEF Replace, TypeInv, FileTypes
  <2>4. FileTypes' /\ RunTypes'
    BY <2>1, <2>2, <2>3 DEF TypeInv, FileTypes, RunTypes
  <2> QED
    BY <2>1, <2>4, FrameJobs, FrameCounts DEF TypeInv
<1>4. CASE Crash(p)
  <2>1. /\ faults < regime.faults /\ faults' = faults + 1 /\ Dies(p)
        /\ UNCHANGED <<now, settings, readable, saves, disk, regime>>
    BY <1>4 DEF Crash
  <2>2. CountTypes'
    BY <2>1, RegimeType DEF TypeInv, CountTypes
  <2> QED
    BY <2>1, <2>2, TypeDies DEF TypeInv
<1>5. CASE Deny
  <2>1. /\ faults < regime.faults /\ faults' = faults + 1 /\ readable' = FALSE
        /\ UNCHANGED <<now, settings, writer, saves, jobs, run, regime>>
    BY <1>5 DEF Deny
  <2>2. CountTypes'
    BY <2>1, RegimeType DEF TypeInv, CountTypes
  <2>3. FileTypes'
    BY <2>1 DEF TypeInv, FileTypes
  <2> QED
    BY <2>1, <2>2, <2>3, FrameJobs, FrameRun DEF TypeInv
<1>6. CASE Allow
  <2>1. readable' = TRUE /\ UNCHANGED <<now, settings, writer, saves, jobs, run, counts, regime>>
    BY <1>6 DEF Allow, counts
  <2>2. FileTypes'
    BY <2>1 DEF TypeInv, FileTypes
  <2> QED
    BY <2>1, <2>2, FrameJobs, FrameRun, FrameCounts DEF TypeInv
<1> QED
  BY <1>1, <1>2, <1>3, <1>4, <1>5, <1>6

-----------------------------------------------------------------------------
(* The jobs' types.                                                         *)

LEMMA PutTypes ==
  ASSUME TypeInv, NEW p \in Procs, NEW j \in Jobs, NEW status, Put(p, j, status),
         status \in {"absent"} \cup Unfinished \cup Ended
  PROVE  memory' \in [Procs -> [Jobs -> Records]] /\ disk' \in [Jobs -> Records]
<1>1. [status |-> status, stamp |-> now] \in Records
  BY RegimeType DEF Records
<1> QED
  BY <1>1 DEF Put, TypeInv, JobTypes

LEMMA MoveTypes ==
  ASSUME TypeInv, NEW j \in Jobs, NEW from, NEW to, from # "none", Move(j, from, to),
         to \in {"registered", "started", "running", "over", "gone"}
  PROVE  /\ worker' \in [Jobs -> [proc : Procs \cup {None},
                         pc : {"none", "remembered", "registered", "started", "running", "over", "gone"}]]
         /\ \A i \in Jobs : worker'[i].pc # "none" => worker'[i].proc \in Procs
         /\ worker[j].proc \in Procs
BY DEF Move, TypeInv, JobTypes

LEMMA RememberTypes ==
  ASSUME TypeInv, NEW p \in Procs, NEW j \in Jobs, Remember(p, j)
  PROVE  JobTypes'
<1>1. memory' \in [Procs -> [Jobs -> Records]] /\ disk' \in [Jobs -> Records]
  BY PutTypes DEF Remember, Unfinished
<1> QED
  BY <1>1 DEF Remember, TypeInv, JobTypes

LEMMA JobSteps ==
  ASSUME TypeInv, NEW j \in Jobs, ScanNow \/ WorkerStep(j) \/ Progress(j) \/ Get(j) \/ ViewStep
  PROVE  JobTypes'
<1>2. CASE ScanNow
  BY <1>2, RegimeType, RememberTypes DEF ScanNow
<1>3. CASE Register(j) \/ StartThread(j) \/ Leave(j)
  <2>1. /\ worker' \in [Jobs -> [proc : Procs \cup {None},
                         pc : {"none", "remembered", "registered", "started", "running", "over", "gone"}]]
        /\ \A i \in Jobs : worker'[i].pc # "none" => worker'[i].proc \in Procs
    BY <1>3, MoveTypes DEF Register, StartThread, Leave
  <2>2. UNCHANGED <<memory, disk, view>> /\ listed' \subseteq listed \cup {j}
    BY <1>3 DEF Register, StartThread, Leave
  <2> QED
    BY <2>1, <2>2 DEF TypeInv, JobTypes
<1>4. CASE Begin(j) \/ Finish(j)
  <2>1. /\ worker' \in [Jobs -> [proc : Procs \cup {None},
                         pc : {"none", "remembered", "registered", "started", "running", "over", "gone"}]]
        /\ \A i \in Jobs : worker'[i].pc # "none" => worker'[i].proc \in Procs
        /\ worker[j].proc \in Procs
    BY <1>4, MoveTypes DEF Begin, Finish
  <2>2. memory' \in [Procs -> [Jobs -> Records]] /\ disk' \in [Jobs -> Records]
    BY <1>4, <2>1, PutTypes DEF Begin, Finish, Unfinished, Ended
  <2>3. UNCHANGED <<listed, view>>
    BY <1>4 DEF Begin, Finish
  <2> QED
    BY <2>1, <2>2, <2>3 DEF TypeInv, JobTypes
<1>5. CASE Progress(j)
  <2>1. worker[j].proc \in Procs /\ memory[worker[j].proc][j].status \in {"absent"} \cup Unfinished \cup Ended
    BY <1>5 DEF Progress, TypeInv, JobTypes, Records
  <2>2. memory' \in [Procs -> [Jobs -> Records]] /\ disk' \in [Jobs -> Records]
    BY <1>5, <2>1, PutTypes DEF Progress
  <2> QED
    BY <1>5, <2>2 DEF Progress, TypeInv, JobTypes
<1>6. ASSUME NEW stamp \in Hours PROVE Interrupted(stamp) \in Records
  BY DEF Interrupted, Records, Ended
<1>7. CASE Get(j)
  <2>1. Interrupted(now) \in Records
    BY <1>6, RegimeType
  <2>2. memory' \in [Procs -> [Jobs -> Records]] /\ disk' \in [Jobs -> Records]
    BY <1>7, <2>1 DEF Get, TypeInv, JobTypes
  <2>3. UNCHANGED <<worker, view>> /\ listed' \subseteq Jobs
    BY <1>7 DEF Get, TypeInv, JobTypes
  <2> QED
    BY <2>2, <2>3 DEF TypeInv, JobTypes
<1>8. CASE \E i \in Jobs : Look(i)
  <2>1. PICK i \in Jobs : Look(i)
    BY <1>8
  <2>2. [IdleView EXCEPT !.pc = "judge", !.job = i]
          \in [pc : {"idle", "judge", "file", "memory"}, job : Jobs \cup {0}, stamp : Hours]
    BY Values
  <2>3. [IdleView EXCEPT !.pc = "judge", !.job = i].job = i
    BY Values
  <2> QED
    BY <2>1, <2>2, <2>3 DEF Look, TypeInv, JobTypes
<1>9. CASE Judge
  <2>1. /\ view' \in {IdleView, [view EXCEPT !.pc = "file", !.stamp = now]} /\ view.pc = "judge"
        /\ listed' \subseteq listed /\ UNCHANGED <<memory, disk, worker>>
    BY <1>9 DEF Judge
  <2>2. /\ [view EXCEPT !.pc = "file", !.stamp = now]
             \in [pc : {"idle", "judge", "file", "memory"}, job : Jobs \cup {0}, stamp : Hours]
        /\ [view EXCEPT !.pc = "file", !.stamp = now].job \in Jobs
    BY <2>1, RegimeType DEF TypeInv, JobTypes
  <2> QED
    BY <2>1, <2>2, Values DEF TypeInv, JobTypes
<1>10. CASE SaveFile
  <2>1. Interrupted(view.stamp) \in Records /\ view.job \in Jobs
    BY <1>6, <1>10 DEF SaveFile, TypeInv, JobTypes
  <2>2. disk' \in [Jobs -> Records] /\ UNCHANGED <<memory, worker, listed>>
    BY <1>10, <2>1 DEF SaveFile, TypeInv, JobTypes
  <2>3. /\ view' \in [pc : {"idle", "judge", "file", "memory"}, job : Jobs \cup {0}, stamp : Hours]
        /\ view'.job \in Jobs
    BY <1>10, <2>1 DEF SaveFile, TypeInv, JobTypes
  <2> QED
    BY <2>2, <2>3 DEF TypeInv, JobTypes
<1>11. CASE SaveMemory
  <2>1. Interrupted(view.stamp) \in Records /\ view.job \in Jobs
    BY <1>6, <1>11 DEF SaveMemory, TypeInv, JobTypes
  <2>2. memory' \in [Procs -> [Jobs -> Records]] /\ UNCHANGED <<disk, worker, listed>> /\ view' = IdleView
    BY <1>11, <2>1 DEF SaveMemory, TypeInv, JobTypes
  <2> QED
    BY <2>2, Values DEF TypeInv, JobTypes
<1> QED
  BY <1>2, <1>3, <1>4, <1>5, <1>7, <1>8, <1>9, <1>10, <1>11 DEF WorkerStep, ViewStep

LEMMA TypeJobs ==
  ASSUME TypeInv, NEW j \in Jobs, ScanNow \/ WorkerStep(j) \/ Progress(j) \/ Get(j) \/ ViewStep
  PROVE  TypeInv'
<1>1. UNCHANGED <<now, file, run, counts, regime>>
  BY DEF ScanNow, WorkerStep, Register, StartThread, Begin, Finish, Leave, Progress, Get, ViewStep, Look, Judge,
     SaveFile, SaveMemory, counts
<1> QED
  BY <1>1, JobSteps, FrameFile, FrameRun, FrameCounts DEF TypeInv

-----------------------------------------------------------------------------
(* The scheduler's types.                                                   *)

LEMMA TypeSched ==
  ASSUME TypeInv, SchedStep
  PROVE  TypeInv'
<1>1. UNCHANGED <<now, counts, regime, settings, readable, saves>>
  BY DEF SchedStep, RunDue, StartDue, StartFails, RecordStart, WaitForScan, RecordEnd, NextDue, Remember, file, counts
<1>2. CASE RunDue
  <2>1. sched' = [IdleSched EXCEPT !.pc = "next", !.due = {n \in Names : Due(n)}, !.at = now]
        /\ UNCHANGED <<file, jobs, lastStart, lost>>
    BY <1>2 DEF RunDue
  <2>2. RunTypes'
    BY <2>1, Values, RegimeType DEF TypeInv, RunTypes
  <2> QED
    BY <1>1, <2>1, <2>2, FrameFile, FrameJobs, FrameCounts DEF TypeInv
<1>3. CASE StartDue
  <2>1. PICK n \in sched.due, j \in Jobs :
          /\ Remember(Sched, j)
          /\ sched' = [sched EXCEPT !.pc = "start", !.name = n, !.job = j, !.due = @ \ {n}]
          /\ lastStart' = [lastStart EXCEPT ![n] = sched.at]
          /\ lost' = lost \ {n}
    BY <1>3 DEF StartDue
  <2>2. n \in Names /\ sched.at \in Hours
    BY DEF TypeInv, RunTypes
  <2>3. RunTypes'
    BY <2>1, <2>2 DEF TypeInv, RunTypes, Times
  <2>4. JobTypes'
    BY <2>1, RegimeType, RememberTypes
  <2> QED
    BY <1>1, <1>3, <2>3, <2>4, FrameFile, FrameCounts DEF StartDue, TypeInv
<1>4. CASE StartFails
  <2>1. PICK n \in sched.due : /\ Record(n, sched.at)
                               /\ sched' = [sched EXCEPT !.pc = "final", !.name = n, !.due = @ \ {n}]
    BY <1>4 DEF StartFails
  <2>2. n \in Names /\ sched.at \in Hours
    BY DEF TypeInv, RunTypes
  <2>3. RunTypes'
    BY <1>4, <2>1, <2>2 DEF StartFails, TypeInv, RunTypes
  <2>4. FileTypes'
    BY <1>1, <2>1, <2>2, RecordType, RegimeType, TypeWrite DEF Record, TypeInv, FileTypes
  <2> QED
    BY <1>1, <1>4, <2>3, <2>4, FrameJobs, FrameCounts DEF StartFails, TypeInv
<1>5. CASE RecordStart \/ RecordEnd
  <2>1. PICK t \in Hours : Record(sched.name, t) /\ (Goto("started") \/ Goto("final")) /\ sched.name \in Names
    BY <1>5, RegimeType DEF RecordStart, RecordEnd, At, TypeInv, RunTypes
  <2>2. UNCHANGED <<jobs, lastStart, lost>>
    BY <1>5 DEF RecordStart, RecordEnd
  <2>3. RunTypes'
    BY <2>1, <2>2 DEF Goto, TypeInv, RunTypes
  <2>4. FileTypes'
    BY <1>1, <2>1, RecordType, RegimeType, TypeWrite DEF Record, TypeInv, FileTypes
  <2> QED
    BY <1>1, <2>2, <2>3, <2>4, FrameJobs, FrameCounts DEF TypeInv
<1>6. CASE WaitForScan
  <2>1. RunTypes'
    BY <1>6 DEF WaitForScan, At, Goto, TypeInv, RunTypes
  <2> QED
    BY <1>1, <1>6, <2>1, FrameFile, FrameJobs, FrameCounts DEF WaitForScan, TypeInv
<1>7. CASE NextDue
  <2>1. RunTypes'
    BY <1>7, Values DEF NextDue, TypeInv, RunTypes
  <2>2. UNCHANGED <<file, jobs>>
    BY <1>7 DEF NextDue
  <2> QED
    BY <1>1, <2>1, <2>2, FrameFile, FrameJobs, FrameCounts DEF TypeInv
<1> QED
  BY <1>2, <1>3, <1>4, <1>5, <1>6, <1>7 DEF SchedStep

LEMMA TypeNext ==
  ASSUME TypeInv, [Next]_vars
  PROVE  TypeInv'
<1>1. CASE Tick
  <2>1. now < regime.until /\ now' = now + 1 /\ UNCHANGED <<file, jobs, run, counts, regime>>
    BY <1>1 DEF Tick, counts
  <2>2. CountTypes'
    BY <2>1, RegimeType DEF TypeInv, CountTypes, Hours, counts
  <2> QED
    BY <2>1, <2>2, FrameFile, FrameJobs, FrameRun DEF TypeInv
<1>2. CASE UNCHANGED vars
  <2>1. UNCHANGED <<now, file, jobs, run, counts, regime>>
    BY <1>2 DEF vars, counts
  <2> QED
    BY <2>1, FrameFile, FrameJobs, FrameRun, FrameCounts DEF TypeInv
<1>3. CASE ScanNow \/ ViewStep
  <2>1. CASE Jobs = {}
    BY <1>3, <2>1 DEF ScanNow, ViewStep, Judge, SaveFile, SaveMemory, TypeInv, JobTypes
  <2>2. CASE Jobs # {}
    BY <1>3, <2>2, TypeJobs
  <2> QED
    BY <2>1, <2>2
<1> QED
  BY <1>1, <1>2, <1>3, RegimeType, TypeSaves, TypeFile, TypeJobs, TypeSched DEF Next

\* Type correctness of the scans, for any schedules, jobs and bounds.
THEOREM TypeCorrect == Spec => []TypeOK
<1>1. Spec => []TypeInv
  BY TypeInit, TypeNext, PTL DEF Spec
<1> QED
  BY <1>1, TypeInvTypeOK, PTL

-----------------------------------------------------------------------------
(* The settings file and who is about to write it.                          *)

\* No later than, and never is before every time.
Below(a, b) == a = None \/ (b # None /\ a <= b)

Part(p) == writer[p].part

\* Those due and not started yet, and the one whose start is to be recorded.
Pending == sched.due \cup {n \in Names : sched.pc = "start" /\ sched.name = n}

\* The other settings are in the file and in every hand that has read them;
\* the scheduler writes only where it records a run.
Hands ==
    /\ settings.rest /\ \A p \in Procs : writer[p].pc = "write" => writer[p].rest
    /\ \A p \in Procs : writer[p].pc = "idle" => writer[p] = IdleWriter
    /\ writer[Sched].pc # "idle" => sched.pc \in {"started", "final"}
    /\ sched.pc \in {"start", "started", "join", "final"} => sched.name \notin sched.due

\* No time is to come; and none of what is pending is past the look at the clock
\* that found it due.
InTime ==
    /\ sched.at <= now
    /\ \A n \in Names : /\ Below(settings.last[n], now) /\ Below(lastStart[n], now)
                        /\ \A p \in Procs : Below(Part(p).last[n], now)
    /\ \A n \in Pending : /\ Below(settings.last[n], sched.at) /\ Below(lastStart[n], sched.at)
                          /\ \A p \in Procs : Below(Part(p).last[n], sched.at)

\* The panel has read no newer record than the file has, of a schedule the file
\* has switched on; and the scheduler's is the newest, where its is.
Order ==
    \A n \in Names :
        /\ settings.on[n] => Below(Part(Panel).last[n], settings.last[n])
        /\ Part(Sched).on[n] => /\ Below(Part(Panel).last[n], Part(Sched).last[n])
                                /\ Below(settings.last[n], Part(Sched).last[n])

\* A start that was not lost is on record, or the scheduler is about to see to it.
Recorded ==
    \A n \in Names : n \in lost \/ lastStart[n] = None \/ OnRecord(n, settings.last)
                     \/ (sched.pc = "start" /\ sched.name = n)
                     \/ (sched.pc = "started" /\ sched.name = n /\ OnRecord(n, Part(Sched).last))

\* What is due was not started within the gap, or its start is lost and nobody's
\* hand will bring it back.
Apart(n) == lastStart[n] = None \/ sched.at - lastStart[n] >= Gap
GapKept ==
    \A n \in sched.due : Apart(n) \/ (n \in lost /\ ~OnRecord(n, settings.last)
                                      /\ \A p \in Procs : ~OnRecord(n, Part(p).last))

Inv == TypeInv /\ Hands /\ InTime /\ Order /\ Recorded /\ GapKept

LEMMA TimeFacts ==
  ASSUME TypeInv
  PROVE  /\ \A t \in Times : t # None => t \in Nat
         /\ now \in Nat /\ sched.at \in Nat /\ Gap \in Nat /\ None \notin Nat /\ sched.at \in Hours
         /\ settings.last \in [Names -> Times] /\ lastStart \in [Names -> Times]
         /\ settings.on \in [Names -> BOOLEAN]
         /\ \A p \in Procs : Part(p) \in Parts /\ Part(p).last \in [Names -> Times]
<1>1. Hours \subseteq Nat /\ None \notin Nat /\ Gap \in Nat
  BY ScansConstants DEF Hours
<1>2. now \in Hours /\ sched.at \in Hours
  BY RegimeType DEF TypeInv, RunTypes
<1>3. \A p \in Procs : Part(p) \in Parts /\ Part(p).last \in [Names -> Times]
  BY DEF TypeInv, FileTypes, Part, Parts
<1> QED
  BY <1>1, <1>2, <1>3 DEF TypeInv, FileTypes, RunTypes, Times

LEMMA BelowTrans ==
  ASSUME TypeInv, NEW a \in Times, NEW b \in Times, NEW c \in Times
  PROVE  /\ Below(a, a) /\ Below(None, a) /\ (Below(a, b) /\ Below(b, c) => Below(a, c))
BY TimeFacts DEF Below

\* What OnRecord says of a record it says of a newer.
LEMMA OnRecordNewer ==
  ASSUME TypeInv, NEW n \in Names, NEW f \in [Names -> Times], NEW g \in [Names -> Times],
         Below(f[n], g[n]), OnRecord(n, f)
  PROVE  OnRecord(n, g)
<1>1. lastStart[n] \in Times /\ f[n] \in Times /\ g[n] \in Times
  BY TimeFacts
<1> QED
  BY <1>1, TimeFacts DEF OnRecord, Below

LEMMA InvInit == Init => Inv
<1> SUFFICES ASSUME Init PROVE Inv
  OBVIOUS
<1>1. TypeInv /\ Init
  BY TypeInit
<1>2. /\ \A p \in Procs : writer[p] = IdleWriter
      /\ \A n \in Names : settings.last[n] = None /\ lastStart[n] = None
                          /\ \A p \in Procs : Part(p).last[n] = None
      /\ IdleWriter.pc = "idle" /\ sched.due = {} /\ sched.pc = "idle" /\ sched.at = 0 /\ settings.rest
      /\ \A n \in Names : ~Part(Sched).on[n]
  BY <1>1, Values, RegimeType DEF Init, Part, NoSchedule, IdleSched
<1>3. Sched \in Procs /\ Panel \in Procs
  BY <1>1, RegimeType
<1>4. Hands
  BY <1>2, <1>3 DEF Hands
<1>5. Recorded /\ GapKept
  BY <1>2 DEF Recorded, GapKept
<1>6. Pending = {}
  BY <1>2 DEF Pending
<1>7. InTime
  BY <1>1, <1>2, <1>6, TimeFacts DEF InTime, Below
<1>8. Order
  BY <1>2, <1>3 DEF Order, Below
<1> QED
  BY <1>1, <1>4, <1>5, <1>7, <1>8 DEF Inv

-----------------------------------------------------------------------------
(* The panel takes something in hand: what it has read, or nothing.          *)

LEMMA PanelTakes ==
  ASSUME Inv, TypeInv', NEW w, writer' = [writer EXCEPT ![Panel] = w],
         w.pc = "idle" => w = IdleWriter, w.pc = "write" => w.rest,
         \A n \in Names : w.part.last[n] \in {None, settings.last[n]},
         UNCHANGED <<now, settings, sched, lastStart, lost>>
  PROVE  Inv'
<1>1. /\ writer'[Panel] = w /\ writer'[Sched] = writer[Sched] /\ Panel # Sched /\ Procs = {Panel, Sched}
      /\ Part(Panel)' = w.part /\ Part(Sched)' = Part(Sched)
  BY RegimeType DEF Inv, TypeInv, FileTypes, Part, Procs
<1>2. Hands'
  BY <1>1 DEF Inv, Hands
<1>3. /\ \A n \in Names : settings.last[n] \in Times
      /\ \A n \in Names : Part(Sched).last[n] \in Times
      /\ sched.at \in Times /\ now \in Times
  BY <1>1, TimeFacts, RegimeType DEF Inv, Times
<1>4. Pending' = Pending /\ Pending \subseteq Names
  BY DEF Pending, Inv, TypeInv, RunTypes
<1>5. InTime'
  BY <1>1, <1>4 DEF Inv, InTime, Below
<1>6. Order'
  BY <1>1, <1>3, BelowTrans DEF Inv, Order, Below
<1>7. Recorded'
  BY <1>1 DEF Inv, Recorded, OnRecord
<1>8. GapKept'
  BY <1>1 DEF Inv, GapKept, OnRecord, Apart, TypeInv, RunTypes
<1> QED
  BY <1>2, <1>5, <1>6, <1>7, <1>8 DEF Inv

\* What Schedule holds is the file's, or nothing.
LEMMA ScheduleLast ==
  ASSUME TypeInv
  PROVE  /\ \A n \in Names : Schedule.last[n] \in {None, settings.last[n]}
         /\ \A n \in Names : Schedule.on[n] => settings.on[n] /\ Schedule.last[n] = settings.last[n]
         /\ \A n \in Names : NoSchedule.last[n] = None /\ ~NoSchedule.on[n]
BY DEF Schedule, NoSchedule

\* What Write puts in hand.
LEMMA WriteHand ==
  ASSUME TypeInv, NEW p \in Procs, NEW part \in Parts, Write(p, part)
  PROVE  \E w : /\ writer' = [writer EXCEPT ![p] = w] /\ w.pc = "schedule" /\ w.part = part
                /\ writer'[p] = w /\ Part(p)' = part /\ \A q \in Procs : q # p => writer'[q] = writer[q]
<1> DEFINE w == [IdleWriter EXCEPT !.pc = "schedule", !.part = part]
<1>1. w.pc = "schedule" /\ w.part = part
  BY Values
<1>2. writer' = [writer EXCEPT ![p] = w]
  BY DEF Write
<1> HIDE DEF w
<1> QED
  BY <1>1, <1>2 DEF TypeInv, FileTypes, Part

LEMMA InvPanel ==
  ASSUME Inv, TypeInv', SetSchedule \/ Clear \/ SaveOther
  PROVE  Inv'
<1>1. UNCHANGED <<now, settings, sched, lastStart, lost>> /\ TypeInv
  BY DEF SetSchedule, Clear, SaveOther, run, Inv
<1>2. CASE SetSchedule
  <2>1. PICK n \in Names, b \in BOOLEAN : Write(Panel, [Schedule EXCEPT !.on[n] = b])
    BY <1>2 DEF SetSchedule
  <2>2. /\ [Schedule EXCEPT !.on[n] = b] \in Parts
        /\ [Schedule EXCEPT !.on[n] = b].last = Schedule.last
    BY <1>1, Values DEF Parts
  <2>3. PICK w : /\ writer' = [writer EXCEPT ![Panel] = w] /\ w.pc = "schedule"
                 /\ w.part = [Schedule EXCEPT !.on[n] = b]
    BY <1>1, <2>1, <2>2, RegimeType, WriteHand
  <2>4. \A m \in Names : w.part.last[m] \in {None, settings.last[m]}
    BY <1>1, <2>2, <2>3, ScheduleLast
  <2>5. w.pc # "idle" /\ w.pc # "write"
    BY <2>3
  <2> QED
    BY <1>1, <2>3, <2>4, <2>5, PanelTakes
<1>3. CASE Clear
  <2>1. Write(Panel, NoSchedule) /\ NoSchedule \in Parts /\ Panel \in Procs
    BY <1>1, <1>3, RegimeType, Values DEF Clear
  <2>2. PICK w : writer' = [writer EXCEPT ![Panel] = w] /\ w.pc = "schedule" /\ w.part = NoSchedule
    BY <1>1, <2>1, WriteHand
  <2>3. \A n \in Names : w.part.last[n] \in {None, settings.last[n]}
    BY <1>1, <2>2, ScheduleLast
  <2>4. w.pc # "idle" /\ w.pc # "write"
    BY <2>2
  <2> QED
    BY <1>1, <2>2, <2>3, <2>4, PanelTakes
<1>4. CASE SaveOther
  <2> DEFINE w == [pc |-> "write", part |-> Schedule, rest |-> settings.rest]
  <2>1. writer' = [writer EXCEPT ![Panel] = w]
    BY <1>4 DEF SaveOther
  <2>2. w.pc = "write" /\ w.rest /\ w.part = Schedule
    BY DEF Inv, Hands
  <2> HIDE DEF w
  <2> QED
    BY <1>1, <2>1, <2>2, ScheduleLast, PanelTakes
<1> QED
  BY <1>2, <1>3, <1>4

-----------------------------------------------------------------------------
(* The rest is read around it, and the file replaced.                        *)

LEMMA InvReadAround ==
  ASSUME Inv, TypeInv', NEW p \in Procs, ReadAround(p)
  PROVE  Inv'
<1>1. /\ writer' = [writer EXCEPT ![p].pc = "write", ![p].rest = settings.rest]
      /\ writer[p].pc = "schedule" /\ UNCHANGED <<now, settings, sched, lastStart, lost>>
  BY DEF ReadAround, run
<1>2. /\ \A q \in Procs : Part(q)' = Part(q)
      /\ \A q \in Procs : q # p => writer'[q] = writer[q]
      /\ writer'[p].pc = "write" /\ writer'[p].rest = settings.rest
  BY <1>1 DEF Part, Inv, TypeInv, FileTypes
<1>3. Hands'
  <2>1. settings'.rest /\ writer'[p].rest
    BY <1>1, <1>2 DEF Inv, Hands
  <2>2. \A q \in Procs : writer'[q].pc = "idle" => q # p /\ writer'[q] = IdleWriter
    BY <1>2 DEF Inv, Hands
  <2>3. writer'[Sched].pc # "idle" => sched.pc \in {"started", "final"}
    BY <1>1, <1>2, RegimeType DEF Inv, Hands
  <2>4. \A q \in Procs : writer'[q].pc = "write" => writer'[q].rest
    BY <1>2, <2>1 DEF Inv, Hands
  <2>5. sched'.pc \in {"start", "started", "join", "final"} => sched'.name \notin sched'.due
    BY <1>1 DEF Inv, Hands
  <2> QED
    BY <1>1, <2>1, <2>2, <2>3, <2>4, <2>5 DEF Hands
<1>4. Pending' = Pending
  BY <1>1 DEF Pending
<1>5. InTime'
  BY <1>1, <1>2, <1>4 DEF Inv, InTime, Below
<1>6. Order'
  BY <1>1, <1>2, RegimeType DEF Inv, Order, Below
<1>7. Recorded'
  BY <1>1, <1>2, RegimeType DEF Inv, Recorded, OnRecord
<1>8. GapKept'
  BY <1>1, <1>2 DEF Inv, GapKept, OnRecord, Apart
<1> QED
  BY <1>3, <1>5, <1>6, <1>7, <1>8 DEF Inv

LEMMA InvReplace ==
  ASSUME Inv, TypeInv', NEW p \in Procs, Replace(p)
  PROVE  Inv' /\ settings'.rest
<1>1. /\ writer[p].pc = "write" /\ TypeInv
      /\ settings' = [on |-> Part(p).on, last |-> Part(p).last, rest |-> writer[p].rest]
      /\ writer' = [writer EXCEPT ![p] = IdleWriter]
      /\ lost' = {n \in Names : \/ n \in lost /\ ~OnRecord(n, Part(p).last)
                                \/ OnRecord(n, settings.last) /\ ~OnRecord(n, Part(p).last)}
      /\ UNCHANGED <<now, sched, lastStart>>
  BY DEF Replace, Part, Inv
<1>2. /\ settings'.on = Part(p).on /\ settings'.last = Part(p).last /\ settings'.rest = writer[p].rest
  BY <1>1
<1>3. /\ writer'[p] = IdleWriter /\ \A q \in Procs : q # p => writer'[q] = writer[q]
      /\ \A q \in Procs : q # p => Part(q)' = Part(q)
      /\ \A n \in Names : Part(p)'.last[n] = None /\ ~Part(p)'.on[n]
  <2>1. writer'[p] = IdleWriter /\ \A q \in Procs : q # p => writer'[q] = writer[q]
    BY <1>1 DEF TypeInv, FileTypes
  <2>2. Part(p)' = NoSchedule
    BY <1>1, <2>1, Values DEF Part
  <2> QED
    BY <1>1, <2>1, <2>2, ScheduleLast DEF Part
<1>4. Hands' /\ settings'.rest
  BY <1>1, <1>2, <1>3, Values DEF Inv, Hands
<1>5. Pending' = Pending /\ Pending \subseteq Names
  BY <1>1 DEF Pending, TypeInv, RunTypes
<1>6. InTime'
  BY <1>1, <1>2, <1>3, <1>5 DEF Inv, InTime, Below
<1>7. Order'
  BY <1>1, <1>2, <1>3, RegimeType DEF Inv, Order, Below, Procs
<1>8. Recorded'
  BY <1>1, <1>2, <1>3, RegimeType DEF Inv, Recorded, OnRecord, Hands, Procs
<1>9. GapKept'
  BY <1>1, <1>2, <1>3 DEF Inv, GapKept, OnRecord, Apart, TypeInv, RunTypes
<1> QED
  BY <1>4, <1>6, <1>7, <1>8, <1>9 DEF Inv

-----------------------------------------------------------------------------
(* Processes that die.                                                      *)

LEMMA InvDies ==
  ASSUME Inv, TypeInv', NEW p \in Procs, Dies(p), UNCHANGED <<now, settings>>
  PROVE  Inv'
<1>1. /\ TypeInv /\ IdleWriter.pc = "idle"
      /\ \A n \in Names : IdleWriter.part.last[n] = None /\ ~IdleWriter.part.on[n]
  BY Values, ScheduleLast DEF Inv
<1>2. CASE p = Panel
  <2>1. writer' = [writer EXCEPT ![Panel] = IdleWriter] /\ UNCHANGED <<sched, lastStart, lost>>
    BY <1>2 DEF Dies, run
  <2> QED
    BY <1>1, <2>1, PanelTakes
<1>3. CASE p = Sched
  <2>1. /\ writer' = [writer EXCEPT ![Sched] = IdleWriter] /\ sched' = IdleSched /\ lastStart' = lastStart
        /\ lost' = lost \cup {n \in Names : /\ sched.pc \in {"start", "started"} /\ sched.name = n
                                            /\ ~OnRecord(n, settings.last)}
    BY <1>3, RegimeType DEF Dies, Inv
  <2>2. /\ writer'[Sched] = IdleWriter /\ writer'[Panel] = writer[Panel] /\ Procs = {Panel, Sched} /\ Panel # Sched
        /\ Part(Panel)' = Part(Panel) /\ Part(Sched)' = IdleWriter.part
    BY <1>1, <2>1, RegimeType DEF TypeInv, FileTypes, Part, Procs
  <2>3. sched'.pc = "idle" /\ sched'.due = {} /\ sched'.at = 0 /\ Pending' = {}
    BY <2>1 DEF IdleSched, Pending
  <2>4. Hands'
    BY <1>1, <2>2, <2>3 DEF Inv, Hands
  <2>5. InTime'
    BY <1>1, <2>1, <2>2, <2>3, TimeFacts DEF Inv, InTime, Below
  <2>6. Order'
    BY <1>1, <2>2 DEF Inv, Order, Below
  <2>7. Recorded'
    BY <1>1, <2>1, <2>2 DEF Inv, Recorded, OnRecord
  <2>8. GapKept'
    BY <2>3 DEF GapKept
  <2> QED
    BY <2>4, <2>5, <2>6, <2>7, <2>8 DEF Inv
<1> QED
  BY <1>2, <1>3 DEF Procs

-----------------------------------------------------------------------------
(* The scheduler.                                                           *)

LEMMA InvRunDue ==
  ASSUME Inv, TypeInv', RunDue
  PROVE  Inv'
<1>1. /\ sched' = [IdleSched EXCEPT !.pc = "next", !.due = {n \in Names : Due(n)}, !.at = now]
      /\ UNCHANGED <<now, settings, writer, lastStart, lost>> /\ TypeInv
      /\ sched.pc = "idle" /\ writer[Sched].pc = "idle"
  BY DEF RunDue, At, file, Inv
<1>2. sched'.pc = "next" /\ sched'.due = {n \in Names : Due(n)} /\ sched'.at = now /\ Pending' = sched'.due
  BY <1>1 DEF IdleSched, Pending
<1>3. \A p \in Procs : Part(p)' = Part(p)
  BY <1>1 DEF Part
<1>4. \A n \in Names : Due(n) => /\ settings.on[n]
                                 /\ settings.last[n] # None => now - settings.last[n] >= Gap
  BY <1>1, ScheduleLast DEF Due
<1>5. Hands'
  BY <1>1, <1>2 DEF Inv, Hands
<1>6. InTime'
  BY <1>1, <1>2, <1>3, TimeFacts DEF Inv, InTime, Below
<1>7. Order'
  BY <1>1, <1>3, RegimeType DEF Inv, Order, Below
<1>8. Recorded'
  BY <1>1, <1>2, <1>3 DEF Inv, Recorded, OnRecord
<1>9. GapKept'
  <2> SUFFICES ASSUME NEW n \in Names, Due(n), lastStart[n] # None, ~(now - lastStart[n] >= Gap)
               PROVE  n \in lost /\ ~OnRecord(n, settings.last) /\ \A p \in Procs : ~OnRecord(n, Part(p).last)
    BY <1>1, <1>2, <1>3 DEF GapKept, Apart, OnRecord
  <2>1. settings.last[n] \in Times /\ lastStart[n] \in Nat /\ Gap \in Nat /\ now \in Nat
    BY <1>1, TimeFacts
  <2>2. settings.last[n] # None => settings.last[n] \in Nat
    BY <1>1, <2>1, TimeFacts
  <2>3. ~OnRecord(n, settings.last)
    BY <1>4, <2>1, <2>2 DEF OnRecord
  <2>4. n \in lost
    BY <1>1, <2>3 DEF Inv, Recorded
  <2>5. ~OnRecord(n, Part(Panel).last)
    BY <1>1, <1>4, <2>3, RegimeType, TimeFacts, OnRecordNewer DEF Inv, Order
  <2>6. ~OnRecord(n, Part(Sched).last)
    BY <1>1, RegimeType, Values, ScheduleLast DEF Inv, Hands, OnRecord, Part
  <2> QED
    BY <2>3, <2>4, <2>5, <2>6 DEF Procs
<1> QED
  BY <1>5, <1>6, <1>7, <1>8, <1>9 DEF Inv

LEMMA InvStartDue ==
  ASSUME Inv, TypeInv', StartDue
  PROVE  Inv' /\ \A n \in Names : sched'.name = n /\ n \notin lost => Apart(n)
<1>1. PICK m \in sched.due :
          /\ sched' = [sched EXCEPT !.pc = "start", !.name = m, !.job = sched'.job, !.due = @ \ {m}]
          /\ lastStart' = [lastStart EXCEPT ![m] = sched.at]
          /\ lost' = lost \ {m}
  BY DEF StartDue, Inv, TypeInv, RunTypes
<1>2. /\ UNCHANGED <<now, settings, writer>> /\ TypeInv /\ m \in Names /\ m # None
      /\ sched.pc = "next" /\ writer[Sched].pc = "idle"
  BY RegimeType, ScansConstants DEF StartDue, At, file, Inv, TypeInv, RunTypes
<1>3. sched'.pc = "start" /\ sched'.name = m /\ sched'.due = sched.due \ {m} /\ sched'.at = sched.at
  BY <1>1, <1>2 DEF TypeInv, RunTypes
<1>4. /\ \A p \in Procs : Part(p)' = Part(p)
      /\ lastStart'[m] = sched.at /\ \A n \in Names : n # m => lastStart'[n] = lastStart[n]
  BY <1>1, <1>2, TimeFacts DEF Part
<1>5. Pending' = sched.due /\ Pending = sched.due /\ sched.due \subseteq Names
  BY <1>2, <1>3 DEF Pending, TypeInv, RunTypes
<1>6. Hands'
  BY <1>2, <1>3 DEF Inv, Hands
<1>7. InTime'
  BY <1>2, <1>3, <1>4, <1>5, TimeFacts DEF Inv, InTime, Below
<1>8. Order'
  BY <1>2, <1>4, RegimeType DEF Inv, Order, Below
<1>9. Recorded'
  BY <1>1, <1>2, <1>3, <1>4 DEF Inv, Recorded, OnRecord
<1>10. GapKept'
  BY <1>1, <1>2, <1>3, <1>4 DEF Inv, GapKept, OnRecord, Apart, TypeInv, RunTypes
<1>11. \A n \in Names : sched'.name = n /\ n \notin lost => Apart(n)
  BY <1>3 DEF Inv, GapKept
<1> QED
  BY <1>6, <1>7, <1>8, <1>9, <1>10, <1>11 DEF Inv

\* What a record puts into the scheduler's hand, of a schedule the panel has no
\* later record of.
LEMMA RecordHand ==
  ASSUME Inv, NEW n \in Names, NEW t \in Hours, Record(n, t), writer[Sched].pc = "idle",
         Below(settings.last[n], t), Below(Part(Panel).last[n], t), t <= now,
         UNCHANGED <<now, settings>>
  PROVE  /\ writer'[Panel] = writer[Panel] /\ Part(Panel)' = Part(Panel) /\ writer'[Sched].pc = "schedule"
         /\ Part(Sched)'.last[n] = t
         /\ \A m \in Names : m # n => Part(Sched)'.last[m] \in {None, settings.last[m]}
         /\ Order'
<1>1. TypeInv /\ Panel \in Procs /\ Sched \in Procs /\ Panel # Sched
  BY RegimeType DEF Inv
<1>2. /\ [Schedule EXCEPT !.last[n] = t] \in Parts /\ [Schedule EXCEPT !.last[n] = t].on = Schedule.on
      /\ [Schedule EXCEPT !.last[n] = t].last = [Schedule.last EXCEPT ![n] = t]
      /\ Schedule.last \in [Names -> Times]
  BY <1>1, RecordType, Values DEF Parts
<1>3. PICK part \in Parts : part = [Schedule EXCEPT !.last[n] = t]
  BY <1>2
<1>4. /\ writer'[Panel] = writer[Panel] /\ Part(Sched)' = part /\ writer'[Sched].pc = "schedule"
      /\ Part(Panel)' = Part(Panel)
  BY <1>1, <1>3, WriteHand DEF Record, Part
<1>5. /\ part.last[n] = t /\ \A m \in Names : m # n => part.last[m] = Schedule.last[m]
      /\ part.on = Schedule.on
  BY <1>2, <1>3
<1>6. Order'
  <2> SUFFICES ASSUME NEW m \in Names
               PROVE  /\ settings.on[m] => Below(Part(Panel).last[m], settings.last[m])
                      /\ part.on[m] => /\ Below(Part(Panel).last[m], part.last[m])
                                       /\ Below(settings.last[m], part.last[m])
    BY <1>4 DEF Order, Below
  <2>1. settings.on[m] => Below(Part(Panel).last[m], settings.last[m])
    BY DEF Inv, Order
  <2>2. CASE m = n
    BY <1>5, <2>1, <2>2
  <2>3. CASE m # n
    <3>1. part.on[m] => settings.on[m] /\ part.last[m] = settings.last[m]
      BY <1>1, <1>5, <2>3, ScheduleLast
    <3>2. Below(settings.last[m], settings.last[m])
      BY <1>1, TimeFacts, BelowTrans
    <3> QED
      BY <2>1, <3>1, <3>2
  <2> QED
    BY <2>2, <2>3
<1> QED
  BY <1>1, <1>4, <1>5, <1>6, ScheduleLast

\* The start of one that was due, or its failure, or its end is recorded.
LEMMA InvRecord ==
  ASSUME Inv, TypeInv', StartFails \/ RecordStart \/ RecordEnd
  PROVE  Inv'
<1>1. PICK n \in Names, t \in Hours :
        /\ Record(n, t) /\ Below(settings.last[n], t) /\ Below(Part(Panel).last[n], t) /\ t <= now
        /\ sched'.name = n /\ sched'.due = sched.due \ {n} /\ sched'.at = sched.at
        /\ sched'.pc \in {"started", "final"}
        /\ sched'.pc = "started" => sched.pc = "start" /\ sched.name = n /\ t = sched.at
        /\ sched'.pc = "final" => sched.pc \in {"next", "join"}
        /\ n \notin sched'.due
  <2>1. CASE StartFails
    <3>1. PICK n \in sched.due : /\ Record(n, sched.at) /\ sched.pc = "next"
                                 /\ sched' = [sched EXCEPT !.pc = "final", !.name = n, !.due = @ \ {n}]
      BY <2>1 DEF StartFails, At
    <3>2. n \in Names /\ n \in Pending /\ sched.at \in Hours /\ sched.at <= now
      BY TimeFacts DEF Inv, InTime, TypeInv, RunTypes, Pending
    <3>3. Below(settings.last[n], sched.at) /\ Below(Part(Panel).last[n], sched.at)
      BY <3>2, RegimeType DEF Inv, InTime
    <3>4. sched'.name = n /\ sched'.due = sched.due \ {n} /\ sched'.at = sched.at /\ sched'.pc = "final"
      BY <3>1 DEF Inv, TypeInv, RunTypes
    <3> QED
      BY <3>1, <3>2, <3>3, <3>4
  <2>2. CASE RecordStart
    <3>1. Record(sched.name, sched.at) /\ sched.pc = "start" /\ sched' = [sched EXCEPT !.pc = "started"]
      BY <2>2 DEF RecordStart, At, Goto
    <3>2. /\ sched.name \in Names /\ sched.name \in Pending /\ sched.at \in Hours /\ sched.at <= now
      BY <3>1, TimeFacts DEF Inv, InTime, TypeInv, RunTypes, Pending
    <3>3. Below(settings.last[sched.name], sched.at) /\ Below(Part(Panel).last[sched.name], sched.at)
      BY <3>2, RegimeType DEF Inv, InTime
    <3>4. sched'.name = sched.name /\ sched'.due = sched.due /\ sched'.at = sched.at /\ sched'.pc = "started"
      BY <3>1 DEF Inv, TypeInv, RunTypes
    <3>5. sched.name \notin sched.due
      BY <3>1 DEF Inv, Hands
    <3> QED
      BY <3>1, <3>2, <3>3, <3>4, <3>5
  <2>3. CASE RecordEnd
    <3>1. Record(sched.name, now) /\ sched.pc = "join" /\ sched' = [sched EXCEPT !.pc = "final"]
      BY <2>3 DEF RecordEnd, At, Goto
    <3>2. sched.name \in Names /\ now \in Hours /\ now <= now
      BY <3>1, TimeFacts, RegimeType DEF Inv, TypeInv, RunTypes
    <3>3. Below(settings.last[sched.name], now) /\ Below(Part(Panel).last[sched.name], now)
      BY <3>2, RegimeType DEF Inv, InTime
    <3>4. sched'.name = sched.name /\ sched'.due = sched.due /\ sched'.at = sched.at /\ sched'.pc = "final"
      BY <3>1 DEF Inv, TypeInv, RunTypes
    <3>5. sched.name \notin sched.due
      BY <3>1 DEF Inv, Hands
    <3> QED
      BY <3>1, <3>2, <3>3, <3>4, <3>5
  <2> QED
    BY <2>1, <2>2, <2>3
<1>2. /\ TypeInv /\ UNCHANGED <<now, settings, lastStart, lost>> /\ writer[Sched].pc = "idle"
  BY DEF StartFails, RecordStart, RecordEnd, At, Inv
<1>3. /\ writer'[Panel] = writer[Panel] /\ Part(Panel)' = Part(Panel) /\ writer'[Sched].pc = "schedule"
      /\ Part(Sched)'.last[n] = t
      /\ \A m \in Names : m # n => Part(Sched)'.last[m] \in {None, settings.last[m]}
      /\ Order'
  BY <1>1, <1>2, RecordHand
<1>4. Procs = {Panel, Sched} /\ Panel # Sched
  BY <1>2, RegimeType DEF Procs
<1>5. Hands'
  BY <1>1, <1>2, <1>3, <1>4 DEF Inv, Hands
<1>6. Pending' \subseteq Pending /\ Pending \subseteq Names /\ n \notin Pending'
  BY <1>1, <1>2 DEF Pending, TypeInv, RunTypes
<1>7. /\ \A m \in Names : Below(settings.last[m], now) /\ Below(lastStart[m], now)
                          /\ Below(Part(Panel).last[m], now)
      /\ \A m \in Pending : Below(settings.last[m], sched.at) /\ Below(lastStart[m], sched.at)
                            /\ Below(Part(Panel).last[m], sched.at)
      /\ sched.at <= now /\ Below(t, now)
  BY <1>1, <1>2, <1>4, TimeFacts DEF Inv, InTime, Below
<1>8. InTime'
  <2>1. \A m \in Names : Below(Part(Sched)'.last[m], now)
    BY <1>3, <1>7 DEF Below
  <2>2. \A m \in Pending' : Below(Part(Sched)'.last[m], sched.at)
    BY <1>3, <1>6, <1>7 DEF Below
  <2> QED
    BY <1>1, <1>2, <1>3, <1>4, <1>6, <1>7, <2>1, <2>2 DEF InTime, Below
<1>9. Recorded'
  <2> SUFFICES ASSUME NEW m \in Names, m \notin lost, lastStart[m] # None, ~OnRecord(m, settings.last)
               PROVE  sched'.pc = "started" /\ sched'.name = m /\ OnRecord(m, Part(Sched)'.last)
    BY <1>2 DEF Recorded, OnRecord
  <2>1. sched.pc = "start" /\ sched.name = m
    <3>1. ~OnRecord(m, Part(Sched).last)
      BY <1>2, <1>4, Values, ScheduleLast DEF Inv, Hands, OnRecord, Part
    <3> QED
      BY <3>1 DEF Inv, Recorded
  <2>2. sched'.pc = "started" /\ n = m /\ t = sched.at
    BY <1>1, <2>1
  <2>3. m \in Pending
    BY <2>1 DEF Pending
  <2>4. Below(lastStart[m], t) /\ t # None
    BY <1>2, <1>7, <2>2, <2>3, RegimeType
  <2> QED
    BY <1>1, <1>3, <2>2, <2>4 DEF OnRecord, Below
<1>10. GapKept'
  <2> SUFFICES ASSUME NEW m \in sched.due, m # n,
                      m \in lost /\ ~OnRecord(m, settings.last) /\ \A p \in Procs : ~OnRecord(m, Part(p).last)
               PROVE  \A p \in Procs : ~OnRecord(m, Part(p)'.last)
    BY <1>1, <1>2 DEF Inv, GapKept, Apart, OnRecord
  <2>1. m \in Names
    BY <1>2 DEF TypeInv, RunTypes
  <2> QED
    BY <1>3, <1>4, <2>1 DEF OnRecord
<1> QED
  BY <1>5, <1>8, <1>3, <1>9, <1>10 DEF Inv

LEMMA InvWaitNext ==
  ASSUME Inv, TypeInv', WaitForScan \/ NextDue
  PROVE  Inv'
<1>1. /\ UNCHANGED <<now, settings, writer, lastStart, lost>> /\ TypeInv
      /\ writer[Sched].pc = "idle"
      /\ \/ sched.pc = "started" /\ sched'.pc = "join" /\ sched'.due = sched.due /\ sched'.at = sched.at
            /\ sched'.name = sched.name
         \/ sched.pc = "final" /\ sched'.pc = "next" /\ sched'.due = sched.due /\ sched'.at = sched.at
         \/ sched.pc = "next" /\ sched'.pc = "idle" /\ sched'.due = {} /\ sched'.at = 0
  <2>1. TypeInv
    BY DEF Inv
  <2>2. UNCHANGED <<now, settings, writer, lastStart, lost>> /\ writer[Sched].pc = "idle"
    BY DEF WaitForScan, NextDue, At, file
  <2>3. CASE WaitForScan
    BY <2>1, <2>2, <2>3 DEF WaitForScan, At, Goto, TypeInv, RunTypes
  <2>4. CASE NextDue
    <3>1. IdleSched.pc = "idle" /\ IdleSched.due = {} /\ IdleSched.at = 0
      BY DEF IdleSched
    <3>2. CASE sched' = [sched EXCEPT !.pc = "next", !.name = None, !.job = 0] /\ sched.pc = "final"
      BY <2>1, <2>2, <3>2 DEF TypeInv, RunTypes
    <3>3. CASE sched' = IdleSched /\ sched.pc = "next"
      BY <2>1, <2>2, <3>1, <3>3
    <3> QED
      BY <2>4, <3>2, <3>3 DEF NextDue, At
  <2> QED
    BY <2>1, <2>2, <2>3, <2>4
<1>2. \A p \in Procs : Part(p)' = Part(p)
  BY <1>1 DEF Part
<1>3. Hands'
  BY <1>1 DEF Inv, Hands
<1>4. Pending' \subseteq Pending /\ (Pending' = {} \/ sched'.at = sched.at)
  BY <1>1 DEF Pending
<1>5. InTime'
  BY <1>1, <1>2, <1>4, TimeFacts DEF Inv, InTime, Below
<1>6. Order'
  BY <1>1, <1>2, RegimeType DEF Inv, Order, Below
<1>7. Recorded'
  <2>1. \A m \in Names : ~OnRecord(m, Part(Sched).last)
    BY <1>1, RegimeType, Values, ScheduleLast DEF Inv, Hands, OnRecord, Part
  <2> QED
    BY <1>1, <2>1 DEF Inv, Recorded, OnRecord
<1>8. GapKept'
  BY <1>1, <1>2 DEF Inv, GapKept, OnRecord, Apart
<1> QED
  BY <1>3, <1>5, <1>6, <1>7, <1>8 DEF Inv

\* Everything else leaves the file, the hands and the scheduler alone.
LEMMA InvFrame ==
  ASSUME Inv, TypeInv', UNCHANGED <<settings, writer, run>>, now' >= now
  PROVE  Inv'
<1>1. UNCHANGED <<sched, lastStart, lost>> /\ TypeInv /\ \A p \in Procs : Part(p)' = Part(p)
  BY DEF run, Inv, Part
<1>2. now \in Nat /\ now' \in Nat
  BY <1>1, TimeFacts, ScansConstants DEF TypeInv, CountTypes, Hours
<1>3. InTime'
  <2>1. \A x \in Times : Below(x, now) => Below(x, now')
    BY <1>1, <1>2, TimeFacts DEF Below
  <2>2. sched.at <= now'
    BY <1>1, <1>2, TimeFacts DEF Inv, InTime
  <2>3. Pending' = Pending
    BY <1>1 DEF Pending
  <2>4. \A n \in Names : /\ settings.last[n] \in Times /\ lastStart[n] \in Times
                         /\ \A p \in Procs : Part(p).last[n] \in Times
    BY <1>1, TimeFacts
  <2>5. \A n \in Names : /\ Below(settings.last[n], now') /\ Below(lastStart[n], now')
                         /\ \A p \in Procs : Below(Part(p).last[n], now')
    BY <2>1, <2>4 DEF Inv, InTime
  <2> QED
    BY <1>1, <2>2, <2>3, <2>5 DEF Inv, InTime, Below
<1>4. Hands' /\ GapKept'
  BY <1>1 DEF Inv, Hands, GapKept, OnRecord, Apart
<1>5. Order' /\ Recorded'
  BY <1>1, RegimeType DEF Inv, Order, Recorded, Below, OnRecord
<1> QED
  BY <1>3, <1>4, <1>5 DEF Inv

LEMMA InvNext ==
  ASSUME Inv, [Next]_vars
  PROVE  Inv'
<1>1. TypeInv' /\ TypeInv /\ now \in Nat
  BY TypeNext, TimeFacts DEF Inv
<1>2. CASE \/ Tick \/ Deny \/ Allow \/ ScanNow \/ ViewStep \/ UNCHANGED vars
           \/ \E j \in Jobs : WorkerStep(j) \/ Progress(j) \/ Get(j)
  <2>1. UNCHANGED <<settings, writer, run>> /\ now' \in {now, now + 1}
    BY <1>2 DEF Tick, Deny, Allow, ScanNow, ViewStep, Look, Judge, SaveFile, SaveMemory, vars, file,
                WorkerStep, Register, StartThread, Begin, Finish, Leave, Progress, Get
  <2> QED
    BY <1>1, <2>1, InvFrame
<1>3. ASSUME NEW p \in Procs, ReadAroundRaises(p) \/ Crash(p) PROVE Inv'
  <2>1. UNCHANGED <<now, settings>>
    BY <1>3 DEF ReadAroundRaises, Crash
  <2>2. CASE Dies(p)
    BY <1>1, <2>1, <2>2, InvDies
  <2>3. CASE p = Panel /\ writer' = [writer EXCEPT ![Panel] = IdleWriter] /\ UNCHANGED run
    <3>1. PICK w : w = IdleWriter
      OBVIOUS
    <3>2. w.pc = "idle" /\ \A n \in Names : w.part.last[n] \in {None, settings.last[n]}
      BY <1>1, <3>1, Values, ScheduleLast
    <3>3. writer' = [writer EXCEPT ![Panel] = w] /\ UNCHANGED <<sched, lastStart, lost>>
      BY <2>3, <3>1 DEF run
    <3> QED
      BY <1>1, <2>1, <3>1, <3>2, <3>3, PanelTakes
  <2>4. p = Panel \/ p = Sched
    BY DEF Procs
  <2> QED
    BY <1>3, <2>2, <2>3, <2>4 DEF ReadAroundRaises, Crash
<1> QED
  BY <1>1, <1>2, <1>3, InvPanel, InvReadAround, InvReplace, InvRunDue, InvStartDue, InvRecord, InvWaitNext
  DEF Next, SchedStep

\* The other settings outlive every read that failed, and two scans of a schedule
\* are found due a gap apart unless the record of the first was lost, whoever
\* writes the settings file in between, and with however old a reading of it.
THEOREM SettingsKept == Spec => NothingForgotten
<1>1. ASSUME Inv, [Next]_vars
      PROVE  [/\ settings'.rest
              /\ \A n \in Names :
                   sched.pc = "next" /\ sched'.pc = "start" /\ sched'.name = n /\ n \notin lost
                   => lastStart[n] = None \/ sched.at - lastStart[n] >= Gap]_vars
  <2>1. settings'.rest
    BY <1>1, InvNext DEF Inv, Hands
  <2>2. ASSUME sched.pc = "next", sched'.pc = "start" PROVE StartDue
    <3>1. sched' # sched /\ sched' # IdleSched /\ sched \in [pc : {"idle", "next", "start", "started", "join", "final"},
                 due : SUBSET Names, name : Names \cup {None}, job : Jobs \cup {0}, at : Hours]
      BY <1>1, <2>2 DEF IdleSched, Inv, TypeInv, RunTypes
    <3>2. ~(Tick \/ SetSchedule \/ Clear \/ SaveOther \/ Deny \/ Allow \/ ScanNow \/ UNCHANGED vars)
      BY <3>1 DEF vars, run, Tick, SetSchedule, Clear, SaveOther, Deny, Allow, ScanNow
    <3>3. \A p \in Procs : ~(ReadAround(p) \/ ReadAroundRaises(p) \/ Replace(p) \/ Crash(p))
      BY <3>1 DEF run, ReadAround, ReadAroundRaises, Replace, Crash, Dies
    <3>4. ~ViewStep /\ \A j \in Jobs : ~(WorkerStep(j) \/ Progress(j) \/ Get(j))
      BY <3>1 DEF run, WorkerStep, Register, StartThread, Begin, Finish, Leave, Progress, Get, ViewStep, Look, Judge,
         SaveFile, SaveMemory
    <3>5. ~(RunDue \/ RecordStart \/ RecordEnd \/ WaitForScan)
      BY <2>2 DEF RunDue, RecordStart, RecordEnd, WaitForScan, At
    <3>6. ~(StartFails \/ NextDue)
      BY <2>2, <3>1 DEF StartFails, NextDue, At
    <3> QED
      BY <1>1, <3>2, <3>3, <3>4, <3>5, <3>6 DEF Next, SchedStep
  <2>3. TypeInv'
    BY <1>1, TypeNext DEF Inv
  <2> QED
    BY <1>1, <2>1, <2>2, <2>3, InvStartDue DEF Apart
<1>2. Spec => []Inv
  BY InvInit, InvNext, PTL DEF Spec
<1> QED
  BY <1>1, <1>2, PTL DEF Spec, NothingForgotten
=============================================================================
