------------------------------- MODULE WpTasks -------------------------------
(***************************************************************************)
(* The task queue of the WordPress Manager                                  *)
(* (backend/app/services/wp_manager.py): every change to a WordPress is a   *)
(* row of wp_jobs that a request commits, a small thread pool runs under a  *)
(* lock per WordPress, and any page view may declare cut short.             *)
(*                                                                         *)
(* Three kinds of thread interleave here.  A client is a request thread     *)
(* inside submit(); a worker is a thread of the pool inside _run(); a       *)
(* viewer is a request thread inside settle_stale(), which every page of    *)
(* the manager calls first.  They share the table (status, request), the    *)
(* set _live, the pool's queue and the locks.  A restart of the panel loses *)
(* everything but the table.                                                *)
(***************************************************************************)
EXTENDS Integers, Sequences

CONSTANTS
    Clients,      \* request threads that may be inside submit()
    Workers,      \* the threads of _executor
    Viewers,      \* request threads that may be inside settle_stale()
    Installs,     \* WordPress installs (rows of wp_installs)
    Sites,        \* websites
    LiveOf,       \* the live WordPress a staging copy was copied from, or None
    Requests,     \* what may be asked for: a subset of Request
    None,
    Keep,         \* KEEP_JOBS * 10: the newest rows _prune_jobs leaves alone
    MaxId,        \* bound: the ids the table hands out, one less after a purge
    MaxRestarts,  \* bound: restarts of the panel
    MaxPurges,    \* bound: removals of the addon with "delete data"
    DbErrors      \* whether SQLite may refuse a write ("database is locked")

\* One call of submit(): the handler's kind, and the install or the website it names.
Request == [kind : {"change", "push", "scan"},
            install : Installs \cup {None}, site : Sites \cup {None}]

ASSUME WpConstants ==
    /\ None \notin Installs \cup Sites \cup Clients \cup Workers \cup Viewers
    /\ LiveOf \in [Installs -> Installs \cup {None}]
    /\ Requests \subseteq Request
    /\ \A r \in Requests : r.kind # "scan" => r.install # None
    /\ \A r \in Requests : r.kind = "push" => LiveOf[r.install] # None
    /\ Keep \in Nat \ {0}
    /\ MaxId \in Nat
    /\ MaxRestarts \in Nat
    /\ MaxPurges \in Nat
    /\ DbErrors \in BOOLEAN

Ids == 1..MaxId

Unfinished == {"queued", "running"}
Terminal == {"completed", "failed", "interrupted"}

\* The lock a task runs under.
KeyOf(r) ==
    IF r.install # None THEN <<"install", r.install>>
    ELSE IF r.site # None THEN <<"site", r.site>>
    ELSE <<"scan", None>>

Keys == {<<"install", i>> : i \in Installs} \cup {<<"site", s>> : s \in Sites}
            \cup {<<"scan", None>>}

\* The WordPress whose files and database a handler writes: a push writes the
\* live site of the staging copy it is asked of, a scan writes none.
Changes(r) ==
    IF r.kind = "push" THEN {LiveOf[r.install]}
    ELSE IF r.kind = "change" THEN {r.install}
    ELSE {}

VARIABLES
    status,    \* Ids -> the row's status, "absent" when there is no such row
    request,   \* Ids -> the request the row carries, or None
    nextId,    \* the id the table gives the next row
    live,      \* _live
    queue,     \* the pool's queue of ids
    lock,      \* Keys -> the worker holding the lock, or None
    worker,    \* Workers -> [pc, id, key]
    client,    \* Clients -> [pc, id]
    viewer,    \* Viewers -> [pc, rows]
    restarts,  \* how often the panel was restarted
    purges,    \* how often the history was deleted with the addon
    runs       \* history: Ids -> how often a handler was started for the row

table == <<status, request, nextId>>
memory == <<live, queue, lock, worker>>
threads == <<client, viewer>>
vars == <<status, request, nextId, live, queue, lock, worker, client, viewer,
          restarts, purges, runs>>

IdleWorker == [pc |-> "idle", id |-> 0, key |-> None]
IdleClient == [pc |-> "idle", id |-> 0]
IdleViewer == [pc |-> "idle", rows |-> {}]

Init ==
    /\ status = [i \in Ids |-> "absent"]
    /\ request = [i \in Ids |-> None]
    /\ nextId = 1
    /\ live = {}
    /\ queue = <<>>
    /\ lock = [k \in Keys |-> None]
    /\ worker = [w \in Workers |-> IdleWorker]
    /\ client = [c \in Clients |-> IdleClient]
    /\ viewer = [v \in Viewers |-> IdleViewer]
    /\ restarts = 0
    /\ purges = 0
    /\ runs = [i \in Ids |-> 0]

-----------------------------------------------------------------------------
(* submit(): four steps of a request thread.                                *)

\* db.add(job); db.commit(): the row is visible to every viewer from here on.
CommitRow(c, r) ==
    /\ client[c].pc = "idle"
    /\ nextId \in Ids /\ nextId + purges \in Ids
    /\ status' = [status EXCEPT ![nextId] = "queued"]
    /\ request' = [request EXCEPT ![nextId] = r]
    /\ runs' = [runs EXCEPT ![nextId] = 0]
    /\ client' = [client EXCEPT ![c] = [pc |-> "committed", id |-> nextId]]
    /\ nextId' = nextId + 1
    /\ UNCHANGED <<memory, viewer, restarts, purges>>

\* The terminal rows below the newest Keep of the table.
Prunable ==
    LET present == {i \in Ids : status[i] # "absent"}
        newest == {i \in present :
                      \E n \in 0..(Keep - 1) : i + n = nextId - 1}
    IN  {i \in present \ newest : status[i] \in Terminal}

\* _prune_jobs(db), called between the commit and _live.add.
PruneJobs(c) ==
    /\ client[c].pc = "committed"
    /\ status' = [i \in Ids |-> IF i \in Prunable THEN "absent" ELSE status[i]]
    /\ client' = [client EXCEPT ![c].pc = "pruned"]
    /\ UNCHANGED <<request, nextId, memory, viewer, restarts, purges, runs>>

\* _live.add(job.id)
AddLive(c) ==
    /\ client[c].pc = "pruned"
    /\ live' = live \cup {client[c].id}
    /\ client' = [client EXCEPT ![c].pc = "listed"]
    /\ UNCHANGED <<table, queue, lock, worker, viewer, restarts, purges, runs>>

\* _executor.submit(_run, job.id)
HandOver(c) ==
    /\ client[c].pc = "listed"
    /\ queue' = Append(queue, client[c].id)
    /\ client' = [client EXCEPT ![c] = IdleClient]
    /\ UNCHANGED <<table, live, lock, worker, viewer, restarts, purges, runs>>

\* What follows the commit raises - a write is refused, or the row went with the
\* history: the request answers an error, a row that is there stays queued and
\* nothing will run it.
SubmitFails(c) ==
    /\ \/ DbErrors /\ client[c].pc = "committed"
       \/ client[c].pc \in {"committed", "pruned"} /\ status[client[c].id] = "absent"
    /\ client' = [client EXCEPT ![c] = IdleClient]
    /\ UNCHANGED <<table, memory, viewer, restarts, purges, runs>>

-----------------------------------------------------------------------------
(* _run(): the steps of a pool thread.                                      *)

Step(w, pc) == worker' = [worker EXCEPT ![w].pc = pc]

Take(w) ==
    /\ worker[w].pc = "idle"
    /\ queue # <<>>
    /\ worker' = [worker EXCEPT ![w] = [pc |-> "took", id |-> Head(queue), key |-> None]]
    /\ queue' = Tail(queue)
    /\ UNCHANGED <<table, live, lock, threads, restarts, purges, runs>>

\* Mutant: a missing row returns before the try, past the discard.
ReadRowReturnsEarly(w) ==
    /\ worker[w].pc = "took"
    /\ worker' = [worker EXCEPT ![w] = IF status[worker[w].id] = "absent" THEN IdleWorker
                                       ELSE [pc |-> "waiting", id |-> worker[w].id,
                                             key |-> KeyOf(request[worker[w].id])]]
    /\ UNCHANGED <<table, live, queue, lock, threads, restarts, purges, runs>>

\* db.get: the row gone, the thread leaves; else the lock it needs is worked out.
ReadRow(w) ==
    /\ worker[w].pc = "took"
    /\ IF status[worker[w].id] = "absent"
       THEN Step(w, "leaving")
       ELSE worker' = [worker EXCEPT ![w] = [pc |-> "waiting", id |-> worker[w].id,
                                             key |-> KeyOf(request[worker[w].id])]]
    /\ UNCHANGED <<table, live, queue, lock, threads, restarts, purges, runs>>

\* Mutant: the handler is not run under the lock.
AcquireAnyway(w) ==
    /\ worker[w].pc = "waiting"
    /\ lock' = [lock EXCEPT ![worker[w].key] = w]
    /\ Step(w, "holding")
    /\ UNCHANGED <<table, live, queue, threads, restarts, purges, runs>>

Acquire(w) ==
    /\ worker[w].pc = "waiting"
    /\ lock[worker[w].key] = None
    /\ lock' = [lock EXCEPT ![worker[w].key] = w]
    /\ Step(w, "holding")
    /\ UNCHANGED <<table, live, queue, threads, restarts, purges, runs>>

\* db.refresh(job); status = "running"; commit - whatever the status was by now.
Start(w) ==
    /\ worker[w].pc = "holding"
    /\ status[worker[w].id] # "absent"
    /\ status' = [status EXCEPT ![worker[w].id] = "running"]
    /\ runs' = [runs EXCEPT ![worker[w].id] = @ + 1]
    /\ Step(w, "running")
    /\ UNCHANGED <<request, nextId, live, queue, lock, threads, restarts, purges>>

\* db.refresh finds no row, or the commit is refused: the exception leaves the
\* with block.
StartRaises(w) ==
    /\ worker[w].pc = "holding"
    /\ DbErrors \/ status[worker[w].id] = "absent"
    /\ Step(w, "ended")
    /\ UNCHANGED <<table, live, queue, lock, threads, restarts, purges, runs>>

\* Mutant: a status the page does not know.
FinishUnknown(w, outcome) ==
    /\ worker[w].pc = "running"
    /\ status' = [status EXCEPT ![worker[w].id] = "done"]
    /\ Step(w, "ended")
    /\ UNCHANGED <<request, nextId, live, queue, lock, threads, restarts, purges, runs>>

\* The handler returned or raised: its outcome is committed.
Finish(w, outcome) ==
    /\ worker[w].pc = "running"
    /\ status[worker[w].id] # "absent"
    /\ status' = [status EXCEPT ![worker[w].id] = outcome]
    /\ Step(w, "ended")
    /\ UNCHANGED <<request, nextId, live, queue, lock, threads, restarts, purges, runs>>

\* A commit raises (no such row any more, or the write is refused).
FinishRaises(w) ==
    /\ worker[w].pc = "running"
    /\ DbErrors \/ status[worker[w].id] = "absent"
    /\ Step(w, "ended")
    /\ UNCHANGED <<table, live, queue, lock, threads, restarts, purges, runs>>

\* The end of the with block.
Release(w) ==
    /\ worker[w].pc = "ended"
    /\ lock' = [lock EXCEPT ![worker[w].key] = None]
    /\ Step(w, "leaving")
    /\ UNCHANGED <<table, live, queue, threads, restarts, purges, runs>>

\* finally: _live.discard(job_id); db.close()
Leave(w) ==
    /\ worker[w].pc = "leaving"
    /\ live' = live \ {worker[w].id}
    /\ worker' = [worker EXCEPT ![w] = IdleWorker]
    /\ UNCHANGED <<table, queue, lock, threads, restarts, purges, runs>>

-----------------------------------------------------------------------------
(* settle_stale(): the rows are read, then compared with _live, then written.*)

\* Mutant: only running rows are looked at.
ReadRunning(v) ==
    /\ viewer[v].pc = "idle"
    /\ viewer' = [viewer EXCEPT ![v] =
                    [pc |-> "read", rows |-> {i \in Ids : status[i] = "running"}]]
    /\ UNCHANGED <<table, memory, client, restarts, purges, runs>>

ReadUnfinished(v) ==
    /\ viewer[v].pc = "idle"
    /\ viewer' = [viewer EXCEPT ![v] =
                    [pc |-> "read", rows |-> {i \in Ids : status[i] \in Unfinished}]]
    /\ UNCHANGED <<table, memory, client, restarts, purges, runs>>

CompareLive(v) ==
    /\ viewer[v].pc = "read"
    /\ LET stale == viewer[v].rows \ live
       IN  viewer' = [viewer EXCEPT ![v] = IF stale = {} THEN IdleViewer
                                           ELSE [pc |-> "judged", rows |-> stale]]
    /\ UNCHANGED <<table, memory, client, restarts, purges, runs>>

\* One commit for all of them; a row that went meanwhile rolls it back.
WriteInterrupted(v) ==
    /\ viewer[v].pc = "judged"
    /\ status' = IF \E i \in viewer[v].rows : status[i] = "absent" THEN status
                 ELSE [i \in Ids |-> IF i \in viewer[v].rows THEN "interrupted" ELSE status[i]]
    /\ viewer' = [viewer EXCEPT ![v] = IdleViewer]
    /\ UNCHANGED <<request, nextId, memory, client, restarts, purges, runs>>

\* SQLite refuses the commit: the page answers an error, the rows stay as they are.
WriteRefused(v) ==
    /\ DbErrors
    /\ viewer[v].pc = "judged"
    /\ viewer' = [viewer EXCEPT ![v] = IdleViewer]
    /\ UNCHANGED <<table, memory, client, restarts, purges, runs>>

-----------------------------------------------------------------------------
\* Mutant: an unfinished task is taken up again when the panel comes back.
RestartResumes ==
    /\ restarts < MaxRestarts
    /\ restarts' = restarts + 1
    /\ \E i \in Ids :
          /\ status[i] \in Unfinished
          /\ queue' = <<i>> /\ live' = {i}
    /\ lock' = [k \in Keys |-> None]
    /\ worker' = [w \in Workers |-> IdleWorker]
    /\ client' = [c \in Clients |-> IdleClient]
    /\ viewer' = [v \in Viewers |-> IdleViewer]
    /\ UNCHANGED <<table, purges, runs>>

\* The panel's process goes and comes back: only the table is left.
Restart ==
    /\ restarts < MaxRestarts
    /\ restarts' = restarts + 1
    /\ live' = {}
    /\ queue' = <<>>
    /\ lock' = [k \in Keys |-> None]
    /\ worker' = [w \in Workers |-> IdleWorker]
    /\ client' = [c \in Clients |-> IdleClient]
    /\ viewer' = [v \in Viewers |-> IdleViewer]
    /\ UNCHANGED <<table, purges, runs>>

\* purge_data(): the addon removed with "delete data".  SQLite gives an empty
\* table its first id again: wp_jobs has no AUTOINCREMENT.
Purge ==
    /\ purges < MaxPurges
    /\ purges' = purges + 1
    /\ status' = [i \in Ids |-> "absent"]
    /\ request' = [i \in Ids |-> None]
    /\ nextId' = 1
    /\ UNCHANGED <<memory, threads, restarts, runs>>

ClientStep(c) == PruneJobs(c) \/ AddLive(c) \/ HandOver(c)

WorkerStep(w) ==
    \/ Take(w) \/ ReadRow(w) \/ Acquire(w) \/ Start(w)
    \/ \E outcome \in {"completed", "failed"} : Finish(w, outcome)
    \/ Release(w) \/ Leave(w)

WorkerRaises(w) == StartRaises(w) \/ FinishRaises(w)

ViewerStep(v) == ReadUnfinished(v) \/ CompareLive(v) \/ WriteInterrupted(v)

Next ==
    \/ \E c \in Clients : (\E r \in Requests : CommitRow(c, r)) \/ ClientStep(c) \/ SubmitFails(c)
    \/ \E w \in Workers : WorkerStep(w) \/ WorkerRaises(w)
    \/ \E v \in Viewers : ViewerStep(v) \/ WriteRefused(v)
    \/ Restart
    \/ Purge

Spec == Init /\ [][Next]_vars

\* Threads are scheduled and handlers end (every command has a timeout); the
\* page that shows a task polls it, so someone keeps viewing, and SQLite does not
\* refuse the write of every view for ever ("database is locked" passes).
Fairness ==
    /\ \A c \in Clients : WF_vars(ClientStep(c))
    /\ \A w \in Workers : WF_vars(WorkerStep(w) \/ WorkerRaises(w))
    /\ \A v \in Viewers : WF_vars(ViewerStep(v) \/ WriteRefused(v)) /\ SF_vars(WriteInterrupted(v))

FairSpec == Spec /\ Fairness

-----------------------------------------------------------------------------
(* Properties                                                               *)

WorkerPcs == {"idle", "took", "waiting", "holding", "running", "ended", "leaving"}
InLock(w) == worker[w].pc \in {"holding", "running", "ended"}

\* Every variable has its type.
TypeOK ==
    /\ status \in [Ids -> {"absent"} \cup Unfinished \cup Terminal]
    /\ request \in [Ids -> Requests \cup {None}]
    /\ nextId \in 1..(MaxId + 1)
    /\ live \subseteq Ids
    /\ queue \in Seq(Ids)
    /\ lock \in [Keys -> Workers \cup {None}]
    /\ worker \in [Workers -> [pc : WorkerPcs, id : Ids \cup {0}, key : Keys \cup {None}]]
    /\ client \in [Clients -> [pc : {"idle", "committed", "pruned", "listed"}, id : Ids \cup {0}]]
    /\ viewer \in [Viewers -> [pc : {"idle", "read", "judged"}, rows : SUBSET Ids]]
    /\ restarts \in 0..MaxRestarts
    /\ purges \in 0..MaxPurges
    /\ runs \in [Ids -> Nat]

\* At most one task of a WordPress has its handler running: _run takes the
\* lock named after the row's install before it touches the site.  (Once the
\* history was deleted, a running thread's row is no longer there to say so.)
OneTaskPerInstall ==
    purges = 0 =>
    \A u, w \in Workers :
        (u # w /\ worker[u].pc = "running" /\ worker[w].pc = "running")
        => KeyOf(request[worker[u].id]) # KeyOf(request[worker[w].id])

\* The handlers that run under each lock, for the abstract specification.
Handling == [k \in Keys |-> {w \in Workers : worker[w].pc = "running" /\ worker[w].key = k}]

Turns == INSTANCE OneAtATime WITH Things <- Keys, Doers <- Workers, doing <- Handling

\* "One at a time per WordPress", as far as the lock goes: whatever is refused,
\* restarted or deleted with its row, the handlers of one lock take turns.
TasksTakeTurns == Turns!Spec

\* Who still has the id in hand: the pool's queue, a pool thread, or a request
\* between _live.add and executor.submit.
HeldByWorker(i) == \E w \in Workers : worker[w].pc # "idle" /\ worker[w].id = i
InQueue(i) == \E n \in 1..Len(queue) : queue[n] = i
Listed(i) == \E c \in Clients : client[c].pc = "listed" /\ client[c].id = i

\* Nothing stays in _live that nobody will take out again: such a row would
\* show "running" until the next restart, settle_stale passing it by.
LiveIsOwned == \A i \in live : InQueue(i) \/ HeldByWorker(i) \/ Listed(i)

\* A task the pool still has is in _live, so no viewer that looks now takes it
\* for one a restart cut short - until the history is deleted and its id is
\* given again, when the old thread takes the new task's id out.
PoolIsLive == purges = 0 => \A i \in Ids : InQueue(i) \/ HeldByWorker(i) => i \in live

\* _live is what the pool has: no id is left in it for good, and until the
\* history is deleted none is missing that the pool still has.
LiveMatchesPool == LiveIsOwned /\ PoolIsLive

\* A row's handler is started at most once: neither a viewer that declared the
\* task interrupted nor a restart ever runs it again.  (An id given again after
\* the history was deleted is another row, which the count cannot tell.)
RunsOnce == purges = 0 => \A i \in Ids : runs[i] <= 1

\* A task ends on the page: a row that is queued or running does not stay so,
\* whatever restarts or refused writes it met (settle_stale's promise that it
\* does not run "forever").
TasksSettle == \A i \in Ids : status[i] \in Unfinished ~> status[i] \notin Unfinished

\* The module's docstring: "Whatever changes a site is a task (WpJob) run in
\* the background, one at a time per WordPress".
OneChangePerWordPress ==
    \A u, w \in Workers :
        (u # w /\ worker[u].pc = "running" /\ worker[w].pc = "running")
        => Changes(request[worker[u].id]) \cap Changes(request[worker[w].id]) = {}
=============================================================================
