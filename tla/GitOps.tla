------------------------------- MODULE GitOps -------------------------------
(***************************************************************************)
(* Git operations of the panel (backend/app/services/git_repos.py,          *)
(* api/git.py): a clone, deploy, push or checkout of a repository is a row   *)
(* that a request commits, run by a pool of two threads, one at a time per   *)
(* repository.  The set _busy says which repositories have one; it is lost   *)
(* at a restart, the rows are not.                                          *)
(*                                                                         *)
(* A starter is a request thread inside start() - a person's or a webhook's; *)
(* a viewer is one inside settle_stale(), called by every page that shows    *)
(* the repository; a remover is one inside delete_repo.  An administrator    *)
(* who deletes an account deletes its repositories whatever runs on them.    *)
(***************************************************************************)
EXTENDS Integers, Sequences, FiniteSets

CONSTANTS
    Repos,        \* ids of repositories; SQLite gives a deleted one's again
    Starters,     \* request threads that may be inside start()
    Workers,      \* the threads of _executor
    Viewers,      \* request threads that may be inside settle_stale()
    PageOf,       \* Viewers -> the repository a viewer's page shows
    Removers,     \* request threads that may be inside delete_repo
    None,
    Keep,         \* KEEP_OPERATIONS
    MaxOps,       \* bound: operation rows ever made
    MaxRestarts,  \* bound: restarts of the panel
    MaxDeletes,   \* bound: repositories deleted
    DbErrors      \* whether SQLite may refuse a transaction ("database is locked")

ASSUME GitConstants ==
    /\ None \notin Repos
    /\ PageOf \in [Viewers -> Repos]
    /\ Keep \in Nat \ {0}
    /\ MaxOps \in Nat
    /\ MaxRestarts \in Nat
    /\ MaxDeletes \in Nat
    /\ DbErrors \in BOOLEAN

Ids == 1..MaxOps

VARIABLES
    repos,     \* the repositories there are
    ready,     \* the repositories a clone or init has succeeded for
    status,    \* Ids -> the operation row's status, or "absent"
    repoOf,    \* Ids -> the row's repository_id, or None
    busy,      \* _busy
    queue,     \* the pool's queue: the arguments of _execute, [id, repo]
    starter,   \* Starters -> [pc, repo, kind, id]
    worker,    \* Workers -> [pc, id, repo, on, setup]: its arguments, the repository of
               \* the row it read, and whether its success will set that one up
    viewer,    \* Viewers -> [pc, repo, rows]
    remover,   \* Removers -> the repository found idle, or None
    restarts,
    deletes,
    kindOf,    \* Ids -> the row's action: "setup" (clone, init) or "work"
    made,      \* rows ever made
    stuck,     \* history: repositories left in _busy with nobody to take them out
    outlived   \* history: threads whose repository was deleted since they read it

rows == <<status, repoOf, kindOf>>
counts == <<restarts, deletes, made>>
past == <<stuck, outlived>>
vars == <<repos, ready, status, repoOf, busy, queue, starter, worker, viewer,
          remover, restarts, deletes, kindOf, made, stuck, outlived>>

IdleStarter == [pc |-> "idle", repo |-> None, kind |-> "work", id |-> 0]
IdleWorker == [pc |-> "idle", id |-> 0, repo |-> None, on |-> None, setup |-> FALSE]
IdleViewer == [pc |-> "idle", repo |-> None, rows |-> {}]

Init ==
    /\ repos = {} /\ ready = {}
    /\ status = [i \in Ids |-> "absent"]
    /\ repoOf = [i \in Ids |-> None]
    /\ kindOf = [i \in Ids |-> "work"]
    /\ busy = {}
    /\ queue = <<>>
    /\ starter = [s \in Starters |-> IdleStarter]
    /\ worker = [w \in Workers |-> IdleWorker]
    /\ viewer = [v \in Viewers |-> IdleViewer]
    /\ remover = [d \in Removers |-> None]
    /\ restarts = 0 /\ deletes = 0 /\ made = 0
    /\ stuck = {} /\ outlived = {}

RowsOf(r) == {i \in Ids : status[i] # "absent" /\ repoOf[i] = r}
RunningOf(r) == {i \in RowsOf(r) : status[i] = "running"}

-----------------------------------------------------------------------------
(* A request that creates a repository, or starts an operation on one.       *)

\* create_repo: the row, with an id that may have been a deleted one's.
Create(r) ==
    /\ r \notin repos
    /\ repos' = repos \cup {r}
    /\ UNCHANGED <<ready, rows, busy, queue, starter, worker, viewer, remover, counts, past>>

\* Bound: a row for everyone on the way to one.
Room == made + Cardinality({s \in Starters : starter[s].pc \in {"loaded", "claimed"}}) < MaxOps

\* The route loads the repository, and asks whether it is set up as the
\* operation needs it to be.
Load(s, r, kind) ==
    /\ starter[s].pc = "idle"
    /\ Room
    /\ r \in repos
    /\ (kind = "setup") = (r \notin ready)
    /\ starter' = [starter EXCEPT ![s] = [pc |-> "loaded", repo |-> r, kind |-> kind, id |-> 0]]
    /\ UNCHANGED <<repos, ready, rows, busy, queue, worker, viewer, remover, counts, past>>

\* Mutant: _busy is not looked at.
ClaimAnyway(s) ==
    /\ starter[s].pc = "loaded"
    /\ busy' = busy \cup {starter[s].repo}
    /\ starter' = [starter EXCEPT ![s].pc = "claimed"]
    /\ UNCHANGED <<repos, ready, rows, queue, worker, viewer, remover, counts, past>>

\* Under _busy_lock: the repository is taken, or the request is answered 409.
Claim(s) ==
    /\ starter[s].pc = "loaded"
    /\ IF starter[s].repo \in busy
       THEN /\ starter' = [starter EXCEPT ![s] = IdleStarter]
            /\ UNCHANGED busy
       ELSE /\ busy' = busy \cup {starter[s].repo}
            /\ starter' = [starter EXCEPT ![s].pc = "claimed"]
    /\ UNCHANGED <<repos, ready, rows, queue, worker, viewer, remover, counts, past>>

\* The id SQLite gives: one above the largest there is, so that of a newest row
\* that was deleted is given again.
NextId(i) ==
    /\ \A j \in Ids : j >= i => status[j] = "absent"
    /\ \A j \in Ids : j = i - 1 => status[j] # "absent"

\* Mutant: rows a restart left "running" are not closed.
CommitRowOnly(s, i) ==
    /\ starter[s].pc = "claimed" /\ made < MaxOps /\ NextId(i)
    /\ status' = [status EXCEPT ![i] = "running"]
    /\ repoOf' = [repoOf EXCEPT ![i] = starter[s].repo]
    /\ kindOf' = [kindOf EXCEPT ![i] = starter[s].kind]
    /\ made' = made + 1
    /\ starter' = [starter EXCEPT ![s].pc = "committed", ![s].id = i]
    /\ UNCHANGED <<repos, ready, busy, queue, worker, viewer, remover, restarts, deletes, past>>

\* One commit: rows left "running" by a restart fail, the new one runs.
CommitRow(s, i) ==
    /\ starter[s].pc = "claimed" /\ made < MaxOps /\ NextId(i)
    /\ status' = [j \in Ids |-> IF j = i THEN "running"
                                ELSE IF j \in RunningOf(starter[s].repo) THEN "failed"
                                ELSE status[j]]
    /\ repoOf' = [repoOf EXCEPT ![i] = starter[s].repo]
    /\ kindOf' = [kindOf EXCEPT ![i] = starter[s].kind]
    /\ made' = made + 1
    /\ starter' = [starter EXCEPT ![s].pc = "committed", ![s].id = i]
    /\ UNCHANGED <<repos, ready, busy, queue, worker, viewer, remover, restarts, deletes, past>>

\* A commit expires what was loaded: the operation and the repository are read
\* again, and the read raises when an account's deletion took them.
Found(s) == status[starter[s].id] # "absent" /\ starter[s].repo \in repos

Refresh(s) ==
    /\ starter[s].pc = "committed" /\ Found(s)
    /\ starter' = [starter EXCEPT ![s].pc = "refreshed"]
    /\ UNCHANGED <<repos, ready, rows, busy, queue, worker, viewer, remover, counts, past>>

\* The except clause reads repo.id, which raises again when the repository is gone:
\* nobody will take it out of _busy.
RefreshRaises(s) ==
    /\ starter[s].pc = "committed" /\ ~Found(s)
    /\ IF starter[s].repo \in repos
       THEN busy' = busy \ {starter[s].repo} /\ UNCHANGED stuck
       ELSE stuck' = stuck \cup {starter[s].repo} /\ UNCHANGED busy
    /\ starter' = [starter EXCEPT ![s] = IdleStarter]
    /\ UNCHANGED <<repos, ready, rows, queue, worker, viewer, remover, counts, outlived>>

\* _prune: all but the newest Keep rows of the repository go.  With no row it
\* does not commit, and what was read stays loaded.
PruneRows(s) ==
    /\ starter[s].pc = "refreshed"
    /\ LET old == {i \in RowsOf(starter[s].repo) :
                      Cardinality({j \in RowsOf(starter[s].repo) : j > i}) >= Keep}
       IN  status' = [i \in Ids |-> IF i \in old THEN "absent" ELSE status[i]]
    /\ starter' = [starter EXCEPT ![s].pc = IF RowsOf(starter[s].repo) = {} THEN "kept" ELSE "pruned"]
    /\ UNCHANGED <<repos, ready, repoOf, kindOf, busy, queue, worker, viewer, remover, counts, past>>

\* _executor.submit: the operation's id and the repository's are read once more,
HandOver(s) ==
    /\ starter[s].pc = "kept" \/ (starter[s].pc = "pruned" /\ Found(s))
    /\ queue' = Append(queue, [id |-> starter[s].id, repo |-> starter[s].repo])
    /\ starter' = [starter EXCEPT ![s] = IdleStarter]
    /\ UNCHANGED <<repos, ready, rows, busy, worker, viewer, remover, counts, past>>

\* past the except clause: a read that raises leaves _busy as it is.
HandOverRaises(s) ==
    /\ starter[s].pc = "pruned" /\ ~Found(s)
    /\ stuck' = stuck \cup {starter[s].repo}
    /\ starter' = [starter EXCEPT ![s] = IdleStarter]
    /\ UNCHANGED <<repos, ready, rows, busy, queue, worker, viewer, remover, counts, outlived>>

\* Mutant: the except clause forgets _busy.
StartFailsBusy(s) ==
    /\ DbErrors
    /\ starter[s].pc \in {"claimed", "refreshed"}
    /\ starter' = [starter EXCEPT ![s] = IdleStarter]
    /\ UNCHANGED <<repos, ready, rows, busy, queue, worker, viewer, remover, counts, past>>

\* The database refuses a transaction: nothing was committed yet, or the row was
\* but no thread will be given it.
StartFails(s) ==
    /\ DbErrors
    /\ starter[s].pc \in {"claimed", "refreshed"}
    /\ busy' = busy \ {starter[s].repo}
    /\ starter' = [starter EXCEPT ![s] = IdleStarter]
    /\ UNCHANGED <<repos, ready, rows, queue, worker, viewer, remover, counts, past>>

-----------------------------------------------------------------------------
(* _execute: a thread of the pool.                                          *)

Take(w) ==
    /\ worker[w].pc = "idle" /\ queue # <<>>
    /\ worker' = [worker EXCEPT ![w] = [IdleWorker EXCEPT !.pc = "took", !.id = Head(queue).id,
                                                          !.repo = Head(queue).repo]]
    /\ queue' = Tail(queue)
    /\ UNCHANGED <<repos, ready, rows, busy, starter, viewer, remover, counts, past>>

\* The rows are read, whosever they are by now: with one of them gone there is
\* nothing to run.
Begin(w) ==
    /\ worker[w].pc = "took"
    /\ LET i == worker[w].id
       IN  worker' = [worker EXCEPT ![w] =
              IF status[i] # "absent" /\ repoOf[i] \in repos
              THEN [@ EXCEPT !.pc = "executing", !.on = repoOf[i],
                             !.setup = (kindOf[i] = "setup" /\ repoOf[i] \notin ready)]
              ELSE [@ EXCEPT !.pc = "leaving"]]
    /\ UNCHANGED <<repos, ready, rows, busy, queue, starter, viewer, remover, counts, past>>

\* Mutant: a failed clone or init sets the repository up as well.
FinishReady(w, ok) ==
    /\ worker[w].pc = "executing"
    /\ status[worker[w].id] # "absent"
    /\ worker[w].setup => worker[w].on \in repos
    /\ status' = [status EXCEPT ![worker[w].id] = IF ok THEN "done" ELSE "failed"]
    /\ ready' = IF worker[w].setup THEN ready \cup {worker[w].on} ELSE ready
    /\ worker' = [worker EXCEPT ![w].pc = "leaving"]
    /\ UNCHANGED <<repos, repoOf, kindOf, busy, queue, starter, viewer, remover, counts, past>>

\* The steps ran: status, log and what a clone or init changes in one commit,
\* which writes the rows of these ids, whosever they are by now.
Finish(w, ok) ==
    /\ worker[w].pc = "executing"
    /\ status[worker[w].id] # "absent"
    /\ ok /\ worker[w].setup => worker[w].on \in repos
    /\ status' = [status EXCEPT ![worker[w].id] = IF ok THEN "done" ELSE "failed"]
    /\ ready' = IF ok /\ worker[w].setup THEN ready \cup {worker[w].on} ELSE ready
    /\ worker' = [worker EXCEPT ![w].pc = "leaving"]
    /\ UNCHANGED <<repos, repoOf, kindOf, busy, queue, starter, viewer, remover, counts, past>>

\* The commit raises: a row was deleted meanwhile, or the write is refused.
FinishRaises(w) ==
    /\ worker[w].pc = "executing"
    /\ DbErrors \/ status[worker[w].id] = "absent" \/ worker[w].on \notin repos
    /\ worker' = [worker EXCEPT ![w].pc = "leaving"]
    /\ UNCHANGED <<repos, ready, rows, busy, queue, starter, viewer, remover, counts, past>>

\* finally: the repository the thread was given is free again.
Leave(w) ==
    /\ worker[w].pc = "leaving"
    /\ busy' = busy \ {worker[w].repo}
    /\ worker' = [worker EXCEPT ![w] = IdleWorker]
    /\ outlived' = outlived \ {w}
    /\ UNCHANGED <<repos, ready, rows, queue, starter, viewer, remover, counts, stuck>>

-----------------------------------------------------------------------------
(* settle_stale: is it busy, which rows run, write them failed.             *)

LookBusy(v) ==
    /\ viewer[v].pc = "idle"
    /\ PageOf[v] \in repos \ busy
    /\ viewer' = [viewer EXCEPT ![v] = [pc |-> "free", repo |-> PageOf[v], rows |-> {}]]
    /\ UNCHANGED <<repos, ready, rows, busy, queue, starter, worker, remover, counts, past>>

ReadRunning(v) ==
    /\ viewer[v].pc = "free"
    /\ LET stale == RunningOf(viewer[v].repo)
       IN  viewer' = [viewer EXCEPT ![v] = IF stale = {} THEN IdleViewer
                        ELSE [pc |-> "judged", repo |-> viewer[v].repo, rows |-> stale]]
    /\ UNCHANGED <<repos, ready, rows, busy, queue, starter, worker, remover, counts, past>>

\* Mutant: the rows are changed and never committed.
WriteFailedUncommitted(v) ==
    /\ viewer[v].pc = "judged"
    /\ viewer' = [viewer EXCEPT ![v] = IdleViewer]
    /\ UNCHANGED <<repos, ready, rows, busy, queue, starter, worker, remover, counts, past>>

\* One commit for all of them; a row that went meanwhile rolls it back.
WriteFailed(v) ==
    /\ viewer[v].pc = "judged"
    /\ IF \E i \in viewer[v].rows : status[i] = "absent"
       THEN UNCHANGED status
       ELSE status' = [i \in Ids |-> IF i \in viewer[v].rows THEN "failed" ELSE status[i]]
    /\ viewer' = [viewer EXCEPT ![v] = IdleViewer]
    /\ UNCHANGED <<repos, ready, repoOf, kindOf, busy, queue, starter, worker, remover, counts, past>>

\* SQLite refuses the commit: the page answers an error, the rows stay as they are.
WriteRefused(v) ==
    /\ DbErrors
    /\ viewer[v].pc = "judged"
    /\ viewer' = [viewer EXCEPT ![v] = IdleViewer]
    /\ UNCHANGED <<repos, ready, rows, busy, queue, starter, worker, remover, counts, past>>

-----------------------------------------------------------------------------
(* Deleting, and a restart.                                                 *)

\* Mutant: what was known of the repository stays for the next of its id.
ForgetKeepsReady(r) ==
    /\ deletes < MaxDeletes
    /\ deletes' = deletes + 1
    /\ repos' = repos \ {r}
    /\ status' = [i \in Ids |-> IF i \in RowsOf(r) THEN "absent" ELSE status[i]]
    /\ outlived' = outlived \cup {w \in Workers : worker[w].pc = "executing" /\ worker[w].on = r}
    /\ UNCHANGED <<ready, repoOf, kindOf, busy, queue, starter, worker, viewer, restarts, made, stuck>>

\* git_repos.delete: the repository and its rows, in one commit.
Forget(r) ==
    /\ deletes < MaxDeletes
    /\ deletes' = deletes + 1
    /\ repos' = repos \ {r}
    /\ ready' = ready \ {r}
    /\ status' = [i \in Ids |-> IF i \in RowsOf(r) THEN "absent" ELSE status[i]]
    /\ outlived' = outlived \cup {w \in Workers : worker[w].pc = "executing" /\ worker[w].on = r}
    /\ UNCHANGED <<repoOf, kindOf, busy, queue, starter, worker, viewer, restarts, made, stuck>>

\* delete_repo: is_busy, and some time later the deletion.
FindIdle(d, r) ==
    /\ remover[d] = None
    /\ r \in repos \ busy
    /\ remover' = [remover EXCEPT ![d] = r]
    /\ UNCHANGED <<repos, ready, rows, busy, queue, starter, worker, viewer, counts, past>>

Delete(d) ==
    /\ remover[d] \in repos
    /\ Forget(remover[d])
    /\ remover' = [remover EXCEPT ![d] = None]

\* The row went meanwhile, or the write is refused: the deletion raises.
DeleteRaises(d) ==
    /\ remover[d] # None /\ (DbErrors \/ remover[d] \notin repos)
    /\ remover' = [remover EXCEPT ![d] = None]
    /\ UNCHANGED <<repos, ready, rows, busy, queue, starter, worker, viewer, counts, past>>

\* delete_for_owner: the account goes, whatever runs.
DeleteAccount(r) == r \in repos /\ Forget(r) /\ UNCHANGED remover

\* The panel's process goes and comes back.
Restart ==
    /\ restarts < MaxRestarts
    /\ restarts' = restarts + 1
    /\ busy' = {}
    /\ queue' = <<>>
    /\ starter' = [s \in Starters |-> IdleStarter]
    /\ worker' = [w \in Workers |-> IdleWorker]
    /\ viewer' = [v \in Viewers |-> IdleViewer]
    /\ remover' = [d \in Removers |-> None]
    /\ stuck' = {} /\ outlived' = {}
    /\ UNCHANGED <<repos, ready, rows, deletes, made>>

StarterStep(s) ==
    \/ Claim(s) \/ (\E i \in Ids : CommitRow(s, i)) \/ Refresh(s) \/ RefreshRaises(s)
    \/ PruneRows(s) \/ HandOver(s) \/ HandOverRaises(s)

WorkerStep(w) == Take(w) \/ Begin(w) \/ (\E ok \in BOOLEAN : Finish(w, ok)) \/ FinishRaises(w) \/ Leave(w)
ViewerStep(v) == ReadRunning(v) \/ WriteFailed(v)

Next ==
    \/ \E r \in Repos : Create(r) \/ DeleteAccount(r)
    \/ \E s \in Starters :
          \/ \E r \in Repos, kind \in {"setup", "work"} : Load(s, r, kind)
          \/ StarterStep(s) \/ StartFails(s)
    \/ \E w \in Workers : WorkerStep(w)
    \/ \E v \in Viewers : LookBusy(v) \/ ViewerStep(v) \/ WriteRefused(v)
    \/ \E d \in Removers : (\E r \in Repos : FindIdle(d, r)) \/ Delete(d) \/ DeleteRaises(d)
    \/ Restart

Spec == Init /\ [][Next]_vars

\* Threads are scheduled, git commands have a timeout, and a page is
\* loaded again and again while somebody waits for its operation; SQLite does not
\* refuse the write of every view for ever.
Fairness ==
    /\ \A s \in Starters : WF_vars(StarterStep(s) \/ StartFails(s))
    /\ \A w \in Workers : WF_vars(WorkerStep(w))
    /\ \A v \in Viewers :
          /\ WF_vars(ViewerStep(v) \/ WriteRefused(v))
          /\ SF_vars(LookBusy(v)) /\ SF_vars(WriteFailed(v))

FairSpec == Spec /\ Fairness

-----------------------------------------------------------------------------
(* Properties                                                               *)

\* Every variable has its type; only repositories there are, are ready.
TypeOK ==
    /\ repos \subseteq Repos /\ ready \subseteq repos
    /\ status \in [Ids -> {"absent", "running", "done", "failed"}]
    /\ repoOf \in [Ids -> Repos \cup {None}]
    /\ kindOf \in [Ids -> {"setup", "work"}]
    /\ busy \subseteq Repos
    /\ queue \in Seq([id : Ids, repo : Repos])
    /\ starter \in [Starters -> [pc : {"idle", "loaded", "claimed", "committed", "refreshed", "kept", "pruned"},
                                 repo : Repos \cup {None}, kind : {"setup", "work"},
                                 id : Ids \cup {0}]]
    /\ worker \in [Workers -> [pc : {"idle", "took", "executing", "leaving"}, id : Ids \cup {0},
                               repo : Repos \cup {None}, on : Repos \cup {None}, setup : BOOLEAN]]
    /\ viewer \in [Viewers -> [pc : {"idle", "free", "judged"}, repo : Repos \cup {None},
                               rows : SUBSET Ids]]
    /\ remover \in [Removers -> Repos \cup {None}]
    /\ restarts \in 0..MaxRestarts /\ deletes \in 0..MaxDeletes /\ made \in 0..MaxOps
    /\ stuck \subseteq Repos /\ outlived \subseteq Workers

\* Who has a repository in hand, and will take it out of _busy: a starter that
\* claimed it, the pool's queue or the thread of the pool it was handed to.
Claimed(s, r) ==
    starter[s].pc \in {"claimed", "committed", "refreshed", "kept", "pruned"} /\ starter[s].repo = r
Queued(n, r) == queue[n].repo = r
Working(w, r) == worker[w].pc # "idle" /\ worker[w].repo = r

\* The threads that run git in a repository, each for an operation asked for there.
\* A thread whose row went with its account, and whose id another repository's row
\* was given before the thread read it, runs that row there too: it is a second one.
Doing == [r \in Repos |-> {w \in Workers : /\ worker[w].pc = "executing"
                                           /\ worker[w].on = r /\ worker[w].repo = r}]

Serial == INSTANCE OneAtATime WITH Things <- Repos, Doers <- Workers, doing <- Doing

\* start(): "One at a time per repository" - whatever is asked, refused, deleted
\* or restarted, two operations asked for in one repository never run git there at
\* once.
OneOperationAtATime == Serial!Spec

\* A busy repository has exactly one owner, who frees it in the end: it is never
\* freed under an owner's feet, nor locked out until a restart - but for one that was
\* deleted while a request was between its commit and the hand-over.
BusyHasOneOwner ==
    \A r \in Repos :
        Cardinality({s \in Starters : Claimed(s, r)})
          + Cardinality({n \in 1..Len(queue) : Queued(n, r)})
          + Cardinality({w \in Workers : Working(w, r)})
        = IF r \in busy \ stuck THEN 1 ELSE 0

\* At most one operation of a repository shows as running.
OneRunningRow == \A r \in Repos : Cardinality(RunningOf(r)) <= 1

\* A repository is offered for deploys only after a clone or an init run in it
\* succeeded - and not by one that began in a repository that had its id before,
\* unless that one's row had gone and its id is another row's by now.
ReadyWasSetUp ==
    [][\A r \in ready' \ ready : \E w \in Workers :
          /\ worker[w].pc = "executing" /\ worker[w].on = r
          /\ worker[w].setup /\ status'[worker[w].id] = "done"
          /\ w \in outlived => worker[w].repo # r \/ repoOf[worker[w].id] # r]_ready

\* settle_stale: an operation of a repository whose page is looked at does not show
\* as running "for ever": the row ends, goes with its repository, or belongs to a
\* repository left in _busy.
RowsSettle ==
    \A v \in Viewers, i \in Ids :
        (status[i] = "running" /\ repoOf[i] = PageOf[v] /\ repoOf[i] \in repos)
            ~> (status[i] # "running" \/ repoOf[i] # PageOf[v]
                \/ repoOf[i] \notin repos \/ repoOf[i] \in stuck)
=============================================================================
