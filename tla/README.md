# A TLA+ model of BPanel

BPanel is a hosting panel: a FastAPI program (`src/backend/app`) over one SQLite
database, a privileged shell helper (`installer/files/bpanel-helper.sh`), a few
timers and agents, a browser front end and a WHMCS module. This directory holds
TLA+ models of the parts of it whose correctness depends on the order of things:
threads of the web process against each other, the web process against its
timers, restarts, refused writes, answers of other servers that never come.

## How the system runs

* One uvicorn process. Route handlers are plain functions, so FastAPI runs them
  in a thread pool: two requests interleave at every statement. Sessions are
  SQLAlchemy's (`autoflush=False`, attributes expire on commit); SQLite is used
  without pragmas, so a read and the write that follows it are two steps, a
  write may be refused ("database is locked"), foreign keys are not enforced and
  the id of a deleted newest row is given again.
* Background work of that process lives in small thread pools (WordPress tasks,
  git operations, uploads to scan) and dies with it; what survives a restart is
  the database and a few JSON files.
* Timers are other processes: the minute tick (`services/backup_scheduler.py`)
  runs backups, resource limits, the daily WordPress check and the shared
  blocklist; others run malware scans, notifications and DirectAdmin imports.
  No lock of the web process reaches them.

## Inventory

| Component | State it keeps | Operations | What is hard | What makes it correct |
|---|---|---|---|---|
| WordPress Manager, tasks (`services/wp_manager.py`, `api/wordpress_manager.py`) | table `wp_jobs`; `_live`, the pool's queue, a lock per WordPress | submit, run, settle_stale, prune, purge, restart | every page view judges rows that threads are moving; a restart loses all but the table | one task per WordPress; a row ends and says how; nothing runs twice; nothing sticks in `_live` |
| WordPress Manager, restore points (`services/wp_manager.py`, `services/wp_extras.py`) | point folders on the account's disk; list and switch in the install's inventory (one JSON column) | create, trim, restore, delete, switch, check, daily check, push | many writers read, work for minutes, and write the whole column back | an update is covered by a whole point; list and disk agree; the newest two stay |
| WordPress Manager, staging (`services/wp_extras.py`) | a staging folder per account, the copy's database and files | clone, push, upload | the target is checked, then copied to; the folder is shared by the account | a copy never lands on a website in use |
| Git repositories (`services/git_repos.py`, `api/git.py`) | tables of repositories and operations; `_busy`, the pool's queue | start, execute, settle_stale, webhook, edit, delete | a webhook, a person and a restart meet on one repository | one operation per repository; a row ends; a repository never stays busy |
| Shared blocklist (`services/shared_blocklist.py`) | a state file: key, status, cursor, subscription | reconcile from the minute tick and from the API's thread, check now, switch off | two processes share the file; the collector may be down, revoke the key or answer late | heals on its own; nothing reported is skipped; off leaves nothing behind |
| Provisioning by WHMCS (`api/provisioning.py`, `services/provisioning.py`) | users, provisioning accounts, websites, tokens | create, suspend, unsuspend, terminate, password, package | calls repeat and cross; effects on the system come before the one commit | calls are idempotent; a customer is never half there |
| Upload scanning (`services/malware_queue.py`) | a bounded queue, a history | enqueue, scan, remove | the file may be replaced between the verdict and the removal; the queue fills | every upload is accounted for |
| Sessions and sign-in (`api/auth.py`, `api/deps.py`, `core/security.py`, `core/step_up.py`, `services/sso_tokens.py`) | signed cookies, session epoch, a login limiter, one-use SSO files | login, renewal, logout, logout everywhere, impersonate, SSO | renewal crosses logout; the limiter counts in memory; a token is read, then unlinked | a revoked session stays revoked; a token works once |
| Backups (`services/backup_scheduler.py`, `services/backup.py`, `services/backup_s3.py`, `api/maintenance.py`, `services/restore_sources.py`) | schedules, archives here and at a destination, jobs in memory | timer, run now, manual backup and upload, delete, prune, restore | the timer's process and the web process run the same schedule; an upload truncates what it replaces | retention never removes the last whole copy; "ok" and "done" are true; a row says "running" only for a run |
| Malware schedules and scans (`services/malware_schedule.py`, `services/malware_scan.py`, `services/panel_settings.py`, `services/maldet.py`) | a settings file, scan jobs in memory and in files | start, list, judge, timer, save | the settings file is read, changed and written by several processes; a page judges the other process's jobs by its own threads | a failed read erases nothing; a schedule fires once in its window; a scan ends on the page |
| Notifications (`services/notifications.py`, `services/notify_watch.py`, `services/notify_messages.py`) | settings, a state file of what was told | notify, watch, link Telegram | the state is saved after the messages left | told once per change, never missed |
| Quotas and limits (`services/resource_limits.py`, `services/storage_quota.py`, `agents/bpanel_limits_agent.py`) | limits per account, cgroups and quotas | sync, charge | check-then-act across requests | a limit is never passed |
| Accounts and websites (`api/users.py`, `api/websites.py`, `services/teardown.py`, `services/site_users.py`, `services/reseller.py`) | users, websites, aliases, folders, vhosts, certificates | create, change, alias, move, suspend, certificate, delete | no lock covers a website; `nginx -t` reads every website's file; effects on the system come before the commit | a website is served as its row says; nothing is left of one that is gone; suspended stays off |
| DirectAdmin, cPanel and other imports (`services/da_import*.py`, `services/cpanel_import.py`, `services/migrate_ssh.py`) | import jobs, state files | start, resume, settle | a separate unit runs the import | an import ends and says how |
| Site apps and compose (`services/site_apps.py`, `services/compose.py`) | apps, ports, units | install, start, stop, remove | ports are picked, then used | no port twice |
| Web server, DNS, mail, TLS, WAF, firewall (`services/nginx.py`, `dns.py`, `mail.py`, `ssl.py`, `waf.py`, `firewall.py`) | configuration files | write, test, reload, roll back | a bad file must not take the server down | the last good configuration is served |
| Terminal, file manager, cron, SFTP, databases, Redis, PHP | system state behind the helper | one call each | path and owner checks | mostly sequential |
| Updates, installer, helper, memory guard (`installer/`, `install.sh`, `panel-setup.sh`) | the system itself | shell programs | sequential shell | outside these models |
| Front end, WHMCS module, translations (`frontend/`, `modules/`, `tools/`) | none that matters here | rendering and calls | - | outside these models |


## The modules

| Module | Models | Extended by |
|---|---|---|
| `WpTasks` | the WordPress Manager's task queue | `MCWpTasks`, `WpTasksProofs` |
| `WpPoints` | one WordPress's restore points and inventory | `MCWpPoints`, `WpPointsProofs` |
| `GitOps` | git operations of the repositories | `MCGitOps`, `GitOpsProofs` |
| `OneAtATime` | what background work promises: never two doers on one thing | instantiated by `WpTasks` and `GitOps` |
| `SharedBlocklist` | the shared blocklist's reconciliation | `MCSharedBlocklist`, `SharedBlocklistProofs` |
| `MalwareQueue` | scanning uploads after they land | `MCMalwareQueue`, `MalwareQueueProofs` |
| `Provisioning` | one account ordered through WHMCS | `MCProvisioning`, `AccountsProofs` |
| `Backups` | archives of accounts: the timer, "Run now", manual backups | `MCBackups`, `AccountsProofs` |
| `Sites` | the websites: rows, vhosts, folders, certificates | `MCSites`, `SitesProofs` |
| `MalwareScans` | scan jobs, their schedules and the settings file | `MCMalwareScans`, `MalwareScansProofs` |
| `<Module>Proofs` | theorems about `<Module>`: `WpTasks`, `WpPoints`, `GitOps`, `SharedBlocklist`, `MalwareQueue`, `Sites`, `MalwareScans` | - |
| `AccountsProofs` | theorems about `Provisioning` and `Backups`, the two modules about whole accounts | - |

`PROJECT.json` maps every definition that models code to its lines. Operators
whose comment begins with "Mutant:" are the same step with a plausible mistake;
put in the place of the step they name, they break the property listed with
them. They are part of no specification.
`AccountsProofs` extends two modules that share no state, which is why the initial states,
steps and types of `Backups` carry its name (`BackupsInit`, `BackupsTypeOK`).

### WpTasks

`status`, `request` and `nextId` are the table `wp_jobs`; `live`, `queue` and
`lock` are `_live`, the pool's queue and the dictionary of locks. A client walks
through `submit` (commit, prune, `_live.add`, `executor.submit`), a pool thread
through `_run` (read the row, wait for the lock, commit "running", run the
handler, commit the outcome, leave the lock, `_live.discard`), a viewer through
`settle_stale`, whose read, comparison with `_live` and write are three steps.
`Restart` loses all but the table. `Purge` is the addon removed with its data:
the rows go, running threads stay, ids start again at 1. With `DbErrors` any
commit may be refused, the viewer's included: then the page answers an error and
the rows wait for a later view. What a handler does to a site is the interval in which
its thread is "running"; a push changes the live WordPress of the staging copy
whose lock it holds.

### WpPoints

`disk` says what of each point is on the account's disk, `saved` is the
inventory's list and switch. Each actor carries `seen`, the inventory as its
session last read it: commits expire what a session has read, so a task reads
again after each of its stages and not in between. A task of the WordPress runs
alone (what `WpTasks` shows of its lock); a push runs under the staging copy's
lock, a scan under its website's, the daily check in the timer's process and the
switch in a request. A point is named by the second it was begun.

### GitOps

`busy` is `_busy`, `status`, `repoOf` and `kindOf` are the operation rows. A
starter walks through `start` (claim under `_busy_lock`, commit the row and close
older running ones, read both rows again, prune, hand over), a pool thread through
`_execute`, a viewer through `settle_stale` of the one repository its page shows
(`PageOf`), a remover through `delete_repo`, which looks at `is_busy` and deletes
later; deleting an account does not look. Rows and repositories that are gone make
a commit raise, and so does reading them after one.

A repository's id is given again, and so is the id of an operation whose row was
the newest and went with its account (`NextId`). `_execute` is handed two ids and
reads the rows afresh, so `worker` carries the repository it was given (`repo`,
which it takes out of `_busy` at its end) and the one its row names (`on`, in which
it runs git). The two differ when a queued operation's row went and its id was
given to another repository's row before the thread read it.

### SharedBlocklist

`reconcile` is one walk of a process through the stages switch, register,
status, report, subscribe; `AtStatus`, `AtReport` and `AtSubscribe` let it pass
a stage whose time has not come. `_update` is two steps, `Save` (read, merge,
open the temporary file) and `Rename`. Two processes in one temporary file end
with either's content or with a torn file, which the next read takes for no
state. `known`, `approved` and `delivered` are the collector; it, Fail2ban,
ModSecurity and its operator are not in the repository and modelled from how
they are used. The panel comes up with the addon removed, or installed and its
state file lost.

The helper that reads what was reported may give any part of what there is: it
swallows a database that cannot be read, skips a log that cannot be, and stops at
5000 rows of each and 4 MB of the log (`bpanel-helper.sh:5841-5886`). `ReadEvents`
gives the panel any set of the events after the cursor; `left` is a history
variable, the events such an answer left out although it had a newer one. The
cursor passes those, and nobody is ever told of them.

### MalwareQueue

A request installs its file, looks for a live worker, starts one under the lock
if there is none, and puts its record; the worker takes a record, looks at the
size of what lies at its path, scans what lies there by then, and removes what
lies there after the verdict. The history and the queue keep to their sizes. What
is too large depends on a limit read from `clamd.conf`, which may not be known;
`unread` is a history variable, the uploads for which a file too large for clamd
was let pass in that case.

### Provisioning

`row`, `linked`, `user` and `site` are the rows, `vhost` and `linux` what the
server has. A call arrives through its token's commit, reads the account, then
the user, then the user's websites - for a termination after a backup of minutes,
so these are three steps - changes the server, and commits once. `writer` is
SQLite's write transaction: a create holds it from the first flush to its commit,
a termination from `forget_website` on, and any write of another request in that
time is refused after five seconds. An UPDATE writes the columns that differ from
what was read, to whatever row has the id by then.

What nginx's test refuses is put back; what it will not reload stays, and the call
fails. `stray` records a create that failed so: its file is there without a
website. A create that cannot write the firewall's file rolls everything back and
leaves no failed row.

`DELETE /api/users/{id}`, an operation of the panel's own pages, removes the user
and the website of the account without knowing of the account (`gone`). Its
`user_id` then names a user who is gone, and SQLite may give that id to another
customer: a call reads no user then, or that other one's (`"other"`). The other
pages of the panel, on which a customer changes or deletes the website, are
`Sites`' and not here.

### Backups

`local` and `remote` are the archives on this disk and at the destinations: none,
a part, a torn file or a whole one, and remotely the second at which it was begun.
`act` is what the timer's process and each thread of the executor do with one
account: dump, write the archive under the name of its second, upload it
(`PutBegins` truncates the file at the other end, `PutEnds` completes it; an
object store shows whole objects only), discard the local copy, prune. `timer`
holds the rows `run_due_schedules` loaded: its session reads one again only after
its first commit, and writes `last_status` only where it differs from what it
loaded. A refused commit at the end of a run is `EndRefused`: the timer's round ends;
a thread of the executor writes "error" if its session still can, and otherwise
nothing (`maintenance.py:917-925` hides the second failure). `unended` is a history
variable: the schedules whose run ended so, until another of theirs ends. `queue`
and `job` are the executor's queue and the registry of jobs, which
drops the oldest that ended when it is full. The clock moves where the code reads
it. `mixed` is a history variable: the accounts two runs were at together.

### Sites

Every request on a website or an account's websites is one `proc` that walks
through the steps of its handler: make the folder, write the file, `nginx -t`,
reload, commit, with the flush that opens SQLite's write transaction (`lock`)
where the handler has one. `NginxOk` reads the files of every website, so a file
another request has just written fails this one's test; the old file then comes
back, whatever was written meanwhile. `CertFor` is what a rewrite puts into a
file: the row's own or borrowed certificate, or what certbot had put there.
`Start` is one of thirteen operations: create, alias, remove alias, update, transfer,
refresh, delete, the three certificates, and suspending, unsuspending and removing
an account, which go through its websites one by one. A PATCH names any number of
settings and an owner. It begins as an update or a transfer, and each further part
(`Further`) rewrites and reloads before the one commit that records all of them;
any part may be refused (`PartRefused`, or one of the failures of its steps), and
the earlier ones stay in effect. The parts come in any order, which includes the
handler's. `spoiled` is a history variable: names two requests were at together,
whose request failed after the point the code can undo, or whose borrowed
certificate was deleted because its names could not be read (`ReleaseBlind`);
`kept` the folders a deletion was asked to leave.

Every helper call may fail by itself. A creation's clean-up may fail as well, and
is not told to anybody; and the error of the firewall's file is an `HTTPException`,
which no handler around it catches, so that nothing is cleaned up (`RulesRefused`).

### MalwareScans

`settings` is the part of the settings file that matters - the switches and last
runs of both schedules, and whether the other settings are still there - and
`writer` a process between reading it and replacing it, three steps: the schedule
is read leniently, what surrounds it strictly, and the whole is written back.
`memory`, `disk`, `worker` and `listed` are `MALWARE_JOBS` of each process, the
jobs' files, the threads and `MALWARE_JOB_THREADS`; `view` is a page of the panel
that looks for an unfinished job's thread, in its own process, and calls it
interrupted in the file and then in memory. `sched` is `run_due`: due, started,
recorded, joined, recorded again. An update of a job in memory and in its file is
one step. Time is the appointed day; where a death or an overwritten file takes
the record of a run, `lost` says so.

## The runs

The nine runs that must pass:

* **wp_tasks** - two pool threads, a submitter, a viewer, two rows, one restart,
  one deletion of the history, any write refused, over changes and scans.
  `TasksTakeTurns` holds throughout: the handlers of one lock run one after the
  other, as `OneAtATime` has it. So does the first half of `LiveMatchesPool`: an id
  in `_live` has somebody who will take it out. Its second half (what the pool has is
  in `_live`), `OneTaskPerInstall` and `RunsOnce` hold until the history is deleted: after that an old thread's row no longer says whose task it
  runs, and it takes the id of a new task out of `_live`. `TasksSettle`: each
  queued or running row comes to an end - by a later view, when the write of the
  one that judged it was refused.
* **wp_points** - three points of a WordPress that keeps two: updates, restores
  and deletions against a push, a daily check and the switch, failing commands and
  a crash. `UpdateIsCovered`: the point an update was promised is whole for as
  long as it runs. `KeepsTheNewest`: a whole point leaves the disk by its owner's
  deletion or in favour of a newer whole one. With a push under way neither is true,
  since a push's list may be older than the task's; what is left is that making a
  point never takes the last whole one away.
* **git_ops** - two starters, two pool threads, a remover and a viewer of one of two
  repositories, two operations, one deletion, one restart, any write refused. The
  ids of a deleted repository and of its operations are given again. `OneRunningRow`:
  no two rows of a repository show as running. `OneOperationAtATime` is the
  refinement of `OneAtATime` with, as a repository's doers, the threads that execute
  an operation asked for there; a thread that came to the repository by an id given
  again is not one, and is what the code does not keep apart (see below).
  `BusyHasOneOwner`: a busy repository has one owner that frees it, but for one
  deleted between `start`'s commit and its hand-over, which nobody frees (`stuck`).
  `ReadyWasSetUp`: what makes a repository ready is a clone or init that ran in it -
  not one begun in a repository that had its id before, unless the thread's row was
  another repository's to begin with. `RowsSettle`: a running row of the repository
  whose page is looked at ends, a stuck one's excepted.
* **blocklist** - both processes over one state file. `CursorCovered`: an event the
  cursor has passed was told, is past the lookback, was left out by the helper of an
  answer with a newer one (`left`), or shares its second with an earlier such one.
  (The last two are real: the helper returns only what is after the cursor's second,
  and may return a part of it. What the property says is that the panel itself loses
  nothing of what it is given.) `OnHeals`: left on, the server ends registered and
  subscribed, after a crash, a lost state file or a forgotten key.
* **malware_queue** - three uploads to one path, two request threads, a queue of
  one: `Accounted`, `OneScanner`, `NeverCalledClean`, `CleanStays` and
  `EveryUploadSettles` ("lost" is the result of a record a restart took).
  `NeverCalledClean` excepts what was scanned while clamd's limit could not be read.
* **provisioning** - eight calls from two threads, the deletion of the user among
  them, with every failure and two crashes. `TypeOK` says also who holds the write
  transaction. `NoOrphans` holds however calls cross: a website has its owner, and
  the account's user is there unless the panel's own page deleted it. `RowsAgree`
  and `DoneIsTrue` hold as long as no two calls were under way together, which
  `crossed` records; crossing calls break both (see below). `DoneIsTrue` says nothing
  of nginx for an account whose user was deleted, and excepts from a termination the
  `stray` file of a failed create.
* **backups** - one account under two schedules, one that keeps its archives here
  and one that sends them to SFTP under a rotating name or to an object store under
  the day. `CopyStays`: an account that has a whole archive is not left without
  one; `OkIsFresh`: "ok" and "done" mean an archive made since the run began. Both
  speak of accounts that no two runs were at together: nothing in the code keeps
  the timer and the executor apart, and together they break both (see below).
  `RunningIsRun`: a row says "running" only for a run that will say otherwise,
  until a restart loses the queue or the write of how the run ended is refused. `BackupsTypeOK` says also that the registry keeps
  every job that is queued or running.
* **sites** - `ServedAsRecorded`, `NothingLeft`, `NoDanglingCert`,
  `SuspendedStaysOff`. What is claimed of a name is claimed whatever the requests
  for other names do meanwhile, their broken files included, and of names that are
  not `spoiled`. What spoils a name: two requests at it together; a later part of a
  PATCH that is refused, a reload or a commit that fails; a creation that was not
  cleaned up after; a certificate deleted under its borrower because its names could
  not be read. Each is a state the code leaves, and listed below.
* **malware_scans** - `NothingForgotten`: the other settings outlive every failed
  read, and a schedule is not found due twice within its gap unless the record of
  the first run was lost. `JobsSettle`: whatever dies and whoever calls it
  interrupted on the way, a scan ends on the page and stays ended.

The three that must fail are findings, each a sentence of the repository that
the code does not keep:

* **wp_tasks_push** - "one at a time per WordPress": a push from staging changes
  the live WordPress while a task of the live one runs.
* **provisioning_create_again** - "Idempotent by external_id (an existing,
  non-terminated account is returned as-is)": a repeated create of a suspended
  account deletes its row and is answered 409.
* **sites_https** - "the full vhost, built like every other rewrite - SSL, aliases,
  redirects and an application's port included": the website of an unsuspended
  account comes back without its Let's Encrypt certificate.

### Bounds

Every bound is a constant named `Max...` (or `Keep`, `KeepPoints`, `MaxPending`,
`History`, `JobLimit`, which are the code's own limits made small), or a field of
`Regimes`, and stands in a guard. Counts of rows, points, calls or uploads are one
more than what an actor of each kind needs to meet another one's leftovers: two
rows for a successor of the same lock, three points for one to be trimmed, two
operations of which one is pruned, or has its id given to the other, three uploads
so that a third is put while one is scanned and one queued, eight calls for two
accounts under one id to come and go. One restart or crash is enough to leave every intermediate state behind once;
a second, where it is cheap, leaves something behind while that is being repaired.
One deletion gives an id again.

`SharedBlocklist` and `MalwareScans` bound several things whose product is too
large to check, and whose interesting combinations are few. Their `Regimes` is a
set of bounds; a behaviour has one of them from its first state on, and one run
checks all. The blocklist's: two events that may share a second, told by the
timer; one event, both processes and a click; a second key, a click, a mishap (a
crash, a lost file, a forgotten key), failures and an operator's approval. The
scans': settings saved and a file denied over a whole day with nobody at the
pages; a scan under open pages with two mishaps; two scans at once.

The scans' day has three hours with a gap of two, so that a schedule of the first
hour can be due twice: MIN_HOURS_BETWEEN_RUNS is 20 of 24 hours, and a schedule of
hour 0 to 3 is in the same place. `WpPoints` has one crash or one click of the
switch, which makes half of a task's work or of the switch's list meet everything
else once. In `Backups` three events - rounds of the timer, clicks, manual backups, deletions,
crashes - and a clock of two seconds are two runs at once and what is left of
them. `Sites` has two names, since what a request can do to another website needs
one other; three requests, of which two run at once; a PATCH has at most two parts
(`TwoParts`, an action constraint of the run: the second one finds what the first
left, as a third would), the second taken only while no name is spoiled; a state in which both names are spoiled is not explored
further, because nothing is claimed of it.

The runs with bounds on requests set `CHECK_DEADLOCK FALSE`: when the bound is used
up and all is quiet, nothing is left to do, as in a panel nobody uses. Names of
threads, hostnames and accounts are interchangeable, and the runs of safety
properties that declare `SYMMETRY` permute only those; liveness is checked without
symmetry.

The git run has two repositories, so that an operation's id can pass from one to the
other; its one viewer is at the page of the first, and what settles is that one's.

### Fairness

Threads and processes that can take a step take one (`WF`): the operating system
schedules them, and every command, lock wait and answer they wait for has a
timeout in the code. That is all `MalwareQueue` assumes. Nobody is assumed to ask for
a task, an operation or an upload. The other assumptions are stronger:

* the page that shows a task polls it, so a request of the WordPress Manager looks
  again as long as a row is unfinished (`WF` of the viewer's steps in `WpTasks`);

* SQLite does not refuse the write of every view for ever (`SF` of `WpTasks`'
  `WriteInterrupted` and of `GitOps`' `WriteFailed`): the page polls, and "database is
  locked" passes. A task that a restart cut short ends because a later view's write
  goes through;
* somebody looks at a repository again and again while it is not busy
  (`SF` of `LookBusy`): its page polls while an operation shows as running;
* the minute timer does not skip for ever what it is due to do, and the collector
  and the firewall do not refuse it for ever (`SF` of five of its steps in
  `SharedBlocklist`): "heals on its own" presumes somebody to heal with;
* somebody opens the page of the scans again (`WF` of the page's steps in
  `MalwareScans`), in the regimes with pages. A scan itself ends because the
  scanner's call has a timeout. Nothing is asked of the scheduler's process.

No fairness is given to the panel's crashes, to failures or to the operator's
approval.

## What is proved

Thirty-five theorems in eight modules, each for every value of the constants and from
the component's named assumptions alone.

`WpTasksProofs`, from `WpConstants`, for every number of threads, installs, ids,
restarts and deletions of the history:

* `TypeCorrect` - `Spec => []TypeOK`;
* `ImplementsOneAtATime` - `Spec => TasksTakeTurns`, the refinement of `OneAtATime`;
* `OneTask`, `LiveStaysThePools`, `StartedOnce` - `Spec => []OneTaskPerInstall`,
  `[]LiveMatchesPool`, `[]RunsOnce`.

The type invariant is made inductive by `RowsCarryRequests` (a row that exists
carries a request) and `IdsInHand` (a thread past its first step has an id):
without them the key a thread works out, or the id it discards, has no type. The
locks need `LockNamesHolder`: the lock of the key of a thread inside its `with`
block names that thread, which makes mutual exclusion a matter of a function having one value;
so of what runs under a lock only `Start`, a handler's end and a restart change
anything (`HandlingChanges`), each as the abstract specification says. The
other three rest on `HandInv`: ids in hand were given out before
(`IdsGivenOut`), each is in one hand - a client, a place of the queue or a
thread - (`HeldOnce`), those in the pool are in `_live` (`HeldIsLive`), a thread's
key is the key of its row (`KeyIsTheRows`), and a row whose thread is not past
`Start` has not been started (`NotYetStarted`). It holds as long as the history was not
deleted; `HandInvOrPurged` carries that condition, and `PurgesStay` that a
deletion is not undone. That an id in `_live` has an owner needs no such condition:
`OwnedStep` shows it from the types alone.

`GitOpsProofs`, from `GitConstants`, for every number of repositories, threads,
operations, restarts and deletions:

* `TypeCorrect`, `BusyAgreesWithOwners`, `AtMostOneRunningRow` - `Spec =>
  []TypeOK`, `[]BusyHasOneOwner`, `[]OneRunningRow`;
* `ReadyOnlyAfterSetUp` - `Spec => ReadyWasSetUp`;
* `ImplementsOneAtATime` - `Spec => OneOperationAtATime`, the refinement.

`Inv` is the types with what is in hand (`InHand`), `OwnersAreAlone` - no
repository is in two hands, where a hand is a starter past its claim, a place of
the queue or a thread - and `BusyIsOwned`, that `_busy` is exactly the repositories
in some hand, but for the `stuck` ones. The property counts owners; counting is proved once (`CountFew`) and
the induction argues about pairs of hands instead. `RunningAlone`, on top of it, says
that no two rows of a repository, one that is gone included, show as running. In
the refinement a thread that begins in the repository it was given is a doer's `Begin`,
because no other hand can have that; one that leaves is its `End`, a restart is
`StopAll`, and every other step is a stutter - that of a thread which finds another
repository's row under its id among them. Neither theorem needs ids to be fresh:
they are about what was asked for in a repository, and `outlived` says which threads
began in one that had the id before.

`MalwareQueueProofs`, from `QueueConstants`, for every number of uploads, paths,
requests and threads and every size of queue and history:

* `TypeCorrect`, `AtMostOneScanner`, `InfectedNeverCalledClean`,
  `EveryRecordAccounted` - `Spec => []TypeOK`, `[]OneScanner`,
  `[]NeverCalledClean`, `[]Accounted`;
* `CleanFilesStay` - `Spec => CleanStays`.

The types carry `Landed` (a file lies where its upload landed) and `InHand` (what a
request, the queue or a worker holds has come); `Single` is the one worker;
`Verdicts` strengthens what is said of a result to what a worker in the middle of a
scan already knows: past its look at the size no padded file of its own record is before it
unless it knew of no limit, and while it is about to remove, nothing called clean lies there. `Places` - each
pending record in one place (`OnePlace`) and in some place (`SomePlace`) - is an
induction of its own over the same types.

`WpPointsProofs`, from `PointsConstants`, for every number of tasks, pushes,
readers, switches, points and events:

* `TypeCorrect`, `UpdateCovered` - `Spec => []TypeOK`, `[]UpdateIsCovered`;
* `NewestKept` - `Spec => KeepsTheNewest`, an action property.

Four lemmas say what the list of points is under its operations: its elements
(`ElementsOf`), after a point is put in front (`AppendFacts`), trimmed to the newest (`NewestFacts`), and
without one (`WithoutFacts`). `Inv` adds to the types what makes an old copy of the
inventory harmless: the saved list and every copy of it name each point
once, only points begun, and none that somebody is making (`CopiesFit`); a point is made by one
thread and nobody else is at it (`OwnPoints`); a point between its export and its
listing is whole (`Whole`); the tasks take turns (`Turns`, from the queue's lock). `Unpushed`
holds as long as no push has made a point: then the one being made is the last
begun, so a trim that keeps two of a list cannot name it, and what an update
was promised stays.

`SharedBlocklistProofs`, from `BlocklistConstants`, for both processes, every regime
and every number of keys and events:

* `TypeCorrect`, `CursorNeverSkips` - `Spec => []TypeOK`, `[]CursorCovered`.

A cursor is read from the state file, kept over several calls and written back,
possibly over a newer one. `CursorInv` therefore says of every cursor about - the
file's, those read, those about to be written - that it is covered and not
later than the newest event. What an answer of the helper leaves out is in `left`
before the cursor passes it, whatever part of the events the answer was. The types
need `InOrder`: events come in order, and no process has read more of them than
there are.

`AccountsProofs`, of `Provisioning`, from `ProvisioningConstants`, for every number of
requests, calls and crashes:

* `TypeCorrect`, `NeverOrphans`, `RowsAlwaysAgree`, `DoneStaysTrue` - `Spec =>
  []TypeOK`, `[]NoOrphans`, `[]RowsAgree`, `[]DoneIsTrue`.

`TypeOK` says who holds SQLite's write transaction, and that carries `NoOrphans`: of
every call, whatever crosses it, what a create found missing is still missing
in its own transaction (`Fits`), and only what is linked can have lost its user
(`Links`). The other two are about calls that come alone: until two have crossed,
what a call read is how things are (`Apt`) - its user the account's, unless the id
has changed hands (`WhoseIs`) - every other call is idle (`Others`), and an account
without a website has no vhost but a stray one, a failed one without a link no user
(`Bare`), without which a repeated create could not be shown to agree.

`AccountsProofs`, of `Backups`, from `BackupConstants`, for every number of accounts,
schedules, destinations, threads, seconds, jobs and events:

* `BackupsTypeCorrect`, `RunningInHand` - `BackupsSpec => []BackupsTypeOK`,
  `[]RunningIsRun`;
* `CopiesStay`, `OkStaysFresh` - `BackupsSpec => CopyStays`, `OkIsFresh`, two action
  properties.

All four follow from one invariant, `BackupsInv`, whose parts are:

* `Registry` - a manual job that has not ended is in one place of the queue or with one
  thread, and its row says which. Hence the registry, which drops only jobs that
  ended, keeps every job somebody still has: `job[act[a].task.of]` is there to be
  written when the job ends.
* `RunInHand` - more than `RunningIsRun`: the thread that makes the row true has itself
  read "running" there. The end of a run writes only what differs from what its session
  loaded, so a thread that loaded something else may end and leave "running" behind;
  without the conjunct the invariant is not inductive. Schedules whose last write was
  refused (`unended`) are excepted here as in the property.
* `Separate` - while an account's archives are made one at a time, whoever is at it
  has it to itself: every other run does not have it, has yet to come to it
  (`left`), or failed there (`Clear`).
* `Made`, `OnTime` - at each stage of a run, what there is of its archive, here or where it
  was sent; it is the newest of its account, and no archive is from the future.
  A prune keeps at least one, the newest first, so what it removes is never this one.
  That the newest has nothing above it, a count of 0, is all the proof needs of
  cardinalities.
* `Fresh` - what a run that has not failed leaves of each account it is done with, which
  is what "ok" says at its end.
* `FitsTask` - which stages a run's task allows, and what its fields hold there: the
  accounts left are its own, the archive was begun no earlier than the run.

`Made`, `Fresh` and `Separate` are about accounts that are not `mixed`, and `mixed` only
grows. The proof of a step has two halves: what it makes of its own run, and that
the runs it is no step of still find what they were described by (`Bystander`).
`RunStep` puts them together for the steps of a run at its archive, `NewRuns`
and `Handing` for those that touch no file; then there is one lemma per action. TLC checks
`BackupsInv` on the states of the run `backups`.

`MalwareScansProofs`, from `ScansConstants`, for every set of schedules and jobs, every
gap and every number of saves and faults:

* `TypeCorrect` - `Spec => []TypeOK`;
* `SettingsKept` - `Spec => NothingForgotten`, an action property.

Who writes the settings file writes back what it read. `Hands` says that the other
settings are in the file and in every such reading; `InTime` that no time on record
is later than the look at the clock that found a schedule due; `Order` that
the panel holds no newer record than the file, and that the scheduler's own is the
newest; `Recorded` that a start is on record, or about to be, or lost - and lost is what
the property excepts; `GapKept` puts these together for what is due.

`SitesProofs`, from `SitesConstants` and `NoneIsNoRecord`, for every number of names,
accounts, threads and requests:

* `TypeCorrect`, `ServedCorrect`, `LeftoversCorrect`, `CertsCorrect` - `Spec =>
  []TypeOK`, `[]ServedAsRecorded`, `[]NothingLeft`, `[]NoDanglingCert`;
* `SuspensionHolds` - `Spec => SuspendedStaysOff`, an action property.

What is claimed of a website at rest is `Calm`: row, file, folder and certificate
agree. It cannot be inductive alone, since a request makes it false at its first
step and true at its last. `Held` says what holds meanwhile, of each name a request
is at: of the website it works on (`AtSite`) that its row is still the one read,
what its file, folder and certificates are by this step - as before, as they will
be, or whichever it can still be undone to, and between two parts of a PATCH as the
parts so far have it (`AsHeld`); of the account's other websites that
they have not been reached or are finished (`Passed`). `Quiet` is `Calm` of names
at rest, `Busy` is `Held` of the others, and both are about names that are not
spoiled. The rest keeps requests apart: `Alone`, two requests at one name spoil
all they are at, so that a step of one never touches the unspoiled name of another
(`Elsewhere`: then `Held` and `Calm` there stay as they are); `Unlent`, a
certificate being replaced is borrowed by nobody, nor about to be - while one whose
website is deleted stays where it is read to cover another name (`Lends`), which is what
makes borrowing and deleting compatible (where it could not be read, its borrowers are
spoiled); `Claims` and `Apart`, an alias added or removed under the write
transaction is still so at its commit. The proof has one lemma per action: what the
action leaves alone, what it makes of its own name, and that the step it goes to says just
that; `Walking` and its kin turn the three into `Inv'`.

TLC checks `Inv` on the states of the run `sites`; several of its clauses were found
there to be needed, such as that only a request for a certificate finds a website
without a file (`bare`), or that a name is no alias of itself.

Only model-checked: the liveness properties, since fairness and `ENABLED` are outside
the prover. Every invariant and every action property of a passing run is a theorem.
`CreateKeepsTheRow` and the other properties that the code disagrees with are stated to
be violated, and have no proof.

## Disagreements no run is kept for

Met while modelling; each can be seen by stating it as an invariant of the module
named.

* `WpTasks`: a viewer between `submit`'s commit and `_live.add`, or between a
  thread's last commit and `_live.discard`, with rows read before, writes
  "interrupted" over a task that no restart touched - in the second case over one
  that completed. `settle_stale`'s docstring keeps that word for "Tasks a restart
  cut short".
* `WpTasks`: two threads wait on a lock that is not first come, first served, so
  tasks of one WordPress may run in another order than "the order they were asked
  for" (`WpJob`'s docstring).
* `WpPoints`: a check that overlaps the owner's switch of automatic points writes
  the old switch back; a daily check that overlaps the making of a point writes the
  old list back (`wp_manager.py:384`), and the new point stays on the disk,
  unlisted, never trimmed, against "the newest two are kept".
* `GitOps`: a queued operation whose row went with its account runs whatever row has
  its id by then. If that is another repository's, two threads run git in that one,
  against "One at a time per repository" (`start`'s docstring), and both write the
  one row (`git_repos.py:341-342`). `OneOperationAtATime` counts only what was asked
  for in the repository.
* `GitOps`: an account deleted between `start`'s commit and its hand-over makes the
  read of the operation or of the repository raise - in the `except` clause itself, or
  after it - and the repository's id stays in `_busy` until the panel restarts
  (`git_repos.py:292-300`). A repository that is given the id can run nothing, and
  a row of it that shows as running is not settled.
* `GitOps`: `settle_stale` asks whether the repository is busy before it reads the
  running rows; an operation begun in between is written "failed", "Interrupted:
  the panel restarted while this ran."
* `SharedBlocklist`: a firewall that fails to drop the list, or a timer that adds
  it while the addon is switched off, leaves the list for good once the state
  file is gone ("off means none of it is left behind"); installing the addon may
  register the server twice, once from each process; events of the second the
  cursor stands at are skipped; more than 5000 events between two reports lose
  the oldest, and a log of more than 4 MB its beginning; while the database of the bans
  or one log cannot be read, the cursor moves past its events by those of the others,
  and they are never told (`bpanel-helper.sh:5852-5853`, `5864`).
* `MalwareQueue`: without a limit - a `clamd.conf` that cannot be read, or has no
  `MaxFileSize` line - a file too large for clamd is scanned, and its record says
  "clean" (`malware_queue.py:182-183`), which the comment below those lines calls
  "exactly the hole this queue exists to stop pretending about".
* `MalwareQueue`: what is removed is what lies at the path after the verdict, so a
  clean upload that replaced the infected one in that moment, and was not scanned
  yet, goes in its stead.
* `Provisioning`: a create whose file nginx tests but will not reload answers an error
  and leaves the file (`nginx.py:1428`); the account is failed, with a user and without
  a website, and its termination answers ok with that file still served.
* `Provisioning`: a user deleted on the panel's page leaves an account that names it
  (`users.py:466-467`). A repeated create returns it as it is; once another customer
  has the id, suspending or terminating the account is done to that customer.
* `Provisioning`: an unsuspend whose commit is refused leaves the site live and
  the rows suspended, and a later suspend answers at once; a suspend that crosses
  a termination writes the vhost again after it was removed; a failed lock or
  deletion of the Linux user is told to nobody; unsuspending an account puts back
  websites that had been suspended one by one.
* `Backups`: two runs of one account at once - the timer's and a click's - tear an
  archive of one second, or the file both upload under a rotating name, and each
  prunes what the other counts on: the last whole copy can go. Archives cut short by a crash count
  toward the retention, two schedules of one account prune by the smaller one, and
  a destination's `full_date` copies are never pruned although its comments speak
  of "pruned by retention" (`backup_s3.remove` has no caller). A manual upload
  takes SFTP whatever the destination is. A restart leaves a row "running" until
  its next run. A schedule deleted during the timer's round ends the round for the
  others.
* `Backups`: a run whose last commit is refused (`backup_scheduler.py:173`), after which
  the thread's second attempt in the same session fails too and is not logged
  (`maintenance.py:917-925`), leaves its row "running" with no run and no restart, until
  the schedule's next run.
* `Backups`: a restore started by POST `/user-restore` takes no
  `_restore_run_lock`, against the comment at `api/maintenance.py:1132`.
* `Sites`: a PATCH of several settings that is refused half way - a value, an owner who
  is not there (`websites.py:959-962`), a package without the WAF (`1055`) - has the
  earlier ones served and none recorded.
* `Sites`: a creation that cannot write the firewall's file (`websites.py:63-68`), or
  whose clean-up fails (`52-60`), leaves its folder, and answers an error that does not
  say so.
* `Sites`: where `cert_info` fails, `release_site_certificates` deletes a certificate that
  another website borrows (`ssl.py:226-234`), against "anything still covering a name
  this server hosts is left alone" (`ssl.py:186`); the borrower's file then fails
  `nginx -t` for every website.
* `Sites`: a move that fails after the folder has moved leaves the row pointing to
  where it was, against `websites.py:999-1003`; moving a suspended website writes
  its static file with the old root; a create whose reload fails leaves its file,
  and every later create of the name is answered 409; a failed create over a kept
  folder deletes that folder; an upload of a certificate whose reload fails takes
  the certificate away from under the new file, which fails `nginx -t` for every
  website; a website whose upload took the place of a borrowed certificate keeps
  `ssl_source_domain`, and whoever borrows from it then is given what it had borrowed
  (`websites.py:1625`); a website can end borrowing from itself, after which it can neither be
  deleted nor given a certificate; two requests on one name race, since no lock
  covers a website; an account may be deleted while a website is moved into it.
* `MalwareScans`: a schedule of hour 0 to 3 - the default of "websites" is 3 - fires
  again on its day when its scan ended by then, since 20 hours later it is still
  that weekday, against "this is not the same window firing twice"; the run's time
  on record is the tick's, not its own start; a page of the panel calls a
  scheduled scan "interrupted" while the scheduler runs it, and a page that
  straddles its end overwrites its result; `record_run` and `set_schedules` read
  leniently and write back, against "Nothing that writes may use this"
  (`panel_settings.py:69-70`), so a file that could not be read for a moment resets
  both schedules; a save that overlaps the record of a run takes it back.

## What is not modelled

What runs inside a handler (cloning, WP-CLI, archives), the text of every
configuration file, authorisation and path checks, the helper's shell, the
installer, the front end. `PROJECT.json` lists each component with its reason.
Times are not modelled, except where a name or a gap is made of them (`Backups`,
`MalwareScans`): an interval that has or has not passed is a choice, a timeout is a
step that may always be taken. Memory is sequentially consistent, which CPython's
interpreter lock gives the code; SQLite's transactions are single steps, and its
write lock is state where a transaction lasts (`Provisioning`, `Sites`).

Left out of the modules there are: in `GitOps` what git does to a checkout; in
`Provisioning` packages, a second website, and what the customer does to the website
on its own pages; in `Backups` restores, and what an
archive contains; in `Sites` the firewall's and the application's files, PHP pools,
redirects, subdomain rules, DNS, and a status set by PATCH, which writes the row and
no file; in `MalwareScans` the engine's installation, job
files that a full disk does not take, the progress readings of a scan, and notifications.

Of the components without a module, what is known to be hard is: a request that
renews the session while another logs it out answers with a token the logout did
not revoke (`api/auth.py`, `maybe_renew_session_cookie`), and a sign-in looks at
its limit and records its failure in two steps; a one-use token is read before it
is unlinked (`services/sso_tokens.py:106`); two clones are allowed onto one empty
website (`services/wp_extras.py:183`); `notify_watch` saves what it told after it
told it; a limit is checked and the change made in two steps, over disk
(`services/storage_quota.py:228`) as over websites; a restart loses the restores
that were queued. They are next in the plan.

## Plan

Done: the modules above, in the order of the inventory, and the proofs of what
they promise; of the original plan `Backups`, the settings file with its scans, and the
websites, which came before the sessions because most of the panel's requests are
theirs. Next, in this order:

1. `Sessions`: login, renewal, logout and "log out everywhere", impersonation, the
   token version and the revoked tokens; one-use tokens as files; the login
   limiter. Abstract specification: a revoked session is never accepted again; a
   one-use token is accepted once.
2. `Notifications`: `notify_watch`'s state against messages that left.
3. `Quotas`: checks of a limit and the change they allow, over concurrent
   requests; resellers' shares; the enforcement that follows.
4. Staging: what a clone and a push write, the account's staging folder, and the
   choice of a target, composed with `WpTasks`.
5. Composition: that `WpPoints`' tasks take turns, derived from what `WpTasks`
   implements.
