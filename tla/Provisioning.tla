----------------------------- MODULE Provisioning -----------------------------
(***************************************************************************)
(* One hosting account ordered through WHMCS (backend/app/api/               *)
(* provisioning.py, services/provisioning.py): its rows in the database and  *)
(* what the server has of it - the website's vhost, the Linux user.  Every   *)
(* call changes the server first and commits once, at its end; what a call   *)
(* that repeats an earlier one answers is read from the row alone.  The      *)
(* panel's own page deletes the user of the account as well                  *)
(* (api/users.py), and does not know of the account.  What the customer does *)
(* to the website on its own pages is not here (see Sites).                  *)
(*                                                                         *)
(* The order has a domain.  The account is the newest of its tables, so      *)
(* SQLite gives the ids of its deleted rows to the next ones, and an UPDATE  *)
(* by id finds whatever row has that id.                                     *)
(***************************************************************************)
EXTENDS Naturals

CONSTANTS
    Requests,     \* request threads
    None,
    Failures,     \* whether a helper call or a write of nginx's files may fail
    DbErrors,     \* whether SQLite may refuse a write at any time
    MaxCalls,     \* bound: calls
    MaxCrashes    \* bound: deaths of the panel's process

ASSUME ProvisioningConstants ==
    /\ None \notin Requests
    /\ Failures \in BOOLEAN /\ DbErrors \in BOOLEAN
    /\ MaxCalls \in Nat /\ MaxCrashes \in Nat

\* The calls of the billing system, and DELETE /api/users/{id} on the order's user.
Ops == {"create", "suspend", "unsuspend", "terminate", "delete"}

VARIABLES
    row,      \* the provisioning account's status, or "absent"
    linked,   \* whether its user_id is set
    gone,     \* history: the user it names was deleted by DELETE /api/users/{id}
    user,     \* the user's row: "none", "active", "inactive"
    site,     \* the website's row: "none", "active", "suspended"
    vhost,    \* the nginx file: "none", "live", "static"
    linux,    \* the Linux user: "none", "open", "locked"
    writer,   \* the request in a write transaction of SQLite, or None
    req,      \* Requests -> [pc, op, user, site]: the call, and what it read
    calls,
    crossed,  \* history: two calls were ever under way together
    crashes,
    stray,    \* history: a create that failed left its vhost
    done      \* history: the status the last call to change anything left behind,
              \* "nothing" from the first change of a call to its commit

db == <<row, linked, gone, user, site>>
server == <<vhost, linux>>
arrivals == <<calls, crossed>>
vars == <<row, linked, gone, user, site, vhost, linux, writer, req, calls, crossed, crashes, stray, done>>

Idle == [pc |-> "idle", op |-> "create", user |-> "none", site |-> "none"]

Init ==
    /\ row = "absent" /\ linked = FALSE /\ gone = FALSE /\ user = "none" /\ site = "none"
    /\ vhost = "none" /\ linux = "none"
    /\ writer = None
    /\ req = [q \in Requests |-> Idle]
    /\ calls = 0 /\ crossed = FALSE /\ crashes = 0 /\ stray = FALSE
    /\ done = "nothing"

\* The account's user, as the ORM follows user_id.
Owner == IF linked THEN user ELSE "none"

\* The id of a user who is gone, which SQLite may have given another customer.
Dangling == linked /\ user = "none"

At(q, pc, op) == req[q].pc = pc /\ req[q].op = op
Goto(q, pc) == req' = [req EXCEPT ![q].pc = pc]
Answer(q) == req' = [req EXCEPT ![q] = Idle]
MayWrite(q) == writer \in {None, q}
Release(q) == writer' = IF writer = q THEN None ELSE writer

-----------------------------------------------------------------------------
(* A call comes in, and reads what there is.                                *)

\* authenticate_token commits the token's last_used_at: while another request
\* holds the write transaction the call waits, and after five seconds fails.  The
\* panel's own page has no token.
Arrive(q, op) ==
    /\ req[q].pc = "idle" /\ calls < MaxCalls
    /\ op # "delete" => writer = None
    /\ calls' = calls + 1
    /\ crossed' = (crossed \/ \E r \in Requests \ {q} : req[r].pc # "idle")
    /\ req' = [req EXCEPT ![q] = [Idle EXCEPT !.pc = "asked", !.op = op]]
    /\ UNCHANGED <<db, server, writer, crashes, stray, done>>

\* create_account: an account with a user is returned as it is when active, and
\* its row deleted otherwise.
LookCreate(q) ==
    /\ At(q, "asked", "create")
    /\ \/ /\ row = "active" /\ (Owner # "none" \/ Dangling)
          /\ Answer(q)
       \/ /\ row # "active" \/ Owner = "none"
          /\ Goto(q, IF row = "absent" THEN "free" ELSE "stale")
    /\ UNCHANGED <<db, server, writer, arrivals, crashes, stray, done>>

\* suspend, unsuspend, terminate: unknown, already so, not in a state for it.
Look(q) ==
    /\ req[q].pc = "asked" /\ req[q].op \notin {"create", "delete"}
    /\ IF \/ req[q].op = "suspend" /\ row = "active"
          \/ req[q].op = "unsuspend" /\ row = "suspended"
          \/ req[q].op = "terminate" /\ row \notin {"absent", "terminated"}
       THEN Goto(q, "mine")
       ELSE Answer(q)
    /\ UNCHANGED <<db, server, writer, arrivals, crashes, stray, done>>

\* The user is read next - "other" is another customer, whose rows and websites
\* are not the model's.
ReadUser(q) ==
    /\ req[q].pc = "mine"
    /\ \E u \in IF Dangling THEN {"none", "other"} ELSE {Owner} :
          req' = [req EXCEPT ![q].user = u, ![q].pc = "owned"]
    /\ UNCHANGED <<db, server, writer, arrivals, crashes, stray, done>>

\* delete_user finds its user by the id asked for.
LookDelete(q) ==
    /\ At(q, "asked", "delete")
    /\ IF user = "none" THEN Answer(q) ELSE req' = [req EXCEPT ![q].user = user, ![q].pc = "owned"]
    /\ UNCHANGED <<db, server, writer, arrivals, crashes, stray, done>>

\* Then the user's websites: for terminate after a backup, minutes later.
ReadSites(q) ==
    /\ req[q].pc = "owned"
    /\ req' = [req EXCEPT ![q].pc = "gathered",
                          ![q].site = IF req[q].user \in {"none", "other"} THEN "none" ELSE site]
    /\ UNCHANGED <<db, server, writer, arrivals, crashes, stray, done>>

\* Without a user suspend and unsuspend have nothing to do.
NoUser(q) ==
    /\ req[q].pc = "gathered" /\ req[q].user = "none" /\ req[q].op # "terminate"
    /\ Answer(q)
    /\ UNCHANGED <<db, server, writer, arrivals, crashes, stray, done>>

-----------------------------------------------------------------------------
(* create_account                                                          *)

DropRow(q) ==
    /\ req[q].pc = "stale" /\ writer = None
    /\ row' = "absent" /\ linked' = FALSE /\ gone' = FALSE
    /\ done' = "nothing"
    /\ Goto(q, "free")
    /\ UNCHANGED <<user, site, server, writer, arrivals, crashes, stray>>

\* 409 when the username or the domain is taken, in the database or on disk.
Check(q) ==
    /\ req[q].pc = "free"
    /\ IF user # "none" \/ site # "none" \/ vhost # "none" THEN Answer(q) ELSE Goto(q, "checked")
    /\ UNCHANGED <<db, server, writer, arrivals, crashes, stray, done>>

\* The row, flushed: the write transaction begins.  external_id is unique.
Open(q) ==
    /\ req[q].pc = "checked" /\ writer = None
    /\ IF row # "absent" THEN Answer(q) /\ UNCHANGED writer
       ELSE Goto(q, "opened") /\ writer' = q
    /\ UNCHANGED <<db, server, arrivals, crashes, stray, done>>

\* The failed row is all that is committed.
GiveUp(q, withUser) ==
    /\ row' = "failed" /\ linked' = withUser
    /\ user' = IF withUser THEN "active" ELSE user
    /\ writer' = None
    /\ done' = "failed"
    /\ Answer(q)
    /\ UNCHANGED <<gone, site, arrivals, crashes>>

\* ensure_panel_user, with a new password, then the user's row: the username is
\* unique.
MakeUser(q) ==
    /\ req[q].pc = "opened"
    /\ linux' = "open"
    /\ IF user # "none" THEN Answer(q) /\ writer' = None
       ELSE Goto(q, "peopled") /\ UNCHANGED writer
    /\ done' = "nothing"
    /\ UNCHANGED <<db, vhost, arrivals, crashes, stray>>

MakeUserFails(q) ==
    /\ Failures /\ req[q].pc = "opened"
    /\ GiveUp(q, FALSE)
    /\ UNCHANGED <<server, stray>>

\* The site's runtime and its vhost, tested with nginx -t.
Publish(q) ==
    /\ req[q].pc = "peopled"
    /\ vhost' = "live"
    /\ Goto(q, "published")
    /\ done' = "nothing"
    /\ UNCHANGED <<db, linux, writer, arrivals, crashes, stray>>

\* The runtime fails, or nginx: what its test refuses is undone, what it will not
\* reload stays.  Without the WAF's file all is rolled back.
PublishFails(q) ==
    /\ Failures /\ req[q].pc = "peopled"
    /\ \/ /\ GiveUp(q, TRUE)
          /\ \/ UNCHANGED <<vhost, stray>>
             \/ vhost' = "live" /\ stray' = TRUE
       \/ /\ Answer(q) /\ Release(q)
          /\ UNCHANGED <<db, vhost, arrivals, crashes, stray, done>>
    /\ UNCHANGED linux

CommitCreate(q) ==
    /\ req[q].pc = "published"
    /\ row' = "active" /\ linked' = TRUE /\ user' = "active" /\ site' = "active"
    /\ writer' = None
    /\ done' = "active"
    /\ Answer(q)
    /\ UNCHANGED <<gone, server, arrivals, crashes, stray>>

-----------------------------------------------------------------------------
(* suspend_account and unsuspend_account                                    *)

Gathered(q, op) == At(q, "gathered", op) /\ req[q].user # "none"
Theirs(q) == req[q].user = "other"

\* delete_wordpress_vhost: the file goes; nginx may refuse to reload.
TakeOff(q) ==
    /\ Gathered(q, "suspend") /\ req[q].site # "none"
    /\ vhost' = "none"
    /\ Goto(q, "off") \/ (Failures /\ Answer(q))
    /\ done' = "nothing"
    /\ UNCHANGED <<db, linux, writer, arrivals, crashes, stray>>

\* Mutant: a refused static page is not noticed.
WriteStaticAnyway(q) ==
    /\ At(q, "off", "suspend")
    /\ Goto(q, "changed")
    /\ vhost' \in {"static", "none"}
    /\ linux' \in {linux, IF linux = "none" THEN "none" ELSE "locked"}
    /\ UNCHANGED <<db, writer, arrivals, crashes, stray, done>>

\* write_suspended_vhost, undone to what was there if nginx's test refuses it and
\* left if nginx will not reload; then lock_linux_user, whose failures nobody sees.
WriteStatic(q) ==
    /\ At(q, "off", "suspend")
    /\ \/ /\ vhost' = "static"
          /\ linux' \in {IF linux = "none" THEN "none" ELSE "locked"}
                          \cup (IF Failures THEN {linux} ELSE {})
          /\ Goto(q, "changed")
       \/ Failures /\ Answer(q) /\ vhost' \in {vhost, "static"} /\ UNCHANGED linux
    /\ done' = "nothing"
    /\ UNCHANGED <<db, writer, arrivals, crashes, stray>>

\* _unsuspend_website and unlock_linux_user, likewise.
PutOn(q) ==
    /\ Gathered(q, "unsuspend") /\ req[q].site # "none"
    /\ \/ /\ vhost' = "live"
          /\ linux' \in {IF linux = "none" THEN "none" ELSE "open"}
                          \cup (IF Failures THEN {linux} ELSE {})
          /\ Goto(q, "changed")
       \/ Failures /\ Answer(q) /\ vhost' \in {vhost, "live"} /\ UNCHANGED linux
    /\ done' = "nothing"
    /\ UNCHANGED <<db, writer, arrivals, crashes, stray>>

\* An UPDATE names only the columns that differ from what was read; one that
\* finds no row raises, and the transaction is rolled back.
Written(read, new, now) == IF read = new THEN now ELSE new
Lost(read, new, now, missing) == read # new /\ now = missing

\* The write of suspend always touches the user's row: token_version.
CommitSwitch(q, op, rowNew, userNew, siteNew) ==
    /\ \/ At(q, "changed", op)
       \/ Gathered(q, op) /\ req[q].site = "none"
    /\ MayWrite(q)
    /\ Answer(q)
    /\ IF \/ row = "absent"
          \/ user = "none" /\ ~Theirs(q) /\ (op = "suspend" \/ req[q].user # userNew)
          \/ req[q].site # "none" /\ Lost(req[q].site, siteNew, site, "none")
       THEN UNCHANGED <<row, user, site, done>>
       ELSE /\ row' = rowNew
            /\ user' = IF Theirs(q) THEN user ELSE Written(req[q].user, userNew, user)
            /\ site' = IF req[q].site = "none" THEN site ELSE Written(req[q].site, siteNew, site)
            /\ done' = rowNew
    /\ UNCHANGED <<linked, gone, server, writer, arrivals, crashes, stray>>

CommitSuspend(q) == CommitSwitch(q, "suspend", "suspended", "inactive", "suspended")
CommitUnsuspend(q) == CommitSwitch(q, "unsuspend", "active", "active", "active")

-----------------------------------------------------------------------------
(* terminate_account, delete_user                                          *)

\* Database, vhost, certificate and files go; each may fail, nginx may refuse
\* to reload.
TearDown(q) ==
    /\ \E op \in {"terminate", "delete"} : Gathered(q, op) /\ req[q].site # "none"
    /\ \/ vhost' = "none" /\ Goto(q, "torn")
       \/ Failures /\ vhost' \in {"none", vhost} /\ Answer(q)
    /\ done' = "nothing"
    /\ UNCHANGED <<db, linux, writer, arrivals, crashes, stray>>

\* forget_website, and delete_user's own sweep, delete rows: the write
\* transaction begins.
Forget(q) ==
    /\ req[q].pc = "torn" \/ (Gathered(q, "delete") /\ req[q].site = "none")
    /\ writer = None
    /\ writer' = q
    /\ Goto(q, "forgot")
    /\ UNCHANGED <<db, server, arrivals, crashes, stray, done>>

\* delete_panel_user, whose failures nobody sees.
RemoveLinux(q) ==
    /\ \/ req[q].pc = "forgot"
       \/ Gathered(q, "terminate") /\ req[q].site = "none"
    /\ linux' \in {IF Theirs(q) THEN linux ELSE "none"} \cup (IF Failures THEN {linux} ELSE {})
    /\ Goto(q, "changed")
    /\ done' = "nothing"
    /\ UNCHANGED <<db, vhost, writer, arrivals, crashes, stray>>

\* Mutant: the link to the user is not cleared.
CommitTerminateLinked(q) ==
    /\ At(q, "changed", "terminate") /\ MayWrite(q)
    /\ Answer(q) /\ Release(q)
    /\ row' = "terminated" /\ user' = "none" /\ site' = "none"
    /\ done' = "terminated"
    /\ UNCHANGED <<linked, gone, server, arrivals, crashes, stray>>

\* Rows of the user's that are deleted.  A website of the user's that was not read
\* cannot lose its owner; deleting rows that are gone already is no error,
\* updating a row that is gone is.
Spared(q) == req[q].user \in {"none", "other"}
Unread(q) == ~Spared(q) /\ req[q].site = "none" /\ site # "none"
DeleteRead(q) ==
    /\ user' = IF Spared(q) THEN user ELSE "none"
    /\ site' = IF req[q].site = "none" THEN site ELSE "none"

\* Mutant: the database is trusted to cascade, which SQLite here does not.
CommitTerminateForgetful(q) ==
    /\ \/ At(q, "changed", "terminate")
       \/ At(q, "gathered", "terminate") /\ req[q].user = "none"
    /\ MayWrite(q)
    /\ Answer(q) /\ Release(q)
    /\ IF row = "absent" THEN UNCHANGED <<db, done>>
       ELSE /\ row' = "terminated" /\ linked' = FALSE /\ gone' = FALSE
            /\ DeleteRead(q)
            /\ done' = "terminated"
    /\ UNCHANGED <<server, arrivals, crashes, stray>>

CommitTerminate(q) ==
    /\ \/ At(q, "changed", "terminate")
       \/ At(q, "gathered", "terminate") /\ req[q].user = "none"
    /\ MayWrite(q)
    /\ Answer(q) /\ Release(q)
    /\ IF row = "absent" \/ Unread(q) THEN UNCHANGED <<db, done>>
       ELSE /\ row' = "terminated" /\ linked' = FALSE /\ gone' = FALSE
            /\ DeleteRead(q)
            /\ done' = "terminated"
    /\ UNCHANGED <<server, arrivals, crashes, stray>>

\* The page deletes the user; the account goes on naming the id.
CommitDelete(q) ==
    /\ At(q, "changed", "delete") /\ MayWrite(q)
    /\ Answer(q) /\ Release(q)
    /\ IF Unread(q) THEN UNCHANGED <<gone, user, site>>
       ELSE DeleteRead(q) /\ gone' = (gone \/ linked)
    /\ UNCHANGED <<row, linked, server, arrivals, crashes, stray, done>>

-----------------------------------------------------------------------------
(* What goes wrong                                                         *)

\* Mutant: the refused request's session is left open.
RefusedHolding(q) ==
    /\ req[q].pc \in {"stale", "checked", "published", "changed", "torn"}
    /\ DbErrors \/ ~MayWrite(q)
    /\ Answer(q)
    /\ UNCHANGED <<db, server, writer, arrivals, crashes, stray, done>>

\* A write waits for another request's transaction and is refused, or the
\* database refuses it on its own account: rolled back, answered 500.
Refused(q) ==
    /\ req[q].pc \in {"stale", "checked", "peopled", "published", "changed", "torn", "forgot"}
       \/ (req[q].pc = "gathered" /\ (req[q].user = "none" \/ req[q].site = "none"))
    /\ DbErrors \/ ~MayWrite(q)
    /\ Answer(q) /\ Release(q)
    /\ UNCHANGED <<db, server, arrivals, crashes, stray, done>>

\* The panel's process dies: open transactions are rolled back.
Crash ==
    /\ crashes < MaxCrashes
    /\ crashes' = crashes + 1
    /\ req' = [q \in Requests |-> Idle]
    /\ writer' = None
    /\ UNCHANGED <<db, server, arrivals, stray, done>>

Create(q) ==
    LookCreate(q) \/ DropRow(q) \/ Check(q) \/ Open(q) \/ MakeUser(q) \/ MakeUserFails(q)
      \/ Publish(q) \/ PublishFails(q) \/ CommitCreate(q)
Suspend(q) == TakeOff(q) \/ WriteStatic(q) \/ CommitSuspend(q)
Unsuspend(q) == PutOn(q) \/ CommitUnsuspend(q)
Terminate(q) == TearDown(q) \/ Forget(q) \/ RemoveLinux(q) \/ CommitTerminate(q) \/ CommitDelete(q)

Next ==
    \/ \E q \in Requests :
          \/ \E op \in Ops : Arrive(q, op)
          \/ Look(q) \/ LookDelete(q) \/ ReadUser(q) \/ ReadSites(q) \/ NoUser(q)
          \/ Create(q) \/ Suspend(q) \/ Unsuspend(q) \/ Terminate(q) \/ Refused(q)
    \/ Crash

Spec == Init /\ [][Next]_vars

-----------------------------------------------------------------------------
(* Properties                                                              *)

InTransaction(q) ==
    \/ req[q].pc \in {"opened", "peopled", "published", "forgot"}
    \/ At(q, "changed", "terminate") /\ req[q].site # "none"
    \/ At(q, "changed", "delete")

\* Every variable has its type, and only creates and terminations hold the
\* write transaction across their steps.
TypeOK ==
    /\ row \in {"absent", "active", "suspended", "failed", "terminated"}
    /\ linked \in BOOLEAN /\ gone \in BOOLEAN
    /\ user \in {"none", "active", "inactive"}
    /\ site \in {"none", "active", "suspended"}
    /\ vhost \in {"none", "live", "static"}
    /\ linux \in {"none", "open", "locked"}
    /\ writer \in Requests \cup {None}
    /\ \A q \in Requests : writer = q <=> InTransaction(q)
    /\ req \in [Requests -> [pc : {"idle", "asked", "mine", "owned", "gathered", "stale", "free", "checked",
                                   "opened", "peopled", "published", "off", "changed", "torn", "forgot"},
                             op : Ops, user : {"none", "active", "inactive", "other"},
                             site : {"none", "active", "suspended"}]]
    /\ calls \in 0..MaxCalls /\ crossed \in BOOLEAN /\ crashes \in 0..MaxCrashes /\ stray \in BOOLEAN
    /\ done \in {"nothing", "active", "suspended", "failed", "terminated"}

\* Whatever crosses, no website is left without its owner, and the account names a
\* user that is gone only when the panel's own page deleted it: SQLite enforces
\* neither.
NoOrphans == (linked => user # "none" \/ gone) /\ (site # "none" => user # "none")

\* As long as no two calls were under way together, the three rows say the same
\* of the account, after whatever failures, refusals, crashes and retries - or the
\* user and the website are gone, deleted on the panel's own page.
RowsAgree == ~crossed =>
    /\ row = "active" => linked /\ IF gone THEN user = "none" /\ site = "none"
                                   ELSE user = "active" /\ site = "active"
    /\ row = "suspended" => linked /\ IF gone THEN user = "none" /\ site = "none"
                                      ELSE user = "inactive" /\ site = "suspended"
    /\ row = "failed" => site = "none"
    /\ row = "terminated" => ~linked /\ user = "none" /\ site = "none"

\* As long as no two calls were under way together, a call that changed the
\* server and was answered without an error left the rows and nginx saying what
\* it was asked for - if the account's user was still there, and but for the vhost
\* of a create that failed, which a termination does not find.
DoneIsTrue == ~crossed =>
    /\ done = "active" => row = "active" /\ (vhost = "live" \/ gone)
    /\ done = "suspended" => row = "suspended" /\ (vhost = "static" \/ gone)
    /\ done = "terminated" => row = "terminated" /\ (vhost = "none" \/ stray)

\* "Idempotent by external_id (an existing, non-terminated account is returned
\* as-is)": a create leaves the row of an existing account there.
CreateKeepsTheRow == [][(row \in {"active", "suspended"}) => row' # "absent"]_row
=============================================================================
