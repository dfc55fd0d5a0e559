-------------------------------- MODULE Sites --------------------------------
(***************************************************************************)
(* The websites of the server (backend/app/api/websites.py, the suspension   *)
(* of accounts in api/users.py, and below them services/nginx.py, ssl.py and *)
(* site_users.py): the rows and aliases of the database, the vhosts nginx    *)
(* reads, the folders in their owners' homes and the certificates.           *)
(*                                                                         *)
(* No lock covers a website.  A request reads its row, changes files step by *)
(* step and commits at its end; `nginx -t` looks at the files of every       *)
(* website at once, so what one request writes fails another's test.         *)
(***************************************************************************)
EXTENDS FiniteSets, Naturals

CONSTANTS
    Names,         \* hostnames
    Owners,        \* accounts, each with a home folder
    Procs,         \* request threads
    None,
    MaxRequests    \* bound: requests

ASSUME SitesConstants ==
    /\ None \notin Names \cup Owners \cup Procs
    /\ MaxRequests \in Nat

VARIABLES
    accounts,   \* the accounts there are
    row,        \* Names -> the committed row of the website, or None
    aliasOf,    \* Names -> the website it is a committed alias of, or None
    vhost,      \* Names -> the nginx file, or None
    files,      \* <<owner, name>>: the site folders that exist
    certs,      \* <<name, kind>>: the certificates on disk
    proc,       \* Procs -> the request it serves
    lock,       \* the request in a write transaction of SQLite, or None
    requests,   \* how many requests have come
    kept,       \* history: the folders left behind on request
    spoiled     \* history: the names two requests were at together, whose request
                \* failed past what it undoes, or whose certificate went blindly

disk == <<vhost, files, certs>>
db == <<accounts, row, aliasOf>>
vars == <<accounts, row, aliasOf, vhost, files, certs, proc, lock, requests, kept, spoiled>>

\* One setting stands for PHP version, mode, document root and rewrite mode;
\* "refused" is one the panel accepts and nginx does not.
Settings == {"s1", "s2", "refused"}
Rows == [owner : Owners, status : {"active", "suspended"}, setting : Settings,
         ssl : {"none", "letsencrypt", "manual", "shared"}, source : Names \cup {None}]
Vhosts == [mode : {"full", "static"}, home : Owners, setting : Settings, aliases : SUBSET Names,
           cert : (Names \X {"letsencrypt", "manual"}) \cup {None}]

ASSUME NoneIsNoRecord == None \notin Rows \cup Vhosts \cup (Names \X {"letsencrypt", "manual"})

\* `had`: an upload replaces an uploaded certificate; a part of a change of the
\* row is in effect already.
Plain(o) == [owner |-> o, status |-> "active", setting |-> "s1", ssl |-> "none", source |-> None]
Idle == [op |-> "idle", pc |-> "idle", site |-> None, arg |-> None, r |-> None, old |-> None,
         bare |-> FALSE, had |-> FALSE, todo |-> {}, names |-> {}, loaded |-> None]

AliasesOf(d) == {n \in Names : aliasOf[n] = d}
SitesOf(o) == {d \in Names : row[d] # None /\ row[d].owner = o}
Dependents(d) == {n \in Names : row[n] # None /\ row[n].ssl = "shared" /\ row[n].source = d}

\* cert_info looks for certbot's lineage first; an uploaded certificate is taken
\* to cover every name, certbot's its own.
HasCert(d) == {<<d, "letsencrypt">>, <<d, "manual">>} \cap certs # {}
Covers(d) == IF <<d, "letsencrypt">> \in certs THEN {d} ELSE IF HasCert(d) THEN Names ELSE {}
Borrowed(d) == <<d, IF <<d, "manual">> \in certs THEN "manual" ELSE "letsencrypt">>

\* What a full rewrite puts into the file: the row's own certificate or the one
\* it borrows, and otherwise whatever the file has now.
CertFor(d, r) ==
    CASE r.ssl = "manual" -> <<d, "manual">>
      [] r.ssl = "shared" -> Borrowed(r.source)
      [] OTHER -> IF vhost[d] = None THEN None ELSE vhost[d].cert
Full(d, r, als) ==
    [mode |-> "full", home |-> r.owner, setting |-> r.setting, aliases |-> als, cert |-> CertFor(d, r)]
Static(r) ==
    [mode |-> "static", home |-> r.owner, setting |-> r.setting, aliases |-> {}, cert |-> None]

\* `nginx -t` over every file.
GoodFile(v) == v.setting # "refused" /\ v.cert \in certs \cup {None}
NginxOk == \A d \in Names : vhost[d] # None => GoodFile(vhost[d])

\* Two requests are at one website, or one borrows the certificate the other
\* replaces, or one puts a website into the account the other deletes.
Patches == {"update", "transfer"}
Undermines(q, s) ==
    \/ q.op \in {"ssl", "manual"} /\ s.op = "share" /\ s.arg = q.site
    \/ q.op = "remove" /\ s.op = "transfer" /\ s.arg = q.arg
    \/ q.op = "remove" /\ s.op \in Patches \cup {"create"} /\ s.r.owner = q.arg
Meets(q, s) == q.names \cap s.names # {} \/ Undermines(q, s) \/ Undermines(s, q)
Crossed(p, q) == UNION {q.names \cup proc[s].names : s \in {s \in Procs \ {p} : Meets(q, proc[s])}}

At(p, pc) == proc[p].pc = pc
Goto(p, pc) == proc' = [proc EXCEPT ![p].pc = pc]
MayWrite(p) == lock \in {None, p}
\* A mutant: only a commit ends the transaction.
ReleaseByCommit(p) == lock' = IF lock = p /\ At(p, "commit") THEN None ELSE lock
Release(p) == lock' = IF lock = p THEN None ELSE lock
\* The request is over: the session closes, and what it had not committed goes.
Finish(p) == proc' = [proc EXCEPT ![p] = Idle] /\ Release(p)
Spoil(p) == spoiled' = spoiled \cup proc[p].names

Init ==
    /\ accounts = Owners
    /\ \E d \in Names, o \in Owners, s \in {"none", "letsencrypt", "manual"}, others \in SUBSET Names :
        /\ d \notin others
        /\ row = [n \in Names |-> IF n = d THEN [Plain(o) EXCEPT !.ssl = s]
                                  ELSE IF n \in others THEN Plain(o) ELSE None]
        /\ certs = IF s = "none" THEN {} ELSE {<<d, s>>}
        /\ files = {<<o, n>> : n \in others \cup {d}}
        /\ vhost = [n \in Names |->
                        IF row[n] = None THEN None
                        ELSE [mode |-> "full", home |-> o, setting |-> "s1", aliases |-> {},
                              cert |-> IF n = d /\ s # "none" THEN <<d, s>> ELSE None]]
    /\ aliasOf = [n \in Names |-> None]
    /\ proc = [p \in Procs |-> Idle]
    /\ lock = None /\ requests = 0 /\ kept = {} /\ spoiled = {}

-----------------------------------------------------------------------------
(* A request comes in, reads the row, and is checked.                       *)

Begin(p, q) ==
    /\ At(p, "idle") /\ requests < MaxRequests
    /\ requests' = requests + 1
    /\ proc' = [proc EXCEPT ![p] = q]
    /\ spoiled' = spoiled \cup Crossed(p, q)
    /\ UNCHANGED <<db, disk, lock, kept>>

On(d, op, pc, arg) ==
    [Idle EXCEPT !.op = op, !.pc = pc, !.site = d, !.arg = arg, !.r = row[d], !.names = {d},
                 !.loaded = IF op \in Patches THEN [n \in {d} |-> row[n]] ELSE None]

\* _hostname_conflicts: no website has the name, no alias, and for a website no
\* file is left of it.
Taken(n) == row[n] # None \/ aliasOf[n] # None

Create(p) == \E n \in Names, o \in accounts :
    /\ ~Taken(n) /\ vhost[n] = None
    /\ Begin(p, [On(n, "create", "runtime", None) EXCEPT !.r = Plain(o)])

AddAlias(p) == \E d \in Names, n \in Names :
    /\ row[d] # None /\ n # d /\ ~Taken(n)
    /\ Begin(p, [On(d, "alias", "flush", n) EXCEPT !.names = {d, n}])

RemoveAlias(p) == \E d \in Names, n \in Names :
    /\ row[d] # None /\ aliasOf[n] = d
    /\ Begin(p, [On(d, "unalias", "flush", n) EXCEPT !.names = {d, n}])

\* A change of the row names settings, an owner or both.  Each part has a rewrite
\* and a reload of its own, one after the other (see Further).
Update(p) == \E d \in Names, s \in Settings :
    /\ row[d] # None /\ s # row[d].setting
    /\ Begin(p, On(d, "update", "runtime", s))

Transfer(p) == \E d \in Names, o \in accounts :
    /\ row[d] # None /\ o # row[d].owner
    /\ Begin(p, On(d, "transfer", "move", o))

\* fix_nginx_security, and the updater's refresh of every website.
Refresh(p) == \E d \in Names :
    row[d] # None /\ Begin(p, On(d, "refresh", "write", None))

\* A website whose certificate others borrow stays; its folder may be kept.
Delete(p) == \E d \in Names, what \in {"all", "keep folder"} :
    /\ row[d] # None /\ Dependents(d) = {}
    /\ Begin(p, On(d, "delete", "flush", what))

InstallManual(p) == \E d \in Names :
    /\ row[d] # None /\ Dependents(d) = {}
    /\ Begin(p, On(d, "manual", "install", None))

\* An uploaded certificate leaves the file before certbot comes.
EnableSsl(p) == \E d \in Names :
    /\ row[d] # None /\ Dependents(d) = {}
    /\ Begin(p, IF row[d].ssl = "manual" THEN [On(d, "ssl", "write", None) EXCEPT !.bare = TRUE]
                ELSE On(d, "ssl", "issue", None))

InstallShared(p) == \E d \in Names, s \in Names :
    /\ row[d] # None /\ Dependents(d) = {}
    /\ s # d /\ row[s] # None
    /\ LET cert == IF row[s].source # None THEN row[s].source ELSE s IN
        /\ d \in Covers(cert)
        /\ Begin(p, [On(d, "share", "write", cert) EXCEPT !.r.ssl = "shared", !.r.source = cert])

\* Suspending, unsuspending or deleting an account goes through its websites,
\* read at once; that others borrow from them does not keep an account.
Account(p, op, pc, status) == \E o \in accounts : \E d \in SitesOf(o) :
    Begin(p, [On(d, op, pc, o) EXCEPT !.r.status = status, !.todo = SitesOf(o) \ {d},
                                      !.names = SitesOf(o), !.loaded = [n \in SitesOf(o) |-> row[n]]])
Suspend(p) == Account(p, "suspend", "unlink", "suspended")
Unsuspend(p) == Account(p, "unsuspend", "runtime", "active")
Remove(p) == Account(p, "remove", "unlink", "active")

\* On to the next of the account's websites.
NextSite(p) ==
    LET q == proc[p] IN
    \E d \in q.todo :
        proc' = [proc EXCEPT ![p].site = d, ![p].todo = @ \ {d},
                             ![p].pc = IF q.op = "unsuspend" THEN "runtime" ELSE "unlink",
                             ![p].r = [q.loaded[d] EXCEPT !.status = q.r.status]]

-----------------------------------------------------------------------------
(* Writing a vhost: the file, nginx's test, the reload.                     *)

\* A mutant: whoever rewrites the file of a suspended website puts it back on.
WrittenAnyway(q) ==
    IF q.op = "suspend" THEN Static(q.r)
    ELSE [Full(q.site, q.r, AliasesOf(q.site)) EXCEPT !.setting = IF q.op = "update" THEN q.arg ELSE @]

\* What the request has nginx serve.  A suspended website gets the static file
\* whatever is asked, from its row alone.
Written(q) ==
    LET d == q.site
        als == CASE q.op = "alias" -> AliasesOf(d) \cup {q.arg}
                 [] q.op = "unalias" -> AliasesOf(d) \ {q.arg}
                 [] q.op = "create" -> {}
                 [] OTHER -> AliasesOf(d) IN
    IF q.r.status = "suspended" THEN Static(q.r)
    ELSE CASE q.op = "update" -> [Full(d, q.r, als) EXCEPT !.setting = q.arg]
           [] q.op = "transfer" -> [Full(d, q.r, als) EXCEPT !.home = q.arg]
           [] q.bare -> [Full(d, q.r, als) EXCEPT !.cert = None]
           [] OTHER -> Full(d, q.r, als)

WriteVhost(p) ==
    LET q == proc[p] IN
    /\ At(p, "write")
    /\ vhost' = [vhost EXCEPT ![q.site] = Written(q)]
    /\ proc' = [proc EXCEPT ![p].pc = "test", ![p].old = vhost[q.site]]
    /\ UNCHANGED <<db, files, certs, lock, requests, kept, spoiled>>

TestPasses(p) ==
    /\ At(p, "test") /\ NginxOk
    /\ proc' = [proc EXCEPT ![p].pc = "reload", ![p].old = None]
    /\ UNCHANGED <<db, disk, lock, requests, kept, spoiled>>

\* A mutant: the folder of a website that was not created stays.
CleanUpNoFolder(p, removed) == UNCHANGED <<files, certs>>

\* What a failing request takes back of its own: an upload the certificate files,
\* a create its folder, but that may fail and nobody is told.
CleanUp(p, removed) ==
    LET q == proc[p]
        folder == {<<q.r.owner, q.site>>} IN
    /\ files' = IF q.op # "create" THEN files ELSE IF removed THEN files \ folder ELSE files \cup folder
    /\ certs' = IF q.op = "manual" /\ ~q.had THEN certs \ {<<q.site, "manual">>} ELSE certs

\* What is changed by then and stays so: an earlier part of a change of the row, a
\* folder that moved, the account's other websites, the certificate taken out of
\* the file.
PastReturn(q) ==
    \/ q.op \in {"transfer", "suspend", "unsuspend"} \/ (q.op = "update" /\ q.had)
    \/ q.op = "ssl" /\ ~q.bare
SpoilIf(p, cond) == IF cond THEN Spoil(p) ELSE UNCHANGED spoiled
Fails(p, removed) ==
    /\ CleanUp(p, removed) /\ Finish(p)
    /\ SpoilIf(p, PastReturn(proc[p]) \/ (proc[p].op = "create" /\ ~removed))

\* A mutant: the file stays as written.
TestFailsKeeps(p) ==
    /\ At(p, "test") /\ \E removed \in BOOLEAN : Fails(p, removed)
    /\ UNCHANGED <<db, vhost, requests, kept>>

\* The test fails, for a file nginx refuses or because the helper does: the file
\* is put back as it was.
TestFails(p) ==
    LET q == proc[p] IN
    /\ At(p, "test")
    /\ vhost' = [vhost EXCEPT ![q.site] = q.old]
    /\ \E removed \in BOOLEAN : Fails(p, removed)
    /\ UNCHANGED <<db, requests, kept>>

\* Where a request goes when nginx serves what it wrote.
Served(p) ==
    LET q == proc[p] IN
    CASE q.op = "manual" -> Goto(p, "resync")
      [] q.op = "ssl" /\ q.bare -> Goto(p, "issue")
      [] q.op \in {"suspend", "unsuspend"} /\ q.todo # {} -> NextSite(p)
      [] OTHER -> Goto(p, "commit")

Reload(p) ==
    /\ At(p, "reload") /\ NginxOk
    /\ IF proc[p].op = "ssl" /\ ~proc[p].bare THEN Finish(p) ELSE Served(p) /\ UNCHANGED lock
    /\ UNCHANGED <<db, disk, requests, kept, spoiled>>

\* Between the test and the reload another request wrote what nginx refuses, and
\* the helper's own test stops the reload, or it fails itself: the new file stays.
ReloadFails(p) ==
    /\ At(p, "reload") /\ \E removed \in BOOLEAN : CleanUp(p, removed)
    /\ Finish(p) /\ Spoil(p)
    /\ UNCHANGED <<db, vhost, requests, kept>>

-----------------------------------------------------------------------------
(* The other steps.                                                         *)

\* The folder and its PHP pool, made if they are not there.
Runtime(p) ==
    LET q == proc[p] IN
    /\ At(p, "runtime")
    /\ files' = files \cup {<<q.r.owner, q.site>>}
    /\ Goto(p, "write")
    /\ UNCHANGED <<db, vhost, certs, lock, requests, kept, spoiled>>

RuntimeFails(p) ==
    /\ At(p, "runtime") /\ \E removed \in BOOLEAN : Fails(p, removed)
    /\ UNCHANGED <<db, vhost, requests, kept>>

\* The firewall's rules cannot be written.  A new website's folder stays, as no
\* handler of create_website is for the error that says so.
RulesRefused(p) ==
    /\ At(p, "write")
    /\ proc[p].op \in Patches \cup {"create", "manual", "share", "refresh"}
    /\ Fails(p, FALSE)
    /\ UNCHANGED <<db, vhost, requests, kept>>

\* The helper moves the folder to the new owner's home unless there is one.
Move(p) ==
    LET q == proc[p] IN
    /\ At(p, "move")
    /\ <<q.r.owner, q.site>> \in files /\ <<q.arg, q.site>> \notin files
    /\ files' = (files \ {<<q.r.owner, q.site>>}) \cup {<<q.arg, q.site>>}
    /\ Goto(p, "write")
    /\ UNCHANGED <<db, vhost, certs, lock, requests, kept, spoiled>>

MoveRefused(p) ==
    /\ At(p, "move") /\ Finish(p) /\ SpoilIf(p, proc[p].had)
    /\ UNCHANGED <<db, disk, requests, kept>>

\* The row as the request has it, with the part it is at.
Changed(q) ==
    CASE q.op = "update" -> [q.r EXCEPT !.setting = q.arg]
      [] q.op = "transfer" -> [q.r EXCEPT !.owner = q.arg]

\* The next part of a change of the row, before anything of it is committed: a
\* setting, or once another owner.
Further(p) ==
    LET q == proc[p]
        r == Changed(q)
        part(op, pc, arg) == [q EXCEPT !.op = op, !.pc = pc, !.arg = arg, !.r = r, !.had = TRUE]
        go(n) == proc' = [proc EXCEPT ![p] = n] /\ spoiled' = spoiled \cup Crossed(p, n) IN
    /\ At(p, "commit") /\ q.op \in Patches
    /\ \/ \E s \in Settings \ {r.setting} : go(part("update", "runtime", s))
       \/ /\ r.owner = q.loaded[q.site].owner
          /\ \E o \in accounts \ {r.owner} : go(part("transfer", "move", o))
    /\ UNCHANGED <<db, disk, lock, requests, kept>>

\* It is refused, for its value or for rights and limits asked after only now:
\* nginx serves what the earlier parts wrote, and the row is as it was.
PartRefused(p) ==
    /\ At(p, "commit") /\ proc[p].op \in Patches
    /\ Finish(p) /\ Spoil(p)
    /\ UNCHANGED <<db, disk, requests, kept>>

\* The first statement that writes opens SQLite's write transaction, held until
\* the request commits or ends.
Flush(p) ==
    LET q == proc[p] IN
    /\ At(p, "flush") /\ MayWrite(p)
    /\ q.op = "alias" => aliasOf[q.arg] = None
    /\ lock' = p
    /\ Goto(p, CASE q.op = "delete" -> "unlink" [] q.op = "remove" -> "home" [] OTHER -> "write")
    /\ UNCHANGED <<db, disk, requests, kept, spoiled>>

\* Somebody else writes for longer than SQLite waits, or took the name.
FlushFails(p) ==
    /\ At(p, "flush")
    /\ ~MayWrite(p) \/ (proc[p].op = "alias" /\ aliasOf[proc[p].arg] # None)
    /\ Finish(p)
    /\ IF proc[p].op = "remove" THEN Spoil(p) ELSE UNCHANGED spoiled
    /\ UNCHANGED <<db, disk, requests, kept>>

Unlink(p) ==
    /\ At(p, "unlink")
    /\ vhost' = [vhost EXCEPT ![proc[p].site] = None]
    /\ Goto(p, "unlinked")
    /\ UNCHANGED <<db, files, certs, lock, requests, kept, spoiled>>

ReloadUnlinked(p) ==
    /\ At(p, "unlinked") /\ NginxOk
    /\ Goto(p, IF proc[p].op = "suspend" THEN "write" ELSE "release")
    /\ UNCHANGED <<db, disk, lock, requests, kept, spoiled>>

UnlinkedFails(p) ==
    /\ At(p, "unlinked")
    /\ Finish(p) /\ Spoil(p)
    /\ UNCHANGED <<db, disk, requests, kept>>

\* A mutant: only aliases are asked after, not the other websites.
StillAliased(d) == \E n \in Covers(d) \ {d} : aliasOf[n] \notin {None, d}

\* release_site_certificates: what still covers another name of the server stays,
\* and so does what certbot does not delete.
StillUsed(d) == \E n \in Covers(d) \ {d} : row[n] # None \/ aliasOf[n] \notin {None, d}
OwnGone(d) == certs \ ({d} \X {"letsencrypt", "manual"})
ReleaseCerts(p) ==
    LET d == proc[p].site IN
    /\ At(p, "release")
    /\ certs' \in IF StillUsed(d) THEN {certs} ELSE {certs, OwnGone(d)}
    /\ Goto(p, "files")
    /\ UNCHANGED <<db, vhost, files, lock, requests, kept, spoiled>>

\* cert_info fails and names nothing, so that nothing counts as covered: the
\* certificate goes, whoever borrows it or is about to.
Borrowers(d) ==
    Dependents(d) \cup UNION {proc[s].names : s \in {s \in Procs : proc[s].op = "share" /\ proc[s].arg = d}}
ReleaseBlind(p) ==
    LET d == proc[p].site IN
    /\ At(p, "release") /\ StillUsed(d)
    /\ certs' = OwnGone(d)
    /\ spoiled' = spoiled \cup (Borrowers(d) \ {d})
    /\ Goto(p, "files")
    /\ UNCHANGED <<db, vhost, files, lock, requests, kept>>

RemoveFiles(p) ==
    LET q == proc[p]
        folder == <<q.r.owner, q.site>> IN
    /\ At(p, "files")
    /\ IF q.arg = "keep folder" THEN kept' = kept \cup {folder} /\ UNCHANGED files
       ELSE files' = files \ {folder} /\ UNCHANGED kept
    /\ IF q.op = "delete" THEN Goto(p, "commit")
       ELSE IF q.todo # {} THEN NextSite(p) ELSE Goto(p, "flush")
    /\ UNCHANGED <<db, vhost, certs, lock, requests, spoiled>>

\* The account's Linux user goes, with the home and what is in it.
RemoveHome(p) ==
    /\ At(p, "home")
    /\ files' = files \ ({proc[p].arg} \X Names)
    /\ Goto(p, "commit")
    /\ UNCHANGED <<db, vhost, certs, lock, requests, kept, spoiled>>

\* The folder cannot be removed, the flood zones cannot be written, or userdel
\* refuses: everything is gone up to there but the rows.
DeleteRefused(p) ==
    /\ At(p, "files") \/ At(p, "home") \/ (At(p, "commit") /\ proc[p].op = "delete")
    /\ Finish(p) /\ Spoil(p)
    /\ UNCHANGED <<db, disk, requests, kept>>

InstallFiles(p) ==
    LET c == <<proc[p].site, "manual">> IN
    /\ At(p, "install")
    /\ certs' = certs \cup {c}
    /\ proc' = [proc EXCEPT ![p].pc = "write", ![p].had = c \in certs, ![p].r.ssl = "manual"]
    /\ UNCHANGED <<db, vhost, files, lock, requests, kept, spoiled>>

\* certbot gets the certificate and puts it into the file; an uploaded one goes.
Issue(p) ==
    LET q == proc[p]
        c == <<q.site, "letsencrypt">> IN
    /\ At(p, "issue") /\ vhost[q.site] # None /\ NginxOk
    /\ vhost' = [vhost EXCEPT ![q.site].cert = c]
    /\ certs' = (certs \cup {c}) \ (IF q.r.ssl = "manual" THEN {<<q.site, "manual">>} ELSE {})
    /\ proc' = [proc EXCEPT ![p].pc = "resync", ![p].r.ssl = "letsencrypt", ![p].r.source = None]
    /\ UNCHANGED <<db, files, lock, requests, kept, spoiled>>

\* It fails, before or after it has the certificate: an uploaded one comes back.
IssueFails(p) ==
    LET q == proc[p] IN
    /\ At(p, "issue")
    /\ certs' \in {certs, certs \cup {<<q.site, "letsencrypt">>}}
    /\ IF q.bare THEN proc' = [proc EXCEPT ![p].pc = "write", ![p].bare = FALSE] /\ UNCHANGED lock
       ELSE Finish(p)
    /\ UNCHANGED <<db, vhost, files, requests, kept, spoiled>>

\* Every borrower's file is written again, each with a test of its own; one that
\* nginx refuses is put back.
Resync(p) ==
    LET new(n) == IF row[n].status = "suspended" THEN Static(row[n]) ELSE Full(n, row[n], AliasesOf(n)) IN
    /\ At(p, "resync")
    /\ vhost' = [n \in Names |->
                    IF /\ n \in Dependents(proc[p].site) /\ GoodFile(new(n))
                       /\ \A m \in Names \ {n} : vhost[m] # None => GoodFile(vhost[m])
                    THEN new(n) ELSE vhost[n]]
    /\ Goto(p, "commit")
    /\ UNCHANGED <<db, files, certs, lock, requests, kept, spoiled>>

-----------------------------------------------------------------------------
(* The commit writes the columns the request changed.                       *)

Recorded(q) ==
    LET d == q.site IN
    CASE q.op = "create" -> [row EXCEPT ![d] = q.r]
      [] q.op \in Patches ->
            LET r == Changed(q) IN
            [row EXCEPT ![d].setting = IF r.setting # q.loaded[d].setting THEN r.setting ELSE @,
                        ![d].owner = IF r.owner # q.loaded[d].owner THEN r.owner ELSE @]
      [] q.op \in {"manual", "ssl", "share"} -> [row EXCEPT ![d].ssl = q.r.ssl, ![d].source = q.r.source]
      [] q.op \in {"delete", "remove"} -> [n \in Names |-> IF n \in q.names THEN None ELSE row[n]]
      [] q.op \in {"suspend", "unsuspend"} ->
            [n \in Names |-> IF n \in q.names /\ q.loaded[n].status # q.r.status
                             THEN [row[n] EXCEPT !.status = q.r.status] ELSE row[n]]
      [] OTHER -> row

\* The domain is unique, and an UPDATE has to find its row.
RowFits(q) ==
    CASE q.op = "create" -> row[q.site] = None
      [] q.op \in {"alias", "unalias", "refresh", "delete", "remove"} -> TRUE
      [] OTHER -> \A n \in q.names : row[n] # None

Commit(p) ==
    LET q == proc[p] IN
    /\ At(p, "commit") /\ MayWrite(p) /\ RowFits(q)
    /\ row' = Recorded(q)
    /\ accounts' = IF q.op = "remove" THEN accounts \ {q.arg} ELSE accounts
    /\ aliasOf' = CASE q.op = "alias" -> [aliasOf EXCEPT ![q.arg] = q.site]
                    [] q.op = "unalias" -> [aliasOf EXCEPT ![q.arg] = None]
                    [] q.op \in {"delete", "remove"} ->
                            [n \in Names |-> IF aliasOf[n] \in q.names THEN None ELSE aliasOf[n]]
                    [] OTHER -> aliasOf
    /\ Finish(p)
    /\ UNCHANGED <<disk, requests, kept, spoiled>>

\* SQLite is locked for longer than it waits, or the row does not fit: nginx and
\* the folders are as changed, the row as it was.
CommitFails(p) ==
    LET q == proc[p] IN
    /\ At(p, "commit")
    /\ ~MayWrite(p) \/ ~RowFits(q)
    /\ Finish(p) /\ Spoil(p)
    /\ UNCHANGED <<db, disk, requests, kept>>

Start(p) ==
    \/ Create(p) \/ AddAlias(p) \/ RemoveAlias(p) \/ Update(p) \/ Transfer(p) \/ Delete(p)
    \/ InstallManual(p) \/ EnableSsl(p) \/ InstallShared(p) \/ Suspend(p) \/ Unsuspend(p)
    \/ Refresh(p) \/ Remove(p)

Step(p) ==
    \/ WriteVhost(p) \/ TestPasses(p) \/ TestFails(p) \/ Reload(p) \/ ReloadFails(p)
    \/ Runtime(p) \/ RuntimeFails(p) \/ Move(p) \/ MoveRefused(p) \/ RulesRefused(p)
    \/ Further(p) \/ PartRefused(p) \/ ReleaseBlind(p)
    \/ Flush(p) \/ FlushFails(p) \/ Unlink(p) \/ ReloadUnlinked(p) \/ UnlinkedFails(p)
    \/ ReleaseCerts(p) \/ RemoveFiles(p) \/ RemoveHome(p) \/ DeleteRefused(p) \/ InstallFiles(p)
    \/ Issue(p) \/ IssueFails(p) \/ Resync(p) \/ Commit(p) \/ CommitFails(p)

Next == \E p \in Procs : Start(p) \/ Step(p)

Spec == Init /\ [][Next]_vars

-----------------------------------------------------------------------------
(* Properties.  A name is at rest when no request is at it, and its state is  *)
(* sound unless requests were at it together or one failed past its undo.   *)

AtRest(d) == \A p \in Procs : d \notin proc[p].names
Sound(d) == d \notin spoiled

\* Every variable has its type, and SQLite's write transaction is held only by
\* a request that opened one and has not ended.
TypeOK ==
    /\ accounts \subseteq Owners
    /\ row \in [Names -> Rows \cup {None}]
    /\ aliasOf \in [Names -> Names \cup {None}]
    /\ vhost \in [Names -> Vhosts \cup {None}]
    /\ files \subseteq Owners \X Names
    /\ certs \subseteq Names \X {"letsencrypt", "manual"}
    /\ requests \in 0..MaxRequests /\ kept \subseteq Owners \X Names /\ spoiled \subseteq Names
    /\ \A p \in Procs : proc[p].r \in Rows \cup {None} /\ proc[p].old \in Vhosts \cup {None}
    /\ lock \in Procs \cup {None}
    /\ lock # None => proc[lock].op \in {"alias", "unalias", "delete", "remove"} /\ proc[lock].pc # "flush"

\* Whatever the requests for other websites do meanwhile, each other's tests and
\* reloads included, and whatever was refused before it had an effect or put back:
\* a website is served from its folder as its row and its aliases say, an uploaded
\* or borrowed certificate with it.  That does not hold once a later part of a
\* change of the row is refused, a reload fails or a commit does.
ServedAsRecorded ==
    \A d \in Names : AtRest(d) /\ Sound(d) /\ row[d] # None =>
        /\ <<row[d].owner, d>> \in files
        /\ vhost[d] # None
        /\ vhost[d].mode = IF row[d].status = "active" THEN "full" ELSE "static"
        /\ row[d].status = "active" =>
            /\ vhost[d].home = row[d].owner
            /\ vhost[d].setting = row[d].setting
            /\ vhost[d].aliases = AliasesOf(d)
            /\ row[d].ssl = "manual" => vhost[d].cert = <<d, "manual">>
            /\ row[d].ssl = "shared" => vhost[d].cert = Borrowed(row[d].source)

\* A name without a website has no file and no folder left but one that was to be
\* kept, whether the website was deleted or its creation failed at its folder, its
\* file or nginx's test and was cleaned up after, so that it can be created again.
NothingLeft ==
    \A d \in Names : AtRest(d) /\ Sound(d) /\ row[d] = None =>
        /\ vhost[d] = None
        /\ \A o \in Owners : <<o, d>> \in files => <<o, d>> \in kept

\* No file names a certificate that is not there - nginx would refuse the
\* configuration of every website - although its owner may be deleted while
\* another website is about to borrow it, as long as what the certificate covers
\* could be read.
NoDanglingCert ==
    \A d \in Names : Sound(d) /\ vhost[d] # None => vhost[d].cert \in certs \cup {None}

\* Only unsuspending puts a suspended website back on, not a change of its
\* aliases, its certificate, its owner or its settings, nor what puts a file back.
SuspendedStaysOff ==
    [][\A d \in Names :
        /\ d \notin spoiled'
        /\ row[d] # None /\ row[d].status = "suspended"
        /\ vhost[d] # None /\ vhost[d].mode = "static"
        /\ vhost'[d] # None /\ vhost'[d].mode = "full"
        => \E p \in Procs : proc[p].op = "unsuspend" /\ proc[p].site = d]_vars

\* A website that has a certificate of Let's Encrypt is served with it.
HttpsIsServed ==
    \A d \in Names : AtRest(d) /\ Sound(d) /\ row[d] # None =>
        (row[d].ssl = "letsencrypt" /\ row[d].status = "active" => vhost[d].cert = <<d, "letsencrypt">>)
=============================================================================
