----------------------------- MODULE SitesProofs -----------------------------
(***************************************************************************)
(* Proofs about the websites, for every number of names, accounts, request    *)
(* threads and requests.  No lock covers a website, so every claim is about a *)
(* name no two requests were at together: what one request has made of it so  *)
(* far, and that nothing any other does to another name can change it.        *)
(***************************************************************************)
EXTENDS Sites, TLAPS

Kinds == {"letsencrypt", "manual"}
Everyone == {"suspend", "unsuspend", "remove"}
Done == {"delete", "remove"}
Writers == {"create", "alias", "unalias", "update", "transfer", "refresh", "manual", "ssl", "share",
            "suspend", "unsuspend"}
Ops == Writers \cup Done \cup {"idle"}
Pcs == {"idle", "runtime", "flush", "install", "move", "issue", "resync", "home", "release", "files",
        "unlink", "unlinked", "write", "test", "reload", "commit"}
Args == Names \cup Owners \cup Settings \cup {"all", "keep folder", None}

\* A row that borrows names whose certificate.
GoodRows == {r \in Rows : r.ssl = "shared" => r.source \in Names}
Loads == UNION {[S -> GoodRows] : S \in SUBSET Names}
Tickets == [op : Ops, pc : Pcs, site : Names \cup {None}, arg : Args, r : GoodRows \cup {None},
            old : Vhosts \cup {None}, bare : BOOLEAN, had : BOOLEAN, todo : SUBSET Names,
            names : SUBSET Names, loaded : Loads \cup {None}]

\* Which operation a request at a step serves.
Serves(q) ==
    /\ q.pc = "runtime" => q.op \in {"create", "update", "unsuspend"}
    /\ q.pc = "flush" => q.op \in {"alias", "unalias", "delete", "remove"}
    /\ q.pc = "install" => q.op = "manual"
    /\ q.pc = "move" => q.op = "transfer"
    /\ q.pc = "issue" => q.op = "ssl"
    /\ q.pc = "resync" => q.op \in {"manual", "ssl"}
    /\ q.pc = "home" => q.op = "remove"
    /\ q.pc \in {"release", "files"} => q.op \in Done
    /\ q.pc \in {"unlink", "unlinked"} => q.op \in Done \cup {"suspend"}
    /\ q.pc \in {"write", "test", "reload"} => q.op \in Writers
    /\ q.pc \in {"flush", "home", "commit"} => q.todo = {}

\* What a request carries.
Fits(q) ==
    \/ q = Idle
    \/ /\ q.op # "idle" /\ q.pc # "idle" /\ Serves(q)
       /\ q.site \in q.names /\ q.r \in GoodRows /\ q.todo \subseteq q.names \ {q.site}
       /\ q.op = "update" => q.arg \in Settings
       /\ q.op = "transfer" => q.arg \in Owners
       /\ q.op = "share" => q.arg \in Names /\ q.r.ssl = "shared" /\ q.r.source = q.arg
       /\ q.op \in {"alias", "unalias"} => q.arg \in Names /\ q.arg # q.site /\ q.names = {q.site, q.arg}
       /\ q.op \notin Everyone \cup {"alias", "unalias"} => q.names = {q.site}
       /\ q.op \notin Everyone => q.todo = {}
       /\ q.bare => q.op = "ssl"
       /\ q.op \in Everyone => q.arg \in Owners
       /\ q.op \in Everyone \cup Patches => q.loaded \in [q.names -> GoodRows]
       /\ q.op = "suspend" => q.r.status = "suspended"
       /\ q.op \in {"unsuspend", "remove"} => q.r.status = "active"

\* A request that has SQLite's write transaction.
Transacts(q) ==
    /\ q.op \in {"alias", "unalias"} \cup Done /\ q.pc # "flush"
    /\ q.op = "remove" => q.pc \in {"home", "commit"}

Types ==
    /\ accounts \subseteq Owners
    /\ row \in [Names -> GoodRows \cup {None}]
    /\ aliasOf \in [Names -> Names \cup {None}] /\ \A n \in Names : aliasOf[n] # n
    /\ vhost \in [Names -> Vhosts \cup {None}]
    /\ files \subseteq Owners \X Names
    /\ certs \subseteq Names \X Kinds
    /\ proc \in [Procs -> Tickets]
    /\ \A p \in Procs : Fits(proc[p])
    /\ lock \in Procs \cup {None}
    /\ lock # None => Transacts(proc[lock])
    /\ requests \in 0..MaxRequests /\ kept \subseteq Owners \X Names /\ spoiled \subseteq Names

-----------------------------------------------------------------------------
(* The inductive invariant: what a name looks like.                         *)

Own(d) == {<<d, "letsencrypt">>, <<d, "manual">>}

\* A certificate that covers other names, and which one a borrower is given.
Lends(s, cs) == <<s, "manual">> \in cs /\ <<s, "letsencrypt">> \notin cs
Lent(s, cs) == <<s, IF <<s, "manual">> \in cs THEN "manual" ELSE "letsencrypt">>

\* The certificates the row asks for are there.
Certified(d, r, cs) ==
    /\ r.ssl = "manual" => <<d, "manual">> \in cs
    /\ r.ssl = "shared" => IF r.source = d THEN Own(d) \cap cs # {} ELSE Lends(r.source, cs)

\* The file serves the row, with these aliases.
Shows(v, d, r, als, cs) ==
    /\ v # None /\ v.cert \in cs \cup {None}
    /\ v.cert \in Own(d) \cup {None} \/ (r.ssl = "shared" /\ v.cert = Lent(r.source, cs))
    /\ v.mode = IF r.status = "active" THEN "full" ELSE "static"
    /\ r.status = "active" =>
        /\ v.home = r.owner /\ v.setting = r.setting /\ v.aliases = als
        /\ r.ssl = "manual" => v.cert = <<d, "manual">>
        /\ r.ssl = "shared" => v.cert = Lent(r.source, cs)

\* Nobody has a folder of the name, or one account has, besides those kept.
NoFolder(d) == \A o \in Owners : <<o, d>> \in files => <<o, d>> \in kept
Folder(d, o) == <<o, d>> \in files /\ \A x \in Owners \ {o} : <<x, d>> \in files => <<x, d>> \in kept

\* The name is as its row says.
AsRow(d) ==
    IF row[d] = None THEN vhost[d] = None /\ AliasesOf(d) = {}
    ELSE Shows(vhost[d], d, row[d], AliasesOf(d), certs) /\ Certified(d, row[d], certs)
AtHome(d) == IF row[d] = None THEN NoFolder(d) ELSE Folder(d, row[d].owner)
Calm(d) == AsRow(d) /\ AtHome(d)

\* What the request is about to commit of the name.
NewRow(q, d) ==
    IF q.op = "create" THEN q.r
    ELSE [owner   |-> CASE q.op = "transfer" -> q.arg [] q.op = "update" -> q.r.owner
                        [] OTHER -> row[d].owner,
          status  |-> IF q.op \in {"suspend", "unsuspend"} THEN q.r.status ELSE row[d].status,
          setting |-> CASE q.op = "update" -> q.arg [] q.op = "transfer" -> q.r.setting
                        [] OTHER -> row[d].setting,
          ssl     |-> IF q.op \in {"manual", "ssl", "share"} THEN q.r.ssl ELSE row[d].ssl,
          source  |-> IF q.op \in {"manual", "ssl", "share"} THEN q.r.source ELSE row[d].source]
NewAls(q, d) ==
    CASE q.op = "alias" -> AliasesOf(d) \cup {q.arg}
      [] q.op = "unalias" -> AliasesOf(d) \ {q.arg}
      [] OTHER -> AliasesOf(d)
WillServe(q, d) == Shows(vhost[d], d, NewRow(q, d), NewAls(q, d), certs) /\ Certified(d, NewRow(q, d), certs)

\* How far the request is with the file of its website: it has taken it away; it
\* has left out the certificate; it has written what it will commit; or none yet.
Gone(q) ==
    \/ q.pc \in {"unlinked", "release", "files", "home"}
    \/ q.op = "remove" /\ q.pc = "flush"
    \/ q.op = "suspend" /\ q.pc = "write"
    \/ q.op \in Done /\ q.pc = "commit"
Bare(q) == q.op = "ssl" /\ IF q.bare THEN q.pc \in {"test", "reload", "issue"} ELSE q.pc = "write"
After(q) == q.pc \in {"test", "reload", "resync", "commit"} /\ ~Gone(q) /\ ~Bare(q)
Before(q) == ~Gone(q) /\ ~Bare(q) /\ ~After(q)

\* The row it has in hand is the row as it is, but for what it changes and the
\* parts of the change that are in effect.
Reads(q, d) ==
    IF q.op = "create" THEN row[d] = None /\ AliasesOf(d) = {} /\ q.r = Plain(q.r.owner)
    ELSE /\ row[d] # None
         /\ q.op \notin Patches \/ ~q.had => q.r.owner = row[d].owner /\ q.r.setting = row[d].setting
         /\ q.op \notin Everyone => q.r.status = row[d].status
         /\ CASE q.op = "manual" ->
                   /\ q.r.ssl = IF q.pc = "install" THEN row[d].ssl ELSE "manual"
                   /\ q.r.source = row[d].source
              [] q.op = "ssl" /\ q.pc \in {"resync", "commit"} ->
                   q.r.ssl = "letsencrypt" /\ q.r.source = None
              [] q.op = "share" -> q.r.ssl = "shared" /\ q.r.source = q.arg
              [] OTHER -> q.r.ssl = row[d].ssl /\ q.r.source = row[d].source
         /\ q.op = "ssl" /\ q.pc \notin {"resync", "commit"} =>
              (row[d].ssl = "manual" <=> q.bare \/ q.pc # "issue")

\* The file before the request's own: as the row, with the parts in effect.
AsHeld(q, d) ==
    IF q.op \in Patches THEN Shows(vhost[d], d, q.r, AliasesOf(d), certs) ELSE AsRow(d)
FileAt(q, d) ==
    /\ Gone(q) => vhost[d] = None
    /\ Bare(q) => /\ vhost[d] # None /\ vhost[d].cert = None
                  /\ vhost[d].mode = IF row[d].status = "active" THEN "full" ELSE "static"
                  /\ row[d].status = "active" =>
                       /\ vhost[d].home = row[d].owner /\ vhost[d].setting = row[d].setting
                       /\ vhost[d].aliases = AliasesOf(d)
    /\ After(q) => WillServe(q, d)
    /\ Before(q) => AsHeld(q, d)

\* The certificates it counts on, and what a test that fails puts back.
CertsAt(q, d) ==
    /\ q.op \notin Done \cup {"create"} /\ (~After(q) \/ q.pc = "test") => Certified(d, row[d], certs)
    /\ q.op = "share" => Certified(d, q.r, certs)
    /\ q.op = "manual" /\ q.pc = "write" =>
        <<d, "manual">> \in certs /\ (~q.had => row[d].ssl # "manual" /\ vhost[d].cert # <<d, "manual">>)
    /\ q.pc = "test" /\ ~PastReturn(q) =>
        IF q.op = "create" THEN q.old = None
        ELSE /\ Shows(q.old, d, row[d], AliasesOf(d), certs)
             /\ q.op = "manual" /\ ~q.had => row[d].ssl # "manual" /\ q.old.cert # <<d, "manual">>

\* Where it has the folder.
FolderAt(q, d) ==
    CASE q.op = "create" -> IF q.pc = "runtime" THEN NoFolder(d) ELSE Folder(d, q.r.owner)
      [] q.op = "transfer" -> Folder(d, IF q.pc = "move" THEN q.r.owner ELSE q.arg)
      [] q.op = "update" -> Folder(d, q.r.owner)
      [] q.op \in Done ->
            IF q.pc \in {"home", "commit"} \/ (q.op = "remove" /\ q.pc = "flush") THEN NoFolder(d)
            ELSE Folder(d, row[d].owner)
      [] OTHER -> Folder(d, row[d].owner)

\* The website a request is at; one of the account's it is done with.
AtSite(q, d) == Reads(q, d) /\ FileAt(q, d) /\ CertsAt(q, d) /\ FolderAt(q, d)
Passed(q, d) ==
    IF q.op = "remove" THEN vhost[d] = None /\ NoFolder(d)
    ELSE WillServe(q, d) /\ Folder(d, row[d].owner)
Held(q, d) ==
    /\ q.op \in Everyone \cup Patches => row[d] # None /\ q.loaded[d] = row[d]
    /\ CASE d = q.site -> AtSite(q, d)
         [] d # q.site /\ q.op \in Everyone /\ d \notin q.todo -> Passed(q, d)
         [] OTHER -> Calm(d)

-----------------------------------------------------------------------------
(* The inductive invariant: what keeps the requests apart.                  *)

\* Two requests at one name spoil all they are at.
Alone ==
    \A p, s \in Procs : \A d \in Names :
        p # s /\ d \in proc[p].names /\ d \in proc[s].names => proc[p].names \subseteq spoiled
Quiet == \A d \in Names \ spoiled : AtRest(d) => Calm(d)
Busy == \A p \in Procs : \A q \in {proc[p]} : \A d \in q.names \ spoiled : Held(q, d)

\* Whoever deletes an account is at every website of it, and none is on its way.
Apart ==
    \A p \in Procs : proc[p].op = "remove" =>
        \A d \in Names \ spoiled :
          /\ row[d] # None /\ row[d].owner = proc[p].arg => d \in proc[p].names
          /\ \A s \in Procs : d \in proc[s].names =>
                /\ ~(proc[s].op \in Patches \cup {"create"} /\ proc[s].r.owner = proc[p].arg)
                /\ ~(proc[s].op = "transfer" /\ proc[s].arg = proc[p].arg)

\* Nobody borrows a certificate that is being replaced, nor is about to.
Unlent ==
    \A p \in Procs : proc[p].op \in {"ssl", "manual"} =>
        \A d \in Names \ spoiled :
          /\ row[d] # None /\ row[d].ssl = "shared" => row[d].source # proc[p].site
          /\ \A s \in Procs : d \in proc[s].names => ~(proc[s].op = "share" /\ proc[s].arg = proc[p].site)

\* A new alias is free until its commit; one that goes is still the website's.
Claims ==
    \A p \in Procs :
        /\ proc[p].op = "alias" /\ proc[p].pc # "flush" => lock = p /\ aliasOf[proc[p].arg] = None
        /\ proc[p].op = "unalias" => aliasOf[proc[p].arg] \in {proc[p].site, None} \cup spoiled

Inv == Types /\ Alone /\ Quiet /\ Busy /\ Apart /\ Unlent /\ Claims

-----------------------------------------------------------------------------
(* What the types say.                                                      *)

LEMMA Distinct ==
  /\ None \notin Names /\ None \notin Owners /\ None \notin Procs
  /\ None \notin Rows /\ None \notin GoodRows /\ None \notin Vhosts /\ None \notin Names \X Kinds
BY SitesConstants, NoneIsNoRecord DEF GoodRows, Kinds

LEMMA IdleFacts ==
  /\ Idle \in Tickets /\ Fits(Idle) /\ Idle.op = "idle" /\ Idle.pc = "idle" /\ Idle.names = {}
BY DEF Idle, Tickets, Fits, Ops, Pcs, Args, Writers, Done

LEMMA TypesSuffice == Types => TypeOK
<1> SUFFICES ASSUME Types PROVE TypeOK
  OBVIOUS
<1>1. GoodRows \subseteq Rows
  BY DEF GoodRows
<1>2. \A p \in Procs : proc[p].r \in Rows \cup {None} /\ proc[p].old \in Vhosts \cup {None}
  BY <1>1 DEF Types, Tickets
<1> QED
  BY <1>1, <1>2 DEF Types, TypeOK, Kinds, Done, Transacts

\* A request at work.
LEMMA Working ==
  ASSUME Types, NEW p \in Procs, NEW q, q = proc[p], q.pc # "idle" \/ q.op # "idle" \/ q.names # {}
  PROVE  /\ q \in Tickets /\ Fits(q) /\ q # Idle /\ q.op # "idle" /\ q.pc # "idle" /\ Serves(q)
         /\ q.site \in q.names /\ q.site \in Names /\ q.names \subseteq Names
         /\ q.r \in GoodRows /\ q.r \in Rows /\ q.todo \subseteq q.names \ {q.site}
<1>1. q \in Tickets /\ Fits(q)
  BY DEF Types
<1>2. q # Idle
  BY IdleFacts
<1>3. q.names \subseteq Names
  BY <1>1 DEF Tickets
<1> QED
  BY <1>1, <1>2, <1>3 DEF Fits, GoodRows

LEMMA RowFacts ==
  ASSUME NEW r \in GoodRows
  PROVE  /\ r \in Rows /\ r # None
         /\ r.owner \in Owners /\ r.status \in {"active", "suspended"} /\ r.setting \in Settings
         /\ r.ssl \in {"none", "letsencrypt", "manual", "shared"} /\ r.source \in Names \cup {None}
         /\ r.ssl = "shared" => r.source \in Names
BY Distinct DEF GoodRows, Rows

LEMMA PlainFacts ==
  ASSUME NEW o \in Owners
  PROVE  /\ Plain(o) \in GoodRows /\ Plain(o).owner = o /\ Plain(o).status = "active"
         /\ Plain(o).setting = "s1" /\ Plain(o).ssl = "none" /\ Plain(o).source = None
BY DEF Plain, GoodRows, Rows, Settings

LEMMA NewRowFacts ==
  ASSUME Types, NEW q \in Tickets, Fits(q), q.op # "idle", NEW d \in Names,
         q.op \in {"create", "manual", "ssl"} => Reads(q, d), q.op # "create" => row[d] # None
  PROVE  /\ NewRow(q, d) \in GoodRows
         /\ NewRow(q, d).ssl = "shared" =>
              /\ row[d] # None
              /\ \/ row[d].ssl = "shared" /\ row[d].source = NewRow(q, d).source
                 \/ q.op = "share" /\ q.arg = NewRow(q, d).source
<1>1. row[d] \in GoodRows \cup {None} /\ (q.op # "create" => row[d] \in GoodRows)
  BY DEF Types
<1>2. q # Idle /\ q.r \in GoodRows
  BY IdleFacts DEF Fits
<1>3. CASE q.op = "create"
  <2>1. NewRow(q, d) = q.r /\ q.r = Plain(q.r.owner) /\ q.r.owner \in Owners
    BY <1>2, <1>3, RowFacts DEF NewRow, Reads
  <2> QED
    BY <1>2, <2>1, PlainFacts
<1>4. CASE q.op # "create"
  <2>1. PICK n : n = NewRow(q, d)
    OBVIOUS
  <2>2. /\ q.op = "update" => q.arg \in Settings
        /\ q.op = "transfer" => q.arg \in Owners
        /\ q.op = "share" => q.r.ssl = "shared" /\ q.r.source = q.arg
    BY <1>2 DEF Fits
  <2>3. /\ row[d].owner \in Owners /\ row[d].status \in {"active", "suspended"} /\ row[d].setting \in Settings
        /\ row[d].ssl \in {"none", "letsencrypt", "manual", "shared"} /\ row[d].source \in Names \cup {None}
        /\ row[d].ssl = "shared" => row[d].source \in Names
    BY <1>1, <1>4, RowFacts
  <2>4. /\ q.r.owner \in Owners /\ q.r.status \in {"active", "suspended"} /\ q.r.setting \in Settings
        /\ q.r.ssl \in {"none", "letsencrypt", "manual", "shared"} /\ q.r.source \in Names \cup {None}
        /\ q.r.ssl = "shared" => q.r.source \in Names
    BY <1>2, RowFacts
  <2>5. n \in Rows /\ (n.ssl = "shared" => n.source \in Names)
    BY <1>4, <2>1, <2>2, <2>3, <2>4 DEF NewRow, Rows
  <2>6. n.ssl = "shared" => \/ row[d].ssl = "shared" /\ row[d].source = n.source
                            \/ q.op = "share" /\ q.arg = n.source
    <3>1. CASE q.op \in {"manual", "ssl"}
      BY <1>4, <2>1, <3>1 DEF NewRow, Reads
    <3>2. CASE q.op \notin {"manual", "ssl"}
      BY <1>4, <2>1, <2>2, <3>2 DEF NewRow
    <3> QED
      BY <3>1, <3>2
  <2> QED
    BY <1>4, <2>1, <2>5, <2>6 DEF GoodRows
<1> QED
  BY <1>3, <1>4

-----------------------------------------------------------------------------
(* What a step of one request leaves of the other names.                     *)

\* Such a step changes files and certificates of its own website only, and the
\* folders of the account it deletes.
Elsewhere(p) ==
    /\ \A d \in Names \ {proc[p].site} : d \notin spoiled' => vhost'[d] = vhost[d]
    /\ \A d \in Names \ {proc[p].site}, k \in Kinds : <<d, k>> \in certs' <=> <<d, k>> \in certs
    /\ \/ certs' = certs \/ proc[p].op \in {"ssl", "manual"}
       \/ \A d \in Names \ {proc[p].site} :
            row[d] # None /\ Lends(proc[p].site, certs) =>
              \/ d \in spoiled' \/ Lends(proc[p].site, certs')
              \/ d \notin Dependents(proc[p].site)
                 /\ \A t \in Procs : d \in proc[t].names => ~(proc[t].op = "share" /\ proc[t].arg = proc[p].site)
    /\ \A d \in Names \ {proc[p].site}, o \in Owners :
          /\ <<o, d>> \in files' => <<o, d>> \in files
          /\ <<o, d>> \in files => <<o, d>> \in files' \/ (proc[p].pc = "home" /\ proc[p].arg = o)
    /\ kept \subseteq kept' /\ spoiled \subseteq spoiled' /\ UNCHANGED <<row, aliasOf>>

\* What covers a sound name goes on covering it.
LEMMA BorrowKept ==
  ASSUME Inv, NEW p \in Procs, Elsewhere(p), NEW d \in Names \ spoiled', d # proc[p].site, NEW r \in GoodRows,
         r.ssl = "shared" =>
           /\ row[d] # None
           /\ \/ row[d].ssl = "shared" /\ row[d].source = r.source
              \/ \E t \in Procs : d \in proc[t].names /\ proc[t].op = "share" /\ proc[t].arg = r.source,
         Certified(d, r, certs)
  PROVE  /\ Certified(d, r, certs')
         /\ \A v, als : Shows(v, d, r, als, certs) => Shows(v, d, r, als, certs')
<1>1. d \notin spoiled
  BY DEF Elsewhere
<1>2. \A k \in Kinds : <<d, k>> \in certs' <=> <<d, k>> \in certs
  BY DEF Elsewhere
<1>3. r.ssl = "shared" => r.source \in Names
  BY DEF GoodRows
<1>4. ASSUME r.ssl = "shared", r.source # d PROVE Lends(r.source, certs) /\ Lends(r.source, certs')
  <2>1. Lends(r.source, certs)
    BY <1>4 DEF Certified
  <2>2. CASE r.source # proc[p].site
    <3>1. \A k \in Kinds : <<r.source, k>> \in certs' <=> <<r.source, k>> \in certs
      BY <1>3, <1>4, <2>2 DEF Elsewhere
    <3> QED
      BY <2>1, <3>1 DEF Lends, Kinds
  <2>3. CASE r.source = proc[p].site
    <3>1. proc[p].op \notin {"ssl", "manual"}
      BY <1>1, <1>4, <2>3 DEF Inv, Unlent
    <3>2. \/ d \in Dependents(proc[p].site)
          \/ \E t \in Procs : d \in proc[t].names /\ proc[t].op = "share" /\ proc[t].arg = proc[p].site
      BY <1>4, <2>3 DEF Dependents
    <3> QED
      BY <1>4, <2>1, <2>3, <3>1, <3>2 DEF Elsewhere
  <2> QED
    BY <2>2, <2>3
<1>5. Certified(d, r, certs')
  BY <1>2, <1>4 DEF Certified, Own, Kinds
<1>6. ASSUME r.ssl = "shared" PROVE Lent(r.source, certs') = Lent(r.source, certs) /\ Lent(r.source, certs) \in certs'
  <2>1. CASE r.source = d
    BY <1>2, <1>6, <2>1 DEF Certified, Own, Lent, Kinds
  <2>2. CASE r.source # d
    BY <1>4, <1>6, <2>2 DEF Lends, Lent
  <2> QED
    BY <2>1, <2>2
<1>7. ASSUME NEW v, NEW als, Shows(v, d, r, als, certs) PROVE Shows(v, d, r, als, certs')
  <2>1. v.cert \in certs' \cup {None}
    BY <1>2, <1>6, <1>7 DEF Shows, Own, Kinds
  <2> QED
    BY <1>6, <1>7, <2>1 DEF Shows
<1> QED
  BY <1>5, <1>7

LEMMA FolderKept ==
  ASSUME NEW p \in Procs, Elsewhere(p), NEW d \in Names, d # proc[p].site
  PROVE  /\ NoFolder(d) => NoFolder(d)'
         /\ \A o \in Owners : ~(proc[p].pc = "home" /\ proc[p].arg = o) /\ Folder(d, o) => Folder(d, o)'
BY DEF Elsewhere, NoFolder, Folder

\* The account's folders that go are not those of a sound name others are at, nor
\* of one nobody is at.
LEMMA OthersApart ==
  ASSUME Inv, NEW p \in Procs, NEW d \in Names \ spoiled, d \notin proc[p].names, proc[p].pc = "home"
  PROVE  /\ row[d] # None => row[d].owner # proc[p].arg
         /\ \A t \in Procs : d \in proc[t].names =>
              /\ proc[t].op \in Patches \cup {"create"} => proc[t].r.owner # proc[p].arg
              /\ proc[t].op = "transfer" => proc[t].arg # proc[p].arg
<1>1. proc[p].op = "remove"
  BY Working DEF Inv, Serves
<1> QED
  BY <1>1 DEF Inv, Apart

LEMMA CalmKept ==
  ASSUME Inv, NEW p \in Procs, Elsewhere(p), NEW d \in Names \ spoiled', d # proc[p].site,
         proc[p].pc # "home" \/ d \notin proc[p].names
  PROVE  /\ AsRow(d) => AsRow(d)'
         /\ Calm(d) => Calm(d)'
<1>1. d \notin spoiled /\ vhost'[d] = vhost[d] /\ row' = row /\ AliasesOf(d)' = AliasesOf(d)
  BY DEF Elsewhere, AliasesOf
<1>2. CASE row[d] = None
  BY <1>1, <1>2, FolderKept DEF Calm, AsRow, AtHome
<1>3. CASE row[d] # None
  <2>1. row[d] \in GoodRows /\ row[d].owner \in Owners
    BY <1>3, RowFacts DEF Inv, Types
  <2>2. AsRow(d) => AsRow(d)'
    BY <1>1, <1>3, <2>1, BorrowKept DEF AsRow
  <2>3. ~(proc[p].pc = "home" /\ proc[p].arg = row[d].owner)
    BY <1>1, <1>3, OthersApart
  <2>4. AtHome(d) => AtHome(d)'
    BY <1>1, <1>3, <2>1, <2>3, FolderKept DEF AtHome
  <2> QED
    BY <2>2, <2>4 DEF Calm
<1> QED
  BY <1>2, <1>3

\* What a request will serve goes on being served.
LEMMA WillServeKept ==
  ASSUME Inv, NEW p \in Procs, Elsewhere(p), NEW d \in Names \ spoiled', d # proc[p].site,
         NEW t \in Procs, NEW q, q \in Tickets, Fits(q), q.op # "idle", d \in proc[t].names,
         q.op = proc[t].op, q.arg = proc[t].arg,
         q.op \in {"create", "manual", "ssl"} => Reads(q, d), q.op # "create" => row[d] # None, WillServe(q, d)
  PROVE  WillServe(q, d)'
<1>1. vhost'[d] = vhost[d] /\ NewRow(q, d)' = NewRow(q, d) /\ NewAls(q, d)' = NewAls(q, d)
  BY DEF Elsewhere, NewRow, NewAls, AliasesOf
<1>2. PICK r : r = NewRow(q, d)
  OBVIOUS
<1>3. r \in GoodRows /\ (r.ssl = "shared" => /\ row[d] # None
                                            /\ \/ row[d].ssl = "shared" /\ row[d].source = r.source
                                               \/ q.op = "share" /\ q.arg = r.source)
  BY <1>2, NewRowFacts DEF Inv
<1>4. Certified(d, r, certs) /\ Shows(vhost[d], d, r, NewAls(q, d), certs)
  BY <1>2 DEF WillServe
<1>5. Certified(d, r, certs') /\ Shows(vhost[d], d, r, NewAls(q, d), certs')
  BY <1>3, <1>4, BorrowKept
<1> QED
  BY <1>1, <1>2, <1>5 DEF WillServe

LEMMA AtSiteKept ==
  ASSUME Inv, NEW p \in Procs, Elsewhere(p), NEW d \in Names \ spoiled', d # proc[p].site,
         NEW t \in Procs, t # p, NEW q, q = proc[t], d \in q.names, AtSite(q, d)
  PROVE  AtSite(q, d)'
<1>1. /\ d \notin spoiled /\ vhost'[d] = vhost[d] /\ row' = row /\ AliasesOf(d)' = AliasesOf(d)
      /\ \A o \in Owners : <<o, d>> \in files' => <<o, d>> \in files
      /\ kept \subseteq kept'
  BY DEF Elsewhere, AliasesOf
<1>2. d \notin proc[p].names
  BY <1>1 DEF Inv, Alone
<1>3. q \in Tickets /\ Fits(q) /\ q # Idle /\ q.op # "idle" /\ q.r \in GoodRows
  BY Working DEF Inv
<1>4. Reads(q, d)'
  BY <1>1 DEF AtSite, Reads
<1>5. q.op # "create" => row[d] # None /\ row[d] \in GoodRows /\ row[d].owner \in Owners
  BY RowFacts DEF AtSite, Reads, Inv, Types
<1>6. FileAt(q, d)'
  <2>1. Before(q) => AsHeld(q, d)'
    <3>1. CASE q.op \in Patches
      <4>1. row[d] # None /\ q.r.ssl = row[d].ssl /\ q.r.source = row[d].source
        BY <3>1 DEF AtSite, Reads, Patches
      <4>2. Before(q) => Certified(d, row[d], certs)
        BY <3>1 DEF AtSite, CertsAt, Before, Patches, Done
      <4>3. Before(q) => Certified(d, q.r, certs)
        BY <4>1, <4>2 DEF Certified
      <4> QED
        BY <1>1, <1>3, <3>1, <4>1, <4>3, BorrowKept DEF AtSite, FileAt, AsHeld
    <3>2. CASE q.op \notin Patches
      BY <1>2, <3>2, CalmKept DEF AtSite, FileAt, AsHeld
    <3> QED
      BY <3>1, <3>2
  <2>2. After(q) => WillServe(q, d)'
    BY <1>3, <1>5, WillServeKept DEF AtSite, FileAt
  <2> QED
    BY <1>1, <2>1, <2>2 DEF AtSite, FileAt
<1>7. CertsAt(q, d)'
  <2>1. ASSUME q.op # "create", Certified(d, row[d], certs)
        PROVE  /\ Certified(d, row[d], certs')
               /\ \A v, als : Shows(v, d, row[d], als, certs) => Shows(v, d, row[d], als, certs')
    BY <1>5, <2>1, BorrowKept
  <2>2. ASSUME q.op = "share", Certified(d, q.r, certs) PROVE Certified(d, q.r, certs')
    <3>1. q.r.source = q.arg
      BY <1>3, <2>2 DEF Fits
    <3> QED
      BY <1>3, <1>5, <2>2, <3>1, BorrowKept
  <2>3. <<d, "manual">> \in certs' <=> <<d, "manual">> \in certs
    BY DEF Elsewhere, Kinds
  <2>4. q.pc = "test" /\ ~PastReturn(q) /\ q.op # "create" => Certified(d, row[d], certs)
    BY <1>3 DEF AtSite, CertsAt, Fits, Serves, Writers, Done
  <2> QED
    BY <1>1, <2>1, <2>2, <2>3, <2>4 DEF AtSite, CertsAt
<1>8. FolderAt(q, d)'
  <2>1. NoFolder(d) => NoFolder(d)'
    BY FolderKept
  <2>2. ASSUME NEW o \in Owners, Folder(d, o), proc[p].pc = "home" => proc[p].arg # o PROVE Folder(d, o)'
    BY <2>2, FolderKept
  <2>3. CASE q.op = "create"
    <3>1. q.r.owner \in Owners /\ (proc[p].pc = "home" => proc[p].arg # q.r.owner)
      BY <1>1, <1>2, <1>3, <2>3, RowFacts, OthersApart
    <3> QED
      BY <2>1, <2>2, <2>3, <3>1 DEF AtSite, FolderAt, Done
  <2>4. CASE q.op = "transfer"
    <3>1. q.arg \in Owners /\ (proc[p].pc = "home" => proc[p].arg # q.arg)
      BY <1>1, <1>2, <1>3, <2>4, OthersApart DEF Fits
    <3>2. q.r.owner \in Owners /\ (proc[p].pc = "home" => proc[p].arg # q.r.owner)
      BY <1>1, <1>2, <1>3, <2>4, RowFacts, OthersApart DEF Patches
    <3> QED
      BY <1>1, <1>5, <2>2, <2>4, <3>1, <3>2 DEF AtSite, FolderAt, Done
  <2>6. CASE q.op = "update"
    <3>1. q.r.owner \in Owners /\ (proc[p].pc = "home" => proc[p].arg # q.r.owner)
      BY <1>1, <1>2, <1>3, <2>6, RowFacts, OthersApart DEF Patches
    <3> QED
      BY <1>1, <2>2, <2>6, <3>1 DEF AtSite, FolderAt, Done
  <2>5. CASE q.op \notin {"create", "transfer", "update"}
    <3>1. proc[p].pc = "home" => proc[p].arg # row[d].owner
      BY <1>1, <1>2, <1>5, <2>5, OthersApart
    <3> QED
      BY <1>1, <1>5, <2>1, <2>2, <2>5, <3>1 DEF AtSite, FolderAt, Done
  <2> QED
    BY <2>3, <2>4, <2>5, <2>6
<1> QED
  BY <1>4, <1>6, <1>7, <1>8 DEF AtSite

LEMMA PassedKept ==
  ASSUME Inv, NEW p \in Procs, Elsewhere(p), NEW d \in Names \ spoiled', d # proc[p].site,
         NEW t \in Procs, NEW q \in Tickets, Fits(q), q.op \in Everyone, d \in proc[t].names,
         q.op = proc[t].op, q.arg = proc[t].arg, q.op # "remove" => t # p \/ proc[p].pc # "home",
         row[d] # None, Passed(q, d)
  PROVE  Passed(q, d)'
<1>1. d \notin spoiled /\ vhost'[d] = vhost[d] /\ row' = row
  BY DEF Elsewhere
<1>2. row[d] \in GoodRows /\ row[d].owner \in Owners
  BY RowFacts DEF Inv, Types
<1>3. CASE q.op = "remove"
  BY <1>1, <1>3, FolderKept DEF Passed
<1>4. CASE q.op # "remove"
  <2>1. WillServe(q, d)'
    BY <1>4, WillServeKept DEF Passed, Everyone
  <2>2. proc[p].pc = "home" => proc[p].arg # row[d].owner
    <3>1. CASE t = p
      BY <1>4, <3>1
    <3>2. CASE t # p
      BY <1>1, <3>2, OthersApart DEF Inv, Alone
    <3> QED
      BY <3>1, <3>2
  <2>3. Folder(d, row[d].owner)'
    BY <1>1, <1>2, <1>4, <2>2, FolderKept DEF Passed
  <2> QED
    BY <1>4, <2>1, <2>3 DEF Passed
<1> QED
  BY <1>3, <1>4

\* So what another request holds it goes on holding.
LEMMA HeldKept ==
  ASSUME Inv, NEW p \in Procs, Elsewhere(p), NEW t \in Procs, t # p, NEW q, q = proc[t],
         NEW d \in q.names \ spoiled', d # proc[p].site
  PROVE  Held(q, d)'
<1>1. q \in Tickets /\ Fits(q) /\ q.op # "idle" /\ d \in Names
  BY Working DEF Inv
<1>2. Held(q, d) /\ d \notin spoiled /\ row' = row
  BY DEF Inv, Busy, Elsewhere
<1>3. d \notin proc[p].names
  BY <1>1, <1>2 DEF Inv, Alone
<1>4. CASE d = q.site
  BY <1>1, <1>2, <1>4, AtSiteKept DEF Held
<1>5. CASE d # q.site /\ q.op \in Everyone /\ d \notin q.todo
  BY <1>1, <1>2, <1>5, PassedKept DEF Held
<1>6. CASE d # q.site /\ ~(q.op \in Everyone /\ d \notin q.todo)
  BY <1>1, <1>2, <1>3, <1>6, CalmKept DEF Held
<1> QED
  BY <1>4, <1>5, <1>6

-----------------------------------------------------------------------------
(* How a request moves.                                                     *)

DiskTypes ==
    /\ vhost \in [Names -> Vhosts \cup {None}] /\ files \subseteq Owners \X Names
    /\ certs \subseteq Names \X Kinds /\ kept \subseteq Owners \X Names /\ spoiled \subseteq Names

\* What stays of a request until its end.
Follows(w, q) ==
    /\ w.op = q.op /\ w.arg = q.arg /\ w.names = q.names /\ w.loaded = q.loaded
    /\ w.r.status = q.r.status
    /\ q.op \notin Everyone => w.site = q.site
    /\ q.op \in Patches \cup {"create"} => w.r = q.r

LockMoves(p, w) ==
    \/ lock' = lock /\ (lock = p => Transacts(w))
    \/ lock \in {None, p} /\ lock' = p /\ Transacts(w)
    \/ Release(p)

\* A step of one request leaves the others as they were.
LEMMA Steady ==
  ASSUME Inv, NEW p \in Procs, NEW q, q = proc[p], q.op # "idle", NEW w \in Tickets, Fits(w),
         proc' = [proc EXCEPT ![p] = w], w = Idle \/ Follows(w, q), Elsewhere(p), DiskTypes',
         UNCHANGED <<accounts, requests>>, LockMoves(p, w),
         w.op = "alias" /\ w.pc # "flush" => lock' = p /\ aliasOf[w.arg] = None
  PROVE  /\ Types' /\ Alone' /\ Apart' /\ Unlent' /\ Claims'
         /\ \A t \in Procs \ {p} : \A u \in {proc[t]} : u = proc'[t] /\ \A d \in u.names \ spoiled' : Held(u, d)'
         /\ \A d \in Names \ spoiled' : AtRest(d)' /\ d \notin q.names => Calm(d)'
<1>1. proc'[p] = w /\ \A t \in Procs \ {p} : proc'[t] = proc[t]
  BY DEF Inv, Types
<1>2. q \in Tickets /\ Fits(q) /\ q # Idle /\ q.site \in q.names /\ q.names \subseteq Names
  BY Working DEF Inv
<1>3. row' = row /\ aliasOf' = aliasOf /\ spoiled \subseteq spoiled' /\ spoiled' \subseteq Names
  BY DEF Elsewhere, DiskTypes
<1>4. /\ w.names \subseteq q.names
      /\ w.op # "idle" => /\ w.op = q.op /\ w.arg = q.arg /\ (q.op \notin Everyone => w.site = q.site)
                          /\ (q.op \in Patches \cup {"create"} => w.r = q.r)
  BY IdleFacts DEF Follows
<1>5. Types'
  <2>1. proc' \in [Procs -> Tickets] /\ \A t \in Procs : Fits(proc'[t])
    BY <1>1 DEF Inv, Types
  <2>2. lock' \in Procs \cup {None} /\ (lock' # None => Transacts(proc'[lock']))
    <3>1. lock \in Procs \cup {None} /\ (lock # None => Transacts(proc[lock])) /\ p # None
      BY Distinct DEF Inv, Types, Transacts
    <3> QED
      BY <1>1, <3>1 DEF LockMoves, Release
  <2> QED
    BY <1>3, <2>1, <2>2 DEF Inv, Types, DiskTypes, Transacts
<1>6. Alone'
  <2> SUFFICES ASSUME NEW t \in Procs, NEW s \in Procs, t # s, NEW d \in Names,
                      d \in proc'[t].names, d \in proc'[s].names
               PROVE  proc'[t].names \subseteq spoiled'
    BY DEF Alone
  <2>1. d \in proc[t].names /\ d \in proc[s].names /\ proc'[t].names \subseteq proc[t].names
    BY <1>1, <1>4
  <2>2. proc[t].names \subseteq spoiled
    BY <2>1 DEF Inv, Alone
  <2> QED
    BY <1>3, <2>1, <2>2
<1>7. Apart'
  <2> SUFFICES ASSUME NEW t \in Procs, proc'[t].op = "remove", NEW d \in Names \ spoiled'
               PROVE  /\ row[d] # None /\ row[d].owner = proc'[t].arg => d \in proc'[t].names
                      /\ \A s \in Procs : d \in proc'[s].names =>
                            /\ ~(proc'[s].op \in Patches \cup {"create"} /\ proc'[s].r.owner = proc'[t].arg)
                            /\ ~(proc'[s].op = "transfer" /\ proc'[s].arg = proc'[t].arg)
    BY <1>3 DEF Apart
  <2>1. proc[t].op = "remove" /\ proc'[t].arg = proc[t].arg /\ proc'[t].names = proc[t].names
    BY <1>1, <1>4, IdleFacts DEF Follows
  <2>2. \A s \in Procs : d \in proc'[s].names =>
            /\ d \in proc[s].names /\ proc'[s].op = proc[s].op /\ proc'[s].arg = proc[s].arg
            /\ proc[s].op \in Patches \cup {"create"} => proc'[s].r = proc[s].r
    BY <1>1, <1>4, IdleFacts DEF Follows
  <2> QED
    BY <1>3, <2>1, <2>2 DEF Inv, Apart
<1>8. Unlent'
  <2> SUFFICES ASSUME NEW t \in Procs, proc'[t].op \in {"ssl", "manual"}, NEW d \in Names \ spoiled'
               PROVE  /\ row[d] # None /\ row[d].ssl = "shared" => row[d].source # proc'[t].site
                      /\ \A s \in Procs : d \in proc'[s].names =>
                            ~(proc'[s].op = "share" /\ proc'[s].arg = proc'[t].site)
    BY <1>3 DEF Unlent
  <2>1. proc[t].op \in {"ssl", "manual"} /\ proc'[t].site = proc[t].site
    BY <1>1, <1>4, IdleFacts DEF Everyone
  <2>2. \A s \in Procs : d \in proc'[s].names =>
            d \in proc[s].names /\ proc'[s].op = proc[s].op /\ proc'[s].arg = proc[s].arg
    BY <1>1, <1>4, IdleFacts DEF Follows
  <2> QED
    BY <1>3, <2>1, <2>2 DEF Inv, Unlent
<1>9. Claims'
  <2> SUFFICES ASSUME NEW t \in Procs
               PROVE  /\ proc'[t].op = "alias" /\ proc'[t].pc # "flush" =>
                            lock' = t /\ aliasOf[proc'[t].arg] = None
                      /\ proc'[t].op = "unalias" => aliasOf[proc'[t].arg] \in {proc'[t].site, None} \cup spoiled'
    BY <1>3 DEF Claims
  <2>1. CASE t = p
    <3>1. w.op = "unalias" => q.op = "unalias" /\ w.arg = q.arg /\ w.site = q.site
      BY <1>4 DEF Everyone
    <3> QED
      BY <1>1, <1>3, <2>1, <3>1 DEF Inv, Claims
  <2>2. CASE t # p
    <3>1. proc'[t] = proc[t]
      BY <1>1, <2>2
    <3>2. lock = t => lock' = t
      BY <2>2, Distinct DEF LockMoves, Release
    <3> QED
      BY <1>3, <3>1, <3>2 DEF Inv, Claims
  <2> QED
    BY <2>1, <2>2
<1>10. ASSUME NEW t \in Procs \ {p}, NEW u \in {proc[t]}, NEW d \in u.names \ spoiled' PROVE Held(u, d)'
  <2>1. u = proc[t] /\ d \in Names
    BY Working DEF Inv
  <2>2. d # q.site
    BY <1>2, <1>3, <2>1 DEF Inv, Alone
  <2> QED
    BY <2>1, <2>2, HeldKept
<1>11. ASSUME NEW d \in Names \ spoiled', AtRest(d)', d \notin q.names PROVE Calm(d)'
  <2>1. AtRest(d) /\ d \notin spoiled
    BY <1>1, <1>3, <1>11 DEF AtRest
  <2>2. Calm(d) /\ d # q.site
    BY <1>2, <1>11, <2>1 DEF Inv, Quiet
  <2> QED
    BY <1>11, <2>2, CalmKept
<1> QED
  BY <1>5, <1>6, <1>7, <1>8, <1>9, <1>10, <1>11

\* A step of a request that goes on.
LEMMA Going ==
  ASSUME Inv, NEW p \in Procs, NEW q, q = proc[p], q.op # "idle", NEW w \in Tickets, Fits(w),
         proc' = [proc EXCEPT ![p] = w], Follows(w, q), Elsewhere(p), DiskTypes',
         UNCHANGED <<accounts, requests>>, LockMoves(p, w),
         w.op = "alias" /\ w.pc # "flush" => lock' = p /\ aliasOf[w.arg] = None,
         IF w.site = q.site THEN w.todo = q.todo
         ELSE /\ w.site \in q.todo /\ w.todo = q.todo \ {w.site}
              /\ q.site \notin spoiled' => Passed(w, q.site)',
         w.site \notin spoiled' => AtSite(w, w.site)'
  PROVE  Inv'
<1>1. /\ Types' /\ Alone' /\ Apart' /\ Unlent' /\ Claims'
      /\ \A t \in Procs \ {p} : \A u \in {proc[t]} : u = proc'[t] /\ \A d \in u.names \ spoiled' : Held(u, d)'
      /\ \A d \in Names \ spoiled' : AtRest(d)' /\ d \notin q.names => Calm(d)'
  BY Steady
<1>2. /\ q \in Tickets /\ Fits(q) /\ q.site \in q.names /\ q.site \notin q.todo /\ q.names \subseteq Names
      /\ q # Idle /\ q.pc # "idle" /\ Serves(q)
  BY Working DEF Inv
<1>3. proc'[p] = w /\ w.names = q.names
  BY DEF Inv, Types, Follows
<1>4. Quiet'
  BY <1>1, <1>3 DEF Quiet, AtRest
<1>5. ASSUME NEW d \in w.names \ spoiled' PROVE Held(w, d)'
  <2>1. d \in q.names \ spoiled /\ d \in Names /\ Held(q, d) /\ row' = row
    BY <1>2, <1>3, <1>5 DEF Inv, Busy, Elsewhere
  <2>2. w.op \in Everyone \cup Patches => row'[d] # None /\ w.loaded[d] = row'[d]
    BY <2>1 DEF Held, Follows
  <2>3. CASE d = w.site
    BY <1>5, <2>2, <2>3 DEF Held
  <2>4. CASE d # w.site /\ d = q.site
    <3>1. w.op \in Everyone /\ d \notin w.todo /\ Passed(w, d)'
      BY <1>2, <1>5, <2>4 DEF Follows
    <3> QED
      BY <2>2, <2>4, <3>1 DEF Held
  <2>5. CASE d # w.site /\ d # q.site /\ q.op \in Everyone /\ d \notin q.todo
    <3>1. Passed(q, d) /\ row[d] # None
      BY <2>1, <2>5 DEF Held
    <3>2. Passed(w, d)
      <4>1. w.op = q.op /\ w.arg = q.arg /\ w.r.status = q.r.status
        BY DEF Follows
      <4>2. NewRow(w, d) = NewRow(q, d) /\ NewAls(w, d) = NewAls(q, d)
        BY <2>5, <4>1 DEF NewRow, NewAls, Everyone
      <4> QED
        BY <3>1, <4>1, <4>2 DEF Passed, WillServe
    <3>3. w.op \in Everyone /\ (w.op # "remove" => proc[p].pc # "home") /\ w.op = proc[p].op /\ w.arg = proc[p].arg
      BY <1>2, <2>5 DEF Follows, Serves
    <3>4. Passed(w, d)'
      BY <1>2, <1>5, <2>1, <2>5, <3>1, <3>2, <3>3, PassedKept
    <3> QED
      BY <2>2, <2>5, <3>3, <3>4 DEF Held
  <2>6. CASE d # w.site /\ d # q.site /\ ~(q.op \in Everyone /\ d \notin q.todo)
    <3>1. Calm(d)
      BY <2>1, <2>6 DEF Held
    <3>2. proc[p].pc # "home"
      BY <1>2, <2>6 DEF Serves, Everyone
    <3>3. Calm(d)'
      BY <1>5, <2>1, <2>6, <3>1, <3>2, CalmKept
    <3> QED
      BY <2>2, <2>6, <3>3 DEF Held, Follows
  <2> QED
    BY <2>3, <2>4, <2>5, <2>6
<1>6. Busy'
  <2> SUFFICES ASSUME NEW t \in Procs, NEW u \in {proc'[t]}, NEW d \in u.names \ spoiled' PROVE Held(u, d)'
    BY DEF Busy
  <2>1. CASE t = p
    BY <1>3, <1>5, <2>1
  <2>2. CASE t # p
    BY <1>1, <2>2
  <2> QED
    BY <2>1, <2>2
<1> QED
  BY <1>1, <1>4, <1>6 DEF Inv

\* A request that ends without a commit.
LEMMA Ending ==
  ASSUME Inv, NEW p \in Procs, NEW q, q = proc[p], q.op # "idle", Finish(p), Elsewhere(p), DiskTypes',
         UNCHANGED <<accounts, requests>>, q.op \in Everyone => q.names \subseteq spoiled',
         q.site \notin spoiled' => Calm(q.site)'
  PROVE  Inv'
<1>1. Idle \in Tickets /\ Fits(Idle) /\ Idle.op = "idle" /\ Idle.names = {}
  BY IdleFacts
<1>2. proc' = [proc EXCEPT ![p] = Idle] /\ LockMoves(p, Idle)
  BY DEF Finish, LockMoves
<1>3. /\ Types' /\ Alone' /\ Apart' /\ Unlent' /\ Claims'
      /\ \A t \in Procs \ {p} : \A u \in {proc[t]} : u = proc'[t] /\ \A d \in u.names \ spoiled' : Held(u, d)'
      /\ \A d \in Names \ spoiled' : AtRest(d)' /\ d \notin q.names => Calm(d)'
  BY <1>1, <1>2, Steady
<1>4. q \in Tickets /\ Fits(q) /\ q.names \subseteq Names /\ q.pc # "idle" /\ Serves(q)
  BY Working DEF Inv
<1>5. proc'[p] = Idle
  BY <1>2 DEF Inv, Types
<1>6. ASSUME NEW d \in q.names \ spoiled' PROVE Calm(d)'
  <2>1. CASE d = q.site
    BY <1>6, <2>1
  <2>2. CASE d # q.site
    <3>1. q.op \notin Everyone /\ d \in Names /\ d \notin spoiled /\ q.pc # "home"
      BY <1>4, <1>6 DEF Serves, Everyone, Elsewhere
    <3>2. Calm(d)
      BY <1>6, <2>2, <3>1 DEF Inv, Busy, Held
    <3> QED
      BY <1>6, <2>2, <3>1, <3>2, CalmKept
  <2> QED
    BY <2>1, <2>2
<1>7. Quiet'
  BY <1>3, <1>4, <1>6 DEF Quiet
<1>8. Busy'
  BY <1>1, <1>3, <1>5 DEF Busy
<1> QED
  BY <1>3, <1>7, <1>8 DEF Inv

\* A request whose program counter moves, and nothing else of it.
Steps(w, q) ==
    /\ w.op = q.op /\ w.site = q.site /\ w.arg = q.arg /\ w.r = q.r /\ w.bare = q.bare
    /\ w.had = q.had /\ w.todo = q.todo /\ w.names = q.names /\ w.loaded = q.loaded

LEMMA GotoFacts ==
  ASSUME Inv, NEW p \in Procs, NEW q, q = proc[p], q.op # "idle", NEW pc \in Pcs \ {"idle"}, Goto(p, pc)
  PROVE  \E w \in Tickets : /\ proc' = [proc EXCEPT ![p] = w] /\ w.pc = pc /\ Steps(w, q) /\ Follows(w, q)
                            /\ Serves(w) => Fits(w)
<1>1. PICK w : w = [q EXCEPT !.pc = pc]
  OBVIOUS
<1>2. q \in Tickets /\ Fits(q) /\ q # Idle /\ q.op # "idle"
  BY Working DEF Inv
<1>3. w \in Tickets /\ w.pc = pc /\ Steps(w, q)
  BY <1>1, <1>2 DEF Tickets, Steps
<1>4. proc' = [proc EXCEPT ![p] = w]
  BY <1>1 DEF Goto
<1>5. Follows(w, q)
  BY <1>3 DEF Steps, Follows
<1>6. Serves(w) => Fits(w)
  BY <1>2, <1>3 DEF Steps, Fits
<1> QED
  BY <1>3, <1>4, <1>5, <1>6

\* The next of the account's websites.
LEMMA NextSiteFacts ==
  ASSUME Inv, NEW p \in Procs, NEW q, q = proc[p], q.op \in Everyone, NextSite(p)
  PROVE  \E w \in Tickets : /\ proc' = [proc EXCEPT ![p] = w] /\ Fits(w) /\ Follows(w, q)
                            /\ w.pc = (IF q.op = "unsuspend" THEN "runtime" ELSE "unlink")
                            /\ w.site \in q.todo /\ w.todo = q.todo \ {w.site}
                            /\ w.site \notin spoiled =>
                                 Calm(w.site) /\ (Calm(w.site)' /\ row' = row => AtSite(w, w.site)')
<1>1. PICK d \in q.todo :
         proc' = [proc EXCEPT ![p].site = d, ![p].todo = @ \ {d},
                              ![p].pc = IF q.op = "unsuspend" THEN "runtime" ELSE "unlink",
                              ![p].r = [q.loaded[d] EXCEPT !.status = q.r.status]]
  BY DEF NextSite
<1>2. PICK r : r = [q.loaded[d] EXCEPT !.status = q.r.status]
  OBVIOUS
<1>3. PICK w : w = [q EXCEPT !.site = d, !.todo = q.todo \ {d},
                             !.pc = IF q.op = "unsuspend" THEN "runtime" ELSE "unlink", !.r = r]
  OBVIOUS
<1>4. /\ q \in Tickets /\ Fits(q) /\ q # Idle /\ q.op # "idle" /\ q.r \in GoodRows
      /\ d \in q.names /\ d # q.site /\ d \in Names /\ q.todo \subseteq q.names
  BY <1>1, Working DEF Inv, Everyone
<1>5. q.loaded[d] \in GoodRows
  BY <1>4 DEF Fits
<1>6. /\ r \in GoodRows /\ r.status = q.r.status /\ r.owner = q.loaded[d].owner
      /\ r.setting = q.loaded[d].setting /\ r.ssl = q.loaded[d].ssl /\ r.source = q.loaded[d].source
  BY <1>2, <1>4, <1>5, RowFacts DEF GoodRows, Rows
<1>7. /\ w \in Tickets /\ w.site = d /\ w.todo = q.todo \ {d} /\ w.r = r /\ w.op = q.op /\ w.arg = q.arg
      /\ w.names = q.names /\ w.loaded = q.loaded /\ w.bare = q.bare
      /\ w.pc = (IF q.op = "unsuspend" THEN "runtime" ELSE "unlink")
  <2>1. q \in Tickets /\ r \in GoodRows /\ d \in Names
    BY <1>4, <1>6
  <2>2. PICK c : c = IF q.op = "unsuspend" THEN "runtime" ELSE "unlink"
    OBVIOUS
  <2>3. c \in Pcs
    BY <2>2 DEF Pcs
  <2>4. PICK s : s = q.todo \ {d}
    OBVIOUS
  <2>5. q.todo \in SUBSET Names /\ s \in SUBSET Names
    BY <2>1, <2>4 DEF Tickets
  <2>6. w = [q EXCEPT !.site = d, !.todo = s, !.pc = c, !.r = r]
    BY <1>3, <2>2, <2>4
  <2>7. w \in Tickets
    BY <2>1, <2>3, <2>5, <2>6 DEF Tickets
  <2> QED
    BY <2>1, <2>2, <2>4, <2>6, <2>7 DEF Tickets
<1>8. proc' = [proc EXCEPT ![p] = w]
  <2>1. proc \in [Procs -> Tickets]
    BY DEF Inv, Types
  <2> QED
    BY <1>1, <1>2, <1>3, <2>1
<1>9. Follows(w, q)
  BY <1>6, <1>7 DEF Follows, Everyone, Patches
<1>10. Fits(w)
  <2>1. w.op \in Everyone /\ w.pc \in {"runtime", "unlink"} /\ Serves(w)
    BY <1>7 DEF Serves, Everyone, Done
  <2>2. w.site \in w.names /\ w.r \in GoodRows /\ w.todo \subseteq w.names \ {w.site}
    BY <1>4, <1>6, <1>7
  <2> QED
    BY <1>4, <1>6, <1>7, <2>1, <2>2 DEF Fits, Everyone
<1>11. ASSUME d \notin spoiled PROVE Calm(d) /\ (Calm(d)' /\ row' = row => AtSite(w, d)')
  <2>1. Held(q, d)
    BY <1>4, <1>11 DEF Inv, Busy
  <2>2. row[d] # None /\ q.loaded[d] = row[d] /\ Calm(d)
    BY <1>1, <1>4, <2>1 DEF Held
  <2>3. ASSUME Calm(d)', row' = row PROVE AtSite(w, d)'
    <3>1. Reads(w, d)'
      BY <1>6, <1>7, <2>2, <2>3 DEF Reads, Everyone, Patches
    <3>2. Before(w) /\ ~Gone(w) /\ ~Bare(w) /\ ~After(w) /\ w.pc \notin {"write", "test"}
      BY <1>7 DEF Before, Gone, Bare, After, Everyone
    <3>3. FileAt(w, d)' /\ CertsAt(w, d)'
      BY <1>7, <2>2, <2>3, <3>2 DEF FileAt, AsHeld, CertsAt, Calm, AsRow, Everyone, Patches
    <3>4. FolderAt(w, d)'
      BY <1>7, <2>2, <2>3 DEF FolderAt, Calm, AtHome, Everyone, Done
    <3> QED
      BY <3>1, <3>3, <3>4 DEF AtSite
  <2> QED
    BY <2>2, <2>3
<1> QED
  BY <1>1, <1>7, <1>8, <1>9, <1>10, <1>11

\* What the request holds, and what it has in hand.
LEMMA AtWork ==
  ASSUME Inv, NEW p \in Procs, NEW q, q = proc[p], q.pc # "idle"
  PROVE  /\ q \in Tickets /\ Fits(q) /\ q # Idle /\ q.op # "idle" /\ Serves(q) /\ q.site \in Names /\ q.r \in GoodRows
         /\ q.site \in q.names /\ q.names \subseteq Names /\ proc[p].site = q.site
         /\ q.site \notin spoiled => /\ AtSite(q, q.site)
                                     /\ q.op # "create" => /\ row[q.site] # None /\ row[q.site] \in GoodRows
                                                           /\ row[q.site].owner \in Owners
                                     /\ q.op \in Everyone \cup Patches => q.loaded[q.site] = row[q.site]
         /\ lock = p => Transacts(q)
         /\ q.op = "alias" /\ q.pc # "flush" => lock = p /\ aliasOf[q.arg] = None
<1>1. /\ q \in Tickets /\ Fits(q) /\ q # Idle /\ q.op # "idle" /\ Serves(q) /\ q.site \in Names /\ q.r \in GoodRows
      /\ q.site \in q.names /\ q.names \subseteq Names /\ proc[p].site = q.site
  BY Working DEF Inv
<1>2. q.site \notin spoiled => Held(q, q.site)
  BY <1>1 DEF Inv, Busy
<1>3. q.site \notin spoiled => AtSite(q, q.site) /\ (q.op # "create" => row[q.site] # None)
                               /\ (q.op \in Everyone \cup Patches => q.loaded[q.site] = row[q.site])
  BY <1>2 DEF Held, AtSite, Reads
<1>4. row[q.site] # None => row[q.site] \in GoodRows /\ row[q.site].owner \in Owners
  BY <1>1, RowFacts DEF Inv, Types
<1>5. lock = p => Transacts(q)
  BY Distinct DEF Inv, Types
<1>6. q.op = "alias" /\ q.pc # "flush" => lock = p /\ aliasOf[q.arg] = None
  BY DEF Inv, Claims
<1> QED
  BY <1>1, <1>3, <1>4, <1>5, <1>6

LEMMA NoDisk ==
  ASSUME Inv, NEW p \in Procs, UNCHANGED <<row, aliasOf, vhost, files, certs, kept>>,
         spoiled \subseteq spoiled', spoiled' \subseteq Names
  PROVE  /\ Elsewhere(p) /\ DiskTypes'
         /\ \A d : Calm(d) => Calm(d)'
         /\ \A q, d : AtSite(q, d) => AtSite(q, d)'
<1>1. Elsewhere(p) /\ DiskTypes'
  BY DEF Elsewhere, DiskTypes, Inv, Types
<1>2. \A d : /\ AliasesOf(d)' = AliasesOf(d) /\ (AsRow(d)' <=> AsRow(d)) /\ (NoFolder(d)' <=> NoFolder(d))
             /\ \A o : Folder(d, o)' <=> Folder(d, o)
  BY DEF AsRow, NoFolder, Folder, AliasesOf
<1>3. \A d : Calm(d) => Calm(d)'
  BY <1>2 DEF Calm, AtHome
<1>4. ASSUME NEW q, NEW d, AtSite(q, d) PROVE AtSite(q, d)'
  <2>1. Reads(q, d)'
    BY <1>2, <1>4 DEF AtSite, Reads
  <2>2. FileAt(q, d)'
    BY <1>2, <1>4 DEF AtSite, FileAt, AsHeld, WillServe, NewRow, NewAls
  <2>3. CertsAt(q, d)'
    BY <1>2, <1>4 DEF AtSite, CertsAt
  <2>4. FolderAt(q, d)'
    BY <1>2, <1>4 DEF AtSite, FolderAt
  <2> QED
    BY <2>1, <2>2, <2>3, <2>4 DEF AtSite
<1> QED
  BY <1>1, <1>3, <1>4

\* A step that moves the program counter and may change the disk.
LEMMA Walking ==
  ASSUME Inv, NEW p \in Procs, NEW q, q = proc[p], q.pc \notin {"idle", "flush"},
         NEW pc \in Pcs \ {"idle", "flush"}, Goto(p, pc),
         q.pc \in {"home", "commit"} => pc = "commit", Elsewhere(p), DiskTypes', UNCHANGED <<accounts, requests, lock>>,
         \A w : w.pc = pc /\ Steps(w, q) => Serves(w),
         q.site \notin spoiled' => \A w : w.pc = pc /\ Steps(w, q) => AtSite(w, q.site)'
  PROVE  Inv'
<1>1. PICK w \in Tickets : /\ proc' = [proc EXCEPT ![p] = w] /\ w.pc = pc /\ Steps(w, q) /\ Follows(w, q)
                           /\ Serves(w) => Fits(w)
  BY AtWork, GotoFacts
<1>2. Fits(w) /\ w.site = q.site /\ w.todo = q.todo /\ w.op = q.op /\ w.arg = q.arg
  BY <1>1 DEF Steps
<1>3. LockMoves(p, w) /\ (w.op = "alias" /\ w.pc # "flush" => lock' = p /\ aliasOf[w.arg] = None)
  BY <1>1, <1>2, AtWork DEF LockMoves, Transacts
<1>4. w.site \notin spoiled' => AtSite(w, w.site)'
  BY <1>1, <1>2
<1> QED
  BY <1>1, <1>2, <1>3, <1>4, AtWork, Going

LEMMA StepFacts ==
  ASSUME NEW w, NEW q, Steps(w, q)
  PROVE  /\ \A d : NewRow(w, d) = NewRow(q, d) /\ NewAls(w, d) = NewAls(q, d)
         /\ \A d : WillServe(w, d) <=> WillServe(q, d)
         /\ PastReturn(w) <=> PastReturn(q)
BY DEF Steps, NewRow, NewAls, WillServe, PastReturn

LEMMA InvTestPasses ==
  ASSUME Inv, NEW p \in Procs, TestPasses(p)
  PROVE  Inv'
<1>1. PICK q : q = proc[p]
  OBVIOUS
<1>2. /\ q.pc = "test" /\ proc' = [proc EXCEPT ![p].pc = "reload", ![p].old = None]
      /\ UNCHANGED <<row, aliasOf, accounts, vhost, files, certs, lock, requests, kept, spoiled>>
  BY <1>1 DEF TestPasses, At, db, disk
<1>3. Elsewhere(p) /\ DiskTypes' /\ \A w, d : AtSite(w, d) => AtSite(w, d)'
  BY <1>2, NoDisk DEF Inv, Types
<1>4. Serves(q) /\ (q.site \notin spoiled => AtSite(q, q.site))
  BY <1>1, <1>2, AtWork
<1>5. ASSUME NEW w, w.pc = "reload", Steps(w, q)
      PROVE  Serves(w) /\ (q.site \notin spoiled => AtSite(w, q.site))
  <2>1. Serves(w)
    BY <1>2, <1>4, <1>5 DEF Serves, Steps
  <2>2. ASSUME q.site \notin spoiled PROVE AtSite(w, q.site)
    <3>1. Reads(w, q.site)
      BY <1>2, <1>4, <1>5, <2>2 DEF AtSite, Reads, Steps
    <3>2. (Gone(w) <=> Gone(q)) /\ (Bare(w) <=> Bare(q))
      BY <1>2, <1>4, <1>5 DEF Gone, Bare, Steps
    <3>3. (After(w) <=> After(q)) /\ (Before(w) <=> Before(q))
      BY <1>2, <1>5, <3>2 DEF After, Before
    <3>4. FileAt(w, q.site) /\ CertsAt(w, q.site)
      BY <1>2, <1>4, <1>5, <2>2, <3>2, <3>3, StepFacts DEF AtSite, FileAt, CertsAt, Steps, AsHeld
    <3>5. FolderAt(w, q.site)
      BY <1>2, <1>4, <1>5, <2>2 DEF AtSite, FolderAt, Steps
    <3> QED
      BY <3>1, <3>4, <3>5 DEF AtSite
  <2> QED
    BY <2>1, <2>2
<1>6. PICK w : w = [q EXCEPT !.pc = "reload", !.old = None]
  OBVIOUS
<1>7. /\ q \in Tickets /\ Fits(q) /\ q # Idle /\ q.op # "idle" /\ (lock = p => Transacts(q))
      /\ q.op = "alias" => lock = p /\ aliasOf[q.arg] = None
  BY <1>1, <1>2, AtWork
<1>8. w \in Tickets /\ w.pc = "reload" /\ Steps(w, q)
  BY <1>6, <1>7 DEF Tickets, Steps, Pcs
<1>9. proc' = [proc EXCEPT ![p] = w]
  BY <1>1, <1>2, <1>6 DEF Inv, Types
<1>10. Serves(w) /\ (w.site \notin spoiled' => AtSite(w, w.site)')
  BY <1>2, <1>3, <1>5, <1>8 DEF Steps
<1>11. Fits(w) /\ Follows(w, q)
  BY <1>7, <1>8, <1>10 DEF Fits, Steps, Follows
<1>12. LockMoves(p, w) /\ (w.op = "alias" => lock' = p /\ aliasOf[w.arg] = None)
  BY <1>2, <1>7, <1>8 DEF LockMoves, Transacts, Steps
<1> QED
  BY <1>1, <1>2, <1>3, <1>7, <1>8, <1>9, <1>10, <1>11, <1>12, Going DEF Steps

\* A file that serves what a change without effect would commit serves the row.
LEMMA SameRow ==
  ASSUME Inv, NEW q, NEW d \in Names, row[d] # None, q.op = "ssl", q.r.ssl = row[d].ssl, q.r.source = row[d].source
  PROVE  NewRow(q, d) = row[d] /\ NewAls(q, d) = AliasesOf(d)
<1>1. row[d] \in Rows
  BY DEF Inv, Types, GoodRows
<1> QED
  BY <1>1 DEF NewRow, NewAls, Rows

LEMMA InvReload ==
  ASSUME Inv, NEW p \in Procs, Reload(p)
  PROVE  Inv'
<1>1. PICK q : q = proc[p]
  OBVIOUS
<1>2. PICK d : d = q.site
  OBVIOUS
<1>3. q.pc = "reload" /\ UNCHANGED <<row, aliasOf, accounts, vhost, files, certs, requests, kept, spoiled>>
  BY <1>1 DEF Reload, At, db, disk
<1>4. /\ Elsewhere(p) /\ DiskTypes'
      /\ \A x : Calm(x) => Calm(x)'
      /\ \A w, x : AtSite(w, x) => AtSite(w, x)'
  BY <1>3, NoDisk DEF Inv, Types
<1>5. /\ Serves(q) /\ Fits(q) /\ q # Idle /\ q.op # "idle" /\ d \in Names
      /\ q.op # "create" /\ d \notin spoiled => row[d] # None /\ row[d] \in GoodRows /\ row[d].owner \in Owners
      /\ d \notin spoiled => Reads(q, d) /\ FileAt(q, d) /\ CertsAt(q, d) /\ FolderAt(q, d)
  BY <1>1, <1>2, <1>3, AtWork DEF AtSite
<1>6. ~Gone(q) /\ (Bare(q) <=> q.op = "ssl" /\ q.bare) /\ (After(q) <=> ~Bare(q)) /\ q.op \in Writers
  BY <1>3, <1>5 DEF Gone, Bare, After, Serves, Writers, Done
<1>7. CASE q.op = "ssl" /\ ~q.bare
  <2>1. Finish(p)
    BY <1>1, <1>7 DEF Reload
  <2>2. ASSUME d \notin spoiled PROVE Calm(d)
    <3>1. WillServe(q, d) /\ q.r.ssl = row[d].ssl /\ q.r.source = row[d].source /\ row[d] # None
      BY <1>3, <1>5, <1>6, <1>7, <2>2 DEF FileAt, Reads, Everyone
    <3>2. AsRow(d)
      BY <1>5, <1>7, <3>1, SameRow DEF AsRow, WillServe
    <3>3. Folder(d, row[d].owner)
      BY <1>5, <1>7, <2>2 DEF FolderAt, Done
    <3> QED
      BY <3>1, <3>2, <3>3 DEF Calm, AtHome
  <2> QED
    BY <1>1, <1>2, <1>3, <1>4, <1>5, <1>7, <2>1, <2>2, Ending DEF Everyone
<1>8. ASSUME ~(q.op = "ssl" /\ ~q.bare), NEW pc, Goto(p, pc), lock' = lock,
             \/ q.op = "manual" /\ pc = "resync"
             \/ q.op = "ssl" /\ pc = "issue"
             \/ q.op \notin {"manual", "ssl"} /\ pc = "commit" /\ q.todo = {}
      PROVE  Inv'
  <2>1. ASSUME NEW w, w.pc = pc, Steps(w, q)
        PROVE  Serves(w) /\ (d \notin spoiled => AtSite(w, d))
    <3>1. Serves(w)
      BY <1>3, <1>5, <1>6, <1>8, <2>1 DEF Serves, Steps
    <3>2. ASSUME d \notin spoiled PROVE AtSite(w, d)
      <4>1. Reads(w, d)
        BY <1>3, <1>5, <1>8, <2>1, <3>2 DEF Reads, Steps
      <4>2. ~Gone(w) /\ (Bare(w) <=> Bare(q)) /\ (After(w) <=> After(q)) /\ ~Before(w)
        BY <1>3, <1>5, <1>6, <1>8, <2>1 DEF Gone, Bare, After, Before, Steps, Writers, Done
      <4>3. FileAt(w, d)
        BY <1>5, <2>1, <3>2, <4>2, StepFacts DEF FileAt
      <4>4. CertsAt(w, d)
        BY <1>3, <1>5, <1>6, <1>8, <2>1, <3>2, <4>2 DEF CertsAt, Steps
      <4>5. FolderAt(w, d)
        BY <1>3, <1>5, <1>6, <1>8, <2>1, <3>2 DEF FolderAt, Steps, Writers, Done
      <4> QED
        BY <4>1, <4>3, <4>4, <4>5 DEF AtSite
    <3> QED
      BY <3>1, <3>2
  <2>2. pc \in Pcs \ {"idle", "flush"}
    BY <1>8 DEF Pcs
  <2> QED
    BY <1>1, <1>2, <1>3, <1>4, <1>8, <2>1, <2>2, Walking
<1>9. CASE q.op \in {"suspend", "unsuspend"} /\ q.todo # {}
  <2>1. NextSite(p) /\ lock' = lock /\ q.op \in Everyone
    BY <1>1, <1>9 DEF Reload, Served, Everyone
  <2>2. PICK w \in Tickets :
            /\ proc' = [proc EXCEPT ![p] = w] /\ Fits(w) /\ Follows(w, q)
            /\ w.site \in q.todo /\ w.todo = q.todo \ {w.site}
            /\ w.site \notin spoiled => Calm(w.site) /\ (Calm(w.site)' /\ row' = row => AtSite(w, w.site)')
    BY <1>1, <2>1, NextSiteFacts
  <2>3. w.site # q.site
    BY <1>5, <2>2 DEF Fits
  <2>4. w.site \notin spoiled' => AtSite(w, w.site)'
    BY <1>3, <1>4, <2>2
  <2>5. ASSUME d \notin spoiled PROVE Passed(w, d)'
    <3>1. w.op = q.op /\ w.arg = q.arg /\ w.r.status = q.r.status
      BY <2>2 DEF Follows
    <3>2. NewRow(w, d) = NewRow(q, d) /\ NewAls(w, d) = NewAls(q, d)
      BY <1>9, <3>1 DEF NewRow, NewAls
    <3>3. WillServe(w, d)
      BY <1>5, <1>6, <1>9, <2>5, <3>2 DEF FileAt, WillServe
    <3>4. Folder(d, row[d].owner)
      BY <1>5, <1>9, <2>5 DEF FolderAt, Done
    <3>5. WillServe(w, d)' /\ Folder(d, row[d].owner)'
      BY <1>3, <3>3, <3>4 DEF WillServe, NewRow, NewAls, AliasesOf, Folder
    <3> QED
      BY <1>9, <3>1, <3>5 DEF Passed
  <2>6. LockMoves(p, w) /\ w.op # "alias"
    BY <1>1, <1>3, <1>9, <2>1, <2>2, AtWork DEF LockMoves, Transacts, Follows, Done
  <2> QED
    BY <1>1, <1>2, <1>3, <1>4, <1>5, <2>2, <2>3, <2>4, <2>5, <2>6, Going
<1>10. CASE ~(q.op = "ssl" /\ ~q.bare) /\ ~(q.op \in {"suspend", "unsuspend"} /\ q.todo # {})
  <2>1. Served(p) /\ lock' = lock
    BY <1>1, <1>10 DEF Reload
  <2>2. CASE q.op = "manual"
    BY <1>1, <1>8, <1>10, <2>1, <2>2 DEF Served
  <2>3. CASE q.op = "ssl"
    BY <1>1, <1>8, <1>10, <2>1, <2>3 DEF Served
  <2>4. CASE q.op \notin {"manual", "ssl"}
    <3>1. q.todo = {}
      BY <1>5, <1>6, <1>10 DEF Fits, Everyone, Writers
    <3>2. Goto(p, "commit")
      BY <1>1, <1>10, <2>1, <2>4 DEF Served
    <3> QED
      BY <1>8, <1>10, <2>1, <2>4, <3>1, <3>2
  <2> QED
    BY <2>2, <2>3, <2>4
<1> QED
  BY <1>7, <1>9, <1>10

LEMMA InvFlush ==
  ASSUME Inv, NEW p \in Procs, Flush(p)
  PROVE  Inv'
<1>1. PICK q : q = proc[p]
  OBVIOUS
<1>2. PICK d : d = q.site
  OBVIOUS
<1>3. PICK pc : pc = CASE q.op = "delete" -> "unlink" [] q.op = "remove" -> "home" [] OTHER -> "write"
  OBVIOUS
<1>4. /\ q.pc = "flush" /\ lock \in {None, p} /\ lock' = p /\ (q.op = "alias" => aliasOf[q.arg] = None)
      /\ Goto(p, pc) /\ UNCHANGED <<row, aliasOf, accounts, vhost, files, certs, requests, kept, spoiled>>
  BY <1>1, <1>3 DEF Flush, At, MayWrite, db, disk
<1>5. Elsewhere(p) /\ DiskTypes' /\ \A w, x : AtSite(w, x) => AtSite(w, x)'
  BY <1>4, NoDisk DEF Inv, Types
<1>6. Serves(q) /\ q.op # "idle" /\ (d \notin spoiled => AtSite(q, d))
  BY <1>1, <1>2, <1>4, AtWork
<1>7. q.op \in {"alias", "unalias"} \cup Done /\ q.todo = {} /\ pc \in Pcs \ {"idle", "flush"}
  BY <1>3, <1>4, <1>6 DEF Serves, Pcs, Done
<1>8. PICK w \in Tickets : /\ proc' = [proc EXCEPT ![p] = w] /\ w.pc = pc /\ Steps(w, q) /\ Follows(w, q)
                           /\ Serves(w) => Fits(w)
  BY <1>1, <1>4, <1>6, <1>7, GotoFacts
<1>9. Fits(w) /\ w.site = d /\ w.todo = q.todo /\ w.op = q.op /\ w.arg = q.arg
  BY <1>2, <1>3, <1>7, <1>8 DEF Steps, Serves, Writers, Done
<1>10. LockMoves(p, w) /\ (w.op = "alias" /\ w.pc # "flush" => lock' = p /\ aliasOf[w.arg] = None)
  BY <1>3, <1>4, <1>7, <1>8, <1>9 DEF LockMoves, Transacts, Done
<1>11. ASSUME d \notin spoiled PROVE AtSite(w, d)
  <2>1. Reads(w, d)
    BY <1>4, <1>6, <1>7, <1>8, <1>11 DEF AtSite, Reads, Steps, Done
  <2>2. FileAt(w, d) /\ CertsAt(w, d)
    BY <1>3, <1>4, <1>6, <1>7, <1>8, <1>11 DEF AtSite, FileAt, CertsAt, Gone, Bare, After, Before, Steps, Done, AsHeld, Patches
  <2>3. FolderAt(w, d)
    BY <1>3, <1>4, <1>6, <1>7, <1>8, <1>11 DEF AtSite, FolderAt, Steps, Done
  <2> QED
    BY <2>1, <2>2, <2>3 DEF AtSite
<1> QED
  BY <1>1, <1>2, <1>4, <1>5, <1>6, <1>8, <1>9, <1>10, <1>11, Going

LEMMA InvReloadUnlinked ==
  ASSUME Inv, NEW p \in Procs, ReloadUnlinked(p)
  PROVE  Inv'
<1>1. PICK q : q = proc[p]
  OBVIOUS
<1>2. PICK d : d = q.site
  OBVIOUS
<1>3. PICK pc : pc = IF q.op = "suspend" THEN "write" ELSE "release"
  OBVIOUS
<1>4. q.pc = "unlinked" /\ Goto(p, pc) /\ UNCHANGED <<row, aliasOf, accounts, vhost, files, certs, lock, requests, kept, spoiled>>
  BY <1>1, <1>3 DEF ReloadUnlinked, At, db, disk
<1>5. Elsewhere(p) /\ DiskTypes' /\ \A w, x : AtSite(w, x) => AtSite(w, x)'
  BY <1>4, NoDisk DEF Inv, Types
<1>6. Serves(q) /\ (d \notin spoiled => AtSite(q, d))
  BY <1>1, <1>2, <1>4, AtWork
<1>7. ASSUME NEW w, w.pc = pc, Steps(w, q)
      PROVE  Serves(w) /\ (d \notin spoiled => AtSite(w, d))
  <2>1. Serves(w)
    BY <1>3, <1>4, <1>6, <1>7 DEF Serves, Steps, Done, Writers
  <2>2. ASSUME d \notin spoiled PROVE AtSite(w, d)
    <3>1. Reads(w, d)
      BY <1>3, <1>4, <1>6, <1>7, <2>2 DEF AtSite, Reads, Steps, Serves, Done
    <3>2. FileAt(w, d) /\ CertsAt(w, d)
      BY <1>3, <1>4, <1>6, <1>7, <2>2 DEF AtSite, FileAt, CertsAt, Gone, Bare, After, Before, Steps, Serves, Done
    <3>3. FolderAt(w, d)
      BY <1>3, <1>4, <1>6, <1>7, <2>2 DEF AtSite, FolderAt, Steps, Serves, Done
    <3> QED
      BY <3>1, <3>2, <3>3 DEF AtSite
  <2> QED
    BY <2>1, <2>2
<1>8. pc \in Pcs \ {"idle", "flush"}
  BY <1>3 DEF Pcs
<1> QED
  BY <1>1, <1>2, <1>4, <1>5, <1>7, <1>8, Walking

-----------------------------------------------------------------------------
(* Steps that change the disk.                                              *)

\* One that changes its own file alone.
LEMMA OwnFile ==
  ASSUME Inv, NEW p \in Procs, UNCHANGED <<row, aliasOf, files, certs, kept, spoiled>>, proc[p].site \in Names,
         NEW v \in Vhosts \cup {None}, vhost' = [vhost EXCEPT ![proc[p].site] = v]
  PROVE  /\ Elsewhere(p) /\ DiskTypes' /\ vhost'[proc[p].site] = v
         /\ \A x : AliasesOf(x)' = AliasesOf(x) /\ (NoFolder(x)' <=> NoFolder(x))
         /\ \A x, o : Folder(x, o)' <=> Folder(x, o)
         /\ \A w, x : Reads(w, x) => Reads(w, x)'
         /\ \A w, x : FolderAt(w, x) => FolderAt(w, x)'
<1>1. vhost'[proc[p].site] = v /\ \A d \in Names \ {proc[p].site} : vhost'[d] = vhost[d]
  BY DEF Inv, Types
<1>2. Elsewhere(p) /\ DiskTypes'
  BY <1>1 DEF Elsewhere, DiskTypes, Inv, Types
<1>3. /\ \A x : AliasesOf(x)' = AliasesOf(x) /\ (NoFolder(x)' <=> NoFolder(x))
      /\ \A x, o : Folder(x, o)' <=> Folder(x, o)
  BY DEF AliasesOf, NoFolder, Folder
<1>4. \A w, x : Reads(w, x) => Reads(w, x)'
  BY <1>3 DEF Reads
<1>5. \A w, x : FolderAt(w, x) => FolderAt(w, x)'
  BY <1>3 DEF FolderAt
<1> QED
  BY <1>1, <1>2, <1>3, <1>4, <1>5

LEMMA InvUnlink ==
  ASSUME Inv, NEW p \in Procs, Unlink(p)
  PROVE  Inv'
<1>1. PICK q : q = proc[p]
  OBVIOUS
<1>2. PICK d : d = q.site
  OBVIOUS
<1>3. /\ q.pc = "unlink" /\ Goto(p, "unlinked") /\ vhost' = [vhost EXCEPT ![d] = None]
      /\ UNCHANGED <<row, aliasOf, accounts, files, certs, lock, requests, kept, spoiled>>
  BY <1>1, <1>2 DEF Unlink, At, db
<1>4. Serves(q) /\ (d \notin spoiled => AtSite(q, d)) /\ d \in Names
  BY <1>1, <1>2, <1>3, AtWork
<1>5. /\ Elsewhere(p) /\ DiskTypes' /\ vhost'[d] = None
      /\ \A w, x : Reads(w, x) => Reads(w, x)'
      /\ \A w, x : FolderAt(w, x) => FolderAt(w, x)'
  BY <1>1, <1>2, <1>3, <1>4, OwnFile
<1>6. ASSUME NEW w, w.pc = "unlinked", Steps(w, q)
      PROVE  Serves(w) /\ (d \notin spoiled => AtSite(w, d)')
  <2>1. Serves(w)
    BY <1>3, <1>4, <1>6 DEF Serves, Steps
  <2>2. ASSUME d \notin spoiled PROVE AtSite(w, d)'
    <3>1. Reads(w, d)
      BY <1>3, <1>4, <1>6, <2>2 DEF AtSite, Reads, Steps, Serves, Done
    <3>2. FileAt(w, d)'
      BY <1>3, <1>4, <1>5, <1>6 DEF FileAt, Gone, Bare, After, Before, Steps, Serves, Done
    <3>3. CertsAt(w, d)'
      BY <1>3, <1>4, <1>6, <2>2 DEF AtSite, CertsAt, Gone, Bare, After, Before, Steps, Serves, Done
    <3>4. FolderAt(w, d)
      BY <1>3, <1>4, <1>6, <2>2 DEF AtSite, FolderAt, Steps, Serves, Done
    <3> QED
      BY <1>5, <3>1, <3>2, <3>3, <3>4 DEF AtSite
  <2> QED
    BY <2>1, <2>2
<1> QED
  BY <1>1, <1>2, <1>3, <1>5, <1>6, Walking DEF Pcs

\* One that changes folders alone.
LEMMA OwnFolder ==
  ASSUME Inv, UNCHANGED <<row, aliasOf, vhost, certs>>
  PROVE  /\ \A x : AliasesOf(x)' = AliasesOf(x) /\ (AsRow(x)' <=> AsRow(x))
         /\ \A w, x : Reads(w, x) => Reads(w, x)'
         /\ \A w, x : FileAt(w, x) => FileAt(w, x)'
         /\ \A w, x : CertsAt(w, x) => CertsAt(w, x)'
<1>1. \A x : AliasesOf(x)' = AliasesOf(x) /\ (AsRow(x)' <=> AsRow(x))
  BY DEF AliasesOf, AsRow
<1>2. \A w, x : Reads(w, x) => Reads(w, x)'
  BY <1>1 DEF Reads
<1>3. \A w, x : FileAt(w, x) => FileAt(w, x)'
  BY <1>1 DEF FileAt, AsHeld, WillServe, NewRow, NewAls
<1>4. \A w, x : CertsAt(w, x) => CertsAt(w, x)'
  BY <1>1 DEF CertsAt
<1> QED
  BY <1>1, <1>2, <1>3, <1>4

LEMMA InvRuntime ==
  ASSUME Inv, NEW p \in Procs, Runtime(p)
  PROVE  Inv'
<1>1. PICK q : q = proc[p]
  OBVIOUS
<1>2. PICK d : d = q.site
  OBVIOUS
<1>3. /\ q.pc = "runtime" /\ Goto(p, "write") /\ files' = files \cup {<<q.r.owner, d>>}
      /\ UNCHANGED <<row, aliasOf, accounts, vhost, certs, lock, requests, kept, spoiled>>
  BY <1>1, <1>2 DEF Runtime, At, db
<1>4. /\ Serves(q) /\ (d \notin spoiled => AtSite(q, d)) /\ d \in Names /\ q.r.owner \in Owners
      /\ q.op # "create" /\ d \notin spoiled => row[d] # None
  BY <1>1, <1>2, <1>3, AtWork, RowFacts
<1>5. Elsewhere(p) /\ DiskTypes'
  <2>1. \A x \in Names \ {d}, o \in Owners : <<o, x>> \in files' <=> <<o, x>> \in files
    BY <1>3
  <2> QED
    BY <1>1, <1>2, <1>3, <1>4, <2>1 DEF Elsewhere, DiskTypes, Inv, Types
<1>6. ASSUME NEW w, w.pc = "write", Steps(w, q)
      PROVE  Serves(w) /\ (d \notin spoiled => AtSite(w, d)')
  <2>1. Serves(w)
    BY <1>3, <1>4, <1>6 DEF Serves, Steps, Writers
  <2>2. ASSUME d \notin spoiled PROVE AtSite(w, d)'
    <3>1. Reads(w, d)
      BY <1>3, <1>4, <1>6, <2>2 DEF AtSite, Reads, Steps, Serves
    <3>2. FileAt(w, d) /\ CertsAt(w, d)
      BY <1>3, <1>4, <1>6, <2>2 DEF AtSite, FileAt, AsHeld, CertsAt, Gone, Bare, After, Before, Steps, Serves, Done
    <3>3. FolderAt(w, d)'
      <4>1. CASE w.op = "create"
        <5>1. NoFolder(d) /\ w.r.owner = q.r.owner
          BY <1>3, <1>4, <1>6, <2>2, <4>1 DEF AtSite, FolderAt, Steps, Done
        <5>2. Folder(d, w.r.owner)'
          BY <1>3, <5>1 DEF NoFolder, Folder
        <5> QED
          BY <1>6, <4>1, <5>2 DEF FolderAt, Done
      <4>2. CASE w.op # "create"
        <5>1. w.op \in {"update", "unsuspend"} /\ q.op = w.op /\ w.r = q.r
          BY <1>3, <1>4, <1>6, <4>2 DEF Steps, Serves
        <5>2. Folder(d, q.r.owner) /\ (q.op = "unsuspend" => q.r.owner = row[d].owner)
          BY <1>3, <1>4, <1>6, <2>2, <5>1 DEF AtSite, FolderAt, Reads, Patches, Done
        <5>3. Folder(d, q.r.owner)'
          BY <1>3, <5>2 DEF Folder
        <5> QED
          BY <1>3, <5>1, <5>2, <5>3 DEF FolderAt, Done
      <4> QED
        BY <4>1, <4>2
    <3>4. Reads(w, d)' /\ FileAt(w, d)' /\ CertsAt(w, d)'
      BY <1>3, <3>1, <3>2, OwnFolder
    <3> QED
      BY <3>3, <3>4 DEF AtSite
  <2> QED
    BY <2>1, <2>2
<1> QED
  BY <1>1, <1>2, <1>3, <1>5, <1>6, Walking DEF Pcs

LEMMA InvMove ==
  ASSUME Inv, NEW p \in Procs, Move(p)
  PROVE  Inv'
<1>1. PICK q : q = proc[p]
  OBVIOUS
<1>2. PICK d : d = q.site
  OBVIOUS
<1>3. /\ q.pc = "move" /\ Goto(p, "write") /\ files' = (files \ {<<q.r.owner, d>>}) \cup {<<q.arg, d>>}
      /\ UNCHANGED <<row, aliasOf, accounts, vhost, certs, lock, requests, kept, spoiled>>
  BY <1>1, <1>2 DEF Move, At, db
<1>4. /\ Serves(q) /\ Fits(q) /\ q # Idle /\ (d \notin spoiled => AtSite(q, d)) /\ d \in Names /\ q.r.owner \in Owners
      /\ q.op = "transfer" /\ q.arg \in Owners
  <2>1. /\ Serves(q) /\ Fits(q) /\ q # Idle /\ (d \notin spoiled => AtSite(q, d)) /\ d \in Names /\ q.r \in GoodRows
    BY <1>1, <1>2, <1>3, AtWork
  <2>2. q.op = "transfer"
    BY <1>3, <2>1 DEF Serves
  <2> QED
    BY <2>1, <2>2, RowFacts DEF Fits
<1>5. Elsewhere(p) /\ DiskTypes'
  <2>1. \A x \in Names \ {d}, o \in Owners : <<o, x>> \in files' <=> <<o, x>> \in files
    BY <1>3
  <2> QED
    BY <1>1, <1>2, <1>3, <1>4, <2>1 DEF Elsewhere, DiskTypes, Inv, Types
<1>6. ASSUME NEW w, w.pc = "write", Steps(w, q)
      PROVE  Serves(w) /\ (d \notin spoiled => AtSite(w, d)')
  <2>1. Serves(w)
    BY <1>3, <1>4, <1>6 DEF Serves, Steps, Writers
  <2>2. ASSUME d \notin spoiled PROVE AtSite(w, d)'
    <3>1. Reads(w, d)
      BY <1>3, <1>4, <1>6, <2>2 DEF AtSite, Reads, Steps, Everyone
    <3>2. FileAt(w, d) /\ CertsAt(w, d)
      BY <1>3, <1>4, <1>6, <2>2 DEF AtSite, FileAt, AsHeld, CertsAt, Gone, Bare, After, Before, Steps, Done
    <3>3. FolderAt(w, d)'
      <4>1. Folder(d, q.r.owner)
        BY <1>3, <1>4, <2>2 DEF AtSite, FolderAt, Done
      <4>2. Folder(d, w.arg)'
        BY <1>3, <1>6, <4>1 DEF Folder, Steps
      <4> QED
        BY <1>4, <1>6, <4>2 DEF FolderAt, Folder, Steps, Done
    <3>4. Reads(w, d)' /\ FileAt(w, d)' /\ CertsAt(w, d)'
      BY <1>3, <3>1, <3>2, OwnFolder
    <3> QED
      BY <3>3, <3>4 DEF AtSite
  <2> QED
    BY <2>1, <2>2
<1> QED
  BY <1>1, <1>2, <1>3, <1>5, <1>6, Walking DEF Pcs

LEMMA InvRemoveHome ==
  ASSUME Inv, NEW p \in Procs, RemoveHome(p)
  PROVE  Inv'
<1>1. PICK q : q = proc[p]
  OBVIOUS
<1>2. PICK d : d = q.site
  OBVIOUS
<1>3. /\ q.pc = "home" /\ Goto(p, "commit") /\ files' = files \ ({q.arg} \X Names)
      /\ UNCHANGED <<row, aliasOf, accounts, vhost, certs, lock, requests, kept, spoiled>>
  BY <1>1, <1>2 DEF RemoveHome, At, db
<1>4. Serves(q) /\ (d \notin spoiled => AtSite(q, d)) /\ q.op = "remove" /\ q.todo = {} /\ d \in Names
  BY <1>1, <1>2, <1>3, AtWork DEF Serves
<1>5. Elsewhere(p) /\ DiskTypes'
  BY <1>1, <1>2, <1>3 DEF Elsewhere, DiskTypes, Inv, Types
<1>6. ASSUME NEW w, w.pc = "commit", Steps(w, q)
      PROVE  Serves(w) /\ (d \notin spoiled => AtSite(w, d)')
  <2>1. Serves(w)
    BY <1>4, <1>6 DEF Serves, Steps
  <2>2. ASSUME d \notin spoiled PROVE AtSite(w, d)'
    <3>1. Reads(w, d)
      BY <1>3, <1>4, <1>6, <2>2 DEF AtSite, Reads, Steps
    <3>2. FileAt(w, d) /\ CertsAt(w, d)
      BY <1>3, <1>4, <1>6, <2>2 DEF AtSite, FileAt, CertsAt, Gone, Bare, After, Before, Steps, Done
    <3>3. FolderAt(w, d)'
      BY <1>3, <1>4, <1>6, <2>2 DEF AtSite, FolderAt, NoFolder, Steps, Done
    <3>4. Reads(w, d)' /\ FileAt(w, d)' /\ CertsAt(w, d)'
      BY <1>3, <3>1, <3>2, OwnFolder
    <3> QED
      BY <3>3, <3>4 DEF AtSite
  <2> QED
    BY <2>1, <2>2
<1> QED
  BY <1>1, <1>2, <1>3, <1>5, <1>6, Walking DEF Pcs

\* A certificate that covers other names stays for as long as there is one.
LEMMA InvRelease ==
  ASSUME Inv, NEW p \in Procs, ReleaseCerts(p) \/ ReleaseBlind(p)
  PROVE  Inv'
<1>1. PICK q : q = proc[p]
  OBVIOUS
<1>2. PICK d : d = q.site
  OBVIOUS
<1>3. /\ q.pc = "release" /\ Goto(p, "files") /\ certs' \in {certs, certs \ ({d} \X Kinds)}
      /\ certs' = certs \/ ~StillUsed(d) \/ spoiled' = spoiled \cup (Borrowers(d) \ {d})
      /\ spoiled \subseteq spoiled' /\ spoiled' \subseteq Names /\ (d \in spoiled' => d \in spoiled)
      /\ UNCHANGED <<row, aliasOf, accounts, vhost, files, lock, requests, kept>>
  <2>1. Borrowers(d) \subseteq Names
    BY DEF Borrowers, Dependents, Inv, Types, Tickets
  <2> QED
    BY <1>1, <1>2, <2>1 DEF ReleaseCerts, ReleaseBlind, OwnGone, At, db, Kinds, Inv, Types
<1>4. Serves(q) /\ (d \notin spoiled => AtSite(q, d)) /\ d \in Names /\ q.op \in Done
  BY <1>1, <1>2, <1>3, AtWork DEF Serves
<1>5. Elsewhere(p) /\ DiskTypes'
  <2>1. \A x \in Names \ {d}, k \in Kinds : <<x, k>> \in certs' <=> <<x, k>> \in certs
    BY <1>3
  <2>2. ASSUME NEW x \in Names \ {d}, row[x] # None, Lends(d, certs), x \notin spoiled',
               x \in Dependents(d) \/ \E t \in Procs : x \in proc[t].names /\ proc[t].op = "share" /\ proc[t].arg = d
        PROVE  Lends(d, certs')
    <3>1. Covers(d) = Names
      BY <2>2 DEF Lends, Covers, HasCert
    <3>2. StillUsed(d)
      BY <2>2, <3>1 DEF StillUsed
    <3>3. x \in Borrowers(d)
      BY <2>2 DEF Borrowers
    <3> QED
      BY <1>3, <2>2, <3>2, <3>3
  <2>3. certs' \subseteq Names \X Kinds
    BY <1>3 DEF Inv, Types
  <2> QED
    BY <1>1, <1>2, <1>3, <2>1, <2>2, <2>3 DEF Elsewhere, DiskTypes, Inv, Types
<1>6. ASSUME NEW w, w.pc = "files", Steps(w, q)
      PROVE  Serves(w) /\ (d \notin spoiled => AtSite(w, d)')
  <2>1. Serves(w)
    BY <1>3, <1>4, <1>6 DEF Serves, Steps
  <2>2. ASSUME d \notin spoiled PROVE AtSite(w, d)'
    <3>1. Reads(w, d)'
      BY <1>3, <1>4, <1>6, <2>2 DEF AtSite, Reads, AliasesOf, Steps, Done, Patches
    <3>2. FileAt(w, d)' /\ CertsAt(w, d)'
      BY <1>3, <1>4, <1>6, <2>2 DEF AtSite, FileAt, CertsAt, Gone, Bare, After, Before, Steps, Done
    <3>3. FolderAt(w, d)'
      BY <1>3, <1>4, <1>6, <2>2 DEF AtSite, FolderAt, Folder, Steps, Done
    <3> QED
      BY <3>1, <3>2, <3>3 DEF AtSite
  <2> QED
    BY <2>1, <2>2
<1> QED
  BY <1>1, <1>2, <1>3, <1>5, <1>6, Walking DEF Pcs

LEMMA InvRemoveFiles ==
  ASSUME Inv, NEW p \in Procs, RemoveFiles(p)
  PROVE  Inv'
<1>1. PICK q : q = proc[p]
  OBVIOUS
<1>2. PICK d : d = q.site
  OBVIOUS
<1>3. PICK f : f = <<q.r.owner, d>>
  OBVIOUS
<1>4. /\ q.pc = "files" /\ UNCHANGED <<row, aliasOf, accounts, vhost, certs, lock, requests, spoiled>>
      /\ \/ files' = files /\ kept' = kept \cup {f}
         \/ files' = files \ {f} /\ kept' = kept
  BY <1>1, <1>2, <1>3 DEF RemoveFiles, At, db
<1>5. /\ Serves(q) /\ Fits(q) /\ q # Idle /\ (d \notin spoiled => AtSite(q, d)) /\ d \in Names /\ q.op \in Done
      /\ q.op # "idle" /\ q.r.owner \in Owners /\ (d \notin spoiled => row[d] # None) /\ (lock = p => Transacts(q))
  BY <1>1, <1>2, <1>4, AtWork, RowFacts DEF Serves, Done
<1>6. Elsewhere(p) /\ DiskTypes'
  <2>1. \A x \in Names \ {d}, o \in Owners : <<o, x>> \in files' <=> <<o, x>> \in files
    BY <1>3, <1>4
  <2> QED
    BY <1>1, <1>2, <1>3, <1>4, <1>5, <2>1 DEF Elsewhere, DiskTypes, Inv, Types
<1>7. /\ \A x : AsRow(x)' <=> AsRow(x)
      /\ \A w, x : Reads(w, x) => Reads(w, x)'
      /\ \A w, x : FileAt(w, x) => FileAt(w, x)'
      /\ \A w, x : CertsAt(w, x) => CertsAt(w, x)'
  BY <1>4, OwnFolder
<1>8. ASSUME d \notin spoiled
      PROVE  NoFolder(d)' /\ Reads(q, d) /\ q.op \notin {"create", "suspend"} /\ vhost[d] = None
  <2>1. Folder(d, row[d].owner) /\ q.r.owner = row[d].owner /\ Reads(q, d) /\ vhost[d] = None
    BY <1>4, <1>5, <1>8 DEF AtSite, FolderAt, Reads, FileAt, Gone, Done, Patches
  <2> QED
    BY <1>3, <1>4, <1>5, <2>1 DEF Folder, NoFolder, Done
<1>9. ASSUME NEW w, Steps(w, q), w.pc = "commit" \/ (q.op = "remove" /\ w.pc = "flush"), d \notin spoiled
      PROVE  AtSite(w, d)'
  <2>1. w.op = q.op /\ w.r = q.r /\ w.site = q.site
    BY <1>9 DEF Steps
  <2>2. Reads(w, d)'
    BY <1>4, <1>5, <1>7, <1>8, <1>9, <2>1 DEF Reads, Done, AliasesOf, Patches
  <2>3. Gone(w) /\ ~After(w) /\ ~Before(w) /\ ~Bare(w)
    BY <1>5, <1>9, <2>1 DEF Gone, After, Before, Bare, Done
  <2>4. FileAt(w, d)' /\ CertsAt(w, d)'
    BY <1>4, <1>5, <1>8, <1>9, <2>1, <2>3 DEF FileAt, CertsAt, Done
  <2>5. FolderAt(w, d)'
    BY <1>5, <1>8, <1>9, <2>1 DEF FolderAt, Done
  <2> QED
    BY <2>2, <2>4, <2>5 DEF AtSite
<1>10. CASE q.op = "delete"
  <2>1. Goto(p, "commit") /\ q.todo = {}
    BY <1>1, <1>5, <1>10 DEF RemoveFiles, Fits, Everyone
  <2>2. \A w : w.pc = "commit" /\ Steps(w, q) => Serves(w)
    BY <2>1 DEF Serves, Steps
  <2> QED
    BY <1>1, <1>2, <1>4, <1>6, <1>9, <2>1, <2>2, Walking DEF Pcs
<1>11. CASE q.op = "remove" /\ q.todo = {}
  <2>1. Goto(p, "flush")
    BY <1>1, <1>11 DEF RemoveFiles
  <2>2. PICK w \in Tickets : /\ proc' = [proc EXCEPT ![p] = w] /\ w.pc = "flush" /\ Steps(w, q) /\ Follows(w, q)
                             /\ Serves(w) => Fits(w)
    BY <1>1, <1>5, <2>1, GotoFacts DEF Pcs
  <2>3. Fits(w) /\ w.site = d /\ w.todo = q.todo /\ w.op = q.op
    BY <1>2, <1>11, <2>2 DEF Steps, Serves
  <2>4. LockMoves(p, w)
    BY <1>4, <1>5, <1>11 DEF LockMoves, Transacts
  <2>5. w.site \notin spoiled' => AtSite(w, w.site)'
    BY <1>4, <1>9, <1>11, <2>2, <2>3
  <2> QED
    BY <1>1, <1>2, <1>4, <1>5, <1>6, <1>11, <2>2, <2>3, <2>4, <2>5, Going
<1>12. CASE q.op = "remove" /\ q.todo # {}
  <2>1. NextSite(p) /\ q.op \in Everyone
    BY <1>1, <1>12 DEF RemoveFiles, Everyone
  <2>2. PICK w \in Tickets :
            /\ proc' = [proc EXCEPT ![p] = w] /\ Fits(w) /\ Follows(w, q)
            /\ w.site \in q.todo /\ w.todo = q.todo \ {w.site}
            /\ w.site \notin spoiled => Calm(w.site) /\ (Calm(w.site)' /\ row' = row => AtSite(w, w.site)')
    BY <1>1, <2>1, NextSiteFacts
  <2>3. w.site # q.site /\ w.site \in Names
    BY <1>1, <1>5, <2>2, AtWork DEF Fits
  <2>4. ASSUME w.site \notin spoiled' PROVE AtSite(w, w.site)'
    <3>1. Calm(w.site)'
      BY <1>1, <1>4, <1>6, <2>2, <2>3, <2>4, CalmKept
    <3> QED
      BY <1>4, <2>2, <2>4, <3>1
  <2>5. d \notin spoiled => Passed(w, d)'
    BY <1>4, <1>8, <1>12, <2>2 DEF Passed, Follows
  <2>6. LockMoves(p, w) /\ w.op # "alias"
    BY <1>4, <1>5, <1>12, <2>2 DEF LockMoves, Transacts, Follows
  <2> QED
    BY <1>1, <1>2, <1>4, <1>5, <1>6, <2>2, <2>3, <2>4, <2>5, <2>6, Going
<1> QED
  BY <1>5, <1>10, <1>11, <1>12 DEF Done

\* What a request writes into its file.
LEMMA WrittenFacts ==
  ASSUME Types, NEW q \in Tickets, Fits(q), q # Idle, NEW v, v = Written(q)
  PROVE  /\ v \in Vhosts /\ v # None
         /\ v.mode = IF q.r.status = "active" THEN "full" ELSE "static"
         /\ q.r.status # "active" \/ q.bare => v.cert = None
         /\ q.r.status = "active" =>
              /\ v.home = IF q.op = "transfer" THEN q.arg ELSE q.r.owner
              /\ v.setting = IF q.op = "update" THEN q.arg ELSE q.r.setting
              /\ v.aliases = CASE q.op = "create" -> {} [] OTHER -> NewAls(q, q.site)
              /\ ~q.bare => v.cert = CertFor(q.site, q.r)
<1>1. /\ q.r \in GoodRows /\ q.site \in Names
      /\ q.op = "update" => q.arg \in Settings
      /\ q.op = "transfer" => q.arg \in Owners
      /\ q.op \in {"alias", "unalias"} => q.arg \in Names
      /\ q.bare => q.op = "ssl"
  BY DEF Fits, Tickets
<1>2. q.r.owner \in Owners /\ q.r.status \in {"active", "suspended"} /\ q.r.setting \in Settings
  BY <1>1, RowFacts
<1>3. CASE q.r.status = "suspended"
  <2>1. v = [mode |-> "static", home |-> q.r.owner, setting |-> q.r.setting, aliases |-> {}, cert |-> None]
    BY <1>3 DEF Written, Static
  <2> QED
    BY <1>2, <1>3, <2>1, Distinct DEF Vhosts
<1>4. CASE q.r.status = "active"
  <2>1. PICK als : als = CASE q.op = "alias" -> AliasesOf(q.site) \cup {q.arg}
                           [] q.op = "unalias" -> AliasesOf(q.site) \ {q.arg}
                           [] q.op = "create" -> {}
                           [] OTHER -> AliasesOf(q.site)
    OBVIOUS
  <2>2. PICK c : c = CertFor(q.site, q.r)
    OBVIOUS
  <2>3. als \subseteq Names /\ als = CASE q.op = "create" -> {} [] OTHER -> NewAls(q, q.site)
    BY <1>1, <2>1 DEF AliasesOf, NewAls
  <2>4. c \in (Names \X {"letsencrypt", "manual"}) \cup {None}
    <3>1. q.r.ssl = "shared" => q.r.source \in Names
      BY <1>1, RowFacts
    <3>2. vhost[q.site] # None => vhost[q.site].cert \in (Names \X {"letsencrypt", "manual"}) \cup {None}
      BY <1>1 DEF Types, Vhosts
    <3> QED
      BY <1>1, <2>2, <3>1, <3>2 DEF CertFor, Borrowed
  <2>5. PICK f : f = [mode |-> "full", home |-> q.r.owner, setting |-> q.r.setting, aliases |-> als, cert |-> c]
    OBVIOUS
  <2>6. f = Full(q.site, q.r, als)
    BY <2>2, <2>5 DEF Full
  <2>7. v = CASE q.op = "update" -> [f EXCEPT !.setting = q.arg]
              [] q.op = "transfer" -> [f EXCEPT !.home = q.arg]
              [] q.bare -> [f EXCEPT !.cert = None]
              [] OTHER -> f
    BY <1>4, <2>1, <2>6 DEF Written
  <2>8. CASE q.op = "update"
    BY <1>1, <1>2, <1>4, <2>2, <2>3, <2>4, <2>5, <2>7, <2>8, Distinct DEF Vhosts
  <2>9. CASE q.op = "transfer"
    BY <1>1, <1>2, <1>4, <2>2, <2>3, <2>4, <2>5, <2>7, <2>9, Distinct DEF Vhosts
  <2>10. CASE q.bare
    BY <1>1, <1>2, <1>4, <2>2, <2>3, <2>4, <2>5, <2>7, <2>10, Distinct DEF Vhosts
  <2>11. CASE ~q.bare /\ q.op \notin {"update", "transfer"}
    BY <1>1, <1>2, <1>4, <2>2, <2>3, <2>4, <2>5, <2>7, <2>11, Distinct DEF Vhosts
  <2> QED
    BY <2>8, <2>9, <2>10, <2>11
<1> QED
  BY <1>2, <1>3, <1>4

\* It is what the request will commit, but for a certificate that goes first.
LEMMA WrittenServes ==
  ASSUME Inv, NEW p \in Procs, NEW q, q = proc[p], q.pc = "write", NEW d, d = q.site, d \notin spoiled,
         NEW v, v = Written(q), ~q.bare
  PROVE  Shows(v, d, NewRow(q, d), NewAls(q, d), certs) /\ Certified(d, NewRow(q, d), certs)
<1>1. /\ q \in Tickets /\ Fits(q) /\ q # Idle /\ d \in Names /\ q.r \in GoodRows /\ q.op \in Writers
      /\ Reads(q, d) /\ FileAt(q, d) /\ CertsAt(q, d)
      /\ q.op # "create" => row[d] # None /\ row[d] \in GoodRows
  BY AtWork DEF AtSite, Serves
<1>2. PICK n : n = NewRow(q, d)
  OBVIOUS
<1>3. n \in GoodRows
  BY <1>1, <1>2, NewRowFacts DEF Inv, Writers
<1>4. /\ n.status = q.r.status /\ n.owner = (IF q.op = "transfer" THEN q.arg ELSE q.r.owner)
      /\ n.setting = IF q.op = "update" THEN q.arg ELSE q.r.setting
      /\ n.ssl = q.r.ssl /\ n.source = q.r.source
  BY <1>1, <1>2 DEF Reads, NewRow, Writers, Everyone, Patches
<1>5. ~After(q) /\ (Before(q) \/ q.op = "suspend" \/ q.op = "ssl")
  BY DEF After, Before, Gone, Bare
<1>6. Certified(d, n, certs)
  <2>1. CASE q.op = "create"
    BY <1>1, <1>4, <2>1, PlainFacts, RowFacts DEF Reads, Certified
  <2>2. CASE q.op = "share"
    BY <1>1, <1>4, <2>2 DEF CertsAt, Certified
  <2>3. CASE q.op = "manual"
    BY <1>1, <1>4, <2>3 DEF Reads, CertsAt, Certified
  <2>4. CASE q.op \notin {"create", "share", "manual"}
    <3>1. Certified(d, row[d], certs) /\ q.r.ssl = row[d].ssl /\ q.r.source = row[d].source
      BY <1>1, <1>5, <2>4 DEF CertsAt, Reads, Writers, Done
    <3> QED
      BY <1>4, <3>1 DEF Certified
  <2> QED
    BY <2>1, <2>2, <2>3, <2>4
<1>7. PICK c : c = CertFor(d, q.r)
  OBVIOUS
<1>8. /\ c \in certs \cup {None}
      /\ c \in Own(d) \cup {None} \/ (n.ssl = "shared" /\ c = Lent(n.source, certs))
      /\ n.ssl = "manual" => c = <<d, "manual">>
      /\ n.ssl = "shared" => c = Lent(n.source, certs)
  <2>1. CASE n.ssl = "manual"
    BY <1>4, <1>6, <1>7, <2>1 DEF CertFor, Certified, Own
  <2>2. CASE n.ssl = "shared"
    <3>1. c = Lent(n.source, certs)
      BY <1>4, <1>7, <2>2 DEF CertFor, Borrowed, Lent
    <3>2. Lent(n.source, certs) \in certs
      BY <1>6, <2>2 DEF Certified, Lends, Lent, Own
    <3> QED
      BY <2>2, <3>1, <3>2
  <2>3. CASE n.ssl \notin {"manual", "shared"}
    <3>1. c = IF vhost[d] = None THEN None ELSE vhost[d].cert
      BY <1>4, <1>7, <2>3 DEF CertFor
    <3>2. CASE vhost[d] = None
      BY <2>3, <3>1, <3>2
    <3>3. CASE vhost[d] # None
      <4>1. q.op \notin {"share", "manual", "suspend", "ssl", "create"}
        BY <1>1, <1>4, <2>3, <3>3 DEF Reads, FileAt, Gone, Bare, After, Before, AsRow, AsHeld, Patches
      <4>2. CASE q.op \in Patches
        BY <1>1, <1>4, <1>5, <2>3, <3>1, <3>3, <4>1, <4>2 DEF FileAt, AsHeld, Shows
      <4>3. CASE q.op \notin Patches
        <5>1. AsRow(d) /\ row[d] # None /\ row[d].ssl = n.ssl
          BY <1>1, <1>4, <1>5, <4>1, <4>3 DEF Reads, FileAt, AsHeld
        <5> QED
          BY <2>3, <3>1, <3>3, <5>1 DEF AsRow, Shows
      <4> QED
        BY <4>2, <4>3
    <3> QED
      BY <3>2, <3>3
  <2> QED
    BY <2>1, <2>2, <2>3
<1>9. /\ v # None /\ v.mode = IF n.status = "active" THEN "full" ELSE "static"
      /\ n.status # "active" => v.cert = None
      /\ n.status = "active" => v.home = n.owner /\ v.setting = n.setting /\ v.cert = c
      /\ n.status = "active" => v.aliases = CASE q.op = "create" -> {} [] OTHER -> NewAls(q, d)
  BY <1>1, <1>4, <1>7, WrittenFacts DEF Inv
<1>10. n.status = "active" => v.aliases = NewAls(q, d)
  BY <1>1, <1>9 DEF Reads, NewAls
<1>11. Shows(v, d, n, NewAls(q, d), certs)
  BY <1>8, <1>9, <1>10 DEF Shows
<1> QED
  BY <1>2, <1>6, <1>11

\* With no part of a change in effect, what a request holds is the row.
LEMMA HeldIsRow ==
  ASSUME NEW q, NEW d, Reads(q, d), AsHeld(q, d),
         q.op \in Patches => ~q.had /\ q.r \in GoodRows /\ row[d] \in GoodRows /\ Certified(d, row[d], certs)
  PROVE  AsRow(d)
<1>1. CASE q.op \in Patches
  <2>1. q.r.owner = row[d].owner /\ q.r.setting = row[d].setting /\ q.r.status = row[d].status
        /\ q.r.ssl = row[d].ssl /\ q.r.source = row[d].source /\ row[d] # None
    BY <1>1 DEF Reads, Patches, Everyone
  <2>2. q.r = row[d]
    BY <1>1, <2>1 DEF GoodRows, Rows
  <2> QED
    BY <1>1, <2>1, <2>2 DEF AsHeld, AsRow
<1>2. CASE q.op \notin Patches
  BY <1>2 DEF AsHeld
<1> QED
  BY <1>1, <1>2

LEMMA InvWriteVhost ==
  ASSUME Inv, NEW p \in Procs, WriteVhost(p)
  PROVE  Inv'
<1>1. PICK q : q = proc[p]
  OBVIOUS
<1>2. PICK d : d = q.site
  OBVIOUS
<1>3. PICK v : v = Written(q)
  OBVIOUS
<1>4. PICK w : w = [q EXCEPT !.pc = "test", !.old = vhost[d]]
  OBVIOUS
<1>5. /\ q.pc = "write" /\ proc' = [proc EXCEPT ![p].pc = "test", ![p].old = vhost[d]]
      /\ vhost' = [vhost EXCEPT ![d] = v]
      /\ UNCHANGED <<row, aliasOf, accounts, files, certs, lock, requests, kept, spoiled>>
  BY <1>1, <1>2, <1>3 DEF WriteVhost, At, db
<1>6. /\ q \in Tickets /\ Fits(q) /\ q # Idle /\ q.op # "idle" /\ Serves(q) /\ q.op \in Writers /\ d \in Names
      /\ lock = p => Transacts(q)
      /\ q.op = "alias" => lock = p /\ aliasOf[q.arg] = None
      /\ d \notin spoiled => Reads(q, d) /\ FileAt(q, d) /\ CertsAt(q, d) /\ FolderAt(q, d)
      /\ d \notin spoiled => q.op = "create" \/ row[d] # None
  BY <1>1, <1>2, <1>5, AtWork DEF Serves, AtSite
<1>7. v \in Vhosts /\ v # None
  BY <1>3, <1>6, WrittenFacts DEF Inv
<1>8. vhost[d] \in Vhosts \cup {None}
  BY <1>6 DEF Inv, Types
<1>9. /\ w \in Tickets /\ w.pc = "test" /\ w.old = vhost[d] /\ w.op = q.op /\ w.site = q.site /\ w.arg = q.arg
      /\ w.r = q.r /\ w.bare = q.bare /\ w.had = q.had /\ w.todo = q.todo /\ w.names = q.names /\ w.loaded = q.loaded
  BY <1>4, <1>6, <1>8 DEF Tickets, Pcs
<1>10. proc' = [proc EXCEPT ![p] = w]
  BY <1>1, <1>4, <1>5 DEF Inv, Types
<1>11. Fits(w) /\ Follows(w, q)
  <2>1. Serves(w)
    BY <1>6, <1>9 DEF Serves
  <2> QED
    BY <1>6, <1>9, <2>1 DEF Fits, Follows
<1>12. /\ Elsewhere(p) /\ DiskTypes' /\ vhost'[d] = v
       /\ \A x : AliasesOf(x)' = AliasesOf(x)
       /\ \A u, x : Reads(u, x) => Reads(u, x)'
       /\ \A u, x : FolderAt(u, x) => FolderAt(u, x)'
  BY <1>1, <1>2, <1>5, <1>6, <1>7, OwnFile
<1>13. LockMoves(p, w) /\ (w.op = "alias" => lock' = p /\ aliasOf[w.arg] = None)
  BY <1>5, <1>6, <1>9 DEF LockMoves, Transacts, Writers, Done
<1>14. ASSUME d \notin spoiled PROVE AtSite(w, d)'
  <2>1. Reads(w, d)
    BY <1>5, <1>6, <1>9, <1>14 DEF Reads
  <2>2. ~After(q) /\ (Gone(q) <=> q.op = "suspend") /\ (Bare(q) <=> q.op = "ssl" /\ ~q.bare)
    BY <1>5, <1>6 DEF After, Gone, Bare, Writers, Done
  <2>3. ~Gone(w) /\ (Bare(w) <=> w.bare) /\ (After(w) <=> ~w.bare) /\ ~Before(w)
    BY <1>6, <1>9 DEF After, Before, Gone, Bare, Fits, Writers, Done
  <2>4. NewRow(w, d) = NewRow(q, d) /\ NewAls(w, d) = NewAls(q, d)
    BY <1>9 DEF NewRow, NewAls
  <2>5. ASSUME w.bare PROVE FileAt(w, d)'
    <3>1. q.op = "ssl" /\ q.bare
      BY <1>6, <1>9, <2>5 DEF Fits
    <3>2. /\ v.cert = None /\ v.mode = IF row[d].status = "active" THEN "full" ELSE "static"
          /\ row[d].status = "active" =>
               v.home = row[d].owner /\ v.setting = row[d].setting /\ v.aliases = AliasesOf(d)
      <4>1. NewAls(q, d) = AliasesOf(d) /\ q.op \notin {"create", "transfer", "update"}
        BY <3>1 DEF NewAls
      <4>2. q.r.status = row[d].status /\ q.r.owner = row[d].owner /\ q.r.setting = row[d].setting
        BY <1>6, <1>14, <3>1 DEF Reads, Everyone, Patches
      <4> QED
        BY <1>2, <1>3, <1>6, <3>1, <4>1, <4>2, WrittenFacts DEF Inv
    <3> QED
      BY <1>5, <1>7, <1>12, <2>3, <2>5, <3>2 DEF FileAt
  <2>6. ASSUME ~w.bare PROVE FileAt(w, d)'
    <3>1. Shows(v, d, NewRow(w, d), NewAls(w, d), certs) /\ Certified(d, NewRow(w, d), certs)
      BY <1>1, <1>2, <1>3, <1>5, <1>9, <1>14, <2>4, <2>6, WrittenServes
    <3>2. NewRow(w, d)' = NewRow(w, d) /\ NewAls(w, d)' = NewAls(w, d)
      BY <1>5, <1>12 DEF NewRow, NewAls
    <3>3. WillServe(w, d)'
      BY <1>5, <1>12, <3>1, <3>2 DEF WillServe
    <3> QED
      BY <2>3, <2>6, <3>3 DEF FileAt
  <2>7. CertsAt(w, d)'
    <3>1. w.op \notin Done \cup {"create"} => Certified(d, row[d], certs)
      BY <1>5, <1>6, <1>9, <1>14, <2>2 DEF CertsAt
    <3>2. w.op = "share" => Certified(d, w.r, certs)
      BY <1>5, <1>6, <1>9, <1>14, <2>2 DEF CertsAt
    <3>3. ASSUME ~PastReturn(w)
          PROVE  IF w.op = "create" THEN vhost[d] = None
                 ELSE /\ Shows(vhost[d], d, row[d], AliasesOf(d), certs)
                      /\ w.op = "manual" /\ ~w.had => row[d].ssl # "manual" /\ vhost[d].cert # <<d, "manual">>
      <4>1. AsRow(d)
        <5>1. AsHeld(q, d) /\ (q.op \in Patches => ~q.had)
          BY <1>6, <1>9, <1>14, <2>2, <3>3 DEF FileAt, Before, PastReturn, Patches
        <5>2. q.r \in GoodRows /\ (q.op # "create" => row[d] # None /\ row[d] \in GoodRows)
          BY <1>1, <1>2, <1>5, <1>14, AtWork
        <5>3. q.op \in Patches => Certified(d, row[d], certs)
          BY <1>5, <1>6, <1>14, <2>2 DEF CertsAt, Patches, Done
        <5> QED
          BY <1>6, <1>14, <5>1, <5>2, <5>3, HeldIsRow DEF Patches
      <4>2. w.op = "create" => row[d] = None
        BY <1>6, <1>9, <1>14 DEF Reads
      <4> QED
        BY <1>5, <1>6, <1>9, <1>14, <4>1, <4>2 DEF AsRow, CertsAt
    <3> QED
      BY <1>5, <1>9, <1>12, <3>1, <3>2, <3>3 DEF CertsAt
  <2>8. FolderAt(w, d)
    BY <1>5, <1>6, <1>9, <1>14 DEF FolderAt, Writers, Done
  <2> QED
    BY <1>12, <2>1, <2>5, <2>6, <2>7, <2>8 DEF AtSite
<1> QED
  BY <1>1, <1>2, <1>5, <1>6, <1>9, <1>10, <1>11, <1>12, <1>13, <1>14, Going

-----------------------------------------------------------------------------
(* The ends of a request that does not commit.                              *)

\* What a request had not touched is as it was.
LEMMA Untouched ==
  ASSUME Inv, NEW p \in Procs, NEW q, q = proc[p], q.pc # "idle", NEW d, d = q.site, d \notin spoiled,
         Before(q), ~(q.op = "create" /\ q.pc # "runtime"), ~(q.op = "transfer" /\ q.pc # "move"),
         q.op \in Patches => ~q.had,
         q.op \in Done => q.pc \notin {"flush", "home", "commit"} \/ (q.op = "delete" /\ q.pc = "flush")
  PROVE  Calm(d)
<1>1. AtSite(q, d) /\ (q.op # "create" => row[d] # None)
  BY AtWork
<1>2. AsRow(d)
  <2>1. q.op \in Patches => Certified(d, row[d], certs) /\ row[d] \in GoodRows /\ q.r \in GoodRows
    BY <1>1, AtWork DEF AtSite, CertsAt, Before, Patches, Done
  <2> QED
    BY <1>1, <2>1, HeldIsRow DEF AtSite, FileAt
<1>3. AtHome(d)
  <2>1. CASE q.op = "create"
    BY <1>1, <2>1 DEF AtSite, FolderAt, AtHome, Reads, Done
  <2>2. CASE q.op # "create"
    <3>0. q.op \in Patches => q.r.owner = row[d].owner
      BY <1>1, <2>2 DEF AtSite, Reads
    <3>1. Folder(d, row[d].owner)
      BY <1>1, <2>2, <3>0 DEF AtSite, FolderAt, Done, Patches
    <3> QED
      BY <1>1, <2>2, <3>1 DEF AtHome
  <2> QED
    BY <2>1, <2>2
<1> QED
  BY <1>2, <1>3 DEF Calm

LEMMA InvMoveRefused ==
  ASSUME Inv, NEW p \in Procs, MoveRefused(p)
  PROVE  Inv'
<1>1. PICK q : q = proc[p]
  OBVIOUS
<1>2. /\ q.pc = "move" /\ Finish(p) /\ spoiled' = IF q.had THEN spoiled \cup q.names ELSE spoiled
      /\ UNCHANGED <<row, aliasOf, accounts, vhost, files, certs, requests, kept>>
  BY <1>1 DEF MoveRefused, SpoilIf, Spoil, At, db, disk
<1>4. q.op = "transfer" /\ q.site \in q.names /\ q.names \subseteq Names
  BY <1>1, <1>2, AtWork DEF Serves
<1>3. Elsewhere(p) /\ DiskTypes' /\ \A x : Calm(x) => Calm(x)'
  BY <1>2, <1>4, NoDisk DEF Inv, Types
<1>5. q.site \notin spoiled' => Calm(q.site)
  <2>1. Before(q)
    BY <1>2, <1>4 DEF Before, Gone, Bare, After, Done
  <2> QED
    BY <1>1, <1>2, <1>4, <2>1, Untouched DEF Done
<1> QED
  BY <1>1, <1>2, <1>3, <1>4, <1>5, Ending DEF Everyone

LEMMA InvFlushFails ==
  ASSUME Inv, NEW p \in Procs, FlushFails(p)
  PROVE  Inv'
<1>1. PICK q : q = proc[p]
  OBVIOUS
<1>2. /\ q.pc = "flush" /\ Finish(p) /\ UNCHANGED <<row, aliasOf, accounts, vhost, files, certs, requests, kept>>
      /\ IF q.op = "remove" THEN spoiled' = spoiled \cup q.names ELSE spoiled' = spoiled
  BY <1>1 DEF FlushFails, At, Spoil, db, disk
<1>3. q.op \in {"alias", "unalias", "delete", "remove"} /\ q.site \in q.names /\ q.names \subseteq Names
  BY <1>1, <1>2, AtWork DEF Serves
<1>4. Elsewhere(p) /\ DiskTypes' /\ \A x : Calm(x) => Calm(x)'
  BY <1>2, <1>3, NoDisk DEF Inv, Types
<1>5. q.op # "remove" /\ q.site \notin spoiled => Calm(q.site)
  <2>1. q.op # "remove" => Before(q)
    BY <1>2, <1>3 DEF Before, Gone, Bare, After, Done
  <2> QED
    BY <1>1, <1>2, <1>3, <2>1, Untouched DEF Done, Patches
<1> QED
  BY <1>1, <1>2, <1>3, <1>4, <1>5, Ending DEF Everyone

\* The ends past what a request can undo.
LEMMA InvSpoiling ==
  ASSUME Inv, NEW p \in Procs, PartRefused(p) \/ UnlinkedFails(p) \/ DeleteRefused(p) \/ CommitFails(p)
  PROVE  Inv'
<1>1. PICK q : q = proc[p]
  OBVIOUS
<1>2. /\ q.pc \in {"unlinked", "files", "home", "commit"} /\ Finish(p) /\ spoiled' = spoiled \cup q.names
      /\ UNCHANGED <<row, aliasOf, accounts, vhost, files, certs, requests, kept>>
  BY <1>1 DEF PartRefused, UnlinkedFails, DeleteRefused, CommitFails, At, Spoil, db, disk
<1>3. q.op # "idle" /\ q.site \in q.names /\ q.names \subseteq Names
  BY <1>1, <1>2, AtWork
<1>4. Elsewhere(p) /\ DiskTypes'
  BY <1>2, <1>3, NoDisk DEF Inv, Types
<1> QED
  BY <1>1, <1>2, <1>3, <1>4, Ending

\* What a failing request takes back is its own.
LEMMA CleanUpFacts ==
  ASSUME Inv, NEW p \in Procs, NEW q, q = proc[p], q.pc # "idle", NEW d, d = q.site, NEW removed, CleanUp(p, removed)
  PROVE  /\ q.op # "create" => files' = files
         /\ q.op = "create" /\ removed => files' = files \ {<<q.r.owner, d>>}
         /\ ~(q.op = "manual" /\ ~q.had) => certs' = certs
         /\ q.op = "manual" /\ ~q.had => certs' = certs \ {<<d, "manual">>}
         /\ files' \subseteq Owners \X Names /\ certs' \subseteq Names \X Kinds
         /\ \A x \in Names \ {d}, k \in Kinds : <<x, k>> \in certs' <=> <<x, k>> \in certs
         /\ \A x \in Names \ {d}, o \in Owners : <<o, x>> \in files' <=> <<o, x>> \in files
<1>1. /\ q.op # "create" => files' = files
      /\ q.op = "create" /\ removed => files' = files \ {<<q.r.owner, d>>}
      /\ q.op = "create" /\ ~removed => files' = files \cup {<<q.r.owner, d>>}
      /\ ~(q.op = "manual" /\ ~q.had) => certs' = certs
      /\ q.op = "manual" /\ ~q.had => certs' = certs \ {<<d, "manual">>}
  BY DEF CleanUp
<1>5. d \in Names /\ q.r.owner \in Owners
  BY AtWork, RowFacts
<1>2. files' \subseteq Owners \X Names /\ certs' \subseteq Names \X Kinds
  BY <1>1, <1>5 DEF Inv, Types
<1>3. \A x \in Names \ {d}, k \in Kinds : <<x, k>> \in certs' <=> <<x, k>> \in certs
  BY <1>1
<1>4. \A x \in Names \ {d}, o \in Owners : <<o, x>> \in files' <=> <<o, x>> \in files
  BY <1>1
<1> QED
  BY <1>1, <1>2, <1>3, <1>4

LEMMA InvReloadFails ==
  ASSUME Inv, NEW p \in Procs, ReloadFails(p)
  PROVE  Inv'
<1>1. PICK q : q = proc[p]
  OBVIOUS
<1>2. /\ q.pc = "reload" /\ (\E removed \in BOOLEAN : CleanUp(p, removed))
      /\ Finish(p) /\ spoiled' = spoiled \cup q.names
      /\ UNCHANGED <<row, aliasOf, accounts, vhost, requests, kept>>
  BY <1>1 DEF ReloadFails, At, Spoil, db
<1>3. q.op # "idle" /\ q.site \in q.names /\ q.names \subseteq Names
  BY <1>1, <1>2, AtWork
<1>4. /\ certs' = certs \/ q.op = "manual"
      /\ files' \subseteq Owners \X Names /\ certs' \subseteq Names \X Kinds
      /\ \A x \in Names \ {q.site}, k \in Kinds : <<x, k>> \in certs' <=> <<x, k>> \in certs
      /\ \A x \in Names \ {q.site}, o \in Owners : <<o, x>> \in files' <=> <<o, x>> \in files
  BY <1>1, <1>2, CleanUpFacts
<1>5. Elsewhere(p) /\ DiskTypes'
  BY <1>1, <1>2, <1>3, <1>4 DEF Elsewhere, DiskTypes, Inv, Types
<1> QED
  BY <1>1, <1>2, <1>3, <1>5, Ending

LEMMA InvRuntimeFails ==
  ASSUME Inv, NEW p \in Procs, RuntimeFails(p)
  PROVE  Inv'
<1>1. PICK q : q = proc[p]
  OBVIOUS
<1>2. PICK d : d = q.site
  OBVIOUS
<1>3. PICK removed \in BOOLEAN :
      /\ q.pc = "runtime" /\ CleanUp(p, removed) /\ Finish(p)
      /\ IF PastReturn(q) \/ (q.op = "create" /\ ~removed) THEN spoiled' = spoiled \cup q.names ELSE spoiled' = spoiled
      /\ UNCHANGED <<row, aliasOf, accounts, vhost, requests, kept>>
  BY <1>1 DEF RuntimeFails, Fails, SpoilIf, At, Spoil, db
<1>4. /\ q.op \in {"create", "update", "unsuspend"} /\ d \in q.names /\ q.names \subseteq Names
      /\ d \notin spoiled => Reads(q, d)
  BY <1>1, <1>2, <1>3, AtWork DEF Serves, AtSite
<1>5. /\ q.op # "create" => files' = files
      /\ q.op = "create" /\ removed => files' = files \ {<<q.r.owner, d>>}
      /\ certs' = certs /\ files' \subseteq Owners \X Names
      /\ \A x \in Names \ {d}, o \in Owners : <<o, x>> \in files' <=> <<o, x>> \in files
  BY <1>1, <1>2, <1>3, <1>4, CleanUpFacts
<1>6. Elsewhere(p) /\ DiskTypes'
  BY <1>1, <1>2, <1>3, <1>4, <1>5 DEF Elsewhere, DiskTypes, Inv, Types
<1>7. q.op \in Everyone => q.op = "unsuspend" /\ q.names \subseteq spoiled'
  BY <1>3, <1>4 DEF Everyone, PastReturn
<1>8. ASSUME d \notin spoiled' PROVE Calm(d)'
  <2>1. d \notin spoiled /\ Before(q)
    BY <1>3, <1>4, <1>8 DEF Before, Gone, Bare, After, Done
  <2>6. /\ q.op = "create" => removed
        /\ q.op \in Patches => ~q.had
    BY <1>3, <1>4, <1>8 DEF PastReturn, Patches
  <2>2. Calm(d)
    BY <1>1, <1>2, <1>3, <1>4, <2>1, <2>6, Untouched DEF Done
  <2>3. AsRow(d)'
    BY <1>3, <1>5, <2>2 DEF Calm, AsRow, AliasesOf
  <2>4. CASE q.op = "create"
    BY <1>3, <1>4, <1>5, <2>1, <2>2, <2>3, <2>4, <2>6 DEF Calm, AtHome, NoFolder, Reads
  <2>5. CASE q.op # "create"
    BY <1>3, <1>5, <2>2, <2>3, <2>5 DEF Calm, AtHome, NoFolder, Folder
  <2> QED
    BY <2>4, <2>5
<1> QED
  BY <1>1, <1>2, <1>3, <1>4, <1>6, <1>7, <1>8, Ending

\* An upload that is taken back leaves what was served without it.
LEMMA TakenBack ==
  ASSUME Inv, NEW p \in Procs, NEW q, q = proc[p], NEW d \in Names \ spoiled, d = q.site, q.op = "manual",
         row[d] # None, row[d].ssl # "manual", Certified(d, row[d], certs),
         NEW v, NEW als, Shows(v, d, row[d], als, certs), v.cert # <<d, "manual">>, certs' = certs \ {<<d, "manual">>}
  PROVE  Certified(d, row[d], certs') /\ Shows(v, d, row[d], als, certs')
<1>1. row[d].ssl = "shared" => row[d].source \in Names \ {d}
  BY RowFacts DEF Inv, Types, Unlent
<1>2. row[d].ssl = "shared" => /\ Lends(row[d].source, certs') <=> Lends(row[d].source, certs)
                               /\ Lent(row[d].source, certs') = Lent(row[d].source, certs)
  BY <1>1 DEF Lends, Lent
<1>3. Certified(d, row[d], certs')
  BY <1>1, <1>2 DEF Certified
<1>4. v.cert \in certs' \cup {None}
  BY DEF Shows
<1> QED
  BY <1>2, <1>3, <1>4 DEF Shows

\* The firewall's rules could not be written: the file is not touched, and an
\* upload is taken back.
LEMMA InvRulesRefused ==
  ASSUME Inv, NEW p \in Procs, RulesRefused(p)
  PROVE  Inv'
<1>1. PICK q : q = proc[p]
  OBVIOUS
<1>2. PICK d : d = q.site
  OBVIOUS
<1>3. PICK removed \in BOOLEAN :
      /\ q.pc = "write" /\ q.op \in Patches \cup {"create", "manual", "share", "refresh"}
      /\ CleanUp(p, removed) /\ Finish(p)
      /\ IF PastReturn(q) \/ q.op = "create" THEN spoiled' = spoiled \cup q.names ELSE spoiled' = spoiled
      /\ UNCHANGED <<row, aliasOf, accounts, vhost, requests, kept>>
  BY <1>1 DEF RulesRefused, Fails, SpoilIf, At, Spoil, db
<1>4. /\ q.op # "idle" /\ d \in q.names /\ q.names \subseteq Names /\ d \in Names
      /\ d \notin spoiled => AtSite(q, d)
  BY <1>1, <1>2, <1>3, AtWork
<1>5. /\ q.op # "create" => files' = files
      /\ ~(q.op = "manual" /\ ~q.had) => certs' = certs
      /\ q.op = "manual" /\ ~q.had => certs' = certs \ {<<d, "manual">>}
      /\ files' \subseteq Owners \X Names /\ certs' \subseteq Names \X Kinds
      /\ \A x \in Names \ {d}, k \in Kinds : <<x, k>> \in certs' <=> <<x, k>> \in certs
      /\ \A x \in Names \ {d}, o \in Owners : <<o, x>> \in files' <=> <<o, x>> \in files
  BY <1>1, <1>2, <1>3, CleanUpFacts
<1>6. Elsewhere(p) /\ DiskTypes'
  BY <1>1, <1>2, <1>3, <1>4, <1>5 DEF Elsewhere, DiskTypes, Inv, Types
<1>7. ASSUME d \notin spoiled' PROVE Calm(d)'
  <2>1. d \notin spoiled /\ q.op # "create" /\ q.op # "transfer" /\ (q.op \in Patches => ~q.had)
    BY <1>3, <1>4, <1>7 DEF PastReturn, Patches
  <2>2. Before(q) /\ q.op \notin Done
    BY <1>3 DEF Before, Gone, Bare, After, Done, Patches
  <2>3. Calm(d) /\ row[d] # None
    BY <1>1, <1>2, <1>3, <1>4, <2>1, <2>2, Untouched DEF AtSite, Reads
  <2>4. /\ AliasesOf(d)' = AliasesOf(d) /\ Folder(d, row[d].owner)'
        /\ Shows(vhost[d], d, row[d], AliasesOf(d), certs) /\ Certified(d, row[d], certs)
    BY <1>3, <1>5, <2>1, <2>3 DEF Calm, AsRow, AtHome, Folder, AliasesOf
  <2>5. Shows(vhost[d], d, row[d], AliasesOf(d), certs') /\ Certified(d, row[d], certs')
    <3>1. CASE ~(q.op = "manual" /\ ~q.had)
      BY <1>5, <2>4, <3>1
    <3>2. CASE q.op = "manual" /\ ~q.had
      <4>1. row[d].ssl # "manual" /\ vhost[d].cert # <<d, "manual">>
        BY <1>3, <1>4, <2>1, <3>2 DEF AtSite, CertsAt
      <4> QED
        BY <1>1, <1>2, <1>4, <1>5, <2>1, <2>3, <2>4, <3>2, <4>1, TakenBack
    <3> QED
      BY <3>1, <3>2
  <2> QED
    BY <1>3, <2>3, <2>4, <2>5 DEF Calm, AsRow, AtHome
<1>8. q.op \notin Everyone
  BY <1>3 DEF Everyone, Patches
<1> QED
  BY <1>1, <1>2, <1>3, <1>4, <1>6, <1>7, <1>8, Ending

\* The file is put back, and with it what the row says is served again.
LEMMA InvTestFails ==
  ASSUME Inv, NEW p \in Procs, TestFails(p)
  PROVE  Inv'
<1>1. PICK q : q = proc[p]
  OBVIOUS
<1>2. PICK d : d = q.site
  OBVIOUS
<1>3. PICK removed \in BOOLEAN :
      /\ q.pc = "test" /\ CleanUp(p, removed) /\ Finish(p) /\ vhost' = [vhost EXCEPT ![d] = q.old]
      /\ IF PastReturn(q) \/ (q.op = "create" /\ ~removed) THEN spoiled' = spoiled \cup q.names ELSE spoiled' = spoiled
      /\ UNCHANGED <<row, aliasOf, accounts, requests, kept>>
  BY <1>1, <1>2 DEF TestFails, Fails, SpoilIf, At, Spoil, db
<1>4. /\ q \in Tickets /\ q.op \in Writers /\ d \in q.names /\ q.names \subseteq Names /\ d \in Names
      /\ q.op # "create" /\ d \notin spoiled => row[d] # None /\ row[d] \in GoodRows /\ row[d].owner \in Owners
      /\ d \notin spoiled => Reads(q, d) /\ CertsAt(q, d) /\ FolderAt(q, d)
  BY <1>1, <1>2, <1>3, AtWork DEF Serves, AtSite
<1>5. /\ q.op # "create" => files' = files
      /\ q.op = "create" /\ removed => files' = files \ {<<q.r.owner, d>>}
      /\ ~(q.op = "manual" /\ ~q.had) => certs' = certs
      /\ q.op = "manual" /\ ~q.had => certs' = certs \ {<<d, "manual">>}
      /\ files' \subseteq Owners \X Names /\ certs' \subseteq Names \X Kinds
      /\ \A x \in Names \ {d}, k \in Kinds : <<x, k>> \in certs' <=> <<x, k>> \in certs
      /\ \A x \in Names \ {d}, o \in Owners : <<o, x>> \in files' <=> <<o, x>> \in files
  BY <1>1, <1>2, <1>3, CleanUpFacts
<1>6. /\ q.old \in Vhosts \cup {None} /\ vhost'[d] = q.old /\ vhost' \in [Names -> Vhosts \cup {None}]
      /\ \A x \in Names \ {d} : vhost'[x] = vhost[x]
  BY <1>3, <1>4 DEF Tickets, Inv, Types
<1>7. Elsewhere(p) /\ DiskTypes'
  BY <1>1, <1>2, <1>3, <1>4, <1>5, <1>6 DEF Elsewhere, DiskTypes, Inv, Types
<1>8. q.op \in Everyone => q.names \subseteq spoiled'
  BY <1>3, <1>4 DEF Everyone, PastReturn, Writers
<1>9. ASSUME d \notin spoiled' PROVE Calm(d)'
  <2>1. d \notin spoiled /\ ~PastReturn(q) /\ AliasesOf(d)' = AliasesOf(d) /\ (q.op = "create" => removed)
    BY <1>3, <1>4, <1>9 DEF AliasesOf
  <2>2. CASE q.op = "create"
    <3>1. q.old = None /\ row[d] = None /\ AliasesOf(d) = {} /\ Folder(d, q.r.owner)
      BY <1>3, <1>4, <2>1, <2>2 DEF CertsAt, Reads, FolderAt, Done
    <3>2. NoFolder(d)'
      BY <1>3, <1>5, <2>1, <2>2, <3>1 DEF Folder, NoFolder
    <3> QED
      BY <1>3, <1>6, <2>1, <3>1, <3>2 DEF Calm, AsRow, AtHome
  <2>3. CASE q.op # "create"
    <3>1. q.op \notin Done \cup {"transfer"}
      BY <1>4, <2>1 DEF Writers, Done, PastReturn
    <3>2. /\ Certified(d, row[d], certs) /\ Shows(q.old, d, row[d], AliasesOf(d), certs)
          /\ q.op = "manual" /\ ~q.had => row[d].ssl # "manual" /\ q.old.cert # <<d, "manual">>
      BY <1>3, <1>4, <2>1, <2>3, <3>1 DEF CertsAt
    <3>3. Folder(d, row[d].owner)
      BY <1>4, <2>1, <2>3, <3>1 DEF FolderAt, Reads, PastReturn, Patches
    <3>4. Certified(d, row[d], certs') /\ Shows(q.old, d, row[d], AliasesOf(d), certs')
      <4>1. CASE ~(q.op = "manual" /\ ~q.had)
        BY <1>5, <3>2, <4>1
      <4>2. CASE q.op = "manual" /\ ~q.had
        BY <1>1, <1>2, <1>4, <1>5, <2>1, <2>3, <3>2, <4>2, TakenBack
      <4> QED
        BY <4>1, <4>2
    <3>5. AsRow(d)'
      BY <1>3, <1>4, <1>6, <2>1, <2>3, <3>4 DEF AsRow
    <3>6. AtHome(d)'
      BY <1>3, <1>4, <1>5, <2>1, <2>3, <3>3 DEF AtHome, Folder
    <3> QED
      BY <3>5, <3>6 DEF Calm
  <2> QED
    BY <2>2, <2>3
<1>10. q.op # "idle"
  BY <1>4 DEF Writers
<1> QED
  BY <1>1, <1>2, <1>3, <1>7, <1>8, <1>9, <1>10, Ending

-----------------------------------------------------------------------------
(* Certificates come and go.                                                *)

\* A website that does not borrow from itself is served on when its own change.
LEMMA OwnCerts ==
  ASSUME NEW d \in Names, NEW r \in GoodRows, r.ssl = "shared" => r.source \in Names \ {d},
         NEW cs, NEW ds, \A x \in Names \ {d}, k \in Kinds : <<x, k>> \in ds <=> <<x, k>> \in cs,
         Certified(d, r, cs), r.ssl = "manual" => <<d, "manual">> \in ds
  PROVE  /\ Certified(d, r, ds)
         /\ \A v, als : Shows(v, d, r, als, cs) /\ v.cert \in ds \cup {None} => Shows(v, d, r, als, ds)
<1>1. r.ssl = "shared" => /\ Lends(r.source, ds) <=> Lends(r.source, cs)
                          /\ Lent(r.source, ds) = Lent(r.source, cs)
  BY DEF Lends, Lent, Kinds
<1>2. Certified(d, r, ds)
  BY <1>1 DEF Certified
<1>3. \A v, als : Shows(v, d, r, als, cs) /\ v.cert \in ds \cup {None} => Shows(v, d, r, als, ds)
  BY <1>1 DEF Shows
<1> QED
  BY <1>2, <1>3

\* Who replaces a certificate is at a website that does not borrow from itself.
LEMMA OwnLender ==
  ASSUME Inv, NEW p \in Procs, NEW q, q = proc[p], q.op \in {"ssl", "manual"}, NEW d, d = q.site, d \notin spoiled
  PROVE  /\ d \in Names /\ row[d] # None /\ row[d] \in GoodRows
         /\ row[d].ssl = "shared" => row[d].source \in Names \ {d}
<1>1. q.pc # "idle" /\ d \in Names
  BY Working DEF Inv
<1>2. row[d] # None /\ row[d] \in GoodRows
  BY <1>1, AtWork
<1> QED
  BY <1>1, <1>2, RowFacts DEF Inv, Unlent

LEMMA InvInstallFiles ==
  ASSUME Inv, NEW p \in Procs, InstallFiles(p)
  PROVE  Inv'
<1>1. PICK q : q = proc[p]
  OBVIOUS
<1>2. PICK d : d = q.site
  OBVIOUS
<1>3. PICK c : c = <<d, "manual">>
  OBVIOUS
<1>4. PICK r : r = [q.r EXCEPT !.ssl = "manual"]
  OBVIOUS
<1>5. PICK had : had = (c \in certs)
  OBVIOUS
<1>6. PICK w : w = [q EXCEPT !.pc = "write", !.had = had, !.r = r]
  OBVIOUS
<1>7. /\ q.pc = "install" /\ certs' = certs \cup {c}
      /\ proc' = [proc EXCEPT ![p].pc = "write", ![p].had = c \in certs, ![p].r.ssl = "manual"]
      /\ UNCHANGED <<row, aliasOf, accounts, vhost, files, lock, requests, kept, spoiled>>
  BY <1>1, <1>2, <1>3 DEF InstallFiles, At, db
<1>8. /\ q \in Tickets /\ Fits(q) /\ q # Idle /\ q.op = "manual" /\ d \in Names /\ q.r \in GoodRows
      /\ lock = p => Transacts(q)
      /\ d \notin spoiled => Reads(q, d) /\ FileAt(q, d) /\ CertsAt(q, d) /\ FolderAt(q, d)
  BY <1>1, <1>2, <1>7, AtWork DEF Serves, AtSite
<1>9. r \in GoodRows /\ r.ssl = "manual" /\ r.owner = q.r.owner /\ r.setting = q.r.setting
      /\ r.status = q.r.status /\ r.source = q.r.source
  BY <1>4, <1>8, RowFacts DEF GoodRows, Rows
<1>10. /\ w \in Tickets /\ w.pc = "write" /\ w.had = had /\ w.r = r /\ w.op = q.op /\ w.site = q.site
       /\ w.arg = q.arg /\ w.bare = q.bare /\ w.todo = q.todo /\ w.names = q.names /\ w.loaded = q.loaded
  <2>1. had \in BOOLEAN
    BY <1>5
  <2> QED
    BY <1>6, <1>8, <1>9, <2>1 DEF Tickets, Pcs
<1>11. proc' = [proc EXCEPT ![p] = w]
  <2>1. proc' = [proc EXCEPT ![p].pc = "write", ![p].had = had, ![p].r.ssl = "manual"]
    BY <1>5, <1>7
  <2>2. proc \in [Procs -> Tickets]
    BY DEF Inv, Types
  <2> QED
    BY <1>1, <1>4, <1>6, <2>1, <2>2
<1>12. Fits(w) /\ Follows(w, q)
  <2>1. Serves(w)
    BY <1>8, <1>10 DEF Serves, Writers, Fits, Everyone
  <2> QED
    BY <1>8, <1>9, <1>10, <2>1 DEF Fits, Follows, Everyone, Patches
<1>13. \A x \in Names \ {d}, k \in Kinds : <<x, k>> \in certs' <=> <<x, k>> \in certs
  BY <1>3, <1>7
<1>14. Elsewhere(p) /\ DiskTypes'
  <2>1. certs' \subseteq Names \X Kinds
    BY <1>3, <1>7, <1>8 DEF Inv, Types, Kinds
  <2> QED
    BY <1>1, <1>2, <1>7, <1>8, <1>13, <2>1 DEF Elsewhere, DiskTypes, Inv, Types
<1>15. LockMoves(p, w)
  BY <1>7, <1>8 DEF LockMoves, Transacts, Done
<1>16. ASSUME d \notin spoiled PROVE AtSite(w, d)'
  <2>1. row[d] # None /\ row[d] \in GoodRows /\ (row[d].ssl = "shared" => row[d].source \in Names \ {d})
    BY <1>1, <1>2, <1>8, <1>16, OwnLender
  <2>2. ~Gone(w) /\ ~Bare(w) /\ ~After(w) /\ Before(w) /\ Before(q) /\ ~After(q)
    BY <1>7, <1>8, <1>10 DEF Gone, Bare, After, Before, Done
  <2>3. Certified(d, row[d], certs) /\ Shows(vhost[d], d, row[d], AliasesOf(d), certs)
    BY <1>8, <1>16, <2>1, <2>2 DEF FileAt, AsRow, AsHeld, Patches
  <2>4. Certified(d, row[d], certs') /\ Shows(vhost[d], d, row[d], AliasesOf(d), certs')
    <3>1. row[d].ssl = "manual" => <<d, "manual">> \in certs'
      BY <1>3, <1>7
    <3>2. vhost[d].cert \in certs' \cup {None}
      BY <1>7, <2>3 DEF Shows
    <3> QED
      BY <1>8, <1>13, <2>1, <2>3, <3>1, <3>2, OwnCerts
  <2>5. AliasesOf(d)' = AliasesOf(d)
    BY <1>7 DEF AliasesOf
  <2>6. Reads(w, d)'
    BY <1>7, <1>8, <1>9, <1>10, <1>16, <2>5 DEF Reads, Everyone, Patches
  <2>7. FileAt(w, d)'
    BY <1>7, <1>8, <1>10, <2>1, <2>2, <2>4, <2>5 DEF FileAt, AsRow, AsHeld, Patches
  <2>8. ~had => row[d].ssl # "manual" /\ vhost[d].cert # c
    <3>1. c # None
      BY <1>3, <1>8, Distinct DEF Kinds
    <3> QED
      BY <1>3, <1>5, <2>3, <3>1 DEF Certified, Shows
  <2>9. CertsAt(w, d)'
    BY <1>3, <1>7, <1>8, <1>10, <2>4, <2>8 DEF CertsAt
  <2>10. FolderAt(w, d)'
    BY <1>7, <1>8, <1>10, <1>16 DEF FolderAt, Folder, Done
  <2> QED
    BY <2>6, <2>7, <2>9, <2>10 DEF AtSite
<1> QED
  BY <1>1, <1>2, <1>7, <1>8, <1>10, <1>11, <1>12, <1>14, <1>15, <1>16, Going

LEMMA InvIssueFails ==
  ASSUME Inv, NEW p \in Procs, IssueFails(p)
  PROVE  Inv'
<1>1. PICK q : q = proc[p]
  OBVIOUS
<1>2. PICK d : d = q.site
  OBVIOUS
<1>3. PICK w : w = [q EXCEPT !.pc = "write", !.bare = FALSE]
  OBVIOUS
<1>4. /\ q.pc = "issue" /\ certs' \in {certs, certs \cup {<<d, "letsencrypt">>}}
      /\ IF q.bare THEN proc' = [proc EXCEPT ![p].pc = "write", ![p].bare = FALSE] /\ lock' = lock ELSE Finish(p)
      /\ UNCHANGED <<row, aliasOf, accounts, vhost, files, requests, kept, spoiled>>
  BY <1>1, <1>2 DEF IssueFails, At, db
<1>5. /\ q \in Tickets /\ Fits(q) /\ q # Idle /\ q.op = "ssl" /\ d \in Names /\ q.r \in GoodRows
      /\ lock = p => Transacts(q)
      /\ d \notin spoiled => Reads(q, d) /\ FileAt(q, d) /\ CertsAt(q, d) /\ FolderAt(q, d)
  BY <1>1, <1>2, <1>4, AtWork DEF Serves, AtSite
<1>6. /\ \A x \in Names \ {d}, k \in Kinds : <<x, k>> \in certs' <=> <<x, k>> \in certs
      /\ certs \subseteq certs'
  BY <1>4
<1>7. Elsewhere(p) /\ DiskTypes'
  <2>1. certs' \subseteq Names \X Kinds
    BY <1>4, <1>5 DEF Inv, Types, Kinds
  <2> QED
    BY <1>1, <1>2, <1>4, <1>5, <1>6, <2>1 DEF Elsewhere, DiskTypes, Inv, Types
<1>8. ~After(q) /\ ~Gone(q) /\ (Bare(q) <=> q.bare) /\ (Before(q) <=> ~q.bare)
  BY <1>4, <1>5 DEF After, Gone, Bare, Before, Done
<1>9. ASSUME d \notin spoiled
      PROVE  /\ row[d] # None /\ row[d] \in GoodRows /\ Certified(d, row[d], certs) /\ Certified(d, row[d], certs')
             /\ \A v, als : Shows(v, d, row[d], als, certs) => Shows(v, d, row[d], als, certs')
             /\ AliasesOf(d)' = AliasesOf(d)
             /\ Folder(d, row[d].owner)'
  <2>1. row[d] # None /\ row[d] \in GoodRows /\ (row[d].ssl = "shared" => row[d].source \in Names \ {d})
    BY <1>1, <1>2, <1>5, <1>9, OwnLender
  <2>2. Certified(d, row[d], certs)
    BY <1>5, <1>8, <1>9 DEF CertsAt, Done
  <2>3. row[d].ssl = "manual" => <<d, "manual">> \in certs'
    BY <1>6, <2>2 DEF Certified
  <2>4. /\ Certified(d, row[d], certs')
        /\ \A v, als : Shows(v, d, row[d], als, certs) /\ v.cert \in certs' \cup {None} => Shows(v, d, row[d], als, certs')
    BY <1>5, <1>6, <2>1, <2>2, <2>3, OwnCerts
  <2>5. \A v, als : Shows(v, d, row[d], als, certs) => v.cert \in certs' \cup {None}
    BY <1>6 DEF Shows
  <2>6. AliasesOf(d)' = AliasesOf(d)
    BY <1>4 DEF AliasesOf
  <2>7. Folder(d, row[d].owner)'
    BY <1>4, <1>5, <1>9 DEF FolderAt, Folder, Done
  <2> QED
    BY <2>1, <2>2, <2>4, <2>5, <2>6, <2>7
<1>10. CASE ~q.bare
  <2>1. ASSUME d \notin spoiled PROVE Calm(d)'
    <3>1. AsRow(d)
      BY <1>5, <1>8, <1>10, <2>1 DEF FileAt, AsHeld, Patches
    <3>2. AsRow(d)'
      BY <1>4, <1>9, <2>1, <3>1 DEF AsRow
    <3>3. AtHome(d)'
      BY <1>4, <1>9, <2>1 DEF AtHome, Folder
    <3> QED
      BY <3>2, <3>3 DEF Calm
  <2> QED
    BY <1>1, <1>2, <1>4, <1>5, <1>7, <1>10, <2>1, Ending DEF Everyone
<1>11. CASE q.bare
  <2>1. /\ w \in Tickets /\ w.pc = "write" /\ w.bare = FALSE /\ w.had = q.had /\ w.r = q.r /\ w.op = q.op /\ w.site = q.site
        /\ w.arg = q.arg /\ w.todo = q.todo /\ w.names = q.names /\ w.loaded = q.loaded
    BY <1>3, <1>5 DEF Tickets, Pcs
  <2>2. proc' = [proc EXCEPT ![p] = w]
    BY <1>1, <1>3, <1>4, <1>11 DEF Inv, Types
  <2>3. Fits(w) /\ Follows(w, q)
    <3>1. Serves(w)
      BY <1>5, <2>1 DEF Serves, Writers, Fits, Everyone
    <3> QED
      BY <1>5, <2>1, <3>1 DEF Fits, Follows, Everyone
  <2>4. LockMoves(p, w)
    BY <1>4, <1>5, <1>11 DEF LockMoves, Transacts, Done
  <2>5. ASSUME d \notin spoiled PROVE AtSite(w, d)'
    <3>1. ~Gone(w) /\ Bare(w) /\ ~After(w) /\ ~Before(w)
      BY <1>5, <2>1 DEF Gone, Bare, After, Before, Done
    <3>2. Reads(w, d)'
      BY <1>4, <1>5, <1>9, <1>11, <2>1, <2>5 DEF Reads, Everyone
    <3>3. FileAt(w, d)'
      BY <1>4, <1>5, <1>8, <1>9, <1>11, <2>5, <3>1 DEF FileAt
    <3>4. CertsAt(w, d)'
      BY <1>4, <1>5, <1>9, <2>1, <2>5 DEF CertsAt
    <3>5. FolderAt(w, d)'
      BY <1>5, <1>9, <2>1, <2>5 DEF FolderAt, Done
    <3> QED
      BY <3>2, <3>3, <3>4, <3>5 DEF AtSite
  <2> QED
    BY <1>1, <1>2, <1>4, <1>5, <1>7, <2>1, <2>2, <2>3, <2>4, <2>5, Going
<1> QED
  BY <1>10, <1>11

LEMMA InvIssue ==
  ASSUME Inv, NEW p \in Procs, Issue(p)
  PROVE  Inv'
<1>1. PICK q : q = proc[p]
  OBVIOUS
<1>2. PICK d : d = q.site
  OBVIOUS
<1>3. PICK c : c = <<d, "letsencrypt">>
  OBVIOUS
<1>4. PICK r : r = [q.r EXCEPT !.ssl = "letsencrypt", !.source = None]
  OBVIOUS
<1>5. PICK w : w = [q EXCEPT !.pc = "resync", !.r = r]
  OBVIOUS
<1>6. PICK v : v = [vhost[d] EXCEPT !.cert = c]
  OBVIOUS
<1>7. /\ q.pc = "issue" /\ vhost[d] # None
      /\ vhost' = [vhost EXCEPT ![d].cert = c]
      /\ certs' = (certs \cup {c}) \ (IF q.r.ssl = "manual" THEN {<<d, "manual">>} ELSE {})
      /\ proc' = [proc EXCEPT ![p].pc = "resync", ![p].r.ssl = "letsencrypt", ![p].r.source = None]
      /\ UNCHANGED <<row, aliasOf, accounts, files, lock, requests, kept, spoiled>>
  BY <1>1, <1>2, <1>3 DEF Issue, At, db
<1>8. /\ q \in Tickets /\ Fits(q) /\ q # Idle /\ q.op = "ssl" /\ d \in Names /\ q.r \in GoodRows
      /\ lock = p => Transacts(q)
      /\ d \notin spoiled => Reads(q, d) /\ FileAt(q, d) /\ CertsAt(q, d) /\ FolderAt(q, d)
  BY <1>1, <1>2, <1>7, AtWork DEF Serves, AtSite
<1>9. r \in GoodRows /\ r.ssl = "letsencrypt" /\ r.owner = q.r.owner /\ r.setting = q.r.setting
      /\ r.status = q.r.status /\ r.source = None
  BY <1>4, <1>8, RowFacts DEF GoodRows, Rows
<1>10. /\ w \in Tickets /\ w.pc = "resync" /\ w.had = q.had /\ w.r = r /\ w.op = q.op /\ w.site = q.site
       /\ w.arg = q.arg /\ w.bare = q.bare /\ w.todo = q.todo /\ w.names = q.names /\ w.loaded = q.loaded
  <2>1. q \in Tickets /\ r \in GoodRows
    BY <1>8, <1>9
  <2>2. w \in Tickets
    BY <1>5, <2>1 DEF Tickets, Pcs
  <2> QED
    BY <1>5, <2>1, <2>2 DEF Tickets
<1>11. proc' = [proc EXCEPT ![p] = w]
  <2>1. proc \in [Procs -> Tickets]
    BY DEF Inv, Types
  <2> QED
    BY <1>1, <1>4, <1>5, <1>7, <2>1
<1>12. Fits(w) /\ Follows(w, q)
  <2>1. Serves(w)
    BY <1>8, <1>10 DEF Serves, Writers, Fits, Everyone
  <2> QED
    BY <1>8, <1>9, <1>10, <2>1 DEF Fits, Follows, Everyone, Patches
<1>13. \A x \in Names \ {d}, k \in Kinds : <<x, k>> \in certs' <=> <<x, k>> \in certs
  BY <1>3, <1>7
<1>14. /\ v \in Vhosts /\ v # None /\ v.cert = c /\ v.mode = vhost[d].mode /\ v.home = vhost[d].home
       /\ v.setting = vhost[d].setting /\ v.aliases = vhost[d].aliases
  <2>1. vhost[d] \in Vhosts
    BY <1>7, <1>8 DEF Inv, Types
  <2> QED
    BY <1>3, <1>6, <1>8, <2>1, Distinct DEF Vhosts
<1>15. vhost' = [vhost EXCEPT ![d] = v] /\ vhost'[d] = v /\ \A x \in Names \ {d} : vhost'[x] = vhost[x]
  BY <1>6, <1>7, <1>8 DEF Inv, Types
<1>16. Elsewhere(p) /\ DiskTypes'
  <2>1. certs' \subseteq Names \X Kinds /\ vhost' \in [Names -> Vhosts \cup {None}]
    BY <1>3, <1>7, <1>8, <1>14, <1>15 DEF Inv, Types, Kinds
  <2> QED
    BY <1>1, <1>2, <1>7, <1>8, <1>13, <1>15, <2>1 DEF Elsewhere, DiskTypes, Inv, Types
<1>17. LockMoves(p, w)
  BY <1>7, <1>8 DEF LockMoves, Transacts, Done
<1>18. ASSUME d \notin spoiled PROVE AtSite(w, d)'
  <2>1. row[d] # None /\ row[d] \in GoodRows
    BY <1>1, <1>2, <1>8, <1>18, OwnLender
  <2>2. (Bare(q) <=> q.bare) /\ (Before(q) <=> ~q.bare)
    BY <1>7, <1>8 DEF After, Gone, Bare, Before, Done
  <2>3. /\ v.mode = IF row[d].status = "active" THEN "full" ELSE "static"
        /\ row[d].status = "active" =>
             v.home = row[d].owner /\ v.setting = row[d].setting /\ v.aliases = AliasesOf(d)
    BY <1>8, <1>14, <1>18, <2>1, <2>2 DEF FileAt, AsRow, Shows, AsHeld, Patches
  <2>4. PICK n : n = NewRow(w, d)
    OBVIOUS
  <2>5. /\ n.owner = row[d].owner /\ n.status = row[d].status /\ n.setting = row[d].setting
        /\ n.ssl = "letsencrypt" /\ n.source = None
    BY <1>8, <1>9, <1>10, <2>4 DEF NewRow
  <2>6. c \in certs' /\ c \in Own(d)
    BY <1>3, <1>7 DEF Own
  <2>7. Shows(v, d, n, AliasesOf(d), certs') /\ Certified(d, n, certs')
    BY <1>14, <2>3, <2>5, <2>6 DEF Shows, Certified
  <2>8. AliasesOf(d)' = AliasesOf(d) /\ NewRow(w, d)' = n /\ NewAls(w, d)' = AliasesOf(d)
    BY <1>7, <1>8, <1>10, <2>4 DEF NewRow, NewAls, AliasesOf
  <2>9. WillServe(w, d)'
    BY <1>15, <2>7, <2>8 DEF WillServe
  <2>10. ~Gone(w) /\ ~Bare(w) /\ After(w) /\ ~Before(w)
    BY <1>8, <1>10 DEF Gone, Bare, After, Before, Done
  <2>11. FileAt(w, d)'
    BY <2>9, <2>10 DEF FileAt
  <2>12. Reads(w, d)'
    BY <1>7, <1>8, <1>9, <1>10, <1>18, <2>8 DEF Reads, Everyone
  <2>13. CertsAt(w, d)'
    BY <1>8, <1>10, <2>10 DEF CertsAt
  <2>14. FolderAt(w, d)'
    BY <1>7, <1>8, <1>10, <1>18 DEF FolderAt, Folder, Done
  <2> QED
    BY <2>11, <2>12, <2>13, <2>14 DEF AtSite
<1> QED
  BY <1>1, <1>2, <1>7, <1>8, <1>10, <1>11, <1>12, <1>16, <1>17, <1>18, Going

\* The files of borrowers are written again; no sound name is a borrower here.
LEMMA InvResync ==
  ASSUME Inv, NEW p \in Procs, Resync(p)
  PROVE  Inv'
<1>1. PICK q : q = proc[p]
  OBVIOUS
<1>2. PICK d : d = q.site
  OBVIOUS
<1>3. /\ q.pc = "resync" /\ Goto(p, "commit")
      /\ UNCHANGED <<row, aliasOf, accounts, files, certs, lock, requests, kept, spoiled>>
  BY <1>1 DEF Resync, At, db
<1>4. q.op \in {"manual", "ssl"} /\ d \in Names /\ Serves(q) /\ Fits(q) /\ q # Idle /\ (d \notin spoiled => AtSite(q, d))
  BY <1>1, <1>2, <1>3, AtWork DEF Serves
<1>5. \A n \in Dependents(d) : n \in Names /\ row[n] # None /\ row[n] \in GoodRows /\ row[n].ssl = "shared" /\ row[n].source = d
  BY DEF Dependents, Inv, Types
<1>6. \A n \in Names \ spoiled : n \notin Dependents(d)
  BY <1>1, <1>2, <1>4, <1>5 DEF Inv, Unlent
<1>7. ASSUME NEW n \in Dependents(d)
      PROVE  Static(row[n]) \in Vhosts /\ Full(n, row[n], AliasesOf(n)) \in Vhosts
  <2>1. /\ row[n].owner \in Owners /\ row[n].setting \in Settings /\ row[n].ssl = "shared" /\ row[n].source = d
    BY <1>5, <1>7, RowFacts
  <2>2. CertFor(n, row[n]) \in (Names \X {"letsencrypt", "manual"}) \cup {None}
    BY <1>4, <2>1 DEF CertFor, Borrowed
  <2> QED
    BY <2>1, <2>2 DEF Static, Full, Vhosts, AliasesOf
<1>8. /\ vhost' \in [Names -> Vhosts \cup {None}]
      /\ \A n \in Names : n \notin Dependents(d) => vhost'[n] = vhost[n]
  <2> DEFINE new(n) == IF row[n].status = "suspended" THEN Static(row[n]) ELSE Full(n, row[n], AliasesOf(n))
  <2>1. vhost' = [n \in Names |->
                    IF /\ n \in Dependents(d) /\ GoodFile(new(n))
                       /\ \A m \in Names \ {n} : vhost[m] # None => GoodFile(vhost[m])
                    THEN new(n) ELSE vhost[n]]
    BY <1>1, <1>2 DEF Resync
  <2>2. \A n \in Dependents(d) : new(n) \in Vhosts
    BY <1>7
  <2> HIDE DEF new
  <2> QED
    BY <2>1, <2>2 DEF Inv, Types
<1>9. Elsewhere(p) /\ DiskTypes' /\ (d \notin spoiled => vhost'[d] = vhost[d])
  BY <1>1, <1>2, <1>3, <1>4, <1>6, <1>8 DEF Elsewhere, DiskTypes, Inv, Types
<1>10. ASSUME NEW w, w.pc = "commit", Steps(w, q)
       PROVE  Serves(w) /\ (d \notin spoiled => AtSite(w, d)')
  <2>1. Serves(w)
    BY <1>4, <1>10 DEF Serves, Steps, Fits, Everyone
  <2>2. ASSUME d \notin spoiled PROVE AtSite(w, d)'
    <3>1. ~Gone(w) /\ ~Bare(w) /\ After(w) /\ ~Before(w) /\ After(q)
      BY <1>3, <1>4, <1>10 DEF Gone, Bare, After, Before, Steps, Done
    <3>2. WillServe(w, d)
      BY <1>4, <1>10, <2>2, <3>1, StepFacts DEF AtSite, FileAt
    <3>3. AliasesOf(d)' = AliasesOf(d)
      BY <1>3 DEF AliasesOf
    <3>4. NewRow(w, d)' = NewRow(w, d) /\ NewAls(w, d)' = NewAls(w, d)
      BY <1>3, <3>3 DEF NewRow, NewAls
    <3>5. WillServe(w, d)'
      BY <1>3, <1>9, <2>2, <3>2, <3>4 DEF WillServe
    <3>6. Reads(w, d)'
      BY <1>3, <1>4, <1>10, <2>2, <3>3 DEF AtSite, Reads, Steps
    <3>7. FileAt(w, d)' /\ CertsAt(w, d)'
      BY <1>4, <1>10, <3>1, <3>5 DEF FileAt, CertsAt, Steps
    <3>8. FolderAt(w, d)'
      BY <1>3, <1>4, <1>10, <2>2 DEF AtSite, FolderAt, Folder, Steps, Done
    <3> QED
      BY <3>6, <3>7, <3>8 DEF AtSite
  <2> QED
    BY <2>1, <2>2
<1> QED
  BY <1>1, <1>2, <1>3, <1>9, <1>10, Walking DEF Pcs

-----------------------------------------------------------------------------
(* The commit.                                                              *)

\* A name whose row and aliases stay is as it was when the disk is.
LEMMA SameName ==
  ASSUME Inv, UNCHANGED <<vhost, files, certs, kept>>, NEW d, row'[d] = row[d], AliasesOf(d)' = AliasesOf(d)
  PROVE  /\ Calm(d) => Calm(d)'
         /\ \A u : Held(u, d) => Held(u, d)'
<1>1. (AsRow(d)' <=> AsRow(d)) /\ (NoFolder(d)' <=> NoFolder(d)) /\ \A o : Folder(d, o)' <=> Folder(d, o)
  BY DEF AsRow, NoFolder, Folder
<1>2. Calm(d) => Calm(d)'
  BY <1>1 DEF Calm, AtHome
<1>3. \A u : NewRow(u, d)' = NewRow(u, d) /\ NewAls(u, d)' = NewAls(u, d)
  BY DEF NewRow, NewAls
<1>4. \A u : WillServe(u, d)' <=> WillServe(u, d)
  BY <1>3 DEF WillServe
<1>5. ASSUME NEW u, AtSite(u, d) PROVE AtSite(u, d)'
  <2>1. Reads(u, d)'
    BY <1>5 DEF AtSite, Reads
  <2>2. FileAt(u, d)'
    BY <1>1, <1>4, <1>5 DEF AtSite, FileAt, AsHeld
  <2>3. CertsAt(u, d)'
    BY <1>5 DEF AtSite, CertsAt
  <2>4. FolderAt(u, d)'
    BY <1>1, <1>5 DEF AtSite, FolderAt
  <2> QED
    BY <2>1, <2>2, <2>3, <2>4 DEF AtSite
<1>6. \A u : Passed(u, d) => Passed(u, d)'
  BY <1>1, <1>4 DEF Passed
<1> QED
  BY <1>2, <1>5, <1>6 DEF Held

\* What the commit makes of a row, for any of the request's names.
LEMMA RecordedFacts ==
  ASSUME Types, NEW q \in Tickets, Fits(q), q.op # "idle", RowFits(q)
  PROVE  /\ Recorded(q) \in [Names -> GoodRows \cup {None}]
         /\ \A d \in Names : d \notin q.names => Recorded(q)[d] = row[d]
         /\ q.op \in {"alias", "unalias", "refresh"} => Recorded(q) = row
         /\ q.op \in Done => \A d \in q.names : Recorded(q)[d] = None
         /\ q.op = "create" => Recorded(q)[q.site] = q.r
         /\ q.op \notin Done \cup {"create", "alias", "unalias", "refresh"} =>
              \A d \in q.names : /\ row[d] # None
                                 /\ \/ q.op \in Everyone \cup Patches /\ q.loaded[d] # row[d]
                                    \/ Recorded(q)[d] = NewRow(q, d)
<1>1. /\ q # Idle /\ q.r \in GoodRows /\ q.site \in q.names /\ q.names \subseteq Names
      /\ q.op = "update" => q.arg \in Settings
      /\ q.op = "transfer" => q.arg \in Owners
      /\ q.op \notin Everyone \cup {"alias", "unalias"} => q.names = {q.site}
  BY IdleFacts DEF Fits, Tickets
<1>2. /\ q.r.ssl \in {"none", "letsencrypt", "manual", "shared"} /\ q.r.source \in Names \cup {None}
      /\ q.r.ssl = "shared" => q.r.source \in Names
      /\ q.r.status \in {"active", "suspended"}
  BY <1>1, RowFacts
<1>3. row \in [Names -> GoodRows \cup {None}]
  BY DEF Types
<1>4. CASE q.op \in {"alias", "unalias", "refresh"}
  <2>1. Recorded(q) = row
    BY <1>4 DEF Recorded, Patches
  <2> QED
    BY <1>3, <1>4, <2>1 DEF Done
<1>5. CASE q.op \in Done
  <2>1. Recorded(q) = [n \in Names |-> IF n \in q.names THEN None ELSE row[n]]
    BY <1>5 DEF Recorded, Done
  <2> QED
    BY <1>1, <1>3, <1>5, <2>1 DEF Done
<1>6. CASE q.op = "create"
  <2>1. Recorded(q) = [row EXCEPT ![q.site] = q.r]
    BY <1>6 DEF Recorded, Patches
  <2> QED
    BY <1>1, <1>3, <1>6, <2>1 DEF Done, Everyone
<1>7. ASSUME q.op \notin Done \cup {"create", "alias", "unalias", "refresh"}, NEW d \in q.names
      PROVE  row[d] # None /\ row[d] \in GoodRows /\ row[d] \in Rows
  BY <1>1, <1>3, <1>7 DEF RowFits, Done, GoodRows
<1>8. CASE q.op \in {"manual", "ssl", "share"}
  <2>1. PICK d : d = q.site
    OBVIOUS
  <2>2. PICK r : r = NewRow(q, d)
    OBVIOUS
  <2>3. q.names = {d} /\ d \in Names /\ row[d] # None /\ row[d] \in GoodRows /\ row[d] \in Rows
    BY <1>1, <1>7, <1>8, <2>1 DEF Everyone, Done
  <2>4. r = [owner |-> row[d].owner, status |-> row[d].status, setting |-> row[d].setting,
             ssl |-> q.r.ssl, source |-> q.r.source]
    BY <1>8, <2>2 DEF NewRow
  <2>5. r \in GoodRows
    <3>1. /\ row[d].owner \in Owners /\ row[d].status \in {"active", "suspended"} /\ row[d].setting \in Settings
          /\ row[d].ssl \in {"none", "letsencrypt", "manual", "shared"} /\ row[d].source \in Names \cup {None}
          /\ row[d].ssl = "shared" => row[d].source \in Names
      BY <2>3, RowFacts
    <3> QED
      BY <1>1, <1>2, <1>8, <2>4, <3>1 DEF GoodRows, Rows
  <2>6. Recorded(q) = [row EXCEPT ![d] = r]
    <3>1. r = [row[d] EXCEPT !.ssl = q.r.ssl, !.source = q.r.source]
      <4>1. PICK x : x = [row[d] EXCEPT !.ssl = q.r.ssl, !.source = q.r.source]
        OBVIOUS
      <4>2. x = [owner |-> x.owner, status |-> x.status, setting |-> x.setting, ssl |-> x.ssl, source |-> x.source]
        BY <2>3, <4>1 DEF Rows
      <4>3. /\ x.owner = row[d].owner /\ x.status = row[d].status /\ x.setting = row[d].setting
            /\ x.ssl = q.r.ssl /\ x.source = q.r.source
        BY <2>3, <4>1 DEF Rows
      <4> QED
        BY <2>4, <4>1, <4>2, <4>3
    <3>2. Recorded(q) = [row EXCEPT ![d].ssl = q.r.ssl, ![d].source = q.r.source]
      BY <1>8, <2>1 DEF Recorded, Patches
    <3> QED
      BY <1>3, <2>3, <3>1, <3>2
  <2> QED
    BY <1>3, <1>8, <2>2, <2>3, <2>5, <2>6 DEF Done, Everyone, Patches
<1>10. CASE q.op \in Patches
  <2>1. PICK d : d = q.site
    OBVIOUS
  <2>2. PICK r : r = Changed(q)
    OBVIOUS
  <2>3. q.names = {d} /\ d \in Names /\ row[d] # None /\ row[d] \in GoodRows /\ row[d] \in Rows
    BY <1>1, <1>7, <1>10, <2>1 DEF Everyone, Done, Patches
  <2>4. /\ r.setting = (IF q.op = "update" THEN q.arg ELSE q.r.setting) /\ r.setting \in Settings
        /\ r.owner = (IF q.op = "transfer" THEN q.arg ELSE q.r.owner) /\ r.owner \in Owners
    <3>1. q.r \in Rows /\ q.r.setting \in Settings /\ q.r.owner \in Owners
      BY <1>1, RowFacts
    <3>2. CASE q.op = "update"
      BY <1>1, <2>2, <3>1, <3>2 DEF Changed, Rows
    <3>3. CASE q.op = "transfer"
      BY <1>1, <2>2, <3>1, <3>3 DEF Changed, Rows
    <3> QED
      BY <1>10, <3>2, <3>3 DEF Patches
  <2>5. PICK a : a = IF r.setting # q.loaded[d].setting THEN r.setting ELSE row[d].setting
    OBVIOUS
  <2>6. PICK b : b = IF r.owner # q.loaded[d].owner THEN r.owner ELSE row[d].owner
    OBVIOUS
  <2>7. Recorded(q) = [row EXCEPT ![d] = [row[d] EXCEPT !.setting = a, !.owner = b]]
    <3>1. Recorded(q) = [row EXCEPT ![d].setting = IF r.setting # q.loaded[d].setting THEN r.setting ELSE @,
                                    ![d].owner = IF r.owner # q.loaded[d].owner THEN r.owner ELSE @]
      BY <1>10, <2>1, <2>2 DEF Recorded, Patches
    <3> QED
      BY <1>3, <2>3, <2>5, <2>6, <3>1 DEF Rows
  <2>8. PICK n : n = [row[d] EXCEPT !.setting = a, !.owner = b]
    OBVIOUS
  <2>9. /\ n \in GoodRows /\ n.setting = a /\ n.owner = b /\ n.status = row[d].status
        /\ n.ssl = row[d].ssl /\ n.source = row[d].source
    <3>1. a \in Settings /\ b \in Owners
      BY <2>3, <2>4, <2>5, <2>6, RowFacts
    <3> QED
      BY <2>3, <2>8, <3>1 DEF GoodRows, Rows
  <2>10. ASSUME q.loaded[d] = row[d] PROVE n = NewRow(q, d)
    <3>1. a = r.setting /\ b = r.owner
      BY <2>5, <2>6, <2>10
    <3>2. n = [owner |-> n.owner, status |-> n.status, setting |-> n.setting, ssl |-> n.ssl, source |-> n.source]
      BY <2>9 DEF GoodRows, Rows
    <3> QED
      BY <1>10, <2>4, <2>9, <3>1, <3>2 DEF NewRow, Patches
  <2>11. Recorded(q) \in [Names -> GoodRows \cup {None}] /\ Recorded(q)[d] = n
         /\ \A x \in Names \ {d} : Recorded(q)[x] = row[x]
    BY <1>3, <2>3, <2>7, <2>8, <2>9
  <2> QED
    BY <1>10, <2>3, <2>10, <2>11 DEF Done, Everyone, Patches
<1>9. CASE q.op \in {"suspend", "unsuspend"}
  <2>1. Recorded(q) = [n \in Names |-> IF n \in q.names /\ q.loaded[n].status # q.r.status
                                       THEN [row[n] EXCEPT !.status = q.r.status] ELSE row[n]]
    BY <1>9 DEF Recorded
  <2>2. ASSUME NEW d \in q.names
        PROVE  /\ [row[d] EXCEPT !.status = q.r.status] \in GoodRows
               /\ NewRow(q, d) = [row[d] EXCEPT !.status = q.r.status]
               /\ row[d].status = q.r.status => NewRow(q, d) = row[d]
    <3>1. row[d] \in GoodRows /\ row[d] \in Rows
      BY <1>7, <1>9, <2>2 DEF Done
    <3>2. NewRow(q, d) = [row[d] EXCEPT !.status = q.r.status]
      BY <1>9, <3>1 DEF NewRow, Rows
    <3>3. row[d].status = q.r.status => [row[d] EXCEPT !.status = q.r.status] = row[d]
      BY <3>1 DEF Rows
    <3>4. [row[d] EXCEPT !.status = q.r.status] \in GoodRows
      BY <1>2, <3>1, RowFacts DEF GoodRows, Rows
    <3> QED
      BY <3>2, <3>3, <3>4
  <2>3. ASSUME NEW d \in Names
        PROVE  /\ Recorded(q)[d] \in GoodRows \cup {None}
               /\ d \notin q.names => Recorded(q)[d] = row[d]
               /\ d \in q.names => row[d] # None /\ (q.loaded[d] = row[d] => Recorded(q)[d] = NewRow(q, d))
    <3>1. CASE d \notin q.names
      BY <1>3, <2>1, <3>1
    <3>2. CASE d \in q.names
      <4>1. row[d] # None
        BY <1>7, <1>9, <3>2 DEF Done
      <4>2. Recorded(q)[d] = IF q.loaded[d].status # q.r.status THEN [row[d] EXCEPT !.status = q.r.status] ELSE row[d]
        BY <2>1, <3>2
      <4> QED
        BY <1>3, <2>2, <3>2, <4>1, <4>2
    <3> QED
      BY <3>1, <3>2
  <2>4. Recorded(q) \in [Names -> GoodRows \cup {None}]
    BY <2>1, <2>3
  <2> QED
    BY <1>1, <1>9, <2>3, <2>4 DEF Done, Everyone
<1> QED
  BY <1>4, <1>5, <1>6, <1>7, <1>8, <1>9, <1>10, IdleFacts DEF Tickets, Ops, Writers, Done, Patches

\* What the commit makes of the aliases.
LEMMA CommitAliases ==
  ASSUME Inv, NEW p \in Procs, Commit(p), NEW q, q = proc[p]
  PROVE  /\ aliasOf' \in [Names -> Names \cup {None}]
         /\ \A d \in Names \ spoiled : d \notin q.names \/ (d # q.site /\ q.op \in {"alias", "unalias"}) =>
                AliasesOf(d)' = AliasesOf(d)
         /\ q.op \notin Done => AliasesOf(q.site)' = NewAls(q, q.site)
         /\ q.op \in Done => \A d \in q.names : AliasesOf(d)' = {}
         /\ \A n \in Names : aliasOf'[n] \in {aliasOf[n], None} \/ (q.op = "alias" /\ n = q.arg /\ aliasOf'[n] = q.site)
<1>1. /\ q.pc = "commit"
      /\ aliasOf' = CASE q.op = "alias" -> [aliasOf EXCEPT ![q.arg] = q.site]
                      [] q.op = "unalias" -> [aliasOf EXCEPT ![q.arg] = None]
                      [] q.op \in {"delete", "remove"} ->
                              [n \in Names |-> IF aliasOf[n] \in q.names THEN None ELSE aliasOf[n]]
                      [] OTHER -> aliasOf
  BY DEF Commit, At
<1>2. /\ q \in Tickets /\ Fits(q) /\ q # Idle /\ q.site \in Names /\ q.site \in q.names /\ q.names \subseteq Names
      /\ q.op \in {"alias", "unalias"} => q.arg \in Names /\ q.arg # q.site
      /\ q.op = "alias" => aliasOf[q.arg] = None
  BY <1>1, AtWork DEF Fits
<1>3. aliasOf \in [Names -> Names \cup {None}] /\ None \notin Names
  BY Distinct DEF Inv, Types
<1>4. CASE q.op = "alias"
  <2>1. aliasOf' = [aliasOf EXCEPT ![q.arg] = q.site]
    BY <1>1, <1>4
  <2>2. aliasOf'[q.arg] = q.site /\ \A n \in Names \ {q.arg} : aliasOf'[n] = aliasOf[n]
    BY <1>2, <1>3, <1>4, <2>1
  <2>3. \A d \in Names : d # q.site => AliasesOf(d)' = AliasesOf(d)
    BY <1>2, <1>3, <1>4, <2>2 DEF AliasesOf
  <2>4. AliasesOf(q.site)' = AliasesOf(q.site) \cup {q.arg}
    BY <1>2, <1>4, <2>2 DEF AliasesOf
  <2>5. aliasOf' \in [Names -> Names \cup {None}]
    BY <1>2, <1>3, <2>1
  <2> QED
    BY <1>2, <1>4, <2>2, <2>3, <2>4, <2>5 DEF NewAls, Done
<1>5. CASE q.op = "unalias"
  <2>1. aliasOf' = [aliasOf EXCEPT ![q.arg] = None]
    BY <1>1, <1>5
  <2>2. aliasOf'[q.arg] = None /\ \A n \in Names \ {q.arg} : aliasOf'[n] = aliasOf[n]
    BY <1>2, <1>3, <1>5, <2>1
  <2>3. aliasOf[q.arg] \in {q.site, None} \cup spoiled
    BY <1>5 DEF Inv, Claims
  <2>4. \A d \in Names \ spoiled : d # q.site => AliasesOf(d)' = AliasesOf(d)
    BY <1>3, <2>2, <2>3 DEF AliasesOf
  <2>5. AliasesOf(q.site)' = AliasesOf(q.site) \ {q.arg}
    BY <1>2, <1>3, <1>5, <2>2 DEF AliasesOf
  <2>6. aliasOf' \in [Names -> Names \cup {None}]
    BY <1>3, <2>1
  <2> QED
    BY <1>2, <1>3, <1>5, <2>2, <2>4, <2>5, <2>6 DEF NewAls, Done
<1>6. CASE q.op \in Done
  <2>1. aliasOf' = [n \in Names |-> IF aliasOf[n] \in q.names THEN None ELSE aliasOf[n]]
    BY <1>1, <1>6 DEF Done
  <2>2. \A d \in Names : d \notin q.names => AliasesOf(d)' = AliasesOf(d)
    BY <1>3, <2>1 DEF AliasesOf
  <2>3. \A d \in q.names : AliasesOf(d)' = {}
    BY <1>2, <1>3, <2>1 DEF AliasesOf
  <2>4. aliasOf' \in [Names -> Names \cup {None}]
    BY <1>3, <2>1
  <2> QED
    BY <1>6, <2>1, <2>2, <2>3, <2>4 DEF Done
<1>7. CASE q.op \notin Done \cup {"alias", "unalias"}
  <2>1. aliasOf' = aliasOf
    BY <1>1, <1>7 DEF Done
  <2> QED
    BY <1>3, <1>7, <2>1 DEF AliasesOf, NewAls
<1> QED
  BY <1>4, <1>5, <1>6, <1>7

LEMMA InvCommit ==
  ASSUME Inv, NEW p \in Procs, Commit(p)
  PROVE  Inv'
<1>1. PICK q : q = proc[p]
  OBVIOUS
<1>2. PICK d0 : d0 = q.site
  OBVIOUS
<1>3. /\ q.pc = "commit" /\ lock \in {None, p} /\ RowFits(q) /\ row' = Recorded(q) /\ Finish(p)
      /\ accounts' = accounts \/ accounts' = accounts \ {q.arg}
      /\ UNCHANGED <<vhost, files, certs, requests, kept, spoiled>>
  BY <1>1 DEF Commit, At, MayWrite, disk
<1>4. /\ q \in Tickets /\ Fits(q) /\ q # Idle /\ q.op # "idle" /\ d0 \in q.names /\ q.names \subseteq Names /\ d0 \in Names
      /\ q.todo = {} /\ q.r \in GoodRows
      /\ d0 \notin spoiled => Reads(q, d0) /\ FileAt(q, d0) /\ CertsAt(q, d0) /\ FolderAt(q, d0)
      /\ d0 \notin spoiled => q.op = "create" \/ row[d0] # None
  BY <1>1, <1>2, <1>3, AtWork DEF AtSite, Serves
<1>5. /\ aliasOf' \in [Names -> Names \cup {None}]
      /\ \A d \in Names \ spoiled : d \notin q.names \/ (d # d0 /\ q.op \in {"alias", "unalias"}) =>
             AliasesOf(d)' = AliasesOf(d)
      /\ q.op \notin Done => AliasesOf(d0)' = NewAls(q, d0)
      /\ q.op \in Done => \A d \in q.names : AliasesOf(d)' = {}
      /\ \A n \in Names : aliasOf'[n] \in {aliasOf[n], None} \/ (q.op = "alias" /\ n = q.arg /\ aliasOf'[n] = d0)
  BY <1>1, <1>2, CommitAliases
<1>6. /\ row' \in [Names -> GoodRows \cup {None}]
      /\ \A d \in Names : d \notin q.names => row'[d] = row[d]
      /\ q.op \in {"alias", "unalias", "refresh"} => row' = row
      /\ q.op \in Done => \A d \in q.names : row'[d] = None
      /\ q.op = "create" => row'[d0] = q.r
      /\ q.op \notin Done \cup {"create", "alias", "unalias", "refresh"} =>
           \A d \in q.names : /\ row[d] # None
                              /\ \/ q.op \in Everyone \cup Patches /\ q.loaded[d] # row[d]
                                 \/ row'[d] = NewRow(q, d)
  BY <1>2, <1>3, <1>4, RecordedFacts DEF Inv
<1>7. proc' = [proc EXCEPT ![p] = Idle] /\ proc'[p] = Idle /\ (\A t \in Procs \ {p} : proc'[t] = proc[t]) /\ lock' = None
  <2>1. proc' = [proc EXCEPT ![p] = Idle] /\ lock' = IF lock = p THEN None ELSE lock
    BY <1>3 DEF Finish, Release
  <2> QED
    BY <1>3, <2>1 DEF Inv, Types
<1>8. \A d \in q.names \ spoiled : Held(q, d)
  BY <1>1 DEF Inv, Busy
<1>9. Types'
  <2>1. Idle \in Tickets /\ Fits(Idle)
    BY IdleFacts
  <2>2. proc' \in [Procs -> Tickets] /\ \A t \in Procs : Fits(proc'[t])
    BY <1>7, <2>1 DEF Inv, Types
  <2>3. accounts' \subseteq Owners
    BY <1>3 DEF Inv, Types
  <2>4. \A n \in Names : aliasOf'[n] # n
    BY <1>2, <1>4, <1>5, Distinct DEF Fits, Inv, Types
  <2> QED
    BY <1>3, <1>5, <1>6, <1>7, <2>2, <2>3, <2>4 DEF Inv, Types
<1>10. ASSUME NEW d \in Names \ spoiled, d \notin q.names
       PROVE  (Calm(d) => Calm(d)') /\ \A u : Held(u, d) => Held(u, d)'
  BY <1>3, <1>5, <1>6, <1>10, SameName
<1>11. ASSUME NEW d \in q.names \ spoiled, q.op \notin Done, d = d0 \/ q.op \in {"suspend", "unsuspend"}
       PROVE  row'[d] = NewRow(q, d) /\ AliasesOf(d)' = NewAls(q, d) /\ row'[d] # None
  <2>1. row'[d] = NewRow(q, d)
    <3>1. CASE q.op = "create"
      BY <1>6, <1>11, <3>1 DEF NewRow
    <3>2. CASE q.op \in {"alias", "unalias", "refresh"}
      <4>1. row[d] \in Rows
        BY <1>4, <1>11, <3>2 DEF Inv, Types, GoodRows
      <4>2. NewRow(q, d) = row[d]
        BY <3>2, <4>1 DEF NewRow, Rows
      <4> QED
        BY <1>6, <3>2, <4>2
    <3>3. CASE q.op \notin {"create", "alias", "unalias", "refresh"}
      <4>1. q.op \in Everyone \cup Patches => q.loaded[d] = row[d]
        BY <1>8, <1>11 DEF Held
      <4> QED
        BY <1>6, <1>11, <3>3, <4>1
    <3> QED
      BY <3>1, <3>2, <3>3
  <2>2. AliasesOf(d)' = NewAls(q, d)
    <3>1. CASE d = d0
      BY <1>5, <1>11, <3>1
    <3>2. CASE d # d0
      <4>1. aliasOf' = aliasOf
        BY <1>1, <1>11, <3>2 DEF Commit
      <4> QED
        BY <1>11, <3>2, <4>1 DEF NewAls, AliasesOf
    <3> QED
      BY <3>1, <3>2
  <2>3. row'[d] # None
    <3>1. CASE q.op \in {"create"}
      BY <1>4, <1>6, <1>11, <3>1, RowFacts
    <3>2. CASE q.op # "create"
      BY <2>1, <3>2, <1>4, <1>6, <1>8, <1>11, Distinct, NewRowFacts DEF Held, Inv, Everyone
    <3> QED
      BY <3>1, <3>2
  <2> QED
    BY <2>1, <2>2, <2>3
<1>12. ASSUME NEW d \in q.names \ spoiled PROVE Calm(d)'
  <2>1. CASE q.op \in Done
    <3>1. vhost[d] = None /\ NoFolder(d)
      <4>1. CASE d = d0
        BY <1>3, <1>4, <1>12, <2>1, <4>1 DEF FileAt, Gone, FolderAt, Done
      <4>2. CASE d # d0
        <5>1. q.op = "remove"
          BY <1>2, <1>4, <1>12, <2>1, <4>2 DEF Fits, Done, Everyone
        <5>2. Passed(q, d)
          BY <1>2, <1>4, <1>8, <1>12, <4>2, <5>1 DEF Held, Everyone
        <5> QED
          BY <5>1, <5>2 DEF Passed
      <4> QED
        BY <4>1, <4>2
    <3>2. row'[d] = None /\ AliasesOf(d)' = {}
      BY <1>5, <1>6, <1>12, <2>1
    <3> QED
      BY <1>3, <3>1, <3>2 DEF Calm, AsRow, AtHome, NoFolder
  <2>2. CASE q.op \notin Done /\ (d = d0 \/ q.op \in {"suspend", "unsuspend"})
    <3>1. row'[d] = NewRow(q, d) /\ AliasesOf(d)' = NewAls(q, d) /\ row'[d] # None
      BY <1>11, <1>12, <2>2
    <3>2. WillServe(q, d) /\ Folder(d, NewRow(q, d).owner)
      <4>1. CASE d = d0
        <5>1. After(q)
          BY <1>3, <2>2 DEF After, Gone, Bare, Done
        <5>2. WillServe(q, d)
          BY <1>4, <1>12, <4>1, <5>1 DEF FileAt
        <5>3. Folder(d, CASE q.op \in {"create", "update"} -> q.r.owner [] q.op = "transfer" -> q.arg
                          [] OTHER -> row[d].owner)
          BY <1>3, <1>4, <1>12, <2>2, <4>1 DEF FolderAt, Done
        <5>4. NewRow(q, d).owner = CASE q.op \in {"create", "update"} -> q.r.owner [] q.op = "transfer" -> q.arg
                                     [] OTHER -> row[d].owner
          BY DEF NewRow
        <5> QED
          BY <5>2, <5>3, <5>4
      <4>2. CASE d # d0
        <5>1. q.op \in {"suspend", "unsuspend"} /\ Passed(q, d)
          BY <1>2, <1>4, <1>8, <1>12, <2>2, <4>2 DEF Held, Everyone
        <5> QED
          BY <5>1 DEF Passed, NewRow
      <4> QED
        BY <4>1, <4>2
    <3>3. AsRow(d)'
      BY <1>3, <3>1, <3>2 DEF AsRow, WillServe
    <3>4. AtHome(d)'
      BY <1>3, <3>1, <3>2 DEF AtHome, Folder
    <3> QED
      BY <3>3, <3>4 DEF Calm
  <2>3. CASE q.op \notin Done /\ d # d0 /\ q.op \notin {"suspend", "unsuspend"}
    <3>1. q.op \in {"alias", "unalias"}
      BY <1>2, <1>4, <1>12, <2>3 DEF Fits, Done, Everyone
    <3>2. Calm(d) /\ d \in Names
      BY <1>2, <1>4, <1>8, <1>12, <2>3, <3>1 DEF Held, Everyone
    <3> QED
      BY <1>3, <1>5, <1>6, <1>12, <2>3, <3>1, <3>2, SameName
  <2> QED
    BY <2>1, <2>2, <2>3
<1>13. \A t \in Procs \ {p} : \A d \in proc[t].names \ spoiled : d \in Names /\ d \notin q.names
  BY <1>1, Working DEF Inv, Alone
<1>14. Alone'
  <2> SUFFICES ASSUME NEW t \in Procs, NEW s \in Procs, t # s, NEW d \in Names, d \in proc'[t].names, d \in proc'[s].names
               PROVE  proc'[t].names \subseteq spoiled
    BY <1>3 DEF Alone
  <2>1. t # p /\ s # p
    BY <1>7, IdleFacts
  <2> QED
    BY <1>7, <2>1 DEF Inv, Alone
<1>15. Quiet'
  <2> SUFFICES ASSUME NEW d \in Names \ spoiled, AtRest(d)' PROVE Calm(d)'
    BY <1>3 DEF Quiet
  <2>1. CASE d \in q.names
    BY <1>12, <2>1
  <2>2. CASE d \notin q.names
    <3>1. AtRest(d)
      BY <1>1, <1>7, <2>2 DEF AtRest
    <3> QED
      BY <1>10, <2>2, <3>1 DEF Inv, Quiet
  <2> QED
    BY <2>1, <2>2
<1>16. Busy'
  <2> SUFFICES ASSUME NEW t \in Procs, NEW u \in {proc'[t]}, NEW d \in u.names \ spoiled PROVE Held(u, d)'
    BY <1>3 DEF Busy
  <2>1. t # p /\ u = proc[t]
    BY <1>7, IdleFacts
  <2>2. Held(u, d)
    BY <2>1 DEF Inv, Busy
  <2> QED
    BY <1>10, <1>13, <2>1, <2>2
<1>17. Apart'
  <2> SUFFICES ASSUME NEW t \in Procs, proc'[t].op = "remove", NEW d \in Names \ spoiled
               PROVE  /\ row'[d] # None /\ row'[d].owner = proc'[t].arg => d \in proc'[t].names
                      /\ \A s \in Procs : d \in proc'[s].names =>
                            /\ ~(proc'[s].op \in Patches \cup {"create"} /\ proc'[s].r.owner = proc'[t].arg)
                            /\ ~(proc'[s].op = "transfer" /\ proc'[s].arg = proc'[t].arg)
    BY <1>3 DEF Apart
  <2>1. t # p /\ proc'[t] = proc[t]
    BY <1>7, IdleFacts
  <2>2. /\ row[d] # None /\ row[d].owner = proc[t].arg => d \in proc[t].names
        /\ \A s \in Procs : d \in proc[s].names =>
              /\ ~(proc[s].op \in Patches \cup {"create"} /\ proc[s].r.owner = proc[t].arg)
              /\ ~(proc[s].op = "transfer" /\ proc[s].arg = proc[t].arg)
    BY <2>1 DEF Inv, Apart
  <2>3. \A s \in Procs : d \in proc'[s].names => s # p /\ proc'[s] = proc[s]
    BY <1>7, IdleFacts
  <2>4. ASSUME row'[d] # None, row'[d].owner = proc[t].arg PROVE d \in proc[t].names
    <3>1. CASE d \notin q.names
      BY <1>6, <2>2, <2>4, <3>1
    <3>2. CASE d \in q.names
      <4>1. q.op \notin Done
        BY <1>6, <2>4, <3>2
      <4>2. CASE d # d0 /\ q.op \notin {"suspend", "unsuspend"}
        <5>1. row'[d] = row[d]
          BY <1>2, <1>4, <1>6, <3>2, <4>1, <4>2 DEF Fits, Done, Everyone
        <5> QED
          BY <2>2, <2>4, <5>1
      <4>3. CASE d = d0 \/ q.op \in {"suspend", "unsuspend"}
        <5>1. row'[d] = NewRow(q, d)
          BY <1>11, <3>2, <4>1, <4>3
        <5>2. row'[d].owner = CASE q.op \in {"create", "update"} -> q.r.owner [] q.op = "transfer" -> q.arg
                                [] OTHER -> row[d].owner
          BY <5>1 DEF NewRow
        <5>3. /\ ~(q.op \in {"create", "update"} /\ q.r.owner = proc[t].arg)
              /\ ~(q.op = "transfer" /\ q.arg = proc[t].arg)
          BY <1>1, <2>2, <3>2 DEF Patches
        <5>4. q.op # "create" => row[d] # None
          BY <1>6, <1>8, <3>2, <4>1, <4>3, <1>4 DEF Held, Everyone
        <5> QED
          BY <2>2, <2>4, <5>2, <5>3, <5>4
      <4> QED
        BY <4>2, <4>3
    <3> QED
      BY <3>1, <3>2
  <2> QED
    BY <2>1, <2>2, <2>3, <2>4
<1>18. Unlent'
  <2> SUFFICES ASSUME NEW t \in Procs, proc'[t].op \in {"ssl", "manual"}, NEW d \in Names \ spoiled
               PROVE  /\ row'[d] # None /\ row'[d].ssl = "shared" => row'[d].source # proc'[t].site
                      /\ \A s \in Procs : d \in proc'[s].names =>
                            ~(proc'[s].op = "share" /\ proc'[s].arg = proc'[t].site)
    BY <1>3 DEF Unlent
  <2>1. t # p /\ proc'[t] = proc[t]
    BY <1>7, IdleFacts
  <2>2. /\ row[d] # None /\ row[d].ssl = "shared" => row[d].source # proc[t].site
        /\ \A s \in Procs : d \in proc[s].names => ~(proc[s].op = "share" /\ proc[s].arg = proc[t].site)
    BY <2>1 DEF Inv, Unlent
  <2>3. \A s \in Procs : d \in proc'[s].names => s # p /\ proc'[s] = proc[s]
    BY <1>7, IdleFacts
  <2>4. ASSUME row'[d] # None, row'[d].ssl = "shared" PROVE row'[d].source # proc[t].site
    <3>1. CASE d \notin q.names
      BY <1>6, <2>2, <2>4, <3>1
    <3>2. CASE d \in q.names
      <4>1. q.op \notin Done
        BY <1>6, <2>4, <3>2
      <4>2. CASE d # d0 /\ q.op \notin {"suspend", "unsuspend"}
        <5>1. row'[d] = row[d]
          BY <1>2, <1>4, <1>6, <3>2, <4>1, <4>2 DEF Fits, Done, Everyone
        <5> QED
          BY <2>2, <2>4, <5>1
      <4>3. CASE d = d0 \/ q.op \in {"suspend", "unsuspend"}
        <5>1. row'[d] = NewRow(q, d)
          BY <1>11, <3>2, <4>1, <4>3
        <5>2. q.op # "create" => row[d] # None
          BY <1>6, <1>8, <3>2, <4>1, <4>3, <1>4 DEF Held, Everyone
        <5>3. q.op \in {"create", "manual", "ssl"} => Reads(q, d)
          BY <1>4, <3>2, <4>3
        <5>4. \/ row[d] # None /\ row[d].ssl = "shared" /\ row[d].source = row'[d].source
              \/ q.op = "share" /\ q.arg = row'[d].source
          BY <1>4, <2>4, <5>1, <5>2, <5>3, NewRowFacts DEF Inv
        <5> QED
          BY <1>1, <2>2, <3>2, <5>4
      <4> QED
        BY <4>2, <4>3
    <3> QED
      BY <3>1, <3>2
  <2> QED
    BY <2>1, <2>2, <2>3, <2>4
<1>19. Claims'
  <2> SUFFICES ASSUME NEW t \in Procs
               PROVE  /\ proc'[t].op = "alias" /\ proc'[t].pc # "flush" => lock' = t /\ aliasOf'[proc'[t].arg] = None
                      /\ proc'[t].op = "unalias" => aliasOf'[proc'[t].arg] \in {proc'[t].site, None} \cup spoiled
    BY <1>3 DEF Claims
  <2>1. CASE t = p
    BY <1>7, <2>1, IdleFacts
  <2>2. CASE t # p
    <3>1. proc'[t] = proc[t] /\ lock # t
      BY <1>3, <1>7, <2>2, Distinct
    <3>2. ~(proc[t].op = "alias" /\ proc[t].pc # "flush")
      BY <3>1 DEF Inv, Claims
    <3>3. ASSUME proc[t].op = "unalias" PROVE aliasOf'[proc[t].arg] \in {proc[t].site, None} \cup spoiled
      <4>1. /\ aliasOf[proc[t].arg] \in {proc[t].site, None} \cup spoiled
            /\ proc[t].arg \in Names /\ proc[t].arg \in proc[t].names
        BY <3>3, Working DEF Inv, Claims, Fits
      <4>2. CASE aliasOf'[proc[t].arg] \in {aliasOf[proc[t].arg], None}
        BY <4>1, <4>2
      <4>3. CASE q.op = "alias" /\ proc[t].arg = q.arg /\ aliasOf'[proc[t].arg] = d0
        <5>1. q.arg \in q.names
          BY <1>4, <4>3 DEF Fits
        <5>2. d0 \in spoiled
          BY <1>1, <1>4, <2>2, <4>1, <4>3, <5>1 DEF Inv, Alone
        <5> QED
          BY <4>3, <5>2
      <4> QED
        BY <1>5, <4>1, <4>2, <4>3
    <3> QED
      BY <3>1, <3>2, <3>3
  <2> QED
    BY <2>1, <2>2
<1> QED
  BY <1>9, <1>14, <1>15, <1>16, <1>17, <1>18, <1>19 DEF Inv

-----------------------------------------------------------------------------
(* A request comes in.                                                      *)

\* What it has read when it begins.
Fresh(q) ==
    /\ q.op \in {"create", "update", "unsuspend"} => q.pc = "runtime"
    /\ q.op \in {"alias", "unalias", "delete"} => q.pc = "flush"
    /\ q.op = "transfer" => q.pc = "move"
    /\ q.op = "manual" => q.pc = "install"
    /\ q.op \in {"refresh", "share"} => q.pc = "write"
    /\ q.op \in {"suspend", "remove"} => q.pc = "unlink"
    /\ IF q.op = "create" THEN row[q.site] = None /\ q.r = Plain(q.r.owner)
       ELSE /\ row[q.site] # None /\ q.r.owner = row[q.site].owner /\ q.r.setting = row[q.site].setting
            /\ q.op \notin Everyone => q.r.status = row[q.site].status
            /\ q.op # "share" => q.r.ssl = row[q.site].ssl /\ q.r.source = row[q.site].source
    /\ q.op = "share" => q.site \in Covers(q.arg)
    /\ q.op = "ssl" => IF row[q.site].ssl = "manual" THEN q.bare /\ q.pc = "write" ELSE ~q.bare /\ q.pc = "issue"
    /\ q.op \in {"ssl", "manual"} => Dependents(q.site) = {}
    /\ q.op = "unalias" => aliasOf[q.arg] = q.site
    /\ q.op \in Everyone => q.names = SitesOf(q.arg) /\ q.todo = q.names \ {q.site}
    /\ q.op \in Everyone \cup Patches => \A n \in q.names : row[n] # None /\ q.loaded[n] = row[n]

LEMMA FreshAtSite ==
  ASSUME Inv, NEW q \in Tickets, Fits(q), q # Idle, Fresh(q), NEW d \in Names, d = q.site, Calm(d)
  PROVE  AtSite(q, d)
<1>1. AsRow(d) /\ AtHome(d)
  BY DEF Calm
<1>2. q.op \in Writers \cup Done
  BY DEF Tickets, Ops, Fits
<1>3. Reads(q, d)
  <2>1. CASE q.op = "create"
    BY <1>1, <2>1 DEF Reads, Fresh, AsRow
  <2>2. CASE q.op = "ssl"
    BY <2>2 DEF Reads, Fresh, Everyone
  <2>3. CASE q.op = "share"
    BY <2>3 DEF Reads, Fresh, Everyone, Fits
  <2>4. CASE q.op = "manual"
    BY <2>4 DEF Reads, Fresh, Everyone
  <2>5. CASE q.op \notin {"create", "ssl", "share", "manual"}
    BY <2>5 DEF Reads, Fresh
  <2> QED
    BY <2>1, <2>2, <2>3, <2>4, <2>5 DEF Patches
<1>4. ~Gone(q) /\ ~Bare(q) /\ ~After(q) /\ Before(q) /\ q.pc # "test" /\ ~(q.op = "manual" /\ q.pc = "write")
  BY <1>2 DEF Gone, Bare, After, Before, Fresh, Writers, Done
<1>5. FileAt(q, d)
  <2>1. CASE q.op \in Patches
    BY <1>1, <1>3, <1>4, <2>1 DEF FileAt, AsHeld, AsRow, Shows, Fresh, Patches, Everyone
  <2>2. CASE q.op \notin Patches
    BY <1>1, <1>4, <2>2 DEF FileAt, AsHeld
  <2> QED
    BY <2>1, <2>2
<1>6. CertsAt(q, d)
  <2>1. q.op # "create" => Certified(d, row[d], certs)
    BY <1>1 DEF AsRow, Fresh
  <2>2. ASSUME q.op = "share" PROVE Certified(d, q.r, certs)
    <3>1. q.r.ssl = "shared" /\ q.r.source = q.arg /\ d \in Covers(q.arg)
      BY <2>2 DEF Fits, Fresh
    <3> QED
      BY <3>1 DEF Certified, Covers, HasCert, Lends, Own
  <2> QED
    BY <1>4, <2>1, <2>2 DEF CertsAt
<1>7. FolderAt(q, d)
  BY <1>1, <1>2 DEF FolderAt, AtHome, Fresh, Writers, Done
<1> QED
  BY <1>3, <1>5, <1>6, <1>7 DEF AtSite

\* A request takes up what it will do, at its beginning or at a further part.
LEMMA Entered ==
  ASSUME Inv, NEW p \in Procs, NEW q \in Tickets, Fits(q), q # Idle,
         proc' = [proc EXCEPT ![p] = q], spoiled' = spoiled \cup Crossed(p, q), proc[p].names \subseteq q.names,
         lock # p, UNCHANGED <<accounts, row, aliasOf, vhost, files, certs, lock, kept>>, requests' \in 0..MaxRequests,
         \A d \in q.names \ spoiled' : Held(q, d),
         q.op = "remove" => SitesOf(q.arg) \subseteq q.names,
         q.op \in {"ssl", "manual"} => Dependents(q.site) = {},
         q.op = "alias" => q.pc = "flush", q.op = "unalias" => aliasOf[q.arg] = q.site
  PROVE  Inv'
<1>3. proc'[p] = q /\ \A t \in Procs \ {p} : proc'[t] = proc[t]
  BY DEF Inv, Types
<1>4. /\ q.op # "idle" /\ q.site \in q.names /\ q.names \subseteq Names
  BY DEF Fits, Tickets
<1>5. /\ spoiled \subseteq spoiled' /\ spoiled' \subseteq Names
      /\ \A s \in Procs \ {p} : Meets(q, proc[s]) => q.names \subseteq spoiled' /\ proc[s].names \subseteq spoiled'
  <2>1. \A s \in Procs : proc[s].names \subseteq Names
    BY DEF Inv, Types, Tickets
  <2> QED
    BY <1>4, <2>1 DEF Crossed, Inv, Types
<1>6. Types'
  <2>1. proc' \in [Procs -> Tickets] /\ \A t \in Procs : Fits(proc'[t])
    BY <1>3 DEF Inv, Types
  <2>3. lock # None => Transacts(proc'[lock])
    BY <1>3 DEF Inv, Types
  <2> QED
    BY <1>5, <2>1, <2>3 DEF Inv, Types
<1>7. \A d : AliasesOf(d)' = AliasesOf(d)
  BY DEF AliasesOf
<1>8. \A d : (Calm(d) => Calm(d)') /\ \A u : Held(u, d) => Held(u, d)'
  BY <1>7, SameName
<1>9. Alone'
  <2> SUFFICES ASSUME NEW t \in Procs, NEW s \in Procs, t # s, NEW d \in Names, d \in proc'[t].names, d \in proc'[s].names
               PROVE  proc'[t].names \subseteq spoiled'
    BY DEF Alone
  <2>1. CASE t = p
    BY <1>3, <1>5, <2>1 DEF Meets
  <2>2. CASE s = p
    BY <1>3, <1>5, <2>2 DEF Meets
  <2>3. CASE t # p /\ s # p
    BY <1>3, <1>5, <2>3 DEF Inv, Alone
  <2> QED
    BY <2>1, <2>2, <2>3
<1>10. Quiet'
  <2> SUFFICES ASSUME NEW d \in Names \ spoiled', AtRest(d)' PROVE Calm(d)'
    BY DEF Quiet
  <2>1. AtRest(d) /\ d \notin spoiled
    BY <1>3, <1>5 DEF AtRest
  <2> QED
    BY <1>8, <2>1 DEF Inv, Quiet
<1>12. Busy'
  <2> SUFFICES ASSUME NEW t \in Procs, NEW u \in {proc'[t]}, NEW d \in u.names \ spoiled' PROVE Held(u, d)'
    BY DEF Busy
  <2>1. CASE t = p
    BY <1>3, <1>8, <2>1
  <2>2. CASE t # p
    <3>1. u = proc[t] /\ d \notin spoiled
      BY <1>3, <1>5, <2>2
    <3>2. Held(u, d)
      BY <3>1 DEF Inv, Busy
    <3> QED
      BY <1>8, <3>2
  <2> QED
    BY <2>1, <2>2
<1>13. Apart'
  <2> SUFFICES ASSUME NEW t \in Procs, proc'[t].op = "remove", NEW d \in Names \ spoiled'
               PROVE  /\ row[d] # None /\ row[d].owner = proc'[t].arg => d \in proc'[t].names
                      /\ \A s \in Procs : d \in proc'[s].names =>
                            /\ ~(proc'[s].op \in Patches \cup {"create"} /\ proc'[s].r.owner = proc'[t].arg)
                            /\ ~(proc'[s].op = "transfer" /\ proc'[s].arg = proc'[t].arg)
    BY DEF Apart
  <2>1. row[d] # None /\ row[d].owner = proc'[t].arg => d \in proc'[t].names
    <3>1. CASE t = p
      BY <1>3, <3>1 DEF SitesOf
    <3>2. CASE t # p
      BY <1>3, <1>5, <3>2 DEF Inv, Apart
    <3> QED
      BY <3>1, <3>2
  <2>2. ASSUME NEW s \in Procs, d \in proc'[s].names
        PROVE  /\ ~(proc'[s].op \in Patches \cup {"create"} /\ proc'[s].r.owner = proc'[t].arg)
               /\ ~(proc'[s].op = "transfer" /\ proc'[s].arg = proc'[t].arg)
    <3>1. CASE t = p /\ s = p
      BY <1>3, <3>1 DEF Patches
    <3>2. CASE t = p /\ s # p
      BY <1>3, <1>5, <2>2, <3>2 DEF Meets, Undermines, Patches
    <3>3. CASE t # p /\ s = p
      BY <1>3, <1>5, <2>2, <3>3 DEF Meets, Undermines, Patches
    <3>4. CASE t # p /\ s # p
      BY <1>3, <1>5, <2>2, <3>4 DEF Inv, Apart
    <3> QED
      BY <3>1, <3>2, <3>3, <3>4
  <2> QED
    BY <2>1, <2>2
<1>14. Unlent'
  <2> SUFFICES ASSUME NEW t \in Procs, proc'[t].op \in {"ssl", "manual"}, NEW d \in Names \ spoiled'
               PROVE  /\ row[d] # None /\ row[d].ssl = "shared" => row[d].source # proc'[t].site
                      /\ \A s \in Procs : d \in proc'[s].names =>
                            ~(proc'[s].op = "share" /\ proc'[s].arg = proc'[t].site)
    BY DEF Unlent
  <2>1. row[d] # None /\ row[d].ssl = "shared" => row[d].source # proc'[t].site
    <3>1. CASE t = p
      BY <1>3, <3>1 DEF Dependents
    <3>2. CASE t # p
      BY <1>3, <1>5, <3>2 DEF Inv, Unlent
    <3> QED
      BY <3>1, <3>2
  <2>2. ASSUME NEW s \in Procs, d \in proc'[s].names
        PROVE  ~(proc'[s].op = "share" /\ proc'[s].arg = proc'[t].site)
    <3>1. CASE t = p /\ s = p
      BY <1>3, <3>1 DEF Patches
    <3>2. CASE t = p /\ s # p
      BY <1>3, <1>5, <2>2, <3>2 DEF Meets, Undermines, Patches
    <3>3. CASE t # p /\ s = p
      BY <1>3, <1>5, <2>2, <3>3 DEF Meets, Undermines, Patches
    <3>4. CASE t # p /\ s # p
      BY <1>3, <1>5, <2>2, <3>4 DEF Inv, Unlent
    <3> QED
      BY <3>1, <3>2, <3>3, <3>4
  <2> QED
    BY <2>1, <2>2
<1>15. Claims'
  <2> SUFFICES ASSUME NEW t \in Procs
               PROVE  /\ proc'[t].op = "alias" /\ proc'[t].pc # "flush" => lock = t /\ aliasOf[proc'[t].arg] = None
                      /\ proc'[t].op = "unalias" => aliasOf[proc'[t].arg] \in {proc'[t].site, None} \cup spoiled'
    BY DEF Claims
  <2>1. CASE t = p
    BY <1>3, <2>1
  <2>2. CASE t # p
    BY <1>3, <1>5, <2>2 DEF Inv, Claims
  <2> QED
    BY <2>1, <2>2
<1> QED
  BY <1>6, <1>9, <1>10, <1>12, <1>13, <1>14, <1>15 DEF Inv

LEMMA Begun ==
  ASSUME Inv, NEW p \in Procs, NEW q \in Tickets, Fits(q), q # Idle, Fresh(q), Begin(p, q)
  PROVE  Inv'
<1>1. /\ proc[p].pc = "idle" /\ requests < MaxRequests /\ requests' = requests + 1 /\ proc' = [proc EXCEPT ![p] = q]
      /\ spoiled' = spoiled \cup Crossed(p, q)
      /\ UNCHANGED <<accounts, row, aliasOf, vhost, files, certs, lock, kept>>
  BY DEF Begin, At, db, disk
<1>2. proc[p] = Idle /\ proc[p].names = {} /\ proc[p].op = "idle"
  BY <1>1, IdleFacts DEF Inv, Types, Fits
<1>3. lock # p
  BY <1>2, Distinct DEF Inv, Types, Transacts, Done
<1>4. requests' \in 0..MaxRequests
  BY <1>1, SitesConstants DEF Inv, Types
<1>5. q.op # "idle" /\ q.site \in q.names /\ q.names \subseteq Names
  BY DEF Fits, Tickets
<1>6. ASSUME NEW d \in q.names \ spoiled' PROVE Held(q, d)
  <2>1. AtRest(d) /\ d \notin spoiled
    <3>1. \A s \in Procs \ {p} : d \notin proc[s].names
      BY <1>1, <1>6 DEF Crossed, Meets
    <3> QED
      BY <1>1, <1>2, <1>6, <3>1 DEF AtRest
  <2>2. Calm(d) /\ d \in Names
    BY <1>5, <1>6, <2>1 DEF Inv, Quiet
  <2>3. /\ q.op \in Everyone \cup Patches => row[d] # None /\ q.loaded[d] = row[d]
        /\ q.op \in Everyone /\ d # q.site => d \in q.todo
    BY <1>6 DEF Fresh
  <2>4. d = q.site => AtSite(q, d)
    BY <2>2, FreshAtSite
  <2> QED
    BY <2>2, <2>3, <2>4 DEF Held
<1>7. /\ q.op = "remove" => SitesOf(q.arg) \subseteq q.names
      /\ q.op \in {"ssl", "manual"} => Dependents(q.site) = {}
      /\ q.op = "alias" => q.pc = "flush"
      /\ q.op = "unalias" => aliasOf[q.arg] = q.site
  BY DEF Fresh, Everyone
<1> QED
  BY <1>1, <1>2, <1>3, <1>4, <1>6, <1>7, Entered

\* The next part of a change finds what the parts before it made.
LEMMA InvFurther ==
  ASSUME Inv, NEW p \in Procs, Further(p)
  PROVE  Inv'
<1>1. PICK q : q = proc[p]
  OBVIOUS
<1>2. PICK r : r = Changed(q)
  OBVIOUS
<1>3. q.pc = "commit" /\ q.op \in Patches
  BY <1>1 DEF Further, At
<1>4. /\ q \in Tickets /\ Fits(q) /\ q # Idle /\ q.site \in Names /\ q.r \in GoodRows
      /\ q.names = {q.site} /\ q.todo = {} /\ ~q.bare /\ lock # p
      /\ q.op = "update" => q.arg \in Settings
      /\ q.op = "transfer" => q.arg \in Owners
      /\ q.loaded \in [q.names -> GoodRows]
  <2>1. q \in Tickets /\ Fits(q) /\ q # Idle /\ q.site \in Names /\ q.r \in GoodRows /\ (lock = p => Transacts(q))
    BY <1>1, <1>3, AtWork
  <2>2. q.bare \in BOOLEAN
    BY <2>1 DEF Tickets
  <2> QED
    BY <1>3, <2>1, <2>2 DEF Fits, Transacts, Patches, Everyone, Done
<1>5. /\ r \in GoodRows /\ r.status = q.r.status /\ r.ssl = q.r.ssl /\ r.source = q.r.source
      /\ r.setting = (IF q.op = "update" THEN q.arg ELSE q.r.setting)
      /\ r.owner = (IF q.op = "transfer" THEN q.arg ELSE q.r.owner)
  <2>1. CASE q.op = "update"
    BY <1>2, <1>4, <2>1, RowFacts DEF Changed, GoodRows, Rows
  <2>2. CASE q.op = "transfer"
    BY <1>2, <1>4, <2>2, RowFacts DEF Changed, GoodRows, Rows
  <2> QED
    BY <1>3, <2>1, <2>2 DEF Patches
<1>6. PICK op \in Patches, pc \in {"runtime", "move"}, arg \in Args :
        /\ \/ op = "update" /\ pc = "runtime" /\ arg \in Settings
           \/ op = "transfer" /\ pc = "move" /\ arg \in Owners
        /\ proc' = [proc EXCEPT ![p] = [q EXCEPT !.op = op, !.pc = pc, !.arg = arg, !.r = r, !.had = TRUE]]
        /\ spoiled' = spoiled \cup Crossed(p, [q EXCEPT !.op = op, !.pc = pc, !.arg = arg, !.r = r, !.had = TRUE])
  BY <1>1, <1>2 DEF Further, Patches, Args, Inv, Types
<1>7. PICK w : w = [q EXCEPT !.op = op, !.pc = pc, !.arg = arg, !.r = r, !.had = TRUE]
  OBVIOUS
<1>8. /\ w \in Tickets /\ w.op = op /\ w.pc = pc /\ w.arg = arg /\ w.r = r /\ w.had /\ w.site = q.site
      /\ w.names = q.names /\ w.todo = q.todo /\ w.bare = q.bare /\ w.loaded = q.loaded
  BY <1>4, <1>5, <1>6, <1>7 DEF Tickets, Patches, Ops, Writers, Pcs
<1>9. Fits(w) /\ w # Idle
  <2>1. Serves(w) /\ w.op # "idle" /\ w.pc # "idle"
    BY <1>6, <1>8 DEF Serves, Patches
  <2> QED
    BY <1>4, <1>5, <1>6, <1>8, <2>1, IdleFacts DEF Fits, Patches, Everyone
<1>10. UNCHANGED <<accounts, row, aliasOf, vhost, files, certs, lock, kept, requests>>
  BY DEF Further, db, disk
<1>11. ASSUME NEW d \in w.names \ spoiled' PROVE Held(w, d)
  <2>1. d = q.site /\ d \notin spoiled
    BY <1>4, <1>6, <1>8, <1>11
  <2>2. AtSite(q, d) /\ row[d] # None /\ q.loaded[d] = row[d]
    BY <1>1, <1>3, <2>1, AtWork DEF Patches
  <2>3. q.r.status = row[d].status /\ q.r.ssl = row[d].ssl /\ q.r.source = row[d].source
    BY <1>3, <2>2 DEF AtSite, Reads, Patches, Everyone
  <2>4. NewRow(q, d) = r /\ NewAls(q, d) = AliasesOf(d)
    <3>1. r = [owner |-> r.owner, status |-> r.status, setting |-> r.setting, ssl |-> r.ssl, source |-> r.source]
      BY <1>5 DEF GoodRows, Rows
    <3> QED
      BY <1>3, <1>5, <2>3, <3>1 DEF NewRow, NewAls, Patches
  <2>5. Shows(vhost[d], d, r, AliasesOf(d), certs) /\ Certified(d, r, certs)
    <3>1. After(q)
      BY <1>3 DEF After, Gone, Bare, Patches, Done
    <3> QED
      BY <2>2, <2>4, <3>1 DEF AtSite, FileAt, WillServe
  <2>6. Reads(w, d)
    BY <1>5, <1>6, <1>8, <2>2, <2>3 DEF Reads, Patches, Everyone
  <2>7. Before(w) /\ ~Gone(w) /\ ~Bare(w) /\ ~After(w) /\ w.pc \notin {"write", "test"}
    BY <1>6, <1>8 DEF Before, Gone, Bare, After, Patches, Done
  <2>8. FileAt(w, d)
    BY <1>8, <2>5, <2>7 DEF FileAt, AsHeld
  <2>9. CertsAt(w, d)
    <3>1. Certified(d, row[d], certs)
      BY <1>5, <2>3, <2>5 DEF Certified
    <3> QED
      BY <1>6, <1>8, <2>7, <3>1 DEF CertsAt, Patches
  <2>10. FolderAt(w, d)
    <3>1. Folder(d, r.owner)
      BY <1>3, <1>5, <2>2 DEF AtSite, FolderAt, Patches, Done
    <3> QED
      BY <1>6, <1>8, <3>1 DEF FolderAt, Patches, Done
  <2> QED
    BY <1>8, <2>1, <2>2, <2>6, <2>8, <2>9, <2>10 DEF Held, AtSite
<1>12. w.op \notin {"remove", "ssl", "manual", "alias", "unalias"}
  BY <1>8 DEF Patches
<1>13. requests' \in 0..MaxRequests /\ proc[p].names \subseteq w.names
  BY <1>1, <1>8, <1>10 DEF Inv, Types
<1> QED
  BY <1>4, <1>6, <1>7, <1>8, <1>9, <1>10, <1>11, <1>12, <1>13, Entered

\* Requests that take the row as it is, and are at its website only.
LEMMA InvPlainStarts ==
  ASSUME Inv, NEW p \in Procs, Update(p) \/ Transfer(p) \/ Refresh(p) \/ Delete(p) \/ InstallManual(p)
  PROVE  Inv'
<1>1. PICK d \in Names, op \in Ops \ {"idle"}, pc \in Pcs \ {"idle"}, arg \in Args :
         /\ row[d] # None /\ Begin(p, On(d, op, pc, arg))
         /\ \/ op = "update" /\ pc = "runtime" /\ arg \in Settings
            \/ op = "transfer" /\ pc = "move" /\ arg \in Owners
            \/ op = "refresh" /\ pc = "write"
            \/ op = "delete" /\ pc = "flush"
            \/ op = "manual" /\ pc = "install" /\ Dependents(d) = {}
  <2>1. accounts \subseteq Owners
    BY DEF Inv, Types
  <2>2. {"update", "transfer", "refresh", "delete", "manual"} \subseteq Ops \ {"idle"}
    BY DEF Ops, Writers, Done
  <2>3. {"runtime", "move", "write", "flush", "install"} \subseteq Pcs \ {"idle"}
    BY DEF Pcs
  <2>4. Settings \subseteq Args /\ Owners \subseteq Args /\ {None, "all", "keep folder"} \subseteq Args
    BY DEF Args
  <2>5. CASE Update(p)
    BY <2>2, <2>3, <2>4, <2>5 DEF Update
  <2>6. CASE Transfer(p)
    BY <2>1, <2>2, <2>3, <2>4, <2>6 DEF Transfer
  <2>7. CASE Refresh(p)
    BY <2>2, <2>3, <2>4, <2>7 DEF Refresh
  <2>8. CASE Delete(p)
    BY <2>2, <2>3, <2>4, <2>8 DEF Delete
  <2>9. CASE InstallManual(p)
    BY <2>2, <2>3, <2>4, <2>9 DEF InstallManual
  <2> QED
    BY <2>5, <2>6, <2>7, <2>8, <2>9
<1>2. PICK q : q = On(d, op, pc, arg)
  OBVIOUS
<1>3. /\ q \in Tickets /\ q.op = op /\ q.pc = pc /\ q.site = d /\ q.arg = arg /\ q.r = row[d] /\ q.names = {d}
      /\ q.todo = {} /\ q.bare = FALSE
      /\ op \in Patches => q.loaded \in [{d} -> GoodRows] /\ q.loaded[d] = row[d]
  <2>1. PICK l : l = IF op \in Patches THEN [n \in {d} |-> row[n]] ELSE None
    OBVIOUS
  <2>2. row[d] \in GoodRows
    BY <1>1 DEF Inv, Types
  <2>3. op \in Patches => l \in [{d} -> GoodRows] /\ l[d] = row[d]
    BY <2>1, <2>2
  <2>4. {d} \in SUBSET Names
    OBVIOUS
  <2>5. l \in Loads \cup {None}
    BY <2>1, <2>3, <2>4 DEF Loads
  <2>6. q = [op |-> op, pc |-> pc, site |-> d, arg |-> arg, r |-> row[d], old |-> None, bare |-> FALSE,
             had |-> FALSE, todo |-> {}, names |-> {d}, loaded |-> l]
    BY <1>2, <2>1 DEF On, Idle
  <2> QED
    BY <1>1, <2>2, <2>3, <2>5, <2>6 DEF Tickets
<1>4. q.r \in GoodRows
  BY <1>1, <1>3 DEF Inv, Types
<1>5. Serves(q)
  BY <1>1, <1>3 DEF Serves, Writers, Done
<1>6. Fits(q) /\ q # Idle
  BY <1>1, <1>3, <1>4, <1>5, IdleFacts DEF Fits, Everyone, Patches
<1>7. Fresh(q)
  BY <1>1, <1>3 DEF Fresh, Everyone, Patches
<1> QED
  BY <1>1, <1>2, <1>3, <1>6, <1>7, Begun

LEMMA InvAliasStarts ==
  ASSUME Inv, NEW p \in Procs, AddAlias(p) \/ RemoveAlias(p)
  PROVE  Inv'
<1>1. PICK d \in Names, n \in Names, op \in {"alias", "unalias"} :
         /\ row[d] # None /\ Begin(p, [On(d, op, "flush", n) EXCEPT !.names = {d, n}])
         /\ n # d /\ (op = "unalias" => aliasOf[n] = d)
  <2>1. CASE AddAlias(p)
    BY <2>1 DEF AddAlias
  <2>2. CASE RemoveAlias(p)
    <3>1. PICK d \in Names, n \in Names :
            row[d] # None /\ aliasOf[n] = d /\ Begin(p, [On(d, "unalias", "flush", n) EXCEPT !.names = {d, n}])
      BY <2>2 DEF RemoveAlias
    <3>2. n # d
      BY <3>1 DEF Inv, Types
    <3> QED
      BY <3>1, <3>2
  <2> QED
    BY <2>1, <2>2
<1>2. PICK o : o = On(d, op, "flush", n)
  OBVIOUS
<1>3. PICK q : q = [o EXCEPT !.names = {d, n}]
  OBVIOUS
<1>4. o = [op |-> op, pc |-> "flush", site |-> d, arg |-> n, r |-> row[d], old |-> None, bare |-> FALSE,
           had |-> FALSE, todo |-> {}, names |-> {d}, loaded |-> None]
  BY <1>1, <1>2 DEF On, Idle, Patches
<1>5. q = [op |-> op, pc |-> "flush", site |-> d, arg |-> n, r |-> row[d], old |-> None, bare |-> FALSE,
           had |-> FALSE, todo |-> {}, names |-> {d, n}, loaded |-> None]
  BY <1>3, <1>4
<1>6. row[d] \in GoodRows
  BY <1>1 DEF Inv, Types
<1>7. q \in Tickets
  BY <1>5, <1>6 DEF Tickets, Ops, Writers, Pcs, Args
<1>8. Serves(q)
  BY <1>5 DEF Serves, Writers, Done
<1>9. Fits(q) /\ q # Idle
  BY <1>1, <1>5, <1>6, <1>8, IdleFacts DEF Fits, Everyone, Patches
<1>10. Fresh(q)
  BY <1>1, <1>5 DEF Fresh, Everyone, Patches
<1> QED
  BY <1>1, <1>2, <1>3, <1>7, <1>9, <1>10, Begun

LEMMA InvCreate ==
  ASSUME Inv, NEW p \in Procs, Create(p)
  PROVE  Inv'
<1>1. PICK d \in Names, x \in Owners :
         /\ row[d] = None
         /\ Begin(p, [On(d, "create", "runtime", None) EXCEPT !.r = Plain(x)])
  BY DEF Create, Taken, Inv, Types
<1>2. PICK o : o = On(d, "create", "runtime", None)
  OBVIOUS
<1>3. PICK q : q = [o EXCEPT !.r = Plain(x)]
  OBVIOUS
<1>4. o = [op |-> "create", pc |-> "runtime", site |-> d, arg |-> None, r |-> row[d], old |-> None, bare |-> FALSE,
           had |-> FALSE, todo |-> {}, names |-> {d}, loaded |-> None]
  BY <1>2 DEF On, Idle, Patches
<1>5. q = [op |-> "create", pc |-> "runtime", site |-> d, arg |-> None, r |-> Plain(x), old |-> None, bare |-> FALSE,
           had |-> FALSE, todo |-> {}, names |-> {d}, loaded |-> None]
  BY <1>3, <1>4
<1>6. Plain(x) \in GoodRows /\ Plain(x).owner = x
  BY PlainFacts
<1>7. q \in Tickets
  BY <1>5, <1>6 DEF Tickets, Ops, Writers, Pcs, Args
<1>8. Serves(q)
  BY <1>5 DEF Serves, Writers, Done
<1>9. Fits(q) /\ q # Idle
  BY <1>5, <1>6, <1>8, IdleFacts DEF Fits, Everyone, Patches
<1>10. Fresh(q)
  BY <1>1, <1>5, <1>6 DEF Fresh, Everyone, Patches
<1> QED
  BY <1>1, <1>2, <1>3, <1>7, <1>9, <1>10, Begun

LEMMA InvEnableSsl ==
  ASSUME Inv, NEW p \in Procs, EnableSsl(p)
  PROVE  Inv'
<1>1. PICK d \in Names :
         /\ row[d] # None /\ Dependents(d) = {}
         /\ Begin(p, IF row[d].ssl = "manual" THEN [On(d, "ssl", "write", None) EXCEPT !.bare = TRUE]
                     ELSE On(d, "ssl", "issue", None))
  BY DEF EnableSsl
<1>2. PICK q : q = IF row[d].ssl = "manual" THEN [On(d, "ssl", "write", None) EXCEPT !.bare = TRUE]
                   ELSE On(d, "ssl", "issue", None)
  OBVIOUS
<1>3. q = [op |-> "ssl", pc |-> IF row[d].ssl = "manual" THEN "write" ELSE "issue", site |-> d, arg |-> None,
           r |-> row[d], old |-> None, bare |-> IF row[d].ssl = "manual" THEN TRUE ELSE FALSE,
           had |-> FALSE, todo |-> {}, names |-> {d}, loaded |-> None]
  BY <1>2 DEF On, Idle, Patches
<1>4. row[d] \in GoodRows
  BY <1>1 DEF Inv, Types
<1>5. q \in Tickets
  BY <1>3, <1>4 DEF Tickets, Ops, Writers, Pcs, Args
<1>6. Serves(q)
  BY <1>3 DEF Serves, Writers, Done
<1>7. Fits(q) /\ q # Idle
  BY <1>3, <1>4, <1>6, IdleFacts DEF Fits, Everyone, Patches
<1>8. Fresh(q)
  BY <1>1, <1>3 DEF Fresh, Everyone, Patches
<1> QED
  BY <1>1, <1>2, <1>5, <1>7, <1>8, Begun

LEMMA InvInstallShared ==
  ASSUME Inv, NEW p \in Procs, InstallShared(p)
  PROVE  Inv'
<1>1. PICK d \in Names, s \in Names :
         /\ row[d] # None /\ row[s] # None
         /\ LET cert == IF row[s].source # None THEN row[s].source ELSE s IN
             /\ d \in Covers(cert)
             /\ Begin(p, [On(d, "share", "write", cert) EXCEPT !.r.ssl = "shared", !.r.source = cert])
  BY DEF InstallShared
<1>2. PICK c : c = IF row[s].source # None THEN row[s].source ELSE s
  OBVIOUS
<1>3. c \in Names /\ row[d] \in GoodRows
  BY <1>1, <1>2, RowFacts DEF Inv, Types
<1>4. PICK o : o = On(d, "share", "write", c)
  OBVIOUS
<1>5. PICK q : q = [o EXCEPT !.r.ssl = "shared", !.r.source = c]
  OBVIOUS
<1>6. d \in Covers(c) /\ Begin(p, q)
  BY <1>1, <1>2, <1>4, <1>5
<1>7. o = [op |-> "share", pc |-> "write", site |-> d, arg |-> c, r |-> row[d], old |-> None, bare |-> FALSE,
           had |-> FALSE, todo |-> {}, names |-> {d}, loaded |-> None]
  BY <1>4 DEF On, Idle, Patches
<1>8. PICK r : r = [row[d] EXCEPT !.ssl = "shared", !.source = c]
  OBVIOUS
<1>9. r \in GoodRows /\ r.ssl = "shared" /\ r.source = c /\ r.owner = row[d].owner /\ r.setting = row[d].setting
      /\ r.status = row[d].status
  BY <1>3, <1>8, RowFacts DEF GoodRows, Rows
<1>10. q = [op |-> "share", pc |-> "write", site |-> d, arg |-> c, r |-> r, old |-> None, bare |-> FALSE,
            had |-> FALSE, todo |-> {}, names |-> {d}, loaded |-> None]
  BY <1>5, <1>7, <1>8
<1>11. q \in Tickets
  BY <1>3, <1>9, <1>10 DEF Tickets, Ops, Writers, Pcs, Args
<1>12. Serves(q)
  BY <1>10 DEF Serves, Writers, Done
<1>13. Fits(q) /\ q # Idle
  BY <1>3, <1>9, <1>10, <1>12, IdleFacts DEF Fits, Everyone, Patches
<1>14. Fresh(q)
  BY <1>1, <1>6, <1>9, <1>10 DEF Fresh, Everyone, Patches
<1> QED
  BY <1>6, <1>11, <1>13, <1>14, Begun

LEMMA InvAccount ==
  ASSUME Inv, NEW p \in Procs, Suspend(p) \/ Unsuspend(p) \/ Remove(p)
  PROVE  Inv'
<1>1. PICK op \in Everyone, pc \in {"unlink", "runtime"}, status \in {"active", "suspended"} :
         /\ Account(p, op, pc, status)
         /\ \/ op = "suspend" /\ pc = "unlink" /\ status = "suspended"
            \/ op = "unsuspend" /\ pc = "runtime" /\ status = "active"
            \/ op = "remove" /\ pc = "unlink" /\ status = "active"
  BY DEF Suspend, Unsuspend, Remove, Everyone
<1>2. PICK x \in Owners, d \in Names :
         /\ d \in SitesOf(x)
         /\ Begin(p, [On(d, op, pc, x) EXCEPT !.r.status = status, !.todo = SitesOf(x) \ {d},
                                              !.names = SitesOf(x), !.loaded = [n \in SitesOf(x) |-> row[n]]])
  BY <1>1 DEF Account, SitesOf, Inv, Types
<1>3. PICK o : o = On(d, op, pc, x)
  OBVIOUS
<1>4. PICK S : S = SitesOf(x)
  OBVIOUS
<1>5. PICK l : l = [n \in S |-> row[n]]
  OBVIOUS
<1>6. PICK q : q = [o EXCEPT !.r.status = status, !.todo = S \ {d}, !.names = S, !.loaded = l]
  OBVIOUS
<1>7. Begin(p, q)
  BY <1>2, <1>3, <1>4, <1>5, <1>6
<1>8. o = [op |-> op, pc |-> pc, site |-> d, arg |-> x, r |-> row[d], old |-> None, bare |-> FALSE,
           had |-> FALSE, todo |-> {}, names |-> {d}, loaded |-> None]
  BY <1>3 DEF On, Idle, Patches, Everyone
<1>9. PICK r : r = [row[d] EXCEPT !.status = status]
  OBVIOUS
<1>10. q = [op |-> op, pc |-> pc, site |-> d, arg |-> x, r |-> r, old |-> None, bare |-> FALSE,
            had |-> FALSE, todo |-> S \ {d}, names |-> S, loaded |-> l]
  BY <1>6, <1>8, <1>9
<1>11. /\ d \in S /\ S \subseteq Names /\ \A n \in S : row[n] # None /\ row[n] \in GoodRows
       /\ l \in [S -> GoodRows] /\ l \in Loads /\ \A n \in S : l[n] = row[n]
  <2>1. d \in S /\ S \subseteq Names /\ \A n \in S : row[n] # None /\ row[n] \in GoodRows
    BY <1>2, <1>4 DEF SitesOf, Inv, Types
  <2>2. l \in [S -> GoodRows] /\ \A n \in S : l[n] = row[n]
    BY <1>5, <2>1
  <2> QED
    BY <2>1, <2>2 DEF Loads
<1>12. r \in GoodRows /\ r.status = status /\ r.owner = row[d].owner /\ r.setting = row[d].setting
       /\ r.ssl = row[d].ssl /\ r.source = row[d].source
  BY <1>9, <1>11, RowFacts DEF GoodRows, Rows
<1>13. q \in Tickets
  BY <1>10, <1>11, <1>12 DEF Tickets, Ops, Writers, Done, Everyone, Pcs, Args
<1>14. Serves(q)
  BY <1>1, <1>10 DEF Serves, Writers, Done, Everyone
<1>15. Fits(q) /\ q # Idle
  BY <1>1, <1>10, <1>11, <1>12, <1>14, IdleFacts DEF Fits, Everyone
<1>16. Fresh(q)
  BY <1>1, <1>4, <1>10, <1>11, <1>12 DEF Fresh, Everyone
<1> QED
  BY <1>7, <1>13, <1>15, <1>16, Begun

-----------------------------------------------------------------------------
(* The invariant holds.                                                     *)

LEMMA InvStart ==
  ASSUME Inv, NEW p \in Procs, Start(p)
  PROVE  Inv'
BY InvCreate, InvAliasStarts, InvPlainStarts, InvEnableSsl, InvInstallShared, InvAccount DEF Start

LEMMA InvStep ==
  ASSUME Inv, NEW p \in Procs, Step(p)
  PROVE  Inv'
<1>1. CASE WriteVhost(p) \/ TestPasses(p) \/ TestFails(p) \/ Reload(p) \/ ReloadFails(p)
  BY <1>1, InvWriteVhost, InvTestPasses, InvTestFails, InvReload, InvReloadFails
<1>2. CASE Runtime(p) \/ RuntimeFails(p) \/ Move(p) \/ MoveRefused(p) \/ RulesRefused(p)
  BY <1>2, InvRuntime, InvRuntimeFails, InvMove, InvMoveRefused, InvRulesRefused
<1>6. CASE Further(p) \/ PartRefused(p) \/ ReleaseBlind(p)
  BY <1>6, InvFurther, InvSpoiling, InvRelease
<1>3. CASE Flush(p) \/ FlushFails(p) \/ Unlink(p) \/ ReloadUnlinked(p) \/ UnlinkedFails(p)
  BY <1>3, InvFlush, InvFlushFails, InvUnlink, InvReloadUnlinked, InvSpoiling
<1>4. CASE ReleaseCerts(p) \/ RemoveFiles(p) \/ RemoveHome(p) \/ DeleteRefused(p) \/ InstallFiles(p)
  BY <1>4, InvRelease, InvRemoveFiles, InvRemoveHome, InvSpoiling, InvInstallFiles
<1>5. CASE Issue(p) \/ IssueFails(p) \/ Resync(p) \/ Commit(p) \/ CommitFails(p)
  BY <1>5, InvIssue, InvIssueFails, InvResync, InvCommit, InvSpoiling
<1> QED
  BY <1>1, <1>2, <1>3, <1>4, <1>5, <1>6 DEF Step

LEMMA InvNext == Inv /\ [Next]_vars => Inv'
<1> SUFFICES ASSUME Inv, [Next]_vars PROVE Inv'
  OBVIOUS
<1>1. CASE Next
  BY <1>1, InvStart, InvStep DEF Next
<1>2. CASE UNCHANGED vars
  <2>1. /\ UNCHANGED <<row, aliasOf, vhost, files, certs, kept, spoiled, proc, lock, accounts, requests>>
        /\ \A d : AliasesOf(d)' = AliasesOf(d)
    BY <1>2 DEF vars, AliasesOf
  <2>2. \A d : (Calm(d) => Calm(d)') /\ \A u : Held(u, d) => Held(u, d)'
    BY <2>1, SameName
  <2>3. Types' /\ Alone' /\ Apart' /\ Unlent' /\ Claims'
    BY <2>1 DEF Inv, Types, Alone, Apart, Unlent, Claims
  <2>4. Quiet'
    BY <2>1, <2>2 DEF Inv, Quiet, AtRest
  <2>5. Busy'
    BY <2>1, <2>2 DEF Inv, Busy
  <2> QED
    BY <2>3, <2>4, <2>5 DEF Inv
<1> QED
  BY <1>1, <1>2

LEMMA InvInit == Init => Inv
<1> SUFFICES ASSUME Init PROVE Inv
  OBVIOUS
<1>1. PICK d \in Names, o \in Owners, s \in {"none", "letsencrypt", "manual"}, others \in SUBSET Names :
        /\ d \notin others
        /\ row = [n \in Names |-> IF n = d THEN [Plain(o) EXCEPT !.ssl = s]
                                  ELSE IF n \in others THEN Plain(o) ELSE None]
        /\ certs = IF s = "none" THEN {} ELSE {<<d, s>>}
        /\ files = {<<o, n>> : n \in others \cup {d}}
        /\ vhost = [n \in Names |->
                        IF row[n] = None THEN None
                        ELSE [mode |-> "full", home |-> o, setting |-> "s1", aliases |-> {},
                              cert |-> IF n = d /\ s # "none" THEN <<d, s>> ELSE None]]
  BY DEF Init
<1>2. /\ accounts = Owners /\ aliasOf = [n \in Names |-> None] /\ proc = [p \in Procs |-> Idle]
      /\ lock = None /\ requests = 0 /\ kept = {} /\ spoiled = {}
  BY DEF Init
<1>3. PICK r : r = [Plain(o) EXCEPT !.ssl = s]
  OBVIOUS
<1>4. /\ r \in GoodRows /\ r # None /\ r.owner = o /\ r.status = "active" /\ r.setting = "s1" /\ r.ssl = s /\ r.source = None
  <2>1. r = [owner |-> o, status |-> "active", setting |-> "s1", ssl |-> s, source |-> None]
    BY <1>3 DEF Plain
  <2> QED
    BY <2>1, Distinct DEF GoodRows, Rows, Settings
<1>5. /\ Plain(o) \in GoodRows /\ Plain(o) # None /\ Plain(o).owner = o /\ Plain(o).status = "active"
      /\ Plain(o).setting = "s1" /\ Plain(o).ssl = "none" /\ Plain(o).source = None
  BY PlainFacts, Distinct
<1>6. \A n \in Names : /\ row[n] = IF n = d THEN r ELSE IF n \in others THEN Plain(o) ELSE None
                       /\ AliasesOf(n) = {} /\ aliasOf[n] = None
  BY <1>1, <1>2, <1>3, Distinct DEF AliasesOf
<1>7. \A n \in Names : row[n] # None =>
        vhost[n] = [mode |-> "full", home |-> o, setting |-> "s1", aliases |-> {},
                    cert |-> IF n = d /\ s # "none" THEN <<d, s>> ELSE None]
  BY <1>1
<1>8. \A p \in Procs : proc[p] = Idle
  BY <1>2
<1>9. Types
  <2>1. row \in [Names -> GoodRows \cup {None}]
    BY <1>1, <1>4, <1>5, <1>6
  <2>2. vhost \in [Names -> Vhosts \cup {None}]
    BY <1>1 DEF Vhosts, Settings
  <2>3. files \subseteq Owners \X Names /\ certs \subseteq Names \X Kinds
    BY <1>1 DEF Kinds
  <2>4. proc \in [Procs -> Tickets] /\ \A p \in Procs : Fits(proc[p])
    BY <1>2, IdleFacts
  <2>5. aliasOf \in [Names -> Names \cup {None}] /\ \A n \in Names : aliasOf[n] # n
    BY <1>2, Distinct
  <2>6. requests \in 0..MaxRequests
    BY <1>2, SitesConstants
  <2> QED
    BY <1>2, <2>1, <2>2, <2>3, <2>4, <2>5, <2>6 DEF Types
<1>10. Alone /\ Busy /\ Apart /\ Unlent /\ Claims
  BY <1>8, IdleFacts DEF Alone, Busy, Apart, Unlent, Claims
<1>11. ASSUME NEW n \in Names PROVE Calm(n)
  <2>1. CASE row[n] = None
    <3>1. n \notin others \cup {d}
      BY <1>4, <1>5, <1>6, <2>1
    <3>2. NoFolder(n)
      BY <1>1, <3>1 DEF NoFolder
    <3>3. vhost[n] = None
      BY <1>1, <2>1
    <3> QED
      BY <1>6, <2>1, <3>2, <3>3 DEF Calm, AsRow, AtHome
  <2>2. CASE row[n] # None
    <3>1. /\ n \in others \cup {d} /\ row[n].owner = o /\ row[n].status = "active" /\ row[n].setting = "s1"
          /\ row[n].ssl = IF n = d THEN s ELSE "none"
      BY <1>4, <1>5, <1>6, <2>2
    <3>2. Folder(n, o)
      BY <1>1, <3>1 DEF Folder
    <3>3. /\ vhost[n] # None /\ vhost[n].mode = "full" /\ vhost[n].home = o /\ vhost[n].setting = "s1"
          /\ vhost[n].aliases = {} /\ vhost[n].cert = IF n = d /\ s # "none" THEN <<d, s>> ELSE None
      <4>1. PICK c : c = IF n = d /\ s # "none" THEN <<d, s>> ELSE None
        OBVIOUS
      <4>2. PICK v : v = [mode |-> "full", home |-> o, setting |-> "s1", aliases |-> {}, cert |-> c]
        OBVIOUS
      <4>3. c \in (Names \X Kinds) \cup {None}
        BY <4>1 DEF Kinds
      <4>4. v \in Vhosts
        BY <4>2, <4>3 DEF Vhosts, Settings, Kinds
      <4>5. /\ v # None /\ v.mode = "full" /\ v.home = o /\ v.setting = "s1" /\ v.aliases = {} /\ v.cert = c
        BY <4>2, <4>4, Distinct
      <4>6. vhost[n] = v
        BY <1>7, <2>2, <4>1, <4>2
      <4> QED
        BY <4>1, <4>5, <4>6
    <3>4. n = d /\ s # "none" => <<d, s>> \in certs /\ <<d, s>> \in Own(n)
      BY <1>1 DEF Own
    <3>5. Shows(vhost[n], n, row[n], AliasesOf(n), certs)
      BY <1>6, <3>1, <3>3, <3>4 DEF Shows
    <3>6. Certified(n, row[n], certs)
      BY <3>1, <3>4 DEF Certified
    <3> QED
      BY <2>2, <3>1, <3>2, <3>5, <3>6 DEF Calm, AsRow, AtHome
  <2> QED
    BY <2>1, <2>2
<1> QED
  BY <1>9, <1>10, <1>11 DEF Inv, Quiet

\* Every variable has its type, and SQLite's write transaction is held only by a
\* request that opened one and has not ended.
THEOREM TypeCorrect == Spec => []TypeOK
<1>1. Inv => TypeOK
  BY TypesSuffice DEF Inv
<1> QED
  BY <1>1, InvInit, InvNext, PTL DEF Spec

\* A website no request is at, and whose requests came one at a time, is served
\* from its folder as its row and its aliases say, whatever happened to the others,
\* as long as none of its own ended past its undo: at a later part of a change of
\* the row, a failed reload or a failed commit.
THEOREM ServedCorrect == Spec => []ServedAsRecorded
<1>1. Inv => ServedAsRecorded
  <2> SUFFICES ASSUME Inv, NEW d \in Names, AtRest(d), Sound(d), row[d] # None
               PROVE  /\ <<row[d].owner, d>> \in files
                      /\ vhost[d] # None
                      /\ vhost[d].mode = IF row[d].status = "active" THEN "full" ELSE "static"
                      /\ row[d].status = "active" =>
                          /\ vhost[d].home = row[d].owner
                          /\ vhost[d].setting = row[d].setting
                          /\ vhost[d].aliases = AliasesOf(d)
                          /\ row[d].ssl = "manual" => vhost[d].cert = <<d, "manual">>
                          /\ row[d].ssl = "shared" => vhost[d].cert = Borrowed(row[d].source)
    BY DEF ServedAsRecorded
  <2>1. Calm(d)
    BY DEF Inv, Quiet, Sound
  <2>2. Shows(vhost[d], d, row[d], AliasesOf(d), certs) /\ Folder(d, row[d].owner)
    BY <2>1 DEF Calm, AsRow, AtHome
  <2> QED
    BY <2>2 DEF Shows, Folder, Lent, Borrowed
<1> QED
  BY <1>1, InvInit, InvNext, PTL DEF Spec

\* A name without a website has no file and no folder but one kept on request, so
\* that a deletion, and a creation that failed and was cleaned up after, leave
\* nothing in the way of the next.
THEOREM LeftoversCorrect == Spec => []NothingLeft
<1>1. Inv => NothingLeft
  <2> SUFFICES ASSUME Inv, NEW d \in Names, AtRest(d), Sound(d), row[d] = None
               PROVE  vhost[d] = None /\ \A o \in Owners : <<o, d>> \in files => <<o, d>> \in kept
    BY DEF NothingLeft
  <2>1. Calm(d)
    BY DEF Inv, Quiet, Sound
  <2> QED
    BY <2>1 DEF Calm, AsRow, AtHome, NoFolder
<1> QED
  BY <1>1, InvInit, InvNext, PTL DEF Spec

\* No file of a name whose requests came one at a time points to a certificate
\* that is gone, not even between two steps of one, unless a certificate it borrows
\* was deleted while its names could not be read.
THEOREM CertsCorrect == Spec => []NoDanglingCert
<1>1. Inv => NoDanglingCert
  <2> SUFFICES ASSUME Inv, NEW d \in Names \ spoiled, vhost[d] # None PROVE vhost[d].cert \in certs \cup {None}
    BY DEF NoDanglingCert, Sound
  <2>1. Calm(d) => vhost[d].cert \in certs \cup {None}
    BY DEF Calm, AsRow, Shows
  <2>2. CASE AtRest(d)
    BY <2>1, <2>2 DEF Inv, Quiet
  <2>3. CASE ~AtRest(d)
    <3>1. PICK p \in Procs : d \in proc[p].names
      BY <2>3 DEF AtRest
    <3>2. PICK q : q = proc[p]
      OBVIOUS
    <3>3. Held(q, d)
      BY <3>1, <3>2 DEF Inv, Busy
    <3>4. ASSUME WillServe(q, d) PROVE vhost[d].cert \in certs \cup {None}
      BY <3>4 DEF WillServe, Shows
    <3>5. CASE d = q.site
      <4>1. FileAt(q, d)
        BY <3>3, <3>5 DEF Held, AtSite
      <4>2. AsRow(d) => vhost[d].cert \in certs \cup {None}
        BY DEF AsRow, Shows
      <4> QED
        BY <3>4, <4>1, <4>2 DEF FileAt, Before, AsHeld, Shows
    <3>6. CASE d # q.site
      BY <2>1, <3>3, <3>4, <3>6 DEF Held, Passed
    <3> QED
      BY <3>5, <3>6
  <2> QED
    BY <2>2, <2>3
<1> QED
  BY <1>1, InvInit, InvNext, PTL DEF Spec

\* No change of a suspended website, and nothing that puts its file back, puts it
\* on again: unsuspending does.
THEOREM SuspensionHolds == Spec => SuspendedStaysOff
<1>1. ASSUME Inv, Inv', Next, NEW d \in Names, d \notin spoiled',
             row[d] # None, row[d].status = "suspended", vhost[d] # None, vhost[d].mode = "static",
             vhost'[d] # None, vhost'[d].mode = "full"
      PROVE  \E p \in Procs : proc[p].op = "unsuspend" /\ proc[p].site = d
  <2>1. PICK p \in Procs : Start(p) \/ Step(p)
    BY <1>1 DEF Next
  <2>2. PICK q : q = proc[p]
    OBVIOUS
  <2>3. vhost \in [Names -> Vhosts \cup {None}] /\ vhost' # vhost
    BY <1>1 DEF Inv, Types
  <2>4. WriteVhost(p) \/ TestFails(p) \/ Unlink(p) \/ Issue(p) \/ Resync(p)
    <3>1. ~Start(p)
      <4>1. ASSUME NEW u, Begin(p, u) PROVE FALSE
      BY <2>3, <4>1 DEF Begin, disk
    <4> QED
      BY <4>1 DEF Start, Create, AddAlias, RemoveAlias, Update, Transfer, Refresh, Delete, InstallManual, EnableSsl,
                  InstallShared, Suspend, Unsuspend, Remove, Account
    <3>2. ~(TestPasses(p) \/ Reload(p) \/ ReloadFails(p) \/ Runtime(p) \/ RuntimeFails(p) \/ Move(p) \/ MoveRefused(p)
            \/ RulesRefused(p) \/ Further(p) \/ PartRefused(p) \/ ReleaseBlind(p) \/ Flush(p) \/ FlushFails(p)
            \/ ReloadUnlinked(p) \/ UnlinkedFails(p) \/ ReleaseCerts(p))
      BY <2>3 DEF TestPasses, Reload, ReloadFails, Runtime, RuntimeFails, Move, MoveRefused, RulesRefused, Further,
                  PartRefused, ReleaseBlind, Flush, FlushFails, ReloadUnlinked, UnlinkedFails, ReleaseCerts, disk
    <3>3. ~(RemoveFiles(p) \/ RemoveHome(p) \/ DeleteRefused(p) \/ InstallFiles(p) \/ IssueFails(p) \/ Commit(p)
            \/ CommitFails(p))
      BY <2>3 DEF RemoveFiles, RemoveHome, DeleteRefused, InstallFiles, IssueFails, Commit, CommitFails, disk
    <3> QED
      BY <2>1, <3>1, <3>2, <3>3 DEF Step
  <2>5. CASE WriteVhost(p)
    <3>1. PICK v : v = Written(q)
      OBVIOUS
    <3>2. q.pc = "write" /\ vhost' = [vhost EXCEPT ![q.site] = v] /\ spoiled' = spoiled
      BY <2>2, <2>5, <3>1 DEF WriteVhost, At
    <3>3. q.site = d /\ v.mode = "full"
      BY <1>1, <2>3, <3>2
    <3>4. /\ q \in Tickets /\ Fits(q) /\ q # Idle /\ q.op \in Writers /\ Reads(q, d)
      BY <1>1, <2>2, <3>2, <3>3, AtWork DEF Serves, AtSite
    <3>5. q.r.status = "active"
      BY <1>1, <3>1, <3>3, <3>4, WrittenFacts DEF Inv
    <3>6. q.op = "unsuspend"
      BY <1>1, <3>4, <3>5 DEF Reads, Fits, Everyone, Writers
    <3> QED
      BY <2>2, <3>3, <3>6
  <2>6. CASE TestFails(p)
    <3>1. /\ q.pc = "test" /\ vhost' = [vhost EXCEPT ![q.site] = q.old]
          /\ PastReturn(q) => spoiled' = spoiled \cup q.names
          /\ spoiled \subseteq spoiled'
      BY <2>2, <2>6 DEF TestFails, Fails, SpoilIf, At, Spoil
    <3>2. q.site = d
      BY <1>1, <2>3, <3>1
    <3>3. d \notin spoiled /\ d \in q.names /\ vhost'[d] = q.old
      BY <1>1, <2>2, <2>3, <3>1, <3>2, AtWork
    <3>4. ~PastReturn(q) /\ CertsAt(q, d)
      BY <1>1, <2>2, <3>1, <3>2, <3>3, AtWork DEF AtSite
    <3> QED
      BY <1>1, <3>1, <3>3, <3>4 DEF CertsAt, Shows
  <2>7. CASE Unlink(p)
    BY <1>1, <2>3, <2>7 DEF Unlink
  <2>8. CASE Issue(p)
    <3>1. vhost' = [vhost EXCEPT ![q.site].cert = <<q.site, "letsencrypt">>]
      BY <2>2, <2>8 DEF Issue
    <3>2. vhost[d] \in Vhosts
      BY <1>1, <2>3
    <3> QED
      BY <1>1, <2>3, <3>1, <3>2 DEF Vhosts
  <2>9. CASE Resync(p)
    <3>1. d \notin spoiled /\ q.pc = "resync"
      BY <1>1, <2>2, <2>9 DEF Resync, At
    <3>2. d \notin Dependents(q.site)
      BY <1>1, <2>2, <3>1, AtWork DEF Inv, Unlent, Dependents, Serves
    <3>3. vhost'[d] = vhost[d]
      BY <1>1, <2>2, <2>9, <3>2 DEF Resync
    <3> QED
      BY <1>1, <3>3
  <2> QED
    BY <2>4, <2>5, <2>6, <2>7, <2>8, <2>9
<1>2. Inv /\ Inv' /\ [Next]_vars =>
        [\A d \in Names :
            /\ d \notin spoiled'
            /\ row[d] # None /\ row[d].status = "suspended"
            /\ vhost[d] # None /\ vhost[d].mode = "static"
            /\ vhost'[d] # None /\ vhost'[d].mode = "full"
            => \E p \in Procs : proc[p].op = "unsuspend" /\ proc[p].site = d]_vars
  BY <1>1
<1> QED
  BY <1>2, InvInit, InvNext, PTL DEF Spec, SuspendedStaysOff
=============================================================================
