---------------------------- MODULE AccountsProofs ----------------------------
(***************************************************************************)
(* Proofs about what happens to whole accounts: WHMCS orders, switches and   *)
(* ends them (Provisioning), and the timer and the executor's threads back   *)
(* them up (Backups). The two share no state; of each, the theorems are for   *)
(* every number of calls, schedules, threads and seconds.                    *)
(***************************************************************************)
EXTENDS Provisioning, Backups, FiniteSetTheorems, SequenceTheorems, TLAPS

-----------------------------------------------------------------------------
(* Provisioning of one account by WHMCS. Each invariant is about the rows    *)
(* that one call writes from what it read some steps before; what makes it   *)
(* hold is what else may have happened in between.                           *)


Pcs == {"idle", "asked", "mine", "owned", "gathered", "stale", "free", "checked", "opened", "peopled", "published",
        "off", "changed", "torn", "forgot"}
Records == [pc : Pcs, op : Ops, user : {"none", "active", "inactive", "other"},
            site : {"none", "active", "suspended"}]

\* A request that is in a write transaction.
Holding(w) ==
    \/ w.pc \in {"opened", "peopled", "published", "forgot"}
    \/ w.pc = "changed" /\ w.op = "terminate" /\ w.site # "none"
    \/ w.pc = "changed" /\ w.op = "delete"

Values ==
    /\ row \in {"absent", "active", "suspended", "failed", "terminated"}
    /\ linked \in BOOLEAN /\ gone \in BOOLEAN /\ stray \in BOOLEAN
    /\ user \in {"none", "active", "inactive"} /\ site \in {"none", "active", "suspended"}
    /\ vhost \in {"none", "live", "static"} /\ linux \in {"none", "open", "locked"}
    /\ calls \in 0..MaxCalls /\ crossed \in BOOLEAN /\ crashes \in 0..MaxCrashes
    /\ done \in {"nothing", "active", "suspended", "failed", "terminated"}
Types ==
    /\ Values
    /\ req \in [Requests -> Records]
    /\ writer \in Requests \cup {None}
    /\ \A q \in Requests : writer = q <=> Holding(req[q])

-----------------------------------------------------------------------------
(* The inductive invariant.                                                  *)

\* Of every call, whatever others do: what it reads hangs together, and in its
\* write transaction the rows it found missing are still missing.
Fits(w) ==
    /\ w.user \in {"none", "other"} => w.site = "none"
    /\ w.pc \in {"asked", "mine", "owned"} => w.site = "none"
    /\ w.pc = "mine" => w.op # "delete"
    /\ w.pc = "torn" => w.op \in {"terminate", "delete"} /\ w.site # "none"
    /\ w.pc = "forgot" => w.op = "delete" \/ (w.op = "terminate" /\ w.site # "none")
    /\ w.pc = "off" => w.site # "none"
    /\ w.pc = "opened" => row = "absent"
    /\ w.pc \in {"peopled", "published"} => row = "absent" /\ user = "none"

\* The row or the user the call found was as the call needs it.
Found(w) ==
    /\ w.op # "delete" => row \in {"active", "suspended", "failed"}
    /\ w.op = "suspend" => row = "active"
    /\ w.op = "unsuspend" => row = "suspended"
    /\ w.op = "delete" => user # "none"

\* The user the call reads is the account's, but for an id that has changed hands.
WhoseIs(w) ==
    IF w.op = "delete" THEN w.user = user
    ELSE w.user = Owner \/ (w.user = "other" /\ Dangling)

\* Of a call that is alone: what it found or read is how things are, and nginx
\* is how it left it.
Apt(w) ==
    /\ w.pc \in {"free", "checked", "opened", "peopled", "published"} => row = "absent"
    /\ w.pc \in {"checked", "opened", "peopled", "published"} => user = "none" /\ site = "none"
    /\ w.pc \in {"checked", "opened", "peopled"} => vhost = "none"
    /\ w.pc = "published" => vhost = "live"
    /\ w.pc \in {"mine", "owned", "gathered", "off", "changed", "torn", "forgot"} => Found(w)
    /\ w.pc \in {"owned", "gathered", "off", "changed", "torn", "forgot"} => WhoseIs(w)
    /\ w.pc \in {"gathered", "off", "changed", "torn", "forgot"} =>
          w.site = IF w.user \in {"none", "other"} THEN "none" ELSE site
    /\ w.pc = "changed" /\ w.op = "suspend" => vhost = "static"
    /\ w.pc = "changed" /\ w.op = "unsuspend" => vhost = "live"
    /\ (w.pc = "changed" /\ w.op \in {"terminate", "delete"}) \/ w.pc \in {"torn", "forgot"} =>
          vhost = "none" \/ stray

Others(q) == \A r \in Requests \ {q} : req[r].pc = "idle"

\* Of an account without a website nginx has no file, unless a failed create left
\* one; a failed create that is not linked to a user left no user either.
Bare ==
    /\ site = "none" /\ (row # "absent" \/ user # "none") => vhost = "none" \/ stray
    /\ row = "failed" /\ ~linked => user = "none"

\* What is linked is linked by a row, and only what is linked can have lost its user.
Links == (row = "absent" => ~linked) /\ (gone => linked)

Inv ==
    /\ Types /\ NoOrphans /\ Links
    /\ \A q \in Requests : Fits(req[q])
    /\ RowsAgree /\ DoneIsTrue
    /\ ~crossed => /\ Bare
                   /\ \A q \in Requests : Apt(req[q]) /\ (req[q].pc # "idle" => Others(q))

LEMMA TypesSuffice == Types => TypeOK
<1> SUFFICES ASSUME Types PROVE TypeOK
  OBVIOUS
<1>1. \A q \in Requests : Holding(req[q]) <=> InTransaction(q)
  BY DEF Holding, InTransaction, At
<1>2. \A q \in Requests : writer = q <=> InTransaction(q)
  BY <1>1 DEF Types
<1> QED
  BY <1>2 DEF Types, Values, TypeOK, Records, Pcs

LEMMA IdleFacts ==
  /\ Idle \in Records /\ Idle.pc = "idle" /\ ~Holding(Idle) /\ Fits(Idle) /\ Apt(Idle)
BY DEF Idle, Records, Pcs, Ops, Holding, Fits, Apt

\* A step of call q keeps the invariant when it keeps to these rules.
LEMMA CallMoves ==
  ASSUME Inv, NEW q \in Requests, NEW w \in Records, req' = [req EXCEPT ![q] = w],
         Values', writer' \in Requests \cup {None}, writer' = q <=> Holding(w),
         \A r \in Requests \ {q} : writer' = r <=> writer = r,
         \A r \in Requests \ {q} : writer = r => UNCHANGED <<row, user>>,
         NoOrphans', Links', Fits(w)', RowsAgree', DoneIsTrue',
         ~crossed' => ~crossed /\ Others(q) /\ Bare' /\ Apt(w)'
  PROVE  Inv'
<1>1. req'[q] = w /\ \A r \in Requests \ {q} : req'[r] = req[r]
  BY DEF Inv, Types
<1>2. Types'
  <2>1. req' \in [Requests -> Records]
    BY DEF Inv, Types
  <2>2. \A r \in Requests : writer' = r <=> Holding(req'[r])
    BY <1>1 DEF Inv, Types
  <2> QED
    BY <2>1, <2>2 DEF Types
<1>3. ASSUME NEW r \in Requests PROVE Fits(req[r])'
  <2>1. CASE r = q
    BY <1>1, <2>1 DEF Fits
  <2>2. CASE r # q
    <3>1. req'[r] = req[r] /\ Fits(req[r]) /\ (Holding(req[r]) => UNCHANGED <<row, user>>)
      BY <1>1, <2>2 DEF Inv, Types
    <3> QED
      BY <3>1 DEF Fits, Holding
  <2> QED
    BY <2>1, <2>2
<1>4. ASSUME ~crossed', NEW r \in Requests PROVE Apt(req[r])' /\ (req'[r].pc # "idle" => Others(r)')
  <2>1. \A s \in Requests \ {q} : req'[s].pc = "idle"
    BY <1>1, <1>4 DEF Others
  <2>2. CASE r = q
    BY <1>1, <1>4, <2>1, <2>2 DEF Apt, Found, WhoseIs, Dangling, Owner, Others
  <2>3. CASE r # q
    BY <2>1, <2>3 DEF Apt
  <2> QED
    BY <2>2, <2>3
<1> QED
  BY <1>2, <1>3, <1>4 DEF Inv

-----------------------------------------------------------------------------
(* Steps that leave the database alone.                                      *)

LEMMA MidCall ==
  ASSUME Inv, NEW q \in Requests
  PROVE  /\ req[q] \in Records /\ Fits(req[q]) /\ (writer = q <=> Holding(req[q]))
         /\ req[q].pc # "idle" /\ ~crossed => Others(q) /\ Apt(req[q]) /\ Bare
         /\ None # q
BY ProvisioningConstants DEF Inv, Types

\* A transaction begins, goes on or ends.
WriterMoves(q, w) ==
    \/ writer' = writer /\ (writer = q <=> Holding(w))
    \/ Release(q) /\ ~Holding(w)
    \/ writer = None /\ writer' = q /\ Holding(w)

LEMMA WriterFacts ==
  ASSUME Inv, NEW q \in Requests, NEW w, WriterMoves(q, w)
  PROVE  /\ writer' \in Requests \cup {None} /\ (writer' = q <=> Holding(w))
         /\ \A r \in Requests \ {q} : writer' = r <=> writer = r
<1>1. writer \in Requests \cup {None} /\ None \notin Requests
  BY ProvisioningConstants DEF Inv, Types
<1> QED
  BY <1>1 DEF WriterMoves, Release

\* What the call reads or is told; nothing changes but who holds the database.
LEMMA QuietCall ==
  ASSUME Inv, NEW q \in Requests, NEW w \in Records, req' = [req EXCEPT ![q] = w],
         UNCHANGED <<db, server, arrivals, crashes, stray, done>>,
         WriterMoves(q, w), Fits(w), ~crossed => Others(q) /\ Apt(w)
  PROVE  Inv'
<1>1. UNCHANGED <<row, linked, gone, user, site, vhost, linux, calls, crossed, crashes, stray, done>>
  BY DEF db, server, arrivals
<1>2. Values' /\ NoOrphans' /\ RowsAgree' /\ DoneIsTrue' /\ Links'
  BY <1>1 DEF Inv, Types, Values, NoOrphans, Links, RowsAgree, DoneIsTrue
<1>3. Fits(w)' /\ (~crossed' => ~crossed /\ Others(q) /\ Bare' /\ Apt(w)')
  BY <1>1 DEF Inv, Fits, Apt, Found, WhoseIs, Dangling, Bare, Owner
<1> QED
  BY <1>1, <1>2, <1>3, WriterFacts, CallMoves

\* A call changes what the server has.
LEMMA ServerCall ==
  ASSUME Inv, NEW q \in Requests, NEW w \in Records, req' = [req EXCEPT ![q] = w],
         UNCHANGED <<db, arrivals, crashes, stray>>, done' = "nothing",
         vhost' \in {"none", "live", "static"}, linux' \in {"none", "open", "locked"},
         WriterMoves(q, w), Fits(w), ~crossed => Others(q) /\ Bare' /\ Apt(w)'
  PROVE  Inv'
<1>1. UNCHANGED <<row, linked, gone, user, site, calls, crossed, crashes, stray>>
  BY DEF db, arrivals
<1>2. Values' /\ NoOrphans' /\ RowsAgree' /\ DoneIsTrue' /\ Links'
  BY <1>1 DEF Inv, Types, Values, NoOrphans, Links, RowsAgree, DoneIsTrue
<1>3. Fits(w)'
  BY <1>1 DEF Fits
<1> QED
  BY <1>1, <1>2, <1>3, WriterFacts, CallMoves

\* Only the call's program counter moves.
LEMMA GotoFacts ==
  ASSUME Inv, NEW q \in Requests, NEW pc \in Pcs, Goto(q, pc)
  PROVE  \E w \in Records : /\ req' = [req EXCEPT ![q] = w] /\ w.pc = pc
                            /\ w.op = req[q].op
                            /\ w.user = req[q].user /\ w.site = req[q].site
<1>1. PICK w : w = [req[q] EXCEPT !.pc = pc]
  OBVIOUS
<1>2. w \in Records /\ w.pc = pc /\ w.op = req[q].op /\ w.user = req[q].user /\ w.site = req[q].site
  BY <1>1, MidCall DEF Records
<1>3. req' = [req EXCEPT ![q] = w]
  BY <1>1 DEF Goto
<1> QED
  BY <1>2, <1>3

\* A call that reads is answered.
LEMMA AnswerQuietly ==
  ASSUME Inv, NEW q \in Requests, Answer(q), req[q].pc # "idle",
         UNCHANGED <<db, server, arrivals, crashes, stray, done>>,
         Release(q) \/ (writer' = writer /\ writer # q)
  PROVE  Inv'
<1>1. req' = [req EXCEPT ![q] = Idle]
  BY DEF Answer
<1>2. WriterMoves(q, Idle)
  BY IdleFacts DEF WriterMoves
<1>3. ~crossed => Others(q) /\ Apt(Idle)
  BY MidCall, IdleFacts
<1> QED
  BY <1>1, <1>2, <1>3, IdleFacts, QuietCall

LEMMA LookCreateStep ==
  ASSUME Inv, NEW q \in Requests, LookCreate(q) PROVE Inv'
<1>1. req[q].pc = "asked" /\ writer' = writer /\ writer # q /\ UNCHANGED <<db, server, arrivals, crashes, stray, done>>
  BY MidCall DEF LookCreate, At, Holding
<1>2. CASE Answer(q)
  BY <1>1, <1>2, AnswerQuietly
<1>3. CASE \E pc \in {"free", "stale"} : Goto(q, pc) /\ (pc = "free" => row = "absent")
  <2>1. PICK pc \in {"free", "stale"} : Goto(q, pc) /\ (pc = "free" => row = "absent")
    BY <1>3
  <2>2. PICK w \in Records : req' = [req EXCEPT ![q] = w] /\ w.pc = pc /\ w.user = req[q].user /\ w.site = req[q].site
    BY <2>1, GotoFacts DEF Pcs
  <2>3. WriterMoves(q, w) /\ Fits(w)
    BY <1>1, <2>1, <2>2, MidCall DEF WriterMoves, Fits, Holding
  <2>4. ~crossed => Others(q) /\ Apt(w)
    BY <1>1, <2>1, <2>2, MidCall DEF Apt
  <2> QED
    BY <1>1, <2>2, <2>3, <2>4, QuietCall
<1> QED
  BY <1>2, <1>3 DEF LookCreate

LEMMA LookStep ==
  ASSUME Inv, NEW q \in Requests, Look(q) PROVE Inv'
<1>1. req[q].pc = "asked" /\ writer' = writer /\ writer # q /\ UNCHANGED <<db, server, arrivals, crashes, stray, done>>
  BY MidCall DEF Look, Holding
<1>2. CASE Answer(q)
  BY <1>1, <1>2, AnswerQuietly
<1>3. CASE ~Answer(q)
  <2>1. /\ Goto(q, "mine") /\ req[q].op \in {"suspend", "unsuspend", "terminate"}
        /\ req[q].op = "suspend" => row = "active"
        /\ req[q].op = "unsuspend" => row = "suspended"
        /\ req[q].op = "terminate" => row \in {"active", "suspended", "failed"}
    BY <1>1, <1>3, MidCall DEF Look, Inv, Types, Values, Records, Ops
  <2>2. Found(req[q])
    BY <2>1 DEF Found, Ops
  <2>3. PICK w \in Records : /\ req' = [req EXCEPT ![q] = w] /\ w.pc = "mine" /\ w.op = req[q].op
                             /\ w.user = req[q].user /\ w.site = req[q].site
    BY <2>1, GotoFacts DEF Pcs
  <2>4. WriterMoves(q, w) /\ Fits(w)
    BY <1>1, <2>1, <2>3, MidCall DEF WriterMoves, Fits, Holding
  <2>5. ~crossed => Others(q) /\ Apt(w)
    BY <1>1, <2>2, <2>3, MidCall DEF Apt, Found
  <2> QED
    BY <1>1, <2>2, <2>3, <2>4, <2>5, QuietCall
<1> QED
  BY <1>2, <1>3

LEMMA ReadUserStep ==
  ASSUME Inv, NEW q \in Requests, ReadUser(q) PROVE Inv'
<1>1. req[q].pc = "mine" /\ writer' = writer /\ writer # q /\ UNCHANGED <<db, server, arrivals, crashes, stray, done>>
  BY MidCall DEF ReadUser, Holding
<1>2. PICK u \in IF Dangling THEN {"none", "other"} ELSE {Owner} :
           req' = [req EXCEPT ![q].user = u, ![q].pc = "owned"]
  BY DEF ReadUser
<1>3. /\ u = Owner \/ (u = "other" /\ Dangling)
      /\ u \in {"none", "active", "inactive", "other"}
  BY <1>2 DEF Owner, Dangling, Inv, Types, Values
<1>4. PICK w : w = [req[q] EXCEPT !.user = u, !.pc = "owned"]
  OBVIOUS
<1>5. w \in Records /\ w.pc = "owned" /\ w.op = req[q].op /\ w.user = u /\ w.site = req[q].site
  BY <1>3, <1>4, MidCall DEF Records, Pcs
<1>6. req' = [req EXCEPT ![q] = w]
  BY <1>2, <1>4
<1>7. req[q].site = "none" /\ req[q].op # "delete"
  BY <1>1, MidCall DEF Fits
<1>8. WriterMoves(q, w) /\ Fits(w)
  BY <1>1, <1>5, <1>7 DEF WriterMoves, Fits, Holding
<1>9. ~crossed => Others(q) /\ Apt(w)
  BY <1>1, <1>3, <1>5, <1>7, MidCall DEF Apt, Found, WhoseIs
<1> QED
  BY <1>1, <1>5, <1>6, <1>8, <1>9, QuietCall

LEMMA LookDeleteStep ==
  ASSUME Inv, NEW q \in Requests, LookDelete(q) PROVE Inv'
<1>1. /\ req[q].pc = "asked" /\ req[q].op = "delete" /\ writer' = writer /\ writer # q
      /\ UNCHANGED <<db, server, arrivals, crashes, stray, done>>
  BY MidCall DEF LookDelete, At, Holding
<1>2. CASE user = "none"
  BY <1>1, <1>2, AnswerQuietly DEF LookDelete
<1>3. CASE user # "none"
  <2>1. PICK w : w = [req[q] EXCEPT !.user = user, !.pc = "owned"]
    OBVIOUS
  <2>2. req' = [req EXCEPT ![q] = w] /\ user \in {"active", "inactive"}
    BY <1>3, <2>1 DEF LookDelete, Inv, Types, Values
  <2>3. w \in Records /\ w.pc = "owned" /\ w.op = "delete" /\ w.user = user /\ w.site = req[q].site
    BY <1>1, <2>1, <2>2, MidCall DEF Records, Pcs
  <2>4. WriterMoves(q, w) /\ Fits(w)
    BY <1>1, <2>2, <2>3, MidCall DEF WriterMoves, Fits, Holding
  <2>5. ~crossed => Others(q) /\ Apt(w)
    BY <1>1, <2>2, <2>3, MidCall DEF Apt, Found, WhoseIs
  <2> QED
    BY <1>1, <2>2, <2>3, <2>4, <2>5, QuietCall
<1> QED
  BY <1>2, <1>3

LEMMA ReadSitesStep ==
  ASSUME Inv, NEW q \in Requests, ReadSites(q) PROVE Inv'
<1>1. req[q].pc = "owned" /\ writer' = writer /\ writer # q /\ UNCHANGED <<db, server, arrivals, crashes, stray, done>>
  BY MidCall DEF ReadSites, Holding
<1>2. PICK s, w : /\ s = IF req[q].user \in {"none", "other"} THEN "none" ELSE site
                  /\ w = [req[q] EXCEPT !.pc = "gathered", !.site = s]
  OBVIOUS
<1>3. req' = [req EXCEPT ![q] = w]
  BY <1>2 DEF ReadSites
<1>4. s \in {"none", "active", "suspended"}
  BY <1>2 DEF Inv, Types, Values
<1>5. w \in Records /\ w.pc = "gathered" /\ w.op = req[q].op /\ w.user = req[q].user /\ w.site = s
  BY <1>2, <1>4, MidCall DEF Records, Pcs
<1>6. WriterMoves(q, w) /\ Fits(w)
  BY <1>1, <1>2, <1>5 DEF WriterMoves, Fits, Holding
<1>7. ~crossed => Others(q) /\ Apt(w)
  BY <1>1, <1>2, <1>5, MidCall DEF Apt, Found, WhoseIs
<1> QED
  BY <1>1, <1>3, <1>5, <1>6, <1>7, QuietCall

LEMMA NoUserStep ==
  ASSUME Inv, NEW q \in Requests, NoUser(q) PROVE Inv'
<1>1. req[q].pc = "gathered" /\ writer' = writer /\ writer # q
  BY MidCall DEF NoUser, Holding
<1> QED
  BY <1>1, AnswerQuietly DEF NoUser

\* Nothing of the name in the database or on disk: so it is still when the call
\* is alone.
LEMMA CheckStep ==
  ASSUME Inv, NEW q \in Requests, Check(q) PROVE Inv'
<1>1. req[q].pc = "free" /\ writer' = writer /\ writer # q /\ UNCHANGED <<db, server, arrivals, crashes, stray, done>>
  BY MidCall DEF Check, Holding
<1>2. CASE Answer(q)
  BY <1>1, <1>2, AnswerQuietly
<1>3. CASE ~Answer(q)
  <2>1. Goto(q, "checked") /\ user = "none" /\ site = "none" /\ vhost = "none"
    BY <1>3 DEF Check
  <2>2. PICK w \in Records : req' = [req EXCEPT ![q] = w] /\ w.pc = "checked" /\ w.user = req[q].user /\ w.site = req[q].site
    BY <2>1, GotoFacts DEF Pcs
  <2>3. WriterMoves(q, w) /\ Fits(w)
    BY <1>1, <2>2, MidCall DEF WriterMoves, Fits, Holding
  <2>4. ~crossed => Others(q) /\ Apt(w)
    BY <1>1, <2>1, <2>2, MidCall DEF Apt
  <2> QED
    BY <1>1, <2>2, <2>3, <2>4, QuietCall
<1> QED
  BY <1>2, <1>3

LEMMA OpenStep ==
  ASSUME Inv, NEW q \in Requests, Open(q) PROVE Inv'
<1>1. req[q].pc = "checked" /\ writer = None /\ writer # q /\ UNCHANGED <<db, server, arrivals, crashes, stray, done>>
  BY MidCall DEF Open
<1>2. CASE row # "absent"
  BY <1>1, <1>2, AnswerQuietly DEF Open
<1>3. CASE row = "absent"
  <2>1. Goto(q, "opened") /\ writer' = q
    BY <1>3 DEF Open
  <2>2. PICK w \in Records : req' = [req EXCEPT ![q] = w] /\ w.pc = "opened" /\ w.user = req[q].user /\ w.site = req[q].site
    BY <2>1, GotoFacts DEF Pcs
  <2>3. WriterMoves(q, w) /\ Fits(w)
    BY <1>1, <1>3, <2>1, <2>2, MidCall DEF WriterMoves, Fits, Holding
  <2>4. ~crossed => Others(q) /\ Apt(w)
    BY <1>1, <1>3, <2>2, MidCall DEF Apt
  <2> QED
    BY <1>1, <2>2, <2>3, <2>4, QuietCall
<1> QED
  BY <1>2, <1>3

LEMMA ForgetStep ==
  ASSUME Inv, NEW q \in Requests, Forget(q) PROVE Inv'
<1>1. /\ req[q].pc = "torn" \/ (req[q].pc = "gathered" /\ req[q].op = "delete" /\ req[q].site = "none")
      /\ writer = None /\ writer' = q /\ Goto(q, "forgot")
      /\ UNCHANGED <<db, server, arrivals, crashes, stray, done>>
  BY DEF Forget, At, Gathered
<1>2. PICK w \in Records : /\ req' = [req EXCEPT ![q] = w] /\ w.pc = "forgot" /\ w.op = req[q].op
                           /\ w.user = req[q].user /\ w.site = req[q].site
  BY <1>1, GotoFacts DEF Pcs
<1>3. WriterMoves(q, w) /\ Fits(w)
  BY <1>1, <1>2, MidCall DEF WriterMoves, Fits, Holding
<1>4. ASSUME ~crossed PROVE Others(q) /\ Apt(w)
  <2>1. Others(q) /\ Apt(req[q]) /\ Bare /\ (writer = q <=> Holding(req[q]))
    BY <1>1, <1>4, MidCall
  <2>2. vhost = "none" \/ stray
    <3>1. CASE req[q].pc = "torn"
      BY <2>1, <3>1 DEF Apt
    <3>2. CASE req[q].pc = "gathered" /\ req[q].op = "delete" /\ req[q].site = "none"
      <4>1. req[q].user = user /\ user \in {"active", "inactive"}
        BY <2>1, <3>2 DEF Apt, Found, WhoseIs, Inv, Types, Values
      <4>2. site = "none"
        BY <2>1, <3>2, <4>1 DEF Apt
      <4> QED
        BY <2>1, <4>1, <4>2 DEF Bare
    <3> QED
      BY <1>1, <3>1, <3>2
  <2> QED
    BY <1>1, <1>2, <2>1, <2>2 DEF Apt, Found, WhoseIs
<1> QED
  BY <1>1, <1>2, <1>3, <1>4, QuietCall

LEMMA RefusedStep ==
  ASSUME Inv, NEW q \in Requests, Refused(q) PROVE Inv'
BY AnswerQuietly DEF Refused

\* A call that arrives while another is under way crosses it.
LEMMA ArriveStep ==
  ASSUME Inv, NEW q \in Requests, NEW op \in Ops, Arrive(q, op) PROVE Inv'
<1>1. PICK w : w = [Idle EXCEPT !.pc = "asked", !.op = op]
  OBVIOUS
<1>2. w \in Records /\ w.pc = "asked" /\ w.user = "none" /\ w.site = "none" /\ req' = [req EXCEPT ![q] = w]
  BY <1>1 DEF Arrive, Idle, Records, Pcs
<1>3. /\ UNCHANGED <<row, linked, gone, user, site, vhost, linux, crashes, stray, done>> /\ writer' = writer /\ writer # q
      /\ calls' = calls + 1 /\ calls < MaxCalls
  BY MidCall DEF Arrive, db, server, Holding
<1>4. crossed' \in BOOLEAN /\ (~crossed' => ~crossed /\ Others(q))
  BY DEF Arrive, Others, Inv, Types, Values
<1>5. calls' \in 0..MaxCalls
  BY <1>3, ProvisioningConstants DEF Inv, Types, Values
<1>6. Values'
  BY <1>3, <1>4, <1>5 DEF Inv, Types, Values
<1>7. NoOrphans' /\ RowsAgree' /\ DoneIsTrue' /\ Links'
  BY <1>3, <1>4 DEF Inv, NoOrphans, Links, RowsAgree, DoneIsTrue
<1>8. Fits(w)' /\ ~Holding(w) /\ Apt(w)' /\ None # q
  BY <1>2, MidCall DEF Fits, Holding, Apt
<1>9. ~crossed' => Bare'
  BY <1>3, <1>4 DEF Inv, Bare
<1>10. WriterMoves(q, w)
  BY <1>3, <1>8 DEF WriterMoves
<1>11. UNCHANGED <<row, user>>
  BY <1>3
<1> QED
  BY <1>2, <1>4, <1>6, <1>7, <1>8, <1>9, <1>10, <1>11, WriterFacts, CallMoves

-----------------------------------------------------------------------------
(* Steps that change the server.                                             *)

LEMMA MakeUserStep ==
  ASSUME Inv, NEW q \in Requests, MakeUser(q) PROVE Inv'
<1>1. req[q].pc = "opened" /\ vhost' = vhost /\ linux' = "open" /\ done' = "nothing" /\ UNCHANGED <<db, arrivals, crashes, stray>>
  BY DEF MakeUser
<1>2. row = "absent" /\ writer = q /\ vhost' \in {"none", "live", "static"}
  BY <1>1, MidCall DEF Fits, Holding, Inv, Types, Values
<1>3. /\ row' = row /\ linked' = linked /\ gone' = gone /\ user' = user /\ site' = site
      /\ ~crossed => Bare'
  BY <1>1, MidCall DEF db, Bare
<1>4. CASE user # "none"
  <2>1. req' = [req EXCEPT ![q] = Idle] /\ writer' = None
    BY <1>4 DEF MakeUser, Answer
  <2>2. WriterMoves(q, Idle) /\ Apt(Idle)'
    BY <1>2, <2>1, IdleFacts DEF WriterMoves, Release, Apt
  <2>3. ~crossed => Others(q)
    BY <1>1, MidCall
  <2> QED
    BY <1>1, <1>2, <1>3, <2>1, <2>2, <2>3, IdleFacts, ServerCall
<1>5. CASE user = "none"
  <2>1. Goto(q, "peopled") /\ writer' = writer
    BY <1>5 DEF MakeUser
  <2>2. PICK w \in Records : req' = [req EXCEPT ![q] = w] /\ w.pc = "peopled" /\ w.user = req[q].user /\ w.site = req[q].site
    BY <2>1, GotoFacts DEF Pcs
  <2>3. WriterMoves(q, w) /\ Fits(w)
    BY <1>2, <1>5, <2>1, <2>2, MidCall DEF WriterMoves, Fits, Holding
  <2>4. ~crossed => Others(q) /\ Apt(w)'
    BY <1>1, <1>3, <2>2, MidCall DEF Apt
  <2> QED
    BY <1>1, <1>2, <1>3, <2>2, <2>3, <2>4, ServerCall
<1> QED
  BY <1>4, <1>5

LEMMA PublishStep ==
  ASSUME Inv, NEW q \in Requests, Publish(q) PROVE Inv'
<1>1. /\ req[q].pc = "peopled" /\ vhost' = "live" /\ linux' = linux /\ done' = "nothing"
      /\ Goto(q, "published") /\ writer' = writer /\ UNCHANGED <<db, arrivals, crashes, stray>>
  BY DEF Publish
<1>2. PICK w \in Records : req' = [req EXCEPT ![q] = w] /\ w.pc = "published" /\ w.user = req[q].user /\ w.site = req[q].site
  BY <1>1, GotoFacts DEF Pcs
<1>3. WriterMoves(q, w) /\ Fits(w) /\ linux' \in {"none", "open", "locked"}
  BY <1>1, <1>2, MidCall DEF WriterMoves, Fits, Holding, Inv, Types, Values
<1>4. row = "absent" /\ Bare' /\ (row' = row /\ linked' = linked /\ gone' = gone /\ user' = user /\ site' = site)
  BY <1>1, MidCall DEF Fits, Bare, db
<1>5. ~crossed => Others(q) /\ Apt(w)'
  BY <1>1, <1>2, <1>4, MidCall DEF Apt
<1> QED
  BY <1>1, <1>2, <1>3, <1>4, <1>5, ServerCall

\* A call that read its rows goes on, having done on the server what it was to.
GoesOn(q, pc) ==
    /\ Goto(q, pc)
    /\ pc = "off" => req[q].op = "suspend" /\ req[q].site # "none"
    /\ pc = "torn" => req[q].op \in {"terminate", "delete"} /\ req[q].site # "none" /\ vhost' = "none"
    /\ req[q].pc = "forgot" => pc = "changed"
    /\ pc = "changed" => \/ req[q].op = "suspend" /\ vhost' = "static"
                         \/ req[q].op = "unsuspend" /\ vhost' = "live"
                         \/ /\ req[q].op \in {"terminate", "delete"} /\ vhost' = vhost
                            /\ \/ req[q].pc = "forgot"
                               \/ req[q].op = "terminate" /\ req[q].site = "none" /\ req[q].user # "none"

\* It goes on, or fails and is answered.
LEMMA GatheredCall ==
  ASSUME Inv, NEW q \in Requests, req[q].pc \in {"gathered", "off", "forgot"},
         NEW pc \in {"off", "changed", "torn"},
         GoesOn(q, pc) \/ (Answer(q) /\ req[q].pc # "forgot"),
         UNCHANGED <<db, arrivals, crashes, stray, writer>>, done' = "nothing",
         vhost' \in {"none", "live", "static"}, linux' \in {"none", "open", "locked"},
         vhost' # vhost => req[q].site # "none"
  PROVE  Inv'
<1>1. row' = row /\ linked' = linked /\ gone' = gone /\ user' = user /\ site' = site
  BY DEF db
<1>2. ~crossed => Bare'
  <2> SUFFICES ASSUME ~crossed PROVE Bare'
    OBVIOUS
  <2>1. Bare /\ Apt(req[q])
    BY MidCall
  <2>2. vhost' # vhost => site # "none"
    BY <2>1 DEF Apt
  <2> QED
    BY <1>1, <2>1, <2>2 DEF Bare
<1>3. CASE GoesOn(q, pc)
  <2>1. PICK w \in Records : /\ req' = [req EXCEPT ![q] = w] /\ w.pc = pc /\ w.op = req[q].op
                             /\ w.user = req[q].user /\ w.site = req[q].site
    BY <1>3, GotoFacts DEF Pcs, GoesOn
  <2>2. Fits(w)
    BY <1>3, <2>1, MidCall DEF Fits, GoesOn
  <2>3. Holding(w) <=> Holding(req[q])
    BY <1>3, <2>1, MidCall DEF Holding, Fits, GoesOn
  <2>4. WriterMoves(q, w)
    BY <2>3, MidCall DEF WriterMoves
  <2>5. ASSUME ~crossed PROVE Others(q) /\ Apt(w)'
    <3>1. Others(q) /\ Apt(req[q]) /\ Bare
      BY <2>5, MidCall
    <3>2. /\ Found(req[q]) /\ WhoseIs(req[q])
          /\ req[q].site = IF req[q].user \in {"none", "other"} THEN "none" ELSE site
      BY <3>1 DEF Apt
    <3>3. req[q].pc = "forgot" => vhost = "none" \/ stray
      BY <3>1 DEF Apt
    <3>4. req[q].op = "terminate" /\ req[q].user # "none" /\ req[q].site = "none" => vhost = "none" \/ stray
      <4> SUFFICES ASSUME req[q].op = "terminate", req[q].user # "none", req[q].site = "none"
                   PROVE  vhost = "none" \/ stray
        OBVIOUS
      <4>1. row # "absent" /\ (req[q].user = Owner \/ (req[q].user = "other" /\ user = "none"))
        BY <3>2 DEF Found, WhoseIs, Dangling
      <4>2. site = "none"
        <5>1. CASE req[q].user = "other" /\ user = "none"
          BY <5>1 DEF Inv, NoOrphans
        <5>2. CASE req[q].user = Owner
          <6>1. req[q].user = user /\ user # "other"
            BY <5>2 DEF Owner, Inv, Types, Values
          <6> QED
            BY <3>2, <6>1
        <5> QED
          BY <4>1, <5>1, <5>2
      <4> QED
        BY <3>1, <4>1, <4>2 DEF Bare
    <3>5. pc = "changed" /\ req[q].op \in {"terminate", "delete"} => vhost' = "none" \/ stray'
      BY <1>3, <3>3, <3>4 DEF GoesOn
    <3>6. Found(w)' /\ WhoseIs(w)'
      BY <1>1, <2>1, <3>2 DEF Found, WhoseIs, Owner, Dangling
    <3>7. w.site = IF w.user \in {"none", "other"} THEN "none" ELSE site'
      BY <1>1, <2>1, <3>2
    <3>8. Others(q)
      BY <3>1
    <3> QED
      BY <1>3, <2>1, <3>5, <3>6, <3>7, <3>8 DEF Apt, GoesOn
  <2> QED
    BY <1>2, <2>1, <2>2, <2>4, <2>5, ServerCall
<1>4. CASE Answer(q) /\ req[q].pc # "forgot"
  <2>1. req' = [req EXCEPT ![q] = Idle] /\ writer # q
    BY <1>4, MidCall DEF Answer, Holding
  <2>2. WriterMoves(q, Idle) /\ Apt(Idle)' /\ (~crossed => Others(q))
    BY <2>1, MidCall, IdleFacts DEF WriterMoves, Apt
  <2> QED
    BY <1>2, <2>1, <2>2, IdleFacts, ServerCall
<1> QED
  BY <1>3, <1>4

LEMMA ServerTypes ==
  ASSUME Inv
  PROVE  vhost \in {"none", "live", "static"} /\ linux \in {"none", "open", "locked"}
BY DEF Inv, Types, Values

LEMMA TakeOffStep ==
  ASSUME Inv, NEW q \in Requests, TakeOff(q) PROVE Inv'
<1>1. /\ req[q].pc = "gathered" /\ req[q].op = "suspend" /\ req[q].site # "none" /\ vhost' = "none"
      /\ Goto(q, "off") \/ Answer(q)
      /\ UNCHANGED <<db, arrivals, crashes, stray, writer>> /\ done' = "nothing" /\ linux' = linux
  BY DEF TakeOff, Gathered, At
<1> QED
  BY <1>1, ServerTypes, GatheredCall DEF GoesOn

LEMMA WriteStaticStep ==
  ASSUME Inv, NEW q \in Requests, WriteStatic(q) PROVE Inv'
<1>1. /\ req[q].pc = "off" /\ req[q].op = "suspend" /\ req[q].site # "none"
      /\ UNCHANGED <<db, arrivals, crashes, stray, writer>> /\ done' = "nothing"
  BY MidCall DEF WriteStatic, At, Fits
<1>2. /\ (Goto(q, "changed") /\ vhost' = "static") \/ Answer(q)
      /\ vhost' \in {"none", "live", "static"} /\ linux' \in {"none", "open", "locked"}
  BY ServerTypes DEF WriteStatic
<1> QED
  BY <1>1, <1>2, GatheredCall DEF GoesOn

LEMMA PutOnStep ==
  ASSUME Inv, NEW q \in Requests, PutOn(q) PROVE Inv'
<1>1. /\ req[q].pc = "gathered" /\ req[q].op = "unsuspend" /\ req[q].site # "none"
      /\ UNCHANGED <<db, arrivals, crashes, stray, writer>> /\ done' = "nothing"
  BY DEF PutOn, Gathered, At
<1>2. /\ (Goto(q, "changed") /\ vhost' = "live") \/ Answer(q)
      /\ vhost' \in {"none", "live", "static"} /\ linux' \in {"none", "open", "locked"}
  BY ServerTypes DEF PutOn
<1> QED
  BY <1>1, <1>2, GatheredCall DEF GoesOn

LEMMA TearDownStep ==
  ASSUME Inv, NEW q \in Requests, TearDown(q) PROVE Inv'
<1>1. /\ req[q].pc = "gathered" /\ req[q].op \in {"terminate", "delete"} /\ req[q].site # "none"
      /\ UNCHANGED <<db, arrivals, crashes, stray, writer>> /\ done' = "nothing" /\ linux' = linux
  BY DEF TearDown, Gathered, At
<1>2. /\ (Goto(q, "torn") /\ vhost' = "none") \/ Answer(q)
      /\ vhost' \in {"none", "live", "static"}
  BY ServerTypes DEF TearDown
<1> QED
  BY <1>1, <1>2, ServerTypes, GatheredCall DEF GoesOn

LEMMA RemoveLinuxStep ==
  ASSUME Inv, NEW q \in Requests, RemoveLinux(q) PROVE Inv'
<1>1. /\ \/ req[q].pc = "forgot" /\ req[q].op \in {"terminate", "delete"}
         \/ /\ req[q].pc = "gathered" /\ req[q].site = "none" /\ req[q].user # "none"
            /\ req[q].op = "terminate"
      /\ Goto(q, "changed") /\ vhost' = vhost
      /\ UNCHANGED <<db, arrivals, crashes, stray, writer>> /\ done' = "nothing"
      /\ linux' \in {"none", "open", "locked"}
  BY ServerTypes, MidCall DEF RemoveLinux, Gathered, At, Fits
<1> QED
  BY <1>1, ServerTypes, GatheredCall DEF GoesOn

-----------------------------------------------------------------------------
(* Steps that commit.                                                        *)

\* A call that commits and is answered, its transaction with it.
LEMMA Commits ==
  ASSUME Inv, NEW q \in Requests, req[q].pc # "idle", Answer(q),
         UNCHANGED <<arrivals, crashes>>, Values',
         Release(q) \/ (writer' = writer /\ writer # q),
         writer \in {None, q}, NoOrphans', Links',
         RowsAgree', DoneIsTrue', ~crossed => Bare'
  PROVE  Inv'
<1>1. req' = [req EXCEPT ![q] = Idle] /\ crossed' = crossed
  BY DEF Answer, arrivals
<1>2. WriterMoves(q, Idle) /\ Fits(Idle)' /\ Apt(Idle)'
  BY IdleFacts DEF WriterMoves, Fits, Apt, Idle
<1>3. ~crossed => Others(q)
  BY MidCall
<1>4. \A r \in Requests \ {q} : writer # r
  BY ProvisioningConstants
<1> QED
  BY <1>1, <1>2, <1>3, <1>4, IdleFacts, WriterFacts, CallMoves

LEMMA DropRowStep ==
  ASSUME Inv, NEW q \in Requests, DropRow(q) PROVE Inv'
<1>1. /\ req[q].pc = "stale" /\ writer = None /\ writer' = writer /\ row' = "absent" /\ linked' = FALSE
      /\ gone' = FALSE /\ done' = "nothing" /\ Goto(q, "free")
      /\ UNCHANGED <<user, site, vhost, linux, calls, crossed, crashes, stray>>
  BY DEF DropRow, server, arrivals
<1>2. PICK w \in Records : req' = [req EXCEPT ![q] = w] /\ w.pc = "free" /\ w.user = req[q].user /\ w.site = req[q].site
  BY <1>1, GotoFacts DEF Pcs
<1>3. /\ Values' /\ NoOrphans' /\ RowsAgree' /\ DoneIsTrue' /\ Links'
      /\ ~crossed => Bare'
  BY <1>1, MidCall DEF Inv, Types, Values, NoOrphans, Links, RowsAgree, DoneIsTrue, Bare
<1>4. WriterMoves(q, w) /\ Fits(w)' /\ Apt(w)'
  BY <1>1, <1>2, MidCall DEF WriterMoves, Fits, Apt, Holding
<1>5. \A r \in Requests \ {q} : writer # r
  BY <1>1, ProvisioningConstants
<1>6. ~crossed => Others(q)
  BY <1>1, MidCall
<1> QED
  BY <1>1, <1>2, <1>3, <1>4, <1>5, <1>6, WriterFacts, CallMoves

LEMMA GiveUpStep ==
  ASSUME Inv, NEW q \in Requests, NEW withUser \in BOOLEAN, GiveUp(q, withUser),
         req[q].pc = IF withUser THEN "peopled" ELSE "opened",
         linux' = linux, \/ UNCHANGED <<vhost, stray>>
                         \/ vhost' = "live" /\ stray' = TRUE
  PROVE  Inv'
<1>1. writer = q /\ Release(q) /\ Answer(q) /\ UNCHANGED <<arrivals, crashes, gone, site>>
  BY MidCall DEF Holding, Release, GiveUp
<1>2. row' = "failed" /\ linked' = withUser /\ user' = (IF withUser THEN "active" ELSE user) /\ done' = "failed"
  BY DEF GiveUp
<1>3. row = "absent"
  BY MidCall DEF Fits
<1>4. Values'
  BY <1>1, <1>2 DEF arrivals, Inv, Types, Values
<1>5. NoOrphans' /\ Links'
  BY <1>1, <1>2, <1>3 DEF Inv, NoOrphans, Links
<1>6. ~crossed => user = "none" /\ site = "none" /\ vhost = "none"
  BY MidCall DEF Apt
<1>7. RowsAgree' /\ DoneIsTrue' /\ (~crossed => Bare')
  BY <1>1, <1>2, <1>6 DEF arrivals, RowsAgree, DoneIsTrue, Bare
<1> QED
  BY <1>1, <1>4, <1>5, <1>7, Commits

LEMMA MakeUserFailsStep ==
  ASSUME Inv, NEW q \in Requests, MakeUserFails(q) PROVE Inv'
<1>1. GiveUp(q, FALSE) /\ req[q].pc = "opened" /\ UNCHANGED <<vhost, linux, stray>>
  BY DEF MakeUserFails, server
<1> QED
  BY <1>1, GiveUpStep

\* Without the WAF's file the whole transaction is rolled back.
LEMMA PublishFailsStep ==
  ASSUME Inv, NEW q \in Requests, PublishFails(q) PROVE Inv'
<1>1. req[q].pc = "peopled" /\ linux' = linux
  BY DEF PublishFails
<1>2. CASE GiveUp(q, TRUE) /\ (UNCHANGED <<vhost, stray>> \/ (vhost' = "live" /\ stray' = TRUE))
  BY <1>1, <1>2, GiveUpStep
<1>3. CASE Answer(q) /\ Release(q) /\ UNCHANGED <<db, vhost, arrivals, crashes, stray, done>>
  <2>1. UNCHANGED <<db, server, arrivals, crashes, stray, done>>
    BY <1>1, <1>3 DEF server
  <2> QED
    BY <1>1, <1>3, <2>1, AnswerQuietly
<1> QED
  BY <1>2, <1>3 DEF PublishFails

LEMMA CommitCreateStep ==
  ASSUME Inv, NEW q \in Requests, CommitCreate(q) PROVE Inv'
<1>1. /\ req[q].pc = "published" /\ writer' = None /\ done' = "active" /\ Answer(q)
      /\ row' = "active" /\ linked' = TRUE /\ user' = "active" /\ site' = "active"
      /\ UNCHANGED <<gone, vhost, linux, arrivals, crashes, stray>>
  BY DEF CommitCreate, server
<1>2. writer = q /\ Release(q) /\ row = "absent"
  BY <1>1, MidCall DEF Holding, Release, Fits
<1>3. Values' /\ NoOrphans' /\ Links' /\ Bare'
  BY <1>1 DEF arrivals, Inv, Types, Values, NoOrphans, Links, Bare
<1>4. ~crossed => vhost = "live" /\ ~gone
  BY <1>1, <1>2, MidCall DEF Apt, Inv, Links
<1>5. RowsAgree' /\ DoneIsTrue'
  BY <1>1, <1>4 DEF arrivals, RowsAgree, DoneIsTrue
<1> QED
  BY <1>1, <1>2, <1>3, <1>5, Commits

\* An UPDATE of a row that is gone raises, so none makes an orphan.
LEMMA CommitSwitchStep ==
  ASSUME Inv, NEW q \in Requests, CommitSuspend(q) \/ CommitUnsuspend(q) PROVE Inv'
<1>1. PICK op, rowNew, userNew, siteNew :
         /\ \/ op = "suspend" /\ rowNew = "suspended" /\ userNew = "inactive" /\ siteNew = "suspended"
            \/ op = "unsuspend" /\ rowNew = "active" /\ userNew = "active" /\ siteNew = "active"
         /\ CommitSwitch(q, op, rowNew, userNew, siteNew)
  BY DEF CommitSuspend, CommitUnsuspend
<1>2. /\ req[q].op = op /\ Answer(q) /\ writer' = writer /\ writer \in {None, q}
      /\ req[q].pc = "changed" \/ (req[q].pc = "gathered" /\ req[q].user # "none" /\ req[q].site = "none")
      /\ UNCHANGED <<linked, gone, vhost, linux, arrivals, crashes, stray>>
  BY <1>1 DEF CommitSwitch, At, Gathered, MayWrite, server
<1>3. writer # q
  BY <1>1, <1>2, MidCall DEF Holding
<1>4. CASE UNCHANGED <<row, user, site, done>>
  <2>1. Values' /\ NoOrphans' /\ Links'
    BY <1>2, <1>4 DEF arrivals, Inv, Types, Values, NoOrphans, Links
  <2>2. RowsAgree' /\ DoneIsTrue' /\ (~crossed => Bare')
    BY <1>2, <1>4 DEF arrivals, Inv, RowsAgree, DoneIsTrue, Bare
  <2> QED
    BY <1>2, <1>3, <2>1, <2>2, Commits
<1>5. CASE ~UNCHANGED <<row, user, site, done>>
  <2>1. /\ row' = rowNew /\ done' = rowNew
        /\ user' = IF Theirs(q) THEN user ELSE Written(req[q].user, userNew, user)
        /\ site' = IF req[q].site = "none" THEN site ELSE Written(req[q].site, siteNew, site)
        /\ user # "none" \/ Theirs(q) \/ (op = "unsuspend" /\ req[q].user = userNew)
        /\ ~(req[q].site # "none" /\ Lost(req[q].site, siteNew, site, "none"))
        /\ row # "absent"
    BY <1>1, <1>5 DEF CommitSwitch
  <2>2. user' \in {user, userNew} /\ site' \in {site, siteNew}
    BY <2>1 DEF Written
  <2>3. user = "none" => user' = "none" /\ site = "none"
    BY <1>1, <2>1 DEF Written, Inv, NoOrphans
  <2>4. site = "none" => site' = "none"
    BY <2>1 DEF Written, Lost
  <2>5. Values' /\ NoOrphans' /\ Links'
    <3>1. Values'
      BY <1>1, <1>2, <2>1, <2>2 DEF arrivals, Inv, Types, Values
    <3>2. NoOrphans'
      BY <1>1, <1>2, <2>2, <2>3, <2>4 DEF Inv, NoOrphans
    <3>3. Links'
      BY <1>1, <1>2, <2>1 DEF Inv, Links
    <3> QED
      BY <3>1, <3>2, <3>3
  <2>6. ASSUME ~crossed
        PROVE  /\ linked'
               /\ IF gone THEN user' = "none" /\ site' = "none" /\ site = "none"
                  ELSE /\ user' = userNew /\ site' = siteNew
                       /\ vhost' = IF op = "suspend" THEN "static" ELSE "live"
    <3>1. Apt(req[q]) /\ Fits(req[q])
      BY <1>2, <2>6, MidCall
    <3>2. /\ req[q].user = Owner \/ (req[q].user = "other" /\ Dangling)
          /\ req[q].site = (IF req[q].user \in {"none", "other"} THEN "none" ELSE site)
          /\ op = "suspend" => row = "active"
          /\ op = "unsuspend" => row = "suspended"
          /\ req[q].pc = "changed" => vhost = IF op = "suspend" THEN "static" ELSE "live"
      BY <1>1, <1>2, <3>1 DEF Apt, Found, WhoseIs
    <3>3. /\ linked
          /\ IF gone THEN user = "none" /\ site = "none" ELSE user # "none" /\ site # "none"
      BY <1>1, <2>6, <3>2 DEF Inv, RowsAgree
    <3>4. CASE gone
      <4>1. user' = "none" /\ site' = "none"
        BY <2>3, <2>4, <3>3, <3>4
      <4> QED
        BY <1>2, <3>3, <3>4, <4>1
    <3>5. CASE ~gone
      <4>1. req[q].user = user /\ user \in {"active", "inactive"}
        BY <3>2, <3>3, <3>5 DEF Owner, Dangling, Inv, Types, Values
      <4>2. req[q].site = site /\ ~Theirs(q)
        BY <3>2, <4>1 DEF Theirs
      <4>3. req[q].pc = "changed"
        BY <1>2, <3>3, <3>5, <4>2
      <4> QED
        BY <1>1, <1>2, <2>1, <3>2, <3>3, <3>5, <4>1, <4>2, <4>3 DEF Written
    <3> QED
      BY <3>4, <3>5
  <2>7. RowsAgree' /\ DoneIsTrue' /\ (~crossed => Bare')
    <3> SUFFICES ASSUME ~crossed PROVE RowsAgree' /\ DoneIsTrue' /\ Bare'
      BY <1>2 DEF arrivals, RowsAgree, DoneIsTrue
    <3>1. RowsAgree' /\ DoneIsTrue'
      BY <1>1, <1>2, <2>1, <2>6 DEF arrivals, RowsAgree, DoneIsTrue
    <3>2. site' = "none" => gone /\ site = "none"
      BY <1>1, <2>6
    <3>3. site = "none" => vhost = "none" \/ stray
      BY <1>2, <2>1, MidCall DEF Bare
    <3> QED
      BY <1>1, <1>2, <2>1, <3>1, <3>2, <3>3 DEF Bare
  <2> QED
    BY <1>2, <1>3, <2>5, <2>7, Commits
<1> QED
  BY <1>4, <1>5

\* What the rows of a user who is deleted become, and nobody else's.
LEMMA DeletedRows ==
  ASSUME Inv, NEW q \in Requests, DeleteRead(q), ~Unread(q)
  PROVE  /\ user' \in {user, "none"} /\ site' \in {site, "none"}
         /\ site' # "none" => user' # "none"
         /\ ~Spared(q) => user' = "none" /\ site' = "none"
         /\ Spared(q) => user' = user /\ site' = site
<1>1. Fits(req[q])
  BY MidCall
<1> QED
  BY <1>1 DEF DeleteRead, Unread, Spared, Fits, Inv, NoOrphans

LEMMA CommitTerminateStep ==
  ASSUME Inv, NEW q \in Requests, CommitTerminate(q) PROVE Inv'
<1>1. /\ req[q].op = "terminate" /\ Answer(q) /\ Release(q) /\ writer \in {None, q}
      /\ req[q].pc = "changed" \/ (req[q].pc = "gathered" /\ req[q].user = "none")
      /\ UNCHANGED <<vhost, linux, arrivals, crashes, stray>>
  BY DEF CommitTerminate, At, MayWrite, server
<1>2. CASE UNCHANGED <<db, done>>
  <2>1. UNCHANGED <<row, linked, gone, user, site>>
    BY <1>2 DEF db
  <2>2. Values' /\ NoOrphans' /\ Links'
    BY <1>1, <1>2, <2>1 DEF arrivals, Inv, Types, Values, NoOrphans, Links
  <2>3. RowsAgree' /\ DoneIsTrue' /\ (~crossed => Bare')
    BY <1>1, <1>2, <2>1 DEF arrivals, Inv, RowsAgree, DoneIsTrue, Bare
  <2> QED
    BY <1>1, <2>2, <2>3, Commits
<1>3. CASE ~UNCHANGED <<db, done>>
  <2>1. /\ row' = "terminated" /\ linked' = FALSE /\ gone' = FALSE /\ done' = "terminated"
        /\ DeleteRead(q) /\ ~Unread(q)
    BY <1>3 DEF CommitTerminate
  <2>2. Values' /\ NoOrphans' /\ Links'
    BY <1>1, <2>1, DeletedRows DEF arrivals, Inv, Types, Values, NoOrphans, Links
  <2>3. ASSUME ~crossed PROVE user' = "none" /\ site' = "none" /\ (vhost = "none" \/ stray)
    <3>1. Apt(req[q]) /\ Bare
      BY <1>1, <2>3, MidCall
    <3>2. /\ row \in {"active", "suspended", "failed"}
          /\ req[q].user = Owner \/ (req[q].user = "other" /\ Dangling)
          /\ req[q].pc = "changed" => vhost = "none" \/ stray
      BY <1>1, <3>1 DEF Apt, Found, WhoseIs
    <3>3. CASE Spared(q)
      <4>1. Owner = "none"
        BY <3>2, <3>3 DEF Spared, Owner, Dangling, Inv, Types, Values
      <4>2. user = "none"
        BY <2>3, <3>1, <3>2, <4>1 DEF Owner, Inv, RowsAgree, Bare
      <4>3. site = "none"
        BY <4>2 DEF Inv, NoOrphans
      <4> QED
        BY <2>1, <3>1, <3>2, <3>3, <4>2, <4>3, DeletedRows DEF Bare
    <3>4. CASE ~Spared(q)
      BY <1>1, <2>1, <3>2, <3>4, DeletedRows DEF Spared
    <3> QED
      BY <3>3, <3>4
  <2>4. RowsAgree' /\ DoneIsTrue' /\ (~crossed => Bare')
    BY <1>1, <2>1, <2>3 DEF arrivals, RowsAgree, DoneIsTrue, Bare
  <2> QED
    BY <1>1, <2>1, <2>2, <2>4, Commits
<1> QED
  BY <1>2, <1>3

\* The account is left naming a user that is gone.
LEMMA CommitDeleteStep ==
  ASSUME Inv, NEW q \in Requests, CommitDelete(q) PROVE Inv'
<1>1. /\ req[q].pc = "changed" /\ req[q].op = "delete" /\ Answer(q) /\ Release(q) /\ writer \in {None, q}
      /\ UNCHANGED <<row, linked, vhost, linux, arrivals, crashes, stray, done>>
  BY DEF CommitDelete, At, MayWrite, server
<1>2. CASE UNCHANGED <<gone, user, site>>
  <2>1. Values' /\ NoOrphans' /\ Links'
    BY <1>1, <1>2 DEF arrivals, Inv, Types, Values, NoOrphans, Links
  <2>2. RowsAgree' /\ DoneIsTrue' /\ (~crossed => Bare')
    BY <1>1, <1>2 DEF arrivals, Inv, RowsAgree, DoneIsTrue, Bare
  <2> QED
    BY <1>1, <2>1, <2>2, Commits
<1>3. CASE ~UNCHANGED <<gone, user, site>>
  <2>1. DeleteRead(q) /\ ~Unread(q) /\ gone' = (gone \/ linked)
    BY <1>3 DEF CommitDelete
  <2>2. Values' /\ NoOrphans' /\ Links'
    BY <1>1, <2>1, DeletedRows DEF arrivals, Inv, Types, Values, NoOrphans, Links
  <2>3. ASSUME ~crossed PROVE user' = "none" /\ site' = "none" /\ (vhost = "none" \/ stray)
    <3>1. Apt(req[q])
      BY <1>1, <2>3, MidCall
    <3>2. req[q].user = user /\ user # "none" /\ (vhost = "none" \/ stray)
      BY <1>1, <3>1 DEF Apt, Found, WhoseIs
    <3>3. ~Spared(q)
      BY <3>2 DEF Spared, Inv, Types, Values
    <3> QED
      BY <2>1, <3>2, <3>3, DeletedRows
  <2>4. RowsAgree' /\ DoneIsTrue' /\ (~crossed => Bare')
    <3> SUFFICES ASSUME ~crossed PROVE RowsAgree' /\ DoneIsTrue' /\ Bare'
      BY <1>1 DEF arrivals, RowsAgree, DoneIsTrue
    <3>1. RowsAgree'
      BY <1>1, <2>1, <2>3 DEF arrivals, Inv, RowsAgree
    <3>2. DoneIsTrue'
      BY <1>1, <2>1, <2>3 DEF arrivals, Inv, DoneIsTrue, RowsAgree
    <3>3. Bare'
      BY <1>1, <2>3, MidCall DEF Bare
    <3> QED
      BY <3>1, <3>2, <3>3
  <2> QED
    BY <1>1, <2>2, <2>4, Commits
<1> QED
  BY <1>2, <1>3

LEMMA CrashStep ==
  ASSUME Inv, Crash PROVE Inv'
<1>1. /\ UNCHANGED <<row, linked, gone, user, site, vhost, linux, calls, crossed, stray, done>>
      /\ crashes < MaxCrashes /\ crashes' = crashes + 1
      /\ req' = [q \in Requests |-> Idle] /\ writer' = None
  BY DEF Crash, db, server, arrivals
<1>2. crashes' \in 0..MaxCrashes
  BY <1>1, ProvisioningConstants DEF Inv, Types, Values
<1>3. Values'
  BY <1>1, <1>2 DEF Inv, Types, Values
<1>4. \A q \in Requests : req'[q] = Idle
  BY <1>1
<1>5. Types'
  BY <1>1, <1>3, <1>4, IdleFacts, ProvisioningConstants DEF Types
<1>6. \A q \in Requests : Fits(req[q])' /\ Apt(req[q])' /\ Others(q)'
  BY <1>4 DEF Fits, Apt, Idle, Others
<1>7. NoOrphans' /\ RowsAgree' /\ DoneIsTrue' /\ Links' /\ (~crossed' => Bare')
  BY <1>1 DEF Inv, NoOrphans, Links, RowsAgree, DoneIsTrue, Bare
<1> QED
  BY <1>5, <1>6, <1>7 DEF Inv

LEMMA InitInv == Init => Inv
<1> SUFFICES ASSUME Init PROVE Inv
  OBVIOUS
<1>1. Values
  <2>1. 0 \in 0..MaxCalls /\ 0 \in 0..MaxCrashes
    BY ProvisioningConstants
  <2> QED
    BY <2>1 DEF Init, Values
<1>2. \A q \in Requests : req[q] = Idle
  BY DEF Init
<1>3. Types
  BY <1>1, <1>2, IdleFacts, ProvisioningConstants DEF Init, Types
<1>4. \A q \in Requests : Fits(req[q]) /\ Apt(req[q]) /\ Others(q)
  BY <1>2, IdleFacts DEF Others
<1>5. NoOrphans /\ RowsAgree /\ DoneIsTrue /\ Links /\ Bare
  BY DEF Init, NoOrphans, Links, RowsAgree, DoneIsTrue, Bare
<1> QED
  BY <1>3, <1>4, <1>5 DEF Inv

LEMMA NextInv == Inv /\ [Next]_vars => Inv'
<1> SUFFICES ASSUME Inv, [Next]_vars PROVE Inv'
  OBVIOUS
<1>1. ASSUME NEW q \in Requests, Create(q) PROVE Inv'
  BY <1>1, LookCreateStep, DropRowStep, CheckStep, OpenStep, MakeUserStep, MakeUserFailsStep,
     PublishStep, PublishFailsStep, CommitCreateStep DEF Create
<1>2. ASSUME NEW q \in Requests, Suspend(q) \/ Unsuspend(q) PROVE Inv'
  BY <1>2, TakeOffStep, WriteStaticStep, PutOnStep, CommitSwitchStep DEF Suspend, Unsuspend
<1>3. ASSUME NEW q \in Requests, Terminate(q) PROVE Inv'
  BY <1>3, TearDownStep, ForgetStep, RemoveLinuxStep, CommitTerminateStep, CommitDeleteStep DEF Terminate
<1>4. ASSUME NEW q \in Requests, (\E op \in Ops : Arrive(q, op)) \/ Look(q) \/ LookDelete(q) \/ ReadUser(q)
             \/ ReadSites(q) \/ NoUser(q) \/ Refused(q)
      PROVE  Inv'
  BY <1>4, ArriveStep, LookStep, LookDeleteStep, ReadUserStep, ReadSitesStep, NoUserStep, RefusedStep
<1>5. CASE UNCHANGED vars
  <2>1. UNCHANGED <<row, linked, gone, user, site, vhost, linux, writer, req, calls, crossed, crashes, stray, done>>
    BY <1>5 DEF vars
  <2> QED
    BY <2>1 DEF Inv, Types, Values, Fits, Apt, Found, WhoseIs, Dangling, Owner, Others, NoOrphans, Links, RowsAgree, DoneIsTrue, Bare
<1> QED
  BY <1>1, <1>2, <1>3, <1>4, <1>5, CrashStep DEF Next

LEMMA Invariant == Spec => []Inv
BY InitInv, NextInv, PTL DEF Spec

-----------------------------------------------------------------------------
(* Theorems                                                                 *)

\* Every variable has its type, and who holds SQLite's write transaction is a
\* create or a termination in the middle of it.
THEOREM TypeCorrect == Spec => []TypeOK
<1>1. Inv => TypeOK
  BY TypesSuffice DEF Inv
<1> QED
  BY <1>1, Invariant, PTL

\* However the calls cross, fail and are repeated, no website is without its owner,
\* and the account names a user that is gone only after the panel's own page has
\* deleted that user.
THEOREM NeverOrphans == Spec => []NoOrphans
<1>1. Inv => NoOrphans
  BY DEF Inv
<1> QED
  BY <1>1, Invariant, PTL

\* Calls that come one at a time leave the three rows saying the same, or the
\* account naming a user that the panel's own page deleted with its website.
THEOREM RowsAlwaysAgree == Spec => []RowsAgree
<1>1. Inv => RowsAgree
  BY DEF Inv
<1> QED
  BY <1>1, Invariant, PTL

\* What such a call answered without an error is how the rows and nginx are: for a
\* switch, of an account whose user is still there; for a termination, but for the
\* vhost that a failed create left.
THEOREM DoneStaysTrue == Spec => []DoneIsTrue
<1>1. Inv => DoneIsTrue
  BY DEF Inv
<1> QED
  BY <1>1, Invariant, PTL

-----------------------------------------------------------------------------
(* Backups. What a run has made of an account's archive, and whether another *)
(* run can come to that account, is said of every run at every stage.        *)

Stages == {"idle", "next", "write", "orphan", "made", "put", "stored", "prune", "told"}
AtArchive == Stages \ {"idle", "next"}
Says == {"pending", "running", "ok", "error", "deleted"}
Manual == {"backup", "upload"}
Results == {Nothing, Torn} \cup Seconds
Tasks == [kind : {"none", "schedule"} \cup Manual, of : Schedules \cup Jobs \cup {Nobody}]
Runs == [pc : Stages, task : Tasks, user : Users \cup {Nobody}, at : 0..MaxNow, since : 0..MaxNow,
         left : SUBSET Users, failed : BOOLEAN, seen : Says, place : Places \cup {Nobody}, got : Results]
TimerRows == [left : SUBSET Schedules, loaded : [Schedules -> Says], fresh : BOOLEAN]
JobRows == [status : {"none", "queued", "running", "done", "error", "gone"}, user : Users \cup {Nobody}]

\* The accounts of a run's task, and where it sends their archives.
Cares(r) == CASE r.task.kind = "schedule" -> plan[r.task.of].users
              [] r.task.kind \in Manual -> {job[r.task.of].user}
              [] OTHER -> {}
Sent(r) == CASE r.task.kind = "schedule" -> plan[r.task.of].dest
             [] r.task.kind = "upload" -> "sftp"
             [] OTHER -> "none"

\* A run's fields fit its task and its stage.
FitsTask(r) ==
    /\ r.task.kind = "schedule" => r.task.of \in Schedules
    /\ r.task.kind \in Manual => r.task.of \in Jobs
    /\ r.pc = "idle" <=> r = Resting
    /\ r.pc # "idle" => r.task.kind # "none"
    /\ r.left \subseteq Cares(r) /\ r.since <= now
    /\ r.pc \in {"idle", "next"} => r.user = Nobody
    /\ r.pc \in AtArchive =>
        r.user \in Users /\ r.user \in Cares(r) \ r.left /\ r.at \in Seconds /\ r.since <= r.at /\ r.at <= now
    /\ r.pc = "prune" => r.task.kind = "schedule"
    /\ r.pc = "told" => r.task.kind \in Manual
    /\ r.pc \in {"made", "put", "stored"} => Sent(r) # "none"
    /\ r.pc = "put" => r.place \in Places /\ r.place.dest = Sent(r)

BackupsTypes ==
    /\ now \in Seconds /\ plan \in Plans /\ mixed \subseteq Users
    /\ events \in 0..MaxEvents /\ restarts \in Nat /\ unended \subseteq Schedules
    /\ status \in [Schedules -> Says]
    /\ local \in [Users \X Seconds -> {"none", "part", "torn", "whole"}]
    /\ remote \in [Users \X Places -> Results]
    /\ act \in [Actors -> Runs]
    /\ timer \in TimerRows
    /\ queue \in Seq(Tasks)
    /\ job \in [Jobs -> JobRows]

\* Each manual job is in one place of the queue, or with one thread, and says so.
Registry ==
    /\ \A i \in DOMAIN queue : queue[i].kind # "none"
    /\ \A i \in DOMAIN queue : queue[i].kind = "schedule" => queue[i].of \in Schedules
    /\ \A i \in DOMAIN queue : queue[i].kind \in Manual =>
          queue[i].of \in Jobs /\ job[queue[i].of].status = "queued" /\ job[queue[i].of].user \in Users
    /\ \A i, k \in DOMAIN queue : i # k /\ queue[i].kind \in Manual /\ queue[k].kind \in Manual =>
          queue[i].of # queue[k].of
    /\ \A a \in Actors : act[a].task.kind \in Manual =>
          a \in Workers /\ job[act[a].task.of].status = "running" /\ job[act[a].task.of].user \in Users
    /\ \A a, b \in Actors : a # b /\ act[a].task.kind \in Manual /\ act[b].task.kind \in Manual =>
          act[a].task.of # act[b].task.of

\* No archive is from the future.
OnTime == \A u \in Users, v \in Seconds : local[<<u, v>>] # "none" => v <= now

\* A run leaves an account to another: it is not one of its own, or it has yet to
\* come to it, or its dump of it failed.
Clear(r, u) == u \in Cares(r) => u \in r.left \/ (r.failed /\ r.user # u)
Separate ==
    \A a, b \in Actors : a # b /\ act[b].user \in Users \ mixed => Clear(act[a], act[b].user)

\* The archive lies whole where it was to be sent.
Arrived(r) == \E p \in Places : p.dest = Sent(r) /\ remote[<<r.user, p>>] = r.at

\* What there is of the archive a run is at, which is the newest of its account.
Made(r) ==
    /\ r.pc = "write" => local[<<r.user, r.at>>] = "part"
    /\ r.pc # "orphan"
    /\ r.pc \in {"made", "put"} => local[<<r.user, r.at>>] = "whole"
    /\ r.pc = "put" => r.got = r.at
    /\ r.pc \in {"stored", "prune", "told"} =>
        IF Sent(r) = "none" THEN local[<<r.user, r.at>>] = "whole" ELSE Arrived(r)
    /\ \A v \in Seconds : local[<<r.user, v>>] # "none" => v <= r.at
MadeIf(r) == r.pc \in AtArchive /\ r.user \notin mixed => Made(r)

\* What a run that has not failed has left of the accounts it is done with.
Fresh(r, u) == IF Sent(r) = "none" THEN KeptHere(u, r.since) ELSE StoredAt(u, Sent(r), r.since)
FreshIf(r) ==
    r.task.kind = "schedule" /\ ~r.failed =>
        \A u \in Cares(r) \ (r.left \cup mixed) : u # r.user => Fresh(r, u)

\* A schedule that says "running" is in the queue, or with a thread that read that.
RunInHand ==
    \A s \in Schedules \ unended : status[s] = "running" /\ restarts = 0 =>
        \/ \E i \in DOMAIN queue : queue[i].kind = "schedule" /\ queue[i].of = s
        \/ \E w \in Workers : act[w].task.kind = "schedule" /\ act[w].task.of = s /\ act[w].seen = "running"

Fine(r) == FitsTask(r) /\ MadeIf(r) /\ FreshIf(r)
BackupsInv ==
    /\ BackupsTypes /\ Registry /\ OnTime /\ Separate /\ RunInHand
    /\ \A a \in Actors : Fine(act[a])

-----------------------------------------------------------------------------
(* What the types say.                                                      *)

LEMMA ActorFacts ==
  /\ Timer \in Actors /\ Workers \subseteq Actors /\ Timer \notin Workers
  /\ \A a \in Actors : a = Timer \/ a \in Workers
  /\ Nobody \notin Users /\ Nobody \notin Actors /\ Nobody \notin Schedules
  /\ MaxNow \in Nat /\ MaxNow >= 1 /\ SecondsPerDay \in Nat /\ SecondsPerDay >= 1
  /\ MaxJobs \in Nat /\ MaxEvents \in Nat /\ JobLimit \in Nat
BY BackupConstants DEF Actors

LEMMA PlanFacts ==
  ASSUME NEW s \in Schedules, plan \in Plans
  PROVE  /\ plan[s].users \subseteq Users /\ plan[s].keep \in Nat
         /\ plan[s].dest \in {"none", "sftp", "s3"} /\ plan[s].suffix \in {"none", "full_date"}
BY BackupConstants

\* What the specification says of an actor is what is said here of its run.
LEMMA SameRun ==
  ASSUME NEW a \in Actors, NEW r, r = act[a]
  PROVE  /\ Dest(a) = Sent(r) /\ Mine(a) = <<r.user, r.at>>
         /\ Scheduled(a) <=> r.task.kind = "schedule"
         /\ r.task.kind = "schedule" => PlanOf(a) = plan[r.task.of]
         /\ \A u : Handles(a, u) <=> u \in Cares(r)
<1>1. /\ Dest(a) = Sent(r) /\ Mine(a) = <<r.user, r.at>> /\ (Scheduled(a) <=> r.task.kind = "schedule")
      /\ (r.task.kind = "schedule" => PlanOf(a) = plan[r.task.of])
  BY DEF Dest, Sent, Mine, Scheduled, PlanOf
<1>2. ASSUME NEW u PROVE Handles(a, u) <=> u \in Cares(r)
  <2>1. CASE r.task.kind = "schedule"
    BY <1>1, <2>1 DEF Handles, Cares, Manual, Scheduled
  <2>2. CASE r.task.kind \in Manual
    BY <1>1, <2>2 DEF Handles, Cares, Manual, Scheduled
  <2>3. CASE r.task.kind \notin Manual \cup {"schedule"}
    BY <1>1, <2>3 DEF Handles, Cares, Manual, Scheduled
  <2> QED
    BY <2>1, <2>2, <2>3
<1> QED
  BY <1>1, <1>2

LEMMA RestingFacts ==
  /\ Resting \in Runs /\ Resting.pc = "idle" /\ Resting.task.kind = "none" /\ Resting.user = Nobody /\ Resting.left = {}
  /\ Cares(Resting) = {}
  /\ now \in Seconds => FitsTask(Resting)
<1>1. NoTask \in Tasks /\ NoTask.kind = "none"
  BY DEF NoTask, Tasks
<1>2. /\ Resting.pc = "idle" /\ Resting.task = NoTask /\ Resting.user = Nobody /\ Resting.left = {} /\ Resting.since = 0
  BY DEF Resting
<1>3. Resting \in Runs
  BY <1>1, ActorFacts DEF Resting, Runs, Stages, Says, Results, Nothing
<1>4. Cares(Resting) = {}
  BY <1>1, <1>2 DEF Cares, Manual
<1>5. now \in Seconds => FitsTask(Resting)
  BY <1>1, <1>2, <1>4, ActorFacts DEF FitsTask, AtArchive, Manual, Seconds
<1> QED
  BY <1>1, <1>2, <1>3, <1>4, <1>5

\* The fields of a run.
LEMMA RunFacts ==
  ASSUME NEW r \in Runs
  PROVE  /\ r.pc \in Stages /\ r.task \in Tasks /\ r.task.kind \in {"none", "schedule", "backup", "upload"}
         /\ r.user \in Users \cup {Nobody} /\ r.at \in 0..MaxNow /\ r.since \in 0..MaxNow /\ r.left \subseteq Users
         /\ r.failed \in BOOLEAN /\ r.seen \in Says /\ r.place \in Places \cup {Nobody} /\ r.got \in Results
BY DEF Runs, Tasks, Manual

\* Of the run of an actor, by the invariant.
LEMMA Doing ==
  ASSUME BackupsInv, NEW a \in Actors, NEW r, r = act[a]
  PROVE  /\ r \in Runs /\ FitsTask(r) /\ MadeIf(r) /\ FreshIf(r) /\ Cares(r) \subseteq Users
         /\ Sent(r) \in {"none", "sftp", "s3"}
         /\ r.user # Nobody <=> r.pc \in AtArchive
         /\ \A b \in Actors \ {a} : r.user \in Users \ mixed => Clear(act[b], r.user)
<1>1. r \in Runs /\ FitsTask(r) /\ MadeIf(r) /\ FreshIf(r)
  BY DEF BackupsInv, BackupsTypes, Fine
<1>2. r.task.kind \in Manual => job[r.task.of].user \in Users
  BY DEF BackupsInv, Registry
<1>3. r.task.kind = "schedule" =>
        plan[r.task.of].users \subseteq Users /\ plan[r.task.of].dest \in {"none", "sftp", "s3"}
  BY <1>1, PlanFacts DEF BackupsInv, BackupsTypes, FitsTask
<1>4. Cares(r) \subseteq Users
  BY <1>2, <1>3 DEF Cares
<1>5. Sent(r) \in {"none", "sftp", "s3"}
  BY <1>3 DEF Sent
<1>6. r.user # Nobody <=> r.pc \in AtArchive
  <2>1. r.pc \in {"idle", "next"} \/ r.pc \in AtArchive
    BY <1>1, RunFacts DEF AtArchive
  <2> QED
    BY <1>1, <2>1, ActorFacts DEF FitsTask, AtArchive
<1>7. \A b \in Actors \ {a} : r.user \in Users \ mixed => Clear(act[b], r.user)
  BY DEF BackupsInv, Separate
<1> QED
  BY <1>1, <1>4, <1>5, <1>6, <1>7

-----------------------------------------------------------------------------
(* What a step leaves of the runs it is not of.                             *)

\* A run whose file is taken away while it writes it, or whose upload another's
\* spoils, is still at the same archive.
Turned(w, r) ==
    \/ w = r
    \/ r.pc = "write" /\ w = [r EXCEPT !.pc = "orphan"]
    \/ r.pc = "put" /\ w = [r EXCEPT !.got = Torn]
SameTask(w, r) ==
    /\ w.task = r.task /\ w.user = r.user /\ w.at = r.at /\ w.since = r.since /\ w.left = r.left
    /\ w.failed = r.failed /\ w.seen = r.seen /\ w.place = r.place

LEMMA TurnedFacts ==
  ASSUME NEW r \in Runs, NEW w, Turned(w, r), FitsTask(r)
  PROVE  w \in Runs /\ SameTask(w, r) /\ FitsTask(w) /\ Cares(w) = Cares(r) /\ Sent(w) = Sent(r)
<1>1. w \in Runs /\ SameTask(w, r) /\ (w.pc = r.pc \/ (w.pc = "orphan" /\ r.pc = "write"))
  <2>1. CASE w = r
    BY <2>1 DEF SameTask
  <2>2. CASE r.pc = "write" /\ w = [r EXCEPT !.pc = "orphan"]
    BY <2>2 DEF SameTask, Runs, Stages
  <2>3. CASE r.pc = "put" /\ w = [r EXCEPT !.got = Torn]
    BY <2>3 DEF SameTask, Runs, Results
  <2> QED
    BY <2>1, <2>2, <2>3 DEF Turned
<1>2. Cares(w) = Cares(r) /\ Sent(w) = Sent(r)
  BY <1>1 DEF SameTask, Cares, Sent
<1>3. FitsTask(w)
  <2>1. CASE w = r
    BY <2>1
  <2>2. CASE w # r
    <3>1. w.pc \in {"orphan", "put"} /\ r.pc \in {"write", "put"} /\ (w.pc = "put" <=> r.pc = "put")
      BY <2>2 DEF Turned, Runs
    <3>2. w.pc # "idle" /\ w # Resting /\ w.pc \in AtArchive /\ r.pc \in AtArchive /\ r.pc # "idle"
      BY <3>1, RestingFacts DEF AtArchive, Stages
    <3> QED
      BY <1>1, <1>2, <3>1, <3>2 DEF FitsTask, SameTask
  <2> QED
    BY <2>1, <2>2
<1> QED
  BY <1>1, <1>2, <1>3

\* What is said of a run stays when what it speaks of stays.
LEMMA CaresStays ==
  ASSUME NEW r, plan' = plan, r.task.kind \in Manual => job'[r.task.of].user = job[r.task.of].user
  PROVE  Cares(r)' = Cares(r) /\ Sent(r)' = Sent(r)
<1>1. Sent(r)' = Sent(r)
  BY DEF Sent
<1>2. Cares(r)' = Cares(r)
  <2>1. CASE r.task.kind \in Manual
    BY <2>1 DEF Cares, Manual
  <2>2. CASE r.task.kind \notin Manual
    BY <2>2 DEF Cares
  <2> QED
    BY <2>1, <2>2
<1> QED
  BY <1>1, <1>2

LEMMA FitsStays ==
  ASSUME NEW r \in Runs, FitsTask(r), now \in Seconds, now' \in Seconds, now <= now',
         Cares(r)' = Cares(r), Sent(r)' = Sent(r)
  PROVE  FitsTask(r)'
<1>1. r.since <= now' /\ (r.pc \in AtArchive => r.at <= now')
  BY RunFacts, ActorFacts DEF FitsTask, Seconds
<1> QED
  BY <1>1 DEF FitsTask

LEMMA MadeStays ==
  ASSUME NEW r \in Runs, Sent(r)' = Sent(r), r.user \in Users, r.at \in Seconds,
         \A v \in Seconds : local'[<<r.user, v>>] = local[<<r.user, v>>],
         \A p \in Places : remote'[<<r.user, p>>] = remote[<<r.user, p>>], Made(r)
  PROVE  Made(r)'
<1>1. Arrived(r)' <=> Arrived(r)
  BY DEF Arrived
<1> QED
  BY <1>1 DEF Made

LEMMA FreshStays ==
  ASSUME NEW r, NEW u, Sent(r)' = Sent(r),
         \A v \in Seconds : local'[<<u, v>>] = local[<<u, v>>],
         \A p \in Places : remote'[<<u, p>>] = remote[<<u, p>>], Fresh(r, u)
  PROVE  Fresh(r, u)'
BY DEF Fresh, KeptHere, StoredAt

\* No account that has a whole archive, and one run at a time, loses it.
Keeps == \A u \in Users \ mixed' : HasWhole(u) => HasWhole(u)'

LEMMA KeepsOthers ==
  ASSUME NEW x, \A u \in Users \ {x}, v \in Seconds : local'[<<u, v>>] = local[<<u, v>>],
         \A u \in Users \ {x}, p \in Places : remote'[<<u, p>>] = remote[<<u, p>>],
         x \in Users \ mixed' /\ HasWhole(x) => HasWhole(x)'
  PROVE  Keeps
<1> SUFFICES ASSUME NEW u \in Users \ mixed', HasWhole(u), u # x PROVE HasWhole(u)'
  BY DEF Keeps
<1>1. KeptHere(u, 1)' <=> KeptHere(u, 1)
  BY DEF KeptHere
<1>2. \A d : StoredAt(u, d, 1)' <=> StoredAt(u, d, 1)
  BY DEF StoredAt
<1> QED
  BY <1>1, <1>2 DEF HasWhole

\* Of the runs B that a step at account x is not of: they go on as they were, if
\* the step spoils x or finds it left to it.
Bystanders(B, x) ==
    /\ \A b \in B : Turned(act'[b], act[b]) /\ (act[b].user # x => act'[b] = act[b])
    /\ \A u \in Users \ {x}, v \in Seconds : local'[<<u, v>>] = local[<<u, v>>]
    /\ \A u \in Users \ {x}, p \in Places : remote'[<<u, p>>] = remote[<<u, p>>]
    /\ plan' = plan /\ mixed \subseteq mixed' /\ now' \in Seconds /\ now <= now'
    /\ \A b \in B : act[b].task.kind \in Manual => job'[act[b].task.of].user = job[act[b].task.of].user
    /\ x \in Users \ mixed' => \A b \in B : act[b].user # x /\ Clear(act[b], x)

LEMMA Bystander ==
  ASSUME BackupsInv, NEW B \in SUBSET Actors, NEW x, Bystanders(B, x), NEW b \in B, NEW w, w = act'[b]
  PROVE  /\ w \in Runs /\ SameTask(w, act[b]) /\ Fine(w)'
         /\ \A u : Clear(w, u)' <=> Clear(act[b], u)
<1>1. PICK r : r = act[b]
  OBVIOUS
<1>3. /\ r \in Runs /\ FitsTask(r) /\ MadeIf(r) /\ FreshIf(r) /\ Cares(r) \subseteq Users
  BY <1>1, Doing
<1>4. /\ Turned(w, r) /\ (r.user # x => w = r) /\ plan' = plan
      /\ r.task.kind \in Manual => job'[r.task.of].user = job[r.task.of].user
      /\ x \in Users \ mixed' => r.user # x /\ Clear(r, x)
  BY <1>1 DEF Bystanders
<1>5. w \in Runs /\ SameTask(w, r) /\ FitsTask(w) /\ Cares(w) = Cares(r) /\ Sent(w) = Sent(r)
  BY <1>3, <1>4, TurnedFacts
<1>6. Cares(w)' = Cares(r) /\ Sent(w)' = Sent(r)
  BY <1>4, <1>5, CaresStays DEF SameTask
<1>7. FitsTask(w)'
  BY <1>5, <1>6, FitsStays DEF Bystanders, BackupsInv, BackupsTypes
<1>8. MadeIf(w)'
  <2> SUFFICES ASSUME w.pc \in AtArchive, w.user \notin mixed' PROVE Made(w)'
    BY DEF MadeIf
  <2>1. w.user \in Users /\ w.at \in Seconds
    BY <1>5 DEF FitsTask
  <2>2. w = r /\ r.user # x
    BY <1>4, <1>5, <2>1 DEF SameTask
  <2>3. Made(w)
    BY <1>3, <2>2 DEF MadeIf, Bystanders
  <2> QED
    BY <1>5, <1>6, <2>1, <2>2, <2>3, MadeStays DEF Bystanders
<1>9. FreshIf(w)'
  <2> SUFFICES ASSUME w.task.kind = "schedule", ~w.failed, NEW u \in Cares(r) \ (r.left \cup mixed'), u # r.user
               PROVE  Fresh(w, u)'
    BY <1>5, <1>6 DEF FreshIf, SameTask
  <2>1. u \in Users /\ u # x /\ u \notin mixed
    BY <1>3, <1>4, <1>5 DEF Clear, SameTask, Bystanders
  <2>2. Fresh(r, u)
    BY <1>3, <1>5, <2>1 DEF FreshIf, SameTask
  <2>3. Fresh(w, u)
    BY <1>5, <2>2 DEF Fresh, SameTask
  <2> QED
    BY <1>5, <1>6, <2>1, <2>3, FreshStays DEF Bystanders
<1>10. ASSUME NEW u PROVE Clear(w, u)' <=> Clear(r, u)
  BY <1>5, <1>6 DEF Clear, SameTask
<1> QED
  BY <1>1, <1>5, <1>7, <1>8, <1>9, <1>10 DEF Fine

LEMMA RegistryStays ==
  ASSUME Registry, UNCHANGED <<queue, job>>, \A b \in Actors : act'[b].task = act[b].task
  PROVE  Registry'
<1>1. /\ \A i \in DOMAIN queue' : queue'[i].kind # "none"
      /\ \A i \in DOMAIN queue' : queue'[i].kind = "schedule" => queue'[i].of \in Schedules
      /\ \A i \in DOMAIN queue' : queue'[i].kind \in Manual =>
            queue'[i].of \in Jobs /\ job'[queue'[i].of].status = "queued" /\ job'[queue'[i].of].user \in Users
      /\ \A i, k \in DOMAIN queue' : i # k /\ queue'[i].kind \in Manual /\ queue'[k].kind \in Manual =>
            queue'[i].of # queue'[k].of
  BY DEF Registry
<1>2. \A a \in Actors : act'[a].task.kind \in Manual =>
        a \in Workers /\ job'[act'[a].task.of].status = "running" /\ job'[act'[a].task.of].user \in Users
  BY DEF Registry
<1>3. \A a, b \in Actors : a # b /\ act'[a].task.kind \in Manual /\ act'[b].task.kind \in Manual =>
        act'[a].task.of # act'[b].task.of
  BY DEF Registry
<1> QED
  BY <1>1, <1>2, <1>3 DEF Registry

\* The step of one run at account x, from r to w.
LEMMA RunStep ==
  ASSUME BackupsInv, NEW a \in Actors, NEW r, r = act[a], NEW w \in Runs, NEW x, Bystanders(Actors \ {a}, x),
         act' = [b \in Actors |-> act'[b]], act'[a] = w, UNCHANGED <<plan, status, timer, queue, job, events, restarts, unended>>,
         mixed' \subseteq Users,
         local' \in [Users \X Seconds -> {"none", "part", "torn", "whole"}], remote' \in [Users \X Places -> Results],
         w.task = r.task, w.since = r.since, w.seen = r.seen, w.left \subseteq r.left, r.failed => w.failed,
         r.user \in {x, Nobody}, w.user \in {x, Nobody},
         \A u \in r.left \ w.left : u = x \/ w.failed,
         FitsTask(w)', x \in Users => \A v \in Seconds : local'[<<x, v>>] # "none" => v <= now',
         x \in Users \ mixed' /\ w.pc \in AtArchive => Made(w)',
         x \in Users \ mixed' /\ w.user # x /\ ~w.failed /\ w.task.kind = "schedule" => Fresh(w, x)'
  PROVE  BackupsInv'
<1>1. /\ r \in Runs /\ FitsTask(r) /\ MadeIf(r) /\ FreshIf(r) /\ Cares(r) \subseteq Users
  BY Doing
<1>2. ASSUME NEW b \in Actors \ {a}, NEW v, v = act'[b]
      PROVE  v \in Runs /\ SameTask(v, act[b]) /\ Fine(v)' /\ \A u : Clear(v, u)' <=> Clear(act[b], u)
  BY <1>2, Bystander
<1>3. Cares(w)' = Cares(r) /\ Sent(w)' = Sent(r)
  <2>1. Cares(r)' = Cares(r) /\ Sent(r)' = Sent(r)
    BY CaresStays
  <2>2. Cares(w)' = Cares(r)' /\ Sent(w)' = Sent(r)'
    BY DEF Cares, Sent
  <2> QED
    BY <2>1, <2>2
<1>4. BackupsTypes'
  <2>1. act' \in [Actors -> Runs]
    BY <1>2
  <2> QED
    BY <2>1 DEF BackupsInv, BackupsTypes, Bystanders
<1>5. \A b \in Actors : act'[b].task = act[b].task /\ act'[b].seen = act[b].seen
  BY <1>2 DEF SameTask
<1>6. Registry' /\ RunInHand'
  <2>1. Registry'
    BY <1>5, RegistryStays DEF BackupsInv
  <2>2. RunInHand'
    BY <1>5, ActorFacts DEF BackupsInv, RunInHand
  <2> QED
    BY <2>1, <2>2
<1>7. OnTime'
  <2> SUFFICES ASSUME NEW u \in Users, NEW v \in Seconds, local'[<<u, v>>] # "none" PROVE v <= now'
    BY DEF OnTime
  <2>1. CASE u = x
    BY <2>1
  <2>2. CASE u # x
    <3>1. v <= now /\ now <= now' /\ now \in Seconds /\ now' \in Seconds
      BY <2>2 DEF BackupsInv, BackupsTypes, OnTime, Bystanders
    <3> QED
      BY <3>1, ActorFacts DEF Seconds
  <2> QED
    BY <2>1, <2>2
<1>8. \A b \in Actors : Fine(act[b])'
  <2>1. MadeIf(w)'
    BY ActorFacts, <1>1 DEF MadeIf, FitsTask
  <2>2. FreshIf(w)'
    <3> SUFFICES ASSUME w.task.kind = "schedule", ~w.failed, NEW u \in Cares(r) \ (w.left \cup mixed'), u # w.user
                 PROVE  Fresh(w, u)'
      BY <1>3 DEF FreshIf
    <3>1. CASE u = x
      BY <1>1, <3>1
    <3>2. CASE u # x
      <4>1. u \in Users /\ u \notin r.left /\ u \notin mixed /\ u # r.user
        BY <1>1, <3>2, ActorFacts DEF Bystanders
      <4>2. Fresh(r, u)
        BY <1>1, <4>1 DEF FreshIf
      <4>3. Fresh(r, u)'
        <5>1. Sent(r)' = Sent(r)
          BY CaresStays
        <5> QED
          BY <3>2, <4>1, <4>2, <5>1, FreshStays DEF Bystanders
      <4> QED
        BY <4>3 DEF Fresh, Sent
    <3> QED
      BY <3>1, <3>2
  <2>3. Fine(w)'
    BY <2>1, <2>2 DEF Fine
  <2>4. \A b \in Actors : \A v : v = act'[b] => Fine(v)'
    BY <1>2, <2>3
  <2> QED
    BY <2>4
<1>9. Separate'
  <2>1. ASSUME NEW b \in Actors, NEW c \in Actors, b # c, NEW q, q = act'[b],
               NEW u, u = act'[c].user, u \in Users \ mixed'
        PROVE  Clear(q, u)'
    <3>1. CASE c = a
      <4>1. u = x /\ b # a /\ Clear(act[b], x)
        BY <2>1, <3>1, ActorFacts DEF Bystanders
      <4> QED
        BY <1>2, <2>1, <4>1
    <3>2. CASE c # a
      <4>1. act[c].user = u /\ u \in Users \ mixed
        BY <1>2, <2>1, <3>2 DEF SameTask, Bystanders
      <4>2. Clear(act[b], u)
        BY <2>1, <4>1 DEF BackupsInv, Separate
      <4>3. u # x
        BY <2>1, <3>2, <4>1 DEF Bystanders
      <4>4. CASE b # a
        BY <1>2, <2>1, <4>2, <4>4
      <4>5. CASE b = a
        <5>1. Clear(w, u)'
          BY <1>3, <4>1, <4>2, <4>3, <4>5, ActorFacts DEF Clear
        <5> QED
          BY <2>1, <4>5, <5>1
      <4> QED
        BY <4>4, <4>5
    <3> QED
      BY <3>1, <3>2
  <2>2. \A b, c \in Actors : b # c /\ act'[c].user \in Users \ mixed' =>
          \A q, u : q = act'[b] /\ u = act'[c].user => Clear(q, u)'
    BY <2>1
  <2> QED
    BY <2>2 DEF Separate
<1> QED
  BY <1>4, <1>6, <1>7, <1>8, <1>9 DEF BackupsInv

-----------------------------------------------------------------------------
(* The steps that touch no file: each run is the one it was, or it has yet to *)
(* begin an archive.                                                          *)

Blank(w) == w.user = Nobody /\ w.pc \in {"idle", "next"} /\ w.left = Cares(w)
Handed(b) ==
    \/ /\ act'[b] = act[b]
       /\ act[b].task.kind \in Manual => job'[act[b].task.of].user = job[act[b].task.of].user
    \/ \A w : w = act'[b] => w \in Runs /\ FitsTask(w)' /\ Blank(w)'

LEMMA NewRuns ==
  ASSUME BackupsInv, UNCHANGED <<now, plan, local, remote, mixed>>, \A b \in Actors : Handed(b)
  PROVE  /\ OnTime' /\ Separate' /\ \A b \in Actors : Fine(act[b])'
         /\ \A b \in Actors : act'[b] \in Runs
<1> DEFINE B == {b \in Actors : act'[b] = act[b] /\
                   (act[b].task.kind \in Manual => job'[act[b].task.of].user = job[act[b].task.of].user)}
<1>1. Bystanders(B, Nobody)
  BY ActorFacts DEF Bystanders, Turned, BackupsInv, BackupsTypes, Seconds
<1>2. ASSUME NEW b \in B, NEW w, w = act'[b]
      PROVE  w \in Runs /\ w.user = act[b].user /\ Fine(w)' /\ \A u : Clear(w, u)' <=> Clear(act[b], u)
  BY <1>1, <1>2, Bystander DEF SameTask
<1>3. ASSUME NEW b \in Actors \ B, NEW w, w = act'[b]
      PROVE  w \in Runs /\ w.user = Nobody /\ Fine(w)' /\ \A u : Clear(w, u)'
  <2>1. w \in Runs /\ FitsTask(w)' /\ Blank(w)'
    BY <1>3 DEF Handed
  <2>2. MadeIf(w)'
    BY <2>1 DEF Blank, MadeIf, AtArchive, Stages
  <2>3. FreshIf(w)'
    BY <2>1 DEF Blank, FreshIf
  <2>4. \A u : Clear(w, u)'
    BY <2>1 DEF Blank, Clear
  <2> QED
    BY <2>1, <2>2, <2>3, <2>4 DEF Fine, Blank
<1>4. OnTime'
  BY DEF OnTime, BackupsInv
<1>5. \A b \in Actors : Fine(act[b])' /\ act'[b] \in Runs
  <2>1. \A b \in Actors : \A w : w = act'[b] => Fine(w)' /\ w \in Runs
    BY <1>2, <1>3
  <2> QED
    BY <2>1
<1>6. Separate'
  <2>1. ASSUME NEW b \in Actors, NEW c \in Actors, b # c, NEW w, w = act'[b],
               NEW u, u = act'[c].user, u \in Users \ mixed'
        PROVE  Clear(w, u)'
    <3>1. u = act[c].user
      BY <1>2, <1>3, <2>1, ActorFacts
    <3>2. Clear(act[b], u)
      BY <2>1, <3>1 DEF BackupsInv, Separate
    <3> QED
      BY <1>2, <1>3, <2>1, <3>2
  <2>2. \A b, c \in Actors : b # c /\ act'[c].user \in Users \ mixed' =>
          \A w, u : w = act'[b] /\ u = act'[c].user => Clear(w, u)'
    BY <2>1
  <2> QED
    BY <2>2 DEF Separate
<1> QED
  BY <1>4, <1>5, <1>6

LEMMA KeepsAll ==
  ASSUME UNCHANGED <<local, remote>>
  PROVE  Keeps
<1>1. \A u : HasWhole(u) => HasWhole(u)'
  BY DEF HasWhole, KeptHere, StoredAt
<1> QED
  BY <1>1 DEF Keeps

LEMMA Handing ==
  ASSUME BackupsInv, UNCHANGED <<now, plan, local, remote, mixed>>, \A b \in Actors : Handed(b),
         act' = [b \in Actors |-> act'[b]], events' \in 0..MaxEvents, restarts' \in Nat /\ unended' \subseteq Schedules,
         status' \in [Schedules -> Says], queue' \in Seq(Tasks), job' \in [Jobs -> JobRows],
         timer' \in TimerRows,
         Registry', RunInHand'
  PROVE  BackupsInv' /\ Keeps
<1>1. OnTime' /\ Separate' /\ (\A b \in Actors : Fine(act[b])') /\ \A b \in Actors : act'[b] \in Runs
  BY NewRuns
<1>2. BackupsTypes'
  <2>1. act' \in [Actors -> Runs]
    BY <1>1
  <2> QED
    BY <2>1 DEF BackupsInv, BackupsTypes
<1>3. Keeps
  BY KeepsAll
<1> QED
  BY <1>1, <1>2, <1>3 DEF BackupsInv

\* A run that has yet to begin.
LEMMA BlankStays ==
  ASSUME BackupsInv, UNCHANGED <<now, plan>>, NEW w \in Runs, FitsTask(w), Blank(w),
         w.task.kind \in Manual => job'[w.task.of].user = job[w.task.of].user
  PROVE  FitsTask(w)' /\ Blank(w)'
<1>1. Cares(w)' = Cares(w) /\ Sent(w)' = Sent(w)
  BY CaresStays
<1>2. FitsTask(w)'
  BY <1>1, FitsStays, ActorFacts DEF BackupsInv, BackupsTypes, Seconds
<1> QED
  BY <1>1, <1>2 DEF Blank

LEMMA RestingBlank ==
  ASSUME BackupsInv
  PROVE  Resting \in Runs /\ FitsTask(Resting) /\ Blank(Resting) /\ Resting.task.kind \notin Manual \cup {"schedule"}
BY RestingFacts DEF Blank, BackupsInv, BackupsTypes, Manual

LEMMA RunningBlank ==
  ASSUME BackupsInv, NEW s \in Schedules, NEW said \in Says, NEW w, w = Running(s, said)
  PROVE  /\ w \in Runs /\ FitsTask(w) /\ Blank(w)
         /\ w.task.kind = "schedule" /\ w.task.of = s /\ w.seen = said
<1>1. [kind |-> "schedule", of |-> s] \in Tasks
  BY DEF Tasks
<1>2. plan[s].users \subseteq Users /\ now \in 0..MaxNow
  BY PlanFacts, ActorFacts DEF BackupsInv, BackupsTypes, Seconds
<1>3. w \in Runs
  BY <1>1, <1>2, RestingFacts DEF Running, Runs, Stages
<1>4. /\ w.pc = "next" /\ w.task = [kind |-> "schedule", of |-> s] /\ w.user = Nobody /\ w.since = now
      /\ w.left = plan[s].users /\ w.seen = said /\ w.task.kind = "schedule" /\ w.task.of = s
  BY DEF Running, Resting
<1>5. Cares(w) = w.left
  <2>1. Cares(w) = plan[w.task.of].users
    BY <1>4 DEF Cares, Manual
  <2> QED
    BY <1>4, <2>1
<1>6. FitsTask(w)
  <2>1. w # Resting
    BY <1>4, RestingFacts
  <2> QED
    BY <1>2, <1>4, <1>5, <2>1 DEF FitsTask, AtArchive, Manual
<1> QED
  BY <1>3, <1>4, <1>5, <1>6 DEF Blank

LEMMA HandedSame ==
  ASSUME NEW b, act' = act, act[b].task.kind \in Manual => job'[act[b].task.of].user = job[act[b].task.of].user
  PROVE  Handed(b)
BY DEF Handed

\* A task that joins the queue.
LEMMA QueueFacts ==
  ASSUME queue \in Seq(Tasks), NEW t \in Tasks, queue' = Append(queue, t)
  PROVE  /\ queue' \in Seq(Tasks) /\ DOMAIN queue \subseteq DOMAIN queue'
         /\ \A i \in DOMAIN queue : queue'[i] = queue[i]
         /\ \A i \in DOMAIN queue' : i \in DOMAIN queue \/ (i = Len(queue) + 1 /\ queue'[i] = t)
         /\ Len(queue) + 1 \in DOMAIN queue' /\ queue'[Len(queue) + 1] = t
OBVIOUS

LEMMA RunNowInv ==
  ASSUME BackupsInv, NEW s \in Schedules, RunNow(s)
  PROVE  BackupsInv' /\ Keeps
<1> USE DEF RunNow
<1>1. PICK t : t = [kind |-> "schedule", of |-> s]
  OBVIOUS
<1>2. t \in Tasks /\ t.kind = "schedule" /\ t.of = s /\ queue' = Append(queue, t) /\ queue \in Seq(Tasks)
  BY <1>1 DEF Tasks, Submit, BackupsInv, BackupsTypes
<1>3. \A b \in Actors : Handed(b)
  BY HandedSame
<1>4. Registry'
  BY <1>2, QueueFacts DEF BackupsInv, Registry, Manual
<1>5. RunInHand'
  <2>1. ASSUME NEW z \in Schedules \ unended', status'[z] = "running", restarts' = 0
        PROVE  \/ \E i \in DOMAIN queue' : queue'[i].kind = "schedule" /\ queue'[i].of = z
               \/ \E w \in Workers : act[w].task.kind = "schedule" /\ act[w].task.of = z /\ act[w].seen = "running"
    <3>1. CASE z = s
      BY <1>2, <3>1, QueueFacts
    <3>2. CASE z # s
      <4>1. status[z] = "running"
        BY <2>1, <3>2 DEF BackupsInv, BackupsTypes
      <4> QED
        BY <1>2, <2>1, <4>1, QueueFacts DEF BackupsInv, RunInHand
    <3> QED
      BY <3>1, <3>2
  <2> QED
    BY <2>1 DEF RunInHand
<1>6. /\ events' \in 0..MaxEvents /\ restarts' \in Nat /\ unended' \subseteq Schedules /\ status' \in [Schedules -> Says]
      /\ queue' \in Seq(Tasks) /\ job' \in [Jobs -> JobRows] /\ act' = [b \in Actors |-> act'[b]]
      /\ timer' \in TimerRows
  BY <1>2, ActorFacts DEF BackupsInv, BackupsTypes, Says
<1> QED
  BY <1>3, <1>4, <1>5, <1>6, Handing

LEMMA DeleteScheduleInv ==
  ASSUME BackupsInv, NEW s \in Schedules, DeleteSchedule(s)
  PROVE  BackupsInv' /\ Keeps
<1> USE DEF DeleteSchedule
<1>1. \A b \in Actors : Handed(b)
  BY HandedSame
<1>2. Registry' /\ RunInHand'
  BY DEF BackupsInv, BackupsTypes, Registry, RunInHand
<1>3. /\ events' \in 0..MaxEvents /\ restarts' \in Nat /\ unended' \subseteq Schedules /\ status' \in [Schedules -> Says]
      /\ queue' \in Seq(Tasks) /\ job' \in [Jobs -> JobRows] /\ act' = [b \in Actors |-> act'[b]]
      /\ timer' \in TimerRows
  BY ActorFacts DEF BackupsInv, BackupsTypes, Says
<1> QED
  BY <1>1, <1>2, <1>3, Handing

LEMMA RememberFacts ==
  ASSUME NEW j \in Jobs, NEW u \in Users, job \in [Jobs -> JobRows], Remember(j, u)
  PROVE  /\ job' \in [Jobs -> JobRows] /\ job'[j].status = "queued" /\ job'[j].user = u
         /\ \A i \in Jobs \ {j} : job[i].status \in InFlight => job'[i] = job[i]
<1> DEFINE kept == {i \in Jobs : i # j /\ job[i].status \notin {"none", "gone"}}
           ended == {i \in kept : job[i].status \notin InFlight}
           dropped == {i \in ended : Cardinality({k \in ended : k < i}) < Cardinality(kept) + 1 - JobLimit}
<1>1. job' = [i \in Jobs |-> IF i = j THEN [status |-> "queued", user |-> u]
                             ELSE IF i \in dropped THEN [NoJob EXCEPT !.status = "gone"] ELSE job[i]]
  BY DEF Remember
<1>2. \A i \in Jobs : job[i].status \in InFlight => i \notin dropped
  OBVIOUS
<1>3. [NoJob EXCEPT !.status = "gone"] \in JobRows /\ [status |-> "queued", user |-> u] \in JobRows
  BY DEF NoJob, JobRows
<1> HIDE DEF dropped
<1> QED
  BY <1>1, <1>2, <1>3

LEMMA AskBackupInv ==
  ASSUME BackupsInv, NEW j \in Jobs, NEW u \in Users, NEW kind \in {"backup", "upload"}, AskBackup(j, u, kind)
  PROVE  BackupsInv' /\ Keeps
<1> USE DEF AskBackup
<1>1. PICK t : t = [kind |-> kind, of |-> j]
  OBVIOUS
<1>2. t \in Tasks /\ t.kind \in Manual /\ t.of = j /\ queue' = Append(queue, t) /\ queue \in Seq(Tasks)
  BY <1>1 DEF Tasks, Submit, BackupsInv, BackupsTypes, Manual
<1>3. /\ job' \in [Jobs -> JobRows] /\ job'[j].status = "queued" /\ job'[j].user = u
      /\ \A i \in Jobs \ {j} : job[i].status \in InFlight => job'[i] = job[i]
  BY RememberFacts DEF BackupsInv, BackupsTypes
<1>4. job[j].status = "none"
  BY DEF NextJob
<1>5. /\ \A i \in DOMAIN queue : queue[i].kind \in Manual =>
            queue[i].of # j /\ job'[queue[i].of] = job[queue[i].of]
      /\ \A a \in Actors : act[a].task.kind \in Manual =>
            act[a].task.of # j /\ job'[act[a].task.of] = job[act[a].task.of]
  <2>1. \A a \in Actors : act[a].task.kind \in Manual => act[a].task.of \in Jobs
    BY DEF BackupsInv, Fine, FitsTask
  <2> QED
    BY <1>3, <1>4, <2>1 DEF BackupsInv, Registry, InFlight
<1>6. \A b \in Actors : Handed(b)
  BY <1>5, HandedSame
<1>7. Registry'
  BY <1>2, <1>3, <1>5, QueueFacts DEF BackupsInv, Registry, Manual
<1>8. RunInHand'
  BY <1>2, QueueFacts DEF BackupsInv, RunInHand
<1>9. /\ events' \in 0..MaxEvents /\ restarts' \in Nat /\ unended' \subseteq Schedules /\ status' \in [Schedules -> Says]
      /\ queue' \in Seq(Tasks) /\ act' = [b \in Actors |-> act'[b]]
      /\ timer' \in TimerRows
  BY <1>2, ActorFacts DEF BackupsInv, BackupsTypes, Says
<1> QED
  BY <1>3, <1>6, <1>7, <1>8, <1>9, Handing

-----------------------------------------------------------------------------
(* The timer.                                                               *)

LEMMA TimerFacts ==
  ASSUME timer \in TimerRows, NEW s \in Schedules
  PROVE  /\ NoTimer \in TimerRows
         /\ [timer EXCEPT !.left = @ \ {s}] \in TimerRows
         /\ [NoTimer EXCEPT !.left = timer.left, !.fresh = TRUE] \in TimerRows
         /\ timer.loaded[s] \in Says
<1>1. NoTimer \in TimerRows
  BY DEF NoTimer, TimerRows, Says
<1> QED
  BY <1>1 DEF TimerRows

LEMMA TimerStartInv ==
  ASSUME BackupsInv, TimerStart
  PROVE  BackupsInv' /\ Keeps
<1> USE DEF TimerStart
<1>1. \A b \in Actors : Handed(b)
  BY HandedSame
<1>2. Registry' /\ RunInHand'
  BY DEF BackupsInv, Registry, RunInHand
<1>3. /\ events' \in 0..MaxEvents /\ restarts' \in Nat /\ unended' \subseteq Schedules /\ status' \in [Schedules -> Says]
      /\ queue' \in Seq(Tasks) /\ job' \in [Jobs -> JobRows] /\ act' = [b \in Actors |-> act'[b]]
      /\ timer' \in TimerRows
  BY ActorFacts DEF BackupsInv, BackupsTypes, TimerRows
<1> QED
  BY <1>1, <1>2, <1>3, Handing

LEMMA TimerWaitsInv ==
  ASSUME BackupsInv, NEW s \in Schedules, TimerBreaks(s) \/ TimerSkips(s)
  PROVE  BackupsInv' /\ Keeps
<1> USE DEF TimerBreaks, TimerSkips
<1>1. \A b \in Actors : Handed(b)
  BY HandedSame
<1>2. Registry' /\ RunInHand'
  BY DEF BackupsInv, Registry, RunInHand
<1>3. timer' \in TimerRows
  BY TimerFacts DEF BackupsInv, BackupsTypes
<1>4. /\ events' \in 0..MaxEvents /\ restarts' \in Nat /\ unended' \subseteq Schedules /\ status' \in [Schedules -> Says]
      /\ queue' \in Seq(Tasks) /\ job' \in [Jobs -> JobRows] /\ act' = [b \in Actors |-> act'[b]]
  BY DEF BackupsInv, BackupsTypes
<1> QED
  BY <1>1, <1>2, <1>3, <1>4, Handing

\* An idle actor has no task.
LEMMA RestingActor ==
  ASSUME BackupsInv, NEW a \in Actors, act[a].pc = "idle"
  PROVE  act[a] = Resting /\ act[a].task.kind = "none"
BY Doing, RestingFacts DEF FitsTask

LEMMA TimerTakesInv ==
  ASSUME BackupsInv, NEW s \in Schedules, TimerTakes(s)
  PROVE  BackupsInv' /\ Keeps
<1> USE DEF TimerTakes
<1>1. PICK w : w = Running(s, IF timer.fresh THEN status[s] ELSE timer.loaded[s])
  OBVIOUS
<1>2. w \in Runs /\ FitsTask(w) /\ Blank(w) /\ w.task.kind = "schedule"
  <2>1. (IF timer.fresh THEN status[s] ELSE timer.loaded[s]) \in Says
    BY TimerFacts DEF BackupsInv, BackupsTypes
  <2> QED
    BY <1>1, <2>1, RunningBlank
<1>3. act' = [act EXCEPT ![Timer] = w] /\ act \in [Actors -> Runs]
  BY <1>1 DEF BackupsInv, BackupsTypes
<1>4. \A b \in Actors : Handed(b)
  <2>1. FitsTask(w)' /\ Blank(w)'
    BY <1>2, BlankStays DEF Manual
  <2> QED
    BY <1>2, <1>3, <2>1 DEF Handed
<1>5. Registry'
  <2>1. \A b \in Actors : act'[b].task.kind \in Manual => b # Timer /\ act'[b] = act[b]
    BY <1>2, <1>3, ActorFacts DEF Manual
  <2> HIDE DEF TimerTakes
  <2>2. UNCHANGED <<queue, job>>
    BY DEF TimerTakes
  <2> QED
    BY <2>1, <2>2 DEF BackupsInv, Registry
<1>6. RunInHand'
  BY <1>3, ActorFacts DEF BackupsInv, RunInHand
<1>7. timer' \in TimerRows
  BY TimerFacts DEF BackupsInv, BackupsTypes
<1>8. /\ events' \in 0..MaxEvents /\ restarts' \in Nat /\ unended' \subseteq Schedules /\ status' \in [Schedules -> Says]
      /\ queue' \in Seq(Tasks) /\ job' \in [Jobs -> JobRows] /\ act' = [b \in Actors |-> act'[b]]
  BY <1>3 DEF BackupsInv, BackupsTypes
<1> QED
  BY <1>4, <1>5, <1>6, <1>7, <1>8, Handing

LEMMA TimerDiesInv ==
  ASSUME BackupsInv, TimerDies
  PROVE  BackupsInv' /\ Keeps
<1> USE DEF TimerDies
<1>1. act' = [act EXCEPT ![Timer] = Resting] /\ act \in [Actors -> Runs]
  BY DEF BackupsInv, BackupsTypes
<1>2. Resting \in Runs /\ FitsTask(Resting) /\ Blank(Resting) /\ Resting.task.kind \notin Manual \cup {"schedule"}
  BY RestingBlank
<1>3. \A b \in Actors : Handed(b)
  <2>1. FitsTask(Resting)' /\ Blank(Resting)'
    BY <1>2, BlankStays
  <2> QED
    BY <1>1, <1>2, <2>1 DEF Handed
<1>4. Registry'
  BY <1>1, <1>2, ActorFacts DEF BackupsInv, Registry
<1>5. RunInHand'
  BY <1>1, ActorFacts DEF BackupsInv, RunInHand
<1>6. timer' \in TimerRows
  BY DEF NoTimer, TimerRows, Says
<1>7. events' \in 0..MaxEvents /\ restarts' \in Nat /\ unended' \subseteq Schedules
  BY ActorFacts DEF BackupsInv, BackupsTypes
<1>8. /\ status' \in [Schedules -> Says] /\ queue' \in Seq(Tasks) /\ job' \in [Jobs -> JobRows]
      /\ act' = [b \in Actors |-> act'[b]]
  BY <1>1 DEF BackupsInv, BackupsTypes
<1> QED
  BY <1>3, <1>4, <1>5, <1>6, <1>7, <1>8, Handing

-----------------------------------------------------------------------------
(* How runs and jobs begin and end.                                         *)

LEMMA SetJobFacts ==
  ASSUME job \in [Jobs -> JobRows], NEW j \in Jobs, NEW st \in {"running", "done", "error"}, job' = SetJob(j, st)
  PROVE  /\ job' \in [Jobs -> JobRows] /\ \A i \in Jobs : job'[i].user = job[i].user
         /\ \A i \in Jobs \ {j} : job'[i] = job[i]
         /\ job[j].status \in InFlight => job'[j].status = st
<1>1. CASE job[j].status \in {"none", "gone"}
  BY <1>1 DEF SetJob, InFlight
<1>2. CASE job[j].status \notin {"none", "gone"}
  <2>1. job' = [job EXCEPT ![j].status = st]
    BY <1>2 DEF SetJob
  <2> QED
    BY <2>1 DEF JobRows
<1> QED
  BY <1>1, <1>2

\* The job of a run of a manual task.
LEMMA JobOf ==
  ASSUME BackupsInv, NEW a \in Actors, act[a].task.kind \in Manual
  PROVE  /\ a \in Workers /\ act[a].task.of \in Jobs /\ job[act[a].task.of].status = "running"
         /\ \A b \in Actors \ {a} : act[b].task.kind \in Manual => act[b].task.of \in Jobs \ {act[a].task.of}
         /\ \A i \in DOMAIN queue : queue[i].kind \in Manual => queue[i].of \in Jobs \ {act[a].task.of}
<1>1. \A b \in Actors : act[b].task.kind \in Manual => act[b].task.of \in Jobs
  BY DEF BackupsInv, Fine, FitsTask
<1> QED
  BY <1>1 DEF BackupsInv, Registry

LEMMA EndJobInv ==
  ASSUME BackupsInv, NEW a \in Actors, NEW st \in {"done", "error"}, EndJob(a, st), act[a].task.kind \in Manual
  PROVE  BackupsInv' /\ Keeps
<1> USE DEF EndJob
<1>1. act' = [act EXCEPT ![a] = Resting] /\ act \in [Actors -> Runs]
  BY DEF BackupsInv, BackupsTypes
<1>2. Resting \in Runs /\ FitsTask(Resting) /\ Blank(Resting) /\ Resting.task.kind \notin Manual \cup {"schedule"}
  BY RestingBlank
<1>3. PICK j : j = act[a].task.of
  OBVIOUS
<1>4. /\ a \in Workers /\ j \in Jobs
      /\ \A b \in Actors \ {a} : act[b].task.kind \in Manual => act[b].task.of \in Jobs \ {j}
      /\ \A i \in DOMAIN queue : queue[i].kind \in Manual => queue[i].of \in Jobs \ {j}
  BY <1>3, JobOf
<1>5. job' \in [Jobs -> JobRows] /\ \A i \in Jobs \ {j} : job'[i] = job[i]
  BY <1>3, <1>4, SetJobFacts DEF BackupsInv, BackupsTypes
<1>6. \A b \in Actors : Handed(b)
  <2>1. FitsTask(Resting)' /\ Blank(Resting)'
    BY <1>2, BlankStays
  <2>2. Handed(a)
    BY <1>1, <1>2, <2>1 DEF Handed
  <2>3. \A b \in Actors \ {a} : Handed(b)
    BY <1>1, <1>4, <1>5 DEF Handed
  <2> QED
    BY <2>2, <2>3
<1>7. Registry'
  <2>1. /\ act'[a].task.kind \notin Manual /\ queue' = queue
        /\ \A b \in Actors \ {a} : act'[b] = act[b]
    BY <1>1, <1>2
  <2>2. /\ \A i \in DOMAIN queue : queue[i].kind # "none"
        /\ \A i \in DOMAIN queue : queue[i].kind = "schedule" => queue[i].of \in Schedules
        /\ \A i, k \in DOMAIN queue : i # k /\ queue[i].kind \in Manual /\ queue[k].kind \in Manual =>
              queue[i].of # queue[k].of
    BY DEF BackupsInv, Registry
  <2>3. \A i \in DOMAIN queue : queue[i].kind \in Manual =>
           queue[i].of \in Jobs /\ job'[queue[i].of].status = "queued" /\ job'[queue[i].of].user \in Users
    BY <1>4, <1>5 DEF BackupsInv, Registry
  <2>4. \A b \in Actors \ {a} : act[b].task.kind \in Manual =>
           b \in Workers /\ job'[act[b].task.of].status = "running" /\ job'[act[b].task.of].user \in Users
    BY <1>4, <1>5 DEF BackupsInv, Registry
  <2>5. \A b, c \in Actors : b # c /\ act[b].task.kind \in Manual /\ act[c].task.kind \in Manual =>
           act[b].task.of # act[c].task.of
    BY DEF BackupsInv, Registry
  <2> QED
    BY <2>1, <2>2, <2>3, <2>4, <2>5 DEF Registry
<1>8. RunInHand'
  BY <1>1, ActorFacts DEF BackupsInv, RunInHand, Manual
<1>9. /\ events' \in 0..MaxEvents /\ restarts' \in Nat /\ unended' \subseteq Schedules /\ status' \in [Schedules -> Says]
      /\ queue' \in Seq(Tasks) /\ act' = [b \in Actors |-> act'[b]]
      /\ timer' \in TimerRows
  BY <1>1 DEF BackupsInv, BackupsTypes
<1> QED
  BY <1>5, <1>6, <1>7, <1>8, <1>9, Handing

LEMMA JobEndsInv ==
  ASSUME BackupsInv, NEW a \in Actors, JobFails(a) \/ JobDone(a)
  PROVE  BackupsInv' /\ Keeps
<1>1. PICK r : r = act[a]
  OBVIOUS
<1>2. r \in Runs /\ FitsTask(r)
  BY <1>1, Doing
<1>3. r.pc # "idle" /\ r.task.kind # "schedule"
  BY <1>1, <1>2 DEF JobFails, JobDone, Scheduled, Step, FitsTask, Manual
<1>4. act[a].task.kind \in Manual
  BY <1>1, <1>2, <1>3, RunFacts DEF FitsTask, Manual
<1>5. EndJob(a, "error") \/ EndJob(a, "done")
  BY DEF JobFails, JobDone
<1> QED
  BY <1>4, <1>5, EndJobInv

\* A run ends, and its actor rests: what it wrote into its schedule's row, if
\* anything, is how it went.
RunOver(a, r, outcome) ==
    /\ act' = [act EXCEPT ![a] = Resting]
    /\ \/ status' = status /\ (unended' = unended \/ (a \in Workers /\ unended' = unended \cup {r.task.of}))
       \/ status' = [status EXCEPT ![r.task.of] = outcome] /\ unended' = unended \ {r.task.of}
    /\ status' = status /\ a \in Workers /\ r.seen = "running" /\ status[r.task.of] = "running" =>
          r.task.of \in unended'
    /\ timer' \in TimerRows
    /\ UNCHANGED <<now, plan, local, remote, queue, job, events, restarts, mixed>>

LEMMA RunOverInv ==
  ASSUME BackupsInv, NEW a \in Actors, NEW r, r = act[a], r.task.kind = "schedule",
         NEW outcome \in {"ok", "error"}, RunOver(a, r, outcome)
  PROVE  BackupsInv' /\ Keeps
<1>1. act' = [act EXCEPT ![a] = Resting] /\ act \in [Actors -> Runs]
      /\ UNCHANGED <<now, plan, local, remote, queue, job, events, restarts, mixed>> /\ timer' \in TimerRows
  BY DEF RunOver, BackupsInv, BackupsTypes
<1>2. Resting \in Runs /\ FitsTask(Resting) /\ Blank(Resting) /\ Resting.task.kind \notin Manual \cup {"schedule"}
  BY RestingBlank
<1>3. r \in Runs /\ FitsTask(r) /\ r.task.of \in Schedules /\ r.seen \in Says
  BY Doing, RunFacts DEF FitsTask
<1>4. \A b \in Actors : Handed(b)
  <2>1. FitsTask(Resting)' /\ Blank(Resting)'
    BY <1>1, <1>2, BlankStays
  <2> QED
    BY <1>1, <1>2, <2>1 DEF Handed
<1>5. Registry'
  BY <1>1, <1>2 DEF BackupsInv, Registry
<1>6. status' \in [Schedules -> Says] /\ unended' \subseteq Schedules
  BY <1>3 DEF RunOver, BackupsInv, BackupsTypes, Says
<1>7. RunInHand'
  <2>1. ASSUME NEW s \in Schedules \ unended', status'[s] = "running", restarts' = 0,
               ~ \E i \in DOMAIN queue' : queue'[i].kind = "schedule" /\ queue'[i].of = s
        PROVE  \E w \in Workers : act'[w].task.kind = "schedule" /\ act'[w].task.of = s /\ act'[w].seen = "running"
    <3>1. s # r.task.of \/ status' = status
      BY <1>3, <2>1 DEF RunOver, BackupsInv, BackupsTypes
    <3>2. status[s] = "running" /\ s \notin unended
      BY <1>3, <2>1, <3>1 DEF RunOver, BackupsInv, BackupsTypes
    <3>3. PICK w \in Workers : act[w].task.kind = "schedule" /\ act[w].task.of = s /\ act[w].seen = "running"
      BY <1>1, <2>1, <3>2 DEF BackupsInv, RunInHand
    <3>4. w # a
      BY <2>1, <3>1, <3>2, <3>3 DEF RunOver
    <3> QED
      BY <1>1, <3>3, <3>4, ActorFacts
  <2> QED
    BY <2>1 DEF RunInHand
<1>8. /\ events' \in 0..MaxEvents /\ restarts' \in Nat /\ unended' \subseteq Schedules /\ job' \in [Jobs -> JobRows]
      /\ queue' \in Seq(Tasks) /\ act' = [b \in Actors |-> act'[b]]
  BY <1>1, <1>6 DEF BackupsInv, BackupsTypes
<1> QED
  BY <1>1, <1>4, <1>5, <1>6, <1>7, <1>8, Handing

LEMMA EndRunInv ==
  ASSUME BackupsInv, NEW a \in Actors, EndRun(a)
  PROVE  BackupsInv' /\ Keeps
<1>1. PICK r : r = act[a]
  OBVIOUS
<1>2. r \in Runs /\ r.task.kind = "schedule" /\ r.task.of \in Schedules /\ status \in [Schedules -> Says]
  BY <1>1, Doing DEF EndRun, Scheduled, FitsTask, BackupsInv, BackupsTypes
<1>3. PICK outcome \in {"ok", "error"} :
        /\ status' = IF status[r.task.of] = "deleted" \/ outcome = r.seen THEN status
                     ELSE [status EXCEPT ![r.task.of] = outcome]
        /\ unended' = IF status' = status THEN unended ELSE unended \ {r.task.of}
  BY <1>1 DEF EndRun
<1>4. timer' \in TimerRows
  BY <1>2, TimerFacts DEF EndRun, BackupsInv, BackupsTypes
<1>5. status' = status /\ r.seen = "running" => status[r.task.of] # "running"
  BY <1>2, <1>3
<1>6. RunOver(a, r, outcome)
  BY <1>3, <1>4, <1>5 DEF EndRun, RunOver
<1> QED
  BY <1>1, <1>2, <1>6, RunOverInv

\* Nothing is written, or "error" by a thread.
LEMMA EndRefusedInv ==
  ASSUME BackupsInv, NEW a \in Actors, EndRefused(a)
  PROVE  BackupsInv' /\ Keeps
<1>1. PICK r : r = act[a]
  OBVIOUS
<1>2. r.task.kind = "schedule" /\ r.task.of \in Schedules /\ status \in [Schedules -> Says]
  BY <1>1, Doing DEF EndRefused, Scheduled, FitsTask, BackupsInv, BackupsTypes
<1>3. timer' \in TimerRows
  <2>1. timer' \in {timer, NoTimer}
    BY DEF EndRefused
  <2> QED
    BY <1>2, <2>1, TimerFacts DEF BackupsInv, BackupsTypes
<1>4. \/ a \in Workers /\ status' = status /\ unended' = unended \cup {r.task.of}
      \/ a \notin Workers /\ status' = status /\ unended' = unended
      \/ status' = [status EXCEPT ![r.task.of] = "error"] /\ unended' = unended \ {r.task.of}
  BY <1>1, ActorFacts DEF EndRefused
<1>5. status' = status /\ a \in Workers /\ status[r.task.of] = "running" => r.task.of \in unended'
  BY <1>2, <1>4
<1>6. RunOver(a, r, "error")
  BY <1>3, <1>4, <1>5 DEF EndRefused, RunOver
<1> QED
  BY <1>1, <1>2, <1>6, RunOverInv

LEMMA HeadFacts ==
  ASSUME queue \in Seq(Tasks), queue # <<>>, queue' = Tail(queue)
  PROVE  /\ 1 \in DOMAIN queue /\ Head(queue) = queue[1] /\ Head(queue) \in Tasks /\ queue' \in Seq(Tasks)
         /\ \A i \in DOMAIN queue' : i + 1 \in DOMAIN queue /\ i + 1 # 1 /\ queue'[i] = queue[i + 1]
         /\ \A i \in DOMAIN queue : i # 1 => i - 1 \in DOMAIN queue' /\ queue'[i - 1] = queue[i]
<1>1. Len(queue) \in Nat /\ Len(queue) >= 1 /\ DOMAIN queue = 1..Len(queue)
  OBVIOUS
<1>2. /\ queue' \in Seq(Tasks) /\ DOMAIN queue' = 1..(Len(queue) - 1)
      /\ \A i \in 1..(Len(queue) - 1) : queue'[i] = queue[i + 1]
  BY <1>1
<1>3. 1 \in DOMAIN queue /\ Head(queue) = queue[1] /\ Head(queue) \in Tasks
  BY <1>1
<1>4. \A i \in DOMAIN queue' : i + 1 \in DOMAIN queue /\ i + 1 # 1 /\ queue'[i] = queue[i + 1]
  BY <1>1, <1>2
<1>5. ASSUME NEW i \in DOMAIN queue, i # 1 PROVE i - 1 \in DOMAIN queue' /\ queue'[i - 1] = queue[i]
  <2>1. i - 1 \in 1..(Len(queue) - 1) /\ (i - 1) + 1 = i
    BY <1>1, <1>5
  <2> QED
    BY <1>2, <2>1
<1> QED
  BY <1>2, <1>3, <1>4, <1>5

\* What a thread takes a task as.
Taken(task) ==
    IF task.kind # "schedule"
    THEN [Resting EXCEPT !.pc = "next", !.task = task, !.since = now, !.left = {job[task.of].user}]
    ELSE IF status[task.of] = "deleted" THEN Resting ELSE Running(task.of, status[task.of])

LEMMA TakenFacts ==
  ASSUME BackupsInv, NEW i \in DOMAIN queue, NEW t \in Tasks, t = queue[i], NEW r, r = Taken(t)
  PROVE  /\ r \in Runs /\ FitsTask(r) /\ Blank(r)
         /\ t.kind \in Manual => r.task = t
         /\ t.kind = "schedule" /\ status[t.of] # "deleted" =>
              r.task.kind = "schedule" /\ r.task.of = t.of /\ r.seen = status[t.of]
         /\ t.kind = "schedule" => r.task.kind \notin Manual
<1>1. \/ t.kind = "schedule" /\ t.of \in Schedules
      \/ t.kind \in Manual /\ t.of \in Jobs /\ job[t.of].user \in Users
  <2>1. t.kind # "none" /\ t.kind \in {"none", "schedule"} \cup Manual
    BY DEF BackupsInv, Registry, Tasks
  <2>2. t.kind = "schedule" => t.of \in Schedules
    BY DEF BackupsInv, Registry
  <2>3. t.kind \in Manual => t.of \in Jobs /\ job[t.of].user \in Users
    BY DEF BackupsInv, Registry
  <2> QED
    BY <2>1, <2>2, <2>3 DEF Manual
<1>2. CASE t.kind = "schedule" /\ status[t.of] = "deleted"
  BY <1>2, RestingBlank DEF Taken, Manual
<1>3. CASE t.kind = "schedule" /\ status[t.of] # "deleted"
  <2>1. status[t.of] \in Says /\ r = Running(t.of, status[t.of])
    BY <1>1, <1>3 DEF Taken, BackupsInv, BackupsTypes, Manual
  <2> QED
    BY <1>1, <1>3, <2>1, RunningBlank DEF Manual
<1>4. CASE t.kind \in Manual
  <2>1. r = [Resting EXCEPT !.pc = "next", !.task = t, !.since = now, !.left = {job[t.of].user}]
    BY <1>4 DEF Taken, Manual
  <2>2. now \in 0..MaxNow
    BY ActorFacts DEF BackupsInv, BackupsTypes, Seconds
  <2>3. r \in Runs
    <3>1. job[t.of].user \in Users
      BY <1>1, <1>4 DEF Manual
    <3>2. {job[t.of].user} \in SUBSET Users
      BY <3>1
    <3> HIDE DEF Taken
    <3> QED
      BY <2>1, <2>2, <3>2, RestingFacts DEF Runs, Stages
  <2>4. /\ r.pc = "next" /\ r.task = t /\ r.user = Nobody /\ r.since = now /\ r.left = {job[t.of].user}
    BY <2>1 DEF Resting
  <2>5. Cares(r) = r.left
    BY <1>4, <2>4 DEF Cares, Manual
  <2>6. FitsTask(r)
    <3>1. r # Resting
      BY <2>4, RestingFacts
    <3> QED
      BY <1>1, <1>4, <2>2, <2>4, <2>5, <3>1 DEF FitsTask, AtArchive, Manual
  <2> QED
    BY <1>4, <2>3, <2>4, <2>5, <2>6 DEF Blank, Manual
<1> QED
  BY <1>1, <1>2, <1>3, <1>4

LEMMA TakeInv ==
  ASSUME BackupsInv, NEW w \in Workers, Take(w)
  PROVE  BackupsInv' /\ Keeps
<1> USE DEF Take
<1>1. PICK t : t = Head(queue)
  OBVIOUS
<1>2. PICK r : r = Taken(t)
  OBVIOUS
<1>3. act' = [act EXCEPT ![w] = r] /\ act \in [Actors -> Runs] /\ w \in Actors /\ act[w].task.kind = "none"
  BY <1>1, <1>2, RestingActor, ActorFacts DEF Taken, BackupsInv, BackupsTypes
<1>4. job' = IF t.kind = "schedule" THEN job ELSE SetJob(t.of, "running")
  BY <1>1
<1> HIDE DEF Take
<1>5. /\ 1 \in DOMAIN queue /\ t = queue[1] /\ t \in Tasks /\ queue' \in Seq(Tasks)
      /\ \A i \in DOMAIN queue' : i + 1 \in DOMAIN queue /\ i + 1 # 1 /\ queue'[i] = queue[i + 1]
      /\ \A i \in DOMAIN queue : i # 1 => i - 1 \in DOMAIN queue' /\ queue'[i - 1] = queue[i]
  BY <1>1, HeadFacts DEF Take, BackupsInv, BackupsTypes
<1>6. /\ r \in Runs /\ FitsTask(r) /\ Blank(r)
      /\ t.kind \in Manual => r.task = t
      /\ t.kind = "schedule" /\ status[t.of] # "deleted" =>
           r.task.kind = "schedule" /\ r.task.of = t.of /\ r.seen = status[t.of]
      /\ t.kind = "schedule" => r.task.kind \notin Manual
  BY <1>2, <1>5, TakenFacts
<1>7. t.kind = "schedule" \/ (t.kind \in Manual /\ t.of \in Jobs /\ job[t.of].status = "queued" /\ job[t.of].user \in Users)
  BY <1>5 DEF BackupsInv, Registry, Tasks, Manual
<1>8. /\ job' \in [Jobs -> JobRows] /\ \A i \in Jobs : job'[i].user = job[i].user
      /\ \A i \in Jobs : job'[i] = job[i] \/ (i = t.of /\ t.kind \in Manual /\ job'[i].status = "running")
  <2>1. CASE t.kind = "schedule"
    BY <1>4, <2>1 DEF BackupsInv, BackupsTypes
  <2>2. CASE t.kind \in Manual
    BY <1>4, <1>7, <2>2, SetJobFacts DEF BackupsInv, BackupsTypes, Manual, InFlight
  <2> QED
    BY <1>7, <2>1, <2>2
<1>9. \A b \in Actors : act[b].task.kind \in Manual => act[b].task.of \in Jobs /\ job[act[b].task.of].status = "running"
  BY JobOf
<1>10. \A b \in Actors : Handed(b)
  <2>1. FitsTask(r)' /\ Blank(r)'
    BY <1>6, <1>7, <1>8, BlankStays, RunFacts DEF Take, FitsTask
  <2>2. Handed(w)
    BY <1>3, <1>6, <2>1 DEF Handed
  <2>3. \A b \in Actors \ {w} : Handed(b)
    BY <1>3, <1>8, <1>9 DEF Handed
  <2> QED
    BY <2>2, <2>3
<1>11. Registry'
  <2>1. \A i \in DOMAIN queue' : /\ queue'[i].kind # "none" /\ (queue'[i].kind = "schedule" => queue'[i].of \in Schedules)
                                 /\ queue'[i].kind \in Manual => /\ queue'[i].of \in Jobs
                                                                 /\ ~(t.kind \in Manual /\ queue'[i].of = t.of)
                                                                 /\ job[queue'[i].of].status = "queued"
                                                                 /\ job[queue'[i].of].user \in Users
    BY <1>5 DEF BackupsInv, Registry
  <2>2. \A i, k \in DOMAIN queue' : i # k /\ queue'[i].kind \in Manual /\ queue'[k].kind \in Manual =>
          queue'[i].of # queue'[k].of
    <3>1. \A i, k \in DOMAIN queue' : i # k => i + 1 # k + 1
      BY <1>5
    <3> QED
      BY <1>5, <3>1 DEF BackupsInv, Registry
  <2>3. \A b \in Actors \ {w} : act'[b] = act[b] /\ (act[b].task.kind \in Manual =>
           /\ b \in Workers /\ job'[act[b].task.of] = job[act[b].task.of] /\ ~(t.kind \in Manual /\ act[b].task.of = t.of)
           /\ job[act[b].task.of].status = "running" /\ job[act[b].task.of].user \in Users)
    <3>1. ASSUME NEW b \in Actors \ {w}, act[b].task.kind \in Manual
          PROVE  /\ b \in Workers /\ job'[act[b].task.of] = job[act[b].task.of] /\ ~(t.kind \in Manual /\ act[b].task.of = t.of)
                 /\ job[act[b].task.of].status = "running" /\ job[act[b].task.of].user \in Users
      <4>1. PICK j : j = act[b].task.of
        OBVIOUS
      <4>2. b \in Workers /\ j \in Jobs /\ job[j].status = "running" /\ job[j].user \in Users
        BY <1>9, <3>1, <4>1 DEF BackupsInv, Registry
      <4>3. ~(t.kind \in Manual /\ j = t.of)
        BY <1>7, <4>2 DEF Manual
      <4> QED
        BY <1>8, <4>1, <4>2, <4>3
    <3> QED
      BY <1>3, <3>1
  <2>4. act'[w] = r /\ (r.task.kind \in Manual =>
           /\ t.kind \in Manual /\ r.task.of = t.of /\ job'[t.of].status = "running" /\ job'[t.of].user \in Users)
    <3>1. r.task.kind \in Manual => t.kind \in Manual /\ r.task.of = t.of
      BY <1>6, <1>7
    <3>2. t.kind \in Manual => job'[t.of].status = "running"
      BY <1>4, <1>7, SetJobFacts DEF BackupsInv, BackupsTypes, Manual, InFlight
    <3> QED
      <4>1. act'[w] = r
        BY <1>3
      <4>2. t.kind \in Manual => job'[t.of].user \in Users
        BY <1>7, <1>8 DEF Manual
      <4> QED
        BY <3>1, <3>2, <4>1, <4>2
  <2>5. \A i \in DOMAIN queue' : queue'[i].kind \in Manual => job'[queue'[i].of] = job[queue'[i].of]
    BY <1>8, <2>1
  <2>6. \A b, c \in Actors : b # c /\ act'[b].task.kind \in Manual /\ act'[c].task.kind \in Manual =>
          act'[b].task.of # act'[c].task.of
    <3>1. ASSUME NEW b \in Actors, NEW c \in Actors, b # c, act'[b].task.kind \in Manual, act'[c].task.kind \in Manual,
                 act'[b].task.of = act'[c].task.of
          PROVE  FALSE
      <4>1. CASE b = w
        <5>1. act'[c] = act[c] /\ r.task.kind \in Manual /\ r.task.of = act[c].task.of
          BY <2>3, <2>4, <3>1, <4>1
        <5> QED
          BY <2>3, <2>4, <3>1, <4>1, <5>1
      <4>2. CASE c = w
        <5>1. act'[b] = act[b] /\ r.task.kind \in Manual /\ r.task.of = act[b].task.of
          BY <2>3, <2>4, <3>1, <4>2
        <5> QED
          BY <2>3, <2>4, <3>1, <4>2, <5>1
      <4>3. CASE b # w /\ c # w
        <5>1. act[b].task.kind \in Manual /\ act[c].task.kind \in Manual /\ act[b].task.of = act[c].task.of
          BY <2>3, <3>1, <4>3
        <5> QED
          BY <3>1, <5>1 DEF BackupsInv, Registry
      <4> QED
        BY <4>1, <4>2, <4>3
    <3> QED
      BY <3>1
  <2>7. \A b \in Actors : act'[b].task.kind \in Manual =>
          b \in Workers /\ job'[act'[b].task.of].status = "running" /\ job'[act'[b].task.of].user \in Users
    <3>1. \A b \in Actors \ {w} : act'[b].task.kind \in Manual =>
            b \in Workers /\ job'[act'[b].task.of].status = "running" /\ job'[act'[b].task.of].user \in Users
      BY <2>3
    <3>2. act'[w].task.kind \in Manual =>
            job'[act'[w].task.of].status = "running" /\ job'[act'[w].task.of].user \in Users
      BY <2>4
    <3> QED
      BY <3>1, <3>2
  <2>8. \A i \in DOMAIN queue' : queue'[i].kind \in Manual =>
          queue'[i].of \in Jobs /\ job'[queue'[i].of].status = "queued" /\ job'[queue'[i].of].user \in Users
    BY <2>1, <2>5
  <2> QED
    BY <2>1, <2>2, <2>6, <2>7, <2>8 DEF Registry
<1>12. RunInHand'
  <2>1. ASSUME NEW s \in Schedules \ unended, status[s] = "running", restarts = 0,
               ~ \E i \in DOMAIN queue' : queue'[i].kind = "schedule" /\ queue'[i].of = s
        PROVE  \E v \in Workers : act'[v].task.kind = "schedule" /\ act'[v].task.of = s /\ act'[v].seen = "running"
    <3>1. CASE \E i \in DOMAIN queue : queue[i].kind = "schedule" /\ queue[i].of = s
      <4>1. t.kind = "schedule" /\ t.of = s
        BY <1>5, <2>1, <3>1
      <4> QED
        BY <1>3, <1>6, <2>1, <4>1
    <3>2. CASE \E v \in Workers : act[v].task.kind = "schedule" /\ act[v].task.of = s /\ act[v].seen = "running"
      <4>1. PICK v \in Workers : act[v].task.kind = "schedule" /\ act[v].task.of = s /\ act[v].seen = "running"
        BY <3>2
      <4>2. v # w /\ v \in Actors
        BY <1>3, <4>1, ActorFacts
      <4> QED
        BY <1>3, <4>1, <4>2
    <3> QED
      BY <2>1, <3>1, <3>2 DEF BackupsInv, RunInHand
  <2> QED
    BY <2>1 DEF Take, RunInHand
<1>13. /\ events' \in 0..MaxEvents /\ restarts' \in Nat /\ unended' \subseteq Schedules /\ status' \in [Schedules -> Says]
       /\ act' = [b \in Actors |-> act'[b]]
       /\ timer' \in TimerRows
  BY <1>3 DEF Take, BackupsInv, BackupsTypes
<1> QED
  BY <1>5, <1>8, <1>10, <1>11, <1>12, <1>13, Handing DEF Take

LEMMA RestartInv ==
  ASSUME BackupsInv, Restart
  PROVE  BackupsInv' /\ Keeps
<1> USE DEF Restart
<1>1. Resting \in Runs /\ FitsTask(Resting) /\ Blank(Resting) /\ Resting.task.kind \notin Manual \cup {"schedule"}
  BY RestingBlank
<1>2. act' = [a \in Actors |-> IF a \in Workers THEN Resting ELSE act[a]] /\ act \in [Actors -> Runs]
  BY DEF BackupsInv, BackupsTypes
<1>3. \A b \in Actors : act'[b].task.kind \notin Manual
  BY <1>1, <1>2, JobOf
<1>4. \A b \in Actors : Handed(b)
  <2>1. FitsTask(Resting)' /\ Blank(Resting)'
    BY <1>1, BlankStays
  <2>2. \A b \in Workers : Handed(b)
    BY <1>1, <1>2, <2>1, ActorFacts DEF Handed
  <2>3. Handed(Timer)
    BY <1>2, <1>3, ActorFacts DEF Handed
  <2> QED
    BY <2>2, <2>3, ActorFacts
<1>5. queue' = <<>> /\ DOMAIN queue' = {} /\ queue' \in Seq(Tasks)
  OBVIOUS
<1>6. Registry'
  BY <1>3, <1>5 DEF Registry
<1>7. restarts' \in Nat /\ unended' \subseteq Schedules /\ restarts' # 0 /\ events' \in 0..MaxEvents
  BY ActorFacts DEF BackupsInv, BackupsTypes
<1>8. RunInHand'
  BY <1>7 DEF RunInHand
<1>9. job' \in [Jobs -> JobRows]
  BY DEF NoJob, JobRows
<1>10. /\ status' \in [Schedules -> Says] /\ act' = [b \in Actors |-> act'[b]]
       /\ timer' \in TimerRows
  BY <1>2 DEF BackupsInv, BackupsTypes
<1> QED
  BY <1>4, <1>5, <1>6, <1>7, <1>8, <1>9, <1>10, Handing

-----------------------------------------------------------------------------
(* The steps at one archive.                                                *)

LEMMA DayFacts ==
  ASSUME NEW t \in Nat, NEW n \in Nat, t <= n, NEW d \in Nat \ {0}
  PROVE  t \div d \in 0..(n \div d)
<1>1. PICK p, q \in Int : p = t \div d /\ q = n \div d
  OBVIOUS
<1>2. t \in Int /\ n \in Int /\ d \in Int /\ d > 0
  OBVIOUS
<1>3. d * p <= t /\ t < d * p + d /\ d * q <= n /\ n < d * q + d
  BY <1>1, <1>2
<1>4. p >= 0
  <2>1. ~ (p <= -1)
    <3> SUFFICES ASSUME p <= -1 PROVE FALSE
      OBVIOUS
    <3>1. d * p <= d * (-1)
      BY <1>1, <1>2
    <3> QED
      BY <1>1, <1>2, <1>3, <3>1
  <2> QED
    BY <1>1, <2>1
<1>5. p <= q
  <2> SUFFICES ASSUME p >= q + 1 PROVE FALSE
    BY <1>1
  <2>1. d * p >= d * (q + 1) /\ d * (q + 1) = d * q + d
    BY <1>1, <1>2
  <2> QED
    BY <1>1, <1>2, <1>3, <2>1
<1> QED
  BY <1>1, <1>4, <1>5

LEMMA PlaceFacts ==
  ASSUME BackupsInv, NEW a \in Actors, NEW r, r = act[a], r.pc = "made", NEW p, p = Place(a)
  PROVE  p \in Places /\ p.dest = Sent(r)
<1>1. /\ r \in Runs /\ FitsTask(r) /\ Sent(r) \in {"sftp", "s3"} /\ r.at \in Seconds
  BY Doing DEF FitsTask, AtArchive, Stages
<1>2. CASE r.task.kind # "schedule"
  <2>1. Sent(r) = "sftp"
    BY <1>1, <1>2 DEF Sent
  <2>2. p = [dest |-> "sftp", name |-> "stamp", of |-> r.at]
    BY <1>2 DEF Place, Scheduled
  <2> QED
    BY <1>1, <2>1, <2>2 DEF Places
<1>3. CASE r.task.kind = "schedule"
  <2>1. PICK f : f = plan[r.task.of].suffix
    OBVIOUS
  <2>2. f \in {"none", "full_date"}
    BY <1>1, <1>3, <2>1, PlanFacts DEF FitsTask, BackupsInv, BackupsTypes
  <2>3. p = [dest |-> Sent(r), name |-> f, of |-> IF f = "none" THEN 0 ELSE Day(now)]
    BY <1>3, <2>1, SameRun DEF Place, Scheduled, PlanOf
  <2>4. Day(now) \in 0..Day(MaxNow)
    <3>1. now \in Nat /\ now <= MaxNow
      BY ActorFacts DEF BackupsInv, BackupsTypes, Seconds
    <3> QED
      BY <3>1, ActorFacts, DayFacts DEF Day
  <2>5. p.dest = Sent(r)
    BY <2>3
  <2>6. CASE f = "none"
    <3>1. p \in [dest : {"sftp", "s3"}, name : {"none"}, of : {0}]
      BY <1>1, <2>3, <2>6
    <3> QED
      BY <2>5, <3>1 DEF Places
  <2>7. CASE f = "full_date"
    <3>1. p \in [dest : {"sftp", "s3"}, name : {"full_date"}, of : 0..Day(MaxNow)]
      BY <1>1, <2>3, <2>4, <2>7
    <3> QED
      BY <2>5, <3>1 DEF Places
  <2> QED
    BY <2>2, <2>6, <2>7
<1> QED
  BY <1>2, <1>3

\* No other run is at an account whose archives are made one at a time.
LEMMA Alone ==
  ASSUME BackupsInv, NEW a \in Actors, NEW r, r = act[a], r.user \in Users \ mixed
  PROVE  \A b \in Actors \ {a} : act[b].user # r.user /\ Clear(act[b], r.user)
<1>1. FitsTask(r) /\ r.pc \in AtArchive /\ r.user \in Cares(r) \ r.left
  BY Doing, ActorFacts DEF FitsTask
<1>2. ASSUME NEW b \in Actors \ {a}, act[b].user = r.user PROVE FALSE
  <2>1. Clear(r, r.user)
    BY <1>2 DEF BackupsInv, Separate
  <2> QED
    BY <1>1, <2>1 DEF Clear
<1> QED
  BY <1>2, Doing

\* A run's step at the archive it is at.
OwnStep(a, r, w) ==
    /\ UNCHANGED <<now, plan, status, timer, queue, job, events, restarts, unended, mixed>>
    /\ act' = [b \in Actors |-> act'[b]] /\ act'[a] = w
    /\ \A b \in Actors \ {a} : Turned(act'[b], act[b]) /\ (act[b].user # r.user => act'[b] = act[b])
    /\ local' \in [Users \X Seconds -> {"none", "part", "torn", "whole"}]
    /\ remote' \in [Users \X Places -> Results]
    /\ \A u \in Users \ {r.user}, v \in Seconds : local'[<<u, v>>] = local[<<u, v>>]
    /\ \A u \in Users \ {r.user}, p \in Places : remote'[<<u, p>>] = remote[<<u, p>>]
    /\ w.task = r.task /\ w.since = r.since /\ w.seen = r.seen /\ w.left = r.left /\ (r.failed => w.failed)
    /\ w.user \in {r.user, Nobody}

LEMMA OwnStepInv ==
  ASSUME BackupsInv, NEW a \in Actors, NEW r, r = act[a], NEW w \in Runs, OwnStep(a, r, w),
         r.pc \in AtArchive, FitsTask(w),
         \A v \in Seconds : local'[<<r.user, v>>] # "none" => local[<<r.user, v>>] # "none" \/ v <= now,
         r.user \notin mixed /\ w.pc \in AtArchive => Made(w)',
         r.user \notin mixed /\ w.user # r.user /\ ~w.failed /\ w.task.kind = "schedule" => Fresh(w, r.user)',
         r.user \notin mixed /\ HasWhole(r.user) => HasWhole(r.user)'
  PROVE  BackupsInv' /\ Keeps
<1>1. r \in Runs /\ FitsTask(r) /\ r.user \in Users
  BY Doing DEF FitsTask
<1>2. Bystanders(Actors \ {a}, r.user)
  <2>1. r.user \notin mixed => \A b \in Actors \ {a} : act[b].user # r.user /\ Clear(act[b], r.user)
    BY <1>1, Alone
  <2> QED
    BY <2>1, ActorFacts DEF Bystanders, OwnStep, BackupsInv, BackupsTypes, Seconds
<1>3. FitsTask(w)'
  <2>1. Cares(w)' = Cares(w) /\ Sent(w)' = Sent(w)
    BY CaresStays DEF OwnStep
  <2> QED
    BY <2>1, FitsStays, ActorFacts DEF OwnStep, BackupsInv, BackupsTypes, Seconds
<1>4. \A v \in Seconds : local'[<<r.user, v>>] # "none" => v <= now'
  BY <1>1 DEF OwnStep, BackupsInv, OnTime
<1>5. mixed' = mixed /\ mixed' \subseteq Users
  BY DEF OwnStep, BackupsInv, BackupsTypes
<1>6. BackupsInv'
  BY <1>1, <1>2, <1>3, <1>4, <1>5, RunStep DEF OwnStep
<1>7. Keeps
  BY <1>5, KeepsOthers DEF OwnStep
<1> QED
  BY <1>6, <1>7

\* A file of an account changes.
LEMMA LocalFacts ==
  ASSUME BackupsInv, NEW u \in Users, NEW t \in Seconds, NEW st \in {"none", "part", "torn", "whole"},
         local' = [local EXCEPT ![<<u, t>>] = st]
  PROVE  /\ local' \in [Users \X Seconds -> {"none", "part", "torn", "whole"}] /\ local'[<<u, t>>] = st
         /\ \A z \in Users \ {u}, v \in Seconds : local'[<<z, v>>] = local[<<z, v>>]
         /\ \A v \in Seconds \ {t} : local'[<<u, v>>] = local[<<u, v>>]
BY DEF BackupsInv, BackupsTypes

LEMMA RemoteFacts ==
  ASSUME BackupsInv, NEW u \in Users, NEW p \in Places, NEW g \in Results,
         remote' = [remote EXCEPT ![<<u, p>>] = g]
  PROVE  /\ remote' \in [Users \X Places -> Results] /\ remote'[<<u, p>>] = g
         /\ \A z \in Users \ {u}, q \in Places : remote'[<<z, q>>] = remote[<<z, q>>]
BY DEF BackupsInv, BackupsTypes

\* A run that goes on to another stage of its archive.
LEMMA StageFits ==
  ASSUME NEW r \in Runs, FitsTask(r), r.pc \in AtArchive, NEW w \in Runs, w.pc \in AtArchive,
         w.task = r.task, w.user = r.user, w.at = r.at, w.since = r.since, w.left = r.left,
         w.pc = "prune" => r.task.kind = "schedule", w.pc = "told" => r.task.kind \in Manual,
         w.pc \in {"made", "put", "stored"} => Sent(r) # "none",
         w.pc = "put" => w.place \in Places /\ w.place.dest = Sent(r)
  PROVE  FitsTask(w)
<1>1. Cares(w) = Cares(r) /\ Sent(w) = Sent(r)
  BY DEF Cares, Sent
<1>2. w.pc # "idle" /\ w # Resting /\ r.pc # "idle" /\ w.pc \notin {"idle", "next"}
  BY RestingFacts DEF AtArchive
<1> QED
  BY <1>1, <1>2 DEF FitsTask

LEMMA CloseArchiveInv ==
  ASSUME BackupsInv, NEW a \in Actors, CloseArchive(a)
  PROVE  BackupsInv' /\ Keeps
<1> USE DEF CloseArchive
<1>1. PICK r : r = act[a]
  OBVIOUS
<1>2. /\ r \in Runs /\ FitsTask(r) /\ MadeIf(r) /\ r.pc \in {"write", "orphan"} /\ r.pc \in AtArchive
      /\ r.user \in Users /\ r.at \in Seconds /\ r.at <= now /\ r.task.kind # "none" /\ Sent(r) \in {"none", "sftp", "s3"}
  BY <1>1, Doing DEF AtArchive, Stages, FitsTask
<1>3. PICK pc : pc = IF Sent(r) # "none" THEN "made" ELSE IF r.task.kind = "schedule" THEN "prune" ELSE "told"
  OBVIOUS
<1>4. PICK w : w = [r EXCEPT !.pc = pc]
  OBVIOUS
<1>5. w \in Runs /\ w.pc = pc /\ SameTask(w, r) /\ pc \in AtArchive
  BY <1>2, <1>3, <1>4 DEF Runs, Stages, AtArchive, SameTask
<1>6. act' = [act EXCEPT ![a] = w] /\ act \in [Actors -> Runs]
  BY <1>1, <1>3, <1>4, SameRun DEF BackupsInv, BackupsTypes
<1>7. FitsTask(w)
  BY <1>2, <1>3, <1>5, StageFits, RunFacts DEF SameTask, Manual
<1>8. PICK st \in {"none", "part", "torn", "whole"} : /\ local' = [local EXCEPT ![<<r.user, r.at>>] = st]
                                                      /\ local[<<r.user, r.at>>] = "whole" => st = "whole"
                                                      /\ r.pc = "write" /\ local[<<r.user, r.at>>] = "part" => st = "whole"
                                                      /\ local[<<r.user, r.at>>] = "none" => st = "none"
  <2>1. PICK f \in {"none", "part", "torn", "whole"} : f = local[<<r.user, r.at>>]
    BY <1>2 DEF BackupsInv, BackupsTypes
  <2>2. Mine(a) = <<r.user, r.at>>
    BY <1>1, SameRun
  <2>3. CASE r.pc = "write" /\ f = "part"
    BY <1>1, <2>1, <2>2, <2>3
  <2>4. CASE ~(r.pc = "write" /\ f = "part")
    <3>1. local' = [local EXCEPT ![<<r.user, r.at>>] = f]
      BY <1>1, <1>2, <2>1, <2>2, <2>4 DEF BackupsInv, BackupsTypes
    <3> QED
      BY <2>1, <2>4, <3>1
  <2> QED
    BY <2>3, <2>4
<1>9. /\ local' \in [Users \X Seconds -> {"none", "part", "torn", "whole"}] /\ local'[<<r.user, r.at>>] = st
      /\ \A z \in Users \ {r.user}, v \in Seconds : local'[<<z, v>>] = local[<<z, v>>]
      /\ \A v \in Seconds \ {r.at} : local'[<<r.user, v>>] = local[<<r.user, v>>]
  BY <1>2, <1>8, LocalFacts
<1>10. OwnStep(a, r, w)
  BY <1>1, <1>5, <1>6, <1>9 DEF OwnStep, Turned, SameTask, BackupsInv, BackupsTypes
<1>11. \A v \in Seconds : local'[<<r.user, v>>] # "none" => local[<<r.user, v>>] # "none" \/ v <= now
  BY <1>2, <1>9
<1>12. ASSUME r.user \notin mixed PROVE Made(w)'
  <2>1. Made(r)
    BY <1>2, <1>12 DEF MadeIf
  <2>2. r.pc = "write" /\ local[<<r.user, r.at>>] = "part" /\ st = "whole" /\ local'[<<r.user, r.at>>] = "whole"
    BY <1>2, <1>8, <1>9, <2>1 DEF Made
  <2>3. \A v \in Seconds : local'[<<r.user, v>>] # "none" => v <= r.at
    BY <1>2, <1>9, <2>1, ActorFacts DEF Made, Seconds
  <2>4. Sent(w)' = Sent(r)
    BY <1>5, CaresStays DEF SameTask, Sent
  <2> QED
    BY <1>3, <1>5, <2>2, <2>3, <2>4 DEF Made, SameTask
<1>13. HasWhole(r.user) => HasWhole(r.user)'
  <2>1. KeptHere(r.user, 1) => KeptHere(r.user, 1)'
    BY <1>8, <1>9 DEF KeptHere
  <2>2. \A d : StoredAt(r.user, d, 1) => StoredAt(r.user, d, 1)'
    BY DEF StoredAt
  <2> QED
    BY <2>1, <2>2 DEF HasWhole
<1>14. w.user = r.user
  BY <1>5 DEF SameTask
<1> QED
  BY <1>1, <1>2, <1>5, <1>7, <1>10, <1>11, <1>12, <1>13, <1>14, OwnStepInv

\* A whole archive on this disk, or at its destination.
LEMMA WholeStays ==
  ASSUME NEW u, NEW t \in Seconds, local'[<<u, t>>] = "whole"
  PROVE  HasWhole(u)'
<1>1. t >= 1
  BY DEF Seconds
<1> QED
  BY <1>1 DEF HasWhole, KeptHere

LEMMA ArrivedThen ==
  ASSUME NEW w, NEW p \in Places, p.dest = Sent(w)', remote'[<<w.user, p>>] = w.at
  PROVE  Arrived(w)'
BY DEF Arrived

LEMMA ReadiedFacts ==
  ASSUME NEW a \in Actors, NEW r, r = act[a], r.at \in Seconds
  PROVE  Readied(a) \in Results /\ (local[<<r.user, r.at>>] = "whole" => Readied(a) = r.at)
BY SameRun DEF Readied, Results

LEMMA PutBeginsInv ==
  ASSUME BackupsInv, NEW a \in Actors, PutBegins(a)
  PROVE  BackupsInv' /\ Keeps
<1> USE DEF PutBegins
<1>1. PICK r, p : r = act[a] /\ p = Place(a)
  OBVIOUS
<1>2. /\ r \in Runs /\ FitsTask(r) /\ MadeIf(r) /\ r.pc = "made" /\ r.pc \in AtArchive
      /\ r.user \in Users /\ r.at \in Seconds /\ r.at <= now
  BY <1>1, Doing DEF AtArchive, Stages, FitsTask
<1>3. p \in Places /\ p.dest = Sent(r) /\ Sent(r) # "none"
  BY <1>1, <1>2, PlaceFacts DEF FitsTask
<1>4. PICK others \in SUBSET (Actors \ {a}) :
        others = {b \in Actors \ {a} : act[b].pc = "put" /\ act[b].user = r.user /\ act[b].place = p}
  OBVIOUS
<1>5. PICK got \in Results : got = IF others = {} THEN Readied(a) ELSE Torn
  BY <1>1, <1>2, ReadiedFacts DEF Results
<1>6. PICK w : w = [r EXCEPT !.pc = "put", !.place = p, !.got = got]
  OBVIOUS
<1>7. /\ w \in Runs /\ w.pc = "put" /\ w.place = p /\ w.got = got /\ w.task = r.task /\ w.user = r.user /\ w.at = r.at
      /\ w.since = r.since /\ w.left = r.left /\ w.failed = r.failed /\ w.seen = r.seen /\ w.pc \in AtArchive
  BY <1>2, <1>3, <1>6 DEF Runs, Stages, AtArchive
<1>8. act' = [b \in Actors |-> IF b = a THEN w
                               ELSE IF b \in others THEN [act[b] EXCEPT !.got = Torn] ELSE act[b]]
  BY <1>1, <1>4, <1>5, <1>6
<1>9. FitsTask(w)
  BY <1>2, <1>3, <1>7, StageFits
<1>10. /\ remote' \in [Users \X Places -> Results]
       /\ \A z \in Users \ {r.user}, q \in Places : remote'[<<z, q>>] = remote[<<z, q>>]
  <2>1. remote' = [remote EXCEPT ![<<r.user, p>>] = Torn] /\ Torn \in Results
    BY <1>1 DEF Results
  <2>2. r.user \in Users /\ p \in Places
    BY <1>2, <1>3
  <2> HIDE DEF PutBegins
  <2> QED
    BY <2>1, <2>2, RemoteFacts
<1>11. OwnStep(a, r, w)
  <2>1. \A b \in Actors \ {a} : Turned(act'[b], act[b]) /\ (act[b].user # r.user => act'[b] = act[b])
    BY <1>4, <1>8 DEF Turned
  <2>2. act'[a] = w /\ act' = [b \in Actors |-> act'[b]]
    BY <1>8
  <2> QED
    BY <1>7, <1>10, <2>1, <2>2 DEF OwnStep, BackupsInv, BackupsTypes
<1>12. ASSUME r.user \notin mixed PROVE Made(w)' /\ HasWhole(r.user)'
  <2>1. Made(r) /\ local[<<r.user, r.at>>] = "whole"
    BY <1>2, <1>12 DEF MadeIf, Made
  <2>2. others = {}
    BY <1>1, <1>2, <1>4, <1>12, Alone
  <2>3. got = r.at
    BY <1>1, <1>2, <1>5, <2>1, <2>2, ReadiedFacts
  <2>4. Made(w)'
    BY <1>7, <2>1, <2>3 DEF Made
  <2>5. local'[<<r.user, r.at>>] = "whole"
    BY <2>1
  <2> QED
    BY <1>2, <2>4, <2>5, WholeStays
<1> QED
  BY <1>1, <1>2, <1>7, <1>9, <1>11, <1>12, OwnStepInv

LEMMA PutEndsInv ==
  ASSUME BackupsInv, NEW a \in Actors, PutEnds(a)
  PROVE  BackupsInv' /\ Keeps
<1> USE DEF PutEnds
<1>1. PICK r : r = act[a]
  OBVIOUS
<1>2. /\ r \in Runs /\ FitsTask(r) /\ MadeIf(r) /\ r.pc = "put" /\ r.pc \in AtArchive /\ r.got \in Results
      /\ r.user \in Users /\ r.at \in Seconds /\ r.at <= now /\ r.place \in Places /\ r.place.dest = Sent(r) /\ Sent(r) # "none"
  BY <1>1, Doing, RunFacts DEF AtArchive, Stages, FitsTask
<1>3. PICK w : w = [r EXCEPT !.pc = "stored"]
  OBVIOUS
<1>4. w \in Runs /\ w.pc = "stored" /\ SameTask(w, r) /\ w.pc \in AtArchive
  BY <1>2, <1>3 DEF Runs, Stages, AtArchive, SameTask
<1>5. act' = [act EXCEPT ![a] = w] /\ act \in [Actors -> Runs]
  BY <1>1, <1>3 DEF BackupsInv, BackupsTypes
<1>6. FitsTask(w)
  BY <1>2, <1>4, StageFits DEF SameTask
<1>7. /\ remote' \in [Users \X Places -> Results] /\ remote'[<<r.user, r.place>>] = r.got
      /\ \A z \in Users \ {r.user}, q \in Places : remote'[<<z, q>>] = remote[<<z, q>>]
  BY <1>1, <1>2, RemoteFacts
<1>8. OwnStep(a, r, w)
  BY <1>1, <1>4, <1>5, <1>7 DEF OwnStep, Turned, SameTask, BackupsInv, BackupsTypes
<1>9. ASSUME r.user \notin mixed PROVE Made(w)' /\ HasWhole(r.user)'
  <2>1. Made(r) /\ local[<<r.user, r.at>>] = "whole" /\ r.got = r.at
    BY <1>2, <1>9 DEF MadeIf, Made
  <2>2. Sent(w)' = Sent(r)
    BY <1>4, CaresStays DEF SameTask, Sent
  <2>3. Arrived(w)'
    <3>1. w.user = r.user /\ w.at = r.at /\ remote'[<<r.user, r.place>>] = r.at
      BY <1>4, <1>7, <2>1 DEF SameTask
    <3>2. r.place.dest = Sent(w)' /\ remote'[<<w.user, r.place>>] = w.at
      BY <1>2, <2>2, <3>1
    <3> QED
      BY <1>2, <3>2, ArrivedThen
  <2>4. Made(w)'
    BY <1>2, <1>4, <2>1, <2>2, <2>3 DEF Made, SameTask
  <2>5. local'[<<r.user, r.at>>] = "whole"
    BY <2>1
  <2> QED
    BY <1>2, <2>4, <2>5, WholeStays
<1> QED
  BY <1>1, <1>2, <1>4, <1>6, <1>8, <1>9, OwnStepInv DEF SameTask

LEMMA PutObjectInv ==
  ASSUME BackupsInv, NEW a \in Actors, PutObject(a)
  PROVE  BackupsInv' /\ Keeps
<1> USE DEF PutObject
<1>1. PICK r, p : r = act[a] /\ p = Place(a)
  OBVIOUS
<1>2. /\ r \in Runs /\ FitsTask(r) /\ MadeIf(r) /\ r.pc = "made" /\ r.pc \in AtArchive
      /\ r.user \in Users /\ r.at \in Seconds /\ r.at <= now
  BY <1>1, Doing DEF AtArchive, Stages, FitsTask
<1>3. p \in Places /\ p.dest = Sent(r) /\ Sent(r) # "none"
  BY <1>1, <1>2, PlaceFacts DEF FitsTask
<1>4. PICK w : w = [r EXCEPT !.pc = "stored"]
  OBVIOUS
<1>5. w \in Runs /\ w.pc = "stored" /\ SameTask(w, r) /\ w.pc \in AtArchive
  BY <1>2, <1>4 DEF Runs, Stages, AtArchive, SameTask
<1>6. act' = [act EXCEPT ![a] = w] /\ act \in [Actors -> Runs]
  BY <1>1, <1>4 DEF BackupsInv, BackupsTypes
<1>7. FitsTask(w)
  BY <1>2, <1>3, <1>5, StageFits DEF SameTask
<1>8. /\ remote' \in [Users \X Places -> Results] /\ remote'[<<r.user, p>>] = Readied(a)
      /\ \A z \in Users \ {r.user}, q \in Places : remote'[<<z, q>>] = remote[<<z, q>>]
  BY <1>1, <1>2, <1>3, ReadiedFacts, RemoteFacts
<1>9. OwnStep(a, r, w)
  BY <1>1, <1>5, <1>6, <1>8 DEF OwnStep, Turned, SameTask, BackupsInv, BackupsTypes
<1>10. ASSUME r.user \notin mixed PROVE Made(w)' /\ HasWhole(r.user)'
  <2>1. Made(r) /\ local[<<r.user, r.at>>] = "whole" /\ Readied(a) = r.at
    BY <1>1, <1>2, <1>10, ReadiedFacts DEF MadeIf, Made
  <2>2. Sent(w)' = Sent(r)
    BY <1>5, CaresStays DEF SameTask, Sent
  <2>3. Arrived(w)'
    <3>1. w.user = r.user /\ w.at = r.at /\ remote'[<<r.user, p>>] = r.at
      BY <1>5, <1>8, <2>1 DEF SameTask
    <3>2. p.dest = Sent(w)' /\ remote'[<<w.user, p>>] = w.at
      BY <1>3, <2>2, <3>1
    <3> QED
      BY <1>3, <3>2, ArrivedThen
  <2>4. Made(w)'
    BY <1>3, <1>5, <2>1, <2>2, <2>3 DEF Made, SameTask
  <2>5. local'[<<r.user, r.at>>] = "whole"
    BY <2>1
  <2> QED
    BY <1>2, <2>4, <2>5, WholeStays
<1> QED
  BY <1>1, <1>2, <1>5, <1>7, <1>9, <1>10, OwnStepInv DEF SameTask

LEMMA FailsInv ==
  ASSUME BackupsInv, NEW a \in Actors, Fails(a)
  PROVE  BackupsInv' /\ Keeps
<1> USE DEF Fails
<1>1. PICK r : r = act[a]
  OBVIOUS
<1>2. /\ r \in Runs /\ FitsTask(r) /\ r.pc \in AtArchive /\ r.user \in Users /\ r.task.kind = "schedule"
  BY <1>1, Doing DEF AtArchive, Stages, FitsTask, Step, Scheduled
<1>3. PICK w : w = NextAccount(a)
  OBVIOUS
<1>4. /\ w \in Runs /\ w.pc = "next" /\ w.task = r.task /\ w.user = Nobody /\ w.failed
      /\ w.since = r.since /\ w.left = r.left /\ w.seen = r.seen
  <2>1. w = [r EXCEPT !.pc = "next", !.user = Nobody, !.at = 0, !.failed = TRUE, !.place = Nobody, !.got = Nothing]
    BY <1>1, <1>3 DEF NextAccount
  <2>2. 0 \in 0..MaxNow /\ Nothing \in Results /\ "next" \in Stages
    BY ActorFacts DEF Results, Stages
  <2> QED
    BY <1>2, <2>1, <2>2 DEF Runs
<1>5. act' = [act EXCEPT ![a] = w] /\ act \in [Actors -> Runs]
  BY <1>3 DEF BackupsInv, BackupsTypes
<1>6. FitsTask(w)
  <2>1. Cares(w) = Cares(r) /\ w # Resting /\ w.pc \notin AtArchive
    BY <1>4, RestingFacts DEF Cares, AtArchive
  <2> QED
    BY <1>2, <1>4, <2>1 DEF FitsTask, AtArchive
<1>7. OwnStep(a, r, w)
  BY <1>1, <1>4, <1>5 DEF OwnStep, Turned, BackupsInv, BackupsTypes
<1>8. w.pc \notin AtArchive
  BY <1>4 DEF AtArchive
<1>9. HasWhole(r.user) => HasWhole(r.user)'
  BY DEF HasWhole, KeptHere, StoredAt
<1> QED
  BY <1>1, <1>2, <1>4, <1>6, <1>7, <1>8, <1>9, OwnStepInv

LEMMA DumpFailsInv ==
  ASSUME BackupsInv, NEW a \in Actors, NEW u \in Users, DumpFails(a, u)
  PROVE  BackupsInv' /\ Keeps
<1> USE DEF DumpFails
<1>1. PICK r : r = act[a]
  OBVIOUS
<1>2. r \in Runs /\ FitsTask(r) /\ r.pc = "next" /\ r.user = Nobody /\ r.task.kind = "schedule"
  BY <1>1, Doing DEF FitsTask, Scheduled
<1>3. PICK w : w = [NextAccount(a) EXCEPT !.left = @ \ {u}]
  OBVIOUS
<1>4. /\ w \in Runs /\ w.pc = "next" /\ w.task = r.task /\ w.user = Nobody /\ w.failed
      /\ w.since = r.since /\ w.left = r.left \ {u} /\ w.seen = r.seen
  <2>1. w = [r EXCEPT !.pc = "next", !.user = Nobody, !.at = 0, !.failed = TRUE, !.place = Nobody, !.got = Nothing,
                      !.left = r.left \ {u}]
    BY <1>1, <1>2, <1>3 DEF NextAccount, Runs
  <2>2. 0 \in 0..MaxNow /\ Nothing \in Results /\ "next" \in Stages /\ r.left \ {u} \in SUBSET Users
    BY <1>2, RunFacts, ActorFacts DEF Results, Stages
  <2> QED
    BY <1>2, <2>1, <2>2 DEF Runs
<1>5. act' = [act EXCEPT ![a] = w] /\ act \in [Actors -> Runs]
  BY <1>3 DEF BackupsInv, BackupsTypes
<1>6. FitsTask(w)'
  <2>1. Cares(w) = Cares(r) /\ w # Resting /\ w.pc \notin AtArchive
    BY <1>4, RestingFacts DEF Cares, AtArchive
  <2>2. FitsTask(w)
    BY <1>2, <1>4, <2>1 DEF FitsTask, AtArchive
  <2>3. Cares(w)' = Cares(w) /\ Sent(w)' = Sent(w)
    BY CaresStays
  <2> QED
    BY <1>4, <2>2, <2>3, FitsStays, ActorFacts DEF BackupsInv, BackupsTypes, Seconds
<1>7. Bystanders(Actors \ {a}, Nobody)
  BY <1>5, ActorFacts DEF Bystanders, Turned, BackupsInv, BackupsTypes, Seconds
<1>8. w.pc \notin AtArchive /\ Nobody \notin Users
  BY <1>4, ActorFacts DEF AtArchive
<1>9. BackupsInv'
  <2>1. act' = [b \in Actors |-> act'[b]] /\ act'[a] = w
    BY <1>5
  <2>2. /\ mixed' \subseteq Users /\ remote' \in [Users \X Places -> Results]
        /\ local' \in [Users \X Seconds -> {"none", "part", "torn", "whole"}]
    BY DEF BackupsInv, BackupsTypes
  <2>3. UNCHANGED <<plan, status, timer, queue, job, events, restarts, unended>>
    OBVIOUS
  <2>4. w.left \subseteq r.left /\ r.user \in {Nobody} /\ w.user \in {Nobody} /\ (r.failed => w.failed)
    BY <1>2, <1>4
  <2> HIDE DEF DumpFails
  <2> QED
    BY <1>1, <1>4, <1>6, <1>7, <1>8, <2>1, <2>2, <2>3, <2>4, RunStep
<1> QED
  BY <1>9, KeepsAll

\* The account is this run's own, and no archive of that second is there, or it
\* is one that two runs had.
LEMMA OpenArchiveInv ==
  ASSUME BackupsInv, NEW a \in Actors, NEW u \in Users, NEW t \in now..MaxNow, OpenArchive(a, u, t)
  PROVE  BackupsInv' /\ Keeps
<1>1. PICK r : r = act[a]
  OBVIOUS
<1>2. PICK others \in SUBSET (Actors \ {a}) : others = {b \in Actors \ {a} : Mine(b) = <<u, t>>}
  OBVIOUS
<1>3. PICK st \in {"torn", "part"} : st = IF \E b \in others : act[b].pc = "write" THEN "torn" ELSE "part"
  OBVIOUS
<1>4. PICK w : w = [r EXCEPT !.pc = "write", !.user = u, !.at = t, !.left = @ \ {u}]
  OBVIOUS
<1>5. /\ r.pc = "next" /\ u \in r.left /\ now' = t /\ local' = [local EXCEPT ![<<u, t>>] = st]
      /\ act' = [b \in Actors |-> IF b = a THEN w
                                  ELSE IF b \in others /\ act[b].pc = "put" THEN [act[b] EXCEPT !.got = Torn]
                                  ELSE act[b]]
      /\ mixed' = IF local[<<u, t>>] # "none" \/ \E b \in Actors \ {a} : Handles(b, u)
                  THEN mixed \cup {u} ELSE mixed
      /\ UNCHANGED <<plan, status, remote, timer, queue, job, events, restarts, unended>>
  BY <1>1, <1>2, <1>3, <1>4 DEF OpenArchive
<1>6. /\ r \in Runs /\ FitsTask(r) /\ r.user = Nobody /\ r.left \subseteq Cares(r) /\ r.since <= now /\ r.since \in Int
      /\ t \in Seconds /\ t \in Int /\ now \in Int /\ now <= t /\ now \in Seconds
  <2>1. now \in Seconds /\ now \in Int /\ t \in Seconds /\ t \in Int /\ now <= t
    BY ActorFacts DEF BackupsInv, BackupsTypes, Seconds
  <2>2. r \in Runs /\ FitsTask(r)
    BY <1>1, Doing
  <2>3. r.user = Nobody /\ r.left \subseteq Cares(r) /\ r.since <= now
    BY <1>5, <2>2 DEF FitsTask
  <2>4. r.since \in Int
    BY <2>2, RunFacts, ActorFacts
  <2> QED
    BY <2>1, <2>2, <2>3, <2>4
<1>7. /\ w \in Runs /\ w.pc = "write" /\ w.user = u /\ w.at = t /\ w.left = r.left \ {u} /\ w.pc \in AtArchive
      /\ w.task = r.task /\ w.since = r.since /\ w.failed = r.failed /\ w.seen = r.seen
  <2>1. "write" \in Stages /\ t \in 0..MaxNow /\ r.left \ {u} \in SUBSET Users
    BY <1>6, RunFacts, ActorFacts DEF Stages, Seconds
  <2> QED
    BY <1>4, <1>6, <2>1 DEF Runs, AtArchive, Stages
<1>8. FitsTask(w)'
  <2>1. Cares(w) = Cares(r) /\ Sent(w) = Sent(r) /\ w # Resting
    BY <1>7, RestingFacts DEF Cares, Sent
  <2>2. Cares(w)' = Cares(w) /\ Sent(w)' = Sent(w)
    BY <1>5, CaresStays
  <2>3. u \in Cares(r) /\ r.since <= t /\ w.left \subseteq Cares(r) /\ u \notin w.left
    BY <1>5, <1>6, <1>7
  <2>4. r.task.kind # "none"
    BY <1>5, <1>6 DEF FitsTask
  <2> QED
    BY <1>5, <1>6, <1>7, <2>1, <2>2, <2>3, <2>4 DEF FitsTask
<1>9. /\ local' \in [Users \X Seconds -> {"none", "part", "torn", "whole"}] /\ local'[<<u, t>>] = st
      /\ \A z \in Users \ {u}, v \in Seconds : local'[<<z, v>>] = local[<<z, v>>]
      /\ \A v \in Seconds \ {t} : local'[<<u, v>>] = local[<<u, v>>]
  BY <1>5, <1>6, LocalFacts
<1>10. ASSUME NEW b \in Actors \ {a}
       PROVE  /\ Turned(act'[b], act[b]) /\ (act[b].user # u => act'[b] = act[b])
              /\ u \notin mixed' => act[b].user # u /\ u \notin Cares(act[b])
  <2>1. b \in others => act[b].user = u
    BY <1>2, SameRun
  <2>2. Turned(act'[b], act[b]) /\ (act[b].user # u => act'[b] = act[b])
    BY <1>5, <1>10, <2>1 DEF Turned
  <2>3. u \notin mixed' => u \notin Cares(act[b])
    BY <1>5, SameRun
  <2>4. act[b].user = u => u \in Cares(act[b])
    BY Doing, ActorFacts DEF FitsTask
  <2> QED
    BY <2>2, <2>3, <2>4
<1>11. Bystanders(Actors \ {a}, u)
  <2>1. mixed \subseteq mixed' /\ now' \in Seconds /\ now <= now'
    BY <1>5, <1>6
  <2> QED
    BY <1>5, <1>9, <1>10, <2>1 DEF Bystanders, Clear
<1>12. \A v \in Seconds : local'[<<u, v>>] # "none" => v <= t
  BY <1>6, <1>9 DEF BackupsInv, OnTime, Seconds
<1>13. ASSUME u \notin mixed' PROVE Made(w)' /\ local[<<u, t>>] = "none"
  <2>1. local[<<u, t>>] = "none"
    BY <1>5, <1>13
  <2>2. st = "part"
    <3>1. \A b \in others : act[b].user = u
      BY <1>2, SameRun
    <3> QED
      BY <1>3, <1>10, <1>13, <3>1
  <2>3. Made(w)'
    BY <1>7, <1>9, <1>12, <2>2 DEF Made
  <2> QED
    BY <2>1, <2>3
<1>14. BackupsInv'
  <2>1. act' = [b \in Actors |-> act'[b]] /\ act'[a] = w
    BY <1>5
  <2>2. mixed' \subseteq Users /\ remote' \in [Users \X Places -> Results]
    BY <1>5 DEF BackupsInv, BackupsTypes
  <2>3. \A z \in r.left \ w.left : z = u
    BY <1>7
  <2>4. w.left \subseteq r.left /\ r.user \in {u, Nobody} /\ w.user \in {u, Nobody} /\ (r.failed => w.failed)
    BY <1>6, <1>7
  <2>5. UNCHANGED <<plan, status, timer, queue, job, events, restarts, unended>> /\ \A v \in Seconds : local'[<<u, v>>] # "none" => v <= now'
    BY <1>5, <1>12
  <2>6. /\ u \in Users \ mixed' /\ w.pc \in AtArchive => Made(w)'
        /\ u \in Users \ mixed' /\ w.user # u /\ ~w.failed /\ w.task.kind = "schedule" => Fresh(w, u)'
    BY <1>7, <1>13
  <2> QED
    BY <1>1, <1>7, <1>8, <1>9, <1>11, <2>1, <2>2, <2>3, <2>4, <2>5, <2>6, RunStep
<1>15. Keeps
  <2>1. u \in Users \ mixed' /\ HasWhole(u) => HasWhole(u)'
    <3>1. u \notin mixed' => (KeptHere(u, 1) => KeptHere(u, 1)')
      BY <1>9, <1>13 DEF KeptHere
    <3>2. \A d : StoredAt(u, d, 1) => StoredAt(u, d, 1)'
      BY <1>5 DEF StoredAt
    <3> QED
      BY <3>1, <3>2 DEF HasWhole
  <2> QED
    BY <1>5, <1>9, <2>1, KeepsOthers
<1> QED
  BY <1>14, <1>15

\* An archive at a destination.
LEMMA StoredThen ==
  ASSUME NEW u, NEW d \in {"sftp", "s3"}, NEW p \in Places, p.dest = d, NEW t \in Nat,
         NEW g \in Int, g = remote'[<<u, p>>], g >= t
  PROVE  StoredAt(u, d, t)' /\ (t >= 1 => HasWhole(u)')
<1>1. StoredAt(u, d, t)'
  BY DEF StoredAt
<1>2. ASSUME t >= 1 PROVE HasWhole(u)'
  <2>1. g >= 1
    BY <1>2
  <2>2. StoredAt(u, d, 1)'
    BY <2>1 DEF StoredAt
  <2> QED
    BY <2>2 DEF HasWhole
<1> QED
  BY <1>1, <1>2

\* Files leave the disk.
LEMMA WithoutFacts ==
  ASSUME BackupsInv, NEW files \in SUBSET (Users \X Seconds), local' = Without(files)
  PROVE  /\ local' \in [Users \X Seconds -> {"none", "part", "torn", "whole"}]
         /\ \A u \in Users, v \in Seconds :
              local'[<<u, v>>] = IF <<u, v>> \in files THEN "none" ELSE local[<<u, v>>]
<1>1. DOMAIN local = Users \X Seconds
  BY DEF BackupsInv, BackupsTypes
<1> QED
  BY <1>1 DEF Without, BackupsInv, BackupsTypes

LEMMA OrphanedFacts ==
  ASSUME NEW b \in Actors, NEW u \in Users, NEW files \in SUBSET ({u} \X Seconds), NEW w, w = Orphaned(files)[b]
  PROVE  Turned(w, act[b]) /\ (act[b].user # u => w = act[b]) /\ (act[b].pc # "write" => w = act[b])
<1>1. w = IF act[b].pc = "write" /\ Mine(b) \in files THEN [act[b] EXCEPT !.pc = "orphan"] ELSE act[b]
  BY DEF Orphaned
<1>2. Mine(b) \in files => act[b].user = u
  BY DEF Mine
<1> QED
  BY <1>1, <1>2 DEF Turned

LEMMA DiscardInv ==
  ASSUME BackupsInv, NEW a \in Actors, Discard(a)
  PROVE  BackupsInv' /\ Keeps
<1>1. PICK r : r = act[a]
  OBVIOUS
<1>2. /\ r \in Runs /\ FitsTask(r) /\ MadeIf(r) /\ r.pc = "stored" /\ r.pc \in AtArchive /\ r.task.kind # "none"
      /\ r.user \in Users /\ r.at \in Seconds /\ r.at <= now /\ Sent(r) \in {"sftp", "s3"}
  BY <1>1, Doing DEF AtArchive, Stages, FitsTask, Discard
<1>3. PICK files : files = {<<r.user, r.at>>}
  OBVIOUS
<1>4. PICK pc : pc = IF r.task.kind = "schedule" THEN "prune" ELSE "told"
  OBVIOUS
<1>5. PICK w : w = [r EXCEPT !.pc = pc]
  OBVIOUS
<1>6. /\ local' = Without(files) /\ act' = [Orphaned(files) EXCEPT ![a].pc = pc]
      /\ UNCHANGED <<now, plan, status, remote, timer, queue, job, events, restarts, unended, mixed>>
  BY <1>1, <1>3, <1>4, SameRun DEF Discard
<1>7. /\ files \in SUBSET ({r.user} \X Seconds) /\ files \in SUBSET (Users \X Seconds)
      /\ Orphaned(files)[a] = r /\ Orphaned(files) = [b \in Actors |-> Orphaned(files)[b]]
  <2>1. files \in SUBSET ({r.user} \X Seconds) /\ files \in SUBSET (Users \X Seconds)
    BY <1>2, <1>3
  <2> QED
    BY <1>1, <1>2, <2>1 DEF Orphaned
<1>8. w \in Runs /\ w.pc = pc /\ SameTask(w, r) /\ pc \in AtArchive
  BY <1>2, <1>4, <1>5 DEF Runs, Stages, AtArchive, SameTask
<1>9. FitsTask(w)
  BY <1>2, <1>4, <1>8, StageFits, RunFacts DEF SameTask, Manual
<1>10. /\ local' \in [Users \X Seconds -> {"none", "part", "torn", "whole"}]
       /\ \A u \in Users, v \in Seconds : local'[<<u, v>>] = IF <<u, v>> \in files THEN "none" ELSE local[<<u, v>>]
  BY <1>6, <1>7, WithoutFacts
<1>11. OwnStep(a, r, w)
  <2>1. act' = [b \in Actors |-> IF b = a THEN w ELSE Orphaned(files)[b]]
    BY <1>5, <1>6, <1>7
  <2>2. act' = [b \in Actors |-> act'[b]] /\ act'[a] = w /\ \A b \in Actors \ {a} : act'[b] = Orphaned(files)[b]
    BY <2>1
  <2>3. \A b \in Actors \ {a} : Turned(act'[b], act[b]) /\ (act[b].user # r.user => act'[b] = act[b])
    BY <1>2, <1>7, <2>2, OrphanedFacts
  <2>4. \A u \in Users \ {r.user}, v \in Seconds : local'[<<u, v>>] = local[<<u, v>>]
    BY <1>3, <1>10
  <2>5. remote' \in [Users \X Places -> Results] /\ \A u \in Users \ {r.user}, p \in Places : remote'[<<u, p>>] = remote[<<u, p>>]
    BY <1>6 DEF BackupsInv, BackupsTypes
  <2> QED
    BY <1>6, <1>8, <1>10, <2>2, <2>3, <2>4, <2>5 DEF OwnStep, SameTask
<1>12. \A v \in Seconds : local'[<<r.user, v>>] # "none" => local[<<r.user, v>>] # "none"
  BY <1>2, <1>10
<1>13. ASSUME r.user \notin mixed PROVE Made(w)' /\ HasWhole(r.user)'
  <2>1. Made(r) /\ Arrived(r)
    BY <1>2, <1>13 DEF MadeIf, Made
  <2>2. Sent(w)' = Sent(r)
    BY <1>6, <1>8, CaresStays DEF SameTask, Sent
  <2>3. PICK p \in Places : p.dest = Sent(r) /\ remote[<<r.user, p>>] = r.at
    BY <2>1 DEF Arrived
  <2>4. Arrived(w)'
    <3>1. p.dest = Sent(w)' /\ remote'[<<w.user, p>>] = w.at
      BY <1>6, <1>8, <2>2, <2>3 DEF SameTask
    <3> QED
      BY <3>1, ArrivedThen
  <2>5. Made(w)'
    BY <1>2, <1>4, <1>8, <1>12, <2>1, <2>2, <2>4 DEF Made, SameTask
  <2> QED
    BY <1>2, <1>6, <2>3, <2>5, StoredThen DEF Seconds
<1>14. w.user = r.user
  BY <1>8 DEF SameTask
<1> QED
  BY <1>1, <1>2, <1>8, <1>9, <1>11, <1>12, <1>13, <1>14, OwnStepInv

\* The newest of an account's archives stays.
LEMMA NewestStays ==
  ASSUME NEW u, NEW t \in Seconds, \A v \in There(u) : v <= t, NEW keep \in Nat
  PROVE  <<u, t>> \notin Pruned(u, AtLeastOne(keep))
<1>1. \A s : s = t => {v \in There(u) : v > s} = {}
  BY DEF There, Seconds
<1>2. \A s : s = t => Cardinality({v \in There(u) : v > s}) = 0
  BY <1>1, FS_EmptySet
<1>3. AtLeastOne(keep) \in Nat /\ AtLeastOne(keep) >= 1
  BY DEF AtLeastOne
<1>4. ASSUME <<u, t>> \in Pruned(u, AtLeastOne(keep)) PROVE FALSE
  <2>1. PICK s \in There(u) : <<u, t>> = <<u, s>> /\ Cardinality({v \in There(u) : v > s}) >= AtLeastOne(keep)
    BY <1>4 DEF Pruned
  <2>2. s = t
    BY <2>1
  <2> QED
    BY <1>2, <1>3, <2>1, <2>2
<1> QED
  BY <1>4

LEMMA PruneInv ==
  ASSUME BackupsInv, NEW a \in Actors, Prune(a)
  PROVE  BackupsInv' /\ Keeps
<1>1. PICK r : r = act[a]
  OBVIOUS
<1>2. /\ r \in Runs /\ FitsTask(r) /\ MadeIf(r) /\ r.pc = "prune" /\ r.pc \in AtArchive /\ r.task.kind = "schedule"
      /\ r.user \in Users /\ r.at \in Seconds /\ r.since <= r.at /\ r.since \in Nat /\ r.task.of \in Schedules
      /\ Sent(r) \in {"none", "sftp", "s3"}
  <2>1. r \in Runs /\ FitsTask(r) /\ MadeIf(r) /\ Sent(r) \in {"none", "sftp", "s3"}
    BY <1>1, Doing
  <2>2. r.pc = "prune" /\ r.pc \in AtArchive
    BY <1>1 DEF Prune, AtArchive, Stages
  <2>3. /\ r.task.kind = "schedule" /\ r.task.of \in Schedules /\ r.user \in Users /\ r.at \in Seconds
        /\ r.since <= r.at
    BY <2>1, <2>2 DEF FitsTask
  <2>4. r.since \in Nat
    BY <2>1, RunFacts, ActorFacts
  <2> QED
    BY <2>1, <2>2, <2>3, <2>4
<1>3. PICK files : files = Pruned(r.user, AtLeastOne(plan[r.task.of].keep))
  OBVIOUS
<1>4. PICK w : w = [r EXCEPT !.pc = "next", !.user = Nobody, !.at = 0, !.place = Nobody, !.got = Nothing]
  OBVIOUS
<1>5. /\ local' = Without(files)
      /\ act' = [Orphaned(files) EXCEPT ![a].pc = "next", ![a].user = Nobody, ![a].at = 0,
                                        ![a].place = Nobody, ![a].got = Nothing]
      /\ UNCHANGED <<now, plan, status, remote, timer, queue, job, events, restarts, unended, mixed>>
  BY <1>1, <1>2, <1>3, SameRun DEF Prune
<1>6. /\ files \in SUBSET ({r.user} \X Seconds) /\ files \in SUBSET (Users \X Seconds)
      /\ Orphaned(files)[a] = r /\ Orphaned(files) = [b \in Actors |-> Orphaned(files)[b]]
  <2>1. files \in SUBSET ({r.user} \X Seconds) /\ files \in SUBSET (Users \X Seconds)
    <3>1. \A f \in files : \E s \in Seconds : f = <<r.user, s>>
      BY <1>3 DEF Pruned, There
    <3> QED
      BY <1>2, <3>1
  <2> QED
    BY <1>1, <1>2, <2>1 DEF Orphaned
<1>7. /\ w \in Runs /\ w.pc = "next" /\ w.task = r.task /\ w.user = Nobody /\ w.failed = r.failed
      /\ w.since = r.since /\ w.left = r.left /\ w.seen = r.seen
  <2>1. 0 \in 0..MaxNow /\ Nothing \in Results /\ "next" \in Stages
    BY ActorFacts DEF Results, Stages
  <2> QED
    BY <1>2, <1>4, <2>1 DEF Runs
<1>8. FitsTask(w) /\ w.pc \notin AtArchive /\ Sent(w) = Sent(r)
  <2>1. Cares(w) = Cares(r) /\ Sent(w) = Sent(r) /\ w # Resting /\ w.pc \notin AtArchive
    BY <1>7, RestingFacts DEF Cares, Sent, AtArchive
  <2> QED
    BY <1>2, <1>7, <2>1 DEF FitsTask, AtArchive
<1>9. /\ local' \in [Users \X Seconds -> {"none", "part", "torn", "whole"}]
      /\ \A u \in Users, v \in Seconds : local'[<<u, v>>] = IF <<u, v>> \in files THEN "none" ELSE local[<<u, v>>]
  BY <1>5, <1>6, WithoutFacts
<1>10. OwnStep(a, r, w)
  <2>1. act' = [b \in Actors |-> IF b = a THEN w ELSE Orphaned(files)[b]]
    BY <1>4, <1>5, <1>6
  <2>2. act' = [b \in Actors |-> act'[b]] /\ act'[a] = w /\ \A b \in Actors \ {a} : act'[b] = Orphaned(files)[b]
    BY <2>1
  <2>3. \A b \in Actors \ {a} : Turned(act'[b], act[b]) /\ (act[b].user # r.user => act'[b] = act[b])
    BY <1>2, <1>6, <2>2, OrphanedFacts
  <2>4. \A u \in Users \ {r.user}, v \in Seconds : local'[<<u, v>>] = local[<<u, v>>]
    <3>1. ASSUME NEW u \in Users \ {r.user}, NEW v \in Seconds PROVE <<u, v>> \notin files
      BY <1>6, <3>1
    <3> QED
      BY <1>9, <3>1
  <2>5. remote' \in [Users \X Places -> Results] /\ \A u \in Users \ {r.user}, p \in Places : remote'[<<u, p>>] = remote[<<u, p>>]
    BY <1>5 DEF BackupsInv, BackupsTypes
  <2> QED
    BY <1>5, <1>7, <1>9, <2>2, <2>3, <2>4, <2>5 DEF OwnStep
<1>11. \A v \in Seconds : local'[<<r.user, v>>] # "none" => local[<<r.user, v>>] # "none"
  BY <1>2, <1>9
<1>12. ASSUME r.user \notin mixed PROVE Fresh(w, r.user)' /\ HasWhole(r.user)'
  <2>1. Made(r)
    BY <1>2, <1>12 DEF MadeIf
  <2>2. Sent(w)' = Sent(r)
    BY <1>5, <1>8, CaresStays
  <2>3. CASE Sent(r) = "none"
    <3>1. local[<<r.user, r.at>>] = "whole" /\ \A v \in There(r.user) : v <= r.at
      BY <1>2, <2>1, <2>3 DEF Made, There
    <3>2. plan[r.task.of].keep \in Nat
      BY <1>2, PlanFacts DEF BackupsInv, BackupsTypes
    <3>3. local'[<<r.user, r.at>>] = "whole"
      BY <1>2, <1>3, <1>9, <3>1, <3>2, NewestStays
    <3>4. KeptHere(r.user, r.since)'
      BY <1>2, <3>3 DEF KeptHere
    <3>5. Fresh(w, r.user)'
      BY <1>7, <2>2, <2>3, <3>4 DEF Fresh
    <3> QED
      BY <1>2, <3>3, <3>5, WholeStays
  <2>4. CASE Sent(r) # "none"
    <3>1. PICK p \in Places : p.dest = Sent(r) /\ remote'[<<r.user, p>>] = r.at
      BY <1>2, <1>5, <2>1, <2>4 DEF Made, Arrived
    <3>2. PICK d \in {"sftp", "s3"} : d = Sent(r)
      BY <1>2, <2>4
    <3>3. StoredAt(r.user, d, r.since)' /\ HasWhole(r.user)'
      <4>1. r.at >= r.since /\ r.at \in Nat /\ r.at >= 1
        BY <1>2 DEF Seconds
      <4> QED
        BY <1>2, <3>1, <3>2, <4>1, StoredThen
    <3>4. Fresh(w, r.user)'
      BY <1>7, <2>2, <3>2, <3>3 DEF Fresh
    <3> QED
      BY <3>3, <3>4
  <2> QED
    BY <2>3, <2>4
<1> QED
  BY <1>1, <1>2, <1>7, <1>8, <1>10, <1>11, <1>12, OwnStepInv

LEMMA DeleteArchiveInv ==
  ASSUME BackupsInv, NEW u \in Users, NEW t \in Seconds, DeleteArchive(u, t)
  PROVE  BackupsInv' /\ Keeps
<1>1. PICK files : files = {<<u, t>>}
  OBVIOUS
<1>2. /\ local' = Without(files) /\ act' = Orphaned(files) /\ mixed' = mixed \cup {u}
      /\ events < MaxEvents /\ events' = events + 1
      /\ UNCHANGED <<now, plan, status, remote, timer, queue, job, restarts, unended>>
  BY <1>1 DEF DeleteArchive
<1>3. files \in SUBSET ({u} \X Seconds) /\ files \in SUBSET (Users \X Seconds)
  BY <1>1
<1>4. /\ local' \in [Users \X Seconds -> {"none", "part", "torn", "whole"}]
      /\ \A z \in Users, v \in Seconds : local'[<<z, v>>] = IF <<z, v>> \in files THEN "none" ELSE local[<<z, v>>]
  BY <1>2, <1>3, WithoutFacts
<1>5. \A z \in Users \ {u}, v \in Seconds : local'[<<z, v>>] = local[<<z, v>>]
  BY <1>1, <1>4
<1>6. Bystanders(Actors, u)
  <2>1. \A b \in Actors : act'[b] = Orphaned(files)[b]
    BY <1>2
  <2>2. ASSUME NEW b \in Actors PROVE Turned(act'[b], act[b]) /\ (act[b].user # u => act'[b] = act[b])
    <3>1. PICK w : w = Orphaned(files)[b]
      OBVIOUS
    <3>2. Turned(w, act[b]) /\ (act[b].user # u => w = act[b])
      BY <1>3, <3>1, OrphanedFacts
    <3> QED
      BY <2>1, <3>1, <3>2
  <2> QED
    BY <1>2, <1>5, <2>2, ActorFacts DEF Bystanders, BackupsInv, BackupsTypes, Seconds
<1>7. ASSUME NEW b \in Actors, NEW w, w = act'[b]
      PROVE  w \in Runs /\ SameTask(w, act[b]) /\ Fine(w)' /\ \A z : Clear(w, z)' <=> Clear(act[b], z)
  BY <1>6, <1>7, Bystander
<1>8. BackupsTypes'
  <2>1. act' \in [Actors -> Runs]
    BY <1>2, <1>7 DEF Orphaned
  <2>2. events' \in 0..MaxEvents
    BY <1>2, ActorFacts DEF BackupsInv, BackupsTypes
  <2> QED
    BY <1>2, <1>4, <2>1, <2>2 DEF BackupsInv, BackupsTypes
<1>9. \A b \in Actors : act'[b].task = act[b].task /\ act'[b].seen = act[b].seen /\ act'[b].user = act[b].user
  BY <1>7 DEF SameTask
<1>10. Registry' /\ RunInHand'
  <2>1. Registry'
    BY <1>2, <1>9, RegistryStays DEF BackupsInv
  <2>2. RunInHand'
    BY <1>2, <1>9, ActorFacts DEF BackupsInv, RunInHand
  <2> QED
    BY <2>1, <2>2
<1>11. OnTime'
  BY <1>2, <1>4 DEF BackupsInv, OnTime
<1>12. \A b \in Actors : Fine(act[b])'
  <2>1. \A b \in Actors : \A w : w = act'[b] => Fine(w)'
    BY <1>7
  <2> QED
    BY <2>1
<1>13. Separate'
  <2>1. ASSUME NEW b \in Actors, NEW c \in Actors, b # c, NEW w, w = act'[b],
               NEW z, z = act'[c].user, z \in Users \ mixed'
        PROVE  Clear(w, z)'
    <3>1. Clear(act[b], z)
      BY <1>2, <1>9, <2>1 DEF BackupsInv, Separate
    <3> QED
      BY <1>7, <2>1, <3>1
  <2>2. \A b, c \in Actors : b # c /\ act'[c].user \in Users \ mixed' =>
          \A w, z : w = act'[b] /\ z = act'[c].user => Clear(w, z)'
    BY <2>1
  <2> QED
    BY <2>2 DEF Separate
<1>14. Keeps
  BY <1>2, <1>5, KeepsOthers
<1> QED
  BY <1>8, <1>10, <1>11, <1>12, <1>13, <1>14 DEF BackupsInv

-----------------------------------------------------------------------------
(* The invariant, and what follows from it.                                 *)

LEMMA BackupsBegin ==
  ASSUME BackupsInit
  PROVE  BackupsInv
<1> USE DEF BackupsInit
<1>1. now \in Seconds
  BY ActorFacts DEF Seconds
<1>2. Resting \in Runs /\ FitsTask(Resting) /\ Resting.task.kind = "none" /\ Resting.user = Nobody /\ Resting.pc = "idle"
  BY <1>1, RestingFacts
<1>3. BackupsTypes
  <2>1. remote \in [Users \X Places -> Results] /\ job \in [Jobs -> JobRows] /\ queue \in Seq(Tasks)
    BY DEF Results, NoJob, JobRows
  <2>2. timer \in TimerRows
    BY DEF NoTimer, TimerRows, Says
  <2>3. act \in [Actors -> Runs] /\ status \in [Schedules -> Says]
    BY <1>2 DEF Says
  <2> QED
    BY <1>1, <2>1, <2>2, <2>3, ActorFacts DEF BackupsTypes
<1>4. Registry /\ RunInHand /\ OnTime
  BY <1>2, ActorFacts DEF Registry, RunInHand, OnTime, Manual
<1>5. Separate
  BY <1>2, ActorFacts DEF Separate
<1>6. \A a \in Actors : Fine(act[a])
  <2>1. Fine(Resting)
    BY <1>2 DEF Fine, MadeIf, FreshIf, AtArchive
  <2> QED
    BY <2>1
<1> QED
  BY <1>3, <1>4, <1>5, <1>6 DEF BackupsInv

LEMMA ActorStepInv ==
  ASSUME BackupsInv, NEW a \in Actors, ActorStep(a)
  PROVE  BackupsInv' /\ Keeps
<1>1. CASE \E u \in Users : DumpFails(a, u)
  BY <1>1, DumpFailsInv
<1>2. CASE \E u \in Users : \E t \in now..MaxNow : OpenArchive(a, u, t)
  BY <1>2, OpenArchiveInv
<1>3. CASE CloseArchive(a) \/ PutBegins(a) \/ PutEnds(a) \/ PutObject(a)
  BY <1>3, CloseArchiveInv, PutBeginsInv, PutEndsInv, PutObjectInv
<1>4. CASE Discard(a) \/ Prune(a) \/ Fails(a) \/ EndRun(a) \/ EndRefused(a)
  BY <1>4, DiscardInv, PruneInv, FailsInv, EndRunInv, EndRefusedInv
<1> QED
  BY <1>1, <1>2, <1>3, <1>4 DEF ActorStep

LEMMA BackupsGoOn ==
  ASSUME BackupsInv, BackupsNext
  PROVE  BackupsInv' /\ Keeps
<1>1. CASE \E s \in Schedules : RunNow(s) \/ DeleteSchedule(s)
  BY <1>1, RunNowInv, DeleteScheduleInv
<1>2. CASE \E s \in Schedules : TimerBreaks(s) \/ TimerSkips(s) \/ TimerTakes(s)
  BY <1>2, TimerWaitsInv, TimerTakesInv
<1>3. CASE \E j \in Jobs, u \in Users, kind \in {"backup", "upload"} : AskBackup(j, u, kind)
  BY <1>3, AskBackupInv
<1>4. CASE \E u \in Users, t \in Seconds : DeleteArchive(u, t)
  BY <1>4, DeleteArchiveInv
<1>5. CASE TimerStart \/ TimerDies \/ Restart
  BY <1>5, TimerStartInv, TimerDiesInv, RestartInv
<1>6. CASE ActorStep(Timer)
  BY <1>6, ActorStepInv, ActorFacts
<1>7. CASE \E w \in Workers : WorkerStep(w)
  <2>1. PICK w \in Workers : WorkerStep(w)
    BY <1>7
  <2>2. w \in Actors
    BY ActorFacts
  <2>3. CASE ActorStep(w)
    BY <2>2, <2>3, ActorStepInv
  <2>4. CASE Take(w)
    BY <2>4, TakeInv
  <2>5. CASE JobFails(w) \/ JobDone(w)
    BY <2>2, <2>5, JobEndsInv
  <2> QED
    BY <2>1, <2>3, <2>4, <2>5 DEF WorkerStep
<1> QED
  BY <1>1, <1>2, <1>3, <1>4, <1>5, <1>6, <1>7 DEF BackupsNext

LEMMA BackupsStand ==
  ASSUME BackupsInv, UNCHANGED backupsVars
  PROVE  BackupsInv'
<1>1. \A b \in Actors : Handed(b)
  BY DEF backupsVars, Handed
<1>2. Registry' /\ RunInHand'
  BY DEF backupsVars, BackupsInv, Registry, RunInHand
<1>3. BackupsTypes'
  BY DEF backupsVars, BackupsInv, BackupsTypes
<1>4. OnTime' /\ Separate' /\ \A b \in Actors : Fine(act[b])'
  BY <1>1, NewRuns DEF backupsVars
<1> QED
  BY <1>2, <1>3, <1>4 DEF BackupsInv

\* The inductive invariant holds of every backup the program makes.
THEOREM BackupsInvariant == BackupsSpec => []BackupsInv
<1>1. BackupsInit => BackupsInv
  BY BackupsBegin
<1>2. BackupsInv /\ [BackupsNext]_backupsVars => BackupsInv'
  BY BackupsGoOn, BackupsStand
<1> QED
  BY <1>1, <1>2, PTL DEF BackupsSpec

\* The registry keeps every job that a thread or the queue still has, whatever it
\* drops to stay within BACKUP_JOB_LIMIT (_remember_backup_job), and the rest of
\* the state has its types.
THEOREM BackupsTypeCorrect == BackupsSpec => []BackupsTypeOK
<1>1. ASSUME BackupsInv PROVE BackupsTypeOK
  <2>1. \A a \in Workers : act[a].task.kind \in {"backup", "upload"} => job[act[a].task.of].status = "running"
    BY <1>1, JobOf, ActorFacts DEF Manual
  <2>2. \A i \in DOMAIN queue : queue[i].kind # "schedule" => job[queue[i].of].status = "queued"
    <3>1. \A i \in DOMAIN queue : queue[i].kind # "schedule" => queue[i].kind \in Manual
      <4>1. \A i \in DOMAIN queue : queue[i] \in Tasks
        BY <1>1 DEF BackupsInv, BackupsTypes
      <4> QED
        BY <1>1, <4>1 DEF BackupsInv, Registry, Tasks
    <3> QED
      BY <1>1, <3>1 DEF BackupsInv, Registry
  <2>3. /\ now \in Seconds /\ plan \in Plans /\ mixed \subseteq Users
        /\ status \in [Schedules -> {"pending", "running", "ok", "error", "deleted"}]
        /\ local \in [Users \X Seconds -> {"none", "part", "torn", "whole"}]
        /\ remote \in [Users \X Places -> {Nothing, Torn} \cup Seconds]
    BY <1>1 DEF BackupsInv, BackupsTypes, Says, Results
  <2> QED
    BY <2>1, <2>2, <2>3 DEF BackupsTypeOK
<1> QED
  BY <1>1, BackupsInvariant, PTL

\* A schedule says "running" only while a run that will say otherwise is queued
\* or under way, until a restart loses the queue or the write of how the run
\* ended is refused (run_backup_schedule_now, run_one, _run_schedule_now_job).
THEOREM RunningInHand == BackupsSpec => []RunningIsRun
<1>1. BackupsInv => RunningIsRun
  BY ActorFacts DEF BackupsInv, RunInHand, RunningIsRun, Scheduled
<1> QED
  BY <1>1, BackupsInvariant, PTL

\* No step leaves an account that has a whole archive without one, as long as its
\* archives are made one at a time (discard_local_copy, prune_user_backups,
\* upload_to_sftp).
THEOREM CopiesStay == BackupsSpec => CopyStays
<1>1. BackupsInv /\ [BackupsNext]_backupsVars => [\A u \in Users \ mixed' : HasWhole(u) => HasWhole(u)']_backupsVars
  BY BackupsGoOn DEF Keeps
<1> QED
  BY <1>1, BackupsInvariant, PTL DEF BackupsSpec, CopyStays

\* The archives that a run's or a job's good end speaks of.
LEMMA EndsFresh ==
  ASSUME BackupsInv, NEW a \in Actors
  PROVE  /\ EndRun(a) /\ ~act[a].failed
            => \A u \in PlanOf(a).users \ mixed :
                 IF Dest(a) = "none" THEN KeptHere(u, act[a].since) ELSE StoredAt(u, Dest(a), act[a].since)
         /\ JobDone(a) /\ act[a].user \notin mixed
            => IF Dest(a) = "none" THEN KeptHere(act[a].user, act[a].since)
               ELSE StoredAt(act[a].user, Dest(a), act[a].since)
<1>1. PICK r : r = act[a]
  OBVIOUS
<1>2. /\ r \in Runs /\ FitsTask(r) /\ MadeIf(r) /\ FreshIf(r) /\ Cares(r) \subseteq Users
      /\ Dest(a) = Sent(r)
  BY <1>1, Doing, SameRun
<1>3. ASSUME EndRun(a), ~r.failed, NEW u \in PlanOf(a).users \ mixed PROVE Fresh(r, u)
  <2>1. r.pc = "next" /\ r.left = {} /\ r.task.kind = "schedule" /\ r.user = Nobody
    BY <1>1, <1>2, <1>3 DEF EndRun, Scheduled, FitsTask
  <2>2. u \in Cares(r) /\ u \in Users
    <3>1. Cares(r) = plan[r.task.of].users
      BY <2>1 DEF Cares, Manual
    <3>2. PlanOf(a) = plan[r.task.of]
      BY <1>1, <2>1, SameRun
    <3> QED
      BY <1>2, <1>3, <3>1, <3>2
  <2> QED
    BY <1>2, <1>3, <2>1, <2>2, ActorFacts DEF FreshIf
<1>4. ASSUME JobDone(a), r.user \notin mixed PROVE Fresh(r, r.user)
  <2>1. r.pc = "told" /\ r.pc \in AtArchive
    BY <1>1, <1>4 DEF JobDone, AtArchive, Stages
  <2>2. r.user \in Users /\ r.at \in Seconds /\ r.since <= r.at /\ r.since \in Int
    BY <1>2, <2>1, RunFacts DEF FitsTask
  <2>3. IF Sent(r) = "none" THEN local[<<r.user, r.at>>] = "whole" ELSE Arrived(r)
    BY <1>2, <1>4, <2>1 DEF MadeIf, Made
  <2>4. r.at >= r.since
    BY <2>2 DEF Seconds
  <2> QED
    BY <2>2, <2>3, <2>4 DEF Fresh, KeptHere, StoredAt, Arrived
<1> QED
  BY <1>1, <1>2, <1>3, <1>4 DEF Fresh

\* A run that ends "ok" has left each of its accounts a whole archive made since
\* it began, where it was to be sent or on this disk; so has a job that ends
\* "done" (run_one, _run_user_backup_job).
THEOREM OkStaysFresh == BackupsSpec => OkIsFresh
<1>1. BackupsInv =>
        \A a \in Actors :
         /\ EndRun(a) /\ ~act[a].failed /\ status[act[a].task.of] # "deleted"
            => \A u \in PlanOf(a).users \ mixed :
                 IF Dest(a) = "none" THEN KeptHere(u, act[a].since) ELSE StoredAt(u, Dest(a), act[a].since)
         /\ JobDone(a) /\ act[a].user \notin mixed
            => IF Dest(a) = "none" THEN KeptHere(act[a].user, act[a].since)
               ELSE StoredAt(act[a].user, Dest(a), act[a].since)
  BY EndsFresh
<1> QED
  BY <1>1, BackupsInvariant, PTL DEF OkIsFresh
=============================================================================
