---------------------------- MODULE SharedBlocklist ----------------------------
(***************************************************************************)
(* The shared blocklist addon (backend/app/services/shared_blocklist.py):    *)
(* reconcile() makes the server match the addon's switch - registered with   *)
(* the collector, subscribed to its list, reporting what was banned - from   *)
(* the minute timer's process and from threads of the panel.  The lock of    *)
(* the module keeps the panel's threads apart; between the two processes     *)
(* there is only the state file, saved by opening one temporary file and     *)
(* renaming it.                                                             *)
(***************************************************************************)
EXTENDS Integers, Sequences, FiniteSets

CONSTANTS
    Timer,        \* the minute timer's process
    Panel,        \* the panel's threads, one at a time under _lock
    Procs,        \* those there are
    None,
    Regimes       \* what behaviours are bounded by and allow, each of a regime:
                  \*   keys       keys; one that nobody holds any more is given again
                  \*   events     bound: addresses banned or denied
                  \*   clicks     bound: switches of the addon and presses of Check
                  \*   mishaps    bound: keys forgotten, state files lost, crashes
                  \*   approvals  whether the collector's operator approves servers
                  \*   failures   whether the firewall's helper may fail
                  \*   sameSecond whether two events may fall into one second

ASSUME BlocklistConstants ==
    /\ Timer # Panel /\ Timer \in Procs /\ Procs \subseteq {Timer, Panel}
    /\ Regimes \subseteq [keys : Nat \ {0}, events : Nat, clicks : Nat, mishaps : Nat,
                          approvals : BOOLEAN, failures : BOOLEAN, sameSecond : BOOLEAN]
    /\ None \notin Nat

VARIABLES
    on,           \* whether the addon is installed
    file,         \* the state file
    tmp,          \* the processes that have the temporary file open
    held,         \* those whose open file another process renamed to the state file
    proc,         \* Procs -> [pc, st, new, next, check, upto, got]: upto, the events there
                  \* were when they were read, and got, those the helper gave
    asked,        \* reconciliations the panel has been asked for
    subscribed,   \* whether the firewall reads the list
    known,        \* collector: the keys it knows
    approved,     \* collector: the keys its operator approved
    delivered,    \* collector: the events it was told
    at,           \* the second of each event, in order
    old,          \* history: events past the lookback when a key was given
    left,         \* history: events the helper left out of an answer that moved the
                  \* cursor past them
    clicks, mishaps,
    regime        \* the regime of the behaviour

Keys == 1..regime.keys

collector == <<known, approved, delivered>>
past == <<old, left>>
counts == <<clicks, mishaps, regime>>
vars == <<on, file, tmp, held, proc, asked, subscribed, collector, at, past, counts>>

\* The state file: "gone", "torn" (not JSON: two writers in one file) or "ok".
Gone == [is |-> "gone", key |-> None, status |-> "", cursor |-> 0, sub |-> FALSE, audit |-> FALSE]
Torn == [Gone EXCEPT !.is = "torn"]
IdleProc == [pc |-> "idle", st |-> Gone, new |-> Gone, next |-> "idle", check |-> FALSE,
             upto |-> 0, got |-> {}]

\* The panel comes up with the addon removed, or installed and its state lost.
Init ==
    /\ on \in BOOLEAN /\ file = Gone /\ tmp = {} /\ held = {}
    /\ proc = [p \in Procs |-> IdleProc]
    /\ asked = 0 /\ subscribed = FALSE
    /\ known = {} /\ approved = {} /\ delivered = {}
    /\ at = <<>> /\ old = {} /\ left = {}
    /\ clicks = 0 /\ mishaps = 0 /\ regime \in Regimes

\* _read: what cannot be read, or is not JSON, is no state at all.
Read == IF file.is = "ok" THEN file ELSE Gone

At(p, pc) == proc[p].pc = pc
\* On to a step that needs nothing of what was read.
Goto(p, pc) == proc' = [proc EXCEPT ![p] = [IdleProc EXCEPT !.pc = pc]] /\ UNCHANGED tmp
Stop(p) == proc' = [proc EXCEPT ![p] = IdleProc] /\ UNCHANGED tmp

\* The stages of reconcile, each of which may find that it is not its time yet.
AtStatus(p) == At(p, "status") \/ (At(p, "on") /\ proc[p].st.key # None)
AtReport(p) == At(p, "report") \/ (AtStatus(p) /\ ~proc[p].check)
AtSubscribe(p) == At(p, "subscribe") \/ AtReport(p)

\* The second of the newest event.
Last == IF at = <<>> THEN 0 ELSE at[Len(at)]

\* _update, up to the opened temporary file: the state as read now, with the
\* fields given.
Save(p, state, next) ==
    /\ proc' = [proc EXCEPT ![p] = [IdleProc EXCEPT !.pc = "saving", !.new = [state EXCEPT !.is = "ok"],
                                                    !.next = next, !.check = proc[p].check]]
    /\ tmp' = tmp \cup {p}

-----------------------------------------------------------------------------
(* _write                                                                  *)

\* The rename.  With the other process in the same file the later write stands,
\* or, being shorter, leaves a tail of the other; it then goes on writing into
\* the state file, and finds nothing to rename.
Rename(p) ==
    /\ At(p, "saving")
    /\ LET mine == proc[p].new
           others == {proc[q].new : q \in tmp \ {p}}
       IN  IF p \in tmp
           THEN /\ file' \in {mine} \cup (IF others = {} THEN {} ELSE others \cup {Torn})
                /\ held' = tmp \ {p}
                /\ tmp' = {}
                /\ proc' = [proc EXCEPT ![p] =
                    IF @.next = "idle" THEN IdleProc
                    ELSE [@ EXCEPT !.st = mine, !.new = Gone, !.pc = proc[p].next, !.next = "idle"]]
           ELSE /\ file' \in IF p \in held THEN {file, mine, Torn} ELSE {file}
                /\ held' = held \ {p}
                /\ Stop(p)
    /\ UNCHANGED <<on, asked, subscribed, collector, at, past, counts>>

-----------------------------------------------------------------------------
(* reconcile                                                               *)

Begin(p) ==
    /\ At(p, "idle")
    /\ IF p = Panel THEN asked > 0 /\ asked' = asked - 1 ELSE UNCHANGED asked
    /\ proc' = [proc EXCEPT ![p].pc = "begun", ![p].st = Read]
    /\ UNCHANGED <<on, file, tmp, held, subscribed, collector, at, past, counts>>

\* check_now: the status only, asked whatever the interval.
BeginCheck ==
    /\ Panel \in Procs /\ At(Panel, "idle") /\ clicks < regime.clicks
    /\ clicks' = clicks + 1
    /\ on /\ Read.key # None
    /\ proc' = [proc EXCEPT ![Panel].pc = "status", ![Panel].st = Read, ![Panel].check = TRUE]
    /\ UNCHANGED <<on, file, tmp, held, asked, subscribed, collector, at, past, mishaps, regime>>

\* Is the addon on?  Off with no state: nothing to do.
LookSwitch(p) ==
    /\ At(p, "begun")
    /\ CASE on /\ proc[p].st.audit -> proc' = [proc EXCEPT ![p].pc = "on"] /\ UNCHANGED tmp
         [] on /\ ~proc[p].st.audit -> Save(p, [Read EXCEPT !.audit = TRUE], "on")
         [] ~on /\ proc[p].st.is = "ok" -> Goto(p, "off")
         [] OTHER -> Stop(p)
    /\ UNCHANGED <<on, file, held, asked, subscribed, collector, at, past, counts>>

\* delete_blocklist_url: what the helper answers is not looked at.
Unsubscribe(p) ==
    /\ At(p, "off")
    /\ subscribed' \in {FALSE} \cup (IF regime.failures THEN {subscribed} ELSE {})
    /\ Goto(p, "unlink")
    /\ UNCHANGED <<on, file, held, asked, collector, at, past, counts>>

Unlink(p) ==
    /\ At(p, "unlink")
    /\ file' = Gone /\ held' = {}
    /\ Stop(p)
    /\ UNCHANGED <<on, asked, subscribed, collector, at, past, counts>>

\* Without a key: register - not yet, when the last try failed within half an
\* hour.  The try is noted first.
TryRegister(p) ==
    /\ At(p, "on") /\ proc[p].st.key = None
    /\ Save(p, Read, "register")
    /\ UNCHANGED <<on, file, held, asked, subscribed, collector, at, past, counts>>

RetryLater(p) ==
    /\ At(p, "on") /\ proc[p].st.key = None
    /\ Stop(p)
    /\ UNCHANGED <<on, file, held, asked, subscribed, collector, at, past, counts>>

\* The keys somebody holds.
InHand == {file.key} \cup {proc[p].st.key : p \in Procs} \cup {proc[p].new.key : p \in Procs}

\* Mutant: the lookback is added to the time, not taken off it.
RegisterAhead(p) ==
    /\ At(p, "register")
    /\ \E k \in Keys \ InHand :
           /\ \A other \in Keys \ InHand : k <= other
           /\ known' = (known \cap InHand) \cup {k}
           /\ approved' = approved \cap InHand
           /\ Save(p, [Read EXCEPT !.key = k, !.status = "pending", !.cursor = Last + 1], "status")
    /\ UNCHANGED <<on, file, held, asked, subscribed, delivered, at, past, counts>>

\* 201: a key, and a cursor a day back.
Register(p) ==
    /\ At(p, "register")
    /\ \E k \in Keys \ InHand :
           /\ \A other \in Keys \ InHand : k <= other
           /\ known' = (known \cap InHand) \cup {k}
           /\ approved' = approved \cap InHand
           /\ \E c \in 0..Last :
                 /\ Save(p, [Read EXCEPT !.key = k, !.status = "pending", !.cursor = c], "status")
                 /\ old' = old \cup {e \in 1..Len(at) : at[e] <= c}
    /\ UNCHANGED <<on, file, held, asked, subscribed, delivered, at, left, counts>>

\* The collector is down or refuses, or its answer is lost on the way.
RegisterFails(p) ==
    /\ At(p, "register")
    /\ Save(p, Read, "idle")
    /\ UNCHANGED <<on, file, held, asked, subscribed, collector, at, past, counts>>

AfterStatus(p) == IF proc[p].check THEN "idle" ELSE "report"

\* Mutant: a key the collector does not know is kept.
CheckStatusKeeps(p) ==
    /\ AtStatus(p)
    /\ Save(p, [Read EXCEPT !.status = IF proc[p].st.key \in approved THEN "approved" ELSE "pending"],
            AfterStatus(p))
    /\ UNCHANGED <<on, file, held, asked, subscribed, collector, at, past, counts>>

\* _check_status, when it is time or the Check button asks: 200, or 401.
CheckStatus(p) ==
    /\ AtStatus(p)
    /\ LET k == proc[p].st.key
       IN  Save(p, IF k \in known
                   THEN [Read EXCEPT !.status = IF k \in approved THEN "approved" ELSE "pending"]
                   ELSE [Read EXCEPT !.key = None, !.status = ""], AfterStatus(p))
    /\ UNCHANGED <<on, file, held, asked, subscribed, collector, at, past, counts>>

CheckUnanswered(p) ==
    /\ AtStatus(p)
    /\ Save(p, Read, AfterStatus(p))
    /\ UNCHANGED <<on, file, held, asked, subscribed, collector, at, past, counts>>

After(p) == {e \in 1..Len(at) : at[e] > proc[p].st.cursor}

\* Approved: the helper reads the events after the cursor - the bans, then the
\* logs.  What it cannot read it leaves out, as it does a ban made between the two
\* reads, the newest of too many bans and the oldest of a long log; it still gives
\* the rest, newer ones too.
ReadEvents(p) ==
    /\ AtReport(p) /\ proc[p].st.status = "approved"
    /\ \E got \in SUBSET After(p) :
          proc' = [proc EXCEPT ![p].pc = "events", ![p].upto = Len(at), ![p].got = got]
    /\ UNCHANGED <<on, file, tmp, held, asked, subscribed, collector, at, past, counts>>

\* The events of an answer that no later answer will hold.
LeftOut(p) == {e \in (1..proc[p].upto) \ proc[p].got :
                  at[e] > proc[p].st.cursor /\ \E g \in proc[p].got : at[e] <= at[g]}

\* Mutant: the cursor moves to now, not to the newest event that was read.
ReportToNow(p) ==
    /\ At(p, "events") /\ proc[p].st.key \in approved
    /\ delivered' = delivered \cup proc[p].got
    /\ Save(p, [Read EXCEPT !.cursor = Last], "subscribe")
    /\ UNCHANGED <<on, file, held, asked, subscribed, known, approved, at, past, counts>>

\* Every batch is taken: the newest of the events moves the cursor.
Report(p) ==
    /\ At(p, "events") /\ proc[p].st.key \in approved
    /\ delivered' = delivered \cup proc[p].got
    /\ left' = left \cup LeftOut(p)
    /\ \/ proc[p].got = {} /\ Save(p, [Read EXCEPT !.cursor = proc[p].st.cursor], "subscribe")
       \/ \E n \in proc[p].got :
             /\ \A e \in proc[p].got : e <= n
             /\ Save(p, [Read EXCEPT !.cursor = at[n]], "subscribe")
    /\ UNCHANGED <<on, file, held, asked, subscribed, known, approved, at, old, counts>>

\* No answer, 403, 401 or a refusal; batches before it may have been taken.
ReportFails(p) ==
    /\ At(p, "events")
    /\ LET k == proc[p].st.key
       IN  /\ \/ Save(p, Read, "subscribe")
              \/ k \in known \ approved /\ Save(p, [Read EXCEPT !.status = "pending"], "subscribe")
              \/ k \notin known /\ Save(p, [Read EXCEPT !.key = None, !.status = ""], "subscribe")
           /\ \/ UNCHANGED delivered
              \/ k \in approved /\ \E e \in proc[p].got : delivered' = delivered \cup {e}
    /\ UNCHANGED <<on, file, held, asked, subscribed, known, approved, at, past, counts>>

\* _subscribe: read within the hour, or is the list there?
SkipSubscribe(p) ==
    /\ AtSubscribe(p) /\ proc[p].st.sub
    /\ Stop(p)
    /\ UNCHANGED <<on, file, held, asked, subscribed, collector, at, past, counts>>

LookSubscribed(p) ==
    /\ AtSubscribe(p)
    /\ Goto(p, IF subscribed THEN "refresh" ELSE "add")
    /\ UNCHANGED <<on, file, held, asked, subscribed, collector, at, past, counts>>

AddList(p) ==
    /\ At(p, "add")
    /\ subscribed' = TRUE
    /\ Goto(p, "refresh")
    /\ UNCHANGED <<on, file, held, asked, collector, at, past, counts>>

AddFails(p) ==
    /\ regime.failures /\ At(p, "add")
    /\ Save(p, Read, "idle")
    /\ UNCHANGED <<on, file, held, asked, subscribed, collector, at, past, counts>>

Refresh(p) ==
    /\ At(p, "refresh")
    /\ Save(p, [Read EXCEPT !.sub = TRUE], "idle")
    /\ UNCHANGED <<on, file, held, asked, subscribed, collector, at, past, counts>>

-----------------------------------------------------------------------------
(* Around it                                                               *)

\* The addon is installed or removed; either asks the panel to reconcile.
Toggle ==
    /\ clicks < regime.clicks
    /\ clicks' = clicks + 1
    /\ on' = ~on
    /\ asked' = IF Panel \in Procs THEN asked + 1 ELSE 0
    /\ UNCHANGED <<file, tmp, held, proc, subscribed, collector, at, past, mishaps, regime>>

\* A jail bans an address, or the WAF denies one.
Event ==
    /\ Len(at) < regime.events
    /\ \E d \in {1} \cup (IF regime.sameSecond /\ at # <<>> THEN {0} ELSE {}) : at' = Append(at, Last + d)
    /\ UNCHANGED <<on, file, tmp, held, proc, asked, subscribed, collector, past, counts>>

\* The collector's operator approves a server; the collector forgets one.
Approve ==
    /\ regime.approvals
    /\ \E k \in known \ approved : approved' = approved \cup {k}
    /\ UNCHANGED <<on, file, tmp, held, proc, asked, subscribed, known, delivered, at, past, counts>>

ForgetKey ==
    /\ mishaps < regime.mishaps
    /\ mishaps' = mishaps + 1
    /\ \E k \in known : known' = known \ {k} /\ approved' = approved \ {k}
    /\ UNCHANGED <<on, file, tmp, held, proc, asked, subscribed, delivered, at, past, clicks, regime>>

LoseFile ==
    /\ mishaps < regime.mishaps /\ file # Gone
    /\ mishaps' = mishaps + 1
    /\ file' = Gone /\ held' = {}
    /\ UNCHANGED <<on, tmp, proc, asked, subscribed, collector, at, past, clicks, regime>>

\* A process dies; one dying while it saves is taken to have written nothing.
Crash(p) ==
    /\ mishaps < regime.mishaps /\ ~At(p, "idle")
    /\ mishaps' = mishaps + 1
    /\ proc' = [proc EXCEPT ![p] = IdleProc]
    /\ tmp' = tmp \ {p} /\ held' = held \ {p}
    /\ asked' = IF p = Panel THEN 0 ELSE asked
    /\ UNCHANGED <<on, file, subscribed, collector, at, past, clicks, regime>>

Step(p) ==
    \/ Rename(p) \/ LookSwitch(p) \/ Unsubscribe(p) \/ Unlink(p)
    \/ TryRegister(p) \/ RetryLater(p) \/ Register(p) \/ RegisterFails(p)
    \/ CheckStatus(p) \/ CheckUnanswered(p) \/ ReadEvents(p) \/ Report(p) \/ ReportFails(p)
    \/ SkipSubscribe(p) \/ LookSubscribed(p) \/ AddList(p) \/ AddFails(p) \/ Refresh(p)

Next ==
    \/ \E p \in Procs : Begin(p) \/ Step(p) \/ Crash(p)
    \/ BeginCheck \/ Toggle \/ Event \/ Approve \/ ForgetKey \/ LoseFile

Spec == Init /\ [][Next]_vars

\* The timer fires every minute and its process runs on, as the panel's threads
\* do; what the timer's process tries again whenever it is due it does not skip
\* for ever, and the collector and the firewall do not fail it for ever.
Fairness ==
    /\ \A p \in Procs : WF_vars(Begin(p) \/ Step(p))
    /\ SF_vars(TryRegister(Timer)) /\ SF_vars(Register(Timer)) /\ SF_vars(CheckStatus(Timer))
    /\ SF_vars(LookSubscribed(Timer)) /\ SF_vars(AddList(Timer))

FairSpec == Spec /\ Fairness

-----------------------------------------------------------------------------
(* Properties                                                              *)

States == [is : {"gone", "torn", "ok"}, key : Keys \cup {None},
           status : {"", "pending", "approved"}, cursor : 0..regime.events, sub : BOOLEAN, audit : BOOLEAN]

\* Every variable has its type.
TypeOK ==
    /\ {on, subscribed} \subseteq BOOLEAN
    /\ file \in States
    /\ tmp \subseteq Procs /\ held \subseteq Procs
    /\ proc \in [Procs -> [pc : {"idle", "begun", "on", "off", "unlink", "register", "status", "report",
                                 "events", "subscribe", "add", "refresh", "saving"},
                           st : States, new : States,
                           next : {"idle", "on", "register", "status", "report", "subscribe"},
                           check : BOOLEAN, upto : 0..regime.events, got : SUBSET (1..regime.events)]]
    /\ asked \in 0..regime.clicks
    /\ known \subseteq Keys /\ approved \subseteq known
    /\ at \in Seq(1..regime.events)
    /\ delivered \subseteq 1..Len(at) /\ old \subseteq 1..Len(at) /\ left \subseteq 1..Len(at)
    /\ clicks \in 0..regime.clicks /\ mishaps \in 0..regime.mishaps /\ regime \in Regimes

\* Of what the helper gives nothing is lost, whichever process moves the cursor,
\* whatever is lost or sent in part: an event the cursor passed is told or older than
\* the lookback, or shares its second with an earlier one that is - or the helper left
\* it out of an answer that had a newer one.
Passed == delivered \cup old \cup left
CursorCovered ==
    \A e \in 1..Len(at) : at[e] <= file.cursor =>
        e \in Passed \/ \E d \in Passed : d < e /\ at[d] = at[e]

\* "on means registered, subscribed and reporting": left on, the server gets
\* there and stays there.
Registered == file.is = "ok" /\ file.key \in known /\ subscribed
OnHeals == <>[]on => <>[]Registered
=============================================================================
