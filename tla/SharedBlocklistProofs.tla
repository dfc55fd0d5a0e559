------------------------- MODULE SharedBlocklistProofs -------------------------
(***************************************************************************)
(* Proofs about the shared blocklist, for every number of keys, events,      *)
(* clicks and mishaps, and every mix of the two processes.  A cursor is read *)
(* from the state file, kept over minutes and written back, so what is said  *)
(* of the file's has to hold of every cursor a process has in hand.          *)
(***************************************************************************)
EXTENDS SharedBlocklist, TLAPS

USE DEF past

Pcs == {"idle", "begun", "on", "off", "unlink", "register", "status", "report",
        "events", "subscribe", "add", "refresh", "saving"}
Nexts == {"idle", "on", "register", "status", "report", "subscribe"}
Working == [pc : Pcs, st : States, new : States, next : Nexts,
            check : BOOLEAN, upto : 0..regime.events, got : SUBSET (1..regime.events)]

\* What a process has read is of the events there are.
Fits(w) == w.upto <= Len(at) /\ w.got \subseteq 1..w.upto

\* Events come in order, no second is later than its number, and a process has
\* read no more of them than there are.
InOrder ==
    /\ Len(at) <= regime.events /\ Last <= Len(at)
    /\ \A d, e \in 1..Len(at) : d <= e => at[d] <= at[e]
    /\ \A p \in Procs : Fits(proc[p])

TypeInv == TypeOK /\ InOrder /\ asked <= clicks

LEMMA RegimeType ==
  ASSUME regime \in Regimes
  PROVE  /\ regime.keys \in Nat \ {0} /\ regime.events \in Nat /\ regime.clicks \in Nat /\ regime.mishaps \in Nat
         /\ regime.approvals \in BOOLEAN /\ regime.failures \in BOOLEAN /\ regime.sameSecond \in BOOLEAN
BY BlocklistConstants

LEMMA Fixed == regime' = regime => Keys' = Keys /\ States' = States /\ Working' = Working
BY DEF Keys, States, Working

LEMMA StateTypes ==
  ASSUME TypeOK
  PROVE  /\ Gone \in States /\ Torn \in States /\ Read \in States /\ IdleProc \in Working
         /\ IdleProc.st = Gone /\ IdleProc.new = Gone /\ Fits(IdleProc)
         /\ proc \in [Procs -> Working]
         /\ Gone.cursor = 0 /\ Torn.cursor = 0 /\ Read.cursor \in {file.cursor, 0}
<1>1. Gone \in States /\ Torn \in States
  <2>1. regime.events \in Nat
    BY RegimeType DEF TypeOK
  <2>2. Gone \in States
    BY <2>1 DEF States, Gone
  <2> QED
    BY <2>2 DEF States, Torn
<1>2. Read \in States
  BY <1>1 DEF TypeOK, Read
<1>3. IdleProc \in Working
  BY <1>1, RegimeType DEF TypeOK, Working, IdleProc, Pcs, Nexts
<1>4. proc \in [Procs -> Working]
  BY DEF TypeOK, Working, Pcs, Nexts
<1>5. Gone.cursor = 0 /\ Torn.cursor = 0 /\ Read.cursor \in {file.cursor, 0}
  BY <1>1 DEF Gone, Torn, Read
<1>6. IdleProc.st = Gone /\ IdleProc.new = Gone /\ Fits(IdleProc)
  BY DEF IdleProc, Fits, TypeOK
<1> QED
  BY <1>1, <1>2, <1>3, <1>4, <1>5, <1>6

\* What Save, Goto and Stop do to a process.
LEMMA SaveTypes ==
  ASSUME TypeOK, NEW p \in Procs, NEW state \in States, NEW next \in Nexts, Save(p, state, next)
  PROVE  /\ proc' \in [Procs -> Working] /\ tmp' \subseteq Procs
         /\ proc'[p].st = Gone /\ proc'[p].new = [state EXCEPT !.is = "ok"] /\ Fits(proc'[p])
         /\ \A q \in Procs : q # p => proc'[q] = proc[q]
<1> DEFINE saving == [IdleProc EXCEPT !.pc = "saving", !.new = [state EXCEPT !.is = "ok"],
                                      !.next = next, !.check = proc[p].check]
<1>1. [state EXCEPT !.is = "ok"] \in States
  BY DEF States
<1>2. proc[p].check \in BOOLEAN
  BY DEF TypeOK
<1>3. saving \in Working /\ saving.st = Gone /\ saving.new = [state EXCEPT !.is = "ok"] /\ Fits(saving)
  <2>1. saving \in Working /\ saving.st = Gone /\ saving.new = [state EXCEPT !.is = "ok"]
    BY <1>1, <1>2, StateTypes DEF Working, IdleProc, Pcs, Nexts
  <2>2. saving.upto = 0 /\ saving.got = {} /\ Len(at) \in Nat
    BY DEF IdleProc, TypeOK
  <2> QED
    BY <2>1, <2>2 DEF Fits
<1>4. proc' = [proc EXCEPT ![p] = saving]
  BY DEF Save
<1> HIDE DEF saving
<1> QED
  BY <1>3, <1>4, StateTypes DEF Save, TypeOK

LEMMA GotoTypes ==
  ASSUME TypeOK, NEW p \in Procs, NEW pc \in Pcs, Goto(p, pc) \/ Stop(p)
  PROVE  /\ proc' \in [Procs -> Working] /\ tmp' \subseteq Procs
         /\ proc'[p].st = Gone /\ proc'[p].new = Gone /\ Fits(proc'[p])
         /\ \A q \in Procs : q # p => proc'[q] = proc[q]
<1> DEFINE going == [IdleProc EXCEPT !.pc = pc]
<1>1. going \in Working /\ going.st = Gone /\ going.new = Gone /\ Fits(going)
  <2>1. going \in Working /\ going.st = Gone /\ going.new = Gone
    BY StateTypes DEF Working, IdleProc, Pcs
  <2>2. going.upto = 0 /\ going.got = {} /\ Len(at) \in Nat
    BY DEF IdleProc, TypeOK
  <2> QED
    BY <2>1, <2>2 DEF Fits
<1>2. IdleProc \in Working /\ IdleProc.st = Gone /\ IdleProc.new = Gone /\ Fits(IdleProc)
  BY StateTypes
<1>3. proc' = [proc EXCEPT ![p] = going] \/ proc' = [proc EXCEPT ![p] = IdleProc]
  BY DEF Goto, Stop
<1> HIDE DEF going
<1> QED
  BY <1>1, <1>2, <1>3, StateTypes DEF Goto, Stop, TypeOK

-----------------------------------------------------------------------------
(* Types.                                                                   *)

LEMMA TypeInit == Init => TypeInv
<1> SUFFICES ASSUME Init PROVE TypeInv
  OBVIOUS
<1> USE DEF Init
<1>1. regime \in Regimes /\ Len(at) = 0 /\ Last = 0
  BY DEF Last
<1>2. regime.events \in Nat /\ regime.clicks \in Nat /\ regime.mishaps \in Nat
  BY <1>1, RegimeType
<1>3. Gone \in States
  <2>1. 0 \in 0..regime.events
    BY <1>2
  <2> QED
    BY <2>1 DEF States, Gone
<1>4. IdleProc \in Working /\ IdleProc.upto = 0 /\ IdleProc.got = {}
  BY <1>2, <1>3 DEF Working, IdleProc, Pcs, Nexts
<1>5. proc \in [Procs -> Working] /\ \A p \in Procs : proc[p].upto = 0 /\ proc[p].got = {}
  BY <1>4
<1>6. at \in Seq(1..regime.events) /\ 0 \in 0..regime.clicks /\ 0 \in 0..regime.mishaps
  BY <1>2
<1>7. TypeOK
  BY <1>1, <1>3, <1>5, <1>6 DEF TypeOK, Working, Pcs, Nexts
<1>8. InOrder
  BY <1>1, <1>2, <1>5 DEF InOrder, Fits
<1> QED
  BY <1>7, <1>8 DEF TypeInv

\* Every step but an event leaves the events alone.
LEMMA TypeFrame ==
  ASSUME TypeInv, regime' = regime, at' = at,
         {on', subscribed'} \subseteq BOOLEAN, file' \in States, tmp' \subseteq Procs, held' \subseteq Procs,
         proc' \in [Procs -> Working], \A p \in Procs : Fits(proc'[p]),
         clicks' \in 0..regime.clicks, asked' \in 0..clicks', mishaps' \in 0..regime.mishaps,
         known' \subseteq Keys, approved' \subseteq known',
         delivered' \subseteq 1..Len(at), old' \subseteq 1..Len(at), left' \subseteq 1..Len(at)
  PROVE  TypeInv'
<1>1. asked' \in 0..regime.clicks
  BY RegimeType DEF TypeInv, TypeOK
<1> QED
  BY <1>1, Fixed DEF TypeInv, TypeOK, InOrder, Fits, Last, Working, Pcs, Nexts

\* The processes stay where they are.
LEMMA TypeStill ==
  ASSUME TypeInv, UNCHANGED <<tmp, proc, subscribed, delivered, at, past, regime>>,
         on' \in BOOLEAN, file' \in States, held' \subseteq Procs,
         clicks' \in 0..regime.clicks, asked' \in 0..clicks', mishaps' \in 0..regime.mishaps,
         known' \subseteq Keys, approved' \subseteq known'
  PROVE  TypeInv'
<1>1. proc' \in [Procs -> Working] /\ \A p \in Procs : Fits(proc'[p])
  BY StateTypes DEF TypeInv, InOrder
<1> QED
  BY <1>1, TypeFrame DEF TypeInv, TypeOK

\* A process steps, and of what is not its own the switch, the requests and the
\* collector's memory may change with it.
LEMMA TypeMoves ==
  ASSUME TypeInv, NEW p \in Procs, proc' \in [Procs -> Working], Fits(proc'[p]),
         \A q \in Procs : q # p => proc'[q] = proc[q], tmp' \subseteq Procs,
         UNCHANGED <<on, file, held, at, regime, mishaps>>,
         subscribed' \in BOOLEAN, clicks' \in 0..regime.clicks, asked' \in 0..clicks',
         known' \subseteq Keys, approved' \subseteq known',
         delivered' \subseteq 1..Len(at), old' \subseteq 1..Len(at), left' \subseteq 1..Len(at)
  PROVE  TypeInv'
<1>1. \A q \in Procs : Fits(proc'[q])
  BY DEF TypeInv, InOrder
<1> QED
  BY <1>1, TypeFrame DEF TypeInv, TypeOK

\* Facts about what is read and held that every step needs.
LEMMA HandTypes ==
  ASSUME TypeInv, NEW p \in Procs
  PROVE  /\ proc[p] \in Working /\ proc[p].st \in States /\ proc[p].new \in States
         /\ proc[p].pc \in Pcs /\ proc[p].next \in Nexts /\ proc[p].check \in BOOLEAN
         /\ proc[p].upto \in 0..regime.events /\ Fits(proc[p])
         /\ Read \in States /\ Gone \in States /\ Torn \in States /\ IdleProc \in Working
         /\ AfterStatus(p) \in Nexts /\ Len(at) \in Nat /\ regime.events \in Nat
<1>1. TypeOK /\ proc \in [Procs -> Working] /\ Read \in States /\ Gone \in States /\ Torn \in States
      /\ IdleProc \in Working /\ regime.events \in Nat
  BY StateTypes, RegimeType DEF TypeInv, TypeOK
<1>2. /\ proc[p] \in Working /\ proc[p].st \in States /\ proc[p].new \in States
      /\ proc[p].pc \in Pcs /\ proc[p].next \in Nexts /\ proc[p].check \in BOOLEAN
      /\ proc[p].upto \in 0..regime.events
  BY <1>1 DEF Working
<1>3. Fits(proc[p]) /\ Len(at) \in Nat
  BY <1>1 DEF TypeInv, TypeOK, InOrder
<1>4. AfterStatus(p) \in Nexts
  BY DEF AfterStatus, Nexts
<1> QED
  BY <1>1, <1>2, <1>3, <1>4

LEMMA Numbers == TypeInv => Len(at) \in Nat /\ regime.events \in Nat
BY RegimeType DEF TypeInv, TypeOK

LEMMA Seconds ==
  ASSUME TypeInv, NEW e \in 1..Len(at)
  PROVE  at[e] \in 1..regime.events /\ at[e] \in Int
<1>1. regime.events \in Nat /\ at \in Seq(1..regime.events)
  BY RegimeType DEF TypeInv, TypeOK
<1>2. at[e] \in 1..regime.events
  BY <1>1
<1> QED
  BY <1>1, <1>2

LEMMA LastType ==
  ASSUME TypeInv
  PROVE  Last \in 0..regime.events
<1>1. Len(at) \in Nat /\ Len(at) <= regime.events /\ regime.events \in Nat /\ Last <= Len(at)
  BY RegimeType DEF TypeInv, TypeOK, InOrder
<1>2. Last \in Nat
  BY <1>1 DEF Last, TypeInv, TypeOK
<1> QED
  BY <1>1, <1>2

\* A step that saves, and changes of the rest no more than the collector's memory.
LEMMA TypeSave ==
  ASSUME TypeInv, NEW p \in Procs, NEW state \in States, NEW next \in Nexts, Save(p, state, next),
         UNCHANGED <<on, file, held, asked, subscribed, at, counts>>,
         known' \subseteq Keys, approved' \subseteq known',
         delivered' \subseteq 1..Len(at), old' \subseteq 1..Len(at), left' \subseteq 1..Len(at)
  PROVE  TypeInv'
<1>1. /\ proc' \in [Procs -> Working] /\ tmp' \subseteq Procs /\ Fits(proc'[p])
      /\ \A q \in Procs : q # p => proc'[q] = proc[q]
  BY SaveTypes DEF TypeInv
<1>2. /\ Fits(proc'[p])
      /\ subscribed' \in BOOLEAN /\ clicks' \in 0..regime.clicks /\ asked' \in 0..clicks'
  BY <1>1, HandTypes, RegimeType DEF TypeInv, TypeOK, counts
<1> QED
  BY <1>1, <1>2, TypeMoves DEF counts

\* One that saves the state as read, with no more than the status or the key changed.
LEMMA TypeSaveRead ==
  ASSUME TypeInv, NEW p \in Procs, NEW state \in States, NEW next \in Nexts, Save(p, state, next),
         UNCHANGED <<on, file, held, asked, subscribed, collector, at, past, counts>>
  PROVE  TypeInv'
<1>1. UNCHANGED <<on, file, held, asked, subscribed, at, counts, known, approved, delivered, past>>
  BY DEF collector
<1>2. /\ known' \subseteq Keys /\ approved' \subseteq known'
      /\ delivered' \subseteq 1..Len(at) /\ old' \subseteq 1..Len(at) /\ left' \subseteq 1..Len(at)
  BY <1>1 DEF TypeInv, TypeOK
<1> QED
  BY <1>1, <1>2, TypeSave

\* One that goes on or stops.
LEMMA TypeGoto ==
  ASSUME TypeInv, NEW p \in Procs, NEW pc \in Pcs, Goto(p, pc) \/ Stop(p), subscribed' \in BOOLEAN,
         UNCHANGED <<on, file, held, asked, collector, at, past, counts>>
  PROVE  TypeInv'
<1>1. /\ proc' \in [Procs -> Working] /\ tmp' \subseteq Procs /\ Fits(proc'[p])
      /\ \A q \in Procs : q # p => proc'[q] = proc[q]
  BY GotoTypes DEF TypeInv
<1>2. UNCHANGED <<on, file, held, asked, at, clicks, mishaps, regime, known, approved, delivered, past>>
  BY DEF collector, counts
<1>3. /\ known' \subseteq Keys /\ approved' \subseteq known'
      /\ delivered' \subseteq 1..Len(at) /\ old' \subseteq 1..Len(at) /\ left' \subseteq 1..Len(at)
  BY <1>2 DEF TypeInv, TypeOK
<1>4. /\ Fits(proc'[p]) /\ clicks' \in 0..regime.clicks /\ asked' \in 0..clicks'
  BY <1>1, <1>2, HandTypes, RegimeType DEF TypeInv, TypeOK
<1> QED
  BY <1>1, <1>2, <1>3, <1>4, TypeMoves

LEMMA TypeRename ==
  ASSUME TypeInv, NEW p \in Procs, Rename(p)
  PROVE  /\ TypeInv'
         /\ file' \in {file, Torn} \cup {proc[q].new : q \in Procs}
         /\ proc'[p].st \in {proc[p].new, Gone} /\ proc'[p].new = Gone
         /\ \A q \in Procs : q # p => proc'[q] = proc[q]
<1> DEFINE mine == proc[p].new
           others == {proc[q].new : q \in tmp \ {p}}
           after == IF proc[p].next = "idle" THEN IdleProc
                    ELSE [proc[p] EXCEPT !.st = mine, !.new = Gone, !.pc = proc[p].next, !.next = "idle"]
<1>1. mine \in States /\ others \subseteq States
  BY HandTypes DEF TypeInv, TypeOK
<1>2. /\ after \in Working /\ Fits(after)
      /\ after.st \in {mine, Gone} /\ after.new = Gone
  <2>1. proc[p] \in Working /\ proc[p].next \in Pcs /\ IdleProc \in Working /\ Gone \in States
    BY HandTypes DEF Pcs, Nexts
  <2>2. Fits(IdleProc) /\ IdleProc.st = Gone /\ IdleProc.new = Gone /\ Fits(proc[p])
    BY HandTypes, StateTypes DEF TypeInv
  <2>3. [proc[p] EXCEPT !.st = mine, !.new = Gone, !.pc = proc[p].next, !.next = "idle"] \in Working
    BY <1>1, <2>1 DEF Working, Nexts
  <2> QED
    BY <2>1, <2>2, <2>3 DEF Working, Fits
<1>3. /\ IdleProc \in Working /\ Fits(IdleProc) /\ IdleProc.st = Gone /\ IdleProc.new = Gone
      /\ proc \in [Procs -> Working]
  BY HandTypes, StateTypes DEF TypeInv
<1>4. proc' = [proc EXCEPT ![p] = after] \/ proc' = [proc EXCEPT ![p] = IdleProc]
  BY DEF Rename, Stop
<1>5. /\ file' \in {file, mine, Torn} \cup others
      /\ tmp' \in {tmp, {}} /\ held' \in {tmp \ {p}, held \ {p}}
  BY DEF Rename, Stop
<1>6. UNCHANGED <<on, asked, subscribed, collector, at, past, counts>>
  BY DEF Rename
<1> HIDE DEF mine, others, after
<1>7. /\ proc' \in [Procs -> Working]
      /\ \A q \in Procs : q # p => proc'[q] = proc[q]
      /\ Fits(proc'[p]) /\ proc'[p].st \in {mine, Gone} /\ proc'[p].new = Gone
  BY <1>2, <1>3, <1>4
<1>8. file' \in States /\ tmp' \subseteq Procs /\ held' \subseteq Procs
  BY <1>1, <1>5, HandTypes DEF TypeInv, TypeOK
<1>9. \A q \in Procs : Fits(proc'[q])
  <2>1. Fits(proc'[p])
    BY <1>7, HandTypes
  <2> QED
    BY <1>7, <2>1, HandTypes
<1>10. TypeInv'
  <2>1. UNCHANGED <<on, asked, subscribed, at, past, clicks, mishaps, regime, known, approved, delivered>>
    BY <1>6 DEF collector, counts
  <2>2. /\ {on', subscribed'} \subseteq BOOLEAN
        /\ clicks' \in 0..regime.clicks /\ asked' \in 0..clicks' /\ mishaps' \in 0..regime.mishaps
        /\ known' \subseteq Keys /\ approved' \subseteq known'
        /\ delivered' \subseteq 1..Len(at) /\ old' \subseteq 1..Len(at) /\ left' \subseteq 1..Len(at)
    BY <2>1, RegimeType DEF TypeInv, TypeOK
  <2> QED
    BY <1>7, <1>8, <1>9, <2>1, <2>2, TypeFrame
<1>11. file' \in {file, Torn} \cup {proc[q].new : q \in Procs} /\ proc'[p].st \in {proc[p].new, Gone}
  BY <1>5, <1>7 DEF mine, others, TypeInv, TypeOK
<1> QED
  BY <1>7, <1>10, <1>11

\* What is saved is what was read, with a field or three given.
LEMMA Edits ==
  ASSUME NEW r \in States, NEW k \in Keys, NEW c \in 0..regime.events, NEW status \in {"pending", "approved"}
  PROVE  /\ [r EXCEPT !.audit = TRUE] \in States
         /\ [r EXCEPT !.sub = TRUE] \in States
         /\ [r EXCEPT !.status = status] \in States
         /\ [r EXCEPT !.key = None, !.status = ""] \in States
         /\ [r EXCEPT !.key = k, !.status = "pending", !.cursor = c] \in States
         /\ [r EXCEPT !.cursor = c] \in States
BY DEF States

LEMMA ReadEdits ==
  ASSUME TypeInv
  PROVE  /\ Read \in States /\ [Read EXCEPT !.audit = TRUE] \in States /\ [Read EXCEPT !.sub = TRUE] \in States
         /\ [Read EXCEPT !.status = "pending"] \in States /\ [Read EXCEPT !.status = "approved"] \in States
         /\ [Read EXCEPT !.key = None, !.status = ""] \in States
<1>1. Read \in States
  BY StateTypes DEF TypeInv
<1> QED
  BY <1>1 DEF States

\* A step of a process alone.
LEMMA TypeOwn ==
  ASSUME TypeInv, NEW p \in Procs, NEW w \in Working, Fits(w),
         proc' = [proc EXCEPT ![p] = w], tmp' \subseteq Procs,
         UNCHANGED <<on, file, held, subscribed, collector, at, past, mishaps, regime>>,
         clicks' \in 0..regime.clicks, asked' \in 0..clicks'
  PROVE  TypeInv'
<1>1. /\ proc' \in [Procs -> Working] /\ Fits(proc'[p])
      /\ \A q \in Procs : q # p => proc'[q] = proc[q]
  BY StateTypes DEF TypeInv
<1>2. UNCHANGED <<known, approved, delivered>>
  BY DEF collector
<1>3. /\ subscribed' \in BOOLEAN /\ known' \subseteq Keys /\ approved' \subseteq known'
      /\ delivered' \subseteq 1..Len(at) /\ old' \subseteq 1..Len(at) /\ left' \subseteq 1..Len(at)
  BY <1>2 DEF TypeInv, TypeOK
<1> QED
  BY <1>1, <1>2, <1>3, TypeMoves

LEMMA TypeBegin ==
  ASSUME TypeInv, NEW p \in Procs, Begin(p)
  PROVE  TypeInv'
<1> DEFINE w == [proc[p] EXCEPT !.pc = "begun", !.st = Read]
<1>1. w \in Working /\ Fits(w)
  BY HandTypes DEF Working, Pcs, Fits
<1>2. proc' = [proc EXCEPT ![p] = w] /\ tmp' \subseteq Procs
  BY StateTypes DEF Begin, TypeInv, TypeOK
<1>3. clicks' \in 0..regime.clicks /\ asked' \in 0..clicks'
  BY RegimeType DEF Begin, TypeInv, TypeOK, counts
<1> QED
  BY <1>1, <1>2, <1>3, TypeOwn DEF Begin, counts

LEMMA TypeBeginCheck ==
  ASSUME TypeInv, BeginCheck
  PROVE  TypeInv'
<1> DEFINE w == [proc[Panel] EXCEPT !.pc = "status", !.st = Read, !.check = TRUE]
<1>1. Panel \in Procs
  BY DEF BeginCheck
<1>2. w \in Working /\ Fits(w)
  BY <1>1, HandTypes DEF Working, Pcs, Fits
<1>3. proc' = [proc EXCEPT ![Panel] = w] /\ tmp' \subseteq Procs
  BY <1>1, StateTypes DEF BeginCheck, TypeInv, TypeOK
<1>4. clicks' \in 0..regime.clicks /\ asked' \in 0..clicks'
  BY RegimeType DEF BeginCheck, TypeInv, TypeOK
<1> QED
  BY <1>1, <1>2, <1>3, <1>4, TypeOwn DEF BeginCheck

LEMMA TypeLookSwitch ==
  ASSUME TypeInv, NEW p \in Procs, LookSwitch(p)
  PROVE  TypeInv'
<1>1. UNCHANGED <<on, file, held, asked, subscribed, collector, at, past, counts>>
  BY DEF LookSwitch
<1>2. CASE proc' = [proc EXCEPT ![p].pc = "on"] /\ UNCHANGED tmp
  <2> DEFINE w == [proc[p] EXCEPT !.pc = "on"]
  <2>1. w \in Working /\ Fits(w)
    BY HandTypes DEF Working, Pcs, Fits
  <2>2. proc' = [proc EXCEPT ![p] = w] /\ tmp' \subseteq Procs
    BY <1>2, StateTypes DEF TypeInv, TypeOK
  <2>3. clicks' \in 0..regime.clicks /\ asked' \in 0..clicks'
    BY <1>1 DEF TypeInv, TypeOK, counts
  <2> QED
    BY <1>1, <2>1, <2>2, <2>3, TypeOwn DEF counts
<1>3. CASE Save(p, [Read EXCEPT !.audit = TRUE], "on")
  BY <1>1, <1>3, ReadEdits, TypeSaveRead DEF Nexts
<1>4. CASE Goto(p, "off") \/ Stop(p)
  <2>1. subscribed' \in BOOLEAN
    BY <1>1 DEF TypeInv, TypeOK
  <2> QED
    BY <1>1, <1>4, <2>1, TypeGoto DEF Pcs
<1> QED
  BY <1>2, <1>3, <1>4 DEF LookSwitch

LEMMA TypeUnlink ==
  ASSUME TypeInv, NEW p \in Procs, Unlink(p)
  PROVE  TypeInv'
<1>1. Stop(p) /\ UNCHANGED <<on, asked, subscribed, collector, at, past, counts>> /\ file' = Gone /\ held' = {}
  BY DEF Unlink
<1>2. /\ proc' \in [Procs -> Working] /\ tmp' \subseteq Procs /\ Fits(proc'[p])
      /\ \A q \in Procs : q # p => proc'[q] = proc[q]
  BY <1>1, GotoTypes DEF TypeInv, Pcs
<1>3. \A q \in Procs : Fits(proc'[q])
  BY <1>2, HandTypes
<1>4. UNCHANGED <<on, asked, subscribed, at, past, clicks, mishaps, regime, known, approved, delivered>>
  BY <1>1 DEF collector, counts
<1>5. file' \in States /\ held' \subseteq Procs
  <2>1. Gone \in States
    BY StateTypes DEF TypeInv
  <2> QED
    BY <1>1, <1>4, <2>1
<1>6. /\ {on', subscribed'} \subseteq BOOLEAN
      /\ clicks' \in 0..regime.clicks /\ asked' \in 0..clicks' /\ mishaps' \in 0..regime.mishaps
      /\ known' \subseteq Keys /\ approved' \subseteq known'
      /\ delivered' \subseteq 1..Len(at) /\ old' \subseteq 1..Len(at) /\ left' \subseteq 1..Len(at)
  BY <1>4, RegimeType DEF TypeInv, TypeOK
<1> QED
  BY <1>2, <1>3, <1>4, <1>5, <1>6, TypeFrame

LEMMA TypeRegister ==
  ASSUME TypeInv, NEW p \in Procs, Register(p)
  PROVE  TypeInv'
<1>1. PICK k \in Keys \ InHand : \E c \in 0..Last :
        /\ known' = (known \cap InHand) \cup {k} /\ approved' = approved \cap InHand
        /\ Save(p, [Read EXCEPT !.key = k, !.status = "pending", !.cursor = c], "status")
        /\ old' = old \cup {e \in 1..Len(at) : at[e] <= c}
  BY DEF Register
<1>2. PICK c \in 0..Last :
        /\ Save(p, [Read EXCEPT !.key = k, !.status = "pending", !.cursor = c], "status")
        /\ old' = old \cup {e \in 1..Len(at) : at[e] <= c}
  BY <1>1
<1>3. UNCHANGED <<on, file, held, asked, subscribed, delivered, at, left, counts>>
  BY DEF Register
<1>4. Last <= regime.events /\ Last \in Int
  BY LastType
<1>5. c \in 0..regime.events
  BY <1>2, <1>4, HandTypes
<1>6. [Read EXCEPT !.key = k, !.status = "pending", !.cursor = c] \in States /\ "status" \in Nexts
  BY <1>5, ReadEdits, Edits DEF Nexts
<1>7. /\ known' \subseteq Keys /\ approved' \subseteq known'
      /\ delivered' \subseteq 1..Len(at) /\ old' \subseteq 1..Len(at) /\ left' \subseteq 1..Len(at)
  BY <1>1, <1>2, <1>3 DEF TypeInv, TypeOK
<1> HIDE DEF InHand
<1> QED
  BY <1>2, <1>3, <1>6, <1>7, TypeSave

LEMMA TypeReport ==
  ASSUME TypeInv, NEW p \in Procs, Report(p) \/ ReportFails(p)
  PROVE  TypeInv'
<1>1. UNCHANGED <<on, file, held, asked, subscribed, known, approved, at, old, counts>>
  BY DEF Report, ReportFails
<1>2. proc[p].got \subseteq 1..Len(at) /\ LeftOut(p) \subseteq 1..Len(at)
  BY HandTypes DEF Fits, LeftOut
<1>3. /\ known' \subseteq Keys /\ approved' \subseteq known'
      /\ delivered' \subseteq 1..Len(at) /\ old' \subseteq 1..Len(at) /\ left' \subseteq 1..Len(at)
  BY <1>1, <1>2 DEF Report, ReportFails, TypeInv, TypeOK
<1>4. CASE Report(p)
  <2>1. PICK c : /\ Save(p, [Read EXCEPT !.cursor = c], "subscribe")
                 /\ c = proc[p].st.cursor \/ \E n \in proc[p].got : c = at[n]
    BY <1>4 DEF Report
  <2>2. proc[p].st.cursor \in 0..regime.events
    BY HandTypes DEF States
  <2>3. \A n \in proc[p].got : at[n] \in 0..regime.events
    BY <1>2, Seconds, Numbers
  <2>4. [Read EXCEPT !.cursor = c] \in States /\ "subscribe" \in Nexts
    BY <2>1, <2>2, <2>3, ReadEdits DEF States, Nexts
  <2> QED
    BY <1>1, <1>3, <2>1, <2>4, TypeSave
<1>5. CASE ReportFails(p)
  BY <1>1, <1>3, <1>5, ReadEdits, TypeSave DEF ReportFails, Nexts
<1> QED
  BY <1>4, <1>5

LEMMA TypeStep ==
  ASSUME TypeInv, NEW p \in Procs, Step(p)
  PROVE  TypeInv'
<1>1. subscribed \in BOOLEAN
  BY DEF TypeInv, TypeOK
<1>2. CASE Unsubscribe(p)
  <2>1. subscribed' \in BOOLEAN /\ Goto(p, "unlink")
        /\ UNCHANGED <<on, file, held, asked, collector, at, past, counts>>
    BY <1>1, <1>2 DEF Unsubscribe
  <2> QED
    BY <2>1, TypeGoto DEF Pcs
<1>3. CASE RetryLater(p) \/ SkipSubscribe(p) \/ LookSubscribed(p)
  <2>1. /\ Stop(p) \/ Goto(p, "refresh") \/ Goto(p, "add")
        /\ UNCHANGED <<on, file, held, asked, subscribed, collector, at, past, counts>>
    BY <1>3 DEF RetryLater, SkipSubscribe, LookSubscribed
  <2> QED
    BY <1>1, <2>1, TypeGoto DEF Pcs
<1>4. CASE AddList(p)
  <2>1. subscribed' \in BOOLEAN /\ Goto(p, "refresh")
        /\ UNCHANGED <<on, file, held, asked, collector, at, past, counts>>
    BY <1>4 DEF AddList
  <2> QED
    BY <2>1, TypeGoto DEF Pcs
<1>5. CASE TryRegister(p) \/ RegisterFails(p) \/ CheckUnanswered(p) \/ AddFails(p)
  <2>1. \E next \in Nexts : Save(p, Read, next)
    BY <1>5, HandTypes DEF TryRegister, RegisterFails, CheckUnanswered, AddFails, Nexts
  <2>2. UNCHANGED <<on, file, held, asked, subscribed, collector, at, past, counts>>
    BY <1>5 DEF TryRegister, RegisterFails, CheckUnanswered, AddFails
  <2> QED
    BY <2>1, <2>2, ReadEdits, TypeSaveRead
<1>6. CASE CheckStatus(p)
  <2>1. \E state \in States : Save(p, state, AfterStatus(p))
    BY <1>6, ReadEdits DEF CheckStatus
  <2>2. UNCHANGED <<on, file, held, asked, subscribed, collector, at, past, counts>>
    BY <1>6 DEF CheckStatus
  <2> QED
    BY <2>1, <2>2, HandTypes, TypeSaveRead
<1>7. CASE ReadEvents(p)
  <2>1. PICK got \in SUBSET After(p) :
          proc' = [proc EXCEPT ![p].pc = "events", ![p].upto = Len(at), ![p].got = got]
    BY <1>7 DEF ReadEvents
  <2> DEFINE w == [proc[p] EXCEPT !.pc = "events", !.upto = Len(at), !.got = got]
  <2>2. Len(at) \in 0..regime.events /\ got \subseteq 1..Len(at) /\ got \subseteq 1..regime.events
    BY <2>1, HandTypes DEF After, TypeInv, InOrder
  <2>3. w \in Working /\ w.upto = Len(at) /\ w.got = got
    BY <2>2, HandTypes DEF Working, Pcs
  <2>4. Fits(w)
    BY <2>2, <2>3 DEF Fits
  <2>5. proc' = [proc EXCEPT ![p] = w] /\ tmp' \subseteq Procs
    BY <1>7, <2>1, StateTypes DEF ReadEvents, TypeInv, TypeOK
  <2>6. clicks' \in 0..regime.clicks /\ asked' \in 0..clicks'
    BY <1>7 DEF ReadEvents, TypeInv, TypeOK, counts
  <2> HIDE DEF w
  <2> QED
    BY <1>7, <2>3, <2>4, <2>5, <2>6, TypeOwn DEF ReadEvents, counts
<1>8. CASE Refresh(p)
  BY <1>8, ReadEdits, TypeSaveRead DEF Refresh, Nexts
<1> QED
  BY <1>2, <1>3, <1>4, <1>5, <1>6, <1>7, <1>8, TypeRename, TypeLookSwitch, TypeUnlink, TypeRegister, TypeReport
  DEF Step

LEMMA TypeCrash ==
  ASSUME TypeInv, NEW p \in Procs, Crash(p)
  PROVE  /\ TypeInv' /\ proc'[p] = IdleProc
         /\ \A q \in Procs : q # p => proc'[q] = proc[q]
<1>1. /\ proc' = [proc EXCEPT ![p] = IdleProc] /\ mishaps' = mishaps + 1 /\ mishaps < regime.mishaps
      /\ tmp' = tmp \ {p} /\ held' = held \ {p} /\ asked' \in {0, asked}
      /\ UNCHANGED <<on, file, subscribed, collector, at, past, clicks, regime>>
  BY DEF Crash
<1>2. IdleProc \in Working /\ Fits(IdleProc) /\ proc \in [Procs -> Working]
  BY StateTypes DEF TypeInv
<1>3. /\ proc' \in [Procs -> Working] /\ proc'[p] = IdleProc
      /\ \A q \in Procs : q # p => proc'[q] = proc[q]
  BY <1>1, <1>2
<1>4. \A q \in Procs : Fits(proc'[q])
  BY <1>2, <1>3, HandTypes
<1>5. UNCHANGED <<known, approved, delivered>>
  BY <1>1 DEF collector
<1>6. /\ {on', subscribed'} \subseteq BOOLEAN /\ file' \in States /\ tmp' \subseteq Procs /\ held' \subseteq Procs
      /\ known' \subseteq Keys /\ approved' \subseteq known'
      /\ delivered' \subseteq 1..Len(at) /\ old' \subseteq 1..Len(at) /\ left' \subseteq 1..Len(at)
  BY <1>1, <1>5 DEF TypeInv, TypeOK
<1>7. clicks' \in 0..regime.clicks /\ asked' \in 0..clicks' /\ mishaps' \in 0..regime.mishaps
  BY <1>1, RegimeType DEF TypeInv, TypeOK
<1> QED
  BY <1>1, <1>3, <1>4, <1>6, <1>7, TypeFrame

\* An event is the last, and no earlier than those before it.
LEMMA EventAppends ==
  ASSUME TypeInv, Event
  PROVE  /\ Len(at') = Len(at) + 1 /\ Len(at') <= regime.events /\ at' \in Seq(1..regime.events)
         /\ Last' = at'[Len(at')] /\ Last' \in Last..(Last + 1) /\ Last' <= Len(at')
         /\ \A e \in 1..Len(at) : at'[e] = at[e]
         /\ Last' = Last => Len(at) \in 1..Len(at) /\ at[Len(at)] = Last
         /\ UNCHANGED <<on, file, tmp, held, proc, asked, subscribed, collector, past, counts>>
<1>1. PICK d \in {1} \cup (IF regime.sameSecond /\ at # <<>> THEN {0} ELSE {}) : at' = Append(at, Last + d)
  BY DEF Event
<1>2. Len(at) < regime.events /\ regime.events \in Nat /\ Len(at) \in Nat /\ Last <= Len(at) /\ Last \in Nat
  BY Numbers, LastType DEF Event, TypeInv, InOrder
<1>3. at \in Seq(1..regime.events)
  BY DEF TypeInv, TypeOK
<1>4. d \in {0, 1} /\ (d = 0 => at # <<>>)
  BY <1>1
<1>5. at # <<>> => Len(at) \in 1..Len(at) /\ at[Len(at)] = Last /\ Last \in 1..regime.events
  BY <1>2, <1>3 DEF Last
<1>6. Last + d \in 1..regime.events
  BY <1>2, <1>4, <1>5
<1>7. /\ Len(at') = Len(at) + 1 /\ at' \in Seq(1..regime.events) /\ at'[Len(at')] = Last + d /\ at' # <<>>
      /\ \A e \in 1..Len(at) : at'[e] = at[e]
  BY <1>1, <1>3, <1>6
<1>8. Last' = at'[Len(at')]
  BY <1>7 DEF Last
<1> QED
  BY <1>2, <1>4, <1>5, <1>7, <1>8 DEF Event

LEMMA TypeEvent ==
  ASSUME TypeInv, Event
  PROVE  TypeInv'
<1>1. UNCHANGED <<on, file, tmp, held, proc, asked, subscribed, known, approved, delivered, past,
                  clicks, mishaps, regime>>
  BY EventAppends DEF collector, counts
<1>2. 1..Len(at) \subseteq 1..Len(at')
  BY EventAppends, Numbers
<1>3. TypeOK'
  BY <1>1, <1>2, EventAppends, Fixed DEF TypeInv, TypeOK
<1>4. \A d, e \in 1..Len(at') : d <= e => at'[d] <= at'[e]
  <2> TAKE d, e \in 1..Len(at')
  <2> HAVE d <= e
  <2>1. CASE e \in 1..Len(at)
    <3>1. d \in 1..Len(at)
      BY <2>1
    <3> QED
      BY <2>1, <3>1, EventAppends DEF TypeInv, InOrder
  <2>2. CASE e = Len(at') /\ d \in 1..Len(at)
    <3>1. Len(at) \in 1..Len(at) /\ d <= Len(at) /\ at[d] <= at[Len(at)] /\ Last = at[Len(at)]
      BY <2>2, Numbers DEF TypeInv, InOrder, Last
    <3>2. at'[d] = at[d] /\ at'[e] >= Last
      BY <2>2, EventAppends, LastType
    <3>3. Last \in Int /\ at'[e] \in Int
      BY <2>2, EventAppends, LastType
    <3>4. at[d] \in Int
      BY <2>2, Seconds
    <3> QED
      BY <3>1, <3>2, <3>3, <3>4
  <2>3. CASE d = e
    <3>1. e \in 1..Len(at) \/ e = Len(at')
      BY EventAppends, Numbers
    <3>2. at'[d] \in Int
      BY <2>3, <3>1, EventAppends, Seconds, LastType
    <3> QED
      BY <2>3, <3>2
  <2> QED
    BY <2>1, <2>2, <2>3, EventAppends, Numbers
<1>5. (\A p \in Procs : Fits(proc[p]))'
  <2> SUFFICES ASSUME NEW p \in Procs PROVE Fits(proc[p])'
    OBVIOUS
  <2>1. proc[p].upto \in Int /\ Fits(proc[p]) /\ proc' = proc
    BY <1>1, HandTypes
  <2> QED
    BY <2>1, EventAppends, Numbers DEF Fits
<1>6. InOrder'
  BY <1>1, <1>4, <1>5, EventAppends DEF InOrder
<1> QED
  BY <1>1, <1>3, <1>6 DEF TypeInv

LEMMA TypeNext ==
  ASSUME TypeInv, [Next]_vars
  PROVE  TypeInv'
<1>1. CASE Toggle
  <2>1. /\ clicks < regime.clicks /\ clicks' = clicks + 1 /\ on' = ~on /\ asked' \in {0, asked + 1}
        /\ UNCHANGED <<file, tmp, held, proc, subscribed, known, approved, delivered, at, past, mishaps, regime>>
    BY <1>1 DEF Toggle, collector
  <2>2. clicks' \in 0..regime.clicks /\ asked' \in 0..clicks' /\ on' \in BOOLEAN
    BY <2>1, RegimeType DEF TypeInv, TypeOK
  <2>3. /\ file' \in States /\ held' \subseteq Procs /\ mishaps' \in 0..regime.mishaps
        /\ known' \subseteq Keys /\ approved' \subseteq known'
    BY <2>1 DEF TypeInv, TypeOK
  <2> QED
    BY <2>1, <2>2, <2>3, TypeStill
<1>2. CASE Approve
  <2>1. /\ approved' \subseteq known
        /\ UNCHANGED <<on, file, tmp, held, proc, asked, subscribed, known, delivered, at, past,
                       clicks, mishaps, regime>>
    BY <1>2 DEF Approve, counts, TypeInv, TypeOK
  <2>2. /\ on' \in BOOLEAN /\ file' \in States /\ held' \subseteq Procs /\ known' \subseteq Keys
        /\ clicks' \in 0..regime.clicks /\ asked' \in 0..clicks' /\ mishaps' \in 0..regime.mishaps
    BY <2>1, RegimeType DEF TypeInv, TypeOK
  <2> QED
    BY <2>1, <2>2, TypeStill
<1>3. CASE ForgetKey
  <2>1. /\ known' \subseteq known /\ approved' \subseteq known'
        /\ mishaps < regime.mishaps /\ mishaps' = mishaps + 1
        /\ UNCHANGED <<on, file, tmp, held, proc, asked, subscribed, delivered, at, past, clicks, regime>>
    BY <1>3 DEF ForgetKey, TypeInv, TypeOK
  <2>2. /\ on' \in BOOLEAN /\ file' \in States /\ held' \subseteq Procs /\ known' \subseteq Keys
        /\ clicks' \in 0..regime.clicks /\ asked' \in 0..clicks' /\ mishaps' \in 0..regime.mishaps
    BY <2>1, RegimeType DEF TypeInv, TypeOK
  <2> QED
    BY <2>1, <2>2, TypeStill
<1>4. CASE LoseFile
  <2>1. /\ file' = Gone /\ held' = {}
        /\ mishaps < regime.mishaps /\ mishaps' = mishaps + 1
        /\ UNCHANGED <<on, tmp, proc, asked, subscribed, known, approved, delivered, at, past, clicks, regime>>
    BY <1>4 DEF LoseFile, collector
  <2>2. file' \in States /\ held' \subseteq Procs
    BY <2>1, StateTypes DEF TypeInv
  <2>3. /\ on' \in BOOLEAN /\ known' \subseteq Keys /\ approved' \subseteq known'
        /\ clicks' \in 0..regime.clicks /\ asked' \in 0..clicks' /\ mishaps' \in 0..regime.mishaps
    BY <2>1, RegimeType DEF TypeInv, TypeOK
  <2> QED
    BY <2>1, <2>2, <2>3, TypeStill
<1>5. CASE UNCHANGED vars
  BY <1>5, Fixed DEF vars, collector, counts, TypeInv, TypeOK, InOrder, Fits, Last
<1> QED
  BY <1>1, <1>2, <1>3, <1>4, <1>5, TypeBegin, TypeBeginCheck, TypeStep, TypeCrash, TypeEvent DEF Next

\* Type correctness of the blocklist addon, for every regime and both processes:
\* in particular the keys in use never run past those given, and no cursor is
\* later than the number of events.
THEOREM TypeCorrect == Spec => []TypeOK
<1>1. Spec => []TypeInv
  BY TypeInit, TypeNext, PTL DEF Spec
<1> QED
  BY <1>1, PTL DEF TypeInv

-----------------------------------------------------------------------------
(* The cursors.                                                             *)

\* The cursors about: the state file's, those a process has read and those it
\* is about to write.
Cursors == {file.cursor} \cup {proc[p].st.cursor : p \in Procs} \cup {proc[p].new.cursor : p \in Procs}

\* Of an event no later than c the collector has been told, or of one before it
\* in the same second; and c is no later than the newest.
Told(e) == e \in Passed \/ \E d \in Passed : d < e /\ at[d] = at[e]
Safe(c) == c <= Last /\ \A e \in 1..Len(at) : at[e] <= c => Told(e)

CursorInv == TypeInv /\ \A c \in Cursors : Safe(c)

LEMMA CursorFacts ==
  ASSUME CursorInv
  PROVE  /\ TypeInv /\ Safe(0) /\ Safe(file.cursor) /\ Safe(Read.cursor)
         /\ \A p \in Procs : Safe(proc[p].st.cursor) /\ Safe(proc[p].new.cursor)
         /\ Gone.cursor = 0 /\ Torn.cursor = 0
<1>1. Safe(0)
  <2>1. 0 <= Last
    BY LastType DEF CursorInv
  <2>2. \A e \in 1..Len(at) : ~(at[e] <= 0)
    BY Seconds, Numbers DEF CursorInv
  <2> QED
    BY <2>1, <2>2 DEF Safe
<1>2. Safe(file.cursor) /\ \A p \in Procs : Safe(proc[p].st.cursor) /\ Safe(proc[p].new.cursor)
  BY DEF CursorInv, Cursors
<1>3. Gone.cursor = 0 /\ Torn.cursor = 0 /\ Read.cursor \in {file.cursor, 0}
  BY StateTypes DEF CursorInv, TypeInv
<1> QED
  BY <1>1, <1>2, <1>3 DEF CursorInv

\* More told is never less safe.
LEMMA SafeKept ==
  ASSUME NEW c, Safe(c), at' = at, delivered \subseteq delivered', old \subseteq old', left \subseteq left'
  PROVE  Safe(c)'
BY DEF Safe, Told, Passed, Last

\* No cursor is new.
LEMMA CursorKept ==
  ASSUME CursorInv, TypeInv', at' = at, delivered \subseteq delivered', old \subseteq old', left \subseteq left',
         \A c \in Cursors' : c = 0 \/ c \in Cursors \/ Safe(c)'
  PROVE  CursorInv'
<1>1. \A c \in Cursors' : Safe(c)'
  BY SafeKept, CursorFacts DEF CursorInv
<1> QED
  BY <1>1 DEF CursorInv

\* A save writes one, safe by then.
LEMMA CursorSave ==
  ASSUME CursorInv, TypeInv', NEW p \in Procs, NEW state \in States, NEW next \in Nexts, Save(p, state, next),
         at' = at, file' = file, delivered \subseteq delivered', old \subseteq old', left \subseteq left',
         NEW s, s = state.cursor, Safe(s)'
  PROVE  CursorInv'
<1>1. /\ proc'[p].st = Gone /\ proc'[p].new = [state EXCEPT !.is = "ok"]
      /\ \A q \in Procs : q # p => proc'[q] = proc[q]
  BY SaveTypes DEF CursorInv, TypeInv
<1>2. proc'[p].new.cursor = state.cursor /\ proc'[p].st.cursor = 0
  BY <1>1, CursorFacts DEF States
<1>3. ASSUME NEW q \in Procs
      PROVE  /\ proc'[q].st.cursor = 0 \/ proc'[q].st.cursor \in Cursors
             /\ proc'[q].new.cursor = s \/ proc'[q].new.cursor \in Cursors
  BY <1>1, <1>2 DEF Cursors
<1>4. \A c \in Cursors' : c = s \/ c = 0 \/ c \in Cursors
  BY <1>3 DEF Cursors
<1> QED
  BY <1>4, CursorKept

LEMMA CursorGoto ==
  ASSUME CursorInv, TypeInv', NEW p \in Procs, NEW pc \in Pcs, Goto(p, pc) \/ Stop(p),
         at' = at, file' \in {file, Gone}, delivered \subseteq delivered', old \subseteq old', left \subseteq left'
  PROVE  CursorInv'
<1>1. /\ proc'[p].st = Gone /\ proc'[p].new = Gone
      /\ \A q \in Procs : q # p => proc'[q] = proc[q]
  BY GotoTypes DEF CursorInv, TypeInv
<1>2. \A c \in Cursors' : c = 0 \/ c \in Cursors
  BY <1>1, CursorFacts DEF Cursors
<1> QED
  BY <1>2, CursorKept

\* What a process keeps when it saves what it read, but for the cursor.
LEMMA SaveReadCursor ==
  ASSUME TypeInv
  PROVE  /\ [Read EXCEPT !.audit = TRUE].cursor = Read.cursor
         /\ [Read EXCEPT !.sub = TRUE].cursor = Read.cursor
         /\ [Read EXCEPT !.status = "pending"].cursor = Read.cursor
         /\ [Read EXCEPT !.status = "approved"].cursor = Read.cursor
         /\ [Read EXCEPT !.key = None, !.status = ""].cursor = Read.cursor
         /\ \A k, c : [Read EXCEPT !.key = k, !.status = "pending", !.cursor = c].cursor = c
         /\ \A c : [Read EXCEPT !.cursor = c].cursor = c
<1>1. Read \in States
  BY StateTypes DEF TypeInv
<1> QED
  BY <1>1 DEF States

LEMMA CursorRegister ==
  ASSUME CursorInv, TypeInv', NEW p \in Procs, Register(p)
  PROVE  CursorInv'
<1>1. PICK k \in Keys, c \in 0..Last :
        /\ Save(p, [Read EXCEPT !.key = k, !.status = "pending", !.cursor = c], "status")
        /\ old' = old \cup {e \in 1..Len(at) : at[e] <= c}
  BY DEF Register
<1> DEFINE state == [Read EXCEPT !.key = k, !.status = "pending", !.cursor = c]
<1>2. state \in States /\ state.cursor = c
  <2>1. c \in 0..regime.events
    BY LastType, Numbers DEF CursorInv
  <2> QED
    BY <2>1, ReadEdits, Edits, SaveReadCursor DEF CursorInv
<1>3. at' = at /\ file' = file /\ delivered' = delivered /\ old \subseteq old' /\ left' = left
  BY <1>1 DEF Register
<1>4. Safe(c)'
  BY <1>1, <1>3, LastType DEF Safe, Told, Passed, Last, CursorInv
<1> HIDE DEF state
<1> QED
  BY <1>1, <1>2, <1>3, <1>4, CursorSave DEF state, Nexts

\* What the helper gave is told, what it left out is counted so, and an event of
\* the same second that came after the reading is no worse off.
LEMMA CursorReport ==
  ASSUME CursorInv, TypeInv', NEW p \in Procs, Report(p)
  PROVE  CursorInv'
<1>1. PICK from : from = proc[p].st.cursor
  OBVIOUS
<1>2. /\ delivered' = delivered \cup proc[p].got /\ left' = left \cup LeftOut(p)
      /\ at' = at /\ file' = file /\ old' = old
  BY DEF Report
<1>3. PICK c : /\ Save(p, [Read EXCEPT !.cursor = c], "subscribe")
               /\ c = from \/ \E n \in proc[p].got : c = at[n]
  BY <1>1 DEF Report
<1>4. Safe(from) /\ from \in 0..regime.events
  <2>1. \A s \in States : s.cursor \in 0..regime.events
    BY DEF States
  <2> QED
    BY <1>1, <2>1, CursorFacts, HandTypes
<1>5. Safe(c)' /\ c \in 0..regime.events
  <2>1. CASE c = from
    BY <1>2, <1>4, <2>1, SafeKept
  <2>2. ASSUME NEW n \in proc[p].got, c = at[n] PROVE Safe(c)' /\ c \in 0..regime.events
    <3>1. proc[p].upto \in Nat /\ proc[p].upto <= Len(at) /\ n \in 1..proc[p].upto /\ Len(at) \in Nat
      BY HandTypes DEF Fits, CursorInv
    <3>2. n \in 1..Len(at) /\ n \in Int
      BY <3>1
    <3>3. c \in 1..regime.events /\ c \in Int /\ from \in Int /\ regime.events \in Nat
      BY <1>4, <2>2, <3>2, Seconds, Numbers DEF CursorInv
    <3>4. c <= Last
      BY <2>2, <3>1, <3>2 DEF Last, CursorInv, TypeInv, InOrder
    <3>5. ASSUME NEW e \in 1..Len(at), at[e] <= c PROVE Told(e)'
      <4>1. CASE at[e] <= from
        <5>1. Told(e)
          BY <1>4, <4>1 DEF Safe
        <5> QED
          BY <5>1, <1>2 DEF Told, Passed
      <4>2. CASE at[e] > from /\ e <= proc[p].upto
        <5>1. e \in proc[p].got \/ e \in LeftOut(p)
          BY <1>1, <2>2, <3>1, <3>5, <4>2 DEF LeftOut
        <5> QED
          BY <5>1, <1>2 DEF Told, Passed
      <4>3. CASE proc[p].upto < e
        <5>1. n < e /\ c <= at[e]
          BY <2>2, <3>1, <3>2, <4>3 DEF CursorInv, TypeInv, InOrder
        <5>2. at[e] = c
          BY <3>3, <3>5, <5>1, Seconds DEF CursorInv
        <5> QED
          BY <1>2, <2>2, <5>1, <5>2 DEF Told, Passed
      <4>4. at[e] \in Int
        BY Seconds DEF CursorInv
      <4> QED
        BY <3>1, <3>3, <4>1, <4>2, <4>3, <4>4
    <3>6. Safe(c)'
      BY <1>2, <3>4, <3>5 DEF Safe, Last
    <3> QED
      BY <3>3, <3>6
  <2> QED
    BY <1>3, <1>4, <2>1, <2>2
<1>6. [Read EXCEPT !.cursor = c] \in States /\ [Read EXCEPT !.cursor = c].cursor = c
  BY <1>5, ReadEdits, SaveReadCursor DEF States, CursorInv
<1> QED
  BY <1>2, <1>3, <1>5, <1>6, CursorSave DEF Nexts

\* An event is past every cursor, or of the second of the one before it.
LEMMA CursorEvent ==
  ASSUME CursorInv, TypeInv', Event
  PROVE  CursorInv'
<1>1. /\ Len(at') = Len(at) + 1 /\ Last' = at'[Len(at')] /\ Last' \in Last..(Last + 1)
      /\ \A e \in 1..Len(at) : at'[e] = at[e]
      /\ Last' = Last => Len(at) \in 1..Len(at) /\ at[Len(at)] = Last
      /\ UNCHANGED <<delivered, past>> /\ Passed' = Passed /\ file' = file /\ proc' = proc
  BY EventAppends DEF CursorInv, collector, Passed
<1>2. Len(at) \in Nat /\ Last \in Int /\ Last' \in Int /\ Passed \subseteq 1..Len(at)
  <2>1. Len(at) \in Nat /\ Last \in 0..regime.events /\ regime.events \in Nat
    BY Numbers, LastType DEF CursorInv
  <2>2. Passed \subseteq 1..Len(at)
    BY DEF CursorInv, TypeInv, TypeOK, Passed
  <2> QED
    BY <1>1, <2>1, <2>2
<1>3. ASSUME NEW c \in Cursors, c \in Int PROVE Safe(c)'
  <2>1. Safe(c)
    BY DEF CursorInv
  <2>2. c <= Last'
    BY <1>1, <1>2, <1>3, <2>1 DEF Safe
  <2>3. ASSUME NEW e \in 1..Len(at), at[e] <= c PROVE Told(e)'
    <3>1. Told(e)
      BY <2>1, <2>3 DEF Safe
    <3>2. CASE e \in Passed
      BY <1>1, <3>2 DEF Told
    <3>3. CASE \E d \in Passed : d < e /\ at[d] = at[e]
      BY <1>1, <1>2, <3>3 DEF Told
    <3> QED
      BY <3>1, <3>2, <3>3 DEF Told
  <2>4. ASSUME NEW e, e = Len(at'), at'[e] <= c PROVE Told(e)'
    <3>1. Last' = Last
      BY <1>1, <1>2, <1>3, <2>1, <2>4 DEF Safe
    <3>2. Len(at) \in 1..Len(at) /\ at[Len(at)] = Last /\ Told(Len(at))
      BY <1>1, <2>1, <2>4, <3>1 DEF Safe
    <3>3. PICK d \in Passed : d <= Len(at) /\ at[d] = Last
      BY <1>2, <3>2 DEF Told
    <3>4. d < e /\ at'[d] = at'[e] /\ d \in Passed'
      BY <1>1, <1>2, <2>4, <3>1, <3>3
    <3> QED
      BY <3>4 DEF Told
  <2>5. ASSUME NEW e \in 1..Len(at'), at'[e] <= c PROVE Told(e)'
    <3>1. e \in 1..Len(at) \/ e = Len(at')
      BY <1>1, <1>2
    <3> QED
      BY <1>1, <2>3, <2>4, <2>5, <3>1
  <2> QED
    BY <2>2, <2>5 DEF Safe
<1>4. Cursors' = Cursors /\ \A c \in Cursors : c \in Int
  <2>1. \A s \in States : s.cursor \in 0..regime.events
    BY DEF States
  <2>2. file \in States /\ \A p \in Procs : proc[p].st \in States /\ proc[p].new \in States
    BY HandTypes DEF CursorInv, TypeInv, TypeOK
  <2> QED
    BY <1>1, <2>1, <2>2 DEF Cursors
<1> QED
  BY <1>3, <1>4 DEF CursorInv

LEMMA CursorStep ==
  ASSUME CursorInv, TypeInv', NEW p \in Procs, Step(p)
  PROVE  CursorInv'
<1>1. TypeInv
  BY DEF CursorInv
<1>2. CASE Rename(p)
  <2>1. /\ file' \in {file, Torn} \cup {proc[q].new : q \in Procs}
        /\ proc'[p].st \in {proc[p].new, Gone} /\ proc'[p].new = Gone
        /\ \A q \in Procs : q # p => proc'[q] = proc[q]
    BY <1>1, <1>2, TypeRename
  <2>2. at' = at /\ UNCHANGED <<delivered, past>>
    BY <1>2 DEF Rename, collector
  <2>3. \A c \in Cursors' : c = 0 \/ c \in Cursors
    BY <2>1, CursorFacts DEF Cursors
  <2> QED
    BY <2>2, <2>3, CursorKept
<1>3. CASE LookSwitch(p)
  <2>1. at' = at /\ file' = file /\ UNCHANGED <<delivered, past>>
    BY <1>3 DEF LookSwitch, collector
  <2>2. CASE proc' = [proc EXCEPT ![p].pc = "on"]
    <3>1. \A q \in Procs : proc'[q].st = proc[q].st /\ proc'[q].new = proc[q].new
      BY <1>1, <2>2, StateTypes DEF TypeInv, Working
    <3>2. \A c \in Cursors' : c \in Cursors
      BY <2>1, <3>1 DEF Cursors
    <3> QED
      BY <2>1, <3>2, CursorKept
  <2>3. CASE Save(p, [Read EXCEPT !.audit = TRUE], "on")
    <3>1. PICK s : s = Read.cursor
      OBVIOUS
    <3>2. Safe(s)' /\ s = [Read EXCEPT !.audit = TRUE].cursor
      BY <1>1, <2>1, <3>1, SaveReadCursor, CursorFacts, SafeKept
    <3> QED
      BY <1>1, <2>1, <2>3, <3>2, ReadEdits, CursorSave DEF Nexts
  <2>4. CASE Goto(p, "off") \/ Stop(p)
    BY <2>1, <2>4, CursorGoto DEF Pcs
  <2> QED
    BY <1>3, <2>2, <2>3, <2>4 DEF LookSwitch
<1>4. CASE Unsubscribe(p) \/ Unlink(p) \/ RetryLater(p) \/ SkipSubscribe(p) \/ LookSubscribed(p) \/ AddList(p)
  <2>1. /\ Stop(p) \/ Goto(p, "unlink") \/ Goto(p, "refresh") \/ Goto(p, "add")
        /\ at' = at /\ file' \in {file, Gone} /\ UNCHANGED <<delivered, past>>
    BY <1>4 DEF Unsubscribe, Unlink, RetryLater, SkipSubscribe, LookSubscribed, AddList, collector
  <2> QED
    BY <2>1, CursorGoto DEF Pcs
<1>5. CASE \/ TryRegister(p) \/ RegisterFails(p) \/ CheckStatus(p) \/ CheckUnanswered(p)
           \/ ReportFails(p) \/ AddFails(p) \/ Refresh(p)
  <2>1. at' = at /\ file' = file /\ delivered \subseteq delivered' /\ UNCHANGED past
    BY <1>5 DEF TryRegister, RegisterFails, CheckStatus, CheckUnanswered, ReportFails, AddFails, Refresh, collector
  <2>2. \E state \in States : \E next \in Nexts : Save(p, state, next) /\ state.cursor = Read.cursor
    <3>1. CASE TryRegister(p) \/ RegisterFails(p) \/ CheckUnanswered(p) \/ AddFails(p) \/ Refresh(p)
      BY <1>1, <3>1, ReadEdits, SaveReadCursor, HandTypes
      DEF TryRegister, RegisterFails, CheckUnanswered, AddFails, Refresh, Nexts
    <3>2. CASE CheckStatus(p)
      BY <1>1, <3>2, ReadEdits, SaveReadCursor, HandTypes DEF CheckStatus
    <3>3. CASE ReportFails(p)
      BY <1>1, <3>3, ReadEdits, SaveReadCursor DEF ReportFails, Nexts
    <3> QED
      BY <1>5, <3>1, <3>2, <3>3
  <2>3. PICK s : s = Read.cursor
    OBVIOUS
  <2>4. Safe(s)'
    BY <2>1, <2>3, CursorFacts, SafeKept
  <2> QED
    BY <2>1, <2>2, <2>3, <2>4, CursorSave
<1>6. CASE ReadEvents(p)
  <2>1. \A q \in Procs : proc'[q].st = proc[q].st /\ proc'[q].new = proc[q].new
    BY <1>1, <1>6, StateTypes DEF ReadEvents, TypeInv, Working
  <2>2. at' = at /\ file' = file /\ UNCHANGED <<delivered, past>>
    BY <1>6 DEF ReadEvents, collector
  <2>3. \A c \in Cursors' : c \in Cursors
    BY <2>1, <2>2 DEF Cursors
  <2> QED
    BY <2>2, <2>3, CursorKept
<1> QED
  BY <1>2, <1>3, <1>4, <1>5, <1>6, CursorRegister, CursorReport DEF Step

LEMMA CursorNext ==
  ASSUME CursorInv, [Next]_vars
  PROVE  CursorInv'
<1>1. TypeInv /\ TypeInv'
  BY TypeNext DEF CursorInv
<1>2. ASSUME NEW p \in Procs, Begin(p) PROVE CursorInv'
  <2>1. \A q \in Procs : proc'[q].st \in {proc[q].st, Read} /\ proc'[q].new = proc[q].new
    BY <1>1, <1>2, StateTypes DEF Begin, TypeInv, Working
  <2>2. at' = at /\ file' = file /\ UNCHANGED <<delivered, past>>
    BY <1>2 DEF Begin, collector
  <2>3. \A c \in Cursors' : c = 0 \/ c \in Cursors
    BY <1>1, <2>1, <2>2, StateTypes DEF Cursors, TypeInv
  <2> QED
    BY <1>1, <2>2, <2>3, CursorKept
<1>3. CASE BeginCheck
  <2>1. \A q \in Procs : proc'[q].st \in {proc[q].st, Read} /\ proc'[q].new = proc[q].new
    BY <1>1, <1>3, StateTypes DEF BeginCheck, TypeInv, Working
  <2>2. at' = at /\ file' = file /\ UNCHANGED <<delivered, past>>
    BY <1>3 DEF BeginCheck, collector
  <2>3. \A c \in Cursors' : c = 0 \/ c \in Cursors
    BY <1>1, <2>1, <2>2, StateTypes DEF Cursors, TypeInv
  <2> QED
    BY <1>1, <2>2, <2>3, CursorKept
<1>4. ASSUME NEW p \in Procs, Crash(p) PROVE CursorInv'
  <2>1. /\ proc'[p] = IdleProc /\ \A q \in Procs : q # p => proc'[q] = proc[q]
        /\ IdleProc.st = Gone /\ IdleProc.new = Gone
    BY <1>1, <1>4, TypeCrash DEF IdleProc
  <2>2. at' = at /\ file' = file /\ UNCHANGED <<delivered, past>>
    BY <1>4 DEF Crash, collector
  <2>3. \A c \in Cursors' : c = 0 \/ c \in Cursors
    BY <2>1, <2>2, CursorFacts DEF Cursors
  <2> QED
    BY <1>1, <2>2, <2>3, CursorKept
<1>5. CASE Toggle \/ Approve \/ ForgetKey \/ LoseFile \/ UNCHANGED vars
  <2>1. at' = at /\ file' \in {file, Gone} /\ UNCHANGED <<delivered, past>> /\ proc' = proc
    BY <1>5 DEF Toggle, Approve, ForgetKey, LoseFile, vars, collector
  <2>2. \A c \in Cursors' : c = 0 \/ c \in Cursors
    BY <2>1, CursorFacts DEF Cursors
  <2> QED
    BY <1>1, <2>1, <2>2, CursorKept
<1> QED
  BY <1>1, <1>2, <1>3, <1>4, <1>5, CursorStep, CursorEvent DEF Next

LEMMA CursorInit == Init => CursorInv
<1> SUFFICES ASSUME Init PROVE CursorInv
  OBVIOUS
<1>1. Last = 0 /\ Len(at) = 0
  BY DEF Init, Last
<1>2. \A c \in Cursors : c = 0
  BY DEF Init, Cursors, IdleProc, Gone
<1>3. Safe(0)
  BY <1>1 DEF Safe
<1> QED
  BY <1>2, <1>3, TypeInit DEF CursorInv

\* Whatever part of the events the helper gives: no event the cursor passed is
\* lost between the two processes, whichever moves it, whatever the other has in
\* hand and however many keys, files and answers are lost.  It was told, is older
\* than the lookback or shares its second with an earlier one that is; or the helper
\* left it out of an answer it gave newer events in.
THEOREM CursorNeverSkips == Spec => []CursorCovered
<1>1. CursorInv => CursorCovered
  BY CursorFacts DEF Safe, Told, CursorCovered
<1> QED
  BY <1>1, CursorInit, CursorNext, PTL DEF Spec
=============================================================================
