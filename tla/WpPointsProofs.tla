---------------------------- MODULE WpPointsProofs ----------------------------
(***************************************************************************)
(* Proofs about the restore points of one WordPress, for every number of      *)
(* tasks, pushes, readers, switches and points, and of points kept.  The list *)
(* of points is in many hands at once and any of them may be written back:    *)
(* that a point being made is in none of them is what keeps everyone else     *)
(* from deleting it.                                                         *)
(***************************************************************************)
EXTENDS WpPoints, SequenceTheorems, TLAPS

Threads == Tasks \cup Pushes
Pcs == {"idle", "files", "export", "trim", "save", "working", "checking", "restoring", "deleting", "unlisting"}
Ops == {"none", "point", "update", "push", "restore", "delete"}
TaskRecords == [pc : Pcs, op : Ops, name : 0..MaxPoints, seen : Inventory]

Types ==
    /\ saved \in Inventory
    /\ disk \in [Names -> {"none", "files", "full"}]
    /\ clock \in 0..MaxPoints
    /\ task \in [Threads -> TaskRecords]
    /\ reader \in [Readers -> [pc : {"idle", "reading"}, seen : Inventory]]
    /\ switch \in [Switches -> [pc : {"idle", "loaded"}, seen : Inventory, on : BOOLEAN]]
    /\ events \in 0..MaxEvents
    /\ pushed \in BOOLEAN

-----------------------------------------------------------------------------
(* Lists of points.                                                         *)

Once(s) == \A i, j \in 1..Len(s) : s[i] = s[j] => i = j

LEMMA ElementsOf ==
  ASSUME NEW S, NEW s \in Seq(S)
  PROVE  /\ ToSet(s) = {s[i] : i \in 1..Len(s)} /\ ToSet(s) \subseteq S
BY DEF ToSet

LEMMA AppendFacts ==
  ASSUME NEW S, NEW s \in Seq(S), NEW e \in S
  PROVE  /\ Append(s, e) \in Seq(S) /\ Len(Append(s, e)) = Len(s) + 1 /\ Append(s, e)[Len(s) + 1] = e
         /\ ToSet(Append(s, e)) = ToSet(s) \cup {e}
         /\ Once(s) /\ e \notin ToSet(s) => Once(Append(s, e))
<1>1. PICK r : r = Append(s, e)
  OBVIOUS
<1>2. /\ r \in Seq(S) /\ Len(r) = Len(s) + 1 /\ r[Len(s) + 1] = e /\ Len(s) \in Nat
      /\ \A i \in 1..Len(s) : r[i] = s[i]
  BY <1>1
<1>3. 1..Len(r) = 1..Len(s) \cup {Len(r)}
  BY <1>2
<1>4. ToSet(r) = ToSet(s) \cup {e}
  BY <1>2, <1>3, ElementsOf
<1>5. Once(s) /\ e \notin ToSet(s) => Once(r)
  BY <1>2, <1>3, ElementsOf DEF Once
<1> QED
  BY <1>1, <1>2, <1>4, <1>5

\* Of a list too long the last are kept, and the newest of all among them.
LEMMA NewestFacts ==
  ASSUME NEW S, NEW s \in Seq(S), s # <<>>, Once(s)
  PROVE  /\ Newest(s) \in Seq(S) /\ Once(Newest(s)) /\ ToSet(Newest(s)) \subseteq ToSet(s)
         /\ s[Len(s)] \in ToSet(Newest(s))
<1>1. KeepPoints \in Nat \ {0} /\ Len(s) \in Nat /\ Len(s) # 0
  BY PointConstants, EmptySeq
<1>2. CASE Len(s) <= KeepPoints
  BY <1>1, <1>2, ElementsOf DEF Newest
<1>3. CASE ~(Len(s) <= KeepPoints)
  <2>1. PICK m \in Int : m = Len(s) - KeepPoints
    BY <1>1
  <2>2. m \in Nat /\ m < Len(s) /\ \A i \in (m + 1)..Len(s) : s[i] \in S
    BY <1>1, <1>3, <2>1
  <2>3. PICK r : r = SubSeq(s, m + 1, Len(s))
    OBVIOUS
  <2>4. r \in Seq(S) /\ Len(r) = Len(s) - m /\ \A i \in 1..Len(r) : r[i] = s[m + i]
    BY <1>1, <2>2, <2>3, SubSeqProperties
  <2>5. \A i \in 1..Len(r) : m + i \in 1..Len(s)
    BY <1>1, <2>2, <2>4
  <2>6. ToSet(r) \subseteq ToSet(s)
    BY <2>4, <2>5, ElementsOf
  <2>7. r[Len(r)] = s[Len(s)] /\ Len(r) \in 1..Len(r)
    BY <1>1, <2>2, <2>4
  <2>8. s[Len(s)] \in ToSet(r)
    BY <2>4, <2>7, ElementsOf
  <2>9. Once(r)
    <3> SUFFICES ASSUME NEW i \in 1..Len(r), NEW k \in 1..Len(r), r[i] = r[k] PROVE i = k
      BY DEF Once
    <3>1. m + i = m + k
      BY <2>4, <2>5 DEF Once
    <3> QED
      BY <2>2, <3>1
  <2>10. Newest(s) = r
    BY <1>1, <1>3, <2>1, <2>3 DEF Newest, LastKept
  <2> QED
    BY <2>4, <2>6, <2>8, <2>9, <2>10
<1> QED
  BY <1>2, <1>3

\* A list without one of its names.
LEMMA WithoutFacts ==
  ASSUME NEW S, NEW s \in Seq(S), Once(s), NEW e
  PROVE  /\ Without(s, e) \in Seq(S) /\ Once(Without(s, e)) /\ ToSet(Without(s, e)) \subseteq ToSet(s)
<1>1. CASE ~Contains(s, e)
  BY <1>1 DEF Without
<1>2. CASE Contains(s, e)
  <2>1. PICK j \in 1..Len(s) : j = CHOOSE i \in 1..Len(s) : s[i] = e
    BY <1>2 DEF Contains
  <2>2. Len(s) \in Nat /\ j \in Nat /\ 1 <= j /\ j <= Len(s) /\ \A i \in 1..Len(s) : s[i] \in S
    OBVIOUS
  <2>3. PICK l, r : l = SubSeq(s, 1, j - 1) /\ r = SubSeq(s, j + 1, Len(s))
    OBVIOUS
  <2>4. l \in Seq(S) /\ Len(l) = j - 1 /\ \A i \in 1..(j - 1) : l[i] = s[i]
    <3>1. j - 1 \in Int /\ \A i \in 1..(j - 1) : s[i] \in S
      BY <2>2
    <3> QED
      BY <2>2, <2>3, <3>1, SubSeqProperties
  <2>5. r \in Seq(S) /\ Len(r) = Len(s) - j /\ \A i \in 1..(Len(s) - j) : r[i] = s[j + i]
    <3>1. j + 1 \in Int /\ \A i \in (j + 1)..Len(s) : s[i] \in S
      BY <2>2
    <3> QED
      BY <2>2, <2>3, <3>1, SubSeqProperties
  <2>6. PICK w : w = l \o r
    OBVIOUS
  <2>7. /\ w \in Seq(S) /\ Len(w) = Len(s) - 1
        /\ \A i \in 1..(j - 1) : w[i] = s[i]
        /\ \A i \in j..(Len(s) - 1) : w[i] = s[i + 1]
    <3>1. /\ w \in Seq(S) /\ Len(w) = Len(l) + Len(r)
          /\ \A i \in 1..(Len(l) + Len(r)) : w[i] = IF i <= Len(l) THEN l[i] ELSE r[i - Len(l)]
      BY <2>4, <2>5, <2>6, ConcatProperties
    <3>2. Len(l) + Len(r) = Len(s) - 1 /\ Len(l) = j - 1
      BY <2>2, <2>4, <2>5
    <3>3. \A i \in 1..(j - 1) : w[i] = s[i]
      BY <2>2, <2>4, <3>1, <3>2
    <3>4. ASSUME NEW i \in j..(Len(s) - 1) PROVE w[i] = s[i + 1]
      <4>1. i \in 1..(Len(l) + Len(r)) /\ ~(i <= Len(l)) /\ i - Len(l) = i - j + 1
        BY <2>2, <3>2
      <4>2. w[i] = r[i - j + 1] /\ i - j + 1 \in 1..(Len(s) - j) /\ j + (i - j + 1) = i + 1
        BY <2>2, <3>1, <4>1
      <4> QED
        BY <2>5, <4>2
    <3> QED
      BY <3>1, <3>2, <3>3, <3>4
  <2>8. \A i \in 1..Len(w) : (i \in 1..(j - 1) \/ i \in j..(Len(s) - 1)) /\ i \in 1..Len(s) /\ i + 1 \in 1..Len(s)
    BY <2>2, <2>7
  <2>9. ToSet(w) \subseteq ToSet(s)
    BY <2>7, <2>8, ElementsOf
  <2>10. Once(w)
    <3> SUFFICES ASSUME NEW i \in 1..Len(w), NEW k \in 1..Len(w), w[i] = w[k] PROVE i = k
      BY DEF Once
    <3>0. \A x \in 1..Len(w) : \E a \in 1..Len(s) : w[x] = s[a] /\ ((a = x /\ x < j) \/ (a = x + 1 /\ x >= j))
      <4> SUFFICES ASSUME NEW x \in 1..Len(w)
                   PROVE  \E a \in 1..Len(s) : w[x] = s[a] /\ ((a = x /\ x < j) \/ (a = x + 1 /\ x >= j))
        OBVIOUS
      <4>1. CASE x \in 1..(j - 1)
        <5>1. w[x] = s[x]
          BY <2>7, <4>1
        <5>2. x \in 1..Len(s) /\ x < j
          BY <2>2, <2>8, <4>1
        <5> WITNESS x \in 1..Len(s)
        <5> QED
          BY <5>1, <5>2
      <4>2. CASE x \in j..(Len(s) - 1)
        <5>1. w[x] = s[x + 1] /\ x + 1 \in 1..Len(s) /\ x >= j
          BY <2>2, <2>7, <2>8, <4>2
        <5> QED
          BY <5>1
      <4> QED
        BY <2>8, <4>1, <4>2
    <3>1. PICK a \in 1..Len(s) : w[i] = s[a] /\ ((a = i /\ i < j) \/ (a = i + 1 /\ i >= j))
      BY <3>0
    <3>2. PICK b \in 1..Len(s) : w[k] = s[b] /\ ((b = k /\ k < j) \/ (b = k + 1 /\ k >= j))
      BY <3>0
    <3>3. a = b
      BY <3>1, <3>2 DEF Once
    <3> QED
      BY <2>2, <3>1, <3>2, <3>3
  <2>11. Without(s, e) = w
    BY <1>2, <2>1, <2>3, <2>6 DEF Without, RemoveAt
  <2> QED
    BY <2>7, <2>9, <2>10, <2>11
<1> QED
  BY <1>1, <1>2

-----------------------------------------------------------------------------
(* The inductive invariant.                                                  *)

\* Between the point's name being given and the list with it being saved.
Makes(w) == w.pc \in {"files", "export", "trim", "save"}
\* Between a listed point being picked and being done with.
Holds(w) == w.pc \in {"restoring", "deleting", "unlisting"}

\* What x lists, each point once, has been begun, and nobody is making it.
Fits(x, tasks, now) ==
    /\ x \in Inventory /\ Once(x.points) /\ ToSet(x.points) \subseteq 1..now
    /\ \A t \in Threads : Makes(tasks[t]) => tasks[t].name \notin ToSet(x.points)

\* That is so of the saved inventory and of everyone's copy of it.
CopiesFit ==
    /\ Fits(saved, task, clock)
    /\ \A t \in Threads : Fits(task[t].seen, task, clock)
    /\ \A r \in Readers : Fits(reader[r].seen, task, clock)
    /\ \A s \in Switches : Fits(switch[s].seen, task, clock)

\* A point is made by one thread, and nobody else is at it; pushes only make.
OwnPoints ==
    /\ \A t \in Threads : Holds(task[t]) => t \in Tasks
    /\ \A t \in Threads : Makes(task[t]) \/ Holds(task[t]) => task[t].name \in 1..clock
    /\ \A t, u \in Threads :
          t # u /\ Makes(task[t]) /\ (Makes(task[u]) \/ Holds(task[u])) => task[t].name # task[u].name

\* An exported point is whole until it is listed.
Whole == \A t \in Threads : task[t].pc \in {"trim", "save"} => disk[task[t].name] = "full"

\* The tasks of this WordPress take turns.
Turns == \A t, u \in Tasks : t # u => task[t].pc = "idle" \/ task[u].pc = "idle"

\* Without a push, the point being made is the last begun, and the point made
\* stays until the work is done.
Unpushed ==
    ~pushed => /\ \A t \in Pushes : task[t].pc = "idle"
               /\ \A t \in Threads : Makes(task[t]) => task[t].name = clock
               /\ \A t \in Threads :
                    task[t].pc = "working" /\ task[t].name # 0 => disk[task[t].name] = "full"

Inv == Types /\ CopiesFit /\ OwnPoints /\ Whole /\ Turns /\ Unpushed

\* The types of the module, from the invariant's.
LEMMA TypesSuffice == Types => TypeOK
BY DEF Types, TypeOK, TaskRecords, Threads, Pcs, Ops

LEMMA NothingFits ==
  ASSUME NEW tasks, NEW now \in Nat, NEW on \in BOOLEAN
  PROVE  Fits([points |-> <<>>, auto |-> on], tasks, now)
<1> DEFINE x == [points |-> <<>>, auto |-> on]
<1>1. x \in Inventory /\ x.points = <<>> /\ x.points \in Seq({})
  BY EmptySeq DEF Inventory
<1>2. Len(x.points) = 0 /\ ToSet(x.points) = {}
  <2>1. Len(x.points) = 0 /\ 1..0 = {}
    BY <1>1, EmptySeq
  <2> QED
    BY <1>1, <2>1, ElementsOf
<1> HIDE DEF x
<1>3. Fits(x, tasks, now)
  BY <1>1, <1>2 DEF Fits, Once
<1> QED
  BY <1>3 DEF x

\* The switch changes nothing of what an inventory lists.
LEMMA SwitchFits ==
  ASSUME NEW tasks, NEW now, NEW x, Fits(x, tasks, now), NEW on \in BOOLEAN
  PROVE  Fits([x EXCEPT !.auto = on], tasks, now)
<1>1. x \in Inventory
  BY DEF Fits
<1>2. PICK y : y = [x EXCEPT !.auto = on]
  OBVIOUS
<1>3. y \in Inventory /\ y.points = x.points
  BY <1>1, <1>2 DEF Inventory
<1>4. Fits(y, tasks, now)
  BY <1>3 DEF Fits
<1> QED
  BY <1>2, <1>4

\* What a step of thread t, which leaves it as w, does to a fitting inventory:
\* nothing, if w makes what t made or a point begun just now.
LEMMA StillFits ==
  ASSUME Types, NEW t \in Threads, NEW w, task' = [task EXCEPT ![t] = w],
         NEW now \in Nat, clock <= now,
         Makes(w) => (Makes(task[t]) /\ w.name = task[t].name) \/ (w.name = clock + 1),
         NEW x, Fits(x, task, clock)
  PROVE  Fits(x, task', now)
<1>1. task'[t] = w /\ \A u \in Threads \ {t} : task'[u] = task[u]
  BY DEF Types
<1>2. clock \in Nat
  BY PointConstants DEF Types
<1>3. 1..clock \subseteq 1..now /\ clock + 1 \notin 1..clock
  BY <1>2
<1>4. ASSUME NEW u \in Threads, Makes(task'[u]) PROVE task'[u].name \notin ToSet(x.points)
  <2>1. CASE u = t
    BY <1>1, <1>3, <1>4, <2>1 DEF Fits
  <2>2. CASE u # t
    BY <1>1, <1>4, <2>2 DEF Fits
  <2> QED
    BY <2>1, <2>2
<1> QED
  BY <1>3, <1>4 DEF Fits

\* A step of thread t keeps the invariant when it keeps to these rules.
LEMMA ThreadMoves ==
  ASSUME Inv, NEW t \in Threads, NEW w \in TaskRecords, task' = [task EXCEPT ![t] = w],
         UNCHANGED <<reader, switch, events>>,
         clock' \in 0..MaxPoints, clock <= clock', pushed' \in BOOLEAN, pushed => pushed',
         disk' \in [Names -> {"none", "files", "full"}],
         Fits(saved', task', clock'), Fits(w.seen, task', clock'),
         Makes(w) => \/ Makes(task[t]) /\ w.name = task[t].name
                     \/ w.name = clock + 1 /\ clock' = clock + 1,
         Holds(w) => /\ t \in Tasks /\ w.name \in 1..clock
                     /\ \A u \in Threads \ {t} : Makes(task[u]) => task[u].name # w.name,
         \A u \in Threads \ {t} : Makes(task[u]) /\ disk[task[u].name] = "full" => disk'[task[u].name] = "full",
         w.pc \in {"trim", "save"} => disk'[w.name] = "full",
         t \in Tasks => \A u \in Tasks \ {t} : task[u].pc = "idle",
         t \in Pushes => pushed',
         ~pushed' => /\ Makes(w) => w.name = clock'
                     /\ w.pc = "working" /\ w.name # 0 => disk'[w.name] = "full"
  PROVE  Inv'
<1>1. task'[t] = w /\ \A u \in Threads \ {t} : task'[u] = task[u]
  BY DEF Inv, Types
<1>2. clock \in Nat /\ clock' \in Nat
  BY PointConstants DEF Inv, Types
<1>3. Types'
  <2>1. task' \in [Threads -> TaskRecords]
    BY DEF Inv, Types
  <2>2. saved' \in Inventory
    BY DEF Fits
  <2> QED
    BY <2>1, <2>2 DEF Inv, Types
<1>4. ASSUME NEW x, Fits(x, task, clock) PROVE Fits(x, task', clock')
  BY <1>2, <1>4, StillFits DEF Inv
<1>5. CopiesFit'
  <2>1. \A u \in Threads : Fits(task'[u].seen, task', clock')
    BY <1>1, <1>4 DEF Inv, CopiesFit
  <2>2. \A r \in Readers : Fits(reader'[r].seen, task', clock')
    BY <1>4 DEF Inv, CopiesFit
  <2>3. \A s \in Switches : Fits(switch'[s].seen, task', clock')
    BY <1>4 DEF Inv, CopiesFit
  <2> QED
    BY <2>1, <2>2, <2>3 DEF CopiesFit
<1>6. OwnPoints'
  <2>0. \A u \in Threads : Holds(task'[u]) => u \in Tasks
    BY <1>1 DEF Inv, OwnPoints
  <2>1. \A u \in Threads \ {t} : Makes(task[u]) \/ Holds(task[u]) => task[u].name \in 1..clock
    BY DEF Inv, OwnPoints
  <2>2. Makes(task[t]) => task[t].name \in 1..clock
    BY DEF Inv, OwnPoints
  <2>3. 1..clock \subseteq 1..clock' /\ clock + 1 \notin 1..clock
    BY <1>2
  <2>4. Makes(w) \/ Holds(w) => w.name \in 1..clock'
    BY <1>2, <2>2, <2>3
  <2>5. \A u \in Threads : Makes(task'[u]) \/ Holds(task'[u]) => task'[u].name \in 1..clock'
    BY <1>1, <2>1, <2>3, <2>4
  <2>6. ASSUME NEW u \in Threads \ {t} PROVE /\ Makes(w) /\ (Makes(task[u]) \/ Holds(task[u])) => w.name # task[u].name
                                             /\ Makes(task[u]) /\ Holds(w) => task[u].name # w.name
    <3>1. Makes(task[t]) /\ (Makes(task[u]) \/ Holds(task[u])) => task[t].name # task[u].name
      BY DEF Inv, OwnPoints
    <3> QED
      BY <2>1, <2>3, <3>1
  <2>7. \A v, u \in Threads :
           v # u /\ Makes(task'[v]) /\ (Makes(task'[u]) \/ Holds(task'[u])) => task'[v].name # task'[u].name
    <3> SUFFICES ASSUME NEW v \in Threads, NEW u \in Threads,
                        v # u, Makes(task'[v]), Makes(task'[u]) \/ Holds(task'[u])
                 PROVE  task'[v].name # task'[u].name
      OBVIOUS
    <3>1. CASE v = t
      BY <1>1, <2>6, <3>1
    <3>2. CASE u = t
      BY <1>1, <2>6, <3>2
    <3>3. CASE v # t /\ u # t
      BY <1>1, <3>3 DEF Inv, OwnPoints
    <3> QED
      BY <3>1, <3>2, <3>3
  <2> QED
    BY <2>0, <2>5, <2>7 DEF OwnPoints
<1>7. Whole'
  <2>1. \A u \in Threads \ {t} : task[u].pc \in {"trim", "save"} => disk'[task[u].name] = "full"
    BY DEF Inv, Whole, Makes
  <2> QED
    BY <1>1, <2>1 DEF Whole
<1>8. Turns'
  <2>1. Tasks \subseteq Threads
    BY DEF Threads
  <2> QED
    BY <1>1, <2>1 DEF Inv, Turns
<1>9. Unpushed'
  <2> SUFFICES ASSUME ~pushed' PROVE /\ \A u \in Pushes : task'[u].pc = "idle"
                                     /\ \A u \in Threads : Makes(task'[u]) => task'[u].name = clock'
                                     /\ \A u \in Threads :
                                          task'[u].pc = "working" /\ task'[u].name # 0 => disk'[task'[u].name] = "full"
    BY DEF Unpushed
  <2>1. t \in Tasks /\ t \notin Pushes
    BY DEF Threads
  <2>2. \A u \in Threads \ {t} : task'[u].pc = "idle"
    <3>1. \A u \in Threads \ {t} : task[u].pc = "idle"
      BY <2>1 DEF Threads, Inv, Unpushed
    <3> QED
      BY <1>1, <3>1
  <2> QED
    BY <1>1, <2>1, <2>2 DEF Threads, Makes
<1> QED
  BY <1>3, <1>5, <1>6, <1>7, <1>8, <1>9 DEF Inv

\* So does a step of a reader or a switch, if what it writes and copies fits.
LEMMA OthersMove ==
  ASSUME Inv, UNCHANGED <<disk, clock, task, pushed>>,
         reader' \in [Readers -> [pc : {"idle", "reading"}, seen : Inventory]],
         switch' \in [Switches -> [pc : {"idle", "loaded"}, seen : Inventory, on : BOOLEAN]],
         events' \in 0..MaxEvents,
         Fits(saved', task, clock),
         \A r \in Readers : Fits(reader'[r].seen, task, clock),
         \A s \in Switches : Fits(switch'[s].seen, task, clock)
  PROVE  Inv'
<1>1. Types'
  BY DEF Inv, Types, Fits
<1>2. CopiesFit'
  BY DEF Inv, CopiesFit
<1>3. OwnPoints' /\ Whole' /\ Turns' /\ Unpushed'
  BY DEF Inv, OwnPoints, Whole, Turns, Unpushed
<1> QED
  BY <1>1, <1>2, <1>3 DEF Inv

-----------------------------------------------------------------------------
(* Every step keeps it.                                                      *)

LEMMA InitInv == Init => Inv
<1> SUFFICES ASSUME Init PROVE Inv
  OBVIOUS
<1>1. clock = 0 /\ clock \in Nat
  BY DEF Init
<1>2. Fits(saved, task, clock) /\ Fits(Nothing, task, clock)
  <2>1. PICK on \in BOOLEAN : saved = [Nothing EXCEPT !.auto = on]
    BY DEF Init
  <2>2. Fits(Nothing, task, clock)
    BY <1>1, NothingFits DEF Nothing
  <2> QED
    BY <2>1, <2>2, SwitchFits
<1>3. Nothing \in Inventory /\ saved \in Inventory
  BY <1>2 DEF Fits
<1>4. Types
  <2>1. task \in [Threads -> TaskRecords]
    <3>1. IdleTask \in TaskRecords
      BY <1>3, PointConstants DEF IdleTask, TaskRecords, Pcs, Ops
    <3> QED
      BY <3>1 DEF Init, Threads
  <2>2. reader \in [Readers -> [pc : {"idle", "reading"}, seen : Inventory]]
    BY <1>3 DEF Init, IdleReader
  <2>3. switch \in [Switches -> [pc : {"idle", "loaded"}, seen : Inventory, on : BOOLEAN]]
    BY <1>3 DEF Init, IdleSwitch
  <2>4. clock \in 0..MaxPoints /\ events \in 0..MaxEvents
    BY PointConstants DEF Init
  <2>5. disk \in [Names -> {"none", "files", "full"}] /\ pushed \in BOOLEAN
    BY DEF Init
  <2> QED
    BY <1>3, <2>1, <2>2, <2>3, <2>4, <2>5 DEF Types
<1>5. CopiesFit
  BY <1>2 DEF Init, CopiesFit, Threads, IdleTask, IdleReader, IdleSwitch
<1>6. OwnPoints /\ Whole /\ Turns /\ Unpushed
  BY DEF Init, OwnPoints, Whole, Turns, Unpushed, Threads, IdleTask, Makes, Holds
<1> QED
  BY <1>4, <1>5, <1>6 DEF Inv

LEMMA NoneListed == Inv => Fits(Nothing, task, clock) /\ Nothing \in Inventory
<1> SUFFICES ASSUME Inv PROVE Fits(Nothing, task, clock) /\ Nothing \in Inventory
  OBVIOUS
<1>1. clock \in Nat
  BY PointConstants DEF Inv, Types
<1>2. Fits(Nothing, task, clock)
  BY <1>1, NothingFits DEF Nothing
<1> QED
  BY <1>2 DEF Fits

\* What the invariant says of a thread in the middle of a task.
LEMMA MidTask ==
  ASSUME Inv, NEW t \in Threads
  PROVE  /\ task[t] \in TaskRecords /\ clock \in 0..MaxPoints /\ clock \in Nat /\ clock <= clock
         /\ task[t].pc # "idle" => /\ t \in Tasks => \A u \in Tasks \ {t} : task[u].pc = "idle"
                                   /\ t \in Pushes => pushed
         /\ Makes(task[t]) \/ Holds(task[t]) => task[t].name \in 1..clock /\ task[t].name \in Names
         /\ Fits(saved, task, clock) /\ Fits(task[t].seen, task, clock) /\ Fits(Nothing, task, clock)
<1>1. task[t] \in TaskRecords /\ clock \in 0..MaxPoints /\ clock \in Nat /\ clock <= clock
  BY PointConstants DEF Inv, Types
<1>2. task[t].pc # "idle" => /\ t \in Tasks => \A u \in Tasks \ {t} : task[u].pc = "idle"
                             /\ t \in Pushes => pushed
  BY DEF Inv, Turns, Unpushed, Threads
<1>3. Makes(task[t]) \/ Holds(task[t]) => task[t].name \in 1..clock /\ task[t].name \in Names
  BY <1>1, PointConstants DEF Inv, OwnPoints, Names
<1>4. Fits(saved, task, clock) /\ Fits(task[t].seen, task, clock) /\ Fits(Nothing, task, clock)
  BY NoneListed DEF Inv, CopiesFit
<1> QED
  BY <1>1, <1>2, <1>3, <1>4

\* A step that leaves the disk and the inventory alone.
LEMMA QuietMoves ==
  ASSUME Inv, NEW t \in Threads, NEW w \in TaskRecords, task' = [task EXCEPT ![t] = w],
         UNCHANGED <<saved, disk, clock, reader, switch, events, pushed>>,
         w.seen \in {Nothing, saved, task[t].seen},
         ~Makes(w), w.pc = "working" => w.name = 0,
         Holds(w) => /\ t \in Tasks /\ w.name \in 1..clock
                     /\ \A u \in Threads \ {t} : Makes(task[u]) => task[u].name # w.name,
         t \in Tasks => \A u \in Tasks \ {t} : task[u].pc = "idle",
         t \in Pushes => pushed
  PROVE  Inv'
<1>1. Fits(saved', task', clock') /\ Fits(w.seen, task', clock')
  BY MidTask, StillFits DEF Inv
<1>2. disk' \in [Names -> {"none", "files", "full"}] /\ pushed' \in BOOLEAN
  BY DEF Inv, Types
<1> QED
  BY <1>1, <1>2, MidTask, ThreadMoves DEF Makes

LEMMA BeginUpdateWithoutPointStep ==
  ASSUME Inv, NEW t \in Threads, BeginUpdateWithoutPoint(t) PROVE Inv'
<1>1. PICK w : w = [pc |-> "working", op |-> "update", name |-> 0, seen |-> Nothing]
  OBVIOUS
<1>2. w \in TaskRecords
  BY <1>1, MidTask, PointConstants DEF TaskRecords, Pcs, Ops, Fits
<1>3. t \in Tasks /\ t \notin Pushes /\ \A u \in Tasks \ {t} : task[u].pc = "idle"
  BY PointConstants DEF BeginUpdateWithoutPoint, MayStart, Idle
<1> QED
  BY <1>1, <1>2, <1>3, QuietMoves DEF BeginUpdateWithoutPoint, Makes, Holds

LEMMA BeginPointStep ==
  ASSUME Inv, NEW t \in Threads, NEW op \in {"point", "update", "push"}, BeginPoint(t, op) PROVE Inv'
<1>1. PICK w : w = [pc |-> "files", op |-> op, name |-> clock + 1, seen |-> Nothing]
  OBVIOUS
<1>2. w \in TaskRecords /\ clock' = clock + 1 /\ clock' \in 0..MaxPoints
  BY <1>1, MidTask, PointConstants DEF BeginPoint, TaskRecords, Pcs, Ops, Fits
<1>3. clock' \in Nat /\ clock <= clock' /\ task' = [task EXCEPT ![t] = w]
  BY <1>1, <1>2, MidTask DEF BeginPoint
<1>4. Fits(saved', task', clock') /\ Fits(w.seen, task', clock')
  <2>1. saved' = saved /\ w.seen = Nothing /\ w.name = clock + 1 /\ Types
    BY <1>1 DEF Inv, BeginPoint
  <2> QED
    BY <1>3, <2>1, MidTask, StillFits
<1>5. t \in Tasks => \A u \in Tasks \ {t} : task[u].pc = "idle"
  BY DEF BeginPoint, MayStart, Idle
<1>6. pushed' \in BOOLEAN /\ (pushed => pushed') /\ (t \in Pushes => pushed')
  BY DEF Inv, Types, BeginPoint
<1>7. disk' = disk /\ disk' \in [Names -> {"none", "files", "full"}]
  BY DEF Inv, Types, BeginPoint
<1> QED
  BY <1>1, <1>2, <1>3, <1>4, <1>5, <1>6, <1>7, ThreadMoves DEF BeginPoint, Makes, Holds

LEMMA FilesTakenStep ==
  ASSUME Inv, NEW t \in Threads, FilesTaken(t) PROVE Inv'
<1>1. PICK w : w = [task[t] EXCEPT !.pc = "export", !.seen = saved]
  OBVIOUS
<1>2. w \in TaskRecords /\ task' = [task EXCEPT ![t] = w]
  <2>1. task[t] \in TaskRecords /\ saved \in Inventory
    BY MidTask DEF Fits
  <2>2. w \in TaskRecords
    BY <1>1, <2>1 DEF TaskRecords, Pcs
  <2>3. task' = [task EXCEPT ![t] = w]
    BY <1>1 DEF FilesTaken, GoReading
  <2> QED
    BY <2>2, <2>3
<1>3. Makes(task[t]) /\ Makes(w) /\ ~Holds(w) /\ w.name = task[t].name /\ w.seen = saved /\ task[t].pc # "idle" /\ w.pc = "export"
  BY <1>1, MidTask DEF TaskRecords, FilesTaken, Makes, Holds
<1>4. clock' = clock /\ saved' = saved /\ pushed' = pushed /\ UNCHANGED <<reader, switch, events>>
  BY DEF FilesTaken
<1>5. Fits(saved', task', clock') /\ Fits(w.seen, task', clock')
  BY <1>2, <1>3, <1>4, MidTask, StillFits DEF Inv
<1>6. disk' \in [Names -> {"none", "files", "full"}] /\ pushed' \in BOOLEAN
  BY MidTask, <1>4 DEF FilesTaken, Inv, Types
<1>7. \A u \in Threads \ {t} : Makes(task[u]) => task[u].name # task[t].name
  BY <1>3 DEF Inv, OwnPoints
<1>8. \A u \in Threads \ {t} : Makes(task[u]) /\ disk[task[u].name] = "full" => disk'[task[u].name] = "full"
  BY <1>7, MidTask DEF FilesTaken, Inv, Types
<1>9. ~pushed' => w.name = clock'
  BY <1>3, <1>4 DEF Inv, Unpushed
<1> QED
  BY <1>1, <1>2, <1>3, <1>4, <1>5, <1>6, <1>8, <1>9, MidTask, ThreadMoves

LEMMA ExportedStep ==
  ASSUME Inv, NEW t \in Threads, Exported(t) PROVE Inv'
<1>1. PICK w : w = [task[t] EXCEPT !.pc = "trim"]
  OBVIOUS
<1>2. w \in TaskRecords /\ task' = [task EXCEPT ![t] = w]
  <2>1. w \in TaskRecords
    BY <1>1, MidTask DEF TaskRecords, Pcs
  <2>2. task' = [task EXCEPT ![t] = w]
    BY <1>1 DEF Exported, Go
  <2> QED
    BY <2>1, <2>2
<1>3. Makes(task[t]) /\ Makes(w) /\ ~Holds(w) /\ w.name = task[t].name /\ w.seen = task[t].seen /\ task[t].pc # "idle" /\ w.pc = "trim"
  BY <1>1, MidTask DEF TaskRecords, Exported, Makes, Holds
<1>4. clock' = clock /\ saved' = saved /\ pushed' = pushed /\ UNCHANGED <<reader, switch, events>>
  BY DEF Exported
<1>5. Fits(saved', task', clock') /\ Fits(w.seen, task', clock')
  BY <1>2, <1>3, <1>4, MidTask, StillFits DEF Inv
<1>6. disk' \in [Names -> {"none", "files", "full"}] /\ pushed' \in BOOLEAN
  BY MidTask, <1>4 DEF Exported, Inv, Types
<1>7. disk'[w.name] = "full" /\ \A u \in Threads \ {t} : Makes(task[u]) /\ disk[task[u].name] = "full" => disk'[task[u].name] = "full"
  BY <1>3, MidTask DEF Exported, Inv, Types
<1>8. ~pushed' => w.name = clock'
  BY <1>3, <1>4 DEF Inv, Unpushed
<1> QED
  BY <1>1, <1>2, <1>3, <1>4, <1>5, <1>6, <1>7, <1>8, MidTask, ThreadMoves

\* The thread goes back to its pool.
LEMMA IdleFacts ==
  ASSUME Inv
  PROVE  /\ IdleTask \in TaskRecords /\ IdleTask.seen = Nothing /\ IdleTask.pc = "idle"
         /\ ~Makes(IdleTask) /\ ~Holds(IdleTask)
<1>1. Nothing \in Inventory
  BY NoneListed
<1> QED
  BY <1>1, PointConstants DEF IdleTask, TaskRecords, Pcs, Ops, Makes, Holds

LEMMA PointFailsStep ==
  ASSUME Inv, NEW t \in Threads, PointFails(t) PROVE Inv'
<1>1. task' = [task EXCEPT ![t] = IdleTask] /\ Makes(task[t]) /\ task[t].pc # "idle"
  BY DEF PointFails, Ends, Makes
<1>2. clock' = clock /\ saved' = saved /\ pushed' = pushed /\ UNCHANGED <<reader, switch, events>>
  BY DEF PointFails
<1>3. Fits(saved', task', clock') /\ Fits(IdleTask.seen, task', clock')
  BY <1>1, <1>2, MidTask, IdleFacts, StillFits DEF Inv
<1>4. disk' \in [Names -> {"none", "files", "full"}] /\ pushed' \in BOOLEAN
  BY MidTask, <1>2 DEF PointFails, Inv, Types
<1>5. \A u \in Threads \ {t} : Makes(task[u]) => task[u].name # task[t].name
  BY <1>1 DEF Inv, OwnPoints
<1>6. \A u \in Threads \ {t} : Makes(task[u]) /\ disk[task[u].name] = "full" => disk'[task[u].name] = "full"
  BY <1>5, MidTask DEF PointFails, Inv, Types
<1> QED
  BY <1>1, <1>2, <1>3, <1>4, <1>6, IdleFacts, MidTask, ThreadMoves

\* The list with the new point, and what is kept of it: the new point is.
LEMMA NewPoint ==
  ASSUME Inv, NEW t \in Threads, Makes(task[t])
  PROVE  /\ ToSet(WithNew(t)) = ToSet(task[t].seen.points) \cup {task[t].name}
         /\ Newest(WithNew(t)) \in Seq(Names) /\ Once(Newest(WithNew(t)))
         /\ ToSet(Newest(WithNew(t))) \subseteq ToSet(WithNew(t))
         /\ task[t].name \in ToSet(Newest(WithNew(t)))
<1>1. PICK p, n : p = task[t].seen.points /\ n = task[t].name
  OBVIOUS
<1>2. p \in Seq(Names) /\ Once(p) /\ n \in Names /\ n \notin ToSet(p)
  BY <1>1, MidTask DEF Fits, Inventory
<1>3. PICK q : q = Append(p, n)
  OBVIOUS
<1>4. q \in Seq(Names) /\ Len(q) = Len(p) + 1 /\ q[Len(q)] = n /\ ToSet(q) = ToSet(p) \cup {n} /\ Once(q)
  BY <1>2, <1>3, AppendFacts
<1>5. q # <<>>
  <2>1. Len(p) \in Nat /\ Len(q) # 0
    BY <1>2, <1>4
  <2> QED
    BY <2>1, EmptySeq
<1>6. Newest(q) \in Seq(Names) /\ Once(Newest(q)) /\ ToSet(Newest(q)) \subseteq ToSet(q) /\ n \in ToSet(Newest(q))
  BY <1>4, <1>5, NewestFacts
<1>7. WithNew(t) = q
  BY <1>1, <1>3 DEF WithNew
<1> QED
  BY <1>1, <1>4, <1>6, <1>7

\* What Delete leaves.
LEMMA DeleteFacts ==
  ASSUME Types, NEW old, Delete(old)
  PROVE  /\ disk' \in [Names -> {"none", "files", "full"}]
         /\ \A n \in Names \ old : disk'[n] = disk[n]
         /\ \A n \in Names : disk'[n] \in {"none", disk[n]}
BY DEF Types, Delete

LEMMA TrimStep ==
  ASSUME Inv, NEW t \in Threads, Trim(t) PROVE Inv'
<1>1. PICK w : w = [task[t] EXCEPT !.pc = "save"]
  OBVIOUS
<1>2. w \in TaskRecords /\ task' = [task EXCEPT ![t] = w]
  <2>1. w \in TaskRecords
    BY <1>1, MidTask DEF TaskRecords, Pcs
  <2>2. task' = [task EXCEPT ![t] = w]
    BY <1>1 DEF Trim, Go
  <2> QED
    BY <2>1, <2>2
<1>3. Makes(task[t]) /\ Makes(w) /\ ~Holds(w) /\ w.name = task[t].name /\ w.seen = task[t].seen /\ task[t].pc = "trim" /\ w.pc = "save"
  BY <1>1, MidTask DEF TaskRecords, Trim, Makes, Holds
<1>4. clock' = clock /\ saved' = saved /\ pushed' = pushed /\ UNCHANGED <<reader, switch, events>>
  BY DEF Trim
<1>5. Fits(saved', task', clock') /\ Fits(w.seen, task', clock')
  BY <1>2, <1>3, <1>4, MidTask, StillFits DEF Inv
<1>6. PICK old : old = ToSet(WithNew(t)) \ ToSet(Newest(WithNew(t))) /\ Delete(old)
  BY DEF Trim
<1>7. \A u \in Threads : Makes(task[u]) => task[u].name \notin old /\ task[u].name \in Names
  <2>1. old \subseteq ToSet(task[t].seen.points)
    BY <1>3, <1>6, NewPoint
  <2> QED
    BY <2>1, MidTask DEF Fits
<1>8. \A u \in Threads : Makes(task[u]) => disk'[task[u].name] = disk[task[u].name]
  BY <1>6, <1>7, DeleteFacts DEF Inv
<1>9. disk' \in [Names -> {"none", "files", "full"}] /\ pushed' \in BOOLEAN
  BY <1>4, <1>6, DeleteFacts DEF Inv, Types
<1>10. disk'[w.name] = "full"
  BY <1>3, <1>8 DEF Inv, Whole
<1>11. ~pushed' => w.name = clock'
  BY <1>3, <1>4 DEF Inv, Unpushed
<1> QED
  BY <1>1, <1>2, <1>3, <1>4, <1>5, <1>8, <1>9, <1>10, <1>11, MidTask, ThreadMoves

LEMMA SavePointStep ==
  ASSUME Inv, NEW t \in Threads, SavePoint(t) PROVE Inv'
<1>1. PICK w : w = IF task[t].op = "point" THEN IdleTask ELSE [task[t] EXCEPT !.pc = "working", !.seen = Nothing]
  OBVIOUS
<1>2. task' = [task EXCEPT ![t] = w]
  BY <1>1 DEF SavePoint, Ends, Works
<1>3. /\ w \in TaskRecords /\ ~Makes(w) /\ ~Holds(w) /\ w.seen = Nothing /\ w.pc \notin {"trim", "save"}
      /\ w.pc = "working" => w.name = task[t].name
  <2>1. Nothing \in Inventory /\ task[t] \in TaskRecords
    BY MidTask DEF Fits
  <2>2. CASE w = IdleTask
    BY <2>2, IdleFacts
  <2>3. CASE w = [task[t] EXCEPT !.pc = "working", !.seen = Nothing]
    BY <2>1, <2>3 DEF TaskRecords, Pcs, Makes, Holds
  <2> QED
    BY <1>1, <2>2, <2>3
<1>4. clock' = clock /\ disk' = disk /\ pushed' = pushed /\ UNCHANGED <<reader, switch, events>>
  BY DEF SavePoint
<1>5. Makes(task[t]) /\ task[t].pc # "idle" /\ disk[task[t].name] = "full"
  BY DEF SavePoint, Makes, Inv, Whole
<1>6. Fits(w.seen, task', clock')
  BY <1>2, <1>3, <1>4, MidTask, StillFits DEF Inv
<1>7. Fits(saved', task', clock')
  <2>1. PICK p, seen : p = Newest(WithNew(t)) /\ seen = task[t].seen
    OBVIOUS
  <2>2. saved' = [seen EXCEPT !.points = p] /\ seen \in Inventory
    BY <2>1, MidTask DEF SavePoint, Fits
  <2>3. p \in Seq(Names) /\ Once(p) /\ ToSet(p) \subseteq ToSet(seen.points) \cup {task[t].name}
    BY <1>5, <2>1, NewPoint
  <2>4. saved' \in Inventory /\ saved'.points = p
    BY <2>2, <2>3 DEF Inventory
  <2>5. ToSet(p) \subseteq 1..clock
    BY <1>5, <2>1, <2>3, MidTask DEF Fits
  <2>6. ASSUME NEW u \in Threads, Makes(task'[u]) PROVE task'[u].name \notin ToSet(p)
    <3>1. u # t /\ task'[u] = task[u]
      BY <1>2, <1>3, <2>6 DEF Inv, Types
    <3>2. task[u].name \notin ToSet(seen.points) /\ task[u].name # task[t].name
      BY <1>5, <2>1, <2>6, <3>1, MidTask DEF Fits, Inv, OwnPoints
    <3> QED
      BY <2>3, <3>1, <3>2
  <2> QED
    BY <1>4, <2>3, <2>4, <2>5, <2>6 DEF Fits
<1>8. disk' \in [Names -> {"none", "files", "full"}] /\ pushed' \in BOOLEAN
  BY <1>4 DEF Inv, Types
<1> QED
  BY <1>2, <1>3, <1>4, <1>5, <1>6, <1>7, <1>8, MidTask, ThreadMoves

\* A thread about to look at what the work left.
LEMMA ChecksFacts ==
  ASSUME Inv, NEW w, w = [IdleTask EXCEPT !.pc = "checking", !.seen = saved]
  PROVE  w \in TaskRecords /\ w.seen = saved /\ w.pc = "checking" /\ ~Makes(w) /\ ~Holds(w)
<1>1. saved \in Inventory /\ IdleTask \in TaskRecords
  BY IdleFacts DEF Inv, Types
<1> QED
  BY <1>1 DEF TaskRecords, Pcs, Makes, Holds

LEMMA WorkedStep ==
  ASSUME Inv, NEW t \in Threads, Worked(t) PROVE Inv'
<1>1. PICK w : w = [IdleTask EXCEPT !.pc = "checking", !.seen = saved]
  OBVIOUS
<1>2. task' = [task EXCEPT ![t] = w] /\ task[t].pc # "idle"
  BY <1>1 DEF Worked, Checks
<1> QED
  BY <1>1, <1>2, ChecksFacts, MidTask, QuietMoves DEF Worked

LEMMA WorkFailsStep ==
  ASSUME Inv, NEW t \in Threads, WorkFails(t) PROVE Inv'
<1>1. task' = [task EXCEPT ![t] = IdleTask] /\ task[t].pc # "idle"
  BY DEF WorkFails, Ends
<1> QED
  BY <1>1, IdleFacts, MidTask, QuietMoves DEF WorkFails

LEMMA RestoredStep ==
  ASSUME Inv, NEW t \in Threads, Restored(t) PROVE Inv'
<1>1. task[t].pc # "idle"
  BY DEF Restored
<1>2. CASE Checks(t)
  <2>1. PICK w : w = [IdleTask EXCEPT !.pc = "checking", !.seen = saved]
    OBVIOUS
  <2>2. task' = [task EXCEPT ![t] = w]
    BY <1>2, <2>1 DEF Checks
  <2> QED
    BY <1>1, <2>1, <2>2, ChecksFacts, MidTask, QuietMoves DEF Restored
<1>3. CASE Ends(t)
  BY <1>1, <1>3, IdleFacts, MidTask, QuietMoves DEF Restored, Ends
<1> QED
  BY <1>2, <1>3 DEF Restored

\* What a check writes back is what it read, or nothing.
LEMMA CheckedStep ==
  ASSUME Inv, NEW t \in Threads, Checked(t) PROVE Inv'
<1>1. task' = [task EXCEPT ![t] = IdleTask] /\ task[t].pc # "idle" /\ saved' \in {saved, task[t].seen}
  BY DEF Checked, Ends
<1>2. clock' = clock /\ disk' = disk /\ pushed' = pushed /\ UNCHANGED <<reader, switch, events>>
  BY DEF Checked
<1>3. Fits(saved', task', clock') /\ Fits(IdleTask.seen, task', clock')
  BY <1>1, <1>2, MidTask, IdleFacts, StillFits DEF Inv
<1>4. disk' \in [Names -> {"none", "files", "full"}] /\ pushed' \in BOOLEAN
  BY <1>2 DEF Inv, Types
<1> QED
  BY <1>1, <1>2, <1>3, <1>4, IdleFacts, MidTask, ThreadMoves

\* A point picked from the saved list is nobody's to make.
LEMMA PickedFacts ==
  ASSUME Inv, NEW n \in ToSet(saved.points)
  PROVE  /\ n \in 1..clock /\ n \in 0..MaxPoints
         /\ \A u \in Threads : Makes(task[u]) => task[u].name # n
<1>1. n \in 1..clock /\ \A u \in Threads : Makes(task[u]) => task[u].name # n
  BY DEF Inv, CopiesFit, Fits
<1>2. clock \in 0..MaxPoints
  BY DEF Inv, Types
<1> QED
  BY <1>1, <1>2, PointConstants

LEMMA BeginRestoreStep ==
  ASSUME Inv, NEW t \in Threads, NEW n \in Names, BeginRestore(t, n) PROVE Inv'
<1>1. PICK w : w = [pc |-> "restoring", op |-> "restore", name |-> n, seen |-> Nothing]
  OBVIOUS
<1>2. w \in TaskRecords
  BY <1>1, MidTask, PickedFacts DEF TaskRecords, Pcs, Ops, Fits, BeginRestore
<1>3. t \in Tasks /\ t \notin Pushes /\ \A u \in Tasks \ {t} : task[u].pc = "idle"
  BY PointConstants DEF BeginRestore, MayStart, Idle
<1>4. w.name \in 1..clock /\ \A u \in Threads \ {t} : Makes(task[u]) => task[u].name # w.name
  BY <1>1, PickedFacts DEF BeginRestore
<1> QED
  BY <1>1, <1>2, <1>3, <1>4, QuietMoves DEF BeginRestore, Makes, Holds

LEMMA BeginDeleteStep ==
  ASSUME Inv, NEW t \in Threads, NEW n \in Names, BeginDelete(t, n) PROVE Inv'
<1>1. PICK w : w = [pc |-> "deleting", op |-> "delete", name |-> n, seen |-> saved]
  OBVIOUS
<1>2. w \in TaskRecords
  BY <1>1, MidTask, PickedFacts DEF TaskRecords, Pcs, Ops, Fits, BeginDelete
<1>3. t \in Tasks /\ t \notin Pushes /\ \A u \in Tasks \ {t} : task[u].pc = "idle"
  BY PointConstants DEF BeginDelete, MayStart, Idle
<1>4. w.name \in 1..clock /\ \A u \in Threads \ {t} : Makes(task[u]) => task[u].name # w.name
  BY <1>1, PickedFacts DEF BeginDelete
<1> QED
  BY <1>1, <1>2, <1>3, <1>4, QuietMoves DEF BeginDelete, Makes, Holds

LEMMA DeleteFolderStep ==
  ASSUME Inv, NEW t \in Threads, DeleteFolder(t) PROVE Inv'
<1>1. PICK x : x = [task[t].seen EXCEPT !.auto = saved.auto]
  OBVIOUS
<1>2. PICK w : w = [task[t] EXCEPT !.pc = "unlisting", !.seen = x]
  OBVIOUS
<1>3. Fits(x, task, clock)
  <2>1. saved.auto \in BOOLEAN
    BY DEF Inv, Types, Inventory
  <2> QED
    BY <1>1, <2>1, MidTask, SwitchFits
<1>4. w \in TaskRecords /\ w.seen = x /\ w.name = task[t].name /\ w.pc = "unlisting"
  BY <1>2, <1>3, MidTask DEF TaskRecords, Pcs, Fits
<1>5. task' = [task EXCEPT ![t] = w]
  BY <1>1, <1>2, MidTask DEF DeleteFolder, TaskRecords
<1>6. clock' = clock /\ saved' = saved /\ pushed' = pushed /\ UNCHANGED <<reader, switch, events>>
  BY DEF DeleteFolder
<1>7. ~Makes(w) /\ Holds(task[t]) /\ task[t].pc # "idle"
  BY <1>4 DEF DeleteFolder, Makes, Holds
<1>8. Fits(saved', task', clock') /\ Fits(w.seen, task', clock')
  BY <1>3, <1>4, <1>5, <1>6, <1>7, MidTask, StillFits DEF Inv
<1>9. \A u \in Threads \ {t} : Makes(task[u]) => task[u].name # task[t].name /\ task[u].name \in Names
  BY <1>7, MidTask DEF Inv, OwnPoints
<1>10. Delete({task[t].name})
  BY DEF DeleteFolder
<1>11. \A u \in Threads \ {t} : Makes(task[u]) => disk'[task[u].name] = disk[task[u].name]
  BY <1>9, <1>10, DeleteFacts DEF Inv
<1>12. disk' \in [Names -> {"none", "files", "full"}] /\ pushed' \in BOOLEAN
  BY <1>6, <1>10, DeleteFacts DEF Inv, Types
<1>13. /\ clock' \in 0..MaxPoints /\ clock <= clock' /\ w.name \in 1..clock /\ t \in Tasks
       /\ t \in Tasks => \A u \in Tasks \ {t} : task[u].pc = "idle"
       /\ t \in Pushes => pushed'
  BY <1>4, <1>6, <1>7, MidTask DEF Inv, OwnPoints
<1>14. \A u \in Threads \ {t} : Makes(task[u]) => task[u].name # w.name
  BY <1>4, <1>9
<1>15. w.pc \notin {"trim", "save", "working"}
  BY <1>4
<1> QED
  BY <1>4, <1>5, <1>6, <1>7, <1>8, <1>11, <1>12, <1>13, <1>14, <1>15, ThreadMoves

LEMMA UnlistStep ==
  ASSUME Inv, NEW t \in Threads, Unlist(t) PROVE Inv'
<1>1. task' = [task EXCEPT ![t] = IdleTask] /\ task[t].pc # "idle"
  BY DEF Unlist, Ends
<1>2. clock' = clock /\ disk' = disk /\ pushed' = pushed /\ UNCHANGED <<reader, switch, events>>
  BY DEF Unlist
<1>3. PICK seen, p : seen = task[t].seen /\ p = Without(seen.points, task[t].name)
  OBVIOUS
<1>4. Fits(seen, task, clock)
  BY <1>3, MidTask
<1>5. p \in Seq(Names) /\ Once(p) /\ ToSet(p) \subseteq ToSet(seen.points)
  BY <1>3, <1>4, WithoutFacts DEF Fits, Inventory
<1>6. Fits(saved', task, clock)
  <2>1. saved' = [seen EXCEPT !.points = p]
    BY <1>3 DEF Unlist
  <2>2. saved' \in Inventory /\ saved'.points = p
    BY <1>4, <1>5, <2>1 DEF Fits, Inventory
  <2> QED
    BY <1>4, <1>5, <2>2 DEF Fits
<1>7. Fits(saved', task', clock') /\ Fits(IdleTask.seen, task', clock')
  BY <1>1, <1>2, <1>6, MidTask, IdleFacts, StillFits DEF Inv
<1>8. disk' \in [Names -> {"none", "files", "full"}] /\ pushed' \in BOOLEAN
  BY <1>2 DEF Inv, Types
<1> QED
  BY <1>1, <1>2, <1>7, <1>8, IdleFacts, MidTask, ThreadMoves

LEMMA TaskStepInv ==
  ASSUME Inv, NEW t \in Threads, TaskStep(t) PROVE Inv'
BY BeginPointStep, BeginUpdateWithoutPointStep, FilesTakenStep, ExportedStep, PointFailsStep, TrimStep,
   SavePointStep, WorkedStep, CheckedStep, WorkFailsStep, BeginRestoreStep, BeginDeleteStep, RestoredStep,
   DeleteFolderStep, UnlistStep
   DEF TaskStep

LEMMA ReaderInv ==
  ASSUME Inv, NEW r \in Readers, Read(r) \/ ReadDone(r) PROVE Inv'
<1>1. /\ Fits(saved, task, clock) /\ Fits(reader[r].seen, task, clock) /\ Fits(Nothing, task, clock)
      /\ reader \in [Readers -> [pc : {"idle", "reading"}, seen : Inventory]]
      /\ switch \in [Switches -> [pc : {"idle", "loaded"}, seen : Inventory, on : BOOLEAN]]
  BY NoneListed DEF Inv, CopiesFit, Types
<1>2. UNCHANGED <<disk, clock, task, switch, events, pushed>> /\ saved' \in {saved, reader[r].seen}
  BY DEF Read, ReadDone
<1>3. PICK w : w \in {[pc |-> "reading", seen |-> saved], IdleReader} /\ reader' = [reader EXCEPT ![r] = w]
  BY DEF Read, ReadDone
<1>4. w \in [pc : {"idle", "reading"}, seen : Inventory] /\ Fits(w.seen, task, clock)
  BY <1>1, <1>3 DEF IdleReader, Fits
<1>5. reader' \in [Readers -> [pc : {"idle", "reading"}, seen : Inventory]]
  BY <1>1, <1>3, <1>4
<1>6. \A q \in Readers : Fits(reader'[q].seen, task, clock)
  BY <1>1, <1>3, <1>4 DEF Inv, CopiesFit
<1>7. \A s \in Switches : Fits(switch'[s].seen, task, clock)
  BY <1>2 DEF Inv, CopiesFit
<1>8. Fits(saved', task, clock) /\ events' \in 0..MaxEvents
  BY <1>1, <1>2 DEF Inv, Types
<1> QED
  BY <1>1, <1>2, <1>5, <1>6, <1>7, <1>8, OthersMove

LEMMA SwitchInv ==
  ASSUME Inv, NEW s \in Switches, NEW on \in BOOLEAN, LoadSwitch(s, on) \/ SetAuto(s) PROVE Inv'
<1>1. /\ Fits(saved, task, clock) /\ Fits(switch[s].seen, task, clock) /\ Fits(Nothing, task, clock)
      /\ reader \in [Readers -> [pc : {"idle", "reading"}, seen : Inventory]]
      /\ switch \in [Switches -> [pc : {"idle", "loaded"}, seen : Inventory, on : BOOLEAN]]
  BY NoneListed DEF Inv, CopiesFit, Types
<1>2. UNCHANGED <<disk, clock, task, reader, pushed>>
  BY DEF LoadSwitch, SetAuto
<1>3. PICK w : w \in {[pc |-> "loaded", seen |-> saved, on |-> on], IdleSwitch} /\ switch' = [switch EXCEPT ![s] = w]
  BY DEF LoadSwitch, SetAuto
<1>4. w \in [pc : {"idle", "loaded"}, seen : Inventory, on : BOOLEAN] /\ Fits(w.seen, task, clock)
  <2>1. saved \in Inventory /\ Nothing \in Inventory
    BY <1>1 DEF Fits
  <2>2. CASE w = [pc |-> "loaded", seen |-> saved, on |-> on]
    BY <1>1, <2>1, <2>2
  <2>3. CASE w = IdleSwitch
    BY <1>1, <2>1, <2>3 DEF IdleSwitch
  <2> QED
    BY <1>3, <2>2, <2>3
<1>5. switch' \in [Switches -> [pc : {"idle", "loaded"}, seen : Inventory, on : BOOLEAN]]
  BY <1>1, <1>3, <1>4
<1>6. \A q \in Switches : Fits(switch'[q].seen, task, clock)
  BY <1>1, <1>3, <1>4 DEF Inv, CopiesFit
<1>7. \A r \in Readers : Fits(reader'[r].seen, task, clock)
  BY <1>2 DEF Inv, CopiesFit
<1>8. Fits(saved', task, clock)
  <2>1. CASE saved' = saved
    BY <1>1, <2>1
  <2>2. CASE saved' = [switch[s].seen EXCEPT !.auto = switch[s].on]
    <3>1. switch[s].on \in BOOLEAN
      BY <1>1
    <3> QED
      BY <1>1, <2>2, <3>1, SwitchFits
  <2> QED
    BY <2>1, <2>2 DEF LoadSwitch, SetAuto, WriteBack
<1>9. events' \in 0..MaxEvents
  BY PointConstants DEF Inv, Types, LoadSwitch, SetAuto
<1> QED
  BY <1>1, <1>2, <1>5, <1>6, <1>7, <1>8, <1>9, OthersMove

LEMMA CrashInv ==
  ASSUME Inv, Crash PROVE Inv'
<1>1. /\ task' = [t \in Threads |-> IdleTask] /\ switch' = [s \in Switches |-> IdleSwitch]
      /\ UNCHANGED <<saved, disk, clock, reader, pushed>>
  BY DEF Crash, Threads
<1>2. ASSUME NEW x, NEW tasks, Fits(x, tasks, clock) PROVE Fits(x, task', clock')
  BY <1>1, <1>2, IdleFacts DEF Fits
<1>3. Fits(Nothing, task, clock) /\ Nothing \in Inventory
  BY NoneListed
<1>4. Types'
  <2>1. task' \in [Threads -> TaskRecords]
    BY <1>1, IdleFacts
  <2>2. switch' \in [Switches -> [pc : {"idle", "loaded"}, seen : Inventory, on : BOOLEAN]]
    BY <1>1, <1>3 DEF IdleSwitch
  <2>3. events' \in 0..MaxEvents
    BY PointConstants DEF Crash, Inv, Types
  <2> QED
    BY <1>1, <2>1, <2>2, <2>3 DEF Inv, Types
<1>5. CopiesFit'
  <2>1. Fits(saved', task', clock') /\ Fits(Nothing, task', clock') /\ \A r \in Readers : Fits(reader'[r].seen, task', clock')
    BY <1>1, <1>2, <1>3 DEF Inv, CopiesFit
  <2>2. (\A t \in Threads : task'[t].seen = Nothing) /\ \A s \in Switches : switch'[s].seen = Nothing
    BY <1>1 DEF IdleTask, IdleSwitch
  <2> QED
    BY <2>1, <2>2 DEF CopiesFit
<1>6. OwnPoints' /\ Whole' /\ Turns' /\ Unpushed'
  <2>1. \A t \in Threads : task'[t].pc = "idle" /\ ~Makes(task'[t]) /\ ~Holds(task'[t])
    BY <1>1, IdleFacts
  <2> QED
    BY <2>1 DEF OwnPoints, Whole, Turns, Unpushed, Threads
<1> QED
  BY <1>4, <1>5, <1>6 DEF Inv

LEMMA NextInv == Inv /\ [Next]_vars => Inv'
<1> SUFFICES ASSUME Inv, [Next]_vars PROVE Inv'
  OBVIOUS
<1>1. CASE Next
  <2>1. CASE \E t \in Threads : TaskStep(t)
    BY <2>1, TaskStepInv
  <2>2. CASE \E r \in Readers : Read(r) \/ ReadDone(r)
    BY <2>2, ReaderInv
  <2>3. CASE \E s \in Switches : (\E on \in BOOLEAN : LoadSwitch(s, on)) \/ SetAuto(s)
    BY <2>3, SwitchInv
  <2>4. CASE Crash
    BY <2>4, CrashInv
  <2> QED
    BY <1>1, <2>1, <2>2, <2>3, <2>4 DEF Next, Threads
<1>2. CASE UNCHANGED vars
  BY <1>2 DEF vars, Inv, Types, CopiesFit, OwnPoints, Whole, Turns, Unpushed
<1> QED
  BY <1>1, <1>2

LEMMA Invariant == Spec => []Inv
<1> QED
  BY InitInv, NextInv, PTL DEF Spec

-----------------------------------------------------------------------------
(* Theorems                                                                 *)

\* Every variable has its type, the lists of points among them.
THEOREM TypeCorrect == Spec => []TypeOK
<1>1. Inv => TypeOK
  BY TypesSuffice DEF Inv
<1> QED
  BY <1>1, Invariant, PTL

\* While only the tasks of this WordPress make points, the point an update was
\* promised is whole on the disk for as long as the update runs.
THEOREM UpdateCovered == Spec => []UpdateIsCovered
<1>1. Inv => UpdateIsCovered
  BY DEF Inv, Unpushed, UpdateIsCovered, Threads
<1> QED
  BY <1>1, Invariant, PTL

\* A whole point leaves the disk because its owner deletes it, or as the oldest
\* of a list whose newest stays.
THEOREM NewestKept == Spec => KeepsTheNewest
<1> DEFINE Goes(n) == \/ \E t \in Tasks : task[t].pc = "deleting" /\ task[t].name = n
                      \/ \E m \in Names : disk'[m] = "full" /\ (pushed \/ (m > n /\ disk[m] = "full"))
<1>1. ASSUME Inv, [Next]_vars, NEW n \in Names, disk[n] = "full", disk'[n] = "none" PROVE Goes(n)
  <2>1. PICK t \in Threads : TaskStep(t) /\ ~UNCHANGED disk
    BY <1>1 DEF Next, vars, Read, ReadDone, LoadSwitch, SetAuto, Crash, Threads
  <2>2. ~FilesTaken(t) /\ ~Exported(t) /\ ~PointFails(t)
    BY <1>1 DEF FilesTaken, Exported, PointFails, Inv, Types
  <2>3. DeleteFolder(t) \/ Trim(t)
    BY <2>1, <2>2 DEF TaskStep, BeginPoint, BeginUpdateWithoutPoint, SavePoint, Worked, Checked, WorkFails,
                      BeginRestore, BeginDelete, Restored, Unlist
  <2>4. CASE DeleteFolder(t)
    <3>1. n = task[t].name
      BY <1>1, <2>4, DeleteFacts DEF DeleteFolder, Inv
    <3>2. t \in Tasks
      BY <1>1, <2>4 DEF DeleteFolder, Holds, Inv, OwnPoints
    <3> QED
      BY <2>4, <3>1, <3>2 DEF DeleteFolder
  <2>5. CASE Trim(t)
    <3>1. Makes(task[t]) /\ task[t].pc = "trim"
      BY <2>5 DEF Trim, Makes
    <3>2. PICK m, old : m = task[t].name /\ old = ToSet(WithNew(t)) \ ToSet(Newest(WithNew(t))) /\ Delete(old)
      BY <2>5 DEF Trim
    <3>3. m \in Names /\ m \notin old /\ old \subseteq ToSet(task[t].seen.points)
      BY <1>1, <3>1, <3>2, NewPoint, MidTask
    <3>4. disk[m] = "full" /\ disk'[m] = "full"
      BY <1>1, <3>1, <3>2, <3>3, DeleteFacts DEF Inv, Whole
    <3>5. n \in old /\ n \in 1..clock /\ n # m
      BY <1>1, <3>2, <3>3, DeleteFacts, MidTask DEF Inv, Fits
    <3>6. ~pushed => m = clock
      BY <1>1, <3>1, <3>2 DEF Inv, Unpushed
    <3>7. ~pushed => m > n
      BY <1>1, <3>5, <3>6, MidTask
    <3> QED
      BY <3>3, <3>4, <3>7
  <2> QED
    BY <2>3, <2>4, <2>5
<1>2. Inv /\ [Next]_vars => [\A n \in Names : disk[n] = "full" /\ disk'[n] = "none" => Goes(n)]_disk
  BY <1>1
<1> QED
  BY <1>2, Invariant, PTL DEF Spec, KeepsTheNewest
=============================================================================
