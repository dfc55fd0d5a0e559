---------------------------- MODULE WpTasksProofs ----------------------------
(***************************************************************************)
(* Proofs about the WordPress task queue, for every number of threads,      *)
(* installs, websites, ids, restarts and purges.                            *)
(***************************************************************************)
EXTENDS WpTasks, TLAPS

\* The lock a request asks for is one of the locks: submit() never makes a
\* request without an install that names an install's lock.
LEMMA KeyOfType == \A r \in Requests : KeyOf(r) \in Keys
<1>1. SUFFICES ASSUME NEW r \in Requests PROVE KeyOf(r) \in Keys
  OBVIOUS
<1>2. r \in Request
  BY WpConstants
<1> QED
  BY <1>2 DEF Request, KeyOf, Keys

\* A row that exists carries the request it was committed with.
RowsCarryRequests == \A i \in Ids : status[i] # "absent" => request[i] \in Requests

\* A thread inside submit() or _run() has an id of the table in hand, and a
\* thread that has come to its lock knows which one.
IdsInHand ==
    /\ \A c \in Clients : client[c].pc # "idle" => client[c].id \in Ids
    /\ \A w \in Workers : worker[w].pc # "idle" => worker[w].id \in Ids
    /\ \A w \in Workers : worker[w].pc \in {"waiting", "holding", "running", "ended"}
                            => worker[w].key \in Keys

TypeInv == TypeOK /\ RowsCarryRequests /\ IdsInHand

LEMMA TypeInit == Init => TypeInv
BY WpConstants DEF Init, TypeInv, TypeOK, RowsCarryRequests, IdsInHand, IdleWorker,
   IdleClient, IdleViewer, WorkerPcs, Ids

LEMMA TypeClient ==
  ASSUME TypeInv, NEW c \in Clients,
         (\E r \in Requests : CommitRow(c, r)) \/ ClientStep(c) \/ SubmitFails(c)
  PROVE  TypeInv'
<1> USE DEF TypeInv, TypeOK, RowsCarryRequests, IdsInHand, memory, table, IdleClient
<1>1. ASSUME NEW r \in Requests, CommitRow(c, r) PROVE TypeInv'
  <2>1. nextId' \in 1..(MaxId + 1)
    BY <1>1, WpConstants DEF CommitRow, Ids
  <2>2. /\ status' \in [Ids -> {"absent"} \cup Unfinished \cup Terminal]
        /\ request' \in [Ids -> Requests \cup {None}]
        /\ runs' \in [Ids -> Nat]
    BY <1>1 DEF CommitRow, Unfinished
  <2>3. client' \in [Clients -> [pc : {"idle", "committed", "pruned", "listed"}, id : Ids \cup {0}]]
    BY <1>1 DEF CommitRow
  <2>4. RowsCarryRequests' /\ IdsInHand'
    BY <1>1 DEF CommitRow
  <2> QED
    BY <1>1, <2>1, <2>2, <2>3, <2>4 DEF CommitRow
<1>2. CASE PruneJobs(c)
  BY <1>2 DEF PruneJobs
<1>3. CASE AddLive(c)
  BY <1>3 DEF AddLive
<1>4. CASE HandOver(c)
  BY <1>4 DEF HandOver
<1>5. CASE SubmitFails(c)
  BY <1>5 DEF SubmitFails
<1> QED
  BY <1>1, <1>2, <1>3, <1>4, <1>5 DEF ClientStep

\* Moving a pool thread on leaves its id, its key and the other threads alone.
LEMMA StepMoves ==
  ASSUME TypeOK, NEW w \in Workers, NEW pc \in WorkerPcs, Step(w, pc)
  PROVE  /\ worker' \in [Workers -> [pc : WorkerPcs, id : Ids \cup {0}, key : Keys \cup {None}]]
         /\ worker'[w].pc = pc
         /\ worker'[w].id = worker[w].id
         /\ worker'[w].key = worker[w].key
         /\ \A u \in Workers : u # w => worker'[u] = worker[u]
<1>1. worker[w] \in [pc : WorkerPcs, id : Ids \cup {0}, key : Keys \cup {None}]
  BY DEF TypeOK
<1>2. worker' = [worker EXCEPT ![w] = [worker[w] EXCEPT !.pc = pc]]
  BY DEF Step
<1>3. [worker[w] EXCEPT !.pc = pc] \in [pc : WorkerPcs, id : Ids \cup {0}, key : Keys \cup {None}]
  BY <1>1
<1> QED
  BY <1>1, <1>2, <1>3 DEF TypeOK

\* A pool thread that moves on from its lock keeps the types, whatever it does
\* to the lock and to its row on the way.
LEMMA StepKeepsTypes ==
  ASSUME TypeInv, NEW w \in Workers, NEW pc \in WorkerPcs, Step(w, pc),
         worker[w].pc # "idle",
         pc \in {"holding", "running", "ended"} =>
            worker[w].pc \in {"waiting", "holding", "running", "ended"},
         pc # "waiting",
         status' \in [Ids -> {"absent"} \cup Unfinished \cup Terminal],
         \A i \in Ids : status'[i] # "absent" => status[i] # "absent",
         lock' \in [Keys -> Workers \cup {None}], runs' \in [Ids -> Nat],
         UNCHANGED <<request, nextId, live, queue, threads, restarts, purges>>
  PROVE  TypeInv'
<1>1. /\ worker' \in [Workers -> [pc : WorkerPcs, id : Ids \cup {0}, key : Keys \cup {None}]]
      /\ worker'[w].pc = pc
      /\ worker'[w].id = worker[w].id
      /\ worker'[w].key = worker[w].key
      /\ \A u \in Workers : u # w => worker'[u] = worker[u]
  BY StepMoves DEF TypeInv
<1>2. TypeOK'
  BY <1>1 DEF TypeInv, TypeOK, threads
<1>3. RowsCarryRequests'
  BY DEF TypeInv, RowsCarryRequests
<1>4. ASSUME NEW u \in Workers
      PROVE  /\ worker'[u].pc # "idle" => worker'[u].id \in Ids
             /\ worker'[u].pc \in {"waiting", "holding", "running", "ended"} => worker'[u].key \in Keys
  <2>1. CASE u = w
    BY <1>1, <2>1 DEF TypeInv, IdsInHand
  <2>2. CASE u # w
    BY <1>1, <2>2 DEF TypeInv, IdsInHand
  <2> QED
    BY <2>1, <2>2
<1>5. client' = client
  BY DEF threads
<1>6. IdsInHand'
  BY <1>4, <1>5 DEF TypeInv, IdsInHand
<1> QED
  BY <1>2, <1>3, <1>6 DEF TypeInv

LEMMA TypeWorker ==
  ASSUME TypeInv, NEW w \in Workers, WorkerStep(w) \/ WorkerRaises(w)
  PROVE  TypeInv'
<1> USE DEF TypeInv, TypeOK, RowsCarryRequests, IdsInHand, table, threads
<1>1. CASE Take(w)
  <2>1. Head(queue) \in Ids /\ Tail(queue) \in Seq(Ids)
    BY <1>1 DEF Take
  <2>2. [pc |-> "took", id |-> Head(queue), key |-> None]
            \in [pc : WorkerPcs, id : Ids \cup {0}, key : Keys \cup {None}]
    BY <2>1 DEF WorkerPcs
  <2> QED
    BY <1>1, <2>1, <2>2 DEF Take
<1>2. CASE ReadRow(w)
  <2>1. CASE status[worker[w].id] = "absent"
    <3>1. Step(w, "leaving") /\ "leaving" \in WorkerPcs
      BY <1>2, <2>1 DEF ReadRow, WorkerPcs
    <3> HIDE DEF TypeInv, TypeOK, RowsCarryRequests, IdsInHand
    <3> QED
      BY <1>2, <3>1, StepKeepsTypes DEF ReadRow, TypeInv, TypeOK
  <2>2. CASE status[worker[w].id] # "absent"
    <3> DEFINE moved == [pc |-> "waiting", id |-> worker[w].id, key |-> KeyOf(request[worker[w].id])]
    <3>1. KeyOf(request[worker[w].id]) \in Keys
      BY <1>2, <2>2, KeyOfType DEF ReadRow
    <3>2. worker' = [worker EXCEPT ![w] = moved]
      BY <1>2, <2>2 DEF ReadRow
    <3>3. moved \in [pc : WorkerPcs, id : Ids \cup {0}, key : Keys \cup {None}]
      BY <3>1 DEF WorkerPcs
    <3>4. TypeOK' /\ RowsCarryRequests'
      BY <1>2, <3>2, <3>3 DEF ReadRow
    <3>5. /\ worker'[w].id = worker[w].id /\ worker'[w].key \in Keys
          /\ \A u \in Workers : u # w => worker'[u] = worker[u]
      BY <3>1, <3>2
    <3>6. worker[w].pc = "took" /\ UNCHANGED client
      BY <1>2 DEF ReadRow
    <3> QED
      BY <3>4, <3>5, <3>6
  <2> QED
    BY <2>1, <2>2
<1>3. CASE Acquire(w)
  <2>1. Step(w, "holding") /\ "holding" \in WorkerPcs
    BY <1>3 DEF Acquire, WorkerPcs
  <2>2. lock' \in [Keys -> Workers \cup {None}]
    BY <1>3 DEF Acquire
  <2> HIDE DEF TypeInv, TypeOK, RowsCarryRequests, IdsInHand
  <2> QED
    BY <1>3, <2>1, <2>2, StepKeepsTypes DEF Acquire, TypeInv, TypeOK
<1>4. CASE Start(w)
  <2>1. Step(w, "running") /\ "running" \in WorkerPcs
    BY <1>4 DEF Start, WorkerPcs
  <2>2. /\ status' \in [Ids -> {"absent"} \cup Unfinished \cup Terminal]
        /\ runs' \in [Ids -> Nat]
        /\ \A i \in Ids : status'[i] # "absent" => status[i] # "absent"
    BY <1>4 DEF Start, Unfinished
  <2> HIDE DEF TypeInv, TypeOK, RowsCarryRequests, IdsInHand
  <2> QED
    BY <1>4, <2>1, <2>2, StepKeepsTypes DEF Start, TypeInv, TypeOK
<1>5. ASSUME NEW outcome \in {"completed", "failed"}, Finish(w, outcome) PROVE TypeInv'
  <2>1. Step(w, "ended") /\ "ended" \in WorkerPcs
    BY <1>5 DEF Finish, WorkerPcs
  <2>2. /\ status' \in [Ids -> {"absent"} \cup Unfinished \cup Terminal]
        /\ \A i \in Ids : status'[i] # "absent" => status[i] # "absent"
    BY <1>5 DEF Finish, Terminal
  <2> HIDE DEF TypeInv, TypeOK, RowsCarryRequests, IdsInHand
  <2> QED
    BY <1>5, <2>1, <2>2, StepKeepsTypes DEF Finish, TypeInv, TypeOK
<1>6. CASE Release(w)
  <2>1. Step(w, "leaving") /\ "leaving" \in WorkerPcs
    BY <1>6 DEF Release, WorkerPcs
  <2>2. lock' \in [Keys -> Workers \cup {None}]
    BY <1>6 DEF Release
  <2> HIDE DEF TypeInv, TypeOK, RowsCarryRequests, IdsInHand
  <2> QED
    BY <1>6, <2>1, <2>2, StepKeepsTypes DEF Release, TypeInv, TypeOK
<1>7. CASE Leave(w)
  <2>1. IdleWorker \in [pc : WorkerPcs, id : Ids \cup {0}, key : Keys \cup {None}]
    BY DEF IdleWorker, WorkerPcs
  <2> QED
    BY <1>7, <2>1 DEF Leave, IdleWorker
<1>8. CASE StartRaises(w) \/ FinishRaises(w)
  <2>1. Step(w, "ended") /\ "ended" \in WorkerPcs
    BY <1>8 DEF StartRaises, FinishRaises, WorkerPcs
  <2> HIDE DEF TypeInv, TypeOK, RowsCarryRequests, IdsInHand
  <2> QED
    BY <1>8, <2>1, StepKeepsTypes DEF StartRaises, FinishRaises, TypeInv, TypeOK
<1> QED
  BY <1>1, <1>2, <1>3, <1>4, <1>5, <1>6, <1>7, <1>8 DEF WorkerStep, WorkerRaises

LEMMA TypeViewer ==
  ASSUME TypeInv, NEW v \in Viewers, ViewerStep(v) \/ WriteRefused(v)
  PROVE  TypeInv'
<1> USE DEF TypeInv, TypeOK, RowsCarryRequests, IdsInHand, memory, table, IdleViewer
<1>1. CASE ReadUnfinished(v)
  BY <1>1 DEF ReadUnfinished
<1>2. CASE CompareLive(v)
  BY <1>2 DEF CompareLive
<1>3. CASE WriteInterrupted(v)
  BY <1>3 DEF WriteInterrupted, Terminal
<1>4. CASE WriteRefused(v)
  BY <1>4 DEF WriteRefused
<1> QED
  BY <1>1, <1>2, <1>3, <1>4 DEF ViewerStep

LEMMA TypeOther ==
  ASSUME TypeInv, Restart \/ Purge \/ UNCHANGED vars
  PROVE  TypeInv'
<1> USE DEF TypeInv, TypeOK, RowsCarryRequests, IdsInHand, memory, table, threads,
            IdleViewer, IdleWorker, IdleClient, WorkerPcs
<1>1. CASE Restart
  BY <1>1, WpConstants DEF Restart
<1>2. CASE Purge
  BY <1>2, WpConstants DEF Purge
<1>3. CASE UNCHANGED vars
  BY <1>3 DEF vars
<1> QED
  BY <1>1, <1>2, <1>3

\* Every variable keeps its type; in particular a pool thread never runs with
\* an id that is not one of the table's.
THEOREM TypeCorrect == Spec => []TypeOK
<1>1. TypeInv /\ [Next]_vars => TypeInv'
  BY TypeClient, TypeWorker, TypeViewer, TypeOther DEF Next
<1> QED
  BY <1>1, TypeInit, PTL DEF Spec, TypeInv
-----------------------------------------------------------------------------
(* The locks.                                                               *)

\* A thread inside the with block is the one its lock names.
LockNamesHolder == \A w \in Workers : InLock(w) => lock[worker[w].key] = w

LockInv == TypeInv /\ LockNamesHolder

LEMMA LockStep == LockInv /\ [Next]_vars => LockInv'
<1> SUFFICES ASSUME LockInv, [Next]_vars PROVE LockInv'
  OBVIOUS
<1> USE DEF LockInv
<1>0. TypeInv'
  BY TypeClient, TypeWorker, TypeViewer, TypeOther DEF Next
<1>1. TypeOK /\ IdsInHand
  BY DEF TypeInv
<1>2. ASSUME NEW w \in Workers, WorkerStep(w) \/ WorkerRaises(w) PROVE LockNamesHolder'
  <2>1. CASE Take(w)
    <3>1. /\ worker'[w].pc = "took" /\ UNCHANGED lock
          /\ \A u \in Workers : u # w => worker'[u] = worker[u]
      BY <1>1, <2>1 DEF Take, TypeOK
    <3> QED
      BY <3>1 DEF LockNamesHolder, InLock
  <2>2. CASE ReadRow(w)
    <3>1. /\ worker'[w].pc \in {"waiting", "leaving"} /\ UNCHANGED lock
          /\ \A u \in Workers : u # w => worker'[u] = worker[u]
      <4>1. CASE Step(w, "leaving")
        BY <1>1, <2>2, <4>1, StepMoves DEF ReadRow, WorkerPcs
      <4>2. CASE ~Step(w, "leaving")
        BY <1>1, <2>2, <4>2 DEF ReadRow, TypeOK
      <4> QED
        BY <4>1, <4>2
    <3> QED
      BY <3>1 DEF LockNamesHolder, InLock
  <2>3. CASE Acquire(w)
    <3>1. Step(w, "holding") /\ "holding" \in WorkerPcs
      BY <2>3 DEF Acquire, WorkerPcs
    <3>2. \A u \in Workers : u # w /\ InLock(u) => worker[u].key # worker[w].key
      BY <2>3, WpConstants DEF Acquire, LockNamesHolder
    <3>3. /\ worker[w].key \in Keys
          /\ \A u \in Workers : InLock(u) => worker[u].key \in Keys
      BY <1>1, <2>3 DEF Acquire, IdsInHand, InLock
    <3>4. /\ worker'[w].key = worker[w].key
          /\ \A u \in Workers : u # w => worker'[u] = worker[u]
      BY <1>1, <3>1, StepMoves
    <3>5. lock' = [lock EXCEPT ![worker[w].key] = w] /\ lock \in [Keys -> Workers \cup {None}]
      BY <1>1, <2>3 DEF Acquire, TypeOK
    <3>6. lock'[worker'[w].key] = w
      BY <3>3, <3>4, <3>5
    <3>7. ASSUME NEW u \in Workers, u # w, InLock(u)' PROVE lock'[worker'[u].key] = u
      <4>1. worker'[u] = worker[u] /\ InLock(u)
        BY <3>4, <3>7 DEF InLock
      <4>2. lock[worker[u].key] = u
        BY <4>1 DEF LockNamesHolder
      <4> QED
        BY <3>2, <3>3, <3>5, <3>7, <4>1, <4>2
    <3> QED
      BY <3>6, <3>7 DEF LockNamesHolder
  <2>4. CASE Release(w)
    <3>1. Step(w, "leaving") /\ "leaving" \in WorkerPcs
      BY <2>4 DEF Release, WorkerPcs
    <3>2. \A u \in Workers : u # w /\ InLock(u) => worker[u].key # worker[w].key
      BY <2>4 DEF Release, LockNamesHolder, InLock
    <3>3. /\ worker'[w].pc = "leaving"
          /\ \A u \in Workers : u # w => worker'[u] = worker[u]
      BY <1>1, <3>1, StepMoves
    <3>4. lock' = [lock EXCEPT ![worker[w].key] = None] /\ lock \in [Keys -> Workers \cup {None}]
      BY <1>1, <2>4 DEF Release, TypeOK
    <3>5. ASSUME NEW u \in Workers, InLock(u)' PROVE lock'[worker'[u].key] = u
      <4>1. u # w
        BY <3>3, <3>5 DEF InLock
      <4>2. worker'[u] = worker[u] /\ InLock(u)
        BY <3>3, <3>5, <4>1 DEF InLock
      <4>3. lock[worker[u].key] = u /\ worker[u].key \in Keys
        BY <1>1, <4>2 DEF LockNamesHolder, IdsInHand, InLock
      <4> QED
        BY <3>2, <3>4, <4>1, <4>2, <4>3
    <3> QED
      BY <3>5 DEF LockNamesHolder
  <2>5. CASE Leave(w)
    BY <1>1, <2>5 DEF Leave, IdleWorker, LockNamesHolder, InLock, TypeOK
  <2>6. CASE Start(w)
    <3>1. Step(w, "running") /\ "running" \in WorkerPcs /\ InLock(w) /\ UNCHANGED lock
      BY <2>6 DEF Start, WorkerPcs, InLock
    <3> QED
      BY <1>1, <3>1, StepMoves DEF LockNamesHolder, InLock
  <2>7. CASE (\E outcome \in {"completed", "failed"} : Finish(w, outcome)) \/ WorkerRaises(w)
    <3>1. Step(w, "ended") /\ "ended" \in WorkerPcs /\ InLock(w) /\ UNCHANGED lock
      BY <2>7 DEF Finish, WorkerRaises, StartRaises, FinishRaises, WorkerPcs, InLock
    <3> QED
      BY <1>1, <3>1, StepMoves DEF LockNamesHolder, InLock
  <2> QED
    BY <1>2, <2>1, <2>2, <2>3, <2>4, <2>5, <2>6, <2>7 DEF WorkerStep
<1>3. CASE UNCHANGED <<lock, worker>>
  BY <1>0, <1>3 DEF LockNamesHolder, InLock
<1>4. CASE Restart
  BY <1>0, <1>4 DEF Restart, LockNamesHolder, InLock, IdleWorker
<1>5. ASSUME (\E c \in Clients : (\E r \in Requests : CommitRow(c, r)) \/ ClientStep(c) \/ SubmitFails(c))
             \/ (\E v \in Viewers : ViewerStep(v) \/ WriteRefused(v)) \/ Purge \/ UNCHANGED vars
      PROVE  UNCHANGED <<lock, worker>>
  BY <1>5 DEF CommitRow, ClientStep, PruneJobs, AddLive, HandOver, SubmitFails, ViewerStep,
     ReadUnfinished, CompareLive, WriteInterrupted, WriteRefused, Purge, vars, memory
<1> QED
  BY <1>0, <1>2, <1>3, <1>4, <1>5 DEF Next

LEMMA LockInvariant == Spec => []LockInv
<1>1. Init => LockInv
  BY TypeInit DEF Init, LockInv, LockNamesHolder, InLock, IdleWorker
<1> QED
  BY <1>1, LockStep, PTL DEF Spec

\* Of two pool threads inside a with block, each is at a lock of its own.
LEMMA OwnLock ==
  ASSUME LockInv, NEW w \in Workers, NEW u \in Workers, InLock(w), InLock(u), worker[u].key = worker[w].key
  PROVE  u = w
BY DEF LockInv, LockNamesHolder

\* What is running under a lock changes with one thread that goes to "running" or
\* leaves it, and with no step else.
LEMMA HandlingChanges ==
  ASSUME LockInv, NEW w \in Workers, NEW k \in Keys, k = worker[w].key, worker'[w].key = k,
         \A u \in Workers : u # w => worker'[u] = worker[u],
         \/ worker[w].pc = "holding" /\ worker'[w].pc = "running"
         \/ worker[w].pc = "running" /\ worker'[w].pc = "ended"
  PROVE  Turns!Next
<1>1. \A u \in Workers : InLock(u) /\ worker[u].key = k => u = w
  BY OwnLock DEF InLock
<1>2. \A l \in Keys \ {k} : Handling'[l] = Handling[l]
  <2>1. ASSUME NEW l \in Keys \ {k} PROVE Handling'[l] = Handling[l]
    <3>1. \A u \in Workers : (worker'[u].pc = "running" /\ worker'[u].key = l)
                            <=> (worker[u].pc = "running" /\ worker[u].key = l)
      OBVIOUS
    <3> QED
      BY <3>1 DEF Handling
  <2> QED
    BY <2>1
<1>3. ASSUME NEW now, now = IF worker'[w].pc = "running" THEN {w} ELSE {}
      PROVE  Handling' = [Handling EXCEPT ![k] = now]
  <2>1. Handling'[k] = now
    <3>1. \A u \in Workers : (worker'[u].pc = "running" /\ worker'[u].key = k) <=> u \in now
      BY <1>1, <1>3 DEF InLock
    <3> QED
      BY <1>3, <3>1 DEF Handling
  <2>2. Handling = [l \in Keys |-> Handling[l]] /\ Handling' = [l \in Keys |-> Handling'[l]]
    BY DEF Handling
  <2> QED
    BY <1>2, <2>1, <2>2
<1>4. CASE worker[w].pc = "holding" /\ worker'[w].pc = "running"
  <2>1. Handling[k] = {} /\ \A l \in Keys : w \notin Handling[l]
    BY <1>1, <1>4 DEF Handling, InLock
  <2> QED
    BY <1>3, <1>4, <2>1 DEF Turns!Next, Turns!Begin
<1>5. CASE worker[w].pc = "running" /\ worker'[w].pc = "ended"
  <2>1. Handling[k] = {w}
    BY <1>1, <1>5 DEF Handling, InLock
  <2> QED
    BY <1>3, <1>5, <2>1 DEF Turns!Next, Turns!End
<1> QED
  BY <1>4, <1>5

LEMMA HandlingStays ==
  ASSUME NEW w \in Workers, worker[w].pc # "running", worker'[w].pc # "running",
         \A u \in Workers : u # w => worker'[u] = worker[u]
  PROVE  Handling' = Handling
BY DEF Handling

\* The handlers of one lock run one after the other, and a pool thread runs one at
\* a time, whatever is refused, restarted, pruned or purged around them: the task
\* queue implements the abstract specification OneAtATime.
THEOREM ImplementsOneAtATime == Spec => TasksTakeTurns
<1>1. Init => Turns!Init
  BY DEF Init, Turns!Init, Handling, IdleWorker
<1>2. LockInv /\ [Next]_vars => [Turns!Next]_Handling
  <2> SUFFICES ASSUME LockInv, [Next]_vars PROVE Turns!Next \/ Handling' = Handling
    OBVIOUS
  <2>0. TypeInv /\ TypeOK
    BY DEF LockInv, TypeInv
  <2>1. ASSUME UNCHANGED worker PROVE Handling' = Handling
    BY <2>1 DEF Handling
  <2>2. ASSUME NEW w \in Workers, WorkerStep(w) \/ WorkerRaises(w) PROVE Turns!Next \/ Handling' = Handling
    <3>0. \A pc \in WorkerPcs : Step(w, pc) =>
            /\ worker'[w].pc = pc /\ worker'[w].key = worker[w].key
            /\ \A u \in Workers : u # w => worker'[u] = worker[u]
      BY <2>0, StepMoves
    <3>1. {"holding", "running", "ended", "leaving"} \subseteq WorkerPcs
      BY DEF WorkerPcs
    <3>2. worker[w].pc \in {"holding", "running"} => worker[w].key \in Keys
      BY <2>0 DEF TypeInv, IdsInHand
    <3>3. CASE Take(w) \/ Leave(w)
      <4>1. worker[w].pc # "running" /\ worker'[w].pc # "running" /\ \A u \in Workers : u # w => worker'[u] = worker[u]
        BY <2>0, <3>3 DEF Take, Leave, IdleWorker, TypeOK
      <4> QED
        BY <4>1, HandlingStays
    <3>4. CASE ReadRow(w) \/ Acquire(w) \/ Release(w) \/ StartRaises(w)
      <4>1. worker[w].pc # "running" /\ worker'[w].pc # "running" /\ \A u \in Workers : u # w => worker'[u] = worker[u]
        <5>1. CASE ReadRow(w) /\ ~Step(w, "leaving")
          BY <2>0, <5>1 DEF ReadRow, TypeOK
        <5>2. CASE Step(w, "leaving") /\ worker[w].pc # "running"
          BY <3>0, <3>1, <5>2
        <5>3. CASE Acquire(w) \/ Release(w) \/ StartRaises(w)
          BY <3>0, <3>1, <5>3 DEF Acquire, Release, StartRaises
        <5> QED
          BY <3>4, <5>1, <5>2, <5>3 DEF ReadRow
      <4> QED
        BY <4>1, HandlingStays
    <3>5. CASE Start(w)
      <4>1. worker[w].pc = "holding" /\ Step(w, "running")
        BY <3>5 DEF Start
      <4> QED
        BY <3>0, <3>1, <3>2, <4>1, HandlingChanges
    <3>6. CASE (\E outcome \in {"completed", "failed"} : Finish(w, outcome)) \/ FinishRaises(w)
      <4>1. worker[w].pc = "running" /\ Step(w, "ended")
        BY <3>6 DEF Finish, FinishRaises
      <4> QED
        BY <3>0, <3>1, <3>2, <4>1, HandlingChanges
    <3> QED
      BY <2>2, <3>3, <3>4, <3>5, <3>6 DEF WorkerStep, WorkerRaises
  <2>3. CASE Restart
    <3>1. Handling' = [k \in Keys |-> {}]
      BY <2>3 DEF Restart, Handling, IdleWorker
    <3> QED
      BY <3>1 DEF Turns!Next, Turns!StopAll
  <2>4. CASE (\E c \in Clients : (\E r \in Requests : CommitRow(c, r)) \/ ClientStep(c) \/ SubmitFails(c))
             \/ (\E v \in Viewers : ViewerStep(v) \/ WriteRefused(v)) \/ Purge \/ UNCHANGED vars
    BY <2>1, <2>4 DEF CommitRow, ClientStep, PruneJobs, AddLive, HandOver, SubmitFails, ViewerStep,
       ReadUnfinished, CompareLive, WriteInterrupted, WriteRefused, Purge, vars, memory
  <2> QED
    BY <2>2, <2>3, <2>4 DEF Next
<1> QED
  BY <1>1, <1>2, LockInvariant, PTL DEF Spec, TasksTakeTurns, Turns!Spec
-----------------------------------------------------------------------------
(* Who has a task in hand, while the history is not deleted: an id is given  *)
(* out once, so it is in one request thread, or once in the pool's queue, or *)
(* with one pool thread.                                                    *)

Busy(w) == worker[w].pc # "idle"
Submitting(c) == client[c].pc # "idle"

\* Every id in hand was given out before.
IdsGivenOut ==
    /\ \A w \in Workers : Busy(w) => worker[w].id < nextId
    /\ \A c \in Clients : Submitting(c) => client[c].id < nextId
    /\ \A n \in 1..Len(queue) : queue[n] < nextId

\* A thread at its lock has worked it out from the row it still runs.
KeyIsTheRows ==
    \A w \in Workers : worker[w].pc \in {"waiting", "holding", "running", "ended"}
        => worker[w].key = KeyOf(request[worker[w].id])

HeldOnce ==
    /\ \A m, n \in 1..Len(queue) : queue[m] = queue[n] => m = n
    /\ \A w \in Workers : Busy(w) => \A n \in 1..Len(queue) : queue[n] # worker[w].id
    /\ \A u, w \in Workers : (u # w /\ Busy(u) /\ Busy(w)) => worker[u].id # worker[w].id
    /\ \A c \in Clients : Submitting(c) =>
          /\ \A n \in 1..Len(queue) : queue[n] # client[c].id
          /\ \A w \in Workers : Busy(w) => worker[w].id # client[c].id
          /\ \A d \in Clients : d # c /\ Submitting(d) => client[d].id # client[c].id

\* What is in hand is in _live, from _live.add to _live.discard.
HeldIsLive ==
    /\ \A n \in 1..Len(queue) : queue[n] \in live
    /\ \A w \in Workers : Busy(w) => worker[w].id \in live
    /\ \A c \in Clients : client[c].pc = "listed" => client[c].id \in live

\* Only a thread past Start has started its row's handler.
NotYetStarted ==
    /\ \A i \in Ids : runs[i] <= 1
    /\ \A n \in 1..Len(queue) : runs[queue[n]] = 0
    /\ \A c \in Clients : Submitting(c) => runs[client[c].id] = 0
    /\ \A w \in Workers : worker[w].pc \in {"took", "waiting", "holding"} => runs[worker[w].id] = 0

HandInv == TypeInv /\ IdsGivenOut /\ KeyIsTheRows /\ HeldOnce /\ HeldIsLive /\ NotYetStarted

LEMMA HandInit == Init => HandInv
BY TypeInit DEF Init, HandInv, IdsGivenOut, KeyIsTheRows, HeldOnce, HeldIsLive, NotYetStarted,
   RunsOnce, Busy, Submitting, IdleWorker, IdleClient

LEMMA HandClient ==
  ASSUME HandInv, NEW c \in Clients,
         (\E r \in Requests : CommitRow(c, r)) \/ ClientStep(c) \/ SubmitFails(c)
  PROVE  HandInv'
<1> USE DEF HandInv
<1>0. TypeInv' /\ TypeOK /\ IdsInHand
  BY TypeClient DEF TypeInv
<1> USE DEF Busy, Submitting
<1>a. /\ nextId \in Nat /\ \A i \in Ids : i \in Nat
      /\ \A n \in 1..Len(queue) : queue[n] \in Ids
      /\ \A d \in Clients : client[d].pc # "idle" => client[d].id \in Ids
      /\ \A w \in Workers : worker[w].pc # "idle" => worker[w].id \in Ids
  BY <1>0, WpConstants DEF TypeOK, IdsInHand, Ids
<1>1. ASSUME NEW r \in Requests, CommitRow(c, r) PROVE HandInv'
  <2>1. /\ client' = [client EXCEPT ![c] = [pc |-> "committed", id |-> nextId]]
        /\ request' = [request EXCEPT ![nextId] = r] /\ runs' = [runs EXCEPT ![nextId] = 0]
        /\ nextId' = nextId + 1 /\ nextId \in Ids /\ client[c].pc = "idle"
        /\ UNCHANGED <<live, queue, lock, worker>>
    BY <1>1 DEF CommitRow, memory
  <2>2. client'[c].id = nextId /\ \A d \in Clients : d # c => client'[d] = client[d]
    BY <1>0, <2>1 DEF TypeOK
  <2>3. IdsGivenOut'
    <3>1. ASSUME NEW w \in Workers, Busy(w) PROVE worker[w].id < nextId + 1
      BY <1>a, <3>1 DEF IdsGivenOut
    <3>2. ASSUME NEW d \in Clients, d # c, Submitting(d) PROVE client[d].id < nextId + 1
      BY <1>a, <3>2 DEF IdsGivenOut
    <3>3. ASSUME NEW n \in 1..Len(queue) PROVE queue[n] < nextId + 1
      BY <1>a, <3>3 DEF IdsGivenOut
    <3>4. nextId < nextId + 1
      BY <1>a
    <3> QED
      BY <2>1, <2>2, <3>1, <3>2, <3>3, <3>4 DEF IdsGivenOut
  <2>4. KeyIsTheRows'
    <3>1. \A w \in Workers : Busy(w) => request'[worker[w].id] = request[worker[w].id]
      BY <1>0, <1>a, <2>1 DEF IdsGivenOut, TypeOK
    <3> QED
      BY <2>1, <3>1 DEF KeyIsTheRows
  <2>5. HeldOnce'
    BY <1>a, <2>1, <2>2 DEF HeldOnce, IdsGivenOut
  <2>6. HeldIsLive'
    BY <2>1, <2>2 DEF HeldIsLive
  <2>7. NotYetStarted'
    <3>1. runs'[nextId] = 0 /\ \A i \in Ids : i # nextId => runs'[i] = runs[i]
      BY <1>0, <2>1 DEF TypeOK
    <3> QED
      BY <1>a, <2>1, <2>2, <3>1 DEF NotYetStarted, RunsOnce, IdsGivenOut
  <2> QED
    BY <1>0, <2>3, <2>4, <2>5, <2>6, <2>7
<1>2. CASE PruneJobs(c) \/ AddLive(c)
  <2>1. /\ client[c].pc # "idle" /\ client'[c].pc # "idle" /\ client'[c].id = client[c].id
        /\ \A d \in Clients : d # c => client'[d] = client[d]
        /\ UNCHANGED <<request, nextId, queue, worker, runs>>
        /\ live \subseteq live'
        /\ client'[c].pc = "listed" => client[c].id \in live'
    <3>1. CASE PruneJobs(c)
      BY <1>0, <3>1 DEF PruneJobs, memory, TypeOK
    <3>2. CASE AddLive(c)
      BY <1>0, <3>2 DEF AddLive, table, TypeOK
    <3> QED
      BY <1>2, <3>1, <3>2
  <2>2. IdsGivenOut' /\ KeyIsTheRows'
    BY <2>1 DEF IdsGivenOut, KeyIsTheRows
  <2>3. HeldOnce'
    BY <2>1 DEF HeldOnce
  <2>4. HeldIsLive' /\ NotYetStarted'
    BY <2>1 DEF HeldIsLive, NotYetStarted, RunsOnce
  <2> QED
    BY <1>0, <2>2, <2>3, <2>4
<1>3. CASE HandOver(c)
  <2>1. /\ client[c].pc = "listed" /\ client[c].id \in Ids
        /\ queue' = Append(queue, client[c].id)
        /\ client'[c].pc = "idle" /\ \A d \in Clients : d # c => client'[d] = client[d]
        /\ UNCHANGED <<request, nextId, live, worker, runs>>
    BY <1>0, <1>3 DEF HandOver, IdleClient, table, TypeOK, IdsInHand
  <2>2. /\ Len(queue') = Len(queue) + 1 /\ Len(queue) \in Nat
        /\ queue'[Len(queue) + 1] = client[c].id
        /\ \A n \in 1..Len(queue) : queue'[n] = queue[n]
    BY <1>0, <2>1 DEF TypeOK
  <2>3. IdsGivenOut' /\ KeyIsTheRows'
    BY <2>1, <2>2 DEF IdsGivenOut, KeyIsTheRows
  <2>4. HeldOnce'
    BY <2>1, <2>2 DEF HeldOnce
  <2>5. HeldIsLive' /\ NotYetStarted'
    BY <2>1, <2>2 DEF HeldIsLive, NotYetStarted, RunsOnce
  <2> QED
    BY <1>0, <2>3, <2>4, <2>5
<1>4. CASE SubmitFails(c)
  <2>1. /\ client'[c].pc = "idle" /\ \A d \in Clients : d # c => client'[d] = client[d]
        /\ UNCHANGED <<request, nextId, queue, live, worker, runs>>
    BY <1>0, <1>4 DEF SubmitFails, IdleClient, table, memory, TypeOK
  <2>2. IdsGivenOut' /\ KeyIsTheRows' /\ HeldOnce'
    BY <2>1 DEF IdsGivenOut, KeyIsTheRows, HeldOnce
  <2>3. HeldIsLive' /\ NotYetStarted'
    BY <2>1 DEF HeldIsLive, NotYetStarted, RunsOnce
  <2> QED
    BY <1>0, <2>2, <2>3
<1> QED
  BY <1>1, <1>2, <1>3, <1>4 DEF ClientStep

LEMMA HandWorker ==
  ASSUME HandInv, NEW w \in Workers, WorkerStep(w) \/ WorkerRaises(w)
  PROVE  HandInv'
<1> USE DEF HandInv
<1>0. TypeInv' /\ TypeOK /\ IdsInHand
  BY TypeWorker DEF TypeInv
<1> USE DEF Busy, Submitting
<1>1. CASE Take(w)
  <2>1. /\ worker[w].pc = "idle" /\ queue # <<>>
        /\ worker'[w].pc = "took" /\ worker'[w].id = Head(queue)
        /\ \A u \in Workers : u # w => worker'[u] = worker[u]
        /\ queue' = Tail(queue)
        /\ UNCHANGED <<request, nextId, live, client, runs>>
    BY <1>0, <1>1 DEF Take, TypeOK, table, threads
  <2>2. /\ Len(queue) \in Nat /\ Len(queue) >= 1 /\ Len(queue') = Len(queue) - 1
        /\ Head(queue) = queue[1]
        /\ \A n \in 1..Len(queue') : queue'[n] = queue[n + 1] /\ n + 1 \in 1..Len(queue) /\ n + 1 # 1
    <3>1. queue \in Seq(Ids) /\ queue # <<>>
      BY <1>0, <2>1 DEF TypeOK
    <3>2. Len(queue) \in Nat /\ Len(queue) >= 1 /\ Len(Tail(queue)) = Len(queue) - 1
      BY <3>1
    <3>3. Head(queue) = queue[1]
      BY <3>1
    <3>4. \A n \in 1..Len(Tail(queue)) : Tail(queue)[n] = queue[n + 1]
      BY <3>1
    <3>5. \A n \in 1..Len(Tail(queue)) : n + 1 \in 1..Len(queue) /\ n + 1 # 1
      BY <3>2
    <3> QED
      BY <2>1, <3>2, <3>3, <3>4, <3>5
  <2>3. IdsGivenOut'
    BY <2>1, <2>2 DEF IdsGivenOut
  <2>4. KeyIsTheRows'
    BY <2>1 DEF KeyIsTheRows
  <2>5. HeldOnce'
    BY <2>1, <2>2 DEF HeldOnce
  <2>6. HeldIsLive' /\ NotYetStarted'
    BY <2>1, <2>2 DEF HeldIsLive, NotYetStarted, RunsOnce
  <2> QED
    BY <1>0, <2>3, <2>4, <2>5, <2>6
<1>2. CASE ReadRow(w)
  <2>1. /\ worker[w].pc = "took" /\ worker'[w].id = worker[w].id
        /\ \/ worker'[w].pc = "leaving"
           \/ worker'[w].pc = "waiting" /\ worker'[w].key = KeyOf(request[worker[w].id])
        /\ \A u \in Workers : u # w => worker'[u] = worker[u]
        /\ UNCHANGED <<request, nextId, live, queue, client, runs>>
    <3>1. CASE Step(w, "leaving")
      BY <1>0, <1>2, <3>1, StepMoves DEF ReadRow, WorkerPcs, table, threads
    <3>2. CASE ~Step(w, "leaving")
      BY <1>0, <1>2, <3>2 DEF ReadRow, TypeOK, table, threads
    <3> QED
      BY <3>1, <3>2
  <2>2. IdsGivenOut' /\ KeyIsTheRows'
    BY <2>1 DEF IdsGivenOut, KeyIsTheRows
  <2>3. HeldOnce'
    BY <2>1 DEF HeldOnce
  <2>4. HeldIsLive' /\ NotYetStarted'
    BY <2>1 DEF HeldIsLive, NotYetStarted, RunsOnce
  <2> QED
    BY <1>0, <2>2, <2>3, <2>4
<1>3. CASE Start(w)
  <2>1. Step(w, "running") /\ "running" \in WorkerPcs
    BY <1>3 DEF Start, WorkerPcs
  <2>2. /\ worker[w].pc = "holding" /\ worker[w].id \in Ids
        /\ runs' = [runs EXCEPT ![worker[w].id] = @ + 1]
        /\ UNCHANGED <<request, nextId, live, queue, client>>
    BY <1>0, <1>3 DEF Start, threads, IdsInHand
  <2>3. /\ worker'[w].pc = "running" /\ worker'[w].id = worker[w].id /\ worker'[w].key = worker[w].key
        /\ \A u \in Workers : u # w => worker'[u] = worker[u]
    BY <1>0, <2>1, StepMoves
  <2>4. IdsGivenOut' /\ KeyIsTheRows'
    BY <2>2, <2>3 DEF IdsGivenOut, KeyIsTheRows
  <2>5. HeldOnce'
    BY <2>2, <2>3 DEF HeldOnce
  <2>6. HeldIsLive'
    BY <2>2, <2>3 DEF HeldIsLive
  <2>7. NotYetStarted'
    <3>1. runs[worker[w].id] = 0
      BY <2>2 DEF NotYetStarted
    <3>2. runs'[worker[w].id] = 1 /\ \A i \in Ids : i # worker[w].id => runs'[i] = runs[i]
      BY <1>0, <2>2, <3>1 DEF TypeOK
    <3>3. RunsOnce'
      BY <3>2 DEF NotYetStarted, RunsOnce
    <3>4. \A n \in 1..Len(queue) : runs'[queue[n]] = 0
      <4>1. ASSUME NEW n \in 1..Len(queue) PROVE queue[n] \in Ids
        BY <1>0 DEF TypeOK
      <4>2. ASSUME NEW n \in 1..Len(queue) PROVE queue[n] # worker[w].id /\ runs[queue[n]] = 0
        BY <2>2 DEF HeldOnce, NotYetStarted
      <4> QED
        BY <3>2, <4>1, <4>2
    <3>5. \A c \in Clients : Submitting(c) => runs'[client[c].id] = 0
      BY <1>0, <2>2, <3>2 DEF NotYetStarted, HeldOnce, IdsInHand
    <3>6. \A u \in Workers : u # w /\ worker[u].pc \in {"took", "waiting", "holding"}
              => runs'[worker[u].id] = 0
      BY <1>0, <2>2, <3>2 DEF NotYetStarted, HeldOnce, IdsInHand
    <3> QED
      BY <2>2, <2>3, <3>3, <3>4, <3>5, <3>6 DEF NotYetStarted
  <2> QED
    BY <1>0, <2>4, <2>5, <2>6, <2>7
<1>4. CASE \/ Acquire(w) \/ Release(w) \/ WorkerRaises(w)
           \/ \E outcome \in {"completed", "failed"} : Finish(w, outcome)
  <2>1. PICK pc \in {"holding", "ended", "leaving"} :
          /\ Step(w, pc) /\ pc \in WorkerPcs
          /\ worker[w].pc # "idle" /\ UNCHANGED <<request, nextId, live, queue, client, runs>>
          /\ pc \in {"holding", "ended"} => worker[w].pc \in {"waiting", "holding", "running"}
          /\ pc = "holding" => worker[w].pc = "waiting"
    <3>1. CASE Acquire(w)
      BY <3>1 DEF Acquire, WorkerPcs, table, threads
    <3>2. CASE Release(w)
      BY <3>2 DEF Release, WorkerPcs, table, threads
    <3>3. CASE WorkerRaises(w)
      BY <3>3 DEF WorkerRaises, StartRaises, FinishRaises, WorkerPcs, table, threads
    <3>4. CASE \E outcome \in {"completed", "failed"} : Finish(w, outcome)
      BY <3>4 DEF Finish, WorkerPcs, table, threads
    <3> QED
      BY <1>4, <3>1, <3>2, <3>3, <3>4
  <2>2. /\ worker'[w].pc = pc /\ worker'[w].id = worker[w].id /\ worker'[w].key = worker[w].key
        /\ \A u \in Workers : u # w => worker'[u] = worker[u]
    BY <1>0, <2>1, StepMoves
  <2>3. IdsGivenOut' /\ KeyIsTheRows'
    BY <2>1, <2>2 DEF IdsGivenOut, KeyIsTheRows
  <2>4. HeldOnce'
    BY <2>1, <2>2 DEF HeldOnce
  <2>5. HeldIsLive' /\ NotYetStarted'
    BY <2>1, <2>2 DEF HeldIsLive, NotYetStarted, RunsOnce
  <2> QED
    BY <1>0, <2>3, <2>4, <2>5
<1>5. CASE Leave(w)
  <2>1. /\ worker[w].pc = "leaving" /\ worker'[w].pc = "idle"
        /\ \A u \in Workers : u # w => worker'[u] = worker[u]
        /\ live' = live \ {worker[w].id}
        /\ UNCHANGED <<request, nextId, queue, client, runs>>
    BY <1>0, <1>5 DEF Leave, IdleWorker, TypeOK, table, threads
  <2>2. IdsGivenOut' /\ KeyIsTheRows'
    BY <2>1 DEF IdsGivenOut, KeyIsTheRows
  <2>3. HeldOnce'
    BY <2>1 DEF HeldOnce
  <2>4. HeldIsLive'
    BY <2>1 DEF HeldIsLive, HeldOnce
  <2>5. NotYetStarted'
    BY <2>1 DEF NotYetStarted, RunsOnce
  <2> QED
    BY <1>0, <2>2, <2>3, <2>4, <2>5
<1> QED
  BY <1>1, <1>2, <1>3, <1>4, <1>5 DEF WorkerStep

LEMMA HandOther ==
  ASSUME purges' = 0, HandInv,
         (\E v \in Viewers : ViewerStep(v) \/ WriteRefused(v)) \/ Restart \/ Purge \/ UNCHANGED vars
  PROVE  HandInv'
<1> USE DEF HandInv
<1>0. TypeInv' /\ TypeOK
  BY TypeViewer, TypeOther DEF TypeInv
<1>1. ~Purge
  BY <1>0, WpConstants DEF Purge, TypeOK
<1>2. CASE UNCHANGED <<request, nextId, live, queue, worker, client, runs>>
  <2>1. IdsGivenOut' /\ KeyIsTheRows' /\ HeldOnce'
    BY <1>2 DEF IdsGivenOut, KeyIsTheRows, HeldOnce, Busy, Submitting
  <2>2. HeldIsLive' /\ NotYetStarted'
    BY <1>2 DEF HeldIsLive, NotYetStarted, RunsOnce, Busy, Submitting
  <2> QED
    BY <1>0, <2>1, <2>2
<1>3. CASE Restart
  <2>1. /\ \A w \in Workers : worker'[w].pc = "idle"
        /\ \A c \in Clients : client'[c].pc = "idle"
        /\ queue' = <<>> /\ Len(queue') = 0 /\ UNCHANGED runs
    BY <1>3 DEF Restart, IdleWorker, IdleClient
  <2>2. IdsGivenOut' /\ KeyIsTheRows' /\ HeldOnce'
    BY <2>1 DEF IdsGivenOut, KeyIsTheRows, HeldOnce, Busy, Submitting
  <2>3. HeldIsLive' /\ NotYetStarted'
    BY <2>1 DEF HeldIsLive, NotYetStarted, RunsOnce, Busy, Submitting
  <2> QED
    BY <1>0, <2>2, <2>3
<1>4. ASSUME (\E v \in Viewers : ViewerStep(v) \/ WriteRefused(v)) \/ UNCHANGED vars
      PROVE  UNCHANGED <<request, nextId, live, queue, worker, client, runs>>
  BY <1>4 DEF ViewerStep, ReadUnfinished, CompareLive, WriteInterrupted, WriteRefused, vars, table, memory
<1> QED
  BY <1>1, <1>2, <1>3, <1>4

\* The history is deleted for good: no step takes a purge back.
LEMMA PurgesStay == ASSUME TypeOK, [Next]_vars, purges' = 0 PROVE purges = 0
<1>1. CASE Purge
  BY <1>1 DEF Purge, TypeOK
<1>2. CASE \E c \in Clients : (\E r \in Requests : CommitRow(c, r)) \/ ClientStep(c) \/ SubmitFails(c)
  BY <1>2 DEF ClientStep, CommitRow, PruneJobs, AddLive, HandOver, SubmitFails
<1>3. CASE \E w \in Workers : WorkerStep(w) \/ WorkerRaises(w)
  BY <1>3 DEF WorkerStep, WorkerRaises, Take, ReadRow, Acquire, Start, Finish, Release, Leave,
     StartRaises, FinishRaises
<1>4. CASE \E v \in Viewers : ViewerStep(v) \/ WriteRefused(v)
  BY <1>4 DEF ViewerStep, ReadUnfinished, CompareLive, WriteInterrupted, WriteRefused
<1>5. CASE Restart \/ UNCHANGED vars
  BY <1>5 DEF Restart, vars
<1> QED
  BY <1>1, <1>2, <1>3, <1>4, <1>5 DEF Next

HandInvOrPurged == TypeInv /\ (purges = 0 => HandInv)

LEMMA HandInvariant == Spec => []HandInvOrPurged
<1>1. Init => HandInvOrPurged
  BY TypeInit, HandInit DEF HandInvOrPurged
<1>2. HandInvOrPurged /\ [Next]_vars => HandInvOrPurged'
  <2> SUFFICES ASSUME HandInvOrPurged, [Next]_vars PROVE HandInvOrPurged'
    OBVIOUS
  <2>1. TypeInv'
    BY TypeClient, TypeWorker, TypeViewer, TypeOther DEF HandInvOrPurged, Next
  <2>2. ASSUME purges' = 0 PROVE HandInv'
    <3>1. HandInv
      BY <2>2, PurgesStay DEF HandInvOrPurged, TypeInv
    <3> QED
      BY <2>2, <3>1, HandClient, HandWorker, HandOther DEF Next
  <2> QED
    BY <2>1, <2>2 DEF HandInvOrPurged
<1> QED
  BY <1>1, <1>2, PTL DEF Spec

\* As long as the addon's history is not deleted, no two pool threads run
\* handlers of tasks that carry the same lock: one task per WordPress.
THEOREM OneTask == Spec => []OneTaskPerInstall
<1>1. LockInv /\ HandInvOrPurged => OneTaskPerInstall
  BY DEF HandInvOrPurged, LockInv, LockNamesHolder, HandInv, KeyIsTheRows, OneTaskPerInstall, InLock
<1> QED
  BY <1>1, LockInvariant, HandInvariant, PTL

\* Who has an id in hand keeps it, or hands it on, or takes it out of _live.
LEMMA OwnedStep ==
  ASSUME TypeInv, TypeInv', LiveIsOwned, [Next]_vars
  PROVE  LiveIsOwned'
<1> USE DEF LiveIsOwned, InQueue, HeldByWorker, Listed
<1>0. /\ live \subseteq Ids /\ queue \in Seq(Ids) /\ TypeOK
      /\ \A w \in Workers : worker[w].pc # "idle" => worker[w].id \in Ids
  BY DEF TypeInv, TypeOK, IdsInHand
<1>1. ASSUME NEW c \in Clients, (\E r \in Requests : CommitRow(c, r)) \/ ClientStep(c) \/ SubmitFails(c)
      PROVE  LiveIsOwned'
  <2>1. CASE AddLive(c)
    <3>1. /\ client'[c] = [client[c] EXCEPT !.pc = "listed"] /\ live' = live \cup {client[c].id}
          /\ \A d \in Clients : d # c => client'[d] = client[d]
          /\ client[c].pc = "pruned" /\ UNCHANGED <<queue, worker>>
      BY <1>0, <2>1 DEF AddLive, TypeOK
    <3>2. client'[c].pc = "listed" /\ client'[c].id = client[c].id
      BY <1>0, <3>1 DEF TypeOK
    <3>3. ASSUME NEW i \in live PROVE InQueue(i)' \/ HeldByWorker(i)' \/ Listed(i)'
      <4>1. (InQueue(i) => InQueue(i)') /\ (HeldByWorker(i) => HeldByWorker(i)')
        BY <3>1
      <4>2. Listed(i) => Listed(i)'
        BY <3>1
      <4> QED
        BY <4>1, <4>2
    <3>4. Listed(client[c].id)'
      BY <3>2
    <3> QED
      BY <3>1, <3>3, <3>4
  <2>2. CASE HandOver(c)
    <3>1. /\ queue' = Append(queue, client[c].id) /\ client[c].id \in Ids
          /\ \A d \in Clients : d # c => client'[d] = client[d]
          /\ UNCHANGED <<live, worker>>
      BY <1>0, <2>2 DEF HandOver, TypeInv, TypeOK, IdsInHand
    <3>2. /\ Len(queue) \in Nat /\ Len(queue') = Len(queue) + 1
          /\ queue'[Len(queue) + 1] = client[c].id
          /\ \A n \in 1..Len(queue) : queue'[n] = queue[n]
      BY <1>0, <3>1
    <3>3. (Len(queue) + 1) \in 1..Len(queue') /\ \A n \in 1..Len(queue) : n \in 1..Len(queue')
      BY <3>2
    <3>4. ASSUME NEW i \in live' PROVE InQueue(i)' \/ HeldByWorker(i)' \/ Listed(i)'
      <4>1. InQueue(i) => InQueue(i)'
        BY <3>2, <3>3
      <4>2. HeldByWorker(i) => HeldByWorker(i)'
        BY <3>1
      <4>3. ASSUME NEW d \in Clients, client[d].pc = "listed", client[d].id = i
            PROVE  InQueue(i)' \/ Listed(i)'
        <5>1. CASE d = c
          BY <3>2, <3>3, <4>3, <5>1
        <5>2. CASE d # c
          BY <3>1, <4>3, <5>2
        <5> QED
          BY <5>1, <5>2
      <4> QED
        BY <3>1, <4>1, <4>2, <4>3
    <3> QED
      BY <3>4
  <2>3. CASE (\E r \in Requests : CommitRow(c, r)) \/ PruneJobs(c) \/ SubmitFails(c)
    <3>1. /\ client[c].pc # "listed" /\ \A d \in Clients : d # c => client'[d] = client[d]
          /\ UNCHANGED <<live, queue, worker>>
      BY <1>0, <2>3 DEF CommitRow, PruneJobs, SubmitFails, memory, TypeOK
    <3> QED
      BY <3>1
  <2> QED
    BY <1>1, <2>1, <2>2, <2>3 DEF ClientStep
<1>2. ASSUME NEW w \in Workers, WorkerStep(w) \/ WorkerRaises(w)
      PROVE  LiveIsOwned'
  <2>1. CASE Take(w)
    <3>1. /\ worker'[w].pc = "took" /\ worker'[w].id = Head(queue) /\ worker[w].pc = "idle"
          /\ \A u \in Workers : u # w => worker'[u] = worker[u]
          /\ queue' = Tail(queue) /\ queue # <<>> /\ UNCHANGED <<live, client>>
      BY <1>0, <2>1 DEF Take, TypeOK, threads
    <3>2. Len(queue) \in Nat /\ Len(queue) >= 1 /\ Len(Tail(queue)) = Len(queue) - 1
      BY <1>0, <3>1
    <3>3. Head(queue) = queue[1] /\ \A n \in 1..Len(Tail(queue)) : Tail(queue)[n] = queue[n + 1]
      BY <1>0, <3>1
    <3>4. ASSUME NEW i, InQueue(i) PROVE InQueue(i)' \/ HeldByWorker(i)'
      <4>1. PICK n \in 1..Len(queue) : queue[n] = i
        BY <3>4
      <4>2. CASE n = 1
        <5>1. worker'[w].id = i
          BY <3>1, <3>3, <4>1, <4>2
        <5> QED
          BY <3>1, <5>1
      <4>3. CASE n # 1
        <5>1. (n - 1) \in 1..Len(Tail(queue)) /\ (n - 1) + 1 = n
          BY <3>2, <4>3
        <5>2. (n - 1) \in 1..Len(queue') /\ queue'[n - 1] = i
          BY <3>1, <3>3, <4>1, <5>1
        <5> QED
          BY <5>2
      <4> QED
        BY <4>2, <4>3
    <3>5. ASSUME NEW i, HeldByWorker(i) PROVE HeldByWorker(i)'
      BY <3>1, <3>5
    <3>6. ASSUME NEW i, Listed(i) PROVE Listed(i)'
      BY <3>1, <3>6
    <3>7. live' = live
      BY <3>1
    <3> HIDE DEF InQueue, HeldByWorker, Listed
    <3> QED
      BY <3>4, <3>5, <3>6, <3>7
  <2>2. CASE Leave(w)
    <3>1. /\ live' = live \ {worker[w].id} /\ UNCHANGED <<queue, client>>
          /\ \A u \in Workers : u # w => worker'[u] = worker[u]
      BY <1>0, <2>2 DEF Leave, TypeOK, threads
    <3> QED
      BY <3>1
  <2>3. CASE ~Take(w) /\ ~Leave(w)
    <3>1. /\ UNCHANGED <<live, queue, client>>
          /\ \A u \in Workers : u # w => worker'[u] = worker[u]
          /\ worker'[w].pc # "idle" /\ worker'[w].id = worker[w].id
      <4>1. CASE ReadRow(w) /\ status[worker[w].id] # "absent"
        BY <1>0, <4>1 DEF ReadRow, TypeOK, threads
      <4>2. CASE ~(ReadRow(w) /\ status[worker[w].id] # "absent")
        <5>1. \E pc \in WorkerPcs \ {"idle"} : Step(w, pc) /\ UNCHANGED <<live, queue, client>>
          BY <1>2, <2>3, <4>2 DEF WorkerStep, WorkerRaises, ReadRow, Acquire, Start, Finish, Release,
             StartRaises, FinishRaises, threads, WorkerPcs
        <5> QED
          BY <1>0, <5>1, StepMoves
      <4> QED
        BY <4>1, <4>2
    <3> QED
      BY <3>1
  <2> QED
    BY <2>1, <2>2, <2>3
<1>3. CASE Restart
  BY <1>3 DEF Restart
<1>4. CASE (\E v \in Viewers : ViewerStep(v) \/ WriteRefused(v)) \/ Purge \/ UNCHANGED vars
  <2>1. UNCHANGED <<live, queue, worker, client>>
    BY <1>4 DEF ViewerStep, ReadUnfinished, CompareLive, WriteInterrupted, WriteRefused, Purge, vars, memory, threads
  <2> QED
    BY <2>1
<1> QED
  BY <1>1, <1>2, <1>3, <1>4 DEF Next

\* No id stays in _live for good, whatever is restarted, purged or refused; and
\* as long as the history is not deleted, a task the pool still has is in
\* _live: settle_stale's comparison never condemns it.
THEOREM LiveStaysThePools == Spec => []LiveMatchesPool
<1>1. HandInvOrPurged => PoolIsLive
  BY DEF HandInvOrPurged, HandInv, HeldIsLive, PoolIsLive, InQueue, HeldByWorker, Busy
<1>2. Init => LiveIsOwned
  BY DEF Init, LiveIsOwned
<1>3. TypeInv /\ TypeInv' /\ LiveIsOwned /\ [Next]_vars => LiveIsOwned'
  BY OwnedStep
<1>4. HandInvOrPurged => TypeInv
  BY DEF HandInvOrPurged
<1> QED
  BY <1>1, <1>2, <1>3, <1>4, HandInvariant, PTL DEF Spec, LiveMatchesPool

\* As long as the addon's history is not deleted, no row's handler is started
\* a second time, over any number of restarts and interruptions.
THEOREM StartedOnce == Spec => []RunsOnce
<1>1. HandInvOrPurged => RunsOnce
  BY DEF HandInvOrPurged, HandInv, NotYetStarted, RunsOnce
<1> QED
  BY <1>1, HandInvariant, PTL
=============================================================================
