-------------------------- MODULE MalwareQueueProofs --------------------------
(***************************************************************************)
(* Proofs about the scanning of uploads, for every number of uploads, paths, *)
(* requests, worker threads and restarts, and every size of the queue.      *)
(***************************************************************************)
EXTENDS MalwareQueue, FiniteSetTheorems, TLAPS

\* An upload that came has a path, and a file lies where it landed; what has a
\* result has come.
Landed ==
    /\ \A u \in Uploads : kind[u] # None <=> path[u] # None
    /\ \A u \in Uploads : result[u] # "none" => kind[u] # None
    /\ \A p \in Paths : disk[p] # None => path[disk[p]] = p

\* A request past its rename, the queue and a worker with a record have an upload
\* in hand that came.
InHand ==
    /\ \A q \in Requests : request[q].pc # "idle" =>
            request[q].upload \in Uploads /\ kind[request[q].upload] # None
    /\ \A n \in 1..Len(queue) : kind[queue[n]] # None
    /\ \A w \in Workers : worker[w].pc \notin {"none", "waiting"} =>
            worker[w].upload \in Uploads /\ kind[worker[w].upload] # None

\* No two workers run.
Single == \A v, w \in Workers : worker[v].pc # "none" /\ worker[w].pc # "none" => v = w

\* A worker past its look at the size does not have a padded file of its own
\* record before it, unless it knew of no limit; a file that lies there still was
\* not called clean unless it is or that is why; and while a removal is due nothing
\* that was called clean lies there.
Verdicts ==
    /\ \A w \in Workers : worker[w].pc = "sized" /\ kind[worker[w].upload] = "padded"
            => There(w) # worker[w].upload \/ worker[w].upload \in unread
    /\ NeverCalledClean
    /\ \A w \in Workers : worker[w].pc = "infected" /\ There(w) # None
            => result[There(w)] # "clean"

TypeInv == TypeOK /\ Landed /\ InHand
Inv == TypeInv /\ Single /\ Verdicts

LEMMA InvInit == Init => Inv
BY QueueConstants DEF Init, Inv, TypeInv, TypeOK, Landed, InHand, Single, Verdicts, NeverCalledClean,
   There, IdleRequest, NoWorker, Results, Kinds

\* The history stays a sequence of uploads within its size.
LEMMA RememberedType ==
  ASSUME NEW u \in Uploads, history \in Seq(Uploads), Len(history) <= History
  PROVE  Remembered(u) \in Seq(Uploads) /\ Len(Remembered(u)) <= History
<1> DEFINE h == Append(history, u)
<1>1. h \in Seq(Uploads) /\ Len(h) = Len(history) + 1
  OBVIOUS
<1>2. CASE Len(h) > History
  <2>1. Tail(h) \in Seq(Uploads) /\ Len(Tail(h)) = Len(h) - 1
    BY <1>1
  <2> QED
    BY <1>1, <1>2, <2>1, QueueConstants DEF Remembered
<1>3. CASE ~(Len(h) > History)
  BY <1>1, <1>3, QueueConstants DEF Remembered
<1> QED
  BY <1>2, <1>3

\* Ending a record leaves the types alone.
LEMMA TypeFinish ==
  ASSUME TypeInv, NEW w \in Workers, worker[w].pc \notin {"none", "waiting"},
         NEW r \in Results \ {"none"}, Finish(w, r),
         disk' \in [Paths -> Uploads \cup {None}],
         \A p \in Paths : disk'[p] # None => disk'[p] = disk[p]
  PROVE  TypeInv'
<1> USE DEF TypeInv, TypeOK, Landed, InHand
<1>1. worker[w].upload \in Uploads /\ kind[worker[w].upload] # None
  OBVIOUS
<1>2. Remembered(worker[w].upload) \in Seq(Uploads) /\ Len(Remembered(worker[w].upload)) <= History
  BY <1>1, RememberedType
<1>3. history' \in Seq(Uploads) /\ Len(history') <= History
  BY <1>2 DEF Finish
<1>4. result' \in [Uploads -> Results]
  BY DEF Finish
<1>5. worker' \in [Workers -> [pc : {"none", "waiting", "taken", "sized", "infected"},
                               upload : Uploads \cup {None}]]
  BY DEF Finish, WaitingWorker
<1>6. Landed'
  BY <1>1 DEF Finish
<1>7. InHand'
  BY DEF Finish, WaitingWorker
<1> QED
  BY <1>3, <1>4, <1>5, <1>6, <1>7 DEF Finish

\* A request's steps and the customer's keep the types.
LEMMA TypeRequest ==
  ASSUME TypeInv, NEW q \in Requests,
         (\E u \in Uploads, p \in Paths, k \in Kinds : Install(q, u, p, k)) \/ Enqueue(q)
  PROVE  TypeInv'
<1> USE DEF TypeInv, TypeOK, Landed, InHand
<1>1. ASSUME NEW u \in Uploads, NEW p \in Paths, NEW k \in Kinds, Install(q, u, p, k)
      PROVE  TypeInv'
  <2>1. /\ kind[u] = None /\ path[u] = None /\ u # None /\ p # None
        /\ k # None
    BY <1>1, QueueConstants DEF Install, Uploads, Kinds
  <2>2. TypeOK'
    BY <1>1 DEF Install
  <2>3. Landed'
    <3>1. /\ kind' = [kind EXCEPT ![u] = k] /\ path' = [path EXCEPT ![u] = p]
          /\ disk' = [disk EXCEPT ![p] = u] /\ result' = result
      BY <1>1 DEF Install
    <3>2. ASSUME NEW x \in Paths, disk'[x] # None PROVE path'[disk'[x]] = x
      <4>1. CASE x = p
        BY <3>1, <4>1
      <4>2. CASE x # p
        <5>1. disk'[x] = disk[x] /\ disk[x] \in Uploads /\ path[disk[x]] = x /\ x # None
          BY <3>1, <3>2, <4>2, QueueConstants
        <5>2. disk[x] # u
          BY <5>1, <2>1
        <5> QED
          BY <3>1, <5>1, <5>2
      <4> QED
        BY <4>1, <4>2
    <3>3. /\ \A v \in Uploads : kind'[v] # None <=> path'[v] # None
          /\ \A v \in Uploads : result'[v] # "none" => kind'[v] # None
      BY <2>1, <3>1
    <3> QED
      BY <3>2, <3>3
  <2>4. InHand'
    BY <1>1, <2>1 DEF Install
  <2> QED
    BY <2>2, <2>3, <2>4
<1>2. CASE LookWorker(q)
  BY <1>2 DEF LookWorker
<1>3. CASE StartWorker(q)
  <2>1. request[q].pc # "idle" /\ UNCHANGED <<disk, kind, path, unread, result, queue, history, restarts>>
    BY <1>3 DEF StartWorker
  <2>2. request' = [request EXCEPT ![q].pc = "ready"]
    BY <1>3 DEF StartWorker
  <2>3. worker' = worker \/ \E w \in Workers : worker' = [worker EXCEPT ![w] = WaitingWorker]
    BY <1>3 DEF StartWorker
  <2>4. /\ worker' \in [Workers -> [pc : {"none", "waiting", "taken", "sized", "infected"},
                                    upload : Uploads \cup {None}]]
        /\ \A w \in Workers : worker'[w] = worker[w] \/ worker'[w].pc = "waiting"
    <3> DEFINE Workings == [pc : {"none", "waiting", "taken", "sized", "infected"},
                            upload : Uploads \cup {None}]
    <3>1. WaitingWorker \in Workings /\ WaitingWorker.pc = "waiting"
      BY DEF WaitingWorker
    <3>2. worker \in [Workers -> Workings]
      OBVIOUS
    <3> HIDE DEF Workings
    <3>3. worker' \in [Workers -> Workings] /\ \A w \in Workers : worker'[w] \in {worker[w], WaitingWorker}
      BY <2>3, <3>1, <3>2
    <3> QED
      BY <3>1, <3>3 DEF Workings
  <2>5. \A w \in Workers : worker'[w].pc \notin {"none", "waiting"} => worker'[w] = worker[w]
    BY <2>4
  <2>6. TypeOK' /\ Landed'
    BY <2>1, <2>2, <2>4
  <2>7. InHand'
    BY <2>1, <2>2, <2>5
  <2> QED
    BY <2>6, <2>7
<1>4. CASE Put(q)
  <2> DEFINE u == request[q].upload
  <2>1. u \in Uploads /\ kind[u] # None /\ UNCHANGED <<disk, kind, path, unread, worker, restarts>>
    BY <1>4 DEF Put
  <2>2. request' \in [Requests -> [pc : {"idle", "installed", "locking", "ready"},
                                   upload : Uploads \cup {None}]]
        /\ \A t \in Requests : request'[t].pc # "idle" => request'[t] = request[t]
    BY <1>4 DEF Put, IdleRequest
  <2>3. result' \in [Uploads -> Results] /\ \A v \in Uploads : v # u => result'[v] = result[v]
    BY <1>4, <2>1 DEF Put, Results
  <2>4. /\ history' \in Seq(Uploads) /\ Len(history') <= History
        /\ queue' \in Seq(Uploads) /\ Len(queue') <= MaxPending
        /\ \A n \in 1..Len(queue') : kind[queue'[n]] # None
    <3>1. CASE Len(queue) < MaxPending
      <4>1. queue' = Append(queue, u) /\ history' = history
        BY <1>4, <3>1 DEF Put
      <4> QED
        BY <2>1, <3>1, <4>1, QueueConstants
    <3>2. CASE ~(Len(queue) < MaxPending)
      BY <1>4, <3>2, <2>1, RememberedType DEF Put
    <3> QED
      BY <3>1, <3>2
  <2> QED
    BY <2>1, <2>2, <2>3, <2>4
<1> QED
  BY <1>1, <1>2, <1>3, <1>4 DEF Enqueue

\* So do a worker's.
LEMMA TypeWorker == ASSUME TypeInv, NEW w \in Workers, Work(w) PROVE TypeInv'
<1> USE DEF TypeInv, TypeOK, Landed, InHand
<1> DEFINE Workings == [pc : {"none", "waiting", "taken", "sized", "infected"},
                        upload : Uploads \cup {None}]
<1>1. CASE Take(w)
  <2>1. /\ Head(queue) \in Uploads /\ Tail(queue) \in Seq(Uploads) /\ Len(Tail(queue)) = Len(queue) - 1
        /\ \A n \in 1..Len(Tail(queue)) : Tail(queue)[n] = queue[n + 1] /\ n + 1 \in 1..Len(queue)
        /\ Head(queue) = queue[1] /\ 1 \in 1..Len(queue)
    BY <1>1 DEF Take
  <2>2. /\ worker' \in [Workers -> Workings]
        /\ worker'[w].upload = Head(queue)
        /\ \A v \in Workers : v # w => worker'[v] = worker[v]
    BY <1>1, <2>1 DEF Take
  <2>3. TypeOK' /\ Landed'
    BY <1>1, <2>1, <2>2, QueueConstants DEF Take
  <2>4. InHand'
    BY <1>1, <2>1, <2>2 DEF Take
  <2> QED
    BY <2>3, <2>4
<1>2. ASSUME NEW pc \in {"sized", "infected"}, worker[w].pc \notin {"none", "waiting"},
             worker' = [worker EXCEPT ![w].pc = pc],
             unread' \subseteq unread \cup {worker[w].upload},
             UNCHANGED <<disk, kind, path, result, request, queue, history, restarts>>
      PROVE  TypeInv'
  <2>1. worker' \in [Workers -> Workings]
    BY <1>2 DEF Workings
  <2>2. /\ worker'[w].pc = pc
        /\ \A v \in Workers : /\ worker'[v].upload = worker[v].upload
                              /\ v # w => worker'[v] = worker[v]
    BY <1>2
  <2>3. TypeOK' /\ Landed'
    BY <1>2, <2>1 DEF Workings
  <2>4. InHand'
    BY <1>2, <2>2
  <2> QED
    BY <2>3, <2>4
<1>3. ASSUME NEW r \in Results \ {"none"}, worker[w].pc \notin {"none", "waiting"}, Finish(w, r),
             \/ disk' = disk
             \/ disk' = [disk EXCEPT ![path[worker[w].upload]] = None]
      PROVE  TypeInv'
  <2>1. disk' \in [Paths -> Uploads \cup {None}] /\ \A p \in Paths : disk'[p] # None => disk'[p] = disk[p]
    BY <1>3
  <2> QED
    BY <1>3, <2>1, TypeFinish
<1>4. CASE LookSize(w)
  BY <1>4, <1>2, <1>3 DEF LookSize, Results
<1>5. CASE Scan(w)
  BY <1>5, <1>2, <1>3 DEF Scan, Results
<1>6. CASE ScanFails(w)
  BY <1>6, <1>3 DEF ScanFails, Results
<1>7. CASE Quarantine(w)
  BY <1>7, <1>3 DEF Quarantine, Results
<1> QED
  BY <1>1, <1>4, <1>5, <1>6, <1>7 DEF Work

LEMMA TypeRest == ASSUME TypeInv, (\E p \in Paths : DeleteFile(p)) \/ Restart PROVE TypeInv'
<1> USE DEF TypeInv, TypeOK, Landed, InHand
<1>1. ASSUME NEW p \in Paths, DeleteFile(p) PROVE TypeInv'
  BY <1>1 DEF DeleteFile
<1>2. CASE Restart
  BY <1>2, QueueConstants DEF Restart, IdleRequest, NoWorker, Results
<1> QED
  BY <1>1, <1>2

LEMMA TypeNext == TypeInv /\ [Next]_vars => TypeInv'
<1>1. ASSUME TypeInv, UNCHANGED vars PROVE TypeInv'
  BY <1>1 DEF vars, TypeInv, TypeOK, Landed, InHand
<1> QED
  BY <1>1, TypeRequest, TypeWorker, TypeRest DEF Next

-----------------------------------------------------------------------------
\* Only StartWorker brings a worker up, when none runs.
LEMMA SingleNext == TypeInv /\ Single /\ [Next]_vars => Single'
<1> SUFFICES ASSUME TypeInv, Single, [Next]_vars PROVE Single'
  OBVIOUS
<1> USE DEF Single, TypeInv, TypeOK
<1>1. CASE UNCHANGED worker
  BY <1>1
<1>2. ASSUME NEW q \in Requests, StartWorker(q) PROVE Single'
  <2>1. CASE Alive
    BY <1>2, <2>1 DEF StartWorker
  <2>2. CASE ~Alive
    BY <1>2, <2>2 DEF StartWorker, Alive, WaitingWorker
  <2> QED
    BY <2>1, <2>2
<1>3. ASSUME NEW w \in Workers, Work(w) PROVE Single'
  <2>1. worker[w].pc # "none" /\ \A v \in Workers : v # w => worker'[v] = worker[v]
    BY <1>3 DEF Work, Take, LookSize, Scan, ScanFails, Quarantine, Finish
  <2> QED
    BY <2>1
<1>4. CASE Restart
  BY <1>4 DEF Restart, NoWorker
<1> QED
  BY <1>1, <1>2, <1>3, <1>4 DEF Next, Enqueue, LookWorker, Put, Install, DeleteFile, vars

\* What lies at a path and came before this step was called clean by nobody but
\* the worker of its own record, after reading what lay there then.
LEMMA VerdictsNext == Inv /\ [Next]_vars => Verdicts'
<1> SUFFICES ASSUME Inv, [Next]_vars PROVE Verdicts'
  OBVIOUS
<1> USE DEF Inv, TypeInv, TypeOK, Landed, InHand, Verdicts, NeverCalledClean, There
<1>0. None \notin Uploads /\ None \notin Paths /\ None \notin Kinds
  BY QueueConstants DEF Uploads
<1>1. ASSUME NEW q \in Requests, NEW u \in Uploads, NEW p \in Paths, NEW k \in Kinds, Install(q, u, p, k)
      PROVE  Verdicts'
  <2>1. /\ kind' = [kind EXCEPT ![u] = k] /\ path' = [path EXCEPT ![u] = p]
        /\ disk' = [disk EXCEPT ![p] = u] /\ UNCHANGED <<unread, result, worker>>
        /\ kind[u] = None /\ result[u] = "none"
    BY <1>1 DEF Install
  <2>2. \A w \in Workers : worker[w].pc \notin {"none", "waiting"} =>
            worker[w].upload # u /\ path'[worker[w].upload] = path[worker[w].upload]
                                 /\ path[worker[w].upload] \in Paths
    BY <2>1, <1>0
  <2>3. \A x \in Paths : disk'[x] # None => disk'[x] = u \/ (disk'[x] = disk[x] /\ disk[x] # u)
    BY <2>1, <1>0
  <2>4. ASSUME NEW w \in Workers, worker'[w].pc = "sized", kind'[worker'[w].upload] = "padded"
        PROVE  There(w)' # worker'[w].upload \/ worker'[w].upload \in unread'
    BY <2>1, <2>2, <2>3, <2>4, <1>0
  <2>5. NeverCalledClean'
    BY <2>1, <2>3, <1>0
  <2>6. ASSUME NEW w \in Workers, worker'[w].pc = "infected", There(w)' # None
        PROVE  result'[There(w)'] # "clean"
    BY <2>1, <2>2, <2>3, <2>6, <1>0
  <2> QED
    BY <2>4, <2>5, <2>6
<1>2. ASSUME NEW q \in Requests, Enqueue(q) PROVE Verdicts'
  <2>1. UNCHANGED <<disk, kind, path, unread>>
    BY <1>2 DEF Enqueue, LookWorker, StartWorker, Put
  <2>2. \A u \in Uploads : result'[u] = result[u] \/ result'[u] # "clean"
    BY <1>2 DEF Enqueue, LookWorker, StartWorker, Put
  <2>3. \A w \in Workers : worker'[w] = worker[w] \/ worker'[w].pc = "waiting"
    BY <1>2 DEF Enqueue, LookWorker, StartWorker, Put, WaitingWorker
  <2>4. \A w \in Workers : worker'[w].pc \notin {"none", "waiting"} =>
            worker'[w] = worker[w] /\ path[worker[w].upload] \in Paths
    BY <2>3
  <2>5. NeverCalledClean'
    BY <2>1, <2>2
  <2>6. ASSUME NEW w \in Workers, worker'[w].pc \in {"sized", "infected"}
        PROVE  There(w)' = There(w) /\ worker'[w] = worker[w] /\ There(w) \in Uploads \cup {None}
    BY <2>1, <2>4, <2>6
  <2>7. \A w \in Workers : worker'[w].pc = "infected" /\ There(w)' # None => result'[There(w)'] # "clean"
    BY <2>2, <2>6
  <2>8. \A w \in Workers : worker'[w].pc = "sized" /\ kind'[worker'[w].upload] = "padded"
            => There(w)' # worker'[w].upload \/ worker'[w].upload \in unread'
    BY <2>1, <2>6
  <2> QED
    BY <2>5, <2>7, <2>8
<1>3. ASSUME NEW p \in Paths, DeleteFile(p) PROVE Verdicts'
  <2>1. UNCHANGED <<kind, path, unread, result, worker>> /\ \A x \in Paths : disk'[x] \in {disk[x], None}
    BY <1>3 DEF DeleteFile
  <2>2. \A w \in Workers : worker[w].pc \notin {"none", "waiting"} =>
            path[worker[w].upload] \in Paths /\ worker[w].upload # None
    BY <1>0
  <2> QED
    BY <2>1, <2>2, <1>0
<1>4. CASE Restart
  <2>1. /\ UNCHANGED <<disk, kind, path, unread>> /\ \A w \in Workers : worker'[w].pc = "none"
        /\ \A u \in Uploads : result'[u] = result[u] \/ result'[u] # "clean"
    BY <1>4 DEF Restart, NoWorker
  <2> QED
    BY <2>1
<1>5. ASSUME NEW w \in Workers, Work(w) PROVE Verdicts'
  <2> DEFINE u == worker[w].upload
  <2>1. \A v \in Workers : v # w => worker[v].pc = "none" /\ worker'[v] = worker[v]
    BY <1>5 DEF Single, Work, Take, LookSize, Scan, ScanFails, Quarantine, Finish
  <2>2. ASSUME NEW r \in Results, Finish(w, r), u \in Uploads,
               \A p \in Paths : disk'[p] # None => disk'[p] = disk[p],
               r = "clean" => \A p \in Paths : disk[p] = u =>
                   kind[u] = "clean" \/ (kind[u] = "padded" /\ u \in unread)
        PROVE  Verdicts'
    <3>1. /\ worker'[w].pc = "waiting" /\ UNCHANGED <<kind, path, unread>>
          /\ result' = [result EXCEPT ![u] = r]
      BY <2>2 DEF Finish, WaitingWorker
    <3>2. \A v \in Workers : worker'[v].pc \in {"none", "waiting"}
      BY <2>1, <3>1
    <3>3. NeverCalledClean'
      BY <2>2, <3>1
    <3> QED
      BY <3>2, <3>3
  <2>3. ASSUME NEW pc \in {"sized", "infected"}, worker' = [worker EXCEPT ![w].pc = pc],
               UNCHANGED <<disk, kind, path, result>>, unread \subseteq unread',
               pc = "sized" /\ kind[u] = "padded" => There(w) # u \/ u \in unread',
               pc = "infected" /\ There(w) # None => result[There(w)] # "clean"
        PROVE  Verdicts'
    <3>1. worker'[w].pc = pc /\ worker'[w].upload = u
      BY <2>3
    <3> QED
      BY <2>1, <2>3, <3>1
  <2>4. CASE Take(w)
    <3>1. UNCHANGED <<disk, kind, path, unread, result>> /\ worker'[w].pc = "taken"
      BY <2>4 DEF Take
    <3> QED
      BY <2>1, <3>1
  <2>5. worker[w].pc \notin {"none", "waiting"} => u \in Uploads /\ path[u] \in Paths
    OBVIOUS
  <2>6. CASE LookSize(w)
    <3>1. disk' = disk /\ worker[w].pc = "taken"
      BY <2>6 DEF LookSize
    <3>2. CASE Finish(w, "skipped")
      BY <3>1, <3>2, <2>5, <2>2 DEF Results
    <3>3. CASE /\ unread' = IF There(w) \in Large THEN unread \cup {u} ELSE unread
               /\ worker' = [worker EXCEPT ![w].pc = "sized"] /\ UNCHANGED <<kind, path, result>>
      <4>1. kind[u] = "padded" => There(w) # u \/ u \in unread'
        BY <3>1, <3>3, <2>5 DEF Large
      <4> QED
        BY <3>1, <3>3, <4>1, <2>3
    <3> QED
      BY <2>6, <3>2, <3>3 DEF LookSize
  <2>7. CASE Scan(w)
    <3>1. worker[w].pc = "sized" /\ disk' = disk
      BY <2>7 DEF Scan
    <3>2. CASE There(w) = None
      BY <2>7, <3>1, <3>2, <2>5, <2>2 DEF Scan, Results
    <3>3. CASE There(w) # None /\ kind[There(w)] # "infected"
      <4>1. Finish(w, "clean")
        BY <2>7, <3>3 DEF Scan
      <4>2. ASSUME NEW p \in Paths, disk[p] = u
            PROVE  kind[u] = "clean" \/ (kind[u] = "padded" /\ u \in unread)
        <5>1. There(w) = u
          BY <4>2, <3>1, <1>0
        <5>2. (kind[u] = "padded" => u \in unread) /\ kind[u] # "infected" /\ kind[u] \in Kinds
          BY <5>1, <3>1, <3>3
        <5> QED
          BY <5>2 DEF Kinds
      <4> QED
        BY <4>1, <4>2, <3>1, <2>5, <2>2 DEF Results
    <3>4. CASE There(w) # None /\ kind[There(w)] = "infected"
      <4>1. worker' = [worker EXCEPT ![w].pc = "infected"] /\ UNCHANGED <<kind, path, unread, result>>
        BY <2>7, <3>4 DEF Scan
      <4>2. result[There(w)] # "clean"
        BY <3>1, <3>4, <2>5
      <4> QED
        BY <4>1, <4>2, <3>1, <2>3
    <3> QED
      BY <3>2, <3>3, <3>4
  <2>8. CASE ScanFails(w)
    BY <2>8, <2>5, <2>2 DEF ScanFails, Results
  <2>9. CASE Quarantine(w)
    BY <2>9, <2>5, <2>2 DEF Quarantine, Results
  <2> QED
    BY <1>5, <2>4, <2>6, <2>7, <2>8, <2>9 DEF Work
<1>6. CASE UNCHANGED vars
  BY <1>6 DEF vars
<1> QED
  BY <1>1, <1>2, <1>3, <1>4, <1>5, <1>6 DEF Next

-----------------------------------------------------------------------------
LEMMA Invariance == Spec => []Inv
<1>1. Init => Inv
  BY InvInit
<1>2. Inv /\ [Next]_vars => Inv'
  BY TypeNext, SingleNext, VerdictsNext DEF Inv
<1> QED
  BY <1>1, <1>2, PTL DEF Spec

\* Every variable keeps its type; the queue and the history of malware_queue.py
\* keep to MAX_PENDING and HISTORY, whatever is uploaded.
THEOREM TypeCorrect == Spec => []TypeOK
<1>1. Inv => TypeOK
  BY DEF Inv, TypeInv
<1> QED
  BY <1>1, Invariance, PTL

\* However many requests look for a worker at once, _ensure_worker leaves at most
\* one scanner running.
THEOREM AtMostOneScanner == Spec => []OneScanner
<1>1. Inv => OneScanner
  <2> SUFFICES ASSUME Inv PROVE OneScanner
    OBVIOUS
  <2> DEFINE up == {w \in Workers : worker[w].pc # "none"}
  <2>1. CASE up = {}
    <3>1. Cardinality(up) = 0
      BY <2>1, FS_EmptySet
    <3> QED
      BY <3>1 DEF OneScanner
  <2>2. CASE up # {}
    <3>1. PICK w \in up : TRUE
      BY <2>2
    <3>2. up = {w}
      BY <3>1 DEF Inv, Single
    <3>3. Cardinality({w}) = 1
      BY FS_Singleton
    <3>4. Cardinality(up) = 1
      BY <3>2, <3>3
    <3> QED
      BY <3>4 DEF OneScanner
  <2> QED
    BY <2>1, <2>2
<1> QED
  BY <1>1, Invariance, PTL

\* An infected file that lies in a site is never the one whose own record says
\* "clean", however uploads, deletions and replacements of its path fall between
\* the look at the size, the scan and the removal - but for one too large for clamd
\* whose size was compared with no limit.
THEOREM InfectedNeverCalledClean == Spec => []NeverCalledClean
<1>1. Inv => NeverCalledClean
  BY DEF Inv, Verdicts
<1> QED
  BY <1>1, Invariance, PTL

\* _quarantine removes no file whose own record says "clean", although it removes
\* what lies at the path by then and not what was scanned.
THEOREM CleanFilesStay == Spec => CleanStays
<1>1. Inv /\ [Next]_vars =>
        [\A w \in Workers, p \in Paths :
            (worker[w].pc = "infected" /\ worker'[w].pc # "infected" /\ disk[p] # None /\ disk'[p] = None)
               => result[disk[p]] # "clean"]_vars
  <2> SUFFICES ASSUME Inv, [Next]_vars, NEW w \in Workers, NEW p \in Paths,
                      worker[w].pc = "infected", worker'[w].pc # "infected",
                      disk[p] # None, disk'[p] = None
               PROVE  result[disk[p]] # "clean"
    OBVIOUS
  <2> USE DEF Inv, TypeInv, TypeOK, InHand, Single, Verdicts
  <2>1. path[worker[w].upload] = p
    <3>1. CASE Restart
      BY <3>1 DEF Restart
    <3>2. ASSUME NEW q \in Requests, NEW u \in Uploads, NEW x \in Paths, NEW k \in Kinds, Install(q, u, x, k)
          PROVE  path[worker[w].upload] = p
      BY <3>2 DEF Install
    <3>3. ASSUME NEW q \in Requests, Enqueue(q) PROVE path[worker[w].upload] = p
      BY <3>3 DEF Enqueue, LookWorker, StartWorker, Put
    <3>4. ASSUME NEW x \in Paths, DeleteFile(x) PROVE path[worker[w].upload] = p
      BY <3>4 DEF DeleteFile
    <3>5. ASSUME NEW v \in Workers, Work(v) PROVE path[worker[w].upload] = p
      <4>1. v = w
        BY <3>5 DEF Work, Take, LookSize, Scan, ScanFails, Quarantine
      <4>2. Quarantine(w)
        BY <3>5, <4>1 DEF Work, Take, LookSize, Scan, ScanFails
      <4>3. disk' = disk \/ disk' = [disk EXCEPT ![path[worker[w].upload]] = None]
        BY <4>2 DEF Quarantine
      <4> QED
        BY <4>3
    <3>6. CASE UNCHANGED vars
      BY <3>6 DEF vars
    <3> QED
      BY <3>1, <3>2, <3>3, <3>4, <3>5, <3>6 DEF Next
  <2>2. There(w) = disk[p]
    BY <2>1 DEF There
  <2> QED
    BY <2>2
<1> QED
  BY <1>1, Invariance, PTL DEF Spec, CleanStays

-----------------------------------------------------------------------------
(* Where the records are.                                                   *)

\* A record is new in a request's hands, pending in the queue or in a worker's,
\* and in one place only.
OnePlace ==
    /\ \A q \in Requests : request[q].pc # "idle" =>
            /\ result[request[q].upload] = "none"
            /\ \A t \in Requests : request[t].pc # "idle" /\ request[t].upload = request[q].upload => t = q
    /\ \A n \in 1..Len(queue) :
            /\ result[queue[n]] = "pending"
            /\ \A m \in 1..Len(queue) : queue[m] = queue[n] => m = n
            /\ \A w \in Workers : worker[w].upload # queue[n]
    /\ \A w \in Workers :
            /\ worker[w].upload # None <=> worker[w].pc \notin {"none", "waiting"}
            /\ worker[w].upload # None =>
                    /\ result[worker[w].upload] = "pending"
                    /\ \A v \in Workers : worker[v].upload = worker[w].upload => v = w

\* A pending record is somewhere.
SomePlace ==
    \A u \in Uploads : result[u] = "pending" =>
        (\E n \in 1..Len(queue) : queue[n] = u) \/ (\E w \in Workers : worker[w].upload = u)

Places == OnePlace /\ SomePlace

LEMMA PlacesInit == Init => Places
BY QueueConstants DEF Init, Places, OnePlace, SomePlace, IdleRequest, NoWorker

LEMMA PlacesRequest ==
  ASSUME TypeInv, Places, NEW q \in Requests,
         (\E u \in Uploads, p \in Paths, k \in Kinds : Install(q, u, p, k)) \/ Enqueue(q)
  PROVE  Places'
<1> USE DEF TypeInv, TypeOK, Landed, InHand, Places, OnePlace, SomePlace
<1>0. None \notin Uploads
  BY QueueConstants DEF Uploads
<1>1. ASSUME NEW u \in Uploads, NEW p \in Paths, NEW k \in Kinds, Install(q, u, p, k)
      PROVE  Places'
  <2>1. /\ UNCHANGED <<result, queue, worker>> /\ result[u] = "none"
        /\ request' = [request EXCEPT ![q] = [pc |-> "installed", upload |-> u]]
        /\ \A t \in Requests : request[t].pc # "idle" => request[t].upload # u
    BY <1>1 DEF Install
  <2>2. ASSUME NEW t \in Requests, request'[t].pc # "idle"
        PROVE  /\ result'[request'[t].upload] = "none"
               /\ \A x \in Requests : request'[x].pc # "idle" /\ request'[x].upload = request'[t].upload => x = t
    <3>1. \A x \in Requests : x # q => request'[x] = request[x]
      BY <2>1
    <3>2. request'[q].upload = u
      BY <2>1
    <3> QED
      BY <2>1, <2>2, <3>1, <3>2
  <2>3. SomePlace'
    BY <2>1
  <2> QED
    BY <2>1, <2>2, <2>3
<1>2. ASSUME NEW pc \in {"locking", "ready"}, request[q].pc # "idle", request' = [request EXCEPT ![q].pc = pc],
             UNCHANGED <<result, queue>>,
             \A w \in Workers : worker'[w] = worker[w] \/ (worker[w].pc = "none" /\ worker'[w] = WaitingWorker)
      PROVE  Places'
  <2>1. /\ \A t \in Requests : /\ request'[t].pc # "idle" <=> request[t].pc # "idle"
                               /\ request'[t].upload = request[t].upload
        /\ \A w \in Workers : /\ worker'[w].upload = worker[w].upload
                              /\ worker'[w].pc \notin {"none", "waiting"} <=> worker[w].pc \notin {"none", "waiting"}
    BY <1>2 DEF WaitingWorker
  <2>2. /\ \A t \in Requests : request'[t].pc # "idle" =>
            /\ result'[request'[t].upload] = "none"
            /\ \A x \in Requests : request'[x].pc # "idle" /\ request'[x].upload = request'[t].upload => x = t
        /\ \A n \in 1..Len(queue') : /\ result'[queue'[n]] = "pending"
                                     /\ \A m \in 1..Len(queue') : queue'[m] = queue'[n] => m = n
    BY <1>2, <2>1
  <2>3. /\ \A n \in 1..Len(queue'), w \in Workers : worker'[w].upload # queue'[n]
        /\ \A w \in Workers :
            /\ worker'[w].upload # None <=> worker'[w].pc \notin {"none", "waiting"}
            /\ worker'[w].upload # None =>
                    /\ result'[worker'[w].upload] = "pending"
                    /\ \A v \in Workers : worker'[v].upload = worker'[w].upload => v = w
    BY <1>2, <2>1
  <2>4. SomePlace'
    BY <1>2, <2>1
  <2> QED
    BY <2>2, <2>3, <2>4
<1>3. CASE LookWorker(q)
  BY <1>2, <1>3 DEF LookWorker
<1>4. CASE StartWorker(q)
  <2>1. \A w \in Workers : worker'[w] = worker[w] \/ (worker[w].pc = "none" /\ worker'[w] = WaitingWorker)
    BY <1>4 DEF StartWorker, Alive
  <2> QED
    BY <1>2, <1>4, <2>1 DEF StartWorker
<1>5. CASE Put(q)
  <2>0. PICK u \in Uploads : u = request[q].upload
    BY <1>5 DEF Put
  <2>1. /\ request[q].pc = "ready" /\ request' = [request EXCEPT ![q] = IdleRequest] /\ worker' = worker
        /\ result[u] = "none" /\ \A t \in Requests : t # q /\ request[t].pc # "idle" => request[t].upload # u
        /\ \A n \in 1..Len(queue) : queue[n] # u
        /\ \A w \in Workers : worker[w].upload # u
    BY <1>0, <1>5, <2>0 DEF Put
  <2>2. CASE Len(queue) < MaxPending
    <3>0. PICK last \in Nat : last = Len(queue) + 1
      OBVIOUS
    <3>1. queue' = Append(queue, u) /\ result' = [result EXCEPT ![u] = "pending"]
      BY <1>5, <2>0, <2>2 DEF Put
    <3>2. /\ Len(queue') = last /\ last \notin 1..Len(queue) /\ last \in 1..Len(queue') /\ queue'[last] = u
          /\ \A n \in 1..Len(queue') : n \in 1..Len(queue) \/ n = last
          /\ \A n \in 1..Len(queue) : n \in 1..Len(queue') /\ queue'[n] = queue[n] /\ queue[n] \in Uploads
      BY <3>0, <3>1
    <3>3. OnePlace'
      BY <1>0, <2>1, <3>1, <3>2 DEF IdleRequest
    <3>4. SomePlace'
      <4> SUFFICES ASSUME NEW v \in Uploads, result'[v] = "pending"
                   PROVE  (\E n \in 1..Len(queue') : queue'[n] = v) \/ (\E w \in Workers : worker'[w].upload = v)
        OBVIOUS
      <4>1. CASE v = u
        BY <4>1, <3>2
      <4>2. CASE v # u
        <5>1. result[v] = "pending"
          BY <4>2, <3>1
        <5>2. (\E n \in 1..Len(queue) : queue[n] = v) \/ (\E w \in Workers : worker[w].upload = v)
          BY <5>1
        <5>3. CASE \E n \in 1..Len(queue) : queue[n] = v
          <6>1. PICK n \in 1..Len(queue) : queue[n] = v
            BY <5>3
          <6>2. n \in 1..Len(queue') /\ queue'[n] = v
            BY <6>1, <3>2
          <6> QED
            BY <6>2
        <5>4. CASE \E w \in Workers : worker[w].upload = v
          BY <5>4, <2>1
        <5> QED
          BY <5>2, <5>3, <5>4
      <4> QED
        BY <4>1, <4>2
    <3> QED
      BY <3>3, <3>4
  <2>3. CASE ~(Len(queue) < MaxPending)
    <3>1. queue' = queue /\ result' = [result EXCEPT ![u] = "skipped"]
      BY <1>5, <2>0, <2>3 DEF Put
    <3>2. \A v \in Uploads : v # u => result'[v] = result[v]
      BY <3>1
    <3>3. \A t \in Requests : request'[t].pc # "idle" => t # q /\ request'[t] = request[t]
      BY <2>1 DEF IdleRequest
    <3>4. \A n \in 1..Len(queue) : queue[n] \in Uploads
      OBVIOUS
    <3>5. \A t \in Requests : request'[t].pc # "idle" =>
            /\ result'[request'[t].upload] = "none"
            /\ \A x \in Requests : request'[x].pc # "idle" /\ request'[x].upload = request'[t].upload => x = t
      BY <2>1, <3>2, <3>3
    <3>6. /\ \A n \in 1..Len(queue') :
                /\ result'[queue'[n]] = "pending"
                /\ \A m \in 1..Len(queue') : queue'[m] = queue'[n] => m = n
                /\ \A w \in Workers : worker'[w].upload # queue'[n]
      BY <2>1, <3>1, <3>2, <3>4
    <3>7. \A w \in Workers :
            /\ worker'[w].upload # None <=> worker'[w].pc \notin {"none", "waiting"}
            /\ worker'[w].upload # None =>
                    /\ result'[worker'[w].upload] = "pending"
                    /\ \A v \in Workers : worker'[v].upload = worker'[w].upload => v = w
      BY <2>1, <3>2
    <3>8. SomePlace'
      <4> SUFFICES ASSUME NEW v \in Uploads, result'[v] = "pending"
                   PROVE  (\E n \in 1..Len(queue') : queue'[n] = v) \/ (\E w \in Workers : worker'[w].upload = v)
        OBVIOUS
      <4>1. v # u /\ result[v] = "pending"
        BY <3>1, <3>2
      <4> QED
        BY <4>1, <2>1, <3>1
    <3> QED
      BY <3>5, <3>6, <3>7, <3>8
  <2> QED
    BY <2>2, <2>3
<1> QED
  BY <1>1, <1>3, <1>4, <1>5 DEF Enqueue

LEMMA PlacesWorker == ASSUME TypeInv, Places, NEW w \in Workers, Work(w) PROVE Places'
<1> USE DEF TypeInv, TypeOK, Landed, InHand, Places, OnePlace, SomePlace
<1>0. None \notin Uploads
  BY QueueConstants DEF Uploads
<1>1. CASE Take(w)
  <2>1. /\ worker[w].pc = "waiting" /\ UNCHANGED <<result, request>> /\ queue' = Tail(queue)
        /\ worker' = [worker EXCEPT ![w] = [pc |-> "taken", upload |-> Head(queue)]]
    BY <1>1 DEF Take
  <2>2. /\ Head(queue) = queue[1] /\ 1 \in 1..Len(queue) /\ queue[1] \in Uploads
        /\ \A n \in 1..Len(queue') : n \in Nat /\ n + 1 \in 1..Len(queue) /\ n + 1 # 1 /\ queue'[n] = queue[n + 1]
        /\ \A n \in 1..Len(queue) : n # 1 => n - 1 \in 1..Len(queue') /\ queue'[n - 1] = queue[n]
    BY <1>1, <2>1 DEF Take
  <2>3. /\ worker'[w].upload = queue[1] /\ worker'[w].pc = "taken" /\ worker[w].upload = None
        /\ \A v \in Workers : v # w => worker'[v] = worker[v]
    BY <2>1, <2>2
  <2>4. ASSUME NEW n \in 1..Len(queue')
        PROVE  /\ result'[queue'[n]] = "pending"
               /\ \A m \in 1..Len(queue') : queue'[m] = queue'[n] => m = n
               /\ \A v \in Workers : worker'[v].upload # queue'[n]
    <3>1. n + 1 \in 1..Len(queue) /\ queue'[n] = queue[n + 1] /\ queue[n + 1] # queue[1]
      BY <2>2
    <3>2. ASSUME NEW m \in 1..Len(queue'), queue'[m] = queue'[n] PROVE m = n
      <4>1. m + 1 = n + 1 /\ m \in Nat /\ n \in Nat
        BY <2>2, <3>1, <3>2
      <4> QED
        BY <4>1
    <3> QED
      BY <2>1, <2>3, <3>1, <3>2
  <2>5. OnePlace'
    BY <1>0, <2>1, <2>2, <2>3, <2>4
  <2>6. ASSUME NEW u \in Uploads, result'[u] = "pending"
        PROVE  (\E n \in 1..Len(queue') : queue'[n] = u) \/ (\E v \in Workers : worker'[v].upload = u)
    <3>1. CASE \E n \in 1..Len(queue) : queue[n] = u
      <4>1. PICK n \in 1..Len(queue) : queue[n] = u
        BY <3>1
      <4>2. CASE n = 1
        BY <4>1, <4>2, <2>3
      <4>3. CASE n # 1
        BY <4>1, <4>3, <2>2
      <4> QED
        BY <4>2, <4>3
    <3>2. CASE \E v \in Workers : worker[v].upload = u
      BY <3>2, <2>3, <1>0
    <3> QED
      BY <2>1, <2>6, <3>1, <3>2
  <2> QED
    BY <2>5, <2>6
<1>2. ASSUME NEW pc \in {"sized", "infected"}, worker[w].pc \notin {"none", "waiting"},
             worker' = [worker EXCEPT ![w].pc = pc], UNCHANGED <<result, request, queue>>
      PROVE  Places'
  <2>1. \A v \in Workers : /\ worker'[v].upload = worker[v].upload
                           /\ worker'[v].pc \notin {"none", "waiting"} <=> worker[v].pc \notin {"none", "waiting"}
    BY <1>2
  <2> QED
    BY <1>2, <2>1
<1>3. ASSUME NEW r \in Results \ {"none", "pending"}, worker[w].pc \notin {"none", "waiting"}, Finish(w, r)
      PROVE  Places'
  <2>0. PICK u \in Uploads : u = worker[w].upload
    BY <1>3
  <2>1. /\ worker' = [worker EXCEPT ![w] = WaitingWorker] /\ result' = [result EXCEPT ![u] = r]
        /\ UNCHANGED <<request, queue>>
    BY <1>3, <2>0 DEF Finish
  <2>2. /\ result[u] = "pending" /\ \A v \in Workers : v # w => worker[v].upload # u
        /\ \A n \in 1..Len(queue) : queue[n] # u
        /\ \A q \in Requests : request[q].pc # "idle" => request[q].upload # u
    BY <1>0, <2>0
  <2>3. OnePlace'
    BY <1>0, <2>0, <2>1, <2>2 DEF WaitingWorker
  <2>4. SomePlace'
    BY <1>0, <2>0, <2>1, <2>2 DEF WaitingWorker
  <2> QED
    BY <2>3, <2>4
<1>4. CASE LookSize(w)
  BY <1>4, <1>2, <1>3 DEF LookSize, Results
<1>5. CASE Scan(w)
  BY <1>5, <1>2, <1>3 DEF Scan, Results
<1>6. CASE ScanFails(w)
  BY <1>6, <1>3 DEF ScanFails, Results
<1>7. CASE Quarantine(w)
  BY <1>7, <1>3 DEF Quarantine, Results
<1> QED
  BY <1>1, <1>4, <1>5, <1>6, <1>7 DEF Work

LEMMA PlacesNext == TypeInv /\ Places /\ [Next]_vars => Places'
<1> SUFFICES ASSUME TypeInv, Places, [Next]_vars PROVE Places'
  OBVIOUS
<1>1. CASE Restart
  <2>1. /\ \A u \in Uploads : result'[u] # "pending"
        /\ request' = [q \in Requests |-> IdleRequest] /\ queue' = <<>>
        /\ worker' = [w \in Workers |-> NoWorker]
    BY <1>1 DEF Restart, TypeInv, TypeOK, Landed
  <2> QED
    BY <2>1 DEF Places, OnePlace, SomePlace, IdleRequest, NoWorker
<1>2. ASSUME UNCHANGED <<result, request, queue, worker>> PROVE Places'
  BY <1>2 DEF Places, OnePlace, SomePlace
<1> QED
  BY <1>1, <1>2, PlacesRequest, PlacesWorker DEF Next, DeleteFile, vars

\* A record shown as pending is in the queue or in the worker's hands, once, and
\* no other is: what enqueue() accepts is neither dropped nor scanned twice.
THEOREM EveryRecordAccounted == Spec => []Accounted
<1>1. TypeInv /\ Places => Accounted
  <2> SUFFICES ASSUME TypeInv, Places, NEW u \in Uploads
               PROVE  Cardinality({n \in 1..Len(queue) : queue[n] = u})
                        + Cardinality({w \in Workers : worker[w].upload = u})
                      = IF result[u] = "pending" THEN 1 ELSE 0
    BY DEF Accounted
  <2> DEFINE Q == {n \in 1..Len(queue) : queue[n] = u}
             W == {w \in Workers : worker[w].upload = u}
  <2>0. OnePlace /\ SomePlace /\ u # None
    BY QueueConstants DEF Places, Uploads
  <2>1. CASE result[u] # "pending"
    <3>1. Q = {} /\ W = {}
      BY <2>0, <2>1 DEF OnePlace
    <3>2. Cardinality(Q) = 0 /\ Cardinality(W) = 0
      BY <3>1, FS_EmptySet
    <3> QED
      BY <2>1, <3>2
  <2>2. ASSUME NEW n \in 1..Len(queue), queue[n] = u, result[u] = "pending"
        PROVE  Cardinality(Q) = 1 /\ Cardinality(W) = 0
    <3>1. Q = {n} /\ W = {}
      BY <2>0, <2>2 DEF OnePlace
    <3>2. Cardinality({n}) = 1 /\ Cardinality({}) = 0
      BY FS_Singleton, FS_EmptySet
    <3> QED
      BY <3>1, <3>2
  <2>3. ASSUME NEW w \in Workers, worker[w].upload = u, result[u] = "pending"
        PROVE  Cardinality(Q) = 0 /\ Cardinality(W) = 1
    <3>1. Q = {} /\ W = {w}
      BY <2>0, <2>3 DEF OnePlace
    <3>2. Cardinality({w}) = 1 /\ Cardinality({}) = 0
      BY FS_Singleton, FS_EmptySet
    <3> QED
      BY <3>1, <3>2
  <2>4. CASE result[u] = "pending"
    <3>1. Cardinality(Q) + Cardinality(W) = 1
      BY <2>0, <2>2, <2>3, <2>4 DEF SomePlace
    <3> QED
      BY <2>4, <3>1
  <2> QED
    BY <2>1, <2>4
<1>2. Inv => TypeInv
  BY DEF Inv
<1> QED
  BY <1>1, <1>2, PlacesInit, PlacesNext, Invariance, PTL DEF Spec
===============================================================================
