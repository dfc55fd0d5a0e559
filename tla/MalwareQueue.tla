----------------------------- MODULE MalwareQueue -----------------------------
(***************************************************************************)
(* Scanning uploads after they land (backend/app/services/malware_queue.py,  *)
(* the end of file_manager.upload_file): an upload is renamed into the site, *)
(* then its record is put into a bounded queue of the panel's process; one   *)
(* thread scans what lies at the record's path when its turn comes, and      *)
(* removes what lies there when the scanner calls it infected.               *)
(***************************************************************************)
EXTENDS Integers, Sequences, FiniteSets

CONSTANTS
    MaxUploads,   \* bound: uploads ever, each with its file and its ScanRecord
    Paths,        \* where they land
    Requests,     \* request threads
    Workers,      \* threads that _ensure_worker may start
    None,
    MaxPending,   \* MAX_PENDING
    History,      \* HISTORY
    MaxRestarts,  \* bound: restarts of the panel
    Failures      \* whether the scanner and the removal may fail

\* A file is clean, infected, or infected and larger than clamd's MaxFileSize,
\* for which clamd answers OK without reading it.
Kinds == {"clean", "infected", "padded"}

ASSUME QueueConstants ==
    /\ MaxUploads \in Nat /\ None \notin (1..MaxUploads) \cup Paths /\ None \notin Kinds
    /\ MaxPending \in Nat \ {0} /\ History \in Nat \ {0}
    /\ MaxRestarts \in Nat /\ Failures \in BOOLEAN

\* Uploads are numbered as they come.
Uploads == 1..MaxUploads

VARIABLES
    disk,      \* Paths -> the upload whose file lies there, or None
    kind,      \* Uploads -> its kind, or None before it comes
    path,      \* Uploads -> where it landed, or None
    unread,    \* history: uploads at whose turn a file too large for clamd lay there, and
               \* the limit was not known
    result,    \* Uploads -> its record's result once recent() can show it (before:
               \* "none", "pending"); "lost" when a restart took the record
    request,   \* Requests -> [pc, upload]
    queue,     \* _queue
    history,   \* _history
    worker,    \* Workers -> [pc, upload], pc "none" when not started
    restarts

vars == <<disk, kind, path, unread, result, request, queue, history, worker, restarts>>

IdleRequest == [pc |-> "idle", upload |-> None]
NoWorker == [pc |-> "none", upload |-> None]
WaitingWorker == [pc |-> "waiting", upload |-> None]

Init ==
    /\ disk = [p \in Paths |-> None]
    /\ kind = [u \in Uploads |-> None] /\ path = [u \in Uploads |-> None] /\ unread = {}
    /\ result = [u \in Uploads |-> "none"]
    /\ request = [q \in Requests |-> IdleRequest]
    /\ queue = <<>> /\ history = <<>>
    /\ worker = [w \in Workers |-> NoWorker]
    /\ restarts = 0

Alive == \E w \in Workers : worker[w].pc # "none"

\* Mutant: the history is not trimmed.
RememberedAll(u) == Append(history, u)

\* _remember
Remembered(u) ==
    LET h == Append(history, u)
    IN  IF Len(h) > History THEN Tail(h) ELSE h

-----------------------------------------------------------------------------
(* The request: upload_file, enqueue.                                       *)

\* The staged file is renamed into place, over what was there.
Install(q, u, p, k) ==
    /\ request[q].pc = "idle" /\ kind[u] = None /\ \A v \in 1..(u - 1) : kind[v] # None
    /\ disk' = [disk EXCEPT ![p] = u]
    /\ kind' = [kind EXCEPT ![u] = k]
    /\ path' = [path EXCEPT ![u] = p]
    /\ request' = [request EXCEPT ![q] = [pc |-> "installed", upload |-> u]]
    /\ UNCHANGED <<unread, result, queue, history, worker, restarts>>

\* _ensure_worker, before the lock.
LookWorker(q) ==
    /\ request[q].pc = "installed"
    /\ request' = [request EXCEPT ![q].pc = IF Alive THEN "ready" ELSE "locking"]
    /\ UNCHANGED <<disk, kind, path, unread, result, queue, history, worker, restarts>>

\* Mutant: no second look under the lock.
StartWorkerBlind(q) ==
    /\ request[q].pc = "locking"
    /\ \E w \in Workers : worker[w].pc = "none" /\ worker' = [worker EXCEPT ![w] = WaitingWorker]
    /\ request' = [request EXCEPT ![q].pc = "ready"]
    /\ UNCHANGED <<disk, kind, path, unread, result, queue, history, restarts>>

\* Under _worker_lock.
StartWorker(q) ==
    /\ request[q].pc = "locking"
    /\ IF Alive THEN UNCHANGED worker
       ELSE \E w \in Workers : worker' = [worker EXCEPT ![w] = WaitingWorker]
    /\ request' = [request EXCEPT ![q].pc = "ready"]
    /\ UNCHANGED <<disk, kind, path, unread, result, queue, history, restarts>>

\* Mutant: a record the queue has no room for is dropped.
PutDropping(q) ==
    /\ request[q].pc = "ready"
    /\ result' = [result EXCEPT ![request[q].upload] = "pending"]
    /\ queue' = IF Len(queue) < MaxPending THEN Append(queue, request[q].upload) ELSE queue
    /\ request' = [request EXCEPT ![q] = IdleRequest]
    /\ UNCHANGED <<disk, kind, path, unread, history, worker, restarts>>

\* put_nowait; a full queue is recorded as not scanned.
Put(q) ==
    /\ request[q].pc = "ready"
    /\ LET u == request[q].upload
       IN  IF Len(queue) < MaxPending
           THEN /\ queue' = Append(queue, u)
                /\ result' = [result EXCEPT ![u] = "pending"]
                /\ UNCHANGED history
           ELSE /\ result' = [result EXCEPT ![u] = "skipped"]
                /\ history' = Remembered(u)
                /\ UNCHANGED queue
    /\ request' = [request EXCEPT ![q] = IdleRequest]
    /\ UNCHANGED <<disk, kind, path, unread, worker, restarts>>

\* The customer deletes the file.
DeleteFile(p) ==
    /\ disk[p] # None
    /\ disk' = [disk EXCEPT ![p] = None]
    /\ UNCHANGED <<kind, path, unread, result, request, queue, history, worker, restarts>>

-----------------------------------------------------------------------------
(* The worker: _run, _scan_one.                                            *)

There(w) == disk[path[worker[w].upload]]

\* The files clamd will not look inside.
Large == {u \in Uploads : kind[u] = "padded"}

Take(w) ==
    /\ worker[w].pc = "waiting" /\ queue # <<>>
    /\ worker' = [worker EXCEPT ![w] = [pc |-> "taken", upload |-> Head(queue)]]
    /\ queue' = Tail(queue)
    /\ UNCHANGED <<disk, kind, path, unread, result, request, history, restarts>>

\* The record ends: result, finished_at and history.
Finish(w, r) ==
    /\ result' = [result EXCEPT ![worker[w].upload] = r]
    /\ history' = Remembered(worker[w].upload)
    /\ worker' = [worker EXCEPT ![w] = WaitingWorker]
    /\ UNCHANGED <<kind, path, unread, request, queue, restarts>>

\* Mutant: size is not looked at.
LookSizeNot(w) ==
    /\ worker[w].pc = "taken"
    /\ IF There(w) = None THEN Finish(w, "skipped")
       ELSE /\ worker' = [worker EXCEPT ![w].pc = "sized"]
            /\ UNCHANGED <<kind, path, unread, result, request, queue, history, restarts>>
    /\ UNCHANGED disk

\* getsize: gone, or too large for clamd to read.  Nothing is too large when
\* clamd.conf cannot be read or names no limit.
LookSize(w) ==
    /\ worker[w].pc = "taken"
    /\ \/ /\ There(w) \in {None} \cup Large
          /\ Finish(w, "skipped")
       \/ /\ There(w) # None
          /\ unread' = IF There(w) \in Large THEN unread \cup {worker[w].upload} ELSE unread
          /\ worker' = [worker EXCEPT ![w].pc = "sized"]
          /\ UNCHANGED <<kind, path, result, request, queue, history, restarts>>
    /\ UNCHANGED disk

\* scan_file: of what lies there now.  A large file that came after the look
\* at the size is called clean.
Scan(w) ==
    /\ worker[w].pc = "sized"
    /\ IF There(w) = None THEN Finish(w, "error")
       ELSE IF kind[There(w)] # "infected" THEN Finish(w, "clean")
       ELSE /\ worker' = [worker EXCEPT ![w].pc = "infected"]
            /\ UNCHANGED <<kind, path, unread, result, request, queue, history, restarts>>
    /\ UNCHANGED disk

\* Mutant: "one bad file" stops the thread.
ScanKills(w) ==
    /\ Failures /\ worker[w].pc \in {"taken", "sized"}
    /\ worker' = [worker EXCEPT ![w] = NoWorker]
    /\ UNCHANGED <<disk, kind, path, unread, result, request, queue, history, restarts>>

\* Scanning is switched off, or clamd or what calls it raises.
ScanFails(w) ==
    /\ Failures /\ worker[w].pc \in {"taken", "sized"}
    /\ \E r \in {"skipped", "error"} : Finish(w, r)
    /\ UNCHANGED disk

\* _quarantine, whose failure is logged: what lies there now goes.
Quarantine(w) ==
    /\ worker[w].pc = "infected"
    /\ disk' \in {[disk EXCEPT ![path[worker[w].upload]] = None]} \cup (IF Failures THEN {disk} ELSE {})
    /\ Finish(w, "infected")

\* The queue lives in the process, the history too.
Restart ==
    /\ restarts < MaxRestarts
    /\ restarts' = restarts + 1
    /\ result' = [u \in Uploads |-> IF kind[u] # None /\ result[u] \in {"none", "pending"}
                                    THEN "lost" ELSE result[u]]
    /\ request' = [q \in Requests |-> IdleRequest]
    /\ queue' = <<>> /\ history' = <<>>
    /\ worker' = [w \in Workers |-> NoWorker]
    /\ UNCHANGED <<disk, kind, path, unread>>

Enqueue(q) == LookWorker(q) \/ StartWorker(q) \/ Put(q)
Work(w) == Take(w) \/ LookSize(w) \/ Scan(w) \/ ScanFails(w) \/ Quarantine(w)

Next ==
    \/ \E q \in Requests :
          \/ \E u \in Uploads, p \in Paths, k \in Kinds : Install(q, u, p, k)
          \/ Enqueue(q)
    \/ \E p \in Paths : DeleteFile(p)
    \/ \E w \in Workers : Work(w)
    \/ Restart

Spec == Init /\ [][Next]_vars

\* Threads are scheduled; clamd and the helper answer or time out.
Fairness ==
    /\ \A q \in Requests : WF_vars(Enqueue(q))
    /\ \A w \in Workers : WF_vars(Work(w))

FairSpec == Spec /\ Fairness

-----------------------------------------------------------------------------
(* Properties                                                              *)

Results == {"none", "pending", "clean", "infected", "skipped", "error", "lost"}

\* Every variable has its type, the queue and the history keep to their sizes.
TypeOK ==
    /\ disk \in [Paths -> Uploads \cup {None}]
    /\ kind \in [Uploads -> Kinds \cup {None}]
    /\ path \in [Uploads -> Paths \cup {None}]
    /\ unread \subseteq Uploads
    /\ result \in [Uploads -> Results]
    /\ request \in [Requests -> [pc : {"idle", "installed", "locking", "ready"},
                                 upload : Uploads \cup {None}]]
    /\ queue \in Seq(Uploads) /\ Len(queue) <= MaxPending
    /\ history \in Seq(Uploads) /\ Len(history) <= History
    /\ worker \in [Workers -> [pc : {"none", "waiting", "taken", "sized", "infected"},
                               upload : Uploads \cup {None}]]
    /\ restarts \in 0..MaxRestarts

\* An upload whose record is pending is in the queue or in the worker's hands,
\* once: "recorded, not silently dropped".
Accounted ==
    \A u \in Uploads :
        Cardinality({n \in 1..Len(queue) : queue[n] = u})
          + Cardinality({w \in Workers : worker[w].upload = u})
        = IF result[u] = "pending" THEN 1 ELSE 0

\* One scanner at a time: two would need the memory of two.
OneScanner == Cardinality({w \in Workers : worker[w].pc # "none"}) <= 1

\* A file that lies in the site and is infected is never the one its own record
\* calls clean, however the files of one path replace each other while they wait:
\* but for one too large for clamd, scanned while the limit was not known.
NeverCalledClean ==
    \A p \in Paths : disk[p] # None /\ result[disk[p]] = "clean" =>
        \/ kind[disk[p]] = "clean"
        \/ kind[disk[p]] = "padded" /\ disk[p] \in unread

\* Every upload gets a result.
EveryUploadSettles == \A u \in Uploads : kind[u] # None ~> result[u] \notin {"none", "pending"}

\* A file of which its own record says that it is clean is not removed by the
\* queue, however files and verdicts of one path overtake each other.
CleanStays ==
    [][\A w \in Workers, p \in Paths :
          (worker[w].pc = "infected" /\ worker'[w].pc # "infected" /\ disk[p] # None /\ disk'[p] = None)
             => result[disk[p]] # "clean"]_vars
=============================================================================
