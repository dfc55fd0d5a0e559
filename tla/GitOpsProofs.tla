----------------------------- MODULE GitOpsProofs -----------------------------
(***************************************************************************)
(* Proofs about the git operations of the repositories, for every number of  *)
(* repositories, threads, operations, deletions and restarts.  The argument  *)
(* is that _busy and the hands a repository can be in - a request inside      *)
(* start(), the pool's queue, a thread of the pool - always agree.           *)
(***************************************************************************)
EXTENDS GitOps, FiniteSetTheorems, TLAPS

StarterPcs == {"idle", "loaded", "claimed", "committed", "refreshed", "kept", "pruned"}
Starting == [pc : StarterPcs, repo : Repos \cup {None}, kind : {"setup", "work"}, id : Ids \cup {0}]
Executing == [pc : {"idle", "took", "executing", "leaving"}, id : Ids \cup {0},
              repo : Repos \cup {None}, on : Repos \cup {None}, setup : BOOLEAN]
Statuses == {"absent", "running", "done", "failed"}

\* What a step inside start(), and one of any viewer or remover, can be.
StarterMove(s) ==
    (\E r \in Repos, kind \in {"setup", "work"} : Load(s, r, kind)) \/ StarterStep(s) \/ StartFails(s)
ViewerMove(v) == LookBusy(v) \/ ViewerStep(v) \/ WriteRefused(v)
RemoverMove(d) == (\E r \in Repos : FindIdle(d, r)) \/ Delete(d) \/ DeleteRaises(d)

\* Whoever has an operation in hand has an id and a repository.
InHand ==
    /\ \A s \in Starters : starter[s].pc # "idle" => starter[s].repo \in Repos
    /\ \A s \in Starters : starter[s].pc \in {"committed", "refreshed", "kept", "pruned"} =>
            starter[s].id \in Ids
    /\ \A w \in Workers : worker[w].pc # "idle" => worker[w].id \in Ids /\ worker[w].repo \in Repos
    /\ \A w \in Workers : worker[w].pc = "executing" => worker[w].on \in Repos

TypeInv == TypeOK /\ InHand

LEMMA TypeInit == Init => TypeInv
BY GitConstants DEF Init, TypeInv, TypeOK, InHand, Ids, IdleStarter, IdleWorker, IdleViewer

\* The types, by the names of this module.
LEMMA Types ==
  ASSUME TypeInv
  PROVE  /\ starter \in [Starters -> Starting] /\ worker \in [Workers -> Executing]
         /\ status \in [Ids -> Statuses] /\ queue \in Seq([id : Ids, repo : Repos])
         /\ repoOf \in [Ids -> Repos \cup {None}] /\ kindOf \in [Ids -> {"setup", "work"}]
         /\ busy \subseteq Repos /\ stuck \subseteq Repos /\ ready \subseteq repos /\ repos \subseteq Repos
         /\ outlived \subseteq Workers /\ made \in 0..MaxOps
BY DEF TypeInv, TypeOK, Starting, StarterPcs, Executing, Statuses

LEMMA HeadAndTail ==
  ASSUME NEW S, NEW q \in Seq(S), q # <<>> PROVE Head(q) \in S /\ Tail(q) \in Seq(S)
OBVIOUS

\* A step inside start() that leaves the other components' state alone.
LEMMA TypeOfStarter ==
  ASSUME TypeInv, NEW s \in Starters, NEW rec \in Starting,
         starter' = [starter EXCEPT ![s] = rec],
         rec.pc # "idle" => rec.repo \in Repos,
         rec.pc \in {"committed", "refreshed", "kept", "pruned"} => rec.id \in Ids,
         status' \in [Ids -> Statuses], repoOf' \in [Ids -> Repos \cup {None}],
         kindOf' \in [Ids -> {"setup", "work"}], busy' \subseteq Repos, stuck' \subseteq Repos,
         made' \in 0..MaxOps, queue' \in Seq([id : Ids, repo : Repos]),
         UNCHANGED <<repos, ready, worker, viewer, remover, restarts, deletes, outlived>>
  PROVE  TypeInv'
<1>1. starter' \in [Starters -> Starting]
  BY Types
<1>2. \A t \in Starters : starter'[t] = IF t = s THEN rec ELSE starter[t]
  BY Types
<1>3. TypeOK'
  BY <1>1 DEF TypeInv, TypeOK, Starting, StarterPcs, Statuses
<1>4. InHand'
  BY <1>2 DEF TypeInv, InHand
<1> QED
  BY <1>3, <1>4 DEF TypeInv

\* Types of starter records.
LEMMA TypeStarter == ASSUME TypeInv, NEW s \in Starters, StarterMove(s) PROVE TypeInv'
<1> USE DEF rows, counts, past
<1>0. /\ starter[s] \in Starting
      /\ starter[s].pc # "idle" => starter[s].repo \in Repos
      /\ starter[s].pc \in {"committed", "refreshed", "kept", "pruned"} => starter[s].id \in Ids
      /\ IdleStarter \in Starting /\ IdleStarter.pc = "idle"
  BY Types DEF TypeInv, InHand, IdleStarter, Starting, StarterPcs
<1>1. ASSUME NEW r \in Repos, NEW kind \in {"setup", "work"}, Load(s, r, kind) PROVE TypeInv'
  <2> DEFINE rec == [pc |-> "loaded", repo |-> r, kind |-> kind, id |-> 0]
  <2>1. rec \in Starting /\ rec.pc = "loaded" /\ rec.repo = r
    BY DEF Starting, StarterPcs
  <2>2. /\ starter' = [starter EXCEPT ![s] = rec]
        /\ UNCHANGED <<repos, ready, rows, busy, queue, worker, viewer, remover, counts, past>>
    BY <1>1 DEF Load
  <2> HIDE DEF rec
  <2> QED
    BY <2>1, <2>2, Types, TypeOfStarter
<1>2. ASSUME NEW pc \in StarterPcs \ {"idle", "loaded"}, starter[s].pc # "idle",
             pc = "claimed" \/ starter[s].id \in Ids,
             starter' = [starter EXCEPT ![s].pc = pc], busy' \subseteq Repos,
             status' \in [Ids -> Statuses],
             UNCHANGED <<repos, ready, repoOf, kindOf, queue, worker, viewer, remover, counts, past>>
      PROVE  TypeInv'
  <2> DEFINE rec == [starter[s] EXCEPT !.pc = pc]
  <2>1. rec \in Starting /\ rec.pc = pc /\ rec.repo = starter[s].repo /\ rec.id = starter[s].id
    BY <1>0, <1>2 DEF Starting
  <2>2. starter' = [starter EXCEPT ![s] = rec]
    BY <1>2, Types
  <2> HIDE DEF rec
  <2> QED
    BY <1>0, <1>2, <2>1, <2>2, Types, TypeOfStarter
<1>3. ASSUME starter' = [starter EXCEPT ![s] = IdleStarter], busy' \subseteq Repos, stuck' \subseteq Repos,
             queue' \in Seq([id : Ids, repo : Repos]),
             UNCHANGED <<repos, ready, rows, worker, viewer, remover, counts, outlived>>
      PROVE  TypeInv'
  BY <1>0, <1>3, Types, TypeOfStarter
<1>4. CASE Claim(s)
  <2>1. CASE starter[s].repo \in busy
    BY <1>3, <1>4, <2>1, Types DEF Claim
  <2>2. CASE starter[s].repo \notin busy
    <3>1. /\ starter' = [starter EXCEPT ![s].pc = "claimed"] /\ busy' = busy \cup {starter[s].repo}
          /\ starter[s].pc = "loaded"
          /\ UNCHANGED <<repos, ready, rows, queue, worker, viewer, remover, counts, past>>
      BY <1>4, <2>2 DEF Claim
    <3> QED
      BY <1>0, <1>2, <3>1, Types DEF StarterPcs
  <2> QED
    BY <2>1, <2>2
<1>5. ASSUME NEW i \in Ids, CommitRow(s, i) PROVE TypeInv'
  <2> DEFINE rec == [starter[s] EXCEPT !.pc = "committed", !.id = i]
  <2>1. /\ starter[s].pc = "claimed" /\ made < MaxOps /\ made' = made + 1
        /\ repoOf' = [repoOf EXCEPT ![i] = starter[s].repo]
        /\ kindOf' = [kindOf EXCEPT ![i] = starter[s].kind]
        /\ starter' = [starter EXCEPT ![s].pc = "committed", ![s].id = i]
        /\ status' = [j \in Ids |-> IF j = i THEN "running"
                                    ELSE IF j \in RunningOf(starter[s].repo) THEN "failed" ELSE status[j]]
        /\ UNCHANGED <<repos, ready, busy, queue, worker, viewer, remover, restarts, deletes, past>>
    BY <1>5 DEF CommitRow
  <2>2. rec \in Starting /\ rec.pc = "committed" /\ rec.id = i /\ rec.repo = starter[s].repo
    BY <1>0 DEF Starting, StarterPcs
  <2>3. starter' = [starter EXCEPT ![s] = rec]
    BY <2>1, Types
  <2>4. /\ status' \in [Ids -> Statuses] /\ repoOf' \in [Ids -> Repos \cup {None}]
        /\ kindOf' \in [Ids -> {"setup", "work"}]
    BY <1>0, <2>1, Types DEF Statuses, Starting
  <2>5. made' \in 0..MaxOps
    BY <2>1, Types, GitConstants
  <2> HIDE DEF rec
  <2> QED
    BY <1>0, <2>1, <2>2, <2>3, <2>4, <2>5, Types, TypeOfStarter
<1>6. CASE Refresh(s)
  BY <1>0, <1>2, <1>6, Types DEF Refresh, StarterPcs
<1>7. CASE RefreshRaises(s)
  BY <1>0, <1>3, <1>7, Types DEF RefreshRaises
<1>8. CASE PruneRows(s)
  <2>1. \E pc \in {"kept", "pruned"} : starter' = [starter EXCEPT ![s].pc = pc]
    BY <1>8 DEF PruneRows
  <2>2. status' \in [Ids -> Statuses]
    BY <1>8, Types DEF PruneRows, Statuses
  <2>3. /\ starter[s].pc = "refreshed"
        /\ UNCHANGED <<repos, ready, repoOf, kindOf, busy, queue, worker, viewer, remover, counts, past>>
    BY <1>8 DEF PruneRows
  <2> QED
    BY <1>0, <1>2, <2>1, <2>2, <2>3, Types DEF StarterPcs
<1>9. CASE HandOver(s)
  <2>1. [id |-> starter[s].id, repo |-> starter[s].repo] \in [id : Ids, repo : Repos]
    BY <1>0, <1>9 DEF HandOver
  <2>2. queue' \in Seq([id : Ids, repo : Repos])
    BY <1>9, <2>1, Types DEF HandOver
  <2> QED
    BY <1>3, <1>9, <2>2, Types DEF HandOver
<1>10. CASE HandOverRaises(s)
  BY <1>0, <1>3, <1>10, Types DEF HandOverRaises
<1>11. CASE StartFails(s)
  BY <1>3, <1>11, Types DEF StartFails
<1> QED
  BY <1>1, <1>4, <1>5, <1>6, <1>7, <1>8, <1>9, <1>10, <1>11 DEF StarterStep, StarterMove

LEMMA TypeWorker == ASSUME TypeInv, NEW w \in Workers, WorkerStep(w) PROVE TypeInv'
<1> USE DEF rows, counts, past
<1>1. ASSUME NEW rec \in Executing, worker' = [worker EXCEPT ![w] = rec],
             rec.pc # "idle" => rec.id \in Ids /\ rec.repo \in Repos,
             rec.pc = "executing" => rec.on \in Repos,
             status' \in [Ids -> Statuses], ready' \subseteq repos, busy' \subseteq Repos,
             queue' \in Seq([id : Ids, repo : Repos]), outlived' \subseteq Workers,
             UNCHANGED <<repos, repoOf, kindOf, starter, viewer, remover, counts, stuck>>
      PROVE  TypeInv'
  <2>1. worker' \in [Workers -> Executing]
    BY <1>1, Types
  <2>2. \A v \in Workers : worker'[v] = IF v = w THEN rec ELSE worker[v]
    BY <1>1, Types
  <2>3. TypeOK'
    BY <1>1, <2>1 DEF TypeInv, TypeOK, Executing, Statuses
  <2>4. InHand'
    BY <1>1, <2>2 DEF TypeInv, InHand
  <2> QED
    BY <2>3, <2>4 DEF TypeInv
<1>2. /\ worker[w] \in Executing
      /\ worker[w].pc # "idle" => worker[w].id \in Ids /\ worker[w].repo \in Repos
      /\ IdleWorker \in Executing /\ IdleWorker.pc = "idle"
  BY Types DEF TypeInv, InHand, IdleWorker, Executing
<1>3. CASE Take(w)
  <2> DEFINE rec == [IdleWorker EXCEPT !.pc = "took", !.id = Head(queue).id, !.repo = Head(queue).repo]
  <2>1. Head(queue) \in [id : Ids, repo : Repos] /\ Tail(queue) \in Seq([id : Ids, repo : Repos])
    BY <1>3, Types, HeadAndTail DEF Take
  <2>2. rec \in Executing /\ rec.pc = "took" /\ rec.id \in Ids /\ rec.repo \in Repos
    BY <2>1 DEF Executing, IdleWorker
  <2>3. worker' = [worker EXCEPT ![w] = rec]
    BY <1>3 DEF Take
  <2> HIDE DEF rec
  <2> QED
    BY <1>1, <1>3, <2>1, <2>2, <2>3, Types DEF Take
<1>4. CASE Begin(w)
  <2> DEFINE i == worker[w].id
             goes == [worker[w] EXCEPT !.pc = "executing", !.on = repoOf[i],
                                       !.setup = (kindOf[i] = "setup" /\ repoOf[i] \notin ready)]
             ends == [worker[w] EXCEPT !.pc = "leaving"]
  <2>1. /\ worker[w].pc = "took"
        /\ worker' = [worker EXCEPT ![w] = IF status[i] # "absent" /\ repoOf[i] \in repos THEN goes ELSE ends]
        /\ UNCHANGED <<repos, ready, rows, busy, queue, starter, viewer, remover, counts, past>>
    BY <1>4 DEF Begin
  <2>2. ends \in Executing /\ ends.pc = "leaving" /\ ends.id = i /\ ends.repo = worker[w].repo
    BY <1>2 DEF Executing
  <2>3. ASSUME repoOf[i] \in repos
        PROVE  /\ goes \in Executing /\ goes.pc = "executing" /\ goes.id = i /\ goes.repo = worker[w].repo
               /\ goes.on \in Repos
    BY <1>2, <2>3, Types DEF Executing
  <2> HIDE DEF goes, ends
  <2>4. CASE status[i] # "absent" /\ repoOf[i] \in repos
    BY <1>1, <1>2, <2>1, <2>3, <2>4, Types
  <2>5. CASE ~(status[i] # "absent" /\ repoOf[i] \in repos)
    BY <1>1, <1>2, <2>1, <2>2, <2>5, Types
  <2> QED
    BY <2>4, <2>5
<1>5. ASSUME worker[w].pc = "executing", worker' = [worker EXCEPT ![w].pc = "leaving"],
             status' \in [Ids -> Statuses], ready' \subseteq repos,
             UNCHANGED <<repos, repoOf, kindOf, busy, queue, starter, viewer, remover, counts, past>>
      PROVE  TypeInv'
  <2> DEFINE rec == [worker[w] EXCEPT !.pc = "leaving"]
  <2>1. rec \in Executing /\ rec.pc = "leaving" /\ rec.id = worker[w].id /\ rec.repo = worker[w].repo
    BY <1>2 DEF Executing
  <2>2. worker' = [worker EXCEPT ![w] = rec]
    BY <1>5, Types
  <2> HIDE DEF rec
  <2> QED
    BY <1>1, <1>2, <1>5, <2>1, <2>2, Types
<1>6. ASSUME NEW ok \in BOOLEAN, Finish(w, ok) PROVE TypeInv'
  <2>1. status' \in [Ids -> Statuses]
    BY <1>6, Types DEF Finish, Statuses
  <2>2. ready' \subseteq repos
    BY <1>6, Types DEF Finish
  <2> QED
    BY <1>5, <1>6, <2>1, <2>2 DEF Finish
<1>7. CASE FinishRaises(w)
  BY <1>5, <1>7, Types DEF FinishRaises
<1>8. CASE Leave(w)
  BY <1>1, <1>2, <1>8, Types DEF Leave
<1> QED
  BY <1>3, <1>4, <1>6, <1>7, <1>8 DEF WorkerStep

LEMMA TypeForget == ASSUME TypeInv, NEW r \in Repos, Forget(r), remover' \in [Removers -> Repos \cup {None}]
                    PROVE  TypeInv'
<1>1. status' \in [Ids -> Statuses]
  BY Types DEF Forget, Statuses
<1>2. deletes' \in 0..MaxDeletes
  BY GitConstants DEF Forget, TypeInv, TypeOK
<1>3. outlived' \subseteq Workers /\ ready' \subseteq repos' /\ repos' \subseteq Repos
  BY Types DEF Forget
<1>4. UNCHANGED <<repoOf, kindOf, busy, queue, starter, worker, viewer, restarts, made, stuck>>
  BY DEF Forget
<1> QED
  BY <1>1, <1>2, <1>3, <1>4 DEF TypeInv, TypeOK, InHand, Statuses

LEMMA TypeNext == TypeInv /\ [Next]_vars => TypeInv'
<1> SUFFICES ASSUME TypeInv, [Next]_vars PROVE TypeInv'
  OBVIOUS
<1> USE DEF rows, counts, past
<1>1. ASSUME NEW r \in Repos, Create(r) \/ DeleteAccount(r) PROVE TypeInv'
  <2>1. CASE Create(r)
    <3>1. ready \subseteq repos' /\ repos' \subseteq Repos
      BY <2>1, Types DEF Create
    <3>2. UNCHANGED <<ready, rows, busy, queue, starter, worker, viewer, remover, counts, past>>
      BY <2>1 DEF Create
    <3> QED
      BY <3>1, <3>2 DEF TypeInv, TypeOK, InHand
  <2>2. CASE DeleteAccount(r)
    BY <2>2, TypeForget DEF DeleteAccount, TypeInv, TypeOK
  <2> QED
    BY <1>1, <2>1, <2>2
<1>2. ASSUME NEW v \in Viewers, ViewerMove(v) PROVE TypeInv'
  <2> DEFINE Viewing == [pc : {"idle", "free", "judged"}, repo : Repos \cup {None}, rows : SUBSET Ids]
  <2>1. viewer' \in [Viewers -> Viewing]
    BY <1>2, GitConstants DEF ViewerMove, LookBusy, ViewerStep, ReadRunning, WriteFailed, WriteRefused,
                              TypeInv, TypeOK, IdleViewer, RunningOf, RowsOf
  <2>2. status' \in [Ids -> {"absent", "running", "done", "failed"}]
    BY <1>2 DEF ViewerMove, LookBusy, ViewerStep, ReadRunning, WriteFailed, WriteRefused, TypeInv, TypeOK
  <2>3. UNCHANGED <<repos, ready, repoOf, kindOf, busy, queue, starter, worker, remover, counts, past>>
    BY <1>2 DEF ViewerMove, LookBusy, ViewerStep, ReadRunning, WriteFailed, WriteRefused
  <2> QED
    BY <2>1, <2>2, <2>3 DEF TypeInv, TypeOK, InHand
<1>3. ASSUME NEW d \in Removers, RemoverMove(d) PROVE TypeInv'
  <2>1. remover' \in [Removers -> Repos \cup {None}]
    BY <1>3 DEF RemoverMove, FindIdle, Delete, DeleteRaises, TypeInv, TypeOK
  <2>2. CASE Delete(d)
    BY <2>1, <2>2, TypeForget DEF Delete, TypeInv, TypeOK
  <2>3. CASE ~Delete(d)
    <3>1. UNCHANGED <<repos, ready, rows, busy, queue, starter, worker, viewer, counts, past>>
      BY <1>3, <2>3 DEF RemoverMove, FindIdle, DeleteRaises
    <3> QED
      BY <2>1, <3>1 DEF TypeInv, TypeOK, InHand
  <2> QED
    BY <2>2, <2>3
<1>4. CASE Restart
  BY <1>4, GitConstants DEF Restart, TypeInv, TypeOK, InHand, IdleStarter, IdleWorker, IdleViewer
<1>5. CASE UNCHANGED vars
  BY <1>5 DEF vars, TypeInv, TypeOK, InHand
<1> QED
  BY <1>1, <1>2, <1>3, <1>4, <1>5, TypeStarter, TypeWorker DEF Next, StarterMove, ViewerMove, RemoverMove

-----------------------------------------------------------------------------
(* Who has a repository in hand.                                            *)

\* A repository some thread, request or entry of the queue has in hand is busy,
\* was not left behind, and nothing else has it.
OwnersAreAlone ==
    /\ \A s \in Starters, r \in Repos : Claimed(s, r) =>
            /\ r \in busy \ stuck
            /\ \A t \in Starters : Claimed(t, r) => t = s
            /\ \A n \in 1..Len(queue) : ~Queued(n, r)
            /\ \A w \in Workers : ~Working(w, r)
    /\ \A n \in 1..Len(queue), r \in Repos : Queued(n, r) =>
            /\ r \in busy \ stuck
            /\ \A m \in 1..Len(queue) : Queued(m, r) => m = n
            /\ \A w \in Workers : ~Working(w, r)
    /\ \A w \in Workers, r \in Repos : Working(w, r) =>
            /\ r \in busy \ stuck
            /\ \A v \in Workers : Working(v, r) => v = w

\* A busy repository is in somebody's hand, or was left behind.
BusyIsOwned ==
    /\ stuck \subseteq busy
    /\ \A r \in busy \ stuck :
        \/ \E s \in Starters : Claimed(s, r)
        \/ \E n \in 1..Len(queue) : Queued(n, r)
        \/ \E w \in Workers : Working(w, r)

Inv == TypeInv /\ OwnersAreAlone /\ BusyIsOwned

\* A step that changes nobody's hands and frees or takes nothing.
LEMMA HandsKept ==
  ASSUME OwnersAreAlone, BusyIsOwned, busy' = busy, stuck' = stuck, Len(queue') = Len(queue),
         \A s \in Starters, r \in Repos : Claimed(s, r)' <=> Claimed(s, r),
         \A n \in 1..Len(queue), r \in Repos : Queued(n, r)' <=> Queued(n, r),
         \A w \in Workers, r \in Repos : Working(w, r)' <=> Working(w, r),
         busy \subseteq Repos
  PROVE  OwnersAreAlone' /\ BusyIsOwned'
<1>1. OwnersAreAlone'
  BY DEF OwnersAreAlone
<1>2. BusyIsOwned'
  BY DEF BusyIsOwned
<1> QED
  BY <1>1, <1>2

LEMMA OwnersInit == Init => OwnersAreAlone /\ BusyIsOwned
BY DEF Init, OwnersAreAlone, BusyIsOwned, Claimed, Queued, Working, IdleStarter, IdleWorker

LEMMA OwnersStarter ==
  ASSUME Inv, NEW s \in Starters, StarterMove(s) PROVE OwnersAreAlone' /\ BusyIsOwned'
<1> DEFINE mine == starter[s].repo
           hand == {"claimed", "committed", "refreshed", "kept", "pruned"}
<1>0. /\ TypeInv /\ OwnersAreAlone /\ BusyIsOwned /\ busy \subseteq Repos /\ stuck \subseteq Repos
      /\ starter \in [Starters -> Starting] /\ queue \in Seq([id : Ids, repo : Repos])
      /\ starter[s].pc # "idle" => mine \in Repos
  BY Types DEF Inv, TypeInv, InHand
<1>1. ASSUME \A t \in Starters, r \in Repos : Claimed(t, r)' <=> Claimed(t, r),
             UNCHANGED <<busy, queue, worker, stuck>>
      PROVE  OwnersAreAlone' /\ BusyIsOwned'
  BY <1>0, <1>1, HandsKept DEF Queued, Working
<1>2. ASSUME NEW r \in Repos, NEW kind \in {"setup", "work"}, Load(s, r, kind)
      PROVE  OwnersAreAlone' /\ BusyIsOwned'
  <2>1. \A t \in Starters, x \in Repos : Claimed(t, x)' <=> Claimed(t, x)
    BY <1>0, <1>2 DEF Load, Claimed
  <2> QED
    BY <1>1, <1>2, <2>1 DEF Load, past
<1>3. CASE Claim(s)
  <2>1. CASE mine \in busy
    <3>1. \A t \in Starters, x \in Repos : Claimed(t, x)' <=> Claimed(t, x)
      BY <1>0, <1>3, <2>1 DEF Claim, Claimed, IdleStarter
    <3> QED
      BY <1>1, <1>3, <2>1, <3>1 DEF Claim, past
  <2>2. CASE mine \notin busy
    <3>1. /\ starter' = [starter EXCEPT ![s].pc = "claimed"] /\ busy' = busy \cup {mine}
          /\ starter[s].pc = "loaded" /\ UNCHANGED <<stuck, queue, worker>>
      BY <1>3, <2>2 DEF Claim, past
    <3>2. mine \in Repos /\ mine \notin stuck
      BY <1>0, <2>2, <3>1 DEF BusyIsOwned
    <3>3. \A t \in Starters, x \in Repos : Claimed(t, x)' <=> Claimed(t, x) \/ (t = s /\ x = mine)
      BY <1>0, <3>1 DEF Claimed
    <3>4. /\ \A n \in 1..Len(queue), x \in Repos : Queued(n, x)' <=> Queued(n, x)
          /\ \A w \in Workers, x \in Repos : Working(w, x)' <=> Working(w, x)
      BY <3>1 DEF Queued, Working
    <3>5. /\ \A t \in Starters : ~Claimed(t, mine)
          /\ \A n \in 1..Len(queue) : ~Queued(n, mine)
          /\ \A w \in Workers : ~Working(w, mine)
      BY <1>0, <2>2, <3>2 DEF OwnersAreAlone
    <3>6. OwnersAreAlone'
      BY <1>0, <3>1, <3>2, <3>3, <3>4, <3>5 DEF OwnersAreAlone
    <3>7. BusyIsOwned'
      BY <1>0, <3>1, <3>2, <3>3, <3>4 DEF BusyIsOwned
    <3> QED
      BY <3>6, <3>7
  <2> QED
    BY <2>1, <2>2
<1>4. ASSUME NEW pc \in hand, starter[s].pc \in hand,
             \A t \in Starters : starter'[t].repo = starter[t].repo,
             \A t \in Starters : t # s => starter'[t].pc = starter[t].pc,
             starter'[s].pc = pc, UNCHANGED <<busy, stuck, queue, worker>>
      PROVE  OwnersAreAlone' /\ BusyIsOwned'
  <2>1. \A t \in Starters, x \in Repos : Claimed(t, x)' <=> Claimed(t, x)
    BY <1>4 DEF Claimed
  <2> QED
    BY <1>1, <1>4, <2>1
<1>5. ASSUME NEW i \in Ids, CommitRow(s, i) PROVE OwnersAreAlone' /\ BusyIsOwned'
  <2>1. /\ UNCHANGED <<busy, stuck, queue, worker>> /\ starter[s].pc = "claimed"
        /\ starter' = [starter EXCEPT ![s].pc = "committed", ![s].id = i]
    BY <1>5 DEF CommitRow, past
  <2> QED
    BY <1>0, <1>4, <2>1 DEF Starting
<1>6. CASE Refresh(s)
  BY <1>0, <1>4, <1>6 DEF Refresh, past, Starting
<1>7. CASE PruneRows(s)
  <2>1. /\ UNCHANGED <<busy, stuck, queue, worker>> /\ starter[s].pc = "refreshed"
        /\ \E pc \in {"kept", "pruned"} : starter' = [starter EXCEPT ![s].pc = pc]
    BY <1>7 DEF PruneRows, past
  <2> QED
    BY <1>0, <1>4, <2>1 DEF Starting
<1>8. CASE HandOver(s)
  <2> DEFINE elem == [id |-> starter[s].id, repo |-> mine]
  <2>0. PICK last \in Nat : last = Len(queue) + 1
    BY <1>0
  <2>1. /\ starter[s].pc \in {"kept", "pruned"} /\ queue' = Append(queue, elem)
        /\ starter' = [starter EXCEPT ![s] = IdleStarter] /\ UNCHANGED <<busy, worker, stuck>>
    BY <1>8 DEF HandOver, past
  <2>2. mine \in Repos /\ elem.repo = mine
    BY <1>0, <2>1
  <2> HIDE DEF elem
  <2>3. /\ Len(queue') = last /\ last \in Nat /\ last \notin 1..Len(queue)
        /\ \A n \in 1..last : n \in 1..Len(queue) \/ n = last
        /\ \A n \in 1..Len(queue) : n \in 1..last /\ queue'[n] = queue[n]
        /\ last \in 1..last /\ queue'[last] = elem
    BY <1>0, <2>0, <2>1
  <2>8. /\ \A x \in Repos : Queued(last, x)' <=> x = mine
        /\ \A n \in 1..Len(queue), x \in Repos : Queued(n, x)' <=> Queued(n, x)
    BY <2>2, <2>3 DEF Queued
  <2>4. /\ \A t \in Starters, x \in Repos : Claimed(t, x)' <=> Claimed(t, x) /\ t # s
        /\ \A x \in Repos : Claimed(s, x) <=> x = mine
    BY <1>0, <2>1 DEF Claimed, IdleStarter
  <2>5. \A w \in Workers, x \in Repos : Working(w, x)' <=> Working(w, x)
    BY <2>1 DEF Working
  <2>9. /\ mine \in busy \ stuck
        /\ \A t \in Starters : Claimed(t, mine) => t = s
        /\ \A n \in 1..Len(queue) : ~Queued(n, mine)
        /\ \A w \in Workers : ~Working(w, mine)
    BY <1>0, <2>2, <2>4 DEF OwnersAreAlone
  <2>6. OwnersAreAlone'
    <3>1. ASSUME NEW t \in Starters, NEW r \in Repos, Claimed(t, r)'
          PROVE  /\ r \in busy' \ stuck'
                 /\ \A u \in Starters : Claimed(u, r)' => u = t
                 /\ \A n \in 1..Len(queue') : ~Queued(n, r)'
                 /\ \A w \in Workers : ~Working(w, r)'
      <4>1. Claimed(t, r) /\ t # s /\ r # mine
        BY <3>1, <2>4, <2>9
      <4> QED
        BY <1>0, <4>1, <2>1, <2>3, <2>4, <2>5, <2>8 DEF OwnersAreAlone
    <3>2. ASSUME NEW n \in 1..Len(queue'), NEW r \in Repos, Queued(n, r)'
          PROVE  /\ r \in busy' \ stuck'
                 /\ \A m \in 1..Len(queue') : Queued(m, r)' => m = n
                 /\ \A w \in Workers : ~Working(w, r)'
      <4>1. CASE n = last
        BY <3>2, <4>1, <2>1, <2>3, <2>5, <2>8, <2>9
      <4>2. CASE n \in 1..Len(queue)
        BY <1>0, <3>2, <4>2, <2>1, <2>3, <2>5, <2>8, <2>9 DEF OwnersAreAlone
      <4> QED
        BY <4>1, <4>2, <2>3
    <3>3. ASSUME NEW w \in Workers, NEW r \in Repos, Working(w, r)'
          PROVE  r \in busy' \ stuck' /\ \A v \in Workers : Working(v, r)' => v = w
      BY <1>0, <3>3, <2>1, <2>5 DEF OwnersAreAlone
    <3> QED
      BY <3>1, <3>2, <3>3 DEF OwnersAreAlone
  <2>7. BusyIsOwned'
    <3> SUFFICES ASSUME NEW r \in busy \ stuck
                 PROVE  \/ \E t \in Starters : Claimed(t, r)'
                        \/ \E n \in 1..Len(queue') : Queued(n, r)'
                        \/ \E w \in Workers : Working(w, r)'
      BY <1>0, <2>1 DEF BusyIsOwned
    <3>1. CASE r = mine
      BY <3>1, <2>2, <2>3, <2>8
    <3>2. CASE r # mine
      BY <1>0, <3>2, <2>3, <2>4, <2>5, <2>8 DEF BusyIsOwned
    <3> QED
      BY <3>1, <3>2
  <2> QED
    BY <2>6, <2>7
\* The starter goes: the repository is free, or left behind.
<1>9. ASSUME starter[s].pc \in hand, starter' = [starter EXCEPT ![s] = IdleStarter],
             UNCHANGED <<queue, worker>>,
             \/ busy' = busy \ {mine} /\ stuck' = stuck
             \/ busy' = busy /\ stuck' = stuck \cup {mine}
      PROVE  OwnersAreAlone' /\ BusyIsOwned'
  <2>2. mine \in Repos
    BY <1>0, <1>9
  <2>3. /\ \A t \in Starters, x \in Repos : Claimed(t, x)' <=> Claimed(t, x) /\ t # s
        /\ Claimed(s, mine)
    BY <1>0, <1>9 DEF Claimed, IdleStarter
  <2>4. /\ \A n \in 1..Len(queue), x \in Repos : Queued(n, x)' <=> Queued(n, x)
        /\ \A w \in Workers, x \in Repos : Working(w, x)' <=> Working(w, x)
    BY <1>9 DEF Queued, Working
  <2>5. \A x \in Repos : Claimed(s, x) => x = mine
    BY DEF Claimed
  <2>6. mine \in busy \ stuck /\ busy' \ stuck' = (busy \ stuck) \ {mine}
    BY <1>0, <1>9, <2>2, <2>3 DEF OwnersAreAlone
  <2>7. OwnersAreAlone'
    BY <1>0, <1>9, <2>2, <2>3, <2>4, <2>6 DEF OwnersAreAlone
  <2>8. stuck' \subseteq busy'
    BY <1>0, <1>9, <2>6 DEF BusyIsOwned
  <2>9. BusyIsOwned'
    BY <1>0, <1>9, <2>2, <2>3, <2>4, <2>5, <2>6, <2>8 DEF BusyIsOwned
  <2> QED
    BY <2>7, <2>9
<1>10. CASE RefreshRaises(s)
  BY <1>9, <1>10 DEF RefreshRaises
<1>11. CASE HandOverRaises(s)
  BY <1>9, <1>11 DEF HandOverRaises
<1>12. CASE StartFails(s)
  BY <1>9, <1>12 DEF StartFails, past
<1> QED
  BY <1>2, <1>3, <1>5, <1>6, <1>7, <1>8, <1>10, <1>11, <1>12 DEF StarterStep, StarterMove

LEMMA OwnersWorker ==
  ASSUME Inv, NEW w \in Workers, WorkerStep(w) PROVE OwnersAreAlone' /\ BusyIsOwned'
<1>0. /\ TypeInv /\ OwnersAreAlone /\ BusyIsOwned /\ busy \subseteq Repos
      /\ worker \in [Workers -> Executing] /\ queue \in Seq([id : Ids, repo : Repos])
      /\ worker[w].pc # "idle" => worker[w].repo \in Repos
  BY Types DEF Inv, TypeInv, InHand
<1>1. CASE Take(w)
  <2>1. /\ worker[w].pc = "idle" /\ queue # <<>> /\ queue' = Tail(queue)
        /\ worker'[w].pc = "took" /\ worker'[w].repo = Head(queue).repo
        /\ \A v \in Workers : v # w => worker'[v] = worker[v]
        /\ UNCHANGED <<busy, stuck, starter>>
    BY <1>0, <1>1 DEF Take, past, IdleWorker
  <2>2. /\ Head(queue) = queue[1] /\ 1 \in 1..Len(queue)
        /\ \A n \in 1..Len(queue') : n + 1 \in 1..Len(queue) /\ queue'[n] = queue[n + 1]
        /\ \A n \in 1..Len(queue) : n # 1 => n - 1 \in 1..Len(queue') /\ queue'[n - 1] = queue[n]
    BY <1>0, <2>1
  <2>3. /\ \A r \in Repos : Working(w, r)' <=> Queued(1, r)
        /\ \A r \in Repos : ~Working(w, r)
        /\ \A v \in Workers, r \in Repos : v # w => (Working(v, r)' <=> Working(v, r))
    BY <1>0, <2>1, <2>2 DEF Working, Queued
  <2>4. /\ \A n \in 1..Len(queue'), r \in Repos : Queued(n, r)' <=> Queued(n + 1, r)
        /\ \A n \in 1..Len(queue), r \in Repos : n # 1 => (Queued(n - 1, r)' <=> Queued(n, r))
    BY <2>1, <2>2 DEF Queued
  <2>5. \A s \in Starters, r \in Repos : Claimed(s, r)' <=> Claimed(s, r)
    BY <2>1 DEF Claimed
  <2>6. \A n \in 1..Len(queue') : n \in Nat /\ n + 1 # 1
    BY <1>0, <2>1
  <2>7. OwnersAreAlone'
    <3>1. ASSUME NEW s \in Starters, NEW r \in Repos, Claimed(s, r)'
          PROVE  /\ r \in busy' \ stuck'
                 /\ \A t \in Starters : Claimed(t, r)' => t = s
                 /\ \A n \in 1..Len(queue') : ~Queued(n, r)'
                 /\ \A v \in Workers : ~Working(v, r)'
      BY <1>0, <3>1, <2>1, <2>2, <2>3, <2>4, <2>5 DEF OwnersAreAlone
    <3>2. ASSUME NEW n \in 1..Len(queue'), NEW r \in Repos, Queued(n, r)'
          PROVE  /\ r \in busy' \ stuck'
                 /\ \A m \in 1..Len(queue') : Queued(m, r)' => m = n
                 /\ \A v \in Workers : ~Working(v, r)'
      <4>1. Queued(n + 1, r) /\ n + 1 \in 1..Len(queue) /\ n \in Nat
        BY <3>2, <2>2, <2>4, <2>6
      <4>2. ~Queued(1, r) /\ \A v \in Workers : ~Working(v, r)
        BY <1>0, <4>1, <2>2, <2>6 DEF OwnersAreAlone
      <4>3. ASSUME NEW m \in 1..Len(queue'), Queued(m, r)' PROVE m = n
        <5>1. Queued(m + 1, r) /\ m + 1 \in 1..Len(queue) /\ m \in Nat
          BY <4>3, <2>2, <2>4, <2>6
        <5>2. m + 1 = n + 1
          BY <1>0, <4>1, <5>1 DEF OwnersAreAlone
        <5> QED
          BY <4>1, <5>1, <5>2
      <4>4. r \in busy' \ stuck'
        BY <1>0, <4>1, <2>1 DEF OwnersAreAlone
      <4> QED
        BY <4>2, <4>3, <4>4, <2>3
    <3>3. ASSUME NEW v \in Workers, NEW r \in Repos, Working(v, r)'
          PROVE  r \in busy' \ stuck' /\ \A u \in Workers : Working(u, r)' => u = v
      BY <1>0, <3>3, <2>1, <2>2, <2>3 DEF OwnersAreAlone
    <3> QED
      BY <3>1, <3>2, <3>3 DEF OwnersAreAlone
  <2>8. BusyIsOwned'
    <3> SUFFICES ASSUME NEW r \in busy \ stuck
                 PROVE  \/ \E s \in Starters : Claimed(s, r)'
                        \/ \E n \in 1..Len(queue') : Queued(n, r)'
                        \/ \E v \in Workers : Working(v, r)'
      BY <1>0, <2>1 DEF BusyIsOwned
    <3>1. ASSUME NEW n \in 1..Len(queue), Queued(n, r)
          PROVE  (\E m \in 1..Len(queue') : Queued(m, r)') \/ Working(w, r)'
      <4>1. CASE n = 1
        BY <1>0, <3>1, <4>1, <2>3
      <4>2. CASE n # 1
        BY <1>0, <3>1, <4>2, <2>2, <2>4
      <4> QED
        BY <4>1, <4>2
    <3>2. ASSUME NEW v \in Workers, Working(v, r) PROVE Working(v, r)'
      BY <1>0, <3>2, <2>3
    <3> QED
      BY <1>0, <2>5, <3>1, <3>2 DEF BusyIsOwned
  <2> QED
    BY <2>7, <2>8
<1>2. ASSUME NEW pc \in {"executing", "leaving"}, worker[w].pc # "idle",
             \A v \in Workers : worker'[v].repo = worker[v].repo,
             \A v \in Workers : v # w => worker'[v].pc = worker[v].pc,
             worker'[w].pc = pc, UNCHANGED <<busy, stuck, queue, starter>>
      PROVE  OwnersAreAlone' /\ BusyIsOwned'
  <2>1. \A v \in Workers, r \in Repos : Working(v, r)' <=> Working(v, r)
    BY <1>2 DEF Working
  <2>2. /\ \A s \in Starters, r \in Repos : Claimed(s, r)' <=> Claimed(s, r)
        /\ \A n \in 1..Len(queue), r \in Repos : Queued(n, r)' <=> Queued(n, r)
    BY <1>2 DEF Claimed, Queued
  <2> QED
    BY <1>0, <1>2, <2>1, <2>2, HandsKept
<1>3. CASE Begin(w)
  <2>1. /\ \A v \in Workers : /\ worker'[v].repo = worker[v].repo
                              /\ v # w => worker'[v].pc = worker[v].pc
        /\ worker'[w].pc \in {"executing", "leaving"} /\ worker[w].pc = "took"
    BY <1>0, <1>3 DEF Begin, Executing
  <2> QED
    BY <1>2, <1>3, <2>1 DEF Begin, past
<1>4. ASSUME worker[w].pc = "executing", worker' = [worker EXCEPT ![w].pc = "leaving"],
             UNCHANGED <<busy, queue, starter, past>>
      PROVE  OwnersAreAlone' /\ BusyIsOwned'
  BY <1>0, <1>2, <1>4 DEF past, Executing
<1>5. CASE (\E ok \in BOOLEAN : Finish(w, ok)) \/ FinishRaises(w)
  BY <1>4, <1>5 DEF Finish, FinishRaises
<1>6. CASE Leave(w)
  <2>0. PICK mine \in Repos : mine = worker[w].repo
    BY <1>0, <1>6 DEF Leave
  <2>1. /\ worker[w].pc = "leaving" /\ busy' = busy \ {mine} /\ stuck' = stuck
        /\ worker' = [worker EXCEPT ![w] = IdleWorker] /\ UNCHANGED <<queue, starter>>
    BY <1>6, <2>0 DEF Leave
  <2>2. /\ \A s \in Starters, r \in Repos : Claimed(s, r)' <=> Claimed(s, r)
        /\ \A n \in 1..Len(queue), r \in Repos : Queued(n, r)' <=> Queued(n, r)
    BY <2>1 DEF Claimed, Queued
  <2>3. /\ \A v \in Workers, r \in Repos : Working(v, r)' <=> Working(v, r) /\ v # w
        /\ \A r \in Repos : Working(w, r) <=> r = mine
    BY <1>0, <2>0, <2>1 DEF Working, IdleWorker
  <2>4. /\ \A v \in Workers : Working(v, mine) => v = w
        /\ \A s \in Starters : ~Claimed(s, mine)
        /\ \A n \in 1..Len(queue) : ~Queued(n, mine)
        /\ mine \in busy \ stuck
    BY <1>0, <2>3 DEF OwnersAreAlone
  <2>5. OwnersAreAlone'
    BY <1>0, <2>1, <2>2, <2>3, <2>4 DEF OwnersAreAlone
  <2>6. BusyIsOwned'
    BY <1>0, <2>1, <2>2, <2>3, <2>4 DEF BusyIsOwned
  <2> QED
    BY <2>5, <2>6
<1> QED
  BY <1>1, <1>3, <1>5, <1>6 DEF WorkerStep

LEMMA InvNext == Inv /\ [Next]_vars => Inv'
<1> SUFFICES ASSUME Inv, [Next]_vars PROVE Inv'
  OBVIOUS
<1>0. TypeInv' /\ OwnersAreAlone /\ BusyIsOwned /\ busy \subseteq Repos
  BY TypeNext DEF Inv, TypeInv, TypeOK
<1>1. ASSUME UNCHANGED <<busy, stuck, queue, starter, worker>> PROVE Inv'
  <2>1. /\ \A s \in Starters, r \in Repos : Claimed(s, r)' <=> Claimed(s, r)
        /\ \A n \in 1..Len(queue), r \in Repos : Queued(n, r)' <=> Queued(n, r)
        /\ \A w \in Workers, r \in Repos : Working(w, r)' <=> Working(w, r)
    BY <1>1 DEF Claimed, Queued, Working
  <2> QED
    BY <1>0, <1>1, <2>1, HandsKept DEF Inv
<1>2. ASSUME NEW s \in Starters, StarterMove(s) PROVE Inv'
  BY <1>0, <1>2, OwnersStarter DEF Inv
<1>3. ASSUME NEW w \in Workers, WorkerStep(w) PROVE Inv'
  BY <1>0, <1>3, OwnersWorker DEF Inv
<1>4. CASE Restart
  <2>1. /\ busy' = {} /\ queue' = <<>> /\ stuck' = {}
        /\ \A s \in Starters : starter'[s] = IdleStarter
        /\ \A w \in Workers : worker'[w] = IdleWorker
    BY <1>4 DEF Restart
  <2>2. OwnersAreAlone' /\ BusyIsOwned'
    BY <2>1 DEF OwnersAreAlone, BusyIsOwned, Claimed, Queued, Working, IdleStarter, IdleWorker
  <2> QED
    BY <1>0, <2>2 DEF Inv
<1>5. ASSUME NEW r \in Repos, Create(r) \/ DeleteAccount(r) PROVE Inv'
  BY <1>1, <1>5 DEF Create, DeleteAccount, Forget, past
<1>6. ASSUME NEW v \in Viewers, ViewerMove(v) PROVE Inv'
  BY <1>1, <1>6 DEF ViewerMove, LookBusy, ViewerStep, ReadRunning, WriteFailed, WriteRefused, past
<1>7. ASSUME NEW d \in Removers, RemoverMove(d) PROVE Inv'
  BY <1>1, <1>7 DEF RemoverMove, FindIdle, Delete, Forget, DeleteRaises, past
<1>8. CASE UNCHANGED vars
  BY <1>1, <1>8 DEF vars
<1> QED
  BY <1>2, <1>3, <1>4, <1>5, <1>6, <1>7, <1>8 DEF Next, StarterMove, ViewerMove, RemoverMove

LEMMA Invariance == Spec => []Inv
<1>1. Init => Inv
  BY TypeInit, OwnersInit DEF Inv
<1> QED
  BY <1>1, InvNext, PTL DEF Spec

-----------------------------------------------------------------------------
\* Every variable keeps its type, and only repositories there are, are ready.
THEOREM TypeCorrect == Spec => []TypeOK
<1>1. Inv => TypeOK
  BY DEF Inv, TypeInv
<1> QED
  BY <1>1, Invariance, PTL

\* A set is counted 0 when empty and 1 when it has one element.
LEMMA CountFew ==
  ASSUME NEW S
  PROVE  /\ S = {} => Cardinality(S) = 0
         /\ \A x \in S : (\A y \in S : y = x) => Cardinality(S) = 1
<1>1. S = {} => Cardinality(S) = 0
  BY FS_EmptySet
<1>2. ASSUME NEW x \in S, \A y \in S : y = x PROVE Cardinality(S) = 1
  <2>1. S = {x}
    BY <1>2
  <2>2. Cardinality({x}) = 1
    BY FS_Singleton
  <2> QED
    BY <2>1, <2>2
<1> QED
  BY <1>1, <1>2

\* _busy and the hands repositories are in agree whatever start(), _execute(),
\* settle_stale(), deletions and restarts do: a busy repository has exactly one
\* owner, who will free it, and a free one has none; only one deleted between a
\* request's commit and its hand-over is busy without an owner.
THEOREM BusyAgreesWithOwners == Spec => []BusyHasOneOwner
<1>1. Inv => BusyHasOneOwner
  <2> SUFFICES ASSUME Inv, NEW r \in Repos
               PROVE  Cardinality({s \in Starters : Claimed(s, r)})
                        + Cardinality({n \in 1..Len(queue) : Queued(n, r)})
                        + Cardinality({w \in Workers : Working(w, r)})
                      = IF r \in busy \ stuck THEN 1 ELSE 0
    BY DEF BusyHasOneOwner
  <2> DEFINE S == {s \in Starters : Claimed(s, r)}
             Q == {n \in 1..Len(queue) : Queued(n, r)}
             W == {w \in Workers : Working(w, r)}
  <2>0. OwnersAreAlone /\ BusyIsOwned
    BY DEF Inv
  <2>1. CASE r \notin busy \ stuck
    <3>1. S = {} /\ Q = {} /\ W = {}
      BY <2>0, <2>1 DEF OwnersAreAlone
    <3>2. Cardinality(S) = 0 /\ Cardinality(Q) = 0 /\ Cardinality(W) = 0
      BY <3>1, CountFew
    <3> QED
      BY <2>1, <3>2
  <2>2. ASSUME r \in busy \ stuck, NEW s \in Starters, Claimed(s, r)
        PROVE  Cardinality(S) = 1 /\ Cardinality(Q) = 0 /\ Cardinality(W) = 0
    <3>1. s \in S /\ (\A y \in S : y = s) /\ Q = {} /\ W = {}
      BY <2>0, <2>2 DEF OwnersAreAlone
    <3> QED
      BY <3>1, CountFew
  <2>3. ASSUME r \in busy \ stuck, NEW n \in 1..Len(queue), Queued(n, r)
        PROVE  Cardinality(S) = 0 /\ Cardinality(Q) = 1 /\ Cardinality(W) = 0
    <3>1. n \in Q /\ (\A y \in Q : y = n) /\ S = {} /\ W = {}
      BY <2>0, <2>3 DEF OwnersAreAlone
    <3> QED
      BY <3>1, CountFew
  <2>4. ASSUME r \in busy \ stuck, NEW w \in Workers, Working(w, r)
        PROVE  Cardinality(S) = 0 /\ Cardinality(Q) = 0 /\ Cardinality(W) = 1
    <3>1. w \in W /\ (\A y \in W : y = w) /\ S = {} /\ Q = {}
      BY <2>0, <2>4 DEF OwnersAreAlone
    <3> QED
      BY <3>1, CountFew
  <2>5. CASE r \in busy \ stuck
    <3>1. Cardinality(S) + Cardinality(Q) + Cardinality(W) = 1
      BY <2>0, <2>2, <2>3, <2>4, <2>5 DEF BusyIsOwned
    <3> QED
      BY <2>5, <3>1
  <2> QED
    BY <2>1, <2>5
<1> QED
  BY <1>1, Invariance, PTL

\* No two rows of a repository show as running.
RunningAlone ==
    \A i, j \in Ids : status[i] = "running" /\ status[j] = "running" /\ repoOf[i] = repoOf[j] => i = j

LEMMA RunningAloneNext == Inv /\ RunningAlone /\ [Next]_vars => RunningAlone'
<1> SUFFICES ASSUME Inv, RunningAlone, [Next]_vars PROVE RunningAlone'
  OBVIOUS
<1>0. /\ status \in [Ids -> {"absent", "running", "done", "failed"}]
      /\ repoOf \in [Ids -> Repos \cup {None}]
  BY DEF Inv, TypeInv, TypeOK
<1>1. ASSUME repoOf' = repoOf, \A i \in Ids : status'[i] = "running" => status[i] = "running"
      PROVE  RunningAlone'
  BY <1>1 DEF RunningAlone
<1>2. ASSUME NEW s \in Starters, NEW n \in Ids, CommitRow(s, n) PROVE RunningAlone'
  <2>1. /\ repoOf' = [repoOf EXCEPT ![n] = starter[s].repo]
        /\ \A i \in Ids : i # n /\ status'[i] = "running" =>
                status[i] = "running" /\ repoOf[i] # starter[s].repo
    BY <1>2 DEF CommitRow, RunningOf, RowsOf
  <2>2. repoOf'[n] = starter[s].repo /\ \A i \in Ids : i # n => repoOf'[i] = repoOf[i]
    BY <1>0, <2>1
  <2> QED
    BY <2>1, <2>2 DEF RunningAlone
<1>3. ASSUME NEW s \in Starters, PruneRows(s) PROVE RunningAlone'
  <2>1. repoOf' = repoOf /\ \A i \in Ids : status'[i] \in {status[i], "absent"}
    BY <1>3 DEF PruneRows
  <2> QED
    BY <1>1, <2>1
<1>4. ASSUME NEW w \in Workers, NEW ok \in BOOLEAN, Finish(w, ok) PROVE RunningAlone'
  <2>1. repoOf' = repoOf /\ \A i \in Ids : status'[i] \in {status[i], "done", "failed"}
    BY <1>0, <1>4 DEF Finish
  <2> QED
    BY <1>1, <2>1
<1>5. ASSUME NEW v \in Viewers, WriteFailed(v) PROVE RunningAlone'
  <2>1. repoOf' = repoOf /\ \A i \in Ids : status'[i] \in {status[i], "failed"}
    BY <1>0, <1>5 DEF WriteFailed
  <2> QED
    BY <1>1, <2>1
<1>6. ASSUME NEW r \in Repos, Forget(r) PROVE RunningAlone'
  <2>1. repoOf' = repoOf /\ \A i \in Ids : status'[i] \in {status[i], "absent"}
    BY <1>0, <1>6 DEF Forget
  <2> QED
    BY <1>1, <2>1
<1>7. ASSUME UNCHANGED <<status, repoOf>> PROVE RunningAlone'
  BY <1>1, <1>7
<1>8. ASSUME NEW d \in Removers, Delete(d) PROVE RunningAlone'
  BY <1>6, <1>8 DEF Delete, Inv, TypeInv, TypeOK
<1> QED
  BY <1>2, <1>3, <1>4, <1>5, <1>6, <1>7, <1>8
     DEF Next, Create, DeleteAccount, Load, StarterStep, Claim, Refresh, RefreshRaises, HandOver, HandOverRaises,
         StartFails, WorkerStep, Take, Begin, FinishRaises, Leave, LookBusy, ViewerStep, ReadRunning, WriteRefused,
         FindIdle, DeleteRaises, Restart, rows, vars

\* At most one operation of a repository shows as running, although a restart
\* leaves rows behind that nothing runs.
THEOREM AtMostOneRunningRow == Spec => []OneRunningRow
<1>1. Init => RunningAlone
  BY DEF Init, RunningAlone
<1>2. Inv /\ RunningAlone => OneRunningRow
  <2> SUFFICES ASSUME RunningAlone, NEW r \in Repos PROVE Cardinality(RunningOf(r)) <= 1
    BY DEF OneRunningRow
  <2>1. CASE RunningOf(r) = {}
    BY <2>1, CountFew
  <2>2. CASE RunningOf(r) # {}
    <3>1. PICK i \in RunningOf(r) : TRUE
      BY <2>2
    <3>2. \A j \in RunningOf(r) : j = i
      BY <3>1 DEF RunningAlone, RunningOf, RowsOf
    <3> QED
      BY <3>1, <3>2, CountFew
  <2> QED
    BY <2>1, <2>2
<1> QED
  BY <1>1, <1>2, RunningAloneNext, Invariance, PTL DEF Spec

\* Two operations asked for in one repository never run git there at once: the
\* operations of git_repos.py implement the abstract OneAtATime, whatever is asked,
\* refused, deleted or restarted, and whoever's ids are given again.
THEOREM ImplementsOneAtATime == Spec => OneOperationAtATime
<1>1. Init => Serial!Init
  BY DEF Init, Serial!Init, Doing, IdleWorker
<1>2. Inv /\ [Next]_vars => [Serial!Next]_Doing
  <2> SUFFICES ASSUME Inv, [Next]_vars PROVE Serial!Next \/ Doing' = Doing
    OBVIOUS
  <2>0. TypeInv /\ OwnersAreAlone /\ worker \in [Workers -> Executing]
    BY Types DEF Inv
  <2>1. ASSUME UNCHANGED worker PROVE Doing' = Doing
    BY <2>1 DEF Doing
  <2>2. ASSUME NEW w \in Workers, WorkerStep(w) PROVE Serial!Next \/ Doing' = Doing
    <3>1. ASSUME \A v \in Workers : v # w => worker'[v] = worker[v],
                 worker[w].pc # "executing", worker'[w].pc # "executing"
          PROVE  Doing' = Doing
      BY <3>1 DEF Doing
    <3>2. CASE Take(w)
      BY <2>0, <3>1, <3>2 DEF Take, IdleWorker
    <3>3. CASE Leave(w)
      BY <2>0, <3>1, <3>3 DEF Leave, IdleWorker
    <3>4. CASE Begin(w)
      <4>1. /\ worker[w].pc = "took" /\ worker'[w].repo = worker[w].repo
            /\ \A v \in Workers : v # w => worker'[v] = worker[v]
        BY <2>0, <3>4 DEF Begin, Executing
      <4>2. CASE worker'[w].pc = "executing" /\ worker'[w].on = worker'[w].repo
        <5>0. PICK r \in Repos : r = worker[w].repo
          BY <2>0, <4>1 DEF TypeInv, InHand
        <5>1. Working(w, r) /\ \A v \in Workers : Working(v, r) => v = w
          BY <2>0, <4>1, <5>0 DEF OwnersAreAlone, Working
        <5>2. Doing[r] = {} /\ \A t \in Repos : w \notin Doing[t]
          BY <4>1, <5>1 DEF Doing, Working
        <5>3. ASSUME NEW t \in Repos PROVE Doing'[t] = IF t = r THEN {w} ELSE Doing[t]
          BY <4>1, <4>2, <5>0, <5>1, <5>2 DEF Doing, Working
        <5>4. Doing' = [Doing EXCEPT ![r] = {w}]
          BY <5>3 DEF Doing
        <5> QED
          BY <5>2, <5>4 DEF Serial!Next, Serial!Begin
      <4>3. CASE worker'[w].pc # "executing" \/ worker'[w].on # worker'[w].repo
        BY <4>1, <4>3 DEF Doing
      <4> QED
        BY <4>2, <4>3
    <3>5. ASSUME (\E ok \in BOOLEAN : Finish(w, ok)) \/ FinishRaises(w)
          PROVE  Serial!Next \/ Doing' = Doing
      <4>1. /\ worker[w].pc = "executing" /\ worker'[w].pc = "leaving"
            /\ \A v \in Workers : v # w => worker'[v] = worker[v]
        BY <2>0, <3>5 DEF Finish, FinishRaises, Executing
      <4>2. CASE worker[w].on = worker[w].repo
        <5>0. PICK r \in Repos : r = worker[w].repo
          BY <2>0, <4>1 DEF TypeInv, InHand
        <5>1. Working(w, r) /\ \A v \in Workers : Working(v, r) => v = w
          BY <2>0, <4>1, <5>0 DEF OwnersAreAlone, Working
        <5>2. Doing[r] = {w} /\ \A t \in Repos : t # r => w \notin Doing[t]
          BY <4>1, <4>2, <5>0, <5>1 DEF Doing, Working
        <5>3. ASSUME NEW t \in Repos PROVE Doing'[t] = IF t = r THEN {} ELSE Doing[t]
          BY <4>1, <5>1, <5>2 DEF Doing, Working
        <5>4. Doing' = [Doing EXCEPT ![r] = {}]
          BY <5>3 DEF Doing
        <5> QED
          BY <5>2, <5>4 DEF Serial!Next, Serial!End
      <4>3. CASE worker[w].on # worker[w].repo
        BY <4>1, <4>3 DEF Doing
      <4> QED
        BY <4>2, <4>3
    <3> QED
      BY <2>2, <3>2, <3>3, <3>4, <3>5 DEF WorkerStep
  <2>3. CASE Restart
    <3>1. Doing' = [t \in Repos |-> {}]
      BY <2>3 DEF Restart, Doing, IdleWorker
    <3> QED
      BY <3>1 DEF Serial!Next, Serial!StopAll
  <2>4. ASSUME NEW s \in Starters, StarterMove(s) PROVE Doing' = Doing
    BY <2>1, <2>4 DEF StarterMove, Load, StarterStep, Claim, CommitRow, Refresh, RefreshRaises, PruneRows,
                      HandOver, HandOverRaises, StartFails
  <2>5. CASE UNCHANGED vars
    BY <2>1, <2>5 DEF vars
  <2>6. ASSUME NEW r \in Repos, Create(r) \/ DeleteAccount(r) PROVE Doing' = Doing
    BY <2>1, <2>6 DEF Create, DeleteAccount, Forget
  <2>7. ASSUME NEW v \in Viewers, ViewerMove(v) PROVE Doing' = Doing
    BY <2>1, <2>7 DEF ViewerMove, LookBusy, ViewerStep, ReadRunning, WriteFailed, WriteRefused
  <2>8. ASSUME NEW d \in Removers, RemoverMove(d) PROVE Doing' = Doing
    BY <2>1, <2>8 DEF RemoverMove, FindIdle, Delete, Forget, DeleteRaises
  <2> QED
    BY <2>2, <2>3, <2>4, <2>5, <2>6, <2>7, <2>8 DEF Next, StarterMove, ViewerMove, RemoverMove
<1> QED
  BY <1>1, <1>2, Invariance, PTL DEF Spec, OneOperationAtATime, Serial!Spec

-----------------------------------------------------------------------------
(* A thread whose repository was deleted.                                   *)

\* While a thread runs in the repository it was given, and that one was deleted
\* meanwhile, no row of the thread's id is a row of a repository of that id: the id
\* of the repository is busy until the thread leaves.
OutlivedHasNoRow ==
    \A w \in outlived :
        /\ worker[w].pc \in {"executing", "leaving"}
        /\ worker[w].pc = "executing" /\ worker[w].repo = worker[w].on =>
                status[worker[w].id] = "absent" \/ repoOf[worker[w].id] # worker[w].on

LEMMA OutlivedNext == Inv /\ OutlivedHasNoRow /\ [Next]_vars => OutlivedHasNoRow'
<1> SUFFICES ASSUME Inv, OutlivedHasNoRow, [Next]_vars PROVE OutlivedHasNoRow'
  OBVIOUS
<1>0. /\ TypeInv /\ OwnersAreAlone /\ worker \in [Workers -> Executing]
      /\ status \in [Ids -> Statuses] /\ repoOf \in [Ids -> Repos \cup {None}] /\ outlived \subseteq Workers
      /\ \A w \in Workers : worker[w].pc # "idle" => worker[w].id \in Ids
  BY Types DEF Inv, TypeInv, InHand
\* A step of no thread's that brings no row back.
<1>1. ASSUME UNCHANGED <<worker, repoOf, outlived>>,
             \A i \in Ids : status[i] = "absent" => status'[i] = "absent"
      PROVE  OutlivedHasNoRow'
  BY <1>0, <1>1 DEF OutlivedHasNoRow
<1>2. ASSUME NEW s \in Starters, StarterMove(s) PROVE OutlivedHasNoRow'
  <2>1. ASSUME NEW i \in Ids, CommitRow(s, i) PROVE OutlivedHasNoRow'
    <3>1. /\ starter[s].pc = "claimed" /\ UNCHANGED <<worker, outlived>>
          /\ \A j \in Ids : j # i => repoOf'[j] = repoOf[j] /\ (status[j] = "absent" => status'[j] = "absent")
          /\ repoOf'[i] = starter[s].repo
      BY <1>0, <2>1 DEF CommitRow, RunningOf, RowsOf, past
    <3>2. ASSUME NEW w \in outlived, worker[w].pc = "executing", worker[w].repo = worker[w].on
          PROVE  starter[s].repo # worker[w].on
      <4>1. worker[w].on \in Repos /\ Working(w, worker[w].on)
        BY <1>0, <3>2 DEF TypeInv, InHand, Working
      <4> QED
        BY <1>0, <3>1, <4>1 DEF OwnersAreAlone, Claimed
    <3> QED
      BY <1>0, <3>1, <3>2 DEF OutlivedHasNoRow
  <2>2. CASE PruneRows(s)
    <3>1. /\ UNCHANGED <<worker, repoOf, outlived>>
          /\ \A i \in Ids : status'[i] \in {status[i], "absent"}
      BY <2>2 DEF PruneRows, past
    <3> QED
      BY <1>1, <3>1
  <2>3. ASSUME UNCHANGED <<worker, rows, outlived>> PROVE OutlivedHasNoRow'
    BY <1>1, <2>3 DEF rows
  <2> QED
    BY <1>2, <2>1, <2>2, <2>3 DEF StarterMove, StarterStep, Load, Claim, Refresh, RefreshRaises, HandOver,
                                  HandOverRaises, StartFails, past
<1>3. ASSUME NEW w \in Workers, WorkerStep(w) PROVE OutlivedHasNoRow'
  <2>1. ASSUME worker[w].pc \in {"idle", "took"}, UNCHANGED <<rows, outlived>>,
               \A v \in Workers : v # w => worker'[v] = worker[v]
        PROVE  OutlivedHasNoRow'
    BY <1>0, <2>1 DEF OutlivedHasNoRow, rows
  <2>2. CASE Take(w) \/ Begin(w)
    BY <1>0, <2>1, <2>2 DEF Take, Begin, past
  <2>3. ASSUME worker[w].pc = "executing", worker' = [worker EXCEPT ![w].pc = "leaving"],
               UNCHANGED <<repoOf, outlived>>, \A i \in Ids : status[i] = "absent" => status'[i] = "absent"
        PROVE  OutlivedHasNoRow'
    <3>1. \A v \in Workers : v # w => worker'[v] = worker[v]
      BY <1>0, <2>3
    <3>2. worker'[w].pc = "leaving"
      BY <1>0, <2>3 DEF Executing
    <3> QED
      BY <1>0, <2>3, <3>1, <3>2 DEF OutlivedHasNoRow
  <2>4. CASE (\E ok \in BOOLEAN : Finish(w, ok)) \/ FinishRaises(w)
    <3>1. \A i \in Ids : status[i] = "absent" => status'[i] = "absent"
      BY <1>0, <2>4 DEF Finish, FinishRaises, rows
    <3> QED
      BY <2>3, <2>4, <3>1 DEF Finish, FinishRaises, rows, past
  <2>5. CASE Leave(w)
    <3>1. /\ outlived' = outlived \ {w} /\ UNCHANGED rows
          /\ \A v \in Workers : v # w => worker'[v] = worker[v]
      BY <1>0, <2>5 DEF Leave
    <3> QED
      BY <1>0, <3>1 DEF OutlivedHasNoRow, rows
  <2> QED
    BY <1>3, <2>2, <2>4, <2>5 DEF WorkerStep
<1>4. ASSUME NEW r \in Repos, Forget(r) PROVE OutlivedHasNoRow'
  <2>1. /\ UNCHANGED <<worker, repoOf>>
        /\ outlived' = outlived \cup {w \in Workers : worker[w].pc = "executing" /\ worker[w].on = r}
        /\ \A i \in Ids : status'[i] = IF i \in RowsOf(r) THEN "absent" ELSE status[i]
    BY <1>4 DEF Forget
  <2>2. ASSUME NEW w \in Workers, worker[w].pc = "executing", worker[w].on = r
        PROVE  status'[worker[w].id] = "absent" \/ repoOf[worker[w].id] # r
    BY <1>0, <2>1, <2>2 DEF RowsOf
  <2> QED
    BY <1>0, <2>1, <2>2 DEF OutlivedHasNoRow
<1>5. ASSUME NEW v \in Viewers, ViewerMove(v) PROVE OutlivedHasNoRow'
  <2>1. \A i \in Ids : status[i] = "absent" => status'[i] = "absent"
    BY <1>0, <1>5 DEF ViewerMove, LookBusy, ViewerStep, ReadRunning, WriteFailed, WriteRefused, rows
  <2> QED
    BY <1>1, <1>5, <2>1 DEF ViewerMove, LookBusy, ViewerStep, ReadRunning, WriteFailed, WriteRefused, rows, past
<1>6. ASSUME NEW d \in Removers, RemoverMove(d) PROVE OutlivedHasNoRow'
  <2>1. CASE Delete(d)
    BY <1>4, <2>1, Types DEF Delete, Inv
  <2>2. CASE ~Delete(d)
    BY <1>1, <1>6, <2>2 DEF RemoverMove, FindIdle, DeleteRaises, rows, past
  <2> QED
    BY <2>1, <2>2
<1>7. ASSUME NEW r \in Repos, Create(r) \/ DeleteAccount(r) PROVE OutlivedHasNoRow'
  BY <1>1, <1>4, <1>7 DEF Create, DeleteAccount, rows, past
<1>8. CASE Restart
  BY <1>8 DEF Restart, OutlivedHasNoRow
<1>9. CASE UNCHANGED vars
  BY <1>1, <1>9 DEF vars
<1> QED
  BY <1>2, <1>3, <1>5, <1>6, <1>7, <1>8, <1>9 DEF Next, StarterMove, ViewerMove, RemoverMove

\* A repository becomes ready for deploys only by a clone or an init run in it that
\* succeeded, never by one that began in a repository that had its id before, unless
\* that one's row had gone and its id is another row's by now.
THEOREM ReadyOnlyAfterSetUp == Spec => ReadyWasSetUp
<1>1. Init => OutlivedHasNoRow
  BY DEF Init, OutlivedHasNoRow
<1>2. Inv /\ OutlivedHasNoRow /\ [Next]_vars =>
        [\A r \in ready' \ ready : \E w \in Workers :
            /\ worker[w].pc = "executing" /\ worker[w].on = r
            /\ worker[w].setup /\ status'[worker[w].id] = "done"
            /\ w \in outlived => worker[w].repo # r \/ repoOf[worker[w].id] # r]_ready
  <2> SUFFICES ASSUME Inv, OutlivedHasNoRow, [Next]_vars, NEW r \in ready' \ ready
               PROVE  \E w \in Workers :
                        /\ worker[w].pc = "executing" /\ worker[w].on = r
                        /\ worker[w].setup /\ status'[worker[w].id] = "done"
                        /\ w \in outlived => worker[w].repo # r \/ repoOf[worker[w].id] # r
    OBVIOUS
  <2>1. PICK w \in Workers, ok \in BOOLEAN : Finish(w, ok)
    BY DEF Next, Create, DeleteAccount, Forget, Load, StarterStep, Claim, CommitRow, Refresh, RefreshRaises,
           PruneRows, HandOver, HandOverRaises, StartFails, WorkerStep, Take, Begin, FinishRaises, Leave,
           LookBusy, ViewerStep, ReadRunning, WriteFailed, WriteRefused, FindIdle, Delete, DeleteRaises,
           Restart, rows, vars
  <2>2. worker[w].id \in Ids /\ status \in [Ids -> Statuses]
    BY <2>1, Types DEF Finish, Inv, TypeInv, InHand
  <2>3. /\ worker[w].pc = "executing" /\ worker[w].on = r /\ worker[w].setup
        /\ status'[worker[w].id] = "done" /\ status[worker[w].id] # "absent"
    BY <2>1, <2>2 DEF Finish
  <2>4. w \in outlived => worker[w].repo # r \/ repoOf[worker[w].id] # r
    BY <2>3 DEF OutlivedHasNoRow
  <2> QED
    BY <2>3, <2>4
<1> QED
  BY <1>1, <1>2, OutlivedNext, Invariance, PTL DEF Spec, ReadyWasSetUp
===============================================================================
