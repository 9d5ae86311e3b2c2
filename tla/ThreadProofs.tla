---------------------------- MODULE ThreadProofs ----------------------------
(***************************************************************************)
(* TLAPS proofs about the stop-the-world collector, for every finite set   *)
(* of threads: the world is stopped while garbage is reclaimed, the counts *)
(* agree with the threads, and the VM exits last. Then, in the last part,  *)
(* about park and unpark, for any number of threads and all time limits:   *)
(* no unpark is lost, and a time limit lasts as long as the call it was    *)
(* given to.                                                               *)
(***************************************************************************)
EXTENDS StopTheWorld, Park, FiniteSetTheorems, TLAPS

\* The threads nr_non_daemons counts
NonDaemons ==
  {t \in Threads \ Daemons : pc[t] \notin {"unborn", "free"}} \ {main}

\* The thread list: empty until init_threading attaches the main thread, then
\* exactly the threads that may run.
ListInv ==
  /\ pc[main] \notin {"unborn", "new", "fresh", "exit", "free", "lost"}
  /\ \A t \in Threads : pc[t] = "boot" => t = main
  /\ pc[main] = "boot" => threadList = {} /\ ~reclaiming
  /\ IF threadList = {}
       THEN Running = {main} /\ pc[main] \in {"boot", "wakeGc", "waitGc"}
       ELSE threadList = Running

\* Every thread that is being started has one parent.
ChildInv ==
  \A t \in Threads : pc[t] = "attach" =>
    /\ child[t] \in Threads /\ pc[child[t]] = "new"
    /\ \A u \in Threads : pc[u] = "attach" /\ child[u] = child[t] => u = t

CountInv ==
  /\ nrThreads = Cardinality(threadList)
  /\ nrNonDaemons = Cardinality(NonDaemons)
  /\ nrInSafepoint = Cardinality(InSafepoint)

Resting == {"idle", "lock", "count", "unlock", "done"}
Stopping == {"suspend", "waitIn"}
Stopped == {"restart", "reclaim"}
Resuming == {"resume", "waitOut"}

\* How far the collection has come with thread t
Phase(t) ==
  /\ t \notin threadList =>
       hpc[t] = "none" /\ t \notin usr1 \cup usr2 \cup toSignal
  /\ gcPc \in Resting => hpc[t] \in {"none", "return"} /\ t \notin usr1 \cup usr2
  /\ gcPc \in Stopping =>
       /\ t \notin usr2 /\ (t \in toSignal => t \notin usr1)
       /\ t \in threadList => hpc[t] \in IF t \in toSignal \cup usr1
                                THEN {"none", "return"} ELSE {"enter", "sigwait"}
  /\ gcPc \in Stopped =>
       t \notin usr1 \cup usr2 /\ (t \in threadList => hpc[t] = "sigwait")
  /\ gcPc \in Resuming =>
       /\ t \notin usr1 /\ (t \in toSignal => t \notin usr2)
       /\ t \in threadList => hpc[t] \in IF t \in toSignal \cup usr2
            THEN {"sigwait"} ELSE {"leave", "wakeGc", "return", "none"}

\* The GC thread: what it has locked, whom it still has to signal, and how
\* many threads it has counted
GcInv ==
  /\ countLocked <=> gcPc \notin {"idle", "lock", "done"}
  /\ toSignal # {} <=> gcPc \in {"suspend", "resume"}
  /\ gcPc \in Stopping \cup Stopped \cup Resuming =>
       nrStopped = nrThreads /\ threadList # {}

\* Who may wake the GC thread: the allocation that starts the collection, the
\* last thread that enters its safepoint, the last one that leaves it.
WakeInv ==
  /\ ~reclaiming => gcPc = "idle" /\ ~gcUsr2
  /\ \A t \in Threads : pc[t] = "wakeGc" =>
       /\ reclaiming /\ gcPc = "idle" /\ ~gcUsr2
       /\ \A u \in Threads : pc[u] = "wakeGc" => u = t
  /\ gcUsr2 => gcPc \in {"idle", "waitIn", "waitOut"}
  /\ gcUsr2 /\ gcPc = "waitIn" => InSafepoint = threadList
  /\ gcUsr2 /\ gcPc = "waitOut" => InSafepoint = {}
  /\ \A t \in Threads : hpc[t] = "wakeGc" =>
       /\ InSafepoint = {} /\ ~gcUsr2
       /\ \A u \in Threads : hpc[u] = "wakeGc" => u = t

StopInv ==
  /\ TypeOK /\ ListInv /\ ChildInv /\ CountInv /\ GcInv /\ WakeInv
  /\ \A t \in Threads : Phase(t)

-----------------------------------------------------------------------------
(* Counting                                                                *)

LEMMA CountedSets ==
  ASSUME ThreadAssumption, NEW S \in SUBSET Threads
  PROVE  /\ IsFiniteSet(S) /\ Cardinality(S) \in Nat
         /\ Cardinality(S) = 0 <=> S = {}
  <1>1. IsFiniteSet(S)
    BY FS_Subset DEF ThreadAssumption
  <1>. QED
    BY <1>1, FS_CardinalityType, FS_EmptySet

LEMMA CountAdd ==
  ASSUME ThreadAssumption, NEW S \in SUBSET Threads, NEW t \in Threads, t \notin S
  PROVE  Cardinality(S \cup {t}) = Cardinality(S) + 1
  BY CountedSets, FS_AddElement

LEMMA CountRemove ==
  ASSUME ThreadAssumption, NEW S \in SUBSET Threads, NEW t \in S
  PROVE  Cardinality(S \ {t}) = Cardinality(S) - 1
  BY CountedSets, FS_RemoveElement

\* A set that has lost a thread is smaller.
LEMMA CountLess ==
  ASSUME ThreadAssumption, NEW S \in SUBSET Threads, NEW R \in SUBSET S
  PROVE  /\ Cardinality(R) <= Cardinality(S)
         /\ Cardinality(R) = Cardinality(S) => R = S
  <1>1. R \in SUBSET Threads /\ IsFiniteSet(S)
    BY CountedSets
  <1>. QED
    BY <1>1, FS_Subset

\* The sets that are counted
LEMMA CountsOK ==
  ASSUME ThreadAssumption, StopInv
  PROVE  /\ NonDaemons \in SUBSET Threads /\ InSafepoint \in SUBSET Threads
         /\ threadList \in SUBSET Threads /\ Running \in SUBSET Threads
         /\ nrThreads \in Nat /\ (nrThreads = 0 <=> threadList = {})
  BY CountedSets DEF NonDaemons, InSafepoint, Running, StopInv, TypeOK, CountInv

\* The invariant after a step, from its parts
LEMMA StopParts ==
  ASSUME TypeOK', ListInv', ChildInv', CountInv', GcInv', WakeInv',
         \A t \in Threads : Phase(t)'
  PROVE  StopInv'
  BY DEF StopInv, Phase

-----------------------------------------------------------------------------
(* What a step leaves alone                                                *)

\* A step of the program that touches neither the list nor the handlers
LEMMA HandshakeStays ==
  ASSUME StopInv,
         UNCHANGED <<threadList, nrThreads, countLocked, hpc, usr1, usr2,
                     nrInSafepoint, gc>>
  PROVE  /\ GcInv' /\ \A t \in Threads : Phase(t)'
         /\ InSafepoint' = InSafepoint /\ nrInSafepoint' = Cardinality(InSafepoint)'
         /\ nrThreads' = Cardinality(threadList)'
  <1>1. GcInv' /\ \A t \in Threads : Phase(t)'
    BY DEF StopInv, GcInv, Phase, gc
  <1>2. InSafepoint' = InSafepoint
    BY DEF InSafepoint
  <1>. QED
    BY <1>1, <1>2 DEF StopInv, CountInv

\* A step that changes the list does so between two collections, when a thread
\* that is not on it is in no handler.
LEMMA ListMayChange ==
  ASSUME StopInv, gcPc \in {"idle", "lock", "done"},
         UNCHANGED <<countLocked, hpc, usr1, usr2, nrInSafepoint, gc>>,
         \A t \in Threads : t \notin threadList' => hpc[t] = "none"
  PROVE  /\ GcInv' /\ \A t \in Threads : Phase(t)'
         /\ InSafepoint' = InSafepoint /\ nrInSafepoint' = Cardinality(InSafepoint)'
  <1>1. GcInv'
    BY DEF StopInv, GcInv, gc, Stopping, Stopped, Resuming
  <1>2. \A t \in Threads : Phase(t)'
    BY DEF StopInv, GcInv, Phase, gc, Resting, Stopping, Stopped, Resuming
  <1>3. InSafepoint' = InSafepoint
    BY DEF InSafepoint
  <1>. QED
    BY <1>1, <1>2, <1>3 DEF StopInv, CountInv

\* A step of a handler or of the GC thread leaves the program alone.
LEMMA ProgramStays ==
  ASSUME StopInv, UNCHANGED <<code, list>>, reclaiming' \in {reclaiming, FALSE}
  PROVE  /\ ListInv' /\ ChildInv'
         /\ nrThreads' = Cardinality(threadList)'
         /\ nrNonDaemons' = Cardinality(NonDaemons)'
  <1>1. Running' = Running /\ NonDaemons' = NonDaemons
    BY DEF Running, NonDaemons, code
  <1>2. ListInv'
    <2>1. ~reclaiming => ~reclaiming'
      BY Zenon
    <2>2. UNCHANGED <<pc, threadList>>
      BY DEF code, list
    <2>. QED
      BY <1>1, <2>1, <2>2 DEF StopInv, ListInv
  <1>3. ChildInv'
    BY DEF StopInv, ChildInv, code
  <1>. QED
    BY <1>1, <1>2, <1>3 DEF StopInv, CountInv, list

-----------------------------------------------------------------------------
(* Threads                                                                 *)

\* A step in which a thread that runs goes to other code
LEMMA CodeMoves ==
  ASSUME ThreadAssumption, StopInv, NEW t \in Threads, NEW label, Goto(t, label),
         pc[t] \notin {"unborn", "new", "free", "attach", "boot"},
         label \in {"run", "wakeGc", "waitGc", "exit", "waitEnd", "lost"},
         label \in {"exit", "lost"} => t # main,
         threadList = {} => label \in {"wakeGc", "waitGc"},
         UNCHANGED <<child, list>>
  PROVE  /\ ListInv' /\ ChildInv' /\ nrNonDaemons' = Cardinality(NonDaemons)'
         /\ pc' \in [Threads -> PC]
  <1>1. pc \in [Threads -> PC] /\ pc' = [pc EXCEPT ![t] = label] /\ label \in PC
    BY DEF StopInv, TypeOK, Goto, PC
  <1>2. Running' = Running /\ NonDaemons' = NonDaemons
    BY <1>1 DEF Running, NonDaemons
  <1>3. ListInv'
    <2>1. t \in Running
      BY DEF Running
    <2>2. pc[main] # "boot" /\ pc'[main] # "boot"
      BY <1>1, <2>1 DEF StopInv, ListInv, ThreadAssumption
    <2>. QED
      BY <1>1, <1>2, <2>1, <2>2 DEF StopInv, ListInv, ThreadAssumption, list
  <1>4. ChildInv'
    BY <1>1 DEF StopInv, ChildInv
  <1>. QED
    BY <1>1, <1>2, <1>3, <1>4 DEF StopInv, CountInv, list

\* The steps of the program that change nothing but their code
LEMMA MoveKeeps ==
  ASSUME ThreadAssumption, StopInv, NEW t \in Threads,
         Entry(t) \/ EntryFails(t) \/ Return(t) \/ MainReturns(t)
  PROVE  StopInv'
  <1>1. PICK label \in {"run", "lost", "exit", "waitEnd"} :
          /\ Goto(t, label)
          /\ pc[t] = IF label \in {"run", "lost"} THEN "fresh" ELSE "run"
          /\ label \in {"exit", "lost"} => t # main
    BY DEF Entry, EntryFails, Return, MainReturns, At, StopInv, ListInv
  <1>2. UNCHANGED <<child, sleeping, list, countLocked, handler, signals,
                    nrInSafepoint, gc, reclaiming, ended>>
    BY DEF Entry, EntryFails, Return, MainReturns
  <1>3. threadList # {}
    BY <1>1 DEF StopInv, ListInv, Running
  <1>4. ListInv' /\ ChildInv' /\ nrNonDaemons' = Cardinality(NonDaemons)'
        /\ pc' \in [Threads -> PC]
    BY <1>1, <1>2, <1>3, CodeMoves
  <1>5. /\ GcInv' /\ (\A u \in Threads : Phase(u)') /\ InSafepoint' = InSafepoint
        /\ nrInSafepoint' = Cardinality(InSafepoint)' /\ nrThreads' = Cardinality(threadList)'
    BY <1>2, HandshakeStays DEF list, handler, signals
  <1>6. TypeOK'
    BY <1>2, <1>4 DEF StopInv, TypeOK, list, handler, signals, gc
  <1>7. WakeInv'
    <2>1. \A u \in Threads : pc'[u] = "wakeGc" => pc[u] = "wakeGc"
      BY <1>1 DEF Goto, StopInv, TypeOK
    <2>. QED
      BY <1>2, <1>5, <2>1 DEF StopInv, WakeInv, list, handler, signals, gc
  <1>. QED
    BY <1>4, <1>5, <1>6, <1>7, StopParts DEF CountInv

\* MainThrows and WaitForNonDaemons keep the invariant.
LEMMA EndKeeps ==
  ASSUME ThreadAssumption, StopInv, NEW t \in Threads,
         MainThrows(t) \/ WaitForNonDaemons(t)
  PROVE  StopInv'
  <1>1. UNCHANGED <<code, list, countLocked, handler, signals, nrInSafepoint, gc,
                    reclaiming>>
    BY DEF MainThrows, WaitForNonDaemons
  <1>2. TypeOK'
    <2>1. sleeping' \in [Threads -> {"awake", "reclaim", "count", "terminate"}]
      BY DEF MainThrows, WaitForNonDaemons, Sleep, StopInv, TypeOK
    <2>2. ended' \in {"no", "exit", "threw", "crash", "died"}
      BY DEF MainThrows, WaitForNonDaemons, StopInv, TypeOK
    <2>. QED
      BY <1>1, <2>1, <2>2 DEF StopInv, TypeOK, code, list, handler, signals, gc
  <1>3. /\ ListInv' /\ ChildInv' /\ nrThreads' = Cardinality(threadList)'
        /\ nrNonDaemons' = Cardinality(NonDaemons)'
    BY <1>1, ProgramStays
  <1>4. /\ GcInv' /\ (\A u \in Threads : Phase(u)') /\ InSafepoint' = InSafepoint
        /\ nrInSafepoint' = Cardinality(InSafepoint)'
    BY <1>1, HandshakeStays DEF list, handler, signals
  <1>5. WakeInv'
    BY <1>1, <1>4 DEF StopInv, WakeInv, code, list, handler, signals, gc
  <1>. QED
    BY <1>2, <1>3, <1>4, <1>5, StopParts DEF CountInv

\* GcStart keeps the invariant: one thread wakes the GC thread.
LEMMA GcStartKeeps ==
  ASSUME ThreadAssumption, StopInv, NEW t \in Threads, GcStart(t)
  PROVE  StopInv'
  <1>. DEFINE label == IF reclaiming THEN "waitGc" ELSE "wakeGc"
  <1>1. /\ pc[t] \in {"run", "boot"} /\ Goto(t, label) /\ reclaiming' = TRUE
        /\ UNCHANGED <<child, sleeping, list, countLocked, handler, signals,
                       nrInSafepoint, gc, ended>>
    BY DEF GcStart, At
  <1>2. /\ pc \in [Threads -> PC] /\ pc' = [pc EXCEPT ![t] = label]
        /\ label \in {"waitGc", "wakeGc"} /\ label \in PC
    BY <1>1 DEF StopInv, TypeOK, Goto, PC
  <1>3. Running' = Running /\ NonDaemons' = NonDaemons
    BY <1>1, <1>2 DEF Running, NonDaemons
  <1>4. ListInv'
    <2>1. pc[t] = "boot" => t = main
      BY DEF StopInv, ListInv
    <2>. QED
      BY <1>1, <1>2, <1>3, <2>1 DEF StopInv, ListInv, ThreadAssumption, list, Running
  <1>5. ChildInv'
    BY <1>1, <1>2 DEF StopInv, ChildInv
  <1>6. /\ GcInv' /\ (\A u \in Threads : Phase(u)') /\ InSafepoint' = InSafepoint
        /\ nrInSafepoint' = Cardinality(InSafepoint)' /\ nrThreads' = Cardinality(threadList)'
    BY <1>1, HandshakeStays DEF list, handler, signals
  <1>7. TypeOK'
    BY <1>1, <1>2 DEF StopInv, TypeOK, list, handler, signals, gc
  <1>8. WakeInv'
    <2>1. /\ \A u \in Threads : pc'[u] = "wakeGc" =>
               \/ reclaiming /\ pc[u] = "wakeGc"
               \/ ~reclaiming /\ u = t
      BY <1>2 DEF StopInv, WakeInv
    <2>. QED
      BY <1>1, <1>6, <2>1 DEF StopInv, WakeInv, list, handler, signals, gc
  <1>. QED
    BY <1>1, <1>3, <1>4, <1>5, <1>6, <1>7, <1>8, StopParts DEF CountInv, StopInv, list

\* WakeGc keeps the invariant.
LEMMA WakeGcKeeps ==
  ASSUME ThreadAssumption, StopInv, NEW t \in Threads, WakeGc(t)
  PROVE  StopInv'
  <1>1. /\ pc[t] = "wakeGc" /\ Goto(t, "waitGc") /\ gcUsr2' = TRUE
        /\ UNCHANGED <<child, sleeping, list, countLocked, handler, usr1, usr2,
                       nrInSafepoint, gc, reclaiming, ended>>
    BY DEF WakeGc, At
  <1>2. /\ ListInv' /\ ChildInv' /\ nrNonDaemons' = Cardinality(NonDaemons)'
        /\ pc' \in [Threads -> PC]
    BY <1>1, CodeMoves
  <1>3. /\ GcInv' /\ (\A u \in Threads : Phase(u)') /\ InSafepoint' = InSafepoint
        /\ nrInSafepoint' = Cardinality(InSafepoint)' /\ nrThreads' = Cardinality(threadList)'
    BY <1>1, HandshakeStays DEF list, handler
  <1>4. TypeOK'
    BY <1>1, <1>2 DEF StopInv, TypeOK, list, handler, gc
  <1>5. WakeInv'
    <2>1. \A u \in Threads : pc'[u] # "wakeGc" /\ hpc[u] # "wakeGc"
      BY <1>1 DEF StopInv, WakeInv, Goto, TypeOK, Phase, Resting
    <2>. QED
      BY <1>1, <1>3, <2>1 DEF StopInv, WakeInv, handler, gc
  <1>. QED
    BY <1>2, <1>3, <1>4, <1>5, StopParts DEF CountInv

\* WaitGc keeps the invariant: a thread that is not attached is the main one.
LEMMA WaitGcKeeps ==
  ASSUME ThreadAssumption, StopInv, NEW t \in Threads, WaitGc(t)
  PROVE  StopInv'
  <1>1. /\ pc[t] = "waitGc"
        /\ UNCHANGED <<child, list, countLocked, handler, signals, nrInSafepoint, gc,
                       reclaiming, ended>>
    BY DEF WaitGc, At
  <1>2. pc \in [Threads -> PC] /\ sleeping' \in [Threads -> {"awake", "reclaim", "count", "terminate"}]
    BY DEF WaitGc, Sleep, StopInv, TypeOK
  <1>3. /\ GcInv' /\ (\A u \in Threads : Phase(u)') /\ InSafepoint' = InSafepoint
        /\ nrInSafepoint' = Cardinality(InSafepoint)' /\ nrThreads' = Cardinality(threadList)'
    BY <1>1, HandshakeStays DEF list, handler, signals
  <1>4. /\ ListInv' /\ ChildInv' /\ nrNonDaemons' = Cardinality(NonDaemons)'
        /\ pc' \in [Threads -> PC]
        /\ \A u \in Threads : pc'[u] = "wakeGc" => pc[u] = "wakeGc"
    <2>1. CASE pc' = pc
      BY <1>1, <1>2, <2>1, ProgramStays DEF code
    <2>2. CASE Goto(t, "run") /\ t \in threadList
      BY <1>1, <1>2, <2>2, CodeMoves DEF Goto
    <2>3. CASE Goto(t, "boot") /\ t \notin threadList /\ ~reclaiming
      <3>1. t = main /\ threadList = {} /\ Running = {main}
        BY <1>1, <2>3 DEF StopInv, ListInv, Running
      <3>2. pc' = [pc EXCEPT ![main] = "boot"]
        BY <2>3, <3>1 DEF Goto
      <3>3. Running' = Running /\ NonDaemons' = NonDaemons
        BY <1>1, <1>2, <3>1, <3>2 DEF Running, NonDaemons
      <3>4. ListInv'
        BY <1>1, <1>2, <2>3, <3>1, <3>2, <3>3 DEF StopInv, ListInv, ThreadAssumption, list
      <3>5. ChildInv'
        BY <1>1, <1>2, <3>1, <3>2 DEF StopInv, ChildInv, ThreadAssumption
      <3>. QED
        BY <1>1, <1>2, <3>2, <3>3, <3>4, <3>5 DEF StopInv, CountInv, list, PC
    <2>. QED
      BY <2>1, <2>2, <2>3 DEF WaitGc
  <1>5. TypeOK'
    BY <1>1, <1>2, <1>4 DEF StopInv, TypeOK, list, handler, signals, gc
  <1>6. WakeInv'
    BY <1>1, <1>3, <1>4 DEF StopInv, WakeInv, list, handler, signals, gc
  <1>. QED
    BY <1>3, <1>4, <1>5, <1>6, StopParts DEF CountInv

\* InitThreading keeps the invariant: no collection runs.
LEMMA InitThreadingKeeps ==
  ASSUME ThreadAssumption, StopInv, NEW t \in Threads, InitThreading(t)
  PROVE  StopInv'
  <1>1. /\ pc[t] = "boot" /\ t = main /\ threadList = {} /\ gcPc = "idle"
        /\ Running = {main} /\ ~reclaiming
    BY DEF InitThreading, At, StopInv, ListInv, WakeInv
  <1>2. /\ pc' = [pc EXCEPT ![main] = "run"] /\ pc \in [Threads -> PC]
        /\ threadList' = {main} /\ nrThreads' = nrThreads + 1
        /\ UNCHANGED <<child, sleeping, nrNonDaemons, countLocked, handler, signals,
                       nrInSafepoint, gc, reclaiming, ended>>
    BY <1>1 DEF InitThreading, Goto, StopInv, TypeOK
  <1>3. Running' = Running /\ NonDaemons' = NonDaemons
    BY <1>1, <1>2 DEF Running, NonDaemons
  <1>4. nrThreads' = Cardinality(threadList)'
    BY <1>1, <1>2, CountAdd DEF StopInv, CountInv, ThreadAssumption
  <1>5. ListInv'
    BY <1>1, <1>2, <1>3 DEF StopInv, ListInv, ThreadAssumption
  <1>6. ChildInv'
    BY <1>1, <1>2 DEF StopInv, ChildInv, ThreadAssumption
  <1>7. /\ GcInv' /\ (\A u \in Threads : Phase(u)') /\ InSafepoint' = InSafepoint
        /\ nrInSafepoint' = Cardinality(InSafepoint)'
    <2>1. \A u \in Threads : hpc[u] = "none"
      BY <1>1 DEF StopInv, Phase
    <2>. QED
      BY <1>1, <1>2, <2>1, ListMayChange DEF handler, signals
  <1>8. TypeOK'
    <2>1. pc' \in [Threads -> PC] /\ nrThreads' \in Nat /\ threadList' \in SUBSET Threads
      BY <1>2 DEF StopInv, TypeOK, PC, ThreadAssumption
    <2>. QED
      BY <1>2, <2>1 DEF StopInv, TypeOK, handler, signals, gc
  <1>9. WakeInv'
    <2>1. \A u \in Threads : pc'[u] = "wakeGc" => pc[u] = "wakeGc"
      BY <1>2
    <2>. QED
      BY <1>1, <1>2, <1>7, <2>1 DEF StopInv, WakeInv, handler, signals, gc
  <1>. QED
    BY <1>2, <1>3, <1>4, <1>5, <1>6, <1>7, <1>8, <1>9, StopParts DEF CountInv, StopInv

\* A thread that is on the list has been attached.
LEMMA OnTheList ==
  ASSUME ThreadAssumption, StopInv, NEW t \in Running, t # main \/ pc[t] = "attach"
  PROVE  threadList = Running /\ main \in threadList
  BY DEF StopInv, ListInv, Running, ThreadAssumption

\* StartThread keeps the invariant.
LEMMA StartThreadKeeps ==
  ASSUME ThreadAssumption, StopInv, NEW t \in Threads, NEW u \in Threads,
         StartThread(t, u)
  PROVE  StopInv'
  <1>1. /\ pc[t] = "run" /\ pc[u] = "unborn" /\ t # u /\ u # main
        /\ pc' = [pc EXCEPT ![t] = "attach", ![u] = "new"]
        /\ child' = [child EXCEPT ![t] = u]
        /\ nrNonDaemons' = nrNonDaemons + NonDaemon(u)
        /\ UNCHANGED <<sleeping, threadList, nrThreads, countLocked, handler, signals,
                       nrInSafepoint, gc, reclaiming, ended>>
    BY DEF StartThread, At, StopInv, ListInv
  <1>2. pc \in [Threads -> PC] /\ child \in [Threads -> Threads \cup {NULL}]
    BY DEF StopInv, TypeOK
  <1>3. /\ pc' \in [Threads -> PC] /\ child' \in [Threads -> Threads \cup {NULL}]
        /\ pc'[t] = "attach" /\ pc'[u] = "new" /\ child'[t] = u
        /\ \A v \in Threads \ {t, u} : pc'[v] = pc[v] /\ child'[v] = child[v]
    BY <1>1, <1>2 DEF PC
  <1>4. Running' = Running
    BY <1>1, <1>3 DEF Running
  <1>5. nrNonDaemons' = Cardinality(NonDaemons)'
    <2>1. CASE u \in Daemons
      <3>1. NonDaemons' = NonDaemons
        BY <1>1, <1>3, <2>1 DEF NonDaemons
      <3>. QED
        BY <1>1, <2>1, <3>1, CountsOK, CountedSets DEF NonDaemon, StopInv, CountInv
    <2>2. CASE u \notin Daemons
      <3>1. NonDaemons' = NonDaemons \cup {u} /\ u \notin NonDaemons
        BY <1>1, <1>3, <2>2 DEF NonDaemons
      <3>. QED
        BY <1>1, <2>2, <3>1, CountsOK, CountAdd DEF NonDaemon, StopInv, CountInv
    <2>. QED
      BY <2>1, <2>2
  <1>6. ListInv'
    <2>1. threadList # {}
      BY <1>1 DEF StopInv, ListInv, Running
    <2>. QED
      BY <1>1, <1>3, <1>4, <2>1 DEF StopInv, ListInv, ThreadAssumption
  <1>7. ChildInv'
    BY <1>1, <1>3 DEF StopInv, ChildInv
  <1>8. /\ GcInv' /\ (\A v \in Threads : Phase(v)') /\ InSafepoint' = InSafepoint
        /\ nrInSafepoint' = Cardinality(InSafepoint)' /\ nrThreads' = Cardinality(threadList)'
    BY <1>1, HandshakeStays DEF handler, signals
  <1>9. TypeOK'
    <2>1. nrNonDaemons' \in Nat
      BY <1>1 DEF StopInv, TypeOK, NonDaemon
    <2>. QED
      BY <1>1, <1>3, <2>1 DEF StopInv, TypeOK, handler, signals, gc
  <1>10. WakeInv'
    <2>1. \A v \in Threads : pc'[v] = "wakeGc" => pc[v] = "wakeGc"
      BY <1>3
    <2>. QED
      BY <1>1, <1>8, <2>1 DEF StopInv, WakeInv, handler, signals, gc
  <1>. QED
    BY <1>5, <1>6, <1>7, <1>8, <1>9, <1>10, StopParts DEF CountInv

\* Waking a condition variable
LEMMA AwakeOK ==
  ASSUME StopInv, NEW cond
  PROVE  Awake(cond) \in [Threads -> {"awake", "reclaim", "count", "terminate"}]
  BY DEF StopInv, TypeOK, Awake

\* Attach keeps the invariant: the list changes only while nobody has locked
\* the thread count.
LEMMA AttachKeeps ==
  ASSUME ThreadAssumption, StopInv, NEW t \in Threads, Attach(t)
  PROVE  StopInv'
  <1>1. /\ pc[t] = "attach"
        /\ UNCHANGED <<countLocked, handler, signals, nrInSafepoint, gc, reclaiming, ended>>
    BY DEF Attach, At
  <1>2. PICK u \in Threads : u = child[t] /\ pc[u] = "new" /\ u # t /\ u # main
    BY <1>1 DEF StopInv, ChildInv, ListInv
  <1>3. /\ pc \in [Threads -> PC] /\ child \in [Threads -> Threads \cup {NULL}]
        /\ sleeping \in [Threads -> {"awake", "reclaim", "count", "terminate"}]
    BY DEF StopInv, TypeOK
  <1>4. CASE countLocked /\ Sleep(t, "count") /\ UNCHANGED <<code, list>>
    <2>1. TypeOK'
      <3>1. sleeping' \in [Threads -> {"awake", "reclaim", "count", "terminate"}]
        BY <1>3, <1>4 DEF Sleep
      <3>. QED
        BY <1>1, <1>4, <3>1 DEF StopInv, TypeOK, code, list, handler, signals, gc
    <2>2. /\ ListInv' /\ ChildInv' /\ nrThreads' = Cardinality(threadList)'
          /\ nrNonDaemons' = Cardinality(NonDaemons)'
      BY <1>1, <1>4, ProgramStays
    <2>3. /\ GcInv' /\ (\A v \in Threads : Phase(v)') /\ InSafepoint' = InSafepoint
          /\ nrInSafepoint' = Cardinality(InSafepoint)'
      BY <1>1, <1>4, HandshakeStays DEF list, handler, signals
    <2>4. WakeInv'
      BY <1>1, <1>4, <2>3 DEF StopInv, WakeInv, code, list, handler, signals, gc
    <2>. QED
      BY <2>1, <2>2, <2>3, <2>4, StopParts DEF CountInv
  <1>5. CASE ~countLocked /\ \E label \in {"fresh", "unborn"} :
               pc' = [pc EXCEPT ![t] = "run", ![child[t]] = label]
    <2>1. PICK label \in {"fresh", "unborn"} :
            pc' = [pc EXCEPT ![t] = "run", ![u] = label]
      BY <1>2, <1>5
    <2>2. /\ child' = [child EXCEPT ![t] = NULL]
          /\ IF label = "fresh"
               THEN threadList' = threadList \cup {u} /\ nrThreads' = nrThreads + 1
                    /\ UNCHANGED <<sleeping, nrNonDaemons>>
               ELSE UNCHANGED <<threadList, nrThreads>>
                    /\ nrNonDaemons' = nrNonDaemons - NonDaemon(u)
                    /\ sleeping' = Awake("terminate")
      <3>1. pc'[u] = label
        BY <1>2, <1>3, <2>1
      <3>2. pc'[child[t]] \in {"fresh", "unborn"}
        BY <1>2, <2>1, <3>1
      <3>3. countLocked = FALSE
        BY <1>5 DEF StopInv, TypeOK
      <3>4. \/ child' = [child EXCEPT ![t] = NULL] /\ pc'[u] = "fresh"
               /\ threadList' = threadList \cup {u} /\ nrThreads' = nrThreads + 1
               /\ UNCHANGED <<sleeping, nrNonDaemons>>
            \/ child' = [child EXCEPT ![t] = NULL] /\ pc'[u] = "unborn"
               /\ UNCHANGED <<threadList, nrThreads>>
               /\ nrNonDaemons' = nrNonDaemons - NonDaemon(u)
               /\ sleeping' = Awake("terminate")
        BY <1>2, <1>3, <3>3 DEF Attach
      <3>. QED
        BY <3>1, <3>4
    <2>3. /\ pc' \in [Threads -> PC] /\ child' \in [Threads -> Threads \cup {NULL}]
          /\ pc'[t] = "run" /\ pc'[u] = label
          /\ \A v \in Threads \ {t} : child'[v] = child[v]
          /\ \A v \in Threads \ {t, u} : pc'[v] = pc[v]
      BY <1>2, <1>3, <2>1, <2>2 DEF PC
    <2>4. threadList = Running /\ main \in threadList
      BY <1>1, OnTheList DEF Running
    <2>5. threadList' = Running'
      BY <1>1, <1>2, <2>2, <2>3, <2>4 DEF Running
    <2>6. nrThreads' = Cardinality(threadList)'
      <3>1. u \notin threadList
        BY <1>2, <2>4 DEF Running
      <3>. QED
        BY <2>2, <3>1, CountsOK, CountAdd DEF StopInv, CountInv
    <2>7. nrNonDaemons' = Cardinality(NonDaemons)'
      <3>1. CASE label = "fresh"
        <4>1. NonDaemons' = NonDaemons
          BY <1>1, <1>2, <2>3, <3>1 DEF NonDaemons
        <4>. QED
          BY <2>2, <3>1, <4>1 DEF StopInv, CountInv
      <3>2. CASE label = "unborn" /\ u \in Daemons
        <4>1. NonDaemons' = NonDaemons
          BY <1>1, <1>2, <2>3, <3>2 DEF NonDaemons
        <4>. QED
          BY <2>2, <3>2, <4>1, CountsOK, CountedSets DEF NonDaemon, StopInv, CountInv
      <3>3. CASE label = "unborn" /\ u \notin Daemons
        <4>1. NonDaemons' = NonDaemons \ {u} /\ u \in NonDaemons
          BY <1>1, <1>2, <2>3, <3>3 DEF NonDaemons
        <4>. QED
          BY <2>2, <3>3, <4>1, CountsOK, CountRemove DEF NonDaemon, StopInv, CountInv
      <3>. QED
        BY <3>1, <3>2, <3>3
    <2>8. ListInv'
      BY <1>1, <1>2, <2>2, <2>3, <2>4, <2>5 DEF StopInv, ListInv, ThreadAssumption
    <2>9. ChildInv'
      BY <1>1, <1>2, <2>3 DEF StopInv, ChildInv
    <2>10. gcPc \in {"idle", "lock", "done"}
      BY <1>5 DEF StopInv, GcInv
    <2>11. /\ GcInv' /\ (\A v \in Threads : Phase(v)') /\ InSafepoint' = InSafepoint
           /\ nrInSafepoint' = Cardinality(InSafepoint)'
      <3>1. \A v \in Threads : v \notin threadList' => hpc[v] = "none"
        BY <2>2 DEF StopInv, Phase
      <3>. QED
        BY <1>1, <2>10, <3>1, ListMayChange DEF handler, signals
    <2>12. TypeOK'
      <3>1. sleeping' \in [Threads -> {"awake", "reclaim", "count", "terminate"}]
        BY <1>3, <2>2, AwakeOK
      <3>2. NonDaemons' \in SUBSET Threads /\ threadList' \in SUBSET Threads
        BY <2>5 DEF NonDaemons, Running
      <3>3. nrThreads' \in Nat /\ nrNonDaemons' \in Nat
        BY <2>6, <2>7, <3>2, CountedSets
      <3>. QED
        BY <1>1, <2>3, <3>1, <3>2, <3>3 DEF StopInv, TypeOK, handler, signals, gc
    <2>13. WakeInv'
      <3>1. \A v \in Threads : pc'[v] = "wakeGc" => pc[v] = "wakeGc"
        BY <2>3
      <3>. QED
        BY <1>1, <2>10, <2>11, <3>1 DEF StopInv, WakeInv, handler, signals, gc
    <2>. QED
      BY <2>6, <2>7, <2>8, <2>9, <2>11, <2>12, <2>13, StopParts DEF CountInv
  <1>. QED
    BY <1>4, <1>5 DEF Attach

\* Exit and Free keep the invariant.
LEMMA ExitKeeps ==
  ASSUME ThreadAssumption, StopInv, NEW t \in Threads, Exit(t)
  PROVE  StopInv'
  <1>1. /\ pc[t] = "exit" /\ t # main /\ hpc[t] = "none"
        /\ UNCHANGED <<child, countLocked, handler, signals, nrInSafepoint, gc,
                       reclaiming, ended>>
    BY DEF Exit, At, StopInv, ListInv
  <1>2. /\ pc \in [Threads -> PC]
        /\ sleeping \in [Threads -> {"awake", "reclaim", "count", "terminate"}]
    BY DEF StopInv, TypeOK
  <1>3. CASE countLocked /\ Sleep(t, "count") /\ UNCHANGED <<pc, list>>
    <2>1. TypeOK'
      <3>1. sleeping' \in [Threads -> {"awake", "reclaim", "count", "terminate"}]
        BY <1>2, <1>3 DEF Sleep
      <3>. QED
        BY <1>1, <1>3, <3>1 DEF StopInv, TypeOK, list, handler, signals, gc
    <2>2. /\ ListInv' /\ ChildInv' /\ nrThreads' = Cardinality(threadList)'
          /\ nrNonDaemons' = Cardinality(NonDaemons)'
      BY <1>1, <1>3, ProgramStays DEF code
    <2>3. /\ GcInv' /\ (\A v \in Threads : Phase(v)') /\ InSafepoint' = InSafepoint
          /\ nrInSafepoint' = Cardinality(InSafepoint)'
      BY <1>1, <1>3, HandshakeStays DEF list, handler, signals
    <2>4. WakeInv'
      BY <1>1, <1>3, <2>3 DEF StopInv, WakeInv, list, handler, signals, gc
    <2>. QED
      BY <2>1, <2>2, <2>3, <2>4, StopParts DEF CountInv
  <1>4. CASE /\ ~countLocked
             /\ threadList' = threadList \ {t}
             /\ nrThreads' = nrThreads - 1
             /\ nrNonDaemons' = nrNonDaemons - NonDaemon(t)
             /\ sleeping' = Awake("terminate")
             /\ Goto(t, "free")
    <2>1. pc' = [pc EXCEPT ![t] = "free"] /\ pc' \in [Threads -> PC]
      BY <1>2, <1>4 DEF Goto, PC
    <2>2. threadList = Running /\ main \in threadList /\ t \in threadList
      BY <1>1, OnTheList DEF Running
    <2>3. threadList' = Running'
      BY <1>2, <1>4, <2>1, <2>2 DEF Running
    <2>4. nrThreads' = Cardinality(threadList)'
      BY <1>4, <2>2, CountsOK, CountRemove DEF StopInv, CountInv
    <2>5. nrNonDaemons' = Cardinality(NonDaemons)'
      <3>1. CASE t \in Daemons
        <4>1. NonDaemons' = NonDaemons
          BY <1>1, <1>2, <2>1, <3>1 DEF NonDaemons
        <4>. QED
          BY <1>4, <3>1, <4>1, CountsOK, CountedSets DEF NonDaemon, StopInv, CountInv
      <3>2. CASE t \notin Daemons
        <4>1. NonDaemons' = NonDaemons \ {t} /\ t \in NonDaemons
          BY <1>1, <1>2, <2>1, <3>2 DEF NonDaemons
        <4>. QED
          BY <1>4, <3>2, <4>1, CountsOK, CountRemove DEF NonDaemon, StopInv, CountInv
      <3>. QED
        BY <3>1, <3>2
    <2>6. ListInv'
      BY <1>1, <1>2, <1>4, <2>1, <2>2, <2>3 DEF StopInv, ListInv, ThreadAssumption
    <2>7. ChildInv'
      BY <1>1, <1>2, <2>1 DEF StopInv, ChildInv
    <2>8. gcPc \in {"idle", "lock", "done"}
      BY <1>4 DEF StopInv, GcInv
    <2>9. /\ GcInv' /\ (\A v \in Threads : Phase(v)') /\ InSafepoint' = InSafepoint
          /\ nrInSafepoint' = Cardinality(InSafepoint)'
      <3>1. \A v \in Threads : v \notin threadList' => hpc[v] = "none"
        BY <1>1, <1>4 DEF StopInv, Phase
      <3>. QED
        BY <1>1, <2>8, <3>1, ListMayChange DEF handler, signals
    <2>10. TypeOK'
      <3>1. sleeping' \in [Threads -> {"awake", "reclaim", "count", "terminate"}]
        BY <1>4, AwakeOK
      <3>2. NonDaemons' \in SUBSET Threads /\ threadList' \in SUBSET Threads
        BY <2>3 DEF NonDaemons, Running
      <3>3. nrThreads' \in Nat /\ nrNonDaemons' \in Nat
        BY <2>4, <2>5, <3>2, CountedSets
      <3>. QED
        BY <1>1, <2>1, <3>1, <3>2, <3>3 DEF StopInv, TypeOK, handler, signals, gc
    <2>11. WakeInv'
      <3>1. \A v \in Threads : pc'[v] = "wakeGc" => pc[v] = "wakeGc"
        BY <1>2, <2>1
      <3>. QED
        BY <1>1, <2>8, <2>9, <3>1 DEF StopInv, WakeInv, handler, signals, gc
    <2>. QED
      BY <2>4, <2>5, <2>6, <2>7, <2>9, <2>10, <2>11, StopParts DEF CountInv
  <1>. QED
    BY <1>3, <1>4 DEF Exit

LEMMA FreeKeeps ==
  ASSUME ThreadAssumption, StopInv, NEW t \in Threads, Free(t)
  PROVE  StopInv'
  <1>1. /\ pc[t] = "free" /\ t # main /\ pc' = [pc EXCEPT ![t] = "unborn"]
        /\ UNCHANGED <<child, sleeping, list, countLocked, handler, signals,
                       nrInSafepoint, gc, reclaiming, ended>>
    BY DEF Free, At, Goto, StopInv, ListInv
  <1>2. pc \in [Threads -> PC] /\ pc' \in [Threads -> PC]
    BY <1>1 DEF StopInv, TypeOK, PC
  <1>3. Running' = Running /\ NonDaemons' = NonDaemons
    BY <1>1, <1>2 DEF Running, NonDaemons
  <1>4. ListInv'
    BY <1>1, <1>2, <1>3 DEF StopInv, ListInv, ThreadAssumption, list
  <1>5. ChildInv'
    BY <1>1, <1>2 DEF StopInv, ChildInv
  <1>6. /\ GcInv' /\ (\A v \in Threads : Phase(v)') /\ InSafepoint' = InSafepoint
        /\ nrInSafepoint' = Cardinality(InSafepoint)' /\ nrThreads' = Cardinality(threadList)'
    BY <1>1, HandshakeStays DEF list, handler, signals
  <1>7. TypeOK'
    BY <1>1, <1>2 DEF StopInv, TypeOK, list, handler, signals, gc
  <1>8. WakeInv'
    <2>1. \A v \in Threads : pc'[v] = "wakeGc" => pc[v] = "wakeGc"
      BY <1>1, <1>2
    <2>. QED
      BY <1>1, <1>6, <2>1 DEF StopInv, WakeInv, list, handler, signals, gc
  <1>. QED
    BY <1>1, <1>3, <1>4, <1>5, <1>6, <1>7, <1>8, StopParts DEF CountInv, StopInv, list

-----------------------------------------------------------------------------
(* The handler of SIGUSR1                                                  *)

\* What a step of a handler has to show
LEMMA HandlerParts ==
  ASSUME StopInv, UNCHANGED <<code, sleeping, list, countLocked, gc, reclaiming, ended>>,
         hpc' \in [Threads -> HandlerPC], fromNative' \in [Threads -> BOOLEAN],
         usr1' \subseteq Threads, usr2' \subseteq Threads, gcUsr2' \in BOOLEAN,
         nrInSafepoint' \in Nat, nrInSafepoint' = Cardinality(InSafepoint)',
         \A u \in Threads : Phase(u)', WakeInv'
  PROVE  StopInv'
  <1>1. TypeOK'
    BY DEF StopInv, TypeOK, code, list, gc
  <1>2. /\ ListInv' /\ ChildInv' /\ nrThreads' = Cardinality(threadList)'
        /\ nrNonDaemons' = Cardinality(NonDaemons)'
    BY ProgramStays
  <1>3. GcInv'
    BY DEF StopInv, GcInv, gc, list
  <1>. QED
    BY <1>1, <1>2, <1>3, StopParts DEF CountInv

\* Deliver keeps the invariant: SIGUSR1 arrives only while threads are stopped.
LEMMA DeliverKeeps ==
  ASSUME ThreadAssumption, StopInv, NEW t \in Threads, NEW native \in BOOLEAN,
         Deliver(t, native)
  PROVE  StopInv'
  <1>1. /\ t \in usr1 /\ hpc[t] = "none" /\ usr1' = usr1 \ {t}
        /\ hpc' = [hpc EXCEPT ![t] = "enter"]
        /\ fromNative' = [fromNative EXCEPT ![t] = native]
        /\ UNCHANGED <<code, sleeping, list, countLocked, usr2, gcUsr2, nrInSafepoint,
                       gc, reclaiming, ended>>
    BY DEF Deliver
  <1>2. /\ hpc \in [Threads -> HandlerPC] /\ hpc' \in [Threads -> HandlerPC]
        /\ fromNative' \in [Threads -> BOOLEAN]
    BY <1>1 DEF StopInv, TypeOK, HandlerPC
  <1>3. gcPc \in Stopping /\ t \in threadList /\ t \notin toSignal
    BY <1>1 DEF StopInv, TypeOK, GcPC, Phase, Resting, Stopping, Stopped, Resuming
  <1>4. InSafepoint' = InSafepoint
    BY <1>1, <1>2 DEF InSafepoint
  <1>5. \A u \in Threads : Phase(u)'
    BY <1>1, <1>2, <1>3 DEF StopInv, Phase, gc, list, Resting, Stopping, Stopped, Resuming
  <1>6. WakeInv'
    <2>1. \A u \in Threads : hpc'[u] = "wakeGc" => hpc[u] = "wakeGc"
      BY <1>1, <1>2
    <2>. QED
      BY <1>1, <1>4, <2>1 DEF StopInv, WakeInv, gc, list, code
  <1>. QED
    BY <1>1, <1>2, <1>4, <1>5, <1>6, HandlerParts DEF StopInv, TypeOK, CountInv

\* EnterSafepoint keeps the invariant: when as many threads have entered as
\* were counted, all of them have.
LEMMA EnterSafepointKeeps ==
  ASSUME ThreadAssumption, StopInv, NEW t \in Threads, EnterSafepoint(t)
  PROVE  StopInv'
  <1>1. /\ hpc[t] = "enter" /\ nrInSafepoint' = nrInSafepoint + 1
        /\ hpc' = [hpc EXCEPT ![t] = "sigwait"]
        /\ UNCHANGED <<code, sleeping, list, countLocked, fromNative, usr1, usr2,
                       gc, reclaiming, ended>>
    BY DEF EnterSafepoint, InHandler, HandlerGoto
  <1>2. gcUsr2' = (gcUsr2 \/ nrInSafepoint + 1 = nrStopped)
    BY DEF EnterSafepoint
  <1>3. hpc \in [Threads -> HandlerPC] /\ hpc' \in [Threads -> HandlerPC]
    BY <1>1 DEF StopInv, TypeOK, HandlerPC
  <1>4. gcPc \in Stopping /\ t \in threadList /\ t \notin toSignal \cup usr1
    BY <1>1 DEF StopInv, TypeOK, GcPC, Phase, Resting, Stopping, Stopped, Resuming
  <1>5. InSafepoint' = InSafepoint \cup {t} /\ t \notin InSafepoint
    BY <1>1, <1>3 DEF InSafepoint
  <1>6. nrInSafepoint' = Cardinality(InSafepoint)' /\ nrInSafepoint' \in Nat
    BY <1>1, <1>5, CountsOK, CountAdd, CountedSets DEF StopInv, CountInv
  <1>7. \A u \in Threads : Phase(u)'
    BY <1>1, <1>3, <1>4 DEF StopInv, Phase, gc, list, Resting, Stopping, Stopped, Resuming
  <1>8. ~gcUsr2
    BY <1>4, <1>5 DEF StopInv, WakeInv, Stopping
  <1>9. gcUsr2' => InSafepoint' = threadList /\ gcPc = "waitIn"
    <2>1. InSafepoint' \in SUBSET threadList
      BY <1>4, <1>5 DEF StopInv, Phase, InSafepoint
    <2>2. gcUsr2' => Cardinality(InSafepoint') = Cardinality(threadList)
      BY <1>1, <1>2, <1>4, <1>6, <1>8 DEF StopInv, GcInv, CountInv, Stopping
    <2>3. gcUsr2' => InSafepoint' = threadList
      BY <2>1, <2>2, CountsOK, CountLess
    <2>4. \A u \in toSignal : u \in threadList /\ u \notin InSafepoint'
      BY <1>4, <1>5 DEF StopInv, TypeOK, Phase, InSafepoint, Stopping
    <2>. QED
      BY <1>4, <2>3, <2>4 DEF StopInv, GcInv, Stopping
  <1>10. WakeInv'
    <2>1. \A u \in Threads : hpc'[u] # "wakeGc"
      BY <1>3, <1>4, <1>7, <1>1 DEF Phase, Stopping, gc, list
    <2>2. reclaiming /\ gcPc # "idle"
      BY <1>4 DEF StopInv, WakeInv, Stopping
    <2>. QED
      BY <1>1, <1>9, <2>1, <2>2 DEF StopInv, WakeInv, gc, list, code
  <1>11. gcUsr2' \in BOOLEAN
    BY <1>2
  <1>. QED
    BY <1>1, <1>3, <1>6, <1>7, <1>10, <1>11, HandlerParts DEF StopInv, TypeOK

LEMMA EnterWithoutExecEnvKeeps ==
  ASSUME ThreadAssumption, StopInv, NEW t \in Threads, EnterWithoutExecEnv(t)
  PROVE  StopInv'
  <1>1. /\ UNCHANGED <<code, sleeping, list, countLocked, handler, signals,
                       nrInSafepoint, gc, reclaiming>>
        /\ ended' = "crash"
    BY DEF EnterWithoutExecEnv
  <1>2. /\ ListInv' /\ ChildInv' /\ nrThreads' = Cardinality(threadList)'
        /\ nrNonDaemons' = Cardinality(NonDaemons)'
    BY <1>1, ProgramStays
  <1>3. /\ GcInv' /\ (\A u \in Threads : Phase(u)') /\ InSafepoint' = InSafepoint
        /\ nrInSafepoint' = Cardinality(InSafepoint)'
    BY <1>1, HandshakeStays DEF list, handler, signals
  <1>4. TypeOK'
    BY <1>1 DEF StopInv, TypeOK, code, list, handler, signals, gc
  <1>5. WakeInv'
    BY <1>1, <1>3 DEF StopInv, WakeInv, code, list, handler, signals, gc
  <1>. QED
    BY <1>2, <1>3, <1>4, <1>5, StopParts DEF CountInv

\* SuspendSelf keeps the invariant: SIGUSR2 arrives only while threads resume.
LEMMA SuspendSelfKeeps ==
  ASSUME ThreadAssumption, StopInv, NEW t \in Threads, SuspendSelf(t)
  PROVE  StopInv'
  <1>1. /\ t \in usr2 /\ hpc[t] = "sigwait" /\ usr2' = usr2 \ {t}
        /\ hpc' = [hpc EXCEPT ![t] = "leave"]
        /\ UNCHANGED <<code, sleeping, list, countLocked, fromNative, usr1, gcUsr2,
                       nrInSafepoint, gc, reclaiming, ended>>
    BY DEF SuspendSelf, InHandler, HandlerGoto
  <1>2. hpc \in [Threads -> HandlerPC] /\ hpc' \in [Threads -> HandlerPC]
    BY <1>1 DEF StopInv, TypeOK, HandlerPC
  <1>3. gcPc \in Resuming /\ t \in threadList /\ t \notin toSignal
    BY <1>1 DEF StopInv, TypeOK, GcPC, Phase, Resting, Stopping, Stopped, Resuming
  <1>4. InSafepoint' = InSafepoint
    BY <1>1, <1>2 DEF InSafepoint
  <1>5. \A u \in Threads : Phase(u)'
    BY <1>1, <1>2, <1>3 DEF StopInv, Phase, gc, list, Resting, Stopping, Stopped, Resuming
  <1>6. WakeInv'
    <2>1. \A u \in Threads : hpc'[u] = "wakeGc" => hpc[u] = "wakeGc"
      BY <1>1, <1>2
    <2>. QED
      BY <1>1, <1>4, <2>1 DEF StopInv, WakeInv, gc, list, code
  <1>. QED
    BY <1>1, <1>2, <1>4, <1>5, <1>6, HandlerParts DEF StopInv, TypeOK, CountInv

\* ExitSafepoint keeps the invariant: only the last thread wakes the GC thread.
LEMMA ExitSafepointKeeps ==
  ASSUME ThreadAssumption, StopInv, NEW t \in Threads, ExitSafepoint(t)
  PROVE  StopInv'
  <1>. DEFINE label == IF nrInSafepoint = 1 /\ fromNative[t] THEN "wakeGc" ELSE "return"
  <1>1. /\ hpc[t] = "leave" /\ nrInSafepoint' = nrInSafepoint - 1
        /\ hpc' = [hpc EXCEPT ![t] = label]
        /\ UNCHANGED <<code, sleeping, list, countLocked, fromNative, signals,
                       gc, reclaiming, ended>>
    BY DEF ExitSafepoint, InHandler, HandlerGoto
  <1>2. label \in {"wakeGc", "return"} /\ (label = "wakeGc" => nrInSafepoint = 1)
    OBVIOUS
  <1>. HIDE DEF label
  <1>3. hpc \in [Threads -> HandlerPC] /\ hpc' \in [Threads -> HandlerPC]
    BY <1>1, <1>2 DEF StopInv, TypeOK, HandlerPC
  <1>4. gcPc \in Resuming /\ t \in threadList /\ t \notin toSignal \cup usr2
    BY <1>1 DEF StopInv, TypeOK, GcPC, Phase, Resting, Stopping, Stopped, Resuming
  <1>5. InSafepoint' = InSafepoint \ {t} /\ t \in InSafepoint
    BY <1>1, <1>2, <1>3 DEF InSafepoint
  <1>6. nrInSafepoint' = Cardinality(InSafepoint)' /\ nrInSafepoint' \in Nat
    <2>1. nrInSafepoint' = Cardinality(InSafepoint')
      BY <1>1, <1>5, CountsOK, CountRemove DEF StopInv, CountInv
    <2>2. InSafepoint' \in SUBSET Threads
      BY DEF InSafepoint
    <2>. QED
      BY <2>1, <2>2, CountedSets
  <1>7. \A u \in Threads : Phase(u)'
    BY <1>1, <1>2, <1>3, <1>4 DEF StopInv, Phase, gc, list, signals, Resting, Stopping,
       Stopped, Resuming
  <1>8. WakeInv'
    <2>1. ~gcUsr2 /\ \A u \in Threads : hpc[u] # "wakeGc"
      BY <1>4, <1>5 DEF StopInv, WakeInv, Resuming
    <2>2. label = "wakeGc" => InSafepoint' = {}
      <3>1. label = "wakeGc" => nrInSafepoint' = 0
        BY <1>1, <1>2
      <3>2. InSafepoint' \in SUBSET Threads
        BY DEF InSafepoint
      <3>. QED
        BY <1>6, <3>1, <3>2, CountedSets
    <2>3. \A u \in Threads : hpc'[u] = "wakeGc" => u = t /\ label = "wakeGc"
      BY <1>1, <1>3, <2>1
    <2>. QED
      BY <1>1, <2>1, <2>2, <2>3 DEF StopInv, WakeInv, gc, list, code, signals
  <1>. QED
    BY <1>1, <1>3, <1>6, <1>7, <1>8, HandlerParts DEF StopInv, TypeOK, signals

\* HandlerWakesGc keeps the invariant.
LEMMA HandlerWakesGcKeeps ==
  ASSUME ThreadAssumption, StopInv, NEW t \in Threads, HandlerWakesGc(t)
  PROVE  StopInv'
  <1>1. /\ hpc[t] = "wakeGc" /\ gcUsr2' = TRUE
        /\ hpc' = [hpc EXCEPT ![t] = "return"]
        /\ UNCHANGED <<code, sleeping, list, countLocked, fromNative, usr1, usr2,
                       nrInSafepoint, gc, reclaiming, ended>>
    BY DEF HandlerWakesGc, InHandler, HandlerGoto
  <1>2. hpc \in [Threads -> HandlerPC] /\ hpc' \in [Threads -> HandlerPC]
    BY <1>1 DEF StopInv, TypeOK, HandlerPC
  <1>3. gcPc \in Resuming /\ t \in threadList /\ t \notin toSignal \cup usr2
    BY <1>1 DEF StopInv, TypeOK, GcPC, Phase, Resting, Stopping, Stopped, Resuming
  <1>4. InSafepoint' = InSafepoint
    BY <1>1, <1>2 DEF InSafepoint
  <1>5. \A u \in Threads : Phase(u)'
    BY <1>1, <1>2, <1>3 DEF StopInv, Phase, gc, list, Resting, Stopping, Stopped, Resuming
  <1>6. WakeInv'
    <2>1. InSafepoint = {} /\ \A u \in Threads : hpc'[u] # "wakeGc"
      BY <1>1, <1>2 DEF StopInv, WakeInv
    <2>2. toSignal \subseteq InSafepoint
      BY <1>3 DEF StopInv, TypeOK, Phase, InSafepoint, Resuming
    <2>3. gcPc = "waitOut"
      BY <1>3, <2>1, <2>2 DEF StopInv, GcInv, Resuming
    <2>. QED
      BY <1>1, <1>4, <2>1, <2>3 DEF StopInv, WakeInv, gc, list, code
  <1>. QED
    BY <1>1, <1>2, <1>4, <1>5, <1>6, HandlerParts DEF StopInv, TypeOK, CountInv

\* HandlerReturns keeps the invariant.
LEMMA HandlerReturnsKeeps ==
  ASSUME ThreadAssumption, StopInv, NEW t \in Threads, HandlerReturns(t)
  PROVE  StopInv'
  <1>1. /\ hpc[t] = "return"
        /\ hpc' = [hpc EXCEPT ![t] = "none"]
        /\ UNCHANGED <<code, list, countLocked, fromNative, signals,
                       nrInSafepoint, gc, reclaiming, ended>>
    BY DEF HandlerReturns, InHandler, HandlerGoto
  <1>2. hpc \in [Threads -> HandlerPC] /\ hpc' \in [Threads -> HandlerPC]
    BY <1>1 DEF StopInv, TypeOK, HandlerPC
  <1>3. InSafepoint' = InSafepoint
    BY <1>1, <1>2 DEF InSafepoint
  <1>4. \A u \in Threads : Phase(u)'
    BY <1>1, <1>2 DEF StopInv, Phase, gc, list, signals, Resting, Stopping, Stopped,
       Resuming
  <1>5. WakeInv'
    <2>1. \A u \in Threads : hpc'[u] = "wakeGc" => hpc[u] = "wakeGc"
      BY <1>1, <1>2
    <2>. QED
      BY <1>1, <1>3, <2>1 DEF StopInv, WakeInv, gc, list, code, signals
  <1>6. TypeOK'
    <2>1. sleeping' \in [Threads -> {"awake", "reclaim", "count", "terminate"}]
      BY DEF HandlerReturns, Sleep, StopInv, TypeOK
    <2>. QED
      BY <1>1, <1>2, <2>1 DEF StopInv, TypeOK, code, list, signals, gc
  <1>7. /\ ListInv' /\ ChildInv' /\ nrThreads' = Cardinality(threadList)'
        /\ nrNonDaemons' = Cardinality(NonDaemons)'
    BY <1>1, ProgramStays
  <1>8. GcInv'
    BY <1>1 DEF StopInv, GcInv, gc, list
  <1>. QED
    BY <1>1, <1>3, <1>4, <1>5, <1>6, <1>7, <1>8, StopParts DEF CountInv, StopInv

-----------------------------------------------------------------------------
(* The GC thread                                                           *)

\* What a step of the GC thread has to show
LEMMA GcParts ==
  ASSUME StopInv, UNCHANGED <<code, list, handler, nrInSafepoint>>,
         sleeping' \in [Threads -> {"awake", "reclaim", "count", "terminate"}],
         usr1' \subseteq Threads, usr2' \subseteq Threads, toSignal' \subseteq Threads,
         gcUsr2' \in BOOLEAN, countLocked' \in BOOLEAN,
         reclaiming' \in {reclaiming, FALSE},
         nrStopped' \in Nat \cup {-1}, gcPc' \in GcPC,
         ended' \in {"no", "exit", "threw", "crash", "died"},
         GcInv', WakeInv', \A u \in Threads : Phase(u)'
  PROVE  StopInv'
  <1>1. reclaiming' \in BOOLEAN
    BY DEF StopInv, TypeOK
  <1>2. TypeOK'
    BY <1>1 DEF StopInv, TypeOK, code, list, handler
  <1>3. /\ ListInv' /\ ChildInv' /\ nrThreads' = Cardinality(threadList)'
        /\ nrNonDaemons' = Cardinality(NonDaemons)'
    BY ProgramStays
  <1>4. InSafepoint' = InSafepoint
    BY DEF InSafepoint, handler
  <1>. QED
    BY <1>2, <1>3, <1>4, StopParts DEF StopInv, CountInv

\* suspend_self of the GC thread keeps the invariant: at the three places
\* where it sleeps, SIGUSR2 means what the GC thread takes it for.
LEMMA GcSuspendSelfKeeps ==
  ASSUME ThreadAssumption, StopInv, NEW from, NEW to, GcSuspendSelf(from, to),
         \/ from = "idle" /\ to = "lock"
         \/ from = "waitIn" /\ to = "restart"
         \/ from = "waitOut" /\ to = "unlock"
  PROVE  StopInv'
  <1>1. /\ gcPc = from /\ gcUsr2 /\ gcUsr2' = FALSE /\ gcPc' = to
        /\ UNCHANGED <<code, sleeping, list, countLocked, handler, usr1, usr2,
                       nrInSafepoint, nrStopped, toSignal, reclaiming, ended>>
    BY DEF GcSuspendSelf, GcAt
  <1>2. toSignal = {}
    BY <1>1 DEF StopInv, GcInv
  <1>3. GcInv'
    BY <1>1, <1>2 DEF StopInv, GcInv, list, Stopping, Stopped, Resuming
  <1>4. \A u \in Threads : Phase(u)'
    <2>1. CASE from = "idle" /\ to = "lock"
      BY <1>1, <2>1 DEF StopInv, Phase, list, handler, Resting, Stopping, Stopped, Resuming
    <2>2. CASE from = "waitIn" /\ to = "restart"
      <3>1. \A u \in threadList : hpc[u] = "sigwait" /\ u \notin usr1 \cup usr2
        BY <1>1, <2>2 DEF StopInv, TypeOK, WakeInv, InSafepoint, Phase, Stopping
      <3>. QED
        BY <1>1, <1>2, <2>2, <3>1 DEF StopInv, Phase, list, handler, Resting, Stopping,
           Stopped, Resuming
    <2>3. CASE from = "waitOut" /\ to = "unlock"
      <3>1. \A u \in Threads : hpc[u] \notin {"sigwait", "leave", "wakeGc"}
        BY <1>1, <2>3 DEF StopInv, WakeInv, InSafepoint
      <3>2. \A u \in Threads : hpc[u] \in {"none", "return"} /\ u \notin usr1 \cup usr2
        BY <1>1, <1>2, <2>3, <3>1 DEF StopInv, Phase, Resuming
      <3>. QED
        BY <1>1, <1>2, <2>3, <3>2 DEF StopInv, Phase, list, handler, Resting, Stopping,
           Stopped, Resuming
    <2>. QED
      BY <2>1, <2>2, <2>3
  <1>5. WakeInv'
    <2>1. reclaiming /\ \A u \in Threads : pc[u] # "wakeGc" /\ hpc[u] # "wakeGc"
      BY <1>1 DEF StopInv, WakeInv
    <2>. QED
      BY <1>1, <2>1 DEF WakeInv, code, handler
  <1>6. to \in GcPC
    BY DEF GcPC
  <1>. QED
    BY <1>1, <1>3, <1>4, <1>5, <1>6, GcParts DEF StopInv, TypeOK

\* A step that neither touches the handlers nor wakes the GC thread
LEMMA WakeStays ==
  ASSUME StopInv, UNCHANGED <<code, list, handler, gcUsr2, reclaiming>>,
         gcPc \in GcPC \ {"idle", "waitIn", "waitOut", "done"}
  PROVE  WakeInv'
  <1>1. /\ ~gcUsr2 /\ reclaiming /\ \A u \in Threads : pc[u] # "wakeGc"
    BY DEF StopInv, WakeInv
  <1>2. InSafepoint' = InSafepoint
    BY DEF InSafepoint, handler
  <1>. QED
    BY <1>1, <1>2 DEF StopInv, WakeInv, code, handler, list

\* LockThreadCount, Count and RestartNone keep the invariant.
LEMMA LockThreadCountKeeps ==
  ASSUME ThreadAssumption, StopInv, LockThreadCount
  PROVE  StopInv'
  <1>1. /\ gcPc = "lock" /\ gcPc' = "count" /\ countLocked' = TRUE
        /\ UNCHANGED <<code, sleeping, list, handler, signals, nrInSafepoint,
                       nrStopped, toSignal, reclaiming, ended>>
    BY DEF LockThreadCount, GcAt
  <1>2. GcInv'
    BY <1>1 DEF StopInv, GcInv, Stopping, Stopped, Resuming
  <1>3. \A u \in Threads : Phase(u)'
    BY <1>1 DEF StopInv, Phase, list, handler, signals, Resting, Stopping, Stopped, Resuming
  <1>4. WakeInv'
    BY <1>1, WakeStays DEF signals, GcPC
  <1>. QED
    BY <1>1, <1>2, <1>3, <1>4, GcParts DEF StopInv, TypeOK, signals, GcPC

LEMMA CountKeeps ==
  ASSUME ThreadAssumption, StopInv, Count
  PROVE  StopInv'
  <1>1. /\ gcPc = "count" /\ nrStopped' = nrThreads /\ toSignal' = threadList
        /\ gcPc' = IF nrThreads = 0 THEN "unlock" ELSE "suspend"
        /\ UNCHANGED <<code, sleeping, list, countLocked, handler, signals,
                       nrInSafepoint, reclaiming, ended>>
    BY DEF Count, GcAt
  <1>2. nrThreads \in Nat /\ (nrThreads = 0 <=> threadList = {})
    BY CountsOK
  <1>3. GcInv'
    BY <1>1, <1>2 DEF StopInv, GcInv, list, Stopping, Stopped, Resuming
  <1>4. \A u \in Threads : Phase(u)'
    BY <1>1, <1>2 DEF StopInv, Phase, list, handler, signals, Resting, Stopping, Stopped,
       Resuming
  <1>5. WakeInv'
    BY <1>1, WakeStays DEF signals, GcPC
  <1>. QED
    BY <1>1, <1>2, <1>3, <1>4, <1>5, GcParts DEF StopInv, TypeOK, signals, GcPC

LEMMA RestartNoneKeeps ==
  ASSUME ThreadAssumption, StopInv, RestartNone
  PROVE  StopInv'
  <1>1. /\ gcPc = "restart" /\ gcPc' = "reclaim"
        /\ UNCHANGED <<code, sleeping, list, countLocked, handler, signals,
                       nrInSafepoint, nrStopped, toSignal, reclaiming, ended>>
    BY DEF RestartNone, GcAt
  <1>2. GcInv'
    BY <1>1 DEF StopInv, GcInv, list, Stopping, Stopped, Resuming
  <1>3. \A u \in Threads : Phase(u)'
    BY <1>1 DEF StopInv, Phase, list, handler, signals, Resting, Stopping, Stopped, Resuming
  <1>4. WakeInv'
    BY <1>1, WakeStays DEF signals, GcPC
  <1>. QED
    BY <1>1, <1>2, <1>3, <1>4, GcParts DEF StopInv, TypeOK, signals, GcPC

\* SuspendThread keeps the invariant: everybody has been sent the signal when
\* the GC thread waits.
LEMMA SuspendThreadKeeps ==
  ASSUME ThreadAssumption, StopInv, NEW t \in Threads, SuspendThread(t)
  PROVE  StopInv'
  <1>1. /\ gcPc = "suspend" /\ t \in toSignal /\ usr1' = usr1 \cup {t}
        /\ toSignal' = toSignal \ {t}
        /\ gcPc' = IF toSignal = {t} THEN "waitIn" ELSE "suspend"
        /\ UNCHANGED <<code, sleeping, list, countLocked, handler, usr2, gcUsr2,
                       nrInSafepoint, nrStopped, reclaiming, ended>>
    BY DEF SuspendThread, GcAt
  <1>2. GcInv'
    BY <1>1 DEF StopInv, GcInv, list, Stopping, Stopped, Resuming
  <1>3. \A u \in Threads : Phase(u)'
    BY <1>1 DEF StopInv, Phase, list, handler, Resting, Stopping, Stopped, Resuming
  <1>4. WakeInv'
    BY <1>1, WakeStays DEF GcPC
  <1>. QED
    BY <1>1, <1>2, <1>3, <1>4, GcParts DEF StopInv, TypeOK, GcPC

LEMMA SuspendLostKeeps ==
  ASSUME ThreadAssumption, StopInv, NEW t \in Threads, SuspendLost(t)
  PROVE  StopInv'
  <1>1. /\ ended' = "died"
        /\ UNCHANGED <<code, sleeping, list, countLocked, handler, signals,
                       nrInSafepoint, gc, reclaiming>>
    BY DEF SuspendLost
  <1>2. GcInv' /\ (\A u \in Threads : Phase(u)') /\ InSafepoint' = InSafepoint
    BY <1>1, HandshakeStays DEF list, handler, signals
  <1>3. WakeInv'
    BY <1>1, <1>2 DEF StopInv, WakeInv, code, list, handler, signals, gc
  <1>. QED
    BY <1>1, <1>2, <1>3, GcParts DEF StopInv, TypeOK, signals, gc

\* Reclaim and ResumeThread keep the invariant.
LEMMA ReclaimKeeps ==
  ASSUME ThreadAssumption, StopInv, Reclaim
  PROVE  StopInv'
  <1>1. /\ gcPc = "reclaim" /\ gcPc' = "resume" /\ toSignal' = threadList
        /\ UNCHANGED <<code, sleeping, list, countLocked, handler, signals,
                       nrInSafepoint, nrStopped, reclaiming, ended>>
    BY DEF Reclaim, GcAt
  <1>2. GcInv'
    BY <1>1 DEF StopInv, GcInv, list, Stopping, Stopped, Resuming
  <1>3. \A u \in Threads : Phase(u)'
    BY <1>1 DEF StopInv, Phase, list, handler, signals, Resting, Stopping, Stopped, Resuming
  <1>4. WakeInv'
    BY <1>1, WakeStays DEF signals, GcPC
  <1>. QED
    BY <1>1, <1>2, <1>3, <1>4, GcParts DEF StopInv, TypeOK, signals, GcPC

LEMMA ResumeThreadKeeps ==
  ASSUME ThreadAssumption, StopInv, NEW t \in Threads, ResumeThread(t)
  PROVE  StopInv'
  <1>1. /\ gcPc = "resume" /\ t \in toSignal /\ usr2' = usr2 \cup {t}
        /\ toSignal' = toSignal \ {t}
        /\ gcPc' = IF toSignal = {t} THEN "waitOut" ELSE "resume"
        /\ UNCHANGED <<code, sleeping, list, countLocked, handler, usr1, gcUsr2,
                       nrInSafepoint, nrStopped, reclaiming, ended>>
    BY DEF ResumeThread, GcAt
  <1>2. GcInv'
    BY <1>1 DEF StopInv, GcInv, list, Stopping, Stopped, Resuming
  <1>3. \A u \in Threads : Phase(u)'
    BY <1>1 DEF StopInv, Phase, list, handler, Resting, Stopping, Stopped, Resuming
  <1>4. WakeInv'
    BY <1>1, WakeStays DEF GcPC
  <1>. QED
    BY <1>1, <1>2, <1>3, <1>4, GcParts DEF StopInv, TypeOK, GcPC

\* UnlockThreadCount and Done keep the invariant.
LEMMA UnlockThreadCountKeeps ==
  ASSUME ThreadAssumption, StopInv, UnlockThreadCount
  PROVE  StopInv'
  <1>1. /\ gcPc = "unlock" /\ gcPc' = "done" /\ nrStopped' = -1 /\ countLocked' = FALSE
        /\ sleeping' = Awake("count")
        /\ UNCHANGED <<code, list, handler, signals, nrInSafepoint, toSignal,
                       reclaiming, ended>>
    BY DEF UnlockThreadCount, GcAt
  <1>2. GcInv'
    BY <1>1 DEF StopInv, GcInv, Stopping, Stopped, Resuming
  <1>3. \A u \in Threads : Phase(u)'
    BY <1>1 DEF StopInv, Phase, list, handler, signals, Resting, Stopping, Stopped, Resuming
  <1>4. WakeInv'
    BY <1>1, WakeStays DEF signals, GcPC
  <1>. QED
    BY <1>1, <1>2, <1>3, <1>4, AwakeOK, GcParts DEF StopInv, TypeOK, signals, GcPC

LEMMA DoneKeeps ==
  ASSUME ThreadAssumption, StopInv, Done
  PROVE  StopInv'
  <1>1. /\ gcPc = "done" /\ gcPc' = "idle" /\ reclaiming' = FALSE
        /\ sleeping' = Awake("reclaim")
        /\ UNCHANGED <<code, list, countLocked, handler, signals, nrInSafepoint,
                       nrStopped, toSignal, ended>>
    BY DEF Done, GcAt
  <1>2. GcInv'
    BY <1>1 DEF StopInv, GcInv, Stopping, Stopped, Resuming
  <1>3. \A u \in Threads : Phase(u)'
    BY <1>1 DEF StopInv, Phase, list, handler, signals, Resting, Stopping, Stopped, Resuming
  <1>4. WakeInv'
    <2>1. ~gcUsr2 /\ \A u \in Threads : pc[u] # "wakeGc" /\ hpc[u] # "wakeGc"
      BY <1>1 DEF StopInv, WakeInv, Phase, Resting
    <2>. QED
      BY <1>1, <2>1 DEF WakeInv, code, handler, signals
  <1>. QED
    BY <1>1, <1>2, <1>3, <1>4, AwakeOK, GcParts DEF StopInv, TypeOK, signals, GcPC

-----------------------------------------------------------------------------
(* The theorems                                                            *)

LEMMA StopInit ==
  ASSUME ThreadAssumption, Init
  PROVE  StopInv
  <1>1. TypeOK
    BY DEF Init, TypeOK, PC, HandlerPC, GcPC, ThreadAssumption
  <1>2. Running = {main} /\ NonDaemons = {} /\ InSafepoint = {}
    BY DEF Init, Running, NonDaemons, InSafepoint, ThreadAssumption
  <1>3. ListInv /\ ChildInv
    BY <1>2 DEF Init, ListInv, ChildInv, ThreadAssumption
  <1>4. CountInv
    BY <1>2, FS_EmptySet DEF Init, CountInv
  <1>5. GcInv
    BY DEF Init, GcInv, Stopping, Stopped, Resuming
  <1>6. WakeInv
    BY DEF Init, WakeInv, ThreadAssumption
  <1>7. \A t \in Threads : Phase(t)
    BY DEF Init, Phase, Resting, Stopping, Stopped, Resuming
  <1>. QED
    BY <1>1, <1>3, <1>4, <1>5, <1>6, <1>7 DEF StopInv

LEMMA StopStutter ==
  ASSUME StopInv, UNCHANGED vars
  PROVE  StopInv'
  <1>1. UNCHANGED <<code, sleeping, list, countLocked, handler, signals, nrInSafepoint,
                    gc, reclaiming, ended>>
    BY DEF vars
  <1>2. GcInv' /\ (\A u \in Threads : Phase(u)') /\ InSafepoint' = InSafepoint
    BY <1>1, HandshakeStays DEF list, handler, signals
  <1>3. WakeInv'
    BY <1>1, <1>2 DEF StopInv, WakeInv, code, list, handler, signals, gc
  <1>. QED
    BY <1>1, <1>2, <1>3, GcParts DEF StopInv, TypeOK, signals, gc

LEMMA StopStep ==
  ASSUME ThreadAssumption, StopInv, Next
  PROVE  StopInv'
  <1>1. ASSUME NEW t \in Threads, ThreadStep(t)
        PROVE  StopInv'
    BY <1>1, InitThreadingKeeps, AttachKeeps, MoveKeeps, ExitKeeps, FreeKeeps, EndKeeps,
       WakeGcKeeps, WaitGcKeeps DEF ThreadStep
  <1>2. ASSUME NEW t \in Threads, Program(t)
        PROVE  StopInv'
    BY <1>2, GcStartKeeps, MoveKeeps, EndKeeps, StartThreadKeeps DEF Program
  <1>3. ASSUME NEW t \in Threads, HandlerStep(t)
        PROVE  StopInv'
    BY <1>3, DeliverKeeps, EnterSafepointKeeps, EnterWithoutExecEnvKeeps, SuspendSelfKeeps,
       ExitSafepointKeeps, HandlerWakesGcKeeps, HandlerReturnsKeeps DEF HandlerStep
  <1>4. CASE GcStep
    BY <1>4, GcSuspendSelfKeeps, LockThreadCountKeeps, CountKeeps, SuspendThreadKeeps,
       SuspendLostKeeps, RestartNoneKeeps, ReclaimKeeps, ResumeThreadKeeps,
       UnlockThreadCountKeeps, DoneKeeps DEF GcStep
  <1>5. CASE Over
    BY <1>5, StopStutter DEF Over
  <1>. QED
    BY <1>1, <1>2, <1>3, <1>4, <1>5 DEF Next

\* The thread list, the counts, the handlers, the pending signals and the GC
\* thread agree throughout, for every finite set of threads.
THEOREM HandshakeInvariant == Spec => []StopInv
  <1>1. Init => StopInv
    BY StopInit, ThreadAssumption
  <1>2. StopInv /\ [Next]_vars => StopInv'
    BY StopStep, StopStutter, ThreadAssumption
  <1>. QED
    BY <1>1, <1>2, PTL DEF Spec

\* WorldIsStopped: while do_gc_reclaim runs, every thread that could run Java
\* code waits in its signal handler.
THEOREM TheWorldStops == Spec => []WorldIsStopped
  <1>1. StopInv => WorldIsStopped
    <2>. SUFFICES ASSUME StopInv PROVE WorldIsStopped
      OBVIOUS
    <2>1. ASSUME gcPc = "reclaim", NEW t \in Running
          PROVE  hpc[t] = "sigwait" /\ t \notin usr2
      <3>1. t \in Threads /\ t \in threadList
        BY <2>1 DEF StopInv, GcInv, ListInv, Running, Stopped
      <3>. QED
        BY <2>1, <3>1 DEF StopInv, Phase, Stopped
    <2>2. usr1 \cup usr2 \cup toSignal \subseteq threadList
      BY DEF StopInv, TypeOK, Phase
    <2>. QED
      BY <2>1, <2>2 DEF WorldIsStopped
  <1>. QED
    BY <1>1, HandshakeInvariant, PTL

\* CountsAgree: nr_threads, nr_non_daemons and nr_in_safepoint are the numbers
\* of threads they stand for, and what the collector asserts about them holds.
THEOREM CountsAreExact == Spec => []CountsAgree
  <1>1. StopInv => CountsAgree
    <2>. SUFFICES ASSUME StopInv PROVE CountsAgree
      OBVIOUS
    <2>1. /\ nrThreads = Cardinality(threadList)
          /\ nrNonDaemons = Cardinality(NonDaemons)
          /\ nrInSafepoint = Cardinality(InSafepoint)
      BY DEF StopInv, CountInv
    <2>2. IF nrThreads = 0 THEN Running = {main} ELSE threadList = Running
      BY ThreadAssumption, CountsOK DEF StopInv, ListInv
    <2>3. InSafepoint \in SUBSET threadList
      BY DEF StopInv, Phase, InSafepoint
    <2>4. ASSUME NEW t \in Threads, hpc[t] = "enter"
          PROVE  nrInSafepoint < nrStopped
      <3>1. gcPc \in Stopping /\ t \in threadList /\ t \notin InSafepoint
        BY <2>4 DEF StopInv, TypeOK, GcPC, Phase, Resting, Stopping, Stopped, Resuming,
           InSafepoint
      <3>2. nrStopped = Cardinality(threadList)
        BY <2>1, <3>1 DEF StopInv, GcInv
      <3>3. /\ Cardinality(InSafepoint) <= Cardinality(threadList)
            /\ Cardinality(InSafepoint) # Cardinality(threadList)
        BY ThreadAssumption, <2>3, <3>1, CountsOK, CountLess
      <3>4. Cardinality(InSafepoint) \in Nat /\ Cardinality(threadList) \in Nat
        BY ThreadAssumption, CountsOK, CountedSets
      <3>. QED
        BY <2>1, <3>2, <3>3, <3>4
    <2>5. gcPc = "suspend" /\ toSignal = threadList => nrInSafepoint = 0
      <3>1. gcPc = "suspend" /\ toSignal = threadList => InSafepoint = {}
        BY <2>3 DEF StopInv, TypeOK, Phase, Stopping, InSafepoint
      <3>. QED
        BY <2>1, <3>1, FS_EmptySet
    <2>6. gcPc \in {"restart", "reclaim"} => nrInSafepoint = nrStopped
      <3>1. gcPc \in {"restart", "reclaim"} => InSafepoint = threadList
        BY <2>3 DEF StopInv, TypeOK, Phase, Stopped, InSafepoint
      <3>. QED
        BY <2>1, <3>1 DEF StopInv, GcInv, Stopped
    <2>7. gcPc = "unlock" => nrInSafepoint = 0
      <3>1. gcPc = "unlock" => InSafepoint = {}
        BY DEF StopInv, Phase, Resting, InSafepoint
      <3>. QED
        BY <2>1, <3>1, FS_EmptySet
    <2>. QED
      BY <2>1, <2>2, <2>4, <2>5, <2>6, <2>7 DEF CountsAgree, NonDaemons
  <1>. QED
    BY <1>1, HandshakeInvariant, PTL

\* ExitIsLast: vm_exit does not run after the main program has returned while
\* a thread that is not a daemon is on the list.
THEOREM TheVmExitsLast == Spec => ExitIsLast
  <1>. DEFINE Last == ended' = "exit" => threadList \ Daemons \subseteq {main}
  <1>1. ASSUME StopInv, Next
        PROVE  Last \/ UNCHANGED vars
    <2>1. CASE Over
      BY <2>1 DEF Over
    <2>2. ASSUME NEW t \in Threads, WaitForNonDaemons(t), ended' = "exit"
          PROVE  threadList \ Daemons \subseteq {main}
      <3>1. nrNonDaemons = 0
        BY <2>2 DEF WaitForNonDaemons, At
      <3>2. NonDaemons = {}
        BY <1>1, <3>1, ThreadAssumption, CountsOK, CountedSets DEF StopInv, CountInv
      <3>3. \A u \in threadList : u \in Running
        BY <1>1 DEF StopInv, ListInv
      <3>. QED
        BY <3>2, <3>3 DEF NonDaemons, Running
    <2>3. ASSUME NEW t \in Threads, ThreadStep(t), ~WaitForNonDaemons(t)
          PROVE  ended' # "exit"
      BY <2>3 DEF ThreadStep, InitThreading, Attach, Entry, EntryFails, Exit, Free, WakeGc,
         WaitGc, At
    <2>4. ASSUME NEW t \in Threads, Program(t)
          PROVE  ended' # "exit"
      BY <2>4 DEF Program, GcStart, Return, MainReturns, MainThrows, StartThread, At
    <2>5. ASSUME NEW t \in Threads, HandlerStep(t)
          PROVE  ended' # "exit"
      BY <2>5 DEF HandlerStep, Deliver, EnterSafepoint, EnterWithoutExecEnv, SuspendSelf,
         ExitSafepoint, HandlerWakesGc, HandlerReturns, InHandler
    <2>6. ASSUME GcStep
          PROVE  ended' # "exit"
      BY <2>6 DEF GcStep, GcSuspendSelf, LockThreadCount, Count, SuspendThread,
         SuspendLost, RestartNone, Reclaim, ResumeThread, UnlockThreadCount, Done, GcAt
    <2>. QED
      BY <1>1, <2>1, <2>2, <2>3, <2>4, <2>5, <2>6 DEF Next
  <1>2. StopInv /\ [Next]_vars => [Last]_vars
    BY <1>1
  <1>. QED
    BY <1>2, HandshakeInvariant, PTL DEF Spec, ExitIsLast

-----------------------------------------------------------------------------
(* Park and unpark                                                         *)

\* A thread has a time limit only inside of park, and the limit of the call
\* comes with the time pthread_cond_timedwait was given.
LimitsInv ==
  \A t \in Parkers :
    /\ due[t] # NoLimit => parkPc[t] # "run"
    /\ due[t] # NoLimit <=> timespec[t] # NoLimit

ParkInv == ParkTypeOK /\ LimitsInv /\ SleeperHasNoPermit

-----------------------------------------------------------------------------
\* Quotients and remainders of natural numbers are natural numbers.
LEMMA DivMod ==
  ASSUME NEW a \in Nat, NEW b \in Nat \ {0}
  PROVE  a \div b \in Nat /\ a % b \in Nat
  OBVIOUS

\* The units of time are positive.
LEMMA SecondIsPositive ==
  ASSUME ParkAssumption PROVE NsecPerSec \in Nat \ {0}
  BY DEF ParkAssumption, NsecPerSec

\* Both times are what pthread_cond_timedwait and the clock can be compared
\* with.
LEMMA TimesOK ==
  ASSUME ParkAssumption, ParkTypeOK, NEW isAbsolute \in BOOLEAN, NEW timeout \in Timeouts
  PROVE  /\ Timespec(isAbsolute, timeout) \in [sec : Nat, nsec : Nat]
         /\ Due(isAbsolute, timeout) \in Nat
  <1>1. now \in Nat /\ timeout \in Nat /\ MsecPerSec \in Nat \ {0} /\ NsecPerMsec \in Nat
    BY DEF ParkAssumption, ParkTypeOK
  <1>2. /\ timeout \div MsecPerSec \in Nat /\ timeout % MsecPerSec \in Nat
        /\ now \div NsecPerSec \in Nat /\ now % NsecPerSec \in Nat
        /\ timeout \div NsecPerSec \in Nat /\ timeout % NsecPerSec \in Nat
    BY <1>1, DivMod, SecondIsPositive
  <1>3. Timespec(isAbsolute, timeout) \in [sec : Nat, nsec : Nat]
    BY <1>2 DEF Timespec
  <1>4. Due(isAbsolute, timeout) \in Nat
    BY <1>1 DEF Due
  <1>. QED
    BY <1>3, <1>4

\* At the start nobody sleeps.
LEMMA ParkStart ==
  ASSUME ParkAssumption, ParkInit PROVE ParkInv
  BY DEF ParkAssumption, ParkInit, ParkInv, ParkTypeOK, LimitsInv, SleeperHasNoPermit

\* A park with a time limit sleeps only without a permit, until a time that is a time.
LEMMA ParkTimedKeeps ==
  ASSUME ParkAssumption, ParkInv, NEW t \in Parkers,
         NEW isAbsolute \in BOOLEAN, NEW timeout \in Timeouts,
         ParkTimed(t, isAbsolute, timeout)
  PROVE  ParkInv'
  <1>. DEFINE ts == Timespec(isAbsolute, timeout)
              d == Due(isAbsolute, timeout)
  <1>1. ts \in [sec : Nat, nsec : Nat] /\ d \in Nat
    BY TimesOK DEF ParkInv
  <1>2. /\ timespec' = [timespec EXCEPT ![t] = ts] /\ due' = [due EXCEPT ![t] = d]
        /\ parkPc' = [parkPc EXCEPT ![t] = "asleep"] /\ t \notin unparkCalled
        /\ UNCHANGED <<now, unparkCalled>>
    BY DEF ParkTimed
  <1>3. ts # NoLimit /\ d # NoLimit
    BY <1>1 DEF ParkAssumption
  <1>. HIDE DEF ts, d
  <1>4. ParkTypeOK'
    BY <1>1, <1>2 DEF ParkInv, ParkTypeOK
  <1>5. LimitsInv'
    BY <1>2, <1>3 DEF ParkInv, ParkTypeOK, LimitsInv
  <1>6. SleeperHasNoPermit'
    BY <1>2 DEF ParkInv, ParkTypeOK, SleeperHasNoPermit
  <1>. QED
    BY <1>4, <1>5, <1>6 DEF ParkInv

\* Every step keeps the invariant.
LEMMA ParkStep ==
  ASSUME ParkAssumption, ParkInv, [ParkNext]_parkVars PROVE ParkInv'
  <1>. USE DEF ParkInv, ParkTypeOK, LimitsInv, SleeperHasNoPermit
  <1>1. CASE Tick
    BY <1>1 DEF Tick, ParkAssumption
  <1>2. ASSUME NEW t \in Parkers, ParkConsumes(t) PROVE ParkInv'
    BY <1>2 DEF ParkConsumes
  <1>3. ASSUME NEW t \in Parkers, ParkForever(t) PROVE ParkInv'
    BY <1>3 DEF ParkForever
  <1>4. ASSUME NEW t \in Parkers, TimeOut(t) PROVE ParkInv'
    BY <1>4 DEF TimeOut
  <1>5. ASSUME NEW t \in Parkers, Resume(t) PROVE ParkInv'
    BY <1>5 DEF Resume
  <1>6. ASSUME NEW t \in Parkers, NEW u \in Parkers, Unpark(t, u) PROVE ParkInv'
    BY <1>6 DEF Unpark
  <1>7. CASE UNCHANGED parkVars
    BY <1>7 DEF parkVars
  <1>. QED
    BY <1>1, <1>2, <1>3, <1>4, <1>5, <1>6, <1>7, ParkTimedKeeps DEF ParkNext

-----------------------------------------------------------------------------
\* The types, the life of time limits and the permits of sleepers together are
\* inductive.
THEOREM ParkInvariant == ParkSpec => []ParkInv
  <1>1. ParkInit => ParkInv
    BY ParkStart, ParkAssumption
  <1>2. ParkInv /\ [ParkNext]_parkVars => ParkInv'
    BY ParkStep, ParkAssumption
  <1>. QED
    BY <1>1, <1>2, PTL DEF ParkSpec

\* Nobody sleeps in park while unpark_called is set for it, whether the unpark
\* came before, during or after its call of park.
THEOREM NoUnparkIsLost == ParkSpec => []SleeperHasNoPermit
  <1>1. ParkInv => SleeperHasNoPermit
    BY DEF ParkInv
  <1>. QED
    BY <1>1, ParkInvariant, PTL
=============================================================================
