--------------------------- MODULE MonitorProofs ---------------------------
(***************************************************************************)
(* TLAPS proofs about the monitors of vm/monitor.c, for any number of      *)
(* threads, objects and records.  First, the variables keep their types;   *)
(* the locals that a thread dereferences must be set for that, which       *)
(* LocalsSet and WaitFrames say.  Then, as long as a thread ends only when *)
(* no other thread uses a record of its pool (QuiescentExit), monitors     *)
(* exclude each other, a sleeping thread is woken, the records implement   *)
(* Java monitors, and no notify is missed.                                 *)
(***************************************************************************)
EXTENDS MonitorProperties, FiniteSetTheorems, TLAPS

\* The five ways a function of vm/monitor.c returns to its caller.
LEMMA ReturnCases ==
  ASSUME NEW t \in Threads, Return(t)
  PROVE  \/ /\ caller[t] \in WaitCalls /\ op[t] = "unlock"
            /\ Enter(t, "condWait", caller[t], "user", obj[t])
         \/ /\ caller[t] \in WaitCalls /\ op[t] = "lock"
            /\ Enter(t, "relocked", caller[t], "user", obj[t])
         \/ /\ caller[t] = "interrupt"
            /\ Enter(t, "ownerCheck", "notifyAll", "interrupt", obj[t])
         \/ /\ caller[t] = "interrupt"
            /\ Enter(t, "ownerCheck", "unlock", "interrupt", obj[t])
         \/ /\ ~(caller[t] \in WaitCalls /\ op[t] \in {"unlock", "lock"})
            /\ Enter(t, "idle", "none", "user", NULL)
  BY DEF Return, WaitCalls

\* What Enter and GotoWith do to the types of the control variables.
ControlOK ==
  /\ pc \in [Threads -> PC]
  /\ op \in [Threads -> {"none", "lock"} \cup CheckingOps]
  /\ caller \in [Threads -> {"user", "wait", "timedWait", "interrupt"}]
  /\ obj \in [Threads -> OrNull(Objects)]
  /\ rec \in [Threads -> OrNull(Records)]

\* Entering a function keeps the types of the control variables, and the
\* locals set.
LEMMA EnterType ==
  ASSUME ControlOK, LocalsSet, NEW t \in Threads,
         NEW label \in PC \ RecordPC, 
         NEW f \in {"none", "lock"} \cup CheckingOps,
         NEW by \in {"user", "wait", "timedWait", "interrupt"},
         NEW o \in OrNull(Objects),
         Enter(t, label, f, by, o),
         label \notin {"idle", "dead"} => o \in Objects,
         label \in WaitPC \/ by \in WaitCalls => waiter'[t].record \in Records,
         \A u \in Threads \ {t} : waiter'[u] = waiter[u]
  PROVE  ControlOK' /\ LocalsSet'
  BY DEF ControlOK, LocalsSet, Enter, OrNull

\* So does a step inside a function that sets the record it needs,
LEMMA GotoType ==
  ASSUME ControlOK, LocalsSet, NEW t \in Threads,
         NEW label \in PC,
         NEW r \in OrNull(Records),
         GotoWith(t, label, r),
         pc[t] \notin {"idle", "dead"} \/ label \in {"idle", "dead"},
         label \in RecordPC => r \in Records,
         label \in WaitPC => pc[t] \in WaitPC,
         waiter' = waiter
  PROVE  ControlOK' /\ LocalsSet'
  BY DEF ControlOK, LocalsSet, GotoWith, OrNull

\* and the return to the caller, which finds the locals of a wait in place.
LEMMA ReturnType ==
  ASSUME ControlOK, LocalsSet, NEW t \in Threads, Return(t),
         pc[t] \notin {"idle", "dead"},
         waiter' = waiter
  PROVE  ControlOK' /\ LocalsSet'
  <1>1. obj[t] \in Objects
    BY DEF LocalsSet
  <1>2. caller[t] \in WaitCalls => waiter'[t].record \in Records
    BY DEF LocalsSet
  <1>3. WaitCalls \subseteq CheckingOps /\ WaitCalls \subseteq {"user", "wait", "timedWait", "interrupt"}
    BY DEF WaitCalls, CheckingOps
  <1>. QED
    BY <1>1, <1>2, <1>3, ReturnCases, EnterType
    DEF PC, RecordPC, CountedPC, DeflatedPC, WaitPC, CheckingOps, OrNull, WaitCalls

DataOK ==
  /\ monitorRecord \in [Objects -> OrNull(Records)]
  /\ owner \in [Records -> OrNull(Threads)]
  /\ lockCount \in [Records -> Nat]
  /\ nrBlocked \in [Records -> Int]
  /\ nrWaiting \in [Records -> Int]
  /\ candidate \in [Records -> {0, 1}]
  /\ sem \in [Records -> 0..SEM_VALUE_MAX]
  /\ notifyMutex \in [Records -> OrNull(Threads)]
  /\ condQueue \in [Records -> SUBSET Threads]
  /\ heap \in SUBSET Records
  /\ freeRecs \in [Threads -> SUBSET Records]
  /\ interrupted \in [Threads -> BOOLEAN]
  /\ waitingMon \in [Threads -> OrNull(Objects)]
  /\ toPost \in [Threads -> Int]
  /\ waiter \in [Threads -> Waiter]
  /\ held \in [Threads -> [Objects -> Int]]

\* The type invariant, split into control and data.
LEMMA TypeParts == TypeOK <=> ControlOK /\ DataOK
  BY DEF TypeOK, ControlOK, DataOK

\* IncBlocked keeps the types of the variables and the locals set.
LEMMA IncBlockedType ==
  ASSUME MonitorAssumption, ControlOK, DataOK, LocalsSet, NEW t \in Threads,
         IncBlocked(t)
  PROVE  ControlOK' /\ DataOK' /\ LocalsSet'
  <1>1. obj[t] \in Objects
    BY DEF IncBlocked, LocalsSet, At
  <1>2. rec[t] \in Records
    BY DEF IncBlocked, LocalsSet, At, RecordPC, CountedPC, DeflatedPC
  <1>3. DataOK'
    BY <1>1, <1>2 DEF IncBlocked, DataOK, mon, ownership, counters, wakeups,
       notifying, pools, rest, intr
  <1>4. ControlOK' /\ LocalsSet'
    BY <1>1, <1>2, ReturnType, GotoType DEF IncBlocked, Goto, At, rest, PC,
       RecordPC, CountedPC, DeflatedPC, WaitPC, CheckingOps, OrNull,
       WaitCalls, ControlOK
  <1>. QED
    BY <1>3, <1>4

\* Loop keeps the types of the variables and the locals set.
LEMMA LoopType ==
  ASSUME MonitorAssumption, ControlOK, DataOK, LocalsSet, NEW t \in Threads,
         Loop(t)
  PROVE  ControlOK' /\ DataOK' /\ LocalsSet'
  <1>1. obj[t] \in Objects
    BY DEF Loop, LocalsSet, At
  <1>2. rec[t] \in Records
    BY DEF Loop, LocalsSet, At, RecordPC, CountedPC, DeflatedPC
  <1>3. DataOK'
    BY <1>1, <1>2 DEF Loop, DataOK, mon, ownership, counters, wakeups,
       notifying, pools, rest, intr
  <1>4. ControlOK' /\ LocalsSet'
    BY <1>1, <1>2, ReturnType, GotoType DEF Loop, Goto, At, rest, PC,
       RecordPC, CountedPC, DeflatedPC, WaitPC, CheckingOps, OrNull,
       WaitCalls, ControlOK
  <1>. QED
    BY <1>3, <1>4

\* SetCandidate keeps the types of the variables and the locals set.
LEMMA SetCandidateType ==
  ASSUME MonitorAssumption, ControlOK, DataOK, LocalsSet, NEW t \in Threads,
         SetCandidate(t)
  PROVE  ControlOK' /\ DataOK' /\ LocalsSet'
  <1>1. obj[t] \in Objects
    BY DEF SetCandidate, LocalsSet, At
  <1>2. rec[t] \in Records
    BY DEF SetCandidate, LocalsSet, At, RecordPC, CountedPC, DeflatedPC
  <1>3. DataOK'
    BY <1>1, <1>2 DEF SetCandidate, DataOK, mon, ownership, counters, wakeups,
       notifying, pools, rest, intr
  <1>4. ControlOK' /\ LocalsSet'
    BY <1>1, <1>2, ReturnType, GotoType DEF SetCandidate, Goto, At, rest, PC,
       RecordPC, CountedPC, DeflatedPC, WaitPC, CheckingOps, OrNull,
       WaitCalls, ControlOK
  <1>. QED
    BY <1>3, <1>4

\* SemWait keeps the types of the variables and the locals set.
LEMMA SemWaitType ==
  ASSUME MonitorAssumption, ControlOK, DataOK, LocalsSet, NEW t \in Threads,
         SemWait(t)
  PROVE  ControlOK' /\ DataOK' /\ LocalsSet'
  <1>1. obj[t] \in Objects
    BY DEF SemWait, LocalsSet, At
  <1>2. rec[t] \in Records
    BY DEF SemWait, LocalsSet, At, RecordPC, CountedPC, DeflatedPC
  <1>3. DataOK'
    BY <1>1, <1>2 DEF SemWait, DataOK, mon, ownership, counters, wakeups,
       notifying, pools, rest, intr, MonitorAssumption
  <1>4. ControlOK' /\ LocalsSet'
    BY <1>1, <1>2, ReturnType, GotoType DEF SemWait, Goto, At, rest, PC,
       RecordPC, CountedPC, DeflatedPC, WaitPC, CheckingOps, OrNull,
       WaitCalls, ControlOK
  <1>. QED
    BY <1>3, <1>4

\* DecBlocked keeps the types of the variables and the locals set.
LEMMA DecBlockedType ==
  ASSUME MonitorAssumption, ControlOK, DataOK, LocalsSet, NEW t \in Threads,
         DecBlocked(t)
  PROVE  ControlOK' /\ DataOK' /\ LocalsSet'
  <1>1. obj[t] \in Objects
    BY DEF DecBlocked, LocalsSet, At
  <1>2. rec[t] \in Records
    BY DEF DecBlocked, LocalsSet, At, RecordPC, CountedPC, DeflatedPC
  <1>3. DataOK'
    BY <1>1, <1>2 DEF DecBlocked, DataOK, mon, ownership, counters, wakeups,
       notifying, pools, rest, intr
  <1>4. ControlOK' /\ LocalsSet'
    BY <1>1, <1>2, ReturnType, GotoType DEF DecBlocked, Goto, At, rest, PC,
       RecordPC, CountedPC, DeflatedPC, WaitPC, CheckingOps, OrNull,
       WaitCalls, ControlOK
  <1>. QED
    BY <1>3, <1>4

\* TestBlocked keeps the types of the variables and the locals set.
LEMMA TestBlockedType ==
  ASSUME MonitorAssumption, ControlOK, DataOK, LocalsSet, NEW t \in Threads,
         TestBlocked(t)
  PROVE  ControlOK' /\ DataOK' /\ LocalsSet'
  <1>1. obj[t] \in Objects
    BY DEF TestBlocked, LocalsSet, At
  <1>2. rec[t] \in Records
    BY DEF TestBlocked, LocalsSet, At, RecordPC, CountedPC, DeflatedPC
  <1>3. DataOK'
    BY <1>1, <1>2 DEF TestBlocked, DataOK, mon, ownership, counters, wakeups,
       notifying, pools, rest, intr
  <1>4. ControlOK' /\ LocalsSet'
    BY <1>1, <1>2, ReturnType, GotoType DEF TestBlocked, Goto, At, rest, PC,
       RecordPC, CountedPC, DeflatedPC, WaitPC, CheckingOps, OrNull,
       WaitCalls, ControlOK
  <1>. QED
    BY <1>3, <1>4

\* Release keeps the types of the variables and the locals set.
LEMMA ReleaseType ==
  ASSUME MonitorAssumption, ControlOK, DataOK, LocalsSet, NEW t \in Threads,
         Release(t)
  PROVE  ControlOK' /\ DataOK' /\ LocalsSet'
  <1>1. obj[t] \in Objects
    BY DEF Release, LocalsSet, At
  <1>2. rec[t] \in Records
    BY DEF Release, LocalsSet, At, RecordPC, CountedPC, DeflatedPC
  <1>3. DataOK'
    BY <1>1, <1>2 DEF Release, DataOK, mon, ownership, counters, wakeups,
       notifying, pools, rest, intr, GivenUp, OrNull
  <1>4. ControlOK' /\ LocalsSet'
    BY <1>1, <1>2, ReturnType, GotoType DEF Release, Goto, At, rest, PC,
       RecordPC, CountedPC, DeflatedPC, WaitPC, CheckingOps, OrNull,
       WaitCalls, ControlOK
  <1>. QED
    BY <1>3, <1>4

\* WakeOne keeps the types of the variables and the locals set.
LEMMA WakeOneType ==
  ASSUME MonitorAssumption, ControlOK, DataOK, LocalsSet, NEW t \in Threads,
         WakeOne(t)
  PROVE  ControlOK' /\ DataOK' /\ LocalsSet'
  <1>1. obj[t] \in Objects
    BY DEF WakeOne, LocalsSet, At
  <1>2. rec[t] \in Records
    BY DEF WakeOne, LocalsSet, At, RecordPC, CountedPC, DeflatedPC
  <1>3. DataOK'
    BY <1>1, <1>2 DEF WakeOne, DataOK, mon, ownership, counters, wakeups,
       notifying, pools, rest, intr
  <1>4. ControlOK' /\ LocalsSet'
    BY <1>1, <1>2, ReturnType, GotoType DEF WakeOne, Goto, At, rest, PC,
       RecordPC, CountedPC, DeflatedPC, WaitPC, CheckingOps, OrNull,
       WaitCalls, ControlOK
  <1>. QED
    BY <1>3, <1>4

\* SemPost keeps the types of the variables and the locals set.
LEMMA SemPostType ==
  ASSUME MonitorAssumption, ControlOK, DataOK, LocalsSet, NEW t \in Threads,
         SemPost(t)
  PROVE  ControlOK' /\ DataOK' /\ LocalsSet'
  <1>1. obj[t] \in Objects
    BY DEF SemPost, LocalsSet, At
  <1>2. rec[t] \in Records
    BY DEF SemPost, LocalsSet, At, RecordPC, CountedPC, DeflatedPC
  <1>3. DataOK'
    BY <1>1, <1>2 DEF SemPost, DataOK, mon, ownership, counters, wakeups,
       notifying, pools, rest, intr, Post, MonitorAssumption
  <1>4. ControlOK' /\ LocalsSet'
    BY <1>1, <1>2, ReturnType, GotoType DEF SemPost, Goto, At, rest, PC,
       RecordPC, CountedPC, DeflatedPC, WaitPC, CheckingOps, OrNull,
       WaitCalls, ControlOK
  <1>. QED
    BY <1>3, <1>4

\* Deflate keeps the types of the variables and the locals set.
LEMMA DeflateType ==
  ASSUME MonitorAssumption, ControlOK, DataOK, LocalsSet, NEW t \in Threads,
         Deflate(t)
  PROVE  ControlOK' /\ DataOK' /\ LocalsSet'
  <1>1. obj[t] \in Objects
    BY DEF Deflate, LocalsSet, At
  <1>2. rec[t] \in Records
    BY DEF Deflate, LocalsSet, At, RecordPC, CountedPC, DeflatedPC
  <1>3. DataOK'
    BY <1>1, <1>2 DEF Deflate, DataOK, mon, ownership, counters, wakeups,
       notifying, pools, rest, intr, GivenUp, OrNull
  <1>4. ControlOK' /\ LocalsSet'
    BY <1>1, <1>2, ReturnType, GotoType DEF Deflate, Goto, At, rest, PC,
       RecordPC, CountedPC, DeflatedPC, WaitPC, CheckingOps, OrNull,
       WaitCalls, ControlOK
  <1>. QED
    BY <1>3, <1>4

\* Recheck keeps the types of the variables and the locals set.
LEMMA RecheckType ==
  ASSUME MonitorAssumption, ControlOK, DataOK, LocalsSet, NEW t \in Threads,
         Recheck(t)
  PROVE  ControlOK' /\ DataOK' /\ LocalsSet'
  <1>1. obj[t] \in Objects
    BY DEF Recheck, LocalsSet, At
  <1>2. rec[t] \in Records
    BY DEF Recheck, LocalsSet, At, RecordPC, CountedPC, DeflatedPC
  <1>3. DataOK'
    BY <1>1, <1>2 DEF Recheck, DataOK, mon, ownership, counters, wakeups,
       notifying, pools, rest, intr, PutRecord
  <1>4. ControlOK' /\ LocalsSet'
    BY <1>1, <1>2, ReturnType, GotoType DEF Recheck, Goto, At, rest, PC,
       RecordPC, CountedPC, DeflatedPC, WaitPC, CheckingOps, OrNull,
       WaitCalls, ControlOK
  <1>. QED
    BY <1>3, <1>4

\* Flush keeps the types of the variables and the locals set.
LEMMA FlushType ==
  ASSUME MonitorAssumption, ControlOK, DataOK, LocalsSet, NEW t \in Threads,
         Flush(t)
  PROVE  ControlOK' /\ DataOK' /\ LocalsSet'
  <1>1. obj[t] \in Objects
    BY DEF Flush, LocalsSet, At
  <1>2. rec[t] \in Records
    BY DEF Flush, LocalsSet, At, RecordPC, CountedPC, DeflatedPC
  <1>3. DataOK'
    BY <1>1, <1>2 DEF Flush, DataOK, mon, ownership, counters, wakeups,
       notifying, pools, rest, intr, Post, MonitorAssumption
  <1>4. ControlOK' /\ LocalsSet'
    BY <1>1, <1>2, ReturnType, GotoType DEF Flush, Goto, At, rest, PC,
       RecordPC, CountedPC, DeflatedPC, WaitPC, CheckingOps, OrNull,
       WaitCalls, ControlOK
  <1>. QED
    BY <1>3, <1>4

\* Spin keeps the types of the variables and the locals set.
LEMMA SpinType ==
  ASSUME MonitorAssumption, ControlOK, DataOK, LocalsSet, NEW t \in Threads,
         Spin(t)
  PROVE  ControlOK' /\ DataOK' /\ LocalsSet'
  <1>1. obj[t] \in Objects
    BY DEF Spin, LocalsSet, At
  <1>2. rec[t] \in Records
    BY DEF Spin, LocalsSet, At, RecordPC, CountedPC, DeflatedPC
  <1>3. DataOK'
    BY <1>1, <1>2 DEF Spin, DataOK, mon, ownership, counters, wakeups,
       notifying, pools, rest, intr, PutRecord
  <1>4. ControlOK' /\ LocalsSet'
    BY <1>1, <1>2, ReturnType, GotoType DEF Spin, Goto, At, rest, PC,
       RecordPC, CountedPC, DeflatedPC, WaitPC, CheckingOps, OrNull,
       WaitCalls, ControlOK
  <1>. QED
    BY <1>3, <1>4

\* CondWait keeps the types of the variables and the locals set.
LEMMA CondWaitType ==
  ASSUME MonitorAssumption, ControlOK, DataOK, LocalsSet, NEW t \in Threads,
         CondWait(t)
  PROVE  ControlOK' /\ DataOK' /\ LocalsSet'
  <1>1. obj[t] \in Objects
    BY DEF CondWait, LocalsSet, At
  <1>2. waiter[t].record \in Records
    BY DEF CondWait, LocalsSet, At, WaitPC
  <1>3. DataOK'
    BY <1>1, <1>2 DEF CondWait, DataOK, mon, ownership, counters, wakeups,
       notifying, pools, rest, intr, OrNull
  <1>4. ControlOK' /\ LocalsSet'
    BY <1>1, <1>2, ReturnType, GotoType DEF CondWait, Goto, At, rest, PC,
       RecordPC, CountedPC, DeflatedPC, WaitPC, CheckingOps, OrNull,
       WaitCalls, ControlOK
  <1>. QED
    BY <1>3, <1>4

\* Waking up in pthread_cond_wait keeps the types of the variables and the locals set.
LEMMA WakeupType ==
  ASSUME MonitorAssumption, ControlOK, DataOK, LocalsSet, NEW t \in Threads,
         Wakeup(t)
  PROVE  ControlOK' /\ DataOK' /\ LocalsSet'
  <1>1. obj[t] \in Objects
    BY DEF Wakeup, LocalsSet, At
  <1>2. waiter[t].record \in Records
    BY DEF Wakeup, LocalsSet, At, WaitPC
  <1>3. DataOK'
    BY <1>1, <1>2 DEF Wakeup, DataOK, mon, ownership, counters, wakeups,
       notifying, pools, rest, intr
  <1>4. ControlOK' /\ LocalsSet'
    BY <1>1, <1>2, ReturnType, GotoType DEF Wakeup, Goto, At, rest, PC,
       RecordPC, CountedPC, DeflatedPC, WaitPC, CheckingOps, OrNull,
       WaitCalls, ControlOK
  <1>. QED
    BY <1>3, <1>4

\* Notify keeps the types of the variables and the locals set.
LEMMA NotifyType ==
  ASSUME MonitorAssumption, ControlOK, DataOK, LocalsSet, NEW t \in Threads,
         Notify(t)
  PROVE  ControlOK' /\ DataOK' /\ LocalsSet'
  <1>1. obj[t] \in Objects
    BY DEF Notify, LocalsSet, At
  <1>2. rec[t] \in Records
    BY DEF Notify, LocalsSet, At, RecordPC, CountedPC, DeflatedPC
  <1>3. DataOK'
    BY <1>1, <1>2 DEF Notify, DataOK, mon, ownership, counters, wakeups,
       notifying, pools, rest, intr
  <1>4. ControlOK' /\ LocalsSet'
    BY <1>1, <1>2, ReturnType, GotoType DEF Notify, Goto, At, rest, PC,
       RecordPC, CountedPC, DeflatedPC, WaitPC, CheckingOps, OrNull,
       WaitCalls, ControlOK
  <1>. QED
    BY <1>3, <1>4

\* The history variable counts a granted lock.
LEMMA GrantedType ==
  ASSUME DataOK, NEW t \in Threads, obj[t] \in Objects, Granted(t)
  PROVE  held' \in [Threads -> [Objects -> Int]]
  BY DEF DataOK, Granted

\* CasOwner keeps the types of the variables and the locals set.
LEMMA CasOwnerType ==
  ASSUME MonitorAssumption, ControlOK, DataOK, LocalsSet, NEW t \in Threads,
         CasOwner(t)
  PROVE  ControlOK' /\ DataOK' /\ LocalsSet'
  <1>1. obj[t] \in Objects /\ rec[t] \in Records
    BY DEF CasOwner, LocalsSet, At, RecordPC, CountedPC
  <1>2. held' \in [Threads -> [Objects -> Int]]
    BY <1>1, GrantedType DEF CasOwner, DataOK
  <1>a. owner' \in [Records -> OrNull(Threads)] /\ lockCount' \in [Records -> Nat]
    <2>1. CASE owner[rec[t]] = NULL
      <3>1. owner' = [owner EXCEPT ![rec[t]] = t] /\ lockCount' = [lockCount EXCEPT ![rec[t]] = 1]
        BY <2>1 DEF CasOwner
      <3>. QED
        BY <3>1 DEF DataOK, OrNull
    <2>2. CASE owner[rec[t]] # NULL
      BY <2>2 DEF CasOwner, DataOK, ownership
    <2>. QED
      BY <2>1, <2>2
  <1>3. DataOK'
    BY <1>2, <1>a DEF CasOwner, DataOK, counters, wakeups, notifying, pools,
       rest, intr
  <1>4. ControlOK' /\ LocalsSet'
    BY <1>1, GotoType DEF CasOwner, Goto, At, rest, PC, RecordPC, CountedPC,
       DeflatedPC, WaitPC, OrNull, ControlOK
  <1>. QED
    BY <1>3, <1>4

\* The end of a timed wait keeps the types of the variables and the locals set.
LEMMA TimeoutType ==
  ASSUME MonitorAssumption, ControlOK, DataOK, LocalsSet, NEW t \in Threads,
         Timeout(t)
  PROVE  ControlOK' /\ DataOK' /\ LocalsSet'
  <1>1. waiter[t].record \in Records
    BY DEF Timeout, LocalsSet, At, WaitPC
  <1>. QED
    BY <1>1 DEF Timeout, DataOK, ControlOK, LocalsSet, control, ownership,
       counters, wakeups, pools, rest, intr

\* OwnerCheck keeps the types of the variables and the locals set.
LEMMA OwnerCheckType ==
  ASSUME MonitorAssumption, ControlOK, DataOK, LocalsSet, NEW t \in Threads,
         OwnerCheck(t)
  PROVE  ControlOK' /\ DataOK' /\ LocalsSet'
  <1>. DEFINE r == monitorRecord[obj[t]]
  <1>1. obj[t] \in Objects /\ r \in OrNull(Records)
    BY DEF OwnerCheck, LocalsSet, At, DataOK
  <1>. DEFINE heldType == held' \in [Threads -> [Objects -> Int]]
  <1>a. heldType
    <2>1. CASE held' = held
      BY <2>1 DEF DataOK
    <2>2. CASE held' = [held EXCEPT ![t][obj[t]] = @ - 1]
      BY <1>1, <2>2 DEF DataOK
    <2>. QED
      BY <2>1, <2>2 DEF OwnerCheck
  <1>2. DataOK'
    BY <1>1, <1>a DEF OwnerCheck, DataOK, counters, wakeups, notifying, pools,
       rest, intr, OrNull
  <1>3. CASE Return(t)
    BY <1>2, <1>3, ReturnType DEF OwnerCheck, At, rest
  <1>4. CASE r # NULL /\ GotoWith(t, Checked(op[t]), r)
    BY <1>1, <1>2, <1>4, GotoType DEF OwnerCheck, Checked, At, rest, PC,
       RecordPC, WaitPC, OrNull
  <1>. QED
    BY <1>3, <1>4 DEF OwnerCheck

\* CasRecord keeps the types of the variables and the locals set.
LEMMA CasRecordType ==
  ASSUME MonitorAssumption, ControlOK, DataOK, LocalsSet, NEW t \in Threads,
         CasRecord(t)
  PROVE  ControlOK' /\ DataOK' /\ LocalsSet'
  <1>1. obj[t] \in Objects /\ rec[t] \in Records
    BY DEF CasRecord, LocalsSet, At, RecordPC
  <1>a. held' \in [Threads -> [Objects -> Int]]
    BY <1>1, GrantedType DEF CasRecord, DataOK
  <1>b. monitorRecord' \in [Objects -> OrNull(Records)]
    BY <1>1 DEF CasRecord, DataOK, OrNull
  <1>c. freeRecs' \in [Threads -> SUBSET Records] /\ heap' \in SUBSET Records
    <2>1. CASE monitorRecord[obj[t]] = NULL
      BY <2>1 DEF CasRecord, DataOK, pools
    <2>2. CASE monitorRecord[obj[t]] # NULL
      <3>1. PutRecord(t, rec[t])
        BY <2>2 DEF CasRecord
      <3>2. freeRecs \in [Threads -> SUBSET Records] /\ heap \in SUBSET Records
        BY DEF DataOK
      <3>. QED
        BY <1>1, <3>1, <3>2 DEF PutRecord
    <2>. QED
      BY <2>1, <2>2
  <1>2. DataOK'
    BY <1>a, <1>b, <1>c DEF CasRecord, DataOK, mon, ownership, counters,
       wakeups, notifying, rest, intr
  <1>3. ControlOK' /\ LocalsSet'
    BY <1>1, ReturnType, GotoType DEF CasRecord, At, rest, PC, RecordPC,
       CountedPC, DeflatedPC, WaitPC, OrNull, ControlOK
  <1>. QED
    BY <1>2, <1>3

\* ReadRecord keeps the types of the variables and the locals set.
LEMMA ReadRecordType ==
  ASSUME MonitorAssumption, ControlOK, DataOK, LocalsSet, NEW t \in Threads,
         ReadRecord(t)
  PROVE  ControlOK' /\ DataOK' /\ LocalsSet'
  <1>. DEFINE r == monitorRecord[obj[t]]
  <1>1. obj[t] \in Objects /\ pc[t] = "readRecord" /\ waiter' = waiter
    BY DEF ReadRecord, LocalsSet, At, rest
  <1>2. r \in OrNull(Records)
    BY <1>1 DEF DataOK
  <1>a. held' \in [Threads -> [Objects -> Int]]
    BY <1>1, GrantedType DEF ReadRecord, DataOK
  <1>3. DataOK'
    <2>. USE
       DEF DataOK, mon, ownership, counters, wakeups, notifying, pools, rest,
       intr
    <2>1. monitorRecord' = monitorRecord /\ UNCHANGED rest
      BY DEF ReadRecord
    <2>2. CASE \E n \in Records : TakeRecord(t, n)
      <3>1. PICK n \in Records : TakeRecord(t, n)
        BY <2>2
      <3>2. CASE UNCHANGED <<mon, heap>> /\ freeRecs' = [freeRecs EXCEPT ![t] = @ \ {n}]
        BY <1>a, <2>1, <3>2
      <3>3. CASE ~UNCHANGED <<mon, heap>>
        <4>1. /\ heap' = heap \ {n} /\ UNCHANGED freeRecs
              /\ owner' = [owner EXCEPT ![n] = t]
              /\ lockCount' = [lockCount EXCEPT ![n] = 1]
              /\ nrBlocked' = [nrBlocked EXCEPT ![n] = 0]
              /\ nrWaiting' = [nrWaiting EXCEPT ![n] = 0]
              /\ candidate' = [candidate EXCEPT ![n] = 0]
              /\ sem' = [sem EXCEPT ![n] = 0]
              /\ notifyMutex' = [notifyMutex EXCEPT ![n] = NULL]
              /\ condQueue' = [condQueue EXCEPT ![n] = {}]
          BY <3>1, <3>3 DEF TakeRecord
        <4>2. owner' \in [Records -> OrNull(Threads)]
          BY <4>1 DEF OrNull
        <4>3. sem' \in [Records -> 0..SEM_VALUE_MAX]
          BY <4>1 DEF MonitorAssumption
        <4>. QED
          BY <1>a, <2>1, <4>1, <4>2, <4>3 DEF OrNull
      <3>. QED
        BY <3>1, <3>2, <3>3 DEF TakeRecord
    <2>3. CASE r # NULL /\ lockCount' = [lockCount EXCEPT ![r] = @ + 1]
               /\ UNCHANGED <<owner, counters, wakeups, notifying, pools>>
      BY <1>2, <1>a, <2>1, <2>3 DEF OrNull
    <2>4. CASE UNCHANGED <<mon, pools>>
      BY <1>a, <2>1, <2>4
    <2>. QED
      BY <2>2, <2>3, <2>4 DEF ReadRecord
  <1>4. CASE Return(t)
    BY <1>1, <1>3, <1>4, ReturnType
  <1>5. CASE r # NULL /\ GotoWith(t, "incBlocked", r)
    BY <1>1, <1>2, <1>3, <1>5, GotoType DEF PC, RecordPC, WaitPC, OrNull
  <1>6. CASE \E n \in Records : GotoWith(t, "casRecord", n)
    BY <1>1, <1>3, <1>6, GotoType DEF PC, RecordPC, WaitPC, OrNull
  <1>7. CASE Enter(t, "idle", "none", "user", NULL)
    BY <1>1, <1>3, <1>7, EnterType DEF PC, RecordPC, CountedPC, DeflatedPC,
       WaitPC, WaitCalls, OrNull
  <1>. QED
    BY <1>4, <1>5, <1>6, <1>7 DEF ReadRecord, ReturnError

\* WaitLock keeps the types of the variables and the locals set.
LEMMA WaitLockType ==
  ASSUME MonitorAssumption, ControlOK, DataOK, LocalsSet, WaitFrames,
         NEW t \in Threads, WaitLock(t)
  PROVE  ControlOK' /\ DataOK' /\ LocalsSet'
  <1>1. obj[t] \in Objects /\ rec[t] \in Records /\ op[t] \in WaitCalls
    BY DEF WaitLock, LocalsSet, WaitFrames, At, RecordPC
  <1>2. waiter' \in [Threads -> Waiter] /\ waiter'[t].record = rec[t]
        /\ \A u \in Threads \ {t} : waiter'[u] = waiter[u]
    BY <1>1 DEF WaitLock, DataOK, Waiter, OrNull
  <1>a. held' \in [Threads -> [Objects -> Int]]
    BY <1>1 DEF WaitLock, DataOK
  <1>b. /\ notifyMutex' \in [Records -> OrNull(Threads)]
        /\ lockCount' \in [Records -> Nat]
        /\ nrWaiting' \in [Records -> Int]
    BY <1>1 DEF WaitLock, DataOK, OrNull
  <1>c. waitingMon' \in [Threads -> OrNull(Objects)]
    BY <1>1 DEF WaitLock, DataOK, OrNull
  <1>d. UNCHANGED <<monitorRecord, owner, nrBlocked, candidate, sem, condQueue,
                    heap, freeRecs, interrupted, toPost>>
    BY DEF WaitLock, wakeups, pools
  <1>3. DataOK'
    BY <1>2, <1>a, <1>b, <1>c, <1>d DEF DataOK
  <1>4. Enter(t, "ownerCheck", "unlock", op[t], obj[t])
    BY DEF WaitLock
  <1>e. "ownerCheck" \in PC \ RecordPC /\ "ownerCheck" \notin {"idle", "dead"}
    BY DEF PC, RecordPC, CountedPC, DeflatedPC
  <1>f. /\ "unlock" \in {"none", "lock"} \cup CheckingOps
        /\ op[t] \in {"user", "wait", "timedWait", "interrupt"}
        /\ obj[t] \in OrNull(Objects)
    BY <1>1 DEF CheckingOps, WaitCalls, OrNull
  <1>5. ControlOK' /\ LocalsSet'
    BY <1>1, <1>2, <1>4, <1>e, <1>f, EnterType
  <1>. QED
    BY <1>3, <1>5

\* ClearMon keeps the types of the variables and the locals set.
LEMMA ClearMonType ==
  ASSUME MonitorAssumption, ControlOK, DataOK, LocalsSet, WaitFrames,
         NEW t \in Threads, ClearMon(t)
  PROVE  ControlOK' /\ DataOK' /\ LocalsSet'
  <1>1. obj[t] \in Objects /\ waiter[t].record \in Records /\ op[t] \in WaitCalls
    BY DEF ClearMon, LocalsSet, WaitFrames, At, WaitPC
  <1>2. DataOK'
    BY DEF ClearMon, DataOK, mon, ownership, counters, wakeups, notifying,
       pools, OrNull
  <1>3. ControlOK' /\ LocalsSet'
    BY <1>1, EnterType DEF ClearMon, PC, RecordPC, CountedPC, DeflatedPC,
       WaitPC, WaitCalls, CheckingOps, OrNull
  <1>. QED
    BY <1>2, <1>3

\* Relocked keeps the types of the variables and the locals set.
LEMMA RelockedType ==
  ASSUME MonitorAssumption, ControlOK, DataOK, LocalsSet, WaitFrames,
         NEW t \in Threads, Relocked(t)
  PROVE  ControlOK' /\ DataOK' /\ LocalsSet'
  <1>1. obj[t] \in Objects /\ waiter[t].record \in Records
        /\ waiter[t].lockCount \in Nat /\ caller[t] = "user"
    BY DEF Relocked, LocalsSet, WaitFrames, DataOK, Waiter, At, WaitPC
  <1>2. waiter' \in [Threads -> Waiter] /\ \A u \in Threads \ {t} : waiter'[u] = waiter[u]
    BY DEF Relocked, DataOK, Waiter, NoWaiter, OrNull
  <1>3. DataOK'
    BY <1>1, <1>2 DEF Relocked, DataOK, wakeups, notifying, pools
  <1>4. Enter(t, "idle", "none", "user", NULL)
    BY <1>1, ReturnCases DEF Relocked, WaitCalls
  <1>5. ControlOK' /\ LocalsSet'
    BY <1>2, <1>4, EnterType DEF PC, RecordPC, CountedPC, DeflatedPC, WaitPC,
       WaitCalls, OrNull
  <1>. QED
    BY <1>3, <1>5

\* A new call keeps the types of the variables and the locals set.
LEMMA RequestType ==
  ASSUME MonitorAssumption, ControlOK, DataOK, LocalsSet, NEW t \in Threads,
         Request(t)
  PROVE  ControlOK' /\ DataOK' /\ LocalsSet'
  <1>. USE DEF PC, RecordPC, CountedPC, DeflatedPC, WaitPC, WaitCalls, OrNull,
               mon, ownership, counters, wakeups, notifying, pools, rest, intr
  <1>1. CASE \E o \in Objects : Lock(t, o)
    <2>1. PICK o \in Objects : Lock(t, o)
      BY <1>1
    <2>2. DataOK' /\ waiter' = waiter
      BY <2>1 DEF Lock, DataOK
    <2>. QED
      BY <2>1, <2>2, EnterType DEF Lock
  <1>2. CASE \E o \in Objects, f \in CheckingOps : Call(t, f, o)
    <2>1. PICK o \in Objects, f \in CheckingOps : Call(t, f, o)
      BY <1>2
    <2>2. DataOK' /\ waiter' = waiter
      BY <2>1 DEF Call, DataOK
    <2>. QED
      BY <2>1, <2>2, EnterType DEF Call
  <1>3. CASE \E u \in Threads : Interrupt(t, u)
    <2>1. PICK u \in Threads : Interrupt(t, u)
      BY <1>3
    <2>2. DataOK' /\ waiter' = waiter
      BY <2>1 DEF Interrupt, DataOK
    <2>3. CASE UNCHANGED control
      BY <2>2, <2>3 DEF control, ControlOK, LocalsSet
    <2>4. CASE waitingMon[u] # NULL /\ Enter(t, "readRecord", "lock", "interrupt", waitingMon[u])
      <3>1. waitingMon[u] \in Objects
        BY <2>4 DEF DataOK
      <3>. QED
        BY <2>2, <2>4, <3>1, EnterType
    <2>. QED
      BY <2>1, <2>3, <2>4 DEF Interrupt
  <1>4. CASE Exit(t)
    <2>1. DataOK' /\ waiter' = waiter
      BY <1>4 DEF Exit, DataOK
    <2>. QED
      BY <1>4, <2>1, GotoType DEF Exit, Goto, ControlOK
  <1>5. CASE Spawn(t)
    <2>1. DataOK' /\ waiter' = waiter
      BY <1>5 DEF Spawn, DataOK
    <2>. QED
      BY <1>5, <2>1, GotoType DEF Spawn, Goto, ControlOK
  <1>. QED
    BY <1>1, <1>2, <1>3, <1>4, <1>5 DEF Request

-----------------------------------------------------------------------------
(* The frames of vm_object_do_wait                                         *)

\* Entering a function keeps the frames of the waits, when the caller fits.
LEMMA EnterFrames ==
  ASSUME ControlOK, WaitFrames, NEW t \in Threads,
         NEW label, NEW f, NEW by, NEW o,
         Enter(t, label, f, by, o),
         waiter'[t].record # NULL =>
           /\ label \notin {"idle", "dead"}
           /\ label \in WaitPC \/ (by \in WaitCalls /\ f \in {"unlock", "lock"}),
         label # "waitLock",
         label \in WaitPC => f \in WaitCalls /\ by = "user",
         label \notin CheckPC /\ (label = "ownerCheck" => f # "lock"),
         \A u \in Threads \ {t} : waiter'[u] = waiter[u]
  PROVE  WaitFrames'
  BY DEF ControlOK, WaitFrames, Enter

\* So does a step inside a function,
LEMMA GotoFrames ==
  ASSUME ControlOK, WaitFrames, NEW t \in Threads,
         NEW label, NEW r, GotoWith(t, label, r),
         label \in {"idle", "dead"} => pc[t] \in {"idle", "dead"},
         label = "waitLock" => op[t] \in WaitCalls,
         label \in WaitPC <=> pc[t] \in WaitPC,
         label \in CheckPC => pc[t] \in CheckPC \/ pc[t] = "ownerCheck",
         label # "ownerCheck",
         waiter' = waiter
  PROVE  WaitFrames'
  BY DEF ControlOK, WaitFrames, GotoWith

\* and the return from the unlock or the lock inside a wait.
LEMMA ReturnFrames ==
  ASSUME ControlOK, WaitFrames, NEW t \in Threads, Return(t),
         pc[t] \notin WaitPC,
         waiter' = waiter
  PROVE  WaitFrames'
  <1>1. waiter[t].record # NULL =>
          /\ caller[t] \in WaitCalls /\ op[t] \in {"unlock", "lock"}
    BY DEF WaitFrames
  <1>2. CASE caller[t] \in WaitCalls /\ Enter(t, "condWait", caller[t], "user", obj[t])
    BY <1>2 DEF Enter, ControlOK, WaitFrames, WaitPC, CheckPC, DeflatedPC
  <1>5. CASE caller[t] \in WaitCalls /\ Enter(t, "relocked", caller[t], "user", obj[t])
    BY <1>5 DEF Enter, ControlOK, WaitFrames, WaitPC, CheckPC, DeflatedPC
  <1>3. CASE caller[t] = "interrupt" /\ \E f \in {"notifyAll", "unlock"} :
                Enter(t, "ownerCheck", f, "interrupt", obj[t])
    BY <1>1, <1>3, EnterFrames DEF WaitPC, WaitCalls, CheckPC, DeflatedPC
  <1>4. CASE /\ ~(caller[t] \in WaitCalls /\ op[t] \in {"unlock", "lock"})
             /\ Enter(t, "idle", "none", "user", NULL)
    BY <1>1, <1>4, EnterFrames DEF WaitPC, CheckPC, DeflatedPC
  <1>. QED
    BY <1>2, <1>3, <1>4, <1>5, ReturnCases

\* Every step of a thread keeps the frames of the waits.
LEMMA StepFrames ==
  ASSUME ControlOK, DataOK, LocalsSet, WaitFrames,
         NEW t \in Threads, Step(t)
  PROVE  WaitFrames'
  <1>. USE DEF At, Goto, WaitPC, CheckPC, DeflatedPC, rest
  <1>1. CASE ReadRecord(t)
    <2>1. CASE Return(t)
      BY <1>1, <2>1, ReturnFrames DEF ReadRecord
    <2>2. CASE \E label \in {"incBlocked", "casRecord"}, r \in Records : GotoWith(t, label, r)
      BY <1>1, <2>2, GotoFrames DEF ReadRecord
    <2>3. CASE caller[t] = "interrupt" /\ Enter(t, "idle", "none", "user", NULL)
      <3>1. waiter[t].record = NULL
        BY <1>1, <2>3 DEF ReadRecord, WaitFrames, WaitCalls
      <3>. QED
        BY <1>1, <2>3, <3>1, EnterFrames DEF ReadRecord
    <2>4. obj[t] \in Objects
      BY <1>1 DEF ReadRecord, LocalsSet
    <2>. QED
      BY <1>1, <2>1, <2>2, <2>3, <2>4 DEF ReadRecord, ReturnError, DataOK,
         OrNull
  <1>2. CASE CasRecord(t)
    BY <1>2, ReturnFrames, GotoFrames DEF CasRecord
  <1>3. CASE IncBlocked(t)
    BY <1>3, ReturnFrames, GotoFrames DEF IncBlocked
  <1>4. CASE Loop(t)
    BY <1>4, ReturnFrames, GotoFrames DEF Loop
  <1>5. CASE SetCandidate(t)
    BY <1>5, ReturnFrames, GotoFrames DEF SetCandidate
  <1>6. CASE CasOwner(t)
    BY <1>6, ReturnFrames, GotoFrames DEF CasOwner
  <1>7. CASE SemWait(t)
    BY <1>7, ReturnFrames, GotoFrames DEF SemWait
  <1>8. CASE DecBlocked(t)
    BY <1>8, ReturnFrames, GotoFrames DEF DecBlocked
  <1>9. CASE OwnerCheck(t)
    BY <1>9, ReturnFrames, GotoFrames DEF OwnerCheck, Checked, WaitCalls
  <1>10. CASE TestBlocked(t)
    BY <1>10, ReturnFrames, GotoFrames DEF TestBlocked
  <1>11. CASE Release(t)
    BY <1>11, ReturnFrames, GotoFrames DEF Release
  <1>12. CASE WakeOne(t)
    BY <1>12, ReturnFrames, GotoFrames DEF WakeOne
  <1>13. CASE SemPost(t)
    BY <1>13, ReturnFrames, GotoFrames DEF SemPost
  <1>14. CASE Deflate(t)
    BY <1>14, ReturnFrames, GotoFrames DEF Deflate
  <1>15. CASE Recheck(t)
    BY <1>15, ReturnFrames, GotoFrames DEF Recheck
  <1>16. CASE Flush(t)
    BY <1>16, ReturnFrames, GotoFrames DEF Flush
  <1>17. CASE Spin(t)
    BY <1>17, ReturnFrames, GotoFrames DEF Spin
  <1>18. CASE CondWait(t)
    BY <1>18, ReturnFrames, GotoFrames DEF CondWait
  <1>19. CASE Wakeup(t)
    BY <1>19, ReturnFrames, GotoFrames DEF Wakeup
  <1>20. CASE Notify(t)
    BY <1>20, ReturnFrames, GotoFrames DEF Notify
  <1>21. CASE WaitLock(t)
    <2>1. op[t] \in WaitCalls /\ waiter'[t].record = rec[t]
          /\ \A u \in Threads \ {t} : waiter'[u] = waiter[u]
      BY <1>21 DEF WaitLock, WaitFrames, DataOK
    <2>3. Enter(t, "ownerCheck", "unlock", op[t], obj[t])
      BY <1>21 DEF WaitLock
    <2>. QED
      BY <2>1, <2>3, EnterFrames
  <1>22. CASE ClearMon(t)
    <2>1. op[t] \in WaitCalls /\ waiter' = waiter
      BY <1>22 DEF ClearMon, WaitFrames
    <2>2. Enter(t, "readRecord", "lock", op[t], obj[t])
      BY <1>22 DEF ClearMon
    <2>. QED
      BY <2>1, <2>2, EnterFrames
  <1>23. CASE Relocked(t)
    <2>1. waiter'[t].record = NULL /\ \A u \in Threads \ {t} : waiter'[u] = waiter[u]
      BY <1>23 DEF Relocked, NoWaiter, DataOK
    <2>2. Enter(t, "idle", "none", "user", NULL)
      BY <1>23, ReturnCases DEF Relocked, WaitFrames, WaitCalls
    <2>. QED
      BY <2>1, <2>2, EnterFrames
  <1>. QED
    BY <1>1, <1>2, <1>3, <1>4, <1>5, <1>6, <1>7, <1>8, <1>9, <1>10, <1>11,
       <1>12, <1>13, <1>14, <1>15, <1>16, <1>17, <1>18, <1>19, <1>20, <1>21,
       <1>22, <1>23 DEF Step

\* So does a new call.
LEMMA RequestFrames ==
  ASSUME ControlOK, DataOK, WaitFrames, NEW t \in Threads,
         Request(t) \/ Timeout(t)
  PROVE  WaitFrames'
  <1>. USE DEF At, WaitPC, CheckPC, DeflatedPC, rest
  <1>1. pc[t] = "idle" => waiter[t].record = NULL
    BY DEF WaitFrames
  <1>2. CASE \E o \in Objects : Lock(t, o)
    BY <1>1, <1>2, EnterFrames DEF Lock
  <1>3. CASE \E o \in Objects, f \in CheckingOps : Call(t, f, o)
    BY <1>1, <1>3, EnterFrames DEF Call, CheckingOps
  <1>4. CASE \E u \in Threads : Interrupt(t, u)
    <2>1. CASE UNCHANGED control
      BY <1>4, <2>1 DEF Interrupt, control, WaitFrames
    <2>2. CASE ~UNCHANGED control
      BY <1>1, <1>4, <2>2, EnterFrames DEF Interrupt
    <2>. QED
      BY <2>1, <2>2
  <1>5. CASE Exit(t)
    BY <1>5, GotoFrames DEF Exit, Goto
  <1>6. CASE Spawn(t)
    BY <1>6, GotoFrames DEF Spawn, Goto
  <1>7. CASE Timeout(t)
    BY <1>7 DEF Timeout, control, WaitFrames
  <1>. QED
    BY <1>2, <1>3, <1>4, <1>5, <1>6, <1>7 DEF Request

-----------------------------------------------------------------------------
(* Type correctness                                                        *)

TypeInv == TypeOK /\ LocalsSet /\ WaitFrames

\* The initial states are typed and have no locals to be set.
LEMMA TypeInit ==
  ASSUME MonitorAssumption, Init
  PROVE  TypeInv
  <1>1. ControlOK
    BY DEF Init, ControlOK, PC, CheckingOps, OrNull
  <1>2. DataOK
    BY DEF Init, DataOK, OrNull, Waiter, NoWaiter, MonitorAssumption
  <1>3. LocalsSet /\ WaitFrames
    BY DEF Init, LocalsSet, WaitFrames, RecordPC, CountedPC, DeflatedPC,
       CheckPC, WaitPC, WaitCalls, NoWaiter
  <1>. QED
    BY <1>1, <1>2, <1>3, TypeParts DEF TypeInv

\* Every step keeps the types, the locals and the frames.
LEMMA TypeStep ==
  ASSUME MonitorAssumption, TypeInv, [Next]_vars
  PROVE  TypeInv'
  <1>1. ControlOK /\ DataOK /\ LocalsSet /\ WaitFrames
    BY TypeParts DEF TypeInv
  <1>2. SUFFICES ControlOK' /\ DataOK' /\ LocalsSet' /\ WaitFrames'
    BY DEF TypeInv, TypeOK, ControlOK, DataOK
  <1>3. CASE UNCHANGED vars
    BY <1>1, <1>3 DEF vars, control, mon, ownership, counters, wakeups,
       notifying, pools, rest, intr,
       ControlOK, DataOK, LocalsSet, WaitFrames
  <1>4. ASSUME NEW t \in Threads, Step(t)
        PROVE  ControlOK' /\ DataOK' /\ LocalsSet' /\ WaitFrames'
    BY <1>1, <1>4, StepFrames, ReadRecordType, CasRecordType, IncBlockedType,
       LoopType, SetCandidateType,
       CasOwnerType, SemWaitType, DecBlockedType, OwnerCheckType, TestBlockedType, ReleaseType,
       WakeOneType, SemPostType, DeflateType, RecheckType, FlushType, SpinType, WaitLockType,
       CondWaitType, WakeupType, ClearMonType, RelockedType, NotifyType
    DEF Step
  <1>5. ASSUME NEW t \in Threads, Request(t) \/ Timeout(t)
        PROVE  ControlOK' /\ DataOK' /\ LocalsSet' /\ WaitFrames'
    BY <1>1, <1>5, RequestFrames, RequestType, TimeoutType
  <1>. QED
    BY <1>3, <1>4, <1>5 DEF Next

\* The strengthened type invariant: besides its type, what a thread is about
\* to use (its `self', its record, the record it waits on) is set, and it is
\* inside vm_object_do_wait exactly while its waiter locals are set.
THEOREM TypeInvariant == Spec => []TypeInv
  <1>1. Init => TypeInv
    BY TypeInit, MonitorAssumption
  <1>2. TypeInv /\ [Next]_vars => TypeInv'
    BY TypeStep, MonitorAssumption
  <1>. QED
    BY <1>1, <1>2, PTL DEF Spec

\* Types: the fields of the monitor records, the pools and the locals of
\* vm/monitor.c keep their types for any number of threads, objects and
\* records, whatever the running program does and however threads end.
THEOREM TypeCorrect == Spec => []TypeOK
  <1>1. TypeInv => TypeOK
    BY DEF TypeInv
  <1>. QED
    BY <1>1, TypeInvariant, PTL

-----------------------------------------------------------------------------
(* Safety                                                                  *)

\* The inductive invariant, on top of the types
SafetyInv ==
  /\ MutualExclusion /\ OwnerHolds /\ HoldersOwn
  /\ RecordPlacement /\ PoolReady /\ NoUseAfterFree
  /\ Counters /\ StaleRecordIsOwned
  /\ WaitersKeepRecord /\ DeflaterAlone /\ SavedCount

-----------------------------------------------------------------------------
(* The effect of the control operators                                     *)

\* The control variables of the other threads stay.
OthersSame(t) ==
  \A u \in Threads \ {t} : pc'[u] = pc[u] /\ rec'[u] = rec[u] /\ obj'[u] = obj[u]

\* A step inside a function moves one thread.
LEMMA GotoEffect ==
  ASSUME ControlOK, NEW t \in Threads, NEW label, NEW r, GotoWith(t, label, r)
  PROVE  OthersSame(t) /\ pc'[t] = label /\ rec'[t] = r /\ obj'[t] = obj[t]
  BY DEF ControlOK, GotoWith, OthersSame

\* Entering a function moves one thread and clears its record.
LEMMA EnterEffect ==
  ASSUME ControlOK, NEW t \in Threads, NEW label, NEW f, NEW by, NEW o,
         Enter(t, label, f, by, o)
  PROVE  OthersSame(t) /\ pc'[t] = label /\ rec'[t] = NULL /\ obj'[t] = o
  BY DEF ControlOK, Enter, OthersSame

\* Returning moves one thread, drops its record, and leaves a thread in
\* vm_object_do_wait at the object it waits on.
LEMMA ReturnEffect ==
  ASSUME ControlOK, WaitFrames, NEW t \in Threads, Return(t),
         pc[t] \notin WaitPC
  PROVE  /\ OthersSame(t) /\ rec'[t] = NULL
         /\ pc'[t] \in {"condWait", "relocked", "ownerCheck", "idle"}
         /\ pc'[t] = "relocked" => op[t] = "lock" /\ caller[t] \in WaitCalls
         /\ waiter[t].record # NULL => obj'[t] = obj[t]
  <1>1. CASE Enter(t, "condWait", caller[t], "user", obj[t])
    BY <1>1, EnterEffect
  <1>2. CASE caller[t] \in WaitCalls /\ op[t] = "lock" /\ Enter(t, "relocked", caller[t], "user", obj[t])
    BY <1>2, EnterEffect
  <1>3. CASE Enter(t, "ownerCheck", "notifyAll", "interrupt", obj[t])
    BY <1>3, EnterEffect
  <1>4. CASE Enter(t, "ownerCheck", "unlock", "interrupt", obj[t])
    BY <1>4, EnterEffect
  <1>5. CASE /\ ~(caller[t] \in WaitCalls /\ op[t] \in {"unlock", "lock"})
             /\ Enter(t, "idle", "none", "user", NULL)
    BY <1>5, EnterEffect DEF WaitFrames
  <1>. QED
    BY <1>1, <1>2, <1>3, <1>4, <1>5, ReturnCases

-----------------------------------------------------------------------------
(* Steps that leave the records and the pools alone                        *)

HoldPC == {"decAcquired", "testBlocked", "release", "deflate", "notifyLock", "waitLock"}
TryPC == {"setCandidate", "casOwner", "semWait"}
PrivatePC == {"casRecord"} \cup DeflatedPC

\* A step that leaves records, pools and waits alone keeps SafetyInv, when
\* the thread does not enter or leave a group of control points whose
\* members the invariant counts or owns.
LEMMA QuietStep ==
  ASSUME SafetyInv, NEW t \in Threads, OthersSame(t),
         UNCHANGED <<monitorRecord, owner, lockCount, nrBlocked, nrWaiting,
                     heap, freeRecs, held, waiter>>,
         pc[t] \in CountedPC <=> pc'[t] \in CountedPC,
         pc[t] \in PrivatePC <=> pc'[t] \in PrivatePC,
         pc[t] \in DeflatedPC <=> pc'[t] \in DeflatedPC,
         pc[t] \in CountedPC \cup PrivatePC => rec'[t] = rec[t],
         pc'[t] \in HoldPC =>
           monitorRecord[obj'[t]] = rec'[t] /\ owner[rec'[t]] = t,
         pc'[t] \in {"testBlocked", "release", "deflate"} =>
           lockCount[rec'[t]] = 1,
         pc'[t] = "deflate" => \A u \in Threads : waiter[u].record # rec'[t],
         pc'[t] = "relocked" => owner[waiter[t].record] = t,
         pc'[t] \in TryPC => \/ monitorRecord[obj'[t]] = rec'[t]
                             \/ pc[t] \in TryPC /\ obj'[t] = obj[t],
         rec'[t] \notin heap,
         waiter[t].record # NULL => obj'[t] = obj[t]
  PROVE  SafetyInv'
  <1>. USE DEF SafetyInv, OthersSame
  <1>1. MutualExclusion' /\ OwnerHolds'
    BY DEF MutualExclusion, OwnerHolds
  <1>2. HoldersOwn'
    BY DEF HoldersOwn, HoldPC
  <1>3. \A u \in Threads : Private(u)' = Private(u)
    BY DEF Private, PrivatePC
  <1>4. RecordPlacement' /\ PoolReady'
    BY <1>3 DEF RecordPlacement, PoolReady
  <1>5. NoUseAfterFree'
    BY DEF NoUseAfterFree
  <1>6. \A r \in Records : Blocked(r)' = Blocked(r) /\ Waiting(r)' = Waiting(r)
    BY DEF Blocked, Waiting
  <1>7. Counters'
    BY <1>6 DEF Counters
  <1>8. StaleRecordIsOwned'
    BY DEF StaleRecordIsOwned, TryPC, CountedPC, DeflatedPC, PrivatePC
  <1>9. WaitersKeepRecord' /\ DeflaterAlone' /\ SavedCount'
    BY DEF WaitersKeepRecord, DeflaterAlone, SavedCount
  <1>. QED
    BY <1>1, <1>2, <1>4, <1>5, <1>7, <1>8, <1>9

SharedSame == UNCHANGED <<monitorRecord, owner, lockCount, nrBlocked, nrWaiting,
                          heap, freeRecs, held, waiter>>

Inv == MonitorAssumption /\ ControlOK /\ DataOK /\ LocalsSet /\ WaitFrames /\ SafetyInv

\* The counters that vm_object_unlock looks at: zero means nobody.
LEMMA NobodyWaits ==
  ASSUME Inv, NEW r \in Records, nrWaiting[r] <= 0
  PROVE  \A u \in Threads : waiter[u].record # r
  <1>1. IsFiniteSet(Waiting(r))
    BY FS_Subset DEF Inv, MonitorAssumption, Waiting
  <1>2. Cardinality(Waiting(r)) \in Nat /\ nrWaiting[r] = Cardinality(Waiting(r))
    BY <1>1, FS_CardinalityType DEF Inv, SafetyInv, Counters
  <1>3. Waiting(r) = {}
    BY <1>1, <1>2, FS_EmptySet
  <1>. QED
    BY <1>3 DEF Waiting

\* The same for nr_blocked.
LEMMA NobodyBlocked ==
  ASSUME Inv, NEW r \in Records, nrBlocked[r] <= 0
  PROVE  \A u \in Threads : pc[u] \in CountedPC => rec[u] # r
  <1>1. IsFiniteSet(Blocked(r))
    BY FS_Subset DEF Inv, MonitorAssumption, Blocked
  <1>2. Cardinality(Blocked(r)) \in Nat /\ nrBlocked[r] = Cardinality(Blocked(r))
    BY <1>1, FS_CardinalityType DEF Inv, SafetyInv, Counters
  <1>3. Blocked(r) = {}
    BY <1>1, <1>2, FS_EmptySet
  <1>. QED
    BY <1>3 DEF Blocked

\* No record is NULL, so that a thread without record uses no freed memory.
LEMMA NullIsFree ==
  ASSUME Inv
  PROVE  NULL \notin heap
  BY DEF Inv, MonitorAssumption, DataOK

\* Loop keeps SafetyInv.
LEMMA LoopSafe ==
  ASSUME Inv, NEW t \in Threads, Loop(t)
  PROVE  SafetyInv'
  <1>. USE DEF Inv, At, Goto
  <1>1. SharedSame
    BY DEF Loop, SharedSame, mon, ownership, counters, wakeups, notifying,
       pools, rest
  <1>2. rec[t] \notin heap
    BY DEF SafetyInv, NoUseAfterFree
  <1>3. /\ OthersSame(t) /\ rec'[t] = rec[t] /\ obj'[t] = obj[t]
        /\ \/ pc'[t] = "setCandidate" /\ monitorRecord[obj[t]] = rec[t]
           \/ pc'[t] = "decBlocked"
    BY GotoEffect DEF Loop
  <1>. QED
    BY <1>1, <1>2, <1>3, QuietStep DEF Loop, SharedSame, CountedPC, PrivatePC,
       DeflatedPC, HoldPC, TryPC, WaitPC

\* SetCandidate keeps SafetyInv.
LEMMA SetCandidateSafe ==
  ASSUME Inv, NEW t \in Threads, SetCandidate(t)
  PROVE  SafetyInv'
  <1>. USE DEF Inv, At, Goto
  <1>1. SharedSame
    BY DEF SetCandidate, SharedSame, mon, ownership, counters, wakeups,
       notifying, pools, rest
  <1>2. rec[t] \notin heap
    BY DEF SafetyInv, NoUseAfterFree
  <1>3. OthersSame(t) /\ pc'[t] = "casOwner" /\ rec'[t] = rec[t] /\ obj'[t] = obj[t]
    BY GotoEffect, ReturnEffect DEF SetCandidate, WaitPC
  <1>. QED
    BY <1>1, <1>2, <1>3, QuietStep DEF SetCandidate, SharedSame, CountedPC,
       PrivatePC, DeflatedPC, HoldPC, TryPC, WaitPC

\* SemWait keeps SafetyInv.
LEMMA SemWaitSafe ==
  ASSUME Inv, NEW t \in Threads, SemWait(t)
  PROVE  SafetyInv'
  <1>. USE DEF Inv, At, Goto
  <1>1. SharedSame
    BY DEF SemWait, SharedSame, mon, ownership, counters, wakeups, notifying,
       pools, rest
  <1>2. rec[t] \notin heap
    BY DEF SafetyInv, NoUseAfterFree
  <1>3. OthersSame(t) /\ pc'[t] = "loop" /\ rec'[t] = rec[t] /\ obj'[t] = obj[t]
    BY GotoEffect, ReturnEffect DEF SemWait, WaitPC
  <1>. QED
    BY <1>1, <1>2, <1>3, QuietStep DEF SemWait, SharedSame, CountedPC,
       PrivatePC, DeflatedPC, HoldPC, TryPC, WaitPC

\* TestBlocked keeps SafetyInv.
LEMMA TestBlockedSafe ==
  ASSUME Inv, NEW t \in Threads, TestBlocked(t)
  PROVE  SafetyInv'
  <1>. USE DEF Inv, At, Goto
  <1>1. SharedSame
    BY DEF TestBlocked, SharedSame, mon, ownership, counters, wakeups,
       notifying, pools, rest
  <1>2. rec[t] \notin heap
    BY DEF SafetyInv, NoUseAfterFree
  <1>3. /\ OthersSame(t) /\ rec'[t] = rec[t] /\ obj'[t] = obj[t]
        /\ \/ pc'[t] = "release"
           \/ pc'[t] = "deflate" /\ ~(nrWaiting[rec[t]] > 0)
    BY GotoEffect DEF TestBlocked
  <1>4. rec[t] \in Records
    BY DEF TestBlocked, LocalsSet, RecordPC
  <1>5. nrWaiting[rec[t]] \in Int
    BY <1>4 DEF DataOK
  <1>6. pc'[t] = "deflate" => \A u \in Threads : waiter[u].record # rec[t]
    BY <1>3, <1>4, <1>5, NobodyWaits
  <1>7. monitorRecord[obj[t]] = rec[t] /\ owner[rec[t]] = t /\ lockCount[rec[t]] = 1
    BY DEF TestBlocked, SafetyInv, HoldersOwn
  <1>. QED
    BY <1>1, <1>2, <1>3, <1>6, <1>7, QuietStep DEF TestBlocked, SharedSame,
       CountedPC, PrivatePC, DeflatedPC, HoldPC, TryPC, WaitPC

\* WakeOne keeps SafetyInv.
LEMMA WakeOneSafe ==
  ASSUME Inv, NEW t \in Threads, WakeOne(t)
  PROVE  SafetyInv'
  <1>. USE DEF Inv, At, Goto
  <1>1. SharedSame
    BY DEF WakeOne, SharedSame, mon, ownership, counters, wakeups, notifying,
       pools, rest
  <1>2. rec[t] \notin heap
    BY DEF SafetyInv, NoUseAfterFree
  <1>3. /\ OthersSame(t) /\ pc'[t] \in {"semPost", "condWait", "ownerCheck", "idle"}
        /\ rec'[t] \in {rec[t], NULL} /\ (waiter[t].record # NULL => obj'[t] = obj[t])
    BY GotoEffect, ReturnEffect DEF WakeOne, WaitPC, WaitFrames, CheckPC
  <1>. QED
    BY <1>1, <1>2, <1>3, NullIsFree, QuietStep DEF WakeOne, SharedSame,
       CountedPC, PrivatePC, DeflatedPC, HoldPC, TryPC, WaitPC

\* SemPost keeps SafetyInv.
LEMMA SemPostSafe ==
  ASSUME Inv, NEW t \in Threads, SemPost(t)
  PROVE  SafetyInv'
  <1>. USE DEF Inv, At, Goto
  <1>1. SharedSame
    BY DEF SemPost, SharedSame, mon, ownership, counters, wakeups, notifying,
       pools, rest
  <1>2. rec[t] \notin heap
    BY DEF SafetyInv, NoUseAfterFree
  <1>3. /\ OthersSame(t) /\ pc'[t] \in {"condWait", "ownerCheck", "idle"}
        /\ rec'[t] = NULL /\ (waiter[t].record # NULL => obj'[t] = obj[t])
    BY GotoEffect, ReturnEffect DEF SemPost, WaitPC, WaitFrames, CheckPC
  <1>. QED
    BY <1>1, <1>2, <1>3, NullIsFree, QuietStep DEF SemPost, SharedSame,
       CountedPC, PrivatePC, DeflatedPC, HoldPC, TryPC, WaitPC

\* Flush keeps SafetyInv.
LEMMA FlushSafe ==
  ASSUME Inv, NEW t \in Threads, Flush(t)
  PROVE  SafetyInv'
  <1>. USE DEF Inv, At, Goto
  <1>1. SharedSame
    BY DEF Flush, SharedSame, mon, ownership, counters, wakeups, notifying,
       pools, rest
  <1>2. rec[t] \notin heap
    BY DEF SafetyInv, NoUseAfterFree
  <1>3. OthersSame(t) /\ pc'[t] \in {"flush", "spin"} /\ rec'[t] = rec[t] /\ obj'[t] = obj[t]
    BY GotoEffect, ReturnEffect DEF Flush, WaitPC
  <1>. QED
    BY <1>1, <1>2, <1>3, QuietStep DEF Flush, SharedSame, CountedPC,
       PrivatePC, DeflatedPC, HoldPC, TryPC, WaitPC

\* CondWait keeps SafetyInv.
LEMMA CondWaitSafe ==
  ASSUME Inv, NEW t \in Threads, CondWait(t)
  PROVE  SafetyInv'
  <1>. USE DEF Inv, At, Goto
  <1>1. SharedSame
    BY DEF CondWait, SharedSame, mon, ownership, counters, wakeups, notifying,
       pools, rest
  <1>2. rec[t] \notin heap
    BY DEF SafetyInv, NoUseAfterFree
  <1>3. OthersSame(t) /\ pc'[t] \in {"asleep", "clearMon"} /\ rec'[t] = rec[t] /\ obj'[t] = obj[t]
    BY GotoEffect, ReturnEffect DEF CondWait, WaitPC
  <1>. QED
    BY <1>1, <1>2, <1>3, QuietStep DEF CondWait, SharedSame, CountedPC,
       PrivatePC, DeflatedPC, HoldPC, TryPC, WaitPC

\* Waking up in pthread_cond_wait keeps SafetyInv.
LEMMA WakeupSafe ==
  ASSUME Inv, NEW t \in Threads, Wakeup(t)
  PROVE  SafetyInv'
  <1>. USE DEF Inv, At, Goto
  <1>1. SharedSame
    BY DEF Wakeup, SharedSame, mon, ownership, counters, wakeups, notifying,
       pools, rest
  <1>2. rec[t] \notin heap
    BY DEF SafetyInv, NoUseAfterFree
  <1>3. OthersSame(t) /\ pc'[t] = "clearMon" /\ rec'[t] = rec[t] /\ obj'[t] = obj[t]
    BY GotoEffect, ReturnEffect DEF Wakeup, WaitPC
  <1>. QED
    BY <1>1, <1>2, <1>3, QuietStep DEF Wakeup, SharedSame, CountedPC,
       PrivatePC, DeflatedPC, HoldPC, TryPC, WaitPC

\* Notify keeps SafetyInv.
LEMMA NotifySafe ==
  ASSUME Inv, NEW t \in Threads, Notify(t)
  PROVE  SafetyInv'
  <1>. USE DEF Inv, At, Goto
  <1>1. SharedSame
    BY DEF Notify, SharedSame, mon, ownership, counters, wakeups, notifying,
       pools, rest
  <1>2. rec[t] \notin heap
    BY DEF SafetyInv, NoUseAfterFree
  <1>3. /\ OthersSame(t) /\ pc'[t] \in {"condWait", "ownerCheck", "idle"}
        /\ rec'[t] = NULL /\ (waiter[t].record # NULL => obj'[t] = obj[t])
    BY GotoEffect, ReturnEffect DEF Notify, WaitPC, WaitFrames, CheckPC
  <1>. QED
    BY <1>1, <1>2, <1>3, NullIsFree, QuietStep DEF Notify, SharedSame,
       CountedPC, PrivatePC, DeflatedPC, HoldPC, TryPC, WaitPC

\* One more thread in a set counts one more,
LEMMA CountAdd ==
  ASSUME IsFiniteSet(Threads), NEW S \in SUBSET Threads, NEW t \in Threads,
         t \notin S
  PROVE  Cardinality(S \cup {t}) = Cardinality(S) + 1
  BY FS_Subset, FS_AddElement

\* and one less counts one less.
LEMMA CountRemove ==
  ASSUME IsFiniteSet(Threads), NEW S \in SUBSET Threads, NEW t \in S
  PROVE  Cardinality(S \ {t}) = Cardinality(S) - 1
  BY FS_Subset, FS_RemoveElement

\* The increment of nr_blocked counts the thread in.
LEMMA IncBlockedSafe ==
  ASSUME Inv, NEW t \in Threads, IncBlocked(t)
  PROVE  SafetyInv'
  <1>. USE DEF Inv, SafetyInv, OthersSame
  <1>1. OthersSame(t) /\ pc[t] = "incBlocked" /\ pc'[t] = "loop" /\ rec'[t] = rec[t] /\ obj'[t] = obj[t]
    BY GotoEffect DEF IncBlocked, At, Goto
  <1>2. PICK b \in Records : b = rec[t]
    BY <1>1 DEF LocalsSet, RecordPC
  <1>3. UNCHANGED <<monitorRecord, owner, lockCount, nrWaiting, heap, freeRecs, held, waiter>>
    BY DEF IncBlocked, ownership, pools, rest
  <1>4. MutualExclusion' /\ OwnerHolds' /\ HoldersOwn'
    BY <1>1, <1>3 DEF MutualExclusion, OwnerHolds, HoldersOwn
  <1>5. \A u \in Threads : Private(u)' = Private(u)
    BY <1>1 DEF Private, DeflatedPC
  <1>6. RecordPlacement' /\ PoolReady' /\ NoUseAfterFree'
    BY <1>1, <1>3, <1>5 DEF RecordPlacement, PoolReady, NoUseAfterFree
  <1>7. Counters'
    <2>1. /\ t \notin Blocked(b) /\ Blocked(b)' = Blocked(b) \cup {t}
          /\ \A r \in Records \ {b} : Blocked(r)' = Blocked(r)
          /\ \A r \in Records : Waiting(r)' = Waiting(r)
      BY <1>1, <1>2, <1>3 DEF Blocked, Waiting, CountedPC
    <2>2. Cardinality(Blocked(b)') = Cardinality(Blocked(b)) + 1
      BY <2>1, CountAdd DEF MonitorAssumption, Blocked
    <2>3. /\ nrBlocked'[b] = nrBlocked[b] + 1
          /\ \A r \in Records \ {b} : nrBlocked'[r] = nrBlocked[r]
      BY <1>2 DEF IncBlocked, DataOK
    <2>4. ASSUME NEW r \in Records PROVE nrBlocked'[r] = Cardinality(Blocked(r)')
      <3>1. CASE r = b
        BY <3>1, <2>2, <2>3 DEF Counters
      <3>2. CASE r # b
        BY <3>2, <2>1, <2>3 DEF Counters
      <3>. QED
        BY <3>1, <3>2
    <2>5. \A r \in Records : nrWaiting'[r] = Cardinality(Waiting(r)')
      BY <1>3, <2>1 DEF Counters
    <2>. QED
      BY <2>4, <2>5 DEF Counters
  <1>8. StaleRecordIsOwned'
    BY <1>1, <1>3 DEF StaleRecordIsOwned, DeflatedPC
  <1>9. WaitersKeepRecord' /\ DeflaterAlone' /\ SavedCount'
    BY <1>1, <1>3 DEF WaitersKeepRecord, DeflaterAlone, SavedCount
  <1>. QED
    BY <1>4, <1>6, <1>7, <1>8, <1>9

\* The decrement of nr_blocked counts the thread out.
LEMMA DecBlockedSafe ==
  ASSUME Inv, NEW t \in Threads, DecBlocked(t)
  PROVE  SafetyInv'
  <1>. USE DEF Inv, SafetyInv, OthersSame
  <1>1. /\ OthersSame(t) /\ pc[t] \in {"decAcquired", "decBlocked"}
        /\ pc'[t] \in {"readRecord", "condWait", "relocked", "ownerCheck", "idle"}
        /\ rec'[t] = NULL /\ (waiter[t].record # NULL => obj'[t] = obj[t])
        /\ pc'[t] = "relocked" => pc[t] = "decAcquired" /\ caller[t] \in WaitCalls
    BY GotoEffect, ReturnEffect DEF DecBlocked, At, WaitPC
  <1>2. PICK b \in Records : b = rec[t]
    BY <1>1 DEF LocalsSet, RecordPC, CountedPC
  <1>3. UNCHANGED <<monitorRecord, owner, lockCount, nrWaiting, heap, freeRecs, held, waiter>>
    BY DEF DecBlocked, ownership, pools, rest
  <1>a. pc'[t] = "relocked" => owner[waiter[t].record] = t
    BY <1>1, NullIsFree DEF HoldersOwn, WaitersKeepRecord, LocalsSet,
       MonitorAssumption
  <1>4. MutualExclusion' /\ OwnerHolds'
    BY <1>3 DEF MutualExclusion, OwnerHolds
  <1>b. HoldersOwn'
    BY <1>1, <1>3, <1>a DEF HoldersOwn
  <1>5. \A u \in Threads : Private(u)' = Private(u)
    BY <1>1 DEF Private, DeflatedPC
  <1>6. RecordPlacement' /\ PoolReady' /\ NoUseAfterFree'
    BY <1>1, <1>3, <1>5, NullIsFree DEF RecordPlacement, PoolReady,
       NoUseAfterFree
  <1>7. Counters'
    <2>0. pc[t] \in CountedPC /\ pc'[t] \notin CountedPC
      BY <1>1 DEF CountedPC
    <2>1. /\ t \in Blocked(b) /\ Blocked(b)' = Blocked(b) \ {t}
          /\ \A r \in Records \ {b} : Blocked(r)' = Blocked(r)
          /\ \A r \in Records : Waiting(r)' = Waiting(r)
      BY <2>0, <1>1, <1>2, <1>3 DEF Blocked, Waiting
    <2>2. Cardinality(Blocked(b)') = Cardinality(Blocked(b)) - 1
      BY <2>1, CountRemove DEF MonitorAssumption, Blocked
    <2>3. /\ nrBlocked'[b] = nrBlocked[b] - 1
          /\ \A r \in Records \ {b} : nrBlocked'[r] = nrBlocked[r]
      BY <1>2 DEF DecBlocked, DataOK
    <2>4. ASSUME NEW r \in Records PROVE nrBlocked'[r] = Cardinality(Blocked(r)')
      <3>1. CASE r = b
        BY <3>1, <2>2, <2>3 DEF Counters
      <3>2. CASE r # b
        BY <3>2, <2>1, <2>3 DEF Counters
      <3>. QED
        BY <3>1, <3>2
    <2>5. \A r \in Records : nrWaiting'[r] = Cardinality(Waiting(r)')
      BY <1>3, <2>1 DEF Counters
    <2>. QED
      BY <2>4, <2>5 DEF Counters
  <1>8. StaleRecordIsOwned'
    BY <1>1, <1>3 DEF StaleRecordIsOwned, DeflatedPC
  <1>9. WaitersKeepRecord' /\ DeflaterAlone' /\ SavedCount'
    BY <1>1, <1>3 DEF WaitersKeepRecord, DeflaterAlone, SavedCount
  <1>. QED
    BY <1>4, <1>b, <1>6, <1>7, <1>8, <1>9

\* The owner is taken only through a record that is attached: a detached one
\* is still owned by the thread that detached it (StaleRecordIsOwned).
LEMMA CasOwnerSafe ==
  ASSUME Inv, NEW t \in Threads, CasOwner(t)
  PROVE  SafetyInv'
  <1>. USE DEF Inv, SafetyInv, OthersSame
  <1>. DEFINE r == rec[t]
              o == obj[t]
  <1>1. pc[t] = "casOwner" /\ r \in Records /\ o \in Objects
    BY DEF CasOwner, At, LocalsSet, RecordPC, CountedPC
  <1>2. CASE owner[r] # NULL
    <2>1. OthersSame(t) /\ pc'[t] = "semWait" /\ rec'[t] = rec[t] /\ obj'[t] = obj[t] /\ SharedSame
      BY <1>2, GotoEffect DEF CasOwner, Goto, SharedSame, ownership, counters,
         pools, rest
    <2>2. rec[t] \notin heap
      BY DEF NoUseAfterFree
    <2>. QED
      BY <1>1, <2>1, <2>2, QuietStep DEF SharedSame, CountedPC, PrivatePC,
         DeflatedPC, HoldPC, TryPC
  <1>3. CASE owner[r] = NULL
    <2>1. OthersSame(t) /\ pc'[t] = "decAcquired" /\ rec'[t] = rec[t] /\ obj'[t] = obj[t]
      BY <1>3, GotoEffect DEF CasOwner, Goto
    <2>2. UNCHANGED <<monitorRecord, nrBlocked, nrWaiting, heap, freeRecs, waiter>>
      BY DEF CasOwner, counters, pools, rest
    <2>3. /\ owner' = [owner EXCEPT ![r] = t] /\ lockCount' = [lockCount EXCEPT ![r] = 1]
          /\ held' = [held EXCEPT ![t][o] = @ + 1]
      BY <1>3 DEF CasOwner, Granted
    <2>4. monitorRecord[o] = r
      BY <1>1, <1>3 DEF StaleRecordIsOwned, PoolReady, Private,
         MonitorAssumption
    <2>5. \A u \in Threads : held[u][o] = 0
      BY <1>1, <1>3, <2>4 DEF MutualExclusion, OwnerHolds, MonitorAssumption,
         DataOK
    <2>6. MutualExclusion'
      BY <1>1, <2>2, <2>3, <2>4, <2>5 DEF MutualExclusion, RecordPlacement,
         DataOK
    <2>7. OwnerHolds'
      BY <1>1, <2>2, <2>3, <2>4, <2>5 DEF OwnerHolds, RecordPlacement, DataOK
    <2>8. HoldersOwn'
      <3>1. owner'[r] = t /\ lockCount'[r] = 1
            /\ \A s \in Records \ {r} : owner'[s] = owner[s] /\ lockCount'[s] = lockCount[s]
        BY <1>1, <2>3 DEF DataOK
      <3>2. \A u \in Threads \ {t} : pc[u] \in HoldPC => rec[u] \in Records \ {r}
        BY <1>3 DEF HoldPC, HoldersOwn, LocalsSet, RecordPC, CountedPC,
           MonitorAssumption
      <3>3. \A u \in Threads \ {t} : pc[u] = "relocked" => waiter[u].record \in Records \ {r}
        BY <1>3 DEF HoldersOwn, LocalsSet, WaitPC, MonitorAssumption
      <3>. QED
        BY <2>1, <2>2, <2>4, <3>1, <3>2, <3>3 DEF HoldersOwn, HoldPC
    <2>9. \A u \in Threads : Private(u)' = Private(u) /\ r \notin freeRecs[u] \cup Private(u)
      BY <1>1, <2>1, <2>4 DEF Private, DeflatedPC, RecordPlacement
    <2>10. RecordPlacement' /\ NoUseAfterFree'
      BY <2>1, <2>2, <2>9 DEF RecordPlacement, NoUseAfterFree
    <2>11. PoolReady'
      BY <2>2, <2>3, <2>9 DEF PoolReady, DataOK, Private
    <2>12. \A s \in Records : Blocked(s)' = Blocked(s) /\ Waiting(s)' = Waiting(s)
      BY <1>1, <2>1, <2>2 DEF Blocked, Waiting, CountedPC
    <2>13. Counters'
      BY <2>2, <2>12 DEF Counters
    <2>14. StaleRecordIsOwned'
      BY <1>1, <2>1, <2>2 DEF StaleRecordIsOwned, DeflatedPC
    <2>15. WaitersKeepRecord' /\ DeflaterAlone' /\ SavedCount'
      BY <2>1, <2>2 DEF WaitersKeepRecord, DeflaterAlone, SavedCount
    <2>. QED
      BY <2>6, <2>7, <2>8, <2>10, <2>11, <2>13, <2>14, <2>15
  <1>. QED
    BY <1>2, <1>3

\* A record that its thread has in its hands goes into the pool.
LEMMA PutSafe ==
  ASSUME Inv, NEW t \in Threads, OthersSame(t),
         UNCHANGED <<monitorRecord, owner, lockCount, nrBlocked, nrWaiting,
                     held, waiter>>,
         pc[t] \in PrivatePC, PutRecord(t, rec[t]),
         pc[t] \in DeflatedPC => nrBlocked[rec[t]] <= 0,
         pc'[t] \in {"readRecord", "condWait", "ownerCheck", "idle"},
         rec'[t] = NULL,
         waiter[t].record # NULL => obj'[t] = obj[t]
  PROVE  SafetyInv'
  <1>. USE DEF Inv, SafetyInv, OthersSame
  <1>1. PICK b \in Records : b = rec[t]
    BY DEF PrivatePC, LocalsSet, RecordPC
  <1>2. /\ b \in Private(t) /\ owner[b] = t /\ lockCount[b] = 1
        /\ \A u \in Threads : Private(u)' = IF u = t THEN {} ELSE Private(u)
    BY <1>1 DEF Private, PoolReady, PrivatePC, DeflatedPC
  <1>3. /\ heap' = heap /\ freeRecs'[t] = freeRecs[t] \cup {b}
        /\ \A u \in Threads \ {t} : freeRecs'[u] = freeRecs[u]
    BY <1>1 DEF PutRecord, DataOK
  <1>4. MutualExclusion' /\ OwnerHolds' /\ HoldersOwn'
    BY DEF MutualExclusion, OwnerHolds, HoldersOwn
  <1>5. RecordPlacement'
    BY <1>2, <1>3 DEF RecordPlacement
  <1>6. PoolReady'
    BY <1>2, <1>3 DEF PoolReady
  <1>7. NoUseAfterFree'
    BY <1>3, NullIsFree DEF NoUseAfterFree
  <1>8. \A r \in Records : Blocked(r)' = Blocked(r) /\ Waiting(r)' = Waiting(r)
    BY DEF Blocked, Waiting, PrivatePC, DeflatedPC, CountedPC
  <1>9. Counters'
    BY <1>8 DEF Counters
  <1>10. pc[t] \in DeflatedPC => \A u \in Threads : pc[u] \in CountedPC => rec[u] # b
    BY <1>1, NobodyBlocked
  <1>11. StaleRecordIsOwned'
    BY <1>1, <1>10 DEF StaleRecordIsOwned, CountedPC, DeflatedPC
  <1>12. WaitersKeepRecord' /\ DeflaterAlone' /\ SavedCount'
    BY DEF WaitersKeepRecord, DeflaterAlone, SavedCount
  <1>. QED
    BY <1>4, <1>5, <1>6, <1>7, <1>9, <1>11, <1>12

\* A deflated record that nobody counted himself in on goes to the pool.
LEMMA RecheckSafe ==
  ASSUME Inv, NEW t \in Threads, Recheck(t)
  PROVE  SafetyInv'
  <1>. USE DEF Inv
  <1>1. pc[t] = "recheck" /\ rec[t] \in Records /\ nrBlocked[rec[t]] \in Int
    BY DEF Recheck, At, LocalsSet, RecordPC, DeflatedPC, DataOK
  <1>2. UNCHANGED <<monitorRecord, owner, lockCount, nrBlocked, nrWaiting, held, waiter>>
    BY DEF Recheck, mon, ownership, counters
  <1>3. CASE nrBlocked[rec[t]] > 0
    <2>1. /\ OthersSame(t) /\ pc'[t] = "flush" /\ rec'[t] = rec[t] /\ obj'[t] = obj[t]
          /\ UNCHANGED <<heap, freeRecs>>
      BY <1>3, GotoEffect DEF Recheck, Goto, pools
    <2>2. rec[t] \notin heap
      BY DEF SafetyInv, NoUseAfterFree
    <2>. QED
      BY <1>1, <1>2, <2>1, <2>2, QuietStep DEF CountedPC, PrivatePC,
         DeflatedPC, HoldPC, TryPC
  <1>4. CASE ~(nrBlocked[rec[t]] > 0)
    <2>1. PutRecord(t, rec[t]) /\ Return(t)
      BY <1>4 DEF Recheck
    <2>2. /\ OthersSame(t) /\ rec'[t] = NULL
          /\ pc'[t] \in {"condWait", "ownerCheck", "idle"}
          /\ waiter[t].record # NULL => obj'[t] = obj[t]
      BY <1>1, <2>1, ReturnEffect DEF WaitPC, WaitFrames, CheckPC, DeflatedPC
    <2>. QED
      BY <1>1, <1>2, <1>4, <2>1, <2>2, PutSafe DEF PrivatePC, DeflatedPC
  <1>. QED
    BY <1>3, <1>4

\* The record goes to the pool when nr_blocked is zero: no thread is left
\* that could take it.
LEMMA SpinSafe ==
  ASSUME Inv, NEW t \in Threads, Spin(t)
  PROVE  SafetyInv'
  <1>. USE DEF Inv
  <1>1. pc[t] = "spin" /\ PutRecord(t, rec[t]) /\ Return(t) /\ nrBlocked[rec[t]] <= 0
    BY DEF Spin, At
  <1>2. UNCHANGED <<monitorRecord, owner, lockCount, nrBlocked, nrWaiting, held, waiter>>
    BY DEF Spin, ownership, counters, rest
  <1>3. /\ OthersSame(t) /\ rec'[t] = NULL
        /\ pc'[t] \in {"condWait", "ownerCheck", "idle"}
        /\ waiter[t].record # NULL => obj'[t] = obj[t]
    BY <1>1, ReturnEffect DEF WaitPC, WaitFrames, CheckPC, DeflatedPC
  <1>. QED
    BY <1>1, <1>2, <1>3, PutSafe DEF PrivatePC, DeflatedPC

\* A thread that locks again at the end of a wait finds the record attached.
LEMMA WaiterFindsRecord ==
  ASSUME Inv, NEW t \in Threads, caller[t] \in WaitCalls
  PROVE  monitorRecord[obj[t]] = waiter[t].record /\ waiter[t].record \in Records
  BY DEF Inv, SafetyInv, WaitersKeepRecord, LocalsSet, MonitorAssumption

\* Inflation: the record becomes the monitor of an object that had none.
LEMMA AttachSafe ==
  ASSUME Inv, NEW t \in Threads, CasRecord(t), monitorRecord[obj[t]] = NULL
  PROVE  SafetyInv'
  <1>. USE DEF Inv, SafetyInv, OthersSame
  <1>1. PICK b \in Records, o \in Objects : b = rec[t] /\ o = obj[t] /\ pc[t] = "casRecord"
    BY DEF CasRecord, At, LocalsSet, RecordPC
  <1>2. /\ monitorRecord' = [monitorRecord EXCEPT ![o] = b]
        /\ held' = [held EXCEPT ![t][o] = @ + 1] /\ Return(t)
    BY <1>1 DEF CasRecord, Granted
  <1>3. UNCHANGED <<owner, lockCount, nrBlocked, nrWaiting, heap, freeRecs, waiter>>
    BY DEF CasRecord, mon, ownership, counters, pools, rest
  <1>4. /\ OthersSame(t) /\ rec'[t] = NULL
        /\ pc'[t] \in {"condWait", "ownerCheck", "idle"}
        /\ waiter[t].record # NULL => obj'[t] = obj[t]
    BY <1>1, <1>2, ReturnEffect, WaiterFindsRecord DEF WaitPC,
       MonitorAssumption
  <1>5. /\ b \in Private(t) /\ owner[b] = t /\ lockCount[b] = 1
        /\ \A u \in Threads : Private(u)' = IF u = t THEN {} ELSE Private(u)
    BY <1>1, <1>4 DEF Private, PoolReady, DeflatedPC
  <1>6. /\ monitorRecord'[o] = b /\ monitorRecord[o] = NULL
        /\ \A p \in Objects \ {o} : monitorRecord'[p] = monitorRecord[p] /\ monitorRecord[p] # b
    BY <1>1, <1>2, <1>5 DEF DataOK, RecordPlacement
  <1>7. \A u \in Threads : held[u][o] = 0
    BY <1>6 DEF MutualExclusion, OwnerHolds, DataOK
  <1>8. /\ held'[t][o] = 1 /\ \A u \in Threads \ {t} : held'[u] = held[u]
        /\ \A p \in Objects \ {o} : held'[t][p] = held[t][p]
    BY <1>2, <1>7 DEF DataOK
  <1>9. MutualExclusion'
    BY <1>3, <1>5, <1>6, <1>7, <1>8 DEF MutualExclusion
  <1>10. OwnerHolds'
    BY <1>3, <1>5, <1>6, <1>7, <1>8 DEF OwnerHolds
  <1>11. HoldersOwn'
    <2>1. \A u \in Threads \ {t} : pc[u] \in HoldPC => obj[u] \in Objects \ {o}
      BY <1>6 DEF HoldersOwn, HoldPC, LocalsSet, RecordPC, CountedPC,
         MonitorAssumption
    <2>. QED
      BY <1>3, <1>4, <1>6, <2>1 DEF HoldersOwn, HoldPC
  <1>12. RecordPlacement'
    BY <1>3, <1>5, <1>6 DEF RecordPlacement
  <1>13. PoolReady'
    BY <1>3, <1>5 DEF PoolReady
  <1>14. NoUseAfterFree'
    BY <1>3, <1>4, NullIsFree DEF NoUseAfterFree
  <1>15. \A r \in Records : Blocked(r)' = Blocked(r) /\ Waiting(r)' = Waiting(r)
    BY <1>1, <1>3, <1>4 DEF Blocked, Waiting, CountedPC
  <1>16. Counters'
    BY <1>3, <1>15 DEF Counters
  <1>17. StaleRecordIsOwned'
    <2>1. \A u \in Threads : pc[u] \in TryPC => rec[u] \in Records /\ obj[u] \in Objects
      BY DEF TryPC, LocalsSet, RecordPC, CountedPC
    <2>. QED
      BY <1>1, <1>4, <1>6, <2>1 DEF StaleRecordIsOwned, DeflatedPC, TryPC,
         MonitorAssumption
  <1>18. WaitersKeepRecord'
    <2>1. \A u \in Threads : waiter[u].record # NULL => obj[u] \in Objects \ {o}
      BY <1>6 DEF WaitersKeepRecord, LocalsSet, WaitFrames
    <2>. QED
      BY <1>3, <1>4, <1>6, <2>1 DEF WaitersKeepRecord
  <1>19. DeflaterAlone' /\ SavedCount'
    BY <1>3, <1>4 DEF DeflaterAlone, SavedCount
  <1>. QED
    BY <1>9, <1>10, <1>11, <1>12, <1>13, <1>14, <1>16, <1>17, <1>18, <1>19

\* Inflation attaches a record that was in nobody else's hands.
LEMMA CasRecordSafe ==
  ASSUME Inv, NEW t \in Threads, CasRecord(t)
  PROVE  SafetyInv'
  <1>1. CASE monitorRecord[obj[t]] = NULL
    BY <1>1, AttachSafe
  <1>2. CASE monitorRecord[obj[t]] # NULL
    <2>1. pc[t] = "casRecord" /\ PutRecord(t, rec[t]) /\ GotoWith(t, "readRecord", NULL)
      BY <1>2 DEF CasRecord, At
    <2>2. UNCHANGED <<monitorRecord, owner, lockCount, nrBlocked, nrWaiting, held, waiter>>
      BY <1>2 DEF CasRecord, mon, ownership, counters, rest
    <2>3. OthersSame(t) /\ pc'[t] = "readRecord" /\ rec'[t] = NULL /\ obj'[t] = obj[t]
      BY <2>1, GotoEffect DEF Inv
    <2>. QED
      BY <2>1, <2>2, <2>3, PutSafe DEF PrivatePC, DeflatedPC
  <1>. QED
    BY <1>1, <1>2

\* get_monitor_record: the record leaves the pool, or is new.
LEMMA TakeSafe ==
  ASSUME Inv, NEW t \in Threads, NEW n \in Records, pc[t] = "readRecord",
         TakeRecord(t, n), GotoWith(t, "casRecord", n),
         UNCHANGED <<monitorRecord, waiter, held>>
  PROVE  SafetyInv'
  <1>. USE DEF Inv, SafetyInv, OthersSame
  <1>1. OthersSame(t) /\ pc'[t] = "casRecord" /\ rec'[t] = n /\ obj'[t] = obj[t]
    BY GotoEffect
  <1>2. \A u \in Threads : Private(u)' = IF u = t THEN {n} ELSE Private(u)
    BY <1>1 DEF Private, DeflatedPC
  <1>3. Private(t) = {}
    BY DEF Private, DeflatedPC
  <1>4. \A r \in Records : Blocked(r)' = Blocked(r) /\ Waiting(r)' = Waiting(r)
    BY <1>1 DEF Blocked, Waiting, CountedPC
  <1>5. StaleRecordIsOwned'
    BY <1>1 DEF StaleRecordIsOwned, DeflatedPC
  <1>6. WaitersKeepRecord' /\ DeflaterAlone' /\ SavedCount'
    BY <1>1 DEF WaitersKeepRecord, DeflaterAlone, SavedCount
  <1>7. CASE n \in freeRecs[t]
    <2>1. /\ freeRecs'[t] = freeRecs[t] \ {n}
          /\ \A u \in Threads \ {t} : freeRecs'[u] = freeRecs[u]
      BY <1>7 DEF TakeRecord, DataOK
    <2>2. UNCHANGED <<heap, owner, lockCount, nrBlocked, nrWaiting>>
      BY <1>7 DEF TakeRecord, mon, ownership, counters
    <2>3. MutualExclusion' /\ OwnerHolds' /\ HoldersOwn'
      BY <1>1, <2>2 DEF MutualExclusion, OwnerHolds, HoldersOwn
    <2>4. RecordPlacement' /\ PoolReady'
      BY <1>2, <1>3, <1>7, <2>1, <2>2 DEF RecordPlacement, PoolReady
    <2>5. NoUseAfterFree'
      BY <1>1, <1>7, <2>2 DEF NoUseAfterFree, RecordPlacement
    <2>6. Counters'
      BY <1>4, <2>2 DEF Counters
    <2>. QED
      BY <1>5, <1>6, <2>3, <2>4, <2>5, <2>6
  <1>8. CASE n \notin freeRecs[t]
    <2>1. n \in heap /\ heap' = heap \ {n} /\ freeRecs' = freeRecs
      BY <1>8 DEF TakeRecord
    <2>2. /\ owner'[n] = t /\ lockCount'[n] = 1 /\ nrBlocked'[n] = 0 /\ nrWaiting'[n] = 0
          /\ \A r \in Records \ {n} : /\ owner'[r] = owner[r] /\ lockCount'[r] = lockCount[r]
                                      /\ nrBlocked'[r] = nrBlocked[r]
                                      /\ nrWaiting'[r] = nrWaiting[r]
      BY <1>8 DEF TakeRecord, DataOK
    <2>3. /\ \A u \in Threads : rec[u] # n /\ waiter[u].record # n
          /\ \A o \in Objects : monitorRecord[o] # n
      BY <2>1, NullIsFree
         DEF NoUseAfterFree, WaitersKeepRecord, RecordPlacement, LocalsSet, WaitFrames
    <2>a. \A o \in Objects : monitorRecord[o] # NULL =>
            /\ owner'[monitorRecord[o]] = owner[monitorRecord[o]]
            /\ lockCount'[monitorRecord[o]] = lockCount[monitorRecord[o]]
      BY <2>2, <2>3 DEF DataOK, OrNull
    <2>4. MutualExclusion'
      BY <2>a DEF MutualExclusion
    <2>5. OwnerHolds'
      BY <2>a DEF OwnerHolds
    <2>6. HoldersOwn'
      <3>1. \A u \in Threads : pc[u] \in HoldPC => rec[u] \in Records \ {n}
        BY <2>3 DEF HoldPC, LocalsSet, RecordPC, CountedPC
      <3>2. \A u \in Threads : pc[u] = "relocked" => waiter[u].record \in Records \ {n}
        BY <2>3 DEF LocalsSet, WaitPC
      <3>. QED
        BY <1>1, <2>2, <3>1, <3>2 DEF HoldersOwn, HoldPC
    <2>7. \A u \in Threads : n \notin freeRecs[u] \cup Private(u)
      BY <2>1 DEF RecordPlacement
    <2>8. RecordPlacement'
      BY <1>2, <1>3, <2>1, <2>3, <2>7 DEF RecordPlacement
    <2>9. PoolReady'
      BY <1>2, <2>1, <2>2, <2>7 DEF PoolReady, DataOK, Private
    <2>10. NoUseAfterFree'
      BY <1>1, <2>1 DEF NoUseAfterFree
    <2>11. Blocked(n) = {} /\ Waiting(n) = {}
      BY <2>3 DEF Blocked, Waiting
    <2>12. Counters'
      BY <1>4, <2>2, <2>11, FS_EmptySet DEF Counters
    <2>. QED
      BY <1>5, <1>6, <2>4, <2>5, <2>6, <2>8, <2>9, <2>10, <2>12
  <1>. QED
    BY <1>7, <1>8

\* What the lock count of an attached record and the history may do together:
\* only their owner moves them, both to the same positive number.
LEMMA RecountSafe ==
  ASSUME Inv, NEW t \in Threads, OthersSame(t), NEW o \in Objects,
         NEW b \in Records,
         NEW n \in Nat \ {0}, monitorRecord[o] = b, owner[b] = t,
         lockCount' = [lockCount EXCEPT ![b] = n],
         held' = [held EXCEPT ![t][o] = n],
         UNCHANGED <<monitorRecord, owner, nrBlocked, heap, freeRecs>>,
         pc[t] \notin CountedPC \cup PrivatePC,
         pc'[t] \in {"condWait", "relocked", "ownerCheck", "idle"},
         rec'[t] = NULL, pc'[t] = "relocked" => owner[waiter'[t].record] = t,
         \A u \in Threads \ {t} : waiter'[u] = waiter[u]
  PROVE  /\ MutualExclusion' /\ OwnerHolds' /\ HoldersOwn' /\ RecordPlacement'
         /\ PoolReady' /\ NoUseAfterFree' /\ StaleRecordIsOwned'
         /\ \A r \in Records : nrBlocked'[r] = Cardinality(Blocked(r)')
  <1>. USE DEF Inv, SafetyInv, OthersSame
  <1>1. /\ lockCount'[b] = n /\ \A r \in Records \ {b} : lockCount'[r] = lockCount[r]
        /\ held'[t][o] = n /\ \A p \in Objects \ {o} : held'[t][p] = held[t][p]
        /\ \A u \in Threads \ {t} : held'[u] = held[u]
    BY DEF DataOK
  <1>2. \A p \in Objects \ {o} : monitorRecord[p] # b
    BY DEF RecordPlacement, MonitorAssumption
  <1>3. MutualExclusion'
    BY <1>1, <1>2 DEF MutualExclusion, DataOK
  <1>4. OwnerHolds'
    BY <1>1, <1>2 DEF OwnerHolds, DataOK, MutualExclusion
  <1>5. HoldersOwn'
    <2>1. \A u \in Threads \ {t} : pc[u] \in HoldPC => rec[u] \in Records \ {b}
      BY DEF HoldPC, HoldersOwn, LocalsSet, RecordPC, CountedPC
    <2>. QED
      BY <1>1, <2>1 DEF HoldersOwn, HoldPC
  <1>6. \A u \in Threads : Private(u)' = Private(u) /\ b \notin freeRecs[u] \cup Private(u)
    BY DEF Private, PrivatePC, DeflatedPC, RecordPlacement
  <1>7. RecordPlacement' /\ NoUseAfterFree'
    BY <1>6, NullIsFree DEF RecordPlacement, NoUseAfterFree
  <1>8. PoolReady'
    BY <1>1, <1>6 DEF PoolReady, DataOK, Private
  <1>9. StaleRecordIsOwned'
    BY DEF StaleRecordIsOwned, PrivatePC, DeflatedPC
  <1>10. \A r \in Records : Blocked(r)' = Blocked(r)
    BY DEF Blocked, CountedPC
  <1>11. \A r \in Records : nrBlocked'[r] = Cardinality(Blocked(r)')
    BY <1>10 DEF Counters
  <1>. QED
    BY <1>3, <1>4, <1>5, <1>7, <1>8, <1>9, <1>11

\* Reading the record of an object, or taking one out of the pool.
LEMMA ReadRecordSafe ==
  ASSUME Inv, NEW t \in Threads, ReadRecord(t)
  PROVE  SafetyInv'
  <1>. USE DEF Inv
  <1>1. PICK o \in Objects : o = obj[t] /\ pc[t] = "readRecord"
    BY DEF ReadRecord, At, LocalsSet
  <1>2. UNCHANGED <<monitorRecord, waiter>>
    BY DEF ReadRecord, rest
  <1>3. CASE /\ monitorRecord[o] # NULL /\ owner[monitorRecord[o]] = t
             /\ lockCount' = [lockCount EXCEPT ![monitorRecord[o]] = @ + 1]
             /\ Granted(t) /\ Return(t)
             /\ UNCHANGED <<owner, counters, wakeups, notifying, pools>>
    <2>1. PICK b \in Records : b = monitorRecord[o]
      BY <1>3 DEF DataOK, OrNull
    <2>2. PICK n \in Nat \ {0} : n = held[t][o] + 1 /\ n = lockCount[b] + 1
      BY <1>3, <2>1 DEF SafetyInv, OwnerHolds, DataOK
    <2>3. lockCount' = [lockCount EXCEPT ![b] = n] /\ held' = [held EXCEPT ![t][o] = n]
      BY <1>1, <1>3, <2>1, <2>2 DEF Granted
    <2>4. UNCHANGED <<owner, nrBlocked, nrWaiting, heap, freeRecs>>
      BY <1>3 DEF counters, pools
    <2>5. /\ OthersSame(t) /\ rec'[t] = NULL
          /\ pc'[t] \in {"condWait", "relocked", "ownerCheck", "idle"}
          /\ pc'[t] = "relocked" => caller[t] \in WaitCalls
          /\ waiter[t].record # NULL => obj'[t] = obj[t]
      BY <1>1, <1>3, ReturnEffect DEF WaitPC
    <2>6. pc'[t] = "relocked" => owner[waiter'[t].record] = t
      BY <1>1, <1>2, <1>3, <2>5, WaiterFindsRecord
    <2>7. pc[t] \notin CountedPC \cup PrivatePC
      BY <1>1 DEF CountedPC, PrivatePC, DeflatedPC
    <2>8. /\ MutualExclusion' /\ OwnerHolds' /\ HoldersOwn' /\ RecordPlacement'
          /\ PoolReady' /\ NoUseAfterFree' /\ StaleRecordIsOwned'
          /\ \A r \in Records : nrBlocked'[r] = Cardinality(Blocked(r)')
      BY <1>2, <1>3, <2>1, <2>3, <2>4, <2>5, <2>6, <2>7, RecountSafe
    <2>9. \A r \in Records : Waiting(r)' = Waiting(r)
      BY <1>2 DEF Waiting
    <2>10. Counters'
      BY <2>4, <2>8, <2>9 DEF Counters, SafetyInv
    <2>11. WaitersKeepRecord' /\ DeflaterAlone' /\ SavedCount'
      BY <1>2, <2>5 DEF WaitersKeepRecord, DeflaterAlone, SavedCount,
         SafetyInv, OthersSame
    <2>. QED
      BY <2>8, <2>10, <2>11 DEF SafetyInv
  <1>4. CASE /\ monitorRecord[o] # NULL /\ owner[monitorRecord[o]] # t
             /\ GotoWith(t, "incBlocked", monitorRecord[o])
             /\ UNCHANGED <<mon, pools, held>>
    <2>1. OthersSame(t) /\ pc'[t] = "incBlocked" /\ rec'[t] = monitorRecord[o] /\ obj'[t] = obj[t]
      BY <1>4, GotoEffect
    <2>2. rec'[t] \notin heap
      BY <2>1 DEF SafetyInv, RecordPlacement
    <2>3. SharedSame
      BY <1>2, <1>4 DEF SharedSame, mon, ownership, counters, pools
    <2>. QED
      BY <1>1, <2>1, <2>2, <2>3, QuietStep DEF SharedSame, CountedPC,
         PrivatePC, DeflatedPC, HoldPC, TryPC
  <1>5. CASE /\ \E n \in Records : TakeRecord(t, n) /\ GotoWith(t, "casRecord", n)
             /\ UNCHANGED held
    BY <1>1, <1>2, <1>5, TakeSafe
  <1>6. CASE /\ monitorRecord[o] = NULL /\ ReturnError(t)
             /\ UNCHANGED <<mon, pools, held>>
    <2>1. /\ OthersSame(t) /\ rec'[t] = NULL
          /\ pc'[t] \in {"condWait", "ownerCheck", "idle"}
          /\ waiter[t].record # NULL => obj'[t] = obj[t]
      <3>1. CASE Return(t)
        BY <1>1, <1>6, <3>1, ReturnEffect, WaiterFindsRecord DEF WaitPC,
           MonitorAssumption
      <3>2. CASE caller[t] = "interrupt" /\ Enter(t, "idle", "none", "user", NULL)
        BY <1>1, <3>2, EnterEffect DEF WaitFrames, WaitPC, WaitCalls
      <3>. QED
        BY <1>6, <3>1, <3>2 DEF ReturnError
    <2>2. SharedSame
      BY <1>2, <1>6 DEF SharedSame, mon, ownership, counters, pools
    <2>. QED
      BY <1>1, <2>1, <2>2, NullIsFree, QuietStep DEF SharedSame, CountedPC,
         PrivatePC, DeflatedPC, HoldPC, TryPC
  <1>. QED
    BY <1>1, <1>3, <1>4, <1>5, <1>6 DEF ReadRecord

\* Only the owner of the attached record passes the check.
LEMMA OwnerCheckSafe ==
  ASSUME Inv, NEW t \in Threads, OwnerCheck(t)
  PROVE  SafetyInv'
  <1>. USE DEF Inv
  <1>1. PICK o \in Objects : o = obj[t] /\ pc[t] = "ownerCheck"
    BY DEF OwnerCheck, At, LocalsSet
  <1>2. UNCHANGED <<monitorRecord, owner, nrBlocked, nrWaiting, heap, freeRecs, waiter>>
    BY DEF OwnerCheck, counters, pools, rest
  <1>3. ASSUME Return(t)
        PROVE  /\ OthersSame(t) /\ rec'[t] = NULL
               /\ pc'[t] \in {"condWait", "ownerCheck", "idle"}
               /\ waiter[t].record # NULL => obj'[t] = obj[t]
    BY <1>1, <1>3, ReturnEffect DEF WaitPC, WaitFrames
  <1>4. CASE Return(t) /\ UNCHANGED <<lockCount, held>>
    BY <1>1, <1>2, <1>3, <1>4, NullIsFree, QuietStep DEF CountedPC, PrivatePC,
       DeflatedPC, HoldPC, TryPC
  <1>5. CASE /\ monitorRecord[o] # NULL /\ owner[monitorRecord[o]] = t
             /\ lockCount[monitorRecord[o]] > 1
             /\ lockCount' = [lockCount EXCEPT ![monitorRecord[o]] = @ - 1]
             /\ held' = [held EXCEPT ![t][o] = @ - 1]
             /\ Return(t)
    <2>1. PICK b \in Records : b = monitorRecord[o]
      BY <1>5 DEF DataOK, OrNull
    <2>2. PICK n \in Nat \ {0} : n = held[t][o] - 1 /\ n = lockCount[b] - 1
      BY <1>5, <2>1 DEF SafetyInv, OwnerHolds, DataOK
    <2>3. lockCount' = [lockCount EXCEPT ![b] = n] /\ held' = [held EXCEPT ![t][o] = n]
      BY <1>5, <2>1, <2>2
    <2>4. /\ pc[t] \notin CountedPC \cup PrivatePC
          /\ OthersSame(t) /\ rec'[t] = NULL
          /\ pc'[t] \in {"condWait", "relocked", "ownerCheck", "idle"}
          /\ pc'[t] # "relocked"
      BY <1>1, <1>3, <1>5 DEF CountedPC, PrivatePC, DeflatedPC
    <2>5. /\ MutualExclusion' /\ OwnerHolds' /\ HoldersOwn' /\ RecordPlacement'
          /\ PoolReady' /\ NoUseAfterFree' /\ StaleRecordIsOwned'
          /\ \A r \in Records : nrBlocked'[r] = Cardinality(Blocked(r)')
      <3>1. monitorRecord[o] = b /\ owner[b] = t /\ n \in Nat \ {0}
        BY <1>5, <2>1
      <3>2. /\ \A u \in Threads \ {t} : waiter'[u] = waiter[u]
            /\ pc'[t] = "relocked" => owner[waiter'[t].record] = t
            /\ UNCHANGED <<monitorRecord, owner, nrBlocked, heap, freeRecs>>
        BY <1>2, <2>4
      <3>. QED
        BY <3>1, <3>2, <2>3, <2>4, RecountSafe
    <2>6. \A r \in Records : Waiting(r)' = Waiting(r)
      BY <1>2 DEF Waiting
    <2>7. Counters'
      BY <1>2, <2>5, <2>6 DEF Counters, SafetyInv
    <2>8. WaitersKeepRecord' /\ DeflaterAlone' /\ SavedCount'
      BY <1>2, <1>3, <1>5 DEF WaitersKeepRecord, DeflaterAlone, SavedCount,
         SafetyInv, OthersSame
    <2>. QED
      BY <2>5, <2>7, <2>8 DEF SafetyInv
  <1>6. CASE /\ monitorRecord[o] # NULL /\ owner[monitorRecord[o]] = t
             /\ op[t] = "unlock" => lockCount[monitorRecord[o]] <= 1
             /\ GotoWith(t, Checked(op[t]), monitorRecord[o])
             /\ UNCHANGED <<lockCount, held>>
    <2>1. /\ OthersSame(t) /\ rec'[t] = monitorRecord[o] /\ obj'[t] = obj[t]
          /\ pc'[t] = Checked(op[t])
      BY <1>6, GotoEffect
    <2>2. pc'[t] \in {"testBlocked", "waitLock", "notifyLock"}
          /\ (pc'[t] = "testBlocked" => op[t] = "unlock")
      BY <2>1 DEF Checked
    <2>3. op[t] = "unlock" => lockCount[monitorRecord[o]] = 1
      BY <1>6 DEF SafetyInv, OwnerHolds, DataOK
    <2>4. rec'[t] \notin heap
      BY <2>1 DEF SafetyInv, RecordPlacement
    <2>. QED
      BY <1>1, <1>2, <1>6, <2>1, <2>2, <2>3, <2>4, QuietStep DEF CountedPC,
         PrivatePC, DeflatedPC, HoldPC, TryPC
  <1>. QED
    BY <1>1, <1>4, <1>5, <1>6 DEF OwnerCheck

\* Giving up the owner of a record that stays attached.
LEMMA ReleaseSafe ==
  ASSUME Inv, NEW t \in Threads, Release(t)
  PROVE  SafetyInv'
  <1>. USE DEF Inv, SafetyInv, OthersSame
  <1>1. PICK b \in Records, o \in Objects : b = rec[t] /\ o = obj[t] /\ pc[t] = "release"
    BY DEF Release, At, LocalsSet, RecordPC
  <1>2. monitorRecord[o] = b /\ owner[b] = t
    BY <1>1 DEF HoldersOwn
  <1>3. OthersSame(t) /\ pc'[t] = "wakeOne" /\ rec'[t] = rec[t] /\ obj'[t] = obj[t]
    BY GotoEffect DEF Release, Goto
  <1>4. UNCHANGED <<monitorRecord, lockCount, nrBlocked, nrWaiting, heap, freeRecs, waiter>>
    BY DEF Release, counters, pools, rest
  <1>5. /\ owner'[b] = NULL /\ \A r \in Records \ {b} : owner'[r] = owner[r]
        /\ held'[t][o] = 0 /\ \A p \in Objects \ {o} : held'[t][p] = held[t][p]
        /\ \A u \in Threads \ {t} : held'[u] = held[u]
    BY <1>1 DEF Release, GivenUp, DataOK
  <1>6. \A p \in Objects \ {o} : monitorRecord[p] # b
    BY <1>2 DEF RecordPlacement, MonitorAssumption
  <1>a. \A p \in Objects \ {o} : monitorRecord[p] # NULL =>
          owner'[monitorRecord[p]] = owner[monitorRecord[p]]
    BY <1>5, <1>6 DEF DataOK, OrNull
  <1>7. MutualExclusion'
    BY <1>2, <1>4, <1>5, <1>a DEF MutualExclusion
  <1>8. OwnerHolds'
    BY <1>2, <1>4, <1>5, <1>a DEF OwnerHolds, MonitorAssumption
  <1>9. HoldersOwn'
    <2>1. \A u \in Threads \ {t} : pc[u] \in HoldPC => rec[u] \in Records \ {b}
      BY <1>2 DEF HoldPC, HoldersOwn, LocalsSet, RecordPC, CountedPC
    <2>2. \A u \in Threads \ {t} : pc[u] = "relocked" => waiter[u].record \in Records \ {b}
      BY <1>2 DEF HoldersOwn, LocalsSet, WaitPC
    <2>. QED
      BY <1>3, <1>4, <1>5, <2>1, <2>2 DEF HoldersOwn, HoldPC
  <1>10. \A u \in Threads : Private(u)' = Private(u) /\ b \notin freeRecs[u] \cup Private(u)
    BY <1>1, <1>2, <1>3 DEF Private, DeflatedPC, RecordPlacement
  <1>11. RecordPlacement' /\ NoUseAfterFree'
    BY <1>3, <1>4, <1>10 DEF RecordPlacement, NoUseAfterFree
  <1>12. PoolReady'
    BY <1>4, <1>5, <1>10 DEF PoolReady, DataOK, Private
  <1>13. \A r \in Records : Blocked(r)' = Blocked(r) /\ Waiting(r)' = Waiting(r)
    BY <1>1, <1>3, <1>4 DEF Blocked, Waiting, CountedPC
  <1>14. Counters'
    BY <1>4, <1>13 DEF Counters
  <1>15. StaleRecordIsOwned'
    BY <1>1, <1>3, <1>4 DEF StaleRecordIsOwned, DeflatedPC
  <1>16. WaitersKeepRecord' /\ DeflaterAlone' /\ SavedCount'
    BY <1>3, <1>4 DEF WaitersKeepRecord, DeflaterAlone, SavedCount
  <1>. QED
    BY <1>7, <1>8, <1>9, <1>11, <1>12, <1>14, <1>15, <1>16

\* Taking the record off its object: no thread waits on it, and those that
\* hold it find it owned.
LEMMA DeflateSafe ==
  ASSUME Inv, NEW t \in Threads, Deflate(t)
  PROVE  SafetyInv'
  <1>. USE DEF Inv, SafetyInv, OthersSame
  <1>1. PICK b \in Records, o \in Objects : b = rec[t] /\ o = obj[t] /\ pc[t] = "deflate"
    BY DEF Deflate, At, LocalsSet, RecordPC
  <1>2. monitorRecord[o] = b /\ owner[b] = t /\ lockCount[b] = 1
    BY <1>1 DEF HoldersOwn
  <1>3. OthersSame(t) /\ pc'[t] = "recheck" /\ rec'[t] = rec[t] /\ obj'[t] = obj[t]
    BY GotoEffect DEF Deflate, Goto
  <1>4. UNCHANGED <<owner, lockCount, nrBlocked, nrWaiting, heap, freeRecs, waiter>>
    BY DEF Deflate, mon, ownership, counters, pools, rest
  <1>5. /\ monitorRecord'[o] = NULL
        /\ \A p \in Objects \ {o} : monitorRecord'[p] = monitorRecord[p]
        /\ held'[t][o] = 0 /\ \A p \in Objects \ {o} : held'[t][p] = held[t][p]
        /\ \A u \in Threads \ {t} : held'[u] = held[u]
    BY <1>1 DEF Deflate, GivenUp, DataOK
  <1>6. \A p \in Objects \ {o} : monitorRecord[p] # b
    BY <1>2 DEF RecordPlacement, MonitorAssumption
  <1>7. MutualExclusion'
    BY <1>2, <1>4, <1>5, <1>6 DEF MutualExclusion
  <1>8. OwnerHolds'
    BY <1>4, <1>5 DEF OwnerHolds
  <1>9. HoldersOwn'
    <2>1. \A u \in Threads \ {t} : pc[u] \in HoldPC => obj[u] \in Objects \ {o}
      BY <1>2 DEF HoldPC, HoldersOwn, LocalsSet, RecordPC, CountedPC
    <2>. QED
      BY <1>3, <1>4, <1>5, <2>1 DEF HoldersOwn, HoldPC
  <1>10. \A u \in Threads : /\ Private(u)' = IF u = t THEN {b} ELSE Private(u)
                            /\ b \notin heap \cup freeRecs[u] \cup Private(u)
    BY <1>1, <1>2, <1>3 DEF Private, DeflatedPC, RecordPlacement
  <1>11. RecordPlacement'
    <2>1. \A p \in Objects : monitorRecord'[p] # b /\ monitorRecord'[p] \in {NULL, monitorRecord[p]}
      BY <1>5, <1>6, <1>1, <1>2 DEF MonitorAssumption
    <2>2. Private(t) = {} /\ \A u \in Threads : NULL \notin heap \cup freeRecs[u] \cup Private(u) \cup {b}
      BY <1>1, NullIsFree DEF Private, DeflatedPC, MonitorAssumption, DataOK
    <2>. QED
      BY <1>4, <1>10, <2>1, <2>2 DEF RecordPlacement
  <1>12. PoolReady'
    BY <1>2, <1>4, <1>10 DEF PoolReady
  <1>13. NoUseAfterFree'
    BY <1>3, <1>4 DEF NoUseAfterFree
  <1>14. \A r \in Records : Blocked(r)' = Blocked(r) /\ Waiting(r)' = Waiting(r)
    BY <1>1, <1>3, <1>4 DEF Blocked, Waiting, CountedPC
  <1>15. Counters'
    BY <1>4, <1>14 DEF Counters
  <1>16. StaleRecordIsOwned'
    <2>1. \A u \in Threads : pc[u] \in TryPC => obj[u] \in Objects
      BY DEF TryPC, LocalsSet
    <2>. QED
      BY <1>1, <1>2, <1>3, <1>5, <2>1 DEF StaleRecordIsOwned, DeflatedPC, TryPC
  <1>17. WaitersKeepRecord'
    <2>1. \A u \in Threads : waiter[u].record # NULL => obj[u] \in Objects \ {o}
      BY <1>1, <1>2 DEF WaitersKeepRecord, DeflaterAlone, LocalsSet, WaitFrames
    <2>. QED
      BY <1>3, <1>4, <1>5, <2>1 DEF WaitersKeepRecord
  <1>18. DeflaterAlone' /\ SavedCount'
    BY <1>3, <1>4 DEF DeflaterAlone, SavedCount
  <1>. QED
    BY <1>7, <1>8, <1>9, <1>11, <1>12, <1>13, <1>15, <1>16, <1>17, <1>18

\* vm_object_do_wait saves the locks and keeps the record with nr_waiting.
LEMMA WaitLockSafe ==
  ASSUME Inv, NEW t \in Threads, WaitLock(t)
  PROVE  SafetyInv'
  <1>. USE DEF Inv, SafetyInv, OthersSame
  <1>1. PICK b \in Records, o \in Objects : b = rec[t] /\ o = obj[t] /\ pc[t] = "waitLock"
    BY DEF WaitLock, At, LocalsSet, RecordPC
  <1>2. monitorRecord[o] = b /\ owner[b] = t /\ lockCount[b] > 0
    BY <1>1 DEF HoldersOwn, OwnerHolds, MonitorAssumption
  <1>3. waiter[t].record = NULL
    BY <1>1 DEF WaitFrames, WaitPC, WaitCalls
  <1>4. OthersSame(t) /\ pc'[t] = "ownerCheck" /\ rec'[t] = NULL /\ obj'[t] = o
    BY <1>1, EnterEffect DEF WaitLock
  <1>5. /\ lockCount' = [lockCount EXCEPT ![b] = 1] /\ held' = [held EXCEPT ![t][o] = 1]
        /\ UNCHANGED <<monitorRecord, owner, nrBlocked, heap, freeRecs>>
    BY <1>1 DEF WaitLock, pools
  <1>6. /\ waiter'[t].record = b /\ waiter'[t].lockCount = lockCount[b]
        /\ \A u \in Threads \ {t} : waiter'[u] = waiter[u]
    BY <1>1 DEF WaitLock, DataOK
  <1>7. pc[t] \notin CountedPC \cup PrivatePC
    BY <1>1 DEF CountedPC, PrivatePC, DeflatedPC
  <1>8. /\ MutualExclusion' /\ OwnerHolds' /\ HoldersOwn' /\ RecordPlacement'
        /\ PoolReady' /\ NoUseAfterFree' /\ StaleRecordIsOwned'
        /\ \A r \in Records : nrBlocked'[r] = Cardinality(Blocked(r)')
    <2>1. PICK n \in Nat \ {0} : n = 1
      OBVIOUS
    <2>. QED
      BY <1>2, <1>4, <1>5, <1>6, <1>7, <2>1, RecountSafe
  <1>9. /\ t \notin Waiting(b) /\ Waiting(b)' = Waiting(b) \cup {t}
        /\ \A r \in Records \ {b} : Waiting(r)' = Waiting(r)
    BY <1>3, <1>6 DEF Waiting, MonitorAssumption
  <1>10. Cardinality(Waiting(b)') = Cardinality(Waiting(b)) + 1
    BY <1>9, CountAdd DEF MonitorAssumption, Waiting
  <1>11. /\ nrWaiting'[b] = nrWaiting[b] + 1
         /\ \A r \in Records \ {b} : nrWaiting'[r] = nrWaiting[r]
    BY <1>1 DEF WaitLock, DataOK
  <1>12. \A r \in Records : nrWaiting'[r] = Cardinality(Waiting(r)')
    BY <1>9, <1>10, <1>11 DEF Counters
  <1>13. Counters'
    BY <1>8, <1>12 DEF Counters
  <1>14. WaitersKeepRecord'
    BY <1>2, <1>4, <1>5, <1>6 DEF WaitersKeepRecord
  <1>15. DeflaterAlone'
    BY <1>2, <1>4, <1>6 DEF DeflaterAlone, HoldersOwn
  <1>16. SavedCount'
    BY <1>2, <1>6 DEF SavedCount
  <1>. QED
    BY <1>8, <1>13, <1>14, <1>15, <1>16

\* The end of a wait restores the locks on the record it began with.
LEMMA RelockedSafe ==
  ASSUME Inv, NEW t \in Threads, Relocked(t)
  PROVE  SafetyInv'
  <1>. USE DEF Inv, SafetyInv, OthersSame
  <1>1. PICK b \in Records, o \in Objects : b = waiter[t].record /\ o = obj[t] /\ pc[t] = "relocked"
    BY DEF Relocked, At, LocalsSet, WaitPC
  <1>2. monitorRecord[o] = b /\ owner[b] = t
    BY <1>1 DEF HoldersOwn, WaitersKeepRecord, MonitorAssumption
  <1>3. PICK n \in Nat \ {0} : n = waiter[t].lockCount
    <2>1. waiter[t].lockCount \in Nat
      BY DEF DataOK, Waiter
    <2>2. waiter[t].lockCount > 0
      BY <1>1 DEF SavedCount, MonitorAssumption
    <2>. QED
      BY <2>1, <2>2
  <1>4. Enter(t, "idle", "none", "user", NULL)
    BY <1>1, ReturnCases DEF Relocked, WaitFrames, WaitPC, WaitCalls
  <1>5. OthersSame(t) /\ pc'[t] = "idle" /\ rec'[t] = NULL
    BY <1>4, EnterEffect
  <1>6. /\ lockCount' = [lockCount EXCEPT ![b] = n] /\ held' = [held EXCEPT ![t][o] = n]
        /\ UNCHANGED <<monitorRecord, owner, nrBlocked, heap, freeRecs>>
    BY <1>1, <1>3 DEF Relocked, pools
  <1>7. /\ waiter'[t].record = NULL
        /\ \A u \in Threads \ {t} : waiter'[u] = waiter[u]
    BY <1>1 DEF Relocked, DataOK, NoWaiter
  <1>8. pc[t] \notin CountedPC \cup PrivatePC
    BY <1>1 DEF CountedPC, PrivatePC, DeflatedPC
  <1>9. /\ MutualExclusion' /\ OwnerHolds' /\ HoldersOwn' /\ RecordPlacement'
        /\ PoolReady' /\ NoUseAfterFree' /\ StaleRecordIsOwned'
        /\ \A r \in Records : nrBlocked'[r] = Cardinality(Blocked(r)')
    BY <1>2, <1>3, <1>5, <1>6, <1>7, <1>8, RecountSafe
  <1>10. /\ t \in Waiting(b) /\ Waiting(b)' = Waiting(b) \ {t}
         /\ \A r \in Records \ {b} : Waiting(r)' = Waiting(r)
    BY <1>1, <1>7 DEF Waiting, MonitorAssumption
  <1>11. Cardinality(Waiting(b)') = Cardinality(Waiting(b)) - 1
    BY <1>10, CountRemove DEF MonitorAssumption, Waiting
  <1>12. /\ nrWaiting'[b] = nrWaiting[b] - 1
         /\ \A r \in Records \ {b} : nrWaiting'[r] = nrWaiting[r]
    BY <1>1 DEF Relocked, DataOK
  <1>13. \A r \in Records : nrWaiting'[r] = Cardinality(Waiting(r)')
    BY <1>10, <1>11, <1>12 DEF Counters
  <1>14. Counters'
    BY <1>9, <1>13 DEF Counters
  <1>15. WaitersKeepRecord' /\ DeflaterAlone' /\ SavedCount'
    BY <1>5, <1>6, <1>7 DEF WaitersKeepRecord, DeflaterAlone, SavedCount,
       LocalsSet, RecordPC, MonitorAssumption
  <1>. QED
    BY <1>9, <1>14, <1>15

\* ClearMon keeps SafetyInv.
LEMMA ClearMonSafe ==
  ASSUME Inv, NEW t \in Threads, ClearMon(t)
  PROVE  SafetyInv'
  <1>. USE DEF Inv
  <1>1. SharedSame /\ pc[t] = "clearMon"
    BY DEF ClearMon, At, SharedSame, mon, ownership, counters, pools
  <1>2. OthersSame(t) /\ pc'[t] = "readRecord" /\ rec'[t] = NULL /\ obj'[t] = obj[t]
    BY EnterEffect DEF ClearMon
  <1>. QED
    BY <1>1, <1>2, NullIsFree, QuietStep DEF SharedSame, CountedPC, PrivatePC,
       DeflatedPC, HoldPC, TryPC

\* The end of a timed wait keeps SafetyInv.
LEMMA TimeoutSafe ==
  ASSUME Inv, NEW t \in Threads, Timeout(t)
  PROVE  SafetyInv'
  <1>. USE DEF Inv
  <1>1. SharedSame /\ pc[t] = "asleep" /\ UNCHANGED <<pc, rec, obj>>
    BY DEF Timeout, At, SharedSame, ownership, counters, pools, control, rest
  <1>2. rec[t] \notin heap
    BY DEF SafetyInv, NoUseAfterFree
  <1>. QED
    BY <1>1, <1>2, QuietStep
       DEF OthersSame, SharedSame, CountedPC, PrivatePC, DeflatedPC, HoldPC, TryPC

\* A thread that is idle starts a call of vm/monitor.c.
LEMMA CallSafe ==
  ASSUME Inv, NEW t \in Threads, SharedSame, pc[t] = "idle",
         NEW label \in {"readRecord", "ownerCheck"}, NEW f, NEW by, NEW o,
         Enter(t, label, f, by, o)
  PROVE  SafetyInv'
  <1>. USE DEF Inv
  <1>1. OthersSame(t) /\ pc'[t] = label /\ rec'[t] = NULL
    BY EnterEffect
  <1>2. waiter[t].record = NULL
    BY DEF WaitFrames
  <1>. QED
    BY <1>1, <1>2, NullIsFree, QuietStep DEF SharedSame, CountedPC, PrivatePC,
       DeflatedPC, HoldPC, TryPC

\* vm_thread_interrupt keeps SafetyInv.
LEMMA InterruptSafe ==
  ASSUME Inv, NEW t \in Threads, NEW u \in Threads, Interrupt(t, u)
  PROVE  SafetyInv'
  <1>. USE DEF Inv
  <1>1. SharedSame /\ pc[t] = "idle"
    BY DEF Interrupt, At, SharedSame, mon, ownership, counters, pools
  <1>2. CASE UNCHANGED control
    <2>1. rec[t] \notin heap
      BY DEF SafetyInv, NoUseAfterFree
    <2>. QED
      BY <1>1, <1>2, <2>1, QuietStep
         DEF OthersSame, SharedSame, control, CountedPC, PrivatePC, DeflatedPC, HoldPC, TryPC
  <1>3. CASE Enter(t, "readRecord", "lock", "interrupt", waitingMon[u])
    BY <1>1, <1>3, CallSafe
  <1>. QED
    BY <1>2, <1>3 DEF Interrupt

\* free_exec_env: this is where an end that is not quiescent goes wrong.
LEMMA ExitSafe ==
  ASSUME Inv, QuiescentExit, NEW t \in Threads, Exit(t)
  PROVE  SafetyInv'
  <1>. USE DEF Inv, SafetyInv, OthersSame
  <1>1. /\ OthersSame(t) /\ pc[t] = "idle" /\ pc'[t] = "dead"
        /\ rec'[t] = rec[t] /\ obj'[t] = obj[t]
    BY GotoEffect DEF Exit, At, Goto
  <1>2. UNCHANGED <<monitorRecord, owner, lockCount, nrBlocked, nrWaiting, held, waiter>>
    BY DEF Exit, mon, ownership, counters
  <1>3. /\ heap' = heap \cup freeRecs[t] /\ freeRecs'[t] = {}
        /\ \A u \in Threads \ {t} : freeRecs'[u] = freeRecs[u]
        /\ \A u \in Threads : rec[u] \notin freeRecs[t]
    BY DEF Exit, DataOK
  <1>4. MutualExclusion' /\ OwnerHolds' /\ HoldersOwn'
    BY <1>1, <1>2 DEF MutualExclusion, OwnerHolds, HoldersOwn
  <1>5. \A u \in Threads : Private(u)' = Private(u)
    BY <1>1 DEF Private, DeflatedPC
  <1>6. RecordPlacement' /\ PoolReady'
    BY <1>2, <1>3, <1>5 DEF RecordPlacement, PoolReady
  <1>7. NoUseAfterFree'
    BY <1>1, <1>3 DEF NoUseAfterFree
  <1>8. \A r \in Records : Blocked(r)' = Blocked(r) /\ Waiting(r)' = Waiting(r)
    BY <1>1, <1>2 DEF Blocked, Waiting, CountedPC
  <1>9. Counters'
    BY <1>2, <1>8 DEF Counters
  <1>10. StaleRecordIsOwned'
    BY <1>1, <1>2 DEF StaleRecordIsOwned, DeflatedPC
  <1>11. WaitersKeepRecord' /\ DeflaterAlone' /\ SavedCount'
    BY <1>1, <1>2 DEF WaitersKeepRecord, DeflaterAlone, SavedCount
  <1>. QED
    BY <1>4, <1>6, <1>7, <1>9, <1>10, <1>11

\* A thread starts again with an empty pool.
LEMMA SpawnSafe ==
  ASSUME Inv, NEW t \in Threads, Spawn(t)
  PROVE  SafetyInv'
  <1>. USE DEF Inv
  <1>1. SharedSame /\ pc[t] = "dead"
    BY DEF Spawn, At, SharedSame, mon, ownership, counters, pools, rest
  <1>2. OthersSame(t) /\ pc'[t] = "idle" /\ rec'[t] = rec[t] /\ obj'[t] = obj[t]
    BY GotoEffect DEF Spawn, Goto
  <1>3. rec[t] \notin heap
    BY DEF SafetyInv, NoUseAfterFree
  <1>. QED
    BY <1>1, <1>2, <1>3, QuietStep DEF SharedSame, CountedPC, PrivatePC,
       DeflatedPC, HoldPC, TryPC

\* A call begins.
LEMMA RequestSafe ==
  ASSUME Inv, QuiescentExit, NEW t \in Threads, Request(t)
  PROVE  SafetyInv'
  <1>1. ASSUME NEW o \in Objects, Lock(t, o) PROVE SafetyInv'
    <2>1. SharedSame /\ pc[t] = "idle" /\ Enter(t, "readRecord", "lock", "user", o)
      BY <1>1 DEF Lock, At, SharedSame, mon, ownership, counters, pools, rest
    <2>. QED
      BY <2>1, CallSafe
  <1>2. ASSUME NEW o \in Objects, NEW f \in CheckingOps, Call(t, f, o) PROVE SafetyInv'
    <2>1. SharedSame /\ pc[t] = "idle" /\ Enter(t, "ownerCheck", f, "user", o)
      BY <1>2 DEF Call, At, SharedSame, mon, ownership, counters, pools, rest
    <2>. QED
      BY <2>1, CallSafe
  <1>. QED
    BY <1>1, <1>2, InterruptSafe, ExitSafe, SpawnSafe DEF Request

-----------------------------------------------------------------------------
(* The theorem                                                             *)

\* No object is locked and no record allocated initially.
LEMMA SafetyInit == MonitorAssumption /\ Init => SafetyInv
  <1>. SUFFICES ASSUME MonitorAssumption, Init PROVE SafetyInv
    OBVIOUS
  <1>1. MutualExclusion /\ OwnerHolds /\ HoldersOwn
    BY DEF Init, MutualExclusion, OwnerHolds, HoldersOwn
  <1>2. \A t \in Threads : Private(t) = {}
    BY DEF Init, Private, DeflatedPC
  <1>3. RecordPlacement /\ PoolReady /\ NoUseAfterFree
    BY <1>2 DEF Init, RecordPlacement, PoolReady, NoUseAfterFree,
       MonitorAssumption
  <1>4. \A r \in Records : Blocked(r) = {} /\ Waiting(r) = {}
    BY DEF Init, Blocked, Waiting, CountedPC, NoWaiter, MonitorAssumption
  <1>5. Counters
    BY <1>4, FS_EmptySet DEF Init, Counters
  <1>6. StaleRecordIsOwned /\ WaitersKeepRecord /\ DeflaterAlone /\ SavedCount
    BY DEF Init, StaleRecordIsOwned, WaitersKeepRecord, DeflaterAlone,
       SavedCount, NoWaiter
  <1>. QED
    BY <1>1, <1>3, <1>5, <1>6 DEF SafetyInv

\* Every step keeps SafetyInv.
LEMMA SafetyStep ==
  ASSUME MonitorAssumption, QuiescentExit, TypeInv, SafetyInv, [Next]_vars
  PROVE  SafetyInv'
  <1>1. Inv
    BY TypeParts DEF Inv, TypeInv
  <1>2. ASSUME NEW t \in Threads, Step(t) PROVE SafetyInv'
    BY <1>1, <1>2, ReadRecordSafe, CasRecordSafe, IncBlockedSafe, LoopSafe,
       SetCandidateSafe,
       CasOwnerSafe, SemWaitSafe, DecBlockedSafe, OwnerCheckSafe, TestBlockedSafe, ReleaseSafe,
       WakeOneSafe, SemPostSafe, DeflateSafe, RecheckSafe, FlushSafe, SpinSafe, WaitLockSafe,
       CondWaitSafe, WakeupSafe, ClearMonSafe, RelockedSafe, NotifySafe DEF Step
  <1>3. ASSUME NEW t \in Threads, Request(t) PROVE SafetyInv'
    BY <1>1, <1>3, RequestSafe
  <1>4. CASE UNCHANGED vars
    <2>1. SharedSame /\ UNCHANGED <<pc, rec, obj>>
      BY <1>4 DEF vars, SharedSame, mon, ownership, counters, pools, control,
         rest
    <2>2. /\ \A u \in Threads : Private(u)' = Private(u)
          /\ \A r \in Records : Blocked(r)' = Blocked(r) /\ Waiting(r)' = Waiting(r)
      BY <2>1 DEF Private, Blocked, Waiting, SharedSame
    <2>. QED
      BY <2>1, <2>2 DEF SafetyInv, SharedSame, MutualExclusion, OwnerHolds,
         HoldersOwn,
         RecordPlacement, PoolReady, NoUseAfterFree, Counters, StaleRecordIsOwned,
         WaitersKeepRecord, DeflaterAlone, SavedCount
  <1>. QED
    BY <1>1, <1>2, <1>3, <1>4, TimeoutSafe DEF Next

\* The inductive invariant holds for every number of threads, objects and
\* records, provided that a thread ends only when no other thread still holds
\* a record of its pool.
THEOREM SafetyInvariant == QuiescentExit => (Spec => []SafetyInv)
  <1>. SUFFICES ASSUME QuiescentExit PROVE Spec => []SafetyInv
    OBVIOUS
  <1>1. Init => SafetyInv
    BY SafetyInit, MonitorAssumption
  <1>2. TypeInv /\ SafetyInv /\ [Next]_vars => SafetyInv'
    BY SafetyStep, MonitorAssumption
  <1>. QED
    BY <1>1, <1>2, TypeInvariant, PTL DEF Spec

\* vm_object_lock grants a monitor to one thread at a time, and a wait gives
\* it up and gets it back with the same lock count.
THEOREM Exclusion == QuiescentExit => (Spec => []MutualExclusion)
  <1>. SUFFICES ASSUME QuiescentExit PROVE Spec => []MutualExclusion
    OBVIOUS
  <1>1. SafetyInv => MutualExclusion
    BY DEF SafetyInv
  <1>. QED
    BY <1>1, SafetyInvariant, PTL

\* Inflation and deflation never let one record serve two objects, two pools
\* or an object and a pool.
THEOREM Placement == QuiescentExit => (Spec => []RecordPlacement)
  <1>. SUFFICES ASSUME QuiescentExit PROVE Spec => []RecordPlacement
    OBVIOUS
  <1>1. SafetyInv => RecordPlacement
    BY DEF SafetyInv
  <1>. QED
    BY <1>1, SafetyInvariant, PTL

\* The counters on which vm_object_unlock decides to detach and to recycle a
\* record say how many threads block and wait on it.
THEOREM CountersExact == QuiescentExit => (Spec => []Counters)
  <1>. SUFFICES ASSUME QuiescentExit PROVE Spec => []Counters
    OBVIOUS
  <1>1. SafetyInv => Counters
    BY DEF SafetyInv
  <1>. QED
    BY <1>1, SafetyInvariant, PTL

\* A deflated record is recycled only when no thread can still take it.
THEOREM StaleRecords == QuiescentExit => (Spec => []StaleRecordIsOwned)
  <1>. SUFFICES ASSUME QuiescentExit PROVE Spec => []StaleRecordIsOwned
    OBVIOUS
  <1>1. SafetyInv => StaleRecordIsOwned
    BY DEF SafetyInv
  <1>. QED
    BY <1>1, SafetyInvariant, PTL

\* The record of an object stays attached for the whole of a wait, as the
\* assertion at the end of vm_object_do_wait says.
THEOREM WaitKeepsRecord == QuiescentExit => (Spec => []WaitersKeepRecord)
  <1>. SUFFICES ASSUME QuiescentExit PROVE Spec => []WaitersKeepRecord
    OBVIOUS
  <1>1. SafetyInv => WaitersKeepRecord
    BY DEF SafetyInv
  <1>. QED
    BY <1>1, SafetyInvariant, PTL

\* A record in a pool is what get_monitor_record promises: owned by its thread
\* and locked once.
THEOREM PoolIsReady == QuiescentExit => (Spec => []PoolReady)
  <1>. SUFFICES ASSUME QuiescentExit PROVE Spec => []PoolReady
    OBVIOUS
  <1>1. SafetyInv => PoolReady
    BY DEF SafetyInv
  <1>. QED
    BY <1>1, SafetyInvariant, PTL

-----------------------------------------------------------------------------
(* Wakeups                                                                 *)

\* A semaphore has room for a post to every thread but the one that posts.
EnoughPosts == Cardinality(Threads) <= SEM_VALUE_MAX + 1

\* The threads in the loop of vm_object_lock that have seen record r attached
Trying(r) == {t \in Threads : pc[t] \in TryPC /\ rec[t] = r}

\* Thread t comes to try record r again, or lets another one do so.
Retries(t, r) ==
  /\ rec[t] = r
  /\ \/ pc[t] \in {"loop", "setCandidate"} /\ monitorRecord[obj[t]] = r
     \/ pc[t] = "semPost"

\* Thread t will take record r if it is free, or wake up a candidate for it.
Takes(t, r) ==
  \/ Retries(t, r)
  \/ pc[t] = "casOwner" /\ rec[t] = r
  \/ pc[t] = "wakeOne" /\ rec[t] = r /\ candidate[r] = 1

\* A thread that is about to sleep, or sleeps, without a post for it is
\* announced in .candidate of the attached record, unless another thread
\* will see to it.
Announced ==
  \A t \in Threads :
    /\ pc[t] \in {"casOwner", "semWait"}
    /\ monitorRecord[obj[t]] = rec[t] /\ sem[rec[t]] = 0
    => candidate[rec[t]] = 1 \/ \E u \in Threads : Retries(u, rec[t])

\* When nobody owns the attached record, some thread is awake for a sleeper.
SomebodyTakes ==
  \A t \in Threads :
    /\ pc[t] = "semWait"
    /\ monitorRecord[obj[t]] = rec[t] /\ sem[rec[t]] = 0 /\ owner[rec[t]] = NULL
    => \E u \in Threads : Takes(u, rec[t])

\* The flushing loop posts once for every thread that may sleep on the
\* detached record.
FlushPosts ==
  \A t \in Threads :
    /\ pc[t] = "flush" => Cardinality(Trying(rec[t])) <= sem[rec[t]] + toPost[t]
    /\ pc[t] = "spin" => Cardinality(Trying(rec[t])) <= sem[rec[t]]

WakeupInv == Announced /\ SomebodyTakes /\ FlushPosts

\* A record that a thread has detached or not yet attached is the record of no
\* object and of no other such thread.
LEMMA PrivateAlone ==
  ASSUME Inv, NEW t \in Threads, pc[t] \in PrivatePC
  PROVE  /\ rec[t] \in Records
         /\ \A o \in Objects : monitorRecord[o] # rec[t]
         /\ \A u \in Threads \ {t} : pc[u] \in PrivatePC => rec[u] # rec[t]
  <1>1. rec[t] \in Records /\ \A u \in Threads : pc[u] \in PrivatePC => rec[u] \in Records
    BY DEF Inv, LocalsSet, RecordPC, PrivatePC
  <1>2. \A u \in Threads : pc[u] \in PrivatePC => rec[u] \in Private(u)
    BY <1>1 DEF Private, PrivatePC
  <1>. QED
    BY <1>1, <1>2 DEF Inv, SafetyInv, RecordPlacement

\* A thread that has seen its record attached finds it so, or detached by a
\* thread that waits for it.
LEMMA TryingRecord ==
  ASSUME Inv, NEW t \in Threads, pc[t] \in TryPC
  PROVE  /\ rec[t] \in Records /\ obj[t] \in Objects
         /\ \/ monitorRecord[obj[t]] = rec[t]
            \/ \E u \in Threads : pc[u] \in DeflatedPC /\ rec[u] = rec[t]
  BY DEF Inv, LocalsSet, RecordPC, CountedPC, TryPC, SafetyInv, StaleRecordIsOwned

\* They are finitely many.
LEMMA TryingCount ==
  ASSUME Inv, NEW r
  PROVE  IsFiniteSet(Trying(r)) /\ Cardinality(Trying(r)) \in Nat
  <1>1. IsFiniteSet(Trying(r))
    BY FS_Subset DEF Inv, MonitorAssumption, Trying
  <1>. QED
    BY <1>1, FS_CardinalityType

\* A step that leaves alone what the sleepers of other records and the
\* flushing loops of others depend on
LEMMA QuietWakeups ==
  ASSUME WakeupInv, NEW t \in Threads, OthersSame(t),
         pc[t] \notin TryPC \cup {"loop", "semPost", "wakeOne"},
         pc'[t] \notin TryPC \cup {"flush", "spin"},
         \A u \in Threads \ {t} : pc[u] \in {"casOwner", "semWait"} =>
           /\ owner'[rec[u]] = owner[rec[u]] /\ candidate'[rec[u]] = candidate[rec[u]]
           /\ sem'[rec[u]] = sem[rec[u]]
           /\ monitorRecord'[obj[u]] = rec[u] => monitorRecord[obj[u]] = rec[u],
         \A u, v \in Threads \ {t} :
           /\ pc[u] \in {"casOwner", "semWait"} /\ monitorRecord'[obj[u]] = rec[u]
           /\ pc[v] \in {"loop", "setCandidate"} /\ monitorRecord[obj[v]] = rec[v]
           /\ rec[v] = rec[u]
           => monitorRecord'[obj[v]] = rec[v],
         \A u \in Threads \ {t} : pc[u] \in {"flush", "spin"} =>
           sem'[rec[u]] = sem[rec[u]] /\ toPost'[u] = toPost[u]
  PROVE  WakeupInv'
  <1>. USE DEF OthersSame
  <1>1. ASSUME NEW u \in Threads \ {t}, NEW v \in Threads,
               pc[u] \in {"casOwner", "semWait"}, monitorRecord'[obj[u]] = rec[u]
        PROVE  /\ Retries(v, rec[u]) => Retries(v, rec[u])'
               /\ Takes(v, rec[u]) => Takes(v, rec[u])'
    <2>1. CASE v = t
      BY <1>1, <2>1 DEF Retries, Takes, TryPC
    <2>2. CASE v # t
      BY <1>1, <2>2 DEF Retries, Takes
    <2>. QED
      BY <2>1, <2>2
  <1>2. Announced'
    <2>. SUFFICES ASSUME NEW u \in Threads, (pc[u] \in {"casOwner", "semWait"})',
                         (monitorRecord[obj[u]] = rec[u] /\ sem[rec[u]] = 0)'
                  PROVE  (candidate[rec[u]] = 1 \/ \E v \in Threads : Retries(v, rec[u]))'
      BY DEF Announced
    <2>1. u # t
      BY DEF TryPC
    <2>2. /\ pc[u] \in {"casOwner", "semWait"} /\ rec'[u] = rec[u] /\ obj'[u] = obj[u]
          /\ monitorRecord[obj[u]] = rec[u] /\ sem[rec[u]] = 0
          /\ candidate'[rec[u]] = candidate[rec[u]]
      BY <2>1
    <2>3. candidate[rec[u]] = 1 \/ \E v \in Threads : Retries(v, rec[u])
      BY <2>2 DEF WakeupInv, Announced
    <2>4. ASSUME NEW v \in Threads, Retries(v, rec[u]) PROVE Retries(v, rec[u])'
      BY <2>1, <2>2, <2>4, <1>1 DEF Retries
    <2>. QED
      BY <2>2, <2>3, <2>4
  <1>3. SomebodyTakes'
    <2>. SUFFICES ASSUME NEW u \in Threads, (pc[u] = "semWait")',
                         (monitorRecord[obj[u]] = rec[u] /\ sem[rec[u]] = 0 /\ owner[rec[u]] = NULL)'
                  PROVE  (\E v \in Threads : Takes(v, rec[u]))'
      BY DEF SomebodyTakes
    <2>1. u # t
      BY DEF TryPC
    <2>2. /\ pc[u] = "semWait" /\ rec'[u] = rec[u] /\ obj'[u] = obj[u]
          /\ monitorRecord[obj[u]] = rec[u] /\ sem[rec[u]] = 0 /\ owner[rec[u]] = NULL
      BY <2>1
    <2>3. PICK v \in Threads : Takes(v, rec[u])
      BY <2>2 DEF WakeupInv, SomebodyTakes
    <2>4. Takes(v, rec[u])'
      BY <2>1, <2>2, <2>3, <1>1 DEF Takes, Retries
    <2>. QED
      BY <2>4
  <1>4. FlushPosts'
    <2>1. \A r : Trying(r)' = Trying(r)
      BY DEF Trying
    <2>2. ASSUME NEW u \in Threads, pc'[u] \in {"flush", "spin"}
          PROVE  /\ pc[u] = pc'[u] /\ rec'[u] = rec[u]
                 /\ sem'[rec[u]] = sem[rec[u]] /\ toPost'[u] = toPost[u]
      BY <2>2
    <2>. QED
      BY <2>1, <2>2 DEF FlushPosts, WakeupInv
  <1>. QED
    BY <1>2, <1>3, <1>4 DEF WakeupInv

WakeupsSame ==
  UNCHANGED <<monitorRecord, owner, candidate, sem, toPost>>

\* A step that leaves records and semaphores alone keeps the wakeups, when its
\* thread is not one that others count on.
LEMMA SameWakeups ==
  ASSUME WakeupInv, NEW t \in Threads, OthersSame(t), WakeupsSame,
         pc[t] \notin TryPC \cup {"loop", "semPost", "wakeOne"},
         pc'[t] \notin TryPC \cup {"flush", "spin"}
  PROVE  WakeupInv'
  BY QuietWakeups DEF OthersSame, WakeupsSame

\* nr_blocked counts nobody in or out whom somebody sleeps for.
LEMMA CountingWakeups ==
  ASSUME Inv, WakeupInv, NEW t \in Threads, IncBlocked(t) \/ DecBlocked(t)
  PROVE  WakeupInv'
  <1>. USE DEF Inv
  <1>1. WakeupsSame
    BY DEF IncBlocked, DecBlocked, WakeupsSame, ownership, wakeups, rest
  <1>2. CASE IncBlocked(t)
    <2>1. OthersSame(t) /\ pc[t] = "incBlocked" /\ pc'[t] = "loop"
      BY <1>2, GotoEffect DEF IncBlocked, At, Goto
    <2>. QED
      BY <1>1, <2>1, SameWakeups DEF TryPC
  <1>3. CASE DecBlocked(t)
    <2>1. /\ OthersSame(t) /\ pc[t] \in {"decAcquired", "decBlocked"}
          /\ pc'[t] \in {"condWait", "relocked", "ownerCheck", "idle", "readRecord"}
      BY <1>3, GotoEffect, ReturnEffect DEF DecBlocked, At, WaitPC
    <2>. QED
      BY <1>1, <2>1, SameWakeups DEF TryPC
  <1>. QED
    BY <1>2, <1>3

\* owner_check, the test of nr_blocked and the steps of vm_object_do_wait and of
\* a notify wake nobody in sem_wait.
LEMMA WaitWakeups ==
  ASSUME Inv, WakeupInv, NEW t \in Threads,
         \/ OwnerCheck(t) \/ TestBlocked(t) \/ WaitLock(t) \/ CondWait(t) \/ Wakeup(t)
         \/ ClearMon(t) \/ Relocked(t) \/ Notify(t) \/ Timeout(t)
  PROVE  WakeupInv'
  <1>. USE DEF Inv
  <1>1. WakeupsSame
    BY DEF OwnerCheck, TestBlocked, WaitLock, CondWait, Wakeup, ClearMon, Relocked, Notify,
       Timeout, WakeupsSame, mon, ownership, wakeups, rest
  <1>2. CASE OwnerCheck(t)
    <2>1. pc[t] = "ownerCheck"
      BY <1>2 DEF OwnerCheck, At
    <2>2. CASE Return(t)
      <3>1. OthersSame(t) /\ pc'[t] \in {"condWait", "relocked", "ownerCheck", "idle"}
        BY <2>1, <2>2, ReturnEffect DEF WaitPC
      <3>. QED
        BY <1>1, <2>1, <3>1, SameWakeups DEF TryPC
    <2>3. CASE GotoWith(t, Checked(op[t]), monitorRecord[obj[t]])
      <3>1. OthersSame(t) /\ pc'[t] = Checked(op[t])
        BY <2>3, GotoEffect
      <3>. QED
        BY <1>1, <2>1, <3>1, SameWakeups DEF TryPC, Checked
    <2>. QED
      BY <1>2, <2>2, <2>3 DEF OwnerCheck
  <1>3. CASE TestBlocked(t)
    <2>1. OthersSame(t) /\ pc[t] = "testBlocked" /\ pc'[t] \in {"release", "deflate"}
      BY <1>3, GotoEffect DEF TestBlocked, At, Goto
    <2>. QED
      BY <1>1, <2>1, SameWakeups DEF TryPC
  <1>4. CASE WaitLock(t)
    <2>1. OthersSame(t) /\ pc[t] = "waitLock" /\ pc'[t] = "ownerCheck"
      BY <1>4, EnterEffect DEF WaitLock, At
    <2>. QED
      BY <1>1, <2>1, SameWakeups DEF TryPC
  <1>5. CASE CondWait(t)
    <2>1. OthersSame(t) /\ pc[t] = "condWait" /\ pc'[t] \in {"asleep", "clearMon"}
      BY <1>5, GotoEffect DEF CondWait, At, Goto
    <2>. QED
      BY <1>1, <2>1, SameWakeups DEF TryPC
  <1>6. CASE Wakeup(t)
    <2>1. OthersSame(t) /\ pc[t] = "asleep" /\ pc'[t] = "clearMon"
      BY <1>6, GotoEffect DEF Wakeup, At, Goto
    <2>. QED
      BY <1>1, <2>1, SameWakeups DEF TryPC
  <1>7. CASE ClearMon(t)
    <2>1. OthersSame(t) /\ pc[t] = "clearMon" /\ pc'[t] = "readRecord"
      BY <1>7, EnterEffect DEF ClearMon, At
    <2>. QED
      BY <1>1, <2>1, SameWakeups DEF TryPC
  <1>8. CASE Relocked(t)
    <2>1. caller[t] = "user" /\ pc[t] = "relocked"
      BY <1>8 DEF Relocked, At, WaitFrames, WaitPC
    <2>2. Enter(t, "idle", "none", "user", NULL)
      BY <1>8, <2>1 DEF Relocked, Return
    <2>3. OthersSame(t) /\ pc'[t] = "idle"
      BY <2>2, EnterEffect
    <2>. QED
      BY <1>1, <2>1, <2>3, SameWakeups DEF TryPC
  <1>9. CASE Notify(t)
    <2>1. /\ OthersSame(t) /\ pc[t] = "notifyLock"
          /\ pc'[t] \in {"condWait", "relocked", "ownerCheck", "idle"}
      BY <1>9, ReturnEffect DEF Notify, At, WaitPC
    <2>. QED
      BY <1>1, <2>1, SameWakeups DEF TryPC
  <1>10. CASE Timeout(t)
    <2>1. OthersSame(t) /\ pc[t] = "asleep" /\ pc'[t] = "asleep"
      BY <1>10 DEF Timeout, At, control, OthersSame
    <2>. QED
      BY <1>1, <2>1, SameWakeups DEF TryPC
  <1>. QED
    BY <1>2, <1>3, <1>4, <1>5, <1>6, <1>7, <1>8, <1>9, <1>10

\* Nor does the beginning of a call or the end of a thread.
LEMMA RequestWakeups ==
  ASSUME Inv, WakeupInv, NEW t \in Threads, Request(t)
  PROVE  WakeupInv'
  <1>. USE DEF Inv
  <1>1. /\ OthersSame(t) /\ WakeupsSame /\ pc[t] \in {"idle", "dead"}
        /\ pc'[t] \in {"readRecord", "ownerCheck", "idle", "dead"}
    <2>. USE DEF WakeupsSame, mon, ownership, wakeups, rest, At
    <2>1. ASSUME NEW o \in Objects, Lock(t, o) PROVE <1>1
      BY <2>1, EnterEffect DEF Lock
    <2>2. ASSUME NEW o \in Objects, NEW f \in CheckingOps, Call(t, f, o) PROVE <1>1
      BY <2>2, EnterEffect DEF Call
    <2>3. ASSUME NEW u \in Threads, Interrupt(t, u) PROVE <1>1
      <3>1. CASE UNCHANGED control
        BY <2>3, <3>1 DEF Interrupt, control, OthersSame
      <3>2. CASE Enter(t, "readRecord", "lock", "interrupt", waitingMon[u])
        BY <2>3, <3>2, EnterEffect DEF Interrupt
      <3>. QED
        BY <2>3, <3>1, <3>2 DEF Interrupt
    <2>4. CASE Exit(t)
      BY <2>4, GotoEffect DEF Exit, Goto
    <2>5. CASE Spawn(t)
      BY <2>5, GotoEffect DEF Spawn, Goto
    <2>. QED
      BY <2>1, <2>2, <2>3, <2>4, <2>5 DEF Request
  <1>. QED
    BY <1>1, SameWakeups DEF TryPC

\* The inflation of an object that has no record, and a recursive lock
LEMMA ReadRecordWakeups ==
  ASSUME Inv, WakeupInv, NEW t \in Threads, ReadRecord(t)
  PROVE  WakeupInv'
  <1>. USE DEF Inv
  <1>1. UNCHANGED <<monitorRecord, toPost>> /\ pc[t] = "readRecord"
    BY DEF ReadRecord, rest, At
  <1>2. /\ OthersSame(t)
        /\ pc'[t] \in {"condWait", "relocked", "ownerCheck", "idle", "incBlocked", "casRecord"}
    <2>1. CASE Return(t)
      BY <1>1, <2>1, ReturnEffect DEF WaitPC
    <2>2. CASE GotoWith(t, "incBlocked", monitorRecord[obj[t]])
      BY <2>2, GotoEffect
    <2>3. ASSUME NEW n \in Records, GotoWith(t, "casRecord", n)
          PROVE  <1>2
      BY <2>3, GotoEffect
    <2>4. CASE ReturnError(t)
      <3>1. CASE Enter(t, "idle", "none", "user", NULL)
        BY <3>1, EnterEffect
      <3>. QED
        BY <2>1, <2>4, <3>1 DEF ReturnError
    <2>. QED
      BY <2>1, <2>2, <2>3, <2>4 DEF ReadRecord
  <1>3. \A u \in Threads : rec[u] \in Records =>
          /\ owner'[rec[u]] = owner[rec[u]] /\ candidate'[rec[u]] = candidate[rec[u]]
          /\ sem'[rec[u]] = sem[rec[u]]
    <2>1. CASE UNCHANGED <<owner, wakeups>>
      BY <2>1 DEF wakeups
    <2>2. ASSUME NEW n \in heap,
                 owner' = [owner EXCEPT ![n] = t], candidate' = [candidate EXCEPT ![n] = 0],
                 sem' = [sem EXCEPT ![n] = 0]
          PROVE  <1>3
      BY <2>2 DEF DataOK, SafetyInv, NoUseAfterFree
    <2>. QED
      BY <2>1, <2>2 DEF ReadRecord, TakeRecord, mon, ownership
  <1>4. \A u \in Threads : pc[u] \in TryPC \cup {"flush", "spin"} => rec[u] \in Records
    BY DEF LocalsSet, RecordPC, CountedPC, TryPC, DeflatedPC
  <1>. QED
    BY <1>1, <1>2, <1>3, <1>4, QuietWakeups DEF TryPC

\* A record is attached: nobody has tried it before.
LEMMA CasRecordWakeups ==
  ASSUME Inv, WakeupInv, NEW t \in Threads, CasRecord(t)
  PROVE  WakeupInv'
  <1>. USE DEF Inv
  <1>1. pc[t] = "casRecord" /\ UNCHANGED <<owner, candidate, sem, toPost>>
    BY DEF CasRecord, At, mon, ownership, wakeups, rest
  <1>2. OthersSame(t) /\ pc'[t] \in {"condWait", "relocked", "ownerCheck", "idle", "readRecord"}
    BY <1>1, GotoEffect, ReturnEffect DEF CasRecord, WaitPC
  <1>3. CASE monitorRecord' = monitorRecord
    BY <1>1, <1>2, <1>3, SameWakeups DEF WakeupsSame, TryPC
  <1>4. CASE /\ monitorRecord[obj[t]] = NULL
             /\ monitorRecord' = [monitorRecord EXCEPT ![obj[t]] = rec[t]]
    <2>1. obj[t] \in Objects
      BY <1>1 DEF LocalsSet
    <2>2. ASSUME NEW u \in Threads \ {t}, pc[u] \in {"casOwner", "semWait"},
                 monitorRecord'[obj[u]] = rec[u]
          PROVE  monitorRecord[obj[u]] = rec[u]
      <3>1. obj[u] \in Objects
        BY <2>2, TryingRecord DEF TryPC
      <3>2. SUFFICES ASSUME obj[u] = obj[t] PROVE FALSE
        BY <1>4, <2>1, <2>2, <3>1 DEF DataOK
      <3>3. rec[u] = rec[t]
        BY <1>4, <2>1, <2>2, <3>2 DEF DataOK
      <3>4. monitorRecord[obj[u]] # rec[u]
        BY <1>1, <3>1, <3>3, PrivateAlone DEF PrivatePC
      <3>5. PICK v \in Threads : pc[v] \in DeflatedPC /\ rec[v] = rec[t]
        BY <2>2, <3>3, <3>4, TryingRecord DEF TryPC
      <3>6. v # t
        BY <1>1, <3>5 DEF DeflatedPC
      <3>. QED
        BY <1>1, <3>5, <3>6, PrivateAlone DEF PrivatePC
    <2>3. ASSUME NEW u \in Threads, pc[u] \in {"loop", "setCandidate"},
                 monitorRecord[obj[u]] = rec[u]
          PROVE  monitorRecord'[obj[u]] = rec[u]
      <3>1. rec[u] \in Records /\ obj[u] \in Objects
        BY <2>3 DEF LocalsSet, RecordPC, CountedPC
      <3>. QED
        BY <1>4, <2>1, <2>3, <3>1 DEF DataOK, MonitorAssumption
    <2>. QED
      BY <1>1, <1>2, <2>2, <2>3, QuietWakeups DEF TryPC
  <1>. QED
    BY <1>3, <1>4 DEF CasRecord

\* A record is detached: who sleeps on it has to be flushed, the others do not
\* notice.
LEMMA DeflateWakeups ==
  ASSUME Inv, WakeupInv, NEW t \in Threads, Deflate(t)
  PROVE  WakeupInv'
  <1>. USE DEF Inv
  <1>1. /\ pc[t] = "deflate" /\ UNCHANGED <<owner, candidate, sem, toPost>>
        /\ monitorRecord' = [monitorRecord EXCEPT ![obj[t]] = NULL]
    BY DEF Deflate, At, mon, ownership, wakeups, rest
  <1>2. OthersSame(t) /\ pc'[t] = "recheck"
    BY GotoEffect DEF Deflate, Goto
  <1>3. obj[t] \in Objects
    BY <1>1 DEF LocalsSet
  <1>4. \A u \in Threads : pc[u] \in CountedPC => obj[u] \in Objects /\ rec[u] \in Records
    BY DEF LocalsSet, RecordPC, CountedPC
  <1>5. ASSUME NEW u \in Threads, pc[u] \in CountedPC, monitorRecord'[obj[u]] = rec[u]
        PROVE  obj[u] # obj[t] /\ monitorRecord[obj[u]] = rec[u]
    BY <1>1, <1>3, <1>4, <1>5 DEF DataOK, MonitorAssumption
  <1>6. ASSUME NEW u \in Threads, pc[u] \in CountedPC, monitorRecord'[obj[u]] = rec[u],
               NEW v \in Threads, pc[v] \in CountedPC, monitorRecord[obj[v]] = rec[v],
               rec[v] = rec[u]
        PROVE  monitorRecord'[obj[v]] = rec[v]
    <2>1. obj[v] = obj[u]
      BY <1>4, <1>5, <1>6 DEF SafetyInv, RecordPlacement, MonitorAssumption
    <2>. QED
      BY <1>6, <2>1
  <1>. QED
    BY <1>1, <1>2, <1>5, <1>6, QuietWakeups DEF TryPC, CountedPC

\* The flushing loop starts with the number of the blocked threads, which are
\* all that may sleep.
LEMMA RecheckWakeups ==
  ASSUME Inv, WakeupInv, NEW t \in Threads, Recheck(t)
  PROVE  WakeupInv'
  <1>. USE DEF Inv
  <1>1. pc[t] = "recheck" /\ UNCHANGED <<monitorRecord, owner, candidate, sem>>
    BY DEF Recheck, At, mon, ownership, wakeups
  <1>2. rec[t] \in Records
    BY <1>1 DEF LocalsSet, RecordPC, DeflatedPC
  <1>3. CASE UNCHANGED toPost /\ Return(t)
    <2>1. OthersSame(t) /\ pc'[t] \in {"condWait", "relocked", "ownerCheck", "idle"}
      BY <1>1, <1>3, ReturnEffect DEF WaitPC
    <2>. QED
      BY <1>1, <1>3, <2>1, SameWakeups DEF WakeupsSame, TryPC
  <1>4. CASE toPost' = [toPost EXCEPT ![t] = nrBlocked[rec[t]]] /\ Goto(t, "flush")
    <2>1. OthersSame(t) /\ pc'[t] = "flush" /\ rec'[t] = rec[t]
      BY <1>4, GotoEffect DEF Goto
    <2>2. /\ \A r : Trying(r)' = Trying(r)
          /\ \A u \in Threads : \A r : Retries(u, r)' = Retries(u, r) /\ Takes(u, r)' = Takes(u, r)
      BY <1>1, <2>1 DEF Trying, Retries, Takes, OthersSame, TryPC
    <2>3. Announced' /\ SomebodyTakes'
      BY <1>1, <2>1, <2>2 DEF WakeupInv, Announced, SomebodyTakes, OthersSame
    <2>4. Cardinality(Trying(rec[t])) <= nrBlocked[rec[t]]
      <3>1. Trying(rec[t]) \subseteq Blocked(rec[t]) /\ IsFiniteSet(Blocked(rec[t]))
        BY FS_Subset DEF Trying, Blocked, TryPC, CountedPC, MonitorAssumption
      <3>2. Cardinality(Trying(rec[t])) <= Cardinality(Blocked(rec[t]))
        BY <3>1, FS_Subset
      <3>. QED
        BY <1>2, <3>2 DEF SafetyInv, Counters
    <2>5. sem[rec[t]] \in Nat /\ nrBlocked[rec[t]] \in Int /\ toPost'[t] = nrBlocked[rec[t]]
      BY <1>2, <1>4 DEF DataOK, MonitorAssumption
    <2>6. Cardinality(Trying(rec[t])) <= sem[rec[t]] + toPost'[t]
      BY <2>4, <2>5, TryingCount
    <2>7. \A u \in Threads \ {t} : toPost'[u] = toPost[u]
      BY <1>4 DEF DataOK
    <2>8. FlushPosts'
      BY <1>1, <2>1, <2>2, <2>6, <2>7 DEF FlushPosts, WakeupInv, OthersSame
    <2>. QED
      BY <2>3, <2>8 DEF WakeupInv
  <1>. QED
    BY <1>3, <1>4 DEF Recheck

\* The record goes back to the pool when no thread can sleep on it.
LEMMA SpinWakeups ==
  ASSUME Inv, WakeupInv, NEW t \in Threads, Spin(t)
  PROVE  WakeupInv'
  <1>. USE DEF Inv
  <1>1. /\ pc[t] = "spin" /\ UNCHANGED <<monitorRecord, owner, sem, toPost>>
        /\ candidate' = [candidate EXCEPT ![rec[t]] = 0] /\ nrBlocked[rec[t]] <= 0
    BY DEF Spin, At, ownership, rest
  <1>2. OthersSame(t) /\ pc'[t] \in {"condWait", "relocked", "ownerCheck", "idle"}
    BY <1>1, ReturnEffect DEF Spin, WaitPC
  <1>3. rec[t] \in Records
    BY <1>1 DEF LocalsSet, RecordPC, DeflatedPC
  <1>4. \A u \in Threads : pc[u] \in CountedPC => rec[u] # rec[t] /\ rec[u] \in Records
    BY <1>1, <1>3, NobodyBlocked DEF LocalsSet, RecordPC
  <1>5. \A u \in Threads : pc[u] \in CountedPC => candidate'[rec[u]] = candidate[rec[u]]
    BY <1>1, <1>3, <1>4 DEF DataOK
  <1>. QED
    BY <1>1, <1>2, <1>5, QuietWakeups DEF TryPC, CountedPC

\* One post of the flushing loop: on the way to the busy wait there are as many
\* posts as there may be sleepers, and the semaphore has room for them.
LEMMA FlushWakeups ==
  ASSUME Inv, WakeupInv, EnoughPosts, NEW t \in Threads, Flush(t)
  PROVE  WakeupInv'
  <1>. USE DEF Inv
  <1>1. /\ pc[t] = "flush" /\ UNCHANGED <<monitorRecord, owner, candidate>>
        /\ toPost' = [toPost EXCEPT ![t] = @ - 1]
    BY DEF Flush, At, ownership
  <1>2. /\ OthersSame(t) /\ rec'[t] = rec[t]
        /\ pc'[t] = IF toPost[t] > 1 THEN "flush" ELSE "spin"
    BY GotoEffect DEF Flush, Goto
  <1>3. PICK r \in Records : r = rec[t]
    BY <1>1 DEF LocalsSet, RecordPC, DeflatedPC
  <1>4. /\ sem'[r] = IF sem[r] < SEM_VALUE_MAX THEN sem[r] + 1 ELSE sem[r]
        /\ \A q \in Records \ {r} : sem'[q] = sem[q]
    BY <1>3 DEF Flush, Post, DataOK
  <1>5. /\ \A q : Trying(q)' = Trying(q)
        /\ \A u \in Threads : \A q : Retries(u, q)' = Retries(u, q) /\ Takes(u, q)' = Takes(u, q)
    BY <1>1, <1>2 DEF Trying, Retries, Takes, OthersSame, TryPC
  <1>6. \A o \in Objects : monitorRecord[o] # r
    BY <1>1, <1>3, PrivateAlone DEF PrivatePC, DeflatedPC
  <1>7. \A u \in Threads : pc'[u] \in TryPC =>
          /\ pc[u] = pc'[u] /\ rec'[u] = rec[u] /\ obj'[u] = obj[u]
          /\ obj[u] \in Objects /\ rec[u] \in Records
    BY <1>1, <1>2 DEF OthersSame, TryPC, LocalsSet, RecordPC, CountedPC
  <1>8. Announced' /\ SomebodyTakes'
    BY <1>1, <1>4, <1>5, <1>6, <1>7 DEF WakeupInv, Announced, SomebodyTakes, TryPC
  <1>9. Cardinality(Trying(r)) \in Nat /\ Cardinality(Trying(r)) <= SEM_VALUE_MAX
    <2>1. Trying(r) \subseteq Threads \ {t} /\ IsFiniteSet(Threads \ {t})
      BY <1>1, FS_Subset DEF Trying, TryPC, MonitorAssumption
    <2>2. Cardinality(Trying(r)) <= Cardinality(Threads \ {t})
      BY <2>1, FS_Subset
    <2>3. Cardinality(Threads \ {t}) = Cardinality(Threads) - 1 /\ Cardinality(Threads) \in Nat
      BY CountRemove, FS_CardinalityType DEF MonitorAssumption
    <2>. QED
      BY <2>2, <2>3, TryingCount DEF EnoughPosts, MonitorAssumption
  <1>10. FlushPosts'
    <2>1. /\ sem[r] \in 0 .. SEM_VALUE_MAX /\ toPost[t] \in Int /\ toPost'[t] = toPost[t] - 1
          /\ \A u \in Threads \ {t} : toPost'[u] = toPost[u]
      BY <1>1 DEF DataOK
    <2>2. Cardinality(Trying(r)) <= sem[r] + toPost[t]
      BY <1>1, <1>3 DEF WakeupInv, FlushPosts
    <2>3. CASE toPost[t] > 1
      <3>1. Cardinality(Trying(r)) <= sem'[r] + toPost'[t]
        BY <1>4, <1>9, <2>1, <2>2, <2>3 DEF MonitorAssumption
      <3>. QED
        BY <1>1, <1>2, <1>3, <1>4, <1>5, <2>1, <2>3, <3>1, PrivateAlone
           DEF FlushPosts, WakeupInv, OthersSame, PrivatePC, DeflatedPC
    <2>4. CASE ~(toPost[t] > 1)
      <3>1. Cardinality(Trying(r)) <= sem'[r]
        BY <1>4, <1>9, <2>1, <2>2, <2>4 DEF MonitorAssumption
      <3>. QED
        BY <1>1, <1>2, <1>3, <1>4, <1>5, <2>1, <2>4, <3>1, PrivateAlone
           DEF FlushPosts, WakeupInv, OthersSame, PrivatePC, DeflatedPC
    <2>. QED
      BY <2>3, <2>4
  <1>. QED
    BY <1>8, <1>10 DEF WakeupInv

\* Steps of a thread that keeps the semaphores and is in no flushing loop
LEMMA PostsStay ==
  ASSUME Inv, WakeupInv, NEW t \in Threads, OthersSame(t), UNCHANGED <<sem, toPost>>,
         pc'[t] \notin {"flush", "spin"},
         pc'[t] \in TryPC => rec'[t] = rec[t] /\ (pc[t] \in TryPC \/ monitorRecord[obj[t]] = rec[t])
                               /\ obj[t] \in Objects
  PROVE  FlushPosts'
  <1>1. ASSUME NEW u \in Threads, pc'[u] \in {"flush", "spin"}
        PROVE  /\ pc[u] = pc'[u] /\ rec'[u] = rec[u]
               /\ Cardinality(Trying(rec[u])') <= Cardinality(Trying(rec[u]))
    <2>1. u # t /\ pc[u] = pc'[u] /\ rec'[u] = rec[u]
      BY <1>1 DEF OthersSame
    <2>2. Trying(rec[u])' \subseteq Trying(rec[u])
      <3>1. \A o \in Objects : monitorRecord[o] # rec[u]
        BY <1>1, <2>1, PrivateAlone DEF PrivatePC, DeflatedPC
      <3>. QED
        BY <2>1, <3>1 DEF Trying, OthersSame
    <2>3. IsFiniteSet(Trying(rec[u]))
      BY TryingCount
    <2>. QED
      BY <2>1, <2>2, <2>3, FS_Subset
  <1>2. ASSUME NEW u \in Threads, pc'[u] \in {"flush", "spin"}
        PROVE  /\ pc'[u] = "flush" => Cardinality(Trying(rec[u])') <= sem[rec[u]] + toPost[u]
               /\ pc'[u] = "spin" => Cardinality(Trying(rec[u])') <= sem[rec[u]]
    <2>1. rec[u] \in Records
      BY <1>1, <1>2 DEF Inv, LocalsSet, RecordPC, DeflatedPC
    <2>2. sem[rec[u]] \in Int /\ toPost[u] \in Int
      BY <2>1 DEF Inv, DataOK, MonitorAssumption
    <2>3. Cardinality(Trying(rec[u])) \in Nat /\ IsFiniteSet(Trying(rec[u])')
      <3>1. IsFiniteSet(Trying(rec[u])')
        BY FS_Subset DEF Trying, Inv, MonitorAssumption
      <3>. QED
        BY <3>1, TryingCount
    <2>4. Cardinality(Trying(rec[u])') \in Nat
      BY <2>3, FS_CardinalityType
    <2>. QED
      BY <1>1, <1>2, <2>2, <2>3, <2>4 DEF WakeupInv, FlushPosts
  <1>. QED
    BY <1>1, <1>2 DEF FlushPosts, Trying

\* The owner gives the record up: a candidate is announced, and wake_one is next.
LEMMA ReleaseWakeups ==
  ASSUME Inv, WakeupInv, NEW t \in Threads, Release(t)
  PROVE  WakeupInv'
  <1>. USE DEF Inv
  <1>1. /\ pc[t] = "release" /\ UNCHANGED <<monitorRecord, candidate, sem, toPost>>
        /\ owner' = [owner EXCEPT ![rec[t]] = NULL]
    BY DEF Release, At, wakeups, rest
  <1>2. OthersSame(t) /\ pc'[t] = "wakeOne" /\ rec'[t] = rec[t]
    BY GotoEffect DEF Release, Goto
  <1>3. rec[t] \in Records
    BY <1>1 DEF LocalsSet, RecordPC
  <1>4. \A u \in Threads : \A r :
          (Retries(u, r) => Retries(u, r)') /\ (Takes(u, r) => Takes(u, r)')
    BY <1>1, <1>2 DEF Retries, Takes, OthersSame
  <1>5. \A u \in Threads : pc'[u] \in TryPC =>
          pc[u] = pc'[u] /\ rec'[u] = rec[u] /\ obj'[u] = obj[u] /\ rec[u] \in Records
    BY <1>1, <1>2 DEF OthersSame, TryPC, LocalsSet, RecordPC, CountedPC
  <1>6. Announced'
    BY <1>1, <1>4, <1>5 DEF WakeupInv, Announced, TryPC
  <1>7. SomebodyTakes'
    <2>. SUFFICES ASSUME NEW u \in Threads, (pc[u] = "semWait")',
                         (monitorRecord[obj[u]] = rec[u] /\ sem[rec[u]] = 0 /\ owner[rec[u]] = NULL)'
                  PROVE  (\E v \in Threads : Takes(v, rec[u]))'
      BY DEF SomebodyTakes
    <2>1. /\ pc[u] = "semWait" /\ rec'[u] = rec[u] /\ obj'[u] = obj[u] /\ rec[u] \in Records
          /\ monitorRecord[obj[u]] = rec[u] /\ sem[rec[u]] = 0
      BY <1>1, <1>5 DEF TryPC
    <2>2. CASE rec[u] = rec[t]
      <3>1. candidate[rec[u]] = 1 \/ \E v \in Threads : Retries(v, rec[u])
        BY <2>1 DEF WakeupInv, Announced
      <3>2. candidate[rec[u]] = 1 => Takes(t, rec[u])'
        BY <1>1, <1>2, <2>1, <2>2 DEF Takes
      <3>3. ASSUME NEW v \in Threads, Retries(v, rec[u]) PROVE Takes(v, rec[u])'
        BY <1>4, <2>1, <3>3 DEF Takes, Retries
      <3>. QED
        BY <3>1, <3>2, <3>3
    <2>3. CASE rec[u] # rec[t]
      <3>1. owner[rec[u]] = NULL
        BY <1>1, <1>3, <2>1, <2>3 DEF DataOK
      <3>2. PICK v \in Threads : Takes(v, rec[u])
        BY <2>1, <3>1 DEF WakeupInv, SomebodyTakes
      <3>3. Takes(v, rec[u])'
        BY <1>4, <2>1, <3>2 DEF Takes, Retries
      <3>. QED
        BY <3>3
    <2>. QED
      BY <2>2, <2>3
  <1>8. FlushPosts'
    BY <1>1, <1>2, PostsStay DEF TryPC
  <1>. QED
    BY <1>6, <1>7, <1>8 DEF WakeupInv

\* wake_one takes a candidate and will post for it.
LEMMA WakeOneWakeups ==
  ASSUME Inv, WakeupInv, NEW t \in Threads, WakeOne(t)
  PROVE  WakeupInv'
  <1>. USE DEF Inv
  <1>1. /\ pc[t] = "wakeOne" /\ UNCHANGED <<monitorRecord, owner, sem, toPost>>
        /\ candidate' = [candidate EXCEPT ![rec[t]] = 0]
    BY DEF WakeOne, At, ownership, rest
  <1>2. /\ OthersSame(t)
        /\ pc'[t] \in {"condWait", "relocked", "ownerCheck", "idle", "semPost"}
        /\ candidate[rec[t]] = 1 => pc'[t] = "semPost" /\ rec'[t] = rec[t]
    BY <1>1, GotoEffect, ReturnEffect DEF WakeOne, Goto, WaitPC
  <1>3. rec[t] \in Records
    BY <1>1 DEF LocalsSet, RecordPC
  <1>4. \A u \in Threads : \A r : Retries(u, r) => Retries(u, r)'
    BY <1>1, <1>2 DEF Retries, OthersSame
  <1>5. \A u \in Threads : pc'[u] \in TryPC =>
          pc[u] = pc'[u] /\ rec'[u] = rec[u] /\ obj'[u] = obj[u] /\ rec[u] \in Records
    BY <1>1, <1>2 DEF OthersSame, TryPC, LocalsSet, RecordPC, CountedPC
  <1>6. candidate[rec[t]] = 1 => Retries(t, rec[t])'
    BY <1>2 DEF Retries
  <1>7. \A r \in Records : r # rec[t] \/ candidate[r] # 1 => candidate'[r] = candidate[r]
    BY <1>1, <1>3 DEF DataOK
  <1>8. Announced'
    <2>. SUFFICES ASSUME NEW u \in Threads, (pc[u] \in {"casOwner", "semWait"})',
                         (monitorRecord[obj[u]] = rec[u] /\ sem[rec[u]] = 0)'
                  PROVE  (candidate[rec[u]] = 1 \/ \E v \in Threads : Retries(v, rec[u]))'
      BY DEF Announced
    <2>1. /\ pc[u] \in {"casOwner", "semWait"} /\ rec'[u] = rec[u] /\ rec[u] \in Records
          /\ monitorRecord[obj[u]] = rec[u] /\ sem[rec[u]] = 0
      BY <1>1, <1>5 DEF TryPC
    <2>2. candidate[rec[u]] = 1 \/ \E v \in Threads : Retries(v, rec[u])
      BY <2>1 DEF WakeupInv, Announced
    <2>3. ASSUME NEW v \in Threads, Retries(v, rec[u]) PROVE Retries(v, rec[u])'
      BY <1>4, <2>1, <2>3 DEF Retries
    <2>4. CASE candidate[rec[u]] = 1 /\ rec[u] = rec[t]
      <3>1. Retries(t, rec[u])'
        BY <1>2, <2>1, <2>4 DEF Retries
      <3>. QED
        BY <3>1
    <2>5. CASE candidate[rec[u]] = 1 /\ rec[u] # rec[t]
      BY <1>7, <2>1, <2>5
    <2>. QED
      BY <2>2, <2>3, <2>4, <2>5
  <1>9. SomebodyTakes'
    <2>. SUFFICES ASSUME NEW u \in Threads, (pc[u] = "semWait")',
                         (monitorRecord[obj[u]] = rec[u] /\ sem[rec[u]] = 0 /\ owner[rec[u]] = NULL)'
                  PROVE  (\E v \in Threads : Takes(v, rec[u]))'
      BY DEF SomebodyTakes
    <2>1. /\ pc[u] = "semWait" /\ rec'[u] = rec[u] /\ rec[u] \in Records
          /\ monitorRecord[obj[u]] = rec[u] /\ sem[rec[u]] = 0 /\ owner[rec[u]] = NULL
      BY <1>1, <1>5 DEF TryPC
    <2>2. PICK v \in Threads : Takes(v, rec[u])
      BY <2>1 DEF WakeupInv, SomebodyTakes
    <2>3. CASE candidate[rec[u]] = 1 /\ rec[u] = rec[t]
      <3>1. Takes(t, rec[u])'
        BY <1>2, <2>1, <2>3 DEF Takes, Retries
      <3>. QED
        BY <3>1
    <2>4. CASE candidate[rec[u]] # 1 \/ rec[u] # rec[t]
      <3>1. v # t
        BY <1>1, <2>2, <2>4 DEF Takes, Retries
      <3>2. candidate'[rec[u]] = candidate[rec[u]]
        BY <1>7, <2>1, <2>4
      <3>3. Takes(v, rec[u])'
        BY <1>1, <1>2, <2>1, <2>2, <3>1, <3>2 DEF Takes, Retries, OthersSame
      <3>. QED
        BY <3>3
    <2>. QED
      BY <2>3, <2>4
  <1>10. FlushPosts'
    BY <1>1, <1>2, PostsStay DEF TryPC
  <1>. QED
    BY <1>8, <1>9, <1>10 DEF WakeupInv

\* The post of wake_one: nobody sleeps on the record without one.
LEMMA SemPostWakeups ==
  ASSUME Inv, WakeupInv, NEW t \in Threads, SemPost(t)
  PROVE  WakeupInv'
  <1>. USE DEF Inv
  <1>1. pc[t] = "semPost" /\ UNCHANGED <<monitorRecord, owner, candidate, toPost>>
    BY DEF SemPost, At, ownership, rest
  <1>2. OthersSame(t) /\ pc'[t] \in {"condWait", "relocked", "ownerCheck", "idle"}
    BY <1>1, ReturnEffect DEF SemPost, WaitPC
  <1>3. PICK r \in Records : r = rec[t]
    BY <1>1 DEF LocalsSet, RecordPC
  <1>4. /\ sem[r] \in 0 .. SEM_VALUE_MAX
        /\ sem'[r] = IF sem[r] < SEM_VALUE_MAX THEN sem[r] + 1 ELSE sem[r]
        /\ \A q \in Records \ {r} : sem'[q] = sem[q]
    BY <1>3 DEF SemPost, Post, DataOK
  <1>5. sem'[r] # 0 /\ \A q \in Records : sem'[q] = 0 => q # r /\ sem[q] = 0
    BY <1>4 DEF MonitorAssumption
  <1>6. \A u \in Threads : \A q : q # r =>
          (Retries(u, q) => Retries(u, q)') /\ (Takes(u, q) => Takes(u, q)')
    BY <1>1, <1>2, <1>3 DEF Retries, Takes, OthersSame
  <1>7. \A u \in Threads : pc'[u] \in TryPC =>
          pc[u] = pc'[u] /\ rec'[u] = rec[u] /\ obj'[u] = obj[u] /\ rec[u] \in Records
    BY <1>1, <1>2 DEF OthersSame, TryPC, LocalsSet, RecordPC, CountedPC
  <1>8. Announced'
    BY <1>1, <1>5, <1>6, <1>7 DEF WakeupInv, Announced, TryPC
  <1>9. SomebodyTakes'
    BY <1>1, <1>5, <1>6, <1>7 DEF WakeupInv, SomebodyTakes, TryPC
  <1>10. FlushPosts'
    <2>1. \A q : Trying(q)' = Trying(q)
      BY <1>1, <1>2 DEF Trying, OthersSame, TryPC
    <2>2. \A u \in Threads : pc'[u] \in {"flush", "spin"} =>
            pc[u] = pc'[u] /\ rec'[u] = rec[u] /\ rec[u] \in Records
      BY <1>1, <1>2 DEF OthersSame, LocalsSet, RecordPC, DeflatedPC
    <2>3. \A q \in Records : sem[q] \in Int /\ sem'[q] \in Int /\ sem'[q] >= sem[q]
      BY <1>4 DEF DataOK, MonitorAssumption
    <2>4. ASSUME NEW u \in Threads, pc'[u] \in {"flush", "spin"}
          PROVE  /\ pc'[u] = "flush" => Cardinality(Trying(rec[u])) <= sem'[rec[u]] + toPost'[u]
                 /\ pc'[u] = "spin" => Cardinality(Trying(rec[u])) <= sem'[rec[u]]
      <3>1. Cardinality(Trying(rec[u])) \in Nat /\ toPost[u] \in Int
        BY TryingCount DEF DataOK
      <3>. QED
        BY <1>1, <2>2, <2>3, <2>4, <3>1 DEF WakeupInv, FlushPosts
    <2>. QED
      BY <2>1, <2>2, <2>4 DEF FlushPosts
  <1>. QED
    BY <1>8, <1>9, <1>10 DEF WakeupInv

\* A thread that finds its record attached goes on to try it.
LEMMA LoopWakeups ==
  ASSUME Inv, WakeupInv, NEW t \in Threads, Loop(t)
  PROVE  WakeupInv'
  <1>. USE DEF Inv
  <1>1. pc[t] = "loop" /\ UNCHANGED <<monitorRecord, owner, candidate, sem, toPost>>
    BY DEF Loop, At, mon, ownership, wakeups, rest
  <1>2. /\ OthersSame(t) /\ rec'[t] = rec[t] /\ obj'[t] = obj[t]
        /\ pc'[t] = IF monitorRecord[obj[t]] = rec[t] THEN "setCandidate" ELSE "decBlocked"
    BY GotoEffect DEF Loop, Goto
  <1>3. \A u \in Threads : \A r :
          (Retries(u, r) => Retries(u, r)') /\ (Takes(u, r) => Takes(u, r)')
    BY <1>1, <1>2 DEF Retries, Takes, OthersSame
  <1>4. \A u \in Threads : pc'[u] \in {"casOwner", "semWait"} =>
          pc[u] = pc'[u] /\ rec'[u] = rec[u] /\ obj'[u] = obj[u]
    BY <1>1, <1>2 DEF OthersSame
  <1>5. Announced'
    BY <1>1, <1>3, <1>4 DEF WakeupInv, Announced
  <1>6. SomebodyTakes'
    BY <1>1, <1>3, <1>4 DEF WakeupInv, SomebodyTakes
  <1>7. FlushPosts'
    BY <1>1, <1>2, PostsStay DEF TryPC, LocalsSet
  <1>. QED
    BY <1>5, <1>6, <1>7 DEF WakeupInv

\* The thread announces itself and then tries.
LEMMA SetCandidateWakeups ==
  ASSUME Inv, WakeupInv, NEW t \in Threads, SetCandidate(t)
  PROVE  WakeupInv'
  <1>. USE DEF Inv
  <1>1. /\ pc[t] = "setCandidate" /\ UNCHANGED <<monitorRecord, owner, sem, toPost>>
        /\ candidate' = [candidate EXCEPT ![rec[t]] = 1]
    BY DEF SetCandidate, At, ownership, rest
  <1>2. OthersSame(t) /\ rec'[t] = rec[t] /\ obj'[t] = obj[t] /\ pc'[t] = "casOwner"
    BY GotoEffect DEF SetCandidate, Goto
  <1>3. rec[t] \in Records
    BY <1>1 DEF LocalsSet, RecordPC, CountedPC
  <1>4. /\ candidate'[rec[t]] = 1
        /\ \A r \in Records : candidate[r] = 1 => candidate'[r] = 1
    BY <1>1, <1>3 DEF DataOK
  <1>5. \A u \in Threads : pc'[u] \in {"casOwner", "semWait"} =>
          /\ rec'[u] = rec[u] /\ obj'[u] = obj[u] /\ rec[u] \in Records
          /\ u = t \/ pc[u] = pc'[u]
    BY <1>1, <1>2, <1>3 DEF OthersSame, LocalsSet, RecordPC, CountedPC
  <1>6. \A u \in Threads : \A r \in Records :
          /\ r # rec[t] /\ Retries(u, r) => Retries(u, r)'
          /\ Takes(u, r) => Takes(u, r)'
    BY <1>1, <1>2, <1>4 DEF Retries, Takes, OthersSame
  <1>7. Announced'
    BY <1>1, <1>4, <1>5, <1>6 DEF WakeupInv, Announced
  <1>8. SomebodyTakes'
    BY <1>1, <1>2, <1>5, <1>6 DEF WakeupInv, SomebodyTakes
  <1>9. FlushPosts'
    BY <1>1, <1>2, PostsStay DEF TryPC, LocalsSet
  <1>. QED
    BY <1>7, <1>8, <1>9 DEF WakeupInv

\* The thread takes a free record, or will sleep on an owned one.
LEMMA CasOwnerWakeups ==
  ASSUME Inv, WakeupInv, NEW t \in Threads, CasOwner(t)
  PROVE  WakeupInv'
  <1>. USE DEF Inv
  <1>1. pc[t] = "casOwner" /\ UNCHANGED <<monitorRecord, candidate, sem, toPost>>
    BY DEF CasOwner, At, wakeups, rest
  <1>2. rec[t] \in Records
    BY <1>1 DEF LocalsSet, RecordPC, CountedPC
  <1>3. /\ OthersSame(t) /\ rec'[t] = rec[t] /\ obj'[t] = obj[t]
        /\ pc'[t] \in {"decAcquired", "semWait"}
    BY GotoEffect DEF CasOwner, Goto
  <1>4. owner'[rec[t]] # NULL /\ \A r \in Records : owner'[r] = NULL => owner[r] = NULL
    BY <1>2 DEF CasOwner, DataOK, MonitorAssumption, ownership
  <1>5. \A u \in Threads : pc'[u] \in {"casOwner", "semWait"} =>
          /\ rec'[u] = rec[u] /\ obj'[u] = obj[u] /\ rec[u] \in Records
          /\ pc[u] \in {"casOwner", "semWait"}
          /\ u = t \/ pc[u] = pc'[u]
    BY <1>1, <1>2, <1>3 DEF OthersSame, LocalsSet, RecordPC, CountedPC
  <1>6. \A u \in Threads : \A r :
          /\ Retries(u, r) => Retries(u, r)'
          /\ r # rec[t] /\ Takes(u, r) => Takes(u, r)'
    BY <1>1, <1>3 DEF Retries, Takes, OthersSame
  <1>7. Announced'
    BY <1>1, <1>5, <1>6 DEF WakeupInv, Announced
  <1>8. SomebodyTakes'
    BY <1>1, <1>3, <1>4, <1>5, <1>6 DEF WakeupInv, SomebodyTakes
  <1>9. FlushPosts'
    BY <1>1, <1>3, PostsStay DEF TryPC, LocalsSet
  <1>. QED
    BY <1>7, <1>8, <1>9 DEF WakeupInv

\* A thread that got a post tries again: it does so for all that sleep on.
LEMMA SemWaitWakeups ==
  ASSUME Inv, WakeupInv, NEW t \in Threads, SemWait(t)
  PROVE  WakeupInv'
  <1>. USE DEF Inv
  <1>1. /\ pc[t] = "semWait" /\ UNCHANGED <<monitorRecord, owner, candidate, toPost>>
        /\ sem[rec[t]] > 0
    BY DEF SemWait, At, ownership, rest
  <1>2. OthersSame(t) /\ rec'[t] = rec[t] /\ obj'[t] = obj[t] /\ pc'[t] = "loop"
    BY GotoEffect DEF SemWait, Goto
  <1>3. PICK r \in Records : r = rec[t]
    BY <1>1 DEF LocalsSet, RecordPC, CountedPC
  <1>4. sem'[r] = sem[r] - 1 /\ \A q \in Records \ {r} : sem'[q] = sem[q]
    BY <1>3 DEF SemWait, DataOK
  <1>5. \A u \in Threads : pc'[u] \in {"casOwner", "semWait"} =>
          /\ rec'[u] = rec[u] /\ obj'[u] = obj[u] /\ rec[u] \in Records /\ obj[u] \in Objects
          /\ pc[u] = pc'[u]
    BY <1>1, <1>2 DEF OthersSame, LocalsSet, RecordPC, CountedPC
  <1>6. \A u \in Threads : \A q :
          (Retries(u, q) => Retries(u, q)') /\ (Takes(u, q) => Takes(u, q)')
    BY <1>1, <1>2 DEF Retries, Takes, OthersSame
  <1>7. ASSUME NEW o \in Objects, monitorRecord[o] = r
        PROVE  Retries(t, r)' /\ Takes(t, r)'
    <2>1. monitorRecord[obj[t]] = r
      <3>1. SUFFICES ASSUME NEW u \in Threads, pc[u] \in DeflatedPC, rec[u] = r PROVE FALSE
        BY <1>1, <1>3, TryingRecord DEF TryPC
      <3>. QED
        BY <1>7, <3>1, PrivateAlone DEF PrivatePC
    <2>. QED
      BY <1>1, <1>2, <1>3, <2>1 DEF Retries, Takes
  <1>8. Announced'
    BY <1>1, <1>4, <1>5, <1>6, <1>7 DEF WakeupInv, Announced
  <1>9. SomebodyTakes'
    BY <1>1, <1>4, <1>5, <1>6, <1>7 DEF WakeupInv, SomebodyTakes
  <1>10. FlushPosts'
    <2>1. /\ t \in Trying(r) /\ Trying(r)' = Trying(r) \ {t}
          /\ \A q : q # r => Trying(q)' = Trying(q)
      BY <1>1, <1>2, <1>3 DEF Trying, OthersSame, TryPC
    <2>2. Cardinality(Trying(r)') = Cardinality(Trying(r)) - 1
      BY <2>1, CountRemove DEF Trying, MonitorAssumption
    <2>3. ASSUME NEW u \in Threads, pc'[u] \in {"flush", "spin"}
          PROVE  /\ pc'[u] = "flush" => Cardinality(Trying(rec[u])') <= sem'[rec[u]] + toPost'[u]
                 /\ pc'[u] = "spin" => Cardinality(Trying(rec[u])') <= sem'[rec[u]]
      <3>1. pc[u] = pc'[u] /\ rec'[u] = rec[u] /\ rec[u] \in Records
        BY <1>1, <1>2, <2>3 DEF OthersSame, LocalsSet, RecordPC, DeflatedPC
      <3>2. CASE rec[u] = r
        <4>1. Cardinality(Trying(r)) \in Nat /\ toPost[u] \in Int /\ sem[r] \in Int
          BY TryingCount DEF DataOK, MonitorAssumption
        <4>2. /\ pc[u] = "flush" => Cardinality(Trying(r)) <= sem[r] + toPost[u]
              /\ pc[u] = "spin" => Cardinality(Trying(r)) <= sem[r]
          BY <3>2 DEF WakeupInv, FlushPosts
        <4>3. Trying(rec[u])' = Trying(r)'
          BY <3>1, <3>2
        <4>. QED
          BY <1>1, <1>4, <2>2, <3>1, <3>2, <4>1, <4>2, <4>3
      <3>3. CASE rec[u] # r
        BY <1>1, <1>4, <2>1, <3>1, <3>3 DEF WakeupInv, FlushPosts
      <3>. QED
        BY <3>2, <3>3
    <2>. QED
      BY <2>3, <1>2 DEF FlushPosts, OthersSame
  <1>. QED
    BY <1>8, <1>9, <1>10 DEF WakeupInv

\* At the start nobody sleeps.
LEMMA WakeupInit == ASSUME MonitorAssumption, Init PROVE WakeupInv
  BY DEF Init, WakeupInv, Announced, SomebodyTakes, FlushPosts

\* Every step keeps WakeupInv.
LEMMA WakeupStep ==
  ASSUME Inv, EnoughPosts, WakeupInv, [Next]_vars
  PROVE  WakeupInv'
  <1>1. ASSUME NEW t \in Threads, Step(t) PROVE WakeupInv'
    BY <1>1, ReadRecordWakeups, CasRecordWakeups, CountingWakeups, LoopWakeups,
       SetCandidateWakeups, CasOwnerWakeups, SemWaitWakeups, WaitWakeups, ReleaseWakeups,
       WakeOneWakeups, SemPostWakeups, DeflateWakeups, RecheckWakeups, FlushWakeups,
       SpinWakeups DEF Step
  <1>2. CASE UNCHANGED vars
    BY <1>2 DEF vars, mon, ownership, wakeups, control, rest, WakeupInv, Announced,
       SomebodyTakes, FlushPosts, Trying, Retries, Takes
  <1>. QED
    BY <1>1, <1>2, WaitWakeups, RequestWakeups DEF Next

\* The argument about wakeups is inductive, on top of the safety invariant.
THEOREM WakeupInvariant == QuiescentExit /\ EnoughPosts => (Spec => []WakeupInv)
  <1>. SUFFICES ASSUME QuiescentExit, EnoughPosts PROVE Spec => []WakeupInv
    OBVIOUS
  <1>1. Init => WakeupInv
    BY WakeupInit, MonitorAssumption
  <1>2. TypeInv /\ SafetyInv => Inv
    BY TypeParts, MonitorAssumption DEF Inv, TypeInv
  <1>3. Inv /\ WakeupInv /\ [Next]_vars => WakeupInv'
    BY WakeupStep
  <1>. QED
    BY <1>1, <1>2, <1>3, TypeInvariant, SafetyInvariant, PTL DEF Spec

\* NoLostWakeup: a thread asleep in sem_wait on a record that nobody owns, or that
\* is detached, has a post or a thread that will see to it, whatever the number of
\* threads, as long as the semaphore has room for a post to each.
THEOREM WakeupsAreNotLost == QuiescentExit /\ EnoughPosts => (Spec => []NoLostWakeup)
  <1>. SUFFICES ASSUME QuiescentExit, EnoughPosts PROVE Spec => []NoLostWakeup
    OBVIOUS
  <1>1. TypeInv /\ SafetyInv => Inv
    BY TypeParts, MonitorAssumption DEF Inv, TypeInv
  <1>2. ASSUME Inv, WakeupInv PROVE NoLostWakeup
    <2>. SUFFICES ASSUME NEW t \in Threads, pc[t] = "semWait", sem[rec[t]] = 0
                  PROVE  \/ Pending(rec[t]) # {}
                         \/ monitorRecord[obj[t]] = rec[t] /\ owner[rec[t]] # NULL
                         \/ \E u \in Threads : /\ At(u, "wakeOne") /\ rec[u] = rec[t]
                                               /\ candidate[rec[t]] = 1
                         \/ \E u \in Threads : pc[u] \in {"recheck", "flush"} /\ rec[u] = rec[t]
      BY DEF NoLostWakeup, At
    <2>1. CASE monitorRecord[obj[t]] = rec[t] /\ owner[rec[t]] = NULL
      <3>1. PICK u \in Threads : Takes(u, rec[t])
        BY <1>2, <2>1 DEF WakeupInv, SomebodyTakes
      <3>. QED
        BY <3>1 DEF Takes, Retries, Pending, At
    <2>2. CASE monitorRecord[obj[t]] # rec[t]
      <3>1. PICK u \in Threads : pc[u] \in DeflatedPC /\ rec[u] = rec[t]
        BY <1>2, <2>2, TryingRecord DEF TryPC
      <3>2. pc[u] # "spin"
        <4>1. SUFFICES ASSUME pc[u] = "spin" PROVE FALSE
          OBVIOUS
        <4>2. Cardinality(Trying(rec[t])) <= 0
          BY <1>2, <3>1, <4>1 DEF WakeupInv, FlushPosts
        <4>3. t \in Trying(rec[t])
          BY DEF Trying, TryPC
        <4>. QED
          BY <1>2, <4>2, <4>3, TryingCount, FS_EmptySet
      <3>. QED
        BY <3>1, <3>2 DEF DeflatedPC
    <2>. QED
      BY <2>1, <2>2
  <1>. QED
    BY <1>1, <1>2, TypeInvariant, SafetyInvariant, WakeupInvariant, PTL

-----------------------------------------------------------------------------
(* The Java monitor                                                        *)

\* Where the unlock inside vm_object_do_wait may be: it is never recursive and
\* never detaches the record.
UnlockPC == {"ownerCheck", "testBlocked", "release", "wakeOne", "semPost"}

\* The unlock inside vm_object_do_wait gives the one lock up that is left, and
\* the waiter has notify_mutex until it sleeps.
WaitOK(t) ==
  waiter[t].record # NULL =>
    /\ op[t] = "unlock" =>
         /\ pc[t] \in UnlockPC
         /\ held[t][obj[t]] = IF pc[t] \in {"wakeOne", "semPost"} THEN 0 ELSE 1
    /\ op[t] = "unlock" \/ pc[t] = "condWait" => notifyMutex[waiter[t].record] = t

WaitInv == \A t \in Threads : WaitOK(t)

\* A step of thread t: the other threads stay where they are and keep their
\* locks and their waits.
Moves(t) ==
  /\ OthersSame(t)
  /\ \A u \in Threads \ {t} : op'[u] = op[u] /\ held'[u] = held[u] /\ waiter'[u] = waiter[u]

\* Nobody but t falls asleep or is woken up.
SleepersStay(t) ==
  \A u \in Threads \ {t} : pc[u] = "asleep" =>
    (u \in condQueue'[waiter[u].record] <=> u \in condQueue[waiter[u].record])

\* What the abstract monitor knows of thread t stays.
SameHeld(t) == \A o \in Objects : AbstractHeld'[t][o] = AbstractHeld[t][o]
SameWait(t) == AbstractWait'[t] = AbstractWait[t] /\ AbstractDepth'[t] = AbstractDepth[t]
SameSleep(t) == Asleep(t)' <=> Asleep(t)

TimedKept ==
  /\ AbstractTimed \cap AbstractAsleep \subseteq AbstractTimed'
  /\ AbstractTimed' \cap AbstractAsleep \subseteq AbstractTimed

\* The locks of the abstract monitor, thread by thread.
LEMMA HeldOf ==
  ASSUME NEW t \in Threads, NEW o \in Objects
  PROVE  /\ AbstractHeld[t][o] = IF waiter[t].record = NULL \/ o # obj[t] THEN held[t][o]
                                 ELSE IF StillHolds(t) THEN waiter[t].lockCount ELSE 0
         /\ AbstractHeld'[t][o] = IF waiter'[t].record = NULL \/ o # obj'[t] THEN held'[t][o]
                                  ELSE IF StillHolds(t)' THEN waiter'[t].lockCount ELSE 0
  BY DEF AbstractHeld

\* Its wait set, likewise
LEMMA WaitOf ==
  ASSUME NEW t \in Threads
  PROVE  /\ AbstractWait[t] = IF InWaitSet(t) THEN obj[t] ELSE NULL
         /\ AbstractDepth[t] = IF InWaitSet(t) THEN waiter[t].lockCount ELSE 0
         /\ AbstractWait'[t] = IF InWaitSet(t)' THEN obj'[t] ELSE NULL
         /\ AbstractDepth'[t] = IF InWaitSet(t)' THEN waiter'[t].lockCount ELSE 0
  BY DEF AbstractWait, AbstractDepth

\* The abstract monitor knows the same of the threads that do not move.
LEMMA OthersStay ==
  ASSUME NEW t \in Threads, Moves(t), SleepersStay(t)
  PROVE  \A u \in Threads \ {t} : SameHeld(u) /\ SameWait(u) /\ SameSleep(u)
  <1>. SUFFICES ASSUME NEW u \in Threads \ {t} PROVE SameHeld(u) /\ SameWait(u) /\ SameSleep(u)
    OBVIOUS
  <1>1. /\ pc'[u] = pc[u] /\ obj'[u] = obj[u] /\ op'[u] = op[u] /\ held'[u] = held[u]
        /\ waiter'[u] = waiter[u]
    BY DEF Moves, OthersSame
  <1>2. (StillHolds(u)' <=> StillHolds(u)) /\ (InWaitSet(u)' <=> InWaitSet(u))
    BY <1>1 DEF StillHolds, InWaitSet
  <1>3. SameHeld(u)
    BY <1>1, <1>2, HeldOf DEF SameHeld
  <1>4. SameWait(u)
    BY <1>1, <1>2, WaitOf DEF SameWait
  <1>5. SameSleep(u)
    BY <1>1 DEF SameSleep, Asleep, At, SleepersStay
  <1>. QED
    BY <1>3, <1>4, <1>5

\* A thread that is not asleep may change its time limit.
LEMMA TimedStays ==
  ASSUME NEW t \in Threads, Moves(t), ~Asleep(t) \/ op'[t] = op[t]
  PROVE  TimedKept
  BY DEF TimedKept, AbstractTimed, AbstractAsleep, Moves

\* Steps the abstract monitor does not see
LEMMA Stutters ==
  ASSUME NEW t \in Threads, TimedKept,
         \A u \in Threads : SameHeld(u) /\ SameWait(u) /\ SameSleep(u)
  PROVE  JM!Next
  <1>1. AbstractHeld' = AbstractHeld
    BY DEF SameHeld, AbstractHeld
  <1>2. AbstractWait' = AbstractWait /\ AbstractDepth' = AbstractDepth
    BY DEF SameWait, AbstractWait, AbstractDepth
  <1>3. AbstractAsleep' = AbstractAsleep
    BY DEF SameSleep, AbstractAsleep
  <1>. QED
    BY <1>1, <1>2, <1>3 DEF JM!Next, TimedKept

\* A change of the locks of thread t on object o, and of nothing else
LEMMA HeldChanges ==
  ASSUME NEW t \in Threads, NEW o \in Objects, NEW n,
         \A u \in Threads \ {t} : SameHeld(u) /\ SameWait(u) /\ SameSleep(u),
         SameSleep(t), AbstractHeld'[t][o] = n,
         \A p \in Objects \ {o} : AbstractHeld'[t][p] = AbstractHeld[t][p]
  PROVE  /\ AbstractHeld' = [AbstractHeld EXCEPT ![t][o] = n]
         /\ AbstractAsleep' = AbstractAsleep
         /\ SameWait(t) => AbstractWait' = AbstractWait /\ AbstractDepth' = AbstractDepth
  <1>1. AbstractHeld' = [u \in Threads |-> [p \in Objects |-> AbstractHeld'[u][p]]]
    BY DEF AbstractHeld
  <1>2. AbstractHeld = [u \in Threads |-> [p \in Objects |-> AbstractHeld[u][p]]]
    BY DEF AbstractHeld
  <1>3. AbstractHeld' = [AbstractHeld EXCEPT ![t][o] = n]
    BY <1>1, <1>2 DEF SameHeld
  <1>4. AbstractAsleep' = AbstractAsleep
    BY DEF SameSleep, AbstractAsleep
  <1>5. SameWait(t) => AbstractWait' = AbstractWait /\ AbstractDepth' = AbstractDepth
    BY DEF SameWait, AbstractWait, AbstractDepth
  <1>. QED
    BY <1>3, <1>4, <1>5

\* A thread that is in vm_object_do_wait has the record of its object.
LEMMA WaiterAttached ==
  ASSUME Inv, NEW t \in Threads, waiter[t].record # NULL \/ pc[t] = "asleep"
  PROVE  /\ waiter[t].record \in Records /\ obj[t] \in Objects
         /\ waiter[t].record = monitorRecord[obj[t]] /\ waiter[t].record \notin heap
         /\ waiter[t].record # NULL
  <1>1. waiter[t].record \in Records /\ waiter[t].record # NULL
    BY DEF Inv, MonitorAssumption, DataOK, Waiter, OrNull, LocalsSet, WaitPC
  <1>2. obj[t] \in Objects
    BY <1>1 DEF Inv, WaitFrames, LocalsSet
  <1>. QED
    BY <1>1, <1>2 DEF Inv, SafetyInv, WaitersKeepRecord, RecordPlacement

\* What the control operators do to the functions that threads are in
LEMMA GotoMoves ==
  ASSUME ControlOK, NEW t \in Threads, NEW label, NEW r, GotoWith(t, label, r),
         \A u \in Threads \ {t} : held'[u] = held[u] /\ waiter'[u] = waiter[u]
  PROVE  Moves(t) /\ pc'[t] = label /\ op'[t] = op[t] /\ obj'[t] = obj[t]
  BY GotoEffect DEF ControlOK, GotoWith, Moves

\* and when one is entered
LEMMA EnterMoves ==
  ASSUME ControlOK, NEW t \in Threads, NEW label, NEW f, NEW by, NEW o,
         Enter(t, label, f, by, o),
         \A u \in Threads \ {t} : held'[u] = held[u] /\ waiter'[u] = waiter[u]
  PROVE  Moves(t) /\ pc'[t] = label /\ op'[t] = f /\ obj'[t] = o
  BY EnterEffect DEF ControlOK, Enter, Moves

\* A function returns into vm_object_do_wait, or to a caller that does not wait.
LEMMA ReturnMoves ==
  ASSUME ControlOK, WaitFrames, NEW t \in Threads, Return(t), pc[t] \notin WaitPC,
         \A u \in Threads \ {t} : held'[u] = held[u] /\ waiter'[u] = waiter[u]
  PROVE  /\ Moves(t) /\ pc'[t] \in {"condWait", "relocked", "ownerCheck", "idle"}
         /\ waiter[t].record # NULL =>
              /\ op'[t] \in WaitCalls /\ obj'[t] = obj[t]
              /\ op[t] = "lock" => pc'[t] = "relocked"
  <1>1. CASE op[t] = "unlock" /\ caller[t] \in WaitCalls
             /\ Enter(t, "condWait", caller[t], "user", obj[t])
    BY <1>1, EnterMoves
  <1>2. CASE caller[t] \in WaitCalls /\ Enter(t, "relocked", caller[t], "user", obj[t])
    BY <1>2, EnterMoves
  <1>3. CASE caller[t] = "interrupt" /\ Enter(t, "ownerCheck", "notifyAll", "interrupt", obj[t])
    BY <1>3, EnterMoves DEF WaitFrames, WaitCalls
  <1>4. CASE caller[t] = "interrupt" /\ Enter(t, "ownerCheck", "unlock", "interrupt", obj[t])
    BY <1>4, EnterMoves DEF WaitFrames, WaitCalls
  <1>5. CASE /\ ~(caller[t] \in WaitCalls /\ op[t] \in {"unlock", "lock"})
             /\ Enter(t, "idle", "none", "user", NULL)
    BY <1>5, EnterMoves DEF WaitFrames
  <1>. QED
    BY <1>1, <1>2, <1>3, <1>4, <1>5, ReturnCases

\* The control points of vm_object_lock
LockPC == {"readRecord", "casRecord", "incBlocked"} \cup CountedPC

\* A waiter is in the lock or in the unlock that it calls, or in
\* vm_object_do_wait itself.
LEMMA Inside ==
  ASSUME Inv, WaitInv, NEW t \in Threads, waiter[t].record # NULL
  PROVE  /\ pc[t] \in LockPC => op[t] = "lock"
         /\ pc[t] \in UnlockPC => op[t] = "unlock"
         /\ pc[t] \in WaitPC => op[t] \in WaitCalls
         /\ pc[t] \in LockPC \cup UnlockPC \cup WaitPC
  BY DEF Inv, ControlOK, PC, WaitInv, WaitOK, WaitFrames, LockPC, UnlockPC, WaitPC, WaitCalls,
     CheckPC, DeflatedPC, CountedPC

\* A step that leaves notify_mutex to the other waiters keeps their part of WaitInv.
LEMMA WaitersStay ==
  ASSUME WaitInv, NEW t \in Threads, Moves(t), WaitOK(t)',
         \A u \in Threads \ {t} :
           waiter[u].record # NULL /\ notifyMutex[waiter[u].record] = u =>
             notifyMutex'[waiter[u].record] = u
  PROVE  WaitInv'
  <1>1. \A u \in Threads \ {t} : WaitOK(u)'
    BY DEF WaitInv, WaitOK, Moves, OthersSame
  <1>. QED
    BY <1>1 DEF WaitInv

\* Steps that neither a waiter nor the abstract monitor notices
LEMMA Unseen ==
  ASSUME NEW t \in Threads, Moves(t), SleepersStay(t), waiter'[t] = waiter[t],
         pc[t] # "asleep", pc'[t] # "asleep",
         waiter[t].record = NULL => held'[t] = held[t],
         waiter[t].record # NULL =>
           /\ obj'[t] = obj[t] /\ \A o \in Objects \ {obj[t]} : held'[t][o] = held[t][o]
           /\ StillHolds(t)' <=> StillHolds(t)
  PROVE  JM!Next
  <1>1. SameSleep(t) /\ ~Asleep(t)
    BY DEF SameSleep, Asleep, At
  <1>2. SameHeld(t)
    BY HeldOf DEF SameHeld
  <1>3. SameWait(t)
    BY WaitOf DEF SameWait, InWaitSet
  <1>. QED
    BY <1>1, <1>2, <1>3, OthersStay, TimedStays, Stutters

\* Records that are in use keep notify_mutex and notify_cond.
NotifyingStays ==
  \A r \in Records \ heap : notifyMutex'[r] = notifyMutex[r] /\ condQueue'[r] = condQueue[r]

\* The records that threads wait on are in use.
LEMMA NotifyingKept ==
  ASSUME Inv, NEW t \in Threads, NotifyingStays
  PROVE  /\ SleepersStay(t)
         /\ \A u \in Threads : waiter[u].record # NULL =>
              notifyMutex'[waiter[u].record] = notifyMutex[waiter[u].record]
  BY WaiterAttached DEF NotifyingStays, SleepersStay

\* Who is said to hold an object has locks on it.
LEMMA HeldIsReal ==
  ASSUME Inv, NEW t \in Threads, NEW o \in Objects, AbstractHeld[t][o] # 0
  PROVE  held[t][o] > 0
  <1>1. held[t][o] \in Int /\ held[t][o] >= 0
    BY DEF Inv, DataOK, SafetyInv, OwnerHolds
  <1>. QED
    BY <1>1, HeldOf DEF StillHolds

\* A thread that gets locks is the only one that has some.
LEMMA OnlyHolder ==
  ASSUME Inv, Inv', NEW t \in Threads, NEW o \in Objects, Moves(t), held'[t][o] > 0
  PROVE  \A u \in Threads \ {t} : AbstractHeld[u][o] = 0
  <1>. SUFFICES ASSUME NEW u \in Threads \ {t}, AbstractHeld[u][o] # 0 PROVE FALSE
    OBVIOUS
  <1>1. held'[u][o] > 0
    BY HeldIsReal DEF Moves
  <1>2. MutualExclusion'
    BY DEF Inv, SafetyInv
  <1>. QED
    BY <1>1, <1>2 DEF MutualExclusion

\* vm_object_lock, called by a thread that does not wait, grants what an
\* abstract Acquire does.
LEMMA Grants ==
  ASSUME Inv, Inv', NEW t \in Threads, waiter[t].record = NULL, waiter'[t] = waiter[t],
         obj[t] \in Objects, Granted(t), Moves(t), SleepersStay(t),
         pc[t] # "asleep", pc'[t] # "asleep"
  PROVE  JM!Next
  <1>1. SameSleep(t) /\ ~Asleep(t)
    BY DEF SameSleep, Asleep, At
  <1>2. \A u \in Threads \ {t} : SameHeld(u) /\ SameWait(u) /\ SameSleep(u)
    BY OthersStay
  <1>3. held \in [Threads -> [Objects -> Int]] /\ held[t][obj[t]] >= 0
    BY DEF Inv, DataOK, SafetyInv, OwnerHolds
  <1>4. /\ held'[t][obj[t]] = held[t][obj[t]] + 1
        /\ \A p \in Objects \ {obj[t]} : held'[t][p] = held[t][p]
    BY <1>3 DEF Granted
  <1>5. AbstractHeld'[t][obj[t]] = AbstractHeld[t][obj[t]] + 1
        /\ \A p \in Objects \ {obj[t]} : AbstractHeld'[t][p] = AbstractHeld[t][p]
    BY <1>4, HeldOf
  <1>6. SameWait(t) /\ AbstractWait[t] = NULL
    BY WaitOf DEF SameWait, InWaitSet
  <1>7. JM!FreeFor(t, obj[t])
    BY <1>3, <1>4, OnlyHolder DEF JM!FreeFor
  <1>8. /\ AbstractHeld' = [AbstractHeld EXCEPT ![t][obj[t]] = AbstractHeld[t][obj[t]] + 1]
        /\ AbstractAsleep' = AbstractAsleep
        /\ AbstractWait' = AbstractWait /\ AbstractDepth' = AbstractDepth
    BY <1>1, <1>2, <1>5, <1>6, HeldChanges
  <1>9. AbstractHeld' = [AbstractHeld EXCEPT ![t][obj[t]] = @ + 1]
    BY <1>8
  <1>10. JM!Acquire(t, obj[t])
    BY <1>6, <1>7, <1>8, <1>9 DEF JM!Acquire
  <1>11. TimedKept
    BY <1>1, TimedStays
  <1>. QED
    BY <1>10, <1>11 DEF JM!Next, TimedKept

\* The steps of vm_object_lock; inside a wait they are not seen.
LEMMA LockStep ==
  ASSUME Inv, Inv', WaitInv, NEW t \in Threads, pc[t] \in LockPC, waiter' = waiter,
         held' = held \/ Granted(t), NotifyingStays,
         \/ \E label \in LockPC, r \in OrNull(Records) : GotoWith(t, label, r)
         \/ Return(t)
         \/ caller[t] = "interrupt" /\ Enter(t, "idle", "none", "user", NULL)
  PROVE  WaitInv' /\ JM!Next
  <1>1. ControlOK /\ WaitFrames /\ obj[t] \in Objects /\ pc[t] \notin WaitPC
        /\ pc[t] # "asleep"
    BY DEF Inv, LocalsSet, LockPC, CountedPC, WaitPC
  <1>2. \A u \in Threads \ {t} : held'[u] = held[u] /\ waiter'[u] = waiter[u]
    BY DEF Inv, DataOK, Granted
  <1>3. waiter[t].record # NULL =>
          \A o \in Objects \ {obj[t]} : held'[t][o] = held[t][o]
    BY <1>1 DEF Inv, DataOK, Granted
  <1>4. waiter[t].record # NULL => op[t] = "lock" /\ caller[t] # "interrupt"
    BY <1>1, Inside DEF WaitFrames, WaitCalls
  <1>5. /\ Moves(t) /\ pc'[t] # "asleep"
        /\ waiter[t].record # NULL =>
             obj'[t] = obj[t] /\ op'[t] # "unlock" /\ pc'[t] # "condWait"
    <2>1. CASE \E label \in LockPC, r \in OrNull(Records) : GotoWith(t, label, r)
      BY <1>1, <1>2, <1>4, <2>1, GotoMoves DEF LockPC, CountedPC
    <2>2. CASE Return(t)
      BY <1>1, <1>2, <1>4, <2>2, ReturnMoves DEF WaitCalls
    <2>3. CASE caller[t] = "interrupt" /\ Enter(t, "idle", "none", "user", NULL)
      BY <1>1, <1>2, <1>4, <2>3, EnterMoves
    <2>. QED
      BY <2>1, <2>2, <2>3
  <1>6. WaitInv'
    BY <1>5, NotifyingKept, WaitersStay DEF WaitOK
  <1>7. CASE waiter[t].record = NULL /\ held' # held
    <2>1. Granted(t) /\ SleepersStay(t) /\ waiter'[t] = waiter[t]
      BY <1>7, NotifyingKept
    <2>. QED
      BY <1>1, <1>5, <1>6, <1>7, <2>1, Grants
  <1>8. CASE waiter[t].record # NULL \/ held' = held
    <2>1. waiter[t].record # NULL => ~StillHolds(t) /\ ~StillHolds(t)'
      BY <1>4, <1>5 DEF StillHolds
    <2>2. /\ SleepersStay(t) /\ waiter'[t] = waiter[t]
          /\ waiter[t].record = NULL => held'[t] = held[t]
      BY <1>8, NotifyingKept
    <2>. QED
      BY <1>1, <1>3, <1>5, <1>6, <2>1, <2>2, Unseen
  <1>. QED
    BY <1>6, <1>7, <1>8

\* vm_object_lock, action by action
LEMMA LockingSeen ==
  ASSUME Inv, Inv', WaitInv, NEW t \in Threads,
         \/ ReadRecord(t) \/ CasRecord(t) \/ IncBlocked(t) \/ Loop(t)
         \/ SetCandidate(t) \/ CasOwner(t) \/ SemWait(t) \/ DecBlocked(t)
  PROVE  WaitInv' /\ JM!Next
  <1>. USE DEF At, LockPC, CountedPC, rest, Goto, NotifyingStays, OrNull
  <1>1. rec[t] \in OrNull(Records)
    BY DEF Inv, ControlOK
  <1>2. CASE ReadRecord(t)
    <2>1. monitorRecord[obj[t]] \in OrNull(Records)
      BY <1>2 DEF Inv, DataOK, LocalsSet, ReadRecord
    <2>2. NotifyingStays
      BY <1>2 DEF ReadRecord, TakeRecord, RecordPlacement, SafetyInv, Inv, DataOK, mon, notifying,
         MonitorAssumption
    <2>3. CASE UNCHANGED held /\ ReturnError(t)
      <3>1. Return(t) \/ (caller[t] = "interrupt" /\ Enter(t, "idle", "none", "user", NULL))
        BY <2>3 DEF ReturnError
      <3>2. pc[t] \in LockPC /\ waiter' = waiter /\ held' = held
        BY <1>2, <2>3 DEF ReadRecord
      <3>. QED
        BY <2>2, <3>1, <3>2, LockStep
    <2>4. CASE Granted(t) /\ Return(t)
      <3>1. pc[t] \in LockPC /\ waiter' = waiter
        BY <1>2 DEF ReadRecord
      <3>. QED
        BY <2>2, <2>4, <3>1, LockStep
    <2>5. CASE UNCHANGED held /\ \E label \in LockPC, r \in OrNull(Records) : GotoWith(t, label, r)
      <3>1. pc[t] \in LockPC /\ waiter' = waiter
        BY <1>2 DEF ReadRecord
      <3>. QED
        BY <2>2, <2>5, <3>1, LockStep
    <2>. QED
      BY <1>2, <2>1, <2>3, <2>4, <2>5 DEF ReadRecord
  <1>3. CASE CasRecord(t)
    <2>1. /\ pc[t] \in LockPC /\ waiter' = waiter /\ NotifyingStays
          /\ held' = held \/ Granted(t)
          /\ (\E label \in LockPC, r \in OrNull(Records) : GotoWith(t, label, r)) \/ Return(t)
      BY <1>3 DEF CasRecord, mon, notifying
    <2>. QED
      BY <2>1, LockStep
  <1>4. CASE IncBlocked(t)
    <2>1. /\ pc[t] \in LockPC /\ waiter' = waiter /\ NotifyingStays /\ held' = held
          /\ \E label \in LockPC, r \in OrNull(Records) : GotoWith(t, label, r)
      BY <1>1, <1>4 DEF IncBlocked, notifying
    <2>. QED
      BY <2>1, LockStep
  <1>5. CASE Loop(t)
    <2>1. /\ pc[t] \in LockPC /\ waiter' = waiter /\ NotifyingStays /\ held' = held
          /\ \E label \in LockPC, r \in OrNull(Records) : GotoWith(t, label, r)
      BY <1>1, <1>5 DEF Loop, mon, notifying
    <2>. QED
      BY <2>1, LockStep
  <1>6. CASE SetCandidate(t)
    <2>1. /\ pc[t] \in LockPC /\ waiter' = waiter /\ NotifyingStays /\ held' = held
          /\ \E label \in LockPC, r \in OrNull(Records) : GotoWith(t, label, r)
      BY <1>1, <1>6 DEF SetCandidate, notifying
    <2>. QED
      BY <2>1, LockStep
  <1>7. CASE CasOwner(t)
    <2>1. /\ pc[t] \in LockPC /\ waiter' = waiter /\ NotifyingStays
          /\ held' = held \/ Granted(t)
          /\ \E label \in LockPC, r \in OrNull(Records) : GotoWith(t, label, r)
      BY <1>1, <1>7 DEF CasOwner, notifying
    <2>. QED
      BY <2>1, LockStep
  <1>8. CASE SemWait(t)
    <2>1. /\ pc[t] \in LockPC /\ waiter' = waiter /\ NotifyingStays /\ held' = held
          /\ \E label \in LockPC, r \in OrNull(Records) : GotoWith(t, label, r)
      BY <1>1, <1>8 DEF SemWait, notifying
    <2>. QED
      BY <2>1, LockStep
  <1>9. CASE DecBlocked(t)
    <2>1. /\ pc[t] \in LockPC /\ waiter' = waiter /\ NotifyingStays /\ held' = held
          /\ (\E label \in LockPC, r \in OrNull(Records) : GotoWith(t, label, r)) \/ Return(t)
      BY <1>9 DEF DecBlocked, notifying
    <2>. QED
      BY <2>1, LockStep
  <1>. QED
    BY <1>2, <1>3, <1>4, <1>5, <1>6, <1>7, <1>8, <1>9

\* Steps that leave locks, waits and notify_mutex alone
LEMMA QuietSeen ==
  ASSUME Inv, WaitInv, NEW t \in Threads, waiter' = waiter, held' = held, NotifyingStays,
         Moves(t), pc[t] # "asleep", pc'[t] # "asleep",
         waiter[t].record # NULL =>
           obj'[t] = obj[t] /\ WaitOK(t)' /\ (StillHolds(t)' <=> StillHolds(t))
  PROVE  WaitInv' /\ JM!Next
  <1>1. SleepersStay(t) /\ \A u \in Threads : waiter[u].record # NULL =>
          notifyMutex'[waiter[u].record] = notifyMutex[waiter[u].record]
    BY NotifyingKept
  <1>2. WaitOK(t)'
    BY DEF WaitOK
  <1>3. WaitInv'
    BY <1>1, <1>2, WaitersStay
  <1>4. JM!Next
    BY <1>1, Unseen
  <1>. QED
    BY <1>3, <1>4

\* vm_object_unlock, called by a thread that does not wait, gives up what an
\* abstract Release does.
LEMMA LetsGo ==
  ASSUME Inv, WaitInv, NEW t \in Threads, waiter[t].record = NULL, waiter' = waiter,
         obj[t] \in Objects, Moves(t), NotifyingStays, pc[t] # "asleep", pc'[t] # "asleep",
         held[t][obj[t]] > 0, held' = [held EXCEPT ![t][obj[t]] = held[t][obj[t]] - 1]
  PROVE  WaitInv' /\ JM!Next
  <1>1. SleepersStay(t) /\ \A u \in Threads : waiter[u].record # NULL =>
          notifyMutex'[waiter[u].record] = notifyMutex[waiter[u].record]
    BY NotifyingKept
  <1>2. WaitInv'
    BY <1>1, WaitersStay DEF WaitOK
  <1>3. SameSleep(t) /\ ~Asleep(t)
    BY DEF SameSleep, Asleep, At
  <1>4. \A u \in Threads \ {t} : SameHeld(u) /\ SameWait(u) /\ SameSleep(u)
    BY <1>1, OthersStay
  <1>5. held \in [Threads -> [Objects -> Int]]
    BY DEF Inv, DataOK
  <1>6. /\ AbstractHeld[t][obj[t]] > 0
        /\ AbstractHeld'[t][obj[t]] = AbstractHeld[t][obj[t]] - 1
        /\ \A p \in Objects \ {obj[t]} : AbstractHeld'[t][p] = AbstractHeld[t][p]
    BY <1>5, HeldOf
  <1>7. SameWait(t)
    BY WaitOf DEF SameWait, InWaitSet
  <1>8. /\ AbstractHeld' = [AbstractHeld EXCEPT ![t][obj[t]] = AbstractHeld[t][obj[t]] - 1]
        /\ AbstractAsleep' = AbstractAsleep
        /\ AbstractWait' = AbstractWait /\ AbstractDepth' = AbstractDepth
    BY <1>3, <1>4, <1>6, <1>7, HeldChanges
  <1>9. AbstractHeld' = [AbstractHeld EXCEPT ![t][obj[t]] = @ - 1]
    BY <1>8
  <1>10. JM!Release(t, obj[t])
    BY <1>6, <1>8, <1>9 DEF JM!Release
  <1>11. TimedKept
    BY <1>3, TimedStays
  <1>. QED
    BY <1>2, <1>10, <1>11 DEF JM!Next, TimedKept

\* owner_check; inside a wait it sees the monitor owned and locked once.
LEMMA OwnerCheckSeen ==
  ASSUME Inv, WaitInv, NEW t \in Threads, OwnerCheck(t)
  PROVE  WaitInv' /\ JM!Next
  <1>. DEFINE r == monitorRecord[obj[t]]
              owns == r # NULL /\ owner[r] = t
  <1>1. /\ ControlOK /\ WaitFrames /\ obj[t] \in Objects /\ pc[t] = "ownerCheck"
        /\ waiter' = waiter /\ NotifyingStays
    BY DEF Inv, OwnerCheck, At, LocalsSet, rest, notifying, NotifyingStays
  <1>2. waiter[t].record # NULL =>
          /\ op[t] = "unlock" /\ owns /\ lockCount[r] = 1 /\ held[t][obj[t]] = 1
          /\ notifyMutex[waiter[t].record] = t
    <2>1. MutualExclusion
      BY DEF Inv, SafetyInv
    <2>2. waiter[t].record # NULL =>
            /\ op[t] = "unlock" /\ held[t][obj[t]] = 1 /\ notifyMutex[waiter[t].record] = t
      BY <1>1, Inside DEF WaitInv, WaitOK, UnlockPC
    <2>. QED
      BY <1>1, <2>1, <2>2 DEF MutualExclusion
  <1>3. CASE ~owns /\ Return(t) /\ UNCHANGED held
    <2>1. Moves(t) /\ pc'[t] # "asleep"
      BY <1>1, <1>3, ReturnMoves DEF WaitPC
    <2>. QED
      BY <1>1, <1>2, <1>3, <2>1, QuietSeen
  <1>4. CASE /\ owns /\ op[t] = "unlock" /\ lockCount[r] > 1 /\ Return(t)
             /\ held' = [held EXCEPT ![t][obj[t]] = @ - 1]
    <2>1. \A u \in Threads \ {t} : held'[u] = held[u] /\ waiter'[u] = waiter[u]
      BY <1>1, <1>4 DEF Inv, DataOK
    <2>2. Moves(t) /\ pc'[t] # "asleep"
      BY <1>1, <1>4, <2>1, ReturnMoves DEF WaitPC
    <2>3. held[t][obj[t]] > 0
      BY <1>1, <1>4 DEF Inv, SafetyInv, OwnerHolds
    <2>4. waiter[t].record = NULL
      BY <1>2, <1>4
    <2>5. held' = [held EXCEPT ![t][obj[t]] = held[t][obj[t]] - 1]
      BY <1>1, <1>4 DEF Inv, DataOK
    <2>. QED
      BY <1>1, <2>2, <2>3, <2>4, <2>5, LetsGo
  <1>5. CASE GotoWith(t, Checked(op[t]), r) /\ UNCHANGED held
    <2>1. Moves(t) /\ pc'[t] = Checked(op[t]) /\ op'[t] = op[t] /\ obj'[t] = obj[t]
      BY <1>1, <1>5, GotoMoves
    <2>2. pc'[t] # "asleep" /\ (op[t] = "unlock" => pc'[t] = "testBlocked")
      BY <2>1 DEF Checked
    <2>3. waiter[t].record # NULL => WaitOK(t)' /\ (StillHolds(t)' <=> StillHolds(t))
      BY <1>1, <1>2, <1>5, <2>1, <2>2, NotifyingKept DEF WaitOK, StillHolds, UnlockPC
    <2>. QED
      BY <1>1, <1>5, <2>1, <2>2, <2>3, QuietSeen
  <1>. QED
    BY <1>3, <1>4, <1>5 DEF OwnerCheck

\* The rest of vm_object_unlock, except for record->owner = NULL
LEMMA UnlockSeen ==
  ASSUME Inv, WaitInv, NEW t \in Threads,
         TestBlocked(t) \/ WakeOne(t) \/ SemPost(t) \/ Recheck(t) \/ Flush(t) \/ Spin(t)
  PROVE  WaitInv' /\ JM!Next
  <1>. USE DEF At, Goto
  <1>1. ControlOK /\ WaitFrames
    BY DEF Inv
  <1>2. waiter' = waiter /\ held' = held /\ NotifyingStays
        /\ pc[t] \in {"testBlocked", "wakeOne", "semPost", "recheck", "flush", "spin"}
    BY DEF TestBlocked, WakeOne, SemPost, Recheck, Flush, Spin, rest, mon, notifying, NotifyingStays
  <1>3. waiter[t].record # NULL => op[t] = "unlock" /\ pc[t] \in UnlockPC
    BY <1>2, Inside DEF LockPC, CountedPC, WaitPC, UnlockPC
  <1>4. ASSUME waiter[t].record # NULL
        PROVE  /\ notifyMutex'[waiter[t].record] = t
               /\ held[t][obj[t]] = IF pc[t] \in {"wakeOne", "semPost"} THEN 0 ELSE 1
    BY <1>2, <1>3, <1>4, NotifyingKept DEF WaitInv, WaitOK
  <1>5. CASE Return(t) /\ ~TestBlocked(t)
    <2>1. /\ Moves(t) /\ pc'[t] # "asleep"
          /\ waiter[t].record # NULL => op'[t] \in WaitCalls /\ obj'[t] = obj[t]
      BY <1>1, <1>2, <1>5, ReturnMoves DEF WaitPC
    <2>2. waiter[t].record # NULL => pc[t] \in {"wakeOne", "semPost"}
      BY <1>3, <1>5 DEF WakeOne, SemPost, Recheck, Flush, Spin, UnlockPC
    <2>3. waiter[t].record # NULL => WaitOK(t)' /\ ~StillHolds(t)' /\ ~StillHolds(t)
      BY <1>2, <1>4, <2>1, <2>2 DEF WaitOK, StillHolds, WaitCalls
    <2>. QED
      BY <1>2, <2>1, <2>3, QuietSeen
  <1>6. CASE TestBlocked(t)
    <2>1. rec[t] \in Records /\ rec[t] = monitorRecord[obj[t]]
      BY <1>6 DEF Inv, LocalsSet, RecordPC, SafetyInv, HoldersOwn, TestBlocked
    <2>2. waiter[t].record # NULL => nrWaiting[rec[t]] > 0
      <3>1. waiter[t].record # NULL => waiter[t].record = rec[t]
        BY <2>1, WaiterAttached
      <3>2. nrWaiting[rec[t]] \in Int
        BY <2>1 DEF Inv, DataOK
      <3>. QED
        BY <2>1, <3>1, <3>2, NobodyWaits
    <2>3. /\ GotoWith(t, pc'[t], rec[t]) /\ pc'[t] \in {"release", "deflate"}
          /\ waiter[t].record # NULL => pc'[t] = "release"
      BY <1>1, <1>6, <2>2, GotoEffect DEF TestBlocked
    <2>4. Moves(t) /\ op'[t] = op[t] /\ obj'[t] = obj[t]
      BY <1>1, <1>2, <2>3, GotoMoves
    <2>5. waiter[t].record # NULL => WaitOK(t)' /\ (StillHolds(t)' <=> StillHolds(t))
      BY <1>2, <1>4, <1>6, <2>3, <2>4 DEF WaitOK, StillHolds, UnlockPC, TestBlocked
    <2>. QED
      BY <1>2, <2>3, <2>4, <2>5, QuietSeen
  <1>7. CASE WakeOne(t) /\ GotoWith(t, "semPost", rec[t])
    <2>1. Moves(t) /\ pc'[t] = "semPost" /\ op'[t] = op[t] /\ obj'[t] = obj[t]
      BY <1>1, <1>2, <1>7, GotoMoves
    <2>2. waiter[t].record # NULL => WaitOK(t)' /\ (StillHolds(t)' <=> StillHolds(t))
      BY <1>2, <1>4, <1>7, <2>1 DEF WaitOK, StillHolds, UnlockPC, WakeOne
    <2>. QED
      BY <1>2, <2>1, <2>2, QuietSeen
  <1>8. CASE Recheck(t) /\ GotoWith(t, "flush", rec[t])
    <2>1. Moves(t) /\ pc'[t] = "flush" /\ waiter[t].record = NULL
      BY <1>1, <1>2, <1>3, <1>8, GotoMoves DEF Recheck, UnlockPC
    <2>. QED
      BY <1>2, <2>1, QuietSeen
  <1>9. CASE Flush(t)
    <2>1. \E label \in {"flush", "spin"} : GotoWith(t, label, rec[t])
      BY <1>9 DEF Flush
    <2>2. Moves(t) /\ pc'[t] \in {"flush", "spin"} /\ waiter[t].record = NULL
      BY <1>1, <1>2, <1>3, <1>9, <2>1, GotoMoves DEF Flush, UnlockPC
    <2>. QED
      BY <1>2, <2>2, QuietSeen
  <1>. QED
    BY <1>5, <1>6, <1>7, <1>8, <1>9 DEF WakeOne, SemPost, Recheck, Spin

\* The last lock goes: record->owner = NULL or self->monitor_record = NULL.  In a
\* wait this is where the thread joins the wait set.
LEMMA GivingUpSeen ==
  ASSUME Inv, WaitInv, NEW t \in Threads, Release(t) \/ Deflate(t)
  PROVE  WaitInv' /\ JM!Next
  <1>. USE DEF At, Goto
  <1>1. /\ ControlOK /\ WaitFrames /\ pc[t] \in {"release", "deflate"}
        /\ waiter' = waiter /\ NotifyingStays /\ GivenUp(t)
        /\ \E label \in {"wakeOne", "recheck"} : GotoWith(t, label, rec[t])
    BY DEF Inv, Release, Deflate, rest, mon, notifying, NotifyingStays
  <1>2. held \in [Threads -> [Objects -> Int]]
    BY DEF Inv, DataOK
  <1>3. obj[t] \in Objects /\ rec[t] \in Records /\ rec[t] # NULL
    BY <1>1 DEF Inv, LocalsSet, RecordPC, MonitorAssumption
  <1>4. held[t][obj[t]] = 1
    BY <1>1, <1>3 DEF Inv, SafetyInv, OwnerHolds, HoldersOwn
  <1>5. Moves(t) /\ pc'[t] \in {"wakeOne", "recheck"} /\ op'[t] = op[t] /\ obj'[t] = obj[t]
    BY <1>1, <1>2, GotoMoves DEF GivenUp
  <1>6. CASE waiter[t].record = NULL
    <2>1. held' = [held EXCEPT ![t][obj[t]] = held[t][obj[t]] - 1]
      BY <1>1, <1>4 DEF GivenUp
    <2>2. held[t][obj[t]] > 0 /\ pc[t] # "asleep" /\ pc'[t] # "asleep"
      BY <1>1, <1>4, <1>5
    <2>. QED
      BY <1>1, <1>3, <1>5, <1>6, <2>1, <2>2, LetsGo
  <1>7. CASE waiter[t].record # NULL
    <2>0. op[t] = "unlock" /\ pc[t] = "release"
      BY <1>1, <1>7, Inside DEF UnlockPC, LockPC, CountedPC, WaitPC
    <2>1. op[t] = "unlock" /\ pc[t] = "release" /\ pc'[t] = "wakeOne"
      BY <1>1, <2>0, GotoEffect DEF Release, Deflate
    <2>2. held'[t][obj[t]] = 0 /\ \A p \in Objects \ {obj[t]} : held'[t][p] = held[t][p]
      BY <1>1, <1>2, <1>3 DEF GivenUp
    <2>3. SleepersStay(t) /\ \A u \in Threads : waiter[u].record # NULL =>
            notifyMutex'[waiter[u].record] = notifyMutex[waiter[u].record]
      BY <1>1, NotifyingKept
    <2>4. WaitOK(t)'
      BY <1>1, <1>5, <1>7, <2>1, <2>2, <2>3 DEF WaitInv, WaitOK, UnlockPC
    <2>5. WaitInv'
      BY <1>5, <2>3, <2>4, WaitersStay
    <2>6. StillHolds(t) /\ ~StillHolds(t)'
      BY <1>4, <1>5, <2>1, <2>2 DEF StillHolds
    <2>7. SameSleep(t) /\ ~Asleep(t)
      BY <1>1, <1>5 DEF SameSleep, Asleep
    <2>8. \A u \in Threads \ {t} : SameHeld(u) /\ SameWait(u) /\ SameSleep(u)
      BY <1>5, <2>3, OthersStay
    <2>9. /\ AbstractHeld[t][obj[t]] = waiter[t].lockCount /\ waiter[t].lockCount > 0
          /\ AbstractHeld'[t][obj[t]] = 0
          /\ \A p \in Objects \ {obj[t]} : AbstractHeld'[t][p] = AbstractHeld[t][p]
      BY <1>1, <1>3, <1>5, <1>7, <2>2, <2>6, HeldOf DEF Inv, SafetyInv, SavedCount
    <2>10. /\ AbstractHeld' = [AbstractHeld EXCEPT ![t][obj[t]] = 0]
           /\ AbstractAsleep' = AbstractAsleep
      BY <1>3, <2>7, <2>8, <2>9, HeldChanges
    <2>11. /\ AbstractWait[t] = NULL /\ AbstractWait'[t] = obj[t]
           /\ AbstractDepth'[t] = AbstractHeld[t][obj[t]]
      BY <1>1, <1>5, <1>7, <2>6, <2>9, WaitOf DEF InWaitSet
    <2>12. /\ AbstractWait' = [AbstractWait EXCEPT ![t] = obj[t]]
           /\ AbstractDepth' = [AbstractDepth EXCEPT ![t] = AbstractHeld[t][obj[t]]]
      BY <2>8, <2>11 DEF SameWait, AbstractWait, AbstractDepth
    <2>13. JM!Wait(t, obj[t])
      BY <2>9, <2>10, <2>11, <2>12 DEF JM!Wait
    <2>14. TimedKept
      BY <1>5, <2>7, TimedStays
    <2>. QED
      BY <1>3, <2>5, <2>13, <2>14 DEF JM!Next, TimedKept
  <1>. QED
    BY <1>6, <1>7

\* The start of a wait: the locks are remembered, and none is given up yet.
LEMMA WaitLockSeen ==
  ASSUME Inv, WaitInv, NEW t \in Threads, WaitLock(t)
  PROVE  WaitInv' /\ JM!Next
  <1>1. /\ pc[t] = "waitLock" /\ Enter(t, "ownerCheck", "unlock", op[t], obj[t])
        /\ notifyMutex[rec[t]] = NULL /\ notifyMutex' = [notifyMutex EXCEPT ![rec[t]] = t]
        /\ waiter' = [waiter EXCEPT ![t] = [record |-> rec[t], lockCount |-> lockCount[rec[t]],
                                            interrupted |-> interrupted[t]]]
        /\ held' = [held EXCEPT ![t][obj[t]] = 1] /\ condQueue' = condQueue
    BY DEF WaitLock, At
  <1>2. ControlOK /\ WaitFrames /\ DataOK /\ MonitorAssumption
    BY DEF Inv
  <1>3. obj[t] \in Objects /\ rec[t] \in Records /\ rec[t] # NULL
    BY <1>1 DEF Inv, LocalsSet, RecordPC, MonitorAssumption
  <1>4. waiter[t].record = NULL
    BY <1>1, Inside DEF UnlockPC, LockPC, CountedPC, WaitPC
  <1>5. lockCount[rec[t]] = held[t][obj[t]]
    BY <1>1, <1>3 DEF Inv, SafetyInv, OwnerHolds, HoldersOwn
  <1>6. /\ waiter'[t].record = rec[t] /\ waiter'[t].lockCount = held[t][obj[t]]
        /\ held'[t][obj[t]] = 1 /\ \A p \in Objects \ {obj[t]} : held'[t][p] = held[t][p]
        /\ \A u \in Threads \ {t} : held'[u] = held[u] /\ waiter'[u] = waiter[u]
    BY <1>1, <1>2, <1>3, <1>5 DEF DataOK
  <1>7. Moves(t) /\ pc'[t] = "ownerCheck" /\ op'[t] = "unlock" /\ obj'[t] = obj[t]
    BY <1>1, <1>2, <1>6, EnterMoves
  <1>8. \A r \in Records : notifyMutex'[r] = IF r = rec[t] THEN t ELSE notifyMutex[r]
    BY <1>1, <1>2 DEF DataOK
  <1>9. WaitOK(t)'
    BY <1>3, <1>6, <1>7, <1>8 DEF WaitOK, UnlockPC
  <1>10. WaitInv'
    <2>1. \A u \in Threads : waiter[u].record # NULL => waiter[u].record \in Records
      BY WaiterAttached
    <2>2. \A u \in Threads : notifyMutex[rec[t]] # u
      BY <1>1, <1>2 DEF MonitorAssumption
    <2>. QED
      BY <1>7, <1>8, <1>9, <2>1, <2>2, WaitersStay
  <1>11. StillHolds(t)'
    BY <1>6, <1>7 DEF StillHolds
  <1>12. SameHeld(t)
    BY <1>3, <1>4, <1>6, <1>7, <1>11, HeldOf DEF SameHeld
  <1>13. SameWait(t)
    BY <1>4, <1>11, WaitOf DEF SameWait, InWaitSet
  <1>14. SameSleep(t) /\ ~Asleep(t)
    BY <1>1, <1>7 DEF SameSleep, Asleep, At
  <1>15. SleepersStay(t)
    BY <1>1 DEF SleepersStay
  <1>16. JM!Next
    BY <1>7, <1>12, <1>13, <1>14, <1>15, OthersStay, TimedStays, Stutters
  <1>. QED
    BY <1>10, <1>16

\* A change of who sleeps, and of nothing else
LEMMA SleepChanges ==
  ASSUME \A u \in Threads : SameHeld(u) /\ SameWait(u)
  PROVE  AbstractHeld' = AbstractHeld /\ AbstractWait' = AbstractWait
         /\ AbstractDepth' = AbstractDepth
  <1>1. AbstractHeld' = AbstractHeld
    BY DEF SameHeld, AbstractHeld
  <1>2. AbstractWait' = AbstractWait /\ AbstractDepth' = AbstractDepth
    BY DEF SameWait, AbstractWait, AbstractDepth
  <1>. QED
    BY <1>1, <1>2

\* The waiter falls asleep and lets notify_mutex go, or goes on at once.
LEMMA CondWaitSeen ==
  ASSUME Inv, WaitInv, NEW t \in Threads, CondWait(t)
  PROVE  WaitInv' /\ JM!Next
  <1>. DEFINE r == waiter[t].record
              sleeps == ~waiter[t].interrupted
  <1>1. /\ pc[t] = "condWait" /\ notifyMutex' = [notifyMutex EXCEPT ![r] = NULL]
        /\ condQueue' = [condQueue EXCEPT ![r] = IF sleeps THEN @ \cup {t} ELSE @]
        /\ GotoWith(t, IF sleeps THEN "asleep" ELSE "clearMon", rec[t])
        /\ waiter' = waiter /\ held' = held
    BY DEF CondWait, At, Goto, rest
  <1>2. ControlOK /\ WaitFrames /\ DataOK /\ MonitorAssumption
    BY DEF Inv
  <1>3. r \in Records /\ r # NULL /\ obj[t] \in Objects
    BY <1>1, WaiterAttached DEF Inv, LocalsSet, WaitPC, MonitorAssumption
  <1>4. op[t] \in WaitCalls
    BY <1>1, <1>2 DEF WaitFrames, WaitPC
  <1>5. /\ Moves(t) /\ pc'[t] = (IF sleeps THEN "asleep" ELSE "clearMon")
        /\ op'[t] = op[t] /\ obj'[t] = obj[t]
    BY <1>1, <1>2, GotoMoves
  <1>6. /\ \A q \in Records \ {r} : notifyMutex'[q] = notifyMutex[q] /\ condQueue'[q] = condQueue[q]
        /\ condQueue'[r] = IF sleeps THEN condQueue[r] \cup {t} ELSE condQueue[r]
    BY <1>1, <1>2, <1>3 DEF DataOK
  <1>7. notifyMutex[r] = t
    BY <1>1, <1>3 DEF WaitInv, WaitOK
  <1>8. WaitOK(t)'
    BY <1>1, <1>4, <1>5 DEF WaitOK, WaitCalls
  <1>9. \A u \in Threads : waiter[u].record # NULL \/ pc[u] = "asleep" =>
          waiter[u].record \in Records
    BY WaiterAttached
  <1>10. WaitInv'
    BY <1>5, <1>6, <1>7, <1>8, <1>9, WaitersStay
  <1>11. SleepersStay(t)
    BY <1>6, <1>9 DEF SleepersStay
  <1>12. ~StillHolds(t) /\ ~StillHolds(t)'
    BY <1>4, <1>5 DEF StillHolds, WaitCalls
  <1>13. CASE ~sleeps
    <2>1. JM!Next
      BY <1>1, <1>5, <1>11, <1>12, <1>13, Unseen
    <2>. QED
      BY <1>10, <2>1
  <1>14. CASE sleeps
    <2>1. SameHeld(t) /\ SameWait(t)
      BY <1>1, <1>5, <1>12, HeldOf, WaitOf DEF SameHeld, SameWait, InWaitSet
    <2>2. \A u \in Threads \ {t} : SameHeld(u) /\ SameWait(u) /\ SameSleep(u)
      BY <1>5, <1>11, OthersStay
    <2>3. Asleep(t)' /\ ~Asleep(t)
      BY <1>1, <1>5, <1>6, <1>14 DEF Asleep, At
    <2>4. AbstractAsleep' = AbstractAsleep \cup {t}
      BY <2>2, <2>3 DEF AbstractAsleep, SameSleep
    <2>5. AbstractWait[t] # NULL
      BY <1>2, <1>3, <1>12, WaitOf DEF InWaitSet, MonitorAssumption
    <2>6. AbstractHeld' = AbstractHeld /\ AbstractWait' = AbstractWait
          /\ AbstractDepth' = AbstractDepth
      BY <2>1, <2>2, SleepChanges
    <2>7. JM!FallAsleep(t)
      BY <2>4, <2>5, <2>6 DEF JM!FallAsleep
    <2>8. TimedKept
      BY <1>5, <2>3, TimedStays
    <2>. QED
      BY <1>10, <2>7, <2>8 DEF JM!Next, TimedKept
  <1>. QED
    BY <1>13, <1>14

\* The time limit wakes its own thread.
LEMMA TimeoutSeen ==
  ASSUME Inv, WaitInv, NEW t \in Threads, Timeout(t)
  PROVE  WaitInv' /\ JM!Next
  <1>. DEFINE r == waiter[t].record
  <1>1. /\ pc[t] = "asleep" /\ op[t] = "timedWait" /\ t \in condQueue[r]
        /\ condQueue' = [condQueue EXCEPT ![r] = @ \ {t}]
        /\ UNCHANGED <<pc, op, obj, rec, waiter, held, notifyMutex>>
    BY DEF Timeout, At, control, rest
  <1>2. r \in Records /\ condQueue \in [Records -> SUBSET Threads]
    BY <1>1, WaiterAttached DEF Inv, DataOK
  <1>3. Moves(t)
    BY <1>1 DEF Moves, OthersSame
  <1>4. WaitInv'
    BY <1>1 DEF WaitInv, WaitOK
  <1>5. \A q \in Records : condQueue'[q] = IF q = r THEN condQueue[r] \ {t} ELSE condQueue[q]
    BY <1>1, <1>2
  <1>6. SleepersStay(t)
    BY <1>5, WaiterAttached DEF SleepersStay
  <1>7. SameHeld(t) /\ SameWait(t)
    BY <1>1, HeldOf, WaitOf DEF SameHeld, SameWait, InWaitSet, StillHolds
  <1>8. \A u \in Threads \ {t} : SameHeld(u) /\ SameWait(u) /\ SameSleep(u)
    BY <1>3, <1>6, OthersStay
  <1>9. Asleep(t) /\ ~Asleep(t)'
    BY <1>1, <1>2, <1>5 DEF Asleep, At
  <1>10. AbstractAsleep' = AbstractAsleep \ {t} /\ t \in AbstractAsleep \cap AbstractTimed
    BY <1>1, <1>8, <1>9 DEF AbstractAsleep, AbstractTimed, SameSleep
  <1>11. AbstractHeld' = AbstractHeld /\ AbstractWait' = AbstractWait
         /\ AbstractDepth' = AbstractDepth
    BY <1>7, <1>8, SleepChanges
  <1>12. JM!Timeout(t)
    BY <1>10, <1>11 DEF JM!Timeout
  <1>13. TimedKept
    BY <1>1, <1>3, TimedStays
  <1>. QED
    BY <1>4, <1>12, <1>13 DEF JM!Next, TimedKept

\* The thread wakes up and calls vm_object_lock.
LEMMA WakeupSeen ==
  ASSUME Inv, WaitInv, NEW t \in Threads, Wakeup(t) \/ ClearMon(t)
  PROVE  WaitInv' /\ JM!Next
  <1>1. /\ pc[t] \in {"asleep", "clearMon"} /\ waiter' = waiter /\ held' = held
        /\ UNCHANGED <<notifyMutex, condQueue>>
    BY DEF Wakeup, ClearMon, At, rest, mon, notifying
  <1>2. ControlOK /\ op[t] \in WaitCalls
    BY <1>1 DEF Inv, WaitFrames, WaitPC
  <1>3. ~Asleep(t)
    BY DEF Asleep, At, Wakeup, ClearMon
  <1>4. /\ Moves(t) /\ pc'[t] \in {"clearMon", "readRecord"} /\ op'[t] \in WaitCalls \cup {"lock"}
        /\ obj'[t] = obj[t]
    BY <1>1, <1>2, GotoMoves, EnterMoves DEF Wakeup, ClearMon, Goto
  <1>5. WaitOK(t)' /\ ~StillHolds(t) /\ ~StillHolds(t)'
    BY <1>2, <1>4 DEF WaitOK, StillHolds, WaitCalls
  <1>6. WaitInv'
    BY <1>1, <1>4, <1>5, WaitersStay
  <1>7. SameSleep(t) /\ SleepersStay(t)
    BY <1>1, <1>3, <1>4 DEF SameSleep, SleepersStay, Asleep, At
  <1>8. SameHeld(t) /\ SameWait(t)
    BY <1>1, <1>4, <1>5, HeldOf, WaitOf DEF SameHeld, SameWait, InWaitSet
  <1>9. JM!Next
    BY <1>3, <1>4, <1>7, <1>8, OthersStay, TimedStays, Stutters
  <1>. QED
    BY <1>6, <1>9

\* The end of a wait brings the locks back.
LEMMA RelockedSeen ==
  ASSUME Inv, Inv', WaitInv, NEW t \in Threads, Relocked(t)
  PROVE  WaitInv' /\ JM!Next
  <1>1. /\ pc[t] = "relocked" /\ held' = [held EXCEPT ![t][obj[t]] = waiter[t].lockCount]
        /\ waiter' = [waiter EXCEPT ![t] = NoWaiter] /\ Return(t)
        /\ UNCHANGED <<notifyMutex, condQueue>>
    BY DEF Relocked, At, notifying
  <1>2. ControlOK /\ WaitFrames /\ DataOK /\ MonitorAssumption
    BY DEF Inv
  <1>3. /\ waiter[t].record \in Records /\ waiter[t].record # NULL /\ obj[t] \in Objects
        /\ op[t] \in WaitCalls /\ caller[t] = "user" /\ waiter[t].lockCount > 0
    BY <1>1, WaiterAttached DEF Inv, LocalsSet, WaitPC, WaitFrames, MonitorAssumption, SafetyInv,
       SavedCount
  <1>4. Enter(t, "idle", "none", "user", NULL)
    BY <1>1, <1>3, ReturnCases DEF WaitCalls
  <1>5. /\ waiter'[t].record = NULL /\ held'[t][obj[t]] = waiter[t].lockCount
        /\ \A p \in Objects \ {obj[t]} : held'[t][p] = held[t][p]
        /\ \A u \in Threads \ {t} : held'[u] = held[u] /\ waiter'[u] = waiter[u]
    BY <1>1, <1>2, <1>3 DEF DataOK, NoWaiter
  <1>6. Moves(t) /\ pc'[t] = "idle" /\ op'[t] = "none"
    BY <1>2, <1>4, <1>5, EnterMoves
  <1>7. WaitInv'
    BY <1>1, <1>5, <1>6, WaitersStay DEF WaitOK
  <1>8. SleepersStay(t) /\ SameSleep(t) /\ ~Asleep(t)
    BY <1>1, <1>6 DEF SleepersStay, SameSleep, Asleep, At
  <1>9. \A u \in Threads \ {t} : SameHeld(u) /\ SameWait(u) /\ SameSleep(u)
    BY <1>6, <1>8, OthersStay
  <1>10. ~StillHolds(t) /\ InWaitSet(t) /\ ~InWaitSet(t)'
    BY <1>3, <1>5 DEF StillHolds, InWaitSet, WaitCalls
  <1>11. /\ AbstractWait[t] = obj[t] /\ AbstractDepth[t] = waiter[t].lockCount
         /\ AbstractWait'[t] = NULL /\ AbstractDepth'[t] = 0
    BY <1>10, WaitOf
  <1>12. /\ AbstractHeld'[t][obj[t]] = AbstractDepth[t]
         /\ \A p \in Objects \ {obj[t]} : AbstractHeld'[t][p] = AbstractHeld[t][p]
    BY <1>3, <1>5, <1>11, HeldOf
  <1>13. AbstractHeld' = [AbstractHeld EXCEPT ![t][AbstractWait[t]] = AbstractDepth[t]]
         /\ AbstractAsleep' = AbstractAsleep
    BY <1>3, <1>8, <1>9, <1>11, <1>12, HeldChanges
  <1>14. /\ AbstractWait' = [AbstractWait EXCEPT ![t] = NULL]
         /\ AbstractDepth' = [AbstractDepth EXCEPT ![t] = 0]
    BY <1>9, <1>11 DEF SameWait, AbstractWait, AbstractDepth
  <1>15. JM!FreeFor(t, AbstractWait[t])
    BY <1>3, <1>5, <1>6, <1>11, OnlyHolder DEF JM!FreeFor
  <1>16. AbstractWait[t] # NULL /\ t \notin AbstractAsleep
    BY <1>2, <1>3, <1>8, <1>11 DEF MonitorAssumption, AbstractAsleep
  <1>17. JM!Resume(t)
    BY <1>13, <1>14, <1>15, <1>16 DEF JM!Resume
  <1>18. TimedKept
    BY <1>6, <1>8, TimedStays
  <1>. QED
    BY <1>7, <1>17, <1>18 DEF JM!Next, TimedKept

\* A notify wakes waiters of its own object.
LEMMA NotifySeen ==
  ASSUME Inv, WaitInv, NEW t \in Threads, Notify(t)
  PROVE  WaitInv' /\ JM!Next
  <1>. DEFINE r == rec[t]
  <1>1. /\ pc[t] = "notifyLock" /\ Return(t) /\ waiter' = waiter /\ held' = held
        /\ notifyMutex' = notifyMutex
    BY DEF Notify, At, rest
  <1>2. PICK woken \in SUBSET condQueue[r] : condQueue' = [condQueue EXCEPT ![r] = @ \ woken]
    BY DEF Notify
  <1>3. ControlOK /\ WaitFrames /\ DataOK /\ MonitorAssumption
    BY DEF Inv
  <1>4. obj[t] \in Objects /\ r \in Records /\ r # NULL /\ monitorRecord[obj[t]] = r /\ owner[r] = t
    BY <1>1 DEF Inv, LocalsSet, RecordPC, MonitorAssumption, SafetyInv, HoldersOwn
  <1>5. waiter[t].record = NULL /\ held[t][obj[t]] > 0
    BY <1>1, <1>4, Inside DEF UnlockPC, LockPC, CountedPC, WaitPC, Inv, SafetyInv, OwnerHolds
  <1>6. Moves(t) /\ pc'[t] # "asleep"
    BY <1>1, <1>3, ReturnMoves DEF WaitPC
  <1>7. WaitInv'
    BY <1>1, <1>5, <1>6, WaitersStay DEF WaitOK
  <1>8. ~Asleep(t) /\ ~Asleep(t)'
    BY <1>1, <1>6 DEF Asleep, At
  <1>9. SameHeld(t) /\ SameWait(t)
    BY <1>1, <1>5, HeldOf, WaitOf DEF SameHeld, SameWait, InWaitSet
  <1>10. ASSUME NEW u \in Threads \ {t} PROVE SameHeld(u) /\ SameWait(u)
    <2>1. /\ pc'[u] = pc[u] /\ obj'[u] = obj[u] /\ op'[u] = op[u] /\ held'[u] = held[u]
          /\ waiter'[u] = waiter[u]
      BY <1>6, <1>10 DEF Moves, OthersSame
    <2>2. (StillHolds(u)' <=> StillHolds(u)) /\ (InWaitSet(u)' <=> InWaitSet(u))
      BY <2>1 DEF StillHolds, InWaitSet
    <2>3. SameHeld(u)
      BY <1>10, <2>1, <2>2, HeldOf DEF SameHeld
    <2>4. SameWait(u)
      BY <1>10, <2>1, <2>2, WaitOf DEF SameWait
    <2>. QED
      BY <2>3, <2>4
  <1>11. \A q \in Records : condQueue'[q] = IF q = r THEN condQueue[q] \ woken ELSE condQueue[q]
    BY <1>2, <1>3, <1>4 DEF DataOK
  <1>12. ASSUME NEW u \in Threads, Asleep(u)' PROVE Asleep(u)
    <2>1. u # t
      BY <1>8, <1>12
    <2>2. pc[u] = "asleep" /\ waiter'[u] = waiter[u] /\ u \in condQueue'[waiter[u].record]
      BY <1>6, <1>12, <2>1 DEF Asleep, At, Moves, OthersSame
    <2>3. waiter[u].record \in Records
      BY <2>2, WaiterAttached
    <2>. QED
      BY <1>11, <2>2, <2>3 DEF Asleep, At
  <1>13. ASSUME NEW u \in Threads, Asleep(u), ~Asleep(u)' PROVE AbstractWait[u] = obj[t]
    <2>1. u # t /\ pc[u] = "asleep"
      BY <1>1, <1>13 DEF Asleep, At
    <2>2. /\ waiter[u].record \in Records /\ obj[u] \in Objects
          /\ waiter[u].record = monitorRecord[obj[u]] /\ waiter[u].record # NULL
      BY <2>1, WaiterAttached
    <2>3. waiter[u].record = r
      BY <1>6, <1>11, <1>13, <2>1, <2>2 DEF Asleep, At, Moves, OthersSame
    <2>4. obj[u] = obj[t]
      BY <1>4, <2>2, <2>3 DEF Inv, SafetyInv, RecordPlacement
    <2>5. InWaitSet(u)
      BY <1>3, <2>1, <2>2 DEF InWaitSet, StillHolds, WaitFrames, WaitPC, WaitCalls
    <2>. QED
      BY <2>4, <2>5, WaitOf
  <1>14. AbstractHeld' = AbstractHeld /\ AbstractWait' = AbstractWait
         /\ AbstractDepth' = AbstractDepth
    BY <1>9, <1>10, SleepChanges
  <1>. DEFINE W == {u \in AbstractAsleep : ~Asleep(u)'}
  <1>15. /\ W \in SUBSET {u \in AbstractAsleep : AbstractWait[u] = obj[t]}
         /\ AbstractAsleep' = AbstractAsleep \ W
    BY <1>12, <1>13 DEF AbstractAsleep
  <1>16. AbstractHeld[t][obj[t]] > 0
    BY <1>4, <1>5, HeldOf
  <1>17. JM!Notify(t, obj[t])
    BY <1>14, <1>15, <1>16 DEF JM!Notify
  <1>18. TimedKept
    BY <1>6, <1>8, TimedStays
  <1>. QED
    BY <1>4, <1>7, <1>17, <1>18 DEF JM!Next, TimedKept

\* A call starts, and a thread ends or starts, outside of every wait.
LEMMA RequestSeen ==
  ASSUME Inv, WaitInv, NEW t \in Threads, Request(t)
  PROVE  WaitInv' /\ JM!Next
  <1>1. pc[t] \in {"idle", "dead"} /\ waiter' = waiter /\ held' = held /\ NotifyingStays
    BY DEF Request, Lock, Call, Interrupt, Exit, Spawn, At, rest, mon, notifying, NotifyingStays
  <1>2. ControlOK /\ waiter[t].record = NULL
    BY <1>1 DEF Inv, WaitFrames
  <1>3. Moves(t) /\ pc'[t] # "asleep"
    <2>1. CASE \E label \in {"readRecord", "ownerCheck"}, f \in CheckingOps \cup {"lock"},
                  by \in {"user", "interrupt"}, o \in OrNull(Objects) : Enter(t, label, f, by, o)
      BY <1>1, <1>2, <2>1, EnterMoves
    <2>2. CASE \E label \in {"idle", "dead"} : GotoWith(t, label, rec[t])
      BY <1>1, <1>2, <2>2, GotoMoves
    <2>3. CASE UNCHANGED control
      BY <1>1, <2>3 DEF control, Moves, OthersSame
    <2>4. \A u \in Threads : waitingMon[u] \in OrNull(Objects)
      BY DEF Inv, DataOK
    <2>. QED
      BY <2>1, <2>2, <2>3, <2>4 DEF Request, Lock, Call, Interrupt, Exit, Spawn, Goto, OrNull
  <1>4. pc[t] # "asleep"
    BY <1>1
  <1>. QED
    BY <1>1, <1>2, <1>3, <1>4, QuietSeen

\* Every step keeps WaitInv and is a step of the abstract monitor.
LEMMA StepSeen ==
  ASSUME MonitorAssumption, QuiescentExit, TypeInv, SafetyInv, WaitInv, Next
  PROVE  WaitInv' /\ JM!Next
  <1>1. Inv
    BY TypeParts DEF Inv, TypeInv
  <1>2. TypeInv' /\ SafetyInv'
    BY TypeStep, SafetyStep
  <1>3. Inv'
    <2>1. TypeOK' => ControlOK' /\ DataOK'
      BY DEF TypeOK, ControlOK, DataOK
    <2>. QED
      BY <1>2, <2>1 DEF Inv, TypeInv, MonitorAssumption
  <1>4. ASSUME NEW t \in Threads, Step(t) PROVE WaitInv' /\ JM!Next
    <2>1. CASE \/ ReadRecord(t) \/ CasRecord(t) \/ IncBlocked(t) \/ Loop(t)
               \/ SetCandidate(t) \/ CasOwner(t) \/ SemWait(t) \/ DecBlocked(t)
      BY <1>1, <1>3, <1>4, <2>1, LockingSeen
    <2>2. CASE TestBlocked(t) \/ WakeOne(t) \/ SemPost(t) \/ Recheck(t) \/ Flush(t) \/ Spin(t)
      BY <1>1, <1>4, <2>2, UnlockSeen
    <2>3. CASE OwnerCheck(t)
      BY <1>1, <1>4, <2>3, OwnerCheckSeen
    <2>4. CASE Release(t) \/ Deflate(t)
      BY <1>1, <1>4, <2>4, GivingUpSeen
    <2>5. CASE WaitLock(t)
      BY <1>1, <1>4, <2>5, WaitLockSeen
    <2>6. CASE CondWait(t)
      BY <1>1, <1>4, <2>6, CondWaitSeen
    <2>7. CASE Wakeup(t) \/ ClearMon(t)
      BY <1>1, <1>4, <2>7, WakeupSeen
    <2>8. CASE Relocked(t)
      BY <1>1, <1>3, <1>4, <2>8, RelockedSeen
    <2>9. CASE Notify(t)
      BY <1>1, <1>4, <2>9, NotifySeen
    <2>. QED
      BY <1>4, <2>1, <2>2, <2>3, <2>4, <2>5, <2>6, <2>7, <2>8, <2>9 DEF Step
  <1>. QED
    BY <1>1, <1>4, TimeoutSeen, RequestSeen DEF Next

\* Steps of nobody change nothing.
LEMMA StutterSeen ==
  ASSUME UNCHANGED vars
  PROVE  (WaitInv => WaitInv') /\ UNCHANGED JM!vars
  <1>1. UNCHANGED <<pc, op, obj, waiter, held, notifyMutex, condQueue>>
    BY DEF vars, control, rest, mon, notifying
  <1>2. WaitInv => WaitInv'
    BY <1>1 DEF WaitInv, WaitOK
  <1>3. UNCHANGED <<AbstractHeld, AbstractWait, AbstractDepth, AbstractAsleep, AbstractTimed>>
    BY <1>1 DEF AbstractHeld, AbstractWait, AbstractDepth, AbstractAsleep, AbstractTimed,
       StillHolds, InWaitSet, Asleep, At
  <1>. QED
    BY <1>2, <1>3 DEF JM!vars

\* Nobody holds, waits or sleeps at the start.
LEMMA SeenInit ==
  ASSUME Init
  PROVE  WaitInv /\ JM!Init
  <1>1. \A t \in Threads : /\ waiter[t].record = NULL /\ pc[t] = "idle" /\ op[t] = "none"
                           /\ \A o \in Objects : held[t][o] = 0
    BY DEF Init, NoWaiter
  <1>2. WaitInv
    BY <1>1 DEF WaitInv, WaitOK
  <1>3. AbstractHeld = [t \in Threads |-> [o \in Objects |-> 0]]
    BY <1>1 DEF AbstractHeld
  <1>4. AbstractWait = [t \in Threads |-> NULL] /\ AbstractDepth = [t \in Threads |-> 0]
    BY <1>1 DEF AbstractWait, AbstractDepth, InWaitSet
  <1>5. AbstractAsleep = {} /\ AbstractTimed = {}
    BY <1>1 DEF AbstractAsleep, AbstractTimed, Asleep, At
  <1>. QED
    BY <1>2, <1>3, <1>4, <1>5 DEF JM!Init

\* A waiter has notify_mutex until it sleeps, and its unlock gives up one lock.
THEOREM WaitInvariant == QuiescentExit => (Spec => []WaitInv)
  <1>. SUFFICES ASSUME QuiescentExit PROVE Spec => []WaitInv
    OBVIOUS
  <1>1. Init => WaitInv
    BY SeenInit
  <1>2. TypeInv /\ SafetyInv /\ WaitInv /\ [Next]_vars => WaitInv'
    BY StepSeen, StutterSeen, MonitorAssumption
  <1>3. Spec => []SafetyInv
    BY SafetyInvariant
  <1>. QED
    BY <1>1, <1>2, <1>3, TypeInvariant, PTL DEF Spec

\* vm/monitor.c implements Java monitors: every step of a thread is one of the
\* abstract monitor or is not seen, for any number of threads, objects and
\* records.
THEOREM JavaMonitors == QuiescentExit => (Spec => ImplementsJavaMonitor)
  <1>. SUFFICES ASSUME QuiescentExit PROVE Spec => ImplementsJavaMonitor
    OBVIOUS
  <1>1. Init => JM!Init
    BY SeenInit
  <1>2. TypeInv /\ SafetyInv /\ WaitInv /\ [Next]_vars => [JM!Next]_(JM!vars)
    BY StepSeen, StutterSeen, MonitorAssumption
  <1>3. Spec => []SafetyInv /\ []WaitInv
    BY SafetyInvariant, WaitInvariant, PTL
  <1>. QED
    BY <1>1, <1>2, <1>3, TypeInvariant, PTL DEF Spec, ImplementsJavaMonitor, JM!Spec

\* A step moves one thread.
LEMMA MovesOne ==
  ASSUME Inv, NEW v \in Threads, Step(v) \/ Timeout(v) \/ Request(v)
  PROVE  \A w \in Threads \ {v} : pc'[w] = pc[w]
  <1>. DEFINE Jump == \E label : pc' = [pc EXCEPT ![v] = label]
  <1>1. Return(v) => Jump
    BY ReturnCases DEF Enter
  <1>2. ReturnError(v) => Jump
    BY <1>1 DEF ReturnError, Enter
  <1>3. Jump => \A w \in Threads \ {v} : pc'[w] = pc[w]
    BY DEF Inv, ControlOK
  <1>4. \A label, r : GotoWith(v, label, r) => Jump
    BY DEF GotoWith
  <1>5. \A label, f, by, o : Enter(v, label, f, by, o) => Jump
    BY DEF Enter
  <1>6. UNCHANGED control => pc' = pc
    BY DEF control
  <1>. HIDE DEF Jump
  <1>7. CASE Step(v)
    BY <1>1, <1>2, <1>3, <1>4, <1>5, <1>7 DEF Step, Goto, ReadRecord, CasRecord, IncBlocked, Loop,
       SetCandidate, CasOwner, SemWait, DecBlocked, OwnerCheck, TestBlocked, Release, WakeOne,
       SemPost, Deflate, Recheck, Flush, Spin, WaitLock, CondWait, Wakeup, ClearMon, Relocked,
       Notify
  <1>8. CASE Timeout(v) \/ Request(v)
    BY <1>3, <1>4, <1>5, <1>6, <1>8 DEF Timeout, Request, Goto, Lock, Call, Interrupt, Exit, Spawn
  <1>. QED
    BY <1>7, <1>8

\* When a notify is done, nobody is on the way to sleep on its object.
LEMMA NotifyStep ==
  ASSUME MonitorAssumption, TypeInv, SafetyInv, WaitInv, [Next]_vars,
         NEW t \in Threads, NEW u \in Threads,
         At(t, "notifyLock"), ~At(t, "notifyLock")', InWaitSet(u), obj[u] = obj[t]
  PROVE  ~FallingAsleep(u) /\ (op[t] = "notifyAll" => ~Asleep(u)')
  <1>1. Inv
    BY TypeParts DEF Inv, TypeInv
  <1>2. pc[t] = "notifyLock" /\ pc'[t] # "notifyLock"
    BY DEF At
  <1>3. ~UNCHANGED vars
    BY <1>2 DEF vars, control
  <1>4. Notify(t)
    <2>1. PICK v \in Threads : Step(v) \/ Timeout(v) \/ Request(v)
      BY <1>3 DEF Next
    <2>2. v = t
      BY <1>1, <1>2, <2>1, MovesOne
    <2>. QED
      BY <1>2, <2>1, <2>2 DEF Step, Timeout, Request, At, ReadRecord, CasRecord, IncBlocked, Loop,
         SetCandidate, CasOwner, SemWait, DecBlocked, OwnerCheck, TestBlocked, Release, WakeOne,
         SemPost, Deflate, Recheck, Flush, Spin, WaitLock, CondWait, Wakeup, ClearMon, Relocked,
         Lock, Call, Interrupt, Exit, Spawn
  <1>5. /\ rec[t] \in Records /\ rec[t] # NULL /\ monitorRecord[obj[t]] = rec[t]
    BY <1>1, <1>2 DEF Inv, LocalsSet, RecordPC, MonitorAssumption, SafetyInv, HoldersOwn
  <1>6. waiter[u].record = rec[t]
    BY <1>1, <1>5, WaiterAttached DEF InWaitSet
  <1>7. notifyMutex[rec[t]] = NULL
    BY <1>4 DEF Notify
  <1>8. ~FallingAsleep(u)
    BY <1>5, <1>6, <1>7 DEF FallingAsleep, At, WaitInv, WaitOK, MonitorAssumption
  <1>9. ASSUME op[t] = "notifyAll" PROVE ~Asleep(u)'
    <2>1. condQueue' = [condQueue EXCEPT ![rec[t]] = condQueue[rec[t]] \ condQueue[rec[t]]]
      BY <1>4, <1>9 DEF Notify
    <2>2. condQueue'[rec[t]] = {} /\ waiter' = waiter
      BY <1>1, <1>4, <1>5, <2>1 DEF Inv, DataOK, Notify, rest
    <2>. QED
      BY <1>6, <2>2 DEF Asleep
  <1>. QED
    BY <1>8, <1>9

\* "We must unlock monitor after the lock on notify_mutex is acquired to avoid
\* missed notify": no notify comes between the unlock of a waiter and its sleep,
\* and a notifyAll leaves no waiter asleep.
THEOREM NoMissedNotify == QuiescentExit => (Spec => NotifyIsNotMissed)
  <1>. SUFFICES ASSUME QuiescentExit PROVE Spec => NotifyIsNotMissed
    OBVIOUS
  <1>1. TypeInv /\ SafetyInv /\ WaitInv /\ [Next]_vars =>
          [\A t, u \in Threads :
             /\ At(t, "notifyLock") /\ ~At(t, "notifyLock")'
             /\ InWaitSet(u) /\ obj[u] = obj[t]
             => /\ ~FallingAsleep(u)
                /\ op[t] = "notifyAll" => ~Asleep(u)']_vars
    BY NotifyStep, MonitorAssumption
  <1>2. Spec => []SafetyInv /\ []WaitInv
    BY SafetyInvariant, WaitInvariant, PTL
  <1>. QED
    BY <1>1, <1>2, TypeInvariant, PTL DEF Spec, NotifyIsNotMissed

=============================================================================
