---------------------------- MODULE StopTheWorld ----------------------------
(***************************************************************************)
(* The stop-the-world collector of vm/gc.c (-Xnewgc) and the list of       *)
(* threads of vm/thread.c that it stops: an allocation wakes the GC        *)
(* thread, which freezes the list, interrupts every thread with SIGUSR1,   *)
(* waits until the last one has entered its safepoint, and lets them go    *)
(* with SIGUSR2.                                                           *)
(*                                                                         *)
(* The handler of SIGUSR1 runs on top of the code of its thread: `pc' is   *)
(* the code that was interrupted, `hpc' the handler.  A step is one        *)
(* critical section, or one call of the signal API.  A signal that is      *)
(* already pending is not queued again.                                    *)
(***************************************************************************)
EXTENDS Integers, FiniteSets

CONSTANTS
  Threads,
  main,      \* the thread that runs main()
  Daemons,   \* the threads that are Java daemon threads
  JavaCode,  \* whether a signal may find a thread in compiled Java code
  OutOfMemory,  \* whether vm_reference_alloc may fail in a new thread
  NULL

ASSUME ThreadAssumption ==
  /\ IsFiniteSet(Threads)
  /\ main \in Threads
  /\ Daemons \subseteq Threads
  /\ {JavaCode, OutOfMemory} \subseteq BOOLEAN
  /\ NULL \notin Threads

VARIABLES
  pc, child,      \* thread -> its code; the thread it is starting
  sleeping,       \* thread -> the condition variable it sleeps on, or "awake"
  threadList,     \* thread_list
  nrThreads,      \* nr_threads of vm/thread.c
  nrNonDaemons,   \* nr_non_daemons
  countLocked,    \* thread_count_locked
  hpc,            \* thread -> its signal handler
  fromNative,     \* thread -> whether the signal interrupted native code
  usr1, usr2,     \* threads with the signal pending
  gcUsr2,         \* SIGUSR2 is pending for the GC thread
  nrInSafepoint,  \* nr_in_safepoint
  nrStopped,      \* nr_threads of vm/gc.c
  gcPc, toSignal, \* the GC thread; the threads it has yet to signal
  reclaiming,     \* gc_reclaim_in_progress
  ended           \* whether and how the process ended

code == <<pc, child>>
list == <<threadList, nrThreads, nrNonDaemons>>
handler == <<hpc, fromNative>>
signals == <<usr1, usr2, gcUsr2>>
gc == <<nrStopped, gcPc, toSignal>>
vars == <<code, sleeping, list, countLocked, handler, signals, nrInSafepoint,
          gc, reclaiming, ended>>

PC == {"boot", "unborn", "new", "fresh", "run", "wakeGc", "waitGc", "attach",
       "exit", "free", "waitEnd", "lost"}
HandlerPC == {"none", "enter", "sigwait", "leave", "wakeGc", "return"}
GcPC == {"idle", "lock", "count", "suspend", "waitIn", "restart", "reclaim",
         "resume", "waitOut", "unlock", "done"}

\* Every variable keeps its type.
TypeOK ==
  /\ pc \in [Threads -> PC] /\ child \in [Threads -> Threads \cup {NULL}]
  /\ sleeping \in [Threads -> {"awake", "reclaim", "count", "terminate"}]
  /\ threadList \subseteq Threads /\ nrThreads \in Nat /\ nrNonDaemons \in Nat
  /\ hpc \in [Threads -> HandlerPC] /\ fromNative \in [Threads -> BOOLEAN]
  /\ usr1 \subseteq Threads /\ usr2 \subseteq Threads
  /\ nrInSafepoint \in Nat /\ nrStopped \in Nat \cup {-1}
  /\ gcPc \in GcPC /\ toSignal \subseteq Threads
  /\ {gcUsr2, countLocked, reclaiming} \subseteq BOOLEAN
  /\ ended \in {"no", "exit", "threw", "crash", "died"}

Init ==
  /\ pc = [t \in Threads |-> IF t = main THEN "boot" ELSE "unborn"]
  /\ child = [t \in Threads |-> NULL]
  /\ sleeping = [t \in Threads |-> "awake"]
  /\ threadList = {} /\ nrThreads = 0 /\ nrNonDaemons = 0
  /\ countLocked = FALSE
  /\ hpc = [t \in Threads |-> "none"]
  /\ fromNative = [t \in Threads |-> FALSE]
  /\ usr1 = {} /\ usr2 = {} /\ gcUsr2 = FALSE
  /\ nrInSafepoint = 0 /\ nrStopped = 0
  /\ gcPc = "idle" /\ toSignal = {}
  /\ reclaiming = FALSE
  /\ ended = "no"

-----------------------------------------------------------------------------
(* Threads: vm/thread.c                                                    *)

\* Thread t runs its own code, at `label'.
At(t, label) ==
  /\ ended = "no"
  /\ pc[t] = label /\ hpc[t] = "none" /\ sleeping[t] = "awake"

Goto(t, label) == pc' = [pc EXCEPT ![t] = label]

Sleep(t, cond) == sleeping' = [sleeping EXCEPT ![t] = cond]

Awake(cond) == [t \in Threads |-> IF sleeping[t] = cond THEN "awake"
                                                        ELSE sleeping[t]]

NonDaemon(t) == IF t \in Daemons THEN 0 ELSE 1

\* init_threading attaches the main thread, which counts as no non-daemon.
InitThreading(t) ==
  /\ At(t, "boot")
  /\ threadList' = threadList \cup {t}
  /\ nrThreads' = nrThreads + 1
  /\ Goto(t, "run")
  /\ UNCHANGED <<child, sleeping, nrNonDaemons, countLocked, handler, signals,
                 nrInSafepoint, gc, reclaiming, ended>>

\* Mutant of StartThread: the new thread is not counted.
StartThreadUncounted(t, u) ==
  /\ At(t, "run") /\ pc[u] = "unborn"
  /\ pc' = [pc EXCEPT ![t] = "attach", ![u] = "new"]
  /\ child' = [child EXCEPT ![t] = u]
  /\ UNCHANGED <<sleeping, list, countLocked, handler, signals, nrInSafepoint,
                 gc, reclaiming, ended>>

\* vm_thread_start for thread u up to its first critical section
StartThread(t, u) ==
  /\ At(t, "run") /\ pc[u] = "unborn"
  /\ nrNonDaemons' = nrNonDaemons + NonDaemon(u)
  /\ pc' = [pc EXCEPT ![t] = "attach", ![u] = "new"]
  /\ child' = [child EXCEPT ![t] = u]
  /\ UNCHANGED <<sleeping, threadList, nrThreads, countLocked, handler, signals,
                 nrInSafepoint, gc, reclaiming, ended>>

\* Mutant of Attach: a thread that cannot be created stays counted.
AttachLeaks(t) ==
  /\ At(t, "attach")
  /\ ~countLocked
  /\ pc' = [pc EXCEPT ![t] = "run", ![child[t]] = "unborn"]
  /\ child' = [child EXCEPT ![t] = NULL]
  /\ UNCHANGED <<sleeping, list, countLocked, handler, signals, nrInSafepoint,
                 gc, reclaiming, ended>>

\* Its second one: waits for the thread count, attaches the thread and
\* creates it; when that fails, detaches it again.
Attach(t) ==
  /\ At(t, "attach")
  /\ \/ /\ countLocked
        /\ Sleep(t, "count")
        /\ UNCHANGED <<code, list>>
     \/ /\ ~countLocked
        /\ threadList' = threadList \cup {child[t]}
        /\ nrThreads' = nrThreads + 1
        /\ pc' = [pc EXCEPT ![t] = "run", ![child[t]] = "fresh"]
        /\ child' = [child EXCEPT ![t] = NULL]
        /\ UNCHANGED <<sleeping, nrNonDaemons>>
     \/ /\ ~countLocked
        /\ nrNonDaemons' = nrNonDaemons - NonDaemon(child[t])
        /\ sleeping' = Awake("terminate")
        /\ pc' = [pc EXCEPT ![t] = "run", ![child[t]] = "unborn"]
        /\ child' = [child EXCEPT ![t] = NULL]
        /\ UNCHANGED <<threadList, nrThreads>>
  /\ UNCHANGED <<countLocked, handler, signals, nrInSafepoint, gc, reclaiming, ended>>

\* vm_thread_entry: pthread_setspecific makes the execution environment known.
Entry(t) ==
  /\ At(t, "fresh")
  /\ Goto(t, "run")
  /\ UNCHANGED <<child, sleeping, list, countLocked, handler, signals,
                 nrInSafepoint, gc, reclaiming, ended>>

\* vm_thread_entry finds no memory for its reference and returns: the thread
\* is gone, but stays in the list and in the counts.
EntryFails(t) ==
  /\ OutOfMemory
  /\ At(t, "fresh")
  /\ Goto(t, "lost")
  /\ UNCHANGED <<child, sleeping, list, countLocked, handler, signals,
                 nrInSafepoint, gc, reclaiming, ended>>

\* VMThread.run has returned.
Return(t) ==
  /\ At(t, "run") /\ t # main
  /\ Goto(t, "exit")
  /\ UNCHANGED <<child, sleeping, list, countLocked, handler, signals,
                 nrInSafepoint, gc, reclaiming, ended>>

\* The end of vm_thread_entry: waits for the thread count and detaches.
Exit(t) ==
  /\ At(t, "exit")
  /\ IF countLocked
       THEN Sleep(t, "count") /\ UNCHANGED <<pc, list>>
       ELSE /\ threadList' = threadList \ {t}
            /\ nrThreads' = nrThreads - 1
            /\ nrNonDaemons' = nrNonDaemons - NonDaemon(t)
            /\ sleeping' = Awake("terminate")
            /\ Goto(t, "free")
  /\ UNCHANGED <<child, countLocked, handler, signals, nrInSafepoint, gc,
                 reclaiming, ended>>

\* free_exec_env; the thread is gone.
Free(t) ==
  /\ At(t, "free")
  /\ Goto(t, "unborn")
  /\ UNCHANGED <<child, sleeping, list, countLocked, handler, signals,
                 nrInSafepoint, gc, reclaiming, ended>>

\* main() has returned from the Java program.
MainReturns(t) ==
  /\ t = main /\ At(t, "run")
  /\ Goto(t, "waitEnd")
  /\ UNCHANGED <<child, sleeping, list, countLocked, handler, signals,
                 nrInSafepoint, gc, reclaiming, ended>>

\* It has thrown, or init_threading has: main() calls vm_exit without waiting
\* for anybody.
MainThrows(t) ==
  /\ t = main /\ (At(t, "run") \/ At(t, "boot"))
  /\ ended' = "threw"
  /\ UNCHANGED <<code, sleeping, list, countLocked, handler, signals,
                 nrInSafepoint, gc, reclaiming>>

\* vm_thread_wait_for_non_daemons, then vm_exit
WaitForNonDaemons(t) ==
  /\ At(t, "waitEnd")
  /\ IF nrNonDaemons # 0
       THEN Sleep(t, "terminate") /\ UNCHANGED ended
       ELSE ended' = "exit" /\ UNCHANGED sleeping
  /\ UNCHANGED <<code, list, countLocked, handler, signals, nrInSafepoint, gc,
                 reclaiming>>

-----------------------------------------------------------------------------
(* Allocation: gc_start                                                    *)

\* The first allocation starts a collection; others only wait for its end.
GcStart(t) ==
  /\ At(t, "run") \/ At(t, "boot")
  /\ reclaiming' = TRUE
  /\ Goto(t, IF reclaiming THEN "waitGc" ELSE "wakeGc")
  /\ UNCHANGED <<child, sleeping, list, countLocked, handler, signals,
                 nrInSafepoint, gc, ended>>

\* resume_thread(gc_thread_id)
WakeGc(t) ==
  /\ At(t, "wakeGc")
  /\ gcUsr2' = TRUE
  /\ Goto(t, "waitGc")
  /\ UNCHANGED <<child, sleeping, list, countLocked, handler, usr1, usr2,
                 nrInSafepoint, gc, reclaiming, ended>>

\* The loop around pthread_cond_wait.  The allocations of the main thread
\* before init_threading end with the thread still not attached.
WaitGc(t) ==
  /\ At(t, "waitGc")
  /\ IF reclaiming
       THEN Sleep(t, "reclaim") /\ UNCHANGED pc
       ELSE /\ Goto(t, IF t \in threadList THEN "run" ELSE "boot")
            /\ UNCHANGED sleeping
  /\ UNCHANGED <<child, list, countLocked, handler, signals, nrInSafepoint, gc,
                 reclaiming, ended>>

-----------------------------------------------------------------------------
(* The handler of SIGUSR1: suspend_handler                                 *)

\* The kernel delivers SIGUSR1, also to a thread that sleeps; the signal is
\* blocked while its handler runs.  Compiled code is found only in a thread
\* that runs; everything else is native code.
Deliver(t, native) ==
  /\ ended = "no"
  /\ t \in usr1 /\ hpc[t] = "none" /\ pc[t] # "lost"
  /\ native \/ (JavaCode /\ pc[t] = "run")
  /\ usr1' = usr1 \ {t}
  /\ hpc' = [hpc EXCEPT ![t] = "enter"]
  /\ fromNative' = [fromNative EXCEPT ![t] = native]
  /\ UNCHANGED <<code, sleeping, list, countLocked, usr2, gcUsr2, nrInSafepoint,
                 gc, reclaiming, ended>>

InHandler(t, label) == ended = "no" /\ hpc[t] = label

HandlerGoto(t, label) ==
  hpc' = [hpc EXCEPT ![t] = label] /\ UNCHANGED fromNative

\* A fresh thread has no execution environment, whose in_safepoint
\* enter_safepoint reads.
NoExecEnv(t) == pc[t] = "fresh"

\* Mutant of EnterSafepoint: the last thread but one wakes the GC thread.
EnterSafepointEarly(t) ==
  /\ InHandler(t, "enter") /\ ~NoExecEnv(t)
  /\ nrInSafepoint' = nrInSafepoint + 1
  /\ gcUsr2' = (gcUsr2 \/ nrInSafepoint + 1 >= nrStopped - 1)
  /\ HandlerGoto(t, "sigwait")
  /\ UNCHANGED <<code, sleeping, list, countLocked, usr1, usr2, gc, reclaiming, ended>>

\* enter_safepoint: the last thread wakes the GC thread.
EnterSafepoint(t) ==
  /\ InHandler(t, "enter") /\ ~NoExecEnv(t)
  /\ nrInSafepoint' = nrInSafepoint + 1
  /\ gcUsr2' = (gcUsr2 \/ nrInSafepoint + 1 = nrStopped)
  /\ HandlerGoto(t, "sigwait")
  /\ UNCHANGED <<code, sleeping, list, countLocked, usr1, usr2, gc, reclaiming, ended>>

\* enter_safepoint follows a null pointer.
EnterWithoutExecEnv(t) ==
  /\ InHandler(t, "enter") /\ NoExecEnv(t)
  /\ ended' = "crash"
  /\ UNCHANGED <<code, sleeping, list, countLocked, handler, signals,
                 nrInSafepoint, gc, reclaiming>>

\* suspend_self: sigwait takes the pending SIGUSR2.
SuspendSelf(t) ==
  /\ InHandler(t, "sigwait")
  /\ t \in usr2
  /\ usr2' = usr2 \ {t}
  /\ HandlerGoto(t, "leave")
  /\ UNCHANGED <<code, sleeping, list, countLocked, usr1, gcUsr2, nrInSafepoint,
                 gc, reclaiming, ended>>

\* Mutant of ExitSafepoint: never wakes the GC thread.
ExitSafepointSilently(t) ==
  /\ InHandler(t, "leave")
  /\ nrInSafepoint' = nrInSafepoint - 1
  /\ HandlerGoto(t, "return")
  /\ UNCHANGED <<code, sleeping, list, countLocked, signals, gc, reclaiming, ended>>

\* do_exit_safepoint; the last thread wakes the GC thread, unless it was
\* interrupted in compiled code.
ExitSafepoint(t) ==
  /\ InHandler(t, "leave")
  /\ nrInSafepoint' = nrInSafepoint - 1
  /\ HandlerGoto(t, IF nrInSafepoint = 1 /\ fromNative[t] THEN "wakeGc"
                                                          ELSE "return")
  /\ UNCHANGED <<code, sleeping, list, countLocked, signals, gc, reclaiming, ended>>

HandlerWakesGc(t) ==
  /\ InHandler(t, "wakeGc")
  /\ gcUsr2' = TRUE
  /\ HandlerGoto(t, "return")
  /\ UNCHANGED <<code, sleeping, list, countLocked, usr1, usr2, nrInSafepoint,
                 gc, reclaiming, ended>>

\* The handler returns; pthread_cond_wait may return with it.
HandlerReturns(t) ==
  /\ InHandler(t, "return")
  /\ HandlerGoto(t, "none")
  /\ Sleep(t, "awake") \/ UNCHANGED sleeping
  /\ UNCHANGED <<code, list, countLocked, signals, nrInSafepoint, gc, reclaiming, ended>>

-----------------------------------------------------------------------------
(* The GC thread                                                           *)

GcAt(label) == ended = "no" /\ gcPc = label

\* suspend_self of the GC thread
GcSuspendSelf(from, to) ==
  /\ GcAt(from)
  /\ gcUsr2
  /\ gcUsr2' = FALSE
  /\ gcPc' = to
  /\ UNCHANGED <<code, sleeping, list, countLocked, handler, usr1, usr2,
                 nrInSafepoint, nrStopped, toSignal, reclaiming, ended>>

\* vm_lock_thread_count
LockThreadCount ==
  /\ GcAt("lock")
  /\ countLocked' = TRUE
  /\ gcPc' = "count"
  /\ UNCHANGED <<code, sleeping, list, handler, signals, nrInSafepoint,
                 nrStopped, toSignal, reclaiming, ended>>

\* do_gc reads the number of threads; without threads there is nothing to do.
Count ==
  /\ GcAt("count")
  /\ nrStopped' = nrThreads
  /\ toSignal' = threadList
  /\ gcPc' = IF nrThreads = 0 THEN "unlock" ELSE "suspend"
  /\ UNCHANGED <<code, sleeping, list, countLocked, handler, signals,
                 nrInSafepoint, reclaiming, ended>>

\* The loop over the threads in gc_suspend_rest: suspend_thread
SuspendThread(t) ==
  /\ GcAt("suspend") /\ t \in toSignal
  /\ pc[t] # "lost"
  /\ usr1' = usr1 \cup {t}
  /\ toSignal' = toSignal \ {t}
  /\ gcPc' = IF toSignal = {t} THEN "waitIn" ELSE "suspend"
  /\ UNCHANGED <<code, sleeping, list, countLocked, handler, usr2, gcUsr2,
                 nrInSafepoint, nrStopped, reclaiming, ended>>

\* pthread_kill has no thread to signal: die().
SuspendLost(t) ==
  /\ GcAt("suspend") /\ t \in toSignal
  /\ pc[t] = "lost"
  /\ ended' = "died"
  /\ UNCHANGED <<code, sleeping, list, countLocked, handler, signals,
                 nrInSafepoint, gc, reclaiming>>

\* The rest of gc_suspend_rest: no thread is restarted, for none is ever in
\* VM_THREAD_STATE_INCONSISTENT.
RestartNone ==
  /\ GcAt("restart")
  /\ gcPc' = "reclaim"
  /\ UNCHANGED <<code, sleeping, list, countLocked, handler, signals,
                 nrInSafepoint, nrStopped, toSignal, reclaiming, ended>>

\* do_gc_reclaim, and the start of gc_resume_rest
Reclaim ==
  /\ GcAt("reclaim")
  /\ toSignal' = threadList
  /\ gcPc' = "resume"
  /\ UNCHANGED <<code, sleeping, list, countLocked, handler, signals,
                 nrInSafepoint, nrStopped, reclaiming, ended>>

\* Its loop over the threads: resume_thread
ResumeThread(t) ==
  /\ GcAt("resume") /\ t \in toSignal
  /\ usr2' = usr2 \cup {t}
  /\ toSignal' = toSignal \ {t}
  /\ gcPc' = IF toSignal = {t} THEN "waitOut" ELSE "resume"
  /\ UNCHANGED <<code, sleeping, list, countLocked, handler, usr1, gcUsr2,
                 nrInSafepoint, nrStopped, reclaiming, ended>>

\* The end of do_gc: vm_unlock_thread_count
UnlockThreadCount ==
  /\ GcAt("unlock")
  /\ nrStopped' = -1
  /\ countLocked' = FALSE
  /\ sleeping' = Awake("count")
  /\ gcPc' = "done"
  /\ UNCHANGED <<code, list, handler, signals, nrInSafepoint, toSignal,
                 reclaiming, ended>>

\* Everybody who waits for the collection is woken.
Done ==
  /\ GcAt("done")
  /\ reclaiming' = FALSE
  /\ sleeping' = Awake("reclaim")
  /\ gcPc' = "idle"
  /\ UNCHANGED <<code, list, countLocked, handler, signals, nrInSafepoint,
                 nrStopped, toSignal, ended>>

-----------------------------------------------------------------------------
ThreadStep(t) ==
  \/ InitThreading(t) \/ Attach(t) \/ Entry(t) \/ EntryFails(t)
  \/ Exit(t) \/ Free(t) \/ WaitForNonDaemons(t) \/ WakeGc(t) \/ WaitGc(t)

\* What the Java program decides to do
Program(t) ==
  \/ GcStart(t) \/ Return(t) \/ MainReturns(t) \/ MainThrows(t)
  \/ \E u \in Threads : StartThread(t, u)

HandlerStep(t) ==
  \/ \E native \in BOOLEAN : Deliver(t, native)
  \/ EnterSafepoint(t) \/ EnterWithoutExecEnv(t) \/ SuspendSelf(t)
  \/ ExitSafepoint(t) \/ HandlerWakesGc(t) \/ HandlerReturns(t)

GcStep ==
  \/ GcSuspendSelf("idle", "lock")
  \/ LockThreadCount
  \/ Count
  \/ \E t \in Threads : SuspendThread(t) \/ SuspendLost(t)
  \/ GcSuspendSelf("waitIn", "restart")
  \/ RestartNone
  \/ Reclaim
  \/ \E t \in Threads : ResumeThread(t)
  \/ GcSuspendSelf("waitOut", "unlock")
  \/ UnlockThreadCount
  \/ Done

\* The process is over.
Over == ended # "no" /\ UNCHANGED vars

Next ==
  \/ \E t \in Threads : ThreadStep(t) \/ Program(t) \/ HandlerStep(t)
  \/ GcStep
  \/ Over

Spec == Init /\ [][Next]_vars

\* The kernel runs every thread that can run and delivers every signal; what
\* the Java program does is its own choice.
FairSpec ==
  /\ Spec
  /\ WF_vars(GcStep)
  /\ \A t \in Threads : WF_vars(ThreadStep(t)) /\ WF_vars(HandlerStep(t))

-----------------------------------------------------------------------------
(* Properties                                                              *)

\* The threads that may run Java code
Running == {t \in Threads : pc[t] \notin {"unborn", "new", "free"}}

InSafepoint == {t \in Threads : hpc[t] \in {"sigwait", "leave"}}

\* The world is stopped while do_gc_reclaim runs: every thread that could run
\* Java code sits in its signal handler, waiting for SIGUSR2. On the way there
\* and back no signal is sent to a thread that has left the list.
WorldIsStopped ==
  /\ gcPc = "reclaim" =>
       \A t \in Running : hpc[t] = "sigwait" /\ t \notin usr2
  /\ usr1 \cup usr2 \cup toSignal \subseteq threadList

\* nr_threads and nr_non_daemons agree with the threads there are, and
\* nr_in_safepoint counts the threads in their safepoints and is what
\* gc_suspend_rest and gc_resume_rest assert before and after a collection.
CountsAgree ==
  /\ nrThreads = Cardinality(threadList)
  /\ IF nrThreads = 0 THEN Running = {main} ELSE threadList = Running
  /\ nrNonDaemons = Cardinality(
       {t \in Threads \ Daemons : pc[t] \notin {"unborn", "free"}} \ {main})
  /\ nrInSafepoint = Cardinality(InSafepoint)
  /\ \A t \in Threads : hpc[t] = "enter" => nrInSafepoint < nrStopped
  /\ gcPc = "suspend" /\ toSignal = threadList => nrInSafepoint = 0
  /\ gcPc \in {"restart", "reclaim"} => nrInSafepoint = nrStopped
  /\ gcPc = "unlock" => nrInSafepoint = 0

\* When the main program returns, vm_exit does not run while a thread that is
\* not a daemon lives.
ExitIsLast ==
  [][ended' = "exit" => threadList \ Daemons \subseteq {main}]_vars

\* No signal ever finds its thread in compiled Java code, and no thread is lost
\* for want of memory.
Undisturbed ==
  [](\A t \in Threads : pc[t] # "lost" /\ (hpc[t] # "none" => fromNative[t]))

\* "This wakes up the GC thread and suspends until garbage collection is
\* done" (gc_start): a collection that was asked for ends.
EveryCollectionEnds == reclaiming ~> (~reclaiming \/ ended # "no")

\* A thread that waits for the thread count goes on when it is unlocked.
EveryCountWaitEnds ==
  \A t \in Threads : sleeping[t] = "count" ~> (sleeping[t] # "count" \/ ended # "no")

\* Every collection ends that interrupts no compiled code and signals no lost
\* thread, and so does every wait for the thread count, which it locks.  When
\* the last thread leaves its safepoint for compiled code, nobody wakes the GC
\* thread.
WaitsEnd == Undisturbed => EveryCollectionEnds /\ EveryCountWaitEnds
=============================================================================
