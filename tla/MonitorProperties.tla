------------------------- MODULE MonitorProperties -------------------------
(***************************************************************************)
(* What vm/monitor.c promises, as invariants of the module Monitor; the    *)
(* further parts of the inductive invariant of MonitorProofs; and the      *)
(* abstract Java monitor that the records implement.                       *)
(***************************************************************************)
EXTENDS Monitor

\* The threads that count in .nr_blocked of record r
Blocked(r) == {t \in Threads : pc[t] \in CountedPC /\ rec[t] = r}

\* The threads that are in vm_object_do_wait with record r
Waiting(r) == {t \in Threads : waiter[t].record = r}

\* Thread t sleeps on .notify_cond of the record it waits on
Asleep(t) == At(t, "asleep") /\ t \in condQueue[waiter[t].record]

\* After deflation, until the record is in the pool
DeflatedPC == {"recheck", "flush", "spin"}

\* A record that thread t has taken out of the pool or off the object
Private(t) == {r \in Records : pc[t] \in {"casRecord"} \cup DeflatedPC
                               /\ rec[t] = r}

\* vm_object_lock grants the monitor to one thread at a time: whoever was
\* granted it is the owner of the record attached to the object, and the
\* record counts its locks.
MutualExclusion ==
  \A t \in Threads, o \in Objects :
    held[t][o] > 0 =>
      /\ monitorRecord[o] # NULL
      /\ owner[monitorRecord[o]] = t
      /\ lockCount[monitorRecord[o]] = held[t][o]

\* A record is in one place: unallocated, in the pool of one thread, in the
\* hands of one thread, or attached to one object.  get_monitor_record and
\* put_monitor_record never see a record that is in use elsewhere.
RecordPlacement ==
  /\ \A o1, o2 \in Objects :
       monitorRecord[o1] # NULL /\ monitorRecord[o1] = monitorRecord[o2]
         => o1 = o2
  /\ \A t \in Threads, o \in Objects :
       monitorRecord[o] \notin heap \cup freeRecs[t] \cup Private(t)
  /\ \A t, u \in Threads :
       /\ heap \cap (freeRecs[t] \cup Private(t)) = {}
       /\ freeRecs[t] \cap Private(u) = {}
       /\ t # u => /\ freeRecs[t] \cap freeRecs[u] = {}
                   /\ Private(t) \cap Private(u) = {}

\* Records that are in a pool or in the hands of a thread are ready to be
\* attached as they are: get_monitor_record promises ".owner set to the
\* current execution environment and .lock_count set to 1".
PoolReady ==
  \A t \in Threads : \A r \in freeRecs[t] \cup Private(t) :
    owner[r] = t /\ lockCount[r] = 1

\* .nr_blocked counts the threads between their increment and decrement, and
\* .nr_waiting those inside vm_object_do_wait: on these two numbers
\* vm_object_unlock decides whether a record may leave its object and
\* whether it may go back to the pool.
Counters ==
  \A r \in Records :
    /\ nrBlocked[r] = Cardinality(Blocked(r))
    /\ nrWaiting[r] = Cardinality(Waiting(r))

\* "We want the same monitor record to be attached to the object while
\* waiting": from the start of a wait to its end the object keeps the record
\* (the assertion at the end of vm_object_do_wait).
WaitersKeepRecord ==
  \A t \in Threads :
    waiter[t].record # NULL => monitorRecord[obj[t]] = waiter[t].record

\* A thread about to take or asleep on a record that is no longer attached
\* to its object finds it owned by the thread that detached it and waits for
\* it, so that cmpxchg_ptr(&old_record->owner, ...) cannot grant a monitor
\* through a recycled record.
StaleRecordIsOwned ==
  \A t \in Threads :
    pc[t] \in {"setCandidate", "casOwner", "semWait"}
      /\ monitorRecord[obj[t]] # rec[t]
    => \E u \in Threads : pc[u] \in DeflatedPC /\ rec[u] = rec[t]

Pending(r) == {t \in Threads : rec[t] = r /\ pc[t] \in
                 {"incBlocked", "loop", "setCandidate", "casOwner", "semPost"}}

\* No lost wakeup.  A thread asleep in sem_wait on a record that nobody owns
\* is about to be woken: there is a post for it, or a thread that will post
\* or that tries the record itself; and one asleep on a detached record has a
\* post to come from the flushing loop.
NoLostWakeup ==
  \A t \in Threads :
    At(t, "semWait") /\ sem[rec[t]] = 0 =>
      \/ Pending(rec[t]) # {}
      \/ monitorRecord[obj[t]] = rec[t] /\ owner[rec[t]] # NULL
      \/ \E u \in Threads : /\ At(u, "wakeOne") /\ rec[u] = rec[t]
                            /\ candidate[rec[t]] = 1
      \/ \E u \in Threads : pc[u] \in {"recheck", "flush"} /\ rec[u] = rec[t]

\* A record is only touched while it is allocated.
NoUseAfterFree ==
  \A t \in Threads : rec[t] \notin heap

-----------------------------------------------------------------------------
(* What makes those invariants inductive                                   *)

RecordPC == CountedPC \cup DeflatedPC \cup
            {"casRecord", "incBlocked", "testBlocked", "release", "wakeOne",
             "semPost", "deflate", "notifyLock", "waitLock"}
CheckPC == DeflatedPC \cup {"testBlocked", "release", "wakeOne", "semPost",
                            "deflate", "notifyLock", "waitLock"}
WaitPC == {"condWait", "asleep", "clearMon", "relocked"}
WaitCalls == {"wait", "timedWait"}

\* The locals a thread is about to use are set: `self' and the record inside
\* the functions of vm/monitor.c, the record waited on inside a wait.
LocalsSet ==
  \A t \in Threads :
    /\ pc[t] \notin {"idle", "dead"} => obj[t] \in Objects
    /\ pc[t] \in RecordPC => rec[t] \in Records
    /\ pc[t] \in WaitPC \/ caller[t] \in WaitCalls =>
         waiter[t].record \in Records

\* A thread is in vm_object_do_wait from the entry into the unlock to the end
\* of the lock.
WaitFrames ==
  \A t \in Threads :
    /\ waiter[t].record # NULL =>
         /\ pc[t] \notin {"idle", "dead"}
         /\ \/ pc[t] \in WaitPC
            \/ caller[t] \in WaitCalls /\ op[t] \in {"unlock", "lock"}
    /\ pc[t] = "waitLock" => op[t] \in WaitCalls
    /\ pc[t] \in WaitPC => op[t] \in WaitCalls /\ caller[t] = "user"
    /\ pc[t] \in CheckPC \/ pc[t] = "ownerCheck" => op[t] # "lock"

\* The owner of the record attached to an object was granted its locks.
OwnerHolds ==
  \A t \in Threads, o \in Objects :
    /\ held[t][o] >= 0
    /\ monitorRecord[o] # NULL /\ owner[monitorRecord[o]] = t =>
         held[t][o] = lockCount[monitorRecord[o]] /\ held[t][o] > 0

\* Inside an operation that only an owner gets into, the thread owns the
\* record and the object has it; the last lock is about to go in an unlock.
HoldersOwn ==
  \A t \in Threads :
    /\ pc[t] \in {"decAcquired", "testBlocked", "release", "deflate",
                  "notifyLock", "waitLock"} =>
         monitorRecord[obj[t]] = rec[t] /\ owner[rec[t]] = t
    /\ pc[t] \in {"testBlocked", "release", "deflate"} =>
         lockCount[rec[t]] = 1
    /\ pc[t] = "relocked" => owner[waiter[t].record] = t

\* A wait has locks to restore.
SavedCount ==
  \A t \in Threads : waiter[t].record # NULL => waiter[t].lockCount > 0

\* No thread waits on a record that is about to leave its object.
DeflaterAlone ==
  \A t, u \in Threads :
    pc[t] = "deflate" => waiter[u].record # rec[t]

-----------------------------------------------------------------------------
(* The Java monitor that is implemented                                    *)

\* A thread in vm_object_do_wait that has not yet given the monitor up
StillHolds(t) == op[t] = "unlock" /\ held[t][obj[t]] > 0

AbstractHeld ==
  [t \in Threads |-> [o \in Objects |->
     IF waiter[t].record = NULL \/ o # obj[t] THEN held[t][o]
     ELSE IF StillHolds(t) THEN waiter[t].lockCount ELSE 0]]

InWaitSet(t) == waiter[t].record # NULL /\ ~StillHolds(t)

AbstractWait ==
  [t \in Threads |-> IF InWaitSet(t) THEN obj[t] ELSE NULL]

AbstractDepth ==
  [t \in Threads |-> IF InWaitSet(t) THEN waiter[t].lockCount ELSE 0]

AbstractAsleep == {t \in Threads : Asleep(t)}

AbstractTimed == {t \in Threads : op[t] = "timedWait"}

JM == INSTANCE JavaMonitor WITH
        held <- AbstractHeld, waitObj <- AbstractWait, depth <- AbstractDepth,
        asleep <- AbstractAsleep, timed <- AbstractTimed

\* vm/monitor.c implements Java monitors: a lock is granted only when no
\* other thread has it, a wait gives up all of a thread's locks and brings
\* them back, and a sleeping waiter is woken by an owner's notify or by its
\* time limit and by nothing else.
ImplementsJavaMonitor == JM!Spec

\* A waiter that has given the monitor up and has yet to sleep
FallingAsleep(t) ==
  /\ InWaitSet(t)
  /\ ~waiter[t].interrupted
  /\ op[t] = "unlock" \/ At(t, "condWait")

\* "We must unlock monitor after the lock on notify_mutex is acquired to avoid
\* missed notify": when a notify or notifyAll returns, no thread that had given
\* the monitor up for a wait before is still on its way to sleep, and after a
\* notifyAll none of them sleeps.
NotifyIsNotMissed ==
  [][\A t, u \in Threads :
       /\ At(t, "notifyLock") /\ ~At(t, "notifyLock")'
       /\ InWaitSet(u) /\ obj[u] = obj[t]
       => /\ ~FallingAsleep(u)
          /\ op[t] = "notifyAll" => ~Asleep(u)']_vars

-----------------------------------------------------------------------------
(* Liveness                                                                *)

\* A thread blocked in sem_wait is woken again and again: it never sleeps
\* through the unlocks of a monitor.
BlockedIsWoken ==
  \A t \in Threads : At(t, "semWait") ~> ~At(t, "semWait")

\* The busy wait of a misspeculated deflation ends: every thread that counted
\* itself in acknowledges the flush.
FlushEnds ==
  \A t \in Threads : At(t, "spin") ~> ~At(t, "spin")

\* An interrupt wakes a waiting thread, whenever it comes: before the thread
\* publishes .waiting_mon, while it gives the monitor up, or in its sleep.
InterruptWakesWaiter ==
  \A t \in Threads : (Asleep(t) /\ interrupted[t]) ~> ~Asleep(t)
=============================================================================
