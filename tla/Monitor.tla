------------------------------ MODULE Monitor ------------------------------
(***************************************************************************)
(* The relaxed-lock monitors of vm/monitor.c: vm_object_lock and           *)
(* vm_object_unlock with inflation, speculative deflation and the pool of  *)
(* monitor records each execution environment keeps; vm_object_wait,       *)
(* vm_object_timed_wait, vm_object_notify and vm_object_notify_all on top  *)
(* of them; vm_thread_interrupt (vm/thread.c), which locks and notifies    *)
(* the monitor its target waits on; and the end of a thread, which frees   *)
(* the records of its pool (free_exec_env).                                *)
(*                                                                         *)
(* A step is one access to memory that threads share: an atomic operation, *)
(* a plain read or write of a shared field, a semaphore operation or a     *)
(* short critical section of a pthread mutex.  What only the owner of a    *)
(* record touches (lock_count, nr_waiting), and the test "is the owner     *)
(* this thread", whose answer no other thread can change, move with the    *)
(* step before them.  A thread stands for its execution environment.       *)
(***************************************************************************)
EXTENDS Integers, FiniteSets

CONSTANTS
  Threads,        \* execution environments
  Objects,        \* Java objects that are locked
  Records,        \* the memory malloc has for monitor records
  Ops,            \* the operations the running Java program uses
  MaxDepth,       \* bound: how deep a thread locks one object recursively
  SEM_VALUE_MAX,  \* what a semaphore holds; sem_post fails above it
  QuiescentExit,  \* TRUE: a thread ends only when no other uses its records
  NULL

CheckingOps == {"unlock", "wait", "timedWait", "notify", "notifyAll"}

ASSUME MonitorAssumption ==
  /\ IsFiniteSet(Threads)
  /\ NULL \notin Threads \cup Objects \cup Records
  /\ Ops \subseteq CheckingOps \cup {"lock", "interrupt", "exit"}
  /\ MaxDepth \in Nat \ {0}
  /\ SEM_VALUE_MAX \in Nat \ {0}
  /\ QuiescentExit \in BOOLEAN

VARIABLES
  monitorRecord,  \* object -> .monitor_record
  owner,          \* record -> .owner
  lockCount,      \* record -> .lock_count
  nrBlocked,      \* record -> .nr_blocked
  nrWaiting,      \* record -> .nr_waiting
  candidate,      \* record -> .candidate
  sem,            \* record -> value of .sem
  notifyMutex,    \* record -> thread that holds .notify_mutex
  condQueue,      \* record -> threads asleep on .notify_cond
  heap,           \* records that are not allocated
  freeRecs,       \* thread -> ee->free_monitor_recs
  interrupted,    \* thread -> .interrupted
  waitingMon,     \* thread -> .waiting_mon
  pc,             \* thread -> where it is inside vm/monitor.c
  op,             \* thread -> the function it is in
  caller,         \* thread -> who called that function
  obj,            \* thread -> argument `self'
  rec,            \* thread -> local `old_record' or `record'
  toPost,         \* thread -> posts left in the flushing loop
  waiter,         \* thread -> locals of vm_object_do_wait
  held            \* history: thread -> object -> locks it was granted

ownership == <<owner, lockCount>>
counters == <<nrBlocked, nrWaiting>>
wakeups == <<candidate, sem>>
notifying == <<notifyMutex, condQueue>>
mon == <<ownership, counters, wakeups, notifying>>
pools == <<heap, freeRecs>>
intr == <<interrupted, waitingMon>>
control == <<pc, op, caller, obj, rec>>
rest == <<intr, toPost, waiter>>
vars == <<monitorRecord, mon, pools, control, rest, held>>

OrNull(S) == S \cup {NULL}

\* The locals of vm_object_do_wait
Waiter == [record : OrNull(Records), lockCount : Nat, interrupted : BOOLEAN]
NoWaiter == [record |-> NULL, lockCount |-> 0, interrupted |-> FALSE]

\* Between the increment and the decrement of nr_blocked in vm_object_lock
CountedPC == {"loop", "setCandidate", "casOwner", "semWait", "decAcquired",
              "decBlocked"}
PC == CountedPC \cup
      {"idle", "dead", "readRecord", "casRecord", "incBlocked", "ownerCheck",
       "testBlocked", "release", "wakeOne", "semPost", "deflate", "recheck",
       "flush", "spin", "notifyLock", "waitLock", "condWait", "asleep",
       "clearMon", "relocked"}

\* Every variable keeps its type.
TypeOK ==
  /\ monitorRecord \in [Objects -> OrNull(Records)]
  /\ owner \in [Records -> OrNull(Threads)]
  /\ lockCount \in [Records -> Nat]
  /\ nrBlocked \in [Records -> Int]
  /\ nrWaiting \in [Records -> Int]
  /\ candidate \in [Records -> {0, 1}]
  /\ sem \in [Records -> 0..SEM_VALUE_MAX]
  /\ notifyMutex \in [Records -> OrNull(Threads)]
  /\ condQueue \in [Records -> SUBSET Threads]
  /\ heap \in SUBSET Records
  /\ freeRecs \in [Threads -> SUBSET Records]
  /\ interrupted \in [Threads -> BOOLEAN]
  /\ waitingMon \in [Threads -> OrNull(Objects)]
  /\ pc \in [Threads -> PC]
  /\ op \in [Threads -> {"none", "lock"} \cup CheckingOps]
  /\ caller \in [Threads -> {"user", "wait", "timedWait", "interrupt"}]
  /\ obj \in [Threads -> OrNull(Objects)]
  /\ rec \in [Threads -> OrNull(Records)]
  /\ toPost \in [Threads -> Int]
  /\ waiter \in [Threads -> Waiter]
  /\ held \in [Threads -> [Objects -> Int]]

Init ==
  /\ monitorRecord = [o \in Objects |-> NULL]
  /\ owner = [r \in Records |-> NULL]
  /\ lockCount = [r \in Records |-> 0]
  /\ nrBlocked = [r \in Records |-> 0]
  /\ nrWaiting = [r \in Records |-> 0]
  /\ candidate = [r \in Records |-> 0]
  /\ sem = [r \in Records |-> 0]
  /\ notifyMutex = [r \in Records |-> NULL]
  /\ condQueue = [r \in Records |-> {}]
  /\ heap = Records
  /\ freeRecs = [t \in Threads |-> {}]
  /\ interrupted = [t \in Threads |-> FALSE]
  /\ waitingMon = [t \in Threads |-> NULL]
  /\ pc = [t \in Threads |-> "idle"]
  /\ op = [t \in Threads |-> "none"]
  /\ caller = [t \in Threads |-> "user"]
  /\ obj = [t \in Threads |-> NULL]
  /\ rec = [t \in Threads |-> NULL]
  /\ toPost = [t \in Threads |-> 0]
  /\ waiter = [t \in Threads |-> NoWaiter]
  /\ held = [t \in Threads |-> [o \in Objects |-> 0]]

-----------------------------------------------------------------------------
(* Control flow                                                            *)

At(t, label) == pc[t] = label

GotoWith(t, label, r) ==
  /\ pc' = [pc EXCEPT ![t] = label]
  /\ rec' = [rec EXCEPT ![t] = r]
  /\ UNCHANGED <<op, caller, obj>>

Goto(t, label) == GotoWith(t, label, rec[t])

Enter(t, label, f, by, o) ==
  /\ pc' = [pc EXCEPT ![t] = label]
  /\ op' = [op EXCEPT ![t] = f]
  /\ caller' = [caller EXCEPT ![t] = by]
  /\ obj' = [obj EXCEPT ![t] = o]
  /\ rec' = [rec EXCEPT ![t] = NULL]

\* The function t is in returns to whoever called it.  No caller looks at a
\* result, except for the failure of the lock in vm_thread_interrupt.
Return(t) ==
  CASE caller[t] \in {"wait", "timedWait"} /\ op[t] = "unlock" ->
         Enter(t, "condWait", caller[t], "user", obj[t])
    [] caller[t] \in {"wait", "timedWait"} /\ op[t] = "lock" ->
         Enter(t, "relocked", caller[t], "user", obj[t])
    [] caller[t] = "interrupt" /\ op[t] = "lock" ->
         Enter(t, "ownerCheck", "notifyAll", "interrupt", obj[t])
    [] caller[t] = "interrupt" /\ op[t] = "notifyAll" ->
         Enter(t, "ownerCheck", "unlock", "interrupt", obj[t])
    [] OTHER -> Enter(t, "idle", "none", "user", NULL)

ReturnError(t) ==
  IF caller[t] = "interrupt" /\ op[t] = "lock"
    THEN Enter(t, "idle", "none", "user", NULL)
    ELSE Return(t)

-----------------------------------------------------------------------------
(* vm_object_lock                                                          *)

Lock(t, o) ==
  /\ "lock" \in Ops
  /\ At(t, "idle")
  /\ held[t][o] < MaxDepth
  /\ Enter(t, "readRecord", "lock", "user", o)
  /\ UNCHANGED <<monitorRecord, mon, pools, rest, held>>

\* Mutant of TakeRecord: the record is not taken off the free list.
TakeRecordKeepsIt(t, r) ==
  /\ r \in freeRecs[t] \cup heap
  /\ heap' = heap \ {r}
  /\ owner' = [owner EXCEPT ![r] = t]
  /\ lockCount' = [lockCount EXCEPT ![r] = 1]
  /\ UNCHANGED <<counters, wakeups, notifying, freeRecs>>

\* get_monitor_record: a record of the pool as it was left there, or a new
\* one from malloc.
TakeRecord(t, r) ==
  \/ /\ r \in freeRecs[t]
     /\ freeRecs' = [freeRecs EXCEPT ![t] = @ \ {r}]
     /\ UNCHANGED <<mon, heap>>
  \/ /\ freeRecs[t] = {}
     /\ r \in heap
     /\ heap' = heap \ {r}
     /\ owner' = [owner EXCEPT ![r] = t]
     /\ lockCount' = [lockCount EXCEPT ![r] = 1]
     /\ nrBlocked' = [nrBlocked EXCEPT ![r] = 0]
     /\ nrWaiting' = [nrWaiting EXCEPT ![r] = 0]
     /\ candidate' = [candidate EXCEPT ![r] = 0]
     /\ sem' = [sem EXCEPT ![r] = 0]
     /\ notifyMutex' = [notifyMutex EXCEPT ![r] = NULL]
     /\ condQueue' = [condQueue EXCEPT ![r] = {}]
     /\ UNCHANGED freeRecs

\* put_monitor_record
PutRecord(t, r) ==
  /\ freeRecs' = [freeRecs EXCEPT ![t] = @ \cup {r}]
  /\ UNCHANGED heap

Granted(t) == held' = [held EXCEPT ![t][obj[t]] = @ + 1]

\* The read of self->monitor_record.  A record of the thread itself is a
\* recursive lock; no record leads to inflation with an own one, or to an
\* OutOfMemoryError when there is no memory for it.
ReadRecord(t) ==
  LET r == monitorRecord[obj[t]] IN
  /\ At(t, "readRecord")
  /\ \/ /\ r # NULL /\ owner[r] = t
        /\ lockCount' = [lockCount EXCEPT ![r] = @ + 1]
        /\ Granted(t) /\ Return(t)
        /\ UNCHANGED <<owner, counters, wakeups, notifying, pools>>
     \/ /\ r # NULL /\ owner[r] # t
        /\ GotoWith(t, "incBlocked", r)
        /\ UNCHANGED <<mon, pools, held>>
     \/ /\ r = NULL
        /\ \E n \in Records : TakeRecord(t, n) /\ GotoWith(t, "casRecord", n)
        /\ UNCHANGED held
     \/ /\ r = NULL /\ freeRecs[t] = {} /\ heap = {}
        /\ ReturnError(t)
        /\ UNCHANGED <<mon, pools, held>>
  /\ UNCHANGED <<monitorRecord, rest>>

\* cmpxchg_ptr(&self->monitor_record, NULL, record)
CasRecord(t) ==
  /\ At(t, "casRecord")
  /\ IF monitorRecord[obj[t]] = NULL
       THEN /\ monitorRecord' = [monitorRecord EXCEPT ![obj[t]] = rec[t]]
            /\ Granted(t) /\ Return(t)
            /\ UNCHANGED pools
       ELSE /\ PutRecord(t, rec[t])
            /\ GotoWith(t, "readRecord", NULL)
            /\ UNCHANGED <<monitorRecord, held>>
  /\ UNCHANGED <<mon, rest>>

\* atomic_inc(&old_record->nr_blocked)
IncBlocked(t) ==
  /\ At(t, "incBlocked")
  /\ nrBlocked' = [nrBlocked EXCEPT ![rec[t]] = @ + 1]
  /\ Goto(t, "loop")
  /\ UNCHANGED <<monitorRecord, ownership, nrWaiting, wakeups, notifying,
                 pools, rest, held>>

\* Mutant of Loop: leaves the loop without the decrement after it.
LoopKeepsCount(t) ==
  /\ At(t, "loop")
  /\ IF monitorRecord[obj[t]] = rec[t] THEN Goto(t, "setCandidate")
                                       ELSE GotoWith(t, "readRecord", NULL)
  /\ UNCHANGED <<monitorRecord, mon, pools, rest, held>>

\* while (self->monitor_record == old_record)
Loop(t) ==
  /\ At(t, "loop")
  /\ Goto(t, IF monitorRecord[obj[t]] = rec[t] THEN "setCandidate"
                                               ELSE "decBlocked")
  /\ UNCHANGED <<monitorRecord, mon, pools, rest, held>>

\* Mutant of SetCandidate: forgets to set .candidate.
SetCandidateForgets(t) ==
  /\ At(t, "setCandidate")
  /\ Goto(t, "casOwner")
  /\ UNCHANGED <<monitorRecord, mon, pools, rest, held>>

\* old_record->candidate = 1
SetCandidate(t) ==
  /\ At(t, "setCandidate")
  /\ candidate' = [candidate EXCEPT ![rec[t]] = 1]
  /\ Goto(t, "casOwner")
  /\ UNCHANGED <<monitorRecord, ownership, counters, sem, notifying,
                 pools, rest, held>>

\* cmpxchg_ptr(&old_record->owner, NULL, ee) and lock_count = 1
CasOwner(t) ==
  /\ At(t, "casOwner")
  /\ IF owner[rec[t]] = NULL
       THEN /\ owner' = [owner EXCEPT ![rec[t]] = t]
            /\ lockCount' = [lockCount EXCEPT ![rec[t]] = 1]
            /\ Granted(t)
            /\ Goto(t, "decAcquired")
       ELSE Goto(t, "semWait") /\ UNCHANGED <<ownership, held>>
  /\ UNCHANGED <<monitorRecord, counters, wakeups, notifying, pools, rest>>

\* Mutant of SemWait: does not block.
SemWaitRuns(t) ==
  /\ At(t, "semWait")
  /\ sem' = [sem EXCEPT ![rec[t]] = @ - 1]
  /\ Goto(t, "loop")
  /\ UNCHANGED <<monitorRecord, ownership, counters, candidate, notifying,
                 pools, rest, held>>

\* wait(old_record): sem_wait
SemWait(t) ==
  /\ At(t, "semWait")
  /\ sem[rec[t]] > 0
  /\ sem' = [sem EXCEPT ![rec[t]] = @ - 1]
  /\ Goto(t, "loop")
  /\ UNCHANGED <<monitorRecord, ownership, counters, candidate, notifying,
                 pools, rest, held>>

\* atomic_dec(&old_record->nr_blocked), after the acquisition or after the
\* record was found detached from the object.
DecBlocked(t) ==
  /\ \/ At(t, "decAcquired") /\ Return(t)
     \/ At(t, "decBlocked") /\ GotoWith(t, "readRecord", NULL)
  /\ nrBlocked' = [nrBlocked EXCEPT ![rec[t]] = @ - 1]
  /\ UNCHANGED <<monitorRecord, ownership, nrWaiting, wakeups, notifying,
                 pools, rest, held>>

-----------------------------------------------------------------------------
(* owner_check, which vm_object_unlock, vm_object_do_wait and the notify   *)
(* functions start with                                                    *)

Call(t, f, o) ==
  /\ f \in Ops \cap CheckingOps
  /\ At(t, "idle")
  /\ Enter(t, "ownerCheck", f, "user", o)
  /\ UNCHANGED <<monitorRecord, mon, pools, rest, held>>

\* Where the owner of the monitor goes on in function f
Checked(f) == IF f = "unlock" THEN "testBlocked"
              ELSE IF f \in {"wait", "timedWait"} THEN "waitLock"
              ELSE "notifyLock"

\* IllegalMonitorStateException when the thread does not own the monitor; a
\* recursive unlock ends here.
OwnerCheck(t) ==
  LET r == monitorRecord[obj[t]]
      owns == r # NULL /\ owner[r] = t
  IN
  /\ At(t, "ownerCheck")
  /\ \/ /\ ~owns
        /\ Return(t)
        /\ UNCHANGED <<lockCount, held>>
     \/ /\ owns /\ op[t] = "unlock" /\ lockCount[r] > 1
        /\ lockCount' = [lockCount EXCEPT ![r] = @ - 1]
        /\ held' = [held EXCEPT ![t][obj[t]] = @ - 1]
        /\ Return(t)
     \/ /\ owns /\ (op[t] = "unlock" => lockCount[r] <= 1)
        /\ GotoWith(t, Checked(op[t]), r)
        /\ UNCHANGED <<lockCount, held>>
  /\ UNCHANGED <<monitorRecord, owner, counters, wakeups, notifying, pools,
                 rest>>

-----------------------------------------------------------------------------
(* vm_object_unlock                                                        *)

\* Mutant of TestBlocked: only looks at .nr_blocked.
TestBlockedOnly(t) ==
  /\ At(t, "testBlocked")
  /\ Goto(t, IF nrBlocked[rec[t]] > 0 THEN "release" ELSE "deflate")
  /\ UNCHANGED <<monitorRecord, mon, pools, rest, held>>

\* atomic_read(&record->nr_blocked) > 0 || atomic_read(&record->nr_waiting) > 0
TestBlocked(t) ==
  /\ At(t, "testBlocked")
  /\ Goto(t, IF nrBlocked[rec[t]] > 0 \/ nrWaiting[rec[t]] > 0
               THEN "release" ELSE "deflate")
  /\ UNCHANGED <<monitorRecord, mon, pools, rest, held>>

GivenUp(t) == held' = [held EXCEPT ![t][obj[t]] = 0]

\* record->owner = NULL
Release(t) ==
  /\ At(t, "release")
  /\ owner' = [owner EXCEPT ![rec[t]] = NULL]
  /\ GivenUp(t)
  /\ Goto(t, "wakeOne")
  /\ UNCHANGED <<monitorRecord, lockCount, counters, wakeups, notifying,
                 pools, rest>>

\* Mutant of WakeOne: tests the result of the cmpxchg the wrong way.
WakeOneInverted(t) ==
  /\ At(t, "wakeOne")
  /\ candidate' = [candidate EXCEPT ![rec[t]] = 0]
  /\ IF candidate[rec[t]] = 0 THEN Goto(t, "semPost") ELSE Return(t)
  /\ UNCHANGED <<monitorRecord, ownership, counters, sem, notifying,
                 pools, rest, held>>

\* wake_one: atomic_cmpxchg(&record->candidate, 1, 0)
WakeOne(t) ==
  /\ At(t, "wakeOne")
  /\ candidate' = [candidate EXCEPT ![rec[t]] = 0]
  /\ IF candidate[rec[t]] = 1 THEN Goto(t, "semPost") ELSE Return(t)
  /\ UNCHANGED <<monitorRecord, ownership, counters, sem, notifying,
                 pools, rest, held>>

\* sem_post, which fails without effect at SEM_VALUE_MAX
Post(r) ==
  sem' = [sem EXCEPT ![r] = IF @ < SEM_VALUE_MAX THEN @ + 1 ELSE @]

SemPost(t) ==
  /\ At(t, "semPost")
  /\ Post(rec[t])
  /\ Return(t)
  /\ UNCHANGED <<monitorRecord, ownership, counters, candidate, notifying,
                 pools, rest, held>>

\* Mutant of Deflate: clears .owner like the other branch.
DeflateDisowns(t) ==
  /\ At(t, "deflate")
  /\ monitorRecord' = [monitorRecord EXCEPT ![obj[t]] = NULL]
  /\ owner' = [owner EXCEPT ![rec[t]] = NULL]
  /\ GivenUp(t)
  /\ Goto(t, "recheck")
  /\ UNCHANGED <<lockCount, counters, wakeups, notifying, pools, rest>>

\* self->monitor_record = NULL: speculative deflation
Deflate(t) ==
  /\ At(t, "deflate")
  /\ monitorRecord' = [monitorRecord EXCEPT ![obj[t]] = NULL]
  /\ GivenUp(t)
  /\ Goto(t, "recheck")
  /\ UNCHANGED <<mon, pools, rest>>

\* int nr_blocked = atomic_read(&record->nr_blocked)
Recheck(t) ==
  /\ At(t, "recheck")
  /\ IF nrBlocked[rec[t]] > 0
       THEN /\ toPost' = [toPost EXCEPT ![t] = nrBlocked[rec[t]]]
            /\ Goto(t, "flush")
            /\ UNCHANGED pools
       ELSE /\ PutRecord(t, rec[t])
            /\ Return(t)
            /\ UNCHANGED toPost
  /\ UNCHANGED <<monitorRecord, mon, intr, waiter, held>>

\* One sem_post of the loop that flushes the blocked threads
Flush(t) ==
  /\ At(t, "flush")
  /\ Post(rec[t])
  /\ toPost' = [toPost EXCEPT ![t] = @ - 1]
  /\ Goto(t, IF toPost[t] > 1 THEN "flush" ELSE "spin")
  /\ UNCHANGED <<monitorRecord, ownership, counters, candidate, notifying,
                 pools, intr, waiter, held>>

\* Mutant of Spin: does not wait for the acknowledgements.
SpinNoWait(t) ==
  /\ At(t, "spin")
  /\ candidate' = [candidate EXCEPT ![rec[t]] = 0]
  /\ PutRecord(t, rec[t])
  /\ Return(t)
  /\ UNCHANGED <<monitorRecord, ownership, counters, sem, notifying, rest,
                 held>>

\* while (atomic_read(&record->nr_blocked) > 0) ; then the record goes back
Spin(t) ==
  /\ At(t, "spin")
  /\ nrBlocked[rec[t]] <= 0
  /\ candidate' = [candidate EXCEPT ![rec[t]] = 0]
  /\ PutRecord(t, rec[t])
  /\ Return(t)
  /\ UNCHANGED <<monitorRecord, ownership, counters, sem, notifying, rest,
                 held>>

-----------------------------------------------------------------------------
(* vm_object_do_wait                                                       *)

\* Mutant of WaitLock: an interrupt that came before is not looked at.
WaitLockUnaware(t) ==
  LET r == rec[t] IN
  /\ At(t, "waitLock")
  /\ notifyMutex[r] = NULL
  /\ notifyMutex' = [notifyMutex EXCEPT ![r] = t]
  /\ lockCount' = [lockCount EXCEPT ![r] = 1]
  /\ nrWaiting' = [nrWaiting EXCEPT ![r] = @ + 1]
  /\ waitingMon' = [waitingMon EXCEPT ![t] = obj[t]]
  /\ waiter' = [waiter EXCEPT ![t] = [record |-> r,
                                      lockCount |-> lockCount[r],
                                      interrupted |-> FALSE]]
  /\ held' = [held EXCEPT ![t][obj[t]] = 1]
  /\ Enter(t, "ownerCheck", "unlock", op[t], obj[t])
  /\ UNCHANGED <<monitorRecord, owner, nrBlocked, wakeups, condQueue, pools,
                 interrupted, toPost>>

\* Mutant of WaitLock: gives the monitor up without notify_mutex.
WaitLockReleased(t) ==
  LET r == rec[t] IN
  /\ At(t, "waitLock")
  /\ notifyMutex[r] = NULL
  /\ lockCount' = [lockCount EXCEPT ![r] = 1]
  /\ nrWaiting' = [nrWaiting EXCEPT ![r] = @ + 1]
  /\ waitingMon' = [waitingMon EXCEPT ![t] = obj[t]]
  /\ waiter' = [waiter EXCEPT ![t] = [record |-> r,
                                      lockCount |-> lockCount[r],
                                      interrupted |-> interrupted[t]]]
  /\ held' = [held EXCEPT ![t][obj[t]] = 1]
  /\ Enter(t, "ownerCheck", "unlock", op[t], obj[t])
  /\ UNCHANGED <<monitorRecord, owner, nrBlocked, wakeups, notifying, pools,
                 interrupted, toPost>>

\* The waiter takes notify_mutex, publishes what it waits on, notes whether
\* it was interrupted before, and calls vm_object_unlock with lock_count 1.
WaitLock(t) ==
  LET r == rec[t] IN
  /\ At(t, "waitLock")
  /\ notifyMutex[r] = NULL
  /\ notifyMutex' = [notifyMutex EXCEPT ![r] = t]
  /\ lockCount' = [lockCount EXCEPT ![r] = 1]
  /\ nrWaiting' = [nrWaiting EXCEPT ![r] = @ + 1]
  /\ waitingMon' = [waitingMon EXCEPT ![t] = obj[t]]
  /\ waiter' = [waiter EXCEPT ![t] = [record |-> r,
                                      lockCount |-> lockCount[r],
                                      interrupted |-> interrupted[t]]]
  /\ held' = [held EXCEPT ![t][obj[t]] = 1]
  /\ Enter(t, "ownerCheck", "unlock", op[t], obj[t])
  /\ UNCHANGED <<monitorRecord, owner, nrBlocked, wakeups, condQueue, pools,
                 interrupted, toPost>>

\* pthread_cond_wait or pthread_cond_timedwait, skipped by a thread that was
\* interrupted; either way notify_mutex is let go.
CondWait(t) ==
  LET r == waiter[t].record
      sleeps == ~waiter[t].interrupted
  IN
  /\ At(t, "condWait")
  /\ notifyMutex' = [notifyMutex EXCEPT ![r] = NULL]
  /\ condQueue' = [condQueue EXCEPT ![r] = IF sleeps THEN @ \cup {t} ELSE @]
  /\ Goto(t, IF sleeps THEN "asleep" ELSE "clearMon")
  /\ UNCHANGED <<monitorRecord, ownership, counters, wakeups, pools, rest,
                 held>>

\* The time limit of a timed wait passes.
Timeout(t) ==
  /\ At(t, "asleep")
  /\ op[t] = "timedWait"
  /\ t \in condQueue[waiter[t].record]
  /\ condQueue' = [condQueue EXCEPT ![waiter[t].record] = @ \ {t}]
  /\ UNCHANGED <<monitorRecord, ownership, counters, wakeups, notifyMutex,
                 pools, control, rest, held>>

\* The condition wait returns with notify_mutex, which is let go at once.
Wakeup(t) ==
  /\ At(t, "asleep")
  /\ t \notin condQueue[waiter[t].record]
  /\ notifyMutex[waiter[t].record] = NULL
  /\ Goto(t, "clearMon")
  /\ UNCHANGED <<monitorRecord, mon, pools, rest, held>>

\* .waiting_mon is cleared and the monitor is locked again.
ClearMon(t) ==
  /\ At(t, "clearMon")
  /\ waitingMon' = [waitingMon EXCEPT ![t] = NULL]
  /\ Enter(t, "readRecord", "lock", op[t], obj[t])
  /\ UNCHANGED <<monitorRecord, mon, pools, interrupted, toPost, waiter, held>>

\* Mutant of Relocked: does not restore .lock_count.
RelockedOnce(t) ==
  /\ At(t, "relocked")
  /\ nrWaiting' = [nrWaiting EXCEPT ![waiter[t].record] = @ - 1]
  /\ interrupted' = [interrupted EXCEPT ![t] = FALSE]
  /\ waiter' = [waiter EXCEPT ![t] = NoWaiter]
  /\ Return(t)
  /\ UNCHANGED <<monitorRecord, ownership, nrBlocked, wakeups, notifying,
                 pools, waitingMon, toPost, held>>

\* nr_waiting and lock_count are restored; a pending interrupt is consumed
\* and becomes an InterruptedException.
Relocked(t) ==
  LET r == waiter[t].record IN
  /\ At(t, "relocked")
  /\ nrWaiting' = [nrWaiting EXCEPT ![r] = @ - 1]
  /\ lockCount' = [lockCount EXCEPT ![r] = waiter[t].lockCount]
  /\ held' = [held EXCEPT ![t][obj[t]] = waiter[t].lockCount]
  /\ interrupted' = [interrupted EXCEPT ![t] = FALSE]
  /\ waiter' = [waiter EXCEPT ![t] = NoWaiter]
  /\ Return(t)
  /\ UNCHANGED <<monitorRecord, owner, nrBlocked, wakeups, notifying, pools,
                 waitingMon, toPost>>

-----------------------------------------------------------------------------
(* vm_object_notify, vm_object_notify_all and vm_thread_interrupt          *)

\* pthread_cond_signal or pthread_cond_broadcast under notify_mutex
Notify(t) ==
  LET asleep == condQueue[rec[t]] IN
  /\ At(t, "notifyLock")
  /\ notifyMutex[rec[t]] = NULL
  /\ \E woken \in SUBSET asleep :
       /\ IF op[t] = "notify" /\ asleep # {} THEN Cardinality(woken) = 1
                                             ELSE woken = asleep
       /\ condQueue' = [condQueue EXCEPT ![rec[t]] = @ \ woken]
  /\ Return(t)
  /\ UNCHANGED <<monitorRecord, ownership, counters, wakeups, notifyMutex,
                 pools, rest, held>>

\* vm_thread_interrupt: under the target's mutex it sets .interrupted and
\* reads .waiting_mon; then it locks, notifies and unlocks that monitor.
Interrupt(t, target) ==
  /\ "interrupt" \in Ops
  /\ At(t, "idle")
  /\ ~At(target, "dead")
  /\ interrupted' = [interrupted EXCEPT ![target] = TRUE]
  /\ IF waitingMon[target] = NULL
       THEN UNCHANGED control
       ELSE Enter(t, "readRecord", "lock", "interrupt", waitingMon[target])
  /\ UNCHANGED <<monitorRecord, mon, pools, waitingMon, toPost, waiter, held>>

-----------------------------------------------------------------------------
(* The life of an execution environment                                    *)

\* The end of vm_thread_entry: free_exec_env frees the records of the pool.
Exit(t) ==
  /\ "exit" \in Ops
  /\ At(t, "idle")
  /\ \A o \in Objects : held[t][o] = 0
  /\ QuiescentExit => \A u \in Threads : rec[u] \notin freeRecs[t]
  /\ heap' = heap \cup freeRecs[t]
  /\ freeRecs' = [freeRecs EXCEPT ![t] = {}]
  /\ interrupted' = [interrupted EXCEPT ![t] = FALSE]
  /\ Goto(t, "dead")
  /\ UNCHANGED <<monitorRecord, mon, waitingMon, toPost, waiter, held>>

\* alloc_exec_env for a new thread, whose environment may have the address
\* of one that is gone
Spawn(t) ==
  /\ At(t, "dead")
  /\ Goto(t, "idle")
  /\ UNCHANGED <<monitorRecord, mon, pools, rest, held>>

-----------------------------------------------------------------------------
\* The steps a thread takes inside a function of vm/monitor.c
Step(t) ==
  \/ ReadRecord(t) \/ CasRecord(t) \/ IncBlocked(t) \/ Loop(t)
  \/ SetCandidate(t) \/ CasOwner(t) \/ SemWait(t) \/ DecBlocked(t)
  \/ OwnerCheck(t) \/ TestBlocked(t) \/ Release(t) \/ WakeOne(t)
  \/ SemPost(t) \/ Deflate(t) \/ Recheck(t) \/ Flush(t) \/ Spin(t)
  \/ WaitLock(t) \/ CondWait(t) \/ Wakeup(t) \/ ClearMon(t) \/ Relocked(t)
  \/ Notify(t)

\* What the running program asks of vm/monitor.c
Request(t) ==
  \/ \E o \in Objects : Lock(t, o)
  \/ \E o \in Objects, f \in CheckingOps : Call(t, f, o)
  \/ \E u \in Threads : Interrupt(t, u)
  \/ Exit(t)
  \/ Spawn(t)

Next == \E t \in Threads : Step(t) \/ Timeout(t) \/ Request(t)

Spec == Init /\ [][Next]_vars

\* The scheduler runs every thread that can run, and a program that holds a
\* monitor comes to the unlock that gives it up.
Fairness ==
  /\ \A t \in Threads : WF_vars(Step(t))
  /\ \A t \in Threads, o \in Objects, n \in 1..MaxDepth :
       SF_vars(held[t][o] = n /\ Call(t, "unlock", o))

FairSpec == Spec /\ Fairness
=============================================================================
