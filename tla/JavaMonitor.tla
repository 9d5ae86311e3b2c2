---------------------------- MODULE JavaMonitor ----------------------------
(***************************************************************************)
(* The abstract Java monitor: who holds which object how many times, who   *)
(* is in the wait set of an object and with how many locks to restore, and *)
(* who of those still sleeps.                                              *)
(***************************************************************************)
EXTENDS Integers

CONSTANTS Threads, Objects, NULL

VARIABLES
  held,     \* thread -> object -> number of locks
  waitObj,  \* thread -> the object it waits on, or NULL
  depth,    \* thread -> the locks to bring back after the wait
  asleep,   \* the waiting threads that were not woken
  timed     \* the threads whose wait has a time limit

vars == <<held, waitObj, depth, asleep, timed>>

Init ==
  /\ held = [t \in Threads |-> [o \in Objects |-> 0]]
  /\ waitObj = [t \in Threads |-> NULL]
  /\ depth = [t \in Threads |-> 0]
  /\ asleep = {}
  /\ timed = {}

FreeFor(t, o) == \A u \in Threads \ {t} : held[u][o] = 0

Acquire(t, o) ==
  /\ waitObj[t] = NULL
  /\ FreeFor(t, o)
  /\ held' = [held EXCEPT ![t][o] = @ + 1]
  /\ UNCHANGED <<waitObj, depth, asleep>>

Release(t, o) ==
  /\ held[t][o] > 0
  /\ held' = [held EXCEPT ![t][o] = @ - 1]
  /\ UNCHANGED <<waitObj, depth, asleep>>

Wait(t, o) ==
  /\ waitObj[t] = NULL
  /\ held[t][o] > 0
  /\ waitObj' = [waitObj EXCEPT ![t] = o]
  /\ depth' = [depth EXCEPT ![t] = held[t][o]]
  /\ held' = [held EXCEPT ![t][o] = 0]
  /\ UNCHANGED asleep

\* The waiter is in the wait set before it sleeps; it sleeps once.
FallAsleep(t) ==
  /\ waitObj[t] # NULL
  /\ asleep' = asleep \cup {t}
  /\ UNCHANGED <<held, waitObj, depth>>

\* The owner of an object wakes some of its waiters.
Notify(t, o) ==
  /\ held[t][o] > 0
  /\ \E woken \in SUBSET {u \in asleep : waitObj[u] = o} :
       asleep' = asleep \ woken
  /\ UNCHANGED <<held, waitObj, depth>>

Timeout(t) ==
  /\ t \in asleep \cap timed
  /\ asleep' = asleep \ {t}
  /\ UNCHANGED <<held, waitObj, depth>>

Resume(t) ==
  /\ waitObj[t] # NULL
  /\ t \notin asleep
  /\ FreeFor(t, waitObj[t])
  /\ held' = [held EXCEPT ![t][waitObj[t]] = depth[t]]
  /\ waitObj' = [waitObj EXCEPT ![t] = NULL]
  /\ depth' = [depth EXCEPT ![t] = 0]
  /\ UNCHANGED asleep

\* Which threads have a time limit changes with their calls and never for a
\* sleeping thread.
Next ==
  /\ \E t \in Threads :
       \/ \E o \in Objects : Acquire(t, o) \/ Release(t, o) \/ Wait(t, o)
                             \/ Notify(t, o)
       \/ FallAsleep(t) \/ Timeout(t) \/ Resume(t)
       \/ UNCHANGED <<held, waitObj, depth, asleep>>
  /\ timed \cap asleep \subseteq timed'
  /\ timed' \cap asleep \subseteq timed

Spec == Init /\ [][Next]_vars
=============================================================================
