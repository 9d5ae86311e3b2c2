-------------------------------- MODULE Park --------------------------------
(***************************************************************************)
(* park and unpark of sun.misc.Unsafe (runtime/sun_misc_Unsafe.c): a       *)
(* permit per thread, a mutex and a condition variable, and a time limit.  *)
(*                                                                         *)
(* A critical section under park_mutex is one step.  Time is in            *)
(* nanoseconds; MsecPerSec and NsecPerMsec are the 1000 and 1000000 of the *)
(* code.  Condition variables do not wake spuriously.                      *)
(***************************************************************************)
EXTENDS Naturals

CONSTANTS
  Parkers,    \* the threads that call park and unpark
  MsecPerSec, NsecPerMsec,
  Timeouts,   \* the values of `timeout' that callers use
  MaxTime,    \* bound of the clock
  NoLimit     \* the time of a call without a limit

ASSUME ParkAssumption ==
  /\ NoLimit \notin Nat /\ NoLimit \notin [sec : Nat, nsec : Nat]
  /\ MsecPerSec \in Nat \ {0} /\ NsecPerMsec \in Nat \ {0}
  /\ Timeouts \subseteq Nat /\ MaxTime \in Nat

NsecPerSec == MsecPerSec * NsecPerMsec

VARIABLES
  now,            \* the real-time clock
  unparkCalled,   \* threads with unpark_called
  parkPc,         \* thread -> "run", asleep on park_cond, or woken from it
  timespec,       \* thread -> the time pthread_cond_timedwait was given
  due             \* thread -> the time its caller meant (a history variable)

parkVars == <<now, unparkCalled, parkPc, timespec, due>>

\* Every variable keeps its type.
ParkTypeOK ==
  /\ now \in 0 .. MaxTime
  /\ unparkCalled \subseteq Parkers
  /\ parkPc \in [Parkers -> {"run", "asleep", "woken"}]
  /\ timespec \in [Parkers -> [sec : Nat, nsec : Nat] \cup {NoLimit}]
  /\ due \in [Parkers -> Nat \cup {NoLimit}]

ParkInit ==
  /\ now = 0
  /\ unparkCalled = {}
  /\ parkPc = [t \in Parkers |-> "run"]
  /\ timespec = [t \in Parkers |-> NoLimit]
  /\ due = [t \in Parkers |-> NoLimit]

-----------------------------------------------------------------------------
\* The time limit as the code computes it
Timespec(isAbsolute, timeout) ==
  IF isAbsolute
  THEN [sec |-> timeout \div MsecPerSec, nsec |-> timeout % MsecPerSec]
  ELSE [sec |-> now \div NsecPerSec + timeout \div NsecPerSec,
        nsec |-> (now % NsecPerSec) + (timeout % NsecPerSec)]

\* The time limit as the comment in the code explains the parameters
Due(isAbsolute, timeout) ==
  IF isAbsolute THEN timeout * NsecPerMsec ELSE now + timeout

\* A permit that is there is consumed, and park returns.
ParkConsumes(t) ==
  /\ parkPc[t] = "run"
  /\ t \in unparkCalled
  /\ unparkCalled' = unparkCalled \ {t}
  /\ UNCHANGED <<now, parkPc, timespec, due>>

ParkForever(t) ==
  /\ parkPc[t] = "run"
  /\ t \notin unparkCalled
  /\ parkPc' = [parkPc EXCEPT ![t] = "asleep"]
  /\ UNCHANGED <<now, unparkCalled, timespec, due>>

ParkTimed(t, isAbsolute, timeout) ==
  /\ parkPc[t] = "run"
  /\ t \notin unparkCalled
  /\ timeout # 0
  /\ Due(isAbsolute, timeout) <= MaxTime
  /\ timespec' = [timespec EXCEPT ![t] = Timespec(isAbsolute, timeout)]
  /\ due' = [due EXCEPT ![t] = Due(isAbsolute, timeout)]
  /\ parkPc' = [parkPc EXCEPT ![t] = "asleep"]
  /\ UNCHANGED <<now, unparkCalled>>

\* pthread_cond_timedwait refuses a time whose nanoseconds are a second or
\* more (EINVAL) and otherwise returns once the time has come.
TimedOut(t) ==
  /\ timespec[t] # NoLimit
  /\ \/ timespec[t].nsec >= NsecPerSec
     \/ timespec[t].sec * NsecPerSec + timespec[t].nsec <= now

TimeOut(t) ==
  /\ parkPc[t] = "asleep"
  /\ TimedOut(t)
  /\ parkPc' = [parkPc EXCEPT ![t] = "woken"]
  /\ UNCHANGED <<now, unparkCalled, timespec, due>>

\* The thread has park_mutex again, consumes the permit and returns.
Resume(t) ==
  /\ parkPc[t] = "woken"
  /\ unparkCalled' = unparkCalled \ {t}
  /\ parkPc' = [parkPc EXCEPT ![t] = "run"]
  /\ timespec' = [timespec EXCEPT ![t] = NoLimit]
  /\ due' = [due EXCEPT ![t] = NoLimit]
  /\ UNCHANGED now

\* Mutant of Unpark: the permit is given and nobody is woken.
UnparkNoSignal(t, u) ==
  /\ parkPc[t] = "run"
  /\ unparkCalled' = unparkCalled \cup {u}
  /\ UNCHANGED <<now, parkPc, timespec, due>>

\* Thread t calls unpark for u.
Unpark(t, u) ==
  /\ parkPc[t] = "run"
  /\ unparkCalled' = unparkCalled \cup {u}
  /\ parkPc' = [parkPc EXCEPT ![u] = IF @ = "asleep" THEN "woken" ELSE @]
  /\ UNCHANGED <<now, timespec, due>>

Tick ==
  /\ now < MaxTime
  /\ now' = now + 1
  /\ UNCHANGED <<unparkCalled, parkPc, timespec, due>>

ParkNext ==
  \/ Tick
  \/ \E t \in Parkers :
       \/ ParkConsumes(t) \/ ParkForever(t) \/ TimeOut(t) \/ Resume(t)
       \/ \E timeout \in Timeouts, isAbsolute \in BOOLEAN :
            ParkTimed(t, isAbsolute, timeout)
       \/ \E u \in Parkers : Unpark(t, u)

ParkSpec == ParkInit /\ [][ParkNext]_parkVars

-----------------------------------------------------------------------------
(* Properties                                                              *)

\* Nobody sleeps on park_cond with a permit: an unpark is never lost, whether
\* it comes before, during or after the call of park.
SleeperHasNoPermit == \A t \in unparkCalled : parkPc[t] # "asleep"

\* A park that no unpark ends lasts until the time its caller meant. The
\* comment in native_unsafe_park says which that is: an absolute timeout is in
\* milliseconds, a relative one in nanoseconds.
ParkKeepsTime ==
  [][\A t \in Parkers :
       (parkPc[t] = "asleep" /\ parkPc'[t] = "woken" /\ t \notin unparkCalled')
         => due[t] <= now]_parkVars
=============================================================================
