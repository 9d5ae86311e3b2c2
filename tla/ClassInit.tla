----------------------------- MODULE ClassInit -----------------------------
(***************************************************************************)
(* Class initialisation: vm_class_init (vm/class.c) on top of the          *)
(* compilation lock of lib/compile-lock.c.  Threads ask for the            *)
(* initialisation of classes; the one that wins the lock of a class        *)
(* initialises its superclass and runs <clinit>, which may ask for the     *)
(* initialisation of further classes, of the same one included, and may    *)
(* throw.                                                                  *)
(*                                                                         *)
(* A step is one access to shared memory.  vmc->state is written inside a  *)
(* lock and unlock of the class object (module Monitor): one step here.    *)
(***************************************************************************)
EXTENDS Integers, Sequences, FiniteSets

CONSTANTS
  Threads,   \* execution environments
  Classes,
  Super,     \* class -> vmc->super or NULL
  Uses,      \* class -> the classes that its <clinit> may initialise
  NULL

ASSUME ClassAssumption ==
  /\ IsFiniteSet(Threads)
  /\ NULL \notin Threads \cup Classes
  /\ Super \in [Classes -> Classes \cup {NULL}]
  /\ Uses \in [Classes -> SUBSET Classes]

VARIABLES
  status,       \* class -> vmc->cl.status
  nrWaiting,    \* class -> vmc->cl.nr_waiting
  waitSem,      \* class -> value of vmc->cl.wait_sem
  compilingEe,  \* class -> vmc->cl.compiling_ee
  state,        \* class -> vmc->state
  stack,        \* thread -> its calls of vm_class_init, innermost first
  result        \* thread -> what the call that returned last gave back

lock == <<status, nrWaiting, waitSem, compilingEe>>
vars == <<lock, state, stack, result>>

Final == {"ok", "erroneous"}

EnterPC == {"enter", "cas", "setEe", "incWaiting", "loop", "checkEe", "semWait",
            "decWaiting"}
InitPC == {"begin", "superCall", "clinit", "clinitCall", "finish", "leave", "error"}
LeavePC == {"wake", "post"}
Frame == [class : Classes, pc : EnterPC \cup InitPC \cup LeavePC \cup {"fail"},
          left : Nat]
Results == {"none", "ok", "error"}

\* Every variable keeps its type.
TypeOK ==
  /\ status \in [Classes -> {"initial", "compiling"} \cup Final]
  /\ nrWaiting \in [Classes -> Int]
  /\ waitSem \in [Classes -> Nat]
  /\ compilingEe \in [Classes -> Threads \cup {NULL}]
  /\ state \in [Classes -> {"linked", "initializing", "initialized", "erroneous"}]
  /\ stack \in [Threads -> Seq(Frame)]
  /\ result \in [Threads -> Results]

Init ==
  /\ status = [c \in Classes |-> "initial"]
  /\ nrWaiting = [c \in Classes |-> 0]
  /\ waitSem = [c \in Classes |-> 0]
  /\ compilingEe = [c \in Classes |-> NULL]
  /\ state = [c \in Classes |-> "linked"]
  /\ stack = [t \in Threads |-> <<>>]
  /\ result = [t \in Threads |-> "none"]

-----------------------------------------------------------------------------
(* The call stack of a thread                                              *)

At(t, label) == stack[t] # <<>> /\ Head(stack[t]).pc = label

Class(t) == Head(stack[t]).class

Goto(t, label) ==
  /\ stack' = [stack EXCEPT ![t] = <<[Head(@) EXCEPT !.pc = label]>> \o Tail(@)]
  /\ UNCHANGED result

\* The innermost call waits at `label' for a call for class c.
Call(t, label, c) ==
  /\ stack' = [stack EXCEPT ![t] =
                 <<[class |-> c, pc |-> "enter", left |-> 0],
                   [Head(@) EXCEPT !.pc = label]>> \o Tail(@)]
  /\ UNCHANGED result

\* Where the caller goes on after a call.  An error of the superclass is an
\* error; one inside <clinit> is an exception that <clinit> may catch.
Resumes(label, value) ==
  IF value # "error" THEN {"clinit"}
  ELSE IF label = "superCall" THEN {"error"}
  ELSE {"clinit", "error"}

Return(t, value) ==
  /\ result' = [result EXCEPT ![t] = value]
  /\ IF Len(stack[t]) = 1
       THEN stack' = [stack EXCEPT ![t] = <<>>]
       ELSE \E label \in Resumes(stack[t][2].pc, value) :
              stack' = [stack EXCEPT ![t] =
                          <<[@[2] EXCEPT !.pc = label]>> \o Tail(Tail(@))]

-----------------------------------------------------------------------------
(* compile_lock_enter                                                      *)

\* What vm_class_init does with the status that compile_lock_enter returns
Entered(t) ==
  Return(t, IF status[Class(t)] = "ok" THEN "ok" ELSE "error")

\* The compiled code of a thread needs class c: vm_class_ensure_init.
Request(t, c) ==
  /\ stack[t] = <<>>
  /\ stack' = [stack EXCEPT ![t] = <<[class |-> c, pc |-> "enter", left |-> 0]>>]
  /\ UNCHANGED <<lock, state, result>>

\* The first read of the status
Enter(t) ==
  /\ At(t, "enter")
  /\ IF status[Class(t)] \in Final THEN Entered(t) ELSE Goto(t, "cas")
  /\ UNCHANGED <<lock, state>>

\* Mutant of CasStatus: a read and a write instead of the cmpxchg.
CasStatusSplit(t) ==
  /\ At(t, "cas")
  /\ IF status[Class(t)] \in {"initial", "compiling"} /\ compilingEe[Class(t)] = NULL
       THEN /\ status' = [status EXCEPT ![Class(t)] = "compiling"]
            /\ Goto(t, "setEe")
       ELSE Goto(t, "incWaiting") /\ UNCHANGED status
  /\ UNCHANGED <<nrWaiting, waitSem, compilingEe, state>>

\* atomic_cmpxchg(&cl->status, 0, STATUS_COMPILING)
CasStatus(t) ==
  /\ At(t, "cas")
  /\ IF status[Class(t)] = "initial"
       THEN /\ status' = [status EXCEPT ![Class(t)] = "compiling"]
            /\ Goto(t, "setEe")
       ELSE Goto(t, "incWaiting") /\ UNCHANGED status
  /\ UNCHANGED <<nrWaiting, waitSem, compilingEe, state>>

\* cl->compiling_ee = vm_get_exec_env(), after the status is visible
SetEe(t) ==
  /\ At(t, "setEe")
  /\ compilingEe' = [compilingEe EXCEPT ![Class(t)] = t]
  /\ Goto(t, "begin")
  /\ UNCHANGED <<status, nrWaiting, waitSem, state>>

\* atomic_inc(&cl->nr_waiting)
IncWaiting(t) ==
  /\ At(t, "incWaiting")
  /\ nrWaiting' = [nrWaiting EXCEPT ![Class(t)] = @ + 1]
  /\ Goto(t, "loop")
  /\ UNCHANGED <<status, waitSem, compilingEe, state>>

\* while (atomic_read(&cl->status) == STATUS_COMPILING)
Loop(t) ==
  /\ At(t, "loop")
  /\ Goto(t, IF status[Class(t)] = "compiling" THEN "checkEe" ELSE "decWaiting")
  /\ UNCHANGED <<lock, state>>

\* Mutant of CheckEe: only asks whether the lock is reentrant.
CheckEeAnyone(t) ==
  /\ At(t, "checkEe")
  /\ nrWaiting' = [nrWaiting EXCEPT ![Class(t)] = @ - 1]
  /\ Return(t, "ok")
  /\ UNCHANGED <<status, waitSem, compilingEe, state>>

\* cl->compiling_ee == vm_get_exec_env(): the thread is initialising the class
\* itself.  The lock answers STATUS_COMPILED_OK.
CheckEe(t) ==
  /\ At(t, "checkEe")
  /\ IF compilingEe[Class(t)] = t
       THEN /\ nrWaiting' = [nrWaiting EXCEPT ![Class(t)] = @ - 1]
            /\ Return(t, "ok")
       ELSE Goto(t, "semWait") /\ UNCHANGED nrWaiting
  /\ UNCHANGED <<status, waitSem, compilingEe, state>>

\* sem_wait(&cl->wait_sem)
SemWait(t) ==
  /\ At(t, "semWait")
  /\ waitSem[Class(t)] > 0
  /\ waitSem' = [waitSem EXCEPT ![Class(t)] = @ - 1]
  /\ Goto(t, "loop")
  /\ UNCHANGED <<status, nrWaiting, compilingEe, state>>

\* atomic_dec(&cl->nr_waiting) and the status, which is final by now
DecWaiting(t) ==
  /\ At(t, "decWaiting")
  /\ nrWaiting' = [nrWaiting EXCEPT ![Class(t)] = @ - 1]
  /\ Entered(t)
  /\ UNCHANGED <<status, waitSem, compilingEe, state>>

-----------------------------------------------------------------------------
(* vm_class_init, after STATUS_COMPILING                                   *)

\* Mutant of Begin: leaves the superclass out.
BeginAlone(t) ==
  /\ At(t, "begin")
  /\ state' = [state EXCEPT ![Class(t)] = "initializing"]
  /\ Goto(t, "clinit")
  /\ UNCHANGED lock

\* vmc->state becomes VM_CLASS_INITIALIZING; an injected fault is an error;
\* the superclass comes first.
Begin(t) ==
  /\ At(t, "begin")
  /\ state' = [state EXCEPT ![Class(t)] = "initializing"]
  /\ \/ Goto(t, "error")
     \/ Super[Class(t)] = NULL /\ Goto(t, "clinit")
     \/ Super[Class(t)] # NULL /\ Call(t, "superCall", Super[Class(t)])
  /\ UNCHANGED lock

\* <clinit> needs another class.
ClinitCall(t) ==
  /\ At(t, "clinit")
  /\ \E c \in Uses[Class(t)] : Call(t, "clinitCall", c)
  /\ UNCHANGED <<lock, state>>

\* <clinit> returns or throws.
ClinitEnd(t) ==
  /\ At(t, "clinit")
  /\ \/ Goto(t, "finish")
     \/ Goto(t, "error")
  /\ UNCHANGED <<lock, state>>

\* vmc->state = VM_CLASS_INITIALIZED
Finish(t) ==
  /\ At(t, "finish")
  /\ state' = [state EXCEPT ![Class(t)] = "initialized"]
  /\ Goto(t, "leave")
  /\ UNCHANGED lock

-----------------------------------------------------------------------------
(* compile_lock_leave                                                      *)

\* atomic_set(&cl->status, status)
Leave(t) ==
  /\ \/ /\ At(t, "leave")
        /\ status' = [status EXCEPT ![Class(t)] = "ok"]
     \/ /\ At(t, "error")
        /\ status' = [status EXCEPT ![Class(t)] = "erroneous"]
  /\ Goto(t, "wake")
  /\ UNCHANGED <<nrWaiting, waitSem, compilingEe, state>>

\* Mutant of Wake: wakes all waiters but one.
WakeAllButOne(t) ==
  /\ At(t, "wake")
  /\ stack' = [stack EXCEPT ![t] =
                 <<[Head(@) EXCEPT !.pc = "post",
                                   !.left = IF nrWaiting[Class(t)] > 0
                                              THEN nrWaiting[Class(t)] - 1
                                              ELSE 0]>>
                 \o Tail(@)]
  /\ UNCHANGED <<lock, state, result>>

\* int nr_to_wake = atomic_read(&cl->nr_waiting)
Wake(t) ==
  /\ At(t, "wake")
  /\ stack' = [stack EXCEPT ![t] =
                 <<[Head(@) EXCEPT !.pc = "post", !.left = nrWaiting[Class(t)]]>>
                 \o Tail(@)]
  /\ UNCHANGED <<lock, state, result>>

\* One sem_post of the loop
Post(t) ==
  /\ At(t, "post")
  /\ Head(stack[t]).left > 0
  /\ waitSem' = [waitSem EXCEPT ![Class(t)] = @ + 1]
  /\ stack' = [stack EXCEPT ![t] =
                 <<[Head(@) EXCEPT !.left = Head(stack[t]).left - 1]>> \o Tail(@)]
  /\ UNCHANGED <<status, nrWaiting, compilingEe, state, result>>

\* The end of the loop: vm_class_init returns 0 or goes on with the error.
Left(t) ==
  /\ At(t, "post")
  /\ Head(stack[t]).left = 0
  /\ IF status[Class(t)] = "ok" THEN Return(t, "ok") ELSE Goto(t, "fail")
  /\ UNCHANGED <<lock, state>>

\* vmc->state = VM_CLASS_ERRONEOUS, after the lock was left
Fail(t) ==
  /\ At(t, "fail")
  /\ state' = [state EXCEPT ![Class(t)] = "erroneous"]
  /\ Return(t, "error")
  /\ UNCHANGED lock

-----------------------------------------------------------------------------
Step(t) ==
  \/ Enter(t) \/ CasStatus(t) \/ SetEe(t) \/ IncWaiting(t) \/ Loop(t)
  \/ CheckEe(t) \/ SemWait(t) \/ DecWaiting(t) \/ Begin(t) \/ Finish(t)
  \/ Leave(t) \/ Wake(t) \/ Post(t) \/ Left(t) \/ Fail(t)

Next ==
  \E t \in Threads :
    \/ Step(t) \/ ClinitCall(t) \/ ClinitEnd(t)
    \/ \E c \in Classes : Request(t, c)

Spec == Init /\ [][Next]_vars

\* The scheduler runs every thread that can run, and a <clinit> that goes on
\* initialising classes comes to its end.
Fairness ==
  \A t \in Threads : WF_vars(Step(t)) /\ SF_vars(ClinitEnd(t))

FairSpec == Spec /\ Fairness

-----------------------------------------------------------------------------
(* Properties                                                              *)

\* The calls in which thread t has got past compile_lock_enter
Initialising(t) == {i \in DOMAIN stack[t] : stack[t][i].pc \notin EnterPC}

\* Thread t is initialising class c.
Initialises(t, c) ==
  \E i \in Initialising(t) : stack[t][i].class = c

\* Class c can be used by thread t: it is initialised, or t is the one that
\* initialises it.
Usable(t, c) == state[c] = "initialized" \/ Initialises(t, c)

\* vm_class_init says 0 only when the caller may use the class, although
\* compiling_ee is written after the status and vmc->state before it; and it
\* fails only for a class whose initialisation has failed.
UsableOnReturn ==
  [][\A t \in Threads :
       Len(stack'[t]) < Len(stack[t]) =>
         IF result'[t] = "error" THEN status[Class(t)] = "erroneous"
                                 ELSE Usable(t, Class(t))]_vars

\* No two calls of vm_class_init are past compile_lock_enter for the same class:
\* one thread at a time initialises it.
OneInitialiser ==
  \A t, u \in Threads : \A i \in Initialising(t), j \in Initialising(u) :
    stack[t][i].class = stack[u][j].class => t = u /\ i = j

\* JVM specification 2.17.1, quoted in vm_class_init: before <clinit> of a
\* class runs, its superclass is initialised, or is being initialised by the
\* same thread.
SuperFirst ==
  \A t \in Threads : \A i \in DOMAIN stack[t] :
    LET c == stack[t][i].class IN
      stack[t][i].pc \in {"clinit", "clinitCall", "finish"} /\ Super[c] # NULL
        => Usable(t, Super[c])

\* Every request for a class is answered.
RequestsEnd ==
  \A t \in Threads : stack[t] # <<>> ~> stack[t] = <<>>
=============================================================================
