----------------------------- MODULE Exceptions -----------------------------
(***************************************************************************)
(* Exceptions in compiled code (jit/exception.c, jit/emit.c and the code   *)
(* of arch/x86 that they rely on), for one thread: a stack of frames of    *)
(* compiled Java methods and of native code, the exception of the          *)
(* execution environment, and the monitor that all synchronized methods    *)
(* lock.  Both exception guards are armed exactly while an exception is    *)
(* set, so that an exception test throws exactly then.                     *)
(*                                                                         *)
(* The place of a Java frame is where its code continues:                  *)
(*   lock      the code after the prolog that locks the monitor            *)
(*   body      the bytecode at pc; also after the call of a Java method    *)
(*   test      the exception test after the call of a native method        *)
(*   handler   the prologue of the exception handler at pc                 *)
(*   exit, exitTest, epilog       the exit block: its unlock, the test     *)
(*                                after it, what is past the unlock        *)
(*   unwind, unwindTest, rethrow  the same of the unwind block             *)
(***************************************************************************)
EXTENDS Integers, Sequences, FiniteSets, FiniteSetsExt

CONSTANTS
  Methods,        \* compiled Java methods
  Synchronized,   \* those that are synchronized
  NativeCalls,    \* those that native code calls
  Table,          \* method -> its exception table
  Pcs,            \* bytecode offsets
  Types,          \* classes of exceptions
  Subtype,        \* pairs <<a, b>> such that a catch of b catches a
  OutOfMemory, IllegalMonitorState,   \* classes of exceptions the VM makes
  InheritedCalls, \* calls through an interface or a superclass reach native
                  \* methods, too
  MaxDepth        \* bound on the length of the stack

None == "none"   \* no exception
Any == "any"     \* catch_type 0

Entry == [start_pc : Pcs, end_pc : Nat, handler_pc : Pcs, catch_type : Types \cup {Any}]

ASSUME ExceptionsAssumption ==
  /\ Synchronized \subseteq Methods /\ NativeCalls \subseteq Methods
  /\ Pcs \subseteq Nat /\ 0 \in Pcs
  /\ Table \in [Methods -> Seq(Entry)]
  /\ {OutOfMemory, IllegalMonitorState} \subseteq Types
  /\ None \notin Types /\ Any \notin Types
  /\ Subtype \subseteq Types \X Types /\ \A t \in Types : <<t, t>> \in Subtype
  /\ InheritedCalls \in BOOLEAN
  /\ MaxDepth \in Nat

Places == {"lock", "body", "test", "handler", "exit", "exitTest", "epilog",
           "unwind", "unwindTest", "rethrow"}

JavaFrame ==
  [java : {TRUE}, method : Methods, pc : Pcs, place : Places,
   pushed : BOOLEAN,   \* the registers that the unlock code saves are on the stack
   locked : BOOLEAN]   \* the method holds its monitor (a history variable)

\* `saved' is the exception that call_method_a keeps during a call.
NativeFrame == [java : {FALSE}, saved : Types \cup {None}]

VARIABLES
  stack,       \* frames, the innermost last
  exception,   \* ee->exception
  locks,       \* how often the thread has locked the monitor
  registers,   \* whether native code finds its callee-saved registers unchanged
  goal         \* where the exception that is being thrown has to arrive
               \* (a history variable)

vars == <<stack, exception, locks, registers, goal>>

NoGoal == [depth |-> 0, pc |-> 0]

\* Every variable keeps its type, and the outermost frame is native.
TypeOK ==
  /\ stack \in Seq(JavaFrame \cup NativeFrame)
  /\ stack # <<>> /\ ~stack[1].java
  /\ exception \in Types \cup {None}
  /\ locks \in Nat
  /\ registers \in BOOLEAN
  /\ goal \in [depth : Nat, pc : Pcs]

Init ==
  /\ stack = <<[java |-> FALSE, saved |-> None]>>
  /\ exception = None /\ locks = 0 /\ registers = TRUE /\ goal = NoGoal

Depth == Len(stack)
Top == stack[Depth]
JavaAt(place) == Top.java /\ Top.place = place

\* The stack with another innermost frame, and without it
Set(s, f) == [s EXCEPT ![Len(s)] = f]
Pop(s) == SubSeq(s, 1, Len(s) - 1)

Enter(m) ==
  [java |-> TRUE, method |-> m, pc |-> 0, pushed |-> FALSE, locked |-> FALSE,
   place |-> IF m \in Synchronized THEN "lock" ELSE "body"]

-----------------------------------------------------------------------------
(* throw_from_jit                                                          *)

\* Mutant of exception_covers: the end of the range is taken for a part of it.
covers_end(eh, pc) == eh.start_pc <= pc /\ pc <= eh.end_pc

exception_covers(eh, pc) == eh.start_pc <= pc /\ pc < eh.end_pc

Catches(eh, type) == eh.catch_type = Any \/ <<type, eh.catch_type>> \in Subtype

\* find_handler: the entries that match
Matching(m, pc, type) ==
  {i \in DOMAIN Table[m] : exception_covers(Table[m][i], pc) /\ Catches(Table[m][i], type)}

\* jit_lookup_bc_offset: code without bytecode has no offset.
HasOffset(f) == f.place \in {"body", "test"}

\* Mutant of NoHandler: the test in the unlock code is run again.
NoHandlerTestsAgain(f, caller) ==
  IF f.place \in {"exitTest", "unwindTest"} THEN f.place
  ELSE IF caller.java THEN "unwind" ELSE "exit"

\* Where throw_from_jit continues when there is no handler
NoHandler(f, caller) ==
  IF caller.java THEN IF f.place = "unwindTest" THEN "rethrow" ELSE "unwind"
                 ELSE IF f.place = "exitTest" THEN "epilog" ELSE "exit"

\* The innermost frame of `s' after throw_from_jit
ThrowFromJit(s, type) ==
  LET f == s[Len(s)]
      found == IF HasOffset(f) THEN Matching(f.method, f.pc, type) ELSE {}
  IN  IF found # {}
      THEN [f EXCEPT !.place = "handler", !.pc = Table[f.method][Min(found)].handler_pc]
      ELSE [f EXCEPT !.place = NoHandler(f, s[Len(s) - 1])]

\* signal_exception and throw_from_jit in the innermost frame of `s'
Throw(s, type) ==
  /\ exception' = type
  /\ stack' = Set(s, ThrowFromJit(s, type))

\* Where the Java language wants an exception that is thrown in the innermost
\* frame of `s': in the first handler that matches of the innermost Java method
\* that has one, or in the native code that called the outermost of them.
Expected(s, type) ==
  LET native == Max({i \in 1 .. Len(s) : ~s[i].java})
      Handles(f, eh) ==
        /\ f.place \in {"body", "test"} /\ f.pc \in eh.start_pc .. eh.end_pc - 1
        /\ eh.catch_type = Any \/ <<type, eh.catch_type>> \in Subtype
      Found(i) == {e \in DOMAIN Table[s[i].method] : Handles(s[i], Table[s[i].method][e])}
      depth == Max({native} \cup {i \in native + 1 .. Len(s) : Found(i) # {}})
  IN  [depth |-> depth,
       pc |-> IF depth = native THEN 0
              ELSE Table[s[depth].method][Min(Found(depth))].handler_pc]

-----------------------------------------------------------------------------
(* Java code                                                               *)

\* A bytecode that calls nothing and throws nothing
Proceed ==
  /\ JavaAt("body")
  /\ \E pc \in Pcs : stack' = Set(stack, [Top EXCEPT !.pc = pc])
  /\ UNCHANGED <<exception, locks, registers, goal>>

\* athrow, a fault of the processor, and a trampoline whose method cannot be
\* compiled (throw_from_trampoline, then unwind)
JavaThrows(type) ==
  /\ JavaAt("body")
  /\ Throw(stack, type)
  /\ goal' = Expected(stack, type)
  /\ UNCHANGED <<locks, registers>>

CallJava(m) ==
  /\ JavaAt("body") /\ Depth < MaxDepth
  /\ stack' = Append(stack, Enter(m))
  /\ UNCHANGED <<exception, locks, registers, goal>>

\* A native method is called.  A test follows when the method that the bytecode
\* names is native, not when only the one that the object has is.
CallNative(inherited) ==
  /\ JavaAt("body") /\ Depth < MaxDepth
  /\ stack' = Append(Set(stack, [Top EXCEPT !.place = IF inherited THEN "body" ELSE "test"]),
                     [java |-> FALSE, saved |-> None])
  /\ UNCHANGED <<exception, locks, registers, goal>>

\* select_exception_test
Test ==
  /\ JavaAt("test")
  /\ IF exception # None
     THEN Throw(stack, exception) /\ goal' = Expected(stack, exception)
     ELSE /\ stack' = Set(stack, [Top EXCEPT !.place = "body"])
          /\ UNCHANGED <<exception, goal>>
  /\ UNCHANGED <<locks, registers>>

\* select_eh_prologue: clear_exception
EnterHandler ==
  /\ JavaAt("handler")
  /\ exception' = None /\ goal' = NoGoal
  /\ stack' = Set(stack, [Top EXCEPT !.place = "body"])
  /\ UNCHANGED <<locks, registers>>

JavaReturns ==
  /\ JavaAt("body")
  /\ stack' = Set(stack, [Top EXCEPT !.place = "exit"])
  /\ UNCHANGED <<exception, locks, registers, goal>>

-----------------------------------------------------------------------------
(* The code that is emitted around the bytecodes of a method               *)

\* emit_monitorenter, with the exception test after the call.  The first lock
\* of a monitor allocates a record, which may fail.
Lock(fails) ==
  /\ JavaAt("lock")
  /\ fails => locks = 0
  /\ locks' = IF fails THEN locks ELSE locks + 1
  /\ LET s == Set(stack, [Top EXCEPT !.locked = ~fails])
         pending == IF fails THEN OutOfMemory ELSE exception
     IN  IF pending # None
         THEN Throw(Set(s, [s[Depth] EXCEPT !.pushed = TRUE]), pending)
              /\ goal' = Expected(s, pending)
         ELSE /\ stack' = Set(s, [Top EXCEPT !.locked = TRUE, !.place = "body"])
              /\ UNCHANGED <<exception, goal>>
  /\ UNCHANGED registers

\* Mutant of Unlock: the method's flag is looked at in the exit block only.
UnlockInExitOnly(place, test, past) ==
  /\ JavaAt(place)
  /\ IF Top.method \in Synchronized /\ place = "exit"
     THEN /\ stack' = Set(stack, [Top EXCEPT !.place = test, !.pushed = TRUE, !.locked = FALSE])
          /\ locks' = IF locks = 0 THEN 0 ELSE locks - 1
          /\ exception' = IF locks = 0 THEN IllegalMonitorState ELSE exception
          /\ goal' = IF locks = 0 THEN Expected(stack, IllegalMonitorState) ELSE goal
     ELSE /\ stack' = Set(stack, [Top EXCEPT !.place = past])
          /\ UNCHANGED <<exception, locks, goal>>
  /\ UNCHANGED registers

\* emit_monitorexit, in the exit and in the unwind block of a method.
\* vm_object_unlock by a thread that is not the owner makes an exception.
Unlock(place, test, past) ==
  /\ JavaAt(place)
  /\ IF Top.method \in Synchronized
     THEN /\ stack' = Set(stack, [Top EXCEPT !.place = test, !.pushed = TRUE, !.locked = FALSE])
          /\ locks' = IF locks = 0 THEN 0 ELSE locks - 1
          /\ exception' = IF locks = 0 THEN IllegalMonitorState ELSE exception
          /\ goal' = IF locks = 0 THEN Expected(stack, IllegalMonitorState) ELSE goal
     ELSE /\ stack' = Set(stack, [Top EXCEPT !.place = past])
          /\ UNCHANGED <<exception, locks, goal>>
  /\ UNCHANGED registers

\* The exception test after the unlock.  When it throws, the saved registers
\* stay on the stack.
UnlockTest(test, past) ==
  /\ JavaAt(test)
  /\ IF exception # None
     THEN Throw(stack, exception)
     ELSE /\ stack' = Set(stack, [Top EXCEPT !.place = past, !.pushed = FALSE])
          /\ UNCHANGED exception
  /\ UNCHANGED <<locks, registers, goal>>

\* emit_epilog: the callee-saved registers are popped from where the stack
\* pointer is.  In native code, call_method_a puts its exception back.
Epilog ==
  /\ JavaAt("epilog")
  /\ LET caller == stack[Depth - 1]
     IN  IF caller.java
         THEN stack' = Pop(stack) /\ UNCHANGED <<exception, registers>>
         ELSE /\ stack' = Set(Pop(stack), [caller EXCEPT !.saved = None])
              /\ exception' = IF exception # None THEN exception ELSE caller.saved
              /\ registers' = ~Top.pushed
  /\ UNCHANGED <<locks, goal>>

\* emit_unwind and unwind: the exception is thrown again in the caller.
Rethrow ==
  /\ JavaAt("rethrow")
  /\ Throw(Pop(stack), exception)
  /\ UNCHANGED <<locks, registers, goal>>

-----------------------------------------------------------------------------
(* Native code                                                             *)

NativeSignals(type) ==
  /\ ~Top.java /\ exception # type
  /\ exception' = type /\ goal' = NoGoal
  /\ UNCHANGED <<stack, locks, registers>>

NativeClears ==
  /\ ~Top.java /\ exception # None
  /\ exception' = None /\ goal' = NoGoal
  /\ UNCHANGED <<stack, locks, registers>>

NativeReturns ==
  /\ ~Top.java /\ Depth > 1
  /\ stack' = Pop(stack) /\ goal' = NoGoal /\ registers' = TRUE
  /\ UNCHANGED <<exception, locks>>

\* Mutant of NativeCallsJava: the pending exception is left in place.
NativeCallsJavaPending(m) ==
  /\ ~Top.java /\ Depth < MaxDepth
  /\ stack' = Append(stack, Enter(m))
  /\ goal' = NoGoal
  /\ UNCHANGED <<exception, locks, registers>>

\* call_method_a
NativeCallsJava(m) ==
  /\ ~Top.java /\ Depth < MaxDepth
  /\ stack' = Append(Set(stack, [Top EXCEPT !.saved = exception]), Enter(m))
  /\ exception' = None /\ goal' = NoGoal
  /\ UNCHANGED <<locks, registers>>

-----------------------------------------------------------------------------
\* Steps of the VM and of the code it emits, which no program decides
Deliver ==
  \/ Test \/ EnterHandler \/ \E fails \in BOOLEAN : Lock(fails)
  \/ Unlock("exit", "exitTest", "epilog") \/ Unlock("unwind", "unwindTest", "rethrow")
  \/ UnlockTest("exitTest", "epilog") \/ UnlockTest("unwindTest", "rethrow")
  \/ Epilog \/ Rethrow

\* Steps of the program
Program ==
  \/ Proceed \/ JavaReturns
  \/ \E type \in Types \ {IllegalMonitorState} : JavaThrows(type) \/ NativeSignals(type)
  \/ \E m \in Methods : CallJava(m)
  \/ \E m \in NativeCalls : NativeCallsJava(m)
  \/ \E inherited \in {FALSE} \cup {InheritedCalls} : CallNative(inherited)
  \/ NativeClears \/ NativeReturns

Next == Deliver \/ Program

\* The code that the VM emits runs on; a program may stop.
Spec == Init /\ [][Next]_vars /\ WF_vars(Deliver)

-----------------------------------------------------------------------------
(* Properties                                                              *)

\* The thread holds the monitor as often as methods on its stack have locked
\* it: a synchronized method that is left, by a return or by an exception,
\* has unlocked it once.
LocksBalanced ==
  locks = Cardinality({i \in 1 .. Depth : stack[i].java /\ stack[i].locked})

\* throw_from_jit and unwind, frame by frame and with the unlocks in between,
\* take an exception to the handler where the Java language wants it, or to
\* the native code that called the outermost Java method without one.
ArrivesAtHandler ==
  /\ JavaAt("handler") => goal = [depth |-> Depth, pc |-> Top.pc]
  /\ ~Top.java /\ goal # NoGoal => goal.depth = Depth

\* signal_exception: "Exception will be thrown when control is returned to JIT
\* code".  No bytecode runs while an exception is set.
SignalledIsThrown == JavaAt("body") => exception = None

\* The callee-saved registers are unchanged when a Java method returns to the
\* native code that called it, by a return or by an exception.
RegistersKept == registers

\* An exception that is set while the innermost frame is Java code comes to a
\* handler or to native code; the tests in the unlock code, which it meets on
\* the way, do not hold it up for ever.
ExceptionArrives ==
  (exception # None /\ Top.java) ~> (exception = None \/ ~Top.java)
=============================================================================
