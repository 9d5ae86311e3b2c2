-------------------------- MODULE ExceptionsProofs --------------------------
(***************************************************************************)
(* TLAPS proofs about exceptions of compiled code, for all methods,        *)
(* exception tables and classes of exceptions and for stacks of any depth: *)
(* no bytecode runs while an exception is set, the monitor is locked as    *)
(* often as methods on the stack have locked it, and an exception arrives  *)
(* where the Java language wants it.                                       *)
(*                                                                         *)
(* The theorems are about programs that do not call native methods through *)
(* an interface or a superclass (InheritedCalls is FALSE): no exception    *)
(* test follows such a call, and TLC shows that the first two fail.        *)
(***************************************************************************)
EXTENDS Exceptions, FiniteSetTheorems, SequenceTheorems, WellFoundedInduction, TLAPS

AnyFrame == JavaFrame \cup NativeFrame
UnwindPlaces == {"unwind", "unwindTest", "rethrow"}
ExitPlaces == {"exit", "exitTest", "epilog"}
BytecodePlaces == {"body", "test", "handler"}

Caller == stack[Depth - 1]

\* Where an outer Java frame continues after the call it waits for
BelowInv ==
  \A i \in 1 .. Depth - 1 :
    stack[i].java => stack[i].place = IF stack[i + 1].java THEN "body" ELSE "test"

\* Where the code of a method may be with an exception set: the test after a
\* native call, the way to a handler, and the way out, to native code.
PendingInv ==
  Top.java =>
    /\ Top.place \in {"lock", "body"} => exception = None
    /\ Top.place \in {"handler"} \cup UnwindPlaces => exception # None
    /\ Top.place \in UnwindPlaces => Caller.java
    /\ Top.place \in ExitPlaces /\ Caller.java => exception = None

\* A synchronized method holds the monitor in its bytecode and until the unlock
\* that ends it, unless there was no memory to lock it in the first place.
FrameLocks(f) ==
  /\ f.locked => f.method \in Synchronized /\ f.place \in BytecodePlaces \cup {"exit", "unwind"}
  /\ f.method \in Synchronized /\ f.place \in BytecodePlaces => f.locked
  /\ f.place = "lock" => f.method \in Synchronized

FramesLock == \A i \in 1 .. Depth : stack[i].java => FrameLocks(stack[i])

LockedTop ==
  Top.java /\ Top.method \in Synchronized /\ Top.place \in {"exit", "unwind"} /\ ~Top.locked
    => locks = 0 /\ (Top.place = "exit" => ~Caller.java)

\* Where the exception has to arrive
GoalInv ==
  /\ Top.java /\ (exception = None \/ Top.place = "test") => goal = NoGoal
  /\ Top.java /\ Top.place = "handler" => goal = [depth |-> Depth, pc |-> Top.pc]
  /\ Top.java /\ Top.place \in UnwindPlaces \cup ExitPlaces /\ exception # None =>
       goal = Expected(stack, exception)
  /\ ~Top.java /\ goal # NoGoal => goal.depth = Depth

ExcInv ==
  /\ TypeOK /\ BelowInv /\ FramesLock /\ LocksBalanced
  /\ PendingInv /\ LockedTop /\ GoalInv

-----------------------------------------------------------------------------
(* Minima and maxima                                                       *)

LEMMA LeastExists ==
  ASSUME NEW T, T \subseteq Nat, T # {}
  PROVE  \E x \in T : \A y \in T : x <= y
  <1>1. PICK x \in T : \A y \in T : ~ (<<y, x>> \in OpToRel(<, Nat))
    BY NatLessThanWellFounded, WFMin
  <1>2. ASSUME NEW y \in T PROVE x <= y
    <2>1. x \in Nat /\ y \in Nat
      OBVIOUS
    <2>2. y < x => <<y, x>> \in OpToRel(<, Nat)
      BY <2>1 DEF OpToRel
    <2>3. ~ (y < x)
      BY <1>1, <2>2, Zenon
    <2>. QED
      BY <2>1, <2>3
  <1>. QED
    BY <1>2

LEMMA MinExists ==
  ASSUME NEW T, T \subseteq Nat, T # {}
  PROVE  Min(T) \in T
  BY LeastExists DEF Min

LEMMA MaxIs ==
  ASSUME NEW T, T \subseteq Int, NEW m \in T, \A y \in T : y <= m
  PROVE  Max(T) = m
  <1>1. Max(T) \in T /\ \A y \in T : Max(T) >= y
    BY DEF Max
  <1>2. Max(T) >= m /\ Max(T) <= m /\ Max(T) \in Int
    BY <1>1
  <1>. QED
    BY <1>2

LEMMA MaxExists ==
  ASSUME NEW n \in Nat, NEW T, T \subseteq 0 .. n, T # {}
  PROVE  Max(T) \in T /\ \A y \in T : y <= Max(T)
  <1>. DEFINE U == {n - y : y \in T}
  <1>1. U \subseteq Nat /\ U # {}
    <2>1. \A y \in T : n - y \in Nat
      OBVIOUS
    <2>. QED
      BY <2>1
  <1>2. PICK u \in U : \A v \in U : u <= v
    BY <1>1, LeastExists
  <1>3. PICK m \in T : u = n - m
    OBVIOUS
  <1>4. ASSUME NEW y \in T PROVE y <= m
    <2>1. n - m <= n - y /\ m \in 0 .. n /\ y \in 0 .. n
      BY <1>2, <1>3
    <2>. HIDE DEF U
    <2>. QED
      BY <2>1
  <1>5. T \subseteq Int
    OBVIOUS
  <1>6. Max(T) = m
    BY <1>4, <1>5, MaxIs
  <1>. QED
    BY <1>4, <1>6

-----------------------------------------------------------------------------
(* Stacks                                                                  *)

LEMMA Kinds ==
  ASSUME NEW f \in AnyFrame
  PROVE  /\ f.java \in BOOLEAN
         /\ f.java <=> f \in JavaFrame
         /\ ~ f.java <=> f \in NativeFrame
  BY DEF AnyFrame, JavaFrame, NativeFrame

LEMMA SetTop ==
  ASSUME NEW s \in Seq(AnyFrame), NEW n \in Nat, n = Len(s), n >= 1, NEW g \in AnyFrame
  PROVE  /\ Set(s, g) \in Seq(AnyFrame) /\ Len(Set(s, g)) = n /\ Set(s, g)[n] = g
         /\ \A i \in 1 .. n - 1 : Set(s, g)[i] = s[i]
  BY DEF Set

LEMMA PopTop ==
  ASSUME NEW s \in Seq(AnyFrame), NEW n \in Nat, n = Len(s), n >= 2
  PROVE  /\ Pop(s) \in Seq(AnyFrame) /\ Len(Pop(s)) = n - 1
         /\ \A i \in 1 .. n - 1 : Pop(s)[i] = s[i]
  BY SubSeqProperties DEF Pop

-----------------------------------------------------------------------------
(* Where the Java language wants an exception                              *)

Natives(s) == {i \in 1 .. Len(s) : ~s[i].java}

Handles(f, eh, type) ==
  /\ f.place \in {"body", "test"} /\ f.pc \in eh.start_pc .. eh.end_pc - 1
  /\ eh.catch_type = Any \/ <<type, eh.catch_type>> \in Subtype

HandlersIn(f, type) ==
  {e \in DOMAIN Table[f.method] : Handles(f, Table[f.method][e], type)}

Takers(s, native, type) == {i \in native + 1 .. Len(s) : HandlersIn(s[i], type) # {}}

LEMMA ExpectedIs ==
  ASSUME NEW s, NEW type, NEW native, native = Max(Natives(s)),
         NEW depth, depth = Max({native} \cup Takers(s, native, type))
  PROVE  /\ Expected(s, type).depth = depth
         /\ Expected(s, type) =
              [depth |-> depth,
               pc |-> IF depth = native THEN 0
                      ELSE Table[s[depth].method][Min(HandlersIn(s[depth], type))].handler_pc]
  BY DEF Expected, Natives, Takers, HandlersIn, Handles

\* Some frame is native, the outermost above all.
LEMMA NativeBelow ==
  ASSUME NEW s \in Seq(AnyFrame), NEW n \in Nat, n = Len(s), n >= 1, ~s[1].java
  PROVE  /\ Max(Natives(s)) \in Natives(s) /\ Max(Natives(s)) \in 1 .. n
         /\ \A i \in Natives(s) : i <= Max(Natives(s))
  <1>1. Natives(s) \subseteq 1 .. n /\ 1 \in Natives(s)
    BY DEF Natives
  <1>2. Natives(s) \subseteq 0 .. n /\ Natives(s) # {}
    BY <1>1
  <1>. QED
    BY <1>1, <1>2, MaxExists

LEMMA TakerExists ==
  ASSUME NEW s, NEW n \in Nat, n = Len(s), NEW native \in 1 .. n, NEW type
  PROVE  /\ Max({native} \cup Takers(s, native, type)) \in {native} \cup Takers(s, native, type)
         /\ Max({native} \cup Takers(s, native, type)) \in 1 .. n
  <1>. DEFINE T == {native} \cup Takers(s, native, type)
  <1>1. T \subseteq 1 .. n /\ T # {} /\ T \subseteq 0 .. n
    BY DEF Takers
  <1>2. Max(T) \in T
    BY <1>1, MaxExists
  <1>. QED
    BY <1>1, <1>2

\* The frames of s above k are frames of Java methods that handle nothing.
NoneAbove(s, k, type) ==
  \A i \in k + 1 .. Len(s) : s[i].java /\ HandlersIn(s[i], type) = {}

SameBelow(s, r, k) == \A i \in 1 .. k : r[i] = s[i]

\* Such frames make no difference.
LEMMA ExpectedSame ==
  ASSUME NEW s \in Seq(AnyFrame), NEW r \in Seq(AnyFrame), NEW n \in Nat, n = Len(s),
         NEW m \in Nat, m = Len(r), NEW k \in 1 .. n, k <= m, ~s[1].java, NEW type,
         SameBelow(s, r, k), NoneAbove(s, k, type), NoneAbove(r, k, type)
  PROVE  Expected(r, type) = Expected(s, type)
  <1>a. /\ \A i \in 1 .. k : r[i] = s[i]
        /\ \A i \in k + 1 .. n : s[i].java /\ HandlersIn(s[i], type) = {}
        /\ \A i \in k + 1 .. m : r[i].java /\ HandlersIn(r[i], type) = {}
    BY Zenon DEF SameBelow, NoneAbove
  <1>1. Natives(s) = {i \in 1 .. k : ~s[i].java} /\ Natives(r) = Natives(s)
    <2>1. Natives(s) = {i \in 1 .. k : ~s[i].java}
      BY <1>a DEF Natives
    <2>2. Natives(r) = {i \in 1 .. k : ~r[i].java}
      BY <1>a DEF Natives
    <2>. QED
      BY <1>a, <2>1, <2>2
  <1>2. PICK native : native = Max(Natives(s))
    OBVIOUS
  <1>3. native \in 1 .. k
    <2>1. n >= 1
      OBVIOUS
    <2>2. native \in Natives(s)
      BY <1>2, <2>1, NativeBelow
    <2>. QED
      BY <1>1, <2>2
  <1>4. Takers(s, native, type) = {i \in native + 1 .. k : HandlersIn(s[i], type) # {}}
    <2>1. \A i \in native + 1 .. n : i \in native + 1 .. k \/ i \in k + 1 .. n
      BY <1>3
    <2>2. native + 1 .. k \subseteq native + 1 .. n
      BY <1>3
    <2>. QED
      BY <1>a, <2>1, <2>2, Zenon DEF Takers
  <1>5. Takers(r, native, type) = {i \in native + 1 .. k : HandlersIn(r[i], type) # {}}
    <2>1. \A i \in native + 1 .. m : i \in native + 1 .. k \/ i \in k + 1 .. m
      BY <1>3
    <2>2. native + 1 .. k \subseteq native + 1 .. m
      BY <1>3
    <2>. QED
      BY <1>a, <2>1, <2>2, Zenon DEF Takers
  <1>6. Takers(r, native, type) = Takers(s, native, type)
    BY <1>3, <1>4, <1>5, <1>a
  <1>7. PICK depth : depth = Max({native} \cup Takers(s, native, type))
    OBVIOUS
  <1>8. depth \in 1 .. k
    <2>1. depth \in {native} \cup Takers(s, native, type)
      BY <1>3, <1>7, TakerExists
    <2>. QED
      BY <1>3, <1>4, <2>1
  <1>9. s[depth] = r[depth]
    BY <1>8, <1>a
  <1>10. Expected(s, type) =
           [depth |-> depth,
            pc |-> IF depth = native THEN 0
                   ELSE Table[s[depth].method][Min(HandlersIn(s[depth], type))].handler_pc]
    BY <1>2, <1>7, ExpectedIs
  <1>11. Expected(r, type) =
           [depth |-> depth,
            pc |-> IF depth = native THEN 0
                   ELSE Table[r[depth].method][Min(HandlersIn(r[depth], type))].handler_pc]
    <2>1. native = Max(Natives(r)) /\ depth = Max({native} \cup Takers(r, native, type))
      BY <1>1, <1>2, <1>6, <1>7
    <2>. QED
      BY <2>1, ExpectedIs
  <1>. QED
    BY <1>9, <1>10, <1>11

LEMMA HandlersTyped ==
  ASSUME ExceptionsAssumption, NEW f \in JavaFrame, NEW type, HandlersIn(f, type) # {}
  PROVE  /\ Min(HandlersIn(f, type)) \in HandlersIn(f, type)
         /\ Table[f.method][Min(HandlersIn(f, type))].handler_pc \in Pcs
         /\ f.place \in {"body", "test"}
  <1>1. f.method \in Methods /\ Table[f.method] \in Seq(Entry)
    BY DEF JavaFrame, ExceptionsAssumption
  <1>2. PICK tab \in Seq(Entry) : tab = Table[f.method]
    BY <1>1
  <1>3. HandlersIn(f, type) \subseteq 1 .. Len(tab) /\ Len(tab) \in Nat
    BY <1>2, LenProperties DEF HandlersIn
  <1>4. HandlersIn(f, type) \subseteq Nat
    BY <1>3
  <1>5. Min(HandlersIn(f, type)) \in HandlersIn(f, type)
    BY <1>4, MinExists
  <1>6. PICK m \in 1 .. Len(tab) : m = Min(HandlersIn(f, type))
    BY <1>3, <1>5
  <1>7. tab[m] \in Entry
    BY <1>3, <1>6, ElementOfSeq
  <1>8. f.place \in {"body", "test"}
    BY <1>5 DEF HandlersIn, Handles
  <1>. QED
    BY <1>2, <1>5, <1>6, <1>7, <1>8 DEF Entry

\* find_handler and the Java language agree on the handlers of one method.
LEMMA MatchingIs ==
  ASSUME ExceptionsAssumption, NEW f \in JavaFrame, NEW type, HasOffset(f)
  PROVE  Matching(f.method, f.pc, type) = HandlersIn(f, type)
  <1>1. f.method \in Methods /\ f.pc \in Nat
    BY DEF JavaFrame, ExceptionsAssumption
  <1>2. PICK tab \in Seq(Entry) : tab = Table[f.method]
    BY <1>1 DEF ExceptionsAssumption
  <1>3. ASSUME NEW e \in DOMAIN tab
        PROVE  exception_covers(tab[e], f.pc) /\ Catches(tab[e], type) <=> Handles(f, tab[e], type)
    <2>1. tab[e] \in Entry
      BY LenProperties, ElementOfSeq
    <2>2. tab[e].start_pc \in Nat /\ tab[e].end_pc \in Nat
      BY <2>1 DEF Entry, ExceptionsAssumption
    <2>3. exception_covers(tab[e], f.pc) <=> f.pc \in tab[e].start_pc .. tab[e].end_pc - 1
      BY <1>1, <2>2 DEF exception_covers
    <2>. QED
      BY <2>3, Zenon DEF Catches, Handles, HasOffset
  <1>. QED
    BY <1>2, <1>3 DEF Matching, HandlersIn

LEMMA NoHandlers ==
  ASSUME NEW f, f.place \notin {"body", "test"}, NEW type
  PROVE  HandlersIn(f, type) = {}
  BY DEF HandlersIn, Handles

\* The innermost frame handles the exception.
LEMMA ExpectedHere ==
  ASSUME ExceptionsAssumption, NEW s \in Seq(AnyFrame), NEW n \in Nat, n = Len(s), n >= 1,
         ~s[1].java, s[n].java, NEW type, HandlersIn(s[n], type) # {}
  PROVE  Expected(s, type) =
           [depth |-> n, pc |-> Table[s[n].method][Min(HandlersIn(s[n], type))].handler_pc]
  <1>1. PICK native \in 1 .. n : native = Max(Natives(s)) /\ native \in Natives(s)
    BY NativeBelow
  <1>2. native # n /\ n \in native + 1 .. n
    <2>1. native # n
      BY <1>1 DEF Natives
    <2>. QED
      BY <1>1, <2>1
  <1>. DEFINE T == {native} \cup Takers(s, native, type)
  <1>3. n \in T /\ T \subseteq 1 .. n
    BY <1>1, <1>2 DEF Takers
  <1>4. Max(T) = n
    <2>. HIDE DEF T
    <2>1. T \subseteq Int /\ \A y \in T : y <= n
      BY <1>3
    <2>. QED
      BY <1>3, <2>1, MaxIs
  <1>. QED
    BY <1>1, <1>2, <1>4, ExpectedIs

\* It does not, and its caller is native code.
LEMMA ExpectedBelow ==
  ASSUME NEW s \in Seq(AnyFrame), NEW n \in Nat, n = Len(s), n >= 2,
         ~s[1].java, s[n].java, ~s[n - 1].java, NEW type, HandlersIn(s[n], type) = {}
  PROVE  Expected(s, type).depth = n - 1
  <1>0. PICK m \in Nat : m = n - 1 /\ m + 1 .. n = {n}
    <2>1. n - 1 \in Nat /\ n - 1 + 1 .. n = {n}
      OBVIOUS
    <2>. QED
      BY <2>1, Zenon
  <1>1. m \in Natives(s) /\ n \notin Natives(s) /\ Natives(s) \subseteq 1 .. n
    BY <1>0 DEF Natives
  <1>2. Natives(s) \subseteq Int /\ \A y \in Natives(s) : y <= m
    BY <1>0, <1>1
  <1>3. Max(Natives(s)) = m
    BY <1>1, <1>2, MaxIs
  <1>4. Takers(s, m, type) = {}
    BY <1>0 DEF Takers
  <1>5. PICK T : T = {m} \cup Takers(s, m, type)
    OBVIOUS
  <1>6. T \subseteq Int /\ m \in T /\ \A y \in T : y <= m
    BY <1>4, <1>5
  <1>7. Max(T) = m
    BY <1>6, MaxIs
  <1>. QED
    BY <1>0, <1>3, <1>5, <1>7, ExpectedIs

LEMMA ExpectedTyped ==
  ASSUME ExceptionsAssumption, NEW s \in Seq(AnyFrame), NEW n \in Nat, n = Len(s), n >= 1,
         ~s[1].java, NEW type
  PROVE  Expected(s, type) \in [depth : Nat, pc : Pcs]
  <1>1. PICK native \in 1 .. n :
          native = Max(Natives(s)) /\ \A i \in Natives(s) : i <= native
    BY NativeBelow
  <1>2. PICK depth \in 1 .. n : /\ depth = Max({native} \cup Takers(s, native, type))
                                /\ depth \in {native} \cup Takers(s, native, type)
    BY TakerExists
  <1>a. Expected(s, type) =
          [depth |-> depth,
           pc |-> IF depth = native THEN 0
                  ELSE Table[s[depth].method][Min(HandlersIn(s[depth], type))].handler_pc]
    <2>1. native = Max(Natives(s)) /\ depth = Max({native} \cup Takers(s, native, type))
      BY <1>1, <1>2, Zenon
    <2>. QED
      BY ONLY <2>1, ExpectedIs
  <1>3. CASE depth = native
    <2>1. Expected(s, type) = [depth |-> depth, pc |-> 0]
      BY <1>3, <1>a
    <2>. QED
      BY <2>1 DEF ExceptionsAssumption
  <1>4. CASE depth # native
    <2>1. HandlersIn(s[depth], type) # {} /\ native < depth
      <3>1. depth \in Takers(s, native, type)
        BY <1>2, <1>4, Zenon
      <3>2. HandlersIn(s[depth], type) # {} /\ depth \in native + 1 .. n
        BY <3>1, Zenon DEF Takers
      <3>. QED
        BY <3>2
    <2>2. s[depth] \in AnyFrame
      BY ElementOfSeq
    <2>3. s[depth].java
      <3>1. ~ (depth <= native)
        BY <2>1
      <3>. QED
        BY <1>1, <3>1 DEF Natives
    <2>4. Table[s[depth].method][Min(HandlersIn(s[depth], type))].handler_pc \in Pcs
      BY <2>1, <2>2, <2>3, Kinds, HandlersTyped
    <2>5. Expected(s, type) =
            [depth |-> depth,
             pc |-> Table[s[depth].method][Min(HandlersIn(s[depth], type))].handler_pc]
      BY <1>4, <1>a
    <2>. QED
      BY <2>4, <2>5
  <1>. QED
    BY <1>3, <1>4

-----------------------------------------------------------------------------
(* throw_from_jit                                                          *)

\* The innermost frame f, called by `caller', after an exception of the given
\* type was thrown in it
Thrown(f, caller, g) ==
  /\ g.method = f.method /\ g.locked = f.locked
  /\ \/ g.place = "handler" /\ f.place \in {"body", "test"}
     \/ caller.java /\ g.place = (IF f.place = "unwindTest" THEN "rethrow" ELSE "unwind")
     \/ ~caller.java /\ g.place = (IF f.place = "exitTest" THEN "epilog" ELSE "exit")

\* The frame g that throw_from_jit makes of f, the innermost frame of s
ThrowsTo(s, n, f, c, type, g) ==
  /\ g = ThrowFromJit(s, type) /\ Thrown(f, c, g)
  /\ g.place = "handler" => Expected(s, type) = [depth |-> n, pc |-> g.pc]
  /\ g.place # "handler" => HandlersIn(f, type) = {}

LEMMA ThrowIs ==
  ASSUME ExceptionsAssumption, NEW s \in Seq(AnyFrame), NEW n \in Nat, n = Len(s), n >= 2,
         ~s[1].java, NEW f \in JavaFrame, f = s[n], NEW c, c = s[n - 1], NEW type
  PROVE  \E g \in JavaFrame : ThrowsTo(s, n, f, c, type, g)
  <1>1. f.java
    BY DEF JavaFrame
  <1>2. (IF HasOffset(f) THEN Matching(f.method, f.pc, type) ELSE {}) = HandlersIn(f, type)
    <2>1. CASE HasOffset(f)
      BY <2>1, MatchingIs
    <2>2. CASE ~HasOffset(f)
      BY <2>2, NoHandlers DEF HasOffset
    <2>. QED
      BY <2>1, <2>2
  <1>3. CASE HandlersIn(f, type) # {}
    <2>1. PICK pc \in Pcs : pc = Table[f.method][Min(HandlersIn(f, type))].handler_pc
      BY <1>3, HandlersTyped
    <2>2. f.place \in {"body", "test"}
      BY <1>3, HandlersTyped
    <2>3. PICK g \in JavaFrame : g = [f EXCEPT !.place = "handler", !.pc = pc]
      BY DEF JavaFrame, Places
    <2>4. g.place = "handler" /\ g.pc = pc /\ g.method = f.method /\ g.locked = f.locked
      BY <2>3 DEF JavaFrame
    <2>5. g = ThrowFromJit(s, type)
      <3>1. ThrowFromJit(s, type) =
              [f EXCEPT !.place = "handler",
                        !.pc = Table[f.method][Min(HandlersIn(f, type))].handler_pc]
        BY <1>2, <1>3 DEF ThrowFromJit
      <3>. QED
        BY <2>1, <2>3, <3>1
    <2>6. Expected(s, type) = [depth |-> n, pc |-> pc]
      <3>1. n >= 1
        OBVIOUS
      <3>. QED
        BY <1>1, <1>3, <2>1, <3>1, ExpectedHere
    <2>. QED
      BY <2>2, <2>4, <2>5, <2>6 DEF Thrown, ThrowsTo
  <1>4. CASE HandlersIn(f, type) = {}
    <2>1. NoHandler(f, c) \in Places \ {"handler"}
      BY DEF NoHandler, Places
    <2>2. PICK g \in JavaFrame : g = [f EXCEPT !.place = NoHandler(f, c)]
      BY <2>1 DEF JavaFrame
    <2>3. /\ g.place = NoHandler(f, c) /\ g.method = f.method /\ g.locked = f.locked
      BY <2>2 DEF JavaFrame
    <2>4. g = ThrowFromJit(s, type)
      BY <1>2, <1>4, <2>2 DEF ThrowFromJit
    <2>5. Thrown(f, c, g)
      BY <2>3 DEF Thrown, NoHandler
    <2>. QED
      BY <1>4, <2>1, <2>3, <2>4, <2>5 DEF ThrowsTo
  <1>. QED
    BY <1>3, <1>4

-----------------------------------------------------------------------------
(* What the steps do to the stack                                          *)

TopIs(n, f) ==
  /\ n \in Nat /\ n >= 1 /\ n = Len(stack) /\ n = Depth
  /\ f \in AnyFrame /\ f = stack[n] /\ f = Top
  /\ f.java => f \in JavaFrame /\ n >= 2
  /\ ~f.java => f \in NativeFrame

\* The stack ends in g at place j; it has grown by h, called by g.
Ends(j, g) ==
  Len(stack') = j /\ stack'[j] = g /\ \A i \in 1 .. j - 1 : stack'[i] = stack[i]
Grows(n, g, h) ==
  /\ Len(stack') = n + 1 /\ stack'[n] = g /\ stack'[n + 1] = h
  /\ \A i \in 1 .. n - 1 : stack'[i] = stack[i]

LEMMA StackTyped ==
  ASSUME TypeOK
  PROVE  stack \in Seq(AnyFrame) /\ stack # <<>> /\ ~stack[1].java /\ Len(stack) \in Nat
  BY LenProperties DEF TypeOK, AnyFrame

LEMMA TopFrame ==
  ASSUME TypeOK
  PROVE  \E n, f : TopIs(n, f)
  <1>1. PICK n \in Nat : n = Len(stack)
    BY StackTyped
  <1>2. n >= 1
    BY <1>1, StackTyped, EmptySeq
  <1>3. stack[n] \in AnyFrame
    BY <1>1, <1>2, StackTyped, ElementOfSeq
  <1>4. stack[n].java => n # 1
    BY StackTyped
  <1>5. n >= 2 \/ n = 1
    BY <1>2
  <1>. QED
    BY <1>1, <1>2, <1>3, <1>4, <1>5, Kinds DEF TopIs, Top, Depth

LEMMA BelowEnds ==
  ASSUME TypeOK, BelowInv, NEW n \in Nat, n = Len(stack), NEW j \in 1 .. n, NEW g \in AnyFrame,
         stack' \in Seq(AnyFrame), Ends(j, g), g.java <=> stack[j].java
  PROVE  /\ BelowInv'
         /\ stack' \in Seq(JavaFrame \cup NativeFrame) /\ stack' # <<>> /\ ~stack'[1].java
  <1>1. ASSUME NEW i \in 1 .. j - 1
        PROVE  stack'[i].java =>
                 stack'[i].place = IF stack'[i + 1].java THEN "body" ELSE "test"
    <2>1. i \in 1 .. n - 1 /\ i + 1 \in 1 .. j
      OBVIOUS
    <2>2. stack'[i] = stack[i]
      BY DEF Ends
    <2>3. stack'[i + 1].java <=> stack[i + 1].java
      <3>1. CASE i + 1 = j
        BY <3>1 DEF Ends
      <3>2. CASE i + 1 # j
        <4>1. i + 1 \in 1 .. j - 1
          BY <2>1, <3>2
        <4>. QED
          BY <4>1 DEF Ends
      <3>. QED
        BY <3>1, <3>2
    <2>4. stack[i].java => stack[i].place = IF stack[i + 1].java THEN "body" ELSE "test"
      BY <2>1 DEF BelowInv, Depth
    <2>. QED
      BY <2>2, <2>3, <2>4, Zenon
  <1>2. Len(stack') = j
    BY DEF Ends
  <1>3. BelowInv'
    BY <1>1, <1>2 DEF BelowInv, Depth
  <1>4. ~stack'[1].java
    <2>1. CASE j = 1
      BY <2>1, StackTyped DEF Ends
    <2>2. CASE j # 1
      <3>1. 1 \in 1 .. j - 1
        BY <2>2
      <3>. QED
        BY <3>1, StackTyped DEF Ends
    <2>. QED
      BY <2>1, <2>2
  <1>5. stack' # <<>>
    BY <1>2, EmptySeq
  <1>. QED
    BY <1>3, <1>4, <1>5 DEF AnyFrame

LEMMA BelowGrows ==
  ASSUME TypeOK, BelowInv, NEW n \in Nat, n >= 1, n = Len(stack), NEW g \in AnyFrame,
         NEW h \in AnyFrame, stack' \in Seq(AnyFrame), Grows(n, g, h), g.java <=> stack[n].java,
         g.java => g.place = IF h.java THEN "body" ELSE "test"
  PROVE  /\ BelowInv'
         /\ stack' \in Seq(JavaFrame \cup NativeFrame) /\ stack' # <<>> /\ ~stack'[1].java
  <1>1. ASSUME NEW i \in 1 .. n
        PROVE  stack'[i].java =>
                 stack'[i].place = IF stack'[i + 1].java THEN "body" ELSE "test"
    <2>1. CASE i = n
      BY <2>1 DEF Grows
    <2>2. CASE i # n
      <3>1. i \in 1 .. n - 1 /\ i + 1 \in 1 .. n
        BY <2>2
      <3>2. stack'[i] = stack[i]
        BY <3>1 DEF Grows
      <3>3. stack'[i + 1].java <=> stack[i + 1].java
        <4>1. CASE i + 1 = n
          BY <4>1 DEF Grows
        <4>2. CASE i + 1 # n
          <5>1. i + 1 \in 1 .. n - 1
            BY <3>1, <4>2
          <5>. QED
            BY <5>1 DEF Grows
        <4>. QED
          BY <4>1, <4>2
      <3>4. stack[i].java => stack[i].place = IF stack[i + 1].java THEN "body" ELSE "test"
        BY <3>1 DEF BelowInv, Depth
      <3>. QED
        BY <3>2, <3>3, <3>4, Zenon
    <2>. QED
      BY <2>1, <2>2
  <1>2. Len(stack') = n + 1 /\ 1 .. n + 1 - 1 = 1 .. n
    BY DEF Grows
  <1>3. BelowInv'
    BY <1>1, <1>2 DEF BelowInv, Depth
  <1>4. ~stack'[1].java
    <2>1. CASE n = 1
      BY <2>1, StackTyped DEF Grows
    <2>2. CASE n # 1
      <3>1. 1 \in 1 .. n - 1
        BY <2>2
      <3>. QED
        BY <3>1, StackTyped DEF Grows
    <2>. QED
      BY <2>1, <2>2
  <1>5. stack' # <<>>
    BY <1>2, EmptySeq
  <1>. QED
    BY <1>3, <1>4, <1>5 DEF AnyFrame

-----------------------------------------------------------------------------
(* The frames that hold the monitor                                        *)

Holds(f) == f.java /\ f.locked
LockedSet(s) == {i \in 1 .. Len(s) : Holds(s[i])}

LEMMA LockedFinite ==
  ASSUME NEW s, Len(s) \in Nat
  PROVE  IsFiniteSet(LockedSet(s)) /\ Cardinality(LockedSet(s)) \in Nat
  <1>1. LockedSet(s) \subseteq 1 .. Len(s) /\ IsFiniteSet(1 .. Len(s))
    BY FS_Interval DEF LockedSet
  <1>2. IsFiniteSet(LockedSet(s))
    BY <1>1, FS_Subset
  <1>. QED
    BY <1>2, FS_CardinalityType

LEMMA BalancedIs == LocksBalanced <=> locks = Cardinality(LockedSet(stack))
  BY DEF LocksBalanced, LockedSet, Holds, Depth

LEMMA BalancedNext == LocksBalanced' <=> locks' = Cardinality(LockedSet(stack'))
  BY DEF LocksBalanced, LockedSet, Holds, Depth

LEMMA LocksEnd ==
  ASSUME TypeOK, FramesLock, LocksBalanced, NEW n \in Nat, n = Len(stack), NEW j \in 1 .. n,
         NEW g, Ends(j, g), g.java => FrameLocks(g), Holds(g) <=> Holds(stack[j]),
         \A i \in j + 1 .. n : ~Holds(stack[i]), UNCHANGED locks
  PROVE  FramesLock' /\ LocksBalanced'
  <1>1. ASSUME NEW i \in 1 .. j
        PROVE  /\ stack'[i].java => FrameLocks(stack'[i])
               /\ Holds(stack'[i]) <=> Holds(stack[i])
    <2>1. CASE i = j
      BY <2>1 DEF Ends
    <2>2. CASE i # j
      <3>1. i \in 1 .. j - 1 /\ i \in 1 .. n
        BY <2>2
      <3>. QED
        BY <3>1 DEF Ends, FramesLock, Depth
    <2>. QED
      BY <2>1, <2>2
  <1>2. Len(stack') = j
    BY DEF Ends
  <1>3. FramesLock'
    BY <1>1, <1>2 DEF FramesLock, Depth
  <1>4. LockedSet(stack') = LockedSet(stack)
    <2>1. \A i \in 1 .. n : i \in 1 .. j \/ i \in j + 1 .. n
      OBVIOUS
    <2>2. 1 .. j \subseteq 1 .. n
      OBVIOUS
    <2>. QED
      BY <1>1, <1>2, <2>1, <2>2, Zenon DEF LockedSet
  <1>. QED
    BY <1>3, <1>4, BalancedIs, BalancedNext

LEMMA LocksGrow ==
  ASSUME TypeOK, FramesLock, LocksBalanced, NEW n \in Nat, n >= 1, n = Len(stack),
         NEW g, NEW h, Grows(n, g, h), g.java => FrameLocks(g), h.java => FrameLocks(h),
         Holds(g) <=> Holds(stack[n]), ~Holds(h), UNCHANGED locks
  PROVE  FramesLock' /\ LocksBalanced'
  <1>1. ASSUME NEW i \in 1 .. n
        PROVE  /\ stack'[i].java => FrameLocks(stack'[i])
               /\ Holds(stack'[i]) <=> Holds(stack[i])
    <2>1. CASE i = n
      BY <2>1 DEF Grows
    <2>2. CASE i # n
      <3>1. i \in 1 .. n - 1
        BY <2>2
      <3>. QED
        BY <3>1 DEF Grows, FramesLock, Depth
    <2>. QED
      BY <2>1, <2>2
  <1>2. Len(stack') = n + 1 /\ stack'[n + 1] = h
    BY DEF Grows
  <1>3. \A i \in 1 .. n + 1 : i \in 1 .. n \/ i = n + 1
    OBVIOUS
  <1>4. FramesLock'
    BY <1>1, <1>2, <1>3 DEF FramesLock, Depth
  <1>5. LockedSet(stack') = LockedSet(stack)
    <2>1. 1 .. n \subseteq 1 .. n + 1
      OBVIOUS
    <2>. QED
      BY <1>1, <1>2, <1>3, <2>1, Zenon DEF LockedSet
  <1>. QED
    BY <1>4, <1>5, BalancedIs, BalancedNext

\* The innermost frame locks or unlocks the monitor.
LEMMA LocksChange ==
  ASSUME TypeOK, FramesLock, LocksBalanced, NEW n \in Nat, n >= 1, n = Len(stack),
         NEW g, Ends(n, g), g.java => FrameLocks(g),
         \/ ~Holds(stack[n]) /\ Holds(g) /\ locks' = locks + 1
         \/ Holds(stack[n]) /\ ~Holds(g) /\ locks' = locks - 1
  PROVE  FramesLock' /\ LocksBalanced'
  <1>1. ASSUME NEW i \in 1 .. n, i # n
        PROVE  stack'[i] = stack[i] /\ (stack[i].java => FrameLocks(stack[i]))
    <2>1. i \in 1 .. n - 1
      BY <1>1
    <2>. QED
      BY <2>1 DEF Ends, FramesLock, Depth
  <1>2. Len(stack') = n /\ stack'[n] = g /\ n \in 1 .. n
    BY DEF Ends
  <1>3. FramesLock'
    BY <1>1, <1>2 DEF FramesLock, Depth
  <1>4. IsFiniteSet(LockedSet(stack)) /\ Cardinality(LockedSet(stack)) \in Nat
    BY LockedFinite
  <1>5. locks = Cardinality(LockedSet(stack))
    BY BalancedIs
  <1>6. CASE ~Holds(stack[n]) /\ Holds(g) /\ locks' = locks + 1
    <2>0. \A i \in 1 .. n : Holds(stack'[i]) <=> Holds(stack[i]) \/ i = n
      BY <1>1, <1>2, <1>6, Zenon
    <2>1. n \notin LockedSet(stack) /\ LockedSet(stack') = LockedSet(stack) \cup {n}
      BY <1>2, <1>6, <2>0 DEF LockedSet
    <2>2. Cardinality(LockedSet(stack) \cup {n}) = Cardinality(LockedSet(stack)) + 1
      BY <1>4, <2>1, FS_AddElement
    <2>. QED
      BY <1>3, <1>5, <1>6, <2>1, <2>2, BalancedNext
  <1>7. CASE Holds(stack[n]) /\ ~Holds(g) /\ locks' = locks - 1
    <2>0. \A i \in 1 .. n : Holds(stack'[i]) <=> Holds(stack[i]) /\ i # n
      BY <1>1, <1>2, <1>7, Zenon
    <2>1. n \in LockedSet(stack) /\ LockedSet(stack') = LockedSet(stack) \ {n}
      BY <1>2, <1>7, <2>0 DEF LockedSet
    <2>2. Cardinality(LockedSet(stack) \ {n}) = Cardinality(LockedSet(stack)) - 1
      BY <1>4, <2>1, FS_RemoveElement
    <2>. QED
      BY <1>3, <1>5, <1>7, <2>1, <2>2, BalancedNext
  <1>. QED
    BY <1>6, <1>7

\* A frame that holds the monitor is counted.
LEMMA HolderCounted ==
  ASSUME LocksBalanced, NEW n \in Nat, n >= 1, n = Len(stack), Holds(stack[n])
  PROVE  locks # 0
  <1>1. n \in LockedSet(stack)
    BY DEF LockedSet
  <1>2. IsFiniteSet(LockedSet(stack))
    BY LockedFinite
  <1>. QED
    BY <1>1, <1>2, FS_EmptySet, BalancedIs

-----------------------------------------------------------------------------
(* The innermost frame after a step                                        *)

StackOK == stack \in Seq(JavaFrame \cup NativeFrame) /\ stack # <<>> /\ ~stack[1].java

\* The innermost frame is g, called by c, at depth n.
Now(n, g, c) == Depth' = n /\ Top' = g /\ Caller' = c

\* A stack of n frames
IsStack(s, n) == s \in Seq(AnyFrame) /\ n \in Nat /\ n = Len(s) /\ n >= 1 /\ ~s[1].java

\* s, of n frames, with the innermost frame g
TopSet(s, n, g) ==
  /\ Set(s, g) \in Seq(AnyFrame) /\ Len(Set(s, g)) = n /\ Set(s, g)[n] = g
  /\ \A i \in 1 .. n - 1 : Set(s, g)[i] = s[i]

LEMMA SetStack ==
  ASSUME NEW s, NEW n, IsStack(s, n), NEW g \in AnyFrame
  PROVE  TopSet(s, n, g)
  BY DEF Set, IsStack, TopSet

LEMMA TopStack ==
  ASSUME TypeOK, NEW n, NEW f, TopIs(n, f)
  PROVE  IsStack(stack, n)
  BY StackTyped DEF TopIs, IsStack

LEMMA OneLess ==
  ASSUME NEW n \in Nat, n >= 2
  PROVE  n >= 1 /\ n - 1 \in Nat /\ n - 1 >= 1 /\ n - 1 \in 1 .. n - 1 /\ n - 1 \in 1 .. n
  OBVIOUS

LEMMA SetEnds ==
  ASSUME TypeOK, BelowInv, NEW n, NEW f, TopIs(n, f), NEW g \in AnyFrame,
         g.java <=> f.java, stack' = Set(stack, g)
  PROVE  Ends(n, g) /\ BelowInv' /\ StackOK' /\ (f.java => Now(n, g, stack[n - 1]))
  <1>1. n \in Nat /\ n >= 1 /\ n = Len(stack) /\ n \in 1 .. n /\ f = stack[n]
    BY DEF TopIs
  <1>2. stack' \in Seq(AnyFrame) /\ Ends(n, g)
    <2>1. TopSet(stack, n, g)
      BY TopStack, SetStack
    <2>. QED
      BY <2>1, Zenon DEF Ends, TopSet
  <1>3. BelowInv' /\ StackOK'
    BY <1>1, <1>2, BelowEnds DEF StackOK
  <1>4. f.java => n - 1 \in 1 .. n - 1
    BY DEF TopIs
  <1>. QED
    BY <1>2, <1>3, <1>4 DEF Ends, Now, Depth, Top, Caller

LEMMA AppendGrows ==
  ASSUME TypeOK, BelowInv, NEW n, NEW f, TopIs(n, f), NEW g \in AnyFrame, NEW h \in AnyFrame,
         g.java <=> f.java, g.java => g.place = IF h.java THEN "body" ELSE "test",
         stack' = Append(Set(stack, g), h)
  PROVE  Grows(n, g, h) /\ BelowInv' /\ StackOK' /\ Now(n + 1, h, g)
  <1>1. n \in Nat /\ n >= 1 /\ n = Len(stack) /\ f = stack[n]
    BY DEF TopIs
  <1>2. PICK s \in Seq(AnyFrame) : s = Set(stack, g) /\ Len(s) = n /\ s[n] = g
                                   /\ \A i \in 1 .. n - 1 : s[i] = stack[i]
    <2>1. TopSet(stack, n, g)
      BY TopStack, SetStack
    <2>. QED
      BY <2>1, Zenon DEF TopSet
  <1>3. /\ stack' \in Seq(AnyFrame) /\ Len(stack') = n + 1 /\ stack'[n + 1] = h
        /\ \A i \in 1 .. n : stack'[i] = s[i]
    BY <1>2, AppendProperties
  <1>4. Grows(n, g, h)
    BY <1>1, <1>2, <1>3 DEF Grows
  <1>5. BelowInv' /\ StackOK'
    BY <1>1, <1>3, <1>4, BelowGrows DEF StackOK
  <1>6. n + 1 - 1 = n
    BY <1>1
  <1>7. Depth' = n + 1 /\ Top' = h
    BY <1>4 DEF Grows, Depth, Top
  <1>8. Caller' = g
    <2>1. Caller' = stack'[n + 1 - 1]
      <3>1. Len(stack') = n + 1 /\ n \in Nat
        BY <1>1, <1>4 DEF Grows
      <3>. QED
        BY ONLY <3>1 DEF Caller, Depth
    <2>2. stack'[n] = g
      BY <1>4 DEF Grows
    <2>. QED
      BY ONLY <1>6, <2>1, <2>2
  <1>. QED
    BY <1>4, <1>5, <1>7, <1>8, Zenon DEF Now

LEMMA SetSame ==
  ASSUME TypeOK, NEW n, NEW f, TopIs(n, f)
  PROVE  Set(stack, f) = stack
  <1>1. n \in Nat /\ n >= 1 /\ n = Len(stack) /\ f = stack[n]
    BY DEF TopIs
  <1>. QED
    BY <1>1, StackTyped DEF Set

\* The callers of a frame that was left
LEMMA PopEnds ==
  ASSUME TypeOK, BelowInv, NEW n, NEW f, TopIs(n, f), n >= 2, NEW c, c = stack[n - 1],
         NEW g \in AnyFrame, g.java <=> c.java,
         stack' = Set(Pop(stack), g) \/ (g = c /\ stack' = Pop(stack))
  PROVE  /\ Ends(n - 1, g) /\ BelowInv' /\ StackOK' /\ Depth' = n - 1 /\ Top' = g
         /\ Caller' = stack[n - 1 - 1] \/ ~g.java
  <1>1. n \in Nat /\ n >= 1 /\ n = Len(stack) /\ n - 1 \in Nat /\ n - 1 \in 1 .. n
        /\ n - 1 >= 1 /\ n - 1 \in 1 .. n - 1
    BY DEF TopIs
  <1>2. PICK m \in Nat : m = n - 1 /\ m >= 1 /\ m \in 1 .. n /\ m \in 1 .. m
    BY <1>1
  <1>3. PICK s \in Seq(AnyFrame) : /\ s = Pop(stack) /\ Len(s) = m
                                   /\ \A i \in 1 .. m : s[i] = stack[i]
    BY <1>1, <1>2, StackTyped, PopTop
  <1>4. stack' \in Seq(AnyFrame) /\ Len(stack') = m /\ stack'[m] = g
        /\ \A i \in 1 .. m - 1 : stack'[i] = stack[i]
    <2>1. CASE stack' = Set(Pop(stack), g)
      <3>1. \A i \in 1 .. m - 1 : i \in 1 .. m
        OBVIOUS
      <3>2. /\ Set(s, g) \in Seq(AnyFrame) /\ Len(Set(s, g)) = m /\ Set(s, g)[m] = g
            /\ \A i \in 1 .. m - 1 : Set(s, g)[i] = s[i]
        BY <1>2, <1>3, SetTop
      <3>. QED
        BY <1>3, <2>1, <3>1, <3>2
    <2>2. CASE g = c /\ stack' = Pop(stack)
      BY <1>2, <1>3, <2>2
    <2>. QED
      BY <2>1, <2>2
  <1>5. Ends(m, g)
    BY <1>4 DEF Ends
  <1>6. BelowInv' /\ StackOK'
    BY <1>1, <1>2, <1>4, <1>5, BelowEnds DEF StackOK
  <1>7. g.java => m - 1 \in 1 .. m - 1
    <2>1. g.java => m # 1
      BY <1>2, StackTyped
    <2>a. m \in Nat /\ m >= 1
      BY <1>2
    <2>2. m # 1 => m - 1 \in 1 .. m - 1
      BY ONLY <2>a
    <2>. QED
      BY <2>1, <2>2, Zenon
  <1>8. Depth' = m /\ Top' = g
    BY <1>4 DEF Depth, Top
  <1>9. g.java => Caller' = stack[m - 1]
    BY <1>4, <1>7, <1>8 DEF Caller
  <1>. QED
    BY <1>2, <1>5, <1>6, <1>8, <1>9

\* Another innermost frame makes no difference where neither handles anything.
LEMMA ExpectedTop ==
  ASSUME NEW s, NEW n, IsStack(s, n), n >= 2, s[n].java,
         NEW g \in JavaFrame, NEW type, HandlersIn(s[n], type) = {}, HandlersIn(g, type) = {}
  PROVE  Expected(Set(s, g), type) = Expected(s, type)
  <1>. USE DEF IsStack
  <1>1. n >= 1 /\ n - 1 \in 1 .. n /\ n - 1 <= n /\ g \in AnyFrame
    BY DEF AnyFrame
  <1>2. PICK r \in Seq(AnyFrame) : /\ r = Set(s, g) /\ Len(r) = n /\ r[n] = g
                                   /\ \A i \in 1 .. n - 1 : r[i] = s[i]
    <2>1. TopSet(s, n, g)
      BY <1>1, SetStack
    <2>. QED
      BY <2>1, Zenon DEF TopSet
  <1>3. PICK k \in 1 .. n : k = n - 1 /\ k <= n /\ \A i \in k + 1 .. n : i = n
    BY <1>1
  <1>4. g.java
    BY DEF JavaFrame
  <1>5. NoneAbove(s, k, type)
    BY <1>3, Zenon DEF NoneAbove
  <1>6. NoneAbove(r, k, type)
    BY <1>2, <1>3, <1>4, Zenon DEF NoneAbove
  <1>7. SameBelow(s, r, k)
    BY <1>2, <1>3, Zenon DEF SameBelow
  <1>8. Expected(r, type) = Expected(s, type)
    <2>1. /\ s \in Seq(AnyFrame) /\ r \in Seq(AnyFrame) /\ n \in Nat /\ n = Len(s) /\ n = Len(r)
          /\ k \in 1 .. n /\ k <= n /\ ~s[1].java
      BY <1>2, <1>3
    <2>. QED
      BY ONLY <1>5, <1>6, <1>7, <2>1, ExpectedSame
  <1>. QED
    BY <1>2, <1>8

\* What throw_from_jit does in the innermost frame of s, to take an exception
\* where the Java language wants it
LEMMA ThrowLocal ==
  ASSUME ExceptionsAssumption, NEW s \in Seq(AnyFrame), NEW n \in Nat, n = Len(s), n >= 2,
         ~s[1].java, NEW f \in JavaFrame, f = s[n],
         NEW c, c = s[n - 1], NEW type \in Types, Throw(s, type),
         goal' = Expected(s, type)
  PROVE  /\ \E g \in JavaFrame : stack' = Set(s, g) /\ Thrown(f, c, g)
         /\ PendingInv' /\ GoalInv' /\ exception' \in Types /\ goal' \in [depth : Nat, pc : Pcs]
  <1>0. f.java /\ n >= 1 /\ n - 1 \in 1 .. n - 1
    <2>1. f.java
      BY DEF JavaFrame
    <2>2. n >= 1 /\ n - 1 \in 1 .. n - 1
      OBVIOUS
    <2>. QED
      BY <2>1, <2>2
  <1>b. PICK g \in JavaFrame : ThrowsTo(s, n, f, c, type, g)
    <2>1. /\ ExceptionsAssumption /\ s \in Seq(AnyFrame) /\ n \in Nat /\ n = Len(s) /\ n >= 2
          /\ ~s[1].java /\ f \in JavaFrame /\ f = s[n] /\ c = s[n - 1]
      OBVIOUS
    <2>. QED
      BY ONLY <2>1, ThrowIs
  <1>1. /\ g = ThrowFromJit(s, type) /\ Thrown(f, c, g)
        /\ g.place = "handler" => Expected(s, type) = [depth |-> n, pc |-> g.pc]
        /\ g.place # "handler" => HandlersIn(f, type) = {}
    BY <1>b, Zenon DEF ThrowsTo
  <1>2. exception' = type /\ type # None /\ stack' = Set(s, g)
    BY <1>1 DEF Throw, ExceptionsAssumption
  <1>3. c \in AnyFrame
    <2>1. n - 1 \in 1 .. n
      OBVIOUS
    <2>. QED
      BY <2>1, ElementOfSeq
  <1>4. c.java \in BOOLEAN
    BY <1>3, Kinds
  <1>5. Depth' = n /\ Top' = g /\ Caller' = c /\ g.java
    <2>1. g \in AnyFrame /\ g.java
      BY DEF AnyFrame, JavaFrame
    <2>2. TopSet(s, n, g)
      BY <1>0, <2>1, SetStack DEF IsStack
    <2>. QED
      BY <1>0, <1>2, <1>3, <2>1, <2>2 DEF Depth, Top, Caller, TopSet
  <1>6. \/ g.place = "handler"
        \/ c.java /\ g.place \in {"unwind", "rethrow"}
        \/ ~c.java /\ g.place \in {"exit", "epilog"}
    BY <1>1, <1>3, <1>4 DEF Thrown
  <1>7. PendingInv'
    BY <1>2, <1>5, <1>6 DEF PendingInv, UnwindPlaces, ExitPlaces
  <1>8. g.place # "handler" => Expected(stack', type) = Expected(s, type)
    <2>1. SUFFICES ASSUME g.place # "handler" PROVE Expected(Set(s, g), type) = Expected(s, type)
      BY <1>2
    <2>2. HandlersIn(g, type) = {}
      BY <1>6, <2>1, NoHandlers
    <2>. QED
      BY <1>0, <1>1, <2>1, <2>2, ExpectedTop DEF IsStack
  <1>9. GoalInv'
    BY <1>1, <1>2, <1>5, <1>6, <1>8 DEF GoalInv, UnwindPlaces, ExitPlaces
  <1>10. goal' \in [depth : Nat, pc : Pcs]
    BY <1>0, ExpectedTyped
  <1>. QED
    BY <1>1, <1>2, <1>7, <1>9, <1>10

-----------------------------------------------------------------------------
(* The steps of Java code                                                  *)

\* The frame of a Java method that is innermost, and its caller
JavaTop(n, f, c) ==
  /\ n \in Nat /\ n >= 2 /\ n >= 1 /\ n = Len(stack) /\ n = Depth
  /\ f \in JavaFrame /\ f \in AnyFrame /\ f.java /\ f = stack[n] /\ f = Top
  /\ c \in AnyFrame /\ c = stack[n - 1] /\ c = Caller /\ c.java \in BOOLEAN
  /\ FrameLocks(f)
  /\ f.place \in {"lock", "body"} => exception = None
  /\ f.place \in {"handler"} \cup UnwindPlaces => exception # None
  /\ f.place \in UnwindPlaces => c.java
  /\ f.place \in ExitPlaces /\ c.java => exception = None
  /\ f.method \in Synchronized /\ f.place \in {"exit", "unwind"} /\ ~f.locked
       => locks = 0 /\ (f.place = "exit" => ~c.java)
  /\ exception = None \/ f.place = "test" => goal = NoGoal
  /\ f.place \in UnwindPlaces \cup ExitPlaces /\ exception # None =>
       goal = Expected(stack, exception)

LEMMA JavaIs ==
  ASSUME ExcInv, Top.java
  PROVE  \E n, f, c : TopIs(n, f) /\ JavaTop(n, f, c)
  <1>1. TypeOK /\ PendingInv /\ LockedTop /\ GoalInv /\ FramesLock
    BY DEF ExcInv
  <1>2. PICK n, f : TopIs(n, f)
    BY <1>1, TopFrame
  <1>3. /\ n \in Nat /\ n >= 2 /\ n >= 1 /\ n = Len(stack) /\ n = Depth
        /\ f \in JavaFrame /\ f \in AnyFrame /\ f.java /\ f = stack[n] /\ f = Top
    BY <1>2, Zenon DEF TopIs
  <1>4. n - 1 \in 1 .. n /\ n \in 1 .. n
    BY ONLY <1>3
  <1>5. PICK c : c = stack[n - 1] /\ c \in AnyFrame
    BY <1>1, <1>3, <1>4, StackTyped, ElementOfSeq
  <1>6. c.java \in BOOLEAN
    BY <1>5, Kinds
  <1>7. c = Caller
    BY ONLY <1>3, <1>5, Zenon DEF Caller
  <1>8. FrameLocks(f)
    BY ONLY <1>1, <1>3, <1>4, Zenon DEF FramesLock
  <1>9. /\ f.place \in {"lock", "body"} => exception = None
        /\ f.place \in {"handler"} \cup UnwindPlaces => exception # None
        /\ f.place \in UnwindPlaces => c.java
        /\ f.place \in ExitPlaces /\ c.java => exception = None
    BY ONLY <1>1, <1>3, <1>7, Zenon DEF PendingInv
  <1>10. f.method \in Synchronized /\ f.place \in {"exit", "unwind"} /\ ~f.locked
           => locks = 0 /\ (f.place = "exit" => ~c.java)
    BY ONLY <1>1, <1>3, <1>7, Zenon DEF LockedTop
  <1>11. /\ exception = None \/ f.place = "test" => goal = NoGoal
         /\ f.place \in UnwindPlaces \cup ExitPlaces /\ exception # None =>
              goal = Expected(stack, exception)
    BY ONLY <1>1, <1>3, <1>7, Zenon DEF GoalInv
  <1>. QED
    BY <1>2, <1>3, <1>5, <1>6, <1>7, <1>8, <1>9, <1>10, <1>11, Zenon DEF JavaTop

\* The types of the variables that are not about the stack
Settled ==
  exception' \in Types \cup {None} /\ goal' \in [depth : Nat, pc : Pcs] /\ registers' \in BOOLEAN

LEMMA NoGoalTyped ==
  ASSUME ExceptionsAssumption
  PROVE  NoGoal \in [depth : Nat, pc : Pcs]
  BY DEF NoGoal, ExceptionsAssumption

\* The parts of the invariant make it up.
LEMMA Assembled ==
  ASSUME Settled, StackOK', BelowInv', FramesLock', LocksBalanced', PendingInv', LockedTop',
         GoalInv'
  PROVE  ExcInv'
  <1>1. Len(stack') \in Nat
    BY LenProperties DEF StackOK
  <1>2. locks' \in Nat
    BY <1>1, LockedFinite, BalancedNext
  <1>3. TypeOK'
    BY <1>2, Zenon DEF TypeOK, Settled, StackOK
  <1>. QED
    BY <1>3, Zenon DEF ExcInv

\* A step of the innermost frame, which stays innermost and does not lock or
\* unlock the monitor
LEMMA Stays ==
  ASSUME ExcInv, NEW n, NEW f, NEW c, TopIs(n, f), JavaTop(n, f, c), NEW g \in JavaFrame,
         stack' = Set(stack, g), FrameLocks(g), g.locked = f.locked, UNCHANGED locks
  PROVE  /\ StackOK' /\ BelowInv' /\ FramesLock' /\ LocksBalanced'
         /\ Now(n, g, c) /\ g.java
  <1>1. TypeOK /\ BelowInv /\ FramesLock /\ LocksBalanced
    BY DEF ExcInv
  <1>2. g \in AnyFrame /\ g.java
    BY DEF AnyFrame, JavaFrame
  <1>3. f.java /\ n \in Nat /\ n = Len(stack) /\ f = stack[n] /\ n >= 1 /\ c = stack[n - 1]
    BY DEF JavaTop
  <1>4. Ends(n, g) /\ BelowInv' /\ StackOK' /\ Now(n, g, c)
    BY <1>1, <1>2, <1>3, SetEnds
  <1>5. FramesLock' /\ LocksBalanced'
    <2>1. n \in 1 .. n /\ \A i \in n + 1 .. n : ~Holds(stack[i])
      BY <1>3
    <2>2. Holds(g) <=> Holds(stack[n])
      BY <1>2, <1>3 DEF Holds
    <2>. QED
      BY <1>1, <1>3, <1>4, <2>1, <2>2, LocksEnd
  <1>. QED
    BY <1>2, <1>4, <1>5

\* A step that leaves the innermost frame in its bytecode, or on its way out,
\* without an exception
LEMMA Quiet ==
  ASSUME ExceptionsAssumption, ExcInv, NEW n, NEW f, NEW c, TopIs(n, f), JavaTop(n, f, c),
         NEW g \in JavaFrame, stack' = Set(stack, g), FrameLocks(g), g.locked = f.locked,
         g.place \in {"body", "exit", "epilog"},
         g.method \in Synchronized /\ g.place = "exit" => g.locked,
         exception' = None, goal' = NoGoal, UNCHANGED <<locks, registers>>
  PROVE  ExcInv'
  <1>1. /\ StackOK' /\ BelowInv' /\ FramesLock' /\ LocksBalanced' /\ Now(n, g, c) /\ g.java
    BY Stays
  <1>2. Depth' = n /\ Top' = g /\ Caller' = c
    BY <1>1 DEF Now
  <1>3. PendingInv'
    BY <1>2 DEF PendingInv, UnwindPlaces, ExitPlaces
  <1>4. LockedTop'
    BY <1>2 DEF LockedTop
  <1>5. GoalInv'
    BY <1>1, <1>2 DEF GoalInv, UnwindPlaces, ExitPlaces
  <1>6. Settled
    BY NoGoalTyped DEF Settled, ExcInv, TypeOK
  <1>. QED
    BY <1>1, <1>3, <1>4, <1>5, <1>6, Assembled

\* An exception is thrown in the innermost frame.
LEMMA ThrowsHere ==
  ASSUME ExceptionsAssumption, ExcInv, NEW n, NEW f, NEW c, TopIs(n, f), JavaTop(n, f, c),
         NEW type \in Types, Throw(stack, type), goal' = Expected(stack, type),
         \/ f.place \in {"body", "test"}
         \/ f.place = "exitTest" /\ ~c.java
         \/ f.place = "unwindTest" /\ c.java,
         UNCHANGED <<locks, registers>>
  PROVE  ExcInv'
  <1>1. /\ n \in Nat /\ n >= 2 /\ n = Len(stack) /\ f \in JavaFrame /\ f = stack[n]
        /\ c = stack[n - 1] /\ FrameLocks(f) /\ f.java
    BY DEF JavaTop
  <1>2. stack \in Seq(AnyFrame) /\ ~stack[1].java
    BY StackTyped DEF ExcInv
  <1>3. /\ \E g \in JavaFrame : stack' = Set(stack, g) /\ Thrown(f, c, g)
        /\ PendingInv' /\ GoalInv' /\ exception' \in Types /\ goal' \in [depth : Nat, pc : Pcs]
    BY <1>1, <1>2, ThrowLocal
  <1>4. PICK g \in JavaFrame : stack' = Set(stack, g) /\ Thrown(f, c, g)
    BY <1>3
  <1>5. FrameLocks(g) /\ g.locked = f.locked /\ g.method = f.method
    BY <1>1, <1>4 DEF FrameLocks, Thrown, BytecodePlaces
  <1>6. /\ StackOK' /\ BelowInv' /\ FramesLock' /\ LocksBalanced' /\ Now(n, g, c)
    BY <1>4, <1>5, Stays
  <1>7. LockedTop'
    <2>1. Top' = g /\ Caller' = c
      BY <1>6 DEF Now
    <2>2. g.method \in Synchronized /\ g.place \in {"exit", "unwind"} => g.locked
      BY <1>1, <1>4, <1>5 DEF FrameLocks, Thrown, BytecodePlaces
    <2>. QED
      BY <2>1, <2>2, Zenon DEF LockedTop
  <1>8. Settled
    BY <1>3 DEF Settled, ExcInv, TypeOK
  <1>. QED
    BY <1>3, <1>6, <1>7, <1>8, Assembled

LEMMA ProceedStep ==
  ASSUME ExceptionsAssumption, ExcInv, Proceed
  PROVE  ExcInv'
  <1>1. Top.java /\ Top.place = "body"
    BY DEF Proceed, JavaAt
  <1>2. PICK n, f, c : TopIs(n, f) /\ JavaTop(n, f, c)
    BY <1>1, JavaIs
  <1>3. /\ f \in JavaFrame /\ f = Top /\ FrameLocks(f) /\ f.place = "body"
        /\ exception = None /\ goal = NoGoal
    BY <1>1, <1>2 DEF JavaTop
  <1>4. PICK pc \in Pcs : stack' = Set(stack, [f EXCEPT !.pc = pc])
    BY <1>3 DEF Proceed
  <1>5. PICK g : g = [f EXCEPT !.pc = pc]
    OBVIOUS
  <1>6. g \in JavaFrame /\ g.place = "body" /\ g.locked = f.locked /\ g.method = f.method
    BY <1>3, <1>5 DEF JavaFrame
  <1>7. FrameLocks(g)
    BY <1>3, <1>6 DEF FrameLocks
  <1>8. exception' = None /\ goal' = NoGoal /\ UNCHANGED <<locks, registers>>
    BY <1>3 DEF Proceed
  <1>. QED
    BY <1>2, <1>4, <1>5, <1>6, <1>7, <1>8, Quiet

LEMMA JavaThrowsStep ==
  ASSUME ExceptionsAssumption, ExcInv, NEW type \in Types, JavaThrows(type)
  PROVE  ExcInv'
  <1>1. Top.java /\ Top.place = "body"
    BY DEF JavaThrows, JavaAt
  <1>2. PICK n, f, c : TopIs(n, f) /\ JavaTop(n, f, c)
    BY <1>1, JavaIs
  <1>3. f.place = "body"
    BY <1>1, <1>2 DEF JavaTop
  <1>4. Throw(stack, type) /\ goal' = Expected(stack, type) /\ UNCHANGED <<locks, registers>>
    BY DEF JavaThrows
  <1>. QED
    BY <1>2, <1>3, <1>4, ThrowsHere

LEMMA TestStep ==
  ASSUME ExceptionsAssumption, ExcInv, Test
  PROVE  ExcInv'
  <1>1. Top.java /\ Top.place = "test"
    BY DEF Test, JavaAt
  <1>2. PICK n, f, c : TopIs(n, f) /\ JavaTop(n, f, c)
    BY <1>1, JavaIs
  <1>3. f \in JavaFrame /\ f = Top /\ FrameLocks(f) /\ f.place = "test" /\ goal = NoGoal
    BY <1>1, <1>2 DEF JavaTop
  <1>4. UNCHANGED <<locks, registers>>
    BY DEF Test
  <1>5. CASE exception # None
    <2>1. exception \in Types
      BY <1>5 DEF ExcInv, TypeOK
    <2>2. Throw(stack, exception) /\ goal' = Expected(stack, exception)
      BY <1>5 DEF Test
    <2>. QED
      BY <1>2, <1>3, <1>4, <2>1, <2>2, ThrowsHere
  <1>6. CASE exception = None
    <2>1. stack' = Set(stack, [f EXCEPT !.place = "body"]) /\ exception' = None /\ goal' = NoGoal
      BY <1>3, <1>6 DEF Test
    <2>2. PICK g : g = [f EXCEPT !.place = "body"]
      OBVIOUS
    <2>3. g \in JavaFrame /\ g.place = "body" /\ g.locked = f.locked /\ g.method = f.method
      BY <1>3, <2>2 DEF JavaFrame, Places
    <2>4. FrameLocks(g)
      BY <1>3, <2>3 DEF FrameLocks, BytecodePlaces
    <2>. QED
      BY <1>2, <1>4, <2>1, <2>2, <2>3, <2>4, Quiet
  <1>. QED
    BY <1>5, <1>6

LEMMA EnterHandlerStep ==
  ASSUME ExceptionsAssumption, ExcInv, EnterHandler
  PROVE  ExcInv'
  <1>1. Top.java /\ Top.place = "handler"
    BY DEF EnterHandler, JavaAt
  <1>2. PICK n, f, c : TopIs(n, f) /\ JavaTop(n, f, c)
    BY <1>1, JavaIs
  <1>3. f \in JavaFrame /\ f = Top /\ FrameLocks(f) /\ f.place = "handler"
    BY <1>1, <1>2 DEF JavaTop
  <1>4. /\ stack' = Set(stack, [f EXCEPT !.place = "body"]) /\ exception' = None
        /\ goal' = NoGoal /\ UNCHANGED <<locks, registers>>
    BY <1>3 DEF EnterHandler
  <1>5. PICK g : g = [f EXCEPT !.place = "body"]
    OBVIOUS
  <1>6. g \in JavaFrame /\ g.place = "body" /\ g.locked = f.locked /\ g.method = f.method
    BY <1>3, <1>5 DEF JavaFrame, Places
  <1>7. FrameLocks(g)
    BY <1>3, <1>6 DEF FrameLocks, BytecodePlaces
  <1>. QED
    BY <1>2, <1>4, <1>5, <1>6, <1>7, Quiet

LEMMA JavaReturnsStep ==
  ASSUME ExceptionsAssumption, ExcInv, JavaReturns
  PROVE  ExcInv'
  <1>1. Top.java /\ Top.place = "body"
    BY DEF JavaReturns, JavaAt
  <1>2. PICK n, f, c : TopIs(n, f) /\ JavaTop(n, f, c)
    BY <1>1, JavaIs
  <1>3. /\ f \in JavaFrame /\ f = Top /\ FrameLocks(f) /\ f.place = "body"
        /\ exception = None /\ goal = NoGoal
    BY <1>1, <1>2 DEF JavaTop
  <1>4. /\ stack' = Set(stack, [f EXCEPT !.place = "exit"]) /\ exception' = None
        /\ goal' = NoGoal /\ UNCHANGED <<locks, registers>>
    BY <1>3 DEF JavaReturns
  <1>5. PICK g : g = [f EXCEPT !.place = "exit"]
    OBVIOUS
  <1>6. g \in JavaFrame /\ g.place = "exit" /\ g.locked = f.locked /\ g.method = f.method
    BY <1>3, <1>5 DEF JavaFrame, Places
  <1>7. FrameLocks(g) /\ (g.method \in Synchronized => g.locked)
    BY <1>3, <1>6 DEF FrameLocks, BytecodePlaces
  <1>. QED
    BY <1>2, <1>4, <1>5, <1>6, <1>7, Quiet

-----------------------------------------------------------------------------
(* Calls                                                                   *)

LEMMA EnterIs ==
  ASSUME ExceptionsAssumption, NEW m \in Methods
  PROVE  /\ Enter(m) \in JavaFrame /\ Enter(m) \in AnyFrame /\ Enter(m).java
         /\ FrameLocks(Enter(m)) /\ ~Holds(Enter(m)) /\ Enter(m).place \in {"lock", "body"}
         /\ Enter(m).place = "body" => m \notin Synchronized
  <1>1. 0 \in Pcs
    BY DEF ExceptionsAssumption
  <1>2. /\ Enter(m).method = m /\ ~Enter(m).locked /\ Enter(m).java
        /\ Enter(m).place = IF m \in Synchronized THEN "lock" ELSE "body"
    BY DEF Enter
  <1>3. Enter(m) \in JavaFrame
    BY <1>1 DEF Enter, JavaFrame, Places
  <1>4. FrameLocks(Enter(m))
    BY <1>2 DEF FrameLocks, BytecodePlaces
  <1>. QED
    BY <1>2, <1>3, <1>4 DEF AnyFrame, Holds

LEMMA NativeEntered ==
  ASSUME ExceptionsAssumption, NEW h, h = [java |-> FALSE, saved |-> None]
  PROVE  h \in NativeFrame /\ h \in AnyFrame /\ ~h.java /\ ~Holds(h)
  BY DEF NativeFrame, AnyFrame, Holds

\* The innermost frame calls a method, without an exception.
LEMMA Calls ==
  ASSUME ExceptionsAssumption, ExcInv, NEW n, NEW f, TopIs(n, f), NEW g \in AnyFrame,
         NEW h \in AnyFrame, stack' = Append(Set(stack, g), h),
         g.java <=> f.java, g.java => g.place = IF h.java THEN "body" ELSE "test",
         g.java => FrameLocks(g), h.java => FrameLocks(h) /\ h.place \in {"lock", "body"},
         Holds(g) <=> Holds(f), ~Holds(h),
         exception' = None, goal' = NoGoal, UNCHANGED <<locks, registers>>
  PROVE  ExcInv'
  <1>1. TypeOK /\ BelowInv /\ FramesLock /\ LocksBalanced
    BY DEF ExcInv
  <1>2. Grows(n, g, h) /\ BelowInv' /\ StackOK' /\ Now(n + 1, h, g)
    BY <1>1, AppendGrows
  <1>3. n \in Nat /\ n >= 1 /\ n = Len(stack) /\ f = stack[n]
    BY DEF TopIs
  <1>4. FramesLock' /\ LocksBalanced'
    BY <1>1, <1>2, <1>3, LocksGrow
  <1>5. Top' = h
    BY <1>2 DEF Now
  <1>6. PendingInv'
    BY <1>5 DEF PendingInv, UnwindPlaces, ExitPlaces
  <1>7. LockedTop'
    BY <1>5 DEF LockedTop
  <1>8. GoalInv'
    BY <1>5 DEF GoalInv, UnwindPlaces, ExitPlaces
  <1>9. Settled
    BY NoGoalTyped DEF Settled, ExcInv, TypeOK
  <1>. QED
    BY <1>2, <1>4, <1>6, <1>7, <1>8, <1>9, Assembled

LEMMA CallJavaStep ==
  ASSUME ExceptionsAssumption, ExcInv, NEW m \in Methods, CallJava(m)
  PROVE  ExcInv'
  <1>1. Top.java /\ Top.place = "body"
    BY DEF CallJava, JavaAt
  <1>2. PICK n, f, c : TopIs(n, f) /\ JavaTop(n, f, c)
    BY <1>1, JavaIs
  <1>3. /\ f \in AnyFrame /\ f = Top /\ FrameLocks(f) /\ f.place = "body" /\ f.java
        /\ exception = None /\ goal = NoGoal
    BY <1>1, <1>2 DEF JavaTop
  <1>4. Set(stack, f) = stack
    BY <1>2, SetSame DEF ExcInv
  <1>5. /\ stack' = Append(Set(stack, f), Enter(m)) /\ exception' = None /\ goal' = NoGoal
        /\ UNCHANGED <<locks, registers>>
    BY <1>3, <1>4 DEF CallJava
  <1>6. PICK h : h = Enter(m)
    OBVIOUS
  <1>7. h \in AnyFrame /\ h.java /\ FrameLocks(h) /\ ~Holds(h) /\ h.place \in {"lock", "body"}
    BY <1>6, EnterIs
  <1>. QED
    BY <1>2, <1>3, <1>5, <1>6, <1>7, Calls

LEMMA CallNativeStep ==
  ASSUME ExceptionsAssumption, ExcInv, CallNative(FALSE)
  PROVE  ExcInv'
  <1>1. Top.java /\ Top.place = "body"
    BY DEF CallNative, JavaAt
  <1>2. PICK n, f, c : TopIs(n, f) /\ JavaTop(n, f, c)
    BY <1>1, JavaIs
  <1>3. /\ f \in JavaFrame /\ f = Top /\ FrameLocks(f) /\ f.place = "body" /\ f.java
        /\ exception = None /\ goal = NoGoal
    BY <1>1, <1>2 DEF JavaTop
  <1>4. PICK g : g = [f EXCEPT !.place = "test"]
    OBVIOUS
  <1>5. PICK h : h = [java |-> FALSE, saved |-> None]
    OBVIOUS
  <1>6. /\ g \in JavaFrame /\ g.place = "test" /\ g.locked = f.locked /\ g.method = f.method
        /\ g.java
    BY <1>3, <1>4 DEF JavaFrame, Places
  <1>7. FrameLocks(g) /\ g \in AnyFrame /\ (Holds(g) <=> Holds(f))
    BY <1>3, <1>6 DEF FrameLocks, BytecodePlaces, AnyFrame, Holds
  <1>8. h \in AnyFrame /\ ~h.java /\ ~Holds(h)
    BY <1>5, NativeEntered
  <1>9. /\ stack' = Append(Set(stack, g), h) /\ exception' = None /\ goal' = NoGoal
        /\ UNCHANGED <<locks, registers>>
    BY <1>3, <1>4, <1>5 DEF CallNative
  <1>. QED
    BY <1>2, <1>3, <1>6, <1>7, <1>8, <1>9, Calls

LEMMA NativeCallsJavaStep ==
  ASSUME ExceptionsAssumption, ExcInv, NEW m \in Methods, NativeCallsJava(m)
  PROVE  ExcInv'
  <1>1. TypeOK /\ ~Top.java
    BY DEF NativeCallsJava, ExcInv
  <1>2. PICK n, f : TopIs(n, f)
    BY <1>1, TopFrame
  <1>3. f \in NativeFrame /\ f = Top /\ ~f.java
    BY <1>1, <1>2 DEF TopIs
  <1>4. PICK g : g = [f EXCEPT !.saved = exception]
    OBVIOUS
  <1>5. g \in NativeFrame /\ ~g.java
    BY <1>1, <1>3, <1>4 DEF NativeFrame, TypeOK
  <1>6. g \in AnyFrame /\ (Holds(g) <=> Holds(f))
    BY <1>3, <1>5 DEF AnyFrame, Holds
  <1>7. PICK h : h = Enter(m)
    OBVIOUS
  <1>8. h \in AnyFrame /\ h.java /\ FrameLocks(h) /\ ~Holds(h) /\ h.place \in {"lock", "body"}
    BY <1>7, EnterIs
  <1>9. /\ stack' = Append(Set(stack, g), h) /\ exception' = None /\ goal' = NoGoal
        /\ UNCHANGED <<locks, registers>>
    BY <1>3, <1>4, <1>7 DEF NativeCallsJava
  <1>. QED
    BY <1>2, <1>3, <1>5, <1>6, <1>8, <1>9, Calls

-----------------------------------------------------------------------------
(* The code around the bytecodes                                           *)

\* The innermost frame stays innermost and locks or unlocks the monitor.
LEMMA Changes ==
  ASSUME ExcInv, NEW n, NEW f, NEW c, TopIs(n, f), JavaTop(n, f, c), NEW g \in JavaFrame,
         stack' = Set(stack, g), FrameLocks(g),
         \/ ~f.locked /\ g.locked /\ locks' = locks + 1
         \/ f.locked /\ ~g.locked /\ locks' = locks - 1
  PROVE  StackOK' /\ BelowInv' /\ FramesLock' /\ LocksBalanced' /\ Now(n, g, c) /\ g.java
  <1>1. TypeOK /\ BelowInv /\ FramesLock /\ LocksBalanced
    BY DEF ExcInv
  <1>2. g \in AnyFrame /\ g.java
    BY DEF AnyFrame, JavaFrame
  <1>3. f.java /\ n \in Nat /\ n = Len(stack) /\ f = stack[n] /\ n >= 1 /\ c = stack[n - 1]
    BY DEF JavaTop
  <1>4. Ends(n, g) /\ BelowInv' /\ StackOK' /\ Now(n, g, c)
    BY <1>1, <1>2, <1>3, SetEnds
  <1>5. \/ ~Holds(stack[n]) /\ Holds(g) /\ locks' = locks + 1
        \/ Holds(stack[n]) /\ ~Holds(g) /\ locks' = locks - 1
    BY <1>2, <1>3 DEF Holds
  <1>6. FramesLock' /\ LocksBalanced'
    BY <1>1, <1>3, <1>4, <1>5, LocksChange
  <1>. QED
    BY <1>2, <1>4, <1>6

LEMMA SetTwice ==
  ASSUME TypeOK, NEW n, NEW f, TopIs(n, f), NEW g \in AnyFrame, NEW h \in AnyFrame
  PROVE  Set(Set(stack, g), h) = Set(stack, h) /\ Set(stack, g)[n] = g
  <1>1. TopSet(stack, n, g) /\ TopSet(stack, n, h) /\ n \in Nat /\ ~stack[1].java /\ n >= 1
    BY TopStack, SetStack, StackTyped DEF TopIs
  <1>2. PICK r \in Seq(AnyFrame) : r = Set(stack, g) /\ Len(r) = n /\ r[n] = g
                                   /\ \A i \in 1 .. n - 1 : r[i] = stack[i]
    BY <1>1, Zenon DEF TopSet
  <1>3. PICK q \in Seq(AnyFrame) : q = Set(stack, h) /\ Len(q) = n /\ q[n] = h
                                   /\ \A i \in 1 .. n - 1 : q[i] = stack[i]
    BY <1>1, Zenon DEF TopSet
  <1>4. /\ Set(r, h) \in Seq(AnyFrame) /\ Len(Set(r, h)) = n /\ Set(r, h)[n] = h
        /\ \A i \in 1 .. n - 1 : Set(r, h)[i] = r[i]
    <2>1. r \in Seq(AnyFrame) /\ n \in Nat /\ n = Len(r) /\ n >= 1 /\ h \in AnyFrame
      BY <1>1, <1>2
    <2>. QED
      BY ONLY <2>1 DEF Set
  <1>5. \A i \in 1 .. n : i \in 1 .. n - 1 \/ i = n
    BY <1>1
  <1>6. \A i \in 1 .. Len(q) : Set(r, h)[i] = q[i]
    BY <1>2, <1>3, <1>4, <1>5, Zenon
  <1>7. Set(r, h) = q
    BY <1>3, <1>4, <1>6, SeqEqual
  <1>. QED
    BY <1>2, <1>3, <1>7

\* emit_monitorenter locks the monitor.
LEMMA LockStep ==
  ASSUME ExceptionsAssumption, ExcInv, Lock(FALSE)
  PROVE  ExcInv'
  <1>1. Top.java /\ Top.place = "lock" /\ TypeOK
    BY DEF Lock, JavaAt, ExcInv
  <1>2. PICK n, f, c : TopIs(n, f) /\ JavaTop(n, f, c)
    BY <1>1, JavaIs
  <1>3. /\ f \in JavaFrame /\ f = Top /\ FrameLocks(f) /\ f.place = "lock"
        /\ exception = None /\ goal = NoGoal /\ n = Depth
    BY <1>1, <1>2 DEF JavaTop
  <1>4. ~f.locked /\ f.method \in Synchronized
    BY <1>3 DEF FrameLocks, BytecodePlaces
  <1>5. PICK h : h = [f EXCEPT !.locked = TRUE]
    OBVIOUS
  <1>6. PICK g : g = [f EXCEPT !.locked = TRUE, !.place = "body"]
    OBVIOUS
  <1>7. /\ h \in JavaFrame /\ g \in JavaFrame /\ g.place = "body" /\ g.method = f.method
        /\ g.locked = TRUE
    BY <1>3, <1>5, <1>6 DEF JavaFrame, Places
  <1>8. h \in AnyFrame /\ g \in AnyFrame /\ FrameLocks(g)
    BY <1>4, <1>7 DEF AnyFrame, FrameLocks, BytecodePlaces
  <1>9. /\ stack' = Set(Set(stack, h), g) /\ exception' = None /\ goal' = NoGoal
        /\ locks' = locks + 1 /\ UNCHANGED registers
    <2>1. [Top EXCEPT !.locked = ~FALSE] = h
      BY <1>3, <1>5
    <2>. QED
      BY <1>3, <1>6, <2>1 DEF Lock
  <1>10. stack' = Set(stack, g)
    BY <1>1, <1>2, <1>8, <1>9, SetTwice
  <1>11. StackOK' /\ BelowInv' /\ FramesLock' /\ LocksBalanced' /\ Now(n, g, c) /\ g.java
    BY <1>2, <1>4, <1>7, <1>8, <1>9, <1>10, Changes
  <1>12. Top' = g
    BY <1>11 DEF Now
  <1>13. PendingInv' /\ LockedTop' /\ GoalInv'
    BY <1>7, <1>9, <1>11, <1>12 DEF PendingInv, LockedTop, GoalInv, UnwindPlaces, ExitPlaces
  <1>14. Settled
    BY <1>9, NoGoalTyped DEF Settled, ExcInv, TypeOK
  <1>. QED
    BY <1>11, <1>13, <1>14, Assembled

\* There is no memory for the record of the monitor.
LEMMA LockFailsStep ==
  ASSUME ExceptionsAssumption, ExcInv, Lock(TRUE)
  PROVE  ExcInv'
  <1>1. Top.java /\ Top.place = "lock" /\ TypeOK
    BY DEF Lock, JavaAt, ExcInv
  <1>2. PICK n, f, c : TopIs(n, f) /\ JavaTop(n, f, c)
    BY <1>1, JavaIs
  <1>3. /\ f \in JavaFrame /\ f = Top /\ FrameLocks(f) /\ f.place = "lock" /\ n = Depth
        /\ n \in Nat /\ n >= 2 /\ n >= 1 /\ n = Len(stack) /\ f = stack[n] /\ c = stack[n - 1]
        /\ f.java /\ c.java \in BOOLEAN
    BY <1>1, <1>2 DEF JavaTop
  <1>4. ~f.locked /\ f.method \in Synchronized
    BY <1>3 DEF FrameLocks, BytecodePlaces
  <1>5. PICK h : h = [f EXCEPT !.locked = FALSE]
    OBVIOUS
  <1>6. PICK k : k = [h EXCEPT !.pushed = TRUE]
    OBVIOUS
  <1>7. /\ h \in JavaFrame /\ h.place = "lock" /\ h.java
        /\ k \in JavaFrame /\ k.place = "lock" /\ k.java /\ k.method = f.method /\ ~k.locked
    BY <1>3, <1>5, <1>6 DEF JavaFrame, Places
  <1>8. h \in AnyFrame /\ k \in AnyFrame
    BY <1>7 DEF AnyFrame
  <1>9. PICK s : s = Set(stack, k)
    OBVIOUS
  <1>10. /\ Set(Set(stack, h), k) = s /\ Set(stack, h)[n] = h
    BY <1>1, <1>2, <1>8, <1>9, SetTwice
  <1>11. OutOfMemory \in Types /\ OutOfMemory # None
    BY DEF ExceptionsAssumption
  <1>12. /\ Throw(s, OutOfMemory) /\ goal' = Expected(Set(stack, h), OutOfMemory)
         /\ locks = 0 /\ locks' = locks /\ UNCHANGED registers
    <2>1. [Top EXCEPT !.locked = ~TRUE] = h
      BY <1>3, <1>5
    <2>2. Set(stack, [Top EXCEPT !.locked = ~TRUE])[Depth] = h
      BY <1>3, <1>10, <2>1
    <2>. QED
      BY <1>6, <1>10, <1>11, <2>1, <2>2 DEF Lock
  <1>13. stack \in Seq(AnyFrame) /\ ~stack[1].java
    BY <1>1, StackTyped
  <1>14. TopSet(stack, n, k)
    BY <1>1, <1>2, <1>8, TopStack, SetStack
  <1>15. /\ s \in Seq(AnyFrame) /\ Len(s) = n /\ s[n] = k /\ s[n - 1] = c /\ ~s[1].java
    <2>1. n - 1 \in 1 .. n - 1 /\ 1 \in 1 .. n - 1
      BY <1>3
    <2>. QED
      BY <1>3, <1>9, <1>13, <1>14, <2>1, Zenon DEF TopSet
  <1>16. Expected(Set(stack, h), OutOfMemory) = Expected(s, OutOfMemory)
    <2>1. /\ HandlersIn(f, OutOfMemory) = {} /\ HandlersIn(h, OutOfMemory) = {}
          /\ HandlersIn(k, OutOfMemory) = {}
      BY <1>3, <1>7, NoHandlers
    <2>a. IsStack(stack, n)
      BY <1>1, <1>2, TopStack
    <2>2. Expected(Set(stack, h), OutOfMemory) = Expected(stack, OutOfMemory)
      BY <1>3, <1>7, <2>1, <2>a, ExpectedTop
    <2>3. Expected(Set(stack, k), OutOfMemory) = Expected(stack, OutOfMemory)
      BY <1>3, <1>7, <2>1, <2>a, ExpectedTop
    <2>. QED
      BY <1>9, <2>2, <2>3
  <1>17. /\ \E g \in JavaFrame : stack' = Set(s, g) /\ Thrown(k, c, g)
         /\ PendingInv' /\ GoalInv' /\ exception' \in Types /\ goal' \in [depth : Nat, pc : Pcs]
    BY <1>3, <1>7, <1>11, <1>12, <1>15, <1>16, ThrowLocal
  <1>18. PICK g \in JavaFrame : stack' = Set(s, g) /\ Thrown(k, c, g)
    BY <1>17
  <1>19. stack' = Set(stack, g)
    <2>1. g \in AnyFrame
      BY DEF AnyFrame
    <2>. QED
      BY <1>1, <1>2, <1>8, <1>9, <1>18, <2>1, SetTwice
  <1>20. /\ g.place \in {"exit", "unwind"} /\ ~g.locked /\ (g.place = "exit" => ~c.java)
         /\ FrameLocks(g)
    BY <1>3, <1>7, <1>18 DEF Thrown, FrameLocks, BytecodePlaces
  <1>21. g.locked = f.locked
    BY <1>3, <1>4, <1>20 DEF JavaFrame
  <1>22. /\ StackOK' /\ BelowInv' /\ FramesLock' /\ LocksBalanced' /\ Now(n, g, c)
    BY <1>2, <1>12, <1>19, <1>20, <1>21, Stays
  <1>23. LockedTop'
    <2>1. Top' = g /\ Caller' = c
      BY <1>22 DEF Now
    <2>. QED
      BY <1>12, <1>20, <2>1 DEF LockedTop
  <1>24. Settled
    BY <1>12, <1>17 DEF Settled, ExcInv, TypeOK
  <1>. QED
    BY <1>17, <1>22, <1>23, <1>24, Assembled

\* The unlock of the innermost frame.  An exception is one that was set before,
\* or the one of an unlock that was not the owner's.
LEMMA GoesOn ==
  ASSUME ExceptionsAssumption, ExcInv, NEW n, NEW f, NEW c, TopIs(n, f), JavaTop(n, f, c),
         NEW g \in JavaFrame, stack' = Set(stack, g),
         StackOK', BelowInv', FramesLock', LocksBalanced', Now(n, g, c), g.java,
         \/ f.place = "exit" /\ g.place \in {"exitTest", "epilog"}
         \/ f.place = "unwind" /\ g.place \in {"unwindTest", "rethrow"},
         \/ UNCHANGED <<exception, goal>>
         \/ /\ exception' = IllegalMonitorState
            /\ goal' = Expected(stack, IllegalMonitorState)
            /\ f.place = "exit" => ~c.java,
         UNCHANGED registers
  PROVE  ExcInv'
  <1>1. Depth' = n /\ Top' = g /\ Caller' = c
    BY DEF Now
  <1>2. /\ n \in Nat /\ n >= 2 /\ n = Len(stack) /\ f \in JavaFrame /\ f = stack[n] /\ f.java
        /\ f.place \in UnwindPlaces => exception # None /\ c.java
        /\ f.place \in ExitPlaces /\ c.java => exception = None
        /\ exception = None => goal = NoGoal
        /\ f.place \in UnwindPlaces \cup ExitPlaces /\ exception # None =>
             goal = Expected(stack, exception)
    BY DEF JavaTop
  <1>3. TypeOK
    BY DEF ExcInv
  <1>4. f.place \notin {"body", "test"} /\ g.place \notin {"body", "test"}
    OBVIOUS
  <1>5. ASSUME NEW type PROVE Expected(stack', type) = Expected(stack, type)
    <2>1. HandlersIn(f, type) = {} /\ HandlersIn(g, type) = {}
      BY <1>4, NoHandlers
    <2>2. IsStack(stack, n)
      BY <1>3, TopStack
    <2>3. Expected(Set(stack, g), type) = Expected(stack, type)
      BY <1>2, <2>1, <2>2, ExpectedTop
    <2>. QED
      BY <2>3
  <1>6. IllegalMonitorState \in Types /\ None \notin Types
    BY DEF ExceptionsAssumption
  <1>7. /\ exception' = None => goal' = NoGoal
        /\ exception' # None => goal' = Expected(stack', exception')
        /\ f.place = "unwind" => exception' # None /\ c.java
        /\ f.place = "exit" /\ c.java => exception' = None
    <2>1. CASE UNCHANGED <<exception, goal>>
      BY <1>2, <1>5, <2>1 DEF UnwindPlaces, ExitPlaces
    <2>2. CASE /\ exception' = IllegalMonitorState
               /\ goal' = Expected(stack, IllegalMonitorState)
               /\ f.place = "exit" => ~c.java
      BY <1>2, <1>5, <1>6, <2>2 DEF UnwindPlaces
    <2>. QED
      BY <2>1, <2>2
  <1>8. /\ g.place \in {"exitTest", "epilog"} => f.place = "exit"
        /\ g.place \in {"unwindTest", "rethrow"} => f.place = "unwind"
        /\ g.place \in {"exitTest", "epilog", "unwindTest", "rethrow"}
    OBVIOUS
  <1>9. PendingInv'
    BY <1>1, <1>7, <1>8 DEF PendingInv, UnwindPlaces, ExitPlaces
  <1>10. LockedTop'
    BY <1>1, <1>8 DEF LockedTop
  <1>11. GoalInv'
    BY <1>1, <1>7, <1>8 DEF GoalInv, UnwindPlaces, ExitPlaces
  <1>12. Settled
    <2>1. goal' \in [depth : Nat, pc : Pcs]
      <3>1. Expected(stack, IllegalMonitorState) \in [depth : Nat, pc : Pcs]
        <4>1. stack \in Seq(AnyFrame) /\ ~stack[1].java /\ n >= 1
          BY <1>2, <1>3, StackTyped
        <4>. QED
          BY <1>2, <4>1, ExpectedTyped
      <3>. QED
        BY <1>3, <3>1 DEF TypeOK
    <2>. QED
      BY <1>3, <1>6, <2>1 DEF Settled, TypeOK
  <1>. QED
    BY <1>9, <1>10, <1>11, <1>12, Assembled

\* emit_monitorexit
LEMMA UnlockStep ==
  ASSUME ExceptionsAssumption, ExcInv, NEW place, NEW test, NEW past, Unlock(place, test, past),
         \/ place = "exit" /\ test = "exitTest" /\ past = "epilog"
         \/ place = "unwind" /\ test = "unwindTest" /\ past = "rethrow"
  PROVE  ExcInv'
  <1>1. Top.java /\ Top.place = place /\ TypeOK /\ LocksBalanced
    BY DEF Unlock, JavaAt, ExcInv
  <1>2. PICK n, f, c : TopIs(n, f) /\ JavaTop(n, f, c)
    BY <1>1, JavaIs
  <1>3. /\ f \in JavaFrame /\ f = Top /\ FrameLocks(f) /\ f.place = place /\ f.java
        /\ n \in Nat /\ n >= 1 /\ n = Len(stack) /\ f = stack[n]
        /\ f.method \in Synchronized /\ ~f.locked => locks = 0 /\ (place = "exit" => ~c.java)
    BY <1>1, <1>2 DEF JavaTop
  <1>4. f.locked \in BOOLEAN /\ locks \in Nat
    BY <1>1, <1>3 DEF JavaFrame, TypeOK
  <1>5. f.locked => locks # 0
    BY <1>1, <1>3, HolderCounted DEF Holds
  <1>6. UNCHANGED registers
    BY DEF Unlock
  <1>7. CASE f.method \in Synchronized
    <2>1. PICK g : g = [f EXCEPT !.place = test, !.pushed = TRUE, !.locked = FALSE]
      OBVIOUS
    <2>2. /\ g \in JavaFrame /\ g.place = test /\ g.locked = FALSE /\ g.method = f.method
      BY <1>3, <2>1 DEF JavaFrame, Places
    <2>3. FrameLocks(g)
      BY <2>2 DEF FrameLocks, BytecodePlaces
    <2>4. /\ stack' = Set(stack, g)
          /\ locks' = IF locks = 0 THEN 0 ELSE locks - 1
          /\ exception' = IF locks = 0 THEN IllegalMonitorState ELSE exception
          /\ goal' = IF locks = 0 THEN Expected(stack, IllegalMonitorState) ELSE goal
      BY <1>3, <1>7, <2>1 DEF Unlock
    <2>5. CASE f.locked
      <3>1. locks' = locks - 1 /\ UNCHANGED <<exception, goal>>
        BY <1>5, <2>4, <2>5
      <3>2. StackOK' /\ BelowInv' /\ FramesLock' /\ LocksBalanced' /\ Now(n, g, c) /\ g.java
        BY <1>2, <2>2, <2>3, <2>4, <2>5, <3>1, Changes
      <3>. QED
        BY <1>2, <1>3, <1>6, <2>2, <2>4, <3>1, <3>2, GoesOn
    <2>6. CASE ~f.locked
      <3>1. /\ UNCHANGED locks /\ exception' = IllegalMonitorState
            /\ goal' = Expected(stack, IllegalMonitorState) /\ (place = "exit" => ~c.java)
        BY <1>3, <1>7, <2>4, <2>6
      <3>2. g.locked = f.locked
        BY <1>4, <2>2, <2>6
      <3>3. StackOK' /\ BelowInv' /\ FramesLock' /\ LocksBalanced' /\ Now(n, g, c) /\ g.java
        BY <1>2, <2>2, <2>3, <2>4, <3>1, <3>2, Stays
      <3>. QED
        BY <1>2, <1>3, <1>6, <2>2, <2>4, <3>1, <3>3, GoesOn
    <2>. QED
      BY <1>4, <2>5, <2>6
  <1>8. CASE f.method \notin Synchronized
    <2>1. PICK g : g = [f EXCEPT !.place = past]
      OBVIOUS
    <2>2. /\ g \in JavaFrame /\ g.place = past /\ g.locked = f.locked /\ g.method = f.method
      BY <1>3, <2>1 DEF JavaFrame, Places
    <2>3. FrameLocks(g)
      BY <1>3, <1>8, <2>2 DEF FrameLocks, BytecodePlaces
    <2>4. stack' = Set(stack, g) /\ UNCHANGED <<exception, locks, goal>>
      BY <1>3, <1>8, <2>1 DEF Unlock
    <2>5. StackOK' /\ BelowInv' /\ FramesLock' /\ LocksBalanced' /\ Now(n, g, c) /\ g.java
      BY <1>2, <2>2, <2>3, <2>4, Stays
    <2>. QED
      BY <1>2, <1>3, <1>6, <2>2, <2>4, <2>5, GoesOn
  <1>. QED
    BY <1>7, <1>8

LEMMA UnlockTestStep ==
  ASSUME ExceptionsAssumption, ExcInv, NEW test, NEW past, UnlockTest(test, past),
         \/ test = "exitTest" /\ past = "epilog"
         \/ test = "unwindTest" /\ past = "rethrow"
  PROVE  ExcInv'
  <1>1. Top.java /\ Top.place = test
    BY DEF UnlockTest, JavaAt
  <1>2. PICK n, f, c : TopIs(n, f) /\ JavaTop(n, f, c)
    BY <1>1, JavaIs
  <1>3. /\ f \in JavaFrame /\ f = Top /\ FrameLocks(f) /\ f.place = test
        /\ test = "unwindTest" => exception # None /\ c.java
        /\ test = "exitTest" /\ c.java => exception = None
        /\ exception = None => goal = NoGoal
        /\ exception # None => goal = Expected(stack, exception)
    BY <1>1, <1>2 DEF JavaTop, UnwindPlaces, ExitPlaces
  <1>4. UNCHANGED <<locks, registers, goal>>
    BY DEF UnlockTest
  <1>5. CASE exception # None
    <2>1. exception \in Types
      BY <1>5 DEF ExcInv, TypeOK
    <2>2. Throw(stack, exception) /\ goal' = Expected(stack, exception)
      BY <1>3, <1>4, <1>5 DEF UnlockTest
    <2>3. (f.place = "exitTest" /\ ~c.java) \/ (f.place = "unwindTest" /\ c.java)
      <3>1. CASE test = "exitTest"
        <4>1. f.place = "exitTest"
          BY <1>3, <3>1
        <4>2. CASE c.java
          BY <1>3, <1>5, <3>1, <4>2
        <4>. QED
          BY <4>1, <4>2, Zenon
      <3>2. CASE test = "unwindTest"
        BY <1>3, <3>2, Zenon
      <3>. QED
        BY <3>1, <3>2, Zenon
    <2>. QED
      BY <1>2, <1>4, <2>1, <2>2, <2>3, ThrowsHere
  <1>6. CASE exception = None
    <2>1. PICK g : g = [f EXCEPT !.place = past, !.pushed = FALSE]
      OBVIOUS
    <2>2. /\ stack' = Set(stack, g) /\ exception' = None /\ goal' = NoGoal /\ past = "epilog"
      BY <1>3, <1>4, <1>6, <2>1 DEF UnlockTest
    <2>3. /\ g \in JavaFrame /\ g.place = "epilog" /\ g.locked = f.locked /\ g.method = f.method
      BY <1>3, <2>1, <2>2 DEF JavaFrame, Places
    <2>4. FrameLocks(g)
      BY <1>3, <2>3 DEF FrameLocks, BytecodePlaces
    <2>. QED
      BY <1>2, <1>4, <2>2, <2>3, <2>4, Quiet
  <1>. QED
    BY <1>5, <1>6

-----------------------------------------------------------------------------
(* Returns                                                                 *)

LEMMA CallerIs ==
  ASSUME ExcInv, NEW n, NEW f, TopIs(n, f), n >= 2
  PROVE  \E c \in AnyFrame :
           /\ c = stack[n - 1] /\ c.java \in BOOLEAN
           /\ c.java => /\ FrameLocks(c) /\ c \in JavaFrame
                        /\ c.place = IF f.java THEN "body" ELSE "test"
           /\ ~c.java => c \in NativeFrame
  <1>1. TypeOK /\ BelowInv /\ FramesLock
    BY DEF ExcInv
  <1>2. n \in Nat /\ n = Len(stack) /\ n = Depth /\ f = stack[n]
    BY DEF TopIs
  <1>3. PICK m \in Nat : m = n - 1 /\ m \in 1 .. n - 1 /\ m \in 1 .. n /\ m + 1 = n
    BY <1>2
  <1>4. PICK c : c = stack[m] /\ c \in AnyFrame
    BY <1>1, <1>2, <1>3, StackTyped, ElementOfSeq
  <1>5. c.java \in BOOLEAN /\ (c.java => c \in JavaFrame) /\ (~c.java => c \in NativeFrame)
    BY <1>4, Kinds
  <1>6. c.java => FrameLocks(c)
    BY <1>1, <1>2, <1>3, <1>4, Zenon DEF FramesLock
  <1>7. c.java => c.place = IF f.java THEN "body" ELSE "test"
    <2>1. m \in 1 .. Depth - 1
      BY <1>2, <1>3
    <2>2. c.java => c.place = IF stack[m + 1].java THEN "body" ELSE "test"
      BY <1>1, <1>4, <2>1, Zenon DEF BelowInv
    <2>. QED
      BY <1>2, <1>3, <2>2
  <1>. QED
    BY <1>3, <1>4, <1>5, <1>6, <1>7, Zenon

\* The innermost frame, which does not hold the monitor, is left.
LEMMA Leaves ==
  ASSUME ExcInv, NEW n, NEW f, TopIs(n, f), n >= 2, ~Holds(f), NEW c, c = stack[n - 1],
         NEW g \in AnyFrame, g.java <=> c.java, g.java => FrameLocks(g), Holds(g) <=> Holds(c),
         stack' = Set(Pop(stack), g) \/ (g = c /\ stack' = Pop(stack)), UNCHANGED locks
  PROVE  StackOK' /\ BelowInv' /\ FramesLock' /\ LocksBalanced' /\ Depth' = n - 1 /\ Top' = g
  <1>1. TypeOK /\ BelowInv /\ FramesLock /\ LocksBalanced
    BY DEF ExcInv
  <1>2. Ends(n - 1, g) /\ BelowInv' /\ StackOK' /\ Depth' = n - 1 /\ Top' = g
    BY <1>1, PopEnds
  <1>3. n \in Nat /\ n = Len(stack) /\ f = stack[n]
    BY DEF TopIs
  <1>4. PICK j \in 1 .. n : j = n - 1 /\ \A i \in j + 1 .. n : i = n
    BY <1>3
  <1>5. Ends(j, g) /\ (Holds(g) <=> Holds(stack[j])) /\ \A i \in j + 1 .. n : ~Holds(stack[i])
    BY <1>2, <1>3, <1>4
  <1>6. FramesLock' /\ LocksBalanced'
    BY <1>1, <1>3, <1>5, LocksEnd
  <1>. QED
    BY <1>2, <1>6

\* The innermost frame is one where nothing is pending: native code, the test
\* after a native call, or bytecode without an exception.
LEMMA Returned ==
  ASSUME ExceptionsAssumption, ExcInv, StackOK', BelowInv', FramesLock', LocksBalanced', Settled,
         NEW g, Top' = g,
         \/ ~g.java /\ (goal' = NoGoal \/ goal'.depth = Depth')
         \/ g.java /\ g.place = "test" /\ goal' = NoGoal
         \/ g.java /\ g.place = "body" /\ goal' = NoGoal /\ exception' = None
  PROVE  ExcInv'
  <1>1. PendingInv'
    BY DEF PendingInv, UnwindPlaces, ExitPlaces
  <1>2. LockedTop'
    BY DEF LockedTop
  <1>3. GoalInv'
    BY DEF GoalInv, UnwindPlaces, ExitPlaces
  <1>. QED
    BY <1>1, <1>2, <1>3, Assembled

LEMMA EpilogStep ==
  ASSUME ExceptionsAssumption, ExcInv, Epilog
  PROVE  ExcInv'
  <1>1. Top.java /\ Top.place = "epilog" /\ TypeOK
    BY DEF Epilog, JavaAt, ExcInv
  <1>2. PICK n, f, b : TopIs(n, f) /\ JavaTop(n, f, b)
    BY <1>1, JavaIs
  <1>3. /\ f \in JavaFrame /\ f = Top /\ FrameLocks(f) /\ f.place = "epilog" /\ f.java
        /\ n \in Nat /\ n >= 2 /\ n = Len(stack) /\ n = Depth /\ f = stack[n] /\ b = stack[n - 1]
        /\ b.java => exception = None
        /\ exception = None => goal = NoGoal
        /\ exception # None => goal = Expected(stack, exception)
    BY <1>1, <1>2 DEF JavaTop, UnwindPlaces, ExitPlaces
  <1>4. PICK c \in AnyFrame :
          /\ c = stack[n - 1] /\ c.java \in BOOLEAN
          /\ c.java => /\ FrameLocks(c) /\ c \in JavaFrame
                       /\ c.place = IF f.java THEN "body" ELSE "test"
          /\ ~c.java => c \in NativeFrame
    BY <1>2, <1>3, CallerIs
  <1>5. ~Holds(f)
    BY <1>3 DEF FrameLocks, BytecodePlaces, Holds
  <1>6. UNCHANGED <<locks, goal>> /\ stack[Depth - 1] = c
    BY <1>3, <1>4 DEF Epilog
  <1>7. CASE c.java
    <2>1. stack' = Pop(stack) /\ UNCHANGED <<exception, registers>>
      BY <1>6, <1>7 DEF Epilog
    <2>2. StackOK' /\ BelowInv' /\ FramesLock' /\ LocksBalanced' /\ Top' = c
      BY <1>2, <1>3, <1>4, <1>5, <1>6, <2>1, Leaves
    <2>3. exception = None /\ goal = NoGoal /\ c.place = "body"
      BY <1>3, <1>4, <1>7
    <2>4. Settled
      BY <1>1, <1>6, <2>1 DEF Settled, TypeOK
    <2>5. c.java /\ c.place = "body" /\ goal' = NoGoal /\ exception' = None
      BY <1>6, <1>7, <2>1, <2>3
    <2>. QED
      BY <2>2, <2>4, <2>5, Returned
  <1>8. CASE ~c.java
    <2>1. PICK g : g = [c EXCEPT !.saved = None]
      OBVIOUS
    <2>2. /\ stack' = Set(Pop(stack), g) /\ registers' = ~f.pushed
          /\ exception' = IF exception # None THEN exception ELSE c.saved
      BY <1>3, <1>6, <1>8, <2>1 DEF Epilog
    <2>3. g \in NativeFrame /\ ~g.java /\ c.saved \in Types \cup {None}
      BY <1>4, <1>8, <2>1 DEF NativeFrame
    <2>4. g \in AnyFrame /\ (Holds(g) <=> Holds(c))
      BY <1>8, <2>3 DEF AnyFrame, Holds
    <2>5. StackOK' /\ BelowInv' /\ FramesLock' /\ LocksBalanced' /\ Depth' = n - 1 /\ Top' = g
      BY <1>2, <1>3, <1>4, <1>5, <1>6, <1>8, <2>2, <2>3, <2>4, Leaves
    <2>6. Settled
      <3>1. registers' \in BOOLEAN
        BY <1>3, <2>2 DEF JavaFrame
      <3>. QED
        BY <1>1, <1>6, <2>2, <2>3, <3>1 DEF Settled, TypeOK
    <2>7. goal' = NoGoal \/ goal'.depth = Depth'
      <3>1. CASE exception = None
        BY <1>3, <1>6, <3>1
      <3>2. CASE exception # None
        <4>1. HandlersIn(f, exception) = {}
          BY <1>3, NoHandlers
        <4>2. stack \in Seq(AnyFrame) /\ ~stack[1].java
          BY <1>1, StackTyped
        <4>3. Expected(stack, exception).depth = n - 1
          BY <1>3, <1>4, <1>8, <4>1, <4>2, ExpectedBelow
        <4>. QED
          BY <1>3, <1>6, <2>5, <3>2, <4>3
      <3>. QED
        BY <3>1, <3>2
    <2>. QED
      BY <2>3, <2>5, <2>6, <2>7, Returned
  <1>. QED
    BY <1>4, <1>7, <1>8

\* unwind: the exception is thrown again in the caller, at its call.
LEMMA RethrowStep ==
  ASSUME ExceptionsAssumption, ExcInv, Rethrow
  PROVE  ExcInv'
  <1>1. Top.java /\ Top.place = "rethrow" /\ TypeOK
    BY DEF Rethrow, JavaAt, ExcInv
  <1>2. PICK n, f, b : TopIs(n, f) /\ JavaTop(n, f, b)
    BY <1>1, JavaIs
  <1>3. /\ f \in JavaFrame /\ f = Top /\ FrameLocks(f) /\ f.place = "rethrow" /\ f.java
        /\ n \in Nat /\ n >= 2 /\ n = Len(stack) /\ f = stack[n] /\ b = stack[n - 1]
        /\ b.java /\ exception # None /\ goal = Expected(stack, exception)
    BY <1>1, <1>2 DEF JavaTop, UnwindPlaces, ExitPlaces
  <1>4. PICK c \in AnyFrame :
          /\ c = stack[n - 1] /\ c.java \in BOOLEAN
          /\ c.java => /\ FrameLocks(c) /\ c \in JavaFrame
                       /\ c.place = IF f.java THEN "body" ELSE "test"
          /\ ~c.java => c \in NativeFrame
    BY <1>2, <1>3, CallerIs
  <1>5. c.java /\ c \in JavaFrame /\ FrameLocks(c) /\ c.place = "body"
    BY <1>3, <1>4
  <1>6. /\ Throw(Pop(stack), exception) /\ UNCHANGED <<locks, registers, goal>>
    BY DEF Rethrow
  <1>7. exception \in Types
    BY <1>1, <1>3 DEF TypeOK
  <1>8. ~Holds(f)
    BY <1>3 DEF FrameLocks, BytecodePlaces, Holds
  <1>9. stack \in Seq(AnyFrame) /\ ~stack[1].java
    BY <1>1, StackTyped
  <1>10. PICK m \in Nat : m = n - 1 /\ m \in 1 .. n /\ m >= 1 /\ m <= n
    BY <1>3
  <1>11. PICK s \in Seq(AnyFrame) : /\ s = Pop(stack) /\ Len(s) = m
                                    /\ \A i \in 1 .. m : s[i] = stack[i]
    BY <1>3, <1>9, <1>10, PopTop
  <1>12. m >= 2
    <2>1. m # 1
      BY <1>4, <1>5, <1>9, <1>10
    <2>2. m \in Nat /\ m >= 1
      BY <1>10
    <2>. QED
      BY ONLY <2>1, <2>2
  <1>13. s[m] = c /\ ~s[1].java
    <2>1. m \in 1 .. m /\ 1 \in 1 .. m
      BY <1>12
    <2>. QED
      BY <1>4, <1>9, <1>10, <1>11, <2>1
  <1>14. Expected(s, exception) = Expected(stack, exception)
    <2>1. HandlersIn(f, exception) = {}
      BY <1>3, NoHandlers
    <2>2. \A i \in m + 1 .. n : i = n
      BY <1>3, <1>10
    <2>3. NoneAbove(stack, m, exception)
      BY <1>3, <2>1, <2>2, Zenon DEF NoneAbove
    <2>4. NoneAbove(s, m, exception)
      <3>1. m + 1 .. m = {}
        BY <1>10
      <3>. QED
        BY <1>11, <3>1, Zenon DEF NoneAbove
    <2>5. SameBelow(stack, s, m)
      BY <1>11, Zenon DEF SameBelow
    <2>. QED
      BY <1>3, <1>9, <1>10, <1>11, <2>3, <2>4, <2>5, ExpectedSame
  <1>15. PICK d : d = s[m - 1]
    OBVIOUS
  <1>16. /\ \E g \in JavaFrame : stack' = Set(s, g) /\ Thrown(c, d, g)
         /\ PendingInv' /\ GoalInv' /\ exception' \in Types /\ goal' \in [depth : Nat, pc : Pcs]
    <2>1. /\ s \in Seq(AnyFrame) /\ m \in Nat /\ m = Len(s) /\ m >= 2 /\ ~s[1].java
          /\ c \in JavaFrame /\ c = s[m] /\ d = s[m - 1] /\ Throw(s, exception)
          /\ goal' = Expected(s, exception)
      BY <1>3, <1>5, <1>6, <1>11, <1>12, <1>13, <1>14, <1>15
    <2>. QED
      BY ONLY ExceptionsAssumption, <1>7, <2>1, ThrowLocal
  <1>17. PICK g \in JavaFrame : stack' = Set(s, g) /\ Thrown(c, d, g)
    BY <1>16
  <1>18. FrameLocks(g) /\ g.locked = c.locked /\ g.method = c.method /\ g.java /\ g \in AnyFrame
    BY <1>5, <1>17 DEF FrameLocks, Thrown, BytecodePlaces, JavaFrame, AnyFrame
  <1>19. StackOK' /\ BelowInv' /\ FramesLock' /\ LocksBalanced' /\ Top' = g
    <2>1. Holds(g) <=> Holds(c)
      BY <1>5, <1>18 DEF Holds
    <2>2. stack' = Set(Pop(stack), g)
      BY <1>11, <1>17
    <2>. QED
      BY <1>2, <1>3, <1>4, <1>5, <1>6, <1>8, <1>18, <2>1, <2>2, Leaves
  <1>20. LockedTop'
    <2>1. g.method \in Synchronized => g.locked
      BY <1>5, <1>18 DEF FrameLocks, BytecodePlaces
    <2>. QED
      BY <1>19, <2>1, Zenon DEF LockedTop
  <1>21. Settled
    BY <1>1, <1>6, <1>16 DEF Settled, TypeOK
  <1>. QED
    BY <1>16, <1>19, <1>20, <1>21, Assembled

-----------------------------------------------------------------------------
(* The steps of native code                                                *)

\* The stack and the locks stay as they are.
LEMMA NativeStep ==
  ASSUME ExceptionsAssumption, ExcInv, ~Top.java, exception' \in Types \cup {None},
         goal' = NoGoal, UNCHANGED <<stack, locks, registers>>
  PROVE  ExcInv'
  <1>1. TypeOK /\ BelowInv /\ FramesLock /\ LocksBalanced
    BY DEF ExcInv
  <1>2. Depth' = Depth /\ Top' = Top
    BY DEF Depth, Top
  <1>3. StackOK'
    BY <1>1 DEF TypeOK, StackOK
  <1>4. BelowInv' /\ FramesLock' /\ LocksBalanced'
    BY <1>1, <1>2 DEF BelowInv, FramesLock, LocksBalanced
  <1>5. Settled
    BY <1>1, NoGoalTyped DEF Settled, TypeOK
  <1>. QED
    BY <1>2, <1>3, <1>4, <1>5, Returned

LEMMA NativeSignalsStep ==
  ASSUME ExceptionsAssumption, ExcInv, NEW type \in Types, NativeSignals(type)
  PROVE  ExcInv'
  BY NativeStep DEF NativeSignals

LEMMA NativeClearsStep ==
  ASSUME ExceptionsAssumption, ExcInv, NativeClears
  PROVE  ExcInv'
  BY NativeStep DEF NativeClears

LEMMA NativeReturnsStep ==
  ASSUME ExceptionsAssumption, ExcInv, NativeReturns
  PROVE  ExcInv'
  <1>1. ~Top.java /\ Depth > 1 /\ TypeOK
    BY DEF NativeReturns, ExcInv
  <1>2. PICK n, f : TopIs(n, f)
    BY <1>1, TopFrame
  <1>3. ~f.java /\ n \in Nat /\ n >= 2
    <2>1. ~f.java /\ n \in Nat /\ n = Depth
      BY <1>1, <1>2 DEF TopIs
    <2>. QED
      BY <1>1, <2>1
  <1>4. PICK c \in AnyFrame :
          /\ c = stack[n - 1] /\ c.java \in BOOLEAN
          /\ c.java => /\ FrameLocks(c) /\ c \in JavaFrame
                       /\ c.place = IF f.java THEN "body" ELSE "test"
          /\ ~c.java => c \in NativeFrame
    BY <1>2, <1>3, CallerIs
  <1>5. /\ stack' = Pop(stack) /\ goal' = NoGoal /\ registers' = TRUE
        /\ UNCHANGED <<exception, locks>>
    BY DEF NativeReturns
  <1>6. ~Holds(f)
    BY <1>3 DEF Holds
  <1>7. StackOK' /\ BelowInv' /\ FramesLock' /\ LocksBalanced' /\ Top' = c
    BY <1>2, <1>3, <1>4, <1>5, <1>6, Leaves
  <1>8. Settled
    BY <1>1, <1>5, NoGoalTyped DEF Settled, TypeOK
  <1>9. ~c.java \/ (c.java /\ c.place = "test")
    <2>1. CASE c.java
      <3>1. c.place = "test"
        BY <1>3, <1>4, <2>1
      <3>. QED
        BY <2>1, <3>1, Zenon
    <2>. QED
      BY <2>1, Zenon
  <1>. QED
    BY <1>5, <1>7, <1>8, <1>9, Returned

-----------------------------------------------------------------------------
(* The theorems                                                            *)

LEMMA ExcInit ==
  ASSUME ExceptionsAssumption, Init
  PROVE  ExcInv
  <1>1. PICK f : f = [java |-> FALSE, saved |-> None]
    OBVIOUS
  <1>2. f \in NativeFrame /\ ~f.java /\ ~Holds(f)
    BY <1>1, NativeEntered
  <1>3. /\ stack = <<f>> /\ exception = None /\ locks = 0 /\ registers = TRUE /\ goal = NoGoal
    BY <1>1 DEF Init
  <1>4. stack \in Seq(JavaFrame \cup NativeFrame) /\ Len(stack) = 1 /\ stack[1] = f
    BY <1>2, <1>3
  <1>5. TypeOK
    BY <1>2, <1>3, <1>4, NoGoalTyped DEF TypeOK
  <1>6. Depth = 1 /\ Top = f
    BY <1>4 DEF Depth, Top
  <1>7. BelowInv
    BY <1>6 DEF BelowInv
  <1>8. FramesLock
    BY <1>2, <1>4, <1>6 DEF FramesLock
  <1>9. LocksBalanced
    <2>1. LockedSet(stack) = {}
      BY <1>2, <1>4 DEF LockedSet
    <2>. QED
      BY <1>3, <2>1, FS_EmptySet, BalancedIs
  <1>10. PendingInv /\ LockedTop /\ GoalInv
    BY <1>2, <1>3, <1>6 DEF PendingInv, LockedTop, GoalInv
  <1>. QED
    BY <1>5, <1>7, <1>8, <1>9, <1>10 DEF ExcInv

LEMMA ExcStutters ==
  ASSUME ExcInv, UNCHANGED vars
  PROVE  ExcInv'
  <1>1. UNCHANGED <<stack, exception, locks, registers, goal>>
    BY DEF vars
  <1>2. Depth' = Depth /\ Top' = Top /\ Caller' = Caller
    BY <1>1 DEF Depth, Top, Caller
  <1>3. Expected(stack', exception') = Expected(stack, exception)
    BY <1>1
  <1>4. TypeOK' /\ BelowInv' /\ FramesLock' /\ LocksBalanced'
    BY <1>1, <1>2 DEF ExcInv, TypeOK, BelowInv, FramesLock, LocksBalanced
  <1>5. PendingInv' /\ LockedTop' /\ GoalInv'
    BY <1>1, <1>2, <1>3 DEF ExcInv, PendingInv, LockedTop, GoalInv
  <1>. QED
    BY <1>4, <1>5 DEF ExcInv

LEMMA ExcStep ==
  ASSUME ExceptionsAssumption, InheritedCalls = FALSE, ExcInv, Next
  PROVE  ExcInv'
  <1>1. CASE Deliver
    <2>1. ASSUME NEW fails \in BOOLEAN, Lock(fails) PROVE ExcInv'
      <3>1. CASE fails = FALSE
        BY <2>1, <3>1, LockStep
      <3>2. CASE fails = TRUE
        BY <2>1, <3>2, LockFailsStep
      <3>. QED
        BY <3>1, <3>2
    <2>2. Unlock("exit", "exitTest", "epilog") => ExcInv'
      BY UnlockStep
    <2>3. Unlock("unwind", "unwindTest", "rethrow") => ExcInv'
      BY UnlockStep
    <2>4. UnlockTest("exitTest", "epilog") \/ UnlockTest("unwindTest", "rethrow") => ExcInv'
      BY UnlockTestStep
    <2>. QED
      BY <1>1, <2>1, <2>2, <2>3, <2>4, TestStep, EnterHandlerStep, EpilogStep, RethrowStep
      DEF Deliver
  <1>2. CASE Program
    <2>1. ASSUME NEW type \in Types, JavaThrows(type) \/ NativeSignals(type) PROVE ExcInv'
      BY <2>1, JavaThrowsStep, NativeSignalsStep
    <2>2. ASSUME NEW m \in Methods, CallJava(m) PROVE ExcInv'
      BY <2>2, CallJavaStep
    <2>3. ASSUME NEW m \in NativeCalls, NativeCallsJava(m) PROVE ExcInv'
      <3>1. m \in Methods
        BY DEF ExceptionsAssumption
      <3>. QED
        BY <2>3, <3>1, NativeCallsJavaStep
    <2>4. ASSUME NEW inherited \in {FALSE} \cup {InheritedCalls}, CallNative(inherited)
          PROVE  ExcInv'
      <3>1. inherited = FALSE
        OBVIOUS
      <3>2. CallNative(FALSE)
        BY <2>4, <3>1
      <3>. QED
        BY <3>2, CallNativeStep
    <2>. QED
      BY <1>2, <2>1, <2>2, <2>3, <2>4, ProceedStep, JavaReturnsStep, NativeClearsStep,
         NativeReturnsStep DEF Program
  <1>. QED
    BY <1>1, <1>2 DEF Next

\* The invariant of exceptions holds in every state of programs that do not call
\* native methods through an interface or a superclass.
THEOREM ExceptionInvariant == InheritedCalls = FALSE /\ Spec => []ExcInv
  <1>. SUFFICES ASSUME InheritedCalls = FALSE
                PROVE  Spec => []ExcInv
    OBVIOUS
  <1>1. Init => ExcInv
    BY ExcInit, ExceptionsAssumption
  <1>2. ExcInv /\ [Next]_vars => ExcInv'
    BY ExcStep, ExcStutters, ExceptionsAssumption
  <1>. QED
    BY <1>1, <1>2, PTL DEF Spec

\* The variables keep their types and the outermost frame stays native.
THEOREM ExceptionTypes == InheritedCalls = FALSE /\ Spec => []TypeOK
  <1>1. ExcInv => TypeOK
    BY DEF ExcInv
  <1>. QED
    BY <1>1, ExceptionInvariant, PTL

\* An exception that native code signals, or that a monitor makes, is thrown
\* before the next bytecode runs.
THEOREM ExceptionsAreThrown == InheritedCalls = FALSE /\ Spec => []SignalledIsThrown
  <1>1. ExcInv => SignalledIsThrown
    BY DEF ExcInv, PendingInv, SignalledIsThrown, JavaAt
  <1>. QED
    BY <1>1, ExceptionInvariant, PTL

\* Every synchronized method that is left, by a return or by an exception, has
\* unlocked its monitor as often as it locked it.
THEOREM MonitorsAreBalanced == InheritedCalls = FALSE /\ Spec => []LocksBalanced
  <1>1. ExcInv => LocksBalanced
    BY DEF ExcInv
  <1>. QED
    BY <1>1, ExceptionInvariant, PTL

\* An exception enters the handler where the Java language wants it, whatever
\* the exception tables and however deep the stack, or comes to the native code
\* that called the outermost Java method without a handler.
THEOREM ExceptionsFindHandlers == InheritedCalls = FALSE /\ Spec => []ArrivesAtHandler
  <1>1. ExcInv => ArrivesAtHandler
    BY DEF ExcInv, GoalInv, ArrivesAtHandler, JavaAt
  <1>. QED
    BY <1>1, ExceptionInvariant, PTL

=============================================================================
