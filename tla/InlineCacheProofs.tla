------------------------- MODULE InlineCacheProofs -------------------------
(***************************************************************************)
(* TLAPS proof that a call through the inline cache that no patch overlaps *)
(* reaches the method of the receiver, for any number of threads and       *)
(* classes, as long as no native method is among the targets.              *)
(***************************************************************************)
EXTENDS InlineCache, TLAPS

\* The patches that do_ic_setup and resolve_ic_miss prepare for a receiver
\* of class c
Megamorphic == [fn |-> "ic_vcall_stub", imm |-> "offset"]
Monomorphic(c) == [fn |-> Impl[c], imm |-> c]

\* Where a thread has chosen its method with the help of the vtable
ResolvedPC == {"lock", "fn", "imm", "call_ptr", "vtable"}

\* A thread at the site has the class of the receiver in %ecx.
ReceiverSet == \A t \in Threads : pc[t] # "java" => ecx[t] \in Classes

\* ic_patch_lock is held exactly between its lock and its unlock.
LockHeld == \A t \in Threads : pc[t] \in {"fn", "imm"} <=> lock = t

\* A prepared patch is a pair that belongs together, and fn is written first.
PatchOK ==
  \A t \in Threads :
    /\ pc[t] \in {"lock", "fn", "imm"} =>
         patch[t] \in {Megamorphic, Monomorphic(ecx[t])}
    /\ pc[t] = "imm" => fn = patch[t].fn

\* The slow paths choose the method of the receiver's class.
Resolved == \A t \in Threads : pc[t] \in ResolvedPC => meth[t] = Impl[ecx[t]]

\* A thread that no patch has overlapped calls with the operand that is in
\* the site, and runs the check of the method that belongs to the operand.
FreshOperand ==
  \A t \in Threads \ disturbed :
    /\ pc[t] = "call" => lock = NULL /\ eax[t] = imm
    /\ pc[t] = "ic_check" => eax[t] \in Classes /\ meth[t] = Impl[eax[t]]

\* A thread that no patch has overlapped reaches no other method.
RightMethod ==
  \A t \in Threads \ disturbed :
    /\ pc[t] # "wild"
    /\ pc[t] = "body" => meth[t] = Impl[ecx[t]]

\* Without native methods every compiled method has an ic entry.
IcEntries == VmNative = {} => IcEntryExists

DispatchInv ==
  /\ TypeOK /\ ReceiverSet /\ LockHeld /\ PatchOK /\ Resolved
  /\ CacheIsConsistent /\ FreshOperand /\ RightMethod /\ IcEntries

-----------------------------------------------------------------------------
(* One lemma per action                                                    *)

\* Loading the class of the receiver keeps the invariant.
LEMMA LoadClassKeeps ==
  ASSUME InlineCacheAssumption, NEW c \in Classes, DispatchInv, NEW t \in Threads, LoadClass(t, c)
  PROVE  DispatchInv'
  <1>. USE DEF DispatchInv, LoadClass, At, Goto, site, vm, regs
  <1>1. TypeOK'
    BY DEF TypeOK, InlineCacheAssumption, PCs, Imm, Fn, Methods, ReceiverSet, PatchOK, Megamorphic, Monomorphic, Lookup
  <1>2. ReceiverSet' /\ LockHeld' /\ PatchOK' /\ Resolved'
    BY DEF TypeOK, InlineCacheAssumption, ReceiverSet, LockHeld, PatchOK, Resolved, ResolvedPC, Lookup, Megamorphic, Monomorphic, Methods
  <1>3. CacheIsConsistent'
    BY DEF TypeOK, InlineCacheAssumption, CacheIsConsistent, LockHeld, PatchOK, Megamorphic, Monomorphic, ReceiverSet
  <1>4. FreshOperand' /\ RightMethod'
    BY DEF TypeOK, InlineCacheAssumption, CacheIsConsistent, LockHeld, FreshOperand, RightMethod, Resolved, ResolvedPC, Between, Methods, Hit, Imm
  <1>5. IcEntries'
    BY DEF TypeOK, IcEntries, IcEntryExists
  <1>. QED
    BY <1>1, <1>2, <1>3, <1>4, <1>5

\* Loading the operand keeps the invariant.
LEMMA LoadImmKeeps ==
  ASSUME InlineCacheAssumption, DispatchInv, NEW t \in Threads, LoadImm(t)
  PROVE  DispatchInv'
  <1>. USE DEF DispatchInv, LoadImm, At, Goto, site, vm, regs
  <1>1. TypeOK'
    BY DEF TypeOK, InlineCacheAssumption, PCs, Imm, Fn, Methods, ReceiverSet, PatchOK, Megamorphic, Monomorphic, Lookup
  <1>2. ReceiverSet' /\ LockHeld' /\ PatchOK' /\ Resolved'
    BY DEF TypeOK, InlineCacheAssumption, ReceiverSet, LockHeld, PatchOK, Resolved, ResolvedPC, Lookup, Megamorphic, Monomorphic, Methods
  <1>3. CacheIsConsistent'
    BY DEF TypeOK, InlineCacheAssumption, CacheIsConsistent, LockHeld, PatchOK, Megamorphic, Monomorphic, ReceiverSet
  <1>4. FreshOperand' /\ RightMethod'
    BY DEF TypeOK, InlineCacheAssumption, CacheIsConsistent, LockHeld, FreshOperand, RightMethod, Resolved, ResolvedPC, Between, Methods, Hit, Imm
  <1>5. IcEntries'
    BY DEF TypeOK, IcEntries, IcEntryExists
  <1>. QED
    BY <1>1, <1>2, <1>3, <1>4, <1>5

\* The call keeps the invariant.
LEMMA CallKeeps ==
  ASSUME InlineCacheAssumption, DispatchInv, NEW t \in Threads, Call(t)
  PROVE  DispatchInv'
  <1>. USE DEF DispatchInv, Call, At, Goto, site, vm, regs
  <1>1. TypeOK'
    BY DEF TypeOK, InlineCacheAssumption, PCs, Imm, Fn, Methods, ReceiverSet, PatchOK, Megamorphic, Monomorphic, Lookup
  <1>2. ReceiverSet' /\ LockHeld' /\ PatchOK' /\ Resolved'
    BY DEF TypeOK, InlineCacheAssumption, ReceiverSet, LockHeld, PatchOK, Resolved, ResolvedPC, Lookup, Megamorphic, Monomorphic, Methods
  <1>3. CacheIsConsistent'
    BY DEF TypeOK, InlineCacheAssumption, CacheIsConsistent, LockHeld, PatchOK, Megamorphic, Monomorphic, ReceiverSet
  <1>4. ASSUME NEW u \in Threads \ disturbed
        PROVE  /\ pc'[u] = "call" => lock = NULL /\ eax[u] = imm
               /\ pc'[u] = "ic_check" => eax[u] \in Classes /\ meth'[u] = Impl[eax[u]]
               /\ pc'[u] # "wild"
               /\ pc'[u] = "body" => meth'[u] = Impl[ecx[u]]
    <2>1. CASE u # t
      BY <1>4, <2>1 DEF TypeOK, FreshOperand, RightMethod
    <2>2. CASE u = t
      <3>1. lock = NULL /\ eax[t] = imm
        BY <1>4, <2>2 DEF FreshOperand
      <3>2. \/ imm = "method" /\ fn = "ic_start"
            \/ imm = "offset" /\ fn = "ic_vcall_stub"
            \/ imm \in Classes /\ fn = Impl[imm] /\ fn \in Methods
        BY <3>1 DEF CacheIsConsistent, Methods
      <3>. QED
        BY <2>2, <3>1, <3>2 DEF TypeOK, InlineCacheAssumption
    <2>. QED
      BY <2>1, <2>2
  <1>5. FreshOperand' /\ RightMethod'
    BY <1>4 DEF FreshOperand, RightMethod
  <1>6. IcEntries'
    BY DEF TypeOK, IcEntries, IcEntryExists
  <1>. QED
    BY <1>1, <1>2, <1>3, <1>4, <1>5, <1>6

\* The check in front of a method keeps the invariant.
LEMMA CheckKeeps ==
  ASSUME InlineCacheAssumption, DispatchInv, NEW t \in Threads, Check(t)
  PROVE  DispatchInv'
  <1>. USE DEF DispatchInv, Check, At, Goto, site, vm, regs
  <1>1. TypeOK'
    BY DEF TypeOK, InlineCacheAssumption, PCs, Imm, Fn, Methods, ReceiverSet, PatchOK, Megamorphic, Monomorphic, Lookup
  <1>2. ReceiverSet' /\ LockHeld' /\ PatchOK' /\ Resolved'
    BY DEF TypeOK, InlineCacheAssumption, ReceiverSet, LockHeld, PatchOK, Resolved, ResolvedPC, Lookup, Megamorphic, Monomorphic, Methods
  <1>3. CacheIsConsistent'
    BY DEF TypeOK, InlineCacheAssumption, CacheIsConsistent, LockHeld, PatchOK, Megamorphic, Monomorphic, ReceiverSet
  <1>4. FreshOperand' /\ RightMethod'
    BY DEF TypeOK, InlineCacheAssumption, CacheIsConsistent, LockHeld, FreshOperand, RightMethod, Resolved, ResolvedPC, Between, Methods, Hit, Imm
  <1>5. IcEntries'
    BY DEF TypeOK, IcEntries, IcEntryExists
  <1>. QED
    BY <1>1, <1>2, <1>3, <1>4, <1>5

\* do_ic_setup keeps the invariant.
LEMMA SetupKeeps ==
  ASSUME InlineCacheAssumption, JniNative = {}, DispatchInv, NEW t \in Threads, Setup(t)
  PROVE  DispatchInv'
  <1>. USE DEF DispatchInv, Setup, At, Goto, site, vm, regs
  <1>1. TypeOK'
    BY DEF TypeOK, InlineCacheAssumption, PCs, Imm, Fn, Methods, ReceiverSet, PatchOK, Megamorphic, Monomorphic, Lookup
  <1>2. ReceiverSet' /\ LockHeld' /\ PatchOK' /\ Resolved'
    BY DEF TypeOK, InlineCacheAssumption, ReceiverSet, LockHeld, PatchOK, Resolved, ResolvedPC, Lookup, Megamorphic, Monomorphic, Methods
  <1>3. CacheIsConsistent'
    BY DEF TypeOK, InlineCacheAssumption, CacheIsConsistent, LockHeld, PatchOK, Megamorphic, Monomorphic, ReceiverSet
  <1>4. FreshOperand' /\ RightMethod'
    BY DEF TypeOK, InlineCacheAssumption, CacheIsConsistent, LockHeld, FreshOperand, RightMethod, Resolved, ResolvedPC, Between, Methods, Hit, Imm
  <1>5. IcEntries'
    BY DEF TypeOK, IcEntries, IcEntryExists
  <1>. QED
    BY <1>1, <1>2, <1>3, <1>4, <1>5

\* Taking ic_patch_lock keeps the invariant.
LEMMA PatchLockKeeps ==
  ASSUME InlineCacheAssumption, DispatchInv, NEW t \in Threads, PatchLock(t)
  PROVE  DispatchInv'
  <1>. USE DEF DispatchInv, PatchLock, At, Goto, site, vm, regs
  <1>1. TypeOK'
    BY DEF TypeOK, PCs, Between
  <1>2. ReceiverSet' /\ LockHeld' /\ PatchOK' /\ Resolved'
    BY DEF TypeOK, InlineCacheAssumption, ReceiverSet, LockHeld, PatchOK, Resolved, ResolvedPC, Lookup, Megamorphic, Monomorphic, Methods
  <1>3. CacheIsConsistent'
    BY DEF TypeOK, InlineCacheAssumption, CacheIsConsistent, LockHeld, PatchOK, Megamorphic, Monomorphic, ReceiverSet
  <1>4. FreshOperand' /\ RightMethod'
    BY DEF TypeOK, InlineCacheAssumption, CacheIsConsistent, LockHeld, FreshOperand, RightMethod, Resolved, ResolvedPC, Between, Methods, Hit, Imm
  <1>5. IcEntries'
    BY DEF TypeOK, IcEntries, IcEntryExists
  <1>. QED
    BY <1>1, <1>2, <1>3, <1>4, <1>5

\* Writing the target of the call keeps the invariant.
LEMMA WriteFnKeeps ==
  ASSUME InlineCacheAssumption, DispatchInv, NEW t \in Threads, WriteFn(t)
  PROVE  DispatchInv'
  <1>. USE DEF DispatchInv, WriteFn, At, Goto, site, vm, regs
  <1>1. TypeOK'
    BY DEF TypeOK, InlineCacheAssumption, PCs, Imm, Fn, Methods, ReceiverSet, PatchOK, Megamorphic, Monomorphic, Lookup
  <1>2. ReceiverSet' /\ LockHeld' /\ PatchOK' /\ Resolved'
    BY DEF TypeOK, InlineCacheAssumption, ReceiverSet, LockHeld, PatchOK, Resolved, ResolvedPC, Lookup, Megamorphic, Monomorphic, Methods
  <1>3. CacheIsConsistent'
    BY DEF TypeOK, InlineCacheAssumption, CacheIsConsistent, LockHeld, PatchOK, Megamorphic, Monomorphic, ReceiverSet
  <1>4. FreshOperand' /\ RightMethod'
    BY DEF TypeOK, InlineCacheAssumption, CacheIsConsistent, LockHeld, FreshOperand, RightMethod, Resolved, ResolvedPC, Between, Methods, Hit, Imm
  <1>5. IcEntries'
    BY DEF TypeOK, IcEntries, IcEntryExists
  <1>. QED
    BY <1>1, <1>2, <1>3, <1>4, <1>5

\* Writing the operand of the mov keeps the invariant.
LEMMA WriteImmKeeps ==
  ASSUME InlineCacheAssumption, DispatchInv, NEW t \in Threads, WriteImm(t)
  PROVE  DispatchInv'
  <1>. USE DEF DispatchInv, WriteImm, At, Goto, site, vm, regs
  <1>1. TypeOK'
    BY DEF TypeOK, InlineCacheAssumption, PCs, Imm, Fn, Methods, ReceiverSet, PatchOK, Megamorphic, Monomorphic, Lookup
  <1>2. ReceiverSet' /\ LockHeld' /\ PatchOK' /\ Resolved'
    BY DEF TypeOK, InlineCacheAssumption, ReceiverSet, LockHeld, PatchOK, Resolved, ResolvedPC, Lookup, Megamorphic, Monomorphic, Methods
  <1>3. CacheIsConsistent'
    BY DEF TypeOK, InlineCacheAssumption, CacheIsConsistent, LockHeld, PatchOK, Megamorphic, Monomorphic, ReceiverSet
  <1>4. FreshOperand' /\ RightMethod'
    BY DEF TypeOK, InlineCacheAssumption, CacheIsConsistent, LockHeld, FreshOperand, RightMethod, Resolved, ResolvedPC, Between, Methods, Hit, Imm
  <1>5. IcEntries'
    BY DEF TypeOK, IcEntries, IcEntryExists
  <1>. QED
    BY <1>1, <1>2, <1>3, <1>4, <1>5

\* The jump to the method keeps the invariant.
LEMMA JumpKeeps ==
  ASSUME InlineCacheAssumption, DispatchInv, NEW t \in Threads, Jump(t)
  PROVE  DispatchInv'
  <1>. USE DEF DispatchInv, Jump, At, Goto, site, vm, regs
  <1>1. TypeOK'
    BY DEF TypeOK, InlineCacheAssumption, PCs, Resolved, ResolvedPC, ReceiverSet, Methods
  <1>2. ReceiverSet' /\ LockHeld' /\ PatchOK' /\ Resolved'
    BY DEF TypeOK, InlineCacheAssumption, ReceiverSet, LockHeld, PatchOK, Resolved, ResolvedPC, Lookup, Megamorphic, Monomorphic, Methods
  <1>3. CacheIsConsistent'
    BY DEF TypeOK, InlineCacheAssumption, CacheIsConsistent, LockHeld, PatchOK, Megamorphic, Monomorphic, ReceiverSet
  <1>4. FreshOperand' /\ RightMethod'
    BY DEF TypeOK, InlineCacheAssumption, CacheIsConsistent, LockHeld, FreshOperand, RightMethod, Resolved, ResolvedPC, Between, Methods, Hit, Imm
  <1>5. IcEntries'
    BY DEF TypeOK, IcEntries, IcEntryExists
  <1>. QED
    BY <1>1, <1>2, <1>3, <1>4, <1>5

\* The return keeps the invariant.
LEMMA ReturnKeeps ==
  ASSUME InlineCacheAssumption, DispatchInv, NEW t \in Threads, Return(t)
  PROVE  DispatchInv'
  <1>. USE DEF DispatchInv, Return, At, Goto, site, vm, regs
  <1>1. TypeOK'
    BY DEF TypeOK, InlineCacheAssumption, PCs, Imm, Fn, Methods, ReceiverSet, PatchOK, Megamorphic, Monomorphic, Lookup
  <1>2. ReceiverSet' /\ LockHeld' /\ PatchOK' /\ Resolved'
    BY DEF TypeOK, InlineCacheAssumption, ReceiverSet, LockHeld, PatchOK, Resolved, ResolvedPC, Lookup, Megamorphic, Monomorphic, Methods
  <1>3. CacheIsConsistent'
    BY DEF TypeOK, InlineCacheAssumption, CacheIsConsistent, LockHeld, PatchOK, Megamorphic, Monomorphic, ReceiverSet
  <1>4. FreshOperand' /\ RightMethod'
    BY DEF TypeOK, InlineCacheAssumption, CacheIsConsistent, LockHeld, FreshOperand, RightMethod, Resolved, ResolvedPC, Between, Methods, Hit, Imm
  <1>5. IcEntries'
    BY DEF TypeOK, IcEntries, IcEntryExists
  <1>. QED
    BY <1>1, <1>2, <1>3, <1>4, <1>5

-----------------------------------------------------------------------------
(* Theorems                                                                *)

LEMMA DispatchInit ==
  ASSUME InlineCacheAssumption, Init
  PROVE  DispatchInv
  BY DEF Init, InlineCacheAssumption, DispatchInv, TypeOK, Imm, Fn, PCs, Methods, ReceiverSet,
     LockHeld, PatchOK, Resolved, ResolvedPC, CacheIsConsistent, FreshOperand,
     RightMethod, IcEntries, IcEntryExists

LEMMA DispatchStep ==
  ASSUME InlineCacheAssumption, JniNative = {}, DispatchInv, [Next]_vars
  PROVE  DispatchInv'
  <1>1. CASE UNCHANGED vars
    BY <1>1 DEF vars, DispatchInv, TypeOK, ReceiverSet, LockHeld, PatchOK, Resolved,
       CacheIsConsistent, FreshOperand, RightMethod, IcEntries, IcEntryExists
  <1>2. CASE Next
    BY <1>2, LoadClassKeeps, LoadImmKeeps, CallKeeps, CheckKeeps, SetupKeeps,
       PatchLockKeeps, WriteFnKeeps, WriteImmKeeps, JumpKeeps, ReturnKeeps
    DEF Next
  <1>. QED
    BY <1>1, <1>2

\* Besides the two properties below: what a thread has in its registers on
\* the way through arch/x86/inline-cache.c, and who holds ic_patch_lock.
THEOREM DispatchInvariant == JniNative = {} => (Spec => []DispatchInv)
  <1>. SUFFICES ASSUME JniNative = {}
                PROVE  Spec => []DispatchInv
    OBVIOUS
  <1>1. Init => DispatchInv
    BY DispatchInit, InlineCacheAssumption
  <1>2. DispatchInv /\ [Next]_vars => DispatchInv'
    BY DispatchStep, InlineCacheAssumption
  <1>. QED
    BY <1>1, <1>2, PTL DEF Spec

\* The operand and the target of the call site belong together whenever
\* nobody holds ic_patch_lock, whichever threads have patched the site before.
THEOREM ConsistentCache == JniNative = {} => (Spec => []CacheIsConsistent)
  <1>1. DispatchInv => CacheIsConsistent
    BY DEF DispatchInv
  <1>. QED
    BY <1>1, DispatchInvariant, PTL

\* A virtual call that no patch of its site overlaps reaches the method of
\* the receiver's class, for every class hierarchy without native methods and
\* any number of threads.
THEOREM UndisturbedCallsDispatch ==
  (VmNative = {} /\ JniNative = {}) => (Spec => []UndisturbedDispatch)
  <1>. SUFFICES ASSUME VmNative = {}, JniNative = {}
                PROVE  Spec => []UndisturbedDispatch
    OBVIOUS
  <1>1. DispatchInv => UndisturbedDispatch
    BY DEF DispatchInv, RightMethod, IcEntries, IcEntryExists, UndisturbedDispatch
  <1>. QED
    BY <1>1, DispatchInvariant, PTL
=============================================================================
