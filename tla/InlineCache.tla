---------------------------- MODULE InlineCache ----------------------------
(***************************************************************************)
(* One invokevirtual call site with an inline cache (arch/x86/             *)
(* inline-cache.c, 32-bit code).  The site is two instructions,            *)
(*     mov $imm, %eax ; call fn                                            *)
(* and the class of the receiver is in %ecx.  imm and fn are patched, in   *)
(* two writes, while other threads execute them:                           *)
(*     imm = the method        fn = ic_start           not used yet        *)
(*     imm = a class           fn = ic entry of a method   monomorphic     *)
(*     imm = a vtable offset   fn = ic_vcall_stub      megamorphic         *)
(* Any other pair that a thread happens to load is used all the same.      *)
(***************************************************************************)
EXTENDS FiniteSets

CONSTANTS
  Threads,
  Classes,    \* classes of the receivers
  Impl,       \* class -> the method its vtable entry stands for
  ClassOf,    \* method -> the class that declares it
  VmNative,   \* native methods that are linked to a C function from the start
  JniNative,  \* native methods that are linked by their trampoline
  NULL

Methods == {Impl[c] : c \in Classes}

ASSUME InlineCacheAssumption ==
  /\ NULL \notin Threads \cup Classes \cup Methods
  /\ {"method", "offset"} \cap Classes = {}
  /\ {"ic_start", "ic_vcall_stub"} \cap Methods = {}
  /\ ClassOf \in [Methods -> Classes]
  /\ VmNative \subseteq Methods /\ JniNative \subseteq Methods

VARIABLES
  imm,        \* operand of the mov
  fn,         \* target of the call; a method stands for its ic entry
  lock,       \* holder of ic_patch_lock
  compiled,   \* methods whose unit is COMPILATION_STATE_COMPILED
  direct,     \* classes whose vtable entry is code and not a trampoline
  pc, ecx, eax,
  patch,      \* thread -> what it is about to write
  meth,       \* thread -> the method it is in or on its way to
  disturbed   \* threads whose mov and call had a patch around them

vars == <<imm, fn, lock, compiled, direct, pc, ecx, eax, patch, meth, disturbed>>
site == <<imm, fn, lock>>
vm == <<compiled, direct>>
regs == <<ecx, eax, disturbed>>

Imm == {"method", "offset"} \cup Classes
Fn == {"ic_start", "ic_vcall_stub"} \cup Methods
PCs == {"java", "mov", "call", "ic_start", "ic_check", "lock", "fn", "imm",
        "call_ptr", "vtable", "body", "assert", "wild"}

\* Every variable keeps its type.
TypeOK ==
  /\ imm \in Imm /\ fn \in Fn
  /\ lock \in Threads \cup {NULL}
  /\ compiled \subseteq Methods
  /\ direct \subseteq Classes
  /\ pc \in [Threads -> PCs]
  /\ ecx \in [Threads -> Classes \cup {NULL}]
  /\ eax \in [Threads -> Imm \cup {NULL}]
  /\ patch \in [Threads -> [fn : Fn, imm : Imm] \cup {NULL}]
  /\ meth \in [Threads -> Methods \cup {NULL}]
  /\ disturbed \subseteq Threads

\* convert_ic_calls emits the site; vm_method_prepare_jit links VM natives.
Init ==
  /\ imm = "method" /\ fn = "ic_start"
  /\ lock = NULL
  /\ compiled = VmNative
  /\ direct = {c \in Classes : Impl[c] \in VmNative}
  /\ pc = [t \in Threads |-> "java"]
  /\ ecx = [t \in Threads |-> NULL]
  /\ eax = [t \in Threads |-> NULL]
  /\ patch = [t \in Threads |-> NULL]
  /\ meth = [t \in Threads |-> NULL]
  /\ disturbed = {}

Goto(t, label) == pc' = [pc EXCEPT ![t] = label]

\* The process ends where an assertion fails or a thread jumps nowhere.
Alive == \A t \in Threads : pc[t] \notin {"assert", "wild"}

At(t, label) == Alive /\ pc[t] = label

-----------------------------------------------------------------------------
(* The call site                                                           *)

\* mov class(%this), %ecx: a receiver of class c
LoadClass(t, c) ==
  /\ At(t, "java")
  /\ ecx' = [ecx EXCEPT ![t] = c]
  /\ Goto(t, "mov")
  /\ UNCHANGED <<site, vm, eax, patch, meth, disturbed>>

LoadImm(t) ==
  /\ At(t, "mov")
  /\ eax' = [eax EXCEPT ![t] = imm]
  /\ disturbed' = IF lock = NULL THEN disturbed \ {t} ELSE disturbed \cup {t}
  /\ Goto(t, "call")
  /\ UNCHANGED <<site, vm, ecx, patch, meth>>

\* ic_vcall_stub adds %eax to the vtable, whatever %eax is.
Call(t) ==
  /\ At(t, "call")
  /\ \/ /\ fn = "ic_start"
        /\ Goto(t, "ic_start")
        /\ UNCHANGED meth
     \/ /\ fn = "ic_vcall_stub" /\ eax[t] = "offset"
        /\ meth' = [meth EXCEPT ![t] = Impl[ecx[t]]]
        /\ Goto(t, "vtable")
     \/ /\ fn = "ic_vcall_stub" /\ eax[t] # "offset"
        /\ Goto(t, "wild")
        /\ UNCHANGED meth
     \/ /\ fn \in Methods
        /\ meth' = [meth EXCEPT ![t] = fn]
        /\ Goto(t, "ic_check")
  /\ UNCHANGED <<site, vm, regs, patch>>

\* emit_ic_check
Hit(t) == eax[t] = ecx[t]

\* The check in front of a method, and its miss handler, which goes on with
\* resolve_ic_miss.
Check(t) ==
  /\ At(t, "ic_check")
  /\ IF Hit(t)
     THEN Goto(t, "body") /\ UNCHANGED <<patch, meth>>
     ELSE /\ patch' = [patch EXCEPT
                         ![t] = [fn |-> "ic_vcall_stub", imm |-> "offset"]]
          /\ meth' = [meth EXCEPT ![t] = Impl[ecx[t]]]
          /\ Goto(t, "lock")
  /\ UNCHANGED <<site, vm, regs>>

\* The units jit_lookup_cu can find for the vtable entry of class c.
\* jit_jni_trampoline enters the address of the C function and not that of the
\* code it emits, so the lookup finds whatever lies before that code.
Lookup(c) ==
  IF Impl[c] \in JniNative /\ c \in direct THEN Methods ELSE {Impl[c]}

\* do_ic_setup patches the site for a method that is compiled, which a linked
\* native method is too; ic_set_to_monomorphic asserts that it has an ic entry.
Setup(t) ==
  /\ At(t, "ic_start")
  /\ \E c_vmm \in Lookup(ecx[t]) :
       LET hasEntry == c_vmm \in compiled \ (VmNative \cup JniNative) IN
       /\ meth' = [meth EXCEPT ![t] = c_vmm]
       /\ patch' = [patch EXCEPT
                      ![t] = IF hasEntry THEN [fn |-> c_vmm, imm |-> ecx[t]] ELSE @]
       /\ Goto(t, CASE c_vmm \notin compiled -> "call_ptr"
                    [] hasEntry -> "lock"
                    [] OTHER -> "assert")
  /\ UNCHANGED <<site, vm, regs>>

-----------------------------------------------------------------------------
(* ic_set_to_monomorphic and ic_set_to_megamorphic                         *)

\* Threads that have loaded imm and not yet called
Between == {u \in Threads : pc[u] = "call"}

\* Mutant of PatchLock: the writes are not serialised.
PatchLockIgnored(t) ==
  /\ At(t, "lock")
  /\ lock' = t
  /\ disturbed' = disturbed \cup Between
  /\ Goto(t, "fn")
  /\ UNCHANGED <<imm, fn, vm, ecx, eax, patch, meth>>

PatchLock(t) ==
  /\ At(t, "lock")
  /\ lock = NULL
  /\ lock' = t
  /\ disturbed' = disturbed \cup Between
  /\ Goto(t, "fn")
  /\ UNCHANGED <<imm, fn, vm, ecx, eax, patch, meth>>

WriteFn(t) ==
  /\ At(t, "fn")
  /\ fn' = patch[t].fn
  /\ Goto(t, "imm")
  /\ UNCHANGED <<imm, lock, vm, regs, patch, meth>>

WriteImm(t) ==
  /\ At(t, "imm")
  /\ imm' = patch[t].imm
  /\ lock' = NULL
  /\ patch' = [patch EXCEPT ![t] = NULL]
  /\ Goto(t, IF patch[t].imm = "offset" THEN "vtable" ELSE "call_ptr")
  /\ UNCHANGED <<fn, vm, regs, meth>>

-----------------------------------------------------------------------------
(* The method                                                              *)

\* The jump goes to the vtable entry, or to the code of the method if
\* vm_method_call_ptr finds it compiled; otherwise to its trampoline.
ThroughTrampoline(t) ==
  IF pc[t] = "vtable" THEN ecx[t] \notin direct ELSE meth[t] \notin compiled

\* The trampoline compiles the method, and fixup_vtable patches the entry of
\* the receiver's class, if it is that trampoline, and of the declaring class.
Jump(t) ==
  /\ At(t, "vtable") \/ At(t, "call_ptr")
  /\ IF ThroughTrampoline(t)
     THEN /\ compiled' = compiled \cup {meth[t]}
          /\ direct' = direct \cup {ClassOf[meth[t]]}
                              \cup {c \in {ecx[t]} : Impl[c] = meth[t]}
     ELSE UNCHANGED vm
  /\ Goto(t, "body")
  /\ UNCHANGED <<site, regs, patch, meth>>

Return(t) ==
  /\ At(t, "body")
  /\ ecx' = [ecx EXCEPT ![t] = NULL]
  /\ eax' = [eax EXCEPT ![t] = NULL]
  /\ meth' = [meth EXCEPT ![t] = NULL]
  /\ disturbed' = disturbed \ {t}
  /\ Goto(t, "java")
  /\ UNCHANGED <<site, vm, patch>>

Next ==
  \E t \in Threads :
    \/ \E c \in Classes : LoadClass(t, c)
    \/ LoadImm(t) \/ Call(t) \/ Check(t) \/ Setup(t)
    \/ PatchLock(t) \/ WriteFn(t) \/ WriteImm(t)
    \/ Jump(t) \/ Return(t)

Spec == Init /\ [][Next]_vars

-----------------------------------------------------------------------------
(* Properties                                                              *)

\* Whenever nobody patches, the two operands belong together: ic_patch_lock
\* keeps two patches from mixing.
CacheIsConsistent ==
  lock = NULL =>
    \/ imm = "method" /\ fn = "ic_start"
    \/ imm = "offset" /\ fn = "ic_vcall_stub"
    \/ imm \in Classes /\ fn = Impl[imm]

\* A call that no patch overlaps reaches the method of the receiver's class,
\* in every state of the cache and whether that method is compiled or not:
\* it neither jumps nowhere nor ends in a failed assertion of do_ic_setup.
UndisturbedDispatch ==
  \A t \in Threads \ disturbed :
    /\ pc[t] \notin {"wild", "assert"}
    /\ pc[t] = "body" => meth[t] = Impl[ecx[t]]

\* Every call reaches the method of the receiver's class, as the test
\* MethodInvokeVirtualTest expects of a site that was monomorphic.
VirtualDispatch ==
  \A t \in Threads :
    /\ pc[t] # "wild"
    /\ pc[t] = "body" => meth[t] = Impl[ecx[t]]

\* ic_set_to_monomorphic finds an ic entry in the method it is given, as its
\* assertion on ic_entry_point says.
IcEntryExists == \A t \in Threads : pc[t] # "assert"
=============================================================================
