----------------------------- MODULE Trampoline -----------------------------
(***************************************************************************)
(* Lazy compilation: jit_magic_trampoline of jit/trampoline.c with the     *)
(* compilation units, the call sites, static field accesses and vtable     *)
(* entries that are patched once there is code to point at.                *)
(*                                                                         *)
(* A thread is a stack of frames.  A frame is either in the trampoline of  *)
(* its method or in the method's compiled code ("body"), where every call  *)
(* site and field access is executed at most once, in any order.           *)
(*                                                                         *)
(* Lists that are only touched under one mutex (fixup_site_list under      *)
(* jit_trampoline.mutex, static_fixup_site_list under vm_class.mutex) are  *)
(* updated in one step.  vm_class_ensure_init is reduced to what ClassInit *)
(* shows of it.  An exception is set only by a failed compilation and its  *)
(* consequences.                                                           *)
(***************************************************************************)
EXTENDS Naturals, Sequences, FiniteSets

CONSTANTS
  Threads, Methods, Classes,
  Entry,          \* methods the VM itself calls
  ClassOf,        \* method -> the class that declares it
  StaticMethods,
  Clinit,         \* class -> its <clinit>, or NULL
  Calls,          \* method -> methods it calls with EXPR_INVOKE
  Receivers,      \* method -> classes of the objects it uses invokevirtual on
  Fields,         \* method -> classes whose static fields it uses
  Slot,           \* class -> the method of its one vtable entry, or NULL
  Sub,            \* class -> the classes whose objects are instances of it
  CanFail,        \* methods whose compilation may fail
  NULL

\* Methods that are called with an object and have a vtable entry
Virtual == {Slot[c] : c \in Classes} \ {NULL}

ASSUME TrampolineAssumption ==
  /\ NULL \notin Threads \cup Methods \cup Classes
                   \cup ({"trampoline", "code"} \X Methods)
  /\ Entry \subseteq Methods
  /\ StaticMethods \subseteq Methods
  /\ CanFail \subseteq Methods
  /\ ClassOf \in [Methods -> Classes]
  /\ Clinit \in [Classes -> StaticMethods \cup {NULL}]
  /\ Calls \in [Methods -> SUBSET Methods]
  /\ Receivers \in [Methods -> SUBSET Classes]
  /\ Fields \in [Methods -> SUBSET Classes]
  /\ Slot \in [Classes -> Methods \cup {NULL}]
  /\ Sub \in [Classes -> SUBSET Classes]
  /\ Virtual \cap StaticMethods = {}
  /\ \A m \in Virtual : Slot[ClassOf[m]] = m
  /\ {"linked", "initialized", "erroneous"} \cap Threads = {}

VARIABLES
  state,      \* method -> cu->state
  mutex,      \* method -> the thread that holds cu->compile_mutex
  arena,      \* methods whose unit has the memory it is compiled in
  emitted,    \* methods whose machine code is written
  resolved,   \* methods whose fixup sites know their offset in the code
  mapped,     \* methods that jit_lookup_cu finds
  target,     \* <<m, k>> -> where the call of k in the code of m goes
  cuCalls,    \* method -> callees on cu->call_fixup_site_list
  fixups,     \* method -> callers on its trampoline's fixup_site_list
  access,     \* <<m, c>> -> what the static access in the code of m uses
  cuStatics,  \* method -> classes on cu->static_fixup_site_list
  vmcStatics, \* class -> methods on vmc->static_fixup_site_list
  vtable,     \* class -> its vtable entry: trampoline or code of a method
  init,       \* class -> its state; while it is initialised, the thread
  stack,      \* thread -> its frames, innermost first
  exc,        \* threads with a pending exception
  corrupt     \* the VM has read or written through a dead pointer

unit == <<state, mutex, arena, emitted, resolved, mapped>>
callSites == <<target, cuCalls, fixups>>
staticSites == <<access, cuStatics, vmcStatics>>
thread == <<stack, exc>>
vars == <<unit, callSites, staticSites, vtable, init, thread, corrupt>>

CallSites == {s \in Methods \X Methods : s[2] \in Calls[s[1]]}
StaticSites == {s \in Methods \X Classes : s[2] \in Fields[s[1]]}

CompilePC == {"select", "move", "map", "publish"}
TrampolinePC == {"enter", "init", "clinit", "state", "lock", "unlock", "fixup",
                 "patch", "vtable", "declaring"} \cup CompilePC
BodyPC == {"body", "trapInit", "trapClinit", "patchStatic"}

\* What a frame has left to do: sites of its method, by the name of the callee,
\* of the receiver's class or of the field's class
Site == [kind : {"call"}, to : Methods] \cup
        [kind : {"virtual", "static"}, to : Classes]

Frame == [m : Methods, pc : TrampolinePC \cup BodyPC, recv : Classes \cup {NULL},
          left : SUBSET Site, cls : Classes \cup {NULL}, ret : BOOLEAN]

\* Every variable keeps its type.
TypeOK ==
  /\ state \in [Methods -> {"initial", "compiling", "compiled"}]
  /\ mutex \in [Methods -> Threads \cup {NULL}]
  /\ {arena, emitted, resolved, mapped} \subseteq SUBSET Methods
  /\ target \in [CallSites -> {"none", "trampoline", "code"}]
  /\ cuCalls \in [Methods -> SUBSET Methods]
  /\ fixups \in [Methods -> SUBSET Methods]
  /\ access \in [StaticSites -> {"none", "guard", "field"}]
  /\ cuStatics \in [Methods -> SUBSET Classes]
  /\ vmcStatics \in [Classes -> SUBSET Methods]
  /\ vtable \in [Classes -> ({"trampoline", "code"} \X Virtual) \cup {NULL}]
  /\ init \in [Classes -> {"linked", "initialized", "erroneous"} \cup Threads]
  /\ stack \in [Threads -> Seq(Frame)]
  /\ exc \subseteq Threads
  /\ corrupt \in BOOLEAN

\* compilation_unit_alloc, build_jit_trampoline, setup_vtable
Init ==
  /\ state = [m \in Methods |-> "initial"]
  /\ mutex = [m \in Methods |-> NULL]
  /\ arena = Methods
  /\ emitted = {} /\ resolved = {} /\ mapped = {}
  /\ target = [s \in CallSites |-> "none"]
  /\ cuCalls = [m \in Methods |-> {}]
  /\ fixups = [m \in Methods |-> {}]
  /\ access = [s \in StaticSites |-> "none"]
  /\ cuStatics = [m \in Methods |-> {}]
  /\ vmcStatics = [c \in Classes |-> {}]
  /\ vtable = [c \in Classes |-> IF Slot[c] = NULL THEN NULL
                                 ELSE <<"trampoline", Slot[c]>>]
  /\ init = [c \in Classes |-> "linked"]
  /\ stack = [t \in Threads |-> <<>>]
  /\ exc = {}
  /\ corrupt = FALSE

-----------------------------------------------------------------------------
(* Frames                                                                  *)

Top(t) == Head(stack[t])

\* Thread t runs and its innermost frame is at `label'.
At(t, label) ==
  /\ ~corrupt
  /\ t \notin exc
  /\ stack[t] # <<>>
  /\ Top(t).pc = label

SetTop(t, frame) ==
  /\ stack' = [stack EXCEPT ![t] = <<frame>> \o Tail(@)]
  /\ UNCHANGED exc

Goto(t, label) == SetTop(t, [Top(t) EXCEPT !.pc = label])

Pop(t) == stack' = [stack EXCEPT ![t] = Tail(@)]

Sites(m) == [kind : {"call"}, to : Calls[m]] \cup
            [kind : {"virtual"}, to : Receivers[m]] \cup
            [kind : {"static"}, to : Fields[m]]

\* The frame of a call of m through a pointer to its trampoline or its code
NewFrame(m, where, recv) ==
  [m |-> m, pc |-> IF where = "code" THEN "body" ELSE "enter", recv |-> recv,
   left |-> IF where = "code" THEN Sites(m) ELSE {}, cls |-> NULL, ret |-> FALSE]

Throw(t) ==
  /\ exc' = exc \cup {t}
  /\ Pop(t)

\* Objects a virtual method can be called on
Instances(m) == IF m \in Virtual THEN Sub[ClassOf[m]] ELSE {NULL}

-----------------------------------------------------------------------------
(* Class initialisation, as ClassInit shows it                             *)

\* vm_class_ensure_init(cls) of the innermost frame: `next' follows success,
\* `clinit' is where the frame waits for <clinit>.
EnsureInit(t, label, next, clinit) ==
  LET c == Top(t).cls IN
  /\ At(t, label)
  /\ \/ /\ init[c] \in {"initialized", t}
        /\ Goto(t, next)
        /\ UNCHANGED init
     \/ /\ init[c] = "erroneous"
        /\ Throw(t)
        /\ UNCHANGED init
     \/ /\ init[c] = "linked"
        /\ init' = [init EXCEPT ![c] = t]
        /\ stack' = [stack EXCEPT ![t] =
             (IF Clinit[c] = NULL THEN <<>>
              ELSE <<NewFrame(Clinit[c], "trampoline", NULL)>>)
             \o <<[Top(t) EXCEPT !.pc = clinit]>> \o Tail(@)]
        /\ UNCHANGED exc
  /\ UNCHANGED <<unit, callSites, staticSites, vtable, corrupt>>

\* <clinit> has returned to vm_class_init.
InitDone(t, label, next) ==
  /\ At(t, label)
  /\ init' = [init EXCEPT ![Top(t).cls] = "initialized"]
  /\ Goto(t, next)
  /\ UNCHANGED <<unit, callSites, staticSites, vtable, corrupt>>

-----------------------------------------------------------------------------
(* jit_magic_trampoline                                                    *)

Enter(t) ==
  LET m == Top(t).m IN
  /\ At(t, "enter")
  /\ IF m \in StaticMethods
       THEN SetTop(t, [Top(t) EXCEPT !.pc = "init", !.cls = ClassOf[m]])
       ELSE Goto(t, "state")
  /\ UNCHANGED <<unit, callSites, staticSites, vtable, init, corrupt>>

\* compilation_unit_get_state: a unit that somebody has locked counts as
\* being compiled.
GetState(t) ==
  LET m == Top(t).m IN
  /\ At(t, "state")
  /\ IF mutex[m] = NULL /\ state[m] = "compiled"
       THEN SetTop(t, [Top(t) EXCEPT !.pc = "fixup", !.ret = TRUE])
       ELSE Goto(t, "lock")
  /\ UNCHANGED <<unit, callSites, staticSites, vtable, init, corrupt>>

\* The state is read again under compile_mutex.  Compiling needs the arena.
Lock(t) ==
  LET m == Top(t).m IN
  /\ At(t, "lock")
  /\ mutex[m] = NULL
  /\ mutex' = [mutex EXCEPT ![m] = t]
  /\ IF state[m] = "compiled"
       THEN /\ SetTop(t, [Top(t) EXCEPT !.pc = "unlock", !.ret = TRUE])
            /\ UNCHANGED <<state, corrupt>>
       ELSE /\ SetTop(t, [Top(t) EXCEPT !.pc = "select", !.left = Sites(m)])
            /\ state' = [state EXCEPT ![m] = "compiling"]
            /\ corrupt' = (m \notin arena)
  /\ UNCHANGED <<arena, emitted, resolved, mapped, callSites, staticSites,
                 vtable, init>>

\* Instruction selection of a call of k: its code if `direct', else its
\* trampoline; the site is put on cu->call_fixup_site_list if `noted'.
SelectCallAs(t, k, direct, noted) ==
  LET f == Top(t)
      site == [kind |-> "call", to |-> k]
  IN
  /\ At(t, "select")
  /\ site \in f.left
  /\ SetTop(t, [f EXCEPT !.left = @ \ {site}])
  /\ target' = [target EXCEPT ![<<f.m, k>>] = IF direct THEN "code" ELSE "trampoline"]
  /\ cuCalls' = [cuCalls EXCEPT ![f.m] = IF noted THEN @ \cup {k} ELSE @]
  /\ UNCHANGED <<unit, fixups, staticSites, vtable, init, corrupt>>

\* Mutant of SelectCall: takes the code of a method that is being compiled.
SelectCallEarly(t, k) ==
  SelectCallAs(t, k, state[k] # "initial", state[k] = "initial")

\* A callee without code is called through its trampoline, and the call is
\* noted.
SelectCall(t, k) ==
  SelectCallAs(t, k, state[k] = "compiled", state[k] # "compiled")

\* Instruction selection of an access to a static field of c: a class whose
\* initialisation has not started is accessed through the guard page, and the
\* site is put on the lists of its class and, if `both', of its unit.
SelectStaticAs(t, c, both) ==
  LET f == Top(t)
      site == [kind |-> "static", to |-> c]
      direct == init[c] # "linked"
  IN
  /\ At(t, "select")
  /\ site \in f.left
  /\ SetTop(t, [f EXCEPT !.left = @ \ {site}])
  /\ access' = [access EXCEPT ![<<f.m, c>>] = IF direct THEN "field" ELSE "guard"]
  /\ vmcStatics' = [vmcStatics EXCEPT ![c] = IF direct THEN @ ELSE @ \cup {f.m}]
  /\ cuStatics' = [cuStatics EXCEPT ![f.m] = IF direct \/ ~both THEN @ ELSE @ \cup {c}]
  /\ UNCHANGED <<unit, callSites, vtable, init, corrupt>>

\* Mutant of SelectStatic: tells the class of the site only.
SelectStaticOneList(t, c) == SelectStaticAs(t, c, FALSE)

SelectStatic(t, c) == SelectStaticAs(t, c, TRUE)

\* A pass of do_compile up to emit_machine_code fails, or build_bc_offset_map
\* once the call sites are handed over, or add_cu_mapping finds no memory.
CompileFails(t) ==
  /\ \/ At(t, "select")
     \/ At(t, "move") /\ cuCalls[Top(t).m] = {}
     \/ At(t, "map")
  /\ Top(t).m \in CanFail
  /\ SetTop(t, [Top(t) EXCEPT !.pc = "publish", !.left = {}])
  /\ UNCHANGED <<unit, callSites, staticSites, vtable, init, corrupt>>

\* emit_machine_code up to the fixup sites
EmitMachineCode(t) ==
  LET f == Top(t) IN
  /\ At(t, "select")
  /\ \A s \in f.left : s.kind = "virtual"
  /\ emitted' = emitted \cup {f.m}
  /\ SetTop(t, [f EXCEPT !.pc = "move", !.left = {}])
  /\ UNCHANGED <<state, mutex, arena, resolved, mapped, callSites, staticSites,
                 vtable, init, corrupt>>

\* process_call_fixup_sites hands one call site to the callee's trampoline.
MoveSite(t, k) ==
  LET m == Top(t).m IN
  /\ At(t, "move")
  /\ k \in cuCalls[m]
  /\ cuCalls' = [cuCalls EXCEPT ![m] = @ \ {k}]
  /\ fixups' = [fixups EXCEPT ![k] = @ \cup {m}]
  /\ UNCHANGED <<unit, target, staticSites, vtable, init, thread, corrupt>>

\* resolve_fixup_offsets, at the end of do_compile
ResolveOffsets(t) ==
  LET m == Top(t).m IN
  /\ At(t, "move")
  /\ cuCalls[m] = {}
  /\ resolved' = resolved \cup {m}
  /\ Goto(t, "map")
  /\ UNCHANGED <<state, mutex, arena, emitted, mapped, callSites, staticSites,
                 vtable, init, corrupt>>

\* add_cu_mapping
AddMapping(t) ==
  LET m == Top(t).m IN
  /\ At(t, "map")
  /\ mapped' = mapped \cup {m}
  /\ SetTop(t, [Top(t) EXCEPT !.pc = "publish", !.ret = TRUE])
  /\ UNCHANGED <<state, mutex, arena, emitted, resolved, callSites, staticSites,
                 vtable, init, corrupt>>

\* The new state of the unit and shrink_compilation_unit
Publish(t) ==
  LET m == Top(t).m IN
  /\ At(t, "publish")
  /\ state' = [state EXCEPT ![m] = IF Top(t).ret THEN "compiled" ELSE "initial"]
  /\ arena' = arena \ {m}
  /\ Goto(t, "unlock")
  /\ UNCHANGED <<mutex, emitted, resolved, mapped, callSites, staticSites,
                 vtable, init, corrupt>>

\* Mutant of Unlock: keeps compile_mutex when there is no code to return.
UnlockOnSuccess(t) ==
  LET m == Top(t).m IN
  /\ At(t, "unlock")
  /\ mutex' = IF Top(t).ret THEN [mutex EXCEPT ![m] = NULL] ELSE mutex
  /\ IF Top(t).ret THEN Goto(t, "fixup") ELSE Throw(t)
  /\ UNCHANGED <<state, arena, emitted, resolved, mapped, callSites, staticSites,
                 vtable, init, corrupt>>

Unlock(t) ==
  LET m == Top(t).m IN
  /\ At(t, "unlock")
  /\ mutex' = [mutex EXCEPT ![m] = NULL]
  /\ IF Top(t).ret THEN Goto(t, "fixup") ELSE Throw(t)
  /\ UNCHANGED <<state, arena, emitted, resolved, mapped, callSites, staticSites,
                 vtable, init, corrupt>>

Jump(t) == SetTop(t, NewFrame(Top(t).m, "code", Top(t).recv))

AfterFixup(t) == IF Top(t).m \in Virtual THEN Goto(t, "vtable") ELSE Jump(t)

\* fixup_direct_calls looks at the list before it takes the mutex.
FixupEmpty(t) ==
  LET m == Top(t).m IN
  /\ At(t, "fixup")
  /\ IF fixups[m] = {} THEN AfterFixup(t) ELSE Goto(t, "patch")
  /\ UNCHANGED <<unit, callSites, staticSites, vtable, init, corrupt>>

FixupDirectCalls(t) ==
  LET m == Top(t).m IN
  /\ At(t, "patch")
  /\ target' = [s \in CallSites |->
                  IF s[2] = m /\ s[1] \in fixups[m] THEN "code" ELSE target[s]]
  /\ fixups' = [fixups EXCEPT ![m] = {}]
  /\ AfterFixup(t)
  /\ UNCHANGED <<unit, cuCalls, staticSites, vtable, init, corrupt>>

\* Mutant of FixupVtable: does not look at the entry before it writes it.
FixupVtableBlindly(t) ==
  LET f == Top(t) IN
  /\ At(t, "vtable")
  /\ vtable' = [vtable EXCEPT ![f.recv] = <<"code", f.m>>]
  /\ Goto(t, "declaring")
  /\ UNCHANGED <<unit, callSites, staticSites, init, corrupt>>

\* fixup_vtable: the entry of the class of `this' if it is the trampoline ...
FixupVtable(t) ==
  LET f == Top(t) IN
  /\ At(t, "vtable")
  /\ vtable' = IF vtable[f.recv] = <<"trampoline", f.m>>
                 THEN [vtable EXCEPT ![f.recv] = <<"code", f.m>>] ELSE vtable
  /\ Goto(t, "declaring")
  /\ UNCHANGED <<unit, callSites, staticSites, init, corrupt>>

\* ... and the entry of the class that declares the method
FixupDeclaring(t) ==
  LET f == Top(t) IN
  /\ At(t, "declaring")
  /\ vtable' = [vtable EXCEPT ![ClassOf[f.m]] = <<"code", f.m>>]
  /\ Jump(t)
  /\ UNCHANGED <<unit, callSites, staticSites, init, corrupt>>

-----------------------------------------------------------------------------
(* Compiled code                                                           *)

\* The VM calls a method: vm_call_method.  call_method_a has set a pending
\* exception aside.
Invoke(t, m) ==
  /\ ~corrupt
  /\ stack[t] = <<>> /\ t \notin exc
  /\ m \in Entry
  /\ \E c \in Instances(m) :
       stack' = [stack EXCEPT ![t] =
         <<NewFrame(m, IF state[m] = "compiled" THEN "code" ELSE "trampoline", c)>>]
  /\ UNCHANGED <<unit, callSites, staticSites, vtable, init, exc, corrupt>>

\* The code of the innermost frame calls m through a pointer and will not
\* come back to `site'.
CallFrom(t, site, m, where, recv) ==
  /\ At(t, "body")
  /\ site \in Top(t).left
  /\ stack' = [stack EXCEPT ![t] =
       <<NewFrame(m, where, recv), [Top(t) EXCEPT !.left = @ \ {site}]>> \o Tail(@)]
  /\ UNCHANGED <<unit, callSites, staticSites, vtable, init, exc, corrupt>>

ExecuteCall(t, k) ==
  /\ At(t, "body")
  /\ k \in Calls[Top(t).m]
  /\ \E c \in Instances(k) :
       CallFrom(t, [kind |-> "call", to |-> k], k, target[<<Top(t).m, k>>], c)

ExecuteVirtual(t, c) ==
  /\ vtable[c] # NULL
  /\ CallFrom(t, [kind |-> "virtual", to |-> c], vtable[c][2], vtable[c][1], c)

\* A static access that has been patched or never needed it uses the field.
ExecuteStatic(t, c) ==
  LET f == Top(t)
      site == [kind |-> "static", to |-> c]
  IN
  /\ At(t, "body")
  /\ site \in f.left
  /\ access[<<f.m, c>>] = "field"
  /\ SetTop(t, [f EXCEPT !.left = @ \ {site}])
  /\ UNCHANGED <<unit, callSites, staticSites, vtable, init, corrupt>>

\* A static access faults on the guard page: static_field_signal_bh calls
\* fixup_static_at, which finds the site on the list of the unit.
Trap(t, c) ==
  LET f == Top(t) IN
  /\ At(t, "body")
  /\ [kind |-> "static", to |-> c] \in f.left
  /\ access[<<f.m, c>>] = "guard"
  /\ c \in cuStatics[f.m]
  /\ SetTop(t, [f EXCEPT !.pc = "trapInit", !.cls = c])
  /\ UNCHANGED <<unit, callSites, staticSites, vtable, init, corrupt>>

\* fixup_static patches every site of the class.  A site whose code is not
\* written yet, or whose offset is not known, sends it astray.
FixupStatic(t) ==
  LET c == Top(t).cls IN
  /\ At(t, "patchStatic")
  /\ corrupt' = ~(vmcStatics[c] \subseteq emitted \cap resolved)
  /\ access' = [s \in StaticSites |->
                  IF s[2] = c /\ s[1] \in vmcStatics[c] THEN "field" ELSE access[s]]
  /\ cuStatics' = [m \in Methods |->
                     IF m \in vmcStatics[c] THEN cuStatics[m] \ {c} ELSE cuStatics[m]]
  /\ vmcStatics' = [vmcStatics EXCEPT ![c] = {}]
  /\ Goto(t, "body")
  /\ UNCHANGED <<unit, callSites, vtable, init>>

Return(t) ==
  /\ At(t, "body")
  /\ Pop(t)
  /\ UNCHANGED <<unit, callSites, staticSites, vtable, init, exc, corrupt>>

-----------------------------------------------------------------------------
(* A pending exception                                                     *)

\* The code has a handler, or nobody is left to throw to.
Catch(t) ==
  /\ ~corrupt
  /\ t \in exc
  /\ stack[t] # <<>> => Top(t).pc = "body"
  /\ exc' = exc \ {t}
  /\ UNCHANGED <<unit, callSites, staticSites, vtable, init, stack, corrupt>>

\* The frame is left.  A trampoline or a handler of a fault that waits for
\* <clinit> makes the class erroneous first.
Unwind(t) ==
  /\ ~corrupt
  /\ t \in exc
  /\ stack[t] # <<>>
  /\ init' = IF Top(t).pc \in {"clinit", "trapClinit"}
                THEN [init EXCEPT ![Top(t).cls] = "erroneous"] ELSE init
  /\ Pop(t)
  /\ UNCHANGED <<unit, callSites, staticSites, vtable, exc, corrupt>>

-----------------------------------------------------------------------------
TrampolineStep(t) ==
  \/ Enter(t) \/ GetState(t) \/ Lock(t) \/ Unlock(t)
  \/ EnsureInit(t, "init", "state", "clinit") \/ InitDone(t, "clinit", "state")
  \/ FixupEmpty(t) \/ FixupDirectCalls(t) \/ FixupVtable(t) \/ FixupDeclaring(t)

CompileStep(t) ==
  \/ \E k \in Methods : SelectCall(t, k) \/ MoveSite(t, k)
  \/ \E c \in Classes : SelectStatic(t, c)
  \/ CompileFails(t) \/ EmitMachineCode(t) \/ ResolveOffsets(t) \/ AddMapping(t)
  \/ Publish(t)

BodyStep(t) ==
  \/ \E k \in Methods : ExecuteCall(t, k)
  \/ \E c \in Classes : ExecuteVirtual(t, c) \/ ExecuteStatic(t, c) \/ Trap(t, c)
  \/ EnsureInit(t, "trapInit", "patchStatic", "trapClinit")
  \/ InitDone(t, "trapClinit", "patchStatic")
  \/ FixupStatic(t) \/ Return(t) \/ Catch(t) \/ Unwind(t)

Run(t) == TrampolineStep(t) \/ CompileStep(t) \/ BodyStep(t)

Next == \E t \in Threads : Run(t) \/ \E m \in Methods : Invoke(t, m)

Spec == Init /\ [][Next]_vars

\* Threads are scheduled fairly; nobody has to call a method.
FairSpec == Spec /\ \A t \in Threads : WF_vars(Run(t))

-----------------------------------------------------------------------------
(* Properties                                                              *)

\* Every way into the code of a method, a call site, a vtable entry or a frame
\* that runs it, leads to a method whose unit is compiled and can be found by
\* jit_lookup_cu: no thread sees the code of a compilation that has not ended.
CodeIsComplete ==
  LET Usable(m) == state[m] = "compiled" /\ m \in emitted \cap resolved \cap mapped
  IN
  ~corrupt =>
    /\ \A s \in CallSites : target[s] = "code" => Usable(s[2])
    /\ \A c \in Classes : vtable[c] # NULL /\ vtable[c][1] = "code"
                            => Usable(vtable[c][2])
    /\ \A t \in Threads : \A i \in DOMAIN stack[t] :
         stack[t][i].pc \in BodyPC => Usable(stack[t][i].m)

\* A vtable entry never leads to another method than the one the class
\* inherits or declares, though super.p() runs the trampoline of a method on
\* an object whose class overrides it.
VtableDispatch ==
  \A c \in Classes : vtable[c] # NULL => vtable[c][2] = Slot[c]

\* No site that has to be repaired is lost, whatever compilations, patches and
\* initialisers overlap.  A call in finished code that still goes to a
\* trampoline is on the list of that trampoline, which is looked at without its
\* mutex.  A static access never reads the field of a class whose initialiser
\* has not even started, and one that uses the guard page in finished code is
\* on the lists of its unit and of its class.
SitesAreKept ==
  /\ \A s \in CallSites :
       state[s[1]] = "compiled" /\ target[s] = "trampoline" => s[1] \in fixups[s[2]]
  /\ ~corrupt => \A s \in StaticSites :
       /\ access[s] = "field" => init[s[2]] # "linked"
       /\ state[s[1]] = "compiled" /\ access[s] = "guard" =>
            s[2] \in cuStatics[s[1]] /\ s[1] \in vmcStatics[s[2]]

\* A thread that has called a method gets out of it, unless the VM is corrupt.
CallsReturn ==
  \A t \in Threads : stack[t] # <<>> ~> stack[t] = <<>> \/ corrupt

=============================================================================
