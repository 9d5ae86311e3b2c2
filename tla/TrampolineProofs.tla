-------------------------- MODULE TrampolineProofs --------------------------
(***************************************************************************)
(* TLAPS proofs about lazy compilation, for every program (methods,        *)
(* classes, call sites, field accesses) and any number of threads: nobody  *)
(* runs code that is not complete, vtables lead to the right methods, and  *)
(* no site that has to be patched is lost.                                 *)
(***************************************************************************)
EXTENDS Trampoline, SequenceTheorems, TLAPS

\* Frames that wait for a call they have made
WaitingPC == {"clinit", "trapClinit", "body"}

FixupPC == {"fixup", "patch", "vtable", "declaring"}

\* What the place of a frame of thread t says about its method and class
FrameInv(t, f) ==
  /\ f.pc \in CompilePC \cup {"unlock"} => mutex[f.m] = t
  /\ f.pc \in CompilePC => state[f.m] = "compiling"
  /\ f.pc \in FixupPC \cup BodyPC => state[f.m] = "compiled"
  /\ f.pc = "unlock" /\ f.ret => state[f.m] = "compiled"
  /\ f.pc \in {"move", "map"} => f.m \in emitted
  /\ f.pc = "map" => f.m \in resolved /\ cuCalls[f.m] = {}
  /\ f.pc = "publish" /\ f.ret =>
       f.m \in emitted \cap resolved \cap mapped /\ cuCalls[f.m] = {}
  /\ f.pc \in {"enter", "init", "clinit", "state", "lock", "select", "move", "map"}
       => ~f.ret
  /\ f.pc \in {"vtable", "declaring"} => f.m \in Virtual
  /\ f.pc \in {"init", "trapInit", "clinit", "trapClinit", "patchStatic"}
       => f.cls \in Classes
  /\ f.pc \in {"clinit", "trapClinit", "patchStatic"} => init[f.cls] # "linked"

\* All frames but the innermost wait, and all of a thread that unwinds.
StackInv ==
  \A t \in Threads : \A i \in 1 .. Len(stack[t]) :
    /\ FrameInv(t, stack[t][i])
    /\ i > 1 \/ t \in exc => stack[t][i].pc \in WaitingPC

\* A compiled unit has gone through every pass of do_compile.
UnitsComplete ==
  \A m \in Methods : state[m] = "compiled" =>
    m \in emitted \cap resolved \cap mapped /\ cuCalls[m] = {}

\* A call site that is not patched is on the list of its unit or of the
\* trampoline it goes to.
CallSitesKept ==
  \A s \in CallSites :
    /\ target[s] = "code" => state[s[2]] = "compiled"
    /\ target[s] = "trampoline" => s[1] \in fixups[s[2]] \/ s[2] \in cuCalls[s[1]]

\* A static access that is not patched is on both of its lists.
StaticSitesKept ==
  \A s \in StaticSites :
    /\ access[s] = "field" => init[s[2]] # "linked"
    /\ access[s] = "guard" => s[2] \in cuStatics[s[1]] /\ s[1] \in vmcStatics[s[2]]

VtableComplete ==
  \A c \in Classes : vtable[c] # NULL /\ vtable[c][1] = "code" =>
    state[vtable[c][2]] = "compiled"

SitesInv == UnitsComplete /\ CallSitesKept /\ StaticSitesKept
              /\ VtableComplete /\ VtableDispatch

CodeInv == TypeOK /\ StackInv /\ SitesInv

-----------------------------------------------------------------------------
(* Stacks                                                                  *)

\* Another innermost frame
LEMMA ReplaceTop ==
  ASSUME NEW S, NEW s \in Seq(S), s # <<>>, NEW f \in S
  PROVE  /\ <<f>> \o Tail(s) \in Seq(S)
         /\ Len(<<f>> \o Tail(s)) = Len(s)
         /\ (<<f>> \o Tail(s))[1] = f
         /\ \A i \in 2 .. Len(s) : (<<f>> \o Tail(s))[i] = s[i]
  <1>1. Tail(s) \in Seq(S) /\ Len(Tail(s)) = Len(s) - 1
        /\ \A i \in 1 .. Len(Tail(s)) : Tail(s)[i] = s[i + 1]
    BY HeadTailProperties
  <1>2. <<f>> \in Seq(S) /\ Len(<<f>>) = 1 /\ <<f>>[1] = f
    OBVIOUS
  <1>3. Len(s) \in Nat /\ Len(s) > 0
    BY EmptySeq, LenProperties
  <1>. QED
    BY <1>1, <1>2, <1>3, ConcatProperties

\* A call: a new innermost frame, and another one below it
LEMMA PushOnTop ==
  ASSUME NEW S, NEW s \in Seq(S), s # <<>>, NEW f \in S, NEW g \in S
  PROVE  /\ <<g, f>> \o Tail(s) \in Seq(S)
         /\ Len(<<g, f>> \o Tail(s)) = Len(s) + 1
         /\ (<<g, f>> \o Tail(s))[1] = g
         /\ (<<g, f>> \o Tail(s))[2] = f
         /\ \A i \in 2 .. Len(s) : (<<g, f>> \o Tail(s))[i + 1] = s[i]
  <1>1. Tail(s) \in Seq(S) /\ Len(Tail(s)) = Len(s) - 1
        /\ \A i \in 1 .. Len(Tail(s)) : Tail(s)[i] = s[i + 1]
    BY HeadTailProperties
  <1>2. <<g, f>> \in Seq(S) /\ Len(<<g, f>>) = 2 /\ <<g, f>>[1] = g /\ <<g, f>>[2] = f
    OBVIOUS
  <1>3. Len(s) \in Nat /\ Len(s) > 0
    BY EmptySeq, LenProperties
  <1>. QED
    BY <1>1, <1>2, <1>3, ConcatProperties

\* A return
LEMMA PopTop ==
  ASSUME NEW S, NEW s \in Seq(S), s # <<>>
  PROVE  /\ Tail(s) \in Seq(S)
         /\ Len(Tail(s)) = Len(s) - 1
         /\ \A i \in 1 .. Len(Tail(s)) : Tail(s)[i] = s[i + 1]
  BY HeadTailProperties

LEMMA TopIsFirst ==
  ASSUME NEW S, NEW s \in Seq(S), s # <<>>
  PROVE  Head(s) = s[1] /\ s[1] \in S /\ Len(s) \in Nat /\ Len(s) >= 1
  <1>1. Len(s) \in Nat /\ Len(s) # 0
    BY EmptySeq, LenProperties
  <1>2. Head(s) = s[1]
    BY HeadTailProperties
  <1>. QED
    BY <1>1, <1>2, ElementOfSeq

LEMMA SameTop ==
  ASSUME NEW S, NEW s \in Seq(S), s # <<>>
  PROVE  s = <<Head(s)>> \o Tail(s)
  BY HeadTailProperties

-----------------------------------------------------------------------------
(* What a step of thread t leaves to the others                            *)

\* The types of everything but the stacks
DataOK ==
  /\ state \in [Methods -> {"initial", "compiling", "compiled"}]
  /\ mutex \in [Methods -> Threads \cup {NULL}]
  /\ {arena, emitted, resolved, mapped} \subseteq SUBSET Methods
  /\ target \in [CallSites -> {"none", "trampoline", "code"}]
  /\ cuCalls \in [Methods -> SUBSET Methods]
  /\ fixups \in [Methods -> SUBSET Methods]
  /\ access \in [StaticSites -> {"none", "guard", "field"}]
  /\ cuStatics \in [Methods -> SUBSET Classes]
  /\ vmcStatics \in [Classes -> SUBSET Methods]
  /\ vtable \in [Classes -> ({"trampoline", "code"} \X Virtual) \cup {NULL}]
  /\ init \in [Classes -> {"linked", "initialized", "erroneous"} \cup Threads]
  /\ corrupt \in BOOLEAN

StackOK == stack \in [Threads -> Seq(Frame)] /\ exc \subseteq Threads

\* The invariant after a step, from its parts
LEMMA CodeParts ==
  ASSUME DataOK', StackOK', StackInv', SitesInv'
  PROVE  CodeInv'
  BY DEF CodeInv, TypeOK, DataOK, StackOK

Stable(t) ==
  /\ \A m \in Methods : state[m] = "compiled" => state'[m] = "compiled"
  /\ emitted \subseteq emitted' /\ resolved \subseteq resolved' /\ mapped \subseteq mapped'
  /\ \A c \in Classes : init[c] # "linked" => init'[c] # "linked"
  /\ \A m \in Methods : mutex[m] \in Threads \ {t} =>
       mutex'[m] = mutex[m] /\ state'[m] = state[m] /\ cuCalls'[m] = cuCalls[m]

\* The frames of other threads, and the frames that wait, stay as they were.
LEMMA FrameKept ==
  ASSUME NEW t \in Threads, Stable(t), NEW u \in Threads, NEW f \in Frame,
         FrameInv(u, f), u # t \/ f.pc \in WaitingPC
  PROVE  FrameInv(u, f)'
  BY DEF FrameInv, Stable, Frame, WaitingPC, CompilePC, BodyPC, FixupPC

\* The innermost frame of a thread that is about to take a step
LEMMA TopFrame ==
  ASSUME CodeInv, NEW t \in Threads, NEW label, At(t, label)
  PROVE  /\ t \notin exc /\ stack[t] # <<>>
         /\ \E f \in Frame : f = Top(t) /\ f.pc = label /\ FrameInv(t, f)
  <1>1. stack[t] \in Seq(Frame) /\ stack[t] # <<>> /\ t \notin exc
    BY DEF CodeInv, TypeOK, At
  <1>2. Head(stack[t]) = stack[t][1] /\ stack[t][1] \in Frame /\ 1 \in 1 .. Len(stack[t])
    BY <1>1, TopIsFirst
  <1>3. FrameInv(t, stack[t][1])
    BY <1>2 DEF CodeInv, StackInv
  <1>. QED
    BY <1>1, <1>2, <1>3 DEF At, Top

\* A step that gives thread t another innermost frame
LEMMA TopReplaced ==
  ASSUME CodeInv, NEW t \in Threads, stack[t] # <<>>, t \notin exc, Stable(t),
         NEW g \in Frame, SetTop(t, g), FrameInv(t, g)'
  PROVE  StackInv' /\ StackOK'
  <1>. DEFINE s == stack[t]
              r == <<g>> \o Tail(s)
  <1>1. s \in Seq(Frame) /\ stack' = [stack EXCEPT ![t] = r] /\ exc' = exc
    BY DEF CodeInv, TypeOK, SetTop
  <1>2. /\ r \in Seq(Frame) /\ Len(r) = Len(s) /\ r[1] = g
        /\ \A i \in 2 .. Len(s) : r[i] = s[i]
    BY <1>1, ReplaceTop
  <1>3. StackOK'
    BY <1>1, <1>2 DEF CodeInv, TypeOK, StackOK
  <1>4. ASSUME NEW u \in Threads, NEW i \in 1 .. Len(stack'[u])
        PROVE  /\ FrameInv(u, stack[u][i])'
               /\ i > 1 \/ u \in exc => stack'[u][i].pc \in WaitingPC
    <2>1. CASE u = t /\ i = 1
      <3>1. stack'[u][i] = g
        BY <1>1, <1>2, <2>1 DEF CodeInv, TypeOK
      <3>. QED
        BY <2>1, <3>1 DEF FrameInv
    <2>2. CASE u # t \/ i # 1
      <3>1. stack'[u][i] = stack[u][i] /\ i \in 1 .. Len(stack[u])
        BY <1>1, <1>2, <1>4, <2>2 DEF CodeInv, TypeOK
      <3>2. PICK f \in Frame : f = stack[u][i]
        BY <3>1, ElementOfSeq DEF CodeInv, TypeOK
      <3>3. FrameInv(u, f) /\ (i > 1 \/ u \in exc => f.pc \in WaitingPC)
        BY <3>1, <3>2 DEF CodeInv, StackInv
      <3>4. FrameInv(u, f)'
        BY <2>2, <3>3, FrameKept
      <3>. QED
        BY <3>1, <3>2, <3>3, <3>4 DEF FrameInv
    <2>. QED
      BY <2>1, <2>2
  <1>. QED
    BY <1>1, <1>3, <1>4 DEF StackInv

\* A step in which the innermost frame, now f, calls frame g
LEMMA FramePushed ==
  ASSUME CodeInv, NEW t \in Threads, stack[t] # <<>>, t \notin exc, Stable(t),
         NEW g \in Frame, FrameInv(t, g)',
         NEW f \in Frame, FrameInv(t, f)', f.pc \in WaitingPC,
         stack' = [stack EXCEPT ![t] = <<g, f>> \o Tail(@)], UNCHANGED exc
  PROVE  StackInv' /\ StackOK'
  <1>. DEFINE s == stack[t]
              r == <<g, f>> \o Tail(s)
  <1>1. s \in Seq(Frame) /\ stack' = [stack EXCEPT ![t] = r] /\ exc' = exc
    BY DEF CodeInv, TypeOK
  <1>2. /\ r \in Seq(Frame) /\ Len(r) = Len(s) + 1 /\ r[1] = g /\ r[2] = f
        /\ \A i \in 2 .. Len(s) : r[i + 1] = s[i]
    BY <1>1, PushOnTop
  <1>3. StackOK'
    BY <1>1, <1>2 DEF CodeInv, TypeOK, StackOK
  <1>4. ASSUME NEW u \in Threads, NEW i \in 1 .. Len(stack'[u])
        PROVE  /\ FrameInv(u, stack[u][i])'
               /\ i > 1 \/ u \in exc => stack'[u][i].pc \in WaitingPC
    <2>1. CASE u = t /\ i = 1
      <3>1. stack'[u][i] = g
        BY <1>1, <1>2, <2>1 DEF CodeInv, TypeOK
      <3>. QED
        BY <2>1, <3>1 DEF FrameInv
    <2>2. CASE u = t /\ i = 2
      <3>1. stack'[u][i] = f
        BY <1>1, <1>2, <2>2 DEF CodeInv, TypeOK
      <3>. QED
        BY <2>2, <3>1 DEF FrameInv
    <2>3. CASE u # t \/ i > 2
      <3>1. PICK j \in 1 .. Len(stack[u]) :
              stack'[u][i] = stack[u][j] /\ (u = t => j > 1) /\ (i > 1 /\ u # t => j > 1)
        <4>1. CASE u = t
          <5>1. i - 1 \in 2 .. Len(s) /\ r[i - 1 + 1] = s[i - 1] /\ stack'[u] = r
            BY <1>1, <1>2, <1>4, <2>3, <4>1, LenProperties DEF CodeInv, TypeOK
          <5>. QED
            BY <4>1, <5>1, <1>1, <1>2, LenProperties
        <4>2. CASE u # t
          BY <1>1, <1>4, <4>2 DEF CodeInv, TypeOK
        <4>. QED
          BY <4>1, <4>2
      <3>2. PICK h \in Frame : h = stack[u][j]
        BY <3>1, ElementOfSeq DEF CodeInv, TypeOK
      <3>3. FrameInv(u, h) /\ (j > 1 \/ u \in exc => h.pc \in WaitingPC)
        BY <3>1, <3>2 DEF CodeInv, StackInv
      <3>4. FrameInv(u, h)'
        BY <3>1, <3>3, FrameKept
      <3>. QED
        BY <3>1, <3>2, <3>3, <3>4 DEF FrameInv
    <2>. QED
      BY <2>1, <2>2, <2>3
  <1>. QED
    BY <1>1, <1>3, <1>4 DEF StackInv

\* A step that leaves the innermost frame, perhaps with an exception
LEMMA FramePopped ==
  ASSUME CodeInv, NEW t \in Threads, stack[t] # <<>>, Stable(t), Pop(t),
         exc' \in {exc, exc \cup {t}}
  PROVE  StackInv' /\ StackOK'
  <1>. DEFINE s == stack[t]
              r == Tail(s)
  <1>1. s \in Seq(Frame) /\ stack' = [stack EXCEPT ![t] = r]
    BY DEF CodeInv, TypeOK, Pop
  <1>2. /\ r \in Seq(Frame) /\ Len(r) = Len(s) - 1
        /\ \A i \in 1 .. Len(r) : r[i] = s[i + 1]
    BY <1>1, PopTop
  <1>3. StackOK'
    BY <1>1, <1>2 DEF CodeInv, TypeOK, StackOK
  <1>4. ASSUME NEW u \in Threads, NEW i \in 1 .. Len(stack'[u])
        PROVE  /\ FrameInv(u, stack[u][i])'
               /\ i > 1 \/ u \in exc' => stack'[u][i].pc \in WaitingPC
    <2>1. PICK j \in 1 .. Len(stack[u]) :
            stack'[u][i] = stack[u][j] /\ (u = t => j > 1) /\ (i > 1 => j > 1)
      <3>1. CASE u = t
        <4>1. stack'[u] = r /\ i + 1 \in 1 .. Len(s) /\ i + 1 > 1
          BY <1>1, <1>2, <1>4, <3>1, LenProperties DEF CodeInv, TypeOK
        <4>. QED
          BY <4>1, <3>1, <1>1, <1>2, <1>4
      <3>2. CASE u # t
        BY <1>1, <1>4, <3>2 DEF CodeInv, TypeOK
      <3>. QED
        BY <3>1, <3>2
    <2>2. PICK h \in Frame : h = stack[u][j]
      BY <2>1, ElementOfSeq DEF CodeInv, TypeOK
    <2>3. FrameInv(u, h) /\ (j > 1 \/ u \in exc => h.pc \in WaitingPC)
      BY <2>1, <2>2 DEF CodeInv, StackInv
    <2>4. FrameInv(u, h)'
      BY <2>1, <2>3, FrameKept
    <2>. QED
      BY <2>1, <2>2, <2>3, <2>4 DEF FrameInv
  <1>. QED
    BY <1>3, <1>4 DEF StackInv

\* A step that leaves units, sites, vtables and classes alone
LEMMA QuietStep ==
  ASSUME CodeInv, NEW t \in Threads, corrupt' = corrupt,
         UNCHANGED <<unit, callSites, staticSites, vtable, init>>
  PROVE  Stable(t) /\ SitesInv' /\ DataOK'
  BY DEF CodeInv, TypeOK, DataOK, Stable, SitesInv, UnitsComplete, CallSitesKept,
     StaticSitesKept, VtableComplete, VtableDispatch, unit, callSites, staticSites

\* The frame of a call, which may run code only if the method is compiled
LEMMA NewFrameOK ==
  ASSUME TrampolineAssumption, NEW t \in Threads, NEW m \in Methods, NEW where,
         NEW recv \in Classes \cup {NULL}, where = "code" => state'[m] = "compiled"
  PROVE  NewFrame(m, where, recv) \in Frame /\ FrameInv(t, NewFrame(m, where, recv))'
  <1>1. Sites(m) \subseteq Site
    BY DEF TrampolineAssumption, Sites, Site
  <1>2. NewFrame(m, where, recv) \in Frame
    BY <1>1 DEF NewFrame, Frame, TrampolinePC, BodyPC, TrampolineAssumption
  <1>3. FrameInv(t, NewFrame(m, where, recv))'
    BY DEF NewFrame, FrameInv, CompilePC, BodyPC, FixupPC
  <1>. QED
    BY <1>2, <1>3

\* Sites of a step that neither patches nor selects
LEMMA CallSitesStay ==
  ASSUME CodeInv, NEW t \in Threads, Stable(t), UNCHANGED callSites
  PROVE  CallSitesKept'
  BY DEF CodeInv, SitesInv, CallSitesKept, Stable, callSites, CallSites

LEMMA StaticSitesStay ==
  ASSUME CodeInv, NEW t \in Threads, Stable(t), UNCHANGED staticSites
  PROVE  StaticSitesKept'
  BY DEF CodeInv, SitesInv, StaticSitesKept, Stable, staticSites, StaticSites

LEMMA VtableStays ==
  ASSUME TrampolineAssumption, CodeInv, NEW t \in Threads, Stable(t), vtable' = vtable
  PROVE  VtableComplete' /\ VtableDispatch'
  <1>1. \A c \in Classes : vtable[c] # NULL => vtable[c][2] \in Methods
    BY DEF CodeInv, TypeOK, Virtual, TrampolineAssumption
  <1>. QED
    BY <1>1 DEF CodeInv, SitesInv, VtableComplete, VtableDispatch, Stable

LEMMA SitesOK ==
  ASSUME TrampolineAssumption, NEW m \in Methods
  PROVE  Sites(m) \subseteq Site
  BY DEF TrampolineAssumption, Sites, Site

-----------------------------------------------------------------------------
(* The trampoline                                                          *)

\* Enter keeps the invariant.
LEMMA EnterKeeps ==
  ASSUME TrampolineAssumption, CodeInv, NEW t \in Threads, Enter(t)
  PROVE  CodeInv'
  <1>1. PICK f \in Frame : f = Top(t) /\ f.pc = "enter" /\ FrameInv(t, f)
    BY TopFrame DEF Enter
  <1>2. stack[t] # <<>> /\ t \notin exc
    BY TopFrame DEF Enter
  <1>3. Stable(t) /\ SitesInv' /\ DataOK'
    BY QuietStep DEF Enter
  <1>4. PICK g \in Frame : SetTop(t, g) /\ FrameInv(t, g)'
    <2>1. CASE f.m \in StaticMethods
      <3>. DEFINE g == [f EXCEPT !.pc = "init", !.cls = ClassOf[f.m]]
      <3>1. g \in Frame /\ SetTop(t, g)
        BY <1>1, <2>1 DEF Enter, Frame, TrampolinePC, TrampolineAssumption
      <3>2. FrameInv(t, g)'
        BY <1>1, <2>1 DEF FrameInv, Frame, CompilePC, BodyPC, FixupPC, TrampolineAssumption
      <3>. QED
        BY <3>1, <3>2
    <2>2. CASE f.m \notin StaticMethods
      <3>. DEFINE g == [f EXCEPT !.pc = "state"]
      <3>1. g \in Frame /\ SetTop(t, g)
        BY <1>1, <2>2 DEF Enter, Goto, Frame, TrampolinePC
      <3>2. FrameInv(t, g)'
        BY <1>1 DEF FrameInv, Frame, CompilePC, BodyPC, FixupPC
      <3>. QED
        BY <3>1, <3>2
    <2>. QED
      BY <2>1, <2>2
  <1>. QED
    BY <1>2, <1>3, <1>4, TopReplaced, CodeParts

\* GetState keeps the invariant.
LEMMA GetStateKeeps ==
  ASSUME TrampolineAssumption, CodeInv, NEW t \in Threads, GetState(t)
  PROVE  CodeInv'
  <1>1. PICK f \in Frame : f = Top(t) /\ f.pc = "state" /\ FrameInv(t, f)
    BY TopFrame DEF GetState
  <1>2. stack[t] # <<>> /\ t \notin exc
    BY TopFrame DEF GetState
  <1>3. Stable(t) /\ SitesInv' /\ DataOK'
    BY QuietStep DEF GetState
  <1>4. PICK g \in Frame : SetTop(t, g) /\ FrameInv(t, g)'
    <2>1. CASE mutex[f.m] = NULL /\ state[f.m] = "compiled"
      <3>. DEFINE g == [f EXCEPT !.pc = "fixup", !.ret = TRUE]
      <3>1. g \in Frame /\ SetTop(t, g)
        BY <1>1, <2>1 DEF GetState, Frame, TrampolinePC, CompilePC, BodyPC, unit
      <3>2. FrameInv(t, g)'
        BY <1>1, <2>1 DEF GetState, FrameInv, Frame, TrampolinePC, CompilePC, BodyPC, FixupPC, Site, unit
      <3>. QED
        BY <3>1, <3>2
    <2>2. CASE ~(mutex[f.m] = NULL /\ state[f.m] = "compiled")
      <3>. DEFINE g == [f EXCEPT !.pc = "lock"]
      <3>1. g \in Frame /\ SetTop(t, g)
        BY <1>1, <2>2 DEF GetState, Frame, TrampolinePC, CompilePC, BodyPC, Goto, unit
      <3>2. FrameInv(t, g)'
        BY <1>1, <2>2 DEF GetState, FrameInv, Frame, TrampolinePC, CompilePC, BodyPC, FixupPC, Site, Goto, unit
      <3>. QED
        BY <3>1, <3>2
    <2>. QED
      BY <2>1, <2>2 DEF GetState
  <1>. QED
    BY <1>2, <1>3, <1>4, TopReplaced, CodeParts

\* Lock keeps the invariant.
LEMMA LockKeeps ==
  ASSUME TrampolineAssumption, CodeInv, NEW t \in Threads, Lock(t)
  PROVE  CodeInv'
  <1>1. PICK f \in Frame : f = Top(t) /\ f.pc = "lock" /\ FrameInv(t, f)
    BY TopFrame DEF Lock
  <1>2. stack[t] # <<>> /\ t \notin exc
    BY TopFrame DEF Lock
  <1>3. Stable(t) /\ SitesInv' /\ DataOK'
    <2>1. DataOK'
      <3>1. state' \in {state, [state EXCEPT ![f.m] = "compiling"]}
        BY <1>1 DEF Lock, callSites, staticSites, CodeInv, TypeOK, Frame
      <3>2. state' \in [Methods -> {"initial", "compiling", "compiled"}]
        BY <3>1 DEF CodeInv, TypeOK
      <3>3. corrupt' \in BOOLEAN
        BY <1>1 DEF Lock, callSites, staticSites, CodeInv, TypeOK, Frame
      <3>4. mutex' \in [Methods -> Threads \cup {NULL}]
        BY <1>1 DEF Lock, callSites, staticSites, CodeInv, TypeOK, Frame
      <3>. QED
        BY <3>1, <3>2, <3>3, <3>4 DEF Lock, callSites, staticSites, CodeInv, TypeOK, DataOK
    <2>2. Stable(t)
      BY <1>1 DEF Lock, callSites, staticSites, CodeInv, TypeOK, Stable, FrameInv, Frame, TrampolineAssumption
    <2>3. UnitsComplete'
      BY <1>1 DEF Lock, callSites, staticSites, CodeInv, TypeOK, FrameInv, Frame, SitesInv, UnitsComplete
    <2>4. CallSitesKept'
      BY <2>2, CallSitesStay DEF Lock, callSites, staticSites
    <2>5. StaticSitesKept'
      BY <2>2, StaticSitesStay DEF Lock, callSites, staticSites
    <2>6. VtableComplete' /\ VtableDispatch'
      BY <2>2, VtableStays DEF Lock, callSites, staticSites
    <2>. QED
      BY <2>1, <2>2, <2>3, <2>4, <2>5, <2>6 DEF SitesInv
  <1>4. PICK g \in Frame : SetTop(t, g) /\ FrameInv(t, g)'
    <2>1. CASE state[f.m] = "compiled"
      <3>. DEFINE g == [f EXCEPT !.pc = "unlock", !.ret = TRUE]
      <3>1. g \in Frame /\ SetTop(t, g)
        BY <1>1, <2>1 DEF Lock, Frame, TrampolinePC, CompilePC, BodyPC, unit, CodeInv, TypeOK
      <3>2. FrameInv(t, g)'
        BY <1>1, <2>1 DEF Lock, FrameInv, Frame, TrampolinePC, CompilePC, BodyPC, FixupPC, Site, unit, CodeInv, TypeOK
      <3>. QED
        BY <3>1, <3>2
    <2>2. CASE state[f.m] # "compiled"
      <3>. DEFINE g == [f EXCEPT !.pc = "select", !.left = Sites(f.m)]
      <3>1. g \in Frame /\ SetTop(t, g)
        BY <1>1, <2>2, SitesOK DEF Lock, Frame, TrampolinePC, CompilePC, BodyPC, CodeInv, TypeOK
      <3>2. FrameInv(t, g)'
        BY <1>1, <2>2 DEF Lock, FrameInv, Frame, TrampolinePC, CompilePC, BodyPC, FixupPC, Site, CodeInv, TypeOK
      <3>. QED
        BY <3>1, <3>2
    <2>. QED
      BY <2>1, <2>2 DEF Lock
  <1>. QED
    BY <1>2, <1>3, <1>4, TopReplaced, CodeParts

\* SelectCall keeps the invariant.
LEMMA SelectCallKeeps ==
  ASSUME TrampolineAssumption, CodeInv, NEW t \in Threads, NEW k \in Methods, SelectCall(t, k)
  PROVE  CodeInv'
  <1>1. PICK f \in Frame : f = Top(t) /\ f.pc = "select" /\ FrameInv(t, f)
    BY TopFrame DEF SelectCall, SelectCallAs
  <1>2. stack[t] # <<>> /\ t \notin exc
    BY TopFrame DEF SelectCall, SelectCallAs
  <1>3. Stable(t) /\ SitesInv' /\ DataOK'
    <2>1. DataOK'
      <3>1. target' \in [CallSites -> {"none", "trampoline", "code"}]
        BY <1>1 DEF SelectCall, SelectCallAs, unit, staticSites, CodeInv, TypeOK, Frame
      <3>2. cuCalls' \in [Methods -> SUBSET Methods]
        BY <1>1 DEF SelectCall, SelectCallAs, unit, staticSites, CodeInv, TypeOK, Frame
      <3>. QED
        BY <3>1, <3>2 DEF SelectCall, SelectCallAs, unit, staticSites, CodeInv, TypeOK, DataOK
    <2>2. Stable(t)
      BY <1>1 DEF SelectCall, SelectCallAs, unit, staticSites, CodeInv, TypeOK, Stable, FrameInv, Frame, CompilePC
    <2>3. UnitsComplete'
      BY <1>1 DEF SelectCall, SelectCallAs, unit, staticSites, CodeInv, TypeOK, FrameInv, Frame, SitesInv, UnitsComplete, CompilePC
    <2>4. CallSitesKept'
      <3>1. /\ target' = [target EXCEPT ![<<f.m, k>>] =
                           IF state[k] = "compiled" THEN "code" ELSE "trampoline"]
            /\ cuCalls' = [cuCalls EXCEPT ![f.m] = IF state[k] # "compiled" THEN @ \cup {k} ELSE @]
            /\ UNCHANGED <<fixups, state>>
        BY <1>1 DEF SelectCall, SelectCallAs, unit
      <3>2. SUFFICES ASSUME NEW s \in CallSites
                     PROVE  /\ target'[s] = "code" => state[s[2]] = "compiled"
                            /\ target'[s] = "trampoline" =>
                                 s[1] \in fixups[s[2]] \/ s[2] \in cuCalls'[s[1]]
        BY <3>1 DEF CallSitesKept
      <3>3. s = <<s[1], s[2]>> /\ s[1] \in Methods /\ s[2] \in Methods
        BY DEF CallSites
      <3>4. CASE s[1] = f.m /\ s[2] = k
        BY <3>1, <3>3, <3>4 DEF CodeInv, TypeOK
      <3>5. CASE ~(s[1] = f.m /\ s[2] = k)
        BY <3>1, <3>3, <3>5 DEF CodeInv, TypeOK, SitesInv, CallSitesKept
      <3>. QED
        BY <3>4, <3>5
    <2>5. StaticSitesKept'
      BY <2>2, StaticSitesStay DEF SelectCall, SelectCallAs, unit, staticSites
    <2>6. VtableComplete' /\ VtableDispatch'
      BY <2>2, VtableStays DEF SelectCall, SelectCallAs, unit, staticSites
    <2>. QED
      BY <2>1, <2>2, <2>3, <2>4, <2>5, <2>6 DEF SitesInv
  <1>4. PICK g \in Frame : SetTop(t, g) /\ FrameInv(t, g)'
    <2>. DEFINE g == [f EXCEPT !.left = @ \ {[kind |-> "call", to |-> k]}]
    <2>1. g \in Frame /\ SetTop(t, g)
      BY <1>1 DEF SelectCall, SelectCallAs, Frame, TrampolinePC, CompilePC, BodyPC, unit
    <2>2. FrameInv(t, g)'
      BY <1>1 DEF SelectCall, SelectCallAs, FrameInv, Frame, TrampolinePC, CompilePC, BodyPC, FixupPC, Site, unit
    <2>. QED
      BY <2>1, <2>2
  <1>. QED
    BY <1>2, <1>3, <1>4, TopReplaced, CodeParts

\* SelectStatic keeps the invariant.
LEMMA SelectStaticKeeps ==
  ASSUME TrampolineAssumption, CodeInv, NEW t \in Threads, NEW c \in Classes, SelectStatic(t, c)
  PROVE  CodeInv'
  <1>1. PICK f \in Frame : f = Top(t) /\ f.pc = "select" /\ FrameInv(t, f)
    BY TopFrame DEF SelectStatic, SelectStaticAs
  <1>2. stack[t] # <<>> /\ t \notin exc
    BY TopFrame DEF SelectStatic, SelectStaticAs
  <1>3. Stable(t) /\ SitesInv' /\ DataOK'
    <2>1. DataOK'
      <3>1. access' \in [StaticSites -> {"none", "guard", "field"}]
        BY <1>1 DEF SelectStatic, SelectStaticAs, unit, callSites, CodeInv, TypeOK, Frame
      <3>2. vmcStatics' \in [Classes -> SUBSET Methods]
        BY <1>1 DEF SelectStatic, SelectStaticAs, unit, callSites, CodeInv, TypeOK, Frame
      <3>3. cuStatics' \in [Methods -> SUBSET Classes]
        BY <1>1 DEF SelectStatic, SelectStaticAs, unit, callSites, CodeInv, TypeOK, Frame
      <3>. QED
        BY <3>1, <3>2, <3>3 DEF SelectStatic, SelectStaticAs, unit, callSites, CodeInv, TypeOK, DataOK
    <2>2. Stable(t)
      BY <1>1 DEF SelectStatic, SelectStaticAs, unit, callSites, CodeInv, TypeOK, Stable, FrameInv, Frame
    <2>3. UnitsComplete'
      BY <1>1 DEF SelectStatic, SelectStaticAs, unit, callSites, CodeInv, TypeOK, FrameInv, Frame, SitesInv, UnitsComplete
    <2>4. CallSitesKept'
      BY <2>2, CallSitesStay DEF SelectStatic, SelectStaticAs, unit, callSites
    <2>5. StaticSitesKept'
      BY <1>1, <2>2 DEF SelectStatic, SelectStaticAs, unit, callSites, CodeInv, TypeOK, FrameInv, Frame, Stable, SitesInv, StaticSitesKept, StaticSites
    <2>6. VtableComplete' /\ VtableDispatch'
      BY <2>2, VtableStays DEF SelectStatic, SelectStaticAs, unit, callSites
    <2>. QED
      BY <2>1, <2>2, <2>3, <2>4, <2>5, <2>6 DEF SitesInv
  <1>4. PICK g \in Frame : SetTop(t, g) /\ FrameInv(t, g)'
    <2>. DEFINE g == [f EXCEPT !.left = @ \ {[kind |-> "static", to |-> c]}]
    <2>1. g \in Frame /\ SetTop(t, g)
      BY <1>1 DEF SelectStatic, SelectStaticAs, Frame, TrampolinePC, CompilePC, BodyPC, unit, callSites
    <2>2. FrameInv(t, g)'
      BY <1>1 DEF SelectStatic, SelectStaticAs, FrameInv, Frame, TrampolinePC, CompilePC, BodyPC, FixupPC, Site, unit, callSites
    <2>. QED
      BY <2>1, <2>2
  <1>. QED
    BY <1>2, <1>3, <1>4, TopReplaced, CodeParts

\* CompileFails keeps the invariant.
LEMMA CompileFailsKeeps ==
  ASSUME TrampolineAssumption, CodeInv, NEW t \in Threads, CompileFails(t)
  PROVE  CodeInv'
  <1>1. PICK f \in Frame : f = Top(t) /\ f.pc \in {"select", "move", "map"} /\ FrameInv(t, f)
    BY TopFrame DEF CompileFails, At
  <1>2. stack[t] # <<>> /\ t \notin exc
    BY TopFrame DEF CompileFails, At
  <1>3. Stable(t) /\ SitesInv' /\ DataOK'
    BY QuietStep DEF CompileFails
  <1>4. PICK g \in Frame : SetTop(t, g) /\ FrameInv(t, g)'
    <2>. DEFINE g == [f EXCEPT !.pc = "publish", !.left = {}]
    <2>1. g \in Frame /\ SetTop(t, g)
      BY <1>1 DEF CompileFails, Frame, TrampolinePC, CompilePC, BodyPC, unit
    <2>2. FrameInv(t, g)'
      BY <1>1 DEF CompileFails, FrameInv, Frame, TrampolinePC, CompilePC, BodyPC, FixupPC, Site, unit
    <2>. QED
      BY <2>1, <2>2
  <1>. QED
    BY <1>2, <1>3, <1>4, TopReplaced, CodeParts

\* EmitMachineCode keeps the invariant.
LEMMA EmitMachineCodeKeeps ==
  ASSUME TrampolineAssumption, CodeInv, NEW t \in Threads, EmitMachineCode(t)
  PROVE  CodeInv'
  <1>1. PICK f \in Frame : f = Top(t) /\ f.pc = "select" /\ FrameInv(t, f)
    BY TopFrame DEF EmitMachineCode
  <1>2. stack[t] # <<>> /\ t \notin exc
    BY TopFrame DEF EmitMachineCode
  <1>3. Stable(t) /\ SitesInv' /\ DataOK'
    <2>1. DataOK'
      BY <1>1 DEF EmitMachineCode, callSites, staticSites, CodeInv, TypeOK, DataOK, Frame
    <2>2. Stable(t)
      BY <1>1 DEF EmitMachineCode, callSites, staticSites, CodeInv, TypeOK, Stable, FrameInv, Frame
    <2>3. UnitsComplete'
      BY <1>1 DEF EmitMachineCode, callSites, staticSites, CodeInv, TypeOK, FrameInv, Frame, SitesInv, UnitsComplete
    <2>4. CallSitesKept'
      BY <2>2, CallSitesStay DEF EmitMachineCode, callSites, staticSites
    <2>5. StaticSitesKept'
      BY <2>2, StaticSitesStay DEF EmitMachineCode, callSites, staticSites
    <2>6. VtableComplete' /\ VtableDispatch'
      BY <2>2, VtableStays DEF EmitMachineCode, callSites, staticSites
    <2>. QED
      BY <2>1, <2>2, <2>3, <2>4, <2>5, <2>6 DEF SitesInv
  <1>4. PICK g \in Frame : SetTop(t, g) /\ FrameInv(t, g)'
    <2>. DEFINE g == [f EXCEPT !.pc = "move", !.left = {}]
    <2>1. g \in Frame /\ SetTop(t, g)
      BY <1>1 DEF EmitMachineCode, Frame, TrampolinePC, CompilePC, BodyPC
    <2>2. FrameInv(t, g)'
      BY <1>1 DEF EmitMachineCode, FrameInv, Frame, TrampolinePC, CompilePC, BodyPC, FixupPC, Site
    <2>. QED
      BY <2>1, <2>2
  <1>. QED
    BY <1>2, <1>3, <1>4, TopReplaced, CodeParts

\* ResolveOffsets keeps the invariant.
LEMMA ResolveOffsetsKeeps ==
  ASSUME TrampolineAssumption, CodeInv, NEW t \in Threads, ResolveOffsets(t)
  PROVE  CodeInv'
  <1>1. PICK f \in Frame : f = Top(t) /\ f.pc = "move" /\ FrameInv(t, f)
    BY TopFrame DEF ResolveOffsets
  <1>2. stack[t] # <<>> /\ t \notin exc
    BY TopFrame DEF ResolveOffsets
  <1>3. Stable(t) /\ SitesInv' /\ DataOK'
    <2>1. DataOK'
      BY <1>1 DEF ResolveOffsets, callSites, staticSites, CodeInv, TypeOK, DataOK, Frame
    <2>2. Stable(t)
      BY <1>1 DEF ResolveOffsets, callSites, staticSites, CodeInv, TypeOK, Stable, FrameInv, Frame
    <2>3. UnitsComplete'
      BY <1>1 DEF ResolveOffsets, callSites, staticSites, CodeInv, TypeOK, FrameInv, Frame, SitesInv, UnitsComplete
    <2>4. CallSitesKept'
      BY <2>2, CallSitesStay DEF ResolveOffsets, callSites, staticSites
    <2>5. StaticSitesKept'
      BY <2>2, StaticSitesStay DEF ResolveOffsets, callSites, staticSites
    <2>6. VtableComplete' /\ VtableDispatch'
      BY <2>2, VtableStays DEF ResolveOffsets, callSites, staticSites
    <2>. QED
      BY <2>1, <2>2, <2>3, <2>4, <2>5, <2>6 DEF SitesInv
  <1>4. PICK g \in Frame : SetTop(t, g) /\ FrameInv(t, g)'
    <2>. DEFINE g == [f EXCEPT !.pc = "map"]
    <2>1. g \in Frame /\ SetTop(t, g)
      BY <1>1 DEF ResolveOffsets, Frame, TrampolinePC, CompilePC, BodyPC, Goto, callSites
    <2>2. FrameInv(t, g)'
      BY <1>1 DEF ResolveOffsets, FrameInv, Frame, TrampolinePC, CompilePC, BodyPC, FixupPC, Site, Goto, callSites
    <2>. QED
      BY <2>1, <2>2
  <1>. QED
    BY <1>2, <1>3, <1>4, TopReplaced, CodeParts

\* AddMapping keeps the invariant.
LEMMA AddMappingKeeps ==
  ASSUME TrampolineAssumption, CodeInv, NEW t \in Threads, AddMapping(t)
  PROVE  CodeInv'
  <1>1. PICK f \in Frame : f = Top(t) /\ f.pc = "map" /\ FrameInv(t, f)
    BY TopFrame DEF AddMapping
  <1>2. stack[t] # <<>> /\ t \notin exc
    BY TopFrame DEF AddMapping
  <1>3. Stable(t) /\ SitesInv' /\ DataOK'
    <2>1. DataOK'
      BY <1>1 DEF AddMapping, callSites, staticSites, CodeInv, TypeOK, DataOK, Frame
    <2>2. Stable(t)
      BY <1>1 DEF AddMapping, callSites, staticSites, CodeInv, TypeOK, Stable, FrameInv, Frame
    <2>3. UnitsComplete'
      BY <1>1 DEF AddMapping, callSites, staticSites, CodeInv, TypeOK, FrameInv, Frame, SitesInv, UnitsComplete
    <2>4. CallSitesKept'
      BY <2>2, CallSitesStay DEF AddMapping, callSites, staticSites
    <2>5. StaticSitesKept'
      BY <2>2, StaticSitesStay DEF AddMapping, callSites, staticSites
    <2>6. VtableComplete' /\ VtableDispatch'
      BY <2>2, VtableStays DEF AddMapping, callSites, staticSites
    <2>. QED
      BY <2>1, <2>2, <2>3, <2>4, <2>5, <2>6 DEF SitesInv
  <1>4. PICK g \in Frame : SetTop(t, g) /\ FrameInv(t, g)'
    <2>. DEFINE g == [f EXCEPT !.pc = "publish", !.ret = TRUE]
    <2>1. g \in Frame /\ SetTop(t, g)
      BY <1>1 DEF AddMapping, Frame, TrampolinePC, CompilePC, BodyPC, callSites
    <2>2. FrameInv(t, g)'
      BY <1>1 DEF AddMapping, FrameInv, Frame, TrampolinePC, CompilePC, BodyPC, FixupPC, Site, callSites
    <2>. QED
      BY <2>1, <2>2
  <1>. QED
    BY <1>2, <1>3, <1>4, TopReplaced, CodeParts

\* Publish keeps the invariant.
LEMMA PublishKeeps ==
  ASSUME TrampolineAssumption, CodeInv, NEW t \in Threads, Publish(t)
  PROVE  CodeInv'
  <1>1. PICK f \in Frame : f = Top(t) /\ f.pc = "publish" /\ FrameInv(t, f)
    BY TopFrame DEF Publish
  <1>2. stack[t] # <<>> /\ t \notin exc
    BY TopFrame DEF Publish
  <1>3. Stable(t) /\ SitesInv' /\ DataOK'
    <2>1. DataOK'
      BY <1>1 DEF Publish, callSites, staticSites, CodeInv, TypeOK, DataOK, Frame
    <2>2. Stable(t)
      BY <1>1 DEF Publish, callSites, staticSites, CodeInv, TypeOK, Stable, FrameInv, Frame, CompilePC
    <2>3. UnitsComplete'
      BY <1>1 DEF Publish, callSites, staticSites, CodeInv, TypeOK, FrameInv, Frame, SitesInv, UnitsComplete, CompilePC
    <2>4. CallSitesKept'
      BY <2>2, CallSitesStay DEF Publish, callSites, staticSites
    <2>5. StaticSitesKept'
      BY <2>2, StaticSitesStay DEF Publish, callSites, staticSites
    <2>6. VtableComplete' /\ VtableDispatch'
      BY <2>2, VtableStays DEF Publish, callSites, staticSites
    <2>. QED
      BY <2>1, <2>2, <2>3, <2>4, <2>5, <2>6 DEF SitesInv
  <1>4. PICK g \in Frame : SetTop(t, g) /\ FrameInv(t, g)'
    <2>. DEFINE g == [f EXCEPT !.pc = "unlock"]
    <2>1. g \in Frame /\ SetTop(t, g)
      BY <1>1 DEF Publish, Frame, TrampolinePC, CompilePC, BodyPC, Goto, callSites, CodeInv, TypeOK
    <2>2. FrameInv(t, g)'
      BY <1>1 DEF Publish, FrameInv, Frame, TrampolinePC, CompilePC, BodyPC, FixupPC, Site, Goto, callSites, CodeInv, TypeOK
    <2>. QED
      BY <2>1, <2>2
  <1>. QED
    BY <1>2, <1>3, <1>4, TopReplaced, CodeParts

\* Unlock keeps the invariant: a compilation that failed is left by Throw.
LEMMA UnlockKeeps ==
  ASSUME TrampolineAssumption, CodeInv, NEW t \in Threads, Unlock(t)
  PROVE  CodeInv'
  <1>1. PICK f \in Frame : f = Top(t) /\ f.pc = "unlock" /\ FrameInv(t, f)
    BY TopFrame DEF Unlock
  <1>2. stack[t] # <<>> /\ t \notin exc
    BY TopFrame DEF Unlock
  <1>3. Stable(t) /\ SitesInv' /\ DataOK'
    <2>1. DataOK'
      BY <1>1 DEF Unlock, callSites, staticSites, CodeInv, TypeOK, DataOK, Frame
    <2>2. Stable(t)
      BY <1>1 DEF Unlock, callSites, CodeInv, TypeOK, Stable, FrameInv, Frame
    <2>3. UnitsComplete'
      BY DEF Unlock, callSites, CodeInv, SitesInv, UnitsComplete
    <2>4. CallSitesKept'
      BY <2>2, CallSitesStay DEF Unlock
    <2>5. StaticSitesKept'
      BY <2>2, StaticSitesStay DEF Unlock
    <2>6. VtableComplete' /\ VtableDispatch'
      BY <2>2, VtableStays DEF Unlock
    <2>. QED
      BY <2>1, <2>2, <2>3, <2>4, <2>5, <2>6 DEF SitesInv
  <1>4. CASE f.ret
    <2>1. PICK g \in Frame : SetTop(t, g) /\ FrameInv(t, g)'
      <3>. DEFINE g == [f EXCEPT !.pc = "fixup"]
      <3>1. g \in Frame /\ SetTop(t, g)
        BY <1>1, <1>4 DEF Unlock, Goto, Frame, TrampolinePC
      <3>2. FrameInv(t, g)'
        BY <1>1, <1>4 DEF Unlock, FrameInv, Frame, CompilePC, BodyPC, FixupPC
      <3>. QED
        BY <3>1, <3>2
    <2>. QED
      BY <1>2, <1>3, <2>1, TopReplaced, CodeParts
  <1>5. CASE ~f.ret
    <2>1. Pop(t) /\ exc' \in {exc, exc \cup {t}}
      BY <1>1, <1>5 DEF Unlock, Throw
    <2>. QED
      BY <1>2, <1>3, <2>1, FramePopped, CodeParts
  <1>. QED
    BY <1>4, <1>5

\* The classes change only away from "linked".
LEMMA InitStep ==
  ASSUME TrampolineAssumption, CodeInv, NEW t \in Threads, corrupt' = corrupt,
         UNCHANGED <<unit, callSites, staticSites, vtable>>,
         init' \in [Classes -> {"linked", "initialized", "erroneous"} \cup Threads],
         \A c \in Classes : init[c] # "linked" => init'[c] # "linked"
  PROVE  Stable(t) /\ SitesInv' /\ DataOK'
  <1>1. DataOK'
    BY DEF CodeInv, TypeOK, DataOK, unit, callSites, staticSites
  <1>2. Stable(t)
    BY DEF Stable, unit, callSites
  <1>3. UnitsComplete'
    BY DEF CodeInv, SitesInv, UnitsComplete, unit, callSites
  <1>. QED
    BY <1>1, <1>2, <1>3, CallSitesStay, StaticSitesStay, VtableStays DEF SitesInv

\* The form in which EnsureInit writes two frames
LEMMA TwoFrames ==
  ASSUME NEW f, NEW g
  PROVE  <<f>> \o <<g>> = <<f, g>>
  <1>1. <<f>> \in Seq({f, g}) /\ <<g>> \in Seq({f, g}) /\ <<f, g>> \in Seq({f, g})
    OBVIOUS
  <1>2. /\ Len(<<f>>) = 1 /\ <<f>>[1] = f
        /\ Len(<<g>>) = 1 /\ <<g>>[1] = g
        /\ Len(<<f, g>>) = 2 /\ <<f, g>>[1] = f /\ <<f, g>>[2] = g
    OBVIOUS
  <1>3. /\ <<f>> \o <<g>> \in Seq({f, g}) /\ Len(<<f>> \o <<g>>) = 2
        /\ (<<f>> \o <<g>>)[1] = f /\ (<<f>> \o <<g>>)[2] = g
    BY <1>1, <1>2, ConcatProperties
  <1>. QED
    <2>. DEFINE r == <<f>> \o <<g>>
                q == <<f, g>>
    <2>1. r \in Seq({f, g}) /\ q \in Seq({f, g}) /\ Len(r) = Len(q)
          /\ \A i \in 1 .. Len(r) : r[i] = q[i]
      BY <1>1, <1>2, <1>3
    <2>. HIDE DEF r, q
    <2>2. r = q
      BY <2>1, SeqEqual
    <2>. QED
      BY <2>2 DEF r, q

\* A frame at `next' or `clinit' after vm_class_ensure_init, for its two callers
EnsureInitAt(label, next, clinit) ==
  \/ label = "init" /\ next = "state" /\ clinit = "clinit"
  \/ label = "trapInit" /\ next = "patchStatic" /\ clinit = "trapClinit"

\* EnsureInit keeps the invariant.
LEMMA EnsureInitKeeps ==
  ASSUME TrampolineAssumption, CodeInv, NEW t \in Threads, NEW label, NEW next,
         NEW clinit, EnsureInitAt(label, next, clinit),
         EnsureInit(t, label, next, clinit)
  PROVE  CodeInv'
  <1>1. PICK f \in Frame : f = Top(t) /\ f.pc = label /\ FrameInv(t, f)
    BY TopFrame DEF EnsureInit
  <1>2. stack[t] # <<>> /\ t \notin exc
    BY TopFrame DEF EnsureInit
  <1>3. f.cls \in Classes
    BY <1>1 DEF FrameInv, EnsureInitAt
  <1>4. UNCHANGED <<unit, callSites, staticSites, vtable, corrupt>>
    BY DEF EnsureInit
  <1>5. CASE init[f.cls] \in {"initialized", t} /\ Goto(t, next) /\ UNCHANGED init
    <2>1. Stable(t) /\ SitesInv' /\ DataOK'
      BY <1>4, <1>5, QuietStep
    <2>2. PICK g \in Frame : SetTop(t, g) /\ FrameInv(t, g)'
      <3>. DEFINE g == [f EXCEPT !.pc = next]
      <3>1. g \in Frame /\ SetTop(t, g)
        BY <1>1, <1>5 DEF Goto, Frame, TrampolinePC, BodyPC, EnsureInitAt
      <3>2. t # "linked" /\ init'[f.cls] # "linked"
        BY <1>5 DEF TrampolineAssumption
      <3>3. FrameInv(t, g)'
        BY <1>1, <1>3, <1>4, <3>2 DEF EnsureInitAt, FrameInv, Frame, CompilePC, BodyPC,
           FixupPC, unit, callSites
      <3>. QED
        BY <3>1, <3>3
    <2>. QED
      BY <1>2, <2>1, <2>2, TopReplaced, CodeParts
  <1>6. CASE Throw(t) /\ UNCHANGED init
    <2>1. Stable(t) /\ SitesInv' /\ DataOK'
      BY <1>4, <1>6, QuietStep
    <2>2. Pop(t) /\ exc' \in {exc, exc \cup {t}}
      BY <1>6 DEF Throw
    <2>. QED
      BY <1>2, <2>1, <2>2, FramePopped, CodeParts
  <1>7. CASE /\ init[f.cls] = "linked"
             /\ init' = [init EXCEPT ![f.cls] = t]
             /\ stack' = [stack EXCEPT ![t] =
                  (IF Clinit[f.cls] = NULL THEN <<>>
                   ELSE <<NewFrame(Clinit[f.cls], "trampoline", NULL)>>)
                  \o <<[f EXCEPT !.pc = clinit]>> \o Tail(@)]
             /\ UNCHANGED exc
    <2>. DEFINE g == [f EXCEPT !.pc = clinit]
                h == NewFrame(Clinit[f.cls], "trampoline", NULL)
    <2>1. /\ init' \in [Classes -> {"linked", "initialized", "erroneous"} \cup Threads]
          /\ t # "linked"
          /\ \A c \in Classes : init[c] # "linked" => init'[c] # "linked"
          /\ init'[f.cls] # "linked"
      BY <1>3, <1>7 DEF CodeInv, TypeOK, TrampolineAssumption
    <2>2. Stable(t) /\ SitesInv' /\ DataOK'
      BY <1>4, <2>1, InitStep
    <2>3. g \in Frame /\ g.pc \in WaitingPC
      BY <1>1 DEF Frame, TrampolinePC, BodyPC, EnsureInitAt, WaitingPC
    <2>4. FrameInv(t, g)'
      BY <1>1, <1>3, <1>4, <2>1 DEF EnsureInitAt, FrameInv, Frame, CompilePC, BodyPC,
         FixupPC, unit, callSites
    <2>5. stack[t] \in Seq(Frame) /\ Tail(stack[t]) \in Seq(Frame)
      BY <1>2, HeadTailProperties DEF CodeInv, TypeOK
    <2>6. CASE Clinit[f.cls] = NULL
      <3>1. <<>> \o <<g>> \o Tail(stack[t]) = <<g>> \o Tail(stack[t])
        BY <2>3, <2>5, ConcatEmptySeq
      <3>2. stack' = [stack EXCEPT ![t] = <<>> \o <<g>> \o Tail(stack[t])]
        BY <1>7, <2>6
      <3>3. SetTop(t, g)
        BY <1>7, <3>1, <3>2 DEF SetTop
      <3>. QED
        BY <1>2, <2>2, <2>3, <2>4, <3>3, TopReplaced, CodeParts
    <2>7. CASE Clinit[f.cls] # NULL
      <3>1. <<h>> \o <<g>> = <<h, g>>
        BY TwoFrames
      <3>2. stack' = [stack EXCEPT ![t] = <<h>> \o <<g>> \o Tail(stack[t])]
        BY <1>7, <2>7
      <3>3. stack' = [stack EXCEPT ![t] = <<h, g>> \o Tail(@)]
        BY <3>1, <3>2
      <3>4. Clinit[f.cls] \in Methods
        BY <1>3, <2>7 DEF TrampolineAssumption
      <3>5. h \in Frame /\ FrameInv(t, h)'
        BY <3>4, NewFrameOK
      <3>. HIDE DEF g, h
      <3>. QED
        BY <1>2, <1>7, <2>2, <2>3, <2>4, <3>3, <3>5, FramePushed, CodeParts
    <2>. QED
      BY <2>6, <2>7
  <1>. QED
    BY <1>1, <1>5, <1>6, <1>7 DEF EnsureInit

\* InitDone keeps the invariant.
LEMMA InitDoneKeeps ==
  ASSUME TrampolineAssumption, CodeInv, NEW t \in Threads, NEW clinit, NEW next,
         \E label : EnsureInitAt(label, next, clinit), InitDone(t, clinit, next)
  PROVE  CodeInv'
  <1>1. PICK f \in Frame : f = Top(t) /\ f.pc = clinit /\ FrameInv(t, f)
    BY TopFrame DEF InitDone
  <1>2. stack[t] # <<>> /\ t \notin exc
    BY TopFrame DEF InitDone
  <1>3. f.cls \in Classes
    BY <1>1 DEF FrameInv, EnsureInitAt
  <1>4. init' = [init EXCEPT ![f.cls] = "initialized"]
    BY <1>1 DEF InitDone
  <1>5. Stable(t) /\ SitesInv' /\ DataOK'
    <2>1. /\ init' \in [Classes -> {"linked", "initialized", "erroneous"} \cup Threads]
          /\ \A c \in Classes : init[c] # "linked" => init'[c] # "linked"
      BY <1>3, <1>4 DEF CodeInv, TypeOK
    <2>. QED
      BY <2>1, InitStep DEF InitDone
  <1>6. PICK g \in Frame : SetTop(t, g) /\ FrameInv(t, g)'
    <2>. DEFINE g == [f EXCEPT !.pc = next]
    <2>1. g \in Frame /\ SetTop(t, g)
      BY <1>1 DEF InitDone, Goto, Frame, TrampolinePC, BodyPC, EnsureInitAt
    <2>2. init'[f.cls] # "linked"
      BY <1>3, <1>4 DEF CodeInv, TypeOK
    <2>3. FrameInv(t, g)'
      BY <1>1, <1>3, <2>2 DEF InitDone, EnsureInitAt, FrameInv, Frame, CompilePC, BodyPC,
         FixupPC, unit, callSites
    <2>. QED
      BY <2>1, <2>3
  <1>. QED
    BY <1>2, <1>5, <1>6, TopReplaced, CodeParts

-----------------------------------------------------------------------------
(* Fixups                                                                  *)

\* The frame that fixup leaves: for the vtable, or in the code of the method
LEMMA AfterFixupOK ==
  ASSUME TrampolineAssumption, CodeInv, NEW t \in Threads, NEW f \in Frame,
         f = Top(t), FrameInv(t, f), f.pc \in FixupPC, UNCHANGED <<unit, cuCalls, init>>,
         AfterFixup(t)
  PROVE  \E g \in Frame : SetTop(t, g) /\ FrameInv(t, g)'
  <1>1. state'[f.m] = "compiled" /\ f.m \in Methods /\ f.recv \in Classes \cup {NULL}
    BY DEF FrameInv, unit, Frame
  <1>2. CASE f.m \in Virtual
    <2>. DEFINE g == [f EXCEPT !.pc = "vtable"]
    <2>1. g \in Frame /\ SetTop(t, g)
      BY <1>2 DEF AfterFixup, Goto, Frame, TrampolinePC
    <2>2. FrameInv(t, g)'
      BY <1>1, <1>2 DEF FrameInv, Frame, CompilePC, BodyPC, FixupPC
    <2>. QED
      BY <2>1, <2>2
  <1>3. CASE f.m \notin Virtual
    <2>1. SetTop(t, NewFrame(f.m, "code", f.recv))
      BY <1>3 DEF AfterFixup, Jump
    <2>. QED
      BY <1>1, <2>1, NewFrameOK
  <1>. QED
    BY <1>2, <1>3

\* FixupEmpty keeps the invariant.
LEMMA FixupEmptyKeeps ==
  ASSUME TrampolineAssumption, CodeInv, NEW t \in Threads, FixupEmpty(t)
  PROVE  CodeInv'
  <1>1. PICK f \in Frame : f = Top(t) /\ f.pc = "fixup" /\ FrameInv(t, f)
    BY TopFrame DEF FixupEmpty
  <1>2. stack[t] # <<>> /\ t \notin exc
    BY TopFrame DEF FixupEmpty
  <1>3. Stable(t) /\ SitesInv' /\ DataOK'
    BY QuietStep DEF FixupEmpty
  <1>4. PICK g \in Frame : SetTop(t, g) /\ FrameInv(t, g)'
    <2>1. CASE fixups[f.m] = {}
      BY <1>1, <2>1, AfterFixupOK DEF FixupEmpty, FixupPC, callSites
    <2>2. CASE fixups[f.m] # {}
      <3>. DEFINE g == [f EXCEPT !.pc = "patch"]
      <3>1. g \in Frame /\ SetTop(t, g)
        BY <1>1, <2>2 DEF FixupEmpty, Goto, Frame, TrampolinePC
      <3>2. FrameInv(t, g)'
        BY <1>1 DEF FixupEmpty, FrameInv, Frame, CompilePC, BodyPC, FixupPC, unit
      <3>. QED
        BY <3>1, <3>2
    <2>. QED
      BY <2>1, <2>2
  <1>. QED
    BY <1>2, <1>3, <1>4, TopReplaced, CodeParts

\* FixupDirectCalls keeps the invariant: it empties the list of a method that
\* has code, and every call site on the list is patched.
LEMMA FixupDirectCallsKeeps ==
  ASSUME TrampolineAssumption, CodeInv, NEW t \in Threads, FixupDirectCalls(t)
  PROVE  CodeInv'
  <1>1. PICK f \in Frame : f = Top(t) /\ f.pc = "patch" /\ FrameInv(t, f)
    BY TopFrame DEF FixupDirectCalls
  <1>2. stack[t] # <<>> /\ t \notin exc
    BY TopFrame DEF FixupDirectCalls
  <1>3. /\ target' = [s \in CallSites |->
                        IF s[2] = f.m /\ s[1] \in fixups[f.m] THEN "code" ELSE target[s]]
        /\ fixups' = [fixups EXCEPT ![f.m] = {}]
        /\ UNCHANGED <<unit, cuCalls, staticSites, vtable, init, corrupt>>
    BY <1>1 DEF FixupDirectCalls
  <1>4. Stable(t) /\ SitesInv' /\ DataOK'
    <2>1. DataOK'
      BY <1>3 DEF CodeInv, TypeOK, DataOK, unit, staticSites
    <2>2. Stable(t)
      BY <1>3 DEF Stable, unit
    <2>3. UnitsComplete'
      BY <1>3 DEF CodeInv, SitesInv, UnitsComplete, unit
    <2>4. CallSitesKept'
      <3>1. SUFFICES ASSUME NEW s \in CallSites
                     PROVE  /\ target'[s] = "code" => state[s[2]] = "compiled"
                            /\ target'[s] = "trampoline" =>
                                 s[1] \in fixups'[s[2]] \/ s[2] \in cuCalls[s[1]]
        BY <1>3 DEF CallSitesKept, unit
      <3>2. s[1] \in Methods /\ s[2] \in Methods
        BY DEF CallSites
      <3>3. CASE s[2] = f.m /\ s[1] \in fixups[f.m]
        BY <1>1, <1>3, <3>3 DEF FrameInv, FixupPC
      <3>4. CASE ~(s[2] = f.m /\ s[1] \in fixups[f.m])
        BY <1>3, <3>2, <3>4 DEF CodeInv, TypeOK, SitesInv, CallSitesKept
      <3>. QED
        BY <3>3, <3>4
    <2>5. StaticSitesKept'
      BY <1>3, <2>2, StaticSitesStay
    <2>6. VtableComplete' /\ VtableDispatch'
      BY <1>3, <2>2, VtableStays
    <2>. QED
      BY <2>1, <2>2, <2>3, <2>4, <2>5, <2>6 DEF SitesInv
  <1>5. PICK g \in Frame : SetTop(t, g) /\ FrameInv(t, g)'
    BY <1>1, <1>3, AfterFixupOK DEF FixupDirectCalls, FixupPC
  <1>. QED
    BY <1>2, <1>4, <1>5, TopReplaced, CodeParts

\* A step that writes the code of a compiled method into the entry of a class
\* that has this method
LEMMA VtableWritten ==
  ASSUME TrampolineAssumption, CodeInv, NEW t \in Threads, NEW m \in Virtual,
         state[m] = "compiled", NEW c, c \in Classes => Slot[c] = m,
         vtable' = [vtable EXCEPT ![c] = <<"code", m>>],
         UNCHANGED <<unit, callSites, staticSites, init, corrupt>>
  PROVE  Stable(t) /\ SitesInv' /\ DataOK'
  <1>1. DataOK'
    BY DEF CodeInv, TypeOK, DataOK, unit, callSites, staticSites
  <1>2. Stable(t)
    BY DEF Stable, unit, callSites
  <1>3. UnitsComplete'
    BY DEF CodeInv, SitesInv, UnitsComplete, unit, callSites
  <1>4. VtableComplete' /\ VtableDispatch'
    BY DEF CodeInv, TypeOK, SitesInv, VtableComplete, VtableDispatch, unit
  <1>. QED
    BY <1>1, <1>2, <1>3, <1>4, CallSitesStay, StaticSitesStay DEF SitesInv

\* FixupVtable keeps the invariant: an entry that holds the trampoline of the
\* method is one of this method.
LEMMA FixupVtableKeeps ==
  ASSUME TrampolineAssumption, CodeInv, NEW t \in Threads, FixupVtable(t)
  PROVE  CodeInv'
  <1>1. PICK f \in Frame : f = Top(t) /\ f.pc = "vtable" /\ FrameInv(t, f)
    BY TopFrame DEF FixupVtable
  <1>2. stack[t] # <<>> /\ t \notin exc
    BY TopFrame DEF FixupVtable
  <1>3. f.m \in Virtual /\ state[f.m] = "compiled"
    BY <1>1 DEF FrameInv, FixupPC
  <1>4. Stable(t) /\ SitesInv' /\ DataOK'
    <2>1. CASE vtable[f.recv] = <<"trampoline", f.m>>
      <3>1. f.recv \in Classes => Slot[f.recv] = f.m
        <4>1. <<"trampoline", f.m>> \in {"trampoline", "code"} \X Methods
          BY DEF Frame
        <4>2. <<"trampoline", f.m>> # NULL /\ <<"trampoline", f.m>>[2] = f.m
          BY <4>1 DEF TrampolineAssumption
        <4>. QED
          BY <2>1, <4>2 DEF CodeInv, SitesInv, VtableDispatch
      <3>2. vtable' = [vtable EXCEPT ![f.recv] = <<"code", f.m>>]
        BY <1>1, <2>1 DEF FixupVtable
      <3>. QED
        BY <1>3, <3>1, <3>2, VtableWritten DEF FixupVtable
    <2>2. CASE vtable[f.recv] # <<"trampoline", f.m>>
      BY <1>1, <2>2, QuietStep DEF FixupVtable
    <2>. QED
      BY <2>1, <2>2
  <1>5. PICK g \in Frame : SetTop(t, g) /\ FrameInv(t, g)'
    <2>. DEFINE g == [f EXCEPT !.pc = "declaring"]
    <2>1. g \in Frame /\ SetTop(t, g)
      BY <1>1 DEF FixupVtable, Goto, Frame, TrampolinePC
    <2>2. FrameInv(t, g)'
      BY <1>1, <1>3 DEF FixupVtable, FrameInv, Frame, CompilePC, BodyPC, FixupPC, unit
    <2>. QED
      BY <2>1, <2>2
  <1>. QED
    BY <1>2, <1>4, <1>5, TopReplaced, CodeParts

\* FixupDeclaring keeps the invariant.
LEMMA FixupDeclaringKeeps ==
  ASSUME TrampolineAssumption, CodeInv, NEW t \in Threads, FixupDeclaring(t)
  PROVE  CodeInv'
  <1>1. PICK f \in Frame : f = Top(t) /\ f.pc = "declaring" /\ FrameInv(t, f)
    BY TopFrame DEF FixupDeclaring
  <1>2. stack[t] # <<>> /\ t \notin exc
    BY TopFrame DEF FixupDeclaring
  <1>3. f.m \in Virtual /\ state[f.m] = "compiled"
    BY <1>1 DEF FrameInv, FixupPC
  <1>4. Stable(t) /\ SitesInv' /\ DataOK'
    BY <1>1, <1>3, VtableWritten DEF FixupDeclaring, TrampolineAssumption
  <1>5. PICK g \in Frame : SetTop(t, g) /\ FrameInv(t, g)'
    <2>1. state'[f.m] = "compiled" /\ f.m \in Methods /\ f.recv \in Classes \cup {NULL}
      BY <1>3 DEF FixupDeclaring, unit, Frame
    <2>2. SetTop(t, NewFrame(f.m, "code", f.recv))
      BY <1>1 DEF FixupDeclaring, Jump
    <2>. QED
      BY <2>1, <2>2, NewFrameOK
  <1>. QED
    BY <1>2, <1>4, <1>5, TopReplaced, CodeParts

\* MoveSite keeps the invariant: the site leaves a list for another.
LEMMA MoveSiteKeeps ==
  ASSUME TrampolineAssumption, CodeInv, NEW t \in Threads, NEW k \in Methods,
         MoveSite(t, k)
  PROVE  CodeInv'
  <1>1. PICK f \in Frame : f = Top(t) /\ f.pc = "move" /\ FrameInv(t, f)
    BY TopFrame DEF MoveSite
  <1>2. stack[t] # <<>> /\ t \notin exc
    BY TopFrame DEF MoveSite
  <1>3. /\ cuCalls' = [cuCalls EXCEPT ![f.m] = @ \ {k}]
        /\ fixups' = [fixups EXCEPT ![k] = @ \cup {f.m}]
        /\ UNCHANGED <<unit, target, staticSites, vtable, init, stack, exc, corrupt>>
        /\ f.m \in Methods
    BY <1>1 DEF MoveSite, thread, Frame
  <1>4. Stable(t) /\ SitesInv' /\ DataOK'
    <2>1. DataOK'
      BY <1>3 DEF CodeInv, TypeOK, DataOK, unit, staticSites
    <2>2. Stable(t)
      BY <1>1, <1>3 DEF CodeInv, TypeOK, Stable, FrameInv, CompilePC, unit
    <2>3. UnitsComplete'
      BY <1>1, <1>3 DEF CodeInv, TypeOK, SitesInv, UnitsComplete, FrameInv, CompilePC, unit
    <2>4. CallSitesKept'
      <3>1. SUFFICES ASSUME NEW s \in CallSites
                     PROVE  /\ target[s] = "code" => state[s[2]] = "compiled"
                            /\ target[s] = "trampoline" =>
                                 s[1] \in fixups'[s[2]] \/ s[2] \in cuCalls'[s[1]]
        BY <1>3 DEF CallSitesKept, unit
      <3>2. s[1] \in Methods /\ s[2] \in Methods
        BY DEF CallSites
      <3>. QED
        BY <1>3, <3>2 DEF CodeInv, TypeOK, SitesInv, CallSitesKept
    <2>5. StaticSitesKept'
      BY <1>3, <2>2, StaticSitesStay
    <2>6. VtableComplete' /\ VtableDispatch'
      BY <1>3, <2>2, VtableStays
    <2>. QED
      BY <2>1, <2>2, <2>3, <2>4, <2>5, <2>6 DEF SitesInv
  <1>5. FrameInv(t, f)'
    BY <1>1, <1>3 DEF FrameInv, CompilePC, BodyPC, FixupPC, unit
  <1>6. SetTop(t, f)
    <2>1. stack[t] \in Seq(Frame)
      BY DEF CodeInv, TypeOK
    <2>2. stack[t] = <<f>> \o Tail(stack[t])
      BY <1>1, <1>2, <2>1, SameTop DEF Top
    <2>. QED
      BY <1>3, <2>1, <2>2 DEF SetTop, CodeInv, TypeOK
  <1>. QED
    BY <1>2, <1>4, <1>5, <1>6, TopReplaced, CodeParts

-----------------------------------------------------------------------------
(* Compiled code                                                           *)

\* What a method is called on
LEMMA InstancesOK ==
  ASSUME TrampolineAssumption, NEW m \in Methods
  PROVE  Instances(m) \subseteq Classes \cup {NULL}
  BY DEF Instances, TrampolineAssumption

\* Invoke keeps the invariant: the first frame of a thread.
LEMMA InvokeKeeps ==
  ASSUME TrampolineAssumption, CodeInv, NEW t \in Threads, NEW m \in Methods,
         Invoke(t, m)
  PROVE  CodeInv'
  <1>1. Stable(t) /\ SitesInv' /\ DataOK'
    BY QuietStep DEF Invoke
  <1>2. PICK g \in Frame : FrameInv(t, g)' /\ stack' = [stack EXCEPT ![t] = <<g>>]
    <2>. DEFINE where == IF state[m] = "compiled" THEN "code" ELSE "trampoline"
    <2>1. PICK c \in Instances(m) : stack' = [stack EXCEPT ![t] = <<NewFrame(m, where, c)>>]
      BY DEF Invoke
    <2>2. where = "code" => state'[m] = "compiled"
      BY DEF Invoke, unit
    <2>3. c \in Classes \cup {NULL}
      BY InstancesOK
    <2>. HIDE DEF where
    <2>. QED
      BY <2>1, <2>2, <2>3, NewFrameOK
  <1>3. t \notin exc /\ exc' = exc
    BY DEF Invoke
  <1>4. <<g>> \in Seq(Frame) /\ Len(<<g>>) = 1 /\ <<g>>[1] = g
    OBVIOUS
  <1>5. StackOK'
    BY <1>2, <1>3, <1>4 DEF CodeInv, TypeOK, StackOK
  <1>6. ASSUME NEW u \in Threads, NEW i \in 1 .. Len(stack'[u])
        PROVE  /\ FrameInv(u, stack[u][i])'
               /\ i > 1 \/ u \in exc => stack'[u][i].pc \in WaitingPC
    <2>1. CASE u = t
      <3>1. i = 1 /\ stack'[u][i] = g
        BY <1>2, <1>4, <1>6, <2>1 DEF CodeInv, TypeOK
      <3>2. FrameInv(u, stack[u][i])'
        BY <1>2, <2>1, <3>1 DEF FrameInv
      <3>. QED
        BY <1>3, <2>1, <3>1, <3>2
    <2>2. CASE u # t
      <3>1. stack'[u] = stack[u] /\ i \in 1 .. Len(stack[u])
        BY <1>2, <1>6, <2>2 DEF CodeInv, TypeOK
      <3>2. PICK f \in Frame : f = stack[u][i]
        BY <3>1, ElementOfSeq DEF CodeInv, TypeOK
      <3>3. FrameInv(u, f) /\ (i > 1 \/ u \in exc => f.pc \in WaitingPC)
        BY <3>1, <3>2 DEF CodeInv, StackInv
      <3>4. FrameInv(u, f)'
        BY <1>1, <2>2, <3>3, FrameKept
      <3>. QED
        BY <3>1, <3>2, <3>3, <3>4 DEF FrameInv
    <2>. QED
      BY <2>1, <2>2
  <1>7. StackInv'
    BY <1>3, <1>6 DEF StackInv
  <1>. QED
    BY <1>1, <1>5, <1>7, CodeParts

\* A call from compiled code keeps the invariant.
LEMMA CallFromKeeps ==
  ASSUME TrampolineAssumption, CodeInv, NEW t \in Threads, NEW site, NEW m \in Methods,
         NEW where, NEW recv \in Classes \cup {NULL}, CallFrom(t, site, m, where, recv),
         where = "code" => state[m] = "compiled"
  PROVE  CodeInv'
  <1>1. PICK f \in Frame : f = Top(t) /\ f.pc = "body" /\ FrameInv(t, f)
    BY TopFrame DEF CallFrom
  <1>2. stack[t] # <<>> /\ t \notin exc
    BY TopFrame DEF CallFrom
  <1>3. Stable(t) /\ SitesInv' /\ DataOK'
    BY QuietStep DEF CallFrom
  <1>. DEFINE g == [f EXCEPT !.left = @ \ {site}]
              h == NewFrame(m, where, recv)
  <1>4. g \in Frame /\ g.pc \in WaitingPC
    BY <1>1 DEF Frame, WaitingPC
  <1>5. FrameInv(t, g)'
    BY <1>1 DEF CallFrom, FrameInv, Frame, CompilePC, BodyPC, FixupPC, unit
  <1>6. h \in Frame /\ FrameInv(t, h)'
    <2>1. where = "code" => state'[m] = "compiled"
      BY DEF CallFrom, unit
    <2>. QED
      BY <2>1, NewFrameOK
  <1>7. stack' = [stack EXCEPT ![t] = <<h, g>> \o Tail(@)] /\ UNCHANGED exc
    BY <1>1 DEF CallFrom
  <1>. HIDE DEF g, h
  <1>. QED
    BY <1>2, <1>3, <1>4, <1>5, <1>6, <1>7, FramePushed, CodeParts

\* ExecuteCall keeps the invariant: a call site leads to code only if the
\* callee is compiled.
LEMMA ExecuteCallKeeps ==
  ASSUME TrampolineAssumption, CodeInv, NEW t \in Threads, NEW k \in Methods,
         ExecuteCall(t, k)
  PROVE  CodeInv'
  <1>1. PICK f \in Frame : f = Top(t) /\ f.pc = "body" /\ FrameInv(t, f)
    BY TopFrame DEF ExecuteCall
  <1>2. PICK c \in Instances(k) :
          CallFrom(t, [kind |-> "call", to |-> k], k, target[<<f.m, k>>], c)
    BY <1>1 DEF ExecuteCall
  <1>3. <<f.m, k>> \in CallSites
    BY <1>1 DEF ExecuteCall, CallSites, Frame
  <1>4. target[<<f.m, k>>] = "code" => state[k] = "compiled"
    BY <1>3 DEF CodeInv, SitesInv, CallSitesKept
  <1>5. c \in Classes \cup {NULL}
    BY InstancesOK
  <1>. QED
    BY <1>2, <1>4, <1>5, CallFromKeeps

\* ExecuteVirtual keeps the invariant: so does a vtable entry.
LEMMA ExecuteVirtualKeeps ==
  ASSUME TrampolineAssumption, CodeInv, NEW t \in Threads, NEW c \in Classes,
         ExecuteVirtual(t, c)
  PROVE  CodeInv'
  <1>1. vtable[c] # NULL /\ vtable[c][2] \in Methods
    BY DEF ExecuteVirtual, CodeInv, TypeOK, Virtual, TrampolineAssumption
  <1>2. vtable[c][1] = "code" => state[vtable[c][2]] = "compiled"
    BY <1>1 DEF CodeInv, SitesInv, VtableComplete
  <1>. QED
    BY <1>1, <1>2, CallFromKeeps DEF ExecuteVirtual

\* ExecuteStatic keeps the invariant.
LEMMA ExecuteStaticKeeps ==
  ASSUME TrampolineAssumption, CodeInv, NEW t \in Threads, NEW c \in Classes,
         ExecuteStatic(t, c)
  PROVE  CodeInv'
  <1>1. PICK f \in Frame : f = Top(t) /\ f.pc = "body" /\ FrameInv(t, f)
    BY TopFrame DEF ExecuteStatic
  <1>2. stack[t] # <<>> /\ t \notin exc
    BY TopFrame DEF ExecuteStatic
  <1>3. Stable(t) /\ SitesInv' /\ DataOK'
    BY QuietStep DEF ExecuteStatic
  <1>4. PICK g \in Frame : SetTop(t, g) /\ FrameInv(t, g)'
    <2>. DEFINE g == [f EXCEPT !.left = @ \ {[kind |-> "static", to |-> c]}]
    <2>1. g \in Frame /\ SetTop(t, g)
      BY <1>1 DEF ExecuteStatic, Frame
    <2>2. FrameInv(t, g)'
      BY <1>1 DEF ExecuteStatic, FrameInv, Frame, CompilePC, BodyPC, FixupPC, unit
    <2>. QED
      BY <2>1, <2>2
  <1>. QED
    BY <1>2, <1>3, <1>4, TopReplaced, CodeParts

\* Trap keeps the invariant.
LEMMA TrapKeeps ==
  ASSUME TrampolineAssumption, CodeInv, NEW t \in Threads, NEW c \in Classes, Trap(t, c)
  PROVE  CodeInv'
  <1>1. PICK f \in Frame : f = Top(t) /\ f.pc = "body" /\ FrameInv(t, f)
    BY TopFrame DEF Trap
  <1>2. stack[t] # <<>> /\ t \notin exc
    BY TopFrame DEF Trap
  <1>3. Stable(t) /\ SitesInv' /\ DataOK'
    BY QuietStep DEF Trap
  <1>4. PICK g \in Frame : SetTop(t, g) /\ FrameInv(t, g)'
    <2>. DEFINE g == [f EXCEPT !.pc = "trapInit", !.cls = c]
    <2>1. g \in Frame /\ SetTop(t, g)
      BY <1>1 DEF Trap, Frame, BodyPC
    <2>2. FrameInv(t, g)'
      BY <1>1 DEF Trap, FrameInv, Frame, CompilePC, BodyPC, FixupPC, unit
    <2>. QED
      BY <2>1, <2>2
  <1>. QED
    BY <1>2, <1>3, <1>4, TopReplaced, CodeParts

\* FixupStatic keeps the invariant: the class is not "linked" any more.
LEMMA FixupStaticKeeps ==
  ASSUME TrampolineAssumption, CodeInv, NEW t \in Threads, FixupStatic(t)
  PROVE  CodeInv'
  <1>1. PICK f \in Frame : f = Top(t) /\ f.pc = "patchStatic" /\ FrameInv(t, f)
    BY TopFrame DEF FixupStatic
  <1>2. stack[t] # <<>> /\ t \notin exc
    BY TopFrame DEF FixupStatic
  <1>. DEFINE c == f.cls
  <1>3. /\ access' = [s \in StaticSites |->
                  IF s[2] = c /\ s[1] \in vmcStatics[c] THEN "field" ELSE access[s]]
        /\ cuStatics' = [m \in Methods |->
                     IF m \in vmcStatics[c] THEN cuStatics[m] \ {c} ELSE cuStatics[m]]
        /\ vmcStatics' = [vmcStatics EXCEPT ![c] = {}]
        /\ UNCHANGED <<unit, callSites, vtable, init>>
        /\ corrupt' \in BOOLEAN
    BY <1>1 DEF FixupStatic
  <1>4. c \in Classes /\ init[c] # "linked"
    BY <1>1 DEF FrameInv
  <1>5. Stable(t) /\ SitesInv' /\ DataOK'
    <2>1. DataOK'
      BY <1>3 DEF CodeInv, TypeOK, DataOK, unit, callSites
    <2>2. Stable(t)
      BY <1>3 DEF Stable, unit, callSites
    <2>3. UnitsComplete'
      BY <1>3 DEF CodeInv, SitesInv, UnitsComplete, unit, callSites
    <2>4. CallSitesKept'
      BY <1>3, <2>2, CallSitesStay
    <2>5. StaticSitesKept'
      <3>1. SUFFICES ASSUME NEW s \in StaticSites
                     PROVE  /\ access'[s] = "field" => init[s[2]] # "linked"
                            /\ access'[s] = "guard" =>
                                 s[2] \in cuStatics'[s[1]] /\ s[1] \in vmcStatics'[s[2]]
        BY <1>3 DEF StaticSitesKept
      <3>2. s[1] \in Methods /\ s[2] \in Classes
        BY DEF StaticSites
      <3>. QED
        BY <1>3, <1>4, <3>2 DEF CodeInv, TypeOK, SitesInv, StaticSitesKept
    <2>6. VtableComplete' /\ VtableDispatch'
      BY <1>3, <2>2, VtableStays
    <2>. QED
      BY <2>1, <2>2, <2>3, <2>4, <2>5, <2>6 DEF SitesInv
  <1>6. PICK g \in Frame : SetTop(t, g) /\ FrameInv(t, g)'
    <2>. DEFINE g == [f EXCEPT !.pc = "body"]
    <2>1. g \in Frame /\ SetTop(t, g)
      BY <1>1 DEF FixupStatic, Goto, Frame, BodyPC
    <2>2. FrameInv(t, g)'
      BY <1>1, <1>3 DEF FrameInv, Frame, CompilePC, BodyPC, FixupPC, unit
    <2>. QED
      BY <2>1, <2>2
  <1>. QED
    BY <1>2, <1>5, <1>6, TopReplaced, CodeParts

\* Return keeps the invariant.
LEMMA ReturnKeeps ==
  ASSUME TrampolineAssumption, CodeInv, NEW t \in Threads, Return(t)
  PROVE  CodeInv'
  <1>1. Stable(t) /\ SitesInv' /\ DataOK'
    BY QuietStep DEF Return
  <1>2. stack[t] # <<>> /\ Pop(t) /\ exc' \in {exc, exc \cup {t}}
    BY DEF Return, At
  <1>. QED
    BY <1>1, <1>2, FramePopped, CodeParts

\* Catch keeps the invariant: what is left of the stack waited.
LEMMA CatchKeeps ==
  ASSUME TrampolineAssumption, CodeInv, NEW t \in Threads, Catch(t)
  PROVE  CodeInv'
  <1>1. Stable(t) /\ SitesInv' /\ DataOK'
    BY QuietStep DEF Catch
  <1>2. stack' = stack /\ exc' = exc \ {t}
    BY DEF Catch
  <1>3. StackOK'
    BY <1>2 DEF CodeInv, TypeOK, StackOK
  <1>4. ASSUME NEW u \in Threads, NEW i \in 1 .. Len(stack[u])
        PROVE  FrameInv(u, stack[u][i])'
    <2>1. PICK f \in Frame : f = stack[u][i]
      BY ElementOfSeq DEF CodeInv, TypeOK
    <2>2. FrameInv(u, f) /\ (u \in exc => f.pc \in WaitingPC)
      BY <2>1 DEF CodeInv, StackInv
    <2>3. FrameInv(u, f)'
      BY <1>1, <2>2, FrameKept DEF Catch
    <2>. QED
      BY <1>2, <2>1, <2>3 DEF FrameInv
  <1>5. StackInv'
    BY <1>2, <1>4 DEF StackInv, CodeInv
  <1>. QED
    BY <1>1, <1>3, <1>5, CodeParts

\* Unwind keeps the invariant.
LEMMA UnwindKeeps ==
  ASSUME TrampolineAssumption, CodeInv, NEW t \in Threads, Unwind(t)
  PROVE  CodeInv'
  <1>1. /\ init' \in [Classes -> {"linked", "initialized", "erroneous"} \cup Threads]
        /\ \A c \in Classes : init[c] # "linked" => init'[c] # "linked"
    <2>1. CASE Top(t).pc \in {"clinit", "trapClinit"}
      BY <2>1 DEF Unwind, CodeInv, TypeOK
    <2>2. CASE Top(t).pc \notin {"clinit", "trapClinit"}
      BY <2>2 DEF Unwind, CodeInv, TypeOK
    <2>. QED
      BY <2>1, <2>2
  <1>2. Stable(t) /\ SitesInv' /\ DataOK'
    BY <1>1, InitStep DEF Unwind
  <1>3. stack[t] # <<>> /\ Pop(t) /\ exc' \in {exc, exc \cup {t}}
    BY DEF Unwind
  <1>. QED
    BY <1>2, <1>3, FramePopped, CodeParts

-----------------------------------------------------------------------------
(* The theorems                                                            *)

LEMMA CodeInit ==
  ASSUME TrampolineAssumption, Init
  PROVE  CodeInv
  <1>1. DataOK
    <2>1. vtable \in [Classes -> ({"trampoline", "code"} \X Virtual) \cup {NULL}]
      BY DEF Init, Virtual, TrampolineAssumption
    <2>. QED
      BY <2>1 DEF Init, DataOK
  <1>2. StackOK
    BY DEF Init, StackOK
  <1>3. StackInv
    BY DEF Init, StackInv
  <1>4. SitesInv
    BY DEF Init, SitesInv, UnitsComplete, CallSitesKept, StaticSitesKept,
       VtableComplete, VtableDispatch
  <1>. QED
    BY <1>1, <1>2, <1>3, <1>4 DEF CodeInv, TypeOK, DataOK, StackOK

\* A step of a thread, by the part of the trampoline or the code it is in
LEMMA TrampolineStepKeeps ==
  ASSUME TrampolineAssumption, CodeInv, NEW t \in Threads, TrampolineStep(t)
  PROVE  CodeInv'
  <1>1. CASE EnsureInit(t, "init", "state", "clinit")
    BY <1>1, EnsureInitKeeps DEF EnsureInitAt
  <1>2. CASE InitDone(t, "clinit", "state")
    BY <1>2, InitDoneKeeps DEF EnsureInitAt
  <1>. QED
    BY <1>1, <1>2, EnterKeeps, GetStateKeeps, LockKeeps, UnlockKeeps, FixupEmptyKeeps,
       FixupDirectCallsKeeps, FixupVtableKeeps, FixupDeclaringKeeps DEF TrampolineStep

LEMMA CompileStepKeeps ==
  ASSUME TrampolineAssumption, CodeInv, NEW t \in Threads, CompileStep(t)
  PROVE  CodeInv'
  BY SelectCallKeeps, MoveSiteKeeps, SelectStaticKeeps, CompileFailsKeeps,
     EmitMachineCodeKeeps, ResolveOffsetsKeeps, AddMappingKeeps, PublishKeeps
  DEF CompileStep

LEMMA BodyStepKeeps ==
  ASSUME TrampolineAssumption, CodeInv, NEW t \in Threads, BodyStep(t)
  PROVE  CodeInv'
  <1>1. CASE EnsureInit(t, "trapInit", "patchStatic", "trapClinit")
    BY <1>1, EnsureInitKeeps DEF EnsureInitAt
  <1>2. CASE InitDone(t, "trapClinit", "patchStatic")
    BY <1>2, InitDoneKeeps DEF EnsureInitAt
  <1>. QED
    BY <1>1, <1>2, ExecuteCallKeeps, ExecuteVirtualKeeps, ExecuteStaticKeeps, TrapKeeps,
       FixupStaticKeeps, ReturnKeeps, CatchKeeps, UnwindKeeps DEF BodyStep

LEMMA CodeStutter ==
  ASSUME CodeInv, UNCHANGED vars
  PROVE  CodeInv'
  <1>1. /\ UNCHANGED <<unit, callSites, staticSites, vtable, init, stack, exc>>
        /\ corrupt' = corrupt
    BY DEF vars, thread
  <1>2. TypeOK'
    BY <1>1 DEF CodeInv, TypeOK, unit, callSites, staticSites
  <1>3. SitesInv'
    BY <1>1 DEF CodeInv, SitesInv, UnitsComplete, CallSitesKept, StaticSitesKept,
       VtableComplete, VtableDispatch, unit, callSites, staticSites
  <1>4. StackInv'
    BY <1>1 DEF CodeInv, StackInv, FrameInv, unit, callSites
  <1>. QED
    BY <1>2, <1>3, <1>4 DEF CodeInv

\* What the frames of the threads, the call sites, the field accesses and the
\* vtables say about the compilation units and the classes holds throughout,
\* for every program and any number of threads, whatever compilations, fixups,
\* initialisers and failures overlap.
THEOREM CodeInvariant == Spec => []CodeInv
  <1>1. Init => CodeInv
    BY CodeInit, TrampolineAssumption
  <1>2. CodeInv /\ [Next]_vars => CodeInv'
    BY TrampolineAssumption, TrampolineStepKeeps, CompileStepKeeps, BodyStepKeeps,
       InvokeKeeps, CodeStutter DEF Next, Run
  <1>. QED
    BY <1>1, <1>2, PTL DEF Spec

\* TypeOK is an invariant of lazy compilation.
THEOREM TrampolineTypes == Spec => []TypeOK
  <1>1. CodeInv => TypeOK
    BY DEF CodeInv
  <1>. QED
    BY <1>1, CodeInvariant, PTL

\* CodeIsComplete: no call site, vtable entry or frame leads into the code of
\* a compilation that has not ended.
THEOREM RunningCodeIsComplete == Spec => []CodeIsComplete
  <1>1. CodeInv => CodeIsComplete
    <2>. SUFFICES ASSUME CodeInv PROVE CodeIsComplete
      OBVIOUS
    <2>. DEFINE Usable(m) == state[m] = "compiled" /\ m \in emitted \cap resolved \cap mapped
    <2>1. \A m \in Methods : state[m] = "compiled" => Usable(m)
      BY DEF CodeInv, SitesInv, UnitsComplete
    <2>2. \A s \in CallSites : target[s] = "code" => Usable(s[2])
      BY <2>1 DEF CodeInv, SitesInv, CallSitesKept, CallSites
    <2>3. \A c \in Classes : vtable[c] # NULL /\ vtable[c][1] = "code"
                               => Usable(vtable[c][2])
      <3>1. \A c \in Classes : vtable[c] # NULL => vtable[c][2] \in Methods
        BY TrampolineAssumption DEF CodeInv, TypeOK, Virtual, TrampolineAssumption
      <3>. QED
        BY <2>1, <3>1 DEF CodeInv, SitesInv, VtableComplete
    <2>4. ASSUME NEW t \in Threads, NEW i \in DOMAIN stack[t], stack[t][i].pc \in BodyPC
          PROVE  Usable(stack[t][i].m)
      <3>1. i \in 1 .. Len(stack[t]) /\ stack[t] \in Seq(Frame)
        BY LenProperties DEF CodeInv, TypeOK
      <3>2. stack[t][i] \in Frame /\ FrameInv(t, stack[t][i])
        BY <3>1, ElementOfSeq DEF CodeInv, StackInv
      <3>. QED
        BY <2>1, <2>4, <3>2 DEF FrameInv, Frame
    <2>. QED
      BY <2>2, <2>3, <2>4 DEF CodeIsComplete
  <1>. QED
    BY <1>1, CodeInvariant, PTL

\* VtableDispatch: a vtable entry never leads to another method than the one
\* the class inherits or declares.
THEOREM VtablesDispatch == Spec => []VtableDispatch
  <1>1. CodeInv => VtableDispatch
    BY DEF CodeInv, SitesInv
  <1>. QED
    BY <1>1, CodeInvariant, PTL

\* SitesAreKept: no site that has to be patched is lost.
THEOREM NoSiteIsLost == Spec => []SitesAreKept
  <1>1. CodeInv => SitesAreKept
    BY DEF CodeInv, SitesInv, UnitsComplete, CallSitesKept, StaticSitesKept,
       SitesAreKept, CallSites
  <1>. QED
    BY <1>1, CodeInvariant, PTL

=============================================================================
