--------------------------- MODULE ClassInitProofs ---------------------------
(***************************************************************************)
(* TLAPS proofs about class initialisation, for every class hierarchy, all *)
(* static initialisers and any number of threads: a class is initialised   *)
(* by one thread, its superclass first, and vm_class_init returns 0 only   *)
(* to threads that may use the class.                                      *)
(***************************************************************************)
EXTENDS ClassInit, FiniteSetTheorems, SequenceTheorems, TLAPS

\* The calls of vm_class_init of each thread, outermost first: unlike in
\* `stack', a call keeps its place as long as it lasts.
Outward(s) == [k \in 1 .. Len(s) |-> s[Len(s) + 1 - k]]
Depth == [t \in Threads |-> Len(stack[t])]
Calls == [t \in Threads |-> Outward(stack[t])]

\* A call that has won compile_lock_enter for its class
OwnPC == {"setEe"} \cup InitPC \cup LeavePC \cup {"fail"}

\* A call that is counted in nr_waiting
WaitingPC == {"loop", "checkEe", "semWait", "decWaiting"}

ClinitPC == {"clinit", "clinitCall", "finish"}

\* What the place of a call says about the lock and the state of its class
FrameInv(f) ==
  /\ f.pc \in {"setEe"} \cup InitPC => status[f.class] = "compiling"
  /\ f.pc \in LeavePC => status[f.class] \in Final
  /\ f.pc = "fail" => status[f.class] = "erroneous"
  /\ f.pc = "setEe" => compilingEe[f.class] = NULL
  /\ f.pc \in {"setEe", "begin"} => state[f.class] = "linked"
  /\ f.pc \in InitPC \ {"begin", "leave"} => state[f.class] = "initializing"
  /\ f.pc = "leave" => state[f.class] = "initialized"
  /\ f.pc \in LeavePC \cup {"fail"} /\ status[f.class] = "erroneous"
       => state[f.class] = "initializing"
  /\ f.pc \in {"incWaiting"} \cup WaitingPC => status[f.class] # "initial"
  /\ f.pc = "decWaiting" => status[f.class] \in Final

\* Outer calls wait for the inner one, which is for the superclass if they say
\* so.
ShapeInv ==
  \A t \in Threads : \A k \in 1 .. Depth[t] :
    /\ Calls[t][k] \in Frame
    /\ FrameInv(Calls[t][k])
    /\ k < Depth[t] => Calls[t][k].pc \in {"superCall", "clinitCall"}
    /\ k < Depth[t] /\ Calls[t][k].pc = "superCall" =>
         Calls[t][k + 1].class = Super[Calls[t][k].class]

\* The lock has one owner.
OwnerInv ==
  \A t, u \in Threads : \A k \in 1 .. Depth[t], l \in 1 .. Depth[u] :
    Calls[t][k].pc \in OwnPC /\ Calls[u][l].pc \in OwnPC
      /\ Calls[t][k].class = Calls[u][l].class => t = u /\ k = l

\* One of the k outermost calls of thread t initialises class c.
Holds(t, k, c) ==
  \E j \in 1 .. k : Calls[t][j].class = c /\ Calls[t][j].pc \notin EnterPC

\* What <clinit> and the check of compiling_ee rest on: an outer call of the
\* same thread, which will not end before them.
HoldsInv ==
  \A t \in Threads : \A k \in 1 .. Depth[t] :
    LET f == Calls[t][k] IN
    /\ f.pc \in ClinitPC /\ Super[f.class] # NULL =>
         state[Super[f.class]] = "initialized" \/ Holds(t, k, Super[f.class])
    /\ f.pc = "checkEe" /\ compilingEe[f.class] = t => Holds(t, k, f.class)

\* status, compiling_ee and vmc->state of a class agree.
StatusInv ==
  \A c \in Classes :
    /\ status[c] = "initial" => compilingEe[c] = NULL /\ state[c] = "linked"
    /\ status[c] = "ok" => state[c] = "initialized"
    /\ \A t \in Threads : status[c] = "compiling" /\ compilingEe[c] = t =>
         \E k \in 1 .. Depth[t] : Calls[t][k].class = c /\ Calls[t][k].pc \in InitPC

Waiting(c) ==
  {t \in Threads : Depth[t] > 0 /\ Calls[t][Depth[t]].class = c
                   /\ Calls[t][Depth[t]].pc \in WaitingPC}

\* nr_waiting is the number of threads that wait.
WaitingInv == \A c \in Classes : nrWaiting[c] = Cardinality(Waiting(c))

ClassInv == TypeOK /\ ShapeInv /\ OwnerInv /\ HoldsInv /\ StatusInv /\ WaitingInv

-----------------------------------------------------------------------------
(* Stacks                                                                  *)

\* The three things a step does to the calls of its thread: it moves on in the
\* innermost one, which becomes g; it makes another call, h; it returns from it
\* to its caller, which becomes g.
OthersStay(t) ==
  \A u \in Threads \ {t} : Depth'[u] = Depth[u] /\ Calls'[u] = Calls[u]

Replaced(t, g) ==
  /\ OthersStay(t)
  /\ Depth'[t] = Depth[t] /\ Calls'[t][Depth[t]] = g
  /\ \A k \in 1 .. Depth[t] - 1 : Calls'[t][k] = Calls[t][k]

Pushed(t, g, h) ==
  /\ OthersStay(t)
  /\ Depth'[t] = Depth[t] + 1 /\ Calls'[t][Depth[t]] = g /\ Calls'[t][Depth[t] + 1] = h
  /\ \A k \in 1 .. Depth[t] - 1 : Calls'[t][k] = Calls[t][k]

Popped(t, g) ==
  /\ OthersStay(t)
  /\ Depth'[t] = Depth[t] - 1
  /\ Depth[t] > 1 => Calls'[t][Depth[t] - 1] = g
  /\ \A k \in 1 .. Depth[t] - 2 : Calls'[t][k] = Calls[t][k]

\* A call on top of others does not move them.
LEMMA OutwardOnTop ==
  ASSUME NEW f \in Frame, NEW q \in Seq(Frame), NEW n \in Nat, n = Len(q)
  PROVE  /\ <<f>> \o q \in Seq(Frame) /\ Len(<<f>> \o q) = n + 1
         /\ Outward(<<f>> \o q)[n + 1] = f
         /\ \A k \in 1 .. n : Outward(<<f>> \o q)[k] = Outward(q)[k]
  <1>. DEFINE r == <<f>> \o q
  <1>1. <<f>> \in Seq(Frame) /\ Len(<<f>>) = 1 /\ <<f>>[1] = f
    OBVIOUS
  <1>2. /\ r \in Seq(Frame) /\ Len(r) = n + 1 /\ r[1] = f
        /\ \A i \in 1 .. n + 1 : r[i] = IF i <= 1 THEN <<f>>[i] ELSE q[i - 1]
    BY <1>1, ConcatProperties
  <1>. HIDE DEF r
  <1>3. Outward(r) = [k \in 1 .. n + 1 |-> r[n + 2 - k]]
    BY <1>2 DEF Outward
  <1>4. Outward(q) = [k \in 1 .. n |-> q[n + 1 - k]]
    BY DEF Outward
  <1>5. Outward(r)[n + 1] = f
    BY <1>2, <1>3
  <1>6. ASSUME NEW k \in 1 .. n PROVE Outward(r)[k] = Outward(q)[k]
    <2>1. Outward(r)[k] = r[n + 2 - k] /\ Outward(q)[k] = q[n + 1 - k]
      BY <1>3, <1>4
    <2>2. r[n + 2 - k] = q[n + 1 - k]
      BY <1>2
    <2>. QED
      BY <2>1, <2>2
  <1>. QED
    BY <1>2, <1>5, <1>6 DEF r

\* A stack that is not empty
LEMMA OutwardTail ==
  ASSUME NEW s \in Seq(Frame), s # <<>>
  PROVE  /\ Len(s) \in Nat /\ Len(s) >= 1 /\ Head(s) \in Frame
         /\ Tail(s) \in Seq(Frame) /\ Len(Tail(s)) = Len(s) - 1
         /\ Outward(s)[Len(s)] = Head(s)
         /\ \A k \in 1 .. Len(s) - 1 : Outward(Tail(s))[k] = Outward(s)[k]
  <1>1. /\ Len(s) \in Nat /\ Len(s) >= 1 /\ Head(s) \in Frame
        /\ Tail(s) \in Seq(Frame) /\ Len(Tail(s)) = Len(s) - 1
    BY EmptySeq, LenProperties, HeadTailProperties
  <1>2. s = <<Head(s)>> \o Tail(s)
    BY HeadTailProperties
  <1>. DEFINE n == Len(s) - 1
  <1>3. n \in Nat /\ n + 1 = Len(s)
    BY <1>1
  <1>4. /\ Outward(<<Head(s)>> \o Tail(s))[n + 1] = Head(s)
        /\ \A k \in 1 .. n : Outward(<<Head(s)>> \o Tail(s))[k] = Outward(Tail(s))[k]
    BY <1>1, <1>3, OutwardOnTop
  <1>. QED
    BY <1>1, <1>2, <1>3, <1>4

LEMMA CallsOf ==
  ASSUME NEW t \in Threads
  PROVE  /\ Depth[t] = Len(stack[t]) /\ Calls[t] = Outward(stack[t])
         /\ Depth'[t] = Len(stack'[t]) /\ Calls'[t] = Outward(stack'[t])
  BY DEF Depth, Calls, Outward

LEMMA OthersAre ==
  ASSUME stack \in [Threads -> Seq(Frame)], NEW t \in Threads, NEW r \in Seq(Frame),
         stack' = [stack EXCEPT ![t] = r]
  PROVE  /\ OthersStay(t) /\ stack' \in [Threads -> Seq(Frame)]
         /\ Depth'[t] = Len(r) /\ Calls'[t] = Outward(r)
  <1>1. stack'[t] = r /\ stack' \in [Threads -> Seq(Frame)]
    OBVIOUS
  <1>2. \A u \in Threads \ {t} : stack'[u] = stack[u]
    OBVIOUS
  <1>. QED
    BY <1>1, <1>2, CallsOf DEF OthersStay

LEMMA ReplaceCall ==
  ASSUME stack \in [Threads -> Seq(Frame)], NEW t \in Threads, stack[t] # <<>>,
         NEW g \in Frame, stack' = [stack EXCEPT ![t] = <<g>> \o Tail(@)]
  PROVE  stack' \in [Threads -> Seq(Frame)] /\ Replaced(t, g)
  <1>1. PICK s \in Seq(Frame) : s = stack[t]
    OBVIOUS
  <1>2. PICK q \in Seq(Frame) : q = Tail(s)
    BY <1>1, OutwardTail
  <1>3. PICK n \in Nat : n = Len(q)
    BY LenProperties
  <1>4. /\ Len(s) = n + 1
        /\ \A k \in 1 .. n : Outward(q)[k] = Outward(s)[k]
    BY <1>1, <1>2, <1>3, OutwardTail
  <1>5. /\ <<g>> \o q \in Seq(Frame) /\ Len(<<g>> \o q) = n + 1
        /\ Outward(<<g>> \o q)[n + 1] = g
        /\ \A k \in 1 .. n : Outward(<<g>> \o q)[k] = Outward(q)[k]
    BY <1>3, OutwardOnTop
  <1>6. stack' = [stack EXCEPT ![t] = <<g>> \o q]
    BY <1>1, <1>2
  <1>7. /\ OthersStay(t) /\ stack' \in [Threads -> Seq(Frame)]
        /\ Depth'[t] = n + 1 /\ Calls'[t] = Outward(<<g>> \o q)
    BY <1>5, <1>6, OthersAre
  <1>8. Depth[t] = n + 1 /\ Calls[t] = Outward(s)
    BY <1>1, <1>4, CallsOf
  <1>. QED
    BY <1>4, <1>5, <1>7, <1>8 DEF Replaced

\* The form in which Call writes two frames
LEMMA TwoOnTop ==
  ASSUME NEW h \in Frame, NEW g \in Frame, NEW q \in Seq(Frame)
  PROVE  <<h, g>> \o q = <<h>> \o (<<g>> \o q)
  <1>1. /\ <<h>> \in Seq(Frame) /\ <<g>> \in Seq(Frame) /\ <<h, g>> \in Seq(Frame)
        /\ Len(<<h>>) = 1 /\ <<h>>[1] = h /\ Len(<<g>>) = 1 /\ <<g>>[1] = g
        /\ Len(<<h, g>>) = 2 /\ <<h, g>>[1] = h /\ <<h, g>>[2] = g
    OBVIOUS
  <1>2. /\ <<h>> \o <<g>> \in Seq(Frame) /\ Len(<<h>> \o <<g>>) = 2
        /\ (<<h>> \o <<g>>)[1] = h /\ (<<h>> \o <<g>>)[2] = g
    BY <1>1, ConcatProperties
  <1>3. <<h>> \o <<g>> = <<h, g>>
    <2>. DEFINE a == <<h>> \o <<g>>
                b == <<h, g>>
    <2>1. /\ a \in Seq(Frame) /\ b \in Seq(Frame) /\ Len(a) = Len(b)
          /\ \A i \in 1 .. Len(a) : a[i] = b[i]
      BY <1>1, <1>2
    <2>. HIDE DEF a, b
    <2>2. a = b
      BY <2>1, SeqEqual
    <2>. QED
      BY <2>2 DEF a, b
  <1>4. PICK a \in Seq(Frame), b \in Seq(Frame) : a = <<h>> /\ b = <<g>>
    BY <1>1
  <1>5. (a \o b) \o q = a \o (b \o q)
    BY ConcatAssociative
  <1>. QED
    BY <1>3, <1>4, <1>5

LEMMA PushCall ==
  ASSUME stack \in [Threads -> Seq(Frame)], NEW t \in Threads, stack[t] # <<>>,
         NEW g \in Frame, NEW h \in Frame,
         stack' = [stack EXCEPT ![t] = <<h, g>> \o Tail(@)]
  PROVE  stack' \in [Threads -> Seq(Frame)] /\ Pushed(t, g, h)
  <1>1. PICK s \in Seq(Frame) : s = stack[t]
    OBVIOUS
  <1>2. PICK q \in Seq(Frame) : q = Tail(s)
    BY <1>1, OutwardTail
  <1>3. PICK n \in Nat : n = Len(q)
    BY LenProperties
  <1>4. /\ Len(s) = n + 1
        /\ \A k \in 1 .. n : Outward(q)[k] = Outward(s)[k]
    BY <1>1, <1>2, <1>3, OutwardTail
  <1>5. /\ <<g>> \o q \in Seq(Frame) /\ Len(<<g>> \o q) = n + 1
        /\ Outward(<<g>> \o q)[n + 1] = g
        /\ \A k \in 1 .. n : Outward(<<g>> \o q)[k] = Outward(q)[k]
    BY <1>3, OutwardOnTop
  <1>6. PICK r \in Seq(Frame) : r = <<g>> \o q
    BY <1>5
  <1>m. PICK m \in Nat : m = n + 1
    OBVIOUS
  <1>7. /\ <<h>> \o r \in Seq(Frame) /\ Len(<<h>> \o r) = m + 1
        /\ Outward(<<h>> \o r)[m + 1] = h
        /\ \A k \in 1 .. m : Outward(<<h>> \o r)[k] = Outward(r)[k]
    <2>1. m = Len(r)
      BY <1>5, <1>6, <1>m
    <2>. QED
      BY <2>1, OutwardOnTop
  <1>8. stack' = [stack EXCEPT ![t] = <<h>> \o r]
    <2>1. <<h, g>> \o q = <<h>> \o r
      BY <1>6, TwoOnTop
    <2>. QED
      BY <1>1, <1>2, <2>1
  <1>9. /\ OthersStay(t) /\ stack' \in [Threads -> Seq(Frame)]
        /\ Depth'[t] = m + 1 /\ Calls'[t] = Outward(<<h>> \o r)
    BY <1>7, <1>8, OthersAre
  <1>10. Depth[t] = m /\ Calls[t] = Outward(s)
    BY <1>1, <1>4, <1>m, CallsOf
  <1>11. m \in 1 .. m /\ 1 .. m - 1 = 1 .. n /\ \A k \in 1 .. n : k \in 1 .. m
    BY <1>m
  <1>12. /\ Outward(<<h>> \o r)[m] = g
         /\ \A k \in 1 .. m - 1 : Outward(<<h>> \o r)[k] = Outward(s)[k]
    <2>1. Outward(r)[m] = g
      BY <1>5, <1>6, <1>m
    <2>2. ASSUME NEW k \in 1 .. m - 1 PROVE Outward(<<h>> \o r)[k] = Outward(s)[k]
      <3>1. k \in 1 .. n /\ k \in 1 .. m
        BY <1>11
      <3>. QED
        BY <1>4, <1>5, <1>6, <1>7, <3>1, Zenon
    <2>. QED
      BY <1>7, <1>11, <2>1, <2>2, Zenon
  <1>. QED
    BY <1>7, <1>9, <1>10, <1>12 DEF Pushed

\* Return, to nobody or to a caller
LEMMA PopCall ==
  ASSUME stack \in [Threads -> Seq(Frame)], NEW t \in Threads, stack[t] # <<>>,
         NEW value, Return(t, value)
  PROVE  /\ stack' \in [Threads -> Seq(Frame)] /\ Depth[t] \in Nat /\ Depth[t] >= 1
         /\ Depth[t] = 1 => \A g : Popped(t, g)
         /\ Depth[t] > 1 => \E f \in Frame :
              /\ f = Calls[t][Depth[t] - 1]
              /\ \E label \in Resumes(f.pc, value) : Popped(t, [f EXCEPT !.pc = label])
  <1>1. PICK s \in Seq(Frame) : s = stack[t]
    OBVIOUS
  <1>2. /\ Len(s) \in Nat /\ Len(s) >= 1 /\ Tail(s) \in Seq(Frame)
        /\ Len(Tail(s)) = Len(s) - 1
        /\ \A k \in 1 .. Len(s) - 1 : Outward(Tail(s))[k] = Outward(s)[k]
        /\ \A i \in 1 .. Len(s) - 1 : Tail(s)[i] = s[i + 1]
    BY <1>1, OutwardTail, HeadTailProperties
  <1>3. Depth[t] = Len(s) /\ Calls[t] = Outward(s)
    BY <1>1, CallsOf
  <1>4. CASE Len(s) = 1
    <2>1. stack' = [stack EXCEPT ![t] = <<>>] /\ <<>> \in Seq(Frame) /\ Len(<<>>) = 0
      BY <1>1, <1>4 DEF Return
    <2>2. OthersStay(t) /\ stack' \in [Threads -> Seq(Frame)] /\ Depth'[t] = 0
      BY <2>1, OthersAre
    <2>3. \A g : Popped(t, g)
      BY <1>3, <1>4, <2>2 DEF Popped
    <2>. QED
      BY <1>3, <1>4, <2>2, <2>3
  <1>5. CASE Len(s) # 1
    <2>1. PICK p \in Seq(Frame) : p = Tail(s)
      BY <1>2
    <2>2. p # <<>> /\ Len(p) = Len(s) - 1
      BY <1>2, <1>5, <2>1, EmptySeq
    <2>3. PICK q \in Seq(Frame) : q = Tail(p)
      BY <2>2, OutwardTail
    <2>4. PICK n \in Nat : n = Len(q)
      BY LenProperties
    <2>5. /\ Len(p) = n + 1 /\ Outward(p)[n + 1] = Head(p) /\ Head(p) \in Frame
          /\ \A k \in 1 .. n : Outward(q)[k] = Outward(p)[k]
      BY <2>2, <2>3, <2>4, OutwardTail
    <2>6. Len(s) = n + 2 /\ \A k \in 1 .. n + 1 : Outward(p)[k] = Outward(s)[k]
      <3>1. Len(s) = n + 2
        <4>1. Len(s) \in Nat /\ Len(p) = Len(s) - 1 /\ Len(p) = n + 1
          BY <1>2, <2>2, <2>5
        <4>. HIDE <1>2, <2>2, <2>5
        <4>. QED
          BY <4>1
      <3>. QED
        BY <1>2, <2>1, <3>1
    <2>7. s[2] = Head(p)
      <3>1. p[1] = s[2]
        BY <1>2, <2>1, <2>6
      <3>. QED
        BY <2>2, <3>1, HeadTailProperties
    <2>8. PICK f \in Frame : f = Head(p)
      BY <2>5
    <2>9. f = Calls[t][Depth[t] - 1] /\ Depth[t] = n + 2
      BY <1>3, <2>5, <2>6, <2>8
    <2>10. PICK label \in Resumes(f.pc, value) :
             stack' = [stack EXCEPT ![t] = <<[f EXCEPT !.pc = label]>> \o q]
      BY <1>1, <1>5, <2>1, <2>3, <2>7, <2>8 DEF Return
    <2>11. PICK g \in Frame : g = [f EXCEPT !.pc = label]
      BY DEF Resumes, Frame, InitPC
    <2>12. /\ <<g>> \o q \in Seq(Frame) /\ Len(<<g>> \o q) = n + 1
           /\ Outward(<<g>> \o q)[n + 1] = g
           /\ \A k \in 1 .. n : Outward(<<g>> \o q)[k] = Outward(q)[k]
      BY <2>4, OutwardOnTop
    <2>13. /\ OthersStay(t) /\ stack' \in [Threads -> Seq(Frame)]
           /\ Depth'[t] = n + 1 /\ Calls'[t] = Outward(<<g>> \o q)
      BY <2>10, <2>11, <2>12, OthersAre
    <2>14. Popped(t, g)
      BY <1>3, <2>5, <2>6, <2>9, <2>12, <2>13 DEF Popped
    <2>15. Popped(t, [f EXCEPT !.pc = label])
      BY <2>11, <2>14
    <2>16. Depth[t] \in Nat /\ Depth[t] >= 1 /\ Depth[t] # 1
      BY <2>9
    <2>. QED
      BY <2>9, <2>13, <2>15, <2>16
  <1>. QED
    BY <1>4, <1>5

-----------------------------------------------------------------------------
(* What every step keeps                                                   *)

\* A step of thread t, which is n calls deep and at f, leaves its j outermost
\* calls, of which the last was e and is g, and perhaps a new one on top.
Moves(t, j, e, g) ==
  /\ OthersStay(t)
  /\ Depth'[t] \in {j, j + 1}
  /\ \A k \in 1 .. j - 1 : Calls'[t][k] = Calls[t][k]
  /\ j >= 1 => Calls[t][j] = e /\ Calls'[t][j] = g
  /\ Depth'[t] = j + 1 => Calls'[t][j + 1] \in Frame /\ Calls'[t][j + 1].pc = "enter"

Same(d) ==
  status'[d] = status[d] /\ state'[d] = state[d] /\ compilingEe'[d] = compilingEe[d]

\* What the step may do to a class: it is the owner, or becomes it.
Touches(t, n, f) ==
  \A d \in Classes :
    /\ Same(d) \/ (n >= 1 /\ d = f.class /\ (f.pc \in OwnPC \/ status[d] = "initial"))
    /\ status'[d] = "initial" => Same(d)
    /\ status[d] \in Final => status'[d] = status[d]
    /\ state[d] = "initialized" => state'[d] = "initialized"
    /\ status'[d] = "ok" => state'[d] = "initialized"
    /\ status'[d] = "compiling" /\ status[d] # "compiling" => compilingEe'[d] = NULL
    /\ compilingEe'[d] # compilingEe[d] => compilingEe'[d] = t

\* Where a call may go from e
Becomes(t, j, e, g) ==
  /\ g \in Frame /\ g.class = e.class /\ FrameInv(g)'
  /\ g.pc \in OwnPC => e.pc \in OwnPC \/ status[e.class] = "initial"
  /\ e.pc \notin EnterPC => g.pc \notin EnterPC
  /\ e.pc \in InitPC => g.pc \in InitPC \/ status'[e.class] # "compiling"
  /\ Depth'[t] = j + 1 =>
       /\ g.pc \in {"superCall", "clinitCall"}
       /\ g.pc = "superCall" => Calls'[t][j + 1].class = Super[g.class]
  /\ g.pc \in ClinitPC /\ Super[g.class] # NULL =>
       e.pc \in ClinitPC \/ state'[Super[g.class]] = "initialized"
         \/ Holds(t, j, Super[g.class])
  /\ g.pc = "checkEe" /\ compilingEe'[g.class] = t => Holds(t, j, g.class)

\* The place of a call after the step
LEMMA Places ==
  ASSUME NEW t \in Threads, NEW n \in Nat, n = Depth[t], NEW j \in 0 .. n,
         NEW e \in Frame, NEW g \in Frame, Moves(t, j, e, g),
         NEW u \in Threads, Depth[u] \in Nat, NEW k \in 1 .. Depth'[u]
  PROVE  \/ /\ k \in 1 .. Depth[u] /\ Calls'[u][k] = Calls[u][k]
            /\ u = t => k < j
         \/ u = t /\ k = j /\ j >= 1 /\ Calls[u][k] = e /\ Calls'[u][k] = g
         \/ /\ u = t /\ k = j + 1 /\ Depth'[u] = k
            /\ Calls'[u][k] \in Frame /\ Calls'[u][k].pc = "enter"
  <1>1. CASE u # t
    BY <1>1 DEF Moves, OthersStay
  <1>2. CASE u = t
    <2>1. k \in 1 .. j + 1
      BY <1>2 DEF Moves
    <2>2. CASE k = j + 1
      BY <1>2, <2>2 DEF Moves
    <2>3. CASE k = j
      BY <1>2, <2>3 DEF Moves
    <2>4. CASE k < j
      BY <1>2, <2>1, <2>4 DEF Moves
    <2>. QED
      BY <2>1, <2>2, <2>3, <2>4
  <1>. QED
    BY <1>1, <1>2

\* What a call knows of its class stays true as long as it is not the caller
\* itself that changes it.
LEMMA FrameKept ==
  ASSUME NEW t \in Threads, NEW n \in Nat, NEW f, NEW e \in Frame, FrameInv(e),
         Touches(t, n, f), n >= 1 /\ e.class = f.class /\ f.pc \in OwnPC => e.pc \notin OwnPC
  PROVE  FrameInv(e)'
  <1>1. PICK d \in Classes : d = e.class
    BY DEF Frame
  <1>2. CASE Same(d)
    BY <1>1, <1>2 DEF FrameInv, Same
  <1>3. CASE ~ Same(d)
    <2>1. e.pc \notin OwnPC
      BY <1>1, <1>3 DEF Touches, FrameInv, OwnPC, Final
    <2>2. /\ status[d] # "initial" => status'[d] # "initial"
          /\ status[d] \in Final => status'[d] = status[d]
      BY DEF Touches, Same
    <2>3. e.pc # "setEe" /\ e.pc # "fail" /\ e.pc \notin InitPC /\ e.pc \notin LeavePC
      BY <2>1 DEF OwnPC
    <2>4. "begin" \in InitPC /\ "leave" \in InitPC
      BY DEF InitPC
    <2>5. /\ e.pc \in {"incWaiting"} \cup WaitingPC => status'[e.class] # "initial"
          /\ e.pc = "decWaiting" => status'[e.class] \in Final
      BY <1>1, <2>2 DEF FrameInv
    <2>. QED
      BY <2>3, <2>4, <2>5, Zenon DEF FrameInv
  <1>. QED
    BY <1>2, <1>3

LEMMA ShapeKept ==
  ASSUME ShapeInv, OwnerInv, \A u \in Threads : Depth[u] \in Nat,
         NEW t \in Threads, NEW n \in Nat, n = Depth[t], NEW j \in 0 .. n,
         NEW f, n >= 1 => f = Calls[t][n],
         NEW e \in Frame, NEW g \in Frame, Moves(t, j, e, g),
         Touches(t, n, f), j >= 1 => Becomes(t, j, e, g)
  PROVE  ShapeInv'
  <1>1. SUFFICES ASSUME NEW u \in Threads, NEW k \in 1 .. Depth'[u]
                 PROVE  /\ Calls'[u][k] \in Frame
                        /\ FrameInv(Calls[u][k])'
                        /\ k < Depth'[u] => Calls'[u][k].pc \in {"superCall", "clinitCall"}
                        /\ k < Depth'[u] /\ Calls'[u][k].pc = "superCall" =>
                             Calls'[u][k + 1].class = Super[Calls'[u][k].class]
    BY DEF ShapeInv
  <1>2. CASE k \in 1 .. Depth[u] /\ Calls'[u][k] = Calls[u][k] /\ (u = t => k < j)
    <2>1. PICK x \in Frame : x = Calls[u][k]
      BY <1>2 DEF ShapeInv
    <2>2. FrameInv(x)
      BY <1>2, <2>1 DEF ShapeInv
    <2>3. n >= 1 /\ x.class = f.class /\ f.pc \in OwnPC => x.pc \notin OwnPC
      <3>1. SUFFICES ASSUME n >= 1, x.class = f.class, f.pc \in OwnPC, x.pc \in OwnPC
                     PROVE  FALSE
        OBVIOUS
      <3>2. n \in 1 .. Depth[t] /\ Calls[t][n] = f
        BY <3>1
      <3>3. u = t /\ k = n
        BY <1>2, <2>1, <3>1, <3>2 DEF OwnerInv
      <3>. QED
        BY <1>2, <3>3
    <2>4. FrameInv(x)'
      BY <2>2, <2>3, FrameKept
    <2>5. CASE u # t
      <3>1. Depth'[u] = Depth[u] /\ Calls'[u] = Calls[u]
        BY <2>5 DEF Moves, OthersStay
      <3>. QED
        BY <1>2, <2>1, <2>4, <3>1 DEF ShapeInv
    <2>6. CASE u = t
      <3>1. k < n /\ k < j /\ k + 1 \in 1 .. n
        BY <1>2, <2>6
      <3>2. /\ x.pc \in {"superCall", "clinitCall"}
            /\ x.pc = "superCall" => Calls[t][k + 1].class = Super[x.class]
        BY <1>2, <2>1, <2>6, <3>1 DEF ShapeInv
      <3>3. Calls'[t][k + 1].class = Calls[t][k + 1].class
        <4>1. CASE k + 1 = j
          BY <4>1, <3>1 DEF Moves, Becomes
        <4>2. CASE k + 1 # j
          <5>1. k + 1 \in 1 .. j - 1
            BY <3>1, <4>2
          <5>. QED
            BY <5>1 DEF Moves
        <4>. QED
          BY <4>1, <4>2
      <3>. QED
        BY <1>2, <2>1, <2>4, <2>6, <3>2, <3>3
    <2>. QED
      BY <2>5, <2>6
  <1>3. CASE u = t /\ k = j /\ j >= 1 /\ Calls[u][k] = e /\ Calls'[u][k] = g
    <2>1. FrameInv(Calls[u][k])'
      BY <1>3 DEF Becomes
    <2>2. k < Depth'[u] => Depth'[u] = j + 1
      BY <1>3 DEF Moves
    <2>. QED
      BY <1>3, <2>1, <2>2 DEF Becomes
  <1>4. CASE /\ u = t /\ k = j + 1 /\ Depth'[u] = k
             /\ Calls'[u][k] \in Frame /\ Calls'[u][k].pc = "enter"
    BY <1>4 DEF FrameInv, InitPC, LeavePC, WaitingPC
  <1>. QED
    BY <1>2, <1>3, <1>4, Places

LEMMA OwnerKept ==
  ASSUME ShapeInv, OwnerInv, \A u \in Threads : Depth[u] \in Nat,
         NEW t \in Threads, NEW n \in Nat, n = Depth[t], NEW j \in 0 .. n,
         NEW e \in Frame, NEW g \in Frame, Moves(t, j, e, g),
         j >= 1 => Becomes(t, j, e, g)
  PROVE  OwnerInv'
  <1>1. SUFFICES ASSUME NEW u \in Threads, NEW k \in 1 .. Depth'[u],
                        NEW v \in Threads, NEW l \in 1 .. Depth'[v],
                        Calls'[u][k].pc \in OwnPC, Calls'[v][l].pc \in OwnPC,
                        Calls'[u][k].class = Calls'[v][l].class
                 PROVE  u = v /\ k = l
    BY DEF OwnerInv
  <1>. DEFINE Kept(w, i) == i \in 1 .. Depth[w] /\ Calls'[w][i] = Calls[w][i]
              Moved(w, i) == /\ w = t /\ i = j /\ j >= 1
                             /\ Calls[w][i] = e /\ Calls'[w][i] = g
  <1>2. (Kept(u, k) \/ Moved(u, k)) /\ (Kept(v, l) \/ Moved(v, l))
    <2>1. "enter" \notin OwnPC
      BY DEF OwnPC, InitPC, LeavePC
    <2>2. Kept(u, k) \/ Moved(u, k)
      BY <1>1, <2>1, Places
    <2>3. Kept(v, l) \/ Moved(v, l)
      BY <1>1, <2>1, Places
    <2>. QED
      BY <2>2, <2>3
  <1>3. ASSUME NEW w \in Threads, NEW i \in 1 .. Depth[w], Calls[w][i].pc \in OwnPC
        PROVE  status[Calls[w][i].class] # "initial"
    BY <1>3 DEF ShapeInv, FrameInv, OwnPC, Final
  <1>4. CASE Kept(u, k) /\ Kept(v, l)
    BY <1>1, <1>4 DEF OwnerInv
  <1>5. CASE Moved(u, k) /\ Moved(v, l)
    BY <1>5
  <1>6. j >= 1 => j \in 1 .. Depth[t]
    OBVIOUS
  <1>7. CASE Moved(u, k) /\ Kept(v, l)
    <2>1. e.pc \in OwnPC /\ e.class = Calls[v][l].class
      BY <1>1, <1>3, <1>7 DEF Becomes
    <2>. QED
      BY <1>1, <1>6, <1>7, <2>1 DEF OwnerInv
  <1>8. CASE Kept(u, k) /\ Moved(v, l)
    <2>1. e.pc \in OwnPC /\ e.class = Calls[u][k].class
      BY <1>1, <1>3, <1>8 DEF Becomes
    <2>. QED
      BY <1>1, <1>6, <1>8, <2>1 DEF OwnerInv
  <1>. QED
    BY <1>2, <1>4, <1>5, <1>7, <1>8

\* An outer call does not end before an inner one.
LEMMA HoldsKept ==
  ASSUME NEW t \in Threads, NEW n \in Nat, n = Depth[t], NEW j \in 0 .. n,
         NEW e \in Frame, NEW g \in Frame, Moves(t, j, e, g),
         j >= 1 => Becomes(t, j, e, g),
         NEW u \in Threads, Depth[u] \in Nat, NEW k \in 1 .. Depth[u], u = t => k <= j,
         NEW c, Holds(u, k, c)
  PROVE  Holds(u, k, c)'
  <1>1. PICK i \in 1 .. k : Calls[u][i].class = c /\ Calls[u][i].pc \notin EnterPC
    BY DEF Holds
  <1>2. Calls'[u][i].class = c /\ Calls'[u][i].pc \notin EnterPC
    <2>1. CASE u # t
      BY <1>1, <2>1 DEF Moves, OthersStay
    <2>2. CASE u = t /\ i = j
      BY <1>1, <2>2 DEF Moves, Becomes
    <2>3. CASE u = t /\ i # j
      <3>1. i \in 1 .. j - 1
        BY <1>1, <2>3
      <3>. QED
        BY <1>1, <2>3, <3>1 DEF Moves
    <2>. QED
      BY <2>1, <2>2, <2>3
  <1>. QED
    BY <1>2 DEF Holds

LEMMA HoldsInvKept ==
  ASSUME ClassAssumption, ShapeInv, HoldsInv, \A u \in Threads : Depth[u] \in Nat,
         NEW t \in Threads, NEW n \in Nat, n = Depth[t], NEW j \in 0 .. n,
         NEW f, NEW e \in Frame, NEW g \in Frame, Moves(t, j, e, g),
         Touches(t, n, f), j >= 1 => Becomes(t, j, e, g)
  PROVE  HoldsInv'
  <1>1. SUFFICES ASSUME NEW u \in Threads, NEW k \in 1 .. Depth'[u],
                        NEW x, x = Calls'[u][k]
                 PROVE  /\ x.pc \in ClinitPC /\ Super[x.class] # NULL =>
                             \/ state'[Super[x.class]] = "initialized"
                             \/ Holds(u, k, Super[x.class])'
                        /\ x.pc = "checkEe" /\ compilingEe'[x.class] = u =>
                             Holds(u, k, x.class)'
    BY DEF HoldsInv
  <1>2. CASE k \in 1 .. Depth[u] /\ Calls'[u][k] = Calls[u][k] /\ (u = t => k < j)
    <2>1. x = Calls[u][k] /\ x \in Frame
      BY <1>1, <1>2 DEF ShapeInv
    <2>2. ASSUME NEW c, Holds(u, k, c) PROVE Holds(u, k, c)'
      BY <1>2, <2>2, HoldsKept
    <2>3. x.class \in Classes /\ (Super[x.class] # NULL => Super[x.class] \in Classes)
      BY <2>1 DEF Frame, ClassAssumption
    <2>4. x.pc \in ClinitPC /\ Super[x.class] # NULL =>
            state'[Super[x.class]] = "initialized" \/ Holds(u, k, Super[x.class])'
      BY <1>2, <2>1, <2>2, <2>3 DEF HoldsInv, Touches
    <2>5. ASSUME x.pc = "checkEe", compilingEe'[x.class] = u PROVE Holds(u, k, x.class)'
      <3>1. u # t
        <4>1. u = t => k < n
          BY <1>2
        <4>. QED
          BY <1>2, <2>1, <2>5, <4>1 DEF ShapeInv
      <3>2. compilingEe[x.class] = u
        BY <2>3, <2>5, <3>1 DEF Touches
      <3>. QED
        BY <1>2, <2>1, <2>2, <2>5, <3>2 DEF HoldsInv
    <2>. QED
      BY <2>4, <2>5
  <1>3. CASE u = t /\ k = j /\ j >= 1 /\ Calls[u][k] = e /\ Calls'[u][k] = g
    <2>1. k \in 1 .. Depth[u] /\ x = g /\ Becomes(t, j, e, g)
      BY <1>1, <1>3
    <2>2. ASSUME NEW c, Holds(u, k, c) PROVE Holds(u, k, c)'
      BY <1>3, <2>1, <2>2, HoldsKept
    <2>3. g.class = e.class /\ (Super[g.class] # NULL => Super[g.class] \in Classes)
      BY <2>1 DEF Becomes, Frame, ClassAssumption
    <2>4. ASSUME g.pc \in ClinitPC, Super[g.class] # NULL
          PROVE  state'[Super[g.class]] = "initialized" \/ Holds(u, k, Super[g.class])'
      <3>1. CASE e.pc \in ClinitPC
        <4>1. state[Super[g.class]] = "initialized" \/ Holds(u, k, Super[g.class])
          BY <1>3, <2>1, <2>3, <2>4, <3>1 DEF HoldsInv
        <4>. QED
          BY <2>2, <2>3, <2>4, <4>1 DEF Touches
      <3>2. CASE Holds(t, j, Super[g.class])
        BY <1>3, <2>2, <3>2
      <3>. QED
        BY <2>1, <2>4, <3>1, <3>2 DEF Becomes
    <2>5. g.pc = "checkEe" /\ compilingEe'[g.class] = u => Holds(u, k, g.class)'
      BY <1>3, <2>1, <2>2 DEF Becomes
    <2>. QED
      BY <2>1, <2>4, <2>5
  <1>4. CASE /\ u = t /\ k = j + 1 /\ Depth'[u] = k
             /\ Calls'[u][k] \in Frame /\ Calls'[u][k].pc = "enter"
    BY <1>1, <1>4 DEF ClinitPC
  <1>. QED
    BY <1>2, <1>3, <1>4, Places

LEMMA StatusKept ==
  ASSUME TypeOK, ShapeInv, StatusInv, ClassAssumption, \A u \in Threads : Depth[u] \in Nat,
         NEW t \in Threads, NEW n \in Nat, n = Depth[t], NEW j \in 0 .. n,
         j = n \/ (j = n - 1 /\ Calls[t][n].pc \notin InitPC),
         NEW f, NEW e \in Frame, NEW g \in Frame, Moves(t, j, e, g),
         Touches(t, n, f), j >= 1 => Becomes(t, j, e, g),
         \A d \in Classes : compilingEe'[d] # compilingEe[d] =>
           j >= 1 /\ d = g.class /\ g.pc \in InitPC
  PROVE  StatusInv'
  <1>1. SUFFICES ASSUME NEW d \in Classes
                 PROVE  /\ status'[d] = "initial" =>
                             compilingEe'[d] = NULL /\ state'[d] = "linked"
                        /\ status'[d] = "ok" => state'[d] = "initialized"
                        /\ \A u \in Threads : status'[d] = "compiling" /\ compilingEe'[d] = u =>
                             \E k \in 1 .. Depth'[u] :
                               Calls'[u][k].class = d /\ Calls'[u][k].pc \in InitPC
    BY DEF StatusInv
  <1>2. status'[d] = "initial" => compilingEe'[d] = NULL /\ state'[d] = "linked"
    BY DEF Touches, Same, StatusInv
  <1>3. status'[d] = "ok" => state'[d] = "initialized"
    BY DEF Touches
  <1>4. ASSUME NEW u \in Threads, status'[d] = "compiling", compilingEe'[d] = u
        PROVE  \E k \in 1 .. Depth'[u] :
                 Calls'[u][k].class = d /\ Calls'[u][k].pc \in InitPC
    <2>1. status[d] = "compiling"
      BY <1>4 DEF Touches, ClassAssumption
    <2>2. CASE compilingEe'[d] # compilingEe[d]
      <3>1. u = t /\ j >= 1 /\ d = g.class /\ g.pc \in InitPC
        BY <1>4, <2>2 DEF Touches
      <3>2. j \in 1 .. Depth'[t] /\ Calls'[t][j] = g
        BY <3>1 DEF Moves
      <3>. QED
        BY <3>1, <3>2
    <2>3. CASE compilingEe'[d] = compilingEe[d]
      <3>1. PICK k \in 1 .. Depth[u] : Calls[u][k].class = d /\ Calls[u][k].pc \in InitPC
        BY <1>4, <2>1, <2>3 DEF StatusInv
      <3>2. CASE u # t
        BY <3>1, <3>2 DEF Moves, OthersStay
      <3>3. CASE u = t
        <4>1. k \in 1 .. j
          BY <3>1, <3>3
        <4>2. k \in 1 .. Depth'[t]
          BY <4>1 DEF Moves
        <4>3. CASE k = j
          <5>1. j >= 1 /\ Calls[t][j] = e /\ Calls'[t][j] = g
            BY <4>1, <4>3 DEF Moves
          <5>2. g.class = d /\ g.pc \in InitPC
            BY <1>4, <3>1, <3>3, <4>3, <5>1 DEF Becomes
          <5>. QED
            BY <3>3, <4>2, <4>3, <5>1, <5>2
        <4>4. CASE k # j
          <5>1. k \in 1 .. j - 1
            BY <4>1, <4>4
          <5>2. Calls'[t][k] = Calls[t][k]
            BY <5>1 DEF Moves
          <5>. QED
            BY <3>1, <3>3, <4>2, <5>2
        <4>. QED
          BY <4>3, <4>4
      <3>. QED
        BY <3>2, <3>3
    <2>. QED
      BY <2>2, <2>3
  <1>. QED
    BY <1>2, <1>3, <1>4

-----------------------------------------------------------------------------
(* The innermost call                                                      *)

\* Thread t is n calls deep and its innermost call is f.
TopIs(t, n, f) ==
  /\ n \in Nat /\ n >= 1 /\ n = Depth[t]
  /\ f \in Frame /\ f = Calls[t][n] /\ f = Head(stack[t]) /\ FrameInv(f)

CallInv == ShapeInv /\ OwnerInv /\ HoldsInv /\ StatusInv

LEMMA DepthIsNat ==
  ASSUME TypeOK PROVE \A u \in Threads : Depth[u] \in Nat
  BY CallsOf, LenProperties DEF TypeOK

LEMMA TopCall ==
  ASSUME TypeOK, ShapeInv, NEW t \in Threads, stack[t] # <<>>
  PROVE  \E n, f : TopIs(t, n, f)
  <1>1. PICK s \in Seq(Frame) : s = stack[t]
    BY DEF TypeOK
  <1>2. PICK n \in Nat : n = Len(s)
    BY LenProperties
  <1>3. n >= 1 /\ Head(s) \in Frame /\ Outward(s)[n] = Head(s)
    BY <1>1, <1>2, OutwardTail
  <1>4. Depth[t] = n /\ Calls[t] = Outward(s)
    BY <1>1, <1>2, CallsOf
  <1>5. n \in 1 .. Depth[t]
    BY <1>3, <1>4
  <1>6. FrameInv(Calls[t][n])
    BY <1>5 DEF ShapeInv
  <1>. QED
    BY <1>1, <1>3, <1>4, <1>6 DEF TopIs

\* The call f has become g.
LEMMA OneMoves ==
  ASSUME TypeOK, NEW t \in Threads, stack[t] # <<>>, NEW n, NEW f, TopIs(t, n, f),
         NEW g \in Frame, stack' = [stack EXCEPT ![t] = <<g>> \o Tail(@)]
  PROVE  /\ stack' \in [Threads -> Seq(Frame)] /\ Moves(t, n, f, g)
         /\ Depth'[t] = n /\ Depth'[t] # n + 1 /\ Calls'[t][n] = g
  <1>1. stack' \in [Threads -> Seq(Frame)] /\ Replaced(t, g)
    BY ReplaceCall DEF TypeOK
  <1>2. n \in Nat /\ n = Depth[t] /\ n # n + 1
    BY DEF TopIs
  <1>. QED
    BY <1>1, <1>2 DEF Replaced, Moves, TopIs

LEMMA CallMoves ==
  ASSUME TypeOK, NEW t \in Threads, stack[t] # <<>>, NEW n, NEW f, TopIs(t, n, f),
         NEW g \in Frame, NEW h \in Frame, h.pc = "enter",
         stack' = [stack EXCEPT ![t] = <<h, g>> \o Tail(@)]
  PROVE  /\ stack' \in [Threads -> Seq(Frame)] /\ Moves(t, n, f, g)
         /\ Depth'[t] = n + 1 /\ Calls'[t][n + 1] = h
  <1>1. stack' \in [Threads -> Seq(Frame)] /\ Pushed(t, g, h)
    BY PushCall DEF TypeOK
  <1>. QED
    BY <1>1 DEF Pushed, Moves, TopIs

LEMMA CallInvKept ==
  ASSUME ClassAssumption, TypeOK, CallInv, NEW t \in Threads, NEW n, NEW f, TopIs(t, n, f),
         NEW j \in 0 .. n, j = n \/ (j = n - 1 /\ f.pc \notin InitPC),
         NEW e \in Frame, NEW g \in Frame, Moves(t, j, e, g),
         Touches(t, n, f), j >= 1 => Becomes(t, j, e, g),
         \A d \in Classes : compilingEe'[d] # compilingEe[d] =>
           j >= 1 /\ d = g.class /\ g.pc \in InitPC
  PROVE  CallInv'
  <1>1. n \in Nat /\ n = Depth[t] /\ f = Calls[t][n]
    BY DEF TopIs
  <1>2. \A u \in Threads : Depth[u] \in Nat
    BY DepthIsNat
  <1>3. ShapeInv'
    BY <1>1, <1>2, ShapeKept DEF CallInv
  <1>4. OwnerInv'
    BY <1>1, <1>2, OwnerKept DEF CallInv
  <1>5. HoldsInv'
    BY <1>1, <1>2, HoldsInvKept DEF CallInv
  <1>6. StatusInv'
    BY <1>1, <1>2, StatusKept DEF CallInv
  <1>. QED
    BY <1>3, <1>4, <1>5, <1>6 DEF CallInv

\* A step that leaves the locks and the states alone
LEMMA Untouched ==
  ASSUME StatusInv, UNCHANGED <<status, state, compilingEe>>, NEW t, NEW n, NEW f
  PROVE  Touches(t, n, f)
  BY DEF Touches, Same, StatusInv

\* A step that only moves on in a call that owns nothing
LEMMA QuietMove ==
  ASSUME ClassAssumption, TypeOK, CallInv, NEW t \in Threads, NEW n, NEW f, TopIs(t, n, f),
         NEW g \in Frame, Moves(t, n, f, g), Depth'[t] # n + 1,
         UNCHANGED <<status, state, compilingEe>>,
         g.class = f.class, FrameInv(g),
         g.pc \in OwnPC => f.pc \in OwnPC, f.pc \notin EnterPC => g.pc \notin EnterPC,
         f.pc \in InitPC => g.pc \in InitPC, g.pc \in ClinitPC => f.pc \in ClinitPC,
         g.pc = "checkEe" => status[g.class] = "compiling"
  PROVE  CallInv'
  <1>1. Touches(t, n, f)
    BY Untouched DEF CallInv
  <1>2. FrameInv(g)'
    BY DEF FrameInv
  <1>3. g.pc = "checkEe" /\ compilingEe'[g.class] = t => Holds(t, n, g.class)
    <2>1. SUFFICES ASSUME status[g.class] = "compiling", compilingEe[g.class] = t
                   PROVE  Holds(t, n, g.class)
      OBVIOUS
    <2>2. g.class \in Classes
      BY DEF Frame
    <2>3. PICK k \in 1 .. Depth[t] : Calls[t][k].class = g.class /\ Calls[t][k].pc \in InitPC
      BY <2>1, <2>2 DEF CallInv, StatusInv
    <2>4. Calls[t][k].pc \notin EnterPC
      BY <2>3 DEF InitPC, EnterPC
    <2>. QED
      BY <2>3, <2>4 DEF Holds, TopIs
  <1>4. Becomes(t, n, f, g)
    BY <1>2, <1>3 DEF Becomes
  <1>5. n \in 0 .. n
    BY DEF TopIs
  <1>6. f \in Frame
    BY DEF TopIs
  <1>. QED
    BY <1>1, <1>4, <1>5, <1>6, CallInvKept

-----------------------------------------------------------------------------
(* nr_waiting                                                              *)

LEMMA TopWaits ==
  ASSUME NEW t \in Threads, NEW n, NEW f, TopIs(t, n, f)
  PROVE  \A c : t \in Waiting(c) <=> (f.class = c /\ f.pc \in WaitingPC)
  <1>1. Depth[t] > 0 /\ Calls[t][Depth[t]] = f
    BY DEF TopIs
  <1>. QED
    BY <1>1, Zenon DEF Waiting

LEMMA WaitersStay ==
  ASSUME WaitingInv, NEW t \in Threads, OthersStay(t), UNCHANGED nrWaiting,
         \A c \in Classes : t \in Waiting(c)' <=> t \in Waiting(c)
  PROVE  WaitingInv'
  <1>1. ASSUME NEW c \in Classes PROVE Waiting(c)' = Waiting(c)
    <2>1. ASSUME NEW u \in Threads, u # t PROVE u \in Waiting(c)' <=> u \in Waiting(c)
      BY <2>1 DEF Waiting, OthersStay
    <2>2. Waiting(c) \subseteq Threads /\ Waiting(c)' \subseteq Threads
      BY DEF Waiting
    <2>. QED
      BY <2>1, <2>2
  <1>. QED
    BY <1>1 DEF WaitingInv

LEMMA FiniteWaiting ==
  ASSUME ClassAssumption, NEW c
  PROVE  IsFiniteSet(Waiting(c)) /\ Cardinality(Waiting(c)) \in Nat
  <1>1. IsFiniteSet(Waiting(c))
    <2>1. Waiting(c) \subseteq Threads /\ IsFiniteSet(Threads)
      BY DEF Waiting, ClassAssumption
    <2>. QED
      BY <2>1, FS_Subset
  <1>. QED
    BY <1>1, FS_CardinalityType

LEMMA WaiterCame ==
  ASSUME ClassAssumption, TypeOK, WaitingInv, NEW t \in Threads, OthersStay(t),
         NEW b \in Classes,
         \A c \in Classes :
           nrWaiting'[c] = IF c = b THEN nrWaiting[c] + 1 ELSE nrWaiting[c],
         \A c \in Classes : t \notin Waiting(c) /\ (t \in Waiting(c)' <=> c = b)
  PROVE  WaitingInv'
  <1>1. SUFFICES ASSUME NEW c \in Classes PROVE nrWaiting'[c] = Cardinality(Waiting(c)')
    BY DEF WaitingInv
  <1>2. ASSUME NEW u \in Threads, u # t PROVE u \in Waiting(c)' <=> u \in Waiting(c)
    BY <1>2 DEF Waiting, OthersStay
  <1>3. Waiting(c) \subseteq Threads /\ Waiting(c)' \subseteq Threads
    BY DEF Waiting
  <1>4. CASE c = b
    <2>1. Waiting(c)' = Waiting(c) \cup {t}
      BY <1>2, <1>3, <1>4
    <2>2. Cardinality(Waiting(c) \cup {t}) = Cardinality(Waiting(c)) + 1
      BY FiniteWaiting, FS_AddElement
    <2>. QED
      BY <1>4, <2>1, <2>2 DEF WaitingInv, TypeOK
  <1>5. CASE c # b
    <2>0. t \notin Waiting(c) /\ t \notin Waiting(c)'
      BY <1>5
    <2>1. Waiting(c)' = Waiting(c)
      <3>1. \A u \in Threads : u \in Waiting(c)' <=> u \in Waiting(c)
        BY <1>2, <2>0
      <3>. QED
        BY <1>3, <3>1
    <2>. QED
      BY <1>5, <2>1 DEF WaitingInv, TypeOK
  <1>. QED
    BY <1>4, <1>5

LEMMA WaiterWent ==
  ASSUME ClassAssumption, TypeOK, WaitingInv, NEW t \in Threads, OthersStay(t),
         NEW b \in Classes,
         \A c \in Classes :
           nrWaiting'[c] = IF c = b THEN nrWaiting[c] - 1 ELSE nrWaiting[c],
         \A c \in Classes : t \notin Waiting(c)' /\ (t \in Waiting(c) <=> c = b)
  PROVE  WaitingInv'
  <1>1. SUFFICES ASSUME NEW c \in Classes PROVE nrWaiting'[c] = Cardinality(Waiting(c)')
    BY DEF WaitingInv
  <1>2. ASSUME NEW u \in Threads, u # t PROVE u \in Waiting(c)' <=> u \in Waiting(c)
    BY <1>2 DEF Waiting, OthersStay
  <1>3. Waiting(c) \subseteq Threads /\ Waiting(c)' \subseteq Threads
    BY DEF Waiting
  <1>4. CASE c = b
    <2>1. Waiting(c)' = Waiting(c) \ {t}
      BY <1>2, <1>3, <1>4
    <2>2. Cardinality(Waiting(c) \ {t}) = Cardinality(Waiting(c)) - 1
      BY <1>4, FiniteWaiting, FS_RemoveElement
    <2>. QED
      BY <1>4, <2>1, <2>2 DEF WaitingInv, TypeOK
  <1>5. CASE c # b
    <2>0. t \notin Waiting(c) /\ t \notin Waiting(c)'
      BY <1>5
    <2>1. Waiting(c)' = Waiting(c)
      <3>1. \A u \in Threads : u \in Waiting(c)' <=> u \in Waiting(c)
        BY <1>2, <2>0
      <3>. QED
        BY <1>3, <3>1
    <2>. QED
      BY <1>5, <2>1 DEF WaitingInv, TypeOK
  <1>. QED
    BY <1>4, <1>5

\* The waiters after a step in the innermost call
LEMMA MovedWaits ==
  ASSUME NEW t \in Threads, NEW n, NEW f, TopIs(t, n, f), NEW g, Depth'[t] = n, Calls'[t][n] = g
  PROVE  \A c : t \in Waiting(c)' <=> (g.class = c /\ g.pc \in WaitingPC)
  BY DEF Waiting, TopIs

-----------------------------------------------------------------------------
(* A call returns                                                          *)

\* The caller goes on after a call for its superclass, or for a class that its
\* <clinit> needs.
LEMMA ReturnKeeps ==
  ASSUME ClassAssumption, TypeOK, CallInv, NEW t \in Threads, stack[t] # <<>>,
         NEW n, NEW f, TopIs(t, n, f), NEW value \in {"ok", "error"}, Return(t, value),
         Touches(t, n, f), UNCHANGED compilingEe, f.pc \notin InitPC,
         value = "ok" => state'[f.class] = "initialized" \/ Holds(t, n - 1, f.class)
  PROVE  /\ stack' \in [Threads -> Seq(Frame)] /\ OthersStay(t) /\ CallInv'
         /\ \A c : t \notin Waiting(c)'
  <1>1. n \in Nat /\ n >= 1 /\ n = Depth[t] /\ f \in Frame /\ f = Calls[t][n]
    BY DEF TopIs
  <1>2. stack \in [Threads -> Seq(Frame)]
    BY DEF TypeOK
  <1>3. CASE n = 1
    <2>1. stack' \in [Threads -> Seq(Frame)] /\ Popped(t, f)
      BY <1>1, <1>2, <1>3, PopCall
    <2>2. OthersStay(t) /\ Depth'[t] = 0
      <3>1. OthersStay(t) /\ Depth'[t] = Depth[t] - 1
        BY <2>1, Zenon DEF Popped
      <3>2. Depth[t] = 1
        BY <1>1, <1>3
      <3>. QED
        BY <3>1, <3>2
    <2>3. Moves(t, 0, f, f)
      BY <2>2 DEF Moves
    <2>4. CallInv'
      BY <1>1, <1>3, <2>3, CallInvKept
    <2>. QED
      BY <2>1, <2>2, <2>4 DEF Waiting
  <1>4. CASE n # 1
    <2>1. PICK j \in Nat : j >= 1 /\ n = j + 1 /\ n - 1 = j
      BY <1>1, <1>4
    <2>a. PICK e \in Frame :
            /\ e = Calls[t][j]
            /\ \E label \in Resumes(e.pc, value) : Popped(t, [e EXCEPT !.pc = label])
      <3>1. Depth[t] > 1 /\ Depth[t] - 1 = j
        BY <1>1, <1>4, <2>1
      <3>. QED
        BY <1>2, <3>1, PopCall
    <2>2. PICK label \in Resumes(e.pc, value) :
            e = Calls[t][j] /\ Popped(t, [e EXCEPT !.pc = label])
      BY <2>a
    <2>3. label \in {"clinit", "error"}
      BY DEF Resumes
    <2>4. PICK g \in Frame : g = [e EXCEPT !.pc = label]
      BY <2>3 DEF Frame, InitPC
    <2>5. g.pc = label /\ g.class = e.class
      BY <2>4 DEF Frame
    <2>6. /\ stack' \in [Threads -> Seq(Frame)] /\ OthersStay(t) /\ Depth'[t] = j
          /\ Calls'[t][j] = g /\ \A k \in 1 .. j - 1 : Calls'[t][k] = Calls[t][k]
      <3>1. stack' \in [Threads -> Seq(Frame)]
        BY <1>2, PopCall
      <3>2. Popped(t, g) /\ Depth[t] = j + 1 /\ j >= 1
        BY <1>1, <2>1, <2>2, <2>4
      <3>. QED
        BY <3>1, <3>2 DEF Popped
    <2>7. Moves(t, j, e, g)
      BY <2>2, <2>6 DEF Moves
    <2>8. j \in 1 .. Depth[t] /\ j < Depth[t] /\ Calls[t][j + 1] = f
      BY <1>1, <2>1
    <2>9. /\ FrameInv(e) /\ e.pc \in {"superCall", "clinitCall"}
          /\ e.pc = "superCall" => f.class = Super[e.class]
      BY <2>2, <2>8 DEF CallInv, ShapeInv
    <2>10. FrameInv(e)'
      <3>1. f.pc \in OwnPC /\ e.pc \in OwnPC /\ e.class = f.class => j = n
        <4>1. n \in 1 .. Depth[t]
          BY <1>1
        <4>. QED
          BY <1>1, <2>2, <2>8, <4>1 DEF CallInv, OwnerInv
      <3>2. e.class = f.class /\ f.pc \in OwnPC => e.pc \notin OwnPC
        BY <2>1, <3>1
      <3>. QED
        BY <1>1, <2>9, <3>2, FrameKept
    <2>11. FrameInv(g)'
      BY <2>3, <2>5, <2>9, <2>10 DEF FrameInv, InitPC, LeavePC, WaitingPC
    <2>12. Becomes(t, j, e, g)
      <3>1. Depth'[t] # j + 1
        BY <2>6
      <3>2. e.pc \in OwnPC /\ e.pc \in InitPC /\ g.pc \in InitPC /\ g.pc \notin EnterPC
        BY <2>3, <2>5, <2>9 DEF OwnPC, InitPC, EnterPC
      <3>3. ASSUME g.pc \in ClinitPC, e.pc \notin ClinitPC
            PROVE  state'[Super[g.class]] = "initialized" \/ Holds(t, j, Super[g.class])
        <4>1. e.pc = "superCall" /\ label = "clinit"
          BY <2>3, <2>5, <2>9, <3>3 DEF ClinitPC
        <4>2. value = "ok"
          BY <2>2, <4>1 DEF Resumes
        <4>. QED
          BY <2>1, <2>5, <2>9, <4>1, <4>2
      <3>4. g.pc # "checkEe"
        BY <2>3, <2>5
      <3>. QED
        BY <2>5, <2>11, <3>1, <3>2, <3>3, <3>4 DEF Becomes
    <2>13. CallInv'
      <3>1. j \in 0 .. n /\ j = n - 1
        BY <1>1, <2>1
      <3>. QED
        BY <2>7, <2>12, <3>1, CallInvKept
    <2>14. \A c : t \notin Waiting(c)'
      BY <2>3, <2>5, <2>6 DEF Waiting, WaitingPC
    <2>. QED
      BY <2>6, <2>13, <2>14
  <1>. QED
    BY <1>3, <1>4

\* A return without a change to nr_waiting
LEMMA ReturnStays ==
  ASSUME ClassAssumption, TypeOK, CallInv, WaitingInv, NEW t \in Threads, stack[t] # <<>>,
         NEW n, NEW f, TopIs(t, n, f), NEW value \in {"ok", "error"}, Return(t, value),
         Touches(t, n, f), UNCHANGED <<compilingEe, nrWaiting>>,
         f.pc \notin InitPC \cup WaitingPC,
         value = "ok" => state'[f.class] = "initialized"
  PROVE  stack' \in [Threads -> Seq(Frame)] /\ CallInv' /\ WaitingInv'
  <1>1. /\ stack' \in [Threads -> Seq(Frame)] /\ OthersStay(t) /\ CallInv'
        /\ \A c : t \notin Waiting(c)'
    BY ReturnKeeps
  <1>2. \A c : t \notin Waiting(c)
    BY TopWaits
  <1>. QED
    BY <1>1, <1>2, WaitersStay

-----------------------------------------------------------------------------
(* The innermost call moves on                                             *)

\* The innermost call of thread t becomes g.
Topped(t, g) == stack' = [stack EXCEPT ![t] = <<g>> \o Tail(@)]

LEMMA GotoOf ==
  ASSUME NEW t, NEW n, NEW f, TopIs(t, n, f),
         NEW label \in EnterPC \cup InitPC \cup LeavePC \cup {"fail"}, Goto(t, label)
  PROVE  \E g \in Frame :
           /\ g.pc = label /\ g.class = f.class
           /\ Topped(t, g)
  <1>1. f \in Frame /\ f = Head(stack[t])
    BY DEF TopIs
  <1>2. PICK g \in Frame : g = [f EXCEPT !.pc = label]
    BY <1>1 DEF Frame
  <1>3. g.pc = label /\ g.class = f.class
    BY <1>1, <1>2 DEF Frame
  <1>4. Topped(t, g)
    BY <1>1, <1>2 DEF Goto, Topped
  <1>. QED
    BY <1>3, <1>4

LEMMA TopAt ==
  ASSUME ClassInv, NEW t \in Threads, NEW label, At(t, label)
  PROVE  /\ stack[t] # <<>> /\ TypeOK /\ CallInv /\ WaitingInv
         /\ \E n, f : TopIs(t, n, f) /\ f.pc = label /\ Class(t) = f.class
  <1>1. stack[t] # <<>> /\ TypeOK /\ CallInv /\ WaitingInv
    BY DEF ClassInv, CallInv, At
  <1>2. \E n, f : TopIs(t, n, f)
    BY <1>1, TopCall DEF CallInv
  <1>. QED
    BY <1>1, <1>2 DEF TopIs, At, Class

LEMMA ResultTyped ==
  ASSUME TypeOK, NEW t \in Threads,
         UNCHANGED result \/ \E value \in {"ok", "error"} : Return(t, value)
  PROVE  result' \in [Threads -> Results]
  BY DEF TypeOK, Return, Results

\* The lock and the state of every class stay as they are, and nr_waiting too.
LEMMA QuietStep ==
  ASSUME ClassAssumption, ClassInv, NEW t \in Threads, stack[t] # <<>>,
         NEW n, NEW f, TopIs(t, n, f),
         NEW g \in Frame, Topped(t, g),
         UNCHANGED <<status, nrWaiting, compilingEe, state, result>>,
         waitSem' \in [Classes -> Nat],
         g.class = f.class, FrameInv(g),
         g.pc \in OwnPC => f.pc \in OwnPC, f.pc \notin EnterPC => g.pc \notin EnterPC,
         f.pc \in InitPC => g.pc \in InitPC, g.pc \in ClinitPC => f.pc \in ClinitPC,
         g.pc = "checkEe" => status[g.class] = "compiling",
         g.pc \in WaitingPC <=> f.pc \in WaitingPC
  PROVE  ClassInv'
  <1>1. TypeOK /\ CallInv /\ WaitingInv
    BY DEF ClassInv, CallInv
  <1>2. /\ stack' \in [Threads -> Seq(Frame)] /\ Moves(t, n, f, g)
        /\ Depth'[t] = n /\ Depth'[t] # n + 1 /\ Calls'[t][n] = g
    BY <1>1, OneMoves, Zenon DEF Topped
  <1>3. CallInv'
    BY <1>1, <1>2, QuietMove
  <1>4. WaitingInv'
    <2>1. \A c : t \in Waiting(c)' <=> t \in Waiting(c)
      <3>1. \A c : t \in Waiting(c) <=> (f.class = c /\ f.pc \in WaitingPC)
        BY TopWaits, Zenon
      <3>2. \A c : t \in Waiting(c)' <=> (g.class = c /\ g.pc \in WaitingPC)
        BY <1>2, MovedWaits, Zenon
      <3>. QED
        BY <3>1, <3>2, Zenon
    <2>. QED
      BY <1>1, <1>2, <2>1, WaitersStay DEF Moves
  <1>5. TypeOK'
    BY <1>1, <1>2 DEF TypeOK
  <1>. QED
    BY <1>3, <1>4, <1>5 DEF ClassInv, CallInv

\* The owner changes the lock or the state of its class.
LEMMA OwnStep ==
  ASSUME ClassAssumption, ClassInv, NEW t \in Threads, stack[t] # <<>>,
         NEW n, NEW f, TopIs(t, n, f),
         NEW g \in Frame, Topped(t, g),
         UNCHANGED <<nrWaiting, waitSem, result>>,
         status' \in [Classes -> {"initial", "compiling"} \cup Final],
         compilingEe' \in [Classes -> Threads \cup {NULL}],
         state' \in [Classes -> {"linked", "initializing", "initialized", "erroneous"}],
         Touches(t, n, f), g.class = f.class, FrameInv(g)', g.pc \notin EnterPC \/ g.pc = "setEe",
         f.pc \in OwnPC \/ status[f.class] = "initial", f.pc \notin WaitingPC,
         f.pc \notin EnterPC => g.pc \notin EnterPC,
         f.pc \in InitPC => g.pc \in InitPC \/ status'[f.class] # "compiling",
         g.pc \in ClinitPC => f.pc \in ClinitPC \/ Super[g.class] = NULL,
         \A d \in Classes : compilingEe'[d] # compilingEe[d] => d = g.class /\ g.pc \in InitPC
  PROVE  ClassInv'
  <1>1. TypeOK /\ CallInv /\ WaitingInv
    BY DEF ClassInv, CallInv
  <1>2. /\ stack' \in [Threads -> Seq(Frame)] /\ Moves(t, n, f, g)
        /\ Depth'[t] = n /\ Depth'[t] # n + 1 /\ Calls'[t][n] = g
    <2>1. t \in Threads /\ g \in Frame /\ stack[t] # <<>> /\ TopIs(t, n, f)
      OBVIOUS
    <2>2. Topped(t, g)
      OBVIOUS
    <2>. QED
      BY ONLY <1>1, <2>1, <2>2, OneMoves DEF Topped
  <1>3. g.pc # "checkEe" /\ g.pc \notin WaitingPC
    BY DEF EnterPC, WaitingPC
  <1>4. Becomes(t, n, f, g)
    BY <1>2, <1>3 DEF Becomes
  <1>5. CallInv'
    <2>1. n \in 0 .. n /\ n >= 1 /\ f \in Frame
      BY DEF TopIs
    <2>. QED
      BY <1>1, <1>2, <1>4, <2>1, CallInvKept
  <1>6. WaitingInv'
    <2>1. \A c : t \in Waiting(c)' <=> t \in Waiting(c)
      BY <1>2, <1>3, TopWaits, MovedWaits
    <2>. QED
      BY <1>1, <1>2, <2>1, WaitersStay DEF Moves
  <1>7. TypeOK'
    BY <1>1, <1>2 DEF TypeOK
  <1>. QED
    BY <1>5, <1>6, <1>7 DEF ClassInv, CallInv

\* Another class is needed: the superclass, or one that <clinit> uses.
LEMMA CallStep ==
  ASSUME ClassAssumption, ClassInv, NEW t \in Threads, stack[t] # <<>>,
         NEW n, NEW f, TopIs(t, n, f), NEW c \in Classes,
         NEW label \in {"superCall", "clinitCall"}, Call(t, label, c),
         UNCHANGED <<status, nrWaiting, waitSem, compilingEe>>,
         state' \in [Classes -> {"linked", "initializing", "initialized", "erroneous"}],
         Touches(t, n, f), f.pc \in {"begin", "clinit"},
         label = "superCall" => c = Super[f.class], label = "clinitCall" => f.pc = "clinit",
         status[f.class] = "compiling", state'[f.class] = "initializing"
  PROVE  ClassInv'
  <1>1. TypeOK /\ CallInv /\ WaitingInv
    BY DEF ClassInv, CallInv
  <1>2. f \in Frame /\ f = Head(stack[t]) /\ n \in 0 .. n
    BY DEF TopIs
  <1>3. PICK g \in Frame : g = [f EXCEPT !.pc = label]
    BY <1>2 DEF Frame, InitPC
  <1>4. PICK h \in Frame : h = [class |-> c, pc |-> "enter", left |-> 0]
    BY DEF Frame, EnterPC
  <1>5. g.pc = label /\ g.class = f.class /\ h.pc = "enter" /\ h.class = c
    BY <1>2, <1>3, <1>4 DEF Frame
  <1>6. stack' = [stack EXCEPT ![t] = <<h, g>> \o Tail(@)] /\ UNCHANGED result
    BY <1>2, <1>3, <1>4 DEF Call
  <1>7. /\ stack' \in [Threads -> Seq(Frame)] /\ Moves(t, n, f, g)
        /\ Depth'[t] = n + 1 /\ Calls'[t][n + 1] = h
    <2>1. t \in Threads /\ stack[t] # <<>> /\ TopIs(t, n, f)
      OBVIOUS
    <2>2. g \in Frame /\ h \in Frame
      OBVIOUS
    <2>. QED
      BY ONLY <1>1, <1>5, <1>6, <2>1, <2>2, CallMoves
  <1>8. FrameInv(g)'
    BY <1>5 DEF FrameInv, InitPC, LeavePC, WaitingPC
  <1>9. /\ f.pc \in OwnPC /\ g.pc \in InitPC /\ g.pc \notin EnterPC
        /\ g.pc \in ClinitPC => f.pc \in ClinitPC
        /\ f.pc \notin WaitingPC /\ g.pc # "checkEe"
    BY <1>5 DEF OwnPC, InitPC, EnterPC, ClinitPC, WaitingPC
  <1>10. Becomes(t, n, f, g)
    BY <1>5, <1>7, <1>8, <1>9 DEF Becomes
  <1>11. CallInv'
    BY <1>1, <1>2, <1>7, <1>10, CallInvKept
  <1>12. WaitingInv'
    <2>1. \A d : t \notin Waiting(d)
      BY <1>9, TopWaits
    <2>2. \A d : t \notin Waiting(d)'
      BY <1>5, <1>7 DEF Waiting, WaitingPC
    <2>. QED
      BY <1>1, <1>7, <2>1, <2>2, WaitersStay DEF Moves
  <1>13. TypeOK'
    BY <1>1, <1>6, <1>7 DEF TypeOK
  <1>. QED
    BY <1>11, <1>12, <1>13 DEF ClassInv, CallInv

-----------------------------------------------------------------------------
(* The actions: compile_lock_enter                                         *)

\* A call that finds its own thread in compiling_ee rests on an outer one.
LEMMA OuterHolds ==
  ASSUME CallInv, NEW t \in Threads, NEW n, NEW f, TopIs(t, n, f), f.pc = "checkEe",
         compilingEe[f.class] = t
  PROVE  Holds(t, n - 1, f.class)
  <1>1. n \in Nat /\ n \in 1 .. Depth[t] /\ Calls[t][n] = f
    BY DEF TopIs
  <1>2. Holds(t, n, f.class)
    BY <1>1 DEF CallInv, HoldsInv
  <1>3. PICK i \in 1 .. n : Calls[t][i].class = f.class /\ Calls[t][i].pc \notin EnterPC
    BY <1>2 DEF Holds
  <1>4. i # n
    BY <1>1, <1>3 DEF EnterPC
  <1>5. i \in 1 .. n - 1
    BY <1>1, <1>4
  <1>. QED
    BY <1>3, <1>5 DEF Holds

LEMMA OneWent ==
  ASSUME ClassAssumption, TypeOK, WaitingInv, NEW t \in Threads, OthersStay(t),
         NEW n, NEW f, TopIs(t, n, f), f.class \in Classes, f.pc \in WaitingPC,
         nrWaiting' = [nrWaiting EXCEPT ![f.class] = @ - 1],
         \A c : t \notin Waiting(c)'
  PROVE  WaitingInv'
  <1>1. \A c : t \in Waiting(c) <=> c = f.class
    BY TopWaits
  <1>2. \A c \in Classes :
          nrWaiting'[c] = IF c = f.class THEN nrWaiting[c] - 1 ELSE nrWaiting[c]
    BY DEF TypeOK
  <1>. QED
    BY <1>1, <1>2, WaiterWent

\* What QuietStep asks of the places of a call
Onward(f, g) ==
  /\ g.pc \in OwnPC => f.pc \in OwnPC
  /\ f.pc \notin EnterPC => g.pc \notin EnterPC
  /\ f.pc \in InitPC => g.pc \in InitPC
  /\ g.pc \in ClinitPC => f.pc \in ClinitPC
  /\ g.pc \in WaitingPC <=> f.pc \in WaitingPC

LEMMA EnterKeeps ==
  ASSUME ClassAssumption, ClassInv, NEW t \in Threads, Enter(t)
  PROVE  ClassInv'
  <1>1. PICK n, f : TopIs(t, n, f) /\ f.pc = "enter" /\ Class(t) = f.class
    BY TopAt DEF Enter
  <1>2. stack[t] # <<>> /\ TypeOK /\ CallInv /\ WaitingInv
    BY TopAt DEF Enter
  <1>3. f \in Frame /\ f.class \in Classes /\ FrameInv(f)
    BY <1>1 DEF TopIs, Frame
  <1>4. UNCHANGED <<status, nrWaiting, waitSem, compilingEe, state>>
    BY DEF Enter, lock
  <1>5. CASE status[f.class] \in Final
    <2>1. PICK value \in {"ok", "error"} :
            Return(t, value) /\ (value = "ok" <=> status[f.class] = "ok")
      BY <1>1, <1>5 DEF Enter, Entered
    <2>2. value = "ok" => state'[f.class] = "initialized"
      BY <1>2, <1>3, <1>4, <2>1 DEF CallInv, StatusInv
    <2>3. f.pc \notin InitPC \cup WaitingPC
      BY <1>1 DEF InitPC, WaitingPC
    <2>4. Touches(t, n, f)
      BY <1>2, <1>4, Untouched DEF CallInv
    <2>5. stack' \in [Threads -> Seq(Frame)] /\ CallInv' /\ WaitingInv'
      BY <1>1, <1>2, <1>4, <2>1, <2>2, <2>3, <2>4, ReturnStays
    <2>6. TypeOK'
      BY <1>2, <1>4, <2>1, <2>5, ResultTyped DEF TypeOK
    <2>. QED
      BY <2>5, <2>6 DEF ClassInv, CallInv
  <1>6. CASE status[f.class] \notin Final
    <2>1. Goto(t, "cas")
      BY <1>1, <1>6 DEF Enter
    <2>2. PICK g \in Frame :
            /\ g.pc = "cas" /\ g.class = f.class
            /\ Topped(t, g)
      BY <1>1, <2>1, GotoOf DEF EnterPC
    <2>3. FrameInv(g) /\ Onward(f, g) /\ g.pc # "checkEe"
      BY <1>1, <2>2 DEF FrameInv, InitPC, LeavePC, WaitingPC, Onward, OwnPC, EnterPC, ClinitPC
    <2>4. waitSem' \in [Classes -> Nat] /\ UNCHANGED result
      BY <1>2, <1>4, <2>1 DEF TypeOK, Goto
    <2>. QED
      BY <1>1, <1>2, <1>4, <2>2, <2>3, <2>4, QuietStep DEF Onward
  <1>. QED
    BY <1>5, <1>6

LEMMA CasStatusKeeps ==
  ASSUME ClassAssumption, ClassInv, NEW t \in Threads, CasStatus(t)
  PROVE  ClassInv'
  <1>1. PICK n, f : TopIs(t, n, f) /\ f.pc = "cas" /\ Class(t) = f.class
    BY TopAt DEF CasStatus
  <1>2. stack[t] # <<>> /\ TypeOK /\ CallInv /\ WaitingInv
    BY TopAt DEF CasStatus
  <1>3. f \in Frame /\ f.class \in Classes /\ FrameInv(f)
    BY <1>1 DEF TopIs, Frame
  <1>4. UNCHANGED <<nrWaiting, waitSem, compilingEe, state>>
    BY DEF CasStatus
  <1>5. CASE status[f.class] = "initial"
    <2>1. status' = [status EXCEPT ![f.class] = "compiling"] /\ Goto(t, "setEe")
      BY <1>1, <1>5 DEF CasStatus
    <2>2. PICK g \in Frame :
            /\ g.pc = "setEe" /\ g.class = f.class
            /\ Topped(t, g)
      BY <1>1, <2>1, GotoOf DEF EnterPC
    <2>3. compilingEe[f.class] = NULL /\ state[f.class] = "linked"
      BY <1>2, <1>3, <1>5 DEF CallInv, StatusInv
    <2>4. status'[f.class] = "compiling" /\ \A d \in Classes \ {f.class} : status'[d] = status[d]
      BY <1>2, <1>3, <2>1 DEF TypeOK
    <2>5. Touches(t, n, f)
      BY <1>1, <1>2, <1>4, <1>5, <2>3, <2>4 DEF Touches, Same, CallInv, StatusInv, TopIs, Final
    <2>6. FrameInv(g)'
      BY <1>4, <2>2, <2>3, <2>4 DEF FrameInv, InitPC, LeavePC, WaitingPC
    <2>7. f.pc \notin WaitingPC /\ f.pc \in EnterPC /\ f.pc \notin InitPC /\ g.pc \notin ClinitPC
      BY <1>1, <2>2 DEF EnterPC, InitPC, WaitingPC, ClinitPC
    <2>8. /\ status' \in [Classes -> {"initial", "compiling"} \cup Final]
          /\ compilingEe' \in [Classes -> Threads \cup {NULL}]
          /\ state' \in [Classes -> {"linked", "initializing", "initialized", "erroneous"}]
          /\ UNCHANGED result
      BY <1>2, <1>3, <1>4, <2>1 DEF TypeOK, Goto
    <2>. QED
      BY <1>1, <1>2, <1>4, <1>5, <2>2, <2>5, <2>6, <2>7, <2>8, OwnStep
  <1>6. CASE status[f.class] # "initial"
    <2>1. Goto(t, "incWaiting") /\ UNCHANGED status
      BY <1>1, <1>6 DEF CasStatus
    <2>2. PICK g \in Frame :
            /\ g.pc = "incWaiting" /\ g.class = f.class
            /\ Topped(t, g)
      BY <1>1, <2>1, GotoOf DEF EnterPC
    <2>3. FrameInv(g) /\ Onward(f, g) /\ g.pc # "checkEe"
      BY <1>1, <1>6, <2>2 DEF FrameInv, InitPC, LeavePC, WaitingPC, Onward, OwnPC, EnterPC, ClinitPC
    <2>4. waitSem' \in [Classes -> Nat] /\ UNCHANGED result
      BY <1>2, <1>4, <2>1 DEF TypeOK, Goto
    <2>. QED
      BY <1>1, <1>2, <1>4, <2>1, <2>2, <2>3, <2>4, QuietStep DEF Onward
  <1>. QED
    BY <1>5, <1>6

LEMMA SetEeKeeps ==
  ASSUME ClassAssumption, ClassInv, NEW t \in Threads, SetEe(t)
  PROVE  ClassInv'
  <1>1. PICK n, f : TopIs(t, n, f) /\ f.pc = "setEe" /\ Class(t) = f.class
    BY TopAt DEF SetEe
  <1>2. stack[t] # <<>> /\ TypeOK /\ CallInv /\ WaitingInv
    BY TopAt DEF SetEe
  <1>3. f \in Frame /\ f.class \in Classes /\ FrameInv(f)
    BY <1>1 DEF TopIs, Frame
  <1>4. UNCHANGED <<status, nrWaiting, waitSem, state>>
    BY DEF SetEe
  <1>5. compilingEe' = [compilingEe EXCEPT ![f.class] = t] /\ Goto(t, "begin")
    BY <1>1 DEF SetEe
  <1>6. PICK g \in Frame :
          /\ g.pc = "begin" /\ g.class = f.class
          /\ Topped(t, g)
    BY <1>1, <1>5, GotoOf DEF InitPC
  <1>7. status[f.class] = "compiling" /\ state[f.class] = "linked"
    BY <1>1, <1>3 DEF FrameInv
  <1>8. compilingEe'[f.class] = t /\ \A d \in Classes \ {f.class} : compilingEe'[d] = compilingEe[d]
    BY <1>2, <1>3, <1>5 DEF TypeOK
  <1>9. Touches(t, n, f)
    BY <1>1, <1>2, <1>4, <1>7, <1>8 DEF Touches, Same, CallInv, StatusInv, TopIs, OwnPC
  <1>10. FrameInv(g)'
    BY <1>4, <1>6, <1>7 DEF FrameInv, InitPC, LeavePC, WaitingPC
  <1>11. /\ f.pc \in OwnPC /\ f.pc \notin WaitingPC /\ f.pc \notin InitPC
         /\ g.pc \in InitPC /\ g.pc \notin EnterPC /\ g.pc \notin ClinitPC
    BY <1>1, <1>6 DEF OwnPC, EnterPC, InitPC, LeavePC, WaitingPC, ClinitPC
  <1>12. /\ status' \in [Classes -> {"initial", "compiling"} \cup Final]
         /\ compilingEe' \in [Classes -> Threads \cup {NULL}]
         /\ state' \in [Classes -> {"linked", "initializing", "initialized", "erroneous"}]
         /\ UNCHANGED result
    BY <1>2, <1>3, <1>4, <1>5 DEF TypeOK, Goto
  <1>13. \A d \in Classes : compilingEe'[d] # compilingEe[d] => d = g.class /\ g.pc \in InitPC
    BY <1>6, <1>8, <1>11
  <1>. QED
    BY <1>1, <1>2, <1>4, <1>6, <1>9, <1>10, <1>11, <1>12, <1>13, OwnStep

LEMMA IncWaitingKeeps ==
  ASSUME ClassAssumption, ClassInv, NEW t \in Threads, IncWaiting(t)
  PROVE  ClassInv'
  <1>1. PICK n, f : TopIs(t, n, f) /\ f.pc = "incWaiting" /\ Class(t) = f.class
    BY TopAt DEF IncWaiting
  <1>2. stack[t] # <<>> /\ TypeOK /\ CallInv /\ WaitingInv
    BY TopAt DEF IncWaiting
  <1>3. f \in Frame /\ f.class \in Classes /\ FrameInv(f)
    BY <1>1 DEF TopIs, Frame
  <1>4. UNCHANGED <<status, waitSem, compilingEe, state>>
    BY DEF IncWaiting
  <1>5. nrWaiting' = [nrWaiting EXCEPT ![f.class] = @ + 1] /\ Goto(t, "loop")
    BY <1>1 DEF IncWaiting
  <1>6. PICK g \in Frame :
          /\ g.pc = "loop" /\ g.class = f.class
          /\ Topped(t, g)
    BY <1>1, <1>5, GotoOf DEF EnterPC
  <1>7. /\ stack' \in [Threads -> Seq(Frame)] /\ Moves(t, n, f, g)
        /\ Depth'[t] = n /\ Depth'[t] # n + 1 /\ Calls'[t][n] = g
    BY <1>1, <1>2, <1>6, OneMoves DEF Topped
  <1>8. FrameInv(g)
    BY <1>1, <1>3, <1>6 DEF FrameInv, InitPC, LeavePC, WaitingPC
  <1>9. /\ g.pc \notin OwnPC /\ f.pc \in EnterPC /\ f.pc \notin InitPC
        /\ g.pc \notin ClinitPC /\ g.pc # "checkEe"
        /\ f.pc \notin WaitingPC /\ g.pc \in WaitingPC
    BY <1>1, <1>6 DEF OwnPC, EnterPC, InitPC, LeavePC, WaitingPC, ClinitPC
  <1>10. CallInv'
    BY <1>1, <1>2, <1>4, <1>6, <1>7, <1>8, <1>9, QuietMove
  <1>11. WaitingInv'
    <2>1. \A c : t \notin Waiting(c)
      BY <1>1, <1>9, TopWaits
    <2>2. \A c : t \in Waiting(c)' <=> c = f.class
      BY <1>1, <1>6, <1>7, <1>9, MovedWaits
    <2>3. OthersStay(t)
      BY <1>7 DEF Moves
    <2>4. \A c \in Classes :
            nrWaiting'[c] = IF c = f.class THEN nrWaiting[c] + 1 ELSE nrWaiting[c]
      BY <1>2, <1>5 DEF TypeOK
    <2>. QED
      BY <1>2, <1>3, <2>1, <2>2, <2>3, <2>4, WaiterCame
  <1>12. TypeOK'
    BY <1>2, <1>3, <1>4, <1>5, <1>7 DEF TypeOK, Goto
  <1>. QED
    BY <1>10, <1>11, <1>12 DEF ClassInv, CallInv

LEMMA LoopKeeps ==
  ASSUME ClassAssumption, ClassInv, NEW t \in Threads, Loop(t)
  PROVE  ClassInv'
  <1>1. PICK n, f : TopIs(t, n, f) /\ f.pc = "loop" /\ Class(t) = f.class
    BY TopAt DEF Loop
  <1>2. stack[t] # <<>> /\ TypeOK /\ CallInv /\ WaitingInv
    BY TopAt DEF Loop
  <1>3. f \in Frame /\ f.class \in Classes /\ FrameInv(f)
    BY <1>1 DEF TopIs, Frame
  <1>4. UNCHANGED <<status, nrWaiting, waitSem, compilingEe, state>>
    BY DEF Loop, lock
  <1>5. PICK label \in {"checkEe", "decWaiting"} :
          Goto(t, label) /\ (label = "checkEe" <=> status[f.class] = "compiling")
    BY <1>1 DEF Loop
  <1>6. PICK g \in Frame :
          /\ g.pc = label /\ g.class = f.class
          /\ Topped(t, g)
    BY <1>1, <1>5, GotoOf DEF EnterPC
  <1>7. status[f.class] # "compiling" => status[f.class] \in Final
    BY <1>1, <1>2, <1>3 DEF TypeOK, FrameInv, WaitingPC
  <1>8. FrameInv(g) /\ Onward(f, g) /\ (g.pc = "checkEe" => status[g.class] = "compiling")
    BY <1>1, <1>3, <1>5, <1>6, <1>7 DEF FrameInv, InitPC, LeavePC, WaitingPC, Onward, OwnPC, EnterPC, ClinitPC
  <1>9. waitSem' \in [Classes -> Nat] /\ UNCHANGED result
    BY <1>2, <1>4, <1>5 DEF TypeOK, Goto
  <1>. QED
    BY <1>1, <1>2, <1>4, <1>6, <1>8, <1>9, QuietStep DEF Onward

LEMMA CheckEeKeeps ==
  ASSUME ClassAssumption, ClassInv, NEW t \in Threads, CheckEe(t)
  PROVE  ClassInv'
  <1>1. PICK n, f : TopIs(t, n, f) /\ f.pc = "checkEe" /\ Class(t) = f.class
    BY TopAt DEF CheckEe
  <1>2. stack[t] # <<>> /\ TypeOK /\ CallInv /\ WaitingInv
    BY TopAt DEF CheckEe
  <1>3. f \in Frame /\ f.class \in Classes /\ FrameInv(f)
    BY <1>1 DEF TopIs, Frame
  <1>4. UNCHANGED <<status, waitSem, compilingEe, state>>
    BY DEF CheckEe
  <1>5. CASE compilingEe[f.class] = t
    <2>1. nrWaiting' = [nrWaiting EXCEPT ![f.class] = @ - 1] /\ Return(t, "ok")
      BY <1>1, <1>5 DEF CheckEe
    <2>2. Holds(t, n - 1, f.class)
      BY <1>1, <1>2, <1>5, OuterHolds
    <2>3. Touches(t, n, f) /\ f.pc \notin InitPC
      BY <1>1, <1>2, <1>4, Untouched DEF CallInv, InitPC
    <2>4. /\ stack' \in [Threads -> Seq(Frame)] /\ OthersStay(t) /\ CallInv'
          /\ \A c : t \notin Waiting(c)'
      BY <1>1, <1>2, <1>4, <2>1, <2>2, <2>3, ReturnKeeps
    <2>5. WaitingInv'
      BY <1>1, <1>2, <1>3, <2>1, <2>4, OneWent DEF WaitingPC
    <2>6. TypeOK'
      <3>1. nrWaiting' \in [Classes -> Int]
        BY <1>2, <1>3, <2>1 DEF TypeOK
      <3>. QED
        BY <1>2, <1>4, <2>1, <2>4, <3>1, ResultTyped DEF TypeOK
    <2>. QED
      BY <2>4, <2>5, <2>6 DEF ClassInv, CallInv
  <1>6. CASE compilingEe[f.class] # t
    <2>1. Goto(t, "semWait") /\ UNCHANGED nrWaiting
      BY <1>1, <1>6 DEF CheckEe
    <2>2. PICK g \in Frame :
            /\ g.pc = "semWait" /\ g.class = f.class
            /\ Topped(t, g)
      BY <1>1, <2>1, GotoOf DEF EnterPC
    <2>3. FrameInv(g) /\ Onward(f, g) /\ g.pc # "checkEe"
      BY <1>1, <1>3, <2>2 DEF FrameInv, InitPC, LeavePC, WaitingPC, Onward, OwnPC, EnterPC, ClinitPC
    <2>4. waitSem' \in [Classes -> Nat] /\ UNCHANGED result
      BY <1>2, <1>4, <2>1 DEF TypeOK, Goto
    <2>. QED
      BY <1>1, <1>2, <1>4, <2>1, <2>2, <2>3, <2>4, QuietStep DEF Onward
  <1>. QED
    BY <1>5, <1>6

LEMMA SemWaitKeeps ==
  ASSUME ClassAssumption, ClassInv, NEW t \in Threads, SemWait(t)
  PROVE  ClassInv'
  <1>1. PICK n, f : TopIs(t, n, f) /\ f.pc = "semWait" /\ Class(t) = f.class
    BY TopAt DEF SemWait
  <1>2. stack[t] # <<>> /\ TypeOK /\ CallInv /\ WaitingInv
    BY TopAt DEF SemWait
  <1>3. f \in Frame /\ f.class \in Classes /\ FrameInv(f)
    BY <1>1 DEF TopIs, Frame
  <1>4. UNCHANGED <<status, nrWaiting, compilingEe, state>>
    BY DEF SemWait
  <1>5. Goto(t, "loop") /\ waitSem' \in [Classes -> Nat]
    BY <1>1, <1>2, <1>3 DEF SemWait, TypeOK
  <1>6. PICK g \in Frame :
          /\ g.pc = "loop" /\ g.class = f.class
          /\ Topped(t, g)
    BY <1>1, <1>5, GotoOf DEF EnterPC
  <1>7. FrameInv(g) /\ Onward(f, g) /\ g.pc # "checkEe"
    BY <1>1, <1>3, <1>6 DEF FrameInv, InitPC, LeavePC, WaitingPC, Onward, OwnPC, EnterPC, ClinitPC
  <1>8. UNCHANGED result
    BY <1>5 DEF Goto
  <1>. QED
    BY <1>1, <1>2, <1>4, <1>5, <1>6, <1>7, <1>8, QuietStep DEF Onward

LEMMA DecWaitingKeeps ==
  ASSUME ClassAssumption, ClassInv, NEW t \in Threads, DecWaiting(t)
  PROVE  ClassInv'
  <1>1. PICK n, f : TopIs(t, n, f) /\ f.pc = "decWaiting" /\ Class(t) = f.class
    BY TopAt DEF DecWaiting
  <1>2. stack[t] # <<>> /\ TypeOK /\ CallInv /\ WaitingInv
    BY TopAt DEF DecWaiting
  <1>3. f \in Frame /\ f.class \in Classes /\ FrameInv(f)
    BY <1>1 DEF TopIs, Frame
  <1>4. UNCHANGED <<status, waitSem, compilingEe, state>>
    BY DEF DecWaiting
  <1>5. nrWaiting' = [nrWaiting EXCEPT ![f.class] = @ - 1]
    BY <1>1 DEF DecWaiting
  <1>6. PICK value \in {"ok", "error"} :
          Return(t, value) /\ (value = "ok" <=> status[f.class] = "ok")
    BY <1>1 DEF DecWaiting, Entered
  <1>7. value = "ok" => state'[f.class] = "initialized"
    BY <1>2, <1>3, <1>4, <1>6 DEF CallInv, StatusInv
  <1>8. Touches(t, n, f) /\ f.pc \notin InitPC
    BY <1>1, <1>2, <1>4, Untouched DEF CallInv, InitPC
  <1>9. /\ stack' \in [Threads -> Seq(Frame)] /\ OthersStay(t) /\ CallInv'
        /\ \A c : t \notin Waiting(c)'
    BY <1>1, <1>2, <1>4, <1>6, <1>7, <1>8, ReturnKeeps
  <1>10. WaitingInv'
    BY <1>1, <1>2, <1>3, <1>5, <1>9, OneWent DEF WaitingPC
  <1>11. TypeOK'
    <2>1. nrWaiting' \in [Classes -> Int]
      BY <1>2, <1>3, <1>5 DEF TypeOK
    <2>. QED
      BY <1>2, <1>4, <1>6, <1>9, <2>1, ResultTyped DEF TypeOK
  <1>. QED
    BY <1>9, <1>10, <1>11 DEF ClassInv, CallInv

-----------------------------------------------------------------------------
(* The actions: vm_class_init                                              *)

LEMMA BeginKeeps ==
  ASSUME ClassAssumption, ClassInv, NEW t \in Threads, Begin(t)
  PROVE  ClassInv'
  <1>1. PICK n, f : TopIs(t, n, f) /\ f.pc = "begin" /\ Class(t) = f.class
    BY TopAt DEF Begin
  <1>2. stack[t] # <<>> /\ TypeOK /\ CallInv /\ WaitingInv
    BY TopAt DEF Begin
  <1>3. f \in Frame /\ f.class \in Classes /\ FrameInv(f)
    BY <1>1 DEF TopIs, Frame
  <1>4. UNCHANGED <<status, nrWaiting, waitSem, compilingEe>>
    BY DEF Begin, lock
  <1>5. state' = [state EXCEPT ![f.class] = "initializing"]
    BY <1>1 DEF Begin
  <1>6. status[f.class] = "compiling" /\ state[f.class] = "linked"
    BY <1>1, <1>3 DEF FrameInv, InitPC
  <1>7. state'[f.class] = "initializing" /\ \A d \in Classes \ {f.class} : state'[d] = state[d]
    BY <1>2, <1>3, <1>5 DEF TypeOK
  <1>8. Touches(t, n, f)
    BY <1>1, <1>2, <1>4, <1>6, <1>7
       DEF Touches, Same, CallInv, StatusInv, TopIs, OwnPC, InitPC
  <1>9. /\ status' \in [Classes -> {"initial", "compiling"} \cup Final]
        /\ compilingEe' \in [Classes -> Threads \cup {NULL}]
        /\ state' \in [Classes -> {"linked", "initializing", "initialized", "erroneous"}]
    BY <1>2, <1>3, <1>4, <1>5 DEF TypeOK
  <1>10. ASSUME NEW label \in {"error", "clinit"}, Goto(t, label),
                label = "clinit" => Super[f.class] = NULL
         PROVE  ClassInv'
    <2>1. PICK g \in Frame :
            /\ g.pc = label /\ g.class = f.class
            /\ Topped(t, g)
      BY <1>1, <1>10, GotoOf DEF InitPC
    <2>2. FrameInv(g)'
      BY <1>4, <1>6, <1>7, <1>10, <2>1 DEF FrameInv, InitPC, LeavePC, WaitingPC
    <2>3. /\ f.pc \in OwnPC /\ f.pc \notin WaitingPC /\ g.pc \in InitPC /\ g.pc \notin EnterPC
          /\ g.pc \in ClinitPC => Super[g.class] = NULL
      BY <1>1, <1>10, <2>1 DEF OwnPC, EnterPC, InitPC, LeavePC, WaitingPC, ClinitPC
    <2>4. UNCHANGED result
      BY <1>10 DEF Goto
    <2>. QED
      BY <1>1, <1>2, <1>4, <1>8, <1>9, <2>1, <2>2, <2>3, <2>4, OwnStep
  <1>11. ASSUME Super[f.class] # NULL, Call(t, "superCall", Super[f.class])
         PROVE  ClassInv'
    <2>1. Super[f.class] \in Classes
      BY <1>3, <1>11 DEF ClassAssumption
    <2>. QED
      BY <1>1, <1>2, <1>4, <1>6, <1>7, <1>8, <1>9, <1>11, <2>1, CallStep
  <1>. QED
    BY <1>1, <1>10, <1>11 DEF Begin

LEMMA ClinitCallKeeps ==
  ASSUME ClassAssumption, ClassInv, NEW t \in Threads, ClinitCall(t)
  PROVE  ClassInv'
  <1>1. PICK n, f : TopIs(t, n, f) /\ f.pc = "clinit" /\ Class(t) = f.class
    BY TopAt DEF ClinitCall
  <1>2. stack[t] # <<>> /\ TypeOK /\ CallInv /\ WaitingInv
    BY TopAt DEF ClinitCall
  <1>3. f \in Frame /\ f.class \in Classes /\ FrameInv(f)
    BY <1>1 DEF TopIs, Frame
  <1>4. UNCHANGED <<status, nrWaiting, waitSem, compilingEe, state>>
    BY DEF ClinitCall, lock
  <1>5. PICK c \in Classes : Call(t, "clinitCall", c)
    BY <1>1, <1>3 DEF ClinitCall, ClassAssumption
  <1>6. status[f.class] = "compiling" /\ state'[f.class] = "initializing"
    BY <1>1, <1>3, <1>4 DEF FrameInv, InitPC
  <1>7. Touches(t, n, f)
    BY <1>2, <1>4, Untouched DEF CallInv
  <1>8. state' \in [Classes -> {"linked", "initializing", "initialized", "erroneous"}]
    BY <1>2, <1>4 DEF TypeOK
  <1>. QED
    BY <1>1, <1>2, <1>4, <1>5, <1>6, <1>7, <1>8, CallStep

LEMMA ClinitEndKeeps ==
  ASSUME ClassAssumption, ClassInv, NEW t \in Threads, ClinitEnd(t)
  PROVE  ClassInv'
  <1>1. PICK n, f : TopIs(t, n, f) /\ f.pc = "clinit" /\ Class(t) = f.class
    BY TopAt DEF ClinitEnd
  <1>2. stack[t] # <<>> /\ TypeOK /\ CallInv /\ WaitingInv
    BY TopAt DEF ClinitEnd
  <1>3. f \in Frame /\ f.class \in Classes /\ FrameInv(f)
    BY <1>1 DEF TopIs, Frame
  <1>4. UNCHANGED <<status, nrWaiting, waitSem, compilingEe, state>>
    BY DEF ClinitEnd, lock
  <1>5. PICK label \in {"finish", "error"} : Goto(t, label)
    BY DEF ClinitEnd
  <1>6. PICK g \in Frame :
          /\ g.pc = label /\ g.class = f.class
          /\ Topped(t, g)
    BY <1>1, <1>5, GotoOf DEF InitPC
  <1>7. FrameInv(g) /\ Onward(f, g) /\ g.pc # "checkEe"
    BY <1>1, <1>3, <1>5, <1>6 DEF FrameInv, InitPC, LeavePC, WaitingPC, Onward, OwnPC, EnterPC, ClinitPC
  <1>8. waitSem' \in [Classes -> Nat] /\ UNCHANGED result
    BY <1>2, <1>4, <1>5 DEF TypeOK, Goto
  <1>. QED
    BY <1>1, <1>2, <1>4, <1>6, <1>7, <1>8, QuietStep DEF Onward

LEMMA FinishKeeps ==
  ASSUME ClassAssumption, ClassInv, NEW t \in Threads, Finish(t)
  PROVE  ClassInv'
  <1>1. PICK n, f : TopIs(t, n, f) /\ f.pc = "finish" /\ Class(t) = f.class
    BY TopAt DEF Finish
  <1>2. stack[t] # <<>> /\ TypeOK /\ CallInv /\ WaitingInv
    BY TopAt DEF Finish
  <1>3. f \in Frame /\ f.class \in Classes /\ FrameInv(f)
    BY <1>1 DEF TopIs, Frame
  <1>4. UNCHANGED <<status, nrWaiting, waitSem, compilingEe>>
    BY DEF Finish, lock
  <1>5. state' = [state EXCEPT ![f.class] = "initialized"] /\ Goto(t, "leave")
    BY <1>1 DEF Finish
  <1>6. PICK g \in Frame :
          /\ g.pc = "leave" /\ g.class = f.class
          /\ Topped(t, g)
    BY <1>1, <1>5, GotoOf DEF InitPC
  <1>7. status[f.class] = "compiling"
    BY <1>1, <1>3 DEF FrameInv, InitPC
  <1>8. state'[f.class] = "initialized" /\ \A d \in Classes \ {f.class} : state'[d] = state[d]
    BY <1>2, <1>3, <1>5 DEF TypeOK
  <1>9. Touches(t, n, f)
    BY <1>1, <1>2, <1>4, <1>7, <1>8
       DEF Touches, Same, CallInv, StatusInv, TopIs, OwnPC, InitPC
  <1>10. FrameInv(g)'
    BY <1>4, <1>6, <1>7, <1>8 DEF FrameInv, InitPC, LeavePC, WaitingPC
  <1>11. /\ f.pc \in OwnPC /\ f.pc \notin WaitingPC /\ g.pc \in InitPC
         /\ g.pc \notin EnterPC /\ g.pc \notin ClinitPC
    BY <1>1, <1>6 DEF OwnPC, EnterPC, InitPC, LeavePC, WaitingPC, ClinitPC
  <1>12. /\ status' \in [Classes -> {"initial", "compiling"} \cup Final]
         /\ compilingEe' \in [Classes -> Threads \cup {NULL}]
         /\ state' \in [Classes -> {"linked", "initializing", "initialized", "erroneous"}]
         /\ UNCHANGED result
    BY <1>2, <1>3, <1>4, <1>5 DEF TypeOK, Goto
  <1>. QED
    BY <1>1, <1>2, <1>4, <1>6, <1>9, <1>10, <1>11, <1>12, OwnStep

-----------------------------------------------------------------------------
(* The actions: compile_lock_leave                                         *)

LEMMA LeaveKeeps ==
  ASSUME ClassAssumption, ClassInv, NEW t \in Threads, Leave(t)
  PROVE  ClassInv'
  <1>0. PICK label \in {"leave", "error"} :
          /\ At(t, label)
          /\ status' = [status EXCEPT ![Class(t)] =
                          IF label = "leave" THEN "ok" ELSE "erroneous"]
    BY DEF Leave
  <1>1. PICK n, f : TopIs(t, n, f) /\ f.pc = label /\ Class(t) = f.class
    BY <1>0, TopAt
  <1>2. stack[t] # <<>> /\ TypeOK /\ CallInv /\ WaitingInv
    BY <1>0, TopAt
  <1>3. f \in Frame /\ f.class \in Classes /\ FrameInv(f)
    BY <1>1 DEF TopIs, Frame
  <1>4. UNCHANGED <<nrWaiting, waitSem, compilingEe, state>> /\ Goto(t, "wake")
    BY DEF Leave
  <1>5. PICK g \in Frame :
          /\ g.pc = "wake" /\ g.class = f.class
          /\ Topped(t, g)
    BY <1>1, <1>4, GotoOf DEF LeavePC
  <1>6. /\ status[f.class] = "compiling"
        /\ state[f.class] = IF label = "leave" THEN "initialized" ELSE "initializing"
    BY <1>1, <1>3 DEF FrameInv, InitPC
  <1>7. /\ status'[f.class] = IF label = "leave" THEN "ok" ELSE "erroneous"
        /\ \A d \in Classes \ {f.class} : status'[d] = status[d]
    BY <1>0, <1>1, <1>2, <1>3 DEF TypeOK
  <1>8. Touches(t, n, f)
    <2>1. f.pc \in OwnPC /\ n >= 1
      BY <1>1 DEF OwnPC, InitPC, TopIs
    <2>. QED
      BY <1>2, <1>4, <1>6, <1>7, <2>1 DEF Touches, Same, CallInv, StatusInv, Final
  <1>9. FrameInv(g)'
    BY <1>4, <1>5, <1>6, <1>7 DEF FrameInv, InitPC, LeavePC, WaitingPC, Final
  <1>10. /\ f.pc \in OwnPC /\ f.pc \notin WaitingPC /\ status'[f.class] # "compiling"
         /\ g.pc \notin EnterPC /\ g.pc \notin ClinitPC
    BY <1>1, <1>5, <1>7 DEF OwnPC, EnterPC, InitPC, LeavePC, WaitingPC, ClinitPC
  <1>11. /\ status' \in [Classes -> {"initial", "compiling"} \cup Final]
         /\ compilingEe' \in [Classes -> Threads \cup {NULL}]
         /\ state' \in [Classes -> {"linked", "initializing", "initialized", "erroneous"}]
         /\ UNCHANGED result
    BY <1>0, <1>1, <1>2, <1>3, <1>4 DEF TypeOK, Goto, Final
  <1>. QED
    BY <1>1, <1>2, <1>4, <1>5, <1>8, <1>9, <1>10, <1>11, OwnStep

LEMMA WakeKeeps ==
  ASSUME ClassAssumption, ClassInv, NEW t \in Threads, Wake(t)
  PROVE  ClassInv'
  <1>1. PICK n, f : TopIs(t, n, f) /\ f.pc = "wake" /\ Class(t) = f.class
    BY TopAt DEF Wake
  <1>2. stack[t] # <<>> /\ TypeOK /\ CallInv /\ WaitingInv
    BY TopAt DEF Wake
  <1>3. f \in Frame /\ f.class \in Classes /\ FrameInv(f)
    BY <1>1 DEF TopIs, Frame
  <1>4. UNCHANGED <<status, nrWaiting, waitSem, compilingEe, state, result>>
    BY DEF Wake, lock
  <1>5. nrWaiting[f.class] \in Nat
    BY <1>2, <1>3, FiniteWaiting DEF WaitingInv
  <1>6. PICK g \in Frame : g = [f EXCEPT !.pc = "post", !.left = nrWaiting[f.class]]
    BY <1>3, <1>5 DEF Frame, LeavePC
  <1>7. g.pc = "post" /\ g.class = f.class
    BY <1>3, <1>6 DEF Frame
  <1>8. Topped(t, g)
    BY <1>1, <1>6 DEF Wake, Topped, TopIs
  <1>9. FrameInv(g) /\ Onward(f, g) /\ g.pc # "checkEe"
    BY <1>1, <1>3, <1>7 DEF FrameInv, InitPC, LeavePC, WaitingPC, Onward, OwnPC, EnterPC, ClinitPC
  <1>10. waitSem' \in [Classes -> Nat]
    BY <1>2, <1>4 DEF TypeOK
  <1>. QED
    BY <1>1, <1>2, <1>4, <1>7, <1>8, <1>9, <1>10, QuietStep DEF Onward

LEMMA PostKeeps ==
  ASSUME ClassAssumption, ClassInv, NEW t \in Threads, Post(t)
  PROVE  ClassInv'
  <1>1. PICK n, f : TopIs(t, n, f) /\ f.pc = "post" /\ Class(t) = f.class
    BY TopAt DEF Post
  <1>2. stack[t] # <<>> /\ TypeOK /\ CallInv /\ WaitingInv
    BY TopAt DEF Post
  <1>3. f \in Frame /\ f.class \in Classes /\ FrameInv(f)
    BY <1>1 DEF TopIs, Frame
  <1>4. UNCHANGED <<status, nrWaiting, compilingEe, state, result>>
    BY DEF Post
  <1>5. f.left \in Nat /\ f.left > 0
    BY <1>1, <1>3 DEF Post, TopIs, Frame
  <1>a. PICK m \in Nat : m = f.left - 1
    BY <1>5
  <1>6. PICK g \in Frame : g = [f EXCEPT !.left = m]
    BY <1>3 DEF Frame
  <1>7. g.pc = "post" /\ g.class = f.class
    BY <1>1, <1>3, <1>6 DEF Frame
  <1>8. Topped(t, g)
    BY <1>1, <1>a, <1>6 DEF Post, Topped, TopIs
  <1>9. FrameInv(g) /\ Onward(f, g) /\ g.pc # "checkEe"
    BY <1>1, <1>3, <1>7 DEF FrameInv, InitPC, LeavePC, WaitingPC, Onward, OwnPC, EnterPC, ClinitPC
  <1>10. waitSem' \in [Classes -> Nat]
    BY <1>1, <1>2, <1>3 DEF Post, TypeOK
  <1>. QED
    BY <1>1, <1>2, <1>4, <1>7, <1>8, <1>9, <1>10, QuietStep DEF Onward

LEMMA LeftKeeps ==
  ASSUME ClassAssumption, ClassInv, NEW t \in Threads, Left(t)
  PROVE  ClassInv'
  <1>1. PICK n, f : TopIs(t, n, f) /\ f.pc = "post" /\ Class(t) = f.class
    BY TopAt DEF Left
  <1>2. stack[t] # <<>> /\ TypeOK /\ CallInv /\ WaitingInv
    BY TopAt DEF Left
  <1>3. f \in Frame /\ f.class \in Classes /\ FrameInv(f)
    BY <1>1 DEF TopIs, Frame
  <1>4. UNCHANGED <<status, nrWaiting, waitSem, compilingEe, state>>
    BY DEF Left, lock
  <1>5. CASE status[f.class] = "ok"
    <2>1. Return(t, "ok")
      BY <1>1, <1>5 DEF Left
    <2>2. state'[f.class] = "initialized"
      BY <1>2, <1>3, <1>4, <1>5 DEF CallInv, StatusInv
    <2>3. f.pc \notin InitPC \cup WaitingPC
      BY <1>1 DEF InitPC, WaitingPC
    <2>4. Touches(t, n, f)
      BY <1>2, <1>4, Untouched DEF CallInv
    <2>5. stack' \in [Threads -> Seq(Frame)] /\ CallInv' /\ WaitingInv'
      BY <1>1, <1>2, <1>4, <2>1, <2>2, <2>3, <2>4, ReturnStays
    <2>6. TypeOK'
      BY <1>2, <1>4, <2>1, <2>5, ResultTyped DEF TypeOK
    <2>. QED
      BY <2>5, <2>6 DEF ClassInv, CallInv
  <1>6. CASE status[f.class] # "ok"
    <2>1. Goto(t, "fail")
      BY <1>1, <1>6 DEF Left
    <2>2. PICK g \in Frame :
            /\ g.pc = "fail" /\ g.class = f.class
            /\ Topped(t, g)
      BY <1>1, <2>1, GotoOf DEF LeavePC
    <2>3. FrameInv(g) /\ Onward(f, g) /\ g.pc # "checkEe"
      BY <1>1, <1>3, <1>6, <2>2 DEF FrameInv, InitPC, LeavePC, WaitingPC, Onward, OwnPC, EnterPC, ClinitPC, Final
    <2>4. waitSem' \in [Classes -> Nat] /\ UNCHANGED result
      BY <1>2, <1>4, <2>1 DEF TypeOK, Goto
    <2>. QED
      BY <1>1, <1>2, <1>4, <2>2, <2>3, <2>4, QuietStep DEF Onward
  <1>. QED
    BY <1>5, <1>6

LEMMA FailKeeps ==
  ASSUME ClassAssumption, ClassInv, NEW t \in Threads, Fail(t)
  PROVE  ClassInv'
  <1>1. PICK n, f : TopIs(t, n, f) /\ f.pc = "fail" /\ Class(t) = f.class
    BY TopAt DEF Fail
  <1>2. stack[t] # <<>> /\ TypeOK /\ CallInv /\ WaitingInv
    BY TopAt DEF Fail
  <1>3. f \in Frame /\ f.class \in Classes /\ FrameInv(f)
    BY <1>1 DEF TopIs, Frame
  <1>4. UNCHANGED <<status, nrWaiting, waitSem, compilingEe>>
    BY DEF Fail, lock
  <1>5. state' = [state EXCEPT ![f.class] = "erroneous"] /\ Return(t, "error")
    BY <1>1 DEF Fail
  <1>6. status[f.class] = "erroneous" /\ state[f.class] = "initializing"
    BY <1>1, <1>3 DEF FrameInv
  <1>7. state'[f.class] = "erroneous" /\ \A d \in Classes \ {f.class} : state'[d] = state[d]
    BY <1>2, <1>3, <1>5 DEF TypeOK
  <1>8. Touches(t, n, f)
    BY <1>1, <1>2, <1>4, <1>6, <1>7 DEF Touches, Same, CallInv, StatusInv, TopIs, OwnPC
  <1>9. f.pc \notin InitPC \cup WaitingPC
    BY <1>1 DEF InitPC, WaitingPC
  <1>10. stack' \in [Threads -> Seq(Frame)] /\ CallInv' /\ WaitingInv'
    BY <1>1, <1>2, <1>4, <1>5, <1>8, <1>9, ReturnStays
  <1>11. TypeOK'
    <2>1. state' \in [Classes -> {"linked", "initializing", "initialized", "erroneous"}]
      BY <1>2, <1>3, <1>5 DEF TypeOK
    <2>. QED
      BY <1>2, <1>4, <1>5, <1>10, <2>1, ResultTyped DEF TypeOK
  <1>. QED
    BY <1>10, <1>11 DEF ClassInv, CallInv

-----------------------------------------------------------------------------
(* The actions: vm_class_ensure_init                                       *)

LEMMA RequestKeeps ==
  ASSUME ClassAssumption, ClassInv, NEW t \in Threads, NEW c \in Classes, Request(t, c)
  PROVE  ClassInv'
  <1>1. TypeOK /\ CallInv /\ WaitingInv
    BY DEF ClassInv, CallInv
  <1>2. UNCHANGED <<status, nrWaiting, waitSem, compilingEe, state, result>>
    BY DEF Request, lock
  <1>3. PICK h \in Frame : h = [class |-> c, pc |-> "enter", left |-> 0]
    BY DEF Frame, EnterPC
  <1>4. PICK r \in Seq(Frame) : r = <<h>> /\ Len(r) = 1 /\ r[1] = h
    <2>1. <<h>> \in Seq(Frame) /\ Len(<<h>>) = 1 /\ <<h>>[1] = h
      OBVIOUS
    <2>. QED
      BY <2>1
  <1>5. Outward(r)[1] = h
    BY <1>4 DEF Outward
  <1>6. stack' = [stack EXCEPT ![t] = r] /\ stack[t] = <<>>
    BY <1>3, <1>4 DEF Request
  <1>7. /\ OthersStay(t) /\ stack' \in [Threads -> Seq(Frame)]
        /\ Depth'[t] = 1 /\ Calls'[t][1] = h
    BY <1>1, <1>4, <1>5, <1>6, OthersAre DEF TypeOK
  <1>8. 0 = Depth[t]
    BY <1>6, CallsOf
  <1>9. h.pc = "enter"
    BY <1>3
  <1>10. Moves(t, 0, h, h)
    BY <1>7, <1>9 DEF Moves
  <1>11. Touches(t, 0, h)
    BY <1>1, <1>2, Untouched DEF CallInv
  <1>12. \A u \in Threads : Depth[u] \in Nat
    BY <1>1, DepthIsNat
  <1>13. PICK n \in Nat : n = 0
    OBVIOUS
  <1>14. n = Depth[t] /\ n \in 0 .. n /\ ~ n >= 1 /\ Moves(t, n, h, h) /\ Touches(t, n, h)
    BY <1>8, <1>10, <1>11, <1>13
  <1>15. ShapeInv'
    BY <1>1, <1>12, <1>14, ShapeKept DEF CallInv
  <1>16. OwnerInv'
    BY <1>1, <1>12, <1>14, OwnerKept DEF CallInv
  <1>17. HoldsInv'
    BY <1>1, <1>12, <1>14, HoldsInvKept DEF CallInv
  <1>18. StatusInv'
    BY <1>1, <1>2, <1>12, <1>14, StatusKept DEF CallInv
  <1>19. WaitingInv'
    <2>1. \A d : t \notin Waiting(d) /\ t \notin Waiting(d)'
      BY <1>7, <1>8, <1>9 DEF Waiting, WaitingPC
    <2>. QED
      BY <1>1, <1>2, <1>7, <2>1, WaitersStay
  <1>20. TypeOK'
    BY <1>1, <1>2, <1>7 DEF TypeOK
  <1>. QED
    BY <1>15, <1>16, <1>17, <1>18, <1>19, <1>20 DEF ClassInv

-----------------------------------------------------------------------------
(* The theorems                                                            *)

LEMMA InitKeeps == ClassAssumption /\ Init => ClassInv
  <1>. SUFFICES ASSUME ClassAssumption, Init PROVE ClassInv
    OBVIOUS
  <1>1. TypeOK
    <2>1. <<>> \in Seq(Frame)
      OBVIOUS
    <2>. QED
      BY <2>1 DEF Init, TypeOK, Results
  <1>2. \A t \in Threads : Depth[t] = 0
    BY CallsOf DEF Init
  <1>3. ShapeInv /\ OwnerInv /\ HoldsInv
    <2>1. \A t \in Threads : 1 .. Depth[t] = {}
      BY <1>2
    <2>. QED
      BY <2>1 DEF ShapeInv, OwnerInv, HoldsInv
  <1>4. StatusInv
    BY DEF Init, StatusInv
  <1>5. WaitingInv
    <2>1. \A c : Waiting(c) = {}
      BY <1>2 DEF Waiting
    <2>. QED
      BY <2>1, FS_EmptySet DEF WaitingInv, Init
  <1>. QED
    BY <1>1, <1>3, <1>4, <1>5 DEF ClassInv

LEMMA StutterKeeps == ClassInv /\ UNCHANGED vars => ClassInv'
  <1>. SUFFICES ASSUME ClassInv, UNCHANGED vars PROVE ClassInv'
    OBVIOUS
  <1>1. UNCHANGED <<status, nrWaiting, waitSem, compilingEe, state, stack, result>>
    BY DEF vars, lock
  <1>2. Depth' = Depth /\ Calls' = Calls
    BY <1>1 DEF Depth, Calls
  <1>3. TypeOK'
    BY <1>1 DEF ClassInv, TypeOK
  <1>4. ShapeInv'
    BY <1>1, <1>2 DEF ClassInv, ShapeInv, FrameInv
  <1>5. OwnerInv'
    BY <1>2 DEF ClassInv, OwnerInv
  <1>6. HoldsInv'
    BY <1>1, <1>2 DEF ClassInv, HoldsInv, Holds
  <1>7. StatusInv'
    BY <1>1, <1>2 DEF ClassInv, StatusInv
  <1>8. WaitingInv'
    BY <1>1, <1>2 DEF ClassInv, WaitingInv, Waiting
  <1>. QED
    BY <1>3, <1>4, <1>5, <1>6, <1>7, <1>8 DEF ClassInv

LEMMA NextKeeps == ClassAssumption /\ ClassInv /\ Next => ClassInv'
  <1>. SUFFICES ASSUME ClassAssumption, ClassInv, Next PROVE ClassInv'
    OBVIOUS
  <1>1. PICK t \in Threads :
          \/ Step(t) \/ ClinitCall(t) \/ ClinitEnd(t) \/ \E c \in Classes : Request(t, c)
    BY DEF Next
  <1>2. ASSUME Step(t) PROVE ClassInv'
    BY <1>2, EnterKeeps, CasStatusKeeps, SetEeKeeps, IncWaitingKeeps, LoopKeeps,
       CheckEeKeeps, SemWaitKeeps, DecWaitingKeeps, BeginKeeps, FinishKeeps, LeaveKeeps,
       WakeKeeps, PostKeeps, LeftKeeps, FailKeeps DEF Step
  <1>. QED
    BY <1>1, <1>2, ClinitCallKeeps, ClinitEndKeeps, RequestKeeps

\* The inductive invariant of class initialisation.
THEOREM InitialisationInvariant == Spec => []ClassInv
  <1>1. Init => ClassInv
    BY InitKeeps, ClassAssumption
  <1>2. ClassInv /\ [Next]_vars => ClassInv'
    BY NextKeeps, StutterKeeps, ClassAssumption
  <1>. QED
    BY <1>1, <1>2, PTL DEF Spec

\* Every variable keeps its type; above all, vm_class_init wakes up a number of
\* waiters that is never negative.
THEOREM InitialisationTypes == Spec => []TypeOK
  <1>1. ClassInv => TypeOK
    BY DEF ClassInv
  <1>. QED
    BY <1>1, InitialisationInvariant, PTL

\* The call at place i of the stack is the one at place Depth + 1 - i of Calls.
LEMMA CallAt ==
  ASSUME TypeOK, NEW t \in Threads, NEW i \in DOMAIN stack[t]
  PROVE  /\ Depth[t] \in Nat /\ i \in 1 .. Depth[t] /\ Depth[t] + 1 - i \in 1 .. Depth[t]
         /\ Calls[t][Depth[t] + 1 - i] = stack[t][i]
  <1>1. PICK s \in Seq(Frame) : s = stack[t]
    BY DEF TypeOK
  <1>2. PICK n \in Nat : n = Len(s) /\ DOMAIN s = 1 .. n
    BY LenProperties
  <1>3. Depth[t] = n /\ Calls[t] = Outward(s)
    BY <1>1, <1>2, CallsOf
  <1>4. i \in 1 .. n /\ n + 1 - i \in 1 .. n /\ n + 1 - (n + 1 - i) = i
    BY <1>1, <1>2
  <1>5. Outward(s) = [k \in 1 .. n |-> s[n + 1 - k]]
    BY <1>2 DEF Outward
  <1>6. Outward(s)[n + 1 - i] = s[i]
    BY <1>4, <1>5
  <1>. QED
    BY <1>1, <1>3, <1>4, <1>6

\* Holds, in terms of the stack
LEMMA HoldsInitialises ==
  ASSUME TypeOK, NEW t \in Threads, NEW k \in 0 .. Depth[t], NEW c, Holds(t, k, c)
  PROVE  Initialises(t, c)
  <1>1. PICK s \in Seq(Frame) : s = stack[t]
    BY DEF TypeOK
  <1>2. PICK n \in Nat : n = Len(s) /\ DOMAIN s = 1 .. n
    BY LenProperties
  <1>3. Depth[t] = n /\ Calls[t] = Outward(s)
    BY <1>1, <1>2, CallsOf
  <1>4. PICK j \in 1 .. n : Calls[t][j].class = c /\ Calls[t][j].pc \notin EnterPC
    <2>1. k \in 0 .. n
      BY <1>3
    <2>2. 1 .. k \subseteq 1 .. n
      BY <2>1
    <2>. QED
      BY <2>2 DEF Holds
  <1>5. Outward(s) = [i \in 1 .. n |-> s[n + 1 - i]]
    BY <1>2 DEF Outward
  <1>6. n + 1 - j \in 1 .. n /\ Calls[t][j] = s[n + 1 - j]
    BY <1>3, <1>5
  <1>. QED
    BY <1>1, <1>2, <1>4, <1>6 DEF Initialises, Initialising

LEMMA PastEnter ==
  ASSUME TypeOK, NEW t \in Threads, NEW i \in Initialising(t)
  PROVE  i \in DOMAIN stack[t] /\ stack[t][i].pc \in OwnPC
  <1>1. i \in DOMAIN stack[t] /\ stack[t][i].pc \notin EnterPC
    BY DEF Initialising
  <1>2. stack[t][i] \in Frame
    BY <1>1, LenProperties, ElementOfSeq DEF TypeOK
  <1>. QED
    BY <1>1, <1>2 DEF Frame, OwnPC

\* One thread at a time initialises a class: cmpxchg lets one caller of
\* compile_lock_enter through, and the status never goes back.
THEOREM OneThreadInitialises == Spec => []OneInitialiser
  <1>1. ClassInv => OneInitialiser
    <2>1. SUFFICES ASSUME ClassInv, NEW t \in Threads, NEW u \in Threads,
                          NEW i \in Initialising(t), NEW j \in Initialising(u),
                          stack[t][i].class = stack[u][j].class
                   PROVE  t = u /\ i = j
      BY DEF OneInitialiser
    <2>2. TypeOK /\ OwnerInv
      BY <2>1 DEF ClassInv
    <2>3. /\ i \in DOMAIN stack[t] /\ stack[t][i].pc \in OwnPC
          /\ j \in DOMAIN stack[u] /\ stack[u][j].pc \in OwnPC
      BY <2>1, <2>2, PastEnter
    <2>4. /\ Depth[t] \in Nat /\ i \in 1 .. Depth[t] /\ Depth[t] + 1 - i \in 1 .. Depth[t]
          /\ Calls[t][Depth[t] + 1 - i] = stack[t][i]
      BY <2>2, <2>3, CallAt
    <2>5. /\ Depth[u] \in Nat /\ j \in 1 .. Depth[u] /\ Depth[u] + 1 - j \in 1 .. Depth[u]
          /\ Calls[u][Depth[u] + 1 - j] = stack[u][j]
      BY <2>2, <2>3, CallAt
    <2>6. t = u /\ Depth[t] + 1 - i = Depth[u] + 1 - j
      BY <2>1, <2>2, <2>3, <2>4, <2>5 DEF OwnerInv
    <2>. QED
      BY <2>4, <2>5, <2>6
  <1>. QED
    BY <1>1, InitialisationInvariant, PTL

\* While <clinit> of a class runs, its superclass is initialised, or is being
\* initialised by the same thread further out on its stack.
THEOREM SuperclassFirst == Spec => []SuperFirst
  <1>1. ClassInv => SuperFirst
    <2>1. SUFFICES ASSUME ClassInv, NEW t \in Threads, NEW i \in DOMAIN stack[t],
                          NEW f, f = stack[t][i], f.pc \in ClinitPC, Super[f.class] # NULL
                   PROVE  Usable(t, Super[f.class])
      BY DEF SuperFirst, ClinitPC
    <2>2. TypeOK /\ HoldsInv
      BY <2>1 DEF ClassInv
    <2>3. PICK k \in 1 .. Depth[t] : Calls[t][k] = f /\ k \in 0 .. Depth[t]
      <3>1. /\ Depth[t] \in Nat /\ Depth[t] + 1 - i \in 1 .. Depth[t]
            /\ Calls[t][Depth[t] + 1 - i] = f
        BY <2>1, <2>2, CallAt
      <3>. QED
        BY <3>1
    <2>4. state[Super[f.class]] = "initialized" \/ Holds(t, k, Super[f.class])
      BY <2>1, <2>2, <2>3 DEF HoldsInv
    <2>. QED
      BY <2>2, <2>3, <2>4, HoldsInitialises DEF Usable
  <1>. QED
    BY <1>1, InitialisationInvariant, PTL

-----------------------------------------------------------------------------
(* vm_class_init returns                                                   *)

LEMMA SameLength ==
  ASSUME NEW s \in Seq(Frame), s # <<>>, NEW x, NEW y
  PROVE  /\ ~ Len(<<x>> \o Tail(s)) < Len(s)
         /\ ~ Len(<<y, x>> \o Tail(s)) < Len(s)
  <1>1. PICK S : S = Frame \cup {x, y}
    OBVIOUS
  <1>2. PICK q \in Seq(Frame) : q = Tail(s) /\ Len(q) = Len(s) - 1
    BY OutwardTail
  <1>3. PICK n \in Nat : n = Len(s)
    BY LenProperties
  <1>4. q \in Seq(S)
    BY <1>1, SeqMonotonic
  <1>5. PICK a \in Seq(S), b \in Seq(S) : a = <<x>> /\ Len(a) = 1 /\ b = <<y, x>> /\ Len(b) = 2
    <2>1. <<x>> \in Seq(S) /\ Len(<<x>>) = 1
      BY <1>1
    <2>2. <<y, x>> \in Seq(S) /\ Len(<<y, x>>) = 2
      BY <1>1
    <2>. QED
      BY <2>1, <2>2
  <1>6. Len(a \o q) = 1 + Len(q) /\ Len(b \o q) = 2 + Len(q)
    BY <1>4, <1>5, ConcatProperties
  <1>7. ~ Len(a \o q) < n /\ ~ Len(b \o q) < n
    <2>1. Len(q) = n - 1
      BY <1>2, <1>3
    <2>. QED
      BY <1>6, <2>1
  <1>. QED
    BY <1>2, <1>3, <1>5, <1>7

\* A step within vm_class_init is not a return from it.
LEMMA NoReturn ==
  ASSUME TypeOK, NEW t \in Threads, stack[t] # <<>>, NEW x, NEW y,
         \/ stack' = [stack EXCEPT ![t] = <<x>> \o Tail(@)]
         \/ stack' = [stack EXCEPT ![t] = <<y, x>> \o Tail(@)]
  PROVE  ~ Len(stack'[t]) < Len(stack[t])
  <1>1. PICK s \in Seq(Frame) : s = stack[t]
    BY DEF TypeOK
  <1>2. stack'[t] = <<x>> \o Tail(s) \/ stack'[t] = <<y, x>> \o Tail(s)
    BY <1>1 DEF TypeOK
  <1>. QED
    BY <1>1, <1>2, SameLength

LEMMA GotoIsNoReturn ==
  ASSUME TypeOK, NEW t \in Threads, stack[t] # <<>>, NEW label,
         Goto(t, label) \/ \E c : Call(t, label, c)
  PROVE  ~ Len(stack'[t]) < Len(stack[t])
  <1>1. CASE Goto(t, label)
    <2>1. PICK x : x = [Head(stack[t]) EXCEPT !.pc = label]
      OBVIOUS
    <2>2. stack' = [stack EXCEPT ![t] = <<x>> \o Tail(@)]
      BY <1>1, <2>1 DEF Goto
    <2>. QED
      BY <2>2, NoReturn
  <1>2. ASSUME NEW c, Call(t, label, c) PROVE ~ Len(stack'[t]) < Len(stack[t])
    <2>1. PICK x : x = [Head(stack[t]) EXCEPT !.pc = label]
      OBVIOUS
    <2>2. PICK y : y = [class |-> c, pc |-> "enter", left |-> 0]
      OBVIOUS
    <2>3. stack' = [stack EXCEPT ![t] = <<y, x>> \o Tail(@)]
      BY <1>2, <2>1, <2>2 DEF Call
    <2>. QED
      BY <2>3, NoReturn
  <1>. QED
    BY <1>1, <1>2

\* What the last property says of thread t
ReturnsWell(t) ==
  Len(stack'[t]) < Len(stack[t]) =>
    IF result'[t] = "error" THEN status[Class(t)] = "erroneous" ELSE Usable(t, Class(t))

LEMMA ReturnGives ==
  ASSUME TypeOK, NEW t \in Threads, NEW value, Return(t, value)
  PROVE  result'[t] = value
  BY DEF Return, TypeOK

\* A return with the status of a lock that has been left
LEMMA FinalReturn ==
  ASSUME ClassInv, NEW t \in Threads, stack[t] # <<>>, status[Class(t)] \in Final, Entered(t)
  PROVE  ReturnsWell(t)
  <1>1. TypeOK /\ StatusInv
    BY DEF ClassInv
  <1>2. Class(t) \in Classes
    <2>1. PICK n, f : TopIs(t, n, f)
      BY <1>1, TopCall DEF ClassInv
    <2>. QED
      BY <2>1 DEF TopIs, Class, Frame
  <1>3. result'[t] = IF status[Class(t)] = "ok" THEN "ok" ELSE "error"
    BY <1>1, ReturnGives DEF Entered
  <1>4. status[Class(t)] = "ok" => Usable(t, Class(t))
    BY <1>1, <1>2 DEF StatusInv, Usable
  <1>. QED
    BY <1>3, <1>4 DEF ReturnsWell, Final

LEMMA InnerSteps ==
  ASSUME ClassInv, NEW t \in Threads,
         \/ CasStatus(t) \/ SetEe(t) \/ IncWaiting(t) \/ Loop(t) \/ SemWait(t) \/ Begin(t)
         \/ ClinitCall(t) \/ ClinitEnd(t) \/ Finish(t) \/ Leave(t)
  PROVE  ReturnsWell(t)
  <1>1. TypeOK /\ stack[t] # <<>>
    BY DEF ClassInv, At, CasStatus, SetEe, IncWaiting, Loop, SemWait, Begin, ClinitCall,
           ClinitEnd, Finish, Leave
  <1>2. \E label : Goto(t, label) \/ \E c : Call(t, label, c)
    BY Zenon DEF CasStatus, SetEe, IncWaiting, Loop, SemWait, Begin, ClinitCall, ClinitEnd, Finish,
           Leave
  <1>. QED
    BY <1>1, <1>2, GotoIsNoReturn DEF ReturnsWell

LEMMA WakeReturns ==
  ASSUME ClassInv, NEW t \in Threads, Wake(t) \/ Post(t)
  PROVE  ReturnsWell(t)
  <1>1. TypeOK /\ stack[t] # <<>>
    BY DEF ClassInv, At, Wake, Post
  <1>2. PICK x : stack' = [stack EXCEPT ![t] = <<x>> \o Tail(@)]
    BY DEF Wake, Post
  <1>. QED
    BY <1>1, <1>2, NoReturn DEF ReturnsWell

LEMMA EnterReturns ==
  ASSUME ClassInv, NEW t \in Threads, Enter(t)
  PROVE  ReturnsWell(t)
  <1>1. TypeOK /\ stack[t] # <<>>
    BY DEF ClassInv, At, Enter
  <1>2. CASE status[Class(t)] \in Final
    BY <1>1, <1>2, FinalReturn DEF Enter
  <1>3. CASE status[Class(t)] \notin Final
    BY <1>1, <1>3, GotoIsNoReturn DEF Enter, ReturnsWell
  <1>. QED
    BY <1>2, <1>3

LEMMA DecWaitingReturns ==
  ASSUME ClassInv, NEW t \in Threads, DecWaiting(t)
  PROVE  ReturnsWell(t)
  <1>1. stack[t] # <<>> /\ TypeOK /\ CallInv
    BY TopAt DEF DecWaiting
  <1>2. PICK n, f : TopIs(t, n, f) /\ f.pc = "decWaiting" /\ Class(t) = f.class
    BY TopAt DEF DecWaiting
  <1>3. f \in Frame /\ f.class \in Classes /\ FrameInv(f)
    BY <1>2 DEF TopIs, Frame
  <1>4. status[Class(t)] \in Final
    BY <1>2, <1>3 DEF FrameInv
  <1>. QED
    BY <1>1, <1>4, FinalReturn DEF DecWaiting

LEMMA CheckEeReturns ==
  ASSUME ClassInv, NEW t \in Threads, CheckEe(t)
  PROVE  ReturnsWell(t)
  <1>1. stack[t] # <<>> /\ TypeOK /\ CallInv
    BY TopAt DEF CheckEe
  <1>2. PICK n, f : TopIs(t, n, f) /\ f.pc = "checkEe" /\ Class(t) = f.class
    BY TopAt DEF CheckEe
  <1>3. f \in Frame /\ f.class \in Classes /\ FrameInv(f)
    BY <1>2 DEF TopIs, Frame
  <1>4. CASE compilingEe[f.class] = t
    <2>1. result'[t] = "ok"
      BY <1>1, <1>2, <1>4, ReturnGives DEF CheckEe
    <2>2. Holds(t, n - 1, f.class)
      BY <1>1, <1>2, <1>4, OuterHolds
    <2>3. n - 1 \in 0 .. Depth[t]
      BY <1>2 DEF TopIs
    <2>4. Initialises(t, f.class)
      BY <1>1, <2>2, <2>3, HoldsInitialises
    <2>. QED
      BY <1>2, <2>1, <2>4 DEF ReturnsWell, Usable
  <1>5. CASE compilingEe[f.class] # t
    BY <1>1, <1>2, <1>5, GotoIsNoReturn DEF CheckEe, ReturnsWell
  <1>. QED
    BY <1>4, <1>5

LEMMA LeftReturns ==
  ASSUME ClassInv, NEW t \in Threads, Left(t)
  PROVE  ReturnsWell(t)
  <1>1. stack[t] # <<>> /\ TypeOK /\ CallInv
    BY TopAt DEF Left
  <1>2. PICK n, f : TopIs(t, n, f) /\ f.pc = "post" /\ Class(t) = f.class
    BY TopAt DEF Left
  <1>3. f \in Frame /\ f.class \in Classes /\ FrameInv(f)
    BY <1>2 DEF TopIs, Frame
  <1>4. CASE status[f.class] = "ok"
    <2>1. result'[t] = "ok"
      BY <1>1, <1>2, <1>4, ReturnGives DEF Left
    <2>2. state[f.class] = "initialized"
      BY <1>1, <1>3, <1>4 DEF CallInv, StatusInv
    <2>. QED
      BY <1>2, <2>1, <2>2 DEF ReturnsWell, Usable
  <1>5. CASE status[f.class] # "ok"
    BY <1>1, <1>2, <1>5, GotoIsNoReturn DEF Left, ReturnsWell
  <1>. QED
    BY <1>4, <1>5

LEMMA FailReturns ==
  ASSUME ClassInv, NEW t \in Threads, Fail(t)
  PROVE  ReturnsWell(t)
  <1>1. stack[t] # <<>> /\ TypeOK /\ CallInv
    BY TopAt DEF Fail
  <1>2. PICK n, f : TopIs(t, n, f) /\ f.pc = "fail" /\ Class(t) = f.class
    BY TopAt DEF Fail
  <1>3. f \in Frame /\ f.class \in Classes /\ FrameInv(f)
    BY <1>2 DEF TopIs, Frame
  <1>4. result'[t] = "error" /\ status[f.class] = "erroneous"
    BY <1>1, <1>2, <1>3, ReturnGives DEF Fail, FrameInv
  <1>. QED
    BY <1>2, <1>4 DEF ReturnsWell

LEMMA RequestReturns ==
  ASSUME ClassInv, NEW t \in Threads, NEW c \in Classes, Request(t, c)
  PROVE  ReturnsWell(t)
  <1>1. stack \in [Threads -> Seq(Frame)] /\ stack[t] = <<>>
    BY DEF ClassInv, TypeOK, Request
  <1>2. PICK h : stack' = [stack EXCEPT ![t] = <<h>>]
    BY DEF Request
  <1>3. stack'[t] = <<h>> /\ Len(<<h>>) = 1 /\ Len(<<>>) = 0
    BY <1>1, <1>2
  <1>. QED
    BY <1>1, <1>3 DEF ReturnsWell

\* A thread changes its own stack only.
LEMMA OthersReturn ==
  ASSUME TypeOK, NEW t \in Threads, NEW u \in Threads, u # t,
         \/ Step(t) \/ ClinitCall(t) \/ ClinitEnd(t) \/ \E c \in Classes : Request(t, c)
  PROVE  ReturnsWell(u)
  <1>1. \E s : stack' = [stack EXCEPT ![t] = s]
    <2>1. ASSUME NEW label, Goto(t, label) PROVE \E s : stack' = [stack EXCEPT ![t] = s]
      BY <2>1 DEF Goto
    <2>2. ASSUME NEW label, NEW c, Call(t, label, c) PROVE \E s : stack' = [stack EXCEPT ![t] = s]
      BY <2>2 DEF Call
    <2>3. ASSUME NEW value, Return(t, value) PROVE \E s : stack' = [stack EXCEPT ![t] = s]
      BY <2>3 DEF Return
    <2>4. ASSUME Wake(t) \/ Post(t) \/ \E c \in Classes : Request(t, c)
          PROVE  \E s : stack' = [stack EXCEPT ![t] = s]
      BY <2>4 DEF Wake, Post, Request
    <2>5. \/ (\E label : Goto(t, label)) \/ (\E label, c : Call(t, label, c))
          \/ (\E value : Return(t, value))
          \/ Wake(t) \/ Post(t) \/ \E c \in Classes : Request(t, c)
      BY Zenon DEF Step, Enter, Entered, CasStatus, SetEe, IncWaiting, Loop, CheckEe, SemWait,
             DecWaiting, Begin, ClinitCall, ClinitEnd, Finish, Leave, Left, Fail
    <2>. QED
      BY <2>1, <2>2, <2>3, <2>4, <2>5
  <1>2. stack'[u] = stack[u]
    BY <1>1 DEF TypeOK
  <1>3. PICK n \in Nat : n = Len(stack[u])
    BY LenProperties DEF TypeOK
  <1>. QED
    BY <1>2, <1>3 DEF ReturnsWell

\* vm_class_init returns 0 only to a thread that may use the class: it is
\* initialised, or the thread itself initialises it; and it fails only if the
\* initialisation has failed.
THEOREM ReturnsAreRight == Spec => UsableOnReturn
  <1>1. ClassInv /\ [Next]_vars => [\A t \in Threads :
           Len(stack'[t]) < Len(stack[t]) =>
             IF result'[t] = "error" THEN status[Class(t)] = "erroneous"
                                     ELSE Usable(t, Class(t))]_vars
    <2>. SUFFICES ASSUME ClassInv, Next, NEW u \in Threads PROVE ReturnsWell(u)
      BY DEF ReturnsWell
    <2>1. PICK t \in Threads :
            \/ Step(t) \/ ClinitCall(t) \/ ClinitEnd(t) \/ \E c \in Classes : Request(t, c)
      BY DEF Next
    <2>2. ReturnsWell(t)
      BY <2>1, InnerSteps, WakeReturns, EnterReturns, DecWaitingReturns, CheckEeReturns,
         LeftReturns, FailReturns, RequestReturns DEF Step
    <2>3. TypeOK
      BY DEF ClassInv
    <2>4. u # t => ReturnsWell(u)
      BY <2>1, <2>3, OthersReturn
    <2>. QED
      BY <2>2, <2>4
  <1>. QED
    BY <1>1, InitialisationInvariant, PTL DEF Spec, UsableOnReturn

=============================================================================
