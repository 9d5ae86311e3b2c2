------------------------- MODULE ClassLoaderProofs -------------------------
(***************************************************************************)
(* TLAPS proofs about the table of classes, for any number of threads,     *)
(* classes and entries and for calls of any depth: an entry that a thread  *)
(* loads or waits on is not freed, one that was not found does not stay in *)
(* the table and, when no class is loaded in order to load itself, a name  *)
(* gets one class.                                                         *)
(***************************************************************************)
EXTENDS ClassLoader, FiniteSetTheorems, SequenceTheorems, TLAPS

\* The calls of a thread by their depth, the outermost call first: the depth of
\* a call does not change while it lasts.
Calls(t) == Len(stack[t])
FrameAt(s, d) == s[Len(s) + 1 - d]
CallAt(t, d) == FrameAt(stack[t], d)

LoadPCs == {"body", "bodyCall", "finish", "failed"}
CallPCs == {"beforeCall", "bodyCall", "javaCall"}
LookupPCs == {"beforeCall", "find", "waiting"}

\* A call that loads a class into its entry, and one that waits for that
Loads(f) == f.pc \in LoadPCs /\ f.name \notin JavaNames
Waits(f) == f.pc = "waiting"

\* A call has an entry exactly while it loads or waits; what a Java class loader
\* loads is looked up by queries only.
CallOK(f) ==
  /\ f.entry # NULL <=> Loads(f) \/ Waits(f)
  /\ f.pc = "javaCall" => f.name \in JavaNames
  /\ f.fn = "load" /\ f.pc \in LookupPCs => f.name \notin JavaNames

\* The entry of a call is allocated, is in the table at most under the name of
\* the call, and is `loading' while the call loads.
EntryIn(f, cs, es, fr) ==
  f.entry # NULL =>
    /\ f.entry \notin fr
    /\ \A n \in Names : cs[n] = f.entry => n = f.name
    /\ Loads(f) => es[f.entry].status = "loading"

CallsInv ==
  \A t \in Threads : \A d \in 1 .. Calls(t) :
    /\ CallOK(CallAt(t, d)) /\ EntryIn(CallAt(t, d), classes, entry, free)
    /\ d < Calls(t) => CallAt(t, d).pc \in CallPCs

\* No two calls load into one entry.
OwnInv ==
  \A t, u \in Threads : \A d \in 1 .. Calls(t), b \in 1 .. Calls(u) :
    /\ Loads(CallAt(t, d)) /\ Loads(CallAt(u, b))
    /\ CallAt(t, d).entry = CallAt(u, b).entry
    => t = u /\ d = b

\* The table refers to allocated entries, one per name.
TableIn(cs, fr) ==
  /\ \A n \in Names : cs[n] \notin fr
  /\ \A m, n \in Names : cs[m] = cs[n] /\ cs[m] # NULL => m = n

TransientIn(cs, es) ==
  \A n \in Names :
    cs[n] # NULL /\ es[cs[n]].status = "notFound" => es[cs[n]].nrWaiting > 0

CountInv == \A e \in Entries \ free : entry[e].nrWaiting = Cardinality(Waiters(e))

LoaderInv ==
  /\ TypeOK /\ CallsInv /\ OwnInv /\ CountInv
  /\ TableIn(classes, free) /\ TransientIn(classes, entry)

-----------------------------------------------------------------------------
(* One class per name                                                      *)

\* To load a class, only classes of a smaller rank are loaded.
Decreases(rank) ==
  \A n \in Names :
    /\ Before[n] # NULL => rank[Before[n]] < rank[n]
    /\ During[n] # NULL => rank[During[n]] < rank[n]

\* Loading a class never needs the class itself.
Acyclic == \E rank \in [Names -> Nat] : Decreases(rank)

\* Inner calls load classes of smaller rank; a query asks for the class that
\* the Java class loader under it is loading.
NestingInv(rank) ==
  \A t \in Threads :
    /\ \A d, b \in 1 .. Calls(t) :
         /\ d < b /\ CallAt(t, b).fn = "load" =>
              rank[CallAt(t, b).name] < rank[CallAt(t, d).name]
         /\ b = d + 1 /\ CallAt(t, d).pc = "javaCall" =>
              CallAt(t, b).fn = "query" /\ CallAt(t, b).name = CallAt(t, d).name
    /\ \A d \in 1 .. Calls(t) :
         /\ CallAt(t, d).fn = "query" => CallAt(t, d).pc \in {"find", "waiting"}
         /\ CallAt(t, d).pc = "javaCall" => d < Calls(t)

\* The class of a name, once it is defined, is in the table.
DefinedInv ==
  \A n \in Names :
    /\ defined[n] \in {0, 1}
    /\ defined[n] = 1 =>
         /\ classes[n] # NULL /\ Status(classes[n]) = "loaded"
         /\ entry[classes[n]].class # NULL
    /\ n \in JavaNames /\ classes[n] # NULL => Status(classes[n]) = "loaded"

\* A call that loads or waits does so with the entry of the table, only native
\* loading is waited for, and what a call loads is not defined.
BodyPCs == {"body", "bodyCall", "finish"}
HasItsEntry(f) == f.entry # NULL => classes[f.name] = f.entry
NotDefinedYet(f) == f.pc \in BodyPCs => defined[f.name] = 0

TogetherInv ==
  \A t \in Threads : \A d \in 1 .. Calls(t) :
    /\ HasItsEntry(CallAt(t, d)) /\ NotDefinedYet(CallAt(t, d))
    /\ Waits(CallAt(t, d)) => CallAt(t, d).name \notin JavaNames

\* An entry that is `loading' has a call of its loading thread that loads it.
LoadsInto(t, e) == \E d \in 1 .. Calls(t) : Loads(CallAt(t, d)) /\ CallAt(t, d).entry = e
LoadingInv ==
  \A n \in Names : classes[n] # NULL /\ Status(classes[n]) = "loading" =>
    \E t \in Threads : t = entry[classes[n]].loadingThread /\ LoadsInto(t, classes[n])

\* One thread at a time is inside the Java class loader.
InLoader(f) == f.fn = "load" /\ f.name \in JavaNames /\ f.pc # "start"
MonitorInv ==
  \A t, u \in Threads : \A d \in 1 .. Calls(t), b \in 1 .. Calls(u) :
    InLoader(CallAt(t, d)) /\ InLoader(CallAt(u, b)) => t = u

OnceInv(rank) ==
  /\ LoaderInv /\ NestingInv(rank) /\ DefinedInv /\ TogetherInv /\ LoadingInv /\ MonitorInv

-----------------------------------------------------------------------------
(* Stacks of calls                                                         *)

\* The sequence s of n frames; r has the frames of s up to depth k.
IsFrames(s, n) == s \in Seq(Frame) /\ n \in Nat /\ n = Len(s)
SameTo(s, r, k) == \A d \in 1 .. k : FrameAt(r, d) = FrameAt(s, d)

LEMMA Consed ==
  ASSUME NEW s \in Seq(Frame), NEW f \in Frame
  PROVE  /\ <<f>> \o s \in Seq(Frame) /\ Len(<<f>> \o s) = Len(s) + 1
         /\ (<<f>> \o s)[1] = f /\ \A i \in 1 .. Len(s) : (<<f>> \o s)[i + 1] = s[i]
  <1>1. <<f>> \in Seq(Frame) /\ Len(<<f>>) = 1 /\ <<f>>[1] = f
    OBVIOUS
  <1>2. Len(s) \in Nat
    BY LenProperties
  <1>3. /\ <<f>> \o s \in Seq(Frame) /\ Len(<<f>> \o s) = 1 + Len(s)
        /\ \A i \in 1 .. 1 + Len(s) : (<<f>> \o s)[i] = IF i <= 1 THEN <<f>>[i] ELSE s[i - 1]
    BY <1>1, ConcatProperties
  <1>4. ASSUME NEW i \in 1 .. Len(s) PROVE (<<f>> \o s)[i + 1] = s[i]
    <2>1. i + 1 \in 1 .. 1 + Len(s) /\ ~(i + 1 <= 1) /\ i + 1 - 1 = i
      BY <1>2
    <2>. QED
      BY <1>3, <2>1
  <1>5. 1 \in 1 .. 1 + Len(s)
    BY <1>2
  <1>. QED
    BY <1>1, <1>2, <1>3, <1>4, <1>5

LEMMA Tailed ==
  ASSUME NEW s \in Seq(Frame), NEW n \in Nat, n = Len(s), n >= 1
  PROVE  /\ Tail(s) \in Seq(Frame) /\ Len(Tail(s)) = n - 1
         /\ \A i \in 1 .. n - 1 : Tail(s)[i] = s[i + 1]
         /\ Head(s) = FrameAt(s, n) /\ Head(s) \in Frame /\ FrameAt(s, n) \in Frame
  <1>1. s # <<>>
    OBVIOUS
  <1>2. /\ Tail(s) \in Seq(Frame) /\ Len(Tail(s)) = n - 1
        /\ \A i \in 1 .. n - 1 : Tail(s)[i] = s[i + 1]
    BY <1>1, HeadTailProperties
  <1>3. Head(s) = s[1] /\ s[1] \in Frame
    BY <1>1, ElementOfSeq
  <1>4. n + 1 - n = 1
    OBVIOUS
  <1>. QED
    BY <1>2, <1>3, <1>4 DEF FrameAt

On(f, q) == <<f>> \o q
On2(h, f, q) == <<h, f>> \o q

\* A frame on top of the frames of q
LEMMA PutOn ==
  ASSUME NEW q, NEW k \in Nat, NEW n, n = k + 1, IsFrames(q, k), NEW f \in Frame,
         NEW r, r = On(f, q)
  PROVE  IsFrames(r, n) /\ FrameAt(r, n) = f /\ SameTo(q, r, k)
  <1>0. q \in Seq(Frame) /\ k \in Nat /\ k = Len(q)
    BY DEF IsFrames
  <1>1. /\ r \in Seq(Frame) /\ Len(r) = k + 1 /\ r[1] = f
        /\ \A i \in 1 .. k : r[i + 1] = q[i]
    BY <1>0, Consed DEF On
  <1>2. FrameAt(r, k + 1) = f
    <2>1. k + 1 + 1 - (k + 1) = 1
      BY <1>0
    <2>. QED
      BY <1>1, <2>1 DEF FrameAt
  <1>3. ASSUME NEW d \in 1 .. k PROVE FrameAt(r, d) = FrameAt(q, d)
    <2>1. PICK i \in 1 .. k : i = k + 1 - d /\ k + 1 + 1 - d = i + 1
      <3>1. k + 1 - d \in 1 .. k /\ k + 1 + 1 - d = k + 1 - d + 1
        BY <1>0
      <3>. QED
        BY <3>1
    <2>2. FrameAt(r, d) = r[i + 1]
      BY <1>1, <2>1 DEF FrameAt
    <2>3. FrameAt(q, d) = q[i]
      BY <1>0, <2>1 DEF FrameAt
    <2>. QED
      BY <1>1, <2>2, <2>3
  <1>. QED
    BY <1>0, <1>1, <1>2, <1>3 DEF IsFrames, SameTo

\* The frames under the innermost one
LEMMA TailSame ==
  ASSUME NEW s, NEW k \in Nat, NEW n, n = k + 1, IsFrames(s, n)
  PROVE  IsFrames(Tail(s), k) /\ SameTo(s, Tail(s), k)
  <1>0. s \in Seq(Frame) /\ k + 1 \in Nat /\ k + 1 = Len(s) /\ k + 1 >= 1 /\ k + 1 - 1 = k
    BY DEF IsFrames
  <1>1. /\ Tail(s) \in Seq(Frame) /\ Len(Tail(s)) = k
        /\ \A i \in 1 .. k : Tail(s)[i] = s[i + 1]
    BY <1>0, Tailed
  <1>2. ASSUME NEW d \in 1 .. k PROVE FrameAt(Tail(s), d) = FrameAt(s, d)
    <2>1. PICK i \in 1 .. k : i = k + 1 - d /\ k + 1 + 1 - d = i + 1
      <3>1. k + 1 - d \in 1 .. k /\ k + 1 + 1 - d = k + 1 - d + 1
        OBVIOUS
      <3>. QED
        BY <3>1
    <2>2. FrameAt(Tail(s), d) = Tail(s)[i]
      BY <1>1, <2>1 DEF FrameAt
    <2>3. FrameAt(s, d) = s[i + 1]
      BY <1>0, <2>1 DEF FrameAt
    <2>. QED
      BY <1>1, <2>2, <2>3
  <1>. QED
    BY <1>1, <1>2 DEF IsFrames, SameTo

LEMMA SameChain ==
  ASSUME NEW s, NEW q, NEW r, NEW k \in Nat, NEW n \in Nat, k <= n, SameTo(s, q, n), SameTo(q, r, k)
  PROVE  SameTo(s, r, k)
  <1>1. \A d \in 1 .. k : d \in 1 .. n
    OBVIOUS
  <1>. QED
    BY <1>1, Zenon DEF SameTo

\* s with its innermost frame replaced
LEMMA SetLast ==
  ASSUME NEW s, NEW k \in Nat, NEW n, n = k + 1, IsFrames(s, n), NEW g \in Frame,
         NEW r, r = On(g, Tail(s))
  PROVE  IsFrames(r, n) /\ FrameAt(r, n) = g /\ SameTo(s, r, k)
  <1>1. PICK q : q = Tail(s)
    OBVIOUS
  <1>2. IsFrames(q, k) /\ SameTo(s, q, k) /\ k <= k
    BY <1>1, TailSame
  <1>3. IsFrames(r, n) /\ FrameAt(r, n) = g /\ SameTo(q, r, k)
    <2>1. r = On(g, q)
      BY <1>1
    <2>. QED
      BY <1>2, <2>1, PutOn
  <1>. QED
    BY <1>2, <1>3, SameChain

\* s with the frame h on its innermost one, which is replaced by g
LEMMA PushLast ==
  ASSUME NEW s, NEW k \in Nat, NEW n, n = k + 1, NEW m, m = n + 1, IsFrames(s, n),
         NEW g \in Frame, NEW h \in Frame, NEW r, r = On2(h, g, Tail(s))
  PROVE  IsFrames(r, m) /\ FrameAt(r, m) = h /\ FrameAt(r, n) = g /\ SameTo(s, r, k)
  <1>1. PICK q : q = On(g, Tail(s))
    OBVIOUS
  <1>2. IsFrames(q, n) /\ FrameAt(q, n) = g /\ SameTo(s, q, k)
    BY <1>1, SetLast
  <1>3. r = On(h, q)
    <2>1. Tail(s) \in Seq(Frame)
      BY TailSame DEF IsFrames
    <2>2. <<h, g>> = <<h>> \o <<g>> /\ <<h>> \in Seq(Frame) /\ <<g>> \in Seq(Frame)
      OBVIOUS
    <2>3. (<<h>> \o <<g>>) \o Tail(s) = <<h>> \o (<<g>> \o Tail(s))
      BY ONLY <2>1, <2>2, ConcatAssociative
    <2>. QED
      BY <1>1, <2>2, <2>3 DEF On, On2
  <1>4. IsFrames(r, m) /\ FrameAt(r, m) = h /\ SameTo(q, r, n)
    <2>1. n \in Nat
      OBVIOUS
    <2>. QED
      BY <1>2, <1>3, <2>1, PutOn
  <1>5. n \in 1 .. n /\ \A d \in 1 .. k : d \in 1 .. n
    OBVIOUS
  <1>6. FrameAt(r, n) = g
    BY <1>2, <1>4, <1>5, Zenon DEF SameTo
  <1>7. SameTo(s, r, k)
    BY <1>2, <1>4, <1>5, Zenon DEF SameTo
  <1>. QED
    BY <1>4, <1>6, <1>7

\* s without its innermost frame, and the one under it replaced by g
LEMMA PopLast ==
  ASSUME NEW s, NEW k \in Nat, NEW n, n = k + 1, NEW m, m = n + 1, IsFrames(s, m),
         NEW g \in Frame, NEW r, r = On(g, Tail(Tail(s)))
  PROVE  IsFrames(r, n) /\ FrameAt(r, n) = g /\ SameTo(s, r, k) /\ s[2] = FrameAt(s, n)
  <1>1. PICK q : q = Tail(s)
    OBVIOUS
  <1>2. n \in Nat /\ k <= n /\ m + 1 - n = 2
    OBVIOUS
  <1>3. IsFrames(q, n) /\ SameTo(s, q, n)
    BY <1>1, <1>2, TailSame
  <1>4. IsFrames(r, n) /\ FrameAt(r, n) = g /\ SameTo(q, r, k)
    <2>1. r = On(g, Tail(q))
      BY <1>1
    <2>. QED
      BY <1>3, <2>1, SetLast
  <1>5. SameTo(s, r, k)
    BY <1>2, <1>3, <1>4, SameChain
  <1>6. s[2] = FrameAt(s, n)
    <2>1. Len(s) = m
      BY DEF IsFrames
    <2>. QED
      BY <1>2, <2>1 DEF FrameAt
  <1>. QED
    BY <1>4, <1>5, <1>6

-----------------------------------------------------------------------------
(* What a step may do to the calls and to the table                        *)

StackOK == stack \in [Threads -> Seq(Frame)]

\* A call that goes on, with the entry it had
Like(g, f) ==
  /\ g.entry = f.entry /\ g.name = f.name /\ g.fn = f.fn /\ CallOK(g)
  /\ Loads(g) <=> Loads(f)

\* Thread t moved: its calls from depth j on are left, and g may be a new one.
Goes(t, j, g) ==
  /\ StackOK'
  /\ \A u \in Threads : \A d \in 1 .. Calls(u)' :
       /\ d < Calls(u)' => CallAt(u, d)'.pc \in CallPCs
       /\ \/ d \in 1 .. Calls(u) /\ (u = t => d < j) /\ Like(CallAt(u, d)', CallAt(u, d))
          \/ u = t /\ d = Calls(u)' /\ CallAt(u, d)' = g

\* It does not wait.
Moved(t, j, g) == Goes(t, j, g) /\ \A x : Waiters(x)' = Waiters(x) \ {t}

\* The table cs, es, fr suits all calls but those of t from depth j on.
Suits(t, j, cs, es, fr) ==
  /\ cs \in [Names -> Entries \cup {NULL}] /\ es \in [Entries -> Entry] /\ fr \subseteq Entries
  /\ \A u \in Threads : \A d \in 1 .. Calls(u) :
       (u = t => d < j) => EntryIn(CallAt(u, d), cs, es, fr)
  /\ TableIn(cs, fr) /\ TransientIn(cs, es)

\* It counts the threads that wait, but for t.
Clean(t, j, cs, es, fr) ==
  /\ Suits(t, j, cs, es, fr)
  /\ \A x \in Entries \ fr : es[x].nrWaiting = Cardinality(Waiters(x) \ {t})

\* A new call suits the table and shares its entry with no other call.
Fresh(t, j, g, cs, es, fr) ==
  /\ CallOK(g) /\ EntryIn(g, cs, es, fr)
  /\ Loads(g) => \A u \in Threads : \A d \in 1 .. Calls(u) :
       (u = t => d < j) => CallAt(u, d).entry # g.entry

\* The other variables keep their types.
RestOK ==
  /\ asleep' \subseteq Threads /\ ret' \in [Threads -> Class \cup {NULL}]
  /\ defined' \in [Names -> Nat]

LEMMA LikeEntry ==
  ASSUME NEW f, NEW g, Like(g, f), NEW cs, NEW es, NEW fr, EntryIn(f, cs, es, fr)
  PROVE  EntryIn(g, cs, es, fr)
  BY DEF Like, EntryIn

\* The calls suit the table after the step.
LEMMA SettlesCalls ==
  ASSUME LoaderInv, NEW t \in Threads, NEW j, NEW g, Goes(t, j, g), RestOK,
         NEW cs, NEW es, NEW fr, Suits(t, j, cs, es, fr), Fresh(t, j, g, cs, es, fr),
         classes' = cs, entry' = es, free' = fr
  PROVE  /\ TypeOK' /\ CallsInv' /\ OwnInv'
         /\ TableIn(classes', free') /\ TransientIn(classes', entry')
  <1>1. TypeOK'
    BY DEF TypeOK, Goes, StackOK, RestOK, Suits
  <1>2. TableIn(classes', free') /\ TransientIn(classes', entry')
    BY DEF Suits
  <1>4. ASSUME NEW u \in Threads, NEW d \in 1 .. Calls(u)'
        PROVE  /\ CallOK(CallAt(u, d)')
               /\ EntryIn(CallAt(u, d)', cs, es, fr)
               /\ d < Calls(u)' => CallAt(u, d)'.pc \in CallPCs
    <2>1. /\ d < Calls(u)' => CallAt(u, d)'.pc \in CallPCs
          /\ \/ d \in 1 .. Calls(u) /\ (u = t => d < j) /\ Like(CallAt(u, d)', CallAt(u, d))
             \/ u = t /\ d = Calls(u)' /\ CallAt(u, d)' = g
      BY DEF Goes
    <2>2. CASE d \in 1 .. Calls(u) /\ (u = t => d < j) /\ Like(CallAt(u, d)', CallAt(u, d))
      <3>1. EntryIn(CallAt(u, d), cs, es, fr)
        BY <2>2 DEF Suits
      <3>2. EntryIn(CallAt(u, d)', cs, es, fr)
        BY <2>2, <3>1, LikeEntry
      <3>3. CallOK(CallAt(u, d)')
        BY <2>2 DEF Like
      <3>. QED
        BY <2>1, <3>2, <3>3
    <2>3. CASE u = t /\ d = Calls(u)' /\ CallAt(u, d)' = g
      BY <2>1, <2>3 DEF Fresh
    <2>. QED
      BY <2>1, <2>2, <2>3
  <1>5. CallsInv'
    BY <1>4 DEF CallsInv, CallOK, Loads, Waits, EntryIn
  <1>6. OwnInv'
    <2>1. SUFFICES ASSUME NEW u \in Threads, NEW v \in Threads,
                          NEW d \in 1 .. Calls(u)', NEW b \in 1 .. Calls(v)',
                          Loads(CallAt(u, d)'), Loads(CallAt(v, b)'),
                          CallAt(u, d)'.entry = CallAt(v, b)'.entry
                   PROVE  u = v /\ d = b
      BY DEF OwnInv, Loads
    <2>2. PICK f, h : f = CallAt(u, d)' /\ h = CallAt(v, b)'
      OBVIOUS
    <2>3. Loads(f) /\ Loads(h) /\ f.entry = h.entry
      BY <2>1, <2>2
    <2>4. \/ d \in 1 .. Calls(u) /\ (u = t => d < j) /\ Like(f, CallAt(u, d))
          \/ u = t /\ d = Calls(u)' /\ f = g
      BY <2>2 DEF Goes
    <2>5. \/ b \in 1 .. Calls(v) /\ (v = t => b < j) /\ Like(h, CallAt(v, b))
          \/ v = t /\ b = Calls(v)' /\ h = g
      BY <2>2 DEF Goes
    <2>6. CASE /\ d \in 1 .. Calls(u) /\ (u = t => d < j) /\ Like(f, CallAt(u, d))
               /\ b \in 1 .. Calls(v) /\ (v = t => b < j) /\ Like(h, CallAt(v, b))
      <3>1. /\ Loads(CallAt(u, d)) /\ Loads(CallAt(v, b))
            /\ CallAt(u, d).entry = CallAt(v, b).entry
        BY <2>3, <2>6 DEF Like
      <3>2. OwnInv
        BY DEF LoaderInv
      <3>. QED
        BY <2>6, <3>1, <3>2 DEF OwnInv
    <2>7. CASE /\ d \in 1 .. Calls(u) /\ (u = t => d < j) /\ Like(f, CallAt(u, d))
               /\ v = t /\ b = Calls(v)' /\ h = g
      <3>1. CallAt(u, d).entry = g.entry /\ Loads(g)
        BY <2>3, <2>7 DEF Like
      <3>. QED
        BY <2>7, <3>1 DEF Fresh
    <2>8. CASE /\ u = t /\ d = Calls(u)' /\ f = g
               /\ b \in 1 .. Calls(v) /\ (v = t => b < j) /\ Like(h, CallAt(v, b))
      <3>1. CallAt(v, b).entry = g.entry /\ Loads(g)
        BY <2>3, <2>8 DEF Like
      <3>. QED
        BY <2>8, <3>1 DEF Fresh
    <2>9. CASE /\ u = t /\ d = Calls(u)' /\ f = g /\ v = t /\ b = Calls(v)' /\ h = g
      BY <2>9
    <2>. QED
      BY <2>4, <2>5, <2>6, <2>7, <2>8, <2>9, Zenon
  <1>. QED
    BY <1>1, <1>2, <1>5, <1>6

LEMMA Settles ==
  ASSUME LoaderInv, NEW t \in Threads, NEW j, NEW g, Moved(t, j, g), RestOK,
         NEW cs, NEW es, NEW fr, Clean(t, j, cs, es, fr), Fresh(t, j, g, cs, es, fr),
         classes' = cs, entry' = es, free' = fr
  PROVE  LoaderInv'
  <1>1. CountInv'
    BY DEF CountInv, Clean, Moved
  <1>2. Goes(t, j, g) /\ Suits(t, j, cs, es, fr)
    BY DEF Clean, Moved
  <1>3. /\ TypeOK' /\ CallsInv' /\ OwnInv'
        /\ TableIn(classes', free') /\ TransientIn(classes', entry')
    BY <1>2, SettlesCalls
  <1>. QED
    BY <1>1, <1>3 DEF LoaderInv

-----------------------------------------------------------------------------
(* The moves                                                               *)

HasTop(t, k, n, f) ==
  /\ t \in Threads /\ k \in Nat /\ n = k + 1 /\ n \in Nat /\ n \in 1 .. n
  /\ IsFrames(stack[t], n) /\ Calls(t) = n
  /\ f \in Frame /\ f = Top(t) /\ f = CallAt(t, n)
  /\ CallOK(f) /\ EntryIn(f, classes, entry, free)

LEMMA StackTyped ==
  ASSUME LoaderInv, NEW t \in Threads
  PROVE  /\ StackOK /\ stack[t] \in Seq(Frame) /\ Calls(t) \in Nat
         /\ IsFrames(stack[t], Calls(t))
  <1>1. stack \in [Threads -> Seq(Frame)]
    BY DEF LoaderInv, TypeOK
  <1>2. stack[t] \in Seq(Frame)
    BY <1>1
  <1>3. Len(stack[t]) \in Nat
    BY <1>2, LenProperties
  <1>. QED
    BY <1>1, <1>2, <1>3 DEF StackOK, Calls, IsFrames

LEMMA TopIs ==
  ASSUME LoaderInv, NEW t \in Threads, stack[t] # <<>>
  PROVE  \E k, n, f : HasTop(t, k, n, f)
  <1>1. PICK n \in Nat : n = Calls(t) /\ IsFrames(stack[t], n) /\ stack[t] \in Seq(Frame)
    BY StackTyped
  <1>2. n = Len(stack[t])
    BY <1>1 DEF Calls
  <1>3. n # 0
    BY <1>1, <1>2, EmptySeq
  <1>4. PICK k \in Nat : n = k + 1 /\ n >= 1 /\ n \in 1 .. n
    <2>1. n - 1 \in Nat /\ n = n - 1 + 1 /\ n >= 1 /\ n \in 1 .. n
      BY <1>3
    <2>. QED
      BY <2>1
  <1>5. /\ Head(stack[t]) = FrameAt(stack[t], n) /\ Head(stack[t]) \in Frame
    BY <1>1, <1>2, <1>4, Tailed
  <1>6. PICK f \in Frame : f = Top(t) /\ f = CallAt(t, n)
    BY <1>5 DEF Top, CallAt
  <1>7. CallOK(f) /\ EntryIn(f, classes, entry, free)
    BY <1>1, <1>4, <1>6 DEF LoaderInv, CallsInv
  <1>. QED
    BY <1>1, <1>4, <1>6, <1>7 DEF HasTop

\* The calls of t after a step: g at depth n, on k calls as they were
Ends(t, k, n, g) ==
  /\ StackOK' /\ Calls(t)' = n /\ CallAt(t, n)' = g
  /\ \A d \in 1 .. k : CallAt(t, d)' = CallAt(t, d)
  /\ \A u \in Threads \ {t} : Calls(u)' = Calls(u) /\ \A d : CallAt(u, d)' = CallAt(u, d)

EndsIn(t, k, n, g) == Ends(t, k, n, g) /\ \A x : Waiters(x)' = Waiters(x) \ {t}

\* The call stack of t is r.
Becomes(t, r) == stack' = [stack EXCEPT ![t] = r]

LEMMA BecomesIs ==
  ASSUME StackOK, NEW t \in Threads, NEW r \in Seq(Frame), Becomes(t, r)
  PROVE  /\ StackOK' /\ stack'[t] = r /\ \A u \in Threads \ {t} : stack'[u] = stack[u]
         /\ Calls(t)' = Len(r) /\ \A d : CallAt(t, d)' = FrameAt(r, d)
         /\ \A u \in Threads \ {t} : Calls(u)' = Calls(u) /\ \A d : CallAt(u, d)' = CallAt(u, d)
  <1>1. StackOK' /\ stack'[t] = r /\ \A u \in Threads \ {t} : stack'[u] = stack[u]
    BY DEF StackOK, Becomes
  <1>2. Calls(t)' = Len(r) /\ \A d : CallAt(t, d)' = FrameAt(r, d)
    BY <1>1 DEF Calls, CallAt, FrameAt
  <1>3. ASSUME NEW u \in Threads \ {t}
        PROVE  Calls(u)' = Calls(u) /\ \A d : CallAt(u, d)' = CallAt(u, d)
    <2>1. stack'[u] = stack[u]
      BY <1>1
    <2>. QED
      BY <2>1 DEF Calls, CallAt, FrameAt
  <1>. QED
    BY <1>1, <1>2, <1>3

\* The waiters when t does not wait any more, or still does not
LEMMA WaitersAfter ==
  ASSUME NEW t \in Threads, \A u \in Threads \ {t} : stack'[u] = stack[u],
         stack'[t] # <<>> => ~Waits(Head(stack'[t]))
  PROVE  \A x : Waiters(x)' = Waiters(x) \ {t}
  <1>. SUFFICES ASSUME NEW x PROVE Waiters(x)' = Waiters(x) \ {t}
    OBVIOUS
  <1>1. ASSUME NEW u \in Threads PROVE u \in Waiters(x)' <=> u \in Waiters(x) /\ u # t
    <2>1. CASE u = t
      BY <2>1 DEF Waiters, At, Top, Waits
    <2>2. CASE u # t
      <3>1. stack'[u] = stack[u]
        BY <2>2
      <3>. QED
        BY <2>2, <3>1 DEF Waiters, At, Top
    <2>. QED
      BY <2>1, <2>2
  <1>2. Waiters(x)' \subseteq Threads /\ Waiters(x) \subseteq Threads
    BY DEF Waiters
  <1>. QED
    BY <1>1, <1>2

LEMMA Ended ==
  ASSUME StackOK, NEW t \in Threads, NEW k \in Nat, NEW n, n = k + 1, NEW g \in Frame, NEW r,
         IsFrames(r, n), FrameAt(r, n) = g, SameTo(stack[t], r, k), Becomes(t, r)
  PROVE  /\ Ends(t, k, n, g) /\ (~Waits(g) => EndsIn(t, k, n, g))
         /\ stack'[t] # <<>> /\ Head(stack'[t]) = g
         /\ \A u \in Threads \ {t} : stack'[u] = stack[u]
  <1>1. r \in Seq(Frame) /\ Len(r) = n /\ n \in Nat /\ n >= 1
    BY DEF IsFrames
  <1>2. /\ StackOK' /\ stack'[t] = r /\ \A u \in Threads \ {t} : stack'[u] = stack[u]
        /\ Calls(t)' = Len(r) /\ \A d : CallAt(t, d)' = FrameAt(r, d)
        /\ \A u \in Threads \ {t} : Calls(u)' = Calls(u) /\ \A d : CallAt(u, d)' = CallAt(u, d)
    BY <1>1, BecomesIs
  <1>3. Head(r) = g
    BY <1>1, Tailed
  <1>4. ~Waits(g) => \A x : Waiters(x)' = Waiters(x) \ {t}
    BY <1>2, <1>3, WaitersAfter
  <1>5. \A d \in 1 .. k : CallAt(t, d)' = CallAt(t, d)
    BY <1>2 DEF SameTo, CallAt
  <1>6. Ends(t, k, n, g)
    BY <1>1, <1>2, <1>5 DEF Ends
  <1>7. stack'[t] # <<>>
    BY <1>1, <1>2
  <1>. QED
    BY <1>2, <1>3, <1>4, <1>6, <1>7 DEF EndsIn

\* A call goes on as it was, and the calls inside it are left.
LEMMA MovedOn ==
  ASSUME LoaderInv, NEW t \in Threads, NEW k \in Nat, NEW n, n = k + 1, NEW g,
         EndsIn(t, k, n, g), n <= Calls(t), Like(g, CallAt(t, n)), NEW j \in Nat, n < j,
         NEW x
  PROVE  Moved(t, j, x)
  <1>1. ASSUME NEW u \in Threads, NEW d \in 1 .. Calls(u)'
        PROVE  /\ d < Calls(u)' => CallAt(u, d)'.pc \in CallPCs
               /\ d \in 1 .. Calls(u) /\ (u = t => d < j) /\ Like(CallAt(u, d)', CallAt(u, d))
    <2>0. CallsInv /\ Calls(u) \in Nat
      BY StackTyped DEF LoaderInv
    <2>1. CASE u # t
      <3>1. Calls(u)' = Calls(u) /\ CallAt(u, d)' = CallAt(u, d)
        BY <2>1 DEF EndsIn, Ends
      <3>2. d \in 1 .. Calls(u)
        BY <3>1
      <3>3. CallOK(CallAt(u, d)) /\ (d < Calls(u) => CallAt(u, d).pc \in CallPCs)
        BY <2>0, <3>2 DEF CallsInv
      <3>. QED
        BY <2>1, <3>1, <3>2, <3>3 DEF Like
    <2>2. CASE u = t
      <3>1. Calls(u)' = n /\ d \in 1 .. n
        BY <2>2 DEF EndsIn, Ends
      <3>2. d \in 1 .. Calls(u) /\ d < j
        BY <2>0, <2>2, <3>1
      <3>3. CASE d = n
        BY <2>2, <3>1, <3>2, <3>3 DEF EndsIn, Ends
      <3>4. CASE d # n
        <4>1. d \in 1 .. k /\ d < Calls(u)
          BY <2>0, <2>2, <3>1, <3>4
        <4>2. CallAt(u, d)' = CallAt(u, d)
          BY <2>2, <4>1 DEF EndsIn, Ends
        <4>3. CallOK(CallAt(u, d)) /\ CallAt(u, d).pc \in CallPCs
          BY <2>0, <3>2, <4>1 DEF CallsInv
        <4>. QED
          BY <3>2, <4>2, <4>3 DEF Like
      <3>. QED
        BY <3>3, <3>4
    <2>. QED
      BY <2>1, <2>2
  <1>. QED
    BY <1>1, Zenon DEF Moved, Goes, EndsIn, Ends

\* The innermost call gets the new entry of g, or g is the first call.
LEMMA MovedNew ==
  ASSUME LoaderInv, NEW t \in Threads, NEW k \in Nat, NEW n, n = k + 1, NEW g,
         Ends(t, k, n, g), k = 0 \/ k < Calls(t)
  PROVE  Goes(t, n, g)
  <1>1. ASSUME NEW u \in Threads, NEW d \in 1 .. Calls(u)'
        PROVE  /\ d < Calls(u)' => CallAt(u, d)'.pc \in CallPCs
               /\ \/ d \in 1 .. Calls(u) /\ (u = t => d < n) /\ Like(CallAt(u, d)', CallAt(u, d))
                  \/ u = t /\ d = Calls(u)' /\ CallAt(u, d)' = g
    <2>0. CallsInv /\ Calls(u) \in Nat
      BY StackTyped DEF LoaderInv
    <2>1. CASE u # t
      <3>1. Calls(u)' = Calls(u) /\ CallAt(u, d)' = CallAt(u, d)
        BY <2>1 DEF Ends
      <3>2. d \in 1 .. Calls(u)
        BY <3>1
      <3>3. CallOK(CallAt(u, d)) /\ (d < Calls(u) => CallAt(u, d).pc \in CallPCs)
        BY <2>0, <3>2 DEF CallsInv
      <3>. QED
        BY <2>1, <3>1, <3>2, <3>3 DEF Like
    <2>2. CASE u = t
      <3>1. Calls(u)' = n /\ d \in 1 .. n
        BY <2>2 DEF Ends
      <3>3. CASE d = n
        BY <2>2, <3>1, <3>3 DEF Ends
      <3>4. CASE d # n
        <4>1. d \in 1 .. k /\ d < Calls(u) /\ d < n /\ d \in 1 .. Calls(u)
          BY <2>0, <2>2, <3>1, <3>4
        <4>2. CallAt(u, d)' = CallAt(u, d)
          BY <2>2, <4>1 DEF Ends
        <4>3. CallOK(CallAt(u, d)) /\ CallAt(u, d).pc \in CallPCs
          BY <2>0, <4>1 DEF CallsInv
        <4>. QED
          BY <4>1, <4>2, <4>3 DEF Like
      <3>. QED
        BY <3>3, <3>4
    <2>. QED
      BY <2>1, <2>2
  <1>. QED
    BY <1>1, Zenon DEF Goes, Ends

\* The innermost call goes on as g and calls h.
LEMMA MovedPush ==
  ASSUME LoaderInv, NEW t, NEW k, NEW n, NEW f, HasTop(t, k, n, f), NEW g \in Frame,
         NEW h \in Frame, Like(g, f), g.pc \in CallPCs, ~Waits(h),
         NEW r, r = On2(h, g, Tail(stack[t])), Becomes(t, r), NEW j, j = n + 1
  PROVE  /\ Moved(t, j, h)
         /\ Calls(t)' = j /\ CallAt(t, j)' = h /\ CallAt(t, n)' = g
         /\ \A d \in 1 .. k : CallAt(t, d)' = CallAt(t, d)
         /\ \A u \in Threads \ {t} : Calls(u)' = Calls(u) /\ \A d : CallAt(u, d)' = CallAt(u, d)
  <1>0. /\ t \in Threads /\ k \in Nat /\ n = k + 1 /\ n \in Nat /\ IsFrames(stack[t], n)
        /\ Calls(t) = n /\ f = CallAt(t, n) /\ n \in 1 .. n
    BY DEF HasTop
  <1>1. /\ IsFrames(r, j) /\ FrameAt(r, j) = h /\ FrameAt(r, n) = g /\ SameTo(stack[t], r, k)
    BY <1>0, PushLast
  <1>2. r \in Seq(Frame) /\ Len(r) = j /\ j \in Nat /\ j >= 1
    BY <1>0, <1>1 DEF IsFrames
  <1>3. StackOK
    BY <1>0, StackTyped
  <1>4. /\ StackOK' /\ stack'[t] = r /\ \A u \in Threads \ {t} : stack'[u] = stack[u]
        /\ Calls(t)' = Len(r) /\ \A d : CallAt(t, d)' = FrameAt(r, d)
        /\ \A u \in Threads \ {t} : Calls(u)' = Calls(u) /\ \A d : CallAt(u, d)' = CallAt(u, d)
    BY <1>0, <1>2, <1>3, BecomesIs
  <1>5. Head(r) = h
    BY <1>1, <1>2, Tailed
  <1>6. \A x : Waiters(x)' = Waiters(x) \ {t}
    BY <1>0, <1>4, <1>5, WaitersAfter
  <1>7. \A d \in 1 .. k : CallAt(t, d)' = CallAt(t, d)
    BY <1>1, <1>4 DEF SameTo, CallAt
  <1>8. ASSUME NEW u \in Threads, NEW d \in 1 .. Calls(u)'
        PROVE  /\ d < Calls(u)' => CallAt(u, d)'.pc \in CallPCs
               /\ \/ d \in 1 .. Calls(u) /\ (u = t => d < j) /\ Like(CallAt(u, d)', CallAt(u, d))
                  \/ u = t /\ d = Calls(u)' /\ CallAt(u, d)' = h
    <2>0. CallsInv
      BY DEF LoaderInv
    <2>1. CASE u # t
      <3>1. Calls(u)' = Calls(u) /\ CallAt(u, d)' = CallAt(u, d)
        BY <1>4, <2>1
      <3>2. d \in 1 .. Calls(u)
        BY <3>1
      <3>3. CallOK(CallAt(u, d)) /\ (d < Calls(u) => CallAt(u, d).pc \in CallPCs)
        BY <2>0, <3>2 DEF CallsInv
      <3>. QED
        BY <2>1, <3>1, <3>2, <3>3 DEF Like
    <2>2. CASE u = t
      <3>1. Calls(u)' = j /\ d \in 1 .. j
        BY <1>2, <1>4, <2>2
      <3>2. CASE d = j
        BY <1>1, <1>4, <2>2, <3>1, <3>2
      <3>3. CASE d = n
        <4>1. d < j /\ d \in 1 .. Calls(u)
          BY <1>0, <2>2, <3>3
        <4>2. CallAt(u, d)' = g /\ Like(g, CallAt(u, d))
          BY <1>0, <1>1, <1>4, <2>2, <3>3
        <4>. QED
          BY <4>1, <4>2
      <3>4. CASE d # j /\ d # n
        <4>1. d \in 1 .. k /\ d < Calls(u) /\ d < j /\ d \in 1 .. Calls(u)
          BY <1>0, <2>2, <3>1, <3>4
        <4>2. CallAt(u, d)' = CallAt(u, d)
          BY <1>7, <2>2, <4>1
        <4>3. CallOK(CallAt(u, d)) /\ CallAt(u, d).pc \in CallPCs
          BY <2>0, <4>1 DEF CallsInv
        <4>. QED
          BY <4>1, <4>2, <4>3 DEF Like
      <3>. QED
        BY <3>2, <3>3, <3>4
    <2>. QED
      BY <2>1, <2>2
  <1>9. Moved(t, j, h)
    BY <1>4, <1>6, <1>8, Zenon DEF Moved, Goes
  <1>. QED
    BY <1>1, <1>2, <1>4, <1>7, <1>9

-----------------------------------------------------------------------------
(* The moves of the actions                                                *)

\* Thread t leaves its only call.
LEMMA Emptied ==
  ASSUME LoaderInv, NEW t \in Threads, NEW r, r = <<>>, Becomes(t, r), NEW j, NEW x
  PROVE  Moved(t, j, x)
  <1>1. r \in Seq(Frame) /\ Len(r) = 0 /\ StackOK
    BY StackTyped
  <1>2. /\ StackOK' /\ stack'[t] = r /\ \A u \in Threads \ {t} : stack'[u] = stack[u]
        /\ Calls(t)' = Len(r) /\ \A d : CallAt(t, d)' = FrameAt(r, d)
        /\ \A u \in Threads \ {t} : Calls(u)' = Calls(u) /\ \A d : CallAt(u, d)' = CallAt(u, d)
    BY <1>1, BecomesIs
  <1>3. \A y : Waiters(y)' = Waiters(y) \ {t}
    BY <1>2, WaitersAfter
  <1>4. ASSUME NEW u \in Threads, NEW d \in 1 .. Calls(u)'
        PROVE  /\ d < Calls(u)' => CallAt(u, d)'.pc \in CallPCs
               /\ d \in 1 .. Calls(u) /\ (u = t => d < j) /\ Like(CallAt(u, d)', CallAt(u, d))
    <2>0. CallsInv
      BY DEF LoaderInv
    <2>1. u # t
      <3>1. ASSUME u = t PROVE FALSE
        <4>1. d \in 1 .. 0
          BY <1>1, <1>2, <3>1
        <4>. QED
          BY <4>1
      <3>. QED
        BY <3>1
    <2>2. Calls(u)' = Calls(u) /\ CallAt(u, d)' = CallAt(u, d)
      BY <1>2, <2>1
    <2>3. d \in 1 .. Calls(u)
      BY <2>2
    <2>4. CallOK(CallAt(u, d)) /\ (d < Calls(u) => CallAt(u, d).pc \in CallPCs)
      BY <2>0, <2>3 DEF CallsInv
    <2>. QED
      BY <2>1, <2>2, <2>3, <2>4 DEF Like
  <1>. QED
    BY <1>2, <1>3, <1>4, Zenon DEF Moved, Goes

\* A call that called another one goes on.
LEMMA Resumed ==
  ASSUME NEW c \in Frame, CallOK(c), c.pc \in CallPCs, NEW v,
         NEW g, g = [c EXCEPT !.pc = Resume(c.pc, v)]
  PROVE  g \in Frame /\ Like(g, c) /\ ~Waits(g)
  <1>1. PICK p \in {"return", "find", "failed", "finish", "body"} :
          /\ p = Resume(c.pc, v)
          /\ c.pc = "beforeCall" => p \in {"return", "find"}
          /\ c.pc = "bodyCall" => p \in {"failed", "finish"}
          /\ c.pc = "javaCall" => p \in {"body", "return"}
    BY DEF Resume, CallPCs
  <1>2. /\ g \in Frame /\ g.pc = p /\ g.name = c.name /\ g.entry = c.entry
        /\ g.fn = c.fn
    BY <1>1 DEF Frame, PC
  <1>. QED
    BY <1>1, <1>2 DEF Like, CallOK, Loads, Waits, LoadPCs, CallPCs, LookupPCs

LEMMA ReturnMoves ==
  ASSUME LoaderInv, NEW t, NEW k, NEW n, NEW f, HasTop(t, k, n, f), NEW v, Return(t, v), NEW x
  PROVE  Moved(t, n, x) /\ ret' = [ret EXCEPT ![t] = v]
  <1>0. /\ t \in Threads /\ k \in Nat /\ n = k + 1 /\ n \in Nat /\ IsFrames(stack[t], n)
        /\ Calls(t) = n /\ stack[t] \in Seq(Frame) /\ Len(stack[t]) = n
    BY DEF HasTop, IsFrames
  <1>1. ret' = [ret EXCEPT ![t] = v]
    BY DEF Return
  <1>2. CASE n = 1
    <2>1. Becomes(t, <<>>)
      BY <1>0, <1>2 DEF Return, Becomes
    <2>. QED
      BY <1>0, <1>1, <2>1, Emptied
  <1>3. CASE n # 1
    <2>1. PICK i \in Nat : k = i + 1 /\ k <= n /\ k < n /\ k \in 1 .. n
      <3>1. k - 1 \in Nat /\ k = k - 1 + 1 /\ k <= n /\ k < n /\ k \in 1 .. n
        BY <1>0, <1>3
      <3>. QED
        BY <3>1
    <2>2. PICK c : c = CallAt(t, k)
      OBVIOUS
    <2>3. CallOK(c) /\ c.pc \in CallPCs
      BY <1>0, <2>1, <2>2 DEF LoaderInv, CallsInv
    <2>4. stack[t][2] = c
      <3>1. n + 1 - k = 2
        BY <1>0
      <3>. QED
        BY <1>0, <2>2, <3>1 DEF CallAt, FrameAt
    <2>5. c \in Frame
      <3>1. 2 \in 1 .. Len(stack[t])
        BY <1>0, <1>3
      <3>. QED
        BY <1>0, <2>4, <3>1, ElementOfSeq
    <2>6. PICK g : g = [c EXCEPT !.pc = Resume(c.pc, v)]
      OBVIOUS
    <2>7. g \in Frame /\ Like(g, c) /\ ~Waits(g)
      BY <2>3, <2>5, <2>6, Resumed
    <2>8. PICK r : r = On(g, Tail(Tail(stack[t])))
      OBVIOUS
    <2>9. Becomes(t, r)
      BY <1>0, <1>3, <2>4, <2>6, <2>8 DEF Return, Becomes, On
    <2>10. IsFrames(r, k) /\ FrameAt(r, k) = g /\ SameTo(stack[t], r, i)
      <3>1. PICK s : s = stack[t]
        OBVIOUS
      <3>2. i \in Nat /\ k = i + 1 /\ n = k + 1 /\ IsFrames(s, n) /\ g \in Frame
        BY <1>0, <2>1, <2>7, <3>1
      <3>3. r = On(g, Tail(Tail(s)))
        BY <2>8, <3>1
      <3>4. IsFrames(r, k) /\ FrameAt(r, k) = g /\ SameTo(s, r, i)
        BY ONLY <3>2, <3>3, PopLast
      <3>. QED
        BY ONLY <3>1, <3>4
    <2>11. StackOK
      BY <1>0, StackTyped
    <2>12. EndsIn(t, i, k, g)
      BY <1>0, <2>1, <2>7, <2>9, <2>10, <2>11, Ended
    <2>13. k <= Calls(t) /\ Like(g, CallAt(t, k))
      BY <1>0, <2>1, <2>2, <2>7
    <2>14. Moved(t, n, x)
      BY <1>0, <2>1, <2>12, <2>13, MovedOn
    <2>. QED
      BY <1>1, <2>14
  <1>. QED
    BY <1>2, <1>3

\* A call that goes on at p, with entry e
FrameWith(f, p, e) == [f EXCEPT !.pc = p, !.entry = e]

LEMMA GotoMoves ==
  ASSUME LoaderInv, NEW t, NEW k, NEW n, NEW f, HasTop(t, k, n, f), NEW p, NEW e, GotoWith(t, p, e),
         NEW g \in Frame, g = FrameWith(f, p, e)
  PROVE  /\ Becomes(t, On(g, Tail(stack[t]))) /\ ret' = ret
         /\ Ends(t, k, n, g) /\ (~Waits(g) => EndsIn(t, k, n, g))
         /\ stack'[t] # <<>> /\ Head(stack'[t]) = g
         /\ \A u \in Threads \ {t} : stack'[u] = stack[u]
  <1>0. /\ t \in Threads /\ k \in Nat /\ n = k + 1 /\ n \in Nat /\ IsFrames(stack[t], n)
        /\ Calls(t) = n /\ f = Top(t)
    BY DEF HasTop
  <1>1. PICK r : r = On(g, Tail(stack[t]))
    OBVIOUS
  <1>2. Becomes(t, r) /\ ret' = ret
    BY <1>0, <1>1 DEF GotoWith, Becomes, On, FrameWith
  <1>3. IsFrames(r, n) /\ FrameAt(r, n) = g /\ SameTo(stack[t], r, k)
    BY <1>0, <1>1, SetLast
  <1>4. StackOK
    BY <1>0, StackTyped
  <1>5. /\ Ends(t, k, n, g) /\ (~Waits(g) => EndsIn(t, k, n, g))
        /\ stack'[t] # <<>> /\ Head(stack'[t]) = g
        /\ \A u \in Threads \ {t} : stack'[u] = stack[u]
    BY <1>0, <1>2, <1>3, <1>4, Ended
  <1>. QED
    BY <1>1, <1>2, <1>5

-----------------------------------------------------------------------------
(* Steps that leave the table alone                                        *)

LEMMA NewCall ==
  ASSUME NEW fn \in {"load", "query"}, NEW m \in Names, NEW h, h = NewFrame(fn, m)
  PROVE  /\ h \in Frame /\ ~Waits(h) /\ ~Loads(h) /\ CallOK(h) /\ h.entry = NULL
         /\ h.fn = fn /\ h.name = m
         /\ \A t, j, cs, es, fr : Fresh(t, j, h, cs, es, fr)
  <1>1. /\ h \in Frame /\ h.entry = NULL /\ h.fn = fn /\ h.name = m /\ h.pc = (IF fn = "load" THEN "start" ELSE "find")
    BY DEF NewFrame, Frame, PC
  <1>2. ~Waits(h) /\ ~Loads(h) /\ CallOK(h)
    BY <1>1 DEF Waits, Loads, CallOK, LoadPCs, LookupPCs
  <1>3. \A cs, es, fr : EntryIn(h, cs, es, fr)
    BY <1>1 DEF EntryIn
  <1>. QED
    BY <1>1, <1>2, <1>3 DEF Fresh

\* Thread t waits for no entry.
Awake(t) == \A x : t \notin Waiters(x)

LEMMA AwakeIs ==
  ASSUME NEW t \in Threads, NEW p, At(t, p), p # "waiting"
  PROVE  Awake(t)
  BY DEF Awake, Waiters, At

LEMMA CleanSame ==
  ASSUME LoaderInv, NEW t \in Threads, Awake(t), NEW j
  PROVE  Clean(t, j, classes, entry, free)
  <1>1. TypeOK /\ CallsInv /\ CountInv /\ TableIn(classes, free) /\ TransientIn(classes, entry)
    BY DEF LoaderInv
  <1>2. /\ classes \in [Names -> Entries \cup {NULL}] /\ entry \in [Entries -> Entry]
        /\ free \subseteq Entries
    BY <1>1 DEF TypeOK
  <1>3. \A u \in Threads : \A d \in 1 .. Calls(u) : EntryIn(CallAt(u, d), classes, entry, free)
    BY <1>1, Zenon DEF CallsInv
  <1>4. \A x : Waiters(x) \ {t} = Waiters(x)
    BY DEF Awake
  <1>5. \A x \in Entries \ free : entry[x].nrWaiting = Cardinality(Waiters(x) \ {t})
    BY <1>1, <1>4 DEF CountInv
  <1>. QED
    BY <1>1, <1>2, <1>3, <1>5, Zenon DEF Clean, Suits

LEMMA SameTable ==
  ASSUME LoaderInv, NEW t \in Threads, Awake(t), NEW fn \in {"load", "query"}, NEW m \in Names,
         NEW h, h = NewFrame(fn, m), NEW j, Moved(t, j, h), RestOK, UNCHANGED table
  PROVE  LoaderInv'
  <1>1. Clean(t, j, classes, entry, free)
    BY CleanSame
  <1>2. Fresh(t, j, h, classes, entry, free)
    BY NewCall
  <1>3. classes' = classes /\ entry' = entry /\ free' = free
    BY DEF table
  <1>. QED
    BY <1>1, <1>2, <1>3, Settles

LEMMA RestIs ==
  ASSUME LoaderInv, NEW t \in Threads,
         asleep' \subseteq asleep \cup {t},
         defined' = defined \/ \E n \in Names : Define(n),
         ret' = ret \/ \E v \in Class \cup {NULL} : ret' = [ret EXCEPT ![t] = v]
  PROVE  RestOK
  <1>1. /\ asleep \subseteq Threads /\ ret \in [Threads -> Class \cup {NULL}]
        /\ defined \in [Names -> Nat]
    BY DEF LoaderInv, TypeOK
  <1>2. asleep' \subseteq Threads
    BY <1>1
  <1>3. ret' \in [Threads -> Class \cup {NULL}]
    BY <1>1
  <1>4. defined' \in [Names -> Nat]
    BY <1>1 DEF Define
  <1>. QED
    BY <1>2, <1>3, <1>4 DEF RestOK

LEMMA RequestStep ==
  ASSUME LoaderInv, NEW t \in Threads, NEW fn \in {"load", "query"}, NEW m \in Names,
         Request(t, fn, m)
  PROVE  LoaderInv'
  <1>1. stack[t] = <<>> /\ UNCHANGED <<table, asleep, ret, defined>>
    BY DEF Request
  <1>2. PICK h : h = NewFrame(fn, m)
    OBVIOUS
  <1>3. h \in Frame /\ ~Waits(h)
    BY <1>2, NewCall
  <1>4. PICK r : r = On(h, <<>>)
    OBVIOUS
  <1>5. r = <<h>>
    BY <1>3, <1>4 DEF On
  <1>6. Becomes(t, r)
    BY <1>2, <1>5 DEF Request, Becomes
  <1>7. IsFrames(<<>>, 0)
    BY DEF IsFrames
  <1>8. IsFrames(r, 1) /\ FrameAt(r, 1) = h
    BY <1>3, <1>4, <1>7, PutOn
  <1>9. StackOK /\ SameTo(stack[t], r, 0)
    BY StackTyped DEF SameTo
  <1>10. EndsIn(t, 0, 1, h)
    BY <1>3, <1>6, <1>8, <1>9, Ended
  <1>11. Moved(t, 1, h)
    BY <1>10, MovedNew DEF EndsIn, Moved
  <1>12. Awake(t)
    BY <1>1 DEF Awake, Waiters, At
  <1>13. RestOK
    BY <1>1, RestIs
  <1>. QED
    BY <1>1, <1>2, <1>11, <1>12, <1>13, SameTable

LEMMA GotoStep ==
  ASSUME LoaderInv, NEW t, NEW k, NEW n, NEW f, HasTop(t, k, n, f), NEW p, Goto(t, p),
         \/ f.pc = "start" /\ p = "find" /\ f.name \notin JavaNames
         \/ f.pc = "body" /\ p = "finish",
         UNCHANGED <<table, asleep, defined>>
  PROVE  LoaderInv'
  <1>0. /\ t \in Threads /\ k \in Nat /\ n = k + 1 /\ n \in Nat /\ Calls(t) = n /\ f = Top(t)
        /\ f \in Frame /\ CallOK(f) /\ f = CallAt(t, n) /\ n <= n
    BY DEF HasTop
  <1>1. PICK g : g = FrameWith(f, p, f.entry)
    OBVIOUS
  <1>2. /\ g \in Frame /\ g.pc = p /\ g.entry = f.entry /\ g.name = f.name /\ g.fn = f.fn
    BY <1>0, <1>1 DEF FrameWith, Frame, PC
  <1>3. Like(g, f) /\ ~Waits(g)
    BY <1>0, <1>2 DEF Like, CallOK, Loads, Waits, LoadPCs, LookupPCs
  <1>4. GotoWith(t, p, f.entry)
    BY <1>0 DEF Goto
  <1>5. EndsIn(t, k, n, g) /\ ret' = ret
    BY <1>1, <1>2, <1>3, <1>4, GotoMoves
  <1>6. PICK h : h = NewFrame("load", f.name) /\ f.name \in Names
    BY <1>0 DEF Frame
  <1>7. PICK j \in Nat : n < j
    <2>1. n + 1 \in Nat /\ n < n + 1
      BY <1>0
    <2>. QED
      BY <2>1
  <1>8. Moved(t, j, h)
    BY <1>0, <1>3, <1>5, <1>7, MovedOn
  <1>9. Awake(t)
    <2>1. At(t, f.pc) \/ stack[t] = <<>>
      BY <1>0 DEF At
    <2>. QED
      BY <1>0, <2>1, AwakeIs DEF Awake, Waiters, At
  <1>10. RestOK
    BY <1>0, <1>5, RestIs
  <1>. QED
    BY <1>0, <1>6, <1>8, <1>9, <1>10, SameTable

LEMMA CallStep ==
  ASSUME LoaderInv, NEW t, NEW k, NEW n, NEW f, HasTop(t, k, n, f), NEW p, NEW fn \in {"load", "query"},
         NEW m \in Names, Call(t, p, fn, m),
         \/ f.pc = "start" /\ p = "beforeCall" /\ f.name \notin JavaNames
         \/ f.pc = "start" /\ p = "javaCall" /\ f.name \in JavaNames
         \/ f.pc = "body" /\ p = "bodyCall",
         UNCHANGED <<table, asleep, defined>>
  PROVE  LoaderInv'
  <1>0. /\ t \in Threads /\ k \in Nat /\ n = k + 1 /\ n \in Nat /\ Calls(t) = n /\ f = Top(t)
        /\ f \in Frame /\ CallOK(f) /\ f = CallAt(t, n)
    BY DEF HasTop
  <1>1. PICK g : g = [f EXCEPT !.pc = p]
    OBVIOUS
  <1>2. /\ g \in Frame /\ g.pc = p /\ g.entry = f.entry /\ g.name = f.name /\ g.fn = f.fn
    BY <1>0, <1>1 DEF Frame, PC
  <1>3. Like(g, f) /\ g.pc \in CallPCs
    BY <1>0, <1>2 DEF Like, CallOK, Loads, Waits, LoadPCs, CallPCs, LookupPCs
  <1>4. PICK h : h = NewFrame(fn, m)
    OBVIOUS
  <1>5. h \in Frame /\ ~Waits(h)
    BY <1>4, NewCall
  <1>6. PICK r : r = On2(h, g, Tail(stack[t]))
    OBVIOUS
  <1>7. Becomes(t, r) /\ ret' = ret
    BY <1>0, <1>1, <1>4, <1>6 DEF Call, Becomes, On2
  <1>8. PICK j : j = n + 1
    OBVIOUS
  <1>9. Moved(t, j, h)
    BY <1>3, <1>5, <1>2, <1>6, <1>7, <1>8, MovedPush
  <1>10. Awake(t)
    <2>1. At(t, f.pc) \/ stack[t] = <<>>
      BY <1>0 DEF At
    <2>. QED
      BY <1>0, <2>1, AwakeIs DEF Awake, Waiters, At
  <1>11. RestOK
    BY <1>0, <1>7, RestIs
  <1>. QED
    BY <1>0, <1>4, <1>9, <1>10, <1>11, SameTable

LEMMA StartStep ==
  ASSUME LoaderInv, NEW t \in Threads, Start(t)
  PROVE  LoaderInv'
  <1>0. At(t, "start") /\ stack[t] # <<>> /\ UNCHANGED <<table, asleep, defined>>
    BY DEF Start, At
  <1>1. PICK k, n, f : HasTop(t, k, n, f)
    BY <1>0, TopIs
  <1>2. f \in Frame /\ f = Top(t) /\ f.pc = "start" /\ f.name = Name(t) /\ f.name \in Names
    BY <1>0, <1>1 DEF HasTop, At, Name, Frame
  <1>3. CASE Name(t) \in JavaNames /\ Call(t, "javaCall", "query", Name(t))
    BY <1>0, <1>1, <1>2, <1>3, CallStep
  <1>4. CASE Name(t) \notin JavaNames /\ Before[Name(t)] # NULL /\ Call(t, "beforeCall", "load", Before[Name(t)])
    <2>1. Before[Name(t)] \in Names
      BY <1>2, <1>4, LoaderAssumption
    <2>. QED
      BY <1>0, <1>1, <1>2, <1>4, <2>1, CallStep
  <1>5. CASE Name(t) \notin JavaNames /\ Goto(t, "find")
    BY <1>0, <1>1, <1>2, <1>5, GotoStep
  <1>. QED
    BY <1>3, <1>4, <1>5 DEF Start

LEMMA BodyStep ==
  ASSUME LoaderInv, NEW t \in Threads, Body(t)
  PROVE  LoaderInv'
  <1>0. At(t, "body") /\ stack[t] # <<>> /\ UNCHANGED <<table, asleep, defined>>
    BY DEF Body, At
  <1>1. PICK k, n, f : HasTop(t, k, n, f)
    BY <1>0, TopIs
  <1>2. f \in Frame /\ f = Top(t) /\ f.pc = "body" /\ f.name = Name(t) /\ f.name \in Names
    BY <1>0, <1>1 DEF HasTop, At, Name, Frame
  <1>3. CASE Goto(t, "finish")
    BY <1>0, <1>1, <1>2, <1>3, GotoStep
  <1>4. CASE During[Name(t)] # NULL /\ Call(t, "bodyCall", "load", During[Name(t)])
    <2>1. During[Name(t)] \in Names
      BY <1>2, <1>4, LoaderAssumption
    <2>. QED
      BY <1>0, <1>1, <1>2, <1>4, <2>1, CallStep
  <1>. QED
    BY <1>3, <1>4 DEF Body

\* A call returns, and the table suits the calls that are left.
LEMMA ReturnStep ==
  ASSUME LoaderInv, NEW t, NEW k, NEW n, NEW f, HasTop(t, k, n, f),
         NEW v \in Class \cup {NULL}, Return(t, v),
         asleep' \subseteq asleep \cup {t}, defined' = defined \/ \E m \in Names : Define(m),
         NEW cs, NEW es, NEW fr, Clean(t, n, cs, es, fr),
         classes' = cs, entry' = es, free' = fr
  PROVE  LoaderInv'
  <1>0. t \in Threads /\ f \in Frame /\ f.name \in Names
    BY DEF HasTop, Frame
  <1>1. PICK h : h = NewFrame("load", f.name)
    OBVIOUS
  <1>2. Moved(t, n, h) /\ ret' = [ret EXCEPT ![t] = v]
    BY ReturnMoves
  <1>3. Fresh(t, n, h, cs, es, fr)
    BY <1>0, <1>1, NewCall
  <1>4. RestOK
    BY <1>0, <1>2, RestIs
  <1>. QED
    BY <1>0, <1>2, <1>3, <1>4, Settles

LEMMA JavaReturnStep ==
  ASSUME LoaderInv, NEW t \in Threads, JavaReturn(t)
  PROVE  LoaderInv'
  <1>0. PICK p \in {"finish", "failed", "return"} : At(t, p)
    BY DEF JavaReturn
  <1>1. PICK v \in Class \cup {NULL} : Return(t, v)
    <2>1. ret[t] \in Class \cup {NULL}
      BY DEF LoaderInv, TypeOK
    <2>. QED
      BY <2>1 DEF JavaReturn
  <1>2. UNCHANGED <<table, asleep, defined>> /\ stack[t] # <<>>
    BY <1>0 DEF JavaReturn, At
  <1>3. PICK k, n, f : HasTop(t, k, n, f)
    BY <1>2, TopIs
  <1>4. Clean(t, n, classes, entry, free)
    BY <1>0, AwakeIs, CleanSame
  <1>5. classes' = classes /\ entry' = entry /\ free' = free /\ asleep' = asleep /\ defined' = defined
    BY <1>2 DEF table
  <1>. QED
    BY <1>1, <1>3, <1>4, <1>5, ReturnStep

-----------------------------------------------------------------------------
(* Changes of the table                                                    *)

\* No call but those of t from depth n on has entry e, or loads into it.
NobodyHas(t, n, e) ==
  \A u \in Threads : \A d \in 1 .. Calls(u) : (u = t => d < n) => CallAt(u, d).entry # e

NobodyLoads(t, n, e) ==
  \A u \in Threads : \A d \in 1 .. Calls(u) :
    (u = t => d < n) => CallAt(u, d).entry # e \/ ~Loads(CallAt(u, d))

LEMMA CallTyped ==
  ASSUME LoaderInv, NEW u \in Threads, NEW d \in 1 .. Calls(u)
  PROVE  CallAt(u, d) \in Frame
  <1>1. stack[u] \in Seq(Frame) /\ Calls(u) \in Nat
    BY StackTyped
  <1>2. Calls(u) + 1 - d \in 1 .. Len(stack[u])
    BY <1>1 DEF Calls
  <1>. QED
    BY <1>1, <1>2, ElementOfSeq DEF CallAt, FrameAt, Calls

\* A call that waits is the innermost one of its thread.
LEMMA WaiterIs ==
  ASSUME LoaderInv, NEW u \in Threads, NEW d \in 1 .. Calls(u), Waits(CallAt(u, d))
  PROVE  d = Calls(u) /\ u \in Waiters(CallAt(u, d).entry)
  <1>0. stack[u] \in Seq(Frame) /\ Calls(u) \in Nat /\ IsFrames(stack[u], Calls(u))
    BY StackTyped
  <1>1. ~(d < Calls(u))
    <2>1. d < Calls(u) => CallAt(u, d).pc \in CallPCs
      BY DEF LoaderInv, CallsInv
    <2>. QED
      BY <2>1 DEF Waits, CallPCs
  <1>2. d = Calls(u) /\ Calls(u) >= 1
    BY <1>0, <1>1
  <1>3. Head(stack[u]) = FrameAt(stack[u], d) /\ stack[u] # <<>>
    BY <1>0, <1>2, Tailed DEF Calls
  <1>4. Top(u) = CallAt(u, d)
    BY <1>3 DEF Top, CallAt
  <1>5. u \in Waiters(CallAt(u, d).entry)
    BY <1>3, <1>4 DEF Waiters, At, Waits
  <1>. QED
    BY <1>2, <1>5

LEMMA WaitersFinite ==
  ASSUME NEW x PROVE IsFiniteSet(Waiters(x)) /\ Cardinality(Waiters(x)) \in Nat
  <1>1. Waiters(x) \subseteq Threads /\ IsFiniteSet(Threads)
    BY LoaderAssumption DEF Waiters
  <1>2. IsFiniteSet(Waiters(x))
    BY <1>1, FS_Subset
  <1>. QED
    BY <1>2, FS_CardinalityType

\* An entry on which no other thread waits and into which no other call loads
LEMMA NobodyIs ==
  ASSUME LoaderInv, NEW t, NEW k, NEW n, NEW f, HasTop(t, k, n, f), NEW e, e # NULL,
         NobodyLoads(t, n, e), Cardinality(Waiters(e) \ {t}) = 0
  PROVE  NobodyHas(t, n, e)
  <1>1. Waiters(e) \ {t} = {}
    <2>1. IsFiniteSet(Waiters(e))
      BY WaitersFinite
    <2>2. IsFiniteSet(Waiters(e) \ {t})
      BY <2>1, FS_Subset
    <2>. QED
      BY <2>2, FS_EmptySet
  <1>2. ASSUME NEW u \in Threads, NEW d \in 1 .. Calls(u), u = t => d < n, CallAt(u, d).entry = e
        PROVE  FALSE
    <2>1. CallOK(CallAt(u, d))
      BY DEF LoaderInv, CallsInv
    <2>2. Waits(CallAt(u, d))
      BY <1>2, <2>1 DEF CallOK, NobodyLoads
    <2>3. d = Calls(u) /\ u \in Waiters(e)
      BY <1>2, <2>2, WaiterIs
    <2>4. u = t
      BY <1>1, <2>3
    <2>5. d < n /\ d = n /\ n \in Nat
      BY <1>2, <2>3, <2>4 DEF HasTop
    <2>. QED
      BY <2>5
  <1>. QED
    BY <1>2 DEF NobodyHas

Put(c, m, e) == [c EXCEPT ![m] = e]

\* A new entry z in memory e is put into the table under name m.
LEMMA AllocClean ==
  ASSUME LoaderInv, NEW t, NEW k, NEW n, NEW f, HasTop(t, k, n, f),
         NEW cs, NEW es, NEW fr, Clean(t, n, cs, es, fr), NEW e \in fr, NEW m \in Names,
         NEW z \in Entry, z.nrWaiting = 0, z.status # "notFound",
         NEW cs2, cs2 = Put(cs, m, e), NEW es2, es2 = Put(es, e, z),
         NEW fr2, fr2 = fr \ {e}
  PROVE  /\ Clean(t, n, cs2, es2, fr2) /\ NobodyHas(t, n, e)
         /\ e \in Entries /\ e # NULL /\ es2[e] = z
         /\ \A i \in Names : cs2[i] = e => i = m
  <1>1. /\ cs \in [Names -> Entries \cup {NULL}] /\ es \in [Entries -> Entry] /\ fr \subseteq Entries
        /\ \A u \in Threads : \A d \in 1 .. Calls(u) :
             (u = t => d < n) => EntryIn(CallAt(u, d), cs, es, fr)
        /\ TableIn(cs, fr) /\ TransientIn(cs, es)
        /\ \A x \in Entries \ fr : es[x].nrWaiting = Cardinality(Waiters(x) \ {t})
    BY DEF Clean, Suits
  <1>2. e \in Entries /\ e # NULL
    BY <1>1, LoaderAssumption
  <1>3. /\ cs2 \in [Names -> Entries \cup {NULL}] /\ es2 \in [Entries -> Entry] /\ fr2 \subseteq Entries
        /\ cs2[m] = e /\ es2[e] = z
        /\ \A i \in Names : i # m => cs2[i] = cs[i]
        /\ \A x \in Entries : x # e => es2[x] = es[x]
    BY <1>1, <1>2 DEF Put
  <1>4. \A i \in Names : cs[i] # e /\ (cs2[i] = e => i = m)
    BY <1>1, <1>3 DEF TableIn
  <1>5. ASSUME NEW u \in Threads, NEW d \in 1 .. Calls(u), u = t => d < n
        PROVE  CallAt(u, d).entry # e /\ EntryIn(CallAt(u, d), cs2, es2, fr2)
    <2>1. PICK c \in Frame : c = CallAt(u, d)
      BY CallTyped
    <2>2. EntryIn(c, cs, es, fr) /\ c.entry \in Entries \cup {NULL}
      BY <1>1, <1>5, <2>1 DEF Frame
    <2>3. c.entry # e
      BY <1>2, <2>2 DEF EntryIn
    <2>4. EntryIn(c, cs2, es2, fr2)
      BY <1>2, <1>3, <2>2, <2>3 DEF EntryIn
    <2>. QED
      BY <2>1, <2>3, <2>4
  <1>6. NobodyHas(t, n, e)
    BY <1>5 DEF NobodyHas
  <1>7. TableIn(cs2, fr2)
    BY <1>1, <1>3, <1>4 DEF TableIn
  <1>8. TransientIn(cs2, es2)
    <2>1. ASSUME NEW i \in Names, cs2[i] # NULL, es2[cs2[i]].status = "notFound"
          PROVE  es2[cs2[i]].nrWaiting > 0
      <3>1. i # m
        BY <1>3, <2>1
      <3>2. cs2[i] = cs[i] /\ cs[i] # e /\ cs[i] \in Entries
        BY <1>1, <1>3, <1>4, <2>1, <3>1
      <3>3. es2[cs2[i]] = es[cs[i]]
        BY <1>3, <3>2
      <3>. QED
        BY <1>1, <2>1, <3>2, <3>3 DEF TransientIn
    <2>. QED
      BY <2>1 DEF TransientIn
  <1>9. Waiters(e) \ {t} = {}
    <2>1. ASSUME NEW u \in Threads, u # t, u \in Waiters(e) PROVE FALSE
      <3>1. stack[u] # <<>> /\ Top(u).pc = "waiting" /\ Top(u).entry = e
        BY <2>1 DEF Waiters, At
      <3>2. PICK k2, n2, f2 : HasTop(u, k2, n2, f2)
        BY <3>1, TopIs
      <3>3. n2 \in 1 .. Calls(u) /\ CallAt(u, n2).entry = e
        BY <3>1, <3>2 DEF HasTop
      <3>. QED
        BY <1>6, <2>1, <3>3 DEF NobodyHas
    <2>. QED
      BY <2>1 DEF Waiters
  <1>10. ASSUME NEW x \in Entries \ fr2 PROVE es2[x].nrWaiting = Cardinality(Waiters(x) \ {t})
    <2>1. CASE x = e
      BY <1>3, <1>9, <2>1, FS_EmptySet
    <2>2. CASE x # e
      BY <1>1, <1>3, <2>2
    <2>. QED
      BY <2>1, <2>2
  <1>11. Suits(t, n, cs2, es2, fr2)
    BY <1>3, <1>5, <1>7, <1>8, Zenon DEF Suits
  <1>. QED
    BY <1>2, <1>3, <1>4, <1>6, <1>10, <1>11 DEF Clean

\* Entry e of the table becomes z.
LEMMA UpdateClean ==
  ASSUME LoaderInv, NEW t, NEW k, NEW n, NEW f, HasTop(t, k, n, f),
         NEW e \in Entries, NEW z \in Entry,
         e \notin free => z.nrWaiting = Cardinality(Waiters(e) \ {t}),
         \A x : x # e => t \notin Waiters(x),
         z.status = "notFound" => z.nrWaiting # 0,
         z.status = Status(e) \/ NobodyLoads(t, n, e),
         NEW es, es = Put(entry, e, z)
  PROVE  Clean(t, n, classes, es, free)
  <1>1. TypeOK /\ CallsInv /\ CountInv /\ TableIn(classes, free) /\ TransientIn(classes, entry)
    BY DEF LoaderInv
  <1>2. /\ classes \in [Names -> Entries \cup {NULL}] /\ entry \in [Entries -> Entry]
        /\ free \subseteq Entries
    BY <1>1 DEF TypeOK
  <1>3. es \in [Entries -> Entry] /\ es[e] = z /\ \A x \in Entries : x # e => es[x] = entry[x]
    BY <1>2 DEF Put
  <1>4. ASSUME NEW u \in Threads, NEW d \in 1 .. Calls(u), u = t => d < n
        PROVE  EntryIn(CallAt(u, d), classes, es, free)
    <2>1. PICK c \in Frame : c = CallAt(u, d)
      BY CallTyped
    <2>2. EntryIn(c, classes, entry, free) /\ c.entry \in Entries \cup {NULL}
      BY <1>1, <1>4, <2>1 DEF Frame, CallsInv
    <2>3. c.entry = e => z.status = Status(e) \/ ~Loads(c)
      BY <1>4, <2>1 DEF NobodyLoads
    <2>4. EntryIn(c, classes, es, free)
      <3>1. ASSUME c.entry # NULL, Loads(c) PROVE es[c.entry].status = "loading"
        <4>1. entry[c.entry].status = "loading" /\ c.entry \in Entries
          BY <2>2, <3>1 DEF EntryIn
        <4>. QED
          BY <1>3, <2>3, <3>1, <4>1 DEF Status
      <3>. QED
        BY <2>2, <3>1 DEF EntryIn
    <2>. QED
      BY <2>1, <2>4
  <1>5. TransientIn(classes, es)
    <2>1. ASSUME NEW i \in Names, classes[i] # NULL, es[classes[i]].status = "notFound"
          PROVE  es[classes[i]].nrWaiting > 0
      <3>1. classes[i] \in Entries
        BY <1>2, <2>1
      <3>2. CASE classes[i] = e
        <4>1. z.nrWaiting \in Nat /\ z.nrWaiting # 0
          BY <1>3, <2>1, <3>2 DEF Entry
        <4>2. z.nrWaiting > 0
          BY <4>1
        <4>. QED
          BY <1>3, <3>2, <4>2
      <3>3. CASE classes[i] # e
        BY <1>1, <1>3, <2>1, <3>1, <3>3 DEF TransientIn
      <3>. QED
        BY <3>2, <3>3
    <2>. QED
      BY <2>1 DEF TransientIn
  <1>6. ASSUME NEW x \in Entries \ free PROVE es[x].nrWaiting = Cardinality(Waiters(x) \ {t})
    <2>1. CASE x = e
      BY <1>3, <2>1
    <2>2. CASE x # e
      <3>1. Waiters(x) \ {t} = Waiters(x)
        BY <2>2
      <3>2. es[x] = entry[x]
        BY <1>3, <2>2
      <3>. QED
        BY <1>1, <3>1, <3>2 DEF CountInv
    <2>. QED
      BY <2>1, <2>2
  <1>7. Suits(t, n, classes, es, free)
    BY <1>1, <1>2, <1>3, <1>4, <1>5, Zenon DEF Suits
  <1>. QED
    BY <1>6, <1>7 DEF Clean

\* The entry that the innermost call of t loads or waited on is freed.
LEMMA RemoveClean ==
  ASSUME LoaderInv, NEW t, NEW k, NEW n, NEW f, HasTop(t, k, n, f), NEW e, e = f.entry, e # NULL,
         \A x : x # e => t \notin Waiters(x), NobodyHas(t, n, e),
         NEW es \in [Entries -> Entry], \A x \in Entries \ {e} : es[x] = entry[x],
         NEW cs, cs = Put(classes, f.name, NULL), NEW fr, fr = free \cup {e}
  PROVE  Clean(t, n, cs, es, fr)
  <1>1. TypeOK /\ CallsInv /\ CountInv /\ TableIn(classes, free) /\ TransientIn(classes, entry)
    BY DEF LoaderInv
  <1>2. /\ classes \in [Names -> Entries \cup {NULL}] /\ entry \in [Entries -> Entry]
        /\ free \subseteq Entries
    BY <1>1 DEF TypeOK
  <1>3. f.name \in Names /\ e \in Entries /\ EntryIn(f, classes, entry, free)
    BY DEF HasTop, Frame
  <1>4. /\ cs \in [Names -> Entries \cup {NULL}] /\ fr \subseteq Entries
        /\ cs[f.name] = NULL /\ \A i \in Names : i # f.name => cs[i] = classes[i]
    BY <1>2, <1>3 DEF Put
  <1>5. \A i \in Names : cs[i] # e
    BY <1>3, <1>4 DEF EntryIn
  <1>6. ASSUME NEW u \in Threads, NEW d \in 1 .. Calls(u), u = t => d < n
        PROVE  EntryIn(CallAt(u, d), cs, es, fr)
    <2>1. PICK c \in Frame : c = CallAt(u, d)
      BY CallTyped
    <2>2. EntryIn(c, classes, entry, free) /\ c.entry \in Entries \cup {NULL}
      BY <1>1, <1>6, <2>1 DEF Frame, CallsInv
    <2>3. c.entry # e
      BY <1>6, <2>1 DEF NobodyHas
    <2>4. EntryIn(c, cs, es, fr)
      BY <1>4, <2>2, <2>3 DEF EntryIn
    <2>. QED
      BY <2>1, <2>4
  <1>7. TableIn(cs, fr)
    <2>1. ASSUME NEW i \in Names PROVE cs[i] \notin fr
      <3>1. NULL \notin fr
        BY <1>4, LoaderAssumption
      <3>. QED
        BY <1>1, <1>4, <1>5, <3>1 DEF TableIn
    <2>. QED
      BY <1>1, <1>4, <2>1 DEF TableIn
  <1>8. TransientIn(cs, es)
    <2>1. ASSUME NEW i \in Names, cs[i] # NULL, es[cs[i]].status = "notFound"
          PROVE  es[cs[i]].nrWaiting > 0
      <3>1. cs[i] = classes[i] /\ cs[i] \in Entries \ {e}
        BY <1>4, <1>5, <2>1
      <3>2. es[cs[i]] = entry[classes[i]]
        BY <3>1
      <3>. QED
        BY <1>1, <2>1, <3>1, <3>2 DEF TransientIn
    <2>. QED
      BY <2>1 DEF TransientIn
  <1>9. ASSUME NEW x \in Entries \ fr PROVE es[x].nrWaiting = Cardinality(Waiters(x) \ {t})
    <2>1. x # e /\ x \in Entries \ free
      OBVIOUS
    <2>2. Waiters(x) \ {t} = Waiters(x)
      BY <2>1
    <2>3. es[x] = entry[x]
      BY <2>1
    <2>. QED
      BY <1>1, <2>1, <2>2, <2>3 DEF CountInv
  <1>10. Suits(t, n, cs, es, fr)
    BY <1>4, <1>6, <1>7, <1>8, Zenon DEF Suits
  <1>. QED
    BY <1>9, <1>10 DEF Clean

-----------------------------------------------------------------------------
(* Steps that change the table                                             *)

ZeroedFor(t) == [Zeroed EXCEPT !.loadingThread = t]

LEMMA ZeroedIs ==
  ASSUME NEW t \in Threads
  PROVE  /\ ZeroedFor(t) \in Entry /\ ZeroedFor(t).nrWaiting = 0
         /\ ZeroedFor(t).status = "loading" /\ ZeroedFor(t).loadingThread = t
  BY DEF ZeroedFor, Zeroed, Entry

\* A lookup that found nothing returns, or starts to load with a new entry.
LEMMA NotThereStep ==
  ASSUME LoaderInv, NEW t, NEW k, NEW n, NEW f, HasTop(t, k, n, f), f.pc \in {"find", "waiting"},
         NEW cs, NEW es, NEW fr, Clean(t, n, cs, es, fr), NotThere(t, cs, es, fr),
         UNCHANGED <<asleep, defined>>
  PROVE  LoaderInv'
  <1>0. /\ t \in Threads /\ k \in Nat /\ n = k + 1 /\ n \in Nat /\ Calls(t) = n /\ f = Top(t)
        /\ f \in Frame /\ CallOK(f) /\ f = CallAt(t, n) /\ f.name \in Names /\ f.name = Name(t)
    BY DEF HasTop, Frame, Name
  <1>1. CASE Return(t, NULL) /\ classes' = cs /\ entry' = es /\ free' = fr
    <2>1. asleep' \subseteq asleep \cup {t} /\ NULL \in Class \cup {NULL}
      OBVIOUS
    <2>. QED
      BY <1>1, <2>1, ReturnStep
  <1>2. CASE /\ f.fn = "load"
             /\ \E e \in fr :
                  /\ entry' = [es EXCEPT ![e] = [Zeroed EXCEPT !.loadingThread = t]]
                  /\ free' = fr \ {e}
                  /\ classes' = [cs EXCEPT ![Name(t)] = e]
                  /\ GotoWith(t, "body", e)
    <2>1. PICK z : z = ZeroedFor(t)
      OBVIOUS
    <2>2. PICK e \in fr : /\ entry' = [es EXCEPT ![e] = z]
                          /\ free' = fr \ {e}
                          /\ classes' = [cs EXCEPT ![f.name] = e]
                          /\ GotoWith(t, "body", e)
      BY <1>0, <1>2, <2>1 DEF ZeroedFor
    <2>3. z \in Entry /\ z.nrWaiting = 0 /\ z.status = "loading" /\ z.status # "notFound"
      BY <1>0, <2>1, ZeroedIs
    <2>4. PICK cs2, es2, fr2 :
            cs2 = Put(cs, f.name, e) /\ es2 = Put(es, e, z) /\ fr2 = fr \ {e}
      OBVIOUS
    <2>5. /\ Clean(t, n, cs2, es2, fr2) /\ NobodyHas(t, n, e)
          /\ e \in Entries /\ e # NULL /\ es2[e] = z
          /\ \A i \in Names : cs2[i] = e => i = f.name
      BY <1>0, <2>3, <2>4, AllocClean
    <2>6. PICK g : g = FrameWith(f, "body", e)
      OBVIOUS
    <2>7. g \in Frame /\ g.pc = "body" /\ g.entry = e /\ g.name = f.name /\ g.fn = f.fn
      BY <1>0, <2>5, <2>6 DEF FrameWith, Frame, PC
    <2>8. f.name \notin JavaNames
      BY <1>0, <1>2 DEF CallOK, LookupPCs
    <2>9. CallOK(g) /\ ~Waits(g) /\ Loads(g)
      BY <2>5, <2>7, <2>8 DEF CallOK, Loads, Waits, LoadPCs, LookupPCs
    <2>10. EntryIn(g, cs2, es2, fr2)
      BY <2>3, <2>4, <2>5, <2>7 DEF EntryIn
    <2>11. Fresh(t, n, g, cs2, es2, fr2)
      BY <2>5, <2>7, <2>9, <2>10 DEF Fresh, NobodyHas
    <2>12. EndsIn(t, k, n, g) /\ Ends(t, k, n, g) /\ ret' = ret
      BY <2>2, <2>6, <2>7, <2>9, GotoMoves
    <2>13. k < Calls(t)
      BY <1>0
    <2>14. Moved(t, n, g)
      BY <1>0, <2>12, <2>13, MovedNew DEF EndsIn, Moved
    <2>15. RestOK
      BY <1>0, <2>12, RestIs
    <2>16. classes' = cs2 /\ entry' = es2 /\ free' = fr2
      BY <2>2, <2>4 DEF Put
    <2>. QED
      BY <1>0, <2>5, <2>11, <2>14, <2>15, <2>16, Settles
  <1>. QED
    BY <1>0, <1>1, <1>2 DEF NotThere

\* Thread t starts to wait on the entry of the class it looks for.
LEMMA WaitStep ==
  ASSUME LoaderInv, NEW t, NEW k, NEW n, NEW f, HasTop(t, k, n, f), f.pc = "find",
         NEW e, e = classes[f.name], e # NULL, GotoWith(t, "waiting", e),
         entry' = [entry EXCEPT ![e].nrWaiting = @ + 1], classes' = classes, free' = free,
         asleep' = asleep \cup {t}, defined' = defined
  PROVE  LoaderInv'
  <1>0. /\ t \in Threads /\ k \in Nat /\ n = k + 1 /\ n \in Nat /\ Calls(t) = n /\ f = Top(t)
        /\ f \in Frame /\ CallOK(f) /\ f = CallAt(t, n) /\ f.name \in Names
    BY DEF HasTop, Frame
  <1>1. TypeOK /\ CallsInv /\ CountInv /\ TableIn(classes, free) /\ TransientIn(classes, entry)
    BY DEF LoaderInv
  <1>2. /\ classes \in [Names -> Entries \cup {NULL}] /\ entry \in [Entries -> Entry]
        /\ free \subseteq Entries /\ e \in Entries /\ e \notin free
    BY <1>0, <1>1 DEF TypeOK, TableIn
  <1>3. PICK z : z = [entry[e] EXCEPT !.nrWaiting = @ + 1]
    OBVIOUS
  <1>4. PICK es : es = [entry EXCEPT ![e] = z]
    OBVIOUS
  <1>5. entry' = es
    BY <1>2, <1>3, <1>4
  <1>6. z \in Entry /\ z.status = entry[e].status /\ z.nrWaiting = entry[e].nrWaiting + 1
    BY <1>2, <1>3 DEF Entry
  <1>7. es \in [Entries -> Entry] /\ es[e] = z /\ \A x \in Entries : x # e => es[x] = entry[x]
    BY <1>2, <1>4, <1>6
  <1>8. \A x \in Entries : es[x].status = entry[x].status
    BY <1>6, <1>7
  <1>9. TransientIn(classes, es)
    <2>1. ASSUME NEW i \in Names, classes[i] # NULL, es[classes[i]].status = "notFound"
          PROVE  es[classes[i]].nrWaiting > 0
      <3>1. classes[i] \in Entries
        BY <1>2, <2>1
      <3>2. entry[classes[i]].nrWaiting > 0 /\ entry[classes[i]].nrWaiting \in Nat
        BY <1>1, <1>2, <1>8, <2>1, <3>1 DEF TransientIn, Entry
      <3>3. CASE classes[i] = e
        <4>1. es[classes[i]].nrWaiting = entry[classes[i]].nrWaiting + 1
          BY <1>6, <1>7, <3>3
        <4>. QED
          BY <3>2, <4>1
      <3>4. CASE classes[i] # e
        BY <1>7, <3>1, <3>2, <3>4
      <3>. QED
        BY <3>3, <3>4
    <2>. QED
      BY <2>1 DEF TransientIn
  <1>10. ASSUME NEW u \in Threads, NEW d \in 1 .. Calls(u)
         PROVE  EntryIn(CallAt(u, d), classes, es, free)
    <2>1. PICK c \in Frame : c = CallAt(u, d)
      BY CallTyped
    <2>2. EntryIn(c, classes, entry, free) /\ c.entry \in Entries \cup {NULL}
      BY <1>1, <2>1 DEF Frame, CallsInv
    <2>3. EntryIn(c, classes, es, free)
      BY <1>8, <2>2 DEF EntryIn
    <2>. QED
      BY <2>1, <2>3
  <1>11. Suits(t, n, classes, es, free)
    BY <1>1, <1>2, <1>7, <1>9, <1>10, Zenon DEF Suits
  <1>12. PICK g : g = FrameWith(f, "waiting", e)
    OBVIOUS
  <1>13. g \in Frame /\ g.pc = "waiting" /\ g.entry = e /\ g.name = f.name /\ g.fn = f.fn
    BY <1>0, <1>2, <1>12 DEF FrameWith, Frame, PC
  <1>14. CallOK(g) /\ ~Loads(g)
    BY <1>0, <1>13 DEF CallOK, Loads, Waits, LoadPCs, LookupPCs
  <1>15. EntryIn(g, classes, es, free)
    BY <1>0, <1>1, <1>2, <1>13, <1>14 DEF EntryIn, TableIn
  <1>16. Fresh(t, n, g, classes, es, free)
    BY <1>14, <1>15 DEF Fresh
  <1>17. /\ Ends(t, k, n, g) /\ ret' = ret /\ stack'[t] # <<>> /\ Head(stack'[t]) = g
         /\ \A u \in Threads \ {t} : stack'[u] = stack[u]
    BY <1>12, <1>13, GotoMoves
  <1>18. Goes(t, n, g)
    <2>1. k < Calls(t)
      BY <1>0
    <2>. QED
      BY <1>0, <1>17, <2>1, MovedNew
  <1>19. RestOK
    BY <1>0, <1>17, RestIs
  <1>20. /\ TypeOK' /\ CallsInv' /\ OwnInv'
         /\ TableIn(classes', free') /\ TransientIn(classes', entry')
    BY <1>0, <1>5, <1>11, <1>16, <1>18, <1>19, SettlesCalls
  <1>21. ASSUME NEW x PROVE Waiters(x)' = IF x = e THEN Waiters(x) \cup {t} ELSE Waiters(x)
    <2>1. ASSUME NEW u \in Threads
          PROVE  u \in Waiters(x)' <=> u \in Waiters(x) \/ (x = e /\ u = t)
      <3>1. CASE u = t
        BY <1>0, <1>13, <1>17, <3>1 DEF Waiters, At, Top
      <3>2. CASE u # t
        <4>1. stack'[u] = stack[u]
          BY <1>17, <3>2
        <4>. QED
          BY <3>2, <4>1 DEF Waiters, At, Top
      <3>. QED
        BY <3>1, <3>2
    <2>2. Waiters(x)' \subseteq Threads /\ Waiters(x) \subseteq Threads
      BY DEF Waiters
    <2>. QED
      BY <1>0, <2>1, <2>2
  <1>22. t \notin Waiters(e)
    BY <1>0 DEF Waiters, At
  <1>23. ASSUME NEW x \in Entries \ free PROVE es[x].nrWaiting = Cardinality(Waiters(x)')
    <2>1. entry[x].nrWaiting = Cardinality(Waiters(x))
      BY <1>1 DEF CountInv
    <2>2. CASE x = e
      <3>1. Cardinality(Waiters(e) \cup {t}) = Cardinality(Waiters(e)) + 1
        BY <1>22, WaitersFinite, FS_AddElement
      <3>. QED
        BY <1>6, <1>7, <1>21, <2>1, <2>2, <3>1
    <2>3. CASE x # e
      BY <1>7, <1>21, <2>1, <2>3
    <2>. QED
      BY <2>2, <2>3
  <1>24. CountInv'
    BY <1>5, <1>23 DEF CountInv
  <1>. QED
    BY <1>20, <1>24 DEF LoaderInv

LEMMA FindStep ==
  ASSUME LoaderInv, NEW t \in Threads, Find(t)
  PROVE  LoaderInv'
  <1>0. At(t, "find") /\ stack[t] # <<>> /\ defined' = defined
    BY DEF Find, At
  <1>1. PICK k, n, f : HasTop(t, k, n, f)
    BY <1>0, TopIs
  <1>2. f \in Frame /\ f = Top(t) /\ f.pc = "find" /\ f.name = Name(t) /\ f.name \in Names
    BY <1>0, <1>1 DEF HasTop, At, Name, Frame
  <1>3. Clean(t, n, classes, entry, free)
    BY <1>0, AwakeIs, CleanSame
  <1>4. PICK e : e = classes[f.name]
    OBVIOUS
  <1>5. CASE NotThere(t, classes, entry, free) /\ UNCHANGED asleep
    BY <1>0, <1>1, <1>2, <1>3, <1>5, NotThereStep
  <1>6. CASE /\ e # NULL
             /\ entry' = [entry EXCEPT ![e].nrWaiting = @ + 1]
             /\ asleep' = asleep \cup {t}
             /\ GotoWith(t, "waiting", e)
             /\ UNCHANGED <<classes, free>>
    BY <1>0, <1>1, <1>2, <1>4, <1>6, WaitStep
  <1>7. CASE e # NULL /\ Found(t, e, entry) /\ UNCHANGED asleep
    <2>1. e \in Entries /\ entry[e] \in Entry
      BY <1>2, <1>4, <1>7 DEF LoaderInv, TypeOK
    <2>2. entry[e].status = "notFound" => entry[e].nrWaiting > 0
      BY <1>2, <1>4, <1>7 DEF LoaderInv, TransientIn
    <2>3. ~(entry[e].status = "notFound" /\ entry[e].nrWaiting = 0)
      BY <2>2
    <2>4. /\ Return(t, entry[e].class) /\ entry' = entry /\ UNCHANGED <<classes, free>>
      BY <1>7, <2>3 DEF Found
    <2>5. entry[e].class \in Class \cup {NULL}
      BY <2>1 DEF Entry
    <2>. QED
      BY <1>0, <1>1, <1>3, <1>7, <2>4, <2>5, ReturnStep
  <1>. QED
    BY <1>2, <1>4, <1>5, <1>6, <1>7 DEF Find

\* A thread that waited on entry e, which is z when it has counted itself out;
\* cs and fr are the table and the free memory without the entry.
CountedOut(e) == [entry[e] EXCEPT !.nrWaiting = @ - 1]
OneLess(e) == [entry EXCEPT ![e].nrWaiting = @ - 1]
LastWaiter(z) == z.status = "notFound" /\ z.nrWaiting = 0

LEMMA WaitedIs ==
  ASSUME LoaderInv, NEW t, NEW k, NEW n, NEW f, HasTop(t, k, n, f), f.pc = "waiting",
         NEW e, e = f.entry, NEW z, z = CountedOut(e),
         NEW es, es = Put(entry, e, z), NEW cs, cs = Put(classes, f.name, NULL),
         NEW fr, fr = free \cup {e}
  PROVE  /\ e # NULL /\ e \in Entries /\ z \in Entry /\ z.status = Status(e)
         /\ z.class = entry[e].class /\ z.loadingThread = entry[e].loadingThread
         /\ es = OneLess(e) /\ es[e] = z
         /\ es \in [Entries -> Entry] /\ \A x \in Entries \ {e} : es[x] = entry[x]
         /\ Status(e) # "loading" /\ LastWaiter(z) => NobodyHas(t, n, e) /\ Clean(t, n, cs, es, fr)
         /\ Status(e) # "loading" /\ ~LastWaiter(z) => Clean(t, n, classes, es, free)
  <1>0. At(t, "waiting") /\ stack[t] # <<>> /\ t \in Threads
    <2>1. t \in Threads /\ stack[t] \in Seq(Frame) /\ Len(stack[t]) = n /\ n = k + 1 /\ k \in Nat
      BY DEF HasTop, IsFrames
    <2>2. stack[t] # <<>>
      BY <2>1
    <2>. QED
      BY <2>1, <2>2 DEF HasTop, At
  <1>2. /\ f \in Frame /\ f = Top(t) /\ f.name \in Names
        /\ CallOK(f) /\ EntryIn(f, classes, entry, free)
    BY DEF HasTop, Frame
  <1>4. e # NULL /\ e \in Entries /\ e \notin free
    BY <1>2 DEF CallOK, Waits, EntryIn, Frame
  <1>5. entry \in [Entries -> Entry] /\ entry[e] \in Entry
    BY <1>4 DEF LoaderInv, TypeOK
  <1>6. t \in Waiters(e) /\ \A x : x # e => t \notin Waiters(x)
    BY <1>0, <1>2 DEF Waiters, At
  <1>7. /\ entry[e].nrWaiting = Cardinality(Waiters(e))
        /\ Cardinality(Waiters(e) \ {t}) = Cardinality(Waiters(e)) - 1
        /\ Cardinality(Waiters(e) \ {t}) \in Nat
    <2>1. IsFiniteSet(Waiters(e))
      BY WaitersFinite
    <2>2. IsFiniteSet(Waiters(e) \ {t}) /\ Cardinality(Waiters(e) \ {t}) = Cardinality(Waiters(e)) - 1
      BY <1>6, <2>1, FS_RemoveElement
    <2>3. Cardinality(Waiters(e) \ {t}) \in Nat
      BY <2>2, FS_CardinalityType
    <2>. QED
      BY <1>4, <2>2, <2>3 DEF LoaderInv, CountInv
  <1>8. /\ z.nrWaiting = entry[e].nrWaiting - 1 /\ z.status = Status(e)
        /\ z.class = entry[e].class /\ z.loadingThread = entry[e].loadingThread
    BY <1>5 DEF Entry, Status, CountedOut
  <1>9. z \in Entry /\ z.nrWaiting = Cardinality(Waiters(e) \ {t})
    <2>1. z.nrWaiting \in Nat
      BY <1>7, <1>8
    <2>2. z \in Entry
      BY <1>5, <1>8, <2>1 DEF Entry, CountedOut
    <2>. QED
      BY <1>7, <1>8, <2>2
  <1>11. /\ es = OneLess(e)
         /\ es \in [Entries -> Entry] /\ es[e] = z /\ \A x \in Entries \ {e} : es[x] = entry[x]
    BY <1>4, <1>5, <1>9 DEF Put, CountedOut, OneLess
  <1>13. ASSUME Status(e) # "loading", LastWaiter(z)
         PROVE  NobodyHas(t, n, e) /\ Clean(t, n, cs, es, fr)
    <2>1. NobodyLoads(t, n, e)
      <3>1. ASSUME NEW u \in Threads, NEW d \in 1 .. Calls(u), CallAt(u, d).entry = e, Loads(CallAt(u, d))
            PROVE  FALSE
        <4>1. EntryIn(CallAt(u, d), classes, entry, free)
          BY DEF LoaderInv, CallsInv
        <4>2. Status(e) = "loading"
          BY <1>4, <3>1, <4>1 DEF EntryIn, Status
        <4>. QED
          BY <1>13, <4>2
      <3>. QED
        BY <3>1 DEF NobodyLoads
    <2>2. NobodyHas(t, n, e)
      BY <1>4, <1>9, <1>13, <2>1, NobodyIs DEF LastWaiter
    <2>3. Clean(t, n, cs, es, fr)
      BY <1>4, <1>6, <1>11, <2>2, RemoveClean
    <2>. QED
      BY <2>2, <2>3
  <1>14. ASSUME Status(e) # "loading", ~LastWaiter(z)
         PROVE  Clean(t, n, classes, es, free)
    BY <1>4, <1>6, <1>8, <1>9, <1>14, UpdateClean DEF LastWaiter
  <1>. QED
    BY <1>4, <1>8, <1>9, <1>11, <1>13, <1>14

\* It takes what was loaded or, as the last one, removes an entry that was not found.
LEMMA WaitedStep ==
  ASSUME LoaderInv, NEW t \in Threads, Waited(t)
  PROVE  LoaderInv'
  <1>0. At(t, "waiting") /\ stack[t] # <<>> /\ defined' = defined
    BY DEF Waited, At
  <1>1. PICK k, n, f : HasTop(t, k, n, f)
    BY <1>0, TopIs
  <1>2. /\ f \in Frame /\ f = Top(t) /\ f.pc = "waiting" /\ f.name = Name(t) /\ f.name \in Names
    BY <1>0, <1>1 DEF HasTop, At, Name, Frame
  <1>3. PICK e : e = f.entry
    OBVIOUS
  <1>4. PICK z, es, cs, fr :
          /\ z = CountedOut(e) /\ es = Put(entry, e, z)
          /\ cs = Put(classes, f.name, NULL) /\ fr = free \cup {e}
    OBVIOUS
  <1>5. /\ e # NULL /\ e \in Entries /\ z \in Entry /\ z.status = Status(e)
        /\ es = OneLess(e) /\ es[e] = z
        /\ Status(e) # "loading" /\ LastWaiter(z) => Clean(t, n, cs, es, fr)
        /\ Status(e) # "loading" /\ ~LastWaiter(z) => Clean(t, n, classes, es, free)
    BY <1>1, <1>2, <1>3, <1>4, WaitedIs
  <1>6. CASE Status(e) = "loading"
    <2>1. asleep' = asleep \cup {t} /\ UNCHANGED <<table, stack, ret>>
      BY <1>2, <1>3, <1>6 DEF Waited
    <2>2. TypeOK'
      BY <1>0, <2>1 DEF LoaderInv, TypeOK, table
    <2>3. (CallsInv /\ OwnInv /\ CountInv /\ TableIn(classes, free) /\ TransientIn(classes, entry))'
      BY <2>1 DEF LoaderInv, CallsInv, OwnInv, CountInv, TableIn, TransientIn, table, Calls, CallAt,
                  EntryIn, Waiters, At, Top
    <2>. QED
      BY <2>2, <2>3 DEF LoaderInv
  <1>7. CASE Status(e) # "loading" /\ LastWaiter(z)
    <2>1. /\ NotThere(t, [classes EXCEPT ![f.name] = NULL], es, free \cup {e})
          /\ asleep' = asleep
      BY <1>2, <1>3, <1>5, <1>7 DEF Waited, Found, OneLess, RemoveAndGoOn, LastWaiter
    <2>2. NotThere(t, cs, es, fr)
      BY <1>4, <2>1 DEF Put
    <2>. QED
      BY <1>0, <1>1, <1>2, <1>5, <1>7, <2>1, <2>2, NotThereStep
  <1>8. CASE Status(e) # "loading" /\ ~LastWaiter(z)
    <2>1. /\ Return(t, z.class) /\ entry' = es /\ UNCHANGED <<classes, free, asleep>>
      BY <1>2, <1>3, <1>5, <1>8 DEF Waited, Found, OneLess, LastWaiter
    <2>2. z.class \in Class \cup {NULL}
      BY <1>5 DEF Entry
    <2>. QED
      BY <1>0, <1>1, <1>5, <1>8, <2>1, <2>2, ReturnStep
  <1>. QED
    BY <1>6, <1>7, <1>8

\* The call of t that ends loads into its entry, and no other call does.
LEMMA OwnerIs ==
  ASSUME LoaderInv, NEW t, NEW k, NEW n, NEW f, HasTop(t, k, n, f), f.pc \in {"finish", "failed"},
         f.name \notin JavaNames, NEW e, e = f.entry
  PROVE  /\ e # NULL /\ e \in Entries /\ e \notin free /\ Status(e) = "loading"
         /\ Awake(t) /\ NobodyLoads(t, n, e)
         /\ Waiters(e) \ {t} = Waiters(e) /\ entry[e].nrWaiting = Cardinality(Waiters(e))
  <1>0. /\ t \in Threads /\ n \in Nat /\ Calls(t) = n /\ f = Top(t) /\ n \in 1 .. Calls(t)
        /\ f \in Frame /\ CallOK(f) /\ f = CallAt(t, n) /\ EntryIn(f, classes, entry, free)
    BY DEF HasTop
  <1>1. Loads(f)
    BY DEF Loads, LoadPCs
  <1>2. e # NULL /\ e \in Entries
    BY <1>0, <1>1 DEF CallOK, Frame
  <1>3. e \notin free /\ Status(e) = "loading"
    BY <1>0, <1>1, <1>2 DEF EntryIn, Status
  <1>4. ASSUME NEW u \in Threads, NEW d \in 1 .. Calls(u), u = t => d < n,
               CallAt(u, d).entry = e, Loads(CallAt(u, d))
        PROVE  FALSE
    <2>1. u = t /\ d = n
      BY <1>0, <1>1, <1>4 DEF LoaderInv, OwnInv
    <2>. QED
      BY <1>0, <1>4, <2>1
  <1>5. NobodyLoads(t, n, e)
    BY <1>4 DEF NobodyLoads
  <1>6. Awake(t)
    BY <1>0 DEF Awake, Waiters, At
  <1>7. Waiters(e) \ {t} = Waiters(e)
    BY <1>6 DEF Awake
  <1>8. entry[e].nrWaiting = Cardinality(Waiters(e))
    BY <1>2, <1>3 DEF LoaderInv, CountInv
  <1>. QED
    BY <1>2, <1>3, <1>5, <1>6, <1>7, <1>8

LEMMA NewClassIs ==
  ASSUME LoaderInv, NEW m \in Names
  PROVE  NewClass(m) \in Class /\ NewClass(m) # NULL
  <1>1. defined[m] + 1 \in Nat
    BY DEF LoaderInv, TypeOK
  <1>. QED
    BY <1>1, LoaderAssumption DEF NewClass, Class

LEMMA LoadedStep ==
  ASSUME LoaderInv, NEW t \in Threads, Loaded(t)
  PROVE  LoaderInv'
  <1>0. At(t, "finish") /\ stack[t] # <<>>
    BY DEF Loaded, At
  <1>1. PICK k, n, f : HasTop(t, k, n, f)
    BY <1>0, TopIs
  <1>2. f \in Frame /\ f = Top(t) /\ f.pc = "finish" /\ f.name = Name(t) /\ f.name \in Names
    BY <1>0, <1>1 DEF HasTop, At, Name, Frame
  <1>3. PICK e, v : e = f.entry /\ v = NewClass(f.name)
    OBVIOUS
  <1>4. /\ f.name \notin JavaNames /\ Define(f.name) /\ Return(t, v) /\ asleep' = {}
        /\ entry' = [entry EXCEPT ![e].class = v, ![e].status = "loaded"]
        /\ classes' = classes /\ free' = free
    BY <1>2, <1>3 DEF Loaded
  <1>5. /\ e # NULL /\ e \in Entries /\ e \notin free /\ Status(e) = "loading"
        /\ Awake(t) /\ NobodyLoads(t, n, e)
        /\ Waiters(e) \ {t} = Waiters(e) /\ entry[e].nrWaiting = Cardinality(Waiters(e))
    BY <1>1, <1>2, <1>3, <1>4, OwnerIs
  <1>6. v \in Class \cup {NULL} /\ entry \in [Entries -> Entry] /\ entry[e] \in Entry
    BY <1>2, <1>3, <1>5, NewClassIs DEF LoaderInv, TypeOK
  <1>7. PICK z : z = [entry[e] EXCEPT !.class = v, !.status = "loaded"]
    OBVIOUS
  <1>8. z \in Entry /\ z.status = "loaded" /\ z.nrWaiting = Cardinality(Waiters(e) \ {t})
    BY <1>5, <1>6, <1>7 DEF Entry
  <1>9. PICK es : es = Put(entry, e, z)
    OBVIOUS
  <1>10. entry' = es
    BY <1>4, <1>5, <1>6, <1>7, <1>9 DEF Put
  <1>11. Clean(t, n, classes, es, free)
    <2>1. /\ e \notin free => z.nrWaiting = Cardinality(Waiters(e) \ {t})
          /\ \A x : x # e => t \notin Waiters(x)
          /\ z.status = "notFound" => z.nrWaiting # 0
      BY <1>5, <1>8 DEF Awake
    <2>. QED
      BY <1>1, <1>5, <1>8, <1>9, <2>1, UpdateClean
  <1>12. asleep' \subseteq asleep \cup {t}
    BY <1>4
  <1>. QED
    BY <1>1, <1>2, <1>4, <1>6, <1>10, <1>11, <1>12, ReturnStep

LEMMA NotLoadedStep ==
  ASSUME LoaderInv, NEW t \in Threads, NotLoaded(t)
  PROVE  LoaderInv'
  <1>0. (At(t, "finish") \/ At(t, "failed")) /\ stack[t] # <<>>
    BY DEF NotLoaded, At
  <1>1. PICK k, n, f : HasTop(t, k, n, f)
    BY <1>0, TopIs
  <1>2. /\ f \in Frame /\ f = Top(t) /\ f.pc \in {"finish", "failed"} /\ f.name = Name(t)
        /\ f.name \in Names
    BY <1>0, <1>1 DEF HasTop, At, Name, Frame
  <1>3. PICK e : e = f.entry
    OBVIOUS
  <1>4. f.name \notin JavaNames /\ Return(t, NULL) /\ asleep' = {} /\ defined' = defined
    BY <1>2 DEF NotLoaded
  <1>5. /\ e # NULL /\ e \in Entries /\ e \notin free /\ Status(e) = "loading"
        /\ Awake(t) /\ NobodyLoads(t, n, e)
        /\ Waiters(e) \ {t} = Waiters(e) /\ entry[e].nrWaiting = Cardinality(Waiters(e))
    BY <1>1, <1>2, <1>3, <1>4, OwnerIs
  <1>6. entry \in [Entries -> Entry] /\ entry[e] \in Entry
    BY <1>5 DEF LoaderInv, TypeOK
  <1>7. asleep' \subseteq asleep \cup {t} /\ NULL \in Class \cup {NULL}
    BY <1>4
  <1>8. CASE entry[e].nrWaiting = 0
    <2>1. PICK cs, fr : cs = Put(classes, f.name, NULL) /\ fr = free \cup {e}
      OBVIOUS
    <2>2. classes' = cs /\ free' = fr /\ entry' = entry
      BY <1>2, <1>3, <1>8, <2>1 DEF NotLoaded, Put
    <2>3. NobodyHas(t, n, e)
      BY <1>1, <1>5, <1>8, NobodyIs
    <2>4. \A x : x # e => t \notin Waiters(x)
      BY <1>5 DEF Awake
    <2>5. Clean(t, n, cs, entry, fr)
      BY <1>1, <1>3, <1>5, <1>6, <2>1, <2>3, <2>4, RemoveClean
    <2>. QED
      BY <1>1, <1>4, <1>7, <2>2, <2>5, ReturnStep
  <1>9. CASE entry[e].nrWaiting # 0
    <2>1. PICK z : z = [entry[e] EXCEPT !.status = "notFound"]
      OBVIOUS
    <2>2. /\ z \in Entry /\ z.status = "notFound" /\ z.nrWaiting = Cardinality(Waiters(e) \ {t})
          /\ z.nrWaiting # 0
      BY <1>5, <1>6, <1>9, <2>1 DEF Entry
    <2>3. PICK es : es = Put(entry, e, z)
      OBVIOUS
    <2>4. entry' = es /\ classes' = classes /\ free' = free
      BY <1>2, <1>3, <1>5, <1>6, <1>9, <2>1, <2>3 DEF Put, NotLoaded
    <2>5. \A x : x # e => t \notin Waiters(x)
      BY <1>5 DEF Awake
    <2>6. Clean(t, n, classes, es, free)
      BY <1>1, <1>5, <2>2, <2>3, <2>5, UpdateClean
    <2>. QED
      BY <1>1, <1>4, <1>7, <2>4, <2>6, ReturnStep
  <1>. QED
    BY <1>8, <1>9

LEMMA AddToCacheStep ==
  ASSUME LoaderInv, NEW t \in Threads, AddToCache(t)
  PROVE  LoaderInv'
  <1>0. At(t, "finish") /\ stack[t] # <<>>
    BY DEF AddToCache, At
  <1>1. PICK k, n, f : HasTop(t, k, n, f)
    BY <1>0, TopIs
  <1>2. f \in Frame /\ f = Top(t) /\ f.pc = "finish" /\ f.name = Name(t) /\ f.name \in Names
    BY <1>0, <1>1 DEF HasTop, At, Name, Frame
  <1>3. PICK v : v = NewClass(f.name)
    OBVIOUS
  <1>4. PICK z : z = [Zeroed EXCEPT !.class = v, !.status = "loaded", !.loadingThread = t]
    OBVIOUS
  <1>5. PICK e \in free :
          /\ entry' = Put(entry, e, z) /\ free' = free \ {e} /\ classes' = Put(classes, f.name, e)
    BY <1>2, <1>3, <1>4 DEF AddToCache, Put
  <1>6. Define(f.name) /\ Return(t, v) /\ asleep' = asleep
    BY <1>2, <1>3 DEF AddToCache
  <1>7. v \in Class \cup {NULL}
    BY <1>2, <1>3, NewClassIs
  <1>8. z \in Entry /\ z.nrWaiting = 0 /\ z.status # "notFound"
    BY <1>4, <1>7 DEF Zeroed, Entry
  <1>9. Clean(t, n, classes, entry, free)
    BY <1>0, AwakeIs, CleanSame
  <1>10. PICK cs, es, fr : es = Put(entry, e, z) /\ fr = free \ {e} /\ cs = Put(classes, f.name, e)
    OBVIOUS
  <1>11. Clean(t, n, cs, es, fr)
    BY <1>1, <1>2, <1>8, <1>9, <1>10, AllocClean
  <1>12. classes' = cs /\ entry' = es /\ free' = fr /\ asleep' \subseteq asleep \cup {t}
    BY <1>5, <1>6, <1>10
  <1>. QED
    BY <1>1, <1>2, <1>6, <1>7, <1>11, <1>12, ReturnStep

LEMMA SpuriousStep ==
  ASSUME LoaderInv, NEW t \in Threads, SpuriousWakeup(t)
  PROVE  LoaderInv'
  <1>1. asleep' = asleep \ {t} /\ UNCHANGED <<table, stack, ret, defined>>
    BY DEF SpuriousWakeup
  <1>2. TypeOK'
    BY <1>1 DEF LoaderInv, TypeOK, table
  <1>3. (CallsInv /\ OwnInv /\ CountInv /\ TableIn(classes, free) /\ TransientIn(classes, entry))'
    BY <1>1 DEF LoaderInv, CallsInv, OwnInv, CountInv, TableIn, TransientIn, table, Calls, CallAt,
                EntryIn, Waiters, At, Top
  <1>. QED
    BY <1>2, <1>3 DEF LoaderInv

LEMMA StutterStep ==
  ASSUME LoaderInv, UNCHANGED vars
  PROVE  LoaderInv'
  <1>1. TypeOK'
    BY DEF LoaderInv, TypeOK, vars, table
  <1>2. (CallsInv /\ OwnInv /\ CountInv /\ TableIn(classes, free) /\ TransientIn(classes, entry))'
    BY DEF LoaderInv, CallsInv, OwnInv, CountInv, TableIn, TransientIn, vars, table, Calls, CallAt,
           EntryIn, Waiters, At, Top
  <1>. QED
    BY <1>1, <1>2 DEF LoaderInv

LEMMA InitLoader ==
  ASSUME Init PROVE LoaderInv
  <1>1. ASSUME NEW t \in Threads PROVE stack[t] = <<>> /\ Calls(t) = 0 /\ 1 .. Calls(t) = {}
    <2>1. stack[t] = <<>> /\ Len(stack[t]) = 0
      BY DEF Init
    <2>. QED
      BY <2>1 DEF Calls
  <1>2. TypeOK
    <2>1. Zeroed \in Entry
      BY DEF Zeroed, Entry
    <2>2. <<>> \in Seq(Frame)
      OBVIOUS
    <2>. QED
      BY <2>1, <2>2 DEF Init, TypeOK
  <1>3. CallsInv /\ OwnInv
    BY <1>1 DEF CallsInv, OwnInv
  <1>4. CountInv
    BY DEF CountInv, Init
  <1>5. TableIn(classes, free) /\ TransientIn(classes, entry)
    BY LoaderAssumption DEF Init, TableIn, TransientIn
  <1>. QED
    BY <1>2, <1>3, <1>4, <1>5 DEF LoaderInv

LEMMA LoaderStep ==
  ASSUME LoaderInv, [Next]_vars PROVE LoaderInv'
  <1>1. CASE UNCHANGED vars
    BY <1>1, StutterStep
  <1>2. CASE Next
    <2>1. PICK t \in Threads :
            \/ Step(t)
            \/ SpuriousWakeup(t)
            \/ \E f \in {"load", "query"}, n \in Names : Request(t, f, n)
      BY <1>2 DEF Next
    <2>2. CASE SpuriousWakeup(t)
      BY <2>2, SpuriousStep
    <2>3. CASE \E f \in {"load", "query"}, n \in Names : Request(t, f, n)
      BY <2>3, RequestStep
    <2>4. CASE Step(t)
      BY <2>4, StartStep, FindStep, WaitedStep, BodyStep, LoadedStep, NotLoadedStep,
         AddToCacheStep, JavaReturnStep DEF Step
    <2>. QED
      BY <2>1, <2>2, <2>3, <2>4
  <1>. QED
    BY <1>1, <1>2

\* Every call and every entry of the table keeps to LoaderInv, whatever threads
\* do in classloader_load, find_class and classloader_add_to_cache.
THEOREM LoaderInvariant == Spec => []LoaderInv
  BY InitLoader, LoaderStep, PTL DEF Spec

\* Every variable of the class loader keeps its type.
THEOREM LoaderTypes == Spec => []TypeOK
  <1>1. LoaderInv => TypeOK
    BY DEF LoaderInv
  <1>. QED
    BY <1>1, LoaderInvariant, PTL

LEMMA InUse ==
  ASSUME LoaderInv PROVE EntriesInUse
  <1>1. \A e \in Entries \ free : entry[e].nrWaiting = Cardinality(Waiters(e))
    BY DEF LoaderInv, CountInv
  <1>2. ASSUME NEW t \in Threads, NEW i \in DOMAIN stack[t] PROVE stack[t][i].entry \notin free
    <2>0. stack[t] \in Seq(Frame) /\ Calls(t) \in Nat /\ Calls(t) = Len(stack[t])
      BY StackTyped DEF Calls
    <2>1. i \in 1 .. Calls(t)
      BY <2>0
    <2>2. PICK d : d = Calls(t) + 1 - i
      OBVIOUS
    <2>3. d \in 1 .. Calls(t) /\ Calls(t) + 1 - d = i
      BY <2>0, <2>1, <2>2
    <2>4. CallAt(t, d) = stack[t][i]
      BY <2>0, <2>3 DEF CallAt, FrameAt
    <2>5. EntryIn(CallAt(t, d), classes, entry, free)
      BY <2>3 DEF LoaderInv, CallsInv
    <2>6. NULL \notin free
      BY LoaderAssumption DEF LoaderInv, TypeOK
    <2>. QED
      BY <2>4, <2>5, <2>6 DEF EntryIn
  <1>. QED
    BY <1>1, <1>2 DEF EntriesInUse

\* nr_waiting is the number of threads that wait on an entry, and an entry that a
\* call waits on or loads into is never freed: find_class and classloader_load
\* remove an entry only when nobody else refers to it.
THEOREM EntriesStayInUse == Spec => []EntriesInUse
  BY InUse, LoaderInvariant, PTL

\* A class that was not found is in the table only while threads wait for it: the
\* last of them, or classloader_load when there is none, removes the entry.
THEOREM FailuresLeaveTheTable == Spec => []NotFoundIsTransient
  <1>1. LoaderInv => NotFoundIsTransient
    BY DEF LoaderInv, TransientIn, NotFoundIsTransient, Status
  <1>. QED
    BY <1>1, LoaderInvariant, PTL

-----------------------------------------------------------------------------
(* One class per name: a step of one thread                                *)

\* Thread t keeps its calls under depth n, its call at depth n goes on as g, and
\* h may be a new call, at depth m = n + 1.
Stepped(t, n, m, g, h) ==
  /\ n \in Nat /\ m = n + 1 /\ Calls(t) \in Nat /\ n <= Calls(t)
  /\ Calls(t)' = n \/ (Calls(t)' = m /\ CallAt(t, m)' = h)
  /\ n # 0 => CallAt(t, n)' = g
  /\ \A d \in 1 .. n : d < n => CallAt(t, d)' = CallAt(t, d)
  /\ \A u \in Threads \ {t} : Calls(u)' = Calls(u) /\ \A d : CallAt(u, d)' = CallAt(u, d)

LEMMA SteppedCases ==
  ASSUME NEW t \in Threads, NEW n, NEW m, NEW g, NEW h, Stepped(t, n, m, g, h),
         NEW u \in Threads, NEW d \in 1 .. Calls(u)'
  PROVE  \/ d \in 1 .. Calls(u) /\ CallAt(u, d)' = CallAt(u, d) /\ (u = t => d < n)
         \/ u = t /\ d = n /\ n \in 1 .. Calls(t) /\ CallAt(u, d)' = g
         \/ u = t /\ d = m /\ CallAt(u, d)' = h /\ Calls(t)' = m
  <1>1. CASE u # t
    BY <1>1 DEF Stepped
  <1>2. CASE u = t
    <2>0. /\ n \in Nat /\ m = n + 1 /\ Calls(t) \in Nat /\ n <= Calls(t)
          /\ Calls(t)' = n \/ (Calls(t)' = m /\ CallAt(t, m)' = h)
          /\ n # 0 => CallAt(t, n)' = g
          /\ \A b \in 1 .. n : b < n => CallAt(t, b)' = CallAt(t, b)
      BY DEF Stepped
    <2>1. CASE d < n
      <3>1. d \in 1 .. n /\ d \in 1 .. Calls(t)
        BY <1>2, <2>0, <2>1
      <3>. QED
        BY <1>2, <2>0, <2>1, <3>1
    <2>2. CASE d = n
      <3>1. n # 0 /\ n \in 1 .. Calls(t)
        BY <1>2, <2>0, <2>2
      <3>. QED
        BY <1>2, <2>0, <2>2, <3>1
    <2>3. CASE ~(d < n) /\ d # n
      <3>1. d = m /\ Calls(t)' = m
        BY <1>2, <2>0, <2>3
      <3>. QED
        BY <1>2, <2>0, <3>1
    <2>. QED
      BY <2>1, <2>2, <2>3
  <1>. QED
    BY <1>1, <1>2

\* What the call that goes on keeps
GoesOn(t, n, m, g, h) ==
  n # 0 =>
    /\ g.name = CallAt(t, n).name /\ g.fn = CallAt(t, n).fn
    /\ g.fn = "query" => g.pc \in {"find", "waiting"}
    /\ g.pc = "javaCall" => Calls(t)' = m /\ h.fn = "query" /\ h.name = g.name
    /\ InLoader(g) => InLoader(CallAt(t, n)) \/ LoaderFree(t)

IsNew(h) ==
  /\ h.entry = NULL /\ h.fn \in {"load", "query"}
  /\ h.pc = IF h.fn = "load" THEN "start" ELSE "find"

\* A new call is for a class of smaller rank.
Inner(rank, t, n, m, h) ==
  /\ IsNew(h)
  /\ Calls(t)' = m /\ h.fn = "load" =>
       \A d \in 1 .. n : rank[h.name] < rank[CallAt(t, d).name]

LEMMA NestingStep ==
  ASSUME NEW rank, NestingInv(rank), NEW t \in Threads, NEW n, NEW m, NEW g, NEW h,
         Stepped(t, n, m, g, h), GoesOn(t, n, m, g, h), Inner(rank, t, n, m, h)
  PROVE  NestingInv(rank)'
  <1>0. /\ n \in Nat /\ m = n + 1 /\ Calls(t) \in Nat /\ n <= Calls(t)
        /\ Calls(t)' = n \/ Calls(t)' = m
    BY DEF Stepped
  <1>1. ASSUME NEW u \in Threads, NEW d \in 1 .. Calls(u)'
        PROVE  /\ CallAt(u, d)'.fn = "query" => CallAt(u, d)'.pc \in {"find", "waiting"}
               /\ CallAt(u, d)'.pc = "javaCall" => d < Calls(u)'
    <2>1. CASE d \in 1 .. Calls(u) /\ CallAt(u, d)' = CallAt(u, d) /\ (u = t => d < n)
      <3>1. /\ CallAt(u, d).fn = "query" => CallAt(u, d).pc \in {"find", "waiting"}
            /\ CallAt(u, d).pc = "javaCall" => d < Calls(u)
        BY <2>1 DEF NestingInv
      <3>2. CASE u = t
        <4>1. d < Calls(u)'
          BY <1>0, <2>1, <3>2
        <4>. QED
          BY <2>1, <3>1, <4>1
      <3>3. CASE u # t
        BY <2>1, <3>1, <3>3 DEF Stepped
      <3>. QED
        BY <3>2, <3>3
    <2>2. CASE u = t /\ d = n /\ n \in 1 .. Calls(t) /\ CallAt(u, d)' = g
      <3>1. n # 0 /\ n < m
        BY <1>0, <2>2
      <3>. QED
        BY <2>2, <3>1 DEF GoesOn
    <2>3. CASE u = t /\ d = m /\ CallAt(u, d)' = h /\ Calls(t)' = m
      BY <2>3 DEF Inner, IsNew
    <2>. QED
      BY <2>1, <2>2, <2>3, SteppedCases
  <1>2. ASSUME NEW u \in Threads, NEW d \in 1 .. Calls(u)', NEW b \in 1 .. Calls(u)', d < b
        PROVE  /\ CallAt(u, b)'.fn = "load" =>
                    rank[CallAt(u, b)'.name] < rank[CallAt(u, d)'.name]
               /\ b = d + 1 /\ CallAt(u, d)'.pc = "javaCall" =>
                    CallAt(u, b)'.fn = "query" /\ CallAt(u, b)'.name = CallAt(u, d)'.name
    <2>1. CASE u # t
      <3>1. /\ Calls(u)' = Calls(u) /\ CallAt(u, d)' = CallAt(u, d) /\ CallAt(u, b)' = CallAt(u, b)
        BY <2>1 DEF Stepped
      <3>. QED
        BY <1>2, <3>1 DEF NestingInv
    <2>2. CASE u = t /\ b = m
      <3>1. CallAt(t, b)' = h /\ Calls(t)' = m /\ d \in 1 .. n
        <4>1. Calls(t)' = m
          BY <1>0, <2>2
        <4>2. CallAt(t, m)' = h
          BY <1>0, <4>1 DEF Stepped
        <4>. QED
          BY <1>0, <1>2, <2>2, <4>1, <4>2
      <3>2. CallAt(t, d)'.name = CallAt(t, d).name
        <4>1. CASE d = n
          <5>1. n # 0
            BY <1>0, <4>1
          <5>. QED
            BY <4>1, <5>1 DEF GoesOn, Stepped
        <4>2. CASE d # n
          <5>1. d < n
            BY <1>0, <3>1, <4>2
          <5>. QED
            BY <3>1, <5>1 DEF Stepped
        <4>. QED
          BY <4>1, <4>2
      <3>3. h.fn = "load" => rank[h.name] < rank[CallAt(t, d).name]
        BY <3>1 DEF Inner
      <3>4. ASSUME b = d + 1, CallAt(t, d)'.pc = "javaCall"
            PROVE  h.fn = "query" /\ h.name = CallAt(t, d)'.name
        <4>1. d = n /\ n # 0
          BY <1>0, <2>2, <3>1, <3>4
        <4>2. CallAt(t, d)' = g
          BY <4>1 DEF Stepped
        <4>. QED
          BY <3>4, <4>1, <4>2 DEF GoesOn
      <3>. QED
        BY <2>2, <3>1, <3>2, <3>3, <3>4
    <2>3. CASE u = t /\ b # m
      <3>1. b \in 1 .. n /\ d \in 1 .. n /\ d < n /\ d \in 1 .. Calls(t) /\ b \in 1 .. Calls(t)
        BY <1>0, <1>2, <2>3
      <3>2. CallAt(t, d)' = CallAt(t, d)
        BY <3>1 DEF Stepped
      <3>3. CallAt(t, b)'.name = CallAt(t, b).name /\ CallAt(t, b)'.fn = CallAt(t, b).fn
        <4>1. CASE b = n
          <5>1. n # 0
            BY <1>0, <3>1, <4>1
          <5>. QED
            BY <4>1, <5>1 DEF GoesOn, Stepped
        <4>2. CASE b # n
          <5>1. b < n
            BY <1>0, <3>1, <4>2
          <5>. QED
            BY <3>1, <5>1 DEF Stepped
        <4>. QED
          BY <4>1, <4>2
      <3>4. /\ CallAt(t, b).fn = "load" => rank[CallAt(t, b).name] < rank[CallAt(t, d).name]
            /\ b = d + 1 /\ CallAt(t, d).pc = "javaCall" =>
                 CallAt(t, b).fn = "query" /\ CallAt(t, b).name = CallAt(t, d).name
        BY <1>2, <3>1 DEF NestingInv
      <3>. QED
        BY <2>3, <3>2, <3>3, <3>4
    <2>. QED
      BY <2>1, <2>2, <2>3
  <1>3. \A u \in Threads : \A d, b \in 1 .. Calls(u)' : b = d + 1 => d < b
    <2>1. ASSUME NEW u \in Threads, NEW d \in 1 .. Calls(u)', NEW b \in 1 .. Calls(u)', b = d + 1
          PROVE  d < b
      BY <2>1
    <2>. QED
      BY <2>1
  <1>. QED
    BY <1>1, <1>2, <1>3, Zenon DEF NestingInv

LEMMA MonitorStep ==
  ASSUME LoaderInv, MonitorInv, NEW t \in Threads, NEW n, NEW m, NEW g, NEW h,
         Stepped(t, n, m, g, h), GoesOn(t, n, m, g, h), IsNew(h)
  PROVE  MonitorInv'
  <1>1. ASSUME LoaderFree(t), NEW u \in Threads, u # t, NEW d \in 1 .. Calls(u)
        PROVE  ~InLoader(CallAt(u, d))
    <2>0. stack[u] \in Seq(Frame) /\ Calls(u) \in Nat /\ Calls(u) = Len(stack[u])
      BY StackTyped DEF Calls
    <2>1. PICK i : i = Calls(u) + 1 - d
      OBVIOUS
    <2>2. i \in 1 .. Calls(u)
      BY <2>0, <2>1
    <2>3. i \in DOMAIN stack[u] /\ CallAt(u, d) = stack[u][i]
      BY <2>0, <2>1, <2>2 DEF CallAt, FrameAt
    <2>. QED
      BY <1>1, <2>3 DEF LoaderFree, InLoader
  <1>2. ASSUME NEW u \in Threads, NEW d \in 1 .. Calls(u)', InLoader(CallAt(u, d)')
        PROVE  \/ \E b \in 1 .. Calls(u) : InLoader(CallAt(u, b))
               \/ u = t /\ LoaderFree(t)
    <2>1. CASE d \in 1 .. Calls(u) /\ CallAt(u, d)' = CallAt(u, d)
      BY <1>2, <2>1
    <2>2. CASE u = t /\ d = n /\ n \in 1 .. Calls(t) /\ CallAt(u, d)' = g
      <3>1. n # 0
        BY <2>2
      <3>. QED
        BY <1>2, <2>2, <3>1 DEF GoesOn
    <2>3. CASE u = t /\ CallAt(u, d)' = h
      BY <1>2, <2>3 DEF IsNew, InLoader
    <2>. QED
      BY <2>1, <2>2, <2>3, SteppedCases
  <1>3. ASSUME NEW u \in Threads, NEW v \in Threads, NEW d \in 1 .. Calls(u)', NEW b \in 1 .. Calls(v)',
               InLoader(CallAt(u, d)'), InLoader(CallAt(v, b)')
        PROVE  u = v
    <2>1. /\ \/ \E a \in 1 .. Calls(u) : InLoader(CallAt(u, a))
             \/ u = t /\ LoaderFree(t)
          /\ \/ \E a \in 1 .. Calls(v) : InLoader(CallAt(v, a))
             \/ v = t /\ LoaderFree(t)
      BY <1>2, <1>3
    <2>. QED
      BY <1>1, <2>1 DEF MonitorInv
  <1>. QED
    BY <1>3 DEF MonitorInv, InLoader

\* The calls that do not move keep their entry and do not see their class defined.
KeepsCalls(t, n) ==
  \A u \in Threads : \A d \in 1 .. Calls(u) : (u = t => d < n) =>
    /\ CallAt(u, d).entry # NULL => classes'[CallAt(u, d).name] = CallAt(u, d).entry
    /\ CallAt(u, d).pc \in BodyPCs => defined'[CallAt(u, d).name] = 0

\* So does the call that goes on.
GoodCall(g) ==
  /\ g.entry # NULL => classes'[g.name] = g.entry
  /\ g.pc \in BodyPCs => defined'[g.name] = 0
  /\ Waits(g) => g.name \notin JavaNames

LEMMA TogetherStep ==
  ASSUME TogetherInv, NEW t \in Threads, NEW n, NEW m, NEW g, NEW h,
         Stepped(t, n, m, g, h), IsNew(h), KeepsCalls(t, n), n # 0 => GoodCall(g)
  PROVE  TogetherInv'
  <1>1. ASSUME NEW u \in Threads, NEW d \in 1 .. Calls(u)'
        PROVE  /\ CallAt(u, d)'.entry # NULL => classes'[CallAt(u, d)'.name] = CallAt(u, d)'.entry
               /\ CallAt(u, d)'.pc \in BodyPCs => defined'[CallAt(u, d)'.name] = 0
               /\ Waits(CallAt(u, d)') => CallAt(u, d)'.name \notin JavaNames
    <2>1. CASE d \in 1 .. Calls(u) /\ CallAt(u, d)' = CallAt(u, d) /\ (u = t => d < n)
      BY <2>1 DEF KeepsCalls, TogetherInv
    <2>2. CASE u = t /\ d = n /\ n \in 1 .. Calls(t) /\ CallAt(u, d)' = g
      <3>1. n # 0
        BY <2>2
      <3>. QED
        BY <2>2, <3>1 DEF GoodCall
    <2>3. CASE u = t /\ d = m /\ CallAt(u, d)' = h
      BY <2>3 DEF IsNew, BodyPCs, Waits
    <2>. QED
      BY <2>1, <2>2, <2>3, SteppedCases
  <1>. QED
    BY <1>1 DEF TogetherInv, HasItsEntry, NotDefinedYet, Waits

\* The call at depth n still loads into its entry.
LoadsOn(t, n, g) == n # 0 /\ Loads(g) /\ g.entry = CallAt(t, n).entry

\* What is `loading' after the step was so before, and its loader is left, or it is
\* what g loads.
KeepsLoading(t, n, g) ==
  \A i \in Names : classes'[i] # NULL /\ entry'[classes'[i]].status = "loading" =>
    \/ /\ n # 0 /\ Loads(g) /\ g.entry = classes'[i]
       /\ entry'[classes'[i]].loadingThread = t
    \/ /\ classes[i] = classes'[i] /\ Status(classes[i]) = "loading"
       /\ entry'[classes'[i]].loadingThread = entry[classes[i]].loadingThread
       /\ \A d \in 1 .. Calls(t) :
            Loads(CallAt(t, d)) /\ CallAt(t, d).entry = classes[i] =>
              d < n \/ (d = n /\ LoadsOn(t, n, g))

LEMMA LoadingStep ==
  ASSUME LoadingInv, NEW t \in Threads, NEW n, NEW m, NEW g, NEW h,
         Stepped(t, n, m, g, h), KeepsLoading(t, n, g)
  PROVE  LoadingInv'
  <1>0. /\ n \in Nat /\ m = n + 1 /\ Calls(t) \in Nat /\ n <= Calls(t)
        /\ Calls(t)' = n \/ Calls(t)' = m
        /\ n # 0 => CallAt(t, n)' = g
        /\ \A d \in 1 .. n : d < n => CallAt(t, d)' = CallAt(t, d)
        /\ \A u \in Threads \ {t} : Calls(u)' = Calls(u) /\ \A d : CallAt(u, d)' = CallAt(u, d)
    BY DEF Stepped
  <1>1. n # 0 => n \in 1 .. Calls(t)'
    BY <1>0
  <1>2. ASSUME NEW i \in Names, classes'[i] # NULL, entry'[classes'[i]].status = "loading"
        PROVE  \E u \in Threads :
                 /\ u = entry'[classes'[i]].loadingThread
                 /\ \E d \in 1 .. Calls(u)' : Loads(CallAt(u, d)') /\ CallAt(u, d)'.entry = classes'[i]
    <2>1. CASE /\ n # 0 /\ Loads(g) /\ g.entry = classes'[i]
               /\ entry'[classes'[i]].loadingThread = t
      <3>1. n \in 1 .. Calls(t)' /\ CallAt(t, n)' = g
        BY <1>0, <1>1, <2>1
      <3>. QED
        BY <2>1, <3>1
    <2>2. CASE /\ classes[i] = classes'[i] /\ Status(classes[i]) = "loading"
               /\ entry'[classes'[i]].loadingThread = entry[classes[i]].loadingThread
               /\ \A d \in 1 .. Calls(t) :
                    Loads(CallAt(t, d)) /\ CallAt(t, d).entry = classes[i] =>
                      d < n \/ (d = n /\ LoadsOn(t, n, g))
      <3>1. PICK u \in Threads : u = entry[classes[i]].loadingThread /\ LoadsInto(u, classes[i])
        BY <1>2, <2>2 DEF LoadingInv
      <3>2. PICK d \in 1 .. Calls(u) : Loads(CallAt(u, d)) /\ CallAt(u, d).entry = classes[i]
        BY <3>1 DEF LoadsInto
      <3>3. d \in 1 .. Calls(u)' /\ Loads(CallAt(u, d)') /\ CallAt(u, d)'.entry = classes'[i]
        <4>1. CASE u # t
          BY <1>0, <2>2, <3>2, <4>1
        <4>2. CASE u = t /\ d < n
          <5>1. d \in 1 .. n /\ d \in 1 .. Calls(t)'
            BY <1>0, <3>2, <4>2
          <5>2. CallAt(t, d)' = CallAt(t, d)
            BY <1>0, <4>2, <5>1
          <5>. QED
            BY <2>2, <3>2, <4>2, <5>1, <5>2
        <4>3. CASE u = t /\ d = n /\ LoadsOn(t, n, g)
          <5>1. n # 0 /\ Loads(g) /\ g.entry = CallAt(t, n).entry /\ CallAt(t, n)' = g
            BY <1>0, <4>3 DEF LoadsOn
          <5>. QED
            BY <1>1, <2>2, <3>2, <4>3, <5>1
        <4>. QED
          BY <2>2, <3>2, <4>1, <4>2, <4>3
      <3>. QED
        BY <2>2, <3>1, <3>3
    <2>. QED
      BY <1>2, <2>1, <2>2 DEF KeepsLoading
  <1>. QED
    BY <1>2 DEF LoadingInv, LoadsInto, Status, Loads

LEMMA OnceStep ==
  ASSUME NEW rank, OnceInv(rank), NEW t \in Threads, NEW n, NEW m, NEW g, NEW h,
         Stepped(t, n, m, g, h), GoesOn(t, n, m, g, h), Inner(rank, t, n, m, h),
         KeepsCalls(t, n), n # 0 => GoodCall(g), KeepsLoading(t, n, g), LoaderInv', DefinedInv'
  PROVE  OnceInv(rank)'
  <1>1. LoaderInv /\ NestingInv(rank) /\ TogetherInv /\ LoadingInv /\ MonitorInv /\ IsNew(h)
    BY DEF OnceInv, Inner
  <1>2. NestingInv(rank)'
    BY <1>1, NestingStep
  <1>3. TogetherInv'
    BY <1>1, TogetherStep
  <1>4. LoadingInv'
    BY <1>1, LoadingStep
  <1>5. MonitorInv'
    BY <1>1, MonitorStep
  <1>. QED
    BY <1>2, <1>3, <1>4, <1>5 DEF OnceInv

\* The innermost call goes on.
LEMMA TopStepped ==
  ASSUME NEW t, NEW k, NEW n, NEW f, HasTop(t, k, n, f), NEW g, Ends(t, k, n, g), NEW m, m = n + 1, NEW h
  PROVE  Stepped(t, n, m, g, h)
  <1>1. /\ k \in Nat /\ n = k + 1 /\ n \in Nat /\ Calls(t) = n
    BY DEF HasTop
  <1>2. \A d \in 1 .. n : d < n => d \in 1 .. k
    BY <1>1
  <1>3. /\ Calls(t)' = n /\ CallAt(t, n)' = g
        /\ \A d \in 1 .. k : CallAt(t, d)' = CallAt(t, d)
        /\ \A u \in Threads \ {t} : Calls(u)' = Calls(u) /\ \A d : CallAt(u, d)' = CallAt(u, d)
    BY DEF Ends
  <1>4. n <= Calls(t)
    BY <1>1
  <1>. QED
    BY <1>1, <1>2, <1>3, <1>4, Zenon DEF Stepped

\* What a call is after an inner one returned v
Resumes(g, c, v) ==
  /\ Like(g, c) /\ ~Waits(g) /\ g.pc # "javaCall" /\ (InLoader(g) => InLoader(c))
  /\ g.pc \in BodyPCs => c.pc \in BodyPCs \/ (c.pc = "javaCall" /\ v = NULL)
  /\ c.pc \in CallPCs

LEMMA ResumedOnce ==
  ASSUME NEW c \in Frame, CallOK(c), c.pc \in CallPCs, NEW v,
         NEW g, g = [c EXCEPT !.pc = Resume(c.pc, v)]
  PROVE  g \in Frame /\ Resumes(g, c, v)
  <1>1. PICK p \in {"return", "find", "failed", "finish", "body"} :
          /\ p = Resume(c.pc, v)
          /\ c.pc = "beforeCall" => p \in {"return", "find"}
          /\ c.pc = "bodyCall" => p \in {"failed", "finish"}
          /\ c.pc = "javaCall" => p \in {"body", "return"}
          /\ c.pc = "javaCall" /\ p = "body" => v = NULL
    BY DEF Resume, CallPCs
  <1>2. g \in Frame /\ g.pc = p /\ g.name = c.name /\ g.entry = c.entry /\ g.fn = c.fn
    BY <1>1 DEF Frame, PC
  <1>3. Like(g, c) /\ ~Waits(g)
    BY Resumed
  <1>. QED
    BY <1>1, <1>2, <1>3 DEF Resumes, InLoader, BodyPCs, CallPCs

LEMMA ReturnStepped ==
  ASSUME LoaderInv, NEW t, NEW k, NEW n, NEW f, HasTop(t, k, n, f), NEW v, Return(t, v), NEW h
  PROVE  /\ Calls(t)' = k
         /\ \E g : Stepped(t, k, n, g, h) /\ (k # 0 => Resumes(g, CallAt(t, k), v))
  <1>0. /\ t \in Threads /\ k \in Nat /\ n = k + 1 /\ n \in Nat /\ IsFrames(stack[t], n)
        /\ Calls(t) = n /\ stack[t] \in Seq(Frame) /\ Len(stack[t]) = n /\ k <= n
    BY DEF HasTop, IsFrames
  <1>1. StackOK
    BY <1>0, StackTyped
  <1>2. CASE k = 0
    <2>1. PICK r : r = <<>>
      OBVIOUS
    <2>2. Becomes(t, r)
      BY <1>0, <1>2, <2>1 DEF Return, Becomes
    <2>3. r \in Seq(Frame) /\ Len(r) = 0
      BY <2>1
    <2>4. /\ Calls(t)' = 0
          /\ \A u \in Threads \ {t} : Calls(u)' = Calls(u) /\ \A d : CallAt(u, d)' = CallAt(u, d)
      BY <1>0, <1>1, <2>2, <2>3, BecomesIs
    <2>5. \A d \in 1 .. k : FALSE
      BY <1>2
    <2>6. Stepped(t, k, n, h, h)
      BY <1>0, <1>2, <2>4, <2>5 DEF Stepped
    <2>. QED
      BY <1>2, <2>4, <2>6
  <1>3. CASE k # 0
    <2>1. PICK i \in Nat : k = i + 1 /\ k < n /\ k \in 1 .. n
      <3>1. k - 1 \in Nat /\ k = k - 1 + 1 /\ k < n /\ k \in 1 .. n
        BY <1>0, <1>3
      <3>. QED
        BY <3>1
    <2>2. PICK c : c = CallAt(t, k)
      OBVIOUS
    <2>3. CallOK(c) /\ c.pc \in CallPCs
      BY <1>0, <2>1, <2>2 DEF LoaderInv, CallsInv
    <2>4. stack[t][2] = c
      <3>1. n + 1 - k = 2
        BY <1>0
      <3>. QED
        BY <1>0, <2>2, <3>1 DEF CallAt, FrameAt
    <2>5. c \in Frame
      BY <1>0, <2>1, <2>2, CallTyped
    <2>6. PICK g : g = [c EXCEPT !.pc = Resume(c.pc, v)]
      OBVIOUS
    <2>7. g \in Frame /\ Resumes(g, c, v)
      BY <2>3, <2>5, <2>6, ResumedOnce
    <2>8. PICK r : r = On(g, Tail(Tail(stack[t])))
      OBVIOUS
    <2>9. Becomes(t, r)
      <3>1. Len(stack[t]) # 1
        BY <1>0, <1>3
      <3>. QED
        BY <2>4, <2>6, <2>8, <3>1 DEF Return, Becomes, On
    <2>10. IsFrames(r, k) /\ FrameAt(r, k) = g /\ SameTo(stack[t], r, i)
      <3>1. PICK s : s = stack[t]
        OBVIOUS
      <3>2. i \in Nat /\ k = i + 1 /\ n = k + 1 /\ IsFrames(s, n) /\ g \in Frame
        BY <1>0, <2>1, <2>7, <3>1
      <3>3. r = On(g, Tail(Tail(s)))
        BY <2>8, <3>1
      <3>4. IsFrames(r, k) /\ FrameAt(r, k) = g /\ SameTo(s, r, i)
        BY ONLY <3>2, <3>3, PopLast
      <3>. QED
        BY ONLY <3>1, <3>4
    <2>11. Ends(t, i, k, g)
      BY <1>0, <1>1, <2>1, <2>7, <2>9, <2>10, Ended
    <2>12. \A d \in 1 .. k : d < k => d \in 1 .. i
      BY <2>1
    <2>13. Stepped(t, k, n, g, h)
      BY <1>0, <2>11, <2>12, Zenon DEF Ends, Stepped
    <2>14. Calls(t)' = k
      BY <2>11 DEF Ends
    <2>. QED
      BY <2>2, <2>7, <2>13, <2>14
  <1>. QED
    BY <1>2, <1>3

\* What is `loading' was so before, and is not what the call f loads.
OnlyLoading(f) ==
  \A i \in Names : classes'[i] # NULL /\ entry'[classes'[i]].status = "loading" =>
    /\ classes[i] = classes'[i] /\ Status(classes[i]) = "loading"
    /\ entry'[classes'[i]].loadingThread = entry[classes[i]].loadingThread
    /\ Loads(f) => f.entry # classes[i]

LEMMA ReturnOnce ==
  ASSUME NEW rank, OnceInv(rank), LoaderInv', DefinedInv', NEW t, NEW k, NEW n, NEW f,
         HasTop(t, k, n, f), NEW v, Return(t, v), KeepsCalls(t, n), OnlyLoading(f),
         v = NULL /\ k # 0 /\ CallAt(t, k).pc = "javaCall" => defined'[CallAt(t, k).name] = 0
  PROVE  OnceInv(rank)'
  <1>0. /\ t \in Threads /\ k \in Nat /\ n = k + 1 /\ n \in Nat /\ Calls(t) = n /\ f \in Frame
        /\ f.name \in Names /\ f = CallAt(t, n) /\ k < n /\ ~(n <= k) /\ k # n
        /\ LoaderInv
    BY DEF HasTop, Frame, OnceInv
  <1>1. PICK h : h = NewFrame("load", f.name)
    OBVIOUS
  <1>2. IsNew(h)
    BY <1>1 DEF NewFrame, IsNew
  <1>3. PICK g : Stepped(t, k, n, g, h) /\ (k # 0 => Resumes(g, CallAt(t, k), v))
    BY <1>0, ReturnStepped
  <1>4. Calls(t)' # n
    BY <1>0, ReturnStepped
  <1>5. Inner(rank, t, k, n, h)
    BY <1>2, <1>4 DEF Inner
  <1>6. ASSUME k # 0
        PROVE  /\ k \in 1 .. Calls(t) /\ Resumes(g, CallAt(t, k), v)
               /\ CallAt(t, k).fn # "query"
    <2>1. k \in 1 .. Calls(t) /\ Resumes(g, CallAt(t, k), v)
      BY <1>0, <1>3, <1>6
    <2>2. CallAt(t, k).fn = "query" => CallAt(t, k).pc \in {"find", "waiting"}
      BY <1>0, <2>1 DEF OnceInv, NestingInv
    <2>. QED
      BY <2>1, <2>2 DEF Resumes, CallPCs
  <1>7. GoesOn(t, k, n, g, h)
    BY <1>6 DEF GoesOn, Resumes, Like
  <1>8. \A u \in Threads : \A d \in 1 .. Calls(u) : (u = t => d < k) => (u = t => d < n)
    BY <1>0
  <1>9. KeepsCalls(t, k)
    BY <1>8, Zenon DEF KeepsCalls
  <1>10. ASSUME k # 0 PROVE GoodCall(g)
    <2>1. PICK c : c = CallAt(t, k)
      OBVIOUS
    <2>2. Resumes(g, c, v)
      BY <1>6, <1>10, <2>1
    <2>3. /\ c.entry # NULL => classes'[c.name] = c.entry
          /\ c.pc \in BodyPCs => defined'[c.name] = 0
      BY <1>0, <1>6, <1>10, <2>1 DEF KeepsCalls
    <2>4. g.entry = c.entry /\ g.name = c.name /\ ~Waits(g)
      BY <2>2 DEF Resumes, Like
    <2>5. g.pc \in BodyPCs => defined'[g.name] = 0
      BY <1>10, <2>1, <2>2, <2>3, <2>4 DEF Resumes
    <2>. QED
      BY <2>3, <2>4, <2>5 DEF GoodCall
  <1>11. KeepsLoading(t, k, g)
    <2>1. ASSUME NEW i \in Names, classes'[i] # NULL, entry'[classes'[i]].status = "loading"
          PROVE  /\ classes[i] = classes'[i] /\ Status(classes[i]) = "loading"
                 /\ entry'[classes'[i]].loadingThread = entry[classes[i]].loadingThread
                 /\ \A d \in 1 .. Calls(t) :
                      Loads(CallAt(t, d)) /\ CallAt(t, d).entry = classes[i] =>
                        d < k \/ (d = k /\ LoadsOn(t, k, g))
      <3>1. /\ classes[i] = classes'[i] /\ Status(classes[i]) = "loading"
            /\ entry'[classes'[i]].loadingThread = entry[classes[i]].loadingThread
            /\ Loads(f) => f.entry # classes[i]
        BY <2>1 DEF OnlyLoading
      <3>2. ASSUME NEW d \in 1 .. Calls(t), Loads(CallAt(t, d)), CallAt(t, d).entry = classes[i]
            PROVE  d < k \/ (d = k /\ LoadsOn(t, k, g))
        <4>1. d # n
          BY <1>0, <3>1, <3>2
        <4>2. d < k \/ (d = k /\ k # 0)
          BY <1>0, <4>1
        <4>3. CASE d = k /\ k # 0
          <5>1. Like(g, CallAt(t, k))
            BY <1>6, <4>3 DEF Resumes
          <5>. QED
            BY <3>2, <4>3, <5>1 DEF Like, LoadsOn
        <4>. QED
          BY <4>2, <4>3
      <3>. QED
        BY <3>1, <3>2
    <2>. QED
      BY <2>1, Zenon DEF KeepsLoading
  <1>. QED
    BY <1>0, <1>3, <1>5, <1>7, <1>9, <1>10, <1>11, OnceStep

-----------------------------------------------------------------------------
(* One class per name: the actions                                         *)

\* The table is as it was but for the numbers of waiting threads.
TableSame ==
  /\ classes' = classes /\ defined' = defined
  /\ \A x \in Entries : /\ entry'[x].status = entry[x].status
                        /\ entry'[x].class = entry[x].class
                        /\ entry'[x].loadingThread = entry[x].loadingThread

LEMMA SameIs ==
  ASSUME NEW rank, OnceInv(rank), TableSame
  PROVE  /\ DefinedInv' /\ \A t, n : KeepsCalls(t, n)
         /\ \A i \in Names : classes'[i] # NULL =>
              /\ classes[i] = classes'[i]
              /\ entry'[classes'[i]].status = Status(classes[i])
              /\ entry'[classes'[i]].loadingThread = entry[classes[i]].loadingThread
  <1>0. classes \in [Names -> Entries \cup {NULL}]
    BY DEF OnceInv, LoaderInv, TypeOK
  <1>1. ASSUME NEW i \in Names, classes'[i] # NULL
        PROVE  /\ classes[i] = classes'[i] /\ classes[i] \in Entries
               /\ entry'[classes'[i]].status = Status(classes[i])
               /\ entry'[classes'[i]].class = entry[classes[i]].class
               /\ entry'[classes'[i]].loadingThread = entry[classes[i]].loadingThread
    BY <1>0, <1>1 DEF TableSame, Status
  <1>2. DefinedInv'
    <2>1. ASSUME NEW i \in Names
          PROVE  /\ defined'[i] \in {0, 1}
                 /\ defined'[i] = 1 => /\ classes'[i] # NULL /\ entry'[classes'[i]].status = "loaded"
                                       /\ entry'[classes'[i]].class # NULL
                 /\ i \in JavaNames /\ classes'[i] # NULL => entry'[classes'[i]].status = "loaded"
      <3>1. DefinedInv /\ defined' = defined /\ classes' = classes
        BY DEF OnceInv, TableSame
      <3>. QED
        BY <1>1, <3>1 DEF DefinedInv
    <2>. QED
      BY <2>1 DEF DefinedInv, Status
  <1>3. \A t, n : KeepsCalls(t, n)
    BY DEF OnceInv, TogetherInv, HasItsEntry, NotDefinedYet, KeepsCalls, TableSame
  <1>. QED
    BY <1>1, <1>2, <1>3

\* The call above one that waits for a Java class loader is its query.
LEMMA AboveJava ==
  ASSUME NEW rank, OnceInv(rank), NEW t, NEW k, NEW n, NEW f, HasTop(t, k, n, f), k # 0,
         CallAt(t, k).pc = "javaCall"
  PROVE  f.fn = "query" /\ f.name = CallAt(t, k).name /\ f.name \in JavaNames /\ f.pc = "find"
  <1>0. /\ t \in Threads /\ k \in Nat /\ n = k + 1 /\ n \in Nat /\ Calls(t) = n /\ f = CallAt(t, n)
        /\ k \in 1 .. Calls(t) /\ n \in 1 .. Calls(t)
    BY DEF HasTop
  <1>1. f.fn = "query" /\ f.name = CallAt(t, k).name
    BY <1>0 DEF OnceInv, NestingInv
  <1>2. f.pc \in {"find", "waiting"}
    BY <1>0, <1>1 DEF OnceInv, NestingInv
  <1>3. CallOK(CallAt(t, k))
    BY <1>0 DEF OnceInv, LoaderInv, CallsInv
  <1>4. f.name \in JavaNames
    BY <1>1, <1>3 DEF CallOK
  <1>5. ~Waits(f)
    BY <1>0, <1>4 DEF OnceInv, TogetherInv
  <1>. QED
    BY <1>1, <1>2, <1>4, <1>5 DEF Waits

\* A call that loads nothing returns.
LEMMA SameReturn ==
  ASSUME NEW rank, OnceInv(rank), LoaderInv', TableSame, NEW t, NEW k, NEW n, NEW f,
         HasTop(t, k, n, f), NEW v, Return(t, v), ~Loads(f),
         v = NULL /\ f.fn = "query" /\ f.name \in JavaNames /\ f.pc = "find" => defined[f.name] = 0
  PROVE  OnceInv(rank)'
  <1>1. /\ DefinedInv' /\ KeepsCalls(t, n)
        /\ \A i \in Names : classes'[i] # NULL =>
             /\ classes[i] = classes'[i]
             /\ entry'[classes'[i]].status = Status(classes[i])
             /\ entry'[classes'[i]].loadingThread = entry[classes[i]].loadingThread
    BY SameIs
  <1>2. OnlyLoading(f)
    BY <1>1 DEF OnlyLoading
  <1>3. ASSUME v = NULL, k # 0, CallAt(t, k).pc = "javaCall"
        PROVE  defined'[CallAt(t, k).name] = 0
    <2>1. f.fn = "query" /\ f.name = CallAt(t, k).name /\ f.name \in JavaNames /\ f.pc = "find"
      BY <1>3, AboveJava
    <2>. QED
      BY <1>3, <2>1 DEF TableSame
  <1>. QED
    BY <1>1, <1>2, <1>3, ReturnOnce

LEMMA JavaReturnOnce ==
  ASSUME NEW rank, OnceInv(rank), LoaderInv', NEW t \in Threads, JavaReturn(t)
  PROVE  OnceInv(rank)'
  <1>0. PICK p \in {"finish", "failed", "return"} :
          At(t, p) /\ (p # "return" => Name(t) \in JavaNames)
    BY DEF JavaReturn
  <1>1. PICK v : Return(t, v)
    BY DEF JavaReturn
  <1>2. LoaderInv /\ stack[t] # <<>> /\ TableSame
    BY <1>0 DEF JavaReturn, At, OnceInv, TableSame, table
  <1>3. PICK k, n, f : HasTop(t, k, n, f)
    BY <1>2, TopIs
  <1>4. f.pc = p /\ f.name = Name(t)
    BY <1>0, <1>3 DEF HasTop, At, Name
  <1>5. ~Loads(f) /\ f.pc # "find"
    BY <1>0, <1>4 DEF Loads, LoadPCs
  <1>. QED
    BY <1>1, <1>2, <1>3, <1>5, SameReturn

\* The innermost call goes on; it loads on, or it did not load.
LEMMA SameTop ==
  ASSUME NEW rank, OnceInv(rank), LoaderInv', TableSame, NEW t, NEW k, NEW n, NEW f,
         HasTop(t, k, n, f), NEW g, Ends(t, k, n, g), g.name = f.name, g.fn = f.fn,
         f.fn = "query" => g.pc \in {"find", "waiting"}, g.pc # "javaCall",
         InLoader(g) => InLoader(f), GoodCall(g),
         Loads(f) => Loads(g) /\ g.entry = f.entry
  PROVE  OnceInv(rank)'
  <1>0. /\ t \in Threads /\ k \in Nat /\ n = k + 1 /\ n \in Nat /\ Calls(t) = n /\ f \in Frame
        /\ f.name \in Names /\ f = CallAt(t, n) /\ n # 0
    BY DEF HasTop, Frame
  <1>1. PICK h : h = NewFrame("load", f.name)
    OBVIOUS
  <1>2. IsNew(h)
    BY <1>1 DEF NewFrame, IsNew
  <1>3. PICK m : m = n + 1
    OBVIOUS
  <1>4. Stepped(t, n, m, g, h)
    BY <1>3, TopStepped
  <1>5. Inner(rank, t, n, m, h)
    <2>1. Calls(t)' # m
      BY <1>0, <1>3 DEF Ends
    <2>. QED
      BY <1>2, <2>1 DEF Inner
  <1>6. GoesOn(t, n, m, g, h)
    BY <1>0 DEF GoesOn
  <1>7. /\ DefinedInv' /\ KeepsCalls(t, n)
        /\ \A i \in Names : classes'[i] # NULL =>
             /\ classes[i] = classes'[i]
             /\ entry'[classes'[i]].status = Status(classes[i])
             /\ entry'[classes'[i]].loadingThread = entry[classes[i]].loadingThread
    BY SameIs
  <1>8. \A d \in 1 .. Calls(t) : d < n \/ d = n
    BY <1>0
  <1>9. KeepsLoading(t, n, g)
    <2>1. ASSUME NEW d \in 1 .. Calls(t), Loads(CallAt(t, d))
          PROVE  d < n \/ (d = n /\ LoadsOn(t, n, g))
      BY <1>0, <1>8, <2>1 DEF LoadsOn
    <2>. QED
      BY <1>7, <2>1 DEF KeepsLoading
  <1>. QED
    BY <1>0, <1>4, <1>5, <1>6, <1>7, <1>9, OnceStep

\* The innermost call f goes on as g and calls h.
LEMMA SamePush ==
  ASSUME NEW rank, OnceInv(rank), LoaderInv', TableSame, NEW t, NEW k, NEW n, NEW f,
         HasTop(t, k, n, f), NEW p \in PC, NEW g, g = [f EXCEPT !.pc = p], NEW fn \in {"load", "query"},
         NEW i \in Names, Call(t, p, fn, i),
         \/ f.pc = "start" /\ p = "beforeCall" /\ fn = "load" /\ f.name \notin JavaNames
         \/ f.pc = "start" /\ p = "javaCall" /\ f.name \in JavaNames /\ fn = "query" /\ i = f.name
            /\ LoaderFree(t)
         \/ f.pc = "body" /\ p = "bodyCall" /\ fn = "load",
         fn = "load" => rank[i] < rank[f.name], rank \in [Names -> Nat]
  PROVE  OnceInv(rank)'
  <1>0. /\ t \in Threads /\ k \in Nat /\ n = k + 1 /\ n \in Nat /\ Calls(t) = n /\ f \in Frame
        /\ f.name \in Names /\ f = CallAt(t, n) /\ n # 0 /\ f = Top(t) /\ CallOK(f) /\ LoaderInv
        /\ n \in 1 .. Calls(t)
    BY DEF HasTop, Frame, OnceInv
  <1>1. /\ g \in Frame /\ g.pc = p /\ g.entry = f.entry /\ g.name = f.name /\ g.fn = f.fn
    BY <1>0 DEF Frame, PC
  <1>2. Like(g, f) /\ g.pc \in CallPCs /\ ~Waits(g)
    BY <1>0, <1>1 DEF Like, CallOK, Loads, Waits, LoadPCs, CallPCs, LookupPCs
  <1>3. PICK h : h = NewFrame(fn, i)
    OBVIOUS
  <1>4. /\ h \in Frame /\ ~Waits(h) /\ IsNew(h) /\ h.fn = fn /\ h.name = i
    BY <1>3, NewCall DEF NewFrame, IsNew
  <1>5. PICK r : r = On2(h, g, Tail(stack[t]))
    OBVIOUS
  <1>6. Becomes(t, r)
    BY <1>0, <1>3, <1>5 DEF Call, Becomes, On2
  <1>7. PICK m : m = n + 1
    OBVIOUS
  <1>8. /\ Calls(t)' = m /\ CallAt(t, m)' = h /\ CallAt(t, n)' = g
        /\ \A d \in 1 .. k : CallAt(t, d)' = CallAt(t, d)
        /\ \A u \in Threads \ {t} : Calls(u)' = Calls(u) /\ \A d : CallAt(u, d)' = CallAt(u, d)
    <2>1. /\ LoaderInv /\ HasTop(t, k, n, f) /\ g \in Frame /\ h \in Frame /\ Like(g, f)
          /\ g.pc \in CallPCs /\ ~Waits(h)
      BY <1>0, <1>1, <1>2, <1>4
    <2>. QED
      BY ONLY <1>5, <1>6, <1>7, <2>1, MovedPush
  <1>9. Stepped(t, n, m, g, h)
    <2>1. (\A d \in 1 .. n : d < n => d \in 1 .. k) /\ n <= Calls(t)
      BY <1>0
    <2>. QED
      BY <1>0, <1>7, <1>8, <2>1, Zenon DEF Stepped
  <1>10. f.fn = "load"
    <2>1. f.fn = "query" => f.pc \in {"find", "waiting"}
      BY <1>0 DEF OnceInv, NestingInv
    <2>. QED
      BY <1>0, <2>1 DEF Frame
  <1>11. Inner(rank, t, n, m, h)
    <2>1. ASSUME fn = "load", NEW d \in 1 .. n PROVE rank[i] < rank[CallAt(t, d).name]
      <3>1. CASE d = n
        BY <1>0, <2>1, <3>1
      <3>2. CASE d # n
        <4>1. d < n /\ d \in 1 .. Calls(t)
          BY <1>0, <3>2
        <4>2. rank[f.name] < rank[CallAt(t, d).name]
          BY <1>0, <1>10, <4>1 DEF OnceInv, NestingInv
        <4>3. CallAt(t, d).name \in Names
          BY <1>0, <4>1, CallTyped DEF Frame
        <4>. QED
          BY <1>0, <2>1, <4>2, <4>3
      <3>. QED
        BY <3>1, <3>2
    <2>. QED
      BY <1>4, <2>1 DEF Inner
  <1>12. GoesOn(t, n, m, g, h)
    BY <1>0, <1>1, <1>4, <1>8, <1>10 DEF GoesOn, InLoader
  <1>13. /\ DefinedInv' /\ KeepsCalls(t, n)
         /\ \A j \in Names : classes'[j] # NULL =>
              /\ classes[j] = classes'[j]
              /\ entry'[classes'[j]].status = Status(classes[j])
              /\ entry'[classes'[j]].loadingThread = entry[classes[j]].loadingThread
    BY SameIs
  <1>14. GoodCall(g)
    <2>1. HasItsEntry(f) /\ NotDefinedYet(f)
      BY <1>0 DEF OnceInv, TogetherInv
    <2>. QED
      BY <1>1, <1>2, <2>1 DEF HasItsEntry, NotDefinedYet, GoodCall, BodyPCs, TableSame
  <1>15. KeepsLoading(t, n, g)
    <2>1. ASSUME NEW d \in 1 .. Calls(t), Loads(CallAt(t, d))
          PROVE  d < n \/ (d = n /\ LoadsOn(t, n, g))
      <3>1. d < n \/ d = n
        BY <1>0
      <3>. QED
        BY <1>0, <1>2, <2>1, <3>1 DEF LoadsOn, Like
    <2>. QED
      BY <1>13, <2>1 DEF KeepsLoading
  <1>. QED
    BY <1>0, <1>9, <1>11, <1>12, <1>13, <1>14, <1>15, OnceStep

LEMMA StartOnce ==
  ASSUME NEW rank \in [Names -> Nat], Decreases(rank), OnceInv(rank), LoaderInv',
         NEW t \in Threads, Start(t)
  PROVE  OnceInv(rank)'
  <1>0. At(t, "start") /\ stack[t] # <<>> /\ TableSame /\ LoaderInv
    BY DEF Start, At, TableSame, table, OnceInv
  <1>1. PICK k, n, f : HasTop(t, k, n, f)
    BY <1>0, TopIs
  <1>2. /\ f \in Frame /\ f = Top(t) /\ f.pc = "start" /\ f.name = Name(t) /\ f.name \in Names
        /\ f = CallAt(t, n) /\ n \in 1 .. Calls(t) /\ CallOK(f)
    BY <1>0, <1>1 DEF HasTop, At, Name, Frame
  <1>3. CASE Name(t) \in JavaNames /\ LoaderFree(t) /\ Call(t, "javaCall", "query", Name(t))
    <2>1. PICK p, g : p = "javaCall" /\ p \in PC /\ g = [f EXCEPT !.pc = p]
      BY DEF PC
    <2>2. Call(t, p, "query", f.name)
      BY <1>2, <1>3, <2>1
    <2>. QED
      BY <1>0, <1>1, <1>2, <1>3, <2>1, <2>2, SamePush
  <1>4. CASE /\ Name(t) \notin JavaNames /\ Before[Name(t)] # NULL
             /\ Call(t, "beforeCall", "load", Before[Name(t)])
    <2>1. PICK i \in Names : i = Before[f.name] /\ rank[i] < rank[f.name]
      BY <1>2, <1>4, LoaderAssumption DEF Decreases
    <2>2. PICK p, g : p = "beforeCall" /\ p \in PC /\ g = [f EXCEPT !.pc = p]
      BY DEF PC
    <2>3. Call(t, p, "load", i)
      BY <1>2, <1>4, <2>1, <2>2
    <2>. QED
      BY <1>0, <1>1, <1>2, <1>4, <2>1, <2>2, <2>3, SamePush
  <1>5. CASE Name(t) \notin JavaNames /\ Goto(t, "find")
    <2>1. PICK g : g = FrameWith(f, "find", f.entry)
      OBVIOUS
    <2>2. g \in Frame /\ g.pc = "find" /\ g.entry = f.entry /\ g.name = f.name /\ g.fn = f.fn
      BY <1>2, <2>1 DEF FrameWith, Frame, PC
    <2>3. GotoWith(t, "find", f.entry)
      BY <1>2, <1>5 DEF Goto
    <2>4. Ends(t, k, n, g)
      BY <1>0, <1>1, <2>1, <2>2, <2>3, GotoMoves
    <2>5. ~Loads(f) /\ ~InLoader(g) /\ f.entry = NULL
      BY <1>2, <1>5, <2>2 DEF Loads, LoadPCs, InLoader, CallOK, Waits
    <2>6. GoodCall(g)
      BY <2>2, <2>5 DEF GoodCall, BodyPCs, Waits
    <2>. QED
      BY <1>0, <1>1, <2>2, <2>4, <2>5, <2>6, SameTop
  <1>. QED
    BY <1>3, <1>4, <1>5 DEF Start

LEMMA BodyOnce ==
  ASSUME NEW rank \in [Names -> Nat], Decreases(rank), OnceInv(rank), LoaderInv',
         NEW t \in Threads, Body(t)
  PROVE  OnceInv(rank)'
  <1>0. At(t, "body") /\ stack[t] # <<>> /\ TableSame /\ LoaderInv
    BY DEF Body, At, TableSame, table, OnceInv
  <1>1. PICK k, n, f : HasTop(t, k, n, f)
    BY <1>0, TopIs
  <1>2. /\ f \in Frame /\ f = Top(t) /\ f.pc = "body" /\ f.name = Name(t) /\ f.name \in Names
        /\ f = CallAt(t, n) /\ n \in 1 .. Calls(t) /\ CallOK(f) /\ t \in Threads
    BY <1>0, <1>1 DEF HasTop, At, Name, Frame
  <1>3. CASE Goto(t, "finish")
    <2>1. PICK g : g = FrameWith(f, "finish", f.entry)
      OBVIOUS
    <2>2. g \in Frame /\ g.pc = "finish" /\ g.entry = f.entry /\ g.name = f.name /\ g.fn = f.fn
      BY <1>2, <2>1 DEF FrameWith, Frame, PC
    <2>3. GotoWith(t, "finish", f.entry)
      BY <1>2, <1>3 DEF Goto
    <2>4. Ends(t, k, n, g)
      BY <1>0, <1>1, <2>1, <2>2, <2>3, GotoMoves
    <2>5. Loads(f) => Loads(g)
      BY <1>2, <2>2 DEF Loads, LoadPCs
    <2>6. InLoader(g) => InLoader(f)
      BY <1>2, <2>2 DEF InLoader
    <2>7. HasItsEntry(f) /\ NotDefinedYet(f) /\ (f.fn = "query" => f.pc \in {"find", "waiting"})
      BY <1>2 DEF OnceInv, TogetherInv, NestingInv
    <2>8. GoodCall(g)
      BY <1>0, <1>2, <2>2, <2>7 DEF GoodCall, BodyPCs, Waits, HasItsEntry, NotDefinedYet, TableSame
    <2>. QED
      BY <1>0, <1>1, <1>2, <2>2, <2>4, <2>5, <2>6, <2>7, <2>8, SameTop
  <1>4. CASE During[Name(t)] # NULL /\ Call(t, "bodyCall", "load", During[Name(t)])
    <2>1. PICK i \in Names : i = During[f.name] /\ rank[i] < rank[f.name]
      BY <1>2, <1>4, LoaderAssumption DEF Decreases
    <2>2. PICK p, g : p = "bodyCall" /\ p \in PC /\ g = [f EXCEPT !.pc = p]
      BY DEF PC
    <2>3. Call(t, p, "load", i)
      BY <1>2, <1>4, <2>1, <2>2
    <2>. QED
      BY <1>0, <1>1, <1>2, <1>4, <2>1, <2>2, <2>3, SamePush
  <1>. QED
    BY <1>3, <1>4 DEF Body

LEMMA RequestOnce ==
  ASSUME NEW rank, OnceInv(rank), LoaderInv', NEW t \in Threads, NEW fn \in {"load", "query"},
         NEW i \in Names, Request(t, fn, i)
  PROVE  OnceInv(rank)'
  <1>1. stack[t] = <<>> /\ TableSame /\ LoaderInv
    BY DEF Request, TableSame, table, OnceInv
  <1>2. PICK h : h = NewFrame(fn, i)
    OBVIOUS
  <1>3. h \in Frame /\ ~Waits(h) /\ IsNew(h)
    BY <1>2, NewCall DEF NewFrame, IsNew
  <1>4. PICK r : r = On(h, <<>>)
    OBVIOUS
  <1>5. r = <<h>>
    BY <1>3, <1>4 DEF On
  <1>6. Becomes(t, r)
    BY <1>2, <1>5 DEF Request, Becomes
  <1>7. IsFrames(<<>>, 0)
    BY DEF IsFrames
  <1>8. IsFrames(r, 1) /\ FrameAt(r, 1) = h
    BY <1>3, <1>4, <1>7, PutOn
  <1>9. StackOK /\ SameTo(stack[t], r, 0)
    BY <1>1, StackTyped DEF SameTo
  <1>10. Ends(t, 0, 1, h)
    BY <1>3, <1>6, <1>8, <1>9, Ended
  <1>11. Calls(t) = 0
    BY <1>1 DEF Calls
  <1>12. \A d \in 1 .. 0 : FALSE
    OBVIOUS
  <1>13. Stepped(t, 0, 1, h, h)
    BY <1>10, <1>11, <1>12 DEF Ends, Stepped
  <1>14. GoesOn(t, 0, 1, h, h) /\ Inner(rank, t, 0, 1, h)
    BY <1>3, <1>12 DEF GoesOn, Inner
  <1>15. /\ DefinedInv' /\ KeepsCalls(t, 0)
         /\ \A j \in Names : classes'[j] # NULL =>
              /\ classes[j] = classes'[j]
              /\ entry'[classes'[j]].status = Status(classes[j])
              /\ entry'[classes'[j]].loadingThread = entry[classes[j]].loadingThread
    BY <1>1, SameIs
  <1>16. KeepsLoading(t, 0, h)
    BY <1>11, <1>12, <1>15 DEF KeepsLoading
  <1>. QED
    BY <1>13, <1>14, <1>15, <1>16, OnceStep

\* Only `asleep' changes.
LEMMA AsleepOnce ==
  ASSUME NEW rank, OnceInv(rank), LoaderInv', UNCHANGED <<classes, entry, free, stack, defined>>
  PROVE  OnceInv(rank)'
  <1>1. NestingInv(rank)'
    BY DEF OnceInv, NestingInv, Calls, CallAt
  <1>2. DefinedInv'
    BY DEF OnceInv, DefinedInv, Status
  <1>3. TogetherInv'
    BY DEF OnceInv, TogetherInv, HasItsEntry, NotDefinedYet, Calls, CallAt
  <1>4. LoadingInv'
    BY DEF OnceInv, LoadingInv, LoadsInto, Status, Calls, CallAt
  <1>5. MonitorInv'
    BY DEF OnceInv, MonitorInv, Calls, CallAt
  <1>. QED
    BY <1>1, <1>2, <1>3, <1>4, <1>5 DEF OnceInv

LEMMA WaitOnce ==
  ASSUME NEW rank, OnceInv(rank), LoaderInv', NEW t, NEW k, NEW n, NEW f, HasTop(t, k, n, f),
         f.pc = "find", NEW e, e = classes[f.name], e # NULL, Status(e) = "loading",
         GotoWith(t, "waiting", e),
         entry' = [entry EXCEPT ![e].nrWaiting = @ + 1], classes' = classes, defined' = defined
  PROVE  OnceInv(rank)'
  <1>0. /\ t \in Threads /\ f \in Frame /\ f.name \in Names /\ f = CallAt(t, n) /\ f = Top(t)
        /\ LoaderInv
    BY DEF HasTop, Frame, OnceInv
  <1>1. entry \in [Entries -> Entry] /\ e \in Entries
    BY <1>0 DEF OnceInv, LoaderInv, TypeOK
  <1>2. TableSame
    BY <1>1 DEF TableSame, Entry
  <1>3. PICK g : g = FrameWith(f, "waiting", e)
    OBVIOUS
  <1>4. g \in Frame /\ g.pc = "waiting" /\ g.entry = e /\ g.name = f.name /\ g.fn = f.fn
    BY <1>0, <1>1, <1>3 DEF FrameWith, Frame, PC
  <1>5. Ends(t, k, n, g)
    BY <1>0, <1>3, <1>4, GotoMoves
  <1>6. f.name \notin JavaNames
    BY <1>0 DEF OnceInv, DefinedInv
  <1>7. GoodCall(g) /\ ~InLoader(g) /\ ~Loads(f)
    BY <1>4, <1>6 DEF GoodCall, InLoader, Loads, LoadPCs, BodyPCs
  <1>. QED
    BY <1>2, <1>4, <1>5, <1>7, SameTop

\* The table cs, es holds the classes that are defined, and the calls but those of
\* t from depth n on have their entries in it.
Holds(t, n, cs, es) ==
  /\ \A i \in Names :
       /\ defined[i] = 1 => cs[i] # NULL /\ es[cs[i]].status = "loaded" /\ es[cs[i]].class # NULL
       /\ i \in JavaNames /\ cs[i] # NULL => es[cs[i]].status = "loaded"
       /\ cs[i] # NULL /\ es[cs[i]].status = "loading" =>
            /\ classes[i] = cs[i] /\ Status(classes[i]) = "loading"
            /\ es[cs[i]].loadingThread = entry[classes[i]].loadingThread
  /\ \A u \in Threads : \A d \in 1 .. Calls(u) : (u = t => d < n) =>
       (CallAt(u, d).entry # NULL => cs[CallAt(u, d).name] = CallAt(u, d).entry)

LEMMA NotThereOnce ==
  ASSUME NEW rank, OnceInv(rank), LoaderInv', NEW t, NEW k, NEW n, NEW f, HasTop(t, k, n, f),
         f.pc \in {"find", "waiting"}, NEW cs, NEW es, NEW fr, Clean(t, n, cs, es, fr),
         Holds(t, n, cs, es), defined[f.name] = 0, f.fn = "load" => cs[f.name] = NULL,
         NotThere(t, cs, es, fr), defined' = defined
  PROVE  OnceInv(rank)'
  <1>0. /\ t \in Threads /\ k \in Nat /\ n = k + 1 /\ n \in Nat /\ Calls(t) = n /\ f = Top(t)
        /\ f \in Frame /\ CallOK(f) /\ f = CallAt(t, n) /\ f.name \in Names /\ f.name = Name(t)
        /\ n # 0 /\ LoaderInv
    BY DEF HasTop, Frame, Name, OnceInv
  <1>1. ~Loads(f)
    BY DEF Loads, LoadPCs
  <1>2. \A u \in Threads : \A d \in 1 .. Calls(u) :
          CallAt(u, d).pc \in BodyPCs => defined'[CallAt(u, d).name] = 0
    BY DEF OnceInv, TogetherInv, NotDefinedYet
  <1>3. \A i \in Names : defined'[i] \in {0, 1}
    BY DEF OnceInv, DefinedInv
  <1>4. CASE Return(t, NULL) /\ classes' = cs /\ entry' = es /\ free' = fr
    <2>1. DefinedInv'
      BY <1>3, <1>4 DEF DefinedInv, Holds, Status
    <2>2. KeepsCalls(t, n)
      BY <1>2, <1>4 DEF KeepsCalls, Holds
    <2>3. OnlyLoading(f)
      BY <1>1, <1>4 DEF OnlyLoading, Holds
    <2>4. k # 0 /\ CallAt(t, k).pc = "javaCall" => defined'[CallAt(t, k).name] = 0
      BY AboveJava
    <2>. QED
      BY <1>4, <2>1, <2>2, <2>3, <2>4, ReturnOnce
  <1>5. CASE /\ f.fn = "load"
             /\ \E e \in fr :
                  /\ entry' = [es EXCEPT ![e] = [Zeroed EXCEPT !.loadingThread = t]]
                  /\ free' = fr \ {e}
                  /\ classes' = [cs EXCEPT ![Name(t)] = e]
                  /\ GotoWith(t, "body", e)
    <2>1. PICK z : z = ZeroedFor(t)
      OBVIOUS
    <2>2. PICK e \in fr : /\ entry' = [es EXCEPT ![e] = z]
                          /\ classes' = [cs EXCEPT ![f.name] = e]
                          /\ GotoWith(t, "body", e)
      BY <1>0, <1>5, <2>1 DEF ZeroedFor
    <2>3. z \in Entry /\ z.status = "loading" /\ z.loadingThread = t
      BY <1>0, <2>1, ZeroedIs
    <2>4. /\ cs \in [Names -> Entries \cup {NULL}] /\ es \in [Entries -> Entry] /\ fr \subseteq Entries
          /\ \A i \in Names : cs[i] \notin fr
      BY DEF Clean, Suits, TableIn
    <2>5. e \in Entries /\ e # NULL
      BY <2>4, LoaderAssumption
    <2>6. /\ classes'[f.name] = e /\ entry'[e] = z
          /\ \A i \in Names : i # f.name => classes'[i] = cs[i] /\ cs[i] # e
          /\ \A x \in Entries : x # e => entry'[x] = es[x]
      BY <1>0, <2>2, <2>4, <2>5
    <2>7. ASSUME NEW i \in Names, i # f.name, cs[i] # NULL
          PROVE  classes'[i] = cs[i] /\ entry'[classes'[i]] = es[cs[i]]
      BY <2>4, <2>6, <2>7
    <2>8. f.name \notin JavaNames
      BY <1>0, <1>5 DEF CallOK, LookupPCs
    <2>9. DefinedInv'
      <3>1. ASSUME NEW i \in Names
            PROVE  /\ defined'[i] = 1 => /\ classes'[i] # NULL /\ entry'[classes'[i]].status = "loaded"
                                         /\ entry'[classes'[i]].class # NULL
                   /\ i \in JavaNames /\ classes'[i] # NULL => entry'[classes'[i]].status = "loaded"
        <4>1. CASE i = f.name
          BY <2>8, <4>1
        <4>2. CASE i # f.name
          BY <2>6, <2>7, <4>2 DEF Holds
        <4>. QED
          BY <4>1, <4>2
      <3>. QED
        BY <1>3, <3>1 DEF DefinedInv, Status
    <2>10. KeepsCalls(t, n)
      <3>1. ASSUME NEW u \in Threads, NEW d \in 1 .. Calls(u), u = t => d < n, CallAt(u, d).entry # NULL
            PROVE  classes'[CallAt(u, d).name] = CallAt(u, d).entry
        <4>1. cs[CallAt(u, d).name] = CallAt(u, d).entry /\ CallAt(u, d).name \in Names
          BY <1>0, <3>1, CallTyped DEF Holds, Frame
        <4>2. CallAt(u, d).name # f.name
          BY <1>5, <3>1, <4>1
        <4>. QED
          BY <2>6, <4>1, <4>2
      <3>. QED
        BY <1>2, <3>1 DEF KeepsCalls
    <2>11. PICK g : g = FrameWith(f, "body", e)
      OBVIOUS
    <2>12. g \in Frame /\ g.pc = "body" /\ g.entry = e /\ g.name = f.name /\ g.fn = f.fn
      BY <1>0, <2>5, <2>11 DEF FrameWith, Frame, PC
    <2>13. Ends(t, k, n, g)
      BY <1>0, <2>2, <2>11, <2>12, GotoMoves
    <2>14. Loads(g) /\ ~InLoader(g) /\ GoodCall(g)
      BY <2>6, <2>8, <2>12 DEF Loads, LoadPCs, InLoader, GoodCall, Waits
    <2>15. PICK h, m : h = NewFrame("load", f.name) /\ m = n + 1
      OBVIOUS
    <2>16. Stepped(t, n, m, g, h)
      BY <2>13, <2>15, TopStepped
    <2>17. Inner(rank, t, n, m, h)
      <3>1. IsNew(h)
        BY <2>15 DEF NewFrame, IsNew
      <3>2. Calls(t)' # m
        BY <1>0, <2>13, <2>15 DEF Ends
      <3>. QED
        BY <3>1, <3>2 DEF Inner
    <2>18. GoesOn(t, n, m, g, h)
      BY <1>0, <1>5, <2>12, <2>14 DEF GoesOn
    <2>19. KeepsLoading(t, n, g)
      <3>1. ASSUME NEW i \in Names, classes'[i] # NULL, entry'[classes'[i]].status = "loading"
            PROVE  \/ /\ n # 0 /\ Loads(g) /\ g.entry = classes'[i]
                      /\ entry'[classes'[i]].loadingThread = t
                   \/ /\ classes[i] = classes'[i] /\ Status(classes[i]) = "loading"
                      /\ entry'[classes'[i]].loadingThread = entry[classes[i]].loadingThread
        <4>1. CASE i = f.name
          BY <1>0, <2>3, <2>6, <2>12, <2>14, <4>1
        <4>2. CASE i # f.name
          <5>1. cs[i] # NULL
            BY <2>6, <3>1, <4>2
          <5>2. classes'[i] = cs[i] /\ entry'[classes'[i]] = es[cs[i]]
            BY <2>7, <4>2, <5>1
          <5>. QED
            BY <3>1, <5>1, <5>2 DEF Holds
        <4>. QED
          BY <4>1, <4>2
      <3>2. ASSUME NEW d \in 1 .. Calls(t), Loads(CallAt(t, d)) PROVE d < n
        <4>1. d # n
          BY <1>0, <1>1, <3>2
        <4>. QED
          BY <1>0, <4>1
      <3>. QED
        BY <3>1, <3>2 DEF KeepsLoading
    <2>. QED
      BY <1>0, <2>9, <2>10, <2>14, <2>16, <2>17, <2>18, <2>19, OnceStep
  <1>. QED
    BY <1>0, <1>4, <1>5 DEF NotThere

\* A class that a call of t loads is not loaded by an inner call.
LEMMA FindOnce ==
  ASSUME NEW rank \in [Names -> Nat], OnceInv(rank), LoaderInv', NEW t \in Threads, Find(t)
  PROVE  OnceInv(rank)'
  <1>0. At(t, "find") /\ stack[t] # <<>> /\ defined' = defined /\ LoaderInv
    BY DEF Find, At, OnceInv
  <1>1. PICK k, n, f : HasTop(t, k, n, f)
    BY <1>0, TopIs
  <1>2. /\ f \in Frame /\ f = Top(t) /\ f.pc = "find" /\ f.name = Name(t) /\ f.name \in Names
        /\ n \in Nat /\ Calls(t) = n /\ n \in 1 .. Calls(t) /\ f = CallAt(t, n)
    BY <1>0, <1>1 DEF HasTop, At, Name, Frame
  <1>3. Clean(t, n, classes, entry, free)
    BY <1>0, AwakeIs, CleanSame
  <1>4. Holds(t, n, classes, entry)
    BY DEF OnceInv, DefinedInv, TogetherInv, HasItsEntry, Status, Holds
  <1>5. PICK e : e = classes[f.name]
    OBVIOUS
  <1>6. ~Loads(f)
    BY <1>2 DEF Loads, LoadPCs
  <1>7. CASE (e # NULL => OwnLoading(t, e)) /\ NotThere(t, classes, entry, free)
    <2>1. defined[f.name] = 0
      BY <1>2, <1>5, <1>7 DEF OnceInv, DefinedInv, OwnLoading
    <2>2. ASSUME f.fn = "load", e # NULL PROVE FALSE
      <3>1. PICK d \in 1 .. Calls(t) : Loads(CallAt(t, d)) /\ CallAt(t, d).entry = e
        BY <1>2, <1>5, <1>7, <2>2 DEF OnceInv, LoadingInv, LoadsInto, OwnLoading
      <3>2. CallAt(t, d).name = f.name
        <4>1. EntryIn(CallAt(t, d), classes, entry, free)
          BY <1>0 DEF LoaderInv, CallsInv
        <4>. QED
          BY <1>2, <1>5, <2>2, <3>1, <4>1 DEF EntryIn
      <3>3. d # n
        BY <1>2, <1>6, <3>1
      <3>4. d < n
        BY <1>2, <3>3
      <3>5. rank[f.name] < rank[f.name]
        BY <1>2, <2>2, <3>2, <3>4 DEF OnceInv, NestingInv
      <3>6. rank[f.name] \in Nat
        BY <1>2
      <3>. QED
        BY <3>5, <3>6
    <2>. QED
      BY <1>0, <1>1, <1>2, <1>3, <1>4, <1>5, <1>7, <2>1, <2>2, NotThereOnce
  <1>8. CASE /\ e # NULL /\ Status(e) = "loading"
             /\ entry' = [entry EXCEPT ![e].nrWaiting = @ + 1]
             /\ GotoWith(t, "waiting", e)
             /\ UNCHANGED <<classes, free>>
    BY <1>0, <1>1, <1>2, <1>5, <1>8, WaitOnce
  <1>9. CASE e # NULL /\ Status(e) # "loading" /\ Found(t, e, entry)
    <2>1. entry[e].status = "notFound" => entry[e].nrWaiting > 0
      BY <1>0, <1>2, <1>5, <1>9 DEF LoaderInv, TransientIn
    <2>2. ~(entry[e].status = "notFound" /\ entry[e].nrWaiting = 0)
      BY <2>1
    <2>3. Return(t, entry[e].class) /\ entry' = entry /\ UNCHANGED <<classes, free>>
      BY <1>9, <2>2 DEF Found
    <2>4. TableSame
      BY <1>0, <2>3 DEF TableSame
    <2>5. entry[e].class = NULL => defined[f.name] = 0
      BY <1>2, <1>5 DEF OnceInv, DefinedInv
    <2>. QED
      BY <1>1, <1>6, <2>3, <2>4, <2>5, SameReturn
  <1>. QED
    BY <1>2, <1>5, <1>7, <1>8, <1>9 DEF Find

LEMMA WaitedOnce ==
  ASSUME NEW rank, OnceInv(rank), LoaderInv', NEW t \in Threads, Waited(t)
  PROVE  OnceInv(rank)'
  <1>0. At(t, "waiting") /\ stack[t] # <<>> /\ defined' = defined /\ LoaderInv
    BY DEF Waited, At, OnceInv
  <1>1. PICK k, n, f : HasTop(t, k, n, f)
    BY <1>0, TopIs
  <1>2. /\ f \in Frame /\ f = Top(t) /\ f.pc = "waiting" /\ f.name = Name(t) /\ f.name \in Names
        /\ f = CallAt(t, n) /\ n \in 1 .. Calls(t) /\ EntryIn(f, classes, entry, free)
    BY <1>0, <1>1 DEF HasTop, At, Name, Frame
  <1>3. PICK e : e = f.entry
    OBVIOUS
  <1>4. PICK z, es, cs, fr :
          /\ z = CountedOut(e) /\ es = Put(entry, e, z)
          /\ cs = Put(classes, f.name, NULL) /\ fr = free \cup {e}
    OBVIOUS
  <1>5. /\ e # NULL /\ e \in Entries /\ z \in Entry /\ z.status = Status(e)
        /\ z.class = entry[e].class /\ z.loadingThread = entry[e].loadingThread
        /\ es = OneLess(e) /\ es[e] = z
        /\ es \in [Entries -> Entry] /\ \A x \in Entries \ {e} : es[x] = entry[x]
        /\ Status(e) # "loading" /\ LastWaiter(z) => NobodyHas(t, n, e) /\ Clean(t, n, cs, es, fr)
    <2>1. LoaderInv /\ HasTop(t, k, n, f) /\ f.pc = "waiting"
      BY <1>0, <1>1, <1>2
    <2>. QED
      BY ONLY <1>3, <1>4, <2>1, WaitedIs
  <1>6. CASE Status(e) = "loading"
    <2>1. UNCHANGED <<classes, entry, free, stack, defined>>
      BY <1>2, <1>3, <1>6 DEF Waited, table
    <2>. QED
      BY <2>1, AsleepOnce
  <1>7. CASE Status(e) # "loading" /\ LastWaiter(z)
    <2>1. NotThere(t, [classes EXCEPT ![f.name] = NULL], es, free \cup {e})
      BY <1>2, <1>3, <1>5, <1>7 DEF Waited, Found, OneLess, RemoveAndGoOn, LastWaiter
    <2>2. NotThere(t, cs, es, fr)
      BY <1>4, <2>1 DEF Put
    <2>3. classes[f.name] = e
      BY <1>2, <1>3, <1>5 DEF OnceInv, TogetherInv, HasItsEntry
    <2>4. Status(e) = "notFound"
      BY <1>5, <1>7 DEF LastWaiter
    <2>5. defined[f.name] = 0
      BY <1>2, <2>3, <2>4 DEF OnceInv, DefinedInv
    <2>6. classes \in [Names -> Entries \cup {NULL}]
      BY <1>0 DEF LoaderInv, TypeOK
    <2>7. cs[f.name] = NULL /\ \A i \in Names : i # f.name => cs[i] = classes[i] /\ classes[i] # e
      BY <1>2, <1>3, <1>4, <1>5, <2>6 DEF Put, EntryIn
    <2>8. ASSUME NEW i \in Names, i # f.name, cs[i] # NULL
          PROVE  classes[i] = cs[i] /\ classes[i] # NULL /\ es[cs[i]] = entry[classes[i]]
      BY <1>5, <2>6, <2>7, <2>8
    <2>9. Holds(t, n, cs, es)
      <3>1. ASSUME NEW i \in Names
            PROVE  /\ defined[i] = 1 =>
                        cs[i] # NULL /\ es[cs[i]].status = "loaded" /\ es[cs[i]].class # NULL
                   /\ i \in JavaNames /\ cs[i] # NULL => es[cs[i]].status = "loaded"
                   /\ cs[i] # NULL /\ es[cs[i]].status = "loading" =>
                        /\ classes[i] = cs[i] /\ Status(classes[i]) = "loading"
                        /\ es[cs[i]].loadingThread = entry[classes[i]].loadingThread
        <4>1. CASE i = f.name
          BY <2>5, <2>7, <4>1
        <4>2. CASE i # f.name
          <5>1. DefinedInv
            BY DEF OnceInv
          <5>. QED
            BY <2>7, <2>8, <4>2, <5>1 DEF DefinedInv, Status
        <4>. QED
          BY <4>1, <4>2
      <3>2. ASSUME NEW u \in Threads, NEW d \in 1 .. Calls(u), u = t => d < n, CallAt(u, d).entry # NULL
            PROVE  cs[CallAt(u, d).name] = CallAt(u, d).entry
        <4>1. CallAt(u, d).name \in Names
          BY <1>0, CallTyped DEF Frame
        <4>2. classes[CallAt(u, d).name] = CallAt(u, d).entry
          BY <3>2 DEF OnceInv, TogetherInv, HasItsEntry
        <4>3. CallAt(u, d).entry # e
          BY <1>5, <1>7, <3>2 DEF NobodyHas
        <4>. QED
          BY <2>3, <2>7, <4>1, <4>2, <4>3
      <3>. QED
        BY <3>1, <3>2, Zenon DEF Holds
    <2>. QED
      BY <1>0, <1>1, <1>2, <1>5, <1>7, <2>2, <2>5, <2>7, <2>9, NotThereOnce
  <1>8. CASE Status(e) # "loading" /\ ~LastWaiter(z)
    <2>1. /\ Return(t, z.class) /\ entry' = es /\ UNCHANGED <<classes, free, asleep>>
      BY <1>2, <1>3, <1>5, <1>8 DEF Waited, Found, OneLess, LastWaiter
    <2>2. TableSame
      <3>1. ASSUME NEW x \in Entries
            PROVE  /\ entry'[x].status = entry[x].status /\ entry'[x].class = entry[x].class
                   /\ entry'[x].loadingThread = entry[x].loadingThread
        <4>1. CASE x = e
          BY <1>5, <2>1, <4>1 DEF Status
        <4>2. CASE x # e
          BY <1>5, <2>1, <4>2
        <4>. QED
          BY <4>1, <4>2
      <3>. QED
        BY <1>0, <2>1, <3>1 DEF TableSame
    <2>3. ~Loads(f) /\ f.pc # "find"
      BY <1>2 DEF Loads, LoadPCs
    <2>. QED
      BY <1>1, <2>1, <2>2, <2>3, SameReturn
  <1>. QED
    BY <1>6, <1>7, <1>8

\* The entry e that the innermost call of t loads into is the one of the table, and
\* nobody else loads the class.
LEMMA OwnerOnce ==
  ASSUME NEW rank, OnceInv(rank), NEW t, NEW k, NEW n, NEW f, HasTop(t, k, n, f),
         f.pc \in {"finish", "failed"}, f.name \notin JavaNames, NEW e, e = f.entry
  PROVE  /\ e # NULL /\ e \in Entries /\ Status(e) = "loading" /\ classes[f.name] = e
         /\ defined[f.name] = 0 /\ NobodyLoads(t, n, e)
         /\ entry[e].nrWaiting = 0 => NobodyHas(t, n, e)
         /\ \A i \in Names : i # f.name => classes[i] # e
         /\ \A u \in Threads : \A d \in 1 .. Calls(u) :
              (u = t => d < n) /\ CallAt(u, d).pc \in BodyPCs => CallAt(u, d).name # f.name
         /\ k # 0 => CallAt(t, k).pc # "javaCall"
  <1>0. LoaderInv /\ t \in Threads /\ f.name \in Names /\ f = CallAt(t, n) /\ n \in 1 .. Calls(t)
    BY DEF OnceInv, HasTop, Frame
  <1>1. /\ e # NULL /\ e \in Entries /\ e \notin free /\ Status(e) = "loading"
        /\ NobodyLoads(t, n, e) /\ Waiters(e) \ {t} = Waiters(e)
        /\ entry[e].nrWaiting = Cardinality(Waiters(e))
    BY <1>0, OwnerIs
  <1>2. classes[f.name] = e
    BY <1>0, <1>1 DEF OnceInv, TogetherInv, HasItsEntry
  <1>3. defined[f.name] = 0
    BY <1>0, <1>1, <1>2 DEF OnceInv, DefinedInv
  <1>4. \A i \in Names : i # f.name => classes[i] # e
    BY <1>0, <1>1, <1>2 DEF LoaderInv, TableIn
  <1>5. ASSUME NEW u \in Threads, NEW d \in 1 .. Calls(u), u = t => d < n,
               CallAt(u, d).pc \in BodyPCs, CallAt(u, d).name = f.name
        PROVE  FALSE
    <2>1. Loads(CallAt(u, d))
      BY <1>5 DEF Loads, LoadPCs, BodyPCs
    <2>2. CallAt(u, d).entry # NULL
      BY <1>0, <2>1 DEF LoaderInv, CallsInv, CallOK
    <2>3. CallAt(u, d).entry = e
      BY <1>2, <1>5, <2>2 DEF OnceInv, TogetherInv, HasItsEntry
    <2>. QED
      BY <1>1, <1>5, <2>1, <2>3 DEF NobodyLoads
  <1>6. entry[e].nrWaiting = 0 => NobodyHas(t, n, e)
    BY <1>0, <1>1, NobodyIs
  <1>7. k # 0 => CallAt(t, k).pc # "javaCall"
    BY AboveJava
  <1>. QED
    BY <1>1, <1>2, <1>3, <1>4, <1>5, <1>6, <1>7

LEMMA LoadedOnce ==
  ASSUME NEW rank, OnceInv(rank), LoaderInv', NEW t \in Threads, Loaded(t)
  PROVE  OnceInv(rank)'
  <1>0. At(t, "finish") /\ stack[t] # <<>> /\ LoaderInv
    BY DEF Loaded, At, OnceInv
  <1>1. PICK k, n, f : HasTop(t, k, n, f)
    BY <1>0, TopIs
  <1>2. f \in Frame /\ f = Top(t) /\ f.pc = "finish" /\ f.name = Name(t) /\ f.name \in Names
    BY <1>0, <1>1 DEF HasTop, At, Name, Frame
  <1>3. PICK e, v : e = f.entry /\ v = NewClass(f.name)
    OBVIOUS
  <1>4. /\ f.name \notin JavaNames /\ Define(f.name) /\ Return(t, v)
        /\ entry' = [entry EXCEPT ![e].class = v, ![e].status = "loaded"]
        /\ classes' = classes
    BY <1>2, <1>3 DEF Loaded
  <1>5. /\ e # NULL /\ e \in Entries /\ classes[f.name] = e /\ defined[f.name] = 0
        /\ \A i \in Names : i # f.name => classes[i] # e
        /\ \A u \in Threads : \A d \in 1 .. Calls(u) :
             (u = t => d < n) /\ CallAt(u, d).pc \in BodyPCs => CallAt(u, d).name # f.name
    BY <1>1, <1>2, <1>3, <1>4, OwnerOnce
  <1>6. v # NULL
    BY <1>0, <1>2, <1>3, NewClassIs
  <1>7. /\ entry \in [Entries -> Entry] /\ classes \in [Names -> Entries \cup {NULL}]
        /\ defined \in [Names -> Nat]
    BY <1>0 DEF LoaderInv, TypeOK
  <1>8. /\ entry'[e].status = "loaded" /\ entry'[e].class = v
        /\ \A x \in Entries : x # e => entry'[x] = entry[x]
    BY <1>4, <1>5, <1>7 DEF Entry
  <1>9. defined'[f.name] = 1 /\ \A i \in Names : i # f.name => defined'[i] = defined[i]
    BY <1>2, <1>4, <1>5, <1>7 DEF Define
  <1>10. ASSUME NEW i \in Names, i # f.name, classes[i] # NULL
         PROVE  entry'[classes[i]] = entry[classes[i]]
    BY <1>5, <1>7, <1>8, <1>10
  <1>11. DefinedInv'
    <2>1. ASSUME NEW i \in Names
          PROVE  /\ defined'[i] \in {0, 1}
                 /\ defined'[i] = 1 => /\ classes'[i] # NULL /\ entry'[classes'[i]].status = "loaded"
                                       /\ entry'[classes'[i]].class # NULL
                 /\ i \in JavaNames /\ classes'[i] # NULL => entry'[classes'[i]].status = "loaded"
      <3>1. CASE i = f.name
        BY <1>4, <1>5, <1>6, <1>8, <1>9, <3>1
      <3>2. CASE i # f.name
        <4>1. DefinedInv
          BY DEF OnceInv
        <4>. QED
          BY <1>4, <1>9, <1>10, <3>2, <4>1 DEF DefinedInv, Status
      <3>. QED
        BY <3>1, <3>2
    <2>. QED
      BY <2>1 DEF DefinedInv, Status
  <1>12. KeepsCalls(t, n)
    <2>1. ASSUME NEW u \in Threads, NEW d \in 1 .. Calls(u), u = t => d < n
          PROVE  /\ CallAt(u, d).entry # NULL => classes'[CallAt(u, d).name] = CallAt(u, d).entry
                 /\ CallAt(u, d).pc \in BodyPCs => defined'[CallAt(u, d).name] = 0
      <3>1. HasItsEntry(CallAt(u, d)) /\ NotDefinedYet(CallAt(u, d))
        BY DEF OnceInv, TogetherInv
      <3>2. CallAt(u, d).name \in Names
        BY <1>0, CallTyped DEF Frame
      <3>. QED
        BY <1>4, <1>5, <1>9, <2>1, <3>1, <3>2 DEF HasItsEntry, NotDefinedYet
    <2>. QED
      BY <2>1 DEF KeepsCalls
  <1>13. OnlyLoading(f)
    <2>1. ASSUME NEW i \in Names, classes'[i] # NULL, entry'[classes'[i]].status = "loading"
          PROVE  /\ classes[i] = classes'[i] /\ Status(classes[i]) = "loading"
                 /\ entry'[classes'[i]].loadingThread = entry[classes[i]].loadingThread
                 /\ f.entry # classes[i]
      <3>1. i # f.name
        BY <1>4, <1>5, <1>8, <2>1
      <3>. QED
        BY <1>3, <1>4, <1>5, <1>10, <2>1, <3>1 DEF Status
    <2>. QED
      BY <2>1 DEF OnlyLoading
  <1>. QED
    BY <1>1, <1>4, <1>6, <1>11, <1>12, <1>13, ReturnOnce

LEMMA NotLoadedOnce ==
  ASSUME NEW rank, OnceInv(rank), LoaderInv', NEW t \in Threads, NotLoaded(t)
  PROVE  OnceInv(rank)'
  <1>0. (At(t, "finish") \/ At(t, "failed")) /\ stack[t] # <<>> /\ LoaderInv
    BY DEF NotLoaded, At, OnceInv
  <1>1. PICK k, n, f : HasTop(t, k, n, f)
    BY <1>0, TopIs
  <1>2. /\ f \in Frame /\ f = Top(t) /\ f.pc \in {"finish", "failed"} /\ f.name = Name(t)
        /\ f.name \in Names
    BY <1>0, <1>1 DEF HasTop, At, Name, Frame
  <1>3. PICK e : e = f.entry
    OBVIOUS
  <1>4. f.name \notin JavaNames /\ Return(t, NULL) /\ defined' = defined
    BY <1>2 DEF NotLoaded
  <1>5. /\ e # NULL /\ e \in Entries /\ classes[f.name] = e /\ defined[f.name] = 0
        /\ entry[e].nrWaiting = 0 => NobodyHas(t, n, e)
        /\ \A i \in Names : i # f.name => classes[i] # e
        /\ k # 0 => CallAt(t, k).pc # "javaCall"
    BY <1>1, <1>2, <1>3, <1>4, OwnerOnce
  <1>6. /\ entry \in [Entries -> Entry] /\ classes \in [Names -> Entries \cup {NULL}]
    BY <1>0 DEF LoaderInv, TypeOK
  <1>7. /\ \A i \in Names : i # f.name => classes'[i] = classes[i]
        /\ \A x \in Entries : x # e => entry'[x] = entry[x]
        /\ \/ classes'[f.name] = NULL /\ NobodyHas(t, n, e)
           \/ classes' = classes /\ entry'[e].status = "notFound"
    <2>1. CASE entry[e].nrWaiting = 0
      <3>1. classes' = [classes EXCEPT ![f.name] = NULL] /\ entry' = entry
        BY <1>2, <1>3, <2>1 DEF NotLoaded
      <3>. QED
        BY <1>2, <1>5, <1>6, <2>1, <3>1
    <2>2. CASE entry[e].nrWaiting # 0
      <3>1. classes' = classes /\ entry' = [entry EXCEPT ![e].status = "notFound"]
        BY <1>2, <1>3, <2>2 DEF NotLoaded
      <3>. QED
        BY <1>5, <1>6, <3>1 DEF Entry
    <2>. QED
      BY <2>1, <2>2
  <1>8. ASSUME NEW i \in Names, i # f.name, classes[i] # NULL
        PROVE  classes'[i] = classes[i] /\ entry'[classes[i]] = entry[classes[i]]
    BY <1>5, <1>6, <1>7, <1>8
  <1>9. DefinedInv'
    <2>1. ASSUME NEW i \in Names
          PROVE  /\ defined'[i] \in {0, 1}
                 /\ defined'[i] = 1 => /\ classes'[i] # NULL /\ entry'[classes'[i]].status = "loaded"
                                       /\ entry'[classes'[i]].class # NULL
                 /\ i \in JavaNames /\ classes'[i] # NULL => entry'[classes'[i]].status = "loaded"
      <3>1. CASE i = f.name
        BY <1>4, <1>5, <3>1
      <3>2. CASE i # f.name
        <4>1. DefinedInv
          BY DEF OnceInv
        <4>. QED
          BY <1>4, <1>7, <1>8, <3>2, <4>1 DEF DefinedInv, Status
      <3>. QED
        BY <3>1, <3>2
    <2>. QED
      BY <2>1 DEF DefinedInv, Status
  <1>10. KeepsCalls(t, n)
    <2>1. ASSUME NEW u \in Threads, NEW d \in 1 .. Calls(u), u = t => d < n
          PROVE  /\ CallAt(u, d).entry # NULL => classes'[CallAt(u, d).name] = CallAt(u, d).entry
                 /\ CallAt(u, d).pc \in BodyPCs => defined'[CallAt(u, d).name] = 0
      <3>1. HasItsEntry(CallAt(u, d)) /\ NotDefinedYet(CallAt(u, d))
        BY DEF OnceInv, TogetherInv
      <3>2. CallAt(u, d).name \in Names
        BY <1>0, CallTyped DEF Frame
      <3>3. ASSUME CallAt(u, d).entry # NULL
            PROVE  classes'[CallAt(u, d).name] = CallAt(u, d).entry
        <4>1. classes[CallAt(u, d).name] = CallAt(u, d).entry
          BY <3>1, <3>3 DEF HasItsEntry
        <4>2. CASE classes' = classes
          BY <4>1, <4>2
        <4>3. CASE NobodyHas(t, n, e)
          <5>1. CallAt(u, d).entry # e
            BY <2>1, <4>3 DEF NobodyHas
          <5>2. CallAt(u, d).name # f.name
            BY <1>5, <4>1, <5>1
          <5>. QED
            BY <1>7, <3>2, <4>1, <5>2
        <4>. QED
          BY <1>7, <4>2, <4>3
      <3>. QED
        BY <1>4, <3>1, <3>3 DEF NotDefinedYet
    <2>. QED
      BY <2>1 DEF KeepsCalls
  <1>11. OnlyLoading(f)
    <2>1. ASSUME NEW i \in Names, classes'[i] # NULL, entry'[classes'[i]].status = "loading"
          PROVE  /\ classes[i] = classes'[i] /\ Status(classes[i]) = "loading"
                 /\ entry'[classes'[i]].loadingThread = entry[classes[i]].loadingThread
                 /\ f.entry # classes[i]
      <3>1. i # f.name
        BY <1>5, <1>7, <2>1
      <3>2. classes[i] # NULL
        BY <1>7, <2>1, <3>1
      <3>. QED
        BY <1>3, <1>5, <1>8, <2>1, <3>1, <3>2 DEF Status
    <2>. QED
      BY <2>1 DEF OnlyLoading
  <1>. QED
    BY <1>1, <1>4, <1>5, <1>9, <1>10, <1>11, ReturnOnce

LEMMA AddToCacheOnce ==
  ASSUME NEW rank \in [Names -> Nat], OnceInv(rank), LoaderInv', NEW t \in Threads, AddToCache(t)
  PROVE  OnceInv(rank)'
  <1>0. At(t, "finish") /\ stack[t] # <<>> /\ LoaderInv
    BY DEF AddToCache, At, OnceInv
  <1>1. PICK k, n, f : HasTop(t, k, n, f)
    BY <1>0, TopIs
  <1>2. /\ f \in Frame /\ f = Top(t) /\ f.pc = "finish" /\ f.name = Name(t) /\ f.name \in Names
        /\ f.name \in JavaNames /\ f = CallAt(t, n) /\ n \in 1 .. Calls(t)
    BY <1>0, <1>1 DEF HasTop, At, Name, Frame, AddToCache
  <1>3. PICK v : v = NewClass(f.name)
    OBVIOUS
  <1>4. PICK z : z = [Zeroed EXCEPT !.class = v, !.status = "loaded", !.loadingThread = t]
    OBVIOUS
  <1>5. PICK e \in free : entry' = [entry EXCEPT ![e] = z] /\ classes' = [classes EXCEPT ![f.name] = e]
    BY <1>2, <1>3, <1>4 DEF AddToCache
  <1>6. Define(f.name) /\ Return(t, v)
    BY <1>2, <1>3 DEF AddToCache
  <1>7. v # NULL /\ z.status = "loaded" /\ z.class = v
    BY <1>0, <1>2, <1>3, <1>4, NewClassIs DEF Zeroed
  <1>8. /\ entry \in [Entries -> Entry] /\ classes \in [Names -> Entries \cup {NULL}]
        /\ defined \in [Names -> Nat] /\ e \in Entries /\ e # NULL
        /\ \A i \in Names : classes[i] # e
    BY <1>0, LoaderAssumption DEF LoaderInv, TypeOK, TableIn
  <1>9. /\ classes'[f.name] = e /\ entry'[e] = z
        /\ \A i \in Names : i # f.name => classes'[i] = classes[i]
        /\ \A x \in Entries : x # e => entry'[x] = entry[x]
    BY <1>2, <1>5, <1>8
  <1>10. defined[f.name] = 0
    BY <1>2 DEF OnceInv, TogetherInv, NotDefinedYet, BodyPCs
  <1>11. defined'[f.name] = 1 /\ \A i \in Names : i # f.name => defined'[i] = defined[i]
    BY <1>2, <1>6, <1>8, <1>10 DEF Define
  <1>12. ASSUME NEW i \in Names, i # f.name, classes[i] # NULL
         PROVE  classes'[i] = classes[i] /\ entry'[classes[i]] = entry[classes[i]]
    BY <1>8, <1>9, <1>12
  <1>13. DefinedInv'
    <2>1. ASSUME NEW i \in Names
          PROVE  /\ defined'[i] \in {0, 1}
                 /\ defined'[i] = 1 => /\ classes'[i] # NULL /\ entry'[classes'[i]].status = "loaded"
                                       /\ entry'[classes'[i]].class # NULL
                 /\ i \in JavaNames /\ classes'[i] # NULL => entry'[classes'[i]].status = "loaded"
      <3>1. CASE i = f.name
        BY <1>7, <1>8, <1>9, <1>11, <3>1
      <3>2. CASE i # f.name
        <4>1. DefinedInv
          BY DEF OnceInv
        <4>. QED
          BY <1>9, <1>11, <1>12, <3>2, <4>1 DEF DefinedInv, Status
      <3>. QED
        BY <3>1, <3>2
    <2>. QED
      BY <2>1 DEF DefinedInv, Status
  <1>14. f.fn = "load" /\ InLoader(f)
    <2>1. f.fn = "query" => f.pc \in {"find", "waiting"}
      BY <1>2 DEF OnceInv, NestingInv
    <2>. QED
      BY <1>2, <2>1 DEF Frame, InLoader
  <1>15. KeepsCalls(t, n)
    <2>1. ASSUME NEW u \in Threads, NEW d \in 1 .. Calls(u), u = t => d < n
          PROVE  /\ CallAt(u, d).entry # NULL => classes'[CallAt(u, d).name] = CallAt(u, d).entry
                 /\ CallAt(u, d).pc \in BodyPCs => defined'[CallAt(u, d).name] = 0
      <3>1. PICK c \in Frame : c = CallAt(u, d)
        BY <1>0, CallTyped
      <3>2. /\ HasItsEntry(c) /\ NotDefinedYet(c) /\ (Waits(c) => c.name \notin JavaNames)
            /\ CallOK(c) /\ (c.fn = "query" => c.pc \in {"find", "waiting"})
        BY <1>0, <3>1 DEF OnceInv, TogetherInv, LoaderInv, CallsInv, NestingInv
      <3>3. c.name \in Names /\ c.fn \in {"load", "query"}
        BY DEF Frame
      <3>4. ASSUME c.entry # NULL PROVE classes'[c.name] = c.entry
        <4>1. c.name # f.name
          BY <1>2, <3>2, <3>4 DEF CallOK, Loads
        <4>. QED
          BY <1>9, <3>2, <3>3, <3>4, <4>1 DEF HasItsEntry
      <3>5. ASSUME c.pc \in BodyPCs PROVE defined'[c.name] = 0
        <4>1. c.name # f.name
          <5>1. ASSUME c.name = f.name PROVE FALSE
            <6>1. InLoader(c)
              BY <1>2, <3>2, <3>3, <3>5, <5>1 DEF InLoader, BodyPCs
            <6>2. u = t
              BY <1>2, <1>14, <3>1, <6>1 DEF OnceInv, MonitorInv
            <6>3. d < n
              BY <2>1, <6>2
            <6>4. rank[f.name] < rank[c.name]
              BY <1>2, <1>14, <3>1, <6>2, <6>3 DEF OnceInv, NestingInv
            <6>5. rank[f.name] \in Nat
              BY <1>2
            <6>. QED
              BY <5>1, <6>4, <6>5
          <5>. QED
            BY <5>1
        <4>. QED
          BY <1>11, <3>2, <3>3, <3>5, <4>1 DEF NotDefinedYet
      <3>. QED
        BY <3>1, <3>4, <3>5
    <2>. QED
      BY <2>1 DEF KeepsCalls
  <1>16. OnlyLoading(f)
    <2>0. ~Loads(f)
      BY <1>2 DEF Loads
    <2>1. ASSUME NEW i \in Names, classes'[i] # NULL, entry'[classes'[i]].status = "loading"
          PROVE  /\ classes[i] = classes'[i] /\ Status(classes[i]) = "loading"
                 /\ entry'[classes'[i]].loadingThread = entry[classes[i]].loadingThread
      <3>1. i # f.name
        BY <1>7, <1>9, <2>1
      <3>2. classes[i] # NULL
        BY <1>9, <2>1, <3>1
      <3>. QED
        BY <1>12, <2>1, <3>1, <3>2 DEF Status
    <2>. QED
      BY <2>0, <2>1 DEF OnlyLoading
  <1>. QED
    BY <1>1, <1>6, <1>7, <1>13, <1>15, <1>16, ReturnOnce

LEMMA InitOnce ==
  ASSUME Init, NEW rank PROVE OnceInv(rank)
  <1>1. ASSUME NEW t \in Threads PROVE 1 .. Calls(t) = {}
    <2>1. Len(stack[t]) = 0
      BY DEF Init
    <2>. QED
      BY <2>1 DEF Calls
  <1>2. LoaderInv
    BY InitLoader
  <1>3. NestingInv(rank) /\ TogetherInv /\ MonitorInv
    BY <1>1 DEF NestingInv, TogetherInv, MonitorInv
  <1>4. DefinedInv /\ LoadingInv
    BY DEF Init, DefinedInv, LoadingInv
  <1>. QED
    BY <1>2, <1>3, <1>4 DEF OnceInv

LEMMA OnceNext ==
  ASSUME NEW rank \in [Names -> Nat], Decreases(rank), OnceInv(rank), [Next]_vars
  PROVE  OnceInv(rank)'
  <1>0. LoaderInv /\ LoaderInv'
    BY LoaderStep DEF OnceInv
  <1>1. CASE UNCHANGED vars
    <2>1. UNCHANGED <<classes, entry, free, stack, defined>>
      BY <1>1 DEF vars, table
    <2>. QED
      BY <1>0, <2>1, AsleepOnce
  <1>2. CASE Next
    <2>1. PICK t \in Threads :
            \/ Step(t)
            \/ SpuriousWakeup(t)
            \/ \E f \in {"load", "query"}, n \in Names : Request(t, f, n)
      BY <1>2 DEF Next
    <2>2. CASE SpuriousWakeup(t)
      <3>1. UNCHANGED <<classes, entry, free, stack, defined>>
        BY <2>2 DEF SpuriousWakeup, table
      <3>. QED
        BY <1>0, <3>1, AsleepOnce
    <2>3. CASE \E f \in {"load", "query"}, n \in Names : Request(t, f, n)
      BY <1>0, <2>3, RequestOnce
    <2>4. CASE Step(t)
      BY <1>0, <2>4, StartOnce, FindOnce, WaitedOnce, BodyOnce, LoadedOnce, NotLoadedOnce,
         AddToCacheOnce, JavaReturnOnce DEF Step
    <2>. QED
      BY <2>1, <2>2, <2>3, <2>4
  <1>. QED
    BY <1>1, <1>2

\* However many threads load a class at the same time or again after a failure, it
\* is defined once, by classloader_load or by classloader_add_to_cache, when no
\* class is loaded in order to load itself.
THEOREM ClassesAreDefinedOnce == Acyclic /\ Spec => []DefinedOnce
  <1>1. ASSUME Acyclic PROVE Spec => []DefinedOnce
    <2>1. PICK rank \in [Names -> Nat] : Decreases(rank)
      BY <1>1 DEF Acyclic
    <2>2. Init => OnceInv(rank)
      BY InitOnce
    <2>3. OnceInv(rank) /\ [Next]_vars => OnceInv(rank)'
      BY <2>1, OnceNext
    <2>4. OnceInv(rank) => DefinedOnce
      BY DEF OnceInv, DefinedInv, DefinedOnce
    <2>. QED
      BY <2>2, <2>3, <2>4, PTL DEF Spec
  <1>. QED
    BY <1>1

=============================================================================
