------------------------- MODULE RegisterAllocation -------------------------
(***************************************************************************)
(* The way of a method from instructions on virtual registers to code on    *)
(* machine registers: control flow, liveness, linear scan                   *)
(* (jit/linear-scan.c), spills, reloads and the resolution of data flow     *)
(* (jit/spill-reload.c), in the order of do_compile (jit/compiler.c). Then  *)
(* the code runs on a machine whose registers and stack slots hold the set  *)
(* of variables whose value they have.                                      *)
(*                                                                          *)
(* The instructions are chosen one by one: each has the variables it reads  *)
(* (in) and writes (out).                                                   *)
(***************************************************************************)
EXTENDS LiveIntervals, PriorityQueue

CONSTANTS
  MaxCode,        \* instructions of a method, the return included
  MaxHard,        \* those of a method with two branches, a goto or a loop
  MaxBranches,    \* branches among them
  Prologue,       \* those that take over the arguments of the method
  Insns,          \* instructions without a target to choose from
  Branches        \* the branches: a subset of {"if", "goto"}

\* call stands for the instructions that clobber registers, plain for the rest.
Ops == {"plain", "call", "if", "goto", "return"}
Instructions == [op : Ops, target : Nat, in : SUBSET Vregs, out : SUBSET Vregs]

ASSUME MethodAssumption ==
  /\ MaxCode \in Nat /\ MaxBranches \in Nat /\ MaxHard \in Nat
  /\ Prologue \in Seq(Instructions) /\ Insns \subseteq Instructions
  /\ \A insn \in Insns \cup ToSet(Prologue) : ~EndsBasicBlock(insn)
  /\ Branches \subseteq {"if", "goto"}

VARIABLES
  phase,      \* the pass that comes next
  code,       \* the instructions
  bbs,        \* the basic blocks
  live,       \* live_in_set and live_out_set of each
  its,        \* the intervals
  unhandled,  \* the queue of intervals to allocate, by their start
  active, inactive,
  out,        \* the code on machine registers, one list for each block
  edges,      \* the resolution blocks: [block, successor] -> reloads
  pc,         \* the running program: block and place in its list
  held        \* variables whose value a register or a slot has

passes == <<bbs, live, its, unhandled, active, inactive>>
vars == <<phase, code, bbs, live, its, unhandled, active, inactive, out, edges,
          pc, held>>

Init ==
  /\ phase = "select" /\ code = Prologue /\ bbs = <<>> /\ live = <<>> /\ its = <<>>
  /\ unhandled = <<>> /\ active = {} /\ inactive = {}
  /\ out = <<>> /\ edges = <<>> /\ pc = <<1, 1>> /\ held = <<>>

-----------------------------------------------------------------------------
(* Instruction selection                                                   *)

Insn(op, target, in, o) == [op |-> op, target |-> target, in |-> in, out |-> o]

\* One branch at most, conditional and forward
Simple(c) ==
  /\ Cardinality({i \in DOMAIN c : IsBranch(c[i])}) <= 1
  /\ \A i \in DOMAIN c : IsBranch(c[i]) => c[i].op = "if" /\ c[i].target > i

\* Bound: how many instructions these may become with the return
Room(c) == IF Simple(c) THEN MaxCode ELSE MaxHard

\* The next instruction: no variable may be read before it is written.
Select(insn) ==
  /\ phase = "select"
  /\ code' = Append(code, insn)
  /\ Len(code') < Room(code') /\ \A t \in BranchTargets(code') : t <= Room(code')
  /\ \A v \in insn.in : 1 \notin LiveBefore(code', v)
  /\ UNCHANGED <<phase, passes, out, edges, pc, held>>

SelectBranch(op, target) ==
  /\ Cardinality({i \in DOMAIN code : IsBranch(code[i])}) < MaxBranches
  /\ Select(Insn(op, target, {}, {}))

\* The method ends with a return, and select_instructions is done.
SelectReturn ==
  /\ phase = "select"
  /\ \A t \in BranchTargets(code) : t <= Len(code) + 1
  /\ code' = Append(code, Insn("return", 0, {}, {}))
  /\ phase' = "flow"
  /\ UNCHANGED <<passes, out, edges, pc, held>>

-----------------------------------------------------------------------------
(* Analysis                                                                *)

BuildBlocks ==
  /\ phase = "flow"
  /\ bbs' = AnalyzeControlFlow(code)
  /\ live' = [k \in DOMAIN bbs' |-> [in |-> {}, out |-> {}]]
  /\ phase' = "liveness"
  /\ UNCHANGED <<code, its, unhandled, active, inactive, out, edges, pc, held>>

AnalyzeLiveSets ==
  /\ phase = "liveness"
  /\ live' = LivePass(code, bbs, live)
  /\ phase' = IF live' = live THEN "ranges" ELSE "liveness"
  /\ UNCHANGED <<code, bbs, its, unhandled, active, inactive, out, edges, pc, held>>

BuildIntervals ==
  /\ phase = "ranges"
  /\ its' = UpdateLiveRanges(code, bbs, live, FreshIntervals(code))
  /\ phase' = "intervals"
  /\ UNCHANGED <<code, bbs, live, unhandled, active, inactive, out, edges, pc, held>>

-----------------------------------------------------------------------------
(* Linear scan                                                             *)

\* for_each_variable: the newest variable comes first.
VarInfos == [n \in Vregs |-> NrVregs + 1 - n]

\* Mutant of Enqueue: the interval that ends first is handled first.
EnqueueByEnd(queue, intervals, i) ==
  pqueue_insert(queue, IntervalEnd(intervals[i]), i)

Enqueue(queue, intervals, i) ==
  pqueue_insert(queue, IntervalStart(intervals[i]), i)

\* allocate_registers up to its loop: the fixed intervals are inactive, the
\* others are to be handled.
StartAllocation ==
  LET used == {i \in DOMAIN its : its[i].ranges # <<>>}
      \* the queue after n variables
      after[n \in 0 .. NrVregs] ==
        IF n = 0 THEN <<>>
        ELSE IF VarInfos[n] \in used THEN Enqueue(after[n - 1], its, VarInfos[n])
        ELSE after[n - 1]
  IN /\ phase = "intervals"
     /\ inactive' = {i \in used : its[i].fixed}
     /\ unhandled' = after[NrVregs]
     /\ phase' = "allocate"
     /\ UNCHANGED <<code, bbs, live, its, active, out, edges, pc, held>>

\* What the allocator changes: its, the unhandled intervals, and whether an
\* assertion has failed
Scan(intervals, queue, ok) == [its |-> intervals, queue |-> queue, ok |-> ok]

Split(s, i, pos) ==
  IF s.ok /\ CanSplitAt(s.its[i], pos)
    THEN [s EXCEPT !.its = SplitIntervalAt(s.its, i, pos)]
    ELSE [s EXCEPT !.ok = FALSE]

\* Trim an interval that does not start with a use position.
Trim(s, new) ==
  IF NextUsePos(s.its[new], 0) > IntervalStart(s.its[new])
    THEN Split(s, new, NextUsePos(s.its[new], 0)) ELSE s

\* The children that were to be reloaded from i are now reloaded from new.
MoveSpillParent(intervals, i, new) ==
  LET later == ToSet(Children(intervals, intervals[new].next))
      Move(j, acc) == [acc EXCEPT ![j].parent = new]
  IN FoldSet(Move, intervals,
             {j \in DOMAIN intervals : /\ j \in later /\ intervals[j].reload
                                       /\ intervals[j].parent = i})

\* new is handled later; its value comes from i unless it starts with a write.
SpillTo(s, i, new, reload) ==
  IF ~s.ok THEN s
  ELSE Scan([MoveSpillParent(s.its, i, new) EXCEPT
               ![new].spill = s.its[i].spill,
               ![new].reload = reload,
               ![new].parent = IF reload THEN i ELSE NULL,
               ![i].spill = TRUE],
            Enqueue(s.queue, s.its, new), TRUE)

SpillRest(s, i) ==
  LET rest == s.its[Len(s.its)] IN
  IF ~s.ok \/ rest.uses = {} THEN s
  ELSE SpillTo(Trim(s, Len(s.its)), i,
               Len(s.its) + IF NextUsePos(rest, 0) > IntervalStart(rest) THEN 1 ELSE 0,
               NextUsePos(rest, 0) % 2 = 0)

\* spill_interval of linear-scan.c: what follows pos is an interval of its
\* own, and from its first use on it is handled again.
SpillInterval(s, i, pos) == SpillRest(Split(s, i, pos), i)

\* The register whose position is the latest, the last one of several
PickRegister(pos) ==
  Max({r \in Registers : \A q \in Registers : pos[q] <= pos[r]})

\* The earliest of the positions that the intervals of a register give it
EarliestPos(intervals, set, Pos(_)) ==
  [r \in Registers |->
     Min({Pos(intervals[i]) : i \in {j \in set : intervals[j].reg = r}}
         \cup {Infinity})]
EarlierOf(f, g) == [r \in Registers |-> Min({f[r], g[r]})]

FreeUntilPos(intervals, cur, act, inact) ==
  EarlierOf(EarliestPos(intervals, act, LAMBDA it : 0),
            EarliestPos(intervals, inact,
                        LAMBDA it : IntersectionStart(it, intervals[cur])))

UseFree(s, cur, reg, until) ==
  IF until = 0 THEN s
  ELSE LET part == IF IntervalEnd(s.its[cur]) <= until THEN s
                   ELSE SpillInterval(s, cur, until)
       IN [part EXCEPT !.its[cur].reg = reg]

TryToAllocateFreeReg(s, cur, act, inact) ==
  LET free == FreeUntilPos(s.its, cur, act, inact)
      reg == PickRegister(free)
  IN UseFree(s, cur, reg, free[reg])

\* Mutant of SpillIntersecting: compares with the start of the current interval.
SpillIntersectingOther(s, cur, i) ==
  LET start == IntersectionStart(s.its[cur], s.its[i]) IN
  IF \/ s.its[i].reg # s.its[cur].reg
     \/ start = Infinity
     \/ start = IntervalStart(s.its[cur])
  THEN s ELSE SpillInterval(s, i, start)

\* An interval that starts where the two meet is left alone.
SpillIntersecting(s, cur, i) ==
  LET start == IntersectionStart(s.its[cur], s.its[i]) IN
  IF \/ s.its[i].reg # s.its[cur].reg
     \/ start = Infinity
     \/ start = IntervalStart(s.its[i])
  THEN s ELSE SpillInterval(s, i, start)

BlockPos(intervals, cur, act, inact) ==
  LET fixed == {i \in DOMAIN intervals : intervals[i].fixed} IN
  FreeUntilPos(intervals, cur, act \cap fixed, inact \cap fixed)

UsePos(intervals, cur, act, inact) ==
  LET meets == {i \in inact : IntervalsIntersect(intervals[i], intervals[cur])}
      fixed == {i \in DOMAIN intervals : intervals[i].fixed}
  IN EarlierOf(BlockPos(intervals, cur, act, inact),
       EarliestPos(intervals, (act \cup meets) \ fixed,
                   LAMBDA it : NextUsePos(it, IntervalStart(intervals[cur]))))

\* The others give way to cur, or cur waits for its first use.
UseBlocked(s, cur, others, reg, use, block) ==
  LET taken == [s EXCEPT !.its[cur].reg = reg]
      part == IF block < IntervalEnd(s.its[cur])
                THEN SpillInterval(taken, cur, block) ELSE taken
      GiveWay(i, acc) == SpillIntersecting(acc, cur, i)
  IN IF use < NextUsePos(s.its[cur], 0)
       THEN SpillInterval(s, cur, NextUsePos(s.its[cur], IntervalStart(s.its[cur])))
       ELSE FoldSet(GiveWay, part, others)

AllocateBlockedReg(s, cur, act, inact) ==
  LET use == UsePos(s.its, cur, act, inact)
      reg == PickRegister(use)
  IN UseBlocked(s, cur, act \cup inact, reg, use[reg],
                BlockPos(s.its, cur, act, inact)[reg])

AllocateReg(s, cur, act, inact) ==
  IF s.its[cur].reg # NULL THEN s ELSE AllocateBlockedReg(s, cur, act, inact)

\* One turn of the loop of allocate_registers
AllocateRegister ==
  LET cur == unhandled[1].value
      pos == IntervalStart(its[cur])
      here == {i \in active \cup inactive : IntervalEnd(its[i]) > pos}
      covering == {i \in here : IntervalCovers(its[i], pos)}
      Expire(i, acc) == [acc EXCEPT ![i] = ExpireRangesBefore(its[i], pos)]
      start == Scan(FoldSet(Expire, its, here), pqueue_remove_top(unhandled), TRUE)
      free == TryToAllocateFreeReg(start, cur, covering, here \ covering)
  IN /\ phase = "allocate" /\ unhandled # <<>>
     /\ \E s \in {AllocateReg(free, cur, covering, here \ covering)} :
          /\ its' = s.its
          /\ unhandled' = s.queue
          /\ active' = covering \cup (IF s.its[cur].reg # NULL THEN {cur} ELSE {})
          /\ phase' = IF s.ok THEN "allocate" ELSE "assert"
     /\ inactive' = here \ covering
     /\ UNCHANGED <<code, bbs, live, out, edges, pc, held>>

-----------------------------------------------------------------------------
(* Spills and reloads                                                      *)

Op(offset) == [do |-> "op", at |-> offset]
Spill(reg, slot) == [do |-> "spill", reg |-> reg, slot |-> slot]
Reload(slot, reg) == [do |-> "reload", slot |-> slot, reg |-> reg]
CopySlot(from, to) == [do |-> "copy", from |-> from, to |-> to]

\* get_spill_slot never gives a slot twice: the slot of an interval, and the
\* slot for an interval at one edge of the flow graph.
SpillSlot(i) == <<i>>
EdgeSlot(i, k, n) == <<i, k, n>>

PlaceOf(list, offset) == CHOOSE p \in DOMAIN list : list[p] = Op(offset)

InsertBefore(lists, offset, item) ==
  LET k == FindBb(bbs, offset) IN
  [lists EXCEPT ![k] = InsertAt(@, PlaceOf(@, offset), item)]
InsertAfter(lists, offset, item) ==
  LET k == FindBb(bbs, offset) IN
  [lists EXCEPT ![k] = InsertAt(@, PlaceOf(@, offset) + 1, item)]

\* __insert_spill_reload_insn
InsertSpillReload(all, lists, i) ==
  LET it == all[i]
      last == IntervalEnd(it) - 1
      reloaded ==
        IF ~it.reload THEN lists
        ELSE InsertBefore(lists, InsnAt(IntervalStart(it)),
                          Reload(SpillSlot(it.parent), it.reg))
      spill == Spill(it.reg, SpillSlot(i))
  IN CASE it.ranges = <<>> -> lists
       [] ~it.spill -> reloaded
       [] last % 2 = 1 -> InsertAfter(reloaded, InsnAt(last), spill)
       [] OTHER -> InsertBefore(reloaded, InsnAt(last), spill)

\* The assertions on the way: an interval that is reloaded starts before an
\* instruction, and its parent has a slot.
SpillAssertions(all) ==
  \A i \in DOMAIN all :
    all[i].reload => /\ IntervalStart(all[i]) % 2 = 0
                     /\ all[all[i].parent].spill

\* maybe_add_mapping: the intervals of v at the two ends of an edge, NULL
\* when nothing is to be moved
RealFrom(all, f) ==
  LET real[i \in 0 .. Len(all)] ==
        IF i = NULL \/ all[i].reg # NULL THEN i ELSE real[all[i].prev]
  IN real[f]
RealTo(all, t) ==
  LET real[i \in 0 .. Len(all)] ==
        IF i = NULL \/ all[i].reg # NULL THEN i ELSE real[all[i].next]
  IN real[t]

Mapping(all, v, from, to) ==
  LET f == IntervalChildAt(all, v, EndInsn(from) - 1)
      t == IntervalChildAt(all, v, StartInsn(to))
      none == [from |-> NULL, to |-> NULL]
      real == [from |-> RealFrom(all, f), to |-> RealTo(all, t)]
  IN IF f = t \/ f = NULL \/ t = NULL \/ real.from = NULL \/ real.to = NULL
       THEN none ELSE real

\* The moves at the edge from block k to its n-th successor: values go to
\* slots before control leaves the block, then to the slot from which the
\* target reloads them or, in the resolution block, to their register.
ResolveEdge(all, acc, k, n) ==
  LET to == FindBb(bbs, bbs[k].succ[n])
      Maps(v) == Mapping(all, v, bbs[k], bbs[to])
      moved == SelectSeq(VarInfos, LAMBDA v : v \in live[to].in /\ Maps(v).from # NULL)
      From(v) == all[Maps(v).from]
      To(v) == all[Maps(v).to]
      Stored(v) == From(v).spill /\ IntervalEnd(From(v)) < EndInsn(bbs[k])
      Slot(v) == IF Stored(v) THEN SpillSlot(Maps(v).from)
                 ELSE EdgeSlot(Maps(v).from, k, n)
      Copied(v) == To(v).reload /\ IntervalStart(To(v)) >= StartInsn(bbs[to])
      toStore == SelectSeq(moved, LAMBDA v : ~Stored(v))
      toCopy == SelectSeq(moved, Copied)
      toReload == SelectSeq(moved, LAMBDA v : ~Copied(v))
      last == bbs[k].end - 1
      place == PlaceOf(acc.out[k], last) + IF IsBranch(code[last]) THEN 0 ELSE 1
      moves == [j \in DOMAIN toStore |-> Spill(From(toStore[j]).reg, Slot(toStore[j]))]
               \o [j \in DOMAIN toCopy |->
                     CopySlot(Slot(toCopy[j]), SpillSlot(To(toCopy[j]).parent))]
  IN [out |-> [acc.out EXCEPT ![k] = SubSeq(@, 1, place - 1) \o moves \o
                                     SubSeq(@, place, Len(@))],
      edges |-> Append(acc.edges,
                  [from |-> k, to |-> bbs[to].start,
                   reloads |-> [j \in DOMAIN toReload |->
                     Reload(Slot(toReload[j]), To(toReload[j]).reg)]])]

ResolveDataFlow(all, lists) ==
  LET Edge(acc, e) == ResolveEdge(all, acc, e[1], e[2])
  IN FoldLeft(Edge, [out |-> lists, edges |-> <<>>],
       FlattenSeq([k \in DOMAIN bbs |-> [n \in DOMAIN bbs[k].succ |-> <<k, n>>]]))

\* The register of an operand is that of the interval its use position is in.
MachReg(all, v, offset) ==
  LET use == LirPositions(code[offset], offset, v) IN
  all[CHOOSE i \in DOMAIN all : all[i].var = v /\ use \in all[i].uses].reg

EmitInsn(all, item) ==
  IF item.do # "op" THEN item
  ELSE [do |-> "op", at |-> item.at,
        reg |-> [v \in code[item.at].in \cup code[item.at].out |->
                   MachReg(all, v, item.at)]]

\* The end of allocate_registers, insert_spill_reload_insns and the emission
\* of the code; then what the passes made is freed.
InsertSpillReloadInsns ==
  LET all == [i \in DOMAIN its |-> RestoreExpiredRanges(its[i])]
      order == FlattenSeq([n \in Vregs |-> Children(all, VarInfos[n])])
      Insert(acc, i) == InsertSpillReload(all, acc, i)
      lists == FoldLeft(Insert,
                 [k \in DOMAIN bbs |-> [n \in 1 .. bbs[k].end - bbs[k].start |->
                                          Op(bbs[k].start + n - 1)]], order)
      resolved == ResolveDataFlow(all, lists)
  IN /\ phase = "allocate" /\ unhandled = <<>>
     /\ IF SpillAssertions(all)
          THEN /\ out' = [k \in DOMAIN bbs |-> [p \in DOMAIN resolved.out[k] |->
                            EmitInsn(all, resolved.out[k][p])]]
               /\ edges' = resolved.edges
               /\ phase' = "run"
          ELSE phase' = "assert" /\ UNCHANGED <<out, edges>>
     /\ its' = <<>> /\ live' = <<>> /\ active' = {} /\ inactive' = {}
     /\ held' = [regs |-> [r \in Registers |-> {}], slots |-> <<>>]
     /\ UNCHANGED <<code, bbs, unhandled, pc>>

-----------------------------------------------------------------------------
(* The machine                                                             *)

Item == out[pc[1]][pc[2]]
Running(op) == phase = "run" /\ pc[2] <= Len(out[pc[1]]) /\ Item.do = op

InSlot(h, slot) == IF slot \in DOMAIN h.slots THEN h.slots[slot] ELSE {}
StoreSlot(h, slot, set) == [h EXCEPT !.slots = (slot :> set) @@ @]

Move(h, item) ==
  CASE item.do = "spill" -> StoreSlot(h, item.slot, h.regs[item.reg])
    [] item.do = "reload" -> [h EXCEPT !.regs[item.reg] = InSlot(h, item.slot)]
    [] item.do = "copy" -> StoreSlot(h, item.to, InSlot(h, item.from))

\* A write of v makes every other place that had its value stale.
Write(h, v, reg) ==
  [regs |-> [r \in Registers |-> IF r = reg THEN {v} ELSE h.regs[r] \ {v}],
   slots |-> [s \in DOMAIN h.slots |-> h.slots[s] \ {v}]]

Clobber(h) == [h EXCEPT !.regs = [r \in Registers |->
                                    IF r \in CallerSave THEN {} ELSE @[r]]]

Proceed == pc' = <<pc[1], pc[2] + 1>>

Execute ==
  LET insn == code[Item.at]
      called == IF insn.op = "call" THEN Clobber(held) ELSE held
      WriteOut(v, h) == Write(h, v, Item.reg[v])
  IN /\ Running("op") /\ ~EndsBasicBlock(insn)
     /\ held' = FoldSet(WriteOut, called, insn.out)
     /\ Proceed
     /\ UNCHANGED <<phase, code, passes, out, edges>>

MoveValue ==
  /\ \E do \in {"spill", "reload", "copy"} : Running(do)
  /\ held' = Move(held, Item)
  /\ Proceed
  /\ UNCHANGED <<phase, code, passes, out, edges>>

\* A taken branch runs the resolution block of its edge on its way.
TakeBranch ==
  /\ Running("op") /\ IsBranch(code[Item.at])
  /\ \E n \in DOMAIN edges :
       /\ edges[n].from = pc[1] /\ edges[n].to = code[Item.at].target
       /\ held' = FoldLeft(Move, held, edges[n].reloads)
  /\ pc' = <<FindBb(bbs, code[Item.at].target), 1>>
  /\ UNCHANGED <<phase, code, passes, out, edges>>

\* A branch that is not taken, and the end of a block, run into the next
\* code: there is no resolution block on this way.
FallThrough ==
  /\ \/ Running("op") /\ code[Item.at].op = "if" /\ Proceed
     \/ phase = "run" /\ pc[2] > Len(out[pc[1]]) /\ pc' = <<pc[1] + 1, 1>>
  /\ UNCHANGED <<phase, code, passes, out, edges, held>>

Return ==
  /\ Running("op") /\ code[Item.at].op = "return"
  /\ phase' = "done"
  /\ UNCHANGED <<code, passes, out, edges, pc, held>>

Done == phase \in {"done", "assert"} /\ UNCHANGED vars

Next ==
  \/ \E insn \in Insns : Select(insn)
  \/ \E op \in Branches, target \in 1 .. MaxCode : SelectBranch(op, target)
  \/ SelectReturn
  \/ BuildBlocks \/ AnalyzeLiveSets \/ BuildIntervals
  \/ StartAllocation \/ AllocateRegister
  \/ InsertSpillReloadInsns
  \/ Execute \/ MoveValue \/ TakeBranch \/ FallThrough \/ Return
  \/ Done

Spec == Init /\ [][Next]_vars

-----------------------------------------------------------------------------
(* Properties                                                              *)

\* analyze_control_flow: the basic blocks begin where control can enter and
\* end where it can leave, and their successors are where it goes, whatever
\* the order of the cuts.
FlowGraphExact == phase = "liveness" => IsFlowGraph(code, bbs)

\* analyze_liveness: the live sets of the iteration are those of the ways
\* through the code, and the intervals that are built from them backwards
\* have their ranges in order and leave out no position at which the value
\* of their variable is needed.
LivesAreCovered ==
  phase = "intervals" =>
    /\ LiveSetsExact(code, bbs, live)
    /\ \A i \in DOMAIN its : RangesInOrder(its[i])
    /\ \A v \in Vregs : CoversLife(code, its[v])

\* allocate_registers goes through the positions in order: the intervals that
\* it splits off and puts into the queue start no earlier than where it is,
\* and the heap gives the one that starts first, so that an interval that has
\* expired is not needed again.
ScanAdvances ==
  [][phase = "allocate" /\ unhandled # <<>> /\ unhandled' # <<>>
       => IntervalStart(its[unhandled[1].value])
            <= IntervalStart(its'[unhandled'[1].value])]_vars

\* "Make sure intervals spilled across basic block boundaries will be reloaded
\* correctly" (insert_spill_reload_insns): every operand has a register, and
\* when an instruction reads a variable its register has the value that was
\* written last, whatever was split, spilled, moved and clobbered before. On
\* the way no assertion of split_interval_at and insert_spill_reload_insns
\* fails: an interval is split inside its ranges only, and is reloaded only
\* between two instructions and from an interval that has a slot.
AllocationIsRight ==
  /\ phase # "assert"
  /\ Running("op") =>
       /\ \A v \in DOMAIN Item.reg : Item.reg[v] \in Registers
       /\ \A v \in code[Item.at].in : v \in held.regs[Item.reg[v]]

\* The code of methods with one branch at most, conditional and forward, reads
\* the values it should, through splits, spills and reloads.
ValuesReachTheirUses == Simple(code) => AllocationIsRight
=============================================================================
