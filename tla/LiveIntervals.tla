--------------------------- MODULE LiveIntervals ---------------------------
(***************************************************************************)
(* jit/interval.c, jit/liveness.c: where the variables of a method are live *)
(* and the intervals that the register allocator works on.                  *)
(*                                                                          *)
(* The instruction at offset i has position 2(i - 1) (lir_pos): it reads    *)
(* its inputs there and writes its outputs at the odd position after it. A  *)
(* use position is the set of positions at which one operand needs its      *)
(* register. Intervals are numbered; 0 is NULL. One variable for each       *)
(* machine register has a fixed interval, which says where calls clobber    *)
(* it. All variables have one type.                                         *)
(***************************************************************************)
EXTENDS ControlFlow

CONSTANTS
  NrVregs,      \* virtual registers
  NrRegisters,  \* machine registers
  CallerSave    \* those that a call does not preserve

ASSUME SizesAssumption == NrVregs \in Nat /\ NrRegisters \in Nat \ {0}
ASSUME CallerSaveAssumption == CallerSave \subseteq 1..NrRegisters

NULL == 0
Infinity == 10000    \* LONG_MAX: later than every position
Vregs == 1..NrVregs
Registers == 1..NrRegisters

LirPos(offset) == 2 * (offset - 1)
InsnAt(pos) == pos \div 2 + 1

\* start_insn and end_insn of a basic block
StartInsn(bb) == LirPos(bb.start)
EndInsn(bb) == LirPos(bb.end)

-----------------------------------------------------------------------------
(* Ranges and intervals                                                    *)

LiveRange(start, end) == [start |-> start, end |-> end]
InRange(r, pos) == r.start <= pos /\ pos < r.end

AllocInterval(var, fixed, reg) ==
  [var |-> var, ranges |-> <<>>, expired |-> <<>>, uses |-> {},
   fixed |-> fixed, reg |-> reg, spill |-> FALSE, reload |-> FALSE,
   parent |-> NULL, next |-> NULL, prev |-> NULL]

IntervalStart(it) == it.ranges[1].start
IntervalEnd(it) == Last(it.ranges).end
IntervalCovers(it, pos) == \E k \in DOMAIN it.ranges : InRange(it.ranges[k], pos)

\* A new range is merged with the first one it touches.
IntervalAddRange(it, start, end) ==
  LET rs == it.ranges
      touch == {k \in DOMAIN rs : rs[k].start <= end /\ start <= rs[k].end}
      after == {k \in DOMAIN rs : start <= rs[k].start}
      merged == IF touch = {} THEN rs
                ELSE [rs EXCEPT ![Min(touch)] =
                        LiveRange(Min({start, @.start}), Max({end, @.end}))]
      place == IF after = {} THEN Len(rs) + 1 ELSE Min(after)
  IN [it EXCEPT !.ranges = IF touch # {} THEN merged
                           ELSE InsertAt(rs, place, LiveRange(start, end))]

NextUsePos(it, pos) ==
  Min({p \in UNION it.uses : p >= pos} \cup {Infinity})

\* Where two intervals meet first, Infinity when they do not
IntersectionStart(it1, it2) ==
  Min({Max({rs[1].start, rs[2].start}) :
         rs \in {p \in ToSet(it1.ranges) \X ToSet(it2.ranges) :
                    p[2].start < p[1].end /\ p[1].start < p[2].end}}
      \cup {Infinity})
IntervalsIntersect(it1, it2) == IntersectionStart(it1, it2) # Infinity

\* Ranges before pos are put aside while the allocator looks at pos.
ExpireRangesBefore(it, pos) ==
  LET first == Max({k \in DOMAIN it.ranges : it.ranges[k].start <= pos}) IN
  IF pos < IntervalStart(it) \/ pos >= IntervalEnd(it) THEN it
  ELSE [it EXCEPT !.expired = @ \o SubSeq(it.ranges, 1, first - 1),
                  !.ranges = SubSeq(@, first, Len(@))]

RestoreExpiredRanges(it) ==
  [it EXCEPT !.ranges = it.expired \o @, !.expired = <<>>]

\* The assertions and the error of split_interval_at and split_ranges
CanSplitAt(it, pos) ==
  IntervalStart(it) < pos /\ pos < IntervalEnd(it) /\ IntervalCovers(it, pos)

\* The ranges before pos and those from pos on
SplitRanges(rs, pos) ==
  LET k == CHOOSE j \in DOMAIN rs : InRange(rs[j], pos)
      head == IF rs[k].start = pos THEN <<>> ELSE <<LiveRange(rs[k].start, pos)>>
  IN [before |-> SubSeq(rs, 1, k - 1) \o head,
      after |-> <<LiveRange(pos, rs[k].end)>> \o SubSeq(rs, k + 1, Len(rs))]

\* The part of interval i from pos on becomes a new interval, the last of
\* its; prev_child of the interval behind it is not changed.
SplitIntervalAt(its, i, pos) ==
  LET it == its[i]
      ranges == SplitRanges(it.ranges, pos)
  IN Append([its EXCEPT ![i].ranges = ranges.before,
                        ![i].uses = {u \in @ : Min(u) < pos},
                        ![i].next = Len(its) + 1],
            [AllocInterval(it.var, it.fixed, IF it.fixed THEN it.reg ELSE NULL)
               EXCEPT !.ranges = ranges.after,
                      !.uses = {u \in it.uses : Min(u) >= pos},
                      !.next = it.next, !.prev = i])

\* An interval and its children
Children(its, parent) ==
  LET from[i \in 0 .. Len(its)] ==
        IF i = NULL THEN <<>> ELSE <<i>> \o from[its[i].next]
  IN from[parent]

\* The first of them that covers a position
IntervalChildAt(its, parent, pos) ==
  LET child[i \in 0 .. Len(its)] ==
        IF i = NULL \/ IntervalCovers(its[i], pos) THEN i ELSE child[its[i].next]
  IN child[parent]

-----------------------------------------------------------------------------
(* Liveness                                                                *)

Offsets(bb) == bb.start .. bb.end - 1

UseSet(code, bb) ==
  {v \in Vregs : \E i \in Offsets(bb) :
     v \in code[i].in /\ \A j \in bb.start .. i - 1 : v \notin code[j].out}
DefSet(code, bb) == UNION {code[i].out : i \in Offsets(bb)}

\* live_in first; a block that is its own successor has it in live_out at once.
VisitBlock(code, bbs, live, k) ==
  LET entered == [live EXCEPT ![k].in =
                    (live[k].out \ DefSet(code, bbs[k])) \cup UseSet(code, bbs[k])]
  IN [entered EXCEPT ![k].out =
        UNION {entered[FindBb(bbs, s)].in : s \in ToSet(bbs[k].succ)}]

\* One round of analyze_live_sets over the blocks, from the last to the
\* first; a set read from a block behind is the one of this round.
LivePass(code, bbs, live) ==
  LET after[n \in 0 .. Len(bbs)] ==
        IF n = 0 THEN live
        ELSE VisitBlock(code, bbs, after[n - 1], Len(bbs) + 1 - n)
  IN after[Len(bbs)]

\* The use position of an operand, from its kind (get_lir_positions)
LirPositions(insn, offset, v) ==
  {p \in {LirPos(offset), LirPos(offset) + 1} :
     v \in IF p = LirPos(offset) THEN insn.in ELSE insn.out}

\* The intervals as instruction selection leaves them
FreshIntervals(code) ==
  [i \in 1 .. NrVregs + NrRegisters |->
     IF i > NrVregs THEN AllocInterval(i, TRUE, i - NrVregs)
     ELSE [AllocInterval(i, FALSE, NULL) EXCEPT
             !.uses = {LirPositions(code[o], o, i) :
                         o \in {p \in DOMAIN code : i \in code[p].in \cup code[p].out}}]]

\* Mutant: a write only begins a range when there is none behind it
DefineAtFirst(it, pos, bb) ==
  IF it.ranges = <<>> THEN IntervalAddRange(it, pos, EndInsn(bb)) ELSE it

\* A write begins the first range, or a range of its own.
DefineAt(it, pos, bb) ==
  IF it.ranges = <<>> THEN IntervalAddRange(it, pos, EndInsn(bb))
  ELSE [it EXCEPT !.ranges[1].start = pos]

\* __update_live_ranges for one instruction: outputs, inputs, clobbers
UpdateRanges(its, bb, insn, pos) ==
  [i \in DOMAIN its |->
     LET defined == IF i \in insn.out THEN DefineAt(its[i], pos + 1, bb) ELSE its[i]
         used == IF i \in insn.in
                   THEN IntervalAddRange(defined, StartInsn(bb), pos + 1)
                   ELSE defined
     IN IF insn.op = "call" /\ its[i].fixed /\ its[i].reg \in CallerSave
          THEN IntervalAddRange(used, pos + 1, pos + 2) ELSE used]

\* The variables of live_out_set are live in all of the block at first.
AddLiveOut(its, bb, out) ==
  [i \in DOMAIN its |->
     IF i \in out THEN IntervalAddRange(its[i], StartInsn(bb), EndInsn(bb)) ELSE its[i]]

\* A block, from its last instruction to its first
UpdateBlock(code, bb, out, its) ==
  LET after[n \in 0 .. bb.end - bb.start] ==
        IF n = 0 THEN AddLiveOut(its, bb, out)
        ELSE UpdateRanges(after[n - 1], bb, code[bb.end - n], LirPos(bb.end - n))
  IN after[bb.end - bb.start]

\* update_live_ranges goes from the last block to the first.
UpdateLiveRanges(code, bbs, live, fresh) ==
  LET after[n \in 0 .. Len(bbs)] ==
        IF n = 0 THEN fresh
        ELSE UpdateBlock(code, bbs[Len(bbs) + 1 - n], live[Len(bbs) + 1 - n].out,
                         after[n - 1])
  IN after[Len(bbs)]

-----------------------------------------------------------------------------
(* What liveness is, without the algorithm                                 *)

\* The offsets whose instruction reads v, or goes on to one of `found' and does
\* not write v
LiveOneBefore(code, v, found) ==
  {i \in DOMAIN code :
     \/ v \in code[i].in
     \/ v \notin code[i].out /\ NextOffsets(code, i) \cap found # {}}

\* The offsets before whose instruction v is live: its value there is read
\* on some way on before it is written again.
LiveBefore(code, v) ==
  LET within[n \in 0 .. Len(code)] ==
        IF n = 0 THEN {} ELSE LiveOneBefore(code, v, within[n - 1])
  IN within[Len(code)]

\* live_in_set and live_out_set hold the variables that are live there.
LiveSetsExact(code, bbs, live) ==
  \A v \in Vregs :
    LET before == LiveBefore(code, v) IN
    \A k \in DOMAIN bbs :
      /\ v \in live[k].in <=> bbs[k].start \in before
      /\ v \in live[k].out <=> NextOffsets(code, bbs[k].end - 1) \cap before # {}

\* "List of not overlaping and not adjacent ranges sorted in ascending order"
RangesInOrder(it) ==
  \A k \in DOMAIN it.ranges :
    /\ it.ranges[k].start < it.ranges[k].end
    /\ k > 1 => it.ranges[k - 1].end < it.ranges[k].start

\* The interval of a variable covers every position at which its value is
\* needed, and the position after each write of it.
CoversLife(code, it) ==
  LET before == LiveBefore(code, it.var) IN
  \A i \in DOMAIN code :
    /\ i \in before => IntervalCovers(it, LirPos(i))
    /\ it.var \in code[i].out \/ NextOffsets(code, i) \cap before # {}
         => IntervalCovers(it, LirPos(i) + 1)
=============================================================================
