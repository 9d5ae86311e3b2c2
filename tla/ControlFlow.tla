---------------------------- MODULE ControlFlow ----------------------------
(***************************************************************************)
(* jit/cfg-analyzer.c and bb_split of jit/basic-block.c: the basic blocks   *)
(* of a method and the edges between them.                                  *)
(*                                                                          *)
(* The code of a method is a sequence of instructions, numbered from 1. An  *)
(* instruction has an op and, for "if" and "goto", a target. A basic block  *)
(* is known by its start offset, which bb_split does not change; its end is *)
(* exclusive, and target is 0 when it ends with no branch (has_branch).     *)
(* athrow is a "return" here; the switches, whose edges are added when they *)
(* are converted, and exception handlers are left out.                      *)
(***************************************************************************)
EXTENDS Integers, Sequences, SequencesExt, FiniteSetsExt

BasicBlock(start, end, succ, target) ==
  [start |-> start, end |-> end, succ |-> succ, target |-> target]

IsBranch(insn) == insn.op \in {"if", "goto"}
EndsBasicBlock(insn) == IsBranch(insn) \/ insn.op = "return"

\* Mutant of BbSplit: the upper half keeps the successors and the branch.
BbSplitKeeps(bbs, k, offset) ==
  InsertAt([bbs EXCEPT ![k].end = offset], k + 1,
           BasicBlock(offset, bbs[k].end, <<>>, 0))

\* The lower half of a block takes over its successors and its branch.
BbSplit(bbs, k, offset) ==
  InsertAt([bbs EXCEPT ![k] = BasicBlock(@.start, offset, <<>>, 0)], k + 1,
           [bbs[k] EXCEPT !.start = offset])

BbAddSuccessor(bbs, k, start) == [bbs EXCEPT ![k].succ = Append(@, start)]

FindBb(bbs, offset) ==
  CHOOSE k \in DOMAIN bbs : bbs[k].start <= offset /\ offset < bbs[k].end

\* One instruction of the loop of split_after_branches: the block that is
\* being cut is always the last one.
SplitAfter(code, bbs, offset) ==
  LET k == Len(bbs)
      next == offset + 1
      cut == IF next = bbs[k].end THEN bbs ELSE BbSplit(bbs, k, next)
      linked == IF next # bbs[k].end /\ code[offset].op = "if"
                  THEN BbAddSuccessor(cut, k, next) ELSE cut
  IN CASE ~EndsBasicBlock(code[offset]) -> bbs
       [] IsBranch(code[offset]) -> [linked EXCEPT ![k].target = code[offset].target]
       [] OTHER -> linked

SplitAfterBranches(code) ==
  LET after[offset \in 0 .. Len(code)] ==
        IF offset = 0 THEN <<BasicBlock(1, Len(code) + 1, <<>>, 0)>>
        ELSE SplitAfter(code, after[offset - 1], offset)
  IN after[Len(code)]

BranchTargets(code) == {code[i].target : i \in {j \in DOMAIN code : IsBranch(code[j])}}

\* One offset of the loop of split_at_branch_targets
SplitAt(code, bbs, offset) ==
  LET k == FindBb(bbs, offset) IN
  IF offset \notin BranchTargets(code) \/ bbs[k].start = offset THEN bbs
  ELSE BbAddSuccessor(BbSplit(bbs, k, offset), k, offset)

SplitAtBranchTargets(code, bbs) ==
  LET after[offset \in 0 .. Len(code)] ==
        IF offset = 0 THEN bbs ELSE SplitAt(code, after[offset - 1], offset)
  IN after[Len(code)]

UpdateBranchSuccessors(bbs) ==
  [k \in DOMAIN bbs |->
     IF bbs[k].target = 0 \/ Contains(bbs[k].succ, bbs[k].target) THEN bbs[k]
     ELSE [bbs[k] EXCEPT !.succ = Append(@, bbs[k].target)]]

AnalyzeControlFlow(code) ==
  UpdateBranchSuccessors(SplitAtBranchTargets(code, SplitAfterBranches(code)))

-----------------------------------------------------------------------------
(* What a flow graph is, without the algorithm                             *)

\* The offsets control can reach from an offset in one step
NextOffsets(code, i) ==
  (IF IsBranch(code[i]) THEN {code[i].target} ELSE {}) \cup
  (IF code[i].op \in {"goto", "return"} THEN {} ELSE {i + 1})

Leaders(code) ==
  {1} \cup BranchTargets(code) \cup
  {i + 1 : i \in {j \in DOMAIN code : EndsBasicBlock(code[j]) /\ j < Len(code)}}

\* The blocks are the code cut before every leader and nowhere else, in
\* order, and the successors of a block are where its last instruction goes.
IsFlowGraph(code, bbs) ==
  /\ {bbs[k].start : k \in DOMAIN bbs} = Leaders(code)
  /\ \A k \in DOMAIN bbs :
       /\ bbs[k].start < bbs[k].end
       /\ bbs[k].end = IF k = Len(bbs) THEN Len(code) + 1 ELSE bbs[k + 1].start
       /\ ToSet(bbs[k].succ) = NextOffsets(code, bbs[k].end - 1)
       /\ IsInjective(bbs[k].succ)
=============================================================================
