----------------------------- MODULE Dominance -----------------------------
(***************************************************************************)
(* jit/dominance.c, and the placing of phi functions of jit/ssa.c.  A flow *)
(* graph gives for each basic block the sequence of its successors; the    *)
(* entry is block 1.  Blocks that the entry does not reach (exception      *)
(* handlers) have no depth-first number and are passed over.               *)
(***************************************************************************)
EXTENDS Integers, Sequences, SequencesExt, FiniteSetsExt

Entry == 1

\* bb_add_successor enters a block with its successors as predecessor of them.
Predecessors(succ, b) ==
  FlattenSeq([a \in DOMAIN succ |->
                [i \in 1..Cardinality({j \in DOMAIN succ[a] : succ[a][j] = b}) |-> a]])

-----------------------------------------------------------------------------
(* Depth-first numbers                                                     *)

\* df is bb_df_array: blocks in the order in which they are first met.
RECURSIVE do_compute_dfns(_, _, _)
do_compute_dfns(succ, bb, df) ==
  FoldLeft(LAMBDA acc, s : IF Contains(acc, s) THEN acc
                           ELSE do_compute_dfns(succ, s, Append(acc, s)),
           df, succ[bb])

compute_dfns(succ) == do_compute_dfns(succ, Entry, <<Entry>>)

Dfn(df, b) == SelectInSeq(df, LAMBDA c : c = b)

-----------------------------------------------------------------------------
(* Immediate dominators; 0 is a block that has none yet                    *)

RECURSIVE intersect(_, _, _, _)
intersect(df, doms, b1, b2) ==
  IF b1 = b2 THEN b1
  ELSE IF Dfn(df, b1) < Dfn(df, b2) THEN intersect(df, doms, b1, doms[b2])
  ELSE intersect(df, doms, doms[b1], b2)

\* What the round makes of the immediate dominator of b: the first predecessor
\* that has one, other than b itself, and then all from there on.
NewIdom(succ, df, doms, b) ==
  LET preds == Predecessors(succ, b)
      Processed(p) == Contains(df, p) /\ doms[p] # 0
      first == SelectInSeq(preds, LAMBDA p : Processed(p) /\ p # b)
  IN  FoldLeft(LAMBDA idom, p : intersect(df, doms, p, idom),
               preds[first],
               SelectSeq(SubSeq(preds, first, Len(preds)), Processed))

\* One round over the blocks, in the order of their numbers
DomRound(succ, df, doms) ==
  FoldLeft(LAMBDA acc, b : [acc EXCEPT ![b] = NewIdom(succ, df, acc, b)],
           doms, Tail(df))

RECURSIVE DomRounds(_, _, _)
DomRounds(succ, df, doms) ==
  LET next == DomRound(succ, df, doms)
  IN  IF next = doms THEN doms ELSE DomRounds(succ, df, next)

compute_dom(succ, df) ==
  DomRounds(succ, df, [b \in DOMAIN succ |-> IF b = Entry THEN Entry ELSE 0])

-----------------------------------------------------------------------------
(* Dominance frontiers                                                     *)

RECURSIVE Runners(_, _, _)
Runners(doms, runner, stop) ==
  IF runner = stop THEN {}
  ELSE {runner} \cup Runners(doms, doms[runner], stop)

\* For each block the blocks in its frontier
compute_dom_frontier(succ, df, doms) ==
  LET Joins == {b \in ToSet(df) : Len(Predecessors(succ, b)) >= 2}
      Passes(b) == UNION {Runners(doms, p, doms[b]) :
                            p \in ToSet(Predecessors(succ, b)) \cap ToSet(df)}
  IN  [x \in DOMAIN succ |-> {b \in Joins : x \in Passes(b)}]

-----------------------------------------------------------------------------
(* Phi functions of one variable                                           *)

\* iterate_dom_frontier_set: w has the work list, what was ever on it, the
\* blocks that got a phi function, and the number to go on with.
iterate_dom_frontier_set(df, frontier, live_in, w, b) ==
  LET inserted == (frontier[b] \ w.inserted) \cap live_in
      added    == inserted \ w.work
  IN  [workset  |-> w.workset \cup added, work |-> w.work \cup added,
       inserted |-> w.inserted \cup inserted,
       ndx      |-> Min({w.ndx} \cup {Dfn(df, c) : c \in added})]

\* The loop of insert_phi_insns: the block with the next number on the list
RECURSIVE PhiLoop(_, _, _, _)
PhiLoop(df, frontier, live_in, w) ==
  LET todo == {n \in DOMAIN df : n >= w.ndx /\ df[n] \in w.workset}
      n    == Min(todo)
  IN  IF todo = {} THEN w.inserted
      ELSE PhiLoop(df, frontier, live_in,
             iterate_dom_frontier_set(df, frontier, live_in,
               [w EXCEPT !.workset = @ \ {df[n]}, !.ndx = n], df[n]))

\* The blocks that get a phi function for a variable that is written in the
\* blocks def and live at the start of the blocks live_in
insert_phi_insns(df, frontier, def, live_in) ==
  LET reached == def \cap ToSet(df)
  IN  IF reached = {} THEN {}
      ELSE PhiLoop(df, frontier, live_in,
             [workset |-> reached, work |-> reached, inserted |-> {},
              ndx |-> Min({Dfn(df, b) : b \in reached})])

-----------------------------------------------------------------------------
(* What dominance is, without the algorithm                                *)

\* Blocks that can be reached from set without going through a block of avoid
RECURSIVE Reach(_, _, _)
Reach(succ, set, avoid) ==
  LET next == set \cup (UNION {ToSet(succ[b]) : b \in set} \ avoid)
  IN  IF next = set THEN set ELSE Reach(succ, next, avoid)

Reachable(succ) == Reach(succ, {Entry}, {})

\* a dominates b: no way from the entry to b avoids a.
Dominates(succ, a, b) == a = b \/ a = Entry \/ b \notin Reach(succ, {Entry}, {a})

\* doms gives every block but the entry the nearest of its dominators.
DominatorsExact(succ) ==
  \A df \in {compute_dfns(succ)} : \A doms \in {compute_dom(succ, df)} :
    /\ ToSet(df) = Reachable(succ)
    /\ \A b \in Reachable(succ) \ {Entry} :
         /\ doms[b] # b /\ Dominates(succ, doms[b], b)
         /\ \A a \in Reachable(succ) \ {b} :
              Dominates(succ, a, b) => Dominates(succ, a, doms[b])

FrontierOf(succ, x) ==
  {b \in Reachable(succ) :
     /\ ~(x # b /\ Dominates(succ, x, b))
     /\ \E p \in ToSet(Predecessors(succ, b)) \cap Reachable(succ) :
          Dominates(succ, x, p)}

\* The frontier of a block is the first blocks that it does not dominate on
\* the ways from it; the entry, where it has predecessors, is left out.
FrontiersExact(succ) ==
  \A df \in {compute_dfns(succ)} : \A doms \in {compute_dom(succ, df)} :
    \A x \in Reachable(succ) :
      compute_dom_frontier(succ, df, doms)[x] \ {Entry} = FrontierOf(succ, x) \ {Entry}

\* The blocks from which a way to a use meets no write
LiveIn(succ, def, use) ==
  {b \in DOMAIN succ : \E u \in use :
     \/ b = u
     \/ b \notin def /\ u \in Reach(succ, ToSet(succ[b]) \ (def \ {u}), def \ {u})}

RECURSIVE IteratedFrontier(_, _)
IteratedFrontier(succ, set) ==
  LET next == set \cup UNION {FrontierOf(succ, x) : x \in set}
  IN  IF next = set THEN UNION {FrontierOf(succ, x) : x \in set}
      ELSE IteratedFrontier(succ, next)

\* Where the values of two writes, or of one and the entry, come together and
\* are used, there is a phi function: the block is in the iterated frontier
\* of the writes.
PhisExact(succ, def, use) ==
  LET df == compute_dfns(succ)
      frontier == compute_dom_frontier(succ, df, compute_dom(succ, df))
      live == LiveIn(succ, def, use)
  IN  insert_phi_insns(df, frontier, def, live) =
        IteratedFrontier(succ, def \cap Reachable(succ)) \cap live
=============================================================================
