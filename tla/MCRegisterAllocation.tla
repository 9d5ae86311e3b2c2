----------------------- MODULE MCRegisterAllocation -----------------------
(* Instructions for the model checker                                      *)
EXTENDS RegisterAllocation, Dominance

Plain(in, o) == Insn("plain", 0, in, o)

\* All variables have a value at first.
MCPrologue == [v \in Vregs |-> Plain({}, {v})]

\* A new value for each variable, reads of each two, an operation on each
\* that reads another one too, and a call
MCInsns ==
  {Plain({}, {v}) : v \in Vregs}
  \cup {Plain({v, (v % NrVregs) + 1}, {}) : v \in Vregs}
  \cup {Plain({v, (v % NrVregs) + 1}, {v}) : v \in Vregs}
  \cup {Insn("call", 0, {}, {})}

\* The queue of the allocator is a heap after every operation on a heap.
ASSUME PriorityQueueIsHeap == HeapIsKept(7)

\* Flow graphs of four blocks, each with no, one or two successors
FlowGraphs ==
  [1..4 -> {<<>>} \cup {<<a>> : a \in 1..4}
           \cup {e \in (1..4) \X (1..4) : e[1] < e[2]}]

\* Dominators and frontiers are what their definitions say, and phi functions
\* are where writes in the entry and in a block d come together before a use.
ASSUME DominanceIsExact ==
  \A g \in FlowGraphs :
    /\ DominatorsExact(g) /\ FrontiersExact(g)
    /\ Predecessors(g, Entry) = <<>> =>
         \A d \in 2..4, u \in 1..4 : PhisExact(g, {Entry, d}, {u})
=============================================================================
