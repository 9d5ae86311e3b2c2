----------------------------- MODULE RadixTree -----------------------------
(***************************************************************************)
(* lib/radix-tree.c: the map from addresses to compilation units and from  *)
(* positions to instructions.  A node is named by its level and by the     *)
(* upper bits that the keys below it share; a slot of a node of the last   *)
(* level is named like a node of the level below, by its key.              *)
(***************************************************************************)
EXTENDS Integers, FiniteSets, FiniteSetsExt

CONSTANTS
  BitsPerLevel, LevelCount,
  Keys,        \* the keys that are inserted
  Values,
  MaxCount,    \* bound on the count of a leaf, which overwriting a key raises
  FailAfter,   \* how many nodes are allocated before an allocation fails
  RemoveAny,   \* callers also remove keys they have overwritten or not inserted
  NoValue      \* NULL, which no value is

Pow2[n \in Nat] == IF n = 0 THEN 1 ELSE 2 * Pow2[n - 1]

SlotCount == Pow2[BitsPerLevel]

\* How many keys are below a node of a level: key \div Width(level) shifts
\* a key by the bits of the levels from `level' on.
Width(level) == Pow2[BitsPerLevel * (LevelCount - level)]
AllKeys == 0 .. Width(0) - 1

ASSUME RadixTreeAssumption ==
  /\ BitsPerLevel \in Nat \ {0} /\ LevelCount \in Nat \ {0}
  /\ Keys \subseteq AllKeys
  /\ FailAfter \subseteq Nat /\ MaxCount \in Nat
  /\ RemoveAny \in BOOLEAN
  /\ NoValue \notin Values

VARIABLES
  nodes,   \* allocated nodes
  count,   \* node -> the field `count'
  slot,    \* key -> its slot in a leaf
  map,     \* key -> the value a caller may expect (a history variable)
  over     \* keys that were overwritten (a history variable)

treeVars == <<nodes, count, slot, map, over>>

get_index(key, level) == (key \div Width(level + 1)) % SlotCount

Root == <<0, 0>>
Parent(n) == <<n[1] - 1, n[2] \div SlotCount>>
Child(n, i) == <<n[1] + 1, SlotCount * n[2] + i>>

\* The node of a level on the way to a key; at level LevelCount, its slot
Path(key, level) == <<level, key \div Width(level)>>
Leaf(key) == Path(key, LevelCount - 1)
Inner(key) == {Path(key, l) : l \in 1 .. LevelCount - 1}

\* Every variable keeps its type, and every node but the root has a parent.
TreeTypeOK ==
  /\ nodes \subseteq {Root} \cup UNION {Inner(k) : k \in AllKeys}
  /\ \A n \in nodes : n # Root => Parent(n) \in nodes
  /\ count \in [nodes -> Nat]
  /\ slot \in [AllKeys -> Values \cup {NoValue}]
  /\ map \in [AllKeys -> Values \cup {NoValue}]
  /\ over \subseteq AllKeys

\* alloc_radix_tree
TreeInit ==
  /\ nodes = {Root}
  /\ count = [n \in {Root} |-> 0]
  /\ slot = [k \in AllKeys |-> NoValue]
  /\ map = [k \in AllKeys |-> NoValue]
  /\ over = {}

-----------------------------------------------------------------------------
(* radix_tree_insert                                                       *)

\* The nodes that have to be allocated on the way to a key
Missing(key) == Inner(key) \ nodes

\* The counts after the nodes `new' of one way were allocated and each was
\* hung into a slot of its parent
CountWith(new) ==
  [n \in nodes \cup new |->
     (IF n \in nodes THEN count[n] ELSE 0) +
     (IF \E m \in new : Parent(m) = n THEN 1 ELSE 0)]

radix_tree_insert(key, value) ==
  /\ Leaf(key) \in nodes => count[Leaf(key)] < MaxCount
  /\ nodes' = nodes \cup Missing(key)
  /\ count' = [CountWith(Missing(key)) EXCEPT ![Leaf(key)] = @ + 1]
  /\ slot' = [slot EXCEPT ![key] = value]
  /\ map' = [map EXCEPT ![key] = value]
  /\ over' = IF map[key] = NoValue THEN over ELSE over \cup {key}

\* The allocation of a node fails after `done' others on the way to the key.
InsertFails(key, done) ==
  /\ done < Cardinality(Missing(key))
  /\ LET new == {n \in Missing(key) :
                   Cardinality({m \in Missing(key) : m[1] < n[1]}) < done}
     IN  nodes' = nodes \cup new /\ count' = CountWith(new)
  /\ UNCHANGED <<slot, map, over>>

-----------------------------------------------------------------------------
(* radix_tree_remove                                                       *)

\* The last level on the way to a key whose node free_slot does not free: its
\* count does not become zero, or it is the root.
Kept(key) == Max({l \in 0 .. LevelCount - 1 : l = 0 \/ count[Path(key, l)] # 1})

\* The keys whose slots are in or below the node that free_slot unhooks
Unhooked(key) ==
  {k \in AllKeys : /\ Kept(key) < LevelCount - 1
                   /\ Path(k, Kept(key) + 1) = Path(key, Kept(key) + 1)}

\* free_slot: clear the slot, and free the nodes whose count becomes zero.
free_slot(key) ==
  LET gone == {Path(k, l) : k \in Unhooked(key), l \in Kept(key) + 1 .. LevelCount - 1}
  IN  /\ nodes' = nodes \ gone
      /\ count' = [n \in nodes \ gone |->
                     IF n = Path(key, Kept(key)) THEN count[n] - 1 ELSE count[n]]
      /\ slot' = [k \in AllKeys |->
                    IF k \in {key} \cup Unhooked(key) THEN NoValue ELSE slot[k]]

\* A key without a leaf has no mapping, and the code returns early.
radix_tree_remove(key) ==
  /\ RemoveAny \/ Leaf(key) \notin nodes \/ (map[key] # NoValue /\ key \notin over)
  /\ IF Leaf(key) \in nodes THEN free_slot(key) ELSE UNCHANGED <<nodes, count, slot>>
  /\ map' = [map EXCEPT ![key] = NoValue]
  /\ over' = over \ {key}

TreeNext ==
  \E key \in Keys :
    \/ \E value \in Values : radix_tree_insert(key, value)
    \/ \E done \in FailAfter : InsertFails(key, done)
    \/ radix_tree_remove(key)

TreeSpec == TreeInit /\ [][TreeNext]_treeVars

-----------------------------------------------------------------------------
(* radix_tree_lookup, radix_tree_lookup_prev                               *)

radix_tree_lookup(key) == IF Missing(key) = {} THEN slot[key] ELSE NoValue

\* The slots of a node that are not NULL
Filled(n) ==
  {i \in 0 .. SlotCount - 1 :
     IF n[1] = LevelCount - 1 THEN slot[Child(n, i)[2]] # NoValue
                              ELSE Child(n, i) \in nodes}

\* One round of the loop of radix_tree_last, which stops at a node without slots
Down(n) == IF Filled(n) = {} THEN n ELSE Child(n, Max(Filled(n)))

\* radix_tree_last, which gives up when it stopped above the last level
radix_tree_last(n) ==
  LET after[rounds \in Nat] == IF rounds = 0 THEN n ELSE Down(after[rounds - 1])
      end == after[LevelCount - n[1]]
  IN  IF end[1] < LevelCount THEN NoValue ELSE slot[end[2]]

\* Mutant of Climb: an only child is taken for the only slot of its parent's
\* parent, too.
ClimbTwice(key, level) == {l \in 0 .. level - 2 : count[Path(key, l)] # 1}

\* The levels further up whose nodes have more than one slot filled in
Climb(key, level) == {l \in 0 .. level - 1 : count[Path(key, l)] # 1}

\* The filled slots of a level to the left of the way to a key
Lower(key, level) ==
  {i \in Filled(Path(key, level)) : i < get_index(key, level)}

\* radix_tree_previous
radix_tree_previous(key, level) ==
  LET found == {l \in {level} \cup Climb(key, level) : Lower(key, l) # {}}
      l == Max(found)
  IN  IF found = {} THEN NoValue
      ELSE radix_tree_last(Child(Path(key, l), Max(Lower(key, l))))

radix_tree_lookup_prev(key) ==
  IF radix_tree_lookup(key) # NoValue THEN radix_tree_lookup(key)
  ELSE radix_tree_previous(key, Max({l \in 0 .. LevelCount - 1 : Path(key, l) \in nodes}))

-----------------------------------------------------------------------------
(* Properties                                                              *)

\* radix_tree_lookup_prev returns the value of the key or of the preceding
\* mapped key, NULL when no such key exists: this is how an address in the
\* middle of a method finds its compilation unit.
LookupPrevExact ==
  \A key \in AllKeys :
    LET before == {k \in 0 .. key : map[k] # NoValue}
    IN  radix_tree_lookup_prev(key) = IF before = {} THEN NoValue ELSE map[Max(before)]
=============================================================================
