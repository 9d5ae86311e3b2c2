--------------------------- MODULE PriorityQueue ---------------------------
(***************************************************************************)
(* lib/pqueue.c: the binary heap from which linear scan takes the interval *)
(* with the smallest start.  A queue is the sequence of the nodes          *)
(* data[1] .. data[size - 1].  Keys are less than 2^31 apart, so that the  *)
(* difference fits into the int that pqueue_compare returns.               *)
(***************************************************************************)
EXTENDS Integers, Sequences, SequencesExt

Node(key, value) == [key |-> key, value |-> value]

pqueue_compare(a, b) == b - a

\* A round of the loop of pqueue_insert at the hole i: a parent that is larger
\* moves down.
UpRound(s, key) ==
  IF s.i > 1 /\ pqueue_compare(s.data[s.i \div 2].key, key) < 0
    THEN [data |-> [s.data EXCEPT ![s.i] = s.data[s.i \div 2]], i |-> s.i \div 2]
    ELSE s

\* The loop has ended after as many rounds as there are elements.
pqueue_insert(data, key, value) ==
  LET after[n \in 0 .. Len(data)] ==
        IF n = 0
        THEN [data |-> Append(data, Node(key, value)), i |-> Len(data) + 1]
        ELSE UpRound(after[n - 1], key)
      Put(s) == [s.data EXCEPT ![s.i] = Node(key, value)]
  IN  Put(after[Len(data)])

\* A round of the loop of pqueue_remove_top at the hole i: the smaller child
\* moves up.  `size' is the one after the decrement, so that data[size] is the
\* element that is put into the hole.
DownRound(s, size) ==
  LET data == s.data
      j == IF 2 * s.i < size /\ pqueue_compare(data[2 * s.i].key, data[2 * s.i + 1].key) < 0
             THEN 2 * s.i + 1 ELSE 2 * s.i
  IN  IF s.i <= size \div 2 /\ pqueue_compare(data[j].key, data[size].key) >= 0
        THEN [data |-> [data EXCEPT ![s.i] = data[j]], i |-> j]
        ELSE s

\* The queue after pqueue_remove_top, which returns data[1]
pqueue_remove_top(data) ==
  LET size == Len(data)
      after[n \in 0 .. size] ==
        IF n = 0 THEN [data |-> data, i |-> 1] ELSE DownRound(after[n - 1], size)
      Put(s) == [s.data EXCEPT ![s.i] = data[size]]
  IN  SubSeq(Put(after[size]), 1, size - 1)

-----------------------------------------------------------------------------
IsHeap(data) == \A i \in 2 .. Len(data) : data[i \div 2].key <= data[i].key

\* pqueue_insert and pqueue_remove_top make a heap of every heap, of whatever
\* shape, and neither lose nor repeat an element: the first is always one with
\* the smallest key.  `max' bounds the length.
HeapIsKept(max) ==
  \A n \in 0 .. max : \A keys \in [1 .. n -> 0 .. 3] :
    LET data == [i \in 1 .. n |-> Node(keys[i], i)]
        removed == pqueue_remove_top(data)
    IN  IsHeap(data) =>
          /\ \A key \in 0 .. 3 :
               LET added == pqueue_insert(data, key, 0)
               IN  /\ IsHeap(added) /\ Len(added) = n + 1
                   /\ ToSet(added) = ToSet(data) \cup {Node(key, 0)}
          /\ n > 0 => /\ IsHeap(removed) /\ Len(removed) = n - 1
                      /\ ToSet(removed) = ToSet(data) \ {data[1]}
=============================================================================
