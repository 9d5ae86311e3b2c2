---------------------------- MODULE MCExceptions ----------------------------
(* Two methods with overlapping handlers of different types, one of them   *)
(* synchronized, and native code between them.                             *)
EXTENDS Exceptions

const_Pcs == 0 .. 2

Eh(from, to, target, type) ==
  [start_pc |-> from, end_pc |-> to, handler_pc |-> target, catch_type |-> type]

\* plain: catch (A) around offset 1, and a handler for everything around 0, 1.
\* sync: catch (B), a subclass of A, around 0, 1.
const_Table ==
  [m \in Methods |->
     IF m = "plain" THEN <<Eh(1, 2, 2, "A"), Eh(0, 2, 1, Any)>>
                    ELSE <<Eh(0, 2, 2, "B")>>]

const_Subtype == {<<t, t>> : t \in Types} \cup {<<"B", "A">>}
=============================================================================
