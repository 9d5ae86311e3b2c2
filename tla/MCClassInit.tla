---------------------------- MODULE MCClassInit ----------------------------
(* Class graphs for the model checker                                      *)
EXTENDS ClassInit, TLC

CONSTANTS base, sub, user

\* A class and its subclass, and a class whose static initialiser uses the
\* subclass and itself
AcyclicSuper == (base :> NULL) @@ (sub :> base) @@ (user :> NULL)
AcyclicUses == (base :> {}) @@ (sub :> {}) @@ (user :> {sub, user})
=============================================================================
