--------------------------- MODULE MCClassLoader ---------------------------
(* Class hierarchies for the model checker                                 *)
EXTENDS ClassLoader, TLC

CONSTANTS base, app, array

\* A class of the bootstrap loader, a subclass of it that a Java loader
\* defines, and the array class with the subclass as element
BeforeLoading == (base :> NULL) @@ (app :> NULL) @@ (array :> app)
WhileLoading == (base :> NULL) @@ (app :> base) @@ (array :> app)
=============================================================================
