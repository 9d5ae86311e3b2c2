---------------------------- MODULE MCTrampoline ----------------------------
(* main uses a field of Data and calls print on an object of Derived, which *)
(* overrides print of Base with a method that calls super.print().  print    *)
(* and the initialiser of Data use the field too.                            *)
EXTENDS Trampoline, TLC

CONSTANTS main, clinit, print, override, data, base, derived

Nowhere == [m \in Methods |-> {}]

MCClassOf == main :> base @@ clinit :> data @@ print :> base
             @@ override :> derived
MCClinit == data :> clinit @@ base :> NULL @@ derived :> NULL
MCCalls == [Nowhere EXCEPT ![override] = {print}]
MCReceivers == [Nowhere EXCEPT ![main] = {derived}]
MCFields == [Nowhere EXCEPT ![main] = {data}, ![clinit] = {data}, ![print] = {data}]
MCSlot == data :> NULL @@ base :> print @@ derived :> override
MCSub == data :> {data} @@ base :> {base, derived} @@ derived :> {derived}
=============================================================================
