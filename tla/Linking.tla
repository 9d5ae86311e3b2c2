------------------------------ MODULE Linking ------------------------------
(***************************************************************************)
(* What vm_class_link makes of class files: the methods of a class with    *)
(* their virtual indices, its vtable and interface table, the search that  *)
(* an interface call does, the layout of fields, and subtyping.            *)
(*                                                                         *)
(* A hierarchy is a sequence of class files in the order in which they are *)
(* linked; a class is named by its position, and 0 is no class.  A file    *)
(* has super, interfaces, interface, abstract (its access flags) and       *)
(* methods, a sequence of [sig, abstract].  A signature is a number, which *)
(* stands for name and descriptor.  Linking adds a vm_method for each:     *)
(* [class, pos, sig, abstract, virtual_index].                             *)
(***************************************************************************)
EXTENDS Integers, Sequences, SequencesExt

\* NULL as a method
NoMethod == [class |-> 0]

-----------------------------------------------------------------------------
(* Looking methods up in linked classes                                    *)

vm_class_get_method(vmc, sig) ==
  LET i == SelectInSeq(vmc.methods, LAMBDA m : m.sig = sig)
  IN  IF i = 0 THEN NoMethod ELSE vmc.methods[i]

RECURSIVE vm_class_get_method_recursive(_, _, _)
vm_class_get_method_recursive(linked, c, sig) ==
  IF c = 0 THEN NoMethod
  ELSE LET m == vm_class_get_method(linked[c], sig)
       IN  IF m # NoMethod THEN m
           ELSE vm_class_get_method_recursive(linked, linked[c].super, sig)

RECURSIVE vm_class_get_interface_method_recursive(_, _, _)
vm_class_get_interface_method_recursive(linked, c, sig) ==
  LET m     == vm_class_get_method(linked[c], sig)
      below == [i \in DOMAIN linked[c].interfaces |->
                  vm_class_get_interface_method_recursive(
                    linked, linked[c].interfaces[i], sig)]
      first == SelectInSeq(below, LAMBDA r : r # NoMethod)
  IN  IF m # NoMethod THEN m
      ELSE IF first = 0 THEN NoMethod ELSE below[first]

-----------------------------------------------------------------------------
(* Methods and vtable of a class                                           *)

Declares(file, sig) == \E i \in DOMAIN file.methods : file.methods[i].sig = sig

\* insert_interface_method: does the class need a method of its own for one
\* of an interface?
NeedsMiranda(linked, file, vmm) ==
  /\ ~Declares(file, vmm.sig)
  /\ file.super # 0
  /\ vm_class_get_method_recursive(linked, file.super, vmm.sig) = NoMethod

\* The extra methods of a class, sorted by signature and without duplicates
extra_methods(linked, file) ==
  LET inherited == FlattenSeq([i \in DOMAIN file.interfaces |->
                                 linked[file.interfaces[i]].methods])
      needed    == {m \in ToSet(inherited) : NeedsMiranda(linked, file, m)}
  IN  SetToSortSeq({[sig |-> m.sig, abstract |-> m.abstract] : m \in needed},
                   LAMBDA x, y : x.sig < y.sig)

SuperSize(linked, file) ==
  IF file.super = 0 THEN 0 ELSE Len(linked[file.super].vtable)

\* First loop of setup_vtable: the slot of an inherited method or a new one.
\* A slot is a position of vtable, that is virtual_index + 1.
VirtualIndex(linked, file, methods, i) ==
  LET Inherited(j) == vm_class_get_method_recursive(linked, file.super, methods[j].sig)
      new == {j \in 1..i : Inherited(j) = NoMethod}
  IN  IF Inherited(i) # NoMethod
      THEN Inherited(i).virtual_index
      ELSE SuperSize(linked, file) + Cardinality(new)

\* An interface has no vtable and its methods no index.
LinkedMethods(linked, file) ==
  LET all == file.methods \o extra_methods(linked, file)
  IN  [i \in DOMAIN all |->
         [class |-> Len(linked) + 1, pos |-> i,
          sig |-> all[i].sig, abstract |-> all[i].abstract,
          virtual_index |->
            IF file.interface THEN 0 ELSE VirtualIndex(linked, file, all, i)]]

\* The other loops of setup_vtable: the entries of the superclass, then those
\* of the methods, in order, so that the last one for a slot stays.
Vtable(linked, file, methods) ==
  LET news == {m \in ToSet(methods) : m.virtual_index > SuperSize(linked, file)}
      Method(i) == SelectLastInSeq(methods, LAMBDA m : m.virtual_index = i)
  IN  [i \in 1..(SuperSize(linked, file) + Cardinality(news)) |->
         IF Method(i) # 0 THEN methods[Method(i)] ELSE linked[file.super].vtable[i]]

-----------------------------------------------------------------------------
(* Interface tables                                                        *)

\* Entries of an interface table in the order of their addition.  A method of
\* an interface that is reached twice is added twice.
RECURSIVE itable_add_entries(_, _)
itable_add_entries(linked, c) ==
  IF c = 0 THEN << >>
  ELSE LET vmc == linked[c]
           own == IF vmc.interface
                  THEN SelectSeq(vmc.methods, LAMBDA m : m.abstract) ELSE << >>
       IN  own \o FlattenSeq([i \in DOMAIN vmc.interfaces |->
                                itable_add_entries(linked, vmc.interfaces[i])])
               \o itable_add_entries(linked, vmc.super)

\* The address of a method: the methods of a class are an array.
Below(m, n) == m.class < n.class \/ (m.class = n.class /\ m.pos < n.pos)

\* What vm_itable_setup puts into the slot of a bucket: nothing, the method
\* itself, or a search through a sorted table without duplicates.
\* The implementation is NoMethod where assert(c_vmm) would fail.
itable_slot(linked, c, entries) ==
  LET Entry(i_vmm) ==
        [i_method |-> i_vmm,
         c_method |-> vm_class_get_method_recursive(linked, c, i_vmm.sig)]
  IN  [kind  |-> CASE Len(entries) = 0 -> "error"
                   [] Len(entries) = 1 -> "method"
                   [] OTHER -> "search",
       table |-> SetToSortSeq({Entry(m) : m \in ToSet(entries)},
                              LAMBDA x, y : Below(x.i_method, y.i_method))]

\* The itable of class c; itable_hash is a function of the signature.
vm_itable_setup(linked, c, itable_hash) ==
  LET all == itable_add_entries(linked, c)
  IN  [b \in {itable_hash[s] : s \in DOMAIN itable_hash} |->
         itable_slot(linked, c,
                     SelectSeq(all, LAMBDA m : itable_hash[m.sig] = b))]

\* The code of emit_itable_bsearch for table[a..b], run on method vmm: the
\* entry it jumps through, or NoMethod where it goes to
\* itable_resolver_stub_error.  A branch is emitted only where there is
\* something on its side.
RECURSIVE emit_itable_bsearch(_, _, _, _)
emit_itable_bsearch(table, a, b, vmm) ==
  LET m == a + (b - a) \div 2
      jb == m - a > 0 /\ Below(vmm, table[m].i_method)
      ja == b - m > 0 /\ Below(table[m].i_method, vmm)
  IN  IF b - a >= 1 /\ jb THEN emit_itable_bsearch(table, a, m - 1, vmm)
      ELSE IF b - a >= 1 /\ ja THEN emit_itable_bsearch(table, m + 1, b, vmm)
      ELSE IF table[m].i_method = vmm THEN table[m].c_method ELSE NoMethod

-----------------------------------------------------------------------------
(* Linking a hierarchy                                                     *)

LinkClass(linked, file, itable_hash) ==
  LET methods == LinkedMethods(linked, file)
      vmc == [super |-> file.super, interfaces |-> file.interfaces,
              interface |-> file.interface, abstract |-> file.abstract,
              methods |-> methods,
              vtable |-> IF file.interface THEN << >>
                         ELSE Vtable(linked, file, methods),
              itable |-> << >>]
      itable == vm_itable_setup(Append(linked, vmc), Len(linked) + 1, itable_hash)
  IN  Append(linked, IF file.interface \/ file.abstract THEN vmc
                     ELSE [vmc EXCEPT !.itable = itable])

vm_class_link(hierarchy, itable_hash) ==
  FoldLeft(LAMBDA linked, file : LinkClass(linked, file, itable_hash),
           << >>, hierarchy)

\* invokevirtual of method vmm on an object of class c
InvokeVirtual(linked, c, vmm) == linked[c].vtable[vmm.virtual_index]

\* invokeinterface of method vmm on an object of class c.  The search ends in
\* a jump through the vtable.
InvokeInterface(linked, c, vmm, itable_hash) ==
  LET slot == linked[c].itable[itable_hash[vmm.sig]]
      found == emit_itable_bsearch(slot.table, 1, Len(slot.table), vmm)
  IN  CASE slot.kind = "error" -> NoMethod
        [] slot.kind = "method" -> slot.table[1].c_method
        [] OTHER -> IF found = NoMethod THEN NoMethod
                    ELSE InvokeVirtual(linked, c, found)

-----------------------------------------------------------------------------
(* The layout of fields                                                    *)

ALIGN(n, a) == ((n + a - 1) \div a) * a

\* Types of fields in the order of their buckets, and the space of each; Word
\* is the size of a pointer.
Buckets == <<"double", "long", "float", "int", "short", "char", "byte", "boolean">>
Size(type, Word) ==
  CASE type = "reference" -> Word
    [] type \in {"double", "long"} -> 8
    [] OTHER -> 4

\* bucket_order_fields: the fields of one type lie one after the other, in
\* their order.  fields is a sequence of types.
OfType(fields, i, type) == {j \in 1..i : fields[j] = type}
BucketEnd(start, fields, type, Word) ==
  start + Size(type, Word) * Cardinality(OfType(fields, Len(fields), type))
FieldOffset(start, fields, i, Word) ==
  start + Size(fields[i], Word) * Cardinality(OfType(fields, i - 1, fields[i]))

\* buckets_order_fields, for an object whose superclass ends at size: the
\* offsets of the fields, and the size of the object
buckets_order_fields(size, fields, Word) ==
  LET refs == ALIGN(size, Word)
      start[b \in 1..(Len(Buckets) + 1)] ==
        IF b = 1 THEN ALIGN(BucketEnd(refs, fields, "reference", Word), 8)
        ELSE BucketEnd(start[b - 1], fields, Buckets[b - 1], Word)
      StartOf(type) ==
        IF type = "reference" THEN refs
        ELSE start[CHOOSE b \in DOMAIN Buckets : Buckets[b] = type]
  IN  [at  |-> [i \in DOMAIN fields |->
                  FieldOffset(StartOf(fields[i]), fields, i, Word)],
       end |-> start[Len(Buckets) + 1]]

-----------------------------------------------------------------------------
(* Subtypes                                                                *)

RECURSIVE vm_class_is_subclass_of(_, _, _)
vm_class_is_subclass_of(linked, vmc, from) ==
  LET super == linked[from].super
  IN  super # 0 /\ (super = vmc \/ vm_class_is_subclass_of(linked, vmc, super))

RECURSIVE vm_class_implements(_, _, _)
vm_class_implements(linked, vmc, from) ==
  \/ \E i \in DOMAIN linked[from].interfaces :
        LET direct == linked[from].interfaces[i]
        IN  vmc = direct \/ vm_class_implements(linked, vmc, direct)
  \/ linked[from].super # 0 /\ vm_class_implements(linked, vmc, linked[from].super)

\* vm_class_is_assignable_from_nocache for classes that are no arrays
vm_class_is_assignable_from(linked, vmc, from) ==
  \/ vmc = from
  \/ IF linked[vmc].interface THEN vm_class_implements(linked, vmc, from)
     ELSE vm_class_is_subclass_of(linked, vmc, from)

-----------------------------------------------------------------------------
(* What linking is for                                                     *)

\* The class whose declaration of sig an object of class c has, as the Java
\* language defines it: the nearest one up the superclasses, or none.
RECURSIVE Declarer(_, _, _)
Declarer(hierarchy, c, sig) ==
  IF c = 0 \/ Declares(hierarchy[c], sig) THEN c
  ELSE Declarer(hierarchy, hierarchy[c].super, sig)

\* vmm is the method with signature sig of an object of class c.  Without a
\* declaration it is a method the linker made up, which is abstract.
IsMethodOf(hierarchy, vmm, c, sig) ==
  /\ vmm # NoMethod
  /\ vmm.sig = sig
  /\ LET d == Declarer(hierarchy, c, sig)
     IN  IF d # 0 THEN vmm.class = d /\ vmm.pos <= Len(hierarchy[d].methods)
         ELSE ~Declares(hierarchy[vmm.class], sig)

ClassesOf(hierarchy) == {c \in DOMAIN hierarchy : ~hierarchy[c].interface}

\* A virtual call of a method that was found in any superclass of the
\* object's class reaches the object's own method: an overriding method has
\* the slot of the method it overrides, whatever mirandas lie in between
\* (setup_vtable).
VirtualCallsExact(hierarchy, linked, Sigs) ==
  \A c, d \in ClassesOf(hierarchy), sig \in Sigs :
    LET vmm == vm_class_get_method_recursive(linked, d, sig)
    IN  (vm_class_is_assignable_from(linked, d, c) /\ vmm # NoMethod) =>
          IsMethodOf(hierarchy, InvokeVirtual(linked, c, vmm), c, sig)

\* An interface call of a method that was found in any interface of the
\* object's class reaches the object's own method, whichever methods share
\* its bucket (vm_itable_setup, emit_itable_bsearch).
InterfaceCallsExact(hierarchy, linked, Sigs, itable_hash) ==
  \A c \in ClassesOf(hierarchy), i \in DOMAIN hierarchy \ ClassesOf(hierarchy),
     sig \in Sigs :
    LET vmm == vm_class_get_interface_method_recursive(linked, i, sig)
    IN  (/\ ~hierarchy[c].abstract
         /\ vm_class_is_assignable_from(linked, i, c)
         /\ vmm # NoMethod
         /\ vmm.abstract) =>
          IsMethodOf(hierarchy, InvokeInterface(linked, c, vmm, itable_hash), c, sig)

\* The fields of an object with those of its superclass: aligned, apart from
\* each other and inside the object.
FieldsApart(super, fields, Word) ==
  LET above == buckets_order_fields(0, super, Word)
      below == buckets_order_fields(above.end, fields, Word)
      all   == super \o fields
      at    == above.at \o below.at
  IN  /\ \A i \in DOMAIN all :
           /\ at[i] % Size(all[i], Word) = 0
           /\ at[i] + Size(all[i], Word) <= below.end
      /\ \A i, j \in DOMAIN all :
           i < j => \/ at[i] + Size(all[i], Word) <= at[j]
                    \/ at[j] + Size(all[j], Word) <= at[i]
=============================================================================
