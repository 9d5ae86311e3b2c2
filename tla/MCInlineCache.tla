--------------------------- MODULE MCInlineCache ---------------------------
EXTENDS InlineCache, Linking, TLC

CONSTANTS t1, t2, apple, cider, orange, kiwi, appleName, orangeName, kiwiName

-----------------------------------------------------------------------------
(* The classes of the receivers                                            *)

\* Methods of interfaces are abstract, apart from <clinit>, signature 3.
File(super, interfaces, interface, abstract, methods) ==
  [super |-> super, interfaces |-> interfaces, interface |-> interface,
   abstract |-> abstract,
   methods |-> [i \in DOMAIN methods |->
                  [sig |-> methods[i], abstract |-> interface /\ methods[i] # 3]]]

\* Fruit declares name(), signature 1.  Cider inherits it from Apple; the
\* others have their own, and that of Kiwi may be native.
Fruit  == 1
Number == (apple :> 2 @@ cider :> 3 @@ orange :> 4 @@ kiwi :> 5)
Fruits ==
  <<File(0, << >>, FALSE, TRUE, <<2, 1>>), File(1, << >>, FALSE, FALSE, <<1>>),
    File(2, << >>, FALSE, FALSE, << >>), File(1, << >>, FALSE, FALSE, <<3, 1>>),
    File(1, << >>, FALSE, FALSE, <<1>>)>>
Linked == vm_class_link(Fruits, <<0, 0, 0>>)

MCClassOf == (appleName :> apple @@ orangeName :> orange @@ kiwiName :> kiwi)

MCImpl == (apple :> appleName @@ cider :> appleName @@
           orange :> orangeName @@ kiwi :> kiwiName)

\* The method a vtable entry stands for is what linking put there.
ASSUME ImplIsLinked ==
  \A c \in Classes :
    LET vmm == InvokeVirtual(Linked, Number[c],
                             vm_class_get_method(Linked[Fruit], 1))
    IN  vmm.class = Number[MCClassOf[MCImpl[c]]]

-----------------------------------------------------------------------------
(* Linking, over all hierarchies of a size                                 *)

Sigs == 1..2

\* Subsets of S as sequences, in order
Lists(S) == {SetToSortSeq(T, LAMBDA x, y : x < y) : T \in SUBSET S}

\* java.lang.Object (1), two interfaces, an abstract class and a class
Hierarchies ==
  {<<File(0, << >>, FALSE, FALSE, m1), File(1, << >>, TRUE, TRUE, m2),
     File(1, i3, TRUE, TRUE, m3), File(1, i4, FALSE, TRUE, m4),
     File(s5, i5, FALSE, FALSE, m5)>> :
     m1 \in Lists({1}), m2 \in Lists(Sigs) \cup {<<3, 1, 2>>},
     m3 \in Lists(Sigs), m4 \in Lists(Sigs), m5 \in Lists(Sigs),
     i3 \in Lists({2}), i4 \in Lists({2, 3}), i5 \in Lists({2, 3}), s5 \in {1, 4}}

\* Calls reach the right method in all of them, with all methods in one
\* bucket of the interface table and with each in its own.
ASSUME CallsExact ==
  \A hierarchy \in Hierarchies, itable_hash \in {<<0, 0, 0>>, <<0, 1, 0>>} :
    \A linked \in {vm_class_link(hierarchy, itable_hash)} :
        /\ VirtualCallsExact(hierarchy, linked, Sigs)
        /\ InterfaceCallsExact(hierarchy, linked, Sigs, itable_hash)

\* Fields never overlap, with pointers of 4 and of 8 bytes.
ASSUME LayoutExact ==
  LET Fields == BoundedSeq({"reference", "long", "int", "byte"}, 3)
  IN  \A super, fields \in Fields, Word \in {4, 8} :
        FieldsApart(super, fields, Word)
=============================================================================
