--------------------------- MODULE MCClassLinker ---------------------------
(* Strings as character codes.  Foo has a static field (delta 1) before  *)
(* its methods: direct "foo", an unnamed direct method of id 0 and "main", *)
(* and two virtual methods: one of delta 0, keyed 0 and so never found,  *)
(* and "foo" (delta 2), stored with the OAT index after the three direct   *)
(* ones.  Bar has two instance fields of the                              *)
(* same delta and no direct methods.  Baz has a class_data_item with no  *)
(* members.  DEX files hold up to two of them, so a class can follow a    *)
(* failed one.                                                            *)
EXTENDS ClassLinker
LOCAL INSTANCE SequencesExt

LFoo == << 76, 70, 111, 111, 59 >>   \* "LFoo;"
LBar == << 76, 66, 97, 114, 59 >>    \* "LBar;"
LBaz == << 76, 66, 97, 122, 59 >>    \* "LBaz;"
JFoo == << 70, 111, 111 >>           \* "Foo", the name JNI FindClass gets
Main == << 109, 97, 105, 110 >>      \* "main"
Fooo == << 102, 111, 111 >>          \* "foo"

Fld(d) == [delta |-> d, name |-> << >>]
Mth(d, n) == [delta |-> d, name |-> n]

CFoo == [desc |-> LFoo,
         groups |-> << << Fld(1) >>, << >>, << Mth(3, Fooo), Mth(0, << >>), Mth(1, Main) >>, << Mth(0, << >>), Mth(2, Fooo) >> >>]
CBar == [desc |-> LBar,
         groups |-> << << >>, << Fld(1), Fld(1) >>, << >>, << >> >>]
CBaz == [desc |-> LBaz, groups |-> << << >>, << >>, << >>, << >> >>]

MC_Dexes == BoundedSeq({CFoo, CBar, CBaz}, 2)
MC_Queries == { LFoo, JFoo }
MC_NR_CLASSES == 1

=============================================================================
