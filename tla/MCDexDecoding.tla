---------------------------- MODULE MCDexDecoding ----------------------------
(* LEB128: bytes with and without the continuation bit, with a zero and a  *)
(* full 7-bit group, and 0xFF as the garbage fifth byte the decoder        *)
(* tolerates.  Class data: records with one-byte and two-byte values (200, *)
(* 300), so that a cursor off by a record or a byte reads other values.    *)
(* OAT classes: every type with up to three methods.  Key/value stores:    *)
(* up to two pairs of empty, one- and two-byte strings, cut anywhere.      *)
EXTENDS DexDecoding
LOCAL INSTANCE SequencesExt

MC_Alphabet   == {0, 5, 127, 128, 133, 255}
MC_MaxLen     == 5
MC_FieldRecs  == { << 1, 0 >>, << 200, 1 >> }
MC_MethodRecs == { << 2, 1, 0 >>, << 300, 0, 200 >> }
MC_MaxGroup   == 2
MC_OatClasses == [type : {0, 1, 2}, compiled : BoundedSeq(BOOLEAN, 3)]
MC_KvStrings  == { << >>, << 75 >>, << 86, 49 >> }
MC_MaxPairs   == 2
\* Two strings of 5 or 200 UTF-16 units (a one- and a two-byte uleb128
\* length) at offsets 16 and 40, two types over them, one proto, and one
\* field, method and class def over every choice of ids, with
\* NO_INDEX (0xFFFF) as a superclass.
MC_IdSections ==
  [strings : { << [off |-> 16, len |-> a], [off |-> 40, len |-> b] >> : a, b \in {5, 200} },
   types   : { << 0, 1 >>, << 1, 0 >> },
   protos  : { << [shorty |-> s, ret |-> r] >> : s, r \in {0, 1} },
   fields  : { << [cls |-> c, type |-> t, name |-> n] >> : c, t, n \in {0, 1} },
   methods : { << [cls |-> c, proto |-> 0, name |-> n] >> : c, n \in {0, 1} },
   classes : { << [cls |-> c, super |-> u, src |-> r] >> : c, r \in {0, 1}, u \in {0, 1, 65535} }]

\* OAT files: one DEX file with a short or long location, after an empty
\* or an 8-byte key/value store, or two after an empty one, with one or
\* two classes (one when there are two DEX files) of every OatClassType (a kOatClassAllCompiled class with a direct and a
\* virtual method, and one with one virtual method), over 120-byte code;
\* and one DEX file of three methods of kOatClassAllCompiled classes over
\* every choice of code per method: under 300 bytes, 400 bytes deflating
\* to 150 or (not fitting) 440 bytes or failing deflateInit2, or the
\* previous method's code shared.
MC_ClassShapes ==
  { [type |-> 0, d |-> 1, compiled |-> << TRUE, TRUE >>],
    [type |-> 0, d |-> 0, compiled |-> << TRUE >>],
    [type |-> 1, d |-> 1, compiled |-> << FALSE, TRUE >>],
    [type |-> 2, d |-> 1, compiled |-> << FALSE >>] }
MC_Code(size, need, ok, dup) == [size |-> size, need |-> need, ok |-> ok, dup |-> dup]
MC_CodeShapes ==
  { MC_Code(100, 0, TRUE, FALSE), MC_Code(400, 150, TRUE, FALSE), MC_Code(400, 440, TRUE, FALSE),
    MC_Code(400, 150, FALSE, FALSE), MC_Code(400, 150, TRUE, TRUE) }
MC_Dexes(n) ==
  { [loc |-> l, classes |-> cs] : l \in {5, 12}, cs \in BoundedSeq(MC_ClassShapes, n) \ {<< >>} }
MC_CoatImages ==
  { [kv |-> k, dexes |-> << x >>, codes |-> << MC_Code(120, 0, TRUE, FALSE) >>] :
      k \in {0, 8}, x \in MC_Dexes(2) }
  \cup
  { [kv |-> 0, dexes |-> ds, codes |-> << MC_Code(120, 0, TRUE, FALSE) >>] :
      ds \in MC_Dexes(1) \X MC_Dexes(1) }
  \cup
  { [kv |-> 0,
     dexes |-> << [loc |-> 5, classes |-> << [type |-> 0, d |-> 1, compiled |-> << TRUE, TRUE >>],
                                             [type |-> 0, d |-> 0, compiled |-> << TRUE >>] >>] >>,
     codes |-> cs] : cs \in [1 .. 3 -> MC_CodeShapes] }

=============================================================================
