------------------------------- MODULE DexIds -------------------------------
(***************************************************************************)
(* The id-table getters of src/oat.cc that ParseDexClass (src/class.cc)    *)
(* calls to fill a Class_t, a Field_t and a Method_t with the strings of   *)
(* the DEX file.  A DEX file's id section is a record of sequences, one    *)
(* entry per id, in the order of the file:                                 *)
(*   strings  [off, len]: string_data_off_ and the UTF-16 length the       *)
(*            string_data_item starts with, as uleb128;                    *)
(*   types    descriptor_idx_ (a string id);                               *)
(*   protos   [shorty, ret]: shorty_idx_ (a string id) and                 *)
(*            return_type_idx_ (a type id);                                *)
(*   fields   [cls, type, name]; methods [cls, proto, name];               *)
(*   classes  [cls, super, src]: class_idx_, superclass_idx_, source_file_ *)
(*            idx_.                                                        *)
(* A string pointer is << offset into the DEX file >>, NULL is << >>; an   *)
(* id is 0-based, as in the code.                                          *)
(***************************************************************************)
EXTENDS Naturals, Sequences, ClassData

NullPtr == << >>

\* A string pointer at the string_data_item itself, its length not skipped.
GetStringByIdNoSkip(d, string_id) ==
  IF string_id >= Len(d.strings) THEN NullPtr ELSE << d.strings[string_id + 1].off >>

\* GetStringById: NULL past string_ids_size_, otherwise dex_file_ptr +
\* string_data_off_ + 1, one byte taken for the uleb128 length.
GetStringById(d, string_id) ==
  IF string_id >= Len(d.strings) THEN NullPtr ELSE << d.strings[string_id + 1].off + 1 >>

\* A type lookup that hands its id to GetStringById as it is.
GetTypeStringByIdDirect(d, type_id) ==
  IF type_id >= Len(d.types) THEN NullPtr ELSE GetStringById(d, type_id)

\* GetTypeStringById: NULL past type_ids_size_, else the string of the
\* type's descriptor_idx_.
GetTypeStringById(d, type_id) ==
  IF type_id >= Len(d.types) THEN NullPtr ELSE GetStringById(d, d.types[type_id + 1])

\* GetProtoShortyStringById and GetProtoReturnTypeStringById: NULL past
\* proto_ids_size_; both hand their index to GetStringById, the shorty's
\* a string id, return_type_idx_ a type id.
GetProtoShortyStringById(d, proto_id) ==
  IF proto_id >= Len(d.protos) THEN NullPtr ELSE GetStringById(d, d.protos[proto_id + 1].shorty)
GetProtoReturnTypeStringById(d, proto_id) ==
  IF proto_id >= Len(d.protos) THEN NullPtr ELSE GetStringById(d, d.protos[proto_id + 1].ret)

\* GetFieldNameStringById and GetMethodNameStringById: NULL past the
\* table, else the string of name_idx_.
GetFieldNameStringById(d, field_id) ==
  IF field_id >= Len(d.fields) THEN NullPtr ELSE GetStringById(d, d.fields[field_id + 1].name)
GetMethodNameStringById(d, method_id) ==
  IF method_id >= Len(d.methods) THEN NullPtr ELSE GetStringById(d, d.methods[method_id + 1].name)

\* GetFieldClassIdById, GetFieldTypeIdById and GetMethodClassIdById:
\* class_idx_ or type_idx_, or 0 past the table; and the type strings
\* of those ids.
GetFieldClassIdById(d, field_id) ==
  IF field_id >= Len(d.fields) THEN 0 ELSE d.fields[field_id + 1].cls
GetFieldTypeIdById(d, field_id) ==
  IF field_id >= Len(d.fields) THEN 0 ELSE d.fields[field_id + 1].type
GetMethodClassIdById(d, method_id) ==
  IF method_id >= Len(d.methods) THEN 0 ELSE d.methods[method_id + 1].cls
GetFieldClassStringById(d, field_id)   == GetTypeStringById(d, GetFieldClassIdById(d, field_id))
GetFieldTypeStringById(d, field_id)    == GetTypeStringById(d, GetFieldTypeIdById(d, field_id))
GetMethodClassStringById(d, method_id) == GetTypeStringById(d, GetMethodClassIdById(d, method_id))

\* GetMethodProtoIdById: proto_idx_, or 0 past method_ids_size_.
GetMethodProtoIdById(d, method_id) ==
  IF method_id >= Len(d.methods) THEN 0 ELSE d.methods[method_id + 1].proto

\* GetClassDefByIdx: NULL past class_defs_size_; the id getters of a class
\* def return 0 for NULL, which GetTypeStringById then reads as type 0.
GetClassDefByIdx(d, class_idx) ==
  IF class_idx >= Len(d.classes) THEN NullPtr ELSE << class_idx >>
GetClassIdOfClassDefByIdx(d, class_idx) ==
  IF GetClassDefByIdx(d, class_idx) = NullPtr THEN 0 ELSE d.classes[class_idx + 1].cls
GetSuperclassIdOfClassDefByIdx(d, class_idx) ==
  IF GetClassDefByIdx(d, class_idx) = NullPtr THEN 0 ELSE d.classes[class_idx + 1].super
GetClassStringOfClassDefByIdx(d, class_idx) ==
  GetTypeStringById(d, GetClassIdOfClassDefByIdx(d, class_idx))
GetSuperclassStringOfClassDefByIdx(d, class_idx) ==
  GetTypeStringById(d, GetSuperclassIdOfClassDefByIdx(d, class_idx))
GetSourcefileStringOfClassDefByIdx(d, class_idx) ==
  IF GetClassDefByIdx(d, class_idx) = NullPtr THEN NullPtr
  ELSE GetStringById(d, d.classes[class_idx + 1].src)

\* The CDM getters ParseDexClass calls for a method record: the method id
\* they look up is method_idx_delta_ itself.
GetMethodNameStringOfCDM(d, delta) == GetMethodNameStringById(d, delta)
GetProtoIdOfCDM(d, delta) == GetMethodProtoIdById(d, delta)
GetProtoShortyStringOfCDM(d, delta) == GetProtoShortyStringById(d, GetProtoIdOfCDM(d, delta))

-----------------------------------------------------------------------------
(* The reference: the characters of string s begin after the uleb128 of   *)
(* its length; a superclass_idx_ of NO_INDEX (java.lang.Object's, 0xFFFF   *)
(* in the 16-bit field) names no type.                                     *)
Chars(d, s) == << d.strings[s + 1].off + Len(EncodeUnsignedLeb128(d.strings[s + 1].len)) >>
TypeChars(d, t) == IF t >= Len(d.types) THEN NullPtr ELSE Chars(d, d.types[t + 1])

=============================================================================
