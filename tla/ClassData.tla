------------------------------ MODULE ClassData ------------------------------
(***************************************************************************)
(* The class_data_item walkers of src/oat.cc and the way ParseDexClass of  *)
(* src/class.cc threads its cursor through them, and the lookup of a       *)
(* method's OatMethodOffsets_t in its OAT class.                           *)
(*                                                                         *)
(* A byte string is a sequence of byte values; a cursor is a position in   *)
(* it.  The values of class data met here are below 2^28, so a decoded     *)
(* uint32_t is the lo part of DecodeUnsignedLeb128's result.  Below the    *)
(* line are the references: the DEX encoder of a class_data_item and the   *)
(* layout of an OAT class that src/oat.h describes.                        *)
(***************************************************************************)
EXTENDS Naturals, Sequences, FiniteSets, Leb128
LOCAL INSTANCE SequencesExt

\* ComputeClassDataHdr(hdr, &bCDH): static_fields_size_,
\* instance_fields_size_, direct_methods_size_, virtual_methods_size_ in
\* that order, and where hdr is left.
ComputeClassDataHdr(bs, p) ==
  LET s == DecodeUnsignedLeb128(bs, p)
      i == DecodeUnsignedLeb128(bs, s.next)
      d == DecodeUnsignedLeb128(bs, i.next)
      v == DecodeUnsignedLeb128(bs, d.next)
  IN  [sizes |-> << s.lo, i.lo, d.lo, v.lo >>, next |-> v.next]

\* Values per record of group g: a ClassDataField_t (field_idx_delta_,
\* access_flags_) or a ClassDataMethod_t (method_idx_delta_, access_flags_,
\* code_off_).
Width(g) == IF g <= 2 THEN 2 ELSE 3

\* The w DecodeUnsignedLeb128 calls of one loop iteration, from p.
RECURSIVE DecodeRecord(_, _, _)
DecodeRecord(bs, p, w) ==
  IF w = 0 THEN [rec |-> << >>, next |-> p]
  ELSE LET x == DecodeUnsignedLeb128(bs, p)
           r == DecodeRecord(bs, x.next, w - 1)
       IN  [rec |-> << x.lo >> \o r.rec, next |-> r.next]

\* k iterations from p; the record written last is the one the caller
\* reads (out, what it held before, when k = 0).
RECURSIVE DecodeRecords(_, _, _, _, _)
DecodeRecords(bs, p, k, w, out) ==
  IF k = 0 THEN [rec |-> out, next |-> p]
  ELSE LET r == DecodeRecord(bs, p, w)
       IN  DecodeRecords(bs, r.next, k - 1, w, r.rec)

\* The loop for (i = 0; i <= idx; ++i) runs idx + 1 times.
RecordsThrough(idx) == idx + 1

\* Get{Static,Instance}FieldOfClassDataByIdx and
\* Get{Direct,Virtual}MethodOfClassDataByIdx: for an empty group end is
\* returned and the record left alone; otherwise idx is clamped to
\* size - 1 and the records 0 .. idx are decoded from end again.
GetOfClassDataByIdx(size, bs, end, idx, w, out) ==
  IF size = 0 THEN [rec |-> out, next |-> end]
  ELSE DecodeRecords(bs, end, RecordsThrough(IF idx >= size THEN size - 1 ELSE idx), w, out)

\* One group's loop in ParseDexClass: for idx = 0 .. n-1,
\* end = Get...ByIdx(&bCDH, ptr, &rec, idx) with ptr, the group's start,
\* fixed; the member built from rec.  The records read, and the last end.
RECURSIVE WalkGroup(_, _, _, _, _, _)
WalkGroup(bs, ptr, n, w, recs, end) ==
  IF Len(recs) = n THEN [recs |-> recs, end |-> end]
  ELSE LET r == GetOfClassDataByIdx(n, bs, ptr, Len(recs), w,
                                    IF recs = << >> THEN << >> ELSE Last(recs))
       IN  WalkGroup(bs, ptr, n, w, Append(recs, r.rec), r.next)

\* The next group's start left as the previous one's.
GroupEndStale(ptr, end) == ptr

\* ptr = end after a group's loop.
GroupEndPtr(ptr, end) == end

\* The four groups in order, each skipped when its size is 0.
RECURSIVE WalkGroups(_, _, _, _)
WalkGroups(bs, sizes, g, ptr) ==
  IF g > 4 THEN [groups |-> << >>, end |-> ptr]
  ELSE IF sizes[g] = 0
  THEN LET rest == WalkGroups(bs, sizes, g + 1, ptr)
       IN  [rest EXCEPT !.groups = << << >> >> \o @]
  ELSE LET grp  == WalkGroup(bs, ptr, sizes[g], Width(g), << >>, ptr)
           rest == WalkGroups(bs, sizes, g + 1, GroupEndPtr(ptr, grp.end))
       IN  [rest EXCEPT !.groups = << grp.recs >> \o @]

\* The decoding done by ParseDexClass for the class_data_item at p: the
\* records of its members, group by group, and where ptr is left.
ParseClassData(bs, p) ==
  LET h == ComputeClassDataHdr(bs, p) IN WalkGroups(bs, h.sizes, 1, h.next)

\* "dex\n035\0", the first bytes of every DEX blob (DexHdr_t.magic_).
DexMagic == << 100, 101, 120, 10, 48, 51, 53, 0 >>

\* GetClassDataHdrPtrOfClassDefByIdx: NULL (<< >>) only for a class_idx
\* past class_defs_size_; otherwise dex_file_ptr + class_data_off_ as a
\* 0-based offset into the blob, whatever class_data_off_ is.  defs is the
\* class_data_off_ of each ClassDef_t.
GetClassDataHdrPtrOfClassDefByIdx(defs, class_idx) ==
  IF class_idx >= Len(defs) THEN << >> ELSE << defs[class_idx + 1] >>

\* oat.h OatClassType.
kOatClassAllCompiled  == 0
kOatClassSomeCompiled == 1

\* sizeof(OatMethodOffsets_t): code_offset_ and gc_map_offset_.
SizeofOatMethodOffsets == 8

\* The bitmap_size word the OAT writer stores: bytes of whole 32-bit
\* words, one bit per method.
BitmapSize(cls) == ((Len(cls.compiled) + 31) \div 32) * 4

\* GetOatMethodOffByIdx: the offset from oat_class_data of the entry
\* returned for oat_method_idx: after the status and type half-words, and
\* after bitmap_size and the bitmap for kOatClassSomeCompiled, the
\* oat_method_idx-th entry.
GetOatMethodOffByIdx(cls, oat_method_idx) ==
  LET after_type == 2 + 2
      start == IF cls.type = kOatClassSomeCompiled
               THEN after_type + 4 + BitmapSize(cls) ELSE after_type
  IN  start + oat_method_idx * SizeofOatMethodOffsets

-----------------------------------------------------------------------------
(* The references.  A class_data_item is its four sizes as uleb128 and     *)
(* then each group's records, each value as uleb128, in order.             *)

RECURSIVE EncodeUnsignedLeb128(_)
EncodeUnsignedLeb128(v) ==
  IF v < 128 THEN << v >>
  ELSE << (v % 128) + 128 >> \o EncodeUnsignedLeb128(v \div 128)

EncodeValues(vs) == FlattenSeq([k \in DOMAIN vs |-> EncodeUnsignedLeb128(vs[k])])

EncodeClassData(groups) ==
  EncodeValues([g \in 1 .. 4 |-> Len(groups[g])])
    \o FlattenSeq([g \in 1 .. 4 |-> FlattenSeq([j \in DOMAIN groups[g] |-> EncodeValues(groups[g][j])])])

(* oat.h: kOatClassAllCompiled is followed by an OatMethodOffsets for each *)
(* method; kOatClassSomeCompiled by a bitmap of which OatMethodOffsets are *)
(* present, and then those only; kOatClassNoneCompiled by none.            *)
IsCompiled(cls, idx) ==
  \/ cls.type = kOatClassAllCompiled
  \/ cls.type = kOatClassSomeCompiled /\ cls.compiled[idx + 1]

RefOatMethodOff(cls, idx) ==
  LET start == IF cls.type = kOatClassSomeCompiled THEN 8 + BitmapSize(cls) ELSE 4
  IN  start + Cardinality({ j \in 0 .. idx - 1 : IsCompiled(cls, j) }) * SizeofOatMethodOffsets

=============================================================================
