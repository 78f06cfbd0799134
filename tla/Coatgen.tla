------------------------------- MODULE Coatgen -------------------------------
(***************************************************************************)
(* The method pass of the COAT converter, src/tools/coatgen.cc:            *)
(* CompressEachOATMethod walks the OAT header's DEX table, each DEX file's *)
(* class defs and each class's direct and then virtual methods, finds each *)
(* method's OatMethodOffsets_t through GetOATClassMethodPtr, and hands its *)
(* code to CompressCode, which writes a CoatHeader and the deflated code,  *)
(* or the code as it is, at code_offset_ + executable_offset_ of the       *)
(* output file.                                                            *)
(*                                                                         *)
(* The OAT data coatgen reads (p, the start of .rodata) is a function from *)
(* offsets to the cells the OAT writer put there: a "u32" or "u16" field,  *)
(* the "leb" bytes of a class_data_item, or the "code" of a method, of     *)
(* which only what deflate makes of it matters.  A read of an offset where *)
(* no cell of that width starts yields 0.  Below the line is the writer:   *)
(* the layout an OAT file of a given shape has.                            *)
(***************************************************************************)
EXTENDS Naturals, Sequences, FiniteSets, ClassData
LOCAL INSTANCE SequencesExt

\* offsetof(OatHdr_t, key_value_store_): 21 uint32_t fields.
SizeofOatHdr == 84
\* sizeof(cart::CoatHeader): magic_, version_, compressed_size_,
\* decompressed_size_.
SizeofCoatHeader == 16

\* *reinterpret_cast<const uint32_t*> and <const int16_t*> of p + q.
Read32(m, q) == IF q \in DOMAIN m /\ m[q].w = "u32" THEN m[q].v ELSE 0
Read16(m, q) == IF q \in DOMAIN m /\ m[q].w = "u16" THEN m[q].v ELSE 0

\* GetOATClassMethodPtr: the OAT class of class idx is at
\* method_off_ptr[idx]; its methods start after the status and type
\* half-words, and after bitmap_size and the bitmap for
\* kOatClassSomeCompiled.
GetOATClassMethodPtr(m, method_off_ptr, idx) ==
  LET oat_class_pointer == Read32(m, method_off_ptr + 4 * idx)
      after_type_pointer == oat_class_pointer + 2 + 2
  IN  IF Read16(m, oat_class_pointer + 2) = kOatClassSomeCompiled
      THEN after_type_pointer + 4 + Read32(m, after_type_pointer)
      ELSE after_type_pointer

\* The four DecodeUnsignedLeb128 calls on class_data: static, instance,
\* direct and virtual sizes.  The records decoded after them are stored
\* and freed unused, so where they are read from changes nothing.
ClassDataSizes(m, class_data) ==
  IF class_data \in DOMAIN m /\ m[class_data].w = "leb"
  THEN ComputeClassDataHdr(m[class_data].v, 1).sizes
  ELSE << 0, 0, 0, 0 >>

\* What deflate makes of the code at p + code_offset_: need bytes for the
\* whole stream, or ok FALSE when deflateInit2 fails.  Code the writer did
\* not lay out there is taken as deflating to nothing.
CodeZ(m, q) ==
  IF q \in DOMAIN m /\ m[q].w = "code" THEN m[q].v ELSE [need |-> 0, ok |-> TRUE]

\* A deflate that is not held to dst_sz.
DeflateToMemoryUnbounded(dst_sz, z) == IF ~z.ok THEN -1 ELSE z.need

\* DeflateToMemory: -1 when deflateInit2 fails; else next_out - dst after
\* one deflate(Z_FINISH) into dst_sz bytes: the whole stream, or dst_sz
\* when it did not fit, deflate then returning Z_OK, which passes.
DeflateToMemory(dst_sz, z) ==
  IF ~z.ok THEN -1 ELSE IF z.need > dst_sz THEN dst_sz ELSE z.need

\* CompressCode: the writes to the output at off.  Under 300 bytes the
\* code as it is; else a CoatHeader holding compressed_size and copy_sz,
\* then compressed_size bytes, which a write of size -1 does not write.
CompressCode(copy_sz, z, off, src) ==
  IF copy_sz < 300
  THEN << [at |-> off, len |-> copy_sz, what |-> << "raw", src >>] >>
  ELSE LET compressed_size == DeflateToMemory(copy_sz, z)
       IN  << [at |-> off, len |-> SizeofCoatHeader,
               what |-> << "hdr", src, compressed_size, copy_sz >>],
              [at |-> off + SizeofCoatHeader,
               len |-> IF compressed_size < 0 THEN 0 ELSE compressed_size,
               what |-> << "deflated", src >>] >>

\* nr_method started again at 0 for the virtual methods.
VirtualBaseReset(direct_methods_size) == 0
\* nr_method runs on from the direct methods into the virtual ones.
VirtualBase(direct_methods_size) == direct_methods_size

\* One class of the inner loop: each method's entry is the nr_method-th
\* OatMethodOffsets_t after GetOATClassMethodPtr; its code is at
\* p + code_offset_, code_size_ is the last field of the 24-byte
\* OatQuickMethodHdr_t before it, and it goes to code_offset_ +
\* executable_offset_.
CoatClassVisits(m, exe, method_off_ptr, dex_file_ptr, idx) ==
  LET class_def == Read32(m, dex_file_ptr + 100) + dex_file_ptr + 32 * idx
      sizes     == ClassDataSizes(m, Read32(m, class_def + 24) + dex_file_ptr)
      methods   == GetOATClassMethodPtr(m, method_off_ptr, idx)
      Visit(nr_method) ==
        LET co == Read32(m, methods + 8 * nr_method)
        IN  [code |-> co, size |-> Read32(m, co - 4), at |-> co + exe, z |-> CodeZ(m, co)]
  IN  [j \in 1 .. sizes[3] |-> Visit(j - 1)]
        \o [j \in 1 .. sizes[4] |-> Visit(VirtualBase(sizes[3]) + j - 1)]

\* The outer loop from xp, at DEX file i of n: dex_loc_sz, the location,
\* the checksum, dex_file_off, then class_defs_size_ class offsets.
RECURSIVE CoatDexVisits(_, _, _, _, _)
CoatDexVisits(m, exe, xp, i, n) ==
  IF i >= n THEN << >>
  ELSE LET dex_file_off_field == xp + 4 + Read32(m, xp) + 4
           dex_file_ptr       == Read32(m, dex_file_off_field)
           method_off_ptr     == dex_file_off_field + 4
           class_defs_size    == Read32(m, dex_file_ptr + 96)
       IN  FlattenSeq([idx \in 1 .. class_defs_size |->
                         CoatClassVisits(m, exe, method_off_ptr, dex_file_ptr, idx - 1)])
             \o CoatDexVisits(m, exe, method_off_ptr + 4 * class_defs_size, i + 1, n)

\* CompressEachOATMethod(p, fdo): the methods in the order it compresses
\* them, from past the key/value store, for dex_file_count_ DEX files.
CompressEachOATMethod(m) ==
  CoatDexVisits(m, Read32(m, 24), SizeofOatHdr + Read32(m, 80), 0, Read32(m, 20))

\* The writes CompressCode makes for the methods, in order.
CoatgenWrites(m) ==
  LET v == CompressEachOATMethod(m)
  IN  FlattenSeq([i \in DOMAIN v |-> CompressCode(v[i].size, v[i].z, v[i].at, v[i].code)])

\* GetOatCodePtrByIdx and GetOatQuickMethodHdrByIdx: the code the linker
\* stores for method oat_method_idx of the OAT class at oat_class_offset,
\* oat_base + code_offset_, and the code_size_ of the header before it.
LinkedCode(m, oat_class_offset, cls, oat_method_idx) ==
  LET co == Read32(m, oat_class_offset + GetOatMethodOffByIdx(cls, oat_method_idx))
  IN  [code |-> co, size |-> Read32(m, co - 4)]

-----------------------------------------------------------------------------
(* The OAT writer.  An OAT file's shape: key_value_store_size_ kv; DEX     *)
(* files, each with its location's length loc and its classes, each class  *)
(* with its OatClassType, its number d of direct methods and, for each     *)
(* method, whether it is compiled; and codes, cycled over the compiled     *)
(* methods in order: size, what deflate makes of it, and dup when the      *)
(* writer shares the previous method's code instead (identical code is     *)
(* stored once).  The OAT header, the DEX table, the DEX files (header,    *)
(* class defs, class data), the OAT classes and, from executable_offset_,  *)
(* each code after its OatQuickMethodHdr_t, at 16-byte alignment.          *)
U32(v) == [w |-> "u32", v |-> v]
U16(v) == [w |-> "u16", v |-> v]
Total(s) == FoldLeft(LAMBDA a, x : a + x, 0, s)
Align16(q) == ((q + 15) \div 16) * 16

NClasses(img, k)  == Len(img.dexes[k].classes)
EntrySize(img, k) == 12 + img.dexes[k].loc + 4 * NClasses(img, k)
EntryOff(img, k)  == SizeofOatHdr + img.kv + Total([i \in 1 .. k - 1 |-> EntrySize(img, i)])
DexOff(img, k)    == EntryOff(img, Len(img.dexes) + 1)
                       + Total([i \in 1 .. k - 1 |-> 112 + 48 * NClasses(img, i)])
\* Class def c of DEX file k, and its class_data_item in a 16-byte slot.
ClassDefOff(img, k, c)  == DexOff(img, k) + 112 + 32 * (c - 1)
ClassDataOff(img, k, c) == DexOff(img, k) + 112 + 32 * NClasses(img, k) + 16 * (c - 1)
\* Every class, as << k, c >>, in file order.
Order(img) == FlattenSeq([k \in DOMAIN img.dexes |-> [c \in 1 .. NClasses(img, k) |-> << k, c >>]])
Cls(img, i) == img.dexes[Order(img)[i][1]].classes[Order(img)[i][2]]
NEntries(cls) == Cardinality({ j \in 0 .. Len(cls.compiled) - 1 : IsCompiled(cls, j) })
OatClassAt(img, i) ==
  DexOff(img, Len(img.dexes) + 1)
    + Total([x \in 1 .. i - 1 |-> RefOatMethodOff(Cls(img, x), Len(Cls(img, x).compiled))])
ClassIndex(img, k, c) == Total([i \in 1 .. k - 1 |-> NClasses(img, i)]) + c
OatClassOff(img, k, c) == OatClassAt(img, ClassIndex(img, k, c))
ExecutableOffset(img) == ((OatClassAt(img, Len(Order(img)) + 1) + 4095) \div 4096) * 4096
\* The compiled methods, as << class, rank among its entries >>.
Entries(img) == FlattenSeq([i \in DOMAIN Order(img) |-> [r \in 1 .. NEntries(Cls(img, i)) |-> << i, r >>]])
CodeAt(img, e) == img.codes[((e - 1) % Len(img.codes)) + 1]
\* code_offset_ of compiled methods 1 .. e, and where the last code ends.
RECURSIVE CodeLayout(_, _)
CodeLayout(img, e) ==
  IF e = 0 THEN [offs |-> << >>, end |-> ExecutableOffset(img)]
  ELSE LET prev == CodeLayout(img, e - 1)
       IN  IF CodeAt(img, e).dup /\ e > 1
           THEN [offs |-> Append(prev.offs, Last(prev.offs)), end |-> prev.end]
           ELSE LET co == Align16(prev.end) + 24
                IN  [offs |-> Append(prev.offs, co), end |-> co + CodeAt(img, e).size]
\* The cells, as << offset, cell >>.
Cells(img) ==
  LET nd == Len(img.dexes)
      es == Entries(img)
      co == CodeLayout(img, Len(es)).offs
  IN  { << 20, U32(nd) >>, << 24, U32(ExecutableOffset(img)) >>, << 80, U32(img.kv) >> }
      \cup { << EntryOff(img, k), U32(img.dexes[k].loc) >> : k \in 1 .. nd }
      \cup { << EntryOff(img, k) + 8 + img.dexes[k].loc, U32(DexOff(img, k)) >> : k \in 1 .. nd }
      \cup UNION { { << EntryOff(img, k) + 8 + img.dexes[k].loc + 4 * c, U32(OatClassOff(img, k, c)) >> :
                     c \in 1 .. NClasses(img, k) } : k \in 1 .. nd }
      \cup { << DexOff(img, k) + 96, U32(NClasses(img, k)) >> : k \in 1 .. nd }
      \cup { << DexOff(img, k) + 100, U32(112) >> : k \in 1 .. nd }
      \cup UNION { { << ClassDefOff(img, Order(img)[i][1], Order(img)[i][2]) + 24,
                        U32(ClassDataOff(img, Order(img)[i][1], Order(img)[i][2]) - DexOff(img, Order(img)[i][1])) >>,
                     << ClassDataOff(img, Order(img)[i][1], Order(img)[i][2]),
                        [w |-> "leb", v |-> EncodeValues(<< 0, 0, Cls(img, i).d, Len(Cls(img, i).compiled) - Cls(img, i).d >>)] >>,
                     << OatClassAt(img, i), U16(0) >>,
                     << OatClassAt(img, i) + 2, U16(Cls(img, i).type) >> } : i \in DOMAIN Order(img) }
      \cup { << OatClassAt(img, i) + 4, U32(BitmapSize(Cls(img, i))) >> :
               i \in { x \in DOMAIN Order(img) : Cls(img, x).type = kOatClassSomeCompiled } }
      \cup { << OatClassAt(img, es[e][1]) + RefOatMethodOff(Cls(img, es[e][1]), 0) + 8 * (es[e][2] - 1), U32(co[e]) >> :
               e \in DOMAIN es }
      \cup UNION { { << co[e] - 4, U32(CodeAt(img, e).size) >>,
                     << co[e], [w |-> "code", v |-> [need |-> CodeAt(img, e).need, ok |-> CodeAt(img, e).ok]] >> } :
                   e \in { x \in DOMAIN es : ~(CodeAt(img, x).dup /\ x > 1) } }
OatImage(img) ==
  LET cs == Cells(img) IN [q \in { c[1] : c \in cs } |-> (CHOOSE c \in cs : c[1] = q)[2]]
\* Every method, as << class, oat_method_idx >>, direct and then virtual.
Methods(img) == FlattenSeq([i \in DOMAIN Order(img) |-> [j \in 1 .. Len(Cls(img, i).compiled) |-> << i, j - 1 >>]])

=============================================================================
