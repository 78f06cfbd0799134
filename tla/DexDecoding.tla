----------------------------- MODULE DexDecoding -----------------------------
(***************************************************************************)
(* The decoders of src/utils.cc and src/oat.cc checked against their       *)
(* references over every small input: a byte string for                   *)
(* DecodeUnsignedLeb128, a class_data_item for the walk ParseDexClass does *)
(* with the class-data getters, placed in a DEX blob after its magic and   *)
(* reached through a class def's class_data_off_, an OAT class for        *)
(* GetOatMethodOffByIdx, and a key_value_store_ for                        *)
(* GetStoreKeyValuePairByIndex, a DEX id section for the getters of      *)
(* DexIds, and an OAT file for coatgen's method pass.  Each initial state  *)
(* holds one input of *)
(* interest and neutral values for the others, so that the input spaces    *)
(* add up, not multiply.                                                   *)
(***************************************************************************)
EXTENDS Naturals, Sequences, FiniteSets, ClassData, DexIds, KeyValueStore, Coatgen
LOCAL INSTANCE SequencesExt

CONSTANTS
  Alphabet,    \* byte values the LEB128 inputs are made of
  MaxLen,      \* longest LEB128 input
  FieldRecs,   \* (field_idx_delta, access_flags) records
  MethodRecs,  \* (method_idx_delta, access_flags, code_off) records
  MaxGroup,    \* most members in a group
  OatClasses,  \* OAT classes: [type, compiled bit of each method]
  KvStrings,   \* keys and values of the key/value store
  MaxPairs,    \* most pairs in a store
  IdSections,  \* DEX id sections (see DexIds)
  CoatImages   \* shapes of OAT files (see Coatgen)

VARIABLES
  buf,    \* the bytes at *data of DecodeUnsignedLeb128
  item,   \* a class_data_item: four groups of records
  ocls,   \* the OAT class of the class being linked
  kv,     \* the key_value_store_ bytes, key_value_store_size_ of them
  ids,    \* the id section of a DEX file
  coat    \* an OAT file's shape, the OAT data laid out for it and the
          \* methods coatgen visits in it

vars == << buf, item, ocls, kv, ids, coat >>

\* Every store of up to MaxPairs pairs, whole or cut short at any byte.
Stores ==
  UNION { { SubSeq(EncodeStore(ps), 1, n) : n \in 0 .. Len(EncodeStore(ps)) } :
          ps \in BoundedSeq(KvStrings \X KvStrings, MaxPairs) }

\* The DEX blob: its magic and then the class_data_item.
Blob == DexMagic \o EncodeClassData(item)
ItemOff == Len(DexMagic)

\* ptr of ParseDexClass for class_idx 0 of a DEX file with one class def,
\* whose class_data_off_ is the item's offset.
ClassDataPtr == GetClassDataHdrPtrOfClassDefByIdx(<< ItemOff >>, 0)

Items ==
  { << s, i, d, v >> : s, i \in BoundedSeq(FieldRecs, MaxGroup),
                       d, v \in BoundedSeq(MethodRecs, MaxGroup) }

NoBuf  == << 0 >>
NoItem == << << >>, << >>, << >>, << >> >>
NoOcls == [type |-> kOatClassAllCompiled, compiled |-> << >>]
NoIds  == [strings |-> << >>, types |-> << >>, protos |-> << >>,
           fields |-> << >>, methods |-> << >>, classes |-> << >>]
CoatOf(img) ==
  LET mem == OatImage(img)
  IN  [img |-> img, mem |-> mem, visits |-> CompressEachOATMethod(mem)]
NoCoat == CoatOf([kv |-> 0, dexes |-> << >>,
                  codes |-> << [size |-> 0, need |-> 0, ok |-> TRUE, dup |-> FALSE] >>])

Init ==
  \/ buf \in BoundedSeq(Alphabet, MaxLen) \ {<< >>} /\ item = NoItem /\ ocls = NoOcls /\ kv = << >> /\ ids = NoIds /\ coat = NoCoat
  \/ buf = NoBuf /\ item \in Items /\ ocls = NoOcls /\ kv = << >> /\ ids = NoIds /\ coat = NoCoat
  \/ buf = NoBuf /\ item = NoItem /\ ocls \in OatClasses /\ kv = << >> /\ ids = NoIds /\ coat = NoCoat
  \/ buf = NoBuf /\ item = NoItem /\ ocls = NoOcls /\ kv \in Stores /\ ids = NoIds /\ coat = NoCoat
  \/ buf = NoBuf /\ item = NoItem /\ ocls = NoOcls /\ kv = << >> /\ ids \in IdSections /\ coat = NoCoat
  \/ buf = NoBuf /\ item = NoItem /\ ocls = NoOcls /\ kv = << >> /\ ids = NoIds /\ coat \in { CoatOf(img) : img \in CoatImages }

Next == UNCHANGED vars

Spec == Init /\ [][Next]_vars

-----------------------------------------------------------------------------
\* Every whole encoding of at most five bytes decodes to its LEB128 value
\* modulo 2^32, and the decoder consumes exactly its bytes: masks, shifts,
\* the stop on a clear continuation bit, the five-byte limit and the
\* overflowing fifth shift of DecodeUnsignedLeb128 together.
DecodeMatchesReference ==
  Complete(buf) => DecodeUnsignedLeb128(buf, 1) = RefLeb128(buf)

\* spec.md 4.5 steps 2-4: ParseDexClass, re-decoding each group from its
\* start for every member and moving ptr to the last end between groups,
\* reads every member's record of the class_data_item its class def
\* points at, in order, and leaves ptr just past the item.
ClassDataWalkMatches ==
  /\ ClassDataPtr # << >>
  /\ LET r == ParseClassData(Blob, ClassDataPtr[1] + 1)
     IN  r.groups = item /\ r.end = Len(Blob) + 1

\* GetOatCodePtrByIdx, through GetOatMethodOffByIdx, reads the
\* OatMethodOffsets_t of the method itself for every compiled method of a
\* class, as oat.h lays an OAT class out.
OatOffsetOfCompiledMethod ==
  \A idx \in 0 .. Len(ocls.compiled) - 1 :
    IsCompiled(ocls, idx) => GetOatMethodOffByIdx(ocls, idx) = RefOatMethodOff(ocls, idx)

\* The dump loop of coatgen and oatdump asks for index 0, 1, ... until the
\* lookup fails: GetStoreKeyValuePairByIndex finds exactly the pairs the
\* store holds whole, each at its own key and value, and none whose value
\* runs past key_value_store_size_, whatever byte the store is cut at.
StoreLookupMatches ==
  \A j \in 0 .. MaxPairs : GetStoreKeyValuePairByIndex(kv, j) = RefPair(kv, j)

\* The strings ParseDexClass stores (class.cc:90-93, 146, 189, 235-237)
\* point at the characters of the string the id tables name: a class's
\* descriptor and its superclass's (none for NO_INDEX), its source file,
\* a field's and a method's name, a method's prototype shorty through its
\* proto id; the class and type of a field and the class of a method,
\* which oat.cc also offers; and an id one past its table gives NULL.  Each through its
\* chain of tables (class def -> type -> string, method -> proto ->
\* string), for every string of fewer than 128 UTF-16 units, whose uleb128
\* length is the one byte GetStringById skips.  A method record is taken
\* with method_idx_delta_ equal to its id, as for the first of a group.
LinkerStringsResolve ==
  LET short(s)  == ids.strings[s + 1].len < 128
      shortT(t) == t >= Len(ids.types) \/ short(ids.types[t + 1])
  IN  /\ \A c \in 0 .. Len(ids.classes) - 1 :
           LET k == ids.classes[c + 1]
           IN  /\ shortT(k.cls)   => GetClassStringOfClassDefByIdx(ids, c) = TypeChars(ids, k.cls)
               /\ shortT(k.super) => GetSuperclassStringOfClassDefByIdx(ids, c) = TypeChars(ids, k.super)
               /\ short(k.src)    => GetSourcefileStringOfClassDefByIdx(ids, c) = Chars(ids, k.src)
      /\ \A f \in 0 .. Len(ids.fields) - 1 :
           short(ids.fields[f + 1].name) => GetFieldNameStringById(ids, f) = Chars(ids, ids.fields[f + 1].name)
      /\ \A m \in 0 .. Len(ids.methods) - 1 :
           LET shorty == ids.protos[ids.methods[m + 1].proto + 1].shorty
           IN  /\ short(ids.methods[m + 1].name) =>
                    GetMethodNameStringOfCDM(ids, m) = Chars(ids, ids.methods[m + 1].name)
               /\ short(shorty) => GetProtoShortyStringOfCDM(ids, m) = Chars(ids, shorty)
      /\ \A f \in 0 .. Len(ids.fields) - 1 :
           /\ shortT(ids.fields[f + 1].cls)  => GetFieldClassStringById(ids, f) = TypeChars(ids, ids.fields[f + 1].cls)
           /\ shortT(ids.fields[f + 1].type) => GetFieldTypeStringById(ids, f) = TypeChars(ids, ids.fields[f + 1].type)
      /\ \A m \in 0 .. Len(ids.methods) - 1 :
           shortT(ids.methods[m + 1].cls) => GetMethodClassStringById(ids, m) = TypeChars(ids, ids.methods[m + 1].cls)
      /\ GetFieldNameStringById(ids, Len(ids.fields)) = NullPtr
      /\ GetMethodNameStringById(ids, Len(ids.methods)) = NullPtr
      /\ GetTypeStringById(ids, Len(ids.types)) = NullPtr

\* coatgen compresses the code the VM runs: CompressEachOATMethod, with
\* its own walk of the DEX table (dex_loc_sz, checksum, dex_file_off,
\* class offsets), of the class defs and class data, and its own
\* GetOATClassMethodPtr and nr_method count, visits every method of every
\* class of every DEX file, direct and then virtual, and for each reads
\* the code pointer and code_size_ that GetOatCodePtrByIdx and
\* GetOatQuickMethodHdrByIdx give the linker for that method's
\* oat_method_idx in its OAT class.  (The states of the other inputs hold
\* the image with no DEX file, for which both are empty.)
CoatgenCompressesLinkedCode ==
  LET v  == coat.visits
      ms == Methods(coat.img)
  IN  coat # NoCoat =>
      /\ Len(v) = Len(ms)
      /\ \A x \in DOMAIN ms :
           LET kc == Order(coat.img)[ms[x][1]]
               lc == LinkedCode(coat.mem, OatClassOff(coat.img, kc[1], kc[2]),
                                Cls(coat.img, ms[x][1]), ms[x][2])
           IN  v[x].code = lc.code /\ v[x].size = lc.size

\* The packages CompressCode writes for two methods of kOatClassAllCompiled
\* classes with different code never overlap in the output file, though a
\* package (a 16-byte CoatHeader and up to code_size_ bytes of deflate
\* output, which DeflateToMemory holds to the code's size even when the
\* stream does not fit) can be longer than the code it replaces: the
\* excess falls on the next method's 24-byte OatQuickMethodHdr_t.
CoatPackagesDisjoint ==
  LET v  == coat.visits
      ms == Methods(coat.img)
      AllCompiled(x) == Cls(coat.img, ms[x][1]).type = kOatClassAllCompiled
      End(x) == LET w == CompressCode(v[x].size, v[x].z, v[x].at, v[x].code)
                IN  Last(w).at + Last(w).len
  IN  coat # NoCoat /\ Len(v) = Len(ms) =>
        \A a, b \in DOMAIN v :
          (a # b /\ AllCompiled(a) /\ AllCompiled(b) /\ v[a].code # v[b].code)
            => End(a) <= v[b].at \/ End(b) <= v[a].at

=============================================================================
