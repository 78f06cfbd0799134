---------------------------- MODULE ClassLinker ----------------------------
(***************************************************************************)
(* The class linker of src/class.cc and the VM around it, as the CART    *)
(* test of src/tools/unittest.cc drives them: CreateJavaVM builds the     *)
(* JavaVMExt and its JNIEnvExt (src/java_vm_ext.cc, src/jni_env_ext.cc),  *)
(* which allocate the OatDex file table and the class linker; when        *)
(* IsReady holds, LoadClassesOfOatDexFile runs ParseDexClass over the     *)
(* classes of one DEX file, building each Class_t with its four member    *)
(* tables and inserting it into loaded_classes; the result is ignored and *)
(* the test calls FindClass (ClFindClass) and CallStaticVoidMethodV       *)
(* (ClFindMethod(klass, "main")) whatever happened before.                *)
(*                                                                         *)
(* Tables are HashTable values.  Every HeapAlloc of the linker (a class, a *)
(* member, a member table, a slab of loaded_classes) may return NULL: the  *)
(* linker never frees, so by heap_linker its allocations never collide,    *)
(* and NULL comes from malloc of a fresh heap entry failing.               *)
(*                                                                         *)
(* A class definition is its type descriptor (a string, as a sequence of   *)
(* character codes) and the four member groups of its class_data_item     *)
(* (static fields, instance fields, direct methods, virtual                *)
(* methods), each a sequence of [delta, name] as the LEB128 records and    *)
(* the method-name lookup yield; name << >> stands for a NULL name.        *)
(***************************************************************************)
EXTENDS Naturals, Sequences, HashTable
LOCAL INSTANCE SequencesExt

CONSTANTS
  Dexes,        \* the DEX files considered: sequences of class definitions
  Queries,      \* names the JNI FindClass is called with
  MainName,     \* the string "main"
  NR_CLASSES    \* slots per slab of loaded_classes (CLASSES_HASH_NR, scaled)

NullTbl == << >>

\* GenHashKey: hash = hash * 31 + c over the characters up to the NUL.
GenHashKey(s) == FoldLeft(LAMBDA h, c : h * 31 + c, 0, s)

\* GenHashKeyLen: the same, stopping after len characters or at the NUL.
GenHashKeyLen(s, len) == GenHashKey(SubSeq(s, 1, IF len < Len(s) THEN len ELSE Len(s)))

\* A key that keeps the descriptor's trailing ';' (strlen without the - 1).
ClassKeyUnstripped(desc) == GenHashKey(Tail(desc))

\* The key of loaded_classes: GenHashKeyLen(name + 1, strlen(name + 1) - 1),
\* the descriptor without its first and last characters ("LFoo;" -> "Foo").
ClassKey(desc) == GenHashKeyLen(Tail(desc), Len(Tail(desc)) - 1)

\* Direct methods keyed by their id, whatever their name.
DirectMethodKeyById(mem) == mem.delta

\* The key of a direct method: GenHashKey of its name, or its raw id when
\* the name is NULL.
DirectMethodKey(mem) == IF mem.name # << >> THEN GenHashKey(mem.name) ELSE mem.delta

\* The key of a member of group g: fields and virtual methods by the raw
\* field_idx_delta_ / method_idx_delta_.
MemberKey(g, mem) == IF g = 3 THEN DirectMethodKey(mem) ELSE mem.delta

\* A counter that advances on fields as well as methods.
OatAdvanceAll(g, oat) == oat + 1

\* oat_method_idx: advanced by the direct and the virtual method loops only,
\* never reset between them.
OatAdvance(g, oat) == IF g \in {3, 4} THEN oat + 1 ELSE oat

\* ++field_idx / ++method_idx at the end of each member loop.
NextMemberIdx(m) == m + 1

\* The JNIEnvExt as its constructor leaves it: oatdex_files_ and
\* class_linker_ ("null", "live", or "dangling" for a pointer to freed
\* memory) and whether functions was assigned.  The constructor returns
\* early at the first allocation that fails: AllocHashTable(NULL, 5), or
\* AllocateClassLinker, whose malloc, AllocHeapVolume and loaded_classes
\* failures all free what it took and return NULL; on the latter the table
\* is freed and oatdex_files_ left pointing at it.
CtorFailures == {"none", "oatdex", "linker"}
EnvAfterCtor(fail) ==
  CASE fail = "oatdex" -> [oatdex |-> "null", linker |-> "null", functions |-> FALSE]
    [] fail = "linker" -> [oatdex |-> "dangling", linker |-> "null", functions |-> FALSE]
    [] OTHER -> [oatdex |-> "live", linker |-> "live", functions |-> TRUE]

\* jni_env_ while CreateJavaVM has not reached new JavaVMExt.
NoEnv == [oatdex |-> "null", linker |-> "null", functions |-> FALSE]

\* An IsReady that tests only oatdex_files_.
IsReadyTableOnly(e) == e.oatdex # "null"

\* JavaVMExt::IsReady: jni_env_ (never NULL: new throws rather than
\* returning it) and JNIEnvExt::IsReady, both pointers non-NULL.
IsReady(e) == e.oatdex # "null" /\ e.linker # "null"

VARIABLES
  env,      \* the JNIEnvExt the VM holds
  failed,   \* some step so far failed: a missing file, an allocation, an
            \* open, a table growth
  dex,      \* the DexFileData: its class definitions
  loaded,   \* pClassLinker->loaded_classes
  classes,  \* Class_t of each class index allocated: its four tables
  moat,     \* method_oat_code of the Method_t built for <<class, group,
            \* index>>; a member table's ptr is the member's index
  pc,       \* where the linker or its caller is
  ci,       \* class_idx, from 1
  g,        \* member group being parsed, 1 .. 4
  m,        \* field_idx / method_idx within the group, from 1
  oat,      \* oat_method_idx
  ret,      \* what ParseDexClass returned
  query,    \* the name FindClass was called with
  answer    \* what FindClass returned: a class index, or 0

vars == << env, failed, dex, loaded, classes, moat, pc, ci, g, m, oat, ret, query, answer >>

Members(k, grp) == dex[k].groups[grp]

Init ==
  /\ env = NoEnv /\ failed = FALSE
  /\ dex \in Dexes
  /\ loaded = AllocHashTable(NR_CLASSES)
  /\ classes = << >> /\ moat = << >>
  /\ pc = "boot" /\ ci = 1 /\ g = 1 /\ m = 1 /\ oat = 0
  /\ ret = FALSE /\ query = << >> /\ answer = 0

\* ParseDexClass returns false; nothing built so far is undone.
Abort == pc' = "done" /\ ret' = FALSE /\ failed' = TRUE

\* CreateJavaVM: IsFileExist on the jar (false returns before any VM
\* exists), oat2dex, new JavaVMExt with its JNIEnvExt, IsReady (false
\* returns, leaking both), then LoadClassesOfOatDexFile, whose
\* OpenOatDexFile may fail and whose result is ignored.  A successful open
\* goes on to RegisterOatDexFile and ParseDexClass.
CreateJavaVM ==
  /\ pc = "boot"
  /\ \/ pc' = "noenv" /\ failed' = TRUE /\ UNCHANGED env
     \/ \E f \in CtorFailures :
          /\ env' = EnvAfterCtor(f)
          /\ IF ~IsReady(env')
             THEN pc' = "notready" /\ failed' = TRUE
             ELSE \/ pc' = "done" /\ failed' = TRUE
                  \/ pc' = "class" /\ UNCHANGED failed
  /\ UNCHANGED << dex, loaded, classes, moat, ci, g, m, oat, ret, query, answer >>

\* Top of the class loop: HeapAlloc of a Class_t (NULL returns false).
AllocClass ==
  /\ pc = "class" /\ ci <= Len(dex)
  /\ \/ Abort /\ UNCHANGED classes
     \/ /\ classes' = Append(classes, [t \in 1 .. 4 |-> NullTbl])
        /\ pc' = "hdr" /\ UNCHANGED << ret, failed >>
  /\ UNCHANGED << env, dex, moat, loaded, ci, g, m, oat, query, answer >>

\* GetClassDataHdrPtrOfClassDefByIdx is NULL only past class_defs_size_,
\* never for a class_idx of the loop, so the four counts are decoded and
\* the groups start with oat_method_idx 0.  The classes here have a
\* class_data_item (ClassData covers a class def without one).
ClassDataHdr ==
  /\ pc = "hdr"
  /\ pc' = "group" /\ g' = 1 /\ oat' = 0
  /\ UNCHANGED << env, failed, dex, moat, loaded, classes, ci, m, ret, query, answer >>

\* A group with members: AllocHashTable(heap_vol, count) sized to the
\* count (NULL returns false); an empty group is skipped.
GroupStart ==
  /\ pc = "group" /\ g <= 4
  /\ IF Members(ci, g) = << >>
     THEN g' = g + 1 /\ UNCHANGED << classes, pc, m, ret, failed >>
     ELSE \/ Abort /\ UNCHANGED << classes, g, m >>
          \/ /\ classes' = [classes EXCEPT ![ci][g] = AllocHashTable(Len(Members(ci, g)))]
             /\ pc' = "member" /\ m' = 1 /\ UNCHANGED << g, ret, failed >>
  /\ UNCHANGED << env, dex, moat, loaded, ci, oat, query, answer >>

\* One member: HeapAlloc of its Field_t or Method_t (NULL returns false),
\* then InsertHashEntry into the group's table, result ignored.  The table
\* is heap-backed, so its growth may fail too: a NULL for a key not yet
\* present is such a failure.
GrowthFailed(t, key, r) == ~r.ok /\ IsHashExist(t, key) = << >>

Member ==
  /\ pc = "member" /\ m <= Len(Members(ci, g))
  /\ \/ Abort /\ UNCHANGED << classes, moat, m, oat >>
     \/ \E grow \in BOOLEAN :
          LET mem == Members(ci, g)[m]
              t == classes[ci][g]
              r == InsertHashEntry(t, MemberKey(g, mem), m, grow)
          IN  /\ moat' = (<< ci, g, m >> :> oat) @@ moat
              /\ classes' = [classes EXCEPT ![ci][g] = r.tbl]
              /\ failed' = (failed \/ GrowthFailed(t, MemberKey(g, mem), r))
              /\ m' = NextMemberIdx(m) /\ oat' = OatAdvance(g, oat) /\ UNCHANGED << pc, ret >>
  /\ UNCHANGED << env, dex, loaded, ci, g, query, answer >>

\* The group's loop ends.
GroupEnd ==
  /\ pc = "member" /\ m > Len(Members(ci, g))
  /\ pc' = "group" /\ g' = g + 1
  /\ UNCHANGED << env, failed, dex, moat, loaded, classes, ci, m, oat, ret, query, answer >>

\* The class is inserted into loaded_classes under ClassKey, result
\* ignored; its index stands for the Class_t pointer.
InsertClass ==
  /\ pc = "group" /\ g = 5
  /\ \E grow \in BOOLEAN :
       LET r == InsertHashEntry(loaded, ClassKey(dex[ci].desc), ci, grow)
       IN  /\ loaded' = r.tbl
           /\ failed' = (failed \/ GrowthFailed(loaded, ClassKey(dex[ci].desc), r))
  /\ pc' = "class" /\ ci' = ci + 1
  /\ UNCHANGED << env, dex, moat, classes, g, m, oat, ret, query, answer >>

\* The class loop ends: ParseDexClass returns true.
ParseDone ==
  /\ pc = "class" /\ ci > Len(dex)
  /\ pc' = "done" /\ ret' = TRUE
  /\ UNCHANGED << env, failed, dex, moat, loaded, classes, ci, g, m, oat, query, answer >>

\* JNI FindClass(name): ClFindClass reads e->ptr of IsHashExist's result
\* without a check, so a name with no entry dereferences NULL.  The test
\* calls it whatever CreateJavaVM returned: through a NULL jni_env_, or
\* through the functions pointer a failed JNIEnvExt constructor never
\* assigned (undefined; taken here as the crash it is on the x86 build).
FindClass(q) ==
  /\ pc \in {"done", "noenv", "notready"}
  /\ LET e == IsHashExist(loaded, GenHashKey(q))
     IN  IF pc # "done" \/ e = << >>
         THEN pc' = "crashed" /\ answer' = 0
         ELSE pc' = "found" /\ answer' = loaded[e[1]][e[2]].ptr
  /\ query' = q
  /\ UNCHANGED << env, failed, dex, moat, loaded, classes, ci, g, m, oat, ret >>

\* CallStaticVoidMethodV: ClFindMethod(klass, "main") on the direct method
\* table, NULL when the class has none, again reading e->ptr unchecked.
CallMain ==
  /\ pc = "found"
  /\ LET t == classes[answer][3]
         e == IF t = NullTbl THEN << >> ELSE IsHashExist(t, GenHashKey(MainName))
     IN  pc' = IF e = << >> THEN "crashed" ELSE "called"
  /\ UNCHANGED << env, failed, dex, moat, loaded, classes, ci, g, m, oat, ret, query, answer >>

\* The process has crashed, or main has been called.
Finished == pc \in {"crashed", "called"} /\ UNCHANGED vars

Next ==
  \/ CreateJavaVM \/ AllocClass \/ ClassDataHdr \/ GroupStart \/ Member \/ GroupEnd
  \/ InsertClass \/ ParseDone \/ \E q \in Queries : FindClass(q)
  \/ CallMain \/ Finished

Spec == Init /\ [][Next]_vars

-----------------------------------------------------------------------------
\* The record a table slot holds, and the slots in use (a member stored
\* under key 0 leaves its slot free, to be reused by the next insert).
Rec(k, grp, p) ==
  LET j == classes[k][grp][p[1]][p[2]].ptr
  IN  [m |-> j, oat |-> moat[<< k, grp, j >>], name |-> Members(k, grp)[j].name]
Stored(t) == { p \in Positions(t) : t[p[1]][p[2]].key # 0 }

\* spec.md 4.5 step 4: the OAT method index of a method is its 0-based
\* position across the direct methods and then the virtual methods of its
\* class, so GetOatCodePtrByIdx resolves each method to its own code.
OatIndexAcrossGroups ==
  \A k \in 1 .. Len(classes), t \in {3, 4} :
    classes[k][t] # NullTbl => \A p \in Stored(classes[k][t]) :
      Rec(k, t, p).oat =
        IF t = 3 THEN Rec(k, t, p).m - 1
        ELSE Len(Members(k, 3)) + Rec(k, t, p).m - 1

\* A class parsed to the end whose direct methods include "main" has it
\* where ClFindMethod(klass, "main") looks: the insert key of a named
\* direct method and the lookup key agree, and no other member of the
\* table (NULL names keyed by id, key 0, an overloaded main) displaces it.
MainFindable ==
  \A k \in 1 .. ci - 1 :
    (\E j \in 1 .. Len(Members(k, 3)) : Members(k, 3)[j].name = MainName) =>
      LET t == classes[k][3]
          e == IsHashExist(t, GenHashKey(MainName))
      IN  e # << >> /\ Rec(k, 3, e).name = MainName

\* ParseDexClass and everything after it run on a JNIEnvExt whose
\* oatdex_files_ and class_linker_ both point at live objects: the test goes
\* on to LoadClassesOfOatDexFile only when IsReady holds, although a
\* constructor that failed in AllocateClassLinker has freed the table and
\* left oatdex_files_ pointing at it.
LinkerHasLiveEnv ==
  pc \in {"class", "hdr", "group", "member", "done", "found", "called"} =>
    env.oatdex = "live" /\ env.linker = "live"

\* The name JNI FindClass takes for a descriptor: "LFoo;" is "Foo".
JniName(desc) == SubSeq(desc, 2, Len(desc) - 1)

\* The test's FindClass and CallStaticVoidMethodV crash on a class of the
\* DEX file that has a main only after something failed on the way: a
\* missing jar, a constructor or HeapAlloc allocation, the open, or a table
\* growth whose NULL class.cc ignores.  With nothing failed, the key the
\* class was inserted under (the descriptor stripped of both ends) is the
\* key ClFindClass looks the JNI name up under, and main is where
\* ClFindMethod looks.
CrashOnlyAfterFailure ==
  (/\ pc = "crashed"
   /\ \E k \in 1 .. Len(dex) :
        /\ JniName(dex[k].desc) = query
        /\ \E j \in 1 .. Len(Members(k, 3)) : Members(k, 3)[j].name = MainName)
  => failed

=============================================================================
