-------------------------- MODULE ObjStoreProofs --------------------------
(***************************************************************************)
(* The object store keeps its bookkeeping for any number of keys, workers, *)
(* entries and R objects: proofs about module ObjStore.                    *)
(*                                                                         *)
(* TypeOK, EntriesAccounted, PreserveBalanced and MainEntryValid hold each *)
(* other up: a count of holders is finite because the heap is, obj_gc      *)
(* frees live entries because the pool holds only live ones, C_get         *)
(* finds the entry it fills in alive because only obj_gc frees.  Their     *)
(* conjunction is inductive.                                               *)
(*                                                                         *)
(* The store implements the stacks of KVStore, by the refinement mapping   *)
(* of ObjStoreKV.  A stack is the enumeration of a set of list positions.  *)
(* Putting an entry first shifts all positions by one, unlinking one       *)
(* closes the gap: both keep the order of the positions, hence every       *)
(* enumeration (EnumerationMoves), and at most one position comes or goes, *)
(* at the front of its enumeration (EnumerationFirst).                     *)
(***************************************************************************)
EXTENDS ObjStoreKV, ListLemmas, FiniteSetTheorems

Inv == TypeOK /\ EntriesAccounted /\ PreserveBalanced /\ MainEntryValid

(* The part of the type invariant that the operations of obj.c change. *)
StoreTypeOK ==
  /\ entry \in [Addr -> Entry \cup {NULL}]
  /\ obj_root \in Seq(Addr)
  /\ obj_gc_pool \in Seq(Addr)
  /\ precious \in [RObj -> Nat]

(* The number of entries that point at an R object is a natural number. *)
LEMMA HoldersFinite ==
  ASSUME NEW x
  PROVE  IsFiniteSet(Holders(x)) /\ Cardinality(Holders(x)) \in Nat
<1>1. Holders(x) \in SUBSET Addr
  BY DEF Holders, Allocated
<1> QED BY <1>1, FS_Subset, FS_CardinalityType, ObjStoreAssumption

(* If the list walk of obj_get_ finds something it is a published entry. *)
LEMMA LookupPublished ==
  ASSUME obj_root \in Seq(Addr), NEW k \in Key
  PROVE  /\ Matches(k) # {} => /\ FirstMatch(k) \in DOMAIN obj_root
                               /\ Lookup(k) = obj_root[FirstMatch(k)]
                               /\ Lookup(k) \in Range(obj_root)
         /\ Matches(k) = {} => Lookup(k) = NULL
<1>1. ASSUME Matches(k) # {}
      PROVE  FirstMatch(k) \in Matches(k)
  <2>1. Matches(k) \subseteq Nat
    BY DEF Matches
  <2>2. \E i \in Matches(k) : \A j \in Matches(k) : i <= j
    BY <1>1, <2>1, LeastElement
  <2> QED BY <2>2 DEF FirstMatch
<1>2. ASSUME Matches(k) # {}
      PROVE  FirstMatch(k) \in DOMAIN obj_root
  BY <1>1, <1>2 DEF Matches
<1> QED BY <1>2 DEF Lookup, Range

(* obj_add takes a free address, so it disturbs no entry that is there. *)
LEMMA ObjAddKeeps ==
  ASSUME Inv,
         NEW k \in Key, NEW x \in RObj \cup {NULL}, NEW data \in Buf \cup {RAW, NULL},
         obj_add(k, x, data)
  PROVE  StoreTypeOK' /\ EntriesAccounted' /\ PreserveBalanced'
         /\ Allocated \subseteq Allocated'
<1> DEFINE ent == [key |-> k, sWhat |-> x, obj |-> data]
<1>1. PICK a \in Addr \ Allocated :
        /\ entry' = [entry EXCEPT ![a] = ent]
        /\ obj_root' = <<a>> \o obj_root
        /\ IF x # NULL THEN R_PreserveObject(x) ELSE UNCHANGED precious
        /\ UNCHANGED obj_gc_pool
  BY DEF obj_add
<1>2. ent \in Entry /\ ent # NULL
  BY NullIsNoEntry DEF Entry
<1>3. Allocated' = Allocated \cup {a}
  BY <1>1, <1>2 DEF Allocated, Inv, TypeOK
<1>4. /\ obj_root' \in Seq(Addr)
      /\ Range(obj_root') = Range(obj_root) \cup {a}
      /\ IsInjective(obj_root')
  BY <1>1, PrependList DEF Inv, TypeOK, EntriesAccounted
<1>5. StoreTypeOK'
  BY <1>1, <1>2, <1>4 DEF Inv, TypeOK, StoreTypeOK, R_PreserveObject
<1>6. EntriesAccounted'
  BY <1>1, <1>3, <1>4 DEF Inv, EntriesAccounted
<1>7. ASSUME NEW y \in RObj \ {NilValue}
      PROVE  precious'[y] = Cardinality(Holders(y)')
  <2>1. precious[y] = Cardinality(Holders(y)) /\ precious \in [RObj -> Nat]
    BY DEF Inv, TypeOK, PreserveBalanced
  <2>2. a \notin Holders(y)
    BY <1>1 DEF Holders
  <2>3. CASE x = y
    <3>1. Holders(y)' = Holders(y) \cup {a}
      BY <1>1, <1>3, <2>3 DEF Holders, Allocated, Inv, TypeOK
    <3>2. Cardinality(Holders(y) \cup {a}) = Cardinality(Holders(y)) + 1
      BY <2>2, HoldersFinite, FS_AddElement
    <3>3. precious' = [precious EXCEPT ![y] = @ + 1]
      BY <1>1, <2>3, ObjStoreAssumption DEF R_PreserveObject
    <3> QED BY <2>1, <3>1, <3>2, <3>3
  <2>4. CASE x # y
    <3>1. Holders(y)' = Holders(y)
      BY <1>1, <1>3, <2>4 DEF Holders, Allocated, Inv, TypeOK
    <3>2. precious'[y] = precious[y]
      BY <1>1, <2>1, <2>4 DEF R_PreserveObject
    <3> QED BY <2>1, <3>1, <3>2
  <2> QED BY <2>3, <2>4
<1> QED BY <1>3, <1>5, <1>6, <1>7 DEF PreserveBalanced

(* obj_get moves at most one entry, from obj_root to the pool. *)
LEMMA ObjGetKeeps ==
  ASSUME Inv, NEW k \in Key, NEW rm \in BOOLEAN, obj_get(k, rm), UNCHANGED precious
  PROVE  /\ StoreTypeOK' /\ EntriesAccounted' /\ PreserveBalanced'
         /\ Allocated' = Allocated
         /\ Lookup(k) \in Allocated \cup {NULL}
<1>1. /\ entry' = entry
      /\ Allocated' = Allocated
      /\ \A x : Holders(x)' = Holders(x)
  BY DEF obj_get, Allocated, Holders
<1>2. Lookup(k) \in Allocated \cup {NULL}
  BY LookupPublished DEF Inv, TypeOK, EntriesAccounted
<1>3. PreserveBalanced'
  BY <1>1 DEF Inv, PreserveBalanced
<1>4. StoreTypeOK' /\ EntriesAccounted'
  <2>1. CASE rm /\ Matches(k) # {}
    <3> DEFINE o == Lookup(k)
    <3>1. /\ FirstMatch(k) \in DOMAIN obj_root
          /\ o = obj_root[FirstMatch(k)]
          /\ o \in Range(obj_root)
      BY <2>1, LookupPublished DEF Inv, TypeOK
    <3>2. o \in Addr /\ o \notin Range(obj_gc_pool)
      BY <3>1 DEF Inv, EntriesAccounted, Allocated
    <3>3. /\ obj_root' = RemoveAt(obj_root, FirstMatch(k))
          /\ obj_gc_pool' = <<o>> \o obj_gc_pool
      BY <2>1 DEF obj_get, Unlink
    <3> HIDE DEF o
    <3>4. /\ obj_root' \in Seq(Addr)
          /\ Range(obj_root') = Range(obj_root) \ {o}
          /\ IsInjective(obj_root')
      BY <3>1, <3>3, UnlinkList DEF Inv, TypeOK, EntriesAccounted
    <3>5. /\ obj_gc_pool' \in Seq(Addr)
          /\ Range(obj_gc_pool') = Range(obj_gc_pool) \cup {o}
          /\ IsInjective(obj_gc_pool')
      BY <3>2, <3>3, PrependList DEF Inv, TypeOK, EntriesAccounted
    <3>6. StoreTypeOK'
      BY <1>1, <3>4, <3>5 DEF Inv, TypeOK, StoreTypeOK
    <3>7. EntriesAccounted'
      BY <1>1, <3>1, <3>4, <3>5 DEF Inv, EntriesAccounted
    <3> QED BY <3>6, <3>7
  <2>2. CASE ~ (rm /\ Matches(k) # {})
    <3>1. UNCHANGED <<obj_root, obj_gc_pool>>
      BY <2>2 DEF obj_get
    <3> QED BY <1>1, <3>1 DEF Inv, TypeOK, StoreTypeOK, EntriesAccounted
  <2> QED BY <2>1, <2>2
<1> QED BY <1>1, <1>2, <1>3, <1>4

(* Nothing the invariant speaks of changes. *)
LEMMA StoreUnchanged ==
  ASSUME Inv, UNCHANGED <<entry, obj_root, obj_gc_pool, precious>>
  PROVE  /\ StoreTypeOK' /\ EntriesAccounted' /\ PreserveBalanced'
         /\ Allocated' = Allocated
  BY DEF Inv, TypeOK, StoreTypeOK, EntriesAccounted, PreserveBalanced, Holders, Allocated

(* The heap is empty at the start. *)
LEMMA InitInv == Init => Inv
<1> SUFFICES ASSUME Init PROVE Inv
  OBVIOUS
<1>1. TypeOK
  BY DEF Init, TypeOK, Main
<1>2. EntriesAccounted
  BY DEF Init, EntriesAccounted, IsInjective, Range, Allocated
<1>3. ASSUME NEW x \in RObj \ {NilValue} PROVE precious[x] = Cardinality(Holders(x))
  <2>1. Holders(x) = {} BY DEF Init, Holders, Allocated
  <2>2. Cardinality({}) = 0 BY FS_EmptySet
  <2> QED BY <2>1, <2>2 DEF Init
<1>4. MainEntryValid
  BY DEF Init, MainEntryValid
<1> QED BY <1>1, <1>2, <1>3, <1>4 DEF Inv, PreserveBalanced

(* One lemma per group of steps: the R session ... *)
LEMMA MainKeepsInv == Inv /\ MainNext => Inv'
<1> SUFFICES ASSUME Inv, MainNext PROVE Inv'
  OBVIOUS
<1>1. ASSUME NEW k \in Key, NEW x \in RObj, NEW sfs \in BOOLEAN, C_put(k, x, sfs)
      PROVE  Inv'
  <2>1. StoreTypeOK' /\ EntriesAccounted' /\ PreserveBalanced'
    BY <1>1, ObjAddKeeps DEF C_put
  <2>2. main' = [main EXCEPT !.pc = "idle"] /\ UNCHANGED <<malloced, serving>>
    BY <1>1 DEF C_put
  <2>3. TypeOK' /\ MainEntryValid'
    BY <2>1, <2>2 DEF Inv, TypeOK, StoreTypeOK, Main, MainEntryValid
  <2> QED BY <2>1, <2>3 DEF Inv
<1>2. ASSUME NEW k \in Key, NEW rm \in BOOLEAN, C_get(k, rm) PROVE Inv'
  <2>1. /\ StoreTypeOK' /\ EntriesAccounted' /\ PreserveBalanced'
        /\ Allocated' = Allocated
        /\ Lookup(k) \in Allocated \cup {NULL}
    BY <1>2, ObjGetKeeps DEF C_get
  <2>2. /\ main' = [pc |-> "got", o |-> Lookup(k), rm |-> rm]
        /\ UNCHANGED <<malloced, serving>>
    BY <1>2 DEF C_get
  <2>3. Lookup(k) \in Addr \cup {NULL}
    BY <2>1 DEF Allocated
  <2>4. TypeOK'
    BY <2>1, <2>2, <2>3 DEF Inv, TypeOK, StoreTypeOK, Main
  <2>5. MainEntryValid'
    BY <2>1, <2>2 DEF MainEntryValid
  <2> QED BY <2>1, <2>4, <2>5 DEF Inv
<1>3. ASSUME C_get_return \/ C_get_error \/ C_clean \/ obj_gc_end PROVE Inv'
  <2>1. UNCHANGED <<entry, obj_root, obj_gc_pool, precious, malloced, serving>>
    BY <1>3 DEF C_get_return, C_get_error, C_clean, obj_gc_end
  <2>2. StoreTypeOK' /\ EntriesAccounted' /\ PreserveBalanced'
    BY <2>1, StoreUnchanged
  <2>3. main' \in Main /\ main'.pc # "got"
    <3>1. CASE C_get_return BY <3>1 DEF C_get_return, GetDone, Main
    <3>2. CASE C_clean BY <3>2 DEF C_clean, Main
    <3>3. CASE C_get_error BY <3>3 DEF C_get_error, Inv, TypeOK, Main
    <3>4. CASE obj_gc_end BY <3>4 DEF obj_gc_end, Inv, TypeOK, Main
    <3> QED BY <1>3, <3>1, <3>2, <3>3, <3>4
  <2>4. TypeOK' /\ MainEntryValid'
    BY <2>1, <2>2, <2>3 DEF Inv, TypeOK, StoreTypeOK, MainEntryValid
  <2> QED BY <2>2, <2>4 DEF Inv
<1>4. ASSUME NEW x \in RObj, C_get_materialise(x) PROVE Inv'
  <2>1. main' \in Main /\ main'.pc # "got"
    BY <1>4 DEF C_get_materialise, GetDone, Main
  <2>2. MainEntryValid'
    BY <2>1 DEF MainEntryValid
  <2>3. CASE main.rm
    <3>1. UNCHANGED <<entry, obj_root, obj_gc_pool, precious, malloced, serving>>
      BY <1>4, <2>3 DEF C_get_materialise
    <3>2. StoreTypeOK' /\ EntriesAccounted' /\ PreserveBalanced'
      BY <3>1, StoreUnchanged
    <3> QED BY <2>1, <2>2, <3>1, <3>2 DEF Inv, TypeOK, StoreTypeOK
  <2>4. CASE ~ main.rm
    <3> DEFINE o == main.o
    <3>1. /\ o \in Allocated
          /\ o \in Addr
          /\ entry[o] \in Entry
          /\ entry[o].sWhat = NULL
          /\ entry' = [entry EXCEPT ![o].sWhat = x]
          /\ IF x # NilValue THEN R_PreserveObject(x) ELSE UNCHANGED precious
          /\ UNCHANGED <<obj_root, obj_gc_pool, malloced, serving>>
      BY <1>4, <2>4 DEF C_get_materialise, Inv, MainEntryValid, Allocated, TypeOK
    <3> HIDE DEF o
    <3>2. entry'[o] \in Entry /\ entry'[o].sWhat = x /\ entry'[o] # NULL
      BY <3>1, NullIsNoEntry DEF Entry, Inv, TypeOK
    <3>3. Allocated' = Allocated
      BY <3>1, <3>2 DEF Allocated, Inv, TypeOK
    <3>4. TypeOK'
      <4>1. entry' \in [Addr -> Entry \cup {NULL}]
        BY <3>1, <3>2 DEF Inv, TypeOK
      <4>2. precious' \in [RObj -> Nat]
        BY <3>1 DEF Inv, TypeOK, R_PreserveObject
      <4> QED BY <2>1, <3>1, <4>1, <4>2 DEF Inv, TypeOK
    <3>5. EntriesAccounted'
      BY <3>1, <3>3 DEF Inv, EntriesAccounted
    <3>6. ASSUME NEW y \in RObj \ {NilValue}
          PROVE  precious'[y] = Cardinality(Holders(y)')
      <4>1. precious[y] = Cardinality(Holders(y)) /\ precious \in [RObj -> Nat]
        BY DEF Inv, TypeOK, PreserveBalanced
      <4>2. o \notin Holders(y)
        BY <3>1, ObjStoreAssumption DEF Holders
      <4>3. CASE x = y
        <5>1. Holders(y)' = Holders(y) \cup {o}
          BY <3>1, <3>2, <3>3, <4>3 DEF Holders, Allocated, Inv, TypeOK
        <5>2. Cardinality(Holders(y) \cup {o}) = Cardinality(Holders(y)) + 1
          BY <4>2, HoldersFinite, FS_AddElement
        <5>3. precious'[y] = precious[y] + 1
          BY <3>1, <4>1, <4>3 DEF R_PreserveObject
        <5> QED BY <4>1, <5>1, <5>2, <5>3
      <4>4. CASE x # y
        <5>1. Holders(y)' = Holders(y)
          BY <3>1, <3>2, <3>3, <4>2, <4>4 DEF Holders, Allocated, Inv, TypeOK
        <5>2. precious'[y] = precious[y]
          BY <3>1, <4>1, <4>4 DEF R_PreserveObject
        <5> QED BY <4>1, <5>1, <5>2
      <4> QED BY <4>3, <4>4
    <3> QED BY <2>2, <3>4, <3>5, <3>6 DEF Inv, PreserveBalanced
  <2> QED BY <2>3, <2>4
<1>5. ASSUME obj_gc_step PROVE Inv'
  <2> DEFINE c == Head(obj_gc_pool)
             x == entry[c].sWhat
  <2>1. /\ c \in Addr
        /\ c \in Range(obj_gc_pool)
        /\ obj_gc_pool' \in Seq(Addr)
        /\ Range(obj_gc_pool') = Range(obj_gc_pool) \ {c}
        /\ IsInjective(obj_gc_pool')
    BY <1>5, TailList DEF obj_gc_step, Inv, TypeOK, EntriesAccounted
  <2>2. /\ entry' = [entry EXCEPT ![c] = NULL]
        /\ IF x # NULL THEN R_ReleaseObject(x) ELSE UNCHANGED precious
        /\ UNCHANGED <<obj_root, malloced, serving, main>>
        /\ main.pc = "gc"
    BY <1>5 DEF obj_gc_step
  <2> HIDE DEF c
  <2>3. c \in Allocated /\ entry[c] \in Entry /\ x \in RObj \cup {NULL}
    BY <2>1 DEF Inv, EntriesAccounted, TypeOK, Allocated, Entry
  <2>4. Allocated' = Allocated \ {c}
    BY <2>1, <2>2 DEF Allocated, Inv, TypeOK
  <2>5. TypeOK'
    <3>1. precious' \in [RObj -> Nat]
      <4>1. precious \in [RObj -> Nat] BY DEF Inv, TypeOK
      <4>2. CASE x = NULL BY <2>2, <4>1, <4>2
      <4>3. CASE x # NULL
        <5>1. precious' = [precious EXCEPT ![x] = IF @ > 0 THEN @ - 1 ELSE 0]
          BY <2>2, <4>3 DEF R_ReleaseObject
        <5>2. precious[x] \in Nat BY <2>3, <4>1, <4>3
        <5>3. (IF precious[x] > 0 THEN precious[x] - 1 ELSE 0) \in Nat BY <5>2
        <5> QED BY <4>1, <5>1, <5>3
      <4> QED BY <4>2, <4>3
    <3> QED BY <2>1, <2>2, <3>1 DEF Inv, TypeOK
  <2>6. EntriesAccounted'
    BY <2>1, <2>2, <2>4 DEF Inv, EntriesAccounted
  <2>7. ASSUME NEW y \in RObj \ {NilValue}
        PROVE  precious'[y] = Cardinality(Holders(y)')
    <3>1. precious[y] = Cardinality(Holders(y)) /\ precious \in [RObj -> Nat]
      BY DEF Inv, TypeOK, PreserveBalanced
    <3>2. Holders(y)' = Holders(y) \ {c}
      BY <2>1, <2>2, <2>4 DEF Holders, Allocated, Inv, TypeOK
    <3>3. CASE x = y
      <4>1. c \in Holders(y)
        BY <2>3, <3>3 DEF Holders
      <4>2. Cardinality(Holders(y) \ {c}) = Cardinality(Holders(y)) - 1
        BY <4>1, HoldersFinite, FS_RemoveElement
      <4>3. Cardinality(Holders(y)) # 0
        BY <4>1, HoldersFinite, FS_EmptySet
      <4>4. precious'[y] = IF precious[y] > 0 THEN precious[y] - 1 ELSE 0
        BY <2>2, <3>1, <3>3, ObjStoreAssumption DEF R_ReleaseObject
      <4> QED BY <3>1, <3>2, <4>2, <4>3, <4>4, HoldersFinite
    <3>4. CASE x # y
      <4>1. Holders(y)' = Holders(y)
        BY <3>2, <3>4 DEF Holders
      <4>2. precious'[y] = precious[y]
        BY <2>2, <3>1, <3>4 DEF R_ReleaseObject
      <4> QED BY <3>1, <4>1, <4>2
    <3> QED BY <3>3, <3>4
  <2>8. MainEntryValid'
    BY <2>2 DEF MainEntryValid
  <2> QED BY <2>5, <2>6, <2>7, <2>8 DEF Inv, PreserveBalanced
<1> QED BY <1>1, <1>2, <1>3, <1>4, <1>5 DEF MainNext

(* ... and the workers. *)
LEMMA WorkerKeepsInv == ASSUME NEW w \in Worker PROVE Inv /\ WorkerNext(w) => Inv'
<1> SUFFICES ASSUME Inv, WorkerNext(w) PROVE Inv'
  OBVIOUS
<1>1. ASSUME NEW k \in Key, WorkerGet(w, k) \/ WorkerDel(w, k) PROVE Inv'
  <2>1. UNCHANGED <<precious, malloced, main>>
    BY <1>1 DEF WorkerGet, WorkerDel
  <2>2. /\ StoreTypeOK' /\ EntriesAccounted' /\ PreserveBalanced'
        /\ Allocated' = Allocated
        /\ Lookup(k) \in Allocated \cup {NULL}
    BY <1>1, <2>1, ObjGetKeeps DEF WorkerGet, WorkerDel
  <2>3. Lookup(k) \in Addr \cup {NULL}
    BY <2>2 DEF Allocated
  <2>4. serving' \in [Worker -> Addr \cup {NULL}]
    BY <1>1, <2>3 DEF WorkerGet, WorkerDel, Inv, TypeOK
  <2>5. TypeOK' /\ MainEntryValid'
    BY <2>1, <2>2, <2>4 DEF Inv, TypeOK, StoreTypeOK, MainEntryValid
  <2> QED BY <2>2, <2>5 DEF Inv
<1>2. ASSUME NEW k \in Key, NEW b \in Buf,
             WorkerPut(w, k, b) \/ WorkerPutEmpty(w, k)
      PROVE  Inv'
  <2>1. UNCHANGED <<serving, main>> /\ malloced' \in SUBSET Buf
    BY <1>2 DEF WorkerPut, WorkerPutEmpty, Inv, TypeOK
  <2>2. /\ StoreTypeOK' /\ EntriesAccounted' /\ PreserveBalanced'
        /\ Allocated \subseteq Allocated'
    BY <1>2, ObjAddKeeps DEF WorkerPut, WorkerPutEmpty
  <2>3. TypeOK' /\ MainEntryValid'
    BY <2>1, <2>2 DEF Inv, TypeOK, StoreTypeOK, MainEntryValid
  <2> QED BY <2>2, <2>3 DEF Inv
<1>3. ASSUME NEW k \in Key, WorkerPutEmpty(w, k) PROVE Inv'
  <2>1. UNCHANGED <<serving, main, malloced>>
    BY <1>3 DEF WorkerPutEmpty
  <2>2. /\ StoreTypeOK' /\ EntriesAccounted' /\ PreserveBalanced'
        /\ Allocated \subseteq Allocated'
    BY <1>3, ObjAddKeeps DEF WorkerPutEmpty
  <2>3. TypeOK' /\ MainEntryValid'
    BY <2>1, <2>2 DEF Inv, TypeOK, StoreTypeOK, MainEntryValid
  <2> QED BY <2>2, <2>3 DEF Inv
<1>4. ASSUME WorkerSent(w) PROVE Inv'
  <2>1. UNCHANGED <<entry, obj_root, obj_gc_pool, precious, malloced, main>>
    BY <1>4 DEF WorkerSent
  <2>2. /\ StoreTypeOK' /\ EntriesAccounted' /\ PreserveBalanced'
        /\ Allocated' = Allocated
    BY <2>1, StoreUnchanged
  <2>3. serving' \in [Worker -> Addr \cup {NULL}]
    BY <1>4 DEF WorkerSent, Inv, TypeOK
  <2>4. TypeOK' /\ MainEntryValid'
    BY <2>1, <2>2, <2>3 DEF Inv, TypeOK, StoreTypeOK, MainEntryValid
  <2> QED BY <2>2, <2>4 DEF Inv
<1> QED BY <1>1, <1>2, <1>3, <1>4 DEF WorkerNext

(* Every step of the R session or of a worker keeps the invariant. *)
LEMMA NextKeepsInv == Inv /\ [Next]_vars => Inv'
<1> SUFFICES ASSUME Inv, [Next]_vars PROVE Inv'
  OBVIOUS
<1>1. CASE Next
  BY <1>1, MainKeepsInv, WorkerKeepsInv DEF Next
<1>2. CASE UNCHANGED vars
  <2>1. UNCHANGED <<entry, obj_root, obj_gc_pool, precious, malloced, serving, main>>
    BY <1>2 DEF vars
  <2>2. /\ StoreTypeOK' /\ EntriesAccounted' /\ PreserveBalanced'
        /\ Allocated' = Allocated
    BY <2>1, StoreUnchanged
  <2>3. TypeOK' /\ MainEntryValid'
    BY <2>1, <2>2 DEF Inv, TypeOK, MainEntryValid
  <2> QED BY <2>2, <2>3 DEF Inv
<1> QED BY <1>1, <1>2

(* The inductive invariant holds in every behaviour of the store. *)
THEOREM InvHolds == Spec => []Inv
  BY InitInv, NextKeepsInv, PTL DEF Spec

(* Type correctness of the store (obj.c, robj.c) for any number of keys,
   workers, entries and buffers. *)
THEOREM TypeCorrect == Spec => []TypeOK
<1>1. Inv => TypeOK BY DEF Inv
<1> QED BY <1>1, InvHolds, PTL

(* obj_get and obj_gc lose no entry and free none twice: at every moment the
   two lists of obj.c partition the allocated entries. *)
THEOREM EntriesAlwaysAccounted == Spec => []EntriesAccounted
<1>1. Inv => EntriesAccounted BY DEF Inv
<1> QED BY <1>1, InvHolds, PTL

(* The calls of R_PreserveObject in obj_add and C_get and of R_ReleaseObject
   in obj_gc balance: an R object is protected exactly as often as entries
   point at it. *)
THEOREM PreserveAlwaysBalanced == Spec => []PreserveBalanced
<1>1. Inv => PreserveBalanced BY DEF Inv
<1> QED BY <1>1, InvHolds, PTL

(* C_get never touches a freed entry, although it uses its entry after
   obj_mutex is released. *)
THEOREM MainEntryAlwaysValid == Spec => []MainEntryValid
<1>1. Inv => MainEntryValid BY DEF Inv
<1> QED BY <1>1, InvHolds, PTL

(* What a step does to the heap: nothing, an entry at a free address, the R
   object of an entry that had none, or an entry freed. *)
LEMMA HeapStep ==
  ASSUME Inv, [Next]_vars
  PROVE  \/ entry' = entry
         \/ \E a \in Addr \ Allocated, e \in Entry : entry' = [entry EXCEPT ![a] = e]
         \/ \E a \in Allocated, x \in RObj :
              entry[a].sWhat = NULL /\ entry' = [entry EXCEPT ![a].sWhat = x]
         \/ \E a \in Allocated : entry' = [entry EXCEPT ![a] = NULL]
<1>1. ASSUME NEW k \in Key, NEW x \in RObj \cup {NULL}, NEW data \in Buf \cup {RAW, NULL},
             obj_add(k, x, data)
      PROVE  \E a \in Addr \ Allocated, e \in Entry : entry' = [entry EXCEPT ![a] = e]
  <2>1. [key |-> k, sWhat |-> x, obj |-> data] \in Entry
    BY DEF Entry
  <2> QED BY <1>1, <2>1 DEF obj_add
<1>2. ASSUME NEW k \in Key, NEW x \in RObj, NEW sfs \in BOOLEAN, C_put(k, x, sfs)
      PROVE  \E a \in Addr \ Allocated, e \in Entry : entry' = [entry EXCEPT ![a] = e]
  BY <1>1, <1>2 DEF C_put
<1>3. ASSUME NEW w \in Worker, NEW k \in Key, NEW b \in Buf, WorkerPut(w, k, b)
      PROVE  \E a \in Addr \ Allocated, e \in Entry : entry' = [entry EXCEPT ![a] = e]
  BY <1>1, <1>3 DEF WorkerPut
<1>4. ASSUME NEW w \in Worker, NEW k \in Key, WorkerPutEmpty(w, k)
      PROVE  \E a \in Addr \ Allocated, e \in Entry : entry' = [entry EXCEPT ![a] = e]
  BY <1>1, <1>4 DEF WorkerPutEmpty
<1>5. ASSUME NEW x \in RObj, C_get_materialise(x)
      PROVE  \/ entry' = entry
             \/ \E a \in Allocated, y \in RObj :
                  entry[a].sWhat = NULL /\ entry' = [entry EXCEPT ![a].sWhat = y]
  BY <1>5 DEF C_get_materialise, Inv, MainEntryValid
<1>6. ASSUME obj_gc_step
      PROVE  \E a \in Allocated : entry' = [entry EXCEPT ![a] = NULL]
  <2>1. Head(obj_gc_pool) \in Range(obj_gc_pool)
    BY <1>6, TailList DEF obj_gc_step, Inv, TypeOK, EntriesAccounted
  <2>2. Head(obj_gc_pool) \in Allocated
    BY <2>1 DEF Inv, EntriesAccounted
  <2> QED BY <1>6, <2>2 DEF obj_gc_step
<1>7. ASSUME \/ \E k \in Key, rm \in BOOLEAN : C_get(k, rm)
             \/ C_get_return \/ C_get_error \/ C_clean \/ obj_gc_end
             \/ \E w \in Worker : \/ \E k \in Key : WorkerGet(w, k) \/ WorkerDel(w, k)
                                  \/ WorkerSent(w)
             \/ UNCHANGED vars
      PROVE  entry' = entry
  BY <1>7 DEF C_get, C_get_return, C_get_error, C_clean, obj_gc_end, WorkerGet,
     WorkerDel, WorkerSent, obj_get, vars
<1> QED BY <1>2, <1>3, <1>4, <1>5, <1>6, <1>7 DEF Next, MainNext, WorkerNext

(* What a worker reads through its bare pointer stays as it is while the entry
   lives: no step writes to an entry that is in use, except C_get, which fills
   in the R object of an entry that had none. *)
THEOREM PublishedNeverChanges == Spec => PublishedImmutable
<1> DEFINE A == \A a \in Addr :
                  entry[a] # NULL /\ entry'[a] # NULL =>
                    /\ entry'[a].key = entry[a].key
                    /\ entry'[a].obj = entry[a].obj
                    /\ entry[a].sWhat # NULL => entry'[a].sWhat = entry[a].sWhat
<1>1. ASSUME Inv, [Next]_vars PROVE A
  <2> SUFFICES ASSUME NEW b \in Addr, entry[b] # NULL, entry'[b] # NULL
               PROVE  /\ entry'[b].key = entry[b].key
                      /\ entry'[b].obj = entry[b].obj
                      /\ entry[b].sWhat # NULL => entry'[b].sWhat = entry[b].sWhat
    OBVIOUS
  <2>0. entry \in [Addr -> Entry \cup {NULL}] /\ entry[b] \in Entry /\ b \in Allocated
    BY <1>1 DEF Inv, TypeOK, Allocated
  <2>1. CASE entry' = entry
    BY <2>1
  <2>2. CASE \E a \in Addr \ Allocated, e \in Entry : entry' = [entry EXCEPT ![a] = e]
    BY <2>0, <2>2
  <2>3. CASE \E a \in Allocated, x \in RObj :
               entry[a].sWhat = NULL /\ entry' = [entry EXCEPT ![a].sWhat = x]
    <3>1. PICK a \in Allocated, x \in RObj :
            entry[a].sWhat = NULL /\ entry' = [entry EXCEPT ![a].sWhat = x]
      BY <2>3
    <3>2. CASE a = b BY <2>0, <3>1, <3>2 DEF Entry
    <3>3. CASE a # b BY <2>0, <3>1, <3>3
    <3> QED BY <3>2, <3>3
  <2>4. CASE \E a \in Allocated : entry' = [entry EXCEPT ![a] = NULL]
    BY <2>0, <2>4
  <2> QED BY <1>1, <2>1, <2>2, <2>3, <2>4, HeapStep
<1>2. Inv /\ [Next]_vars => [A]_vars
  BY <1>1
<1> QED BY <1>2, InvHolds, PTL DEF Spec, PublishedImmutable

-----------------------------------------------------------------------------
(* Enumerating a finite set of positions.                                  *)

(* The rank of a position is its place in the enumeration. *)
LEMMA RankType ==
  ASSUME NEW S \in SUBSET Nat, IsFiniteSet(S), NEW i \in S
  PROVE  Rank(S, i) \in 1 .. Cardinality(S)
<1> DEFINE B == {j \in S : j <= i}
<1>1. B \in SUBSET S /\ i \in B
  OBVIOUS
<1>2. IsFiniteSet(B) /\ Cardinality(B) <= Cardinality(S)
  BY <1>1, FS_Subset
<1>3. Cardinality(B) # 0
  BY <1>1, <1>2, FS_EmptySet
<1>4. Cardinality(B) \in Nat /\ Cardinality(S) \in Nat
  BY <1>2, FS_CardinalityType
<1> HIDE DEF B
<1>5. Cardinality(B) \in 1 .. Cardinality(S)
  BY <1>2, <1>3, <1>4
<1> QED BY <1>5 DEF Rank, B

(* Ranks grow with the positions. *)
LEMMA RankGrows ==
  ASSUME NEW S \in SUBSET Nat, IsFiniteSet(S), NEW i \in S, NEW j \in S, i < j
  PROVE  Rank(S, i) < Rank(S, j)
<1> DEFINE B == {n \in S : n <= i}
           C == {n \in S : n <= j}
<1>0. i \in Nat /\ j \in Nat /\ \A n \in S : n \in Nat
  OBVIOUS
<1>1. B \in SUBSET C /\ B # C /\ C \in SUBSET S
  <2>1. \A n \in S : n <= i => n <= j BY <1>0
  <2>2. j \in C /\ j \notin B BY <1>0
  <2> QED BY <2>1, <2>2
<1> HIDE DEF B, C
<1>2. IsFiniteSet(C)
  BY <1>1, FS_Subset
<1>3. IsFiniteSet(B) /\ Cardinality(B) <= Cardinality(C) /\ Cardinality(C) # Cardinality(B)
  BY <1>1, <1>2, FS_Subset
<1>4. Cardinality(B) \in Nat /\ Cardinality(C) \in Nat
  BY <1>2, <1>3, FS_CardinalityType
<1>5. Cardinality(B) < Cardinality(C)
  BY <1>3, <1>4
<1> QED BY <1>5 DEF Rank, B, C

(* Two positions have different ranks. *)
LEMMA RankInjective ==
  ASSUME NEW S \in SUBSET Nat, IsFiniteSet(S), NEW i \in S, NEW j \in S,
         Rank(S, i) = Rank(S, j)
  PROVE  i = j
<1>1. Rank(S, i) \in Int /\ Rank(S, j) \in Int
  BY RankType
<1>2. ~ (i < j)
  BY <1>1, RankGrows
<1>3. ~ (j < i)
  BY <1>1, RankGrows
<1> QED BY <1>2, <1>3

(* The enumeration meets every position once. *)
LEMMA NthOfRank ==
  ASSUME NEW S \in SUBSET Nat, IsFiniteSet(S)
  PROVE  /\ \A i \in S : Nth(S, Rank(S, i)) = i
         /\ \A n \in 1 .. Cardinality(S) : Nth(S, n) \in S /\ Rank(S, Nth(S, n)) = n
<1> DEFINE c == Cardinality(S)
           r == [i \in S |-> Rank(S, i)]
<1>1. c \in Nat /\ IsFiniteSet(1 .. c) /\ Cardinality(1 .. c) = c
  <2>1. c \in Nat BY FS_CardinalityType
  <2> HIDE DEF c
  <2>2. IsFiniteSet(1 .. c) /\ Cardinality(1 .. c) = IF 1 > c THEN 0 ELSE c - 1 + 1
    BY <2>1, FS_Interval
  <2> QED BY <2>1, <2>2
<1>2. r \in Injection(S, 1 .. c)
  <2>1. r \in [S -> 1 .. c] BY RankType
  <2>2. \A i, j \in S : r[i] = r[j] => i = j BY RankInjective
  <2> QED BY <2>1, <2>2 DEF Injection, IsInjective
<1>3. r \in Surjection(S, 1 .. c)
  BY <1>1, <1>2, FS_Injection
<1>4. ASSUME NEW n \in 1 .. c PROVE Nth(S, n) \in S /\ Rank(S, Nth(S, n)) = n
  <2>1. \E i \in S : Rank(S, i) = n
    BY <1>3 DEF Surjection
  <2> QED BY <2>1 DEF Nth
<1>5. ASSUME NEW i \in S PROVE Nth(S, Rank(S, i)) = i
  <2> DEFINE h == Nth(S, Rank(S, i))
  <2>1. Rank(S, i) \in 1 .. c BY RankType
  <2>2. h \in S /\ Rank(S, h) = Rank(S, i) BY <1>4, <2>1
  <2> HIDE DEF h
  <2>3. h = i BY <2>2, RankInjective
  <2> QED BY <2>3 DEF h
<1> QED BY <1>4, <1>5

(* Moving positions without changing their order moves the enumeration. *)
LEMMA EnumerationMoves ==
  ASSUME NEW S \in SUBSET Nat, IsFiniteSet(S), NEW T \in SUBSET Nat, NEW f \in [S -> T],
         \A t \in T : \E i \in S : f[i] = t,
         \A i, j \in S : i < j => f[i] < f[j]
  PROVE  /\ IsFiniteSet(T) /\ Cardinality(T) = Cardinality(S)
         /\ \A n \in 1 .. Cardinality(S) : Nth(S, n) \in S /\ Nth(T, n) = f[Nth(S, n)]
<1>0. \A i \in S : i \in Nat /\ f[i] \in Nat /\ f[i] \in T
  OBVIOUS
<1>1. ASSUME NEW i \in S, NEW j \in S PROVE i <= j <=> f[i] <= f[j]
  <2>1. CASE i < j BY <1>0, <2>1
  <2>2. CASE j < i BY <1>0, <2>2
  <2>3. CASE i = j BY <1>0, <2>3
  <2> QED BY <1>0, <2>1, <2>2, <2>3
<1>2. ASSUME NEW i \in S, NEW j \in S, f[i] = f[j] PROVE i = j
  <2>1. i <= j /\ j <= i BY <1>0, <1>1, <1>2
  <2> QED BY <1>0, <2>1
<1>3. IsFiniteSet(T) /\ Cardinality(T) = Cardinality(S)
  <2>1. f \in Bijection(S, T)
    BY <1>2 DEF Bijection, Injection, Surjection, IsInjective
  <2>2. ExistsBijection(S, T)
    BY <2>1 DEF ExistsBijection
  <2> QED BY <2>2, FS_Bijection
<1>4. ASSUME NEW i \in S PROVE Rank(T, f[i]) = Rank(S, i)
  <2> DEFINE B == {j \in S : j <= i}
             C == {t \in T : t <= f[i]}
             g == [j \in B |-> f[j]]
  <2>1. g \in [B -> C] /\ \A t \in C : \E j \in B : g[j] = t
    BY <1>1
  <2>2. \A j, h \in B : g[j] = g[h] => j = h
    BY <1>2
  <2>3. IsFiniteSet(B)
    BY FS_Subset
  <2>4. ExistsBijection(B, C)
    <3> HIDE DEF B, C, g
    <3>1. g \in Bijection(B, C)
      BY <2>1, <2>2 DEF Bijection, Injection, Surjection, IsInjective
    <3> QED BY <3>1 DEF ExistsBijection
  <2>5. Cardinality(C) = Cardinality(B)
    BY <2>3, <2>4, FS_Bijection
  <2> QED BY <2>5 DEF Rank
<1>5. ASSUME NEW n \in 1 .. Cardinality(S)
      PROVE  Nth(S, n) \in S /\ Nth(T, n) = f[Nth(S, n)]
  <2> DEFINE i == Nth(S, n)
  <2>1. i \in S /\ Rank(S, i) = n
    BY NthOfRank
  <2> HIDE DEF i
  <2>2. f[i] \in T /\ Rank(T, f[i]) = n
    BY <1>4, <2>1
  <2>3. Nth(T, Rank(T, f[i])) = f[i]
    BY <1>3, <2>2, NthOfRank
  <2> QED BY <2>1, <2>2, <2>3 DEF i
<1> QED BY <1>3, <1>5

(* A position before all others comes first in the enumeration and pushes the
   others back by one. *)
LEMMA EnumerationFirst ==
  ASSUME NEW S \in SUBSET Nat, IsFiniteSet(S), NEW m \in Nat, \A i \in S : m < i
  PROVE  /\ IsFiniteSet(S \cup {m}) /\ Cardinality(S \cup {m}) = Cardinality(S) + 1
         /\ Nth(S \cup {m}, 1) = m
         /\ \A n \in 1 .. Cardinality(S) : Nth(S \cup {m}, n + 1) = Nth(S, n)
<1> DEFINE T == S \cup {m}
<1>1. m \notin S /\ T \in SUBSET Nat
  OBVIOUS
<1>2. IsFiniteSet(T) /\ Cardinality(T) = Cardinality(S) + 1
  BY <1>1, FS_AddElement
<1>3. Rank(T, m) = 1
  <2>1. \A j \in T : j <= m => j = m
    OBVIOUS
  <2>2. m \in T /\ m <= m
    OBVIOUS
  <2>3. {j \in T : j <= m} = {m}
    BY <2>1, <2>2
  <2> QED BY <2>3, FS_Singleton DEF Rank
<1>4. Nth(T, 1) = m
  BY <1>1, <1>2, <1>3, NthOfRank
<1>5. ASSUME NEW n \in 1 .. Cardinality(S) PROVE Nth(T, n + 1) = Nth(S, n)
  <2> DEFINE i == Nth(S, n)
             B == {j \in S : j <= i}
  <2>1. i \in S /\ Rank(S, i) = n
    BY NthOfRank
  <2> HIDE DEF i
  <2>2. {j \in T : j <= i} = B \cup {m} /\ m \notin B
    BY <2>1
  <2>3. IsFiniteSet(B)
    BY FS_Subset
  <2>4. Cardinality(B \cup {m}) = Cardinality(B) + 1
    BY <2>2, <2>3, FS_AddElement
  <2>5. Rank(T, i) = n + 1
    BY <2>1, <2>2, <2>4 DEF Rank
  <2>6. Nth(T, Rank(T, i)) = i
    BY <1>1, <1>2, <2>1, NthOfRank
  <2> QED BY <2>5, <2>6 DEF i
<1> QED BY <1>2, <1>4, <1>5

-----------------------------------------------------------------------------
(* Stacks.                                                                 *)

(* The elements of a list at the positions S, in order. *)
StackOf(root, S) == [n \in 1 .. Cardinality(S) |-> root[Nth(S, n)]]

(* A stack depends on the list and the matching positions only. *)
LEMMA StackIsStackOf ==
  /\ \A k : Stack(k) = StackOf(obj_root, Matches(k))
  /\ \A k : Stack(k)' = StackOf(obj_root', Matches(k)')
  BY DEF Stack, StackOf

(* A stack has an element per position, each from the list. *)
LEMMA StackOfType ==
  ASSUME NEW root \in Seq(Addr), NEW S \in SUBSET DOMAIN root
  PROVE  /\ S \in SUBSET Nat /\ IsFiniteSet(S) /\ Cardinality(S) \in Nat
         /\ StackOf(root, S) \in Seq(Addr)
         /\ Len(StackOf(root, S)) = Cardinality(S)
         /\ \A n \in 1 .. Cardinality(S) : StackOf(root, S)[n] = root[Nth(S, n)]
         /\ \A n \in DOMAIN StackOf(root, S) : StackOf(root, S)[n] \in Range(root)
<1> DEFINE c == Cardinality(S)
           t == StackOf(root, S)
<1>1. DOMAIN root = 1 .. Len(root) /\ Len(root) \in Nat
  OBVIOUS
<1>2. S \in SUBSET Nat /\ IsFiniteSet(S) /\ c \in Nat
  <2>1. IsFiniteSet(1 .. Len(root)) BY <1>1, FS_Interval
  <2>2. IsFiniteSet(S) BY <1>1, <2>1, FS_Subset
  <2> QED BY <1>1, <2>2, FS_CardinalityType
<1> HIDE DEF c
<1>3. \A n \in 1 .. c : Nth(S, n) \in S
  BY <1>2, NthOfRank DEF c
<1>4. \A n \in 1 .. c : root[Nth(S, n)] \in Addr /\ root[Nth(S, n)] \in Range(root)
  BY <1>3 DEF Range
<1>5. t = [n \in 1 .. c |-> root[Nth(S, n)]]
  BY DEF StackOf, c
<1> HIDE DEF t
<1>6. t \in Seq(Addr) /\ Len(t) = c /\ DOMAIN t = 1 .. c
  BY <1>2, <1>4, <1>5
<1>7. \A n \in 1 .. c : t[n] = root[Nth(S, n)]
  BY <1>5
<1> QED BY <1>2, <1>4, <1>6, <1>7 DEF c, t

(* f moves the elements of root at S to the positions T of root2 and keeps
   their order. *)
Moves(f, root, S, root2, T) ==
  /\ root \in Seq(Addr) /\ S \in SUBSET DOMAIN root
  /\ root2 \in Seq(Addr) /\ T \in SUBSET DOMAIN root2
  /\ f \in [S -> T]
  /\ \A t \in T : \E i \in S : f[i] = t
  /\ \A i, j \in S : i < j => f[i] < f[j]
  /\ \A i \in S : root2[f[i]] = root[i]

(* Moving the elements of a stack without changing their order does not show. *)
LEMMA StackMoves ==
  ASSUME NEW f, NEW root, NEW S, NEW root2, NEW T, Moves(f, root, S, root2, T)
  PROVE  StackOf(root2, T) = StackOf(root, S)
<1> USE DEF Moves
<1>1. S \in SUBSET Nat /\ T \in SUBSET Nat /\ IsFiniteSet(S)
  BY StackOfType
<1>2. /\ Cardinality(T) = Cardinality(S)
      /\ \A n \in 1 .. Cardinality(S) : Nth(S, n) \in S /\ Nth(T, n) = f[Nth(S, n)]
  BY <1>1, EnumerationMoves
<1>3. \A n \in 1 .. Cardinality(S) : root2[Nth(T, n)] = root[Nth(S, n)]
  BY <1>2
<1> QED BY <1>2, <1>3 DEF StackOf

(* A position before all others of its stack is the top of the stack. *)
LEMMA StackTop ==
  ASSUME NEW root \in Seq(Addr), NEW S \in SUBSET DOMAIN root,
         NEW m \in DOMAIN root, \A i \in S : m < i
  PROVE  StackOf(root, S \cup {m}) = <<root[m]>> \o StackOf(root, S)
<1> DEFINE T == S \cup {m}
           c == Cardinality(S)
           s == StackOf(root, S)
           t == StackOf(root, T)
           u == <<root[m]>> \o s
<1>1. S \in SUBSET Nat /\ IsFiniteSet(S) /\ c \in Nat /\ m \in Nat /\ T \in SUBSET DOMAIN root
  BY StackOfType
<1>2. /\ Cardinality(T) = c + 1
      /\ Nth(T, 1) = m
      /\ \A n \in 1 .. c : Nth(T, n + 1) = Nth(S, n)
  BY <1>1, EnumerationFirst
<1>3. s \in Seq(Addr) /\ Len(s) = c /\ \A n \in 1 .. c : s[n] = root[Nth(S, n)]
  BY StackOfType
<1>4. t \in Seq(Addr) /\ Len(t) = Cardinality(T) /\ \A n \in 1 .. Cardinality(T) : t[n] = root[Nth(T, n)]
  BY <1>1, StackOfType
<1>5. root[m] \in Addr
  OBVIOUS
<1> HIDE DEF s, t, c, T
<1>6. u \in Seq(Addr) /\ Len(u) = c + 1 /\ u[1] = root[m] /\ \A n \in 2 .. c + 1 : u[n] = s[n - 1]
  BY <1>1, <1>3, <1>5
<1> HIDE DEF u
<1>7. ASSUME NEW n \in 1 .. c + 1 PROVE t[n] = u[n]
  <2>1. t[n] = root[Nth(T, n)] BY <1>2, <1>4
  <2>2. CASE n = 1 BY <1>2, <1>6, <2>1, <2>2
  <2>3. CASE n # 1
    <3>1. n - 1 \in 1 .. c /\ n \in 2 .. c + 1 /\ n = (n - 1) + 1 BY <1>1, <2>3
    <3>2. Nth(T, n) = Nth(S, n - 1) BY <1>2, <3>1
    <3> QED BY <1>3, <1>6, <2>1, <3>1, <3>2
  <2> QED BY <2>2, <2>3
<1>8. t = u
  BY <1>1, <1>2, <1>4, <1>6, <1>7, SeqEqual
<1> QED BY <1>8 DEF t, u, s, T

(* Prepending an entry to the list moves every stack by one position. *)
LEMMA StackShifts ==
  ASSUME NEW root \in Seq(Addr), NEW S \in SUBSET DOMAIN root, NEW a \in Addr
  PROVE  /\ {i + 1 : i \in S} \in SUBSET DOMAIN (<<a>> \o root)
         /\ StackOf(<<a>> \o root, {i + 1 : i \in S}) = StackOf(root, S)
<1> DEFINE r == <<a>> \o root
           T == {i + 1 : i \in S}
           f == [i \in S |-> i + 1]
<1>1. /\ DOMAIN root = 1 .. Len(root) /\ Len(root) \in Nat
      /\ r \in Seq(Addr) /\ Len(r) = Len(root) + 1 /\ DOMAIN r = 1 .. Len(r)
      /\ \A i \in 1 .. Len(root) : r[i + 1] = root[i]
  OBVIOUS
<1> HIDE DEF r
<1>2. T \in SUBSET DOMAIN r
  BY <1>1
<1>3. f \in [S -> T] /\ \A i \in S : f[i] = i + 1
  OBVIOUS
<1>4. \A t \in T : \E i \in S : f[i] = t
  OBVIOUS
<1> HIDE DEF f, T
<1>5. \A i, j \in S : i < j => f[i] < f[j]
  BY <1>1, <1>3
<1>6. \A i \in S : r[f[i]] = root[i]
  BY <1>1, <1>3
<1>7. Moves(f, root, S, r, T)
  BY <1>1, <1>2, <1>3, <1>4, <1>5, <1>6 DEF Moves
<1>8. StackOf(r, T) = StackOf(root, S)
  BY <1>7, StackMoves
<1> QED BY <1>2, <1>8 DEF r, T

(* Unlinking an entry closes the gap in every stack that it is not in. *)
LEMMA StackCloses ==
  ASSUME NEW root \in Seq(Addr), NEW m \in DOMAIN root,
         NEW S \in SUBSET DOMAIN root, m \notin S,
         NEW T \in SUBSET DOMAIN RemoveAt(root, m),
         \A i \in DOMAIN RemoveAt(root, m) : i \in T <=> (IF i < m THEN i ELSE i + 1) \in S
  PROVE  StackOf(RemoveAt(root, m), T) = StackOf(root, S)
<1> DEFINE r == RemoveAt(root, m)
           n == Len(root)
           f == [i \in S |-> IF i < m THEN i ELSE i - 1]
<1>1. /\ DOMAIN root = 1 .. n /\ n \in Nat /\ m \in 1 .. n
      /\ r \in Seq(Addr) /\ Len(r) = n - 1
      /\ \A j \in 1 .. n - 1 : r[j] = IF j < m THEN root[j] ELSE root[j + 1]
  BY UnlinkElements
<1> HIDE DEF r, n
<1>2. DOMAIN r = 1 .. n - 1
  BY <1>1
<1>3. \A i \in S : i \in 1 .. n /\ i # m
  BY <1>1
<1>4. \A i \in S : f[i] = IF i < m THEN i ELSE i - 1
  OBVIOUS
<1>5. ASSUME NEW i \in S PROVE f[i] \in 1 .. n - 1 /\ f[i] \in T /\ r[f[i]] = root[i]
  <2>0. i \in 1 .. n /\ i # m BY <1>3
  <2>1. CASE i < m
    <3>1. f[i] = i /\ f[i] \in 1 .. n - 1 BY <1>1, <1>4, <2>0, <2>1
    <3> HIDE DEF f
    <3>2. f[i] \in T BY <1>2, <2>1, <3>1 DEF r
    <3> QED BY <1>1, <2>1, <3>1, <3>2
  <2>2. CASE ~ (i < m)
    <3>1. f[i] = i - 1 /\ f[i] \in 1 .. n - 1 /\ ~ (f[i] < m) /\ f[i] + 1 = i
      BY <1>1, <1>4, <2>0, <2>2
    <3> HIDE DEF f
    <3>2. f[i] \in T BY <1>2, <3>1 DEF r
    <3>3. r[f[i]] = root[f[i] + 1] BY <1>1, <3>1
    <3> QED BY <3>1, <3>2, <3>3
  <2> QED BY <2>1, <2>2
<1>6. f \in [S -> T]
  BY <1>4, <1>5
<1> HIDE DEF f
<1>7. ASSUME NEW t \in T PROVE \E i \in S : f[i] = t
  <2>0. t \in 1 .. n - 1 /\ (IF t < m THEN t ELSE t + 1) \in S
    BY <1>2 DEF r
  <2>1. CASE t < m BY <1>4, <2>0, <2>1
  <2>2. CASE ~ (t < m)
    <3>1. t + 1 \in S /\ ~ (t + 1 < m) BY <1>1, <2>0, <2>2
    <3>2. f[t + 1] = t BY <1>1, <1>4, <2>0, <3>1
    <3> QED BY <3>1, <3>2
  <2> QED BY <2>1, <2>2
<1>8. \A i, j \in S : i < j => f[i] < f[j]
  BY <1>1, <1>3, <1>4
<1>9. T \in SUBSET DOMAIN r
  BY DEF r
<1>10. \A i \in S : r[f[i]] = root[i]
  BY <1>5
<1>11. \A t \in T : \E i \in S : f[i] = t
  BY <1>7
<1>12. r \in Seq(Addr)
  BY <1>1
<1>13. Moves(f, root, S, r, T)
  BY <1>6, <1>8, <1>9, <1>10, <1>11, <1>12 DEF Moves
<1>14. StackOf(r, T) = StackOf(root, S)
  BY <1>13, StackMoves
<1> QED BY <1>14 DEF r

-----------------------------------------------------------------------------
(* What the operations of obj.c do to the stacks.                          *)

(* The elements of a stack are allocated entries. *)
LEMMA StackType ==
  ASSUME Inv, NEW k \in Key
  PROVE  /\ obj_root \in Seq(Addr) /\ Matches(k) \in SUBSET DOMAIN obj_root
         /\ Stack(k) \in Seq(Addr)
         /\ \A n \in DOMAIN Stack(k) : Stack(k)[n] \in Allocated
<1>1. obj_root \in Seq(Addr) /\ Matches(k) \in SUBSET DOMAIN obj_root
  BY DEF Inv, TypeOK, Matches
<1>2. Range(obj_root) \subseteq Allocated
  BY DEF Inv, EntriesAccounted
<1> QED BY <1>1, <1>2, StackOfType, StackIsStackOf

(* The walk of obj_get_ finds the top of the stack. *)
LEMMA LookupIsTop ==
  ASSUME Inv, NEW k \in Key
  PROVE  /\ Matches(k) = {} => Stack(k) = <<>>
         /\ Matches(k) # {} =>
              /\ FirstMatch(k) \in Matches(k)
              /\ \A i \in Matches(k) \ {FirstMatch(k)} : FirstMatch(k) < i
              /\ Stack(k) = <<Lookup(k)>> \o StackOf(obj_root, Matches(k) \ {FirstMatch(k)})
<1>0. /\ obj_root \in Seq(Addr) /\ Matches(k) \in SUBSET DOMAIN obj_root
      /\ DOMAIN obj_root \subseteq Nat
  BY StackType
<1>1. ASSUME Matches(k) = {} PROVE Stack(k) = <<>>
  <2>1. Len(StackOf(obj_root, Matches(k))) = 0 /\ StackOf(obj_root, Matches(k)) \in Seq(Addr)
    BY <1>0, <1>1, StackOfType, FS_EmptySet
  <2> QED BY <2>1, StackIsStackOf
<1>2. ASSUME Matches(k) # {}
      PROVE  /\ FirstMatch(k) \in Matches(k)
             /\ \A i \in Matches(k) \ {FirstMatch(k)} : FirstMatch(k) < i
             /\ Stack(k) = <<Lookup(k)>> \o StackOf(obj_root, Matches(k) \ {FirstMatch(k)})
  <2> DEFINE m == FirstMatch(k)
             S == Matches(k) \ {m}
  <2>1. \E i \in Matches(k) : \A j \in Matches(k) : i <= j
    BY <1>0, <1>2, LeastElement
  <2>2. m \in Matches(k) /\ \A j \in Matches(k) : m <= j
    BY <2>1 DEF FirstMatch
  <2> HIDE DEF m
  <2>3. m \in DOMAIN obj_root /\ S \in SUBSET DOMAIN obj_root /\ \A i \in S : m < i
    BY <1>0, <2>2
  <2>4. S \cup {m} = Matches(k)
    BY <2>2
  <2> HIDE DEF S
  <2>5. StackOf(obj_root, S \cup {m}) = <<obj_root[m]>> \o StackOf(obj_root, S)
    BY <1>0, <2>3, StackTop
  <2>6. Lookup(k) = obj_root[m]
    BY <1>2 DEF Lookup, m
  <2>7. Stack(k) = <<Lookup(k)>> \o StackOf(obj_root, S)
    BY <2>4, <2>5, <2>6, StackIsStackOf
  <2> QED BY <2>2, <2>3, <2>7 DEF S, m
<1> QED BY <1>1, <1>2

(* obj_add pushes a fresh value. *)
LEMMA AddPushes ==
  ASSUME Inv,
         NEW k \in Key, NEW x \in RObj \cup {NULL}, NEW data \in Buf \cup {RAW, NULL},
         obj_add(k, x, data)
  PROVE  \E a \in Addr :
           /\ \A l \in Key : \A i \in DOMAIN Stack(l) : Stack(l)[i] # a
           /\ Stack(k)' = <<a>> \o Stack(k)
           /\ \A l \in Key : l # k => Stack(l)' = Stack(l)
<1> DEFINE ent == [key |-> k, sWhat |-> x, obj |-> data]
<1>1. PICK a \in Addr \ Allocated : /\ entry' = [entry EXCEPT ![a] = ent]
                                    /\ obj_root' = <<a>> \o obj_root
  BY DEF obj_add
<1>2. /\ obj_root \in Seq(Addr) /\ Len(obj_root) \in Nat /\ DOMAIN obj_root = 1 .. Len(obj_root)
      /\ entry \in [Addr -> Entry \cup {NULL}]
  BY DEF Inv, TypeOK
<1>3. /\ obj_root' \in Seq(Addr) /\ Len(obj_root') = Len(obj_root) + 1
      /\ DOMAIN obj_root' = 1 .. Len(obj_root) + 1
      /\ obj_root'[1] = a
      /\ \A i \in 1 .. Len(obj_root) : obj_root'[i + 1] = obj_root[i]
  BY <1>1, <1>2
<1>4. entry'[a].key = k
  BY <1>1, <1>2
<1>5. \A i \in 1 .. Len(obj_root) : entry'[obj_root[i]] = entry[obj_root[i]]
  <2>1. \A i \in 1 .. Len(obj_root) : obj_root[i] \in Allocated /\ obj_root[i] \in Addr
    BY <1>2 DEF Inv, EntriesAccounted, Range
  <2> QED BY <1>1, <1>2, <2>1
<1>6. ASSUME NEW l \in Key
      PROVE  Matches(l)' = {i + 1 : i \in Matches(l)} \cup (IF l = k THEN {1} ELSE {})
  <2>1. ASSUME NEW j \in 1 .. Len(obj_root) + 1
        PROVE  j \in Matches(l)' <=>
                 j \in {i + 1 : i \in Matches(l)} \cup (IF l = k THEN {1} ELSE {})
    <3>0. j \in Matches(l)' <=> entry'[obj_root'[j]].key = l
      BY <1>3 DEF Matches
    <3>1. CASE j = 1
      <4>1. 1 \notin {i + 1 : i \in Matches(l)} BY <1>2 DEF Matches
      <4> QED BY <1>3, <1>4, <3>0, <3>1, <4>1
    <3>2. CASE j # 1
      <4>1. j - 1 \in 1 .. Len(obj_root) /\ (j - 1) + 1 = j BY <1>2, <3>2
      <4>2. obj_root'[j] = obj_root[j - 1] BY <1>3, <4>1
      <4>3. j \in Matches(l)' <=> j - 1 \in Matches(l)
        BY <1>2, <1>5, <3>0, <4>1, <4>2 DEF Matches
      <4>4. j \in {i + 1 : i \in Matches(l)} <=> j - 1 \in Matches(l)
        BY <1>2, <4>1 DEF Matches
      <4> QED BY <3>2, <4>3, <4>4
    <3> QED BY <3>1, <3>2
  <2>2. Matches(l)' \subseteq 1 .. Len(obj_root) + 1
    BY <1>3 DEF Matches
  <2>3. {i + 1 : i \in Matches(l)} \subseteq 1 .. Len(obj_root) + 1
    BY <1>2 DEF Matches
  <2>4. 1 \in 1 .. Len(obj_root) + 1
    BY <1>2
  <2> QED BY <2>1, <2>2, <2>3, <2>4
<1>7. ASSUME NEW l \in Key
      PROVE  /\ {i + 1 : i \in Matches(l)} \in SUBSET DOMAIN obj_root'
             /\ StackOf(obj_root', {i + 1 : i \in Matches(l)}) = Stack(l)
  BY <1>1, StackType, StackShifts, StackIsStackOf
<1>8. Stack(k)' = <<a>> \o Stack(k)
  <2> DEFINE T == {i + 1 : i \in Matches(k)}
  <2>1. 1 \in DOMAIN obj_root' BY <1>2, <1>3
  <2>2. \A i \in T : 1 < i BY <1>2 DEF Matches
  <2>3. T \in SUBSET DOMAIN obj_root' /\ StackOf(obj_root', T) = Stack(k) BY <1>7
  <2>4. Matches(k)' = T \cup {1} BY <1>6
  <2> HIDE DEF T
  <2>5. StackOf(obj_root', T \cup {1}) = <<obj_root'[1]>> \o StackOf(obj_root', T)
    BY <1>3, <2>1, <2>2, <2>3, StackTop
  <2> QED BY <1>3, <2>3, <2>4, <2>5, StackIsStackOf
<1>9. ASSUME NEW l \in Key, l # k PROVE Stack(l)' = Stack(l)
  <2>1. Matches(l)' = {i + 1 : i \in Matches(l)} BY <1>6, <1>9
  <2> QED BY <1>7, <2>1, StackIsStackOf
<1>10. \A l \in Key : \A i \in DOMAIN Stack(l) : Stack(l)[i] # a
  BY <1>1, StackType
<1> QED BY <1>1, <1>8, <1>9, <1>10

(* Unlinking what obj_get_ found pops its stack and no other. *)
LEMMA UnlinkPops ==
  ASSUME Inv, NEW k \in Key, Matches(k) # {},
         obj_root' = Unlink(FirstMatch(k)), entry' = entry
  PROVE  /\ Stack(k) # <<>>
         /\ Stack(k)' = Tail(Stack(k))
         /\ \A l \in Key : l # k => Stack(l)' = Stack(l)
<1> DEFINE m == FirstMatch(k)
           n == Len(obj_root)
           S == Matches(k) \ {m}
<1>1. obj_root \in Seq(Addr) /\ n \in Nat /\ DOMAIN obj_root = 1 .. n
  BY DEF Inv, TypeOK
<1>2. m \in Matches(k) /\ Stack(k) = <<Lookup(k)>> \o StackOf(obj_root, S)
  BY LookupIsTop
<1>3. obj_root' = RemoveAt(obj_root, m)
  BY DEF Unlink
<1> HIDE DEF m, n, S
<1>4. m \in 1 .. n /\ entry[obj_root[m]].key = k
  BY <1>1, <1>2 DEF Matches
<1>5. /\ obj_root' \in Seq(Addr) /\ Len(obj_root') = n - 1
      /\ \A j \in 1 .. n - 1 : obj_root'[j] = IF j < m THEN obj_root[j] ELSE obj_root[j + 1]
  <2>1. /\ RemoveAt(obj_root, m) \in Seq(Addr) /\ Len(RemoveAt(obj_root, m)) = Len(obj_root) - 1
        /\ \A j \in 1 .. Len(obj_root) - 1 :
             RemoveAt(obj_root, m)[j] = IF j < m THEN obj_root[j] ELSE obj_root[j + 1]
    <3>1. m \in DOMAIN obj_root BY <1>1, <1>4
    <3> QED BY ONLY <1>1, <3>1, UnlinkElements
  <2> QED BY <1>3, <2>1 DEF n
<1>6. DOMAIN obj_root' = 1 .. n - 1
  BY <1>5
<1>7. ASSUME NEW l \in Key, NEW i \in 1 .. n - 1
      PROVE  i \in Matches(l)' <=> (IF i < m THEN i ELSE i + 1) \in Matches(l) \ {m}
  <2>1. i \in Matches(l)' <=> entry[obj_root'[i]].key = l
    BY <1>6 DEF Matches
  <2>2. \A j \in 1 .. n : j \in Matches(l) <=> entry[obj_root[j]].key = l
    BY <1>1 DEF Matches
  <2>3. CASE i < m
    <3>1. i \in 1 .. n /\ i # m BY <1>1, <1>4, <2>3
    <3> QED BY <1>5, <2>1, <2>2, <2>3, <3>1
  <2>4. CASE ~ (i < m)
    <3>1. i + 1 \in 1 .. n /\ i + 1 # m BY <1>1, <1>4, <2>4
    <3> QED BY <1>5, <2>1, <2>2, <2>4, <3>1
  <2> QED BY <2>3, <2>4
<1>8. ASSUME NEW l \in Key PROVE Stack(l)' = StackOf(obj_root, Matches(l) \ {m})
  <2>1. Matches(l)' \in SUBSET DOMAIN RemoveAt(obj_root, m)
    BY <1>3 DEF Matches
  <2>2. \A i \in DOMAIN RemoveAt(obj_root, m) :
          i \in Matches(l)' <=> (IF i < m THEN i ELSE i + 1) \in Matches(l) \ {m}
    BY <1>3, <1>6, <1>7
  <2>3. Matches(l) \ {m} \in SUBSET DOMAIN obj_root /\ m \notin Matches(l) \ {m}
    BY DEF Matches
  <2>4. m \in DOMAIN obj_root
    BY <1>1, <1>4
  <2>5. StackOf(RemoveAt(obj_root, m), Matches(l)') = StackOf(obj_root, Matches(l) \ {m})
    BY <1>1, <2>1, <2>2, <2>3, <2>4, StackCloses
  <2> QED BY <1>3, <2>5, StackIsStackOf
<1>9. ASSUME NEW l \in Key, l # k PROVE Stack(l)' = Stack(l)
  <2>1. Matches(l) \ {m} = Matches(l)
    BY <1>4, <1>9 DEF Matches
  <2> QED BY <1>8, <2>1, StackIsStackOf
<1>10. Stack(k) # <<>> /\ Stack(k)' = Tail(Stack(k))
  <2> DEFINE t == StackOf(obj_root, S)
  <2>1. t \in Seq(Addr) /\ Stack(k)' = t /\ Stack(k) = <<Lookup(k)>> \o t
    <3>1. S \in SUBSET DOMAIN obj_root BY DEF S, Matches
    <3>2. t \in Seq(Addr) BY <1>1, <3>1, StackOfType
    <3> QED BY <1>2, <1>8, <3>2 DEF S
  <2>2. Lookup(k) \in Addr
    <3>1. Lookup(k) = obj_root[m] BY DEF Lookup, m
    <3> QED BY <1>1, <1>4, <3>1
  <2> HIDE DEF t
  <2>3. <<Lookup(k)>> \o t # <<>> /\ Tail(<<Lookup(k)>> \o t) = t
    BY <2>1, <2>2
  <2> QED BY <2>1, <2>3
<1> QED BY <1>9, <1>10

(* A step that leaves the list and the keys on it alone cannot be seen. *)
LEMMA StacksUnchanged ==
  ASSUME obj_root' = obj_root, \A a \in Range(obj_root) : entry'[a].key = entry[a].key
  PROVE  \A l \in Key : Stack(l)' = Stack(l)
<1> SUFFICES ASSUME NEW l \in Key PROVE Stack(l)' = Stack(l)
  OBVIOUS
<1>1. \A i \in DOMAIN obj_root : obj_root[i] \in Range(obj_root)
  BY DEF Range
<1>2. Matches(l)' = Matches(l)
  BY <1>1 DEF Matches
<1> QED BY <1>2, StackIsStackOf

-----------------------------------------------------------------------------
(* The refinement.                                                         *)

stacks == [k \in Key |-> Stack(k)]
result == IF main.pc = "got" THEN main.o ELSE NULL

(* The stacks of the refinement mapping, one by one. *)
LEMMA StacksAt ==
  /\ \A k \in Key : stacks[k] = Stack(k)
  /\ stacks' = [k \in Key |-> Stack(k)']
  BY DEF stacks

(* If no stack changes, the abstract store does not. *)
LEMMA StacksSame ==
  ASSUME \A l \in Key : Stack(l)' = Stack(l)
  PROVE  stacks' = stacks
  BY DEF stacks

(* obj_add is KV!Add of the new entry. *)
LEMMA AddRefines ==
  ASSUME Inv,
         NEW k \in Key, NEW x \in RObj \cup {NULL}, NEW data \in Buf \cup {RAW, NULL},
         obj_add(k, x, data), result' = result
  PROVE  KV!Next
<1>1. PICK a \in Addr :
        /\ \A l \in Key : \A i \in DOMAIN Stack(l) : Stack(l)[i] # a
        /\ Stack(k)' = <<a>> \o Stack(k)
        /\ \A l \in Key : l # k => Stack(l)' = Stack(l)
  BY AddPushes
<1>2. stacks' = [stacks EXCEPT ![k] = <<a>> \o @]
  BY <1>1, StacksAt DEF stacks
<1>3. \A l \in Key : \A i \in DOMAIN stacks[l] : stacks[l][i] # a
  BY <1>1, StacksAt
<1>4. KV!Add(k, a)
  BY <1>2, <1>3 DEF KV!Add, stacks, result
<1> QED BY <1>4 DEF KV!Next

(* Unlinking is KV!Remove, or the second half of KV!Lookup. *)
LEMMA GetRefines ==
  ASSUME Inv, NEW k \in Key, NEW rm \in BOOLEAN, obj_get(k, rm)
  PROVE  /\ Lookup(k) = KV!Top(k)
         /\ Matches(k) = {} <=> stacks[k] = <<>>
         /\ IF rm /\ Matches(k) # {}
            THEN stacks' = [stacks EXCEPT ![k] = Tail(@)]
            ELSE stacks' = stacks
<1>1. CASE Matches(k) = {}
  <2>1. Stack(k) = <<>> /\ Lookup(k) = NULL
    BY <1>1, LookupIsTop DEF Lookup
  <2>2. \A l \in Key : Stack(l)' = Stack(l)
    BY <1>1, StacksUnchanged DEF obj_get
  <2> QED BY <1>1, <2>1, <2>2, StacksAt, StacksSame DEF KV!Top, stacks
<1>2. CASE Matches(k) # {}
  <2> DEFINE t == StackOf(obj_root, Matches(k) \ {FirstMatch(k)})
  <2>1. Stack(k) = <<Lookup(k)>> \o t
    BY <1>2, LookupIsTop
  <2>2. t \in Seq(Addr)
    <3>1. obj_root \in Seq(Addr) /\ Matches(k) \ {FirstMatch(k)} \in SUBSET DOMAIN obj_root
      BY StackType
    <3> QED BY <3>1, StackOfType
  <2>3. Lookup(k) \in Addr
    BY <1>2, LookupPublished DEF Inv, TypeOK, EntriesAccounted, Allocated
  <2> HIDE DEF t
  <2>4. Stack(k) # <<>> /\ Head(Stack(k)) = Lookup(k)
    BY <2>1, <2>2, <2>3
  <2>5. CASE rm
    <3>1. obj_root' = Unlink(FirstMatch(k)) /\ entry' = entry
      BY <1>2, <2>5 DEF obj_get
    <3>2. Stack(k)' = Tail(Stack(k)) /\ \A l \in Key : l # k => Stack(l)' = Stack(l)
      BY <1>2, <3>1, UnlinkPops
    <3>3. stacks' = [stacks EXCEPT ![k] = Tail(@)]
      BY <3>2, StacksAt DEF stacks
    <3> QED BY <1>2, <2>4, <2>5, <3>3, StacksAt DEF KV!Top, stacks
  <2>6. CASE ~ rm
    <3>1. \A l \in Key : Stack(l)' = Stack(l)
      BY <2>6, StacksUnchanged DEF obj_get
    <3> QED BY <1>2, <2>4, <2>6, <3>1, StacksAt, StacksSame DEF KV!Top, stacks
  <2> QED BY <2>5, <2>6
<1> QED BY <1>1, <1>2

(* Every step of the R session and of the workers is a step of KVStore or
   cannot be seen. *)
LEMMA StepRefines ==
  ASSUME Inv, [Next]_vars
  PROVE  [KV!Next]_(KV!kvVars)
<1> SUFFICES KV!Next \/ (stacks' = stacks /\ result' = result)
  BY DEF KV!kvVars, stacks, result
<1>0. ASSUME UNCHANGED <<entry, obj_root>> PROVE stacks' = stacks
  <2>1. \A l \in Key : Stack(l)' = Stack(l) BY <1>0, StacksUnchanged
  <2> QED BY <2>1, StacksSame
<1>1. ASSUME NEW k \in Key, NEW x \in RObj, NEW sfs \in BOOLEAN, C_put(k, x, sfs)
      PROVE  KV!Next
  <2>1. main \in Main /\ main.pc # "got" /\ main'.pc # "got"
    BY <1>1 DEF C_put, MainIdle, Inv, TypeOK, Main
  <2> QED BY <1>1, <2>1, AddRefines DEF C_put, result
<1>2. ASSUME NEW k \in Key, NEW rm \in BOOLEAN, C_get(k, rm)
      PROVE  KV!Next
  <2>1. result' = Lookup(k)
    BY <1>2 DEF C_get, result
  <2>2. /\ Lookup(k) = KV!Top(k)
        /\ Matches(k) = {} <=> stacks[k] = <<>>
        /\ IF rm /\ Matches(k) # {}
           THEN stacks' = [stacks EXCEPT ![k] = Tail(@)]
           ELSE stacks' = stacks
    BY <1>2, GetRefines DEF C_get
  <2>3. KV!Lookup(k, rm)
    BY <2>1, <2>2 DEF KV!Lookup, stacks, result
  <2> QED BY <2>3 DEF KV!Next
<1>3. ASSUME C_get_return \/ C_get_error \/ \E x \in RObj : C_get_materialise(x)
      PROVE  KV!Next
  <2>1. result' = NULL
    BY <1>3 DEF C_get_return, C_get_error, C_get_materialise, GetDone, result, Inv, TypeOK, Main
  <2>2. obj_root' = obj_root
    BY <1>3 DEF C_get_return, C_get_error, C_get_materialise
  <2>3. \A a \in Range(obj_root) : entry'[a].key = entry[a].key
    <3>1. CASE entry' = entry
      BY <3>1
    <3>2. CASE \E x \in RObj : main.o \in Allocated /\ entry' = [entry EXCEPT ![main.o].sWhat = x]
      <4> SUFFICES ASSUME NEW a \in Range(obj_root) PROVE entry'[a].key = entry[a].key
        OBVIOUS
      <4>1. a \in Addr /\ entry[a] \in Entry /\ entry \in [Addr -> Entry \cup {NULL}]
        BY DEF Inv, TypeOK, EntriesAccounted, Allocated
      <4>2. CASE a = main.o BY <3>2, <4>1, <4>2 DEF Entry
      <4>3. CASE a # main.o BY <3>2, <4>1, <4>3
      <4> QED BY <4>2, <4>3
    <3>3. \/ entry' = entry
          \/ \E x \in RObj : main.o \in Allocated /\ entry' = [entry EXCEPT ![main.o].sWhat = x]
      BY <1>3 DEF C_get_return, C_get_error, C_get_materialise, Inv, MainEntryValid
    <3> QED BY <3>1, <3>2, <3>3
  <2>4. stacks' = stacks
    BY <2>2, <2>3, StacksUnchanged, StacksSame
  <2>5. KV!Return
    BY <2>1, <2>4 DEF KV!Return, stacks, result
  <2> QED BY <2>5 DEF KV!Next
<1>4. ASSUME C_clean \/ obj_gc_end \/ UNCHANGED vars
      PROVE  stacks' = stacks /\ result' = result
  <2>1. UNCHANGED <<entry, obj_root>>
    BY <1>4 DEF C_clean, obj_gc_end, vars
  <2>2. result' = result
    BY <1>4 DEF C_clean, obj_gc_end, vars, MainIdle, result, Inv, TypeOK, Main
  <2> QED BY <1>0, <2>1, <2>2
<1>5. ASSUME obj_gc_step
      PROVE  stacks' = stacks /\ result' = result
  <2>1. obj_root' = obj_root /\ main' = main /\ entry' = [entry EXCEPT ![Head(obj_gc_pool)] = NULL]
    BY <1>5 DEF obj_gc_step
  <2>2. Head(obj_gc_pool) \in Range(obj_gc_pool)
    BY <1>5, TailList DEF obj_gc_step, Inv, TypeOK, EntriesAccounted
  <2>3. \A a \in Range(obj_root) : a # Head(obj_gc_pool) /\ a \in Addr
    BY <2>2 DEF Inv, EntriesAccounted, Allocated
  <2>4. \A a \in Range(obj_root) : entry'[a].key = entry[a].key
    BY <2>1, <2>3 DEF Inv, TypeOK
  <2> QED BY <2>1, <2>4, StacksUnchanged, StacksSame DEF result
<1>6. ASSUME NEW w \in Worker, WorkerNext(w)
      PROVE  KV!Next \/ (stacks' = stacks /\ result' = result)
  <2>0. result' = result
    BY <1>6 DEF WorkerNext, WorkerGet, WorkerSent, WorkerDel, WorkerPut, WorkerPutEmpty, result
  <2>1. ASSUME NEW k \in Key, WorkerGet(w, k) PROVE stacks' = stacks
    BY <2>1, <1>0 DEF WorkerGet, obj_get
  <2>2. ASSUME WorkerSent(w) PROVE stacks' = stacks
    BY <2>2, <1>0 DEF WorkerSent
  <2>3. ASSUME NEW k \in Key, WorkerDel(w, k) PROVE KV!Next \/ stacks' = stacks
    <3>1. obj_get(k, TRUE)
      BY <2>3 DEF WorkerDel
    <3>2. CASE Matches(k) = {}
      BY <3>1, <3>2, GetRefines
    <3>3. CASE Matches(k) # {}
      <4>1. stacks[k] # <<>> /\ stacks' = [stacks EXCEPT ![k] = Tail(@)]
        BY <3>1, <3>3, GetRefines
      <4>2. KV!Remove(k)
        BY <2>0, <4>1 DEF KV!Remove, stacks, result
      <4> QED BY <4>2 DEF KV!Next
    <3> QED BY <3>2, <3>3
  <2>4. ASSUME NEW k \in Key, NEW b \in Buf, WorkerPut(w, k, b) PROVE KV!Next
    BY <2>0, <2>4, AddRefines DEF WorkerPut
  <2>5. ASSUME NEW k \in Key, WorkerPutEmpty(w, k) PROVE KV!Next
    BY <2>0, <2>5, AddRefines DEF WorkerPutEmpty
  <2> QED BY <1>6, <2>0, <2>1, <2>2, <2>3, <2>4, <2>5 DEF WorkerNext
<1> QED BY <1>1, <1>2, <1>3, <1>4, <1>5, <1>6 DEF Next, MainNext

(* The empty store is the empty store. *)
LEMMA InitRefines == Init => KV!Init
<1> SUFFICES ASSUME Init PROVE KV!Init
  OBVIOUS
<1>1. Inv
  BY InitInv
<1>2. \A k \in Key : Matches(k) = {}
  BY DEF Init, Matches
<1>3. \A k \in Key : Stack(k) = <<>>
  BY <1>1, <1>2, LookupIsTop
<1> QED BY <1>3 DEF Init, KV!Init

(* obj_add, obj_get and obj_gc, with their lists, their pool and bare pointers
   in the hands of the R session and of the workers, are a store with a stack
   of values per key: o.get and DEL see and take the newest value of their own
   key at one instant, and o.clean cannot be seen. *)
THEOREM StoreImplementsKVStore == Spec => ImplementsKVStore
<1>1. Inv /\ [Next]_vars => [KV!Next]_(KV!kvVars)
  BY StepRefines
<1> QED BY <1>1, InitRefines, InvHolds, PTL DEF Spec, ImplementsKVStore, KV!Spec
=============================================================================
