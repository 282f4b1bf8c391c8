----------------------------- MODULE ObjStore -----------------------------
(***************************************************************************)
(* The key/value object store (obj.c) as its users drive it: the R session *)
(* (robj.c: o.put, o.get, o.clean) on the main thread and the worker       *)
(* threads of the two servers (osrv.c, ohsrv.c: GET, DEL, PUT).            *)
(*                                                                         *)
(* obj_mutex protects the two lists only.  obj_get hands out a bare        *)
(* pointer to an entry, and every caller goes on using that pointer after  *)
(* the mutex is released; this module keeps those pointers (serving, main) *)
(* in its state.  A critical section is one step, except obj_gc, whose     *)
(* loop is one step per entry with the mutex held throughout.              *)
(*                                                                         *)
(* obj_add also calls deps_complete while it holds obj_mutex; that call    *)
(* changes nothing here and is the subject of module Deps.                 *)
(***************************************************************************)
EXTENDS Integers, Sequences, FiniteSets, SequencesExt

CONSTANTS
  Key,        \* keys
  Worker,     \* worker threads
  Addr,       \* addresses calloc can return for an entry (bounds the heap)
  RObj,       \* R objects (SEXP)
  NilValue,   \* R_NilValue, which R_PreserveObject never needs to protect
  Buf,        \* payload buffers malloc'ed by a worker for PUT
  RAW,        \* the data pointer RAW(sWhat), into the entry's own R object
  NULL

ASSUME ObjStoreAssumption ==
  /\ NilValue \in RObj
  /\ NULL \notin Addr \cup RObj \cup Buf
  /\ RAW \notin Buf \cup {NULL}
  /\ IsFiniteSet(Addr)

(* struct obj_entry_s; len is kept only as far as obj = NULL. *)
Entry == [key : Key, sWhat : RObj \cup {NULL}, obj : Buf \cup {RAW, NULL}]

ASSUME NullIsNoEntry == NULL \notin Entry

VARIABLES
  entry,        \* entry[a]: the entry at address a, NULL if a is not allocated
  obj_root,     \* the list of published entries, newest first
  obj_gc_pool,  \* the list of removed entries that wait for obj_gc
  precious,     \* precious[x]: how often x is on R's list of preserved objects
  malloced,     \* payload buffers that were malloc'ed and not freed
  serving,      \* serving[w]: the obj_get result worker w is sending from
  main          \* the R session: what it is doing and the entry it uses

vars == <<entry, obj_root, obj_gc_pool, precious, malloced, serving, main>>

Main == [pc : {"idle", "got", "failed", "gc"}, o : Addr \cup {NULL},
         rm : BOOLEAN]

Allocated == {a \in Addr : entry[a] # NULL}

(* The entries that keep a pointer to R object x. *)
Holders(x) == {a \in Allocated : entry[a].sWhat = x}

Matches(k) == {i \in DOMAIN obj_root : entry[obj_root[i]].key = k}
FirstMatch(k) == CHOOSE i \in Matches(k) : \A j \in Matches(k) : i <= j

(* The list walk of obj_get_: the first entry with the key, or NULL. *)
Lookup(k) == IF Matches(k) = {} THEN NULL ELSE obj_root[FirstMatch(k)]

MainIdle == main.pc \in {"idle", "failed"}

(* pthread_mutex_lock(&obj_mutex) does not block: only the loop of obj_gc
   holds the mutex across steps. *)
MutexFree == main.pc # "gc"

-----------------------------------------------------------------------------
(* R's list of precious objects, external code: preserving puts one more
   reference on it, releasing takes one off if there is one. *)
R_PreserveObject(x) == precious' = [precious EXCEPT ![x] = @ + 1]
R_ReleaseObject(x) ==
  precious' = [precious EXCEPT ![x] = IF @ > 0 THEN @ - 1 ELSE 0]

(* Mutant: the R object and the data pointer are swapped. *)
obj_add_Swapped(k, x, data) ==
  \E a \in Addr \ Allocated :
    /\ MutexFree
    /\ entry' = [entry EXCEPT ![a] = [key |-> k, sWhat |-> data, obj |-> x]]
    /\ obj_root' = <<a>> \o obj_root
    /\ UNCHANGED <<obj_gc_pool, precious>>

(* obj_add: allocate and fill the entry, preserve its R object, prepend it. *)
obj_add(k, x, data) ==
  \E a \in Addr \ Allocated :
    /\ MutexFree
    /\ entry' = [entry EXCEPT ![a] = [key |-> k, sWhat |-> x, obj |-> data]]
    /\ obj_root' = <<a>> \o obj_root
    /\ IF x # NULL THEN R_PreserveObject(x) ELSE UNCHANGED precious
    /\ UNCHANGED obj_gc_pool

(* Mutant: unlinking as if the entry were always the first of the list. *)
UnlinkHead(i) == SubSeq(obj_root, i + 1, Len(obj_root))

(* prev->next = e->next, or obj_root = e->next for the first entry. *)
Unlink(i) == RemoveAt(obj_root, i)

(* Mutant: a removed entry stays published. *)
obj_get_NoUnlink(k, rm) ==
  /\ MutexFree
  /\ IF rm /\ Matches(k) # {}
     THEN obj_gc_pool' = <<Lookup(k)>> \o obj_gc_pool
     ELSE UNCHANGED obj_gc_pool
  /\ UNCHANGED <<obj_root, entry>>

(* Mutant: a removed entry is freed at once instead of going to the pool. *)
obj_get_Free(k, rm) ==
  /\ MutexFree
  /\ IF rm /\ Matches(k) # {}
     THEN /\ obj_root' = Unlink(FirstMatch(k))
          /\ entry' = [entry EXCEPT ![Lookup(k)] = NULL]
     ELSE UNCHANGED <<obj_root, entry>>
  /\ UNCHANGED obj_gc_pool

(* obj_get: look the key up and, with rm, move the entry to the pool.  The
   result is Lookup(k) of the state before the step. *)
obj_get(k, rm) ==
  /\ MutexFree
  /\ IF rm /\ Matches(k) # {}
     THEN /\ obj_root' = Unlink(FirstMatch(k))
          /\ obj_gc_pool' = <<Lookup(k)>> \o obj_gc_pool
     ELSE UNCHANGED <<obj_root, obj_gc_pool>>
  /\ UNCHANGED entry

-----------------------------------------------------------------------------
(* The R session, on the main thread.                                      *)

(* o.put(k, x, sfs): with sfs the object is serialised on demand, without
   it x is a raw vector and the entry points at its bytes. *)
C_put(k, x, sfs) ==
  /\ MainIdle
  /\ sfs \/ x # NilValue
  /\ obj_add(k, x, IF sfs THEN NULL ELSE RAW)
  /\ main' = [main EXCEPT !.pc = "idle"]
  /\ UNCHANGED <<malloced, serving>>

(* o.get(k, remove = rm), up to the return from obj_get. *)
C_get(k, rm) ==
  /\ MainIdle
  /\ obj_get(k, rm)
  /\ main' = [pc |-> "got", o |-> Lookup(k), rm |-> rm]
  /\ UNCHANGED <<precious, malloced, serving>>

GetDone(pc) == main' = [pc |-> pc, o |-> NULL, rm |-> FALSE]

(* Nothing found, or the entry has its R object already. *)
C_get_return ==
  /\ main.pc = "got"
  /\ main.o # NULL => entry[main.o].sWhat # NULL
  /\ GetDone("idle")
  /\ UNCHANGED <<entry, obj_root, obj_gc_pool, precious, malloced, serving>>

(* Mutant: the remembered result is not preserved. *)
C_get_materialise_NoPreserve(x) ==
  /\ main.pc = "got"
  /\ main.o # NULL
  /\ entry[main.o].sWhat = NULL
  /\ entry' = IF main.rm THEN entry
              ELSE [entry EXCEPT ![main.o].sWhat = x]
  /\ GetDone("idle")
  /\ UNCHANGED <<obj_root, obj_gc_pool, precious, malloced, serving>>

(* Mutant: the remembered result goes into the entry even if that has one. *)
C_get_materialise_Always(x) ==
  /\ main.pc = "got"
  /\ main.o # NULL
  /\ entry' = [entry EXCEPT ![main.o].sWhat = x]
  /\ IF x # NilValue THEN R_PreserveObject(x) ELSE UNCHANGED precious
  /\ GetDone("idle")
  /\ UNCHANGED <<obj_root, obj_gc_pool, malloced, serving>>

(* The payload becomes an R object x (a new raw vector, or whatever sfs_load
   makes of the bytes, R_NilValue and shared objects such as symbols
   included); without remove it is remembered in the entry. *)
C_get_materialise(x) ==
  /\ main.pc = "got"
  /\ main.o # NULL
  /\ entry[main.o].sWhat = NULL
  /\ IF main.rm
     THEN UNCHANGED <<entry, precious>>
     ELSE /\ entry' = [entry EXCEPT ![main.o].sWhat = x]
          /\ IF x # NilValue THEN R_PreserveObject(x) ELSE UNCHANGED precious
  /\ GetDone("idle")
  /\ UNCHANGED <<obj_root, obj_gc_pool, malloced, serving>>

(* Rf_error while the payload is read (not an SFS stream, stream too short)
   or the result is allocated: o.get ends without a value. *)
C_get_error ==
  /\ main.pc = "got"
  /\ main.o # NULL
  /\ entry[main.o].sWhat = NULL
  /\ main' = [main EXCEPT !.pc = "failed"]
  /\ UNCHANGED <<entry, obj_root, obj_gc_pool, precious, malloced, serving>>

(* o.clean: obj_gc takes the mutex, ... *)
C_clean ==
  /\ MainIdle
  /\ main' = [pc |-> "gc", o |-> NULL, rm |-> FALSE]
  /\ UNCHANGED <<entry, obj_root, obj_gc_pool, precious, malloced, serving>>

(* ... frees the entries of the pool one by one (the payload a client sent
   is not freed), ... *)
obj_gc_step ==
  /\ main.pc = "gc"
  /\ obj_gc_pool # <<>>
  /\ LET c == Head(obj_gc_pool) IN
       /\ IF entry[c].sWhat # NULL
          THEN R_ReleaseObject(entry[c].sWhat)
          ELSE UNCHANGED precious
       /\ entry' = [entry EXCEPT ![c] = NULL]
  /\ obj_gc_pool' = Tail(obj_gc_pool)
  /\ UNCHANGED <<obj_root, malloced, serving, main>>

(* ... and releases the mutex. *)
obj_gc_end ==
  /\ main.pc = "gc"
  /\ obj_gc_pool = <<>>
  /\ main' = [main EXCEPT !.pc = "idle"]
  /\ UNCHANGED <<entry, obj_root, obj_gc_pool, precious, malloced, serving>>

-----------------------------------------------------------------------------
(* The worker threads.                                                     *)

(* GET (and HEAD of the HTTP server): the worker keeps the pointer. *)
WorkerGet(w, k) ==
  /\ serving[w] = NULL
  /\ obj_get(k, FALSE)
  /\ serving' = [serving EXCEPT ![w] = Lookup(k)]
  /\ UNCHANGED <<precious, malloced, main>>

(* The last use of the entry: the response has been sent. *)
WorkerSent(w) ==
  /\ serving[w] # NULL
  /\ serving' = [serving EXCEPT ![w] = NULL]
  /\ UNCHANGED <<entry, obj_root, obj_gc_pool, precious, malloced, main>>

(* DEL: the worker looks at the pointer only to tell OK from NF. *)
WorkerDel(w, k) ==
  /\ serving[w] = NULL
  /\ obj_get(k, TRUE)
  /\ UNCHANGED <<precious, malloced, serving, main>>

(* PUT with a payload: the store takes the malloc'ed buffer over. *)
WorkerPut(w, k, b) ==
  /\ serving[w] = NULL
  /\ b \notin malloced
  /\ malloced' = malloced \cup {b}
  /\ obj_add(k, NULL, b)
  /\ UNCHANGED <<serving, main>>

(* PUT over HTTP without a body: http_process stores req->body = NULL. *)
WorkerPutEmpty(w, k) ==
  /\ serving[w] = NULL
  /\ obj_add(k, NULL, NULL)
  /\ UNCHANGED <<malloced, serving, main>>

-----------------------------------------------------------------------------
Init ==
  /\ entry = [a \in Addr |-> NULL]
  /\ obj_root = <<>>
  /\ obj_gc_pool = <<>>
  /\ precious = [x \in RObj |-> 0]
  /\ malloced = {}
  /\ serving = [w \in Worker |-> NULL]
  /\ main = [pc |-> "idle", o |-> NULL, rm |-> FALSE]

MainNext ==
  \/ \E k \in Key, x \in RObj, sfs \in BOOLEAN : C_put(k, x, sfs)
  \/ \E k \in Key, rm \in BOOLEAN : C_get(k, rm)
  \/ C_get_return
  \/ \E x \in RObj : C_get_materialise(x)
  \/ C_get_error
  \/ C_clean
  \/ obj_gc_step
  \/ obj_gc_end

WorkerNext(w) ==
  \/ \E k \in Key : WorkerGet(w, k)
  \/ WorkerSent(w)
  \/ \E k \in Key : WorkerDel(w, k)
  \/ \E k \in Key, b \in Buf : WorkerPut(w, k, b)
  \/ \E k \in Key : WorkerPutEmpty(w, k)

Next == MainNext \/ \E w \in Worker : WorkerNext(w)

Spec == Init /\ [][Next]_vars

-----------------------------------------------------------------------------
(* Properties.                                                             *)

(* Type correctness; the store and the pool only link entries. *)
TypeOK ==
  /\ entry \in [Addr -> Entry \cup {NULL}]
  /\ obj_root \in Seq(Addr)
  /\ obj_gc_pool \in Seq(Addr)
  /\ precious \in [RObj -> Nat]
  /\ malloced \in SUBSET Buf
  /\ serving \in [Worker -> Addr \cup {NULL}]
  /\ main \in Main

(* Every allocated entry is on exactly one of the two lists of obj.c, at
   exactly one place, and the lists hold no freed entry: moving an entry from
   obj_root to obj_gc_pool and freeing the pool lose nothing and free nothing
   twice, whatever threads add, remove and clean in between. *)
EntriesAccounted ==
  /\ IsInjective(obj_root)
  /\ IsInjective(obj_gc_pool)
  /\ Range(obj_root) \cap Range(obj_gc_pool) = {}
  /\ Range(obj_root) \cup Range(obj_gc_pool) = Allocated

(* obj_add and C_get preserve an R object once for each entry that points at
   it, and obj_gc gives back exactly that: no entry ever points at an object R
   may have collected, and no object stays preserved once its entries are
   gone, also when a worker removes the entry while C_get fills it in. *)
PreserveBalanced ==
  \A x \in RObj \ {NilValue} : precious[x] = Cardinality(Holders(x))

(* The pointer the R session got from obj_get stays valid until o.get is done
   with it, although workers may remove the entry meanwhile: only o.clean
   frees entries, and it runs on the same thread. *)
MainEntryValid == main.pc = "got" /\ main.o # NULL => main.o \in Allocated

(* The pointer a worker sends a response from points at a live entry: o.clean
   frees an entry only after the serving threads have released it. *)
ServedEntryAlive == \A w \in Worker : serving[w] # NULL => serving[w] \in Allocated

(* What a worker reads through its pointer without the mutex does not change
   while the entry lives: key and data never, the R object only from "none"
   to the one C_get made, once. *)
PublishedImmutable ==
  [][\A a \in Addr :
       entry[a] # NULL /\ entry'[a] # NULL =>
         /\ entry'[a].key = entry[a].key
         /\ entry'[a].obj = entry[a].obj
         /\ entry[a].sWhat # NULL => entry'[a].sWhat = entry[a].sWhat]_vars
=============================================================================
