-------------------------------- MODULE Deps --------------------------------
(***************************************************************************)
(* Dependency tracking (deps.c, rdeps.c): the R session asks to be told    *)
(* when a set of keys is in the object store, and every obj_add, on any    *)
(* thread, completes requests that wait for its key.                       *)
(*                                                                         *)
(* Two locks are involved.  obj_add calls deps_complete while it holds     *)
(* obj_mutex, and deps_complete takes dep_mutex; deps_add therefore looks  *)
(* objects up before it takes dep_mutex.  Both locks are explicit here,    *)
(* and so is the singly linked list with its head and tail pointers, whose *)
(* cells are freed by deps_complete and can be reused by deps_add.  The    *)
(* scan of deps_complete is one step per cell.                             *)
(*                                                                         *)
(* A write through a pointer to a freed cell changes that cell only: what  *)
(* it would do to memory reused for something else is not modelled.        *)
(* Failing allocations are not modelled.                                   *)
(***************************************************************************)
EXTENDS Integers, Sequences

CONSTANTS
  Key,        \* keys
  KeyList,    \* the vectors of keys a request can ask for
  MaxReq,     \* bound on the requests (one call of dep.req each)
  Cell,       \* addresses calloc can return for a depent_t
  Main,       \* the R session's thread
  Worker,     \* the other threads that add and remove objects
  MaxObj,     \* bound on the objects stored under one key
  NULL

ASSUME DepsAssumption ==
  /\ KeyList \subseteq Seq(Key)
  /\ MaxReq \in Nat
  /\ NULL \notin Cell \cup Key \cup Worker \cup {Main}
  /\ Main \notin Worker
  /\ MaxObj \in Nat

Thread == Worker \cup {Main}
Req == 1 .. MaxReq

(* struct depent_s and the locals of deps_add. *)
Request == [r : Req, keys : KeyList, status : UNION {[DOMAIN ks -> BOOLEAN] : ks \in KeyList}]
Own == [c : Cell, i : Nat]

ASSUME NullIsNoRecord == NULL \notin Request \cup Own

VARIABLES
  nobj,         \* nobj[k]: how many objects the store has under key k
  obj_mutex,    \* who holds obj_mutex, NULL if nobody does
  dep_mutex,    \* who holds dep_mutex
  head, tail,   \* the ends of the list of requests
  next,         \* next[c], the list pointer of a cell
  ent,          \* ent[c]: the request in cell c, NULL if c is free
  pc,           \* where a thread is
  scan,         \* scan[t]: the locals key, e, prev of deps_complete
  own,          \* the locals of deps_add: the cell and the index of a key
  returned,     \* how many calls of dep.req have returned 0
  posted,       \* posted[r]: how often r was put on dep_queue
  seen          \* auxiliary: the indices of r's keys that were there when
                \* deps_add looked, or that a scan announced with r on the list

depVars == <<head, tail, next, ent>>
vars == <<nobj, obj_mutex, dep_mutex, head, tail, next, ent, pc, scan, own,
          returned, posted, seen>>

(* The cells the next pointers lead to from x: they are in every set that has
   x and that no pointer leads out of. *)
From(x) ==
  {c \in Cell : \A S \in SUBSET Cell :
     x \in S \cup {NULL} /\ (\A d \in S : next[d] \in S \cup {NULL}) => c \in S}

(* The cells of the list. *)
Reach == From(head)

NoLocals == [key |-> NULL, e |-> NULL, prev |-> NULL]
Goes(t, p) == pc' = [pc EXCEPT ![t] = p]

-----------------------------------------------------------------------------
(* The object store, as far as it matters here.                            *)

(* obj_add(k) up to the call of deps_complete: the mutex stays locked. *)
obj_add(t, k) ==
  /\ pc[t] = "idle"
  /\ nobj[k] < MaxObj
  /\ obj_mutex = NULL
  /\ obj_mutex' = t
  /\ nobj' = [nobj EXCEPT ![k] = @ + 1]
  /\ scan' = [scan EXCEPT ![t] = [NoLocals EXCEPT !.key = k]]
  /\ Goes(t, "complete")
  /\ UNCHANGED <<dep_mutex, depVars, own, returned, posted, seen>>

(* The end of obj_add. *)
obj_add_unlock(t) ==
  /\ pc[t] = "unlock"
  /\ obj_mutex' = NULL
  /\ Goes(t, "idle")
  /\ UNCHANGED <<nobj, dep_mutex, depVars, scan, own, returned, posted, seen>>

(* Mutant: the last entry is removed when none matches. *)
obj_remove_Unchecked(t, k) ==
  /\ pc[t] = "idle"
  /\ obj_mutex = NULL
  /\ nobj' = [nobj EXCEPT ![k] = @ - 1]
  /\ UNCHANGED <<obj_mutex, dep_mutex, depVars, pc, scan, own, returned, posted, seen>>

(* obj_get(k, rm = 1). *)
obj_remove(t, k) ==
  /\ pc[t] = "idle"
  /\ obj_mutex = NULL
  /\ nobj[k] > 0
  /\ nobj' = [nobj EXCEPT ![k] = @ - 1]
  /\ UNCHANGED <<obj_mutex, dep_mutex, depVars, pc, scan, own, returned, posted, seen>>

-----------------------------------------------------------------------------
(* deps_complete.                                                          *)

deps_complete_lock(t) ==
  /\ pc[t] = "complete"
  /\ dep_mutex = NULL
  /\ dep_mutex' = t
  /\ scan' = [scan EXCEPT ![t].e = head, ![t].prev = NULL]
  /\ seen' = [r \in Req |-> seen[r] \cup
                 UNION {{i \in DOMAIN ent[c].keys : ent[c].keys[i] = scan[t].key} :
                          c \in {d \in Reach : ent[d].r = r}}]
  /\ Goes(t, "scan")
  /\ UNCHANGED <<nobj, obj_mutex, depVars, own, returned, posted>>

(* Mutant: a key of a request completes all its keys. *)
Marked_Any(c, k) ==
  [ent[c] EXCEPT !.status =
     [i \in DOMAIN @ |-> @[i] \/ \E j \in DOMAIN @ : ent[c].keys[j] = k]]

(* The status bits of a cell once key k (NULL for none) has been added. *)
Marked(c, k) ==
  [ent[c] EXCEPT !.status = [i \in DOMAIN @ |-> @[i] \/ ent[c].keys[i] = k]]

(* One round of the loop: a cell that is not complete is kept, ... *)
deps_complete_keep(t) ==
  LET e == scan[t].e
      m == Marked(e, scan[t].key)
  IN /\ pc[t] = "scan"
     /\ e # NULL
     /\ \E i \in DOMAIN m.keys : ~m.status[i]
     /\ ent' = [ent EXCEPT ![e] = m]
     /\ scan' = [scan EXCEPT ![t].e = next[e], ![t].prev = e]
     /\ UNCHANGED <<nobj, obj_mutex, dep_mutex, head, tail, next, pc, own,
                    returned, posted, seen>>

(* Mutant: only the first cell of the list is ever unlinked. *)
Unlinked_HeadOnly(e, prev) == next

(* The next pointers without cell e. *)
Unlinked(e, prev) == IF prev = NULL THEN next ELSE [next EXCEPT ![prev] = next[e]]

(* ... a complete one is unlinked, posted and freed; tail stays as it is. *)
deps_complete_post(t) ==
  LET e == scan[t].e
      m == Marked(e, scan[t].key)
  IN /\ pc[t] = "scan"
     /\ e # NULL
     /\ \A i \in DOMAIN m.keys : m.status[i]
     /\ head' = IF head = e THEN next[e] ELSE head
     /\ next' = Unlinked(e, scan[t].prev)
     /\ posted' = [posted EXCEPT ![ent[e].r] = @ + 1]
     /\ scan' = [scan EXCEPT ![t].e = next[e]]
     /\ ent' = [ent EXCEPT ![e] = NULL]
     /\ UNCHANGED <<nobj, obj_mutex, dep_mutex, tail, pc, own, returned, seen>>

(* The end of the list: unlock, and return to obj_add or deps_add. *)
deps_complete_unlock(t) ==
  /\ pc[t] = "scan"
  /\ scan[t].e = NULL
  /\ dep_mutex' = NULL
  /\ Goes(t, IF scan[t].key = NULL THEN "return" ELSE "unlock")
  /\ scan' = [scan EXCEPT ![t] = NoLocals]
  /\ UNCHANGED <<nobj, obj_mutex, depVars, own, returned, posted, seen>>

-----------------------------------------------------------------------------
(* C_dep_req and deps_add, on the R session's thread.                      *)

(* Allocate the cell and copy the request. *)
deps_add(ks, c) ==
  /\ pc[Main] = "idle"
  /\ returned < MaxReq
  /\ ent[c] = NULL
  /\ ent' = [ent EXCEPT ![c] = [r |-> returned + 1, keys |-> ks,
                                status |-> [i \in DOMAIN ks |-> FALSE]]]
  /\ next' = [next EXCEPT ![c] = NULL]
  /\ own' = [c |-> c, i |-> 1]
  /\ Goes(Main, "check")
  /\ UNCHANGED <<nobj, obj_mutex, dep_mutex, head, tail, scan, returned, posted, seen>>

(* Mutant: the lookups are made with dep_mutex held. *)
deps_add_check_Locked ==
  LET c == own.c
      k == ent[c].keys[own.i]
  IN /\ pc[Main] = "check"
     /\ own.i <= Len(ent[c].keys)
     /\ IF dep_mutex = NULL
        THEN /\ dep_mutex' = Main
             /\ UNCHANGED <<ent, own, seen>>
        ELSE /\ dep_mutex = Main
             /\ obj_mutex = NULL
             /\ dep_mutex' = NULL
             /\ ent' = [ent EXCEPT ![c].status[own.i] = nobj[k] > 0]
             /\ own' = [own EXCEPT !.i = @ + 1]
             /\ seen' = [seen EXCEPT ![ent[c].r] = IF nobj[k] > 0 THEN @ \cup {own.i} ELSE @]
     /\ UNCHANGED <<nobj, obj_mutex, head, tail, next, pc, scan, returned, posted>>

(* obj_get(d, 0) for the next key: it takes obj_mutex for the lookup. *)
deps_add_check ==
  LET c == own.c
      k == ent[c].keys[own.i]
  IN /\ pc[Main] = "check"
     /\ own.i <= Len(ent[c].keys)
     /\ obj_mutex = NULL
     /\ ent' = [ent EXCEPT ![c].status[own.i] = nobj[k] > 0]
     /\ own' = [own EXCEPT !.i = @ + 1]
     /\ seen' = [seen EXCEPT ![ent[c].r] = IF nobj[k] > 0 THEN @ \cup {own.i} ELSE @]
     /\ UNCHANGED <<nobj, obj_mutex, dep_mutex, head, tail, next, pc, scan,
                    returned, posted>>

(* Mutant: deps_add returns without the safety check. *)
AfterLink_Return == "return"

(* deps_add goes on with deps_complete(0). *)
AfterLink == "complete"

(* Append the cell to the list, under dep_mutex. *)
deps_add_link ==
  LET c == own.c
  IN /\ pc[Main] = "check"
     /\ own.i > Len(ent[c].keys)
     /\ dep_mutex = NULL
     /\ IF head = NULL
        THEN head' = c /\ UNCHANGED next
        ELSE next' = [next EXCEPT ![tail] = c] /\ UNCHANGED head
     /\ tail' = c
     /\ scan' = [scan EXCEPT ![Main] = NoLocals]
     /\ Goes(Main, AfterLink)
     /\ UNCHANGED <<nobj, obj_mutex, dep_mutex, ent, own, returned, posted, seen>>

(* deps_add returns 0, and C_dep_req to R. *)
deps_add_return ==
  /\ pc[Main] = "return"
  /\ returned' = returned + 1
  /\ own' = NULL
  /\ Goes(Main, "idle")
  /\ UNCHANGED <<nobj, obj_mutex, dep_mutex, depVars, scan, posted, seen>>

-----------------------------------------------------------------------------
Init ==
  /\ nobj \in [Key -> 0 .. MaxObj]
  /\ obj_mutex = NULL
  /\ dep_mutex = NULL
  /\ head = NULL
  /\ tail = NULL
  /\ next = [c \in Cell |-> NULL]
  /\ ent = [c \in Cell |-> NULL]
  /\ pc = [t \in Thread |-> "idle"]
  /\ scan = [t \in Thread |-> NoLocals]
  /\ own = NULL
  /\ returned = 0
  /\ posted = [r \in Req |-> 0]
  /\ seen = [r \in Req |-> {}]

(* The steps of a call that has begun. *)
Continue(t) ==
  \/ obj_add_unlock(t)
  \/ deps_complete_lock(t)
  \/ deps_complete_keep(t)
  \/ deps_complete_post(t)
  \/ deps_complete_unlock(t)

deps_add_steps == deps_add_check \/ deps_add_link \/ deps_add_return

Next ==
  \/ \E t \in Thread, k \in Key : obj_add(t, k) \/ obj_remove(t, k)
  \/ \E t \in Thread : Continue(t)
  \/ \E ks \in KeyList, c \in Cell : deps_add(ks, c)
  \/ deps_add_steps

(* A thread that can go on with the call it has begun does so. *)
Fairness ==
  /\ \A t \in Thread : WF_vars(Continue(t))
  /\ WF_vars(deps_add_steps)

Spec == Init /\ [][Next]_vars
FairSpec == Spec /\ Fairness

-----------------------------------------------------------------------------
(* Properties.                                                             *)

(* Type correctness; the numbers of objects are those of a list. *)
TypeOK ==
  /\ nobj \in [Key -> 0 .. MaxObj]
  /\ obj_mutex \in Thread \cup {NULL}
  /\ dep_mutex \in Thread \cup {NULL}
  /\ head \in Cell \cup {NULL}
  /\ tail \in Cell \cup {NULL}
  /\ next \in [Cell -> Cell \cup {NULL}]
  /\ ent \in [Cell -> Request \cup {NULL}]
  /\ \A c \in Cell : ent[c] # NULL => DOMAIN ent[c].status = DOMAIN ent[c].keys
  /\ pc \in [Thread -> {"idle", "complete", "scan", "unlock", "check", "return"}]
  /\ scan \in [Thread -> [key : Key \cup {NULL}, e : Cell \cup {NULL},
                          prev : Cell \cup {NULL}]]
  /\ own \in Own \cup {NULL}
  /\ returned \in 0 .. MaxReq
  /\ posted \in [Req -> Nat]
  /\ seen \in [Req -> SUBSET Nat]

(* Nobody is in the middle of adding an object or a request. *)
Quiet == \A t \in Thread : pc[t] \in {"idle", "check"}

(* The list that deps_complete walks holds only allocated cells, of requests
   that were not posted yet, and no request is posted twice, whatever scans
   unlink and free while requests are added. *)
ListSound ==
  /\ \A c \in Reach : ent[c] # NULL /\ posted[ent[c].r] = 0
  /\ \A r \in Req : posted[r] <= 1

(* A request is posted only when each of its keys was in the store when
   deps_add looked, or was announced by obj_add to a list the request was on. *)
PostedComplete ==
  [][\A r \in Req :
       posted'[r] # posted[r] =>
         \E c \in Cell : ent[c] # NULL /\ ent[c].r = r /\ DOMAIN ent[c].keys \subseteq seen[r]]_vars

(* No request stays on the list once every key of it has been noticed: not
   even one that was complete before it was put there, or whose last key
   comes between two others' scans. *)
NoneForgotten ==
  Quiet => \A c \in Reach : ~(DOMAIN ent[c].keys \subseteq seen[ent[c].r])

(* Adding an object, which completes requests with obj_mutex held, ends: the
   two locks are never waited for in a circle, and the scan reaches the end of
   the list. *)
StoreUnlocks == obj_mutex # NULL ~> obj_mutex = NULL

(* A request for which dep.req has returned is tracked until it is posted. *)
Tracked ==
  \A r \in 1 .. returned : posted[r] > 0 \/ \E c \in Reach : ent[c].r = r
=============================================================================
