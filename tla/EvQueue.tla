------------------------------ MODULE EvQueue ------------------------------
(***************************************************************************)
(* The event queues (evqueue.c) and their use from R (revq.c).             *)
(*                                                                         *)
(* A queue is a doubly linked list with a mutex and a condition variable.  *)
(* Producers (HTTP workers posting to /work/, deps_complete, evq.push)     *)
(* create an entry and push it; consumers (evq.pop) take the head, waiting *)
(* for it with a deadline if they want to.  A popped entry belongs to an R *)
(* external pointer, from which it goes back to some queue or is freed.    *)
(*                                                                         *)
(* A critical section of a queue's mutex is one step: the mutex is never   *)
(* held across a wait.  The variable order is auxiliary: it says which     *)
(* entries a queue holds in which order, as evqueue.h promises, and is     *)
(* read by no guard.  Not modelled: ev_queue_notify_fd, which nothing      *)
(* calls, and failing allocations and mutex calls.                         *)
(***************************************************************************)
EXTENDS Integers, Sequences, FiniteSets, SequencesExt

CONSTANTS
  Queue,      \* the queues
  Entry,      \* addresses ev_create can return (bounds the heap)
  Consumer,   \* threads that pop
  NULL

ASSUME EvQueueAssumption == NULL \notin Entry /\ IsFiniteSet(Consumer)

VARIABLES
  head, tail,   \* the list ends of each queue
  prev, next,   \* the list pointers of each entry
  allocated,    \* entries that are allocated
  ref,          \* entries an R external pointer ("eventry") refers to
  pc,           \* what a consumer does: "idle", "sleep" (in timedwait), "awake"
  on,           \* the queue of the consumer's last call
  late,         \* the deadline of the consumer's call has passed
  got,          \* the entry C_evq_pop is copying out, or NULL
  order         \* auxiliary: the entries of each queue, front first

pointers == <<head, tail, prev, next>>
vars == <<head, tail, prev, next, allocated, ref, pc, on, late, got, order>>

Sleepers(q) == {c \in Consumer : pc[c] = "sleep" /\ on[c] = q}
Awake(q)    == {c \in Consumer : pc[c] = "awake" /\ on[c] = q}
Queued(q)   == Range(order[q])

-----------------------------------------------------------------------------
(* The list part of ev_push: first and only, before the head, after the
   tail. *)
Link(q, e, front) ==
  IF head[q] = NULL
  THEN /\ head' = [head EXCEPT ![q] = e]
       /\ tail' = [tail EXCEPT ![q] = e]
       /\ UNCHANGED <<prev, next>>
  ELSE IF front
  THEN /\ next' = [next EXCEPT ![e] = head[q]]
       /\ prev' = [prev EXCEPT ![head[q]] = e]
       /\ head' = [head EXCEPT ![q] = e]
       /\ UNCHANGED tail
  ELSE /\ prev' = [prev EXCEPT ![e] = tail[q]]
       /\ next' = [next EXCEPT ![tail[q]] = e]
       /\ tail' = [tail EXCEPT ![q] = e]
       /\ UNCHANGED head

(* Mutant: only the push into an empty queue signals. *)
Signal_FirstOnly(q) ==
  IF head[q] # NULL \/ Sleepers(q) = {}
  THEN UNCHANGED pc
  ELSE \E c \in Sleepers(q) : pc' = [pc EXCEPT ![c] = "awake"]

(* pthread_cond_signal: one of the waiting threads, if there is one, leaves
   the wait; it goes on when it has the mutex. *)
Signal(q) ==
  IF Sleepers(q) = {}
  THEN UNCHANGED pc
  ELSE \E c \in Sleepers(q) : pc' = [pc EXCEPT ![c] = "awake"]

ev_push(q, e, front) ==
  /\ Link(q, e, front)
  /\ Signal(q)
  /\ order' = [order EXCEPT ![q] = IF front THEN <<e>> \o @ ELSE Append(@, e)]

(* Mutant: the removed entry keeps its pointers. *)
ev_rm_NoReset(q, e) ==
  /\ head' = IF e = head[q] THEN [head EXCEPT ![q] = next[e]] ELSE head
  /\ tail' = IF e = tail[q] THEN [tail EXCEPT ![q] = prev[e]] ELSE tail
  /\ prev' = [x \in Entry |-> IF x = next[e] THEN prev[e] ELSE prev[x]]
  /\ next' = [x \in Entry |-> IF x = prev[e] THEN next[e] ELSE next[x]]

(* Close the gap the entry leaves, and zero its pointers to allow
   re-insertion. *)
ev_rm_(q, e) ==
  /\ head' = IF e = head[q] THEN [head EXCEPT ![q] = next[e]] ELSE head
  /\ tail' = IF e = tail[q] THEN [tail EXCEPT ![q] = prev[e]] ELSE tail
  /\ prev' = [x \in Entry |-> IF x = e THEN NULL
                              ELSE IF x = next[e] THEN prev[e] ELSE prev[x]]
  /\ next' = [x \in Entry |-> IF x = e THEN NULL
                              ELSE IF x = prev[e] THEN next[e] ELSE next[x]]

(* The end of ev_pop and ev_pop_wait on a non-empty queue, and entry2R: the
   head of the list now belongs to an R reference.  The caller either keeps
   the reference or goes on to copy the payload out. *)
TakeHead(c, q) ==
  /\ head[q] # NULL
  /\ ev_rm_(q, head[q])
  /\ order' = [order EXCEPT ![q] = Tail(@)]
  /\ ref' = ref \cup {head[q]}
  /\ got' \in {got, [got EXCEPT ![c] = head[q]]}

-----------------------------------------------------------------------------
(* Producers.                                                              *)

(* A new entry: POST /work/ and deps_complete push at the end, evq.push of a
   raw vector at either end. *)
PushNew(q, e, front) ==
  /\ e \notin allocated
  /\ allocated' = allocated \cup {e}
  /\ ev_push(q, e, front)
  /\ UNCHANGED <<ref, on, late, got>>

(* Mutant: the R reference keeps the entry it pushed. *)
C_evq_push_KeepRef(q, e, front) ==
  /\ e \in ref
  /\ \A c \in Consumer : got[c] # e
  /\ ev_push(q, e, front)
  /\ UNCHANGED <<allocated, ref, on, late, got>>

(* evq.push of an entry popped earlier, from this or another queue: the queue
   owns it again. *)
C_evq_push(q, e, front) ==
  /\ e \in ref
  /\ \A c \in Consumer : got[c] # e
  /\ ev_push(q, e, front)
  /\ ref' = ref \ {e}
  /\ UNCHANGED <<allocated, on, late, got>>

-----------------------------------------------------------------------------
(* Consumers.                                                              *)

CanCall(c) == pc[c] = "idle" /\ got[c] = NULL

(* ev_pop, or ev_pop_wait that need not wait. *)
ev_pop(c, q) ==
  /\ CanCall(c)
  /\ TakeHead(c, q)
  /\ UNCHANGED <<allocated, pc, on, late>>

(* ev_pop_wait computes its deadline, finds the queue empty and waits. *)
ev_pop_wait(c, q) ==
  /\ CanCall(c)
  /\ head[q] = NULL
  /\ pc' = [pc EXCEPT ![c] = "sleep"]
  /\ on' = [on EXCEPT ![c] = q]
  /\ late' = [late EXCEPT ![c] = FALSE]
  /\ UNCHANGED <<pointers, allocated, ref, got, order>>

(* The deadline passes. *)
Deadline(c) ==
  /\ pc[c] # "idle"
  /\ ~late[c]
  /\ late' = [late EXCEPT ![c] = TRUE]
  /\ UNCHANGED <<pointers, allocated, ref, pc, on, got, order>>

(* pthread_cond_timedwait ends without a signal. *)
Wakeup(c) ==
  /\ pc[c] = "sleep"
  /\ pc' = [pc EXCEPT ![c] = "awake"]
  /\ UNCHANGED <<pointers, allocated, ref, on, late, got, order>>

(* ETIMEDOUT: that is bound to happen, a spurious wakeup is not. *)
TimedOut(c) == late[c] /\ Wakeup(c)
Spurious(c) == ~late[c] /\ Wakeup(c)

(* The thread has the mutex again: it takes the head ... *)
Resume_take(c) ==
  /\ pc[c] = "awake"
  /\ TakeHead(c, on[c])
  /\ pc' = [pc EXCEPT ![c] = "idle"]
  /\ UNCHANGED <<allocated, on, late>>

(* Mutant: every round of the loop waits for the full timeout. *)
Resume_empty_NewDeadline(c) ==
  /\ pc[c] = "awake"
  /\ head[on[c]] = NULL
  /\ pc' = [pc EXCEPT ![c] = "sleep"]
  /\ late' = [late EXCEPT ![c] = FALSE]
  /\ UNCHANGED <<pointers, allocated, ref, on, got, order>>

(* Mutant: the result of ev_pop_wait is wrapped before it is tested. *)
Resume_empty_Wraps(c) ==
  /\ pc[c] = "awake"
  /\ head[on[c]] = NULL
  /\ pc' = [pc EXCEPT ![c] = IF late[c] THEN "idle" ELSE "sleep"]
  /\ ref' = IF late[c] THEN ref \cup {NULL} ELSE ref
  /\ UNCHANGED <<pointers, allocated, on, late, got, order>>

(* ... or finds that another thread was faster, and waits again until the
   deadline of the call, which does not move. *)
Resume_empty(c) ==
  /\ pc[c] = "awake"
  /\ head[on[c]] = NULL
  /\ pc' = [pc EXCEPT ![c] = IF late[c] THEN "idle" ELSE "sleep"]
  /\ UNCHANGED <<pointers, allocated, ref, on, late, got, order>>

Resume(c) == Resume_take(c) \/ Resume_empty(c)

-----------------------------------------------------------------------------
(* Releasing entries.                                                      *)

(* The rest of C_evq_pop without reference: copy the payload, ev_free, zero
   the external pointer. *)
C_evq_pop_copy(c) ==
  /\ got[c] # NULL
  /\ allocated' = allocated \ {got[c]}
  /\ ref' = ref \ {got[c]}
  /\ got' = [got EXCEPT ![c] = NULL]
  /\ UNCHANGED <<pointers, pc, on, late, order>>

(* The vector for the copy cannot be allocated: Rf_error leaves the entry to
   the finalizer. *)
C_evq_pop_error(c) ==
  /\ got[c] # NULL
  /\ got' = [got EXCEPT ![c] = NULL]
  /\ UNCHANGED <<pointers, allocated, ref, pc, on, late, order>>

(* The finalizer of a reference that is no longer used. *)
eventry_R_free(e) ==
  /\ e \in ref
  /\ \A c \in Consumer : got[c] # e
  /\ allocated' = allocated \ {e}
  /\ ref' = ref \ {e}
  /\ UNCHANGED <<pointers, pc, on, late, got, order>>

-----------------------------------------------------------------------------
Init ==
  /\ head = [q \in Queue |-> NULL]
  /\ tail = [q \in Queue |-> NULL]
  /\ prev = [e \in Entry |-> NULL]
  /\ next = [e \in Entry |-> NULL]
  /\ allocated = {}
  /\ ref = {}
  /\ pc = [c \in Consumer |-> "idle"]
  /\ on \in [Consumer -> Queue]
  /\ late = [c \in Consumer |-> FALSE]
  /\ got = [c \in Consumer |-> NULL]
  /\ order = [q \in Queue |-> <<>>]

Push ==
  \E q \in Queue, e \in Entry, front \in BOOLEAN :
    PushNew(q, e, front) \/ C_evq_push(q, e, front)

Consume(c) ==
  \/ \E q \in Queue : ev_pop(c, q) \/ ev_pop_wait(c, q)
  \/ Deadline(c)
  \/ TimedOut(c)
  \/ Spurious(c)
  \/ Resume(c)
  \/ C_evq_pop_copy(c)
  \/ C_evq_pop_error(c)

Next ==
  \/ Push
  \/ \E c \in Consumer : Consume(c)
  \/ \E e \in Entry : eventry_R_free(e)

(* Time passes, a timed wait whose deadline has passed ends, and a thread that
   is out of the wait gets the mutex, which nobody holds for long. *)
Fairness ==
  \A c \in Consumer :
    WF_vars(Deadline(c)) /\ WF_vars(TimedOut(c)) /\ WF_vars(Resume(c))

Spec == Init /\ [][Next]_vars
FairSpec == Spec /\ Fairness

-----------------------------------------------------------------------------
(* Properties.                                                             *)

(* Type correctness; in particular an R reference never wraps a NULL entry. *)
TypeOK ==
  /\ head \in [Queue -> Entry \cup {NULL}]
  /\ tail \in [Queue -> Entry \cup {NULL}]
  /\ prev \in [Entry -> Entry \cup {NULL}]
  /\ next \in [Entry -> Entry \cup {NULL}]
  /\ allocated \in SUBSET Entry
  /\ ref \in SUBSET Entry
  /\ pc \in [Consumer -> {"idle", "sleep", "awake"}]
  /\ on \in [Consumer -> Queue]
  /\ late \in [Consumer -> BOOLEAN]
  /\ got \in [Consumer -> Entry \cup {NULL}]
  /\ order \in [Queue -> Seq(Entry)]

(* Every allocated entry has exactly one owner, a place in one queue or an R
   reference, and nobody owns a freed entry: moving entries between queues and
   references, copying them out and finalizing never frees an entry twice or
   one that a queue still links. *)
OwnedOnce ==
  /\ \A q \in Queue : IsInjective(order[q]) /\ Queued(q) \cap ref = {}
  /\ \A q, r \in Queue : q # r => Queued(q) \cap Queued(r) = {}
  /\ allocated = ref \cup UNION {Queued(q) : q \in Queue}
  /\ \A c \in Consumer : got[c] # NULL => got[c] \in ref
  /\ \A c, d \in Consumer : c # d /\ got[c] # NULL => got[c] # got[d]

(* Neighbour(s, i): the pointer to the i-th entry of a list. *)
Neighbour(s, i) == IF i \in DOMAIN s THEN s[i] ELSE NULL

(* The list pointers of a queue are those of the promised order, from both
   ends, and entries that are on no queue have none, whatever sequence of
   pushes at either end, pops and re-insertions came before. *)
ListRep ==
  /\ \A q \in Queue :
       LET s == order[q] IN
         /\ head[q] = Neighbour(s, 1)
         /\ tail[q] = Neighbour(s, Len(s))
         /\ \A i \in DOMAIN s : /\ prev[s[i]] = Neighbour(s, i - 1)
                                /\ next[s[i]] = Neighbour(s, i + 1)
  /\ \A e \in Entry :
       (\A q \in Queue : e \notin Queued(q)) => prev[e] = NULL /\ next[e] = NULL

(* No wakeup is lost: as long as a consumer sleeps, every entry of its queue
   has a consumer that is already on its way to it. *)
NoLostWakeup ==
  \A q \in Queue :
    Sleepers(q) # {} => Len(order[q]) <= Cardinality(Awake(q))

(* ev_pop_wait returns, with or without an entry, although others may take
   the entries it is woken for again and again. *)
PopWaitReturns == \A c \in Consumer : pc[c] # "idle" ~> pc[c] = "idle"
=============================================================================
