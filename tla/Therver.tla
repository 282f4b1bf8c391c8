------------------------------ MODULE Therver ------------------------------
(***************************************************************************)
(* The threaded TCP server (therver.c): an accept thread puts connections  *)
(* on a circular list with a sentinel, worker threads take them off and    *)
(* hand them to the process callback of osrv.c or ohsrv.c, the main thread *)
(* may shut the server down or fork.                                       *)
(*                                                                         *)
(* File descriptors are reused as soon as they are closed, so closing a    *)
(* stale one hits somebody else's connection.  Of a callback only its ends *)
(* are seen: it closes the socket and sets s = -1, leaves both alone, or   *)
(* sets s = -1 without closing.  A server has one of the two callbacks for *)
(* all connections; here each call may be to either.  A critical section   *)
(* of pool_mutex is one step.  The variables order, peer and lost are      *)
(* auxiliary: which entries are queued in which order, whose connection an *)
(* entry was made for, and which descriptors a callback has given up while *)
(* they were open.                                                         *)
(***************************************************************************)
EXTENDS Integers, Sequences, FiniteSets, SequencesExt

CONSTANTS
  Client,     \* clients
  FD,         \* file descriptors (bounds the number of open connections)
  Ent,        \* addresses calloc can return for a qentry_t
  Worker,     \* worker threads
  ROOT,       \* the address of t->root
  NULL

ASSUME TherverAssumption ==
  /\ NULL \notin Ent \cup FD \cup Client \cup {ROOT}
  /\ ROOT \notin Ent

VARIABLES
  active,       \* t->active
  listening,    \* t->ss is open
  backlog,      \* clients whose connection waits to be accepted
  file,         \* file[f]: the client at the other end of f, NULL if f is free
  next, prev,   \* the list pointers of entries and of the sentinel
  s,            \* s[e]: the c.s of an entry, NULL standing for -1
  peer,         \* auxiliary: peer[e], the client entry e was made for
  acceptor,     \* the accept thread: where it is and the entry it holds
  wpc,          \* where a worker is
  me,           \* me[w]: the entry worker w has taken off the list
  inherited,    \* clients whose sockets a forked child has kept open
  lost,         \* auxiliary: open descriptors no entry has any more
  order         \* auxiliary: the queued entries, oldest first

lists == <<next, prev, order>>
vars == <<active, listening, backlog, file, next, prev, s, peer, acceptor,
          wpc, me, inherited, lost, order>>

Connected == {file[f] : f \in FD} \ {NULL}

(* Entries in use: held by the accept thread, queued, or being served. *)
Serving == {me[w] : w \in Worker} \ {NULL}
Held == {acceptor.e} \ {NULL}
Live == Held \cup Range(order) \cup Serving

(* The clients at the other end of descriptors that were given up. *)
Forgotten == {file[f] : f \in lost}

close(f) == file' = [file EXCEPT ![f] = NULL]

-----------------------------------------------------------------------------
(* The accept thread.                                                      *)

AcceptorAt(pc) == acceptor.pc = pc
AcceptorGoes(pc) == acceptor' = [pc |-> pc, e |-> NULL]

(* while (t->active): go on, ... *)
accept_loop ==
  /\ AcceptorAt("loop")
  /\ active
  /\ AcceptorGoes("accept")
  /\ UNCHANGED <<active, listening, backlog, file, lists, s, peer, wpc, me, inherited, lost>>

(* ... or close the server socket and end. *)
accept_end ==
  /\ AcceptorAt("loop")
  /\ ~active
  /\ listening' = FALSE
  /\ AcceptorGoes("done")
  /\ UNCHANGED <<active, backlog, file, lists, s, peer, wpc, me, inherited, lost>>

(* accept() returns a connection, and calloc an entry for it, with all
   pointers zero. *)
accept(c, f, e) ==
  /\ AcceptorAt("accept")
  /\ c \in backlog
  /\ file[f] = NULL
  /\ e \notin Live
  /\ backlog' = backlog \ {c}
  /\ file' = [file EXCEPT ![f] = c]
  /\ s' = [s EXCEPT ![e] = f]
  /\ peer' = [peer EXCEPT ![e] = c]
  /\ next' = [next EXCEPT ![e] = NULL]
  /\ prev' = [prev EXCEPT ![e] = NULL]
  /\ acceptor' = [pc |-> "add", e |-> e]
  /\ UNCHANGED <<active, listening, wpc, me, inherited, lost, order>>

(* accept() returns a connection, but there is no memory for the entry: the
   socket is closed at once. *)
accept_no_memory(c, f) ==
  /\ AcceptorAt("accept")
  /\ c \in backlog
  /\ file[f] = NULL
  /\ backlog' = backlog \ {c}
  /\ AcceptorGoes("loop")
  /\ UNCHANGED <<active, listening, file, lists, s, peer, wpc, me, inherited, lost>>

(* accept() fails. *)
accept_error ==
  /\ AcceptorAt("accept")
  /\ AcceptorGoes("loop")
  /\ UNCHANGED <<active, listening, backlog, file, lists, s, peer, wpc, me, inherited, lost>>

(* Mutant: nobody is told about the new entry. *)
Broadcast_None == wpc

(* pthread_cond_broadcast: every waiting worker checks again. *)
Broadcast == [w \in Worker |-> IF wpc[w] = "wait" THEN "check" ELSE wpc[w]]

(* add_task: link the entry in before the sentinel, wake the workers. *)
add_task ==
  LET e == acceptor.e
      last == prev[ROOT]
  IN /\ AcceptorAt("add")
     /\ next' = [next EXCEPT ![e] = ROOT, ![last] = e]
     /\ prev' = [prev EXCEPT ![e] = last, ![ROOT] = e]
     /\ order' = Append(order, e)
     /\ wpc' = Broadcast
     /\ AcceptorGoes("loop")
     /\ UNCHANGED <<active, listening, backlog, file, s, peer, me, inherited, lost>>

-----------------------------------------------------------------------------
(* A worker.  "check" is the place where it holds pool_mutex and looks at    *)
(* active and at the list, before and after every wait.                    *)

worker_exit(w) ==
  /\ wpc[w] = "check"
  /\ ~active
  /\ wpc' = [wpc EXCEPT ![w] = "exit"]
  /\ UNCHANGED <<active, listening, backlog, file, lists, s, peer, acceptor, me, inherited, lost>>

(* Mutant: a worker waits before it looks at the list. *)
worker_wait_Always(w) ==
  /\ wpc[w] = "check"
  /\ active
  /\ wpc' = [wpc EXCEPT ![w] = "wait"]
  /\ UNCHANGED <<active, listening, backlog, file, lists, s, peer, acceptor, me, inherited, lost>>

worker_wait(w) ==
  /\ wpc[w] = "check"
  /\ active
  /\ next[ROOT] = ROOT
  /\ wpc' = [wpc EXCEPT ![w] = "wait"]
  /\ UNCHANGED <<active, listening, backlog, file, lists, s, peer, acceptor, me, inherited, lost>>

(* A wait may end without a broadcast. *)
worker_spurious(w) ==
  /\ wpc[w] = "wait"
  /\ wpc' = [wpc EXCEPT ![w] = "check"]
  /\ UNCHANGED <<active, listening, backlog, file, lists, s, peer, acceptor, me, inherited, lost>>

(* Mutant: the new first entry still points back at the one taken. *)
worker_take_NoBackLink(w) ==
  LET e == next[ROOT]
  IN /\ wpc[w] = "check"
     /\ active
     /\ e # ROOT
     /\ next' = [next EXCEPT ![ROOT] = next[e]]
     /\ order' = Tail(order)
     /\ me' = [me EXCEPT ![w] = e]
     /\ wpc' = [wpc EXCEPT ![w] = "process"]
     /\ UNCHANGED <<active, listening, backlog, file, prev, s, peer, acceptor, inherited, lost>>

(* Mutant: a worker that was woken does not look again. *)
worker_take_Unchecked(w) ==
  LET e == next[ROOT]
  IN /\ wpc[w] = "check"
     /\ active
     /\ next' = [next EXCEPT ![ROOT] = next[e]]
     /\ prev' = [prev EXCEPT ![next[e]] = ROOT]
     /\ order' = SubSeq(order, 2, Len(order))
     /\ me' = [me EXCEPT ![w] = e]
     /\ wpc' = [wpc EXCEPT ![w] = "process"]
     /\ UNCHANGED <<active, listening, backlog, file, s, peer, acceptor, inherited, lost>>

(* Take the first entry off the list; its own pointers stay as they are. *)
worker_take(w) ==
  LET e == next[ROOT]
  IN /\ wpc[w] = "check"
     /\ active
     /\ e # ROOT
     /\ next' = [next EXCEPT ![ROOT] = next[e]]
     /\ prev' = [prev EXCEPT ![next[e]] = ROOT]
     /\ order' = Tail(order)
     /\ me' = [me EXCEPT ![w] = e]
     /\ wpc' = [wpc EXCEPT ![w] = "process"]
     /\ UNCHANGED <<active, listening, backlog, file, s, peer, acceptor, inherited, lost>>

(* Mutant: the callback closes the socket and leaves c->s as it is. *)
do_process_NoReset(w) ==
  /\ wpc[w] = "process"
  /\ close(s[me[w]])
  /\ wpc' = [wpc EXCEPT ![w] = "cleanup"]
  /\ UNCHANGED <<active, listening, backlog, lists, s, peer, acceptor, me, inherited, lost>>

(* The callback serves the connection, closes the socket and says so. *)
do_process(w) ==
  /\ wpc[w] = "process"
  /\ close(s[me[w]])
  /\ s' = [s EXCEPT ![me[w]] = NULL]
  /\ wpc' = [wpc EXCEPT ![w] = "cleanup"]
  /\ UNCHANGED <<active, listening, backlog, lists, peer, acceptor, me, inherited, lost>>

(* The callback of osrv.c finds no memory and returns at once. *)
do_process_no_memory(w) ==
  /\ wpc[w] = "process"
  /\ wpc' = [wpc EXCEPT ![w] = "cleanup"]
  /\ UNCHANGED <<active, listening, backlog, file, lists, s, peer, acceptor, me, inherited, lost>>

(* http_connected finds no memory for the connection and leaves the socket
   alone; the callback of ohsrv.c, which ignores what it returns, takes the
   socket for closed. *)
http_connected_no_memory(w) ==
  /\ wpc[w] = "process"
  /\ s' = [s EXCEPT ![me[w]] = NULL]
  /\ lost' = lost \cup {s[me[w]]}
  /\ wpc' = [wpc EXCEPT ![w] = "cleanup"]
  /\ UNCHANGED <<active, listening, backlog, file, lists, peer, acceptor, me, inherited>>

(* Mutant: only the callback closes sockets. *)
worker_cleanup_NoClose(w) ==
  /\ wpc[w] = "cleanup"
  /\ me' = [me EXCEPT ![w] = NULL]
  /\ wpc' = [wpc EXCEPT ![w] = "check"]
  /\ UNCHANGED <<active, listening, backlog, file, lists, s, peer, acceptor, inherited, lost>>

(* Close the socket if the callback did not, and free the entry. *)
worker_cleanup(w) ==
  /\ wpc[w] = "cleanup"
  /\ IF s[me[w]] # NULL THEN close(s[me[w]]) ELSE UNCHANGED file
  /\ me' = [me EXCEPT ![w] = NULL]
  /\ wpc' = [wpc EXCEPT ![w] = "check"]
  /\ UNCHANGED <<active, listening, backlog, lists, s, peer, acceptor, inherited, lost>>

-----------------------------------------------------------------------------
(* The main thread and the clients.                                        *)

therver_shutdown ==
  /\ active
  /\ active' = FALSE
  /\ UNCHANGED <<listening, backlog, file, lists, s, peer, acceptor, wpc, me, inherited, lost>>

(* Mutant: the child closes the server socket only. *)
fork_NoQueue ==
  /\ inherited = {}
  /\ inherited' = Connected
  /\ UNCHANGED <<active, listening, backlog, file, lists, s, peer, acceptor, wpc, me, lost>>

(* fork with the handlers: the child has a copy of every open descriptor and
   closes the server socket and those of the queued entries. *)
fork ==
  /\ inherited = {}
  /\ inherited' = Connected \ {file[s[e]] : e \in Range(order)}
  /\ UNCHANGED <<active, listening, backlog, file, lists, s, peer, acceptor, wpc, me, lost>>

(* The child ends. *)
child_exit ==
  /\ inherited # {}
  /\ inherited' = {}
  /\ UNCHANGED <<active, listening, backlog, file, lists, s, peer, acceptor, wpc, me, lost>>

(* A client connects; the kernel queues the connection. *)
connect(c) ==
  /\ listening
  /\ c \notin backlog \cup Connected
  /\ backlog' = backlog \cup {c}
  /\ UNCHANGED <<active, listening, file, lists, s, peer, acceptor, wpc, me, inherited, lost>>

-----------------------------------------------------------------------------
(* After start_threads: an empty circular list, all threads started. *)
Init ==
  /\ active = TRUE
  /\ listening = TRUE
  /\ backlog = {}
  /\ file = [f \in FD |-> NULL]
  /\ next = [e \in Ent \cup {ROOT} |-> IF e = ROOT THEN ROOT ELSE NULL]
  /\ prev = [e \in Ent \cup {ROOT} |-> IF e = ROOT THEN ROOT ELSE NULL]
  /\ s = [e \in Ent |-> NULL]
  /\ peer = [e \in Ent |-> NULL]
  /\ acceptor = [pc |-> "loop", e |-> NULL]
  /\ wpc = [w \in Worker |-> "check"]
  /\ me = [w \in Worker |-> NULL]
  /\ inherited = {}
  /\ lost = {}
  /\ order = <<>>

accept_thread_run ==
  \/ accept_loop
  \/ accept_end
  \/ \E c \in Client, f \in FD, e \in Ent : accept(c, f, e)
  \/ \E c \in Client, f \in FD : accept_no_memory(c, f)
  \/ accept_error
  \/ add_task

worker_thread(w) ==
  \/ worker_exit(w)
  \/ worker_wait(w)
  \/ worker_take(w)
  \/ do_process(w)
  \/ do_process_no_memory(w)
  \/ http_connected_no_memory(w)
  \/ worker_cleanup(w)

Environment ==
  \/ therver_shutdown
  \/ fork
  \/ child_exit
  \/ \E c \in Client : connect(c)

Next ==
  \/ accept_thread_run
  \/ \E w \in Worker : worker_thread(w) \/ worker_spurious(w)
  \/ Environment

(* Threads that can go on do; the process callback ends, since every client
   finishes or goes away.  accept() blocks until somebody connects, so nothing
   is assumed of it. *)
Fairness ==
  /\ WF_vars(add_task)
  /\ \A w \in Worker : WF_vars(worker_thread(w))

Spec == Init /\ [][Next]_vars
FairSpec == Spec /\ Fairness

-----------------------------------------------------------------------------
(* Properties.                                                             *)

(* Type correctness; in particular no worker ever holds the sentinel, which is
   not a connection. *)
TypeOK ==
  /\ active \in BOOLEAN
  /\ listening \in BOOLEAN
  /\ backlog \in SUBSET Client
  /\ file \in [FD -> Client \cup {NULL}]
  /\ next \in [Ent \cup {ROOT} -> Ent \cup {ROOT, NULL}]
  /\ prev \in [Ent \cup {ROOT} -> Ent \cup {ROOT, NULL}]
  /\ s \in [Ent -> FD \cup {NULL}]
  /\ peer \in [Ent -> Client \cup {NULL}]
  /\ acceptor \in [pc : {"loop", "accept", "add", "done"}, e : Ent \cup {NULL}]
  /\ wpc \in [Worker -> {"check", "wait", "process", "cleanup", "exit"}]
  /\ me \in [Worker -> Ent \cup {NULL}]
  /\ inherited \in SUBSET Client
  /\ lost \in SUBSET FD
  /\ order \in Seq(Ent)

(* An entry's socket is its own client's connection for as long as the entry
   has one, although descriptors are closed by callbacks and reused by accept
   at any time: neither a callback nor the clean-up of worker_thread ever
   closes somebody else's connection. *)
OwnSocket == \A e \in Live : s[e] # NULL => file[s[e]] = peer[e]

(* Every open connection belongs to exactly one entry that will close it: no
   path through accept, the list, the callback and the clean-up loses one, save
   that of http_connected without memory, for all that the comment of its caller
   says ("it is guaranteed to shut down the socket"): what it gives up stays
   open, and belongs to no entry ever after. *)
NoSocketLeak ==
  \A f \in FD :
     /\ file[f] # NULL =>
          Cardinality({e \in Live : s[e] = f}) = IF f \in lost THEN 0 ELSE 1
     /\ f \in lost => file[f] # NULL

(* The i-th element of the circular list; the sentinel is both ends. *)
At(i) == IF i \in DOMAIN order THEN order[i] ELSE ROOT

(* The pointers form the circular list of the queued entries in the order in
   which they were accepted, and an entry is held by one thread only: workers
   that drop an entry with its pointers unreset never leave them in the list. *)
ListRep ==
  /\ \A i \in 0 .. Len(order) : next[At(i)] = At(i + 1) /\ prev[At(i + 1)] = At(i)
  /\ IsInjective(order)
  /\ Range(order) \cap (Serving \cup Held) = {}
  /\ Serving \cap Held = {}
  /\ \A w, v \in Worker : w # v /\ me[w] # NULL => me[w] # me[v]

(* No worker sleeps while a connection is queued. *)
NoIdleWorker == (\E w \in Worker : wpc[w] = "wait") => order = <<>>

(* A connection that was accepted is served and closed, unless the server is
   shut down or the callback gives the socket up. *)
AcceptedServed ==
  \A c \in Client :
     c \in Connected \ Forgotten ~> c \notin Connected \ Forgotten \/ ~active

(* A forked child interferes with no connection that waits for a worker: when
   its handler is done, it has only sockets open that no list of the parent
   holds at that moment, those being served, one that is being queued and those
   a callback has given up. *)
ChildKeepsServed ==
  [][LET open == {e \in Serving \cup Held : s[e] # NULL}
     IN  inherited' \subseteq inherited \cup {file[s[e]] : e \in open} \cup Forgotten]_vars
=============================================================================
