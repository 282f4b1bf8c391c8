---------------------------- MODULE DepsProofs ----------------------------
(***************************************************************************)
(* Dependency tracking notices what it should for any number of keys,      *)
(* requests, cells and threads: proofs about module Deps.                  *)
(*                                                                         *)
(* The list is a line: no cell of it points at the head and no two point   *)
(* at the same cell (Line).  This survives also the appending after a tail *)
(* that was freed, which leaves the new cell off the list; so the proofs   *)
(* are about the cells that are on it.  A cell ahead of the scan has been  *)
(* announced the key and not been marked yet, a cell behind it is marked   *)
(* and not complete (Noticed).                                             *)
(***************************************************************************)
EXTENDS Deps, TLAPS

-----------------------------------------------------------------------------
(* Following pointers.                                                     *)

Pointers == [Cell -> Cell \cup {NULL}]

(* No pointer leads out of S. *)
Closed(nx, S) == \A d \in S : nx[d] \in S \cup {NULL}

(* From(x), for any pointers. *)
Lead(nx, x) ==
  {c \in Cell : \A S \in SUBSET Cell : x \in S \cup {NULL} /\ Closed(nx, S) => c \in S}

(* The cells of Deps in terms of Lead. *)
LEMMA FromIsLead ==
  /\ \A x : From(x) = Lead(next, x)
  /\ Reach = Lead(next, head) /\ Reach' = Lead(next', head')
  BY DEF From, Lead, Closed, Reach

(* It is in every set that has x and is closed, ... *)
LEMMA LeadLeast ==
  ASSUME NEW nx, NEW x, NEW S \in SUBSET Cell, x \in S \cup {NULL}, Closed(nx, S)
  PROVE  Lead(nx, x) \subseteq S
  BY DEF Lead

(* ... and it is one itself. *)
LEMMA LeadClosed ==
  ASSUME NEW nx \in Pointers, NEW x \in Cell \cup {NULL}
  PROVE  /\ Lead(nx, x) \in SUBSET Cell
         /\ x \in Lead(nx, x) \cup {NULL}
         /\ Closed(nx, Lead(nx, x))
<1>1. Lead(nx, x) \in SUBSET Cell /\ x \in Lead(nx, x) \cup {NULL}
  BY DEF Lead
<1>2. ASSUME NEW d \in Lead(nx, x), nx[d] # NULL PROVE nx[d] \in Lead(nx, x)
  <2>1. nx[d] \in Cell
    BY <1>1, <1>2 DEF Pointers
  <2>2. ASSUME NEW S \in SUBSET Cell, x \in S \cup {NULL}, Closed(nx, S)
        PROVE  nx[d] \in S
    <3>1. d \in S BY <2>2 DEF Lead
    <3> QED BY <1>2, <2>2, <3>1 DEF Closed
  <2> QED BY <2>1, <2>2 DEF Lead
<1> QED BY <1>1, <1>2 DEF Closed

(* Nothing is reached from NULL. *)
LEMMA LeadNull ==
  ASSUME NEW nx
  PROVE  Lead(nx, NULL) = {}
<1>1. {} \in SUBSET Cell /\ NULL \in {} \cup {NULL} /\ Closed(nx, {})
  BY DEF Closed
<1> QED BY <1>1, LeadLeast

(* Pointers of other cells do not matter. *)
LEMMA LeadFrame ==
  ASSUME NEW nx \in Pointers, NEW x \in Cell \cup {NULL}, NEW nx2 \in Pointers,
         \A d \in Lead(nx, x) : nx2[d] = nx[d]
  PROVE  Lead(nx2, x) = Lead(nx, x)
<1> DEFINE L == Lead(nx, x)
           M == Lead(nx2, x)
<1>1. L \in SUBSET Cell /\ x \in L \cup {NULL} /\ Closed(nx, L)
  BY LeadClosed
<1>2. M \in SUBSET Cell /\ x \in M \cup {NULL} /\ Closed(nx2, M)
  BY LeadClosed
<1> HIDE DEF L, M
<1>3. \A d \in L : nx2[d] = nx[d]
  BY DEF L
<1>4. M \subseteq L
  <2>1. Closed(nx2, L) BY <1>1, <1>3 DEF Closed
  <2> QED BY <1>1, <2>1, LeadLeast DEF M
<1>5. L \subseteq M
  <2>1. Closed(nx, L \cap M) BY <1>1, <1>2, <1>3 DEF Closed
  <2>2. L \cap M \in SUBSET Cell /\ x \in (L \cap M) \cup {NULL} BY <1>1, <1>2
  <2>3. L \subseteq L \cap M BY <2>1, <2>2, LeadLeast DEF L
  <2> QED BY <2>3
<1> QED BY <1>4, <1>5 DEF L, M

(* What is reached from a reached cell is reached. *)
LEMMA LeadWithin ==
  ASSUME NEW nx \in Pointers, NEW h \in Cell \cup {NULL}, NEW x \in Lead(nx, h) \cup {NULL}
  PROVE  Lead(nx, x) \subseteq Lead(nx, h)
  BY LeadClosed, LeadLeast

(* A cell and what is reached from its successor. *)
LEMMA LeadStep ==
  ASSUME NEW nx \in Pointers, NEW e \in Cell
  PROVE  Lead(nx, e) = {e} \cup Lead(nx, nx[e])
<1> DEFINE L == Lead(nx, e)
           M == Lead(nx, nx[e])
<1>0. nx[e] \in Cell \cup {NULL} /\ e # NULL
  BY DepsAssumption DEF Pointers
<1>1. L \in SUBSET Cell /\ e \in L \cup {NULL} /\ Closed(nx, L)
  BY LeadClosed
<1>2. M \in SUBSET Cell /\ nx[e] \in M \cup {NULL} /\ Closed(nx, M)
  BY <1>0, LeadClosed
<1> HIDE DEF L, M
<1>3. L \subseteq {e} \cup M
  <2>1. Closed(nx, {e} \cup M) BY <1>2 DEF Closed
  <2>2. {e} \cup M \in SUBSET Cell /\ e \in {e} \cup M BY <1>2
  <2> QED BY <2>1, <2>2, LeadLeast DEF L
<1>4. e \in L
  BY <1>0, <1>1
<1>5. M \subseteq L
  <2>1. nx[e] \in L \cup {NULL} BY <1>1, <1>4 DEF Closed
  <2> QED BY <1>1, <2>1, LeadLeast DEF M
<1> QED BY <1>3, <1>4, <1>5 DEF L, M

(* A cell that is reached is where the walk starts or has a predecessor. *)
LEMMA LeadPred ==
  ASSUME NEW nx \in Pointers, NEW x \in Cell \cup {NULL}, NEW c \in Lead(nx, x), c # x
  PROVE  \E d \in Lead(nx, x) : nx[d] = c
<1> DEFINE L == Lead(nx, x)
<1>1. L \in SUBSET Cell /\ x \in L \cup {NULL} /\ Closed(nx, L)
  BY LeadClosed
<1> HIDE DEF L
<1> SUFFICES ASSUME \A d \in L : nx[d] # c PROVE FALSE
  BY DEF L
<1>2. Closed(nx, L \ {c})
  BY <1>1 DEF Closed
<1>3. L \ {c} \in SUBSET Cell /\ x \in (L \ {c}) \cup {NULL}
  BY <1>1
<1>4. L \subseteq L \ {c}
  BY <1>2, <1>3, LeadLeast DEF L
<1> QED BY <1>4 DEF L

-----------------------------------------------------------------------------
(* The list is a line.                                                     *)

Line(nx, h) ==
  /\ \A c \in Lead(nx, h) : nx[c] # h
  /\ \A c, d \in Lead(nx, h) : nx[c] = nx[d] /\ nx[c] # NULL => c = d

(* A walk along the list does not come back. *)
LEMMA LineAcyclic ==
  ASSUME NEW nx \in Pointers, NEW h \in Cell, Line(nx, h), NEW e \in Lead(nx, h)
  PROVE  e \notin Lead(nx, nx[e])
<1> DEFINE L == Lead(nx, h)
           A == Lead(nx, nx[e])
<1>1. L \in SUBSET Cell /\ h \in L \cup {NULL} /\ Closed(nx, L) /\ h # NULL
  BY LeadClosed, DepsAssumption
<1>2. nx[e] \in L \cup {NULL} /\ nx[e] \in Cell \cup {NULL}
  BY <1>1 DEF Closed
<1>3. A \subseteq L
  BY <1>2, LeadWithin
<1>4. \A x \in A : x = nx[e] \/ \E d \in A : nx[d] = x
  BY <1>2, LeadPred
<1>5. \A x \in A : x # NULL
  BY <1>1, <1>3, DepsAssumption
<1>6. /\ \A c \in L : nx[c] # h
      /\ \A c, d \in L : nx[c] = nx[d] /\ nx[c] # NULL => c = d
  BY DEF Line
<1>7. e \in L
  OBVIOUS
<1> SUFFICES ASSUME e \in A PROVE FALSE
  OBVIOUS
<1> HIDE DEF L, A
<1>8. h \notin A
  BY <1>3, <1>4, <1>6, <1>7
<1>9. ASSUME NEW d \in L \ A, nx[d] \in A PROVE FALSE
  <2>1. nx[d] # NULL BY <1>5, <1>9
  <2>2. PICK y \in A : nx[y] = nx[d] BY <1>4, <1>9
  <2>3. y = d BY <1>3, <1>6, <2>1, <2>2
  <2> QED BY <2>3
<1>10. Closed(nx, L \ A)
  BY <1>1, <1>9 DEF Closed
<1>11. L \ A \in SUBSET Cell /\ h \in (L \ A) \cup {NULL}
  BY <1>1, <1>8
<1>12. L \subseteq L \ A
  BY <1>10, <1>11, LeadLeast DEF L
<1> QED BY <1>7, <1>12

(* The walk of the list is at e, with prev = p. *)
At(nx, h, e, p) == IF p = NULL THEN h = e ELSE p \in Lead(nx, h) /\ nx[p] = e

(* The pointers nx2, h2 are nx, h with the cell e unlinked. *)
Unlinks(nx, h, e, p, nx2, h2) ==
  /\ nx2 = IF p = NULL THEN nx ELSE [nx EXCEPT ![p] = nx[e]]
  /\ h2 = IF h = e THEN nx[e] ELSE h

(* deps_complete unlinks the cell e that it has come to. *)
LEMMA LineUnlink ==
  ASSUME NEW nx \in Pointers, NEW h \in Cell, Line(nx, h), NEW e \in Lead(nx, h),
         NEW p \in Cell \cup {NULL}, At(nx, h, e, p),
         NEW nx2, NEW h2, Unlinks(nx, h, e, p, nx2, h2)
  PROVE  /\ nx2 \in Pointers /\ h2 \in Cell \cup {NULL}
         /\ Lead(nx2, h2) = Lead(nx, h) \ {e}
         /\ Line(nx2, h2)
         /\ Lead(nx2, nx[e]) = Lead(nx, nx[e])
         /\ At(nx2, h2, nx[e], p)
<1> DEFINE L == Lead(nx, h)
           M == Lead(nx2, h2)
<1>0. /\ nx2 = (IF p = NULL THEN nx ELSE [nx EXCEPT ![p] = nx[e]])
      /\ h2 = (IF h = e THEN nx[e] ELSE h)
      /\ IF p = NULL THEN h = e ELSE p \in L /\ nx[p] = e
  BY DEF At, Unlinks
<1>1. L \in SUBSET Cell /\ h \in L /\ Closed(nx, L) /\ h # NULL
  BY LeadClosed, DepsAssumption
<1>2. e \in L /\ e \in Cell /\ nx[e] \in Cell \cup {NULL} /\ nx[e] \in L \cup {NULL}
  BY <1>1 DEF Closed, Pointers
<1>3. nx2 \in Pointers /\ h2 \in Cell \cup {NULL}
  BY <1>0, <1>2 DEF Pointers
<1>4. /\ \A d \in Cell : d # p => nx2[d] = nx[d]
      /\ p # NULL => nx2[p] = nx[e] /\ p \in L /\ nx[p] = e
      /\ p = NULL => h = e
  BY <1>0 DEF Pointers
<1>5. /\ \A c \in L : nx[c] # h
      /\ \A c, d \in L : nx[c] = nx[d] /\ nx[c] # NULL => c = d
      /\ e # NULL
  BY <1>2, DepsAssumption DEF Line
<1>6. M \in SUBSET Cell /\ h2 \in M \cup {NULL} /\ Closed(nx2, M)
  BY <1>3, LeadClosed
<1>7. e \notin Lead(nx, nx[e])
  BY LineAcyclic
<1>8. nx[e] # e
  <2>1. nx[e] \in Lead(nx, nx[e]) \cup {NULL} BY <1>2, LeadClosed
  <2> QED BY <1>5, <1>7, <2>1
<1>9. \A d \in L \ {e} : d # p => nx[d] # e
  BY <1>4, <1>5
<1>10. p # NULL => h # e /\ p # e
  BY <1>4, <1>5, <1>8
<1> HIDE DEF L, M
<1>11. M \subseteq L \ {e}
  <2>1. Closed(nx2, L \ {e})
    <3> SUFFICES ASSUME NEW d \in L \ {e} PROVE nx2[d] \in (L \ {e}) \cup {NULL}
      BY DEF Closed
    <3>1. d \in Cell BY <1>1
    <3>2. CASE d = p BY <1>2, <1>4, <1>8, <3>2, <3>1, DepsAssumption
    <3>3. CASE d # p BY <1>1, <1>4, <1>9, <3>1, <3>3 DEF Closed
    <3> QED BY <3>2, <3>3
  <2>2. h2 \in (L \ {e}) \cup {NULL} BY <1>0, <1>1, <1>2, <1>8
  <2>3. L \ {e} \in SUBSET Cell BY <1>1
  <2> QED BY <2>1, <2>2, <2>3, LeadLeast DEF M
<1>12. L \ {e} \subseteq M
  <2>1. CASE p = NULL
    <3>1. nx2 = nx /\ h2 = nx[e] BY <1>0, <1>4, <2>1
    <3>2. Closed(nx, M \cup {e}) BY <1>6, <3>1 DEF Closed
    <3>3. M \cup {e} \in SUBSET Cell /\ h \in M \cup {e} BY <1>2, <1>4, <1>6, <2>1
    <3>4. L \subseteq M \cup {e} BY <3>2, <3>3, LeadLeast DEF L
    <3> QED BY <3>4
  <2>2. CASE p # NULL
    <3>0. h2 = h /\ h \in M BY <1>0, <1>1, <1>6, <1>10, <2>2
    <3>1. p \in M
      <4> SUFFICES ASSUME p \notin M PROVE FALSE OBVIOUS
      <4>1. Closed(nx, M) BY <1>4, <1>6 DEF Closed
      <4>2. L \subseteq M BY <1>6, <3>0, <4>1, LeadLeast DEF L
      <4> QED BY <1>4, <2>2, <4>2
    <3>2. nx[e] \in M \cup {NULL} BY <1>4, <1>6, <2>2, <3>1 DEF Closed
    <3>3. Closed(nx, M \cup {e})
      <4> SUFFICES ASSUME NEW d \in M \cup {e} PROVE nx[d] \in (M \cup {e}) \cup {NULL}
        BY DEF Closed
      <4>1. CASE d = e BY <3>2, <4>1
      <4>2. CASE d = p BY <1>4, <2>2, <4>2
      <4>3. CASE d # e /\ d # p BY <1>4, <1>6, <4>3 DEF Closed
      <4> QED BY <4>1, <4>2, <4>3
    <3>4. M \cup {e} \in SUBSET Cell /\ h \in M \cup {e} BY <1>2, <1>6, <3>0
    <3>5. L \subseteq M \cup {e} BY <3>3, <3>4, LeadLeast DEF L
    <3> QED BY <3>5
  <2> QED BY <2>1, <2>2
<1>13. M = L \ {e}
  BY <1>11, <1>12
<1>14. Line(nx2, h2)
  <2>0. \A c \in M : c \in Cell /\ c \in L /\ c # e BY <1>1, <1>13
  <2>1. ASSUME NEW c \in M PROVE nx2[c] # h2
    <3>1. CASE p = NULL
      <4>1. nx2[c] = nx[c] /\ h2 = nx[e] BY <1>0, <1>4, <3>1
      <4>2. CASE nx[e] = NULL
        BY <2>1, <4>1, <4>2, LeadNull DEF M
      <4>3. CASE nx[e] # NULL BY <1>2, <1>5, <2>0, <4>1, <4>3
      <4> QED BY <4>2, <4>3
    <3>2. CASE p # NULL
      <4>1. h2 = h BY <1>0, <1>10, <3>2
      <4>2. CASE c = p BY <1>2, <1>4, <1>5, <3>2, <4>1, <4>2
      <4>3. CASE c # p BY <1>4, <1>5, <2>0, <4>1, <4>3
      <4> QED BY <4>2, <4>3
    <3> QED BY <3>1, <3>2
  <2>2. ASSUME NEW c \in M, NEW d \in M, nx2[c] = nx2[d], nx2[c] # NULL PROVE c = d
    <3>1. CASE c # p /\ d # p
      BY <1>4, <1>5, <2>0, <2>2, <3>1
    <3>2. CASE c = p /\ d # p
      <4>1. nx[e] = nx[d] /\ nx[e] # NULL BY <1>4, <2>0, <2>2, <3>2, DepsAssumption
      <4> QED BY <1>2, <1>5, <2>0, <4>1
    <3>3. CASE c # p /\ d = p
      <4>1. nx[e] = nx[c] /\ nx[e] # NULL BY <1>4, <2>0, <2>2, <3>3, DepsAssumption
      <4> QED BY <1>2, <1>5, <2>0, <4>1
    <3> QED BY <3>1, <3>2, <3>3
  <2> QED BY <2>1, <2>2 DEF Line, M
<1>15. Lead(nx2, nx[e]) = Lead(nx, nx[e])
  <2>1. \A d \in Lead(nx, nx[e]) : d \in Cell /\ d # p
    <3>1. Lead(nx, nx[e]) \in SUBSET Cell /\ Closed(nx, Lead(nx, nx[e])) BY <1>2, LeadClosed
    <3>2. p \in Lead(nx, nx[e]) => p # NULL BY <3>1, DepsAssumption
    <3>3. p \in Lead(nx, nx[e]) => e \in Lead(nx, nx[e]) BY <1>4, <1>5, <3>1, <3>2 DEF Closed
    <3> QED BY <1>7, <3>1, <3>3
  <2>2. \A d \in Lead(nx, nx[e]) : nx2[d] = nx[d] BY <1>4, <2>1
  <2> QED BY <1>2, <1>3, <2>2, LeadFrame
<1>16. At(nx2, h2, nx[e], p)
  BY <1>0, <1>4, <1>10, <1>13 DEF At, M
<1> QED BY <1>3, <1>13, <1>14, <1>15, <1>16 DEF L, M

(* deps_add puts a cell that is not on the list behind the cell that tail
   points to, be that the last cell of the list or a freed one. *)
LEMMA LineAppend ==
  ASSUME NEW nx \in Pointers, NEW h \in Cell, Line(nx, h),
         NEW c \in Cell, c \notin Lead(nx, h), nx[c] = NULL,
         NEW tl \in Cell, NEW nx2, nx2 = [nx EXCEPT ![tl] = c]
  PROVE  /\ nx2 \in Pointers
         /\ Lead(nx2, h) \subseteq Lead(nx, h) \cup {c}
         /\ Line(nx2, h)
<1> DEFINE L == Lead(nx, h)
           M == Lead(nx2, h)
<1>1. L \in SUBSET Cell /\ h \in L /\ Closed(nx, L) /\ h # NULL
  BY LeadClosed, DepsAssumption
<1>2. nx2 \in Pointers /\ nx2[tl] = c /\ \A d \in Cell : d # tl => nx2[d] = nx[d]
  BY DEF Pointers
<1>3. /\ \A d \in L : nx[d] # h
      /\ \A b, d \in L : nx[b] = nx[d] /\ nx[b] # NULL => b = d
      /\ \A d \in L : nx[d] # c
      /\ c \notin L /\ c # h /\ c # NULL
  BY <1>1, DepsAssumption DEF Line, Closed
<1> HIDE DEF L, M
<1>4. CASE tl \notin L
  <2>1. \A d \in L : nx2[d] = nx[d]
    BY <1>1, <1>2, <1>4
  <2>2. Lead(nx2, h) = L
    BY <1>2, <2>1, LeadFrame DEF L
  <2>3. \A d \in L : nx2[d] # h
    BY <1>3, <2>1
  <2>4. \A b, d \in L : nx2[b] = nx2[d] /\ nx2[b] # NULL => b = d
    BY <1>3, <2>1
  <2>5. Line(nx2, h)
    BY ONLY <2>2, <2>3, <2>4 DEF Line
  <2> QED BY <1>2, <2>2, <2>5 DEF L
<1>5. CASE tl \in L
  <2>1. tl # c /\ nx2[c] = NULL
    BY <1>2, <1>3, <1>5
  <2>2. M \subseteq L \cup {c}
    <3>1. Closed(nx2, L \cup {c})
      BY <1>1, <1>2, <2>1 DEF Closed
    <3>2. L \cup {c} \in SUBSET Cell /\ h \in L \cup {c}
      BY <1>1
    <3> QED BY <3>1, <3>2, LeadLeast DEF M
  <2>3. ASSUME NEW b \in L \cup {c} PROVE nx2[b] # h
    BY <1>1, <1>2, <1>3, <2>1
  <2>4. ASSUME NEW b \in L \cup {c}, NEW d \in L \cup {c}, nx2[b] = nx2[d], nx2[b] # NULL
        PROVE  b = d
    <3>1. b # c /\ d # c /\ b \in L /\ d \in L BY <2>1, <2>4
    <3>2. CASE b = tl \/ d = tl BY <1>1, <1>2, <1>3, <2>4, <3>1, <3>2
    <3>3. CASE b # tl /\ d # tl BY <1>1, <1>2, <1>3, <2>4, <3>1, <3>3
    <3> QED BY <3>2, <3>3
  <2>5. Line(nx2, h)
    BY <2>2, <2>3, <2>4 DEF Line, M
  <2> QED BY <1>2, <2>2, <2>5 DEF L, M
<1> QED BY <1>4, <1>5

(* deps_add puts a cell on an empty list. *)
LEMMA LineFirst ==
  ASSUME NEW nx \in Pointers, NEW c \in Cell, nx[c] = NULL
  PROVE  Lead(nx, c) = {c} /\ Line(nx, c)
<1>1. Lead(nx, c) = {c}
  BY LeadStep, LeadNull
<1>2. c # NULL
  BY DepsAssumption
<1> QED BY <1>1, <1>2 DEF Line

-----------------------------------------------------------------------------
(* The inductive invariant.                                                *)

(* The cells of the list, and those the scan has not come to yet. *)
List == Lead(next, head)
Ahead(c) == dep_mutex # NULL /\ c \in Lead(next, scan[dep_mutex].e)

(* A request is being added; the last request that may be on the list. *)
Adding == own # NULL
Last == IF Adding /\ pc[Main] # "check" THEN returned + 1 ELSE returned

Complete(c) == \A i \in DOMAIN ent[c].keys : ent[c].status[i]

Shape == Line(next, head) /\ (head # NULL => tail # NULL)

(* What deps_add knows of its cell before it is linked: its bits say what
   was seen, and nobody else has it. *)
OwnCell ==
  /\ ent[own.c] # NULL
  /\ own.c \notin List
  /\ ent[own.c].r = returned + 1
  /\ next[own.c] = NULL
  /\ own.i >= 1
  /\ \A i \in seen[returned + 1] : i < own.i
  /\ \A i \in DOMAIN ent[own.c].keys :
       i \in seen[returned + 1] <=> ent[own.c].status[i]

Owned ==
  /\ Adding <=> \/ pc[Main] \in {"check", "return"}
                \/ pc[Main] \in {"complete", "scan"} /\ scan[Main].key = NULL
  /\ Adding => returned < MaxReq
  /\ pc[Main] = "check" => OwnCell

Requests ==
  /\ \A c \in List : ent[c] # NULL /\ ent[c].r <= Last /\ posted[ent[c].r] = 0
  /\ \A c, d \in List : ent[c].r = ent[d].r => c = d
  /\ \A r \in Req : /\ posted[r] <= 1
                    /\ posted[r] # 0 => r <= Last
                    /\ r > returned + 1 \/ (r = returned + 1 /\ ~Adding) => seen[r] = {}

(* The holder of dep_mutex is the one that scans, and prev is behind e. *)
Scans ==
  /\ \A t \in Thread : pc[t] = "scan" <=> dep_mutex = t
  /\ dep_mutex # NULL =>
       /\ scan[dep_mutex].e \in List \cup {NULL}
       /\ At(next, head, scan[dep_mutex].e, scan[dep_mutex].prev)

Noticed ==
  \A c \in List :
    /\ \A i \in DOMAIN ent[c].keys :
         i \in seen[ent[c].r] <=>
           ent[c].status[i] \/ (Ahead(c) /\ ent[c].keys[i] = scan[dep_mutex].key)
    /\ Complete(c) => Ahead(c) \/ (pc[Main] = "complete" /\ Adding /\ c = own.c)

IInv == TypeOK /\ Shape /\ Owned /\ Requests /\ Scans /\ Noticed

-----------------------------------------------------------------------------
(* Records.                                                                *)

(* What a request in a cell is made of. *)
LEMMA RequestFields ==
  ASSUME TypeOK, NEW c \in Cell, ent[c] # NULL
  PROVE  /\ ent[c] \in Request
         /\ ent[c].r \in Req
         /\ ent[c].keys \in KeyList
         /\ ent[c].keys \in Seq(Key)
         /\ DOMAIN ent[c].keys = 1 .. Len(ent[c].keys)
         /\ ent[c].status \in [DOMAIN ent[c].keys -> BOOLEAN]
<1>1. ent[c] \in Request
  BY DEF TypeOK
<1>2. /\ ent[c].r \in Req /\ ent[c].keys \in KeyList
      /\ ent[c].status \in UNION {[DOMAIN ks -> BOOLEAN] : ks \in KeyList}
  BY <1>1 DEF Request
<1>3. ent[c].keys \in Seq(Key)
  BY <1>2, DepsAssumption
<1>4. DOMAIN ent[c].status = DOMAIN ent[c].keys
  BY DEF TypeOK
<1>5. PICK ks \in KeyList : ent[c].status \in [DOMAIN ks -> BOOLEAN]
  BY <1>2
<1> QED BY <1>1, <1>2, <1>3, <1>4, <1>5

(* Status bits of the right length can be put into a request. *)
LEMMA RequestMade ==
  ASSUME NEW r \in Req, NEW ks \in KeyList, NEW st \in [DOMAIN ks -> BOOLEAN]
  PROVE  [r |-> r, keys |-> ks, status |-> st] \in Request
  BY DEF Request

(* A request whose status is replaced is one still. *)
LEMMA StatusSet ==
  ASSUME TypeOK, NEW c \in Cell, ent[c] # NULL,
         NEW st \in [DOMAIN ent[c].keys -> BOOLEAN]
  PROVE  LET m == [ent[c] EXCEPT !.status = st]
         IN  /\ m \in Request /\ m # NULL
             /\ m.r = ent[c].r /\ m.keys = ent[c].keys /\ m.status = st
<1>1. ent[c] \in Request /\ ent[c].r \in Req /\ ent[c].keys \in KeyList
  BY RequestFields
<1>2. [ent[c] EXCEPT !.status = st] = [r |-> ent[c].r, keys |-> ent[c].keys, status |-> st]
  BY <1>1 DEF Request
<1>3. [r |-> ent[c].r, keys |-> ent[c].keys, status |-> st] \in Request
  BY <1>1, RequestMade
<1> QED BY <1>2, <1>3, NullIsNoRecord

(* Marking a key changes the status of that key and nothing else. *)
LEMMA MarkedIs ==
  ASSUME TypeOK, NEW c \in Cell, ent[c] # NULL, NEW k
  PROVE  /\ Marked(c, k) \in Request /\ Marked(c, k) # NULL
         /\ Marked(c, k).r = ent[c].r
         /\ Marked(c, k).keys = ent[c].keys
         /\ DOMAIN Marked(c, k).status = DOMAIN ent[c].keys
         /\ \A i \in DOMAIN ent[c].keys :
              Marked(c, k).status[i] <=> ent[c].status[i] \/ ent[c].keys[i] = k
<1> DEFINE st == [i \in DOMAIN ent[c].status |-> ent[c].status[i] \/ ent[c].keys[i] = k]
<1>1. ent[c].status \in [DOMAIN ent[c].keys -> BOOLEAN]
  BY RequestFields
<1>2. st \in [DOMAIN ent[c].keys -> BOOLEAN]
  BY <1>1
<1>3. Marked(c, k) = [ent[c] EXCEPT !.status = st]
  BY DEF Marked
<1>4. \A i \in DOMAIN ent[c].keys : st[i] <=> ent[c].status[i] \/ ent[c].keys[i] = k
  BY <1>1
<1>5. DOMAIN st = DOMAIN ent[c].keys
  BY <1>1
<1> HIDE DEF st
<1> QED BY <1>2, <1>3, <1>4, <1>5, StatusSet

(* Atoms are distinct and requests are numbered. *)
LEMMA Threads ==
  /\ Main \in Thread /\ NULL \notin Thread /\ NULL \notin Cell /\ NULL \notin Key
  /\ Req \subseteq Nat /\ \A r \in Req : r >= 1 /\ r <= MaxReq
  BY DepsAssumption DEF Thread, Req

(* The list is closed under next. *)
LEMMA ListCells ==
  ASSUME TypeOK
  PROVE  /\ next \in Pointers /\ List \in SUBSET Cell
         /\ head \in List \cup {NULL} /\ Closed(next, List)
  BY LeadClosed DEF TypeOK, List, Pointers

-----------------------------------------------------------------------------
(* The store.                                                              *)

(* obj_add keeps the invariant. *)
LEMMA AddStep ==
  ASSUME IInv, NEW t \in Thread, NEW k \in Key, obj_add(t, k)
  PROVE  IInv'
<1> USE DEF obj_add, Goes, depVars
<1>1. TypeOK'
  BY DepsAssumption DEF IInv, TypeOK, NoLocals
<1>2. /\ pc[t] = "idle" /\ pc'[t] = "complete" /\ dep_mutex # t
      /\ \A u \in Thread : u # t => pc'[u] = pc[u] /\ scan'[u] = scan[u]
      /\ scan'[t].key = k /\ k # NULL
      /\ dep_mutex # NULL => dep_mutex \in Thread /\ scan'[dep_mutex] = scan[dep_mutex]
  BY Threads DEF IInv, TypeOK, Scans, NoLocals
<1>3. List' = List /\ Last' = Last /\ Adding' = Adding
  BY <1>2, Threads DEF IInv, Owned, List, Last, Adding
<1>4. Shape'
  BY DEF IInv, Shape
<1>5. Owned'
  BY <1>2, <1>3, Threads DEF IInv, Owned, OwnCell, Adding, List
<1>6. Requests'
  BY <1>3 DEF IInv, Requests
<1>7. Scans'
  BY <1>2, <1>3 DEF IInv, Scans
<1>8. Noticed'
  <2>1. \A c : Ahead(c)' <=> Ahead(c)
    BY <1>2 DEF Ahead
  <2>2. \A c : Ahead(c) => scan'[dep_mutex'] = scan[dep_mutex]
    BY <1>2 DEF Ahead
  <2>3. ~(pc[Main] = "complete" /\ Adding /\ pc'[Main] # "complete")
    BY <1>2, Threads
  <2>4. \A c : Complete(c)' <=> Complete(c)
    BY DEF Complete
  <2>5. ent' = ent /\ seen' = seen /\ own' = own
    OBVIOUS
  <2> HIDE DEF obj_add
  <2> QED BY <1>3, <2>1, <2>2, <2>3, <2>4, <2>5 DEF IInv, Noticed
<1> QED BY <1>1, <1>4, <1>5, <1>6, <1>7, <1>8 DEF IInv

(* So does the end of obj_add. *)
LEMMA UnlockStep ==
  ASSUME IInv, NEW t \in Thread, obj_add_unlock(t)
  PROVE  IInv'
<1> USE DEF obj_add_unlock, Goes, depVars
<1>1. TypeOK'
  BY DEF IInv, TypeOK
<1>2. /\ pc[t] = "unlock" /\ pc'[t] = "idle" /\ dep_mutex # t
      /\ \A u \in Thread : u # t => pc'[u] = pc[u]
  BY Threads DEF IInv, TypeOK, Scans
<1>3. List' = List /\ Last' = Last /\ Adding' = Adding
  BY <1>2, Threads DEF IInv, Owned, List, Last, Adding
<1>4. Shape'
  BY DEF IInv, Shape
<1>5. Owned'
  BY <1>2, <1>3, Threads DEF IInv, Owned, OwnCell, Adding, List
<1>6. Requests'
  BY <1>3 DEF IInv, Requests
<1>7. Scans'
  BY <1>2, <1>3 DEF IInv, Scans
<1>8. Noticed'
  <2>1. \A c : (Ahead(c)' <=> Ahead(c)) /\ (Complete(c)' <=> Complete(c))
    BY DEF Ahead, Complete
  <2>2. ~(pc[Main] = "complete" /\ Adding /\ pc'[Main] # "complete")
    BY <1>2, Threads
  <2> QED BY <1>3, <2>1, <2>2 DEF IInv, Noticed
<1> QED BY <1>1, <1>4, <1>5, <1>6, <1>7, <1>8 DEF IInv

(* Steps that change only the store, and stuttering steps. *)
LEMMA StoreStep ==
  ASSUME IInv, UNCHANGED <<dep_mutex, depVars, pc, scan, own, returned, posted, seen>>,
         obj_mutex' = obj_mutex, nobj' \in [Key -> 0 .. MaxObj]
  PROVE  IInv'
<1> USE DEF depVars
<1>1. TypeOK'
  BY DEF IInv, TypeOK
<1>2. Shape' /\ Owned' /\ Requests' /\ Scans' /\ Noticed'
  BY DEF IInv, Shape, Owned, OwnCell, Requests, Scans, Noticed, List, Last, Adding,
         Ahead, Complete
<1> QED BY <1>1, <1>2 DEF IInv

(* So does a removal. *)
LEMMA RemoveStep ==
  ASSUME IInv, NEW t \in Thread, NEW k \in Key, obj_remove(t, k)
  PROVE  IInv'
<1>1. nobj' \in [Key -> 0 .. MaxObj]
  BY DepsAssumption DEF IInv, TypeOK, obj_remove
<1> QED BY <1>1, StoreStep DEF obj_remove

-----------------------------------------------------------------------------
(* deps_complete.                                                          *)

(* The locals of deps_complete. *)
Locals == [key : Key \cup {NULL}, e : Cell \cup {NULL}, prev : Cell \cup {NULL}]

(* The locals of a scan after it has moved on. *)
LEMMA ScanMoves ==
  ASSUME NEW sc \in [Thread -> Locals], NEW t \in Thread,
         NEW x \in Cell \cup {NULL}, NEW p \in Cell \cup {NULL}
  PROVE  [sc EXCEPT ![t].e = x, ![t].prev = p] \in [Thread -> Locals]
<1> DEFINE to == [sc[t] EXCEPT !.e = x, !.prev = p]
<1>1. sc[t] \in Locals
  OBVIOUS
<1>2. to \in Locals
  BY ONLY <1>1, x \in Cell \cup {NULL}, p \in Cell \cup {NULL} DEF Locals
<1>3. [sc EXCEPT ![t].e = x, ![t].prev = p] = [sc EXCEPT ![t] = to]
  OBVIOUS
<1> HIDE DEF to
<1> QED BY <1>2, <1>3

(* With the lock the whole list is ahead, and its requests have been announced
   the key. *)
LEMMA LockStep ==
  ASSUME IInv, NEW t \in Thread, deps_complete_lock(t)
  PROVE  IInv'
<1> USE DEF deps_complete_lock, Goes, depVars
<1>1. /\ pc[t] = "complete" /\ pc'[t] = "scan" /\ dep_mutex = NULL /\ dep_mutex' = t
      /\ \A u \in Thread : u # t => pc'[u] = pc[u] /\ scan'[u] = scan[u]
      /\ scan'[t].key = scan[t].key /\ scan'[t].e = head /\ scan'[t].prev = NULL
      /\ next' = next /\ head' = head /\ tail' = tail /\ ent' = ent /\ own' = own
      /\ returned' = returned /\ posted' = posted
  BY DEF IInv, TypeOK
<1>2. List' = List /\ Last' = Last /\ Adding' = Adding
  BY <1>1, Threads DEF IInv, Owned, List, Last, Adding
<1>3. List \in SUBSET Cell /\ head \in List \cup {NULL} /\ Reach = List
  BY ListCells, FromIsLead DEF IInv, List
<1>4. \A c \in List : /\ ent[c] # NULL /\ ent[c].r \in Req /\ ent[c].r <= Last
                      /\ DOMAIN ent[c].keys \subseteq Nat
  BY <1>3, RequestFields DEF IInv, Requests
<1>5. \A r \in Req : \A i :
        i \in seen'[r] <=> \/ i \in seen[r]
                           \/ \E c \in List : /\ ent[c].r = r
                                              /\ i \in DOMAIN ent[c].keys
                                              /\ ent[c].keys[i] = scan[t].key
  BY <1>3
<1>6. seen' \in [Req -> SUBSET Nat]
  <2>1. \A r \in Req : seen[r] \subseteq Nat
    BY DEF IInv, TypeOK
  <2>2. \A r \in Req : seen'[r] \subseteq Nat
    BY <1>4, <1>5, <2>1
  <2>3. seen' = [r \in Req |-> seen'[r]]
    OBVIOUS
  <2> QED BY <2>2, <2>3
<1>7. \A c \in List : seen'[ent[c].r] =
         seen[ent[c].r] \cup {i \in DOMAIN ent[c].keys : ent[c].keys[i] = scan[t].key}
  <2>1. \A c, d \in List : ent[c].r = ent[d].r => c = d
    BY DEF IInv, Requests
  <2> QED BY <1>4, <1>5, <2>1
<1>8. \A r \in Req : r > Last => seen'[r] = seen[r]
  <2>1. Last \in Int /\ \A r \in Req : r \in Int
    BY Threads DEF Last, IInv, TypeOK
  <2>2. ASSUME NEW r \in Req, r > Last PROVE \A c \in List : ent[c].r # r
    BY <1>4, <2>1, <2>2
  <2> QED BY <1>5, <2>2
<1>9. TypeOK'
  <2>1. scan' \in [Thread -> [key : Key \cup {NULL}, e : Cell \cup {NULL}, prev : Cell \cup {NULL}]]
    <3>1. scan \in [Thread -> Locals] /\ head \in Cell \cup {NULL}
      BY DEF IInv, TypeOK, Locals
    <3>2. scan' = [scan EXCEPT ![t].e = head, ![t].prev = NULL]
      OBVIOUS
    <3> QED BY ONLY <3>1, <3>2, t \in Thread, ScanMoves DEF Locals
  <2> HIDE DEF deps_complete_lock
  <2>2. nobj' = nobj /\ obj_mutex' = obj_mutex /\ pc' = [pc EXCEPT ![t] = "scan"]
    BY DEF deps_complete_lock
  <2> QED BY <1>1, <1>6, <2>1, <2>2 DEF IInv, TypeOK
<1> HIDE DEF deps_complete_lock
<1>10. Shape'
  BY <1>1 DEF IInv, Shape
<1>11. pc[Main] = "check" => returned + 1 \in Req /\ seen'[returned + 1] = seen[returned + 1]
  <2>1. pc[Main] = "check" => Adding /\ returned < MaxReq /\ Last = returned
    BY DEF IInv, Owned, Last
  <2>2. returned \in Nat /\ MaxReq \in Nat
    BY DepsAssumption DEF IInv, TypeOK
  <2>3. pc[Main] = "check" => returned + 1 \in Req /\ returned + 1 > Last
    BY <2>1, <2>2 DEF Req
  <2> QED BY <1>8, <2>3
<1>12. Owned'
  <2>1. pc'[Main] = "check" <=> pc[Main] = "check"
    BY <1>1, Threads
  <2>2. pc[Main] = "check" => OwnCell'
    BY <1>1, <1>2, <1>11 DEF IInv, Owned, OwnCell
  <2>3. scan'[Main].key = scan[Main].key
    BY <1>1, Threads
  <2>4. pc'[Main] = pc[Main] \/ (pc[Main] = "complete" /\ pc'[Main] = "scan")
    BY <1>1, Threads
  <2> QED BY <1>1, <1>2, <2>1, <2>2, <2>3, <2>4 DEF IInv, Owned
<1>13. Requests'
  <2>1. \A r \in Req : (r > returned + 1 \/ (r = returned + 1 /\ ~Adding)) => r > Last
    <3>1. returned \in Nat /\ \A r \in Req : r \in Nat
      BY Threads DEF IInv, TypeOK
    <3> QED BY <3>1 DEF Last
  <2> QED BY <1>1, <1>2, <1>8, <2>1 DEF IInv, Requests
<1>14. Scans'
  BY <1>1, <1>2, <1>3, Threads DEF IInv, Scans, At
<1>15. Noticed'
  <2>1. \A c \in List : Ahead(c)'
    BY <1>1, Threads DEF Ahead, List
  <2>2. \A c : ~Ahead(c)
    BY <1>1 DEF Ahead
  <2> QED BY <1>1, <1>2, <1>7, <2>1, <2>2 DEF IInv, Noticed
<1> QED BY <1>9, <1>10, <1>12, <1>13, <1>14, <1>15 DEF IInv

(* A cell that stays has the key's bits set and is behind the scan. *)
LEMMA KeepStep ==
  ASSUME IInv, NEW t \in Thread, deps_complete_keep(t)
  PROVE  IInv'
<1> DEFINE e == scan[t].e
           k == scan[t].key
           m == Marked(e, k)
<1>1. /\ pc[t] = "scan" /\ e # NULL /\ dep_mutex = t
      /\ e \in Cell /\ next[e] \in Cell \cup {NULL} /\ k \in Key \cup {NULL}
      /\ e \in List
  BY Threads DEF deps_complete_keep, IInv, TypeOK, Scans
<1>2. /\ head \in Cell /\ List \in SUBSET Cell /\ Closed(next, List)
      /\ next \in Pointers /\ e \in Lead(next, head) /\ Line(next, head)
  BY <1>1, ListCells, LeadNull DEF IInv, Shape, List
<1>3. Lead(next, e) = {e} \cup Lead(next, next[e]) /\ e \notin Lead(next, next[e])
  BY <1>1, <1>2, LeadStep, LineAcyclic
<1>4. ent[e] # NULL
  BY <1>1 DEF IInv, Requests
<1>5. /\ m \in Request /\ m # NULL /\ m.r = ent[e].r /\ m.keys = ent[e].keys
      /\ DOMAIN m.status = DOMAIN m.keys
      /\ \A i \in DOMAIN m.keys : m.status[i] <=> ent[e].status[i] \/ m.keys[i] = k
  BY <1>1, <1>4, MarkedIs DEF IInv
<1>6. /\ \E i \in DOMAIN m.keys : ~m.status[i]
      /\ ent' = [ent EXCEPT ![e] = m]
      /\ scan' = [scan EXCEPT ![t].e = next[e], ![t].prev = e]
      /\ UNCHANGED <<nobj, obj_mutex, dep_mutex, head, tail, next, pc, own, returned, posted, seen>>
  BY DEF deps_complete_keep
<1> HIDE DEF m
<1>7. TypeOK'
  <2>1. scan' \in [Thread -> [key : Key \cup {NULL}, e : Cell \cup {NULL}, prev : Cell \cup {NULL}]]
    <3>1. scan \in [Thread -> Locals] BY DEF IInv, TypeOK, Locals
    <3>2. e \in Cell \cup {NULL} /\ next[e] \in Cell \cup {NULL} BY <1>1
    <3> QED BY <1>6, <3>1, <3>2, ScanMoves DEF Locals
  <2>2. /\ ent' \in [Cell -> Request \cup {NULL}]
        /\ \A c \in Cell : ent'[c] # NULL => DOMAIN ent'[c].status = DOMAIN ent'[c].keys
    BY <1>1, <1>5, <1>6 DEF IInv, TypeOK
  <2> QED BY <1>6, <2>1, <2>2 DEF IInv, TypeOK
<1>8. /\ \A u \in Thread : scan'[u].key = scan[u].key
      /\ scan'[t].e = next[e] /\ scan'[t].prev = e
      /\ ent'[e] = m /\ \A c \in Cell : c # e => ent'[c] = ent[c]
      /\ \A c \in Cell : ent[c] # NULL => ent'[c] # NULL /\ ent'[c].r = ent[c].r
  BY <1>1, <1>5, <1>6 DEF IInv, TypeOK
<1>9. List' = List /\ Last' = Last /\ Adding' = Adding
  BY <1>6 DEF List, Last, Adding
<1>10. Shape'
  BY <1>6 DEF IInv, Shape
<1>11. Owned'
  <2>1. ASSUME pc[Main] = "check" PROVE OwnCell'
    <3>1. own.c \in Cell /\ own.c # e
      BY <1>1, <2>1 DEF IInv, Owned, OwnCell, TypeOK, Own, Adding
    <3>2. ent'[own.c] = ent[own.c]
      BY <1>8, <3>1
    <3> QED BY <1>6, <1>9, <2>1, <3>2 DEF IInv, Owned, OwnCell
  <2> QED BY <1>6, <1>8, <1>9, <2>1, Threads DEF IInv, Owned
<1>12. Requests'
  BY <1>2, <1>6, <1>8, <1>9 DEF IInv, Requests
<1>13. Scans'
  <2>1. next[e] \in List \cup {NULL} /\ e # NULL
    BY <1>1, <1>2 DEF Closed
  <2> QED BY <1>1, <1>6, <1>8, <1>9, <2>1 DEF IInv, Scans, At, List
<1>14. Noticed'
  <2>1. \A c : Ahead(c)' <=> c \in Lead(next, next[e])
    BY <1>1, <1>6, <1>8, Threads DEF Ahead
  <2>2. \A c : Ahead(c) <=> c = e \/ c \in Lead(next, next[e])
    BY <1>1, <1>3, Threads DEF Ahead
  <2>3. scan'[dep_mutex'].key = k /\ scan[dep_mutex].key = k
    BY <1>1, <1>6, <1>8
  <2> SUFFICES ASSUME NEW c \in List
               PROVE  /\ \A i \in DOMAIN ent'[c].keys :
                           i \in seen'[ent'[c].r] <=>
                             ent'[c].status[i] \/ (Ahead(c)' /\ ent'[c].keys[i] = k)
                      /\ Complete(c)' => Ahead(c)' \/ (pc'[Main] = "complete" /\ Adding' /\ c = own'.c)
    BY <1>9, <2>3 DEF Noticed
  <2>4. \A i \in DOMAIN ent[c].keys :
          i \in seen[ent[c].r] <=> ent[c].status[i] \/ (Ahead(c) /\ ent[c].keys[i] = k)
    BY <2>3 DEF IInv, Noticed
  <2>5. CASE c = e
    <3>1. ~Complete(c)'
      BY <1>6, <1>8, <2>5 DEF Complete
    <3>2. ~Ahead(c)' /\ Ahead(c)
      BY <1>3, <2>1, <2>2, <2>5
    <3>3. /\ ent'[c] = m /\ m.r = ent[c].r /\ m.keys = ent[c].keys
          /\ \A i \in DOMAIN m.keys : m.status[i] <=> ent[c].status[i] \/ m.keys[i] = k
      BY <1>5, <1>8, <2>5
    <3>4. \A i \in DOMAIN m.keys : i \in seen[m.r] <=> m.status[i]
      BY <2>4, <3>2, <3>3
    <3> QED BY <1>6, <3>1, <3>2, <3>3, <3>4
  <2>6. CASE c # e
    <3>1. ent'[c] = ent[c] /\ (Ahead(c)' <=> Ahead(c))
      BY <1>2, <1>8, <2>1, <2>2, <2>6
    <3>2. Complete(c)' <=> Complete(c)
      BY <3>1 DEF Complete
    <3> QED BY <1>6, <1>9, <2>4, <3>1, <3>2 DEF IInv, Noticed
  <2> QED BY <2>5, <2>6
<1> QED BY <1>7, <1>10, <1>11, <1>12, <1>13, <1>14 DEF IInv

(* The end of the list: nothing is ahead any more. *)
LEMMA EndStep ==
  ASSUME IInv, NEW t \in Thread, deps_complete_unlock(t)
  PROVE  IInv'
<1>1. /\ pc[t] = "scan" /\ scan[t].e = NULL /\ dep_mutex' = NULL /\ dep_mutex = t
      /\ pc' = [pc EXCEPT ![t] = IF scan[t].key = NULL THEN "return" ELSE "unlock"]
      /\ scan' = [scan EXCEPT ![t] = NoLocals]
      /\ UNCHANGED <<nobj, obj_mutex, head, tail, next, ent, own, returned, posted, seen>>
  BY DEF deps_complete_unlock, Goes, depVars, IInv, Scans
<1>2. /\ pc'[t] = (IF scan[t].key = NULL THEN "return" ELSE "unlock")
      /\ \A u \in Thread : u # t => pc'[u] = pc[u] /\ scan'[u] = scan[u]
  BY <1>1 DEF IInv, TypeOK
<1>3. List' = List /\ Last' = Last /\ Adding' = Adding
  BY <1>1, <1>2, Threads DEF IInv, Owned, List, Last, Adding
<1>4. TypeOK'
  BY <1>1 DEF IInv, TypeOK, NoLocals
<1>5. Shape'
  BY <1>1 DEF IInv, Shape
<1>6. Owned'
  <2>1. OwnCell => OwnCell'
    BY <1>1, <1>3 DEF OwnCell
  <2> QED BY <1>1, <1>2, <1>3, <2>1, Threads DEF IInv, Owned
<1>7. Requests'
  BY <1>1, <1>3 DEF IInv, Requests
<1>8. Scans'
  BY <1>1, <1>2, Threads DEF IInv, Scans
<1>9. Noticed'
  <2>1. \A c : ~Ahead(c) /\ ~Ahead(c)'
    BY <1>1, LeadNull DEF Ahead
  <2>2. pc[Main] = "complete" => pc'[Main] = "complete"
    BY <1>1, <1>2, Threads
  <2>3. \A c : Complete(c)' <=> Complete(c)
    BY <1>1 DEF Complete
  <2> QED BY <1>1, <1>3, <2>1, <2>2, <2>3 DEF IInv, Noticed
<1> QED BY <1>4, <1>5, <1>6, <1>7, <1>8, <1>9 DEF IInv

(* A complete cell leaves the list and its request is posted, once. *)
LEMMA PostStep ==
  ASSUME IInv, NEW t \in Thread, deps_complete_post(t)
  PROVE  IInv' /\ DOMAIN ent[scan[t].e].keys \subseteq seen[ent[scan[t].e].r]
<1> DEFINE e == scan[t].e
           p == scan[t].prev
           k == scan[t].key
           m == Marked(e, k)
<1>1. /\ pc[t] = "scan" /\ e # NULL /\ dep_mutex = t
      /\ e \in Cell /\ next[e] \in Cell \cup {NULL} /\ p \in Cell \cup {NULL}
      /\ e \in List
      /\ At(next, head, e, p)
  BY Threads DEF deps_complete_post, IInv, TypeOK, Scans
<1>2. /\ head \in Cell /\ List \in SUBSET Cell /\ Closed(next, List)
      /\ next \in Pointers /\ Line(next, head)
  BY <1>1, ListCells, LeadNull DEF IInv, Shape, List
<1>3. /\ \A i \in DOMAIN m.keys : m.status[i]
      /\ head' = (IF head = e THEN next[e] ELSE head)
      /\ next' = (IF p = NULL THEN next ELSE [next EXCEPT ![p] = next[e]])
      /\ posted' = [posted EXCEPT ![ent[e].r] = @ + 1]
      /\ scan' = [scan EXCEPT ![t].e = next[e]]
      /\ ent' = [ent EXCEPT ![e] = NULL]
      /\ UNCHANGED <<nobj, obj_mutex, dep_mutex, tail, pc, own, returned, seen>>
  BY DEF deps_complete_post, Unlinked
<1>4. ent[e] # NULL /\ ent[e].r \in Req /\ posted[ent[e].r] = 0 /\ ent[e].r <= Last
  BY <1>1, RequestFields DEF IInv, Requests
<1>5. /\ m.keys = ent[e].keys
      /\ \A i \in DOMAIN m.keys : m.status[i] <=> ent[e].status[i] \/ m.keys[i] = k
  BY <1>1, <1>4, MarkedIs DEF IInv
<1> HIDE DEF m
<1>6. /\ next' \in Pointers /\ head' \in Cell \cup {NULL}
      /\ List' = List \ {e}
      /\ Line(next', head')
      /\ Lead(next', next[e]) = Lead(next, next[e])
      /\ At(next', head', next[e], p)
  <2>1. e \in Lead(next, head) /\ Unlinks(next, head, e, p, next', head')
    BY <1>1, <1>3 DEF List, Unlinks
  <2> HIDE DEF e, p
  <2> QED BY <1>1, <1>2, <2>1, LineUnlink DEF List
<1>7. Lead(next, e) = {e} \cup Lead(next, next[e]) /\ e \notin Lead(next, next[e])
  BY <1>1, <1>2, LeadStep, LineAcyclic DEF List
<1>8. next[e] \in List' \cup {NULL}
  <2>1. next[e] \in List \cup {NULL}
    BY <1>1, <1>2 DEF Closed
  <2>2. next[e] \in Lead(next, next[e]) \cup {NULL}
    BY <1>1, <1>2, LeadClosed
  <2> QED BY <1>1, <1>6, <1>7, <2>1, <2>2
<1>9. /\ \A u \in Thread : scan'[u].key = scan[u].key
      /\ scan'[t].e = next[e] /\ scan'[t].prev = p
      /\ \A c \in Cell : c # e => ent'[c] = ent[c]
      /\ \A r \in Req : posted'[r] = IF r = ent[e].r THEN 1 ELSE posted[r]
  BY <1>1, <1>3, <1>4 DEF IInv, TypeOK
<1>10. Last' = Last /\ Adding' = Adding
  BY <1>3 DEF Last, Adding
<1>11. TypeOK'
  <2>1. scan' \in [Thread -> [key : Key \cup {NULL}, e : Cell \cup {NULL}, prev : Cell \cup {NULL}]]
    BY <1>1, <1>3 DEF IInv, TypeOK
  <2>2. /\ ent' \in [Cell -> Request \cup {NULL}]
        /\ \A c \in Cell : ent'[c] # NULL => DOMAIN ent'[c].status = DOMAIN ent'[c].keys
    BY <1>1, <1>3 DEF IInv, TypeOK
  <2>3. posted' \in [Req -> Nat]
    BY <1>3, <1>4 DEF IInv, TypeOK
  <2> QED BY <1>3, <1>6, <2>1, <2>2, <2>3 DEF IInv, TypeOK, Pointers
<1>12. Shape'
  BY <1>2, <1>3, <1>6, Threads DEF IInv, Shape
<1>13. Owned'
  <2>1. ASSUME pc[Main] = "check" PROVE OwnCell'
    <3>1. own.c \in Cell /\ own.c \notin List
      BY <2>1 DEF IInv, Owned, OwnCell, TypeOK, Own, Adding
    <3>2. ent'[own.c] = ent[own.c] /\ next'[own.c] = next[own.c]
      BY <1>1, <1>2, <1>3, <1>9, <3>1 DEF Pointers, At, List
    <3> QED BY <1>3, <1>6, <2>1, <3>1, <3>2 DEF IInv, Owned, OwnCell
  <2> QED BY <1>3, <1>9, <1>10, <2>1, Threads DEF IInv, Owned
<1>14. Requests'
  <2>1. ASSUME NEW c \in List' 
        PROVE  ent'[c] = ent[c] /\ ent'[c] # NULL /\ ent'[c].r <= Last /\ posted'[ent'[c].r] = 0
    <3>1. c \in List /\ c \in Cell /\ c # e
      BY <1>2, <1>6
    <3>2. ent'[c] = ent[c] /\ ent[c] # NULL /\ ent[c].r \in Req /\ ent[c].r <= Last
      BY <1>9, <3>1, RequestFields DEF IInv, Requests
    <3>3. ent[c].r # ent[e].r
      BY <1>1, <3>1 DEF IInv, Requests
    <3> QED BY <1>9, <3>1, <3>2, <3>3 DEF IInv, Requests
  <2>2. \A c, d \in List' : ent'[c].r = ent'[d].r => c = d
    BY <1>6, <2>1 DEF IInv, Requests
  <2>3. \A r \in Req : posted'[r] <= 1 /\ (posted'[r] # 0 => r <= Last)
    BY <1>4, <1>9 DEF IInv, Requests
  <2> QED BY <1>3, <1>10, <2>1, <2>2, <2>3 DEF IInv, Requests
<1>15. Scans'
  BY <1>1, <1>3, <1>6, <1>8, <1>9 DEF IInv, Scans
<1>16. \A c : Ahead(c) <=> c = e \/ c \in Lead(next, next[e])
  BY <1>1, <1>7, Threads DEF Ahead
<1>17. Noticed'
  <2>1. \A c : Ahead(c)' <=> c \in Lead(next, next[e])
    BY <1>1, <1>3, <1>6, <1>9, Threads DEF Ahead
  <2>2. scan'[dep_mutex'].key = scan[dep_mutex].key
    BY <1>1, <1>3, <1>9
  <2>3. \A c \in List' : c \in List /\ ent'[c] = ent[c] /\ (Ahead(c)' <=> Ahead(c))
    BY <1>2, <1>6, <1>9, <1>16, <2>1
  <2>4. \A c \in List' : Complete(c)' <=> Complete(c)
    BY <2>3 DEF Complete
  <2> QED BY <1>3, <1>10, <2>2, <2>3, <2>4 DEF IInv, Noticed
<1>18. DOMAIN ent[e].keys \subseteq seen[ent[e].r]
  BY <1>1, <1>3, <1>5, <1>16 DEF IInv, Noticed
<1> QED BY <1>11, <1>12, <1>13, <1>14, <1>15, <1>17, <1>18 DEF IInv

-----------------------------------------------------------------------------
(* deps_add.                                                               *)

(* The cell that calloc returns is free, so it is not on the list. *)
LEMMA NewStep ==
  ASSUME IInv, NEW ks \in KeyList, NEW c \in Cell, deps_add(ks, c)
  PROVE  IInv'
<1> DEFINE q == [r |-> returned + 1, keys |-> ks, status |-> [i \in DOMAIN ks |-> FALSE]]
<1>1. /\ pc[Main] = "idle" /\ returned < MaxReq /\ ent[c] = NULL
      /\ ent' = [ent EXCEPT ![c] = q]
      /\ next' = [next EXCEPT ![c] = NULL]
      /\ own' = [c |-> c, i |-> 1]
      /\ pc' = [pc EXCEPT ![Main] = "check"]
      /\ UNCHANGED <<nobj, obj_mutex, dep_mutex, head, tail, scan, returned, posted, seen>>
  BY DEF deps_add, Goes
<1>2. returned + 1 \in Req /\ returned \in Nat
  BY <1>1, DepsAssumption DEF IInv, TypeOK, Req
<1>3. q \in Request /\ q # NULL /\ DOMAIN q.status = DOMAIN q.keys
  BY <1>2, RequestMade, NullIsNoRecord
<1>4. own' \in Own /\ own' # NULL /\ own'.c = c /\ own'.i = 1
  BY <1>1, NullIsNoRecord DEF Own
<1>5. ~Adding /\ Adding' /\ pc'[Main] = "check" /\ \A u \in Thread : u # Main => pc'[u] = pc[u]
  BY <1>1, <1>4, Threads DEF IInv, Owned, Adding, TypeOK
<1>6. Last = returned /\ Last' = returned
  BY <1>1, <1>5 DEF Last
<1>7. c \notin List /\ next \in Pointers /\ List \in SUBSET Cell /\ head \in Cell \cup {NULL}
  BY <1>1, ListCells DEF IInv, Requests, TypeOK
<1>8. /\ next' \in Pointers /\ next'[c] = NULL
      /\ \A d \in Cell : d # c => next'[d] = next[d] /\ ent'[d] = ent[d]
      /\ ent'[c] = q
  BY <1>1, <1>7 DEF Pointers, IInv, TypeOK
<1> HIDE DEF q
<1>9. List' = List
  <2>1. Lead(next', head) = Lead(next, head)
    BY <1>7, <1>8, LeadFrame DEF List
  <2> QED BY <1>1, <2>1 DEF List
<1>10. \A d \in List : next'[d] = next[d] /\ ent'[d] = ent[d]
  BY <1>7, <1>8
<1>11. TypeOK'
  <2>1. /\ ent' \in [Cell -> Request \cup {NULL}]
        /\ \A d \in Cell : ent'[d] # NULL => DOMAIN ent'[d].status = DOMAIN ent'[d].keys
    BY <1>1, <1>3 DEF IInv, TypeOK
  <2> QED BY <1>1, <1>4, <1>8, <2>1 DEF IInv, TypeOK, Pointers
<1>12. Shape'
  <2>1. /\ \A d \in List : next[d] # head
        /\ \A b, d \in List : next[b] = next[d] /\ next[b] # NULL => b = d
    BY DEF IInv, Shape, Line, List
  <2>2. /\ \A d \in List' : next'[d] # head'
        /\ \A b, d \in List' : next'[b] = next'[d] /\ next'[b] # NULL => b = d
    BY <1>1, <1>9, <1>10, <2>1
  <2> QED BY <1>1, <2>2 DEF IInv, Shape, Line, List
<1>13. Owned'
  <2>1. seen[returned + 1] = {}
    BY <1>2, <1>5 DEF IInv, Requests
  <2>2. q.r = returned + 1 /\ \A i \in DOMAIN q.keys : ~q.status[i]
    BY DEF q
  <2>3. OwnCell'
    BY <1>1, <1>3, <1>4, <1>7, <1>8, <1>9, <2>1, <2>2 DEF OwnCell
  <2> QED BY <1>1, <1>5, <2>3 DEF Owned
<1>14. Requests'
  <2>1. \A r \in Req : r > returned + 1 \/ (r = returned + 1 /\ ~Adding) => seen[r] = {}
    BY DEF IInv, Requests
  <2> QED BY <1>1, <1>5, <1>6, <1>9, <1>10, <2>1 DEF IInv, Requests
<1>15. dep_mutex # NULL => /\ dep_mutex \in Thread
                           /\ scan[dep_mutex].e \in List \cup {NULL}
                           /\ scan[dep_mutex].e \in Cell \cup {NULL}
  BY <1>7 DEF IInv, Scans, TypeOK
<1>16. Scans'
  <2>1. \A t \in Thread : pc'[t] = "scan" <=> dep_mutex' = t
    BY <1>1, <1>5 DEF IInv, Scans
  <2> QED BY <1>1, <1>9, <1>10, <1>15, <2>1 DEF IInv, Scans, At, List
<1>17. Noticed'
  <2>1. ASSUME dep_mutex # NULL
        PROVE  Lead(next', scan[dep_mutex].e) = Lead(next, scan[dep_mutex].e)
    <3>1. Lead(next, scan[dep_mutex].e) \subseteq List
      BY <1>7, <1>15, <2>1, LeadWithin DEF List
    <3> QED BY <1>7, <1>8, <1>10, <1>15, <2>1, <3>1, LeadFrame
  <2>2. \A d : Ahead(d)' <=> Ahead(d)
    BY <1>1, <2>1 DEF Ahead
  <2>3. \A d \in List : Complete(d)' <=> Complete(d)
    BY <1>10 DEF Complete
  <2> QED BY <1>1, <1>5, <1>9, <1>10, <2>2, <2>3 DEF IInv, Noticed
<1> QED BY <1>11, <1>12, <1>13, <1>14, <1>16, <1>17 DEF IInv

(* A lookup of deps_add concerns only its own request. *)
LEMMA CheckStep ==
  ASSUME IInv, deps_add_check
  PROVE  IInv'
<1> DEFINE c == own.c
           j == own.i
           b == nobj[ent[c].keys[j]] > 0
           st == [ent[c].status EXCEPT ![j] = b]
           m == [ent[c] EXCEPT !.status = st]
<1>1. /\ pc[Main] = "check" /\ j <= Len(ent[c].keys)
      /\ ent' = [ent EXCEPT ![c] = m]
      /\ own' = [own EXCEPT !.i = @ + 1]
      /\ seen' = [seen EXCEPT ![ent[c].r] = IF b THEN @ \cup {j} ELSE @]
      /\ UNCHANGED <<nobj, obj_mutex, dep_mutex, head, tail, next, pc, scan, returned, posted>>
  BY DEF deps_add_check
<1>2. /\ Adding /\ returned < MaxReq /\ OwnCell /\ own \in Own
      /\ c \in Cell /\ j \in Nat /\ own' \in Own /\ own'.c = c /\ own'.i = j + 1
  <2>1. Adding /\ returned < MaxReq /\ OwnCell
    BY <1>1 DEF IInv, Owned
  <2>2. own \in Own
    BY <2>1 DEF IInv, TypeOK, Adding
  <2> QED BY <1>1, <2>1, <2>2 DEF Own
<1>3. own' # NULL
  BY <1>2, NullIsNoRecord
<1>4. /\ ent[c] # NULL /\ c \notin List /\ ent[c].r = returned + 1 /\ next[c] = NULL
      /\ j >= 1 /\ \A i \in seen[returned + 1] : i < j
      /\ \A i \in DOMAIN ent[c].keys : i \in seen[returned + 1] <=> ent[c].status[i]
  BY <1>2 DEF OwnCell
<1>5. /\ returned + 1 \in Req /\ returned \in Nat
      /\ ent[c].status \in [DOMAIN ent[c].keys -> BOOLEAN]
      /\ DOMAIN ent[c].keys = 1 .. Len(ent[c].keys) /\ Len(ent[c].keys) \in Nat
  BY <1>2, <1>4, RequestFields DEF IInv, TypeOK
<1>6. j \in DOMAIN ent[c].keys
  BY <1>1, <1>2, <1>4, <1>5
<1>7. b \in BOOLEAN
  OBVIOUS
<1> HIDE DEF b
<1>8. st \in [DOMAIN ent[c].keys -> BOOLEAN]
  BY <1>5, <1>7
<1>9. st[j] = b /\ \A i \in DOMAIN ent[c].keys : i # j => st[i] = ent[c].status[i]
  BY <1>5, <1>6
<1> HIDE DEF c, j, st
<1>10. /\ m \in Request /\ m # NULL /\ m.r = ent[c].r /\ m.keys = ent[c].keys /\ m.status = st
  BY <1>2, <1>4, <1>8, StatusSet DEF IInv
<1> HIDE DEF m
<1>11. List' = List /\ List \in SUBSET Cell /\ Last' = Last /\ Last = returned /\ Adding'
  BY <1>1, <1>2, <1>3, ListCells DEF List, Last, Adding, IInv
<1>12. ent'[c] = m /\ \A d \in Cell : d # c => ent'[d] = ent[d]
  BY <1>1, <1>2 DEF IInv, TypeOK
<1>13. \A d \in List : d \in Cell /\ ent'[d] = ent[d]
  BY <1>4, <1>11, <1>12
<1>14. /\ seen'[returned + 1] = (IF b THEN seen[returned + 1] \cup {j} ELSE seen[returned + 1])
       /\ \A r \in Req : r # returned + 1 => seen'[r] = seen[r]
  BY <1>1, <1>4, <1>5 DEF IInv, TypeOK
<1>15. TypeOK'
  <2>1. /\ ent' \in [Cell -> Request \cup {NULL}]
        /\ \A d \in Cell : ent'[d] # NULL => DOMAIN ent'[d].status = DOMAIN ent'[d].keys
    BY <1>1, <1>2, <1>8, <1>10, <1>12 DEF IInv, TypeOK
  <2>2. seen' \in [Req -> SUBSET Nat]
    BY <1>1, <1>2, <1>4, <1>5 DEF IInv, TypeOK
  <2> QED BY <1>1, <1>2, <2>1, <2>2 DEF IInv, TypeOK
<1>16. Shape'
  BY <1>1 DEF IInv, Shape
<1>17. Owned'
  <2>1. \A i \in seen'[returned + 1] : i < j + 1
    <3>1. seen[returned + 1] \subseteq Nat
      BY <1>5 DEF IInv, TypeOK
    <3> QED BY <1>2, <1>4, <1>14, <3>1
  <2>2. \A i \in DOMAIN ent[c].keys : i \in seen'[returned + 1] <=> st[i]
    <3>1. j \notin seen[returned + 1]
      BY <1>2, <1>4
    <3> QED BY <1>4, <1>6, <1>7, <1>9, <1>14, <3>1
  <2>3. OwnCell'
    BY <1>1, <1>2, <1>4, <1>10, <1>11, <1>12, <2>1, <2>2 DEF OwnCell
  <2> QED BY <1>1, <1>2, <1>11, <2>3 DEF IInv, Owned
<1>18. \A d \in List : ent[d] # NULL /\ ent[d].r \in Req /\ ent[d].r # returned + 1
  <2>1. \A d \in List : ent[d] # NULL /\ ent[d].r \in Req /\ ent[d].r <= returned
    BY <1>11, RequestFields DEF IInv, Requests
  <2> QED BY <1>5, <2>1, Threads
<1>19. Requests'
  <2>1. \A r \in Req : r > returned + 1 => r # returned + 1
    BY <1>5, Threads
  <2> QED BY <1>1, <1>2, <1>11, <1>13, <1>14, <2>1 DEF IInv, Requests
<1>20. Scans'
  BY <1>1, <1>11 DEF IInv, Scans
<1>21. Noticed'
  <2>1. \A d : Ahead(d)' <=> Ahead(d)
    BY <1>1 DEF Ahead
  <2>2. \A d \in List : (Complete(d)' <=> Complete(d)) /\ seen'[ent[d].r] = seen[ent[d].r]
    BY <1>13, <1>14, <1>18 DEF Complete
  <2> QED BY <1>1, <1>11, <1>13, <2>1, <2>2 DEF IInv, Noticed
<1> QED BY <1>15, <1>16, <1>17, <1>19, <1>20, <1>21 DEF IInv

(* The cell comes to the end of the list, or is lost behind a freed tail. *)
LEMMA LinkStep ==
  ASSUME IInv, deps_add_link
  PROVE  IInv'
<1> DEFINE c == own.c
<1>1. /\ pc[Main] = "check" /\ dep_mutex = NULL /\ tail' = c
      /\ IF head = NULL THEN head' = c /\ next' = next
         ELSE next' = [next EXCEPT ![tail] = c] /\ head' = head
      /\ scan' = [scan EXCEPT ![Main] = NoLocals]
      /\ pc' = [pc EXCEPT ![Main] = "complete"]
      /\ UNCHANGED <<nobj, obj_mutex, dep_mutex, ent, own, returned, posted, seen>>
  BY DEF deps_add_link, Goes, AfterLink
<1>2. Adding /\ returned < MaxReq /\ OwnCell /\ own \in Own /\ c \in Cell
  BY <1>1 DEF IInv, Owned, TypeOK, Adding, Own
<1>3. /\ ent[c] # NULL /\ c \notin List /\ ent[c].r = returned + 1 /\ next[c] = NULL
      /\ \A i \in DOMAIN ent[c].keys : i \in seen[returned + 1] <=> ent[c].status[i]
  BY <1>2 DEF OwnCell
<1> HIDE DEF c
<1>4. next \in Pointers /\ List \in SUBSET Cell /\ returned + 1 \in Req /\ returned \in Nat
  BY <1>2, DepsAssumption, ListCells DEF IInv, TypeOK, Req
<1>5. next' \in Pointers /\ head' \in Cell /\ List' \subseteq List \cup {c} /\ Line(next', head')
  <2>1. CASE head = NULL
    <3>1. Lead(next, c) = {c} /\ Line(next, c)
      BY <1>2, <1>3, <1>4, LineFirst
    <3> QED BY <1>1, <1>2, <1>4, <2>1, <3>1 DEF List
  <2>2. CASE head # NULL
    <3>1. head \in Cell /\ tail \in Cell /\ Line(next, head) /\ c \notin Lead(next, head)
      BY <1>3, <2>2 DEF IInv, Shape, TypeOK, List
    <3>2. next' = [next EXCEPT ![tail] = c] /\ head' = head
      BY <1>1, <2>2
    <3>3. /\ next' \in Pointers /\ Lead(next', head) \subseteq Lead(next, head) \cup {c}
          /\ Line(next', head)
      BY <1>2, <1>3, <1>4, <3>1, <3>2, LineAppend
    <3> QED BY <3>1, <3>2, <3>3 DEF List
  <2> QED BY <2>1, <2>2
<1>6. pc'[Main] = "complete" /\ scan'[Main].key = NULL /\ \A u \in Thread : u # Main => pc'[u] = pc[u]
  BY <1>1, Threads DEF IInv, TypeOK, NoLocals
<1>7. Last = returned /\ Last' = returned + 1 /\ Adding'
  BY <1>1, <1>2, <1>6 DEF Last, Adding
<1>8. TypeOK'
  <2>1. scan' \in [Thread -> [key : Key \cup {NULL}, e : Cell \cup {NULL}, prev : Cell \cup {NULL}]]
    BY <1>1 DEF IInv, TypeOK, NoLocals
  <2> QED BY <1>1, <1>2, <1>5, <2>1 DEF IInv, TypeOK, Pointers
<1>9. Shape'
  BY <1>1, <1>2, <1>5, Threads DEF Shape
<1>10. Owned'
  BY <1>1, <1>2, <1>6, <1>7 DEF Owned
<1>11. \A d \in List : ent[d] # NULL /\ ent[d].r \in Req /\ ent[d].r <= returned /\ posted[ent[d].r] = 0
  BY <1>4, <1>7, RequestFields DEF IInv, Requests
<1>12. posted[returned + 1] = 0
  BY <1>4, <1>7 DEF IInv, Requests
<1>13. Requests'
  <2>1. \A d \in List' : ent'[d] # NULL /\ ent'[d].r <= returned + 1 /\ posted'[ent'[d].r] = 0
    <3>1. ASSUME NEW d \in List PROVE ent[d].r <= returned + 1
      <4>1. ent[d].r \in Nat /\ ent[d].r <= returned BY <1>11, Threads
      <4> QED BY <1>4, <4>1
    <3>2. returned + 1 <= returned + 1
      BY <1>4
    <3> QED BY <1>1, <1>3, <1>5, <1>11, <1>12, <3>1, <3>2
  <2>2. \A b, d \in List' : ent'[b].r = ent'[d].r => b = d
    <3>1. \A b, d \in List : ent[b].r = ent[d].r => b = d
      BY DEF IInv, Requests
    <3>2. \A d \in List : ent[d].r # ent[c].r
      BY <1>3, <1>4, <1>11, Threads
    <3> QED BY <1>1, <1>5, <3>1, <3>2
  <2>3. \A r \in Req : /\ posted'[r] <= 1
                       /\ posted'[r] # 0 => r <= returned + 1
                       /\ r > returned + 1 \/ (r = returned + 1 /\ ~Adding') => seen'[r] = {}
    BY <1>1, <1>4, <1>7, Threads DEF IInv, Requests
  <2> QED BY <1>1, <1>7, <2>1, <2>2, <2>3 DEF Requests
<1>14. Scans'
  BY <1>1, <1>6, Threads DEF IInv, Scans
<1>15. Noticed'
  <2>1. \A d : ~Ahead(d) /\ ~Ahead(d)'
    BY <1>1 DEF Ahead
  <2>2. \A d : Complete(d)' <=> Complete(d)
    BY <1>1 DEF Complete
  <2>3. \A d \in List : \A i \in DOMAIN ent[d].keys : i \in seen[ent[d].r] <=> ent[d].status[i]
    BY <2>1 DEF IInv, Noticed
  <2>4. \A d \in List : ~Complete(d)
    BY <1>1, <2>1 DEF IInv, Noticed
  <2>5. own'.c = c
    BY <1>1 DEF c
  <2> QED BY <1>1, <1>3, <1>5, <1>6, <1>7, <2>1, <2>2, <2>3, <2>4, <2>5 DEF Noticed
<1> QED BY <1>8, <1>9, <1>10, <1>13, <1>14, <1>15 DEF IInv

(* The return of deps_add keeps the invariant. *)
LEMMA ReturnStep ==
  ASSUME IInv, deps_add_return
  PROVE  IInv'
<1>1. /\ pc[Main] = "return" /\ returned' = returned + 1 /\ own' = NULL
      /\ pc' = [pc EXCEPT ![Main] = "idle"]
      /\ UNCHANGED <<nobj, obj_mutex, dep_mutex, head, tail, next, ent, scan, posted, seen>>
  BY DEF deps_add_return, Goes, depVars
<1>2. /\ pc'[Main] = "idle" /\ \A u \in Thread : u # Main => pc'[u] = pc[u]
      /\ Adding /\ ~Adding' /\ returned < MaxReq /\ returned \in Nat /\ MaxReq \in Nat
      /\ Main \in Thread
  BY <1>1, Threads, DepsAssumption DEF IInv, TypeOK, Owned, Adding
<1>3. List' = List /\ Last' = Last
  BY <1>1, <1>2 DEF List, Last
<1>4. TypeOK'
  BY <1>1, <1>2 DEF IInv, TypeOK
<1>5. Shape'
  BY <1>1 DEF IInv, Shape
<1>6. Owned'
  BY <1>2 DEF Owned
<1>7. Requests'
  <2>1. \A r \in Req : r > returned' + 1 \/ r = returned' + 1 => seen[r] = {}
    BY <1>1, <1>2, Threads DEF IInv, Requests
  <2> QED BY <1>1, <1>3, <2>1 DEF IInv, Requests
<1>8. Scans'
  BY <1>1, <1>2, <1>3 DEF IInv, Scans
<1>9. Noticed'
  <2>1. \A c : (Ahead(c)' <=> Ahead(c)) /\ (Complete(c)' <=> Complete(c))
    BY <1>1 DEF Ahead, Complete
  <2> QED BY <1>1, <1>3, <2>1 DEF IInv, Noticed
<1> QED BY <1>4, <1>5, <1>6, <1>7, <1>8, <1>9 DEF IInv

-----------------------------------------------------------------------------
(* The invariant holds.                                                    *)

(* The invariant holds initially. *)
LEMMA InitIInv ==
  ASSUME Init
  PROVE  IInv
<1>1. TypeOK
  BY DepsAssumption, Threads DEF Init, TypeOK, NoLocals, Req
<1>2. List = {} /\ head = NULL
  BY LeadNull DEF Init, List
<1>3. Main \in Thread /\ NULL \notin Thread
  BY Threads
<1>4. Shape /\ Owned /\ Requests /\ Scans /\ Noticed
  BY <1>2, <1>3 DEF Init, Shape, Line, List, Owned, Adding, Requests, Scans, Noticed
<1> QED BY <1>1, <1>4 DEF IInv

(* Every step keeps the invariant. *)
LEMMA NextIInv ==
  ASSUME IInv, [Next]_vars
  PROVE  IInv'
<1>1. CASE UNCHANGED vars
  <2>1. nobj' \in [Key -> 0 .. MaxObj]
    BY <1>1 DEF IInv, TypeOK, vars
  <2> QED BY <1>1, <2>1, StoreStep DEF vars, depVars
<1>2. CASE Next
  BY <1>2, AddStep, RemoveStep, UnlockStep, LockStep, KeepStep, PostStep, EndStep,
     NewStep, CheckStep, LinkStep, ReturnStep DEF Next, Continue, deps_add_steps
<1> QED BY <1>1, <1>2

(* The inductive invariant of dependency tracking. *)
LEMMA InvariantIInv == Spec => []IInv
<1>1. Init => IInv
  BY InitIInv
<1>2. IInv /\ [Next]_vars => IInv'
  BY NextIInv
<1> QED BY <1>1, <1>2, PTL DEF Spec

(* Types: the objects under a key are never fewer than none, a request has as
   many status bits as keys, and no more requests return than were made. *)
THEOREM TypeCorrect == Spec => []TypeOK
<1>1. IInv => TypeOK
  BY DEF IInv
<1> QED BY <1>1, InvariantIInv, PTL

(* The list deps_complete walks has only allocated cells, of requests that were
   not posted, and no request is posted twice. *)
THEOREM ListIsSound == Spec => []ListSound
<1>1. IInv => ListSound
  BY FromIsLead DEF IInv, Requests, ListSound, List
<1> QED BY <1>1, InvariantIInv, PTL

(* When nobody is adding, no request whose keys were all noticed is left on the
   list: the scan that marks the last bit posts it, and the scan for no key in
   deps_add posts what was complete from the start. *)
THEOREM NothingForgotten == Spec => []NoneForgotten
<1>1. IInv => NoneForgotten
  <2> SUFFICES ASSUME IInv, Quiet, NEW c \in List, DOMAIN ent[c].keys \subseteq seen[ent[c].r]
               PROVE  FALSE
    BY FromIsLead DEF NoneForgotten, List
  <2>1. \A t \in Thread : pc[t] \in {"idle", "check"}
    BY DEF Quiet
  <2>2. dep_mutex = NULL
    BY <2>1 DEF IInv, Scans, TypeOK
  <2>3. ~Ahead(c)
    BY <2>2 DEF Ahead
  <2>4. Complete(c)
    BY <2>3 DEF IInv, Noticed, Complete
  <2>5. pc[Main] # "complete"
    BY <2>1, Threads
  <2> QED BY <2>3, <2>4, <2>5 DEF IInv, Noticed
<1> QED BY <1>1, InvariantIInv, PTL

(* The step that posts a request finds every key of it noticed. *)
THEOREM OnlyCompletePosted == Spec => PostedComplete
<1> DEFINE A == \A r \in Req :
                  posted'[r] # posted[r] =>
                    \E c \in Cell : ent[c] # NULL /\ ent[c].r = r /\ DOMAIN ent[c].keys \subseteq seen[r]
<1>1. IInv /\ [Next]_vars => [A]_vars
  <2> SUFFICES ASSUME IInv, Next, NEW r \in Req, posted'[r] # posted[r]
               PROVE  \E c \in Cell : ent[c] # NULL /\ ent[c].r = r /\ DOMAIN ent[c].keys \subseteq seen[r]
    OBVIOUS
  <2>1. PICK t \in Thread : deps_complete_post(t)
    BY DEF Next, Continue, obj_add, obj_remove, obj_add_unlock, deps_complete_lock,
           deps_complete_keep, deps_complete_unlock, deps_add, deps_add_steps,
           deps_add_check, deps_add_link, deps_add_return
  <2> DEFINE e == scan[t].e
  <2>2. e \in List /\ e \in Cell /\ ent[e] # NULL
    <3>1. e \in List
      BY <2>1, Threads DEF deps_complete_post, IInv, Scans
    <3> QED BY <3>1, ListCells DEF IInv, Requests
  <2>3. r = ent[e].r
    BY <2>1, <2>2 DEF deps_complete_post, IInv, TypeOK
  <2>4. DOMAIN ent[e].keys \subseteq seen[ent[e].r]
    BY <2>1, PostStep
  <2> QED BY <2>2, <2>3, <2>4
<1> QED BY <1>1, InvariantIInv, PTL DEF Spec, PostedComplete
=============================================================================
