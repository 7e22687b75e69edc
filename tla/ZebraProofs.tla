----------------------------- MODULE ZebraProofs -----------------------------
(***************************************************************************)
(* The list of route entries of a prefix stays well formed, for any route  *)
(* types, distances and payloads, and any number of requests, contexts and *)
(* environment events.                                                     *)
(***************************************************************************)
EXTENDS ZebraRib, WellFoundedInduction, TLAPS

\* Most leaves are first-order; the ones that need arithmetic say SMT.
USE ZenonT(30)

-----------------------------------------------------------------------------
(* Least and greatest elements: what First, Last and Best choose exists. *)

\* A nonempty set of naturals has a least element.
LEMMA LeastNat ==
    ASSUME NEW T, T \subseteq Nat, T # {}
    PROVE  \E x \in T : \A y \in T : x <= y
<1>1. IsWellFoundedOn(OpToRel(<, Nat), Nat)
  BY NatLessThanWellFounded
<1>2. \E x \in T : \A y \in T : ~ (<<y, x>> \in OpToRel(<, Nat))
  BY <1>1, WFMin
<1>3. \A x, y \in Nat : y < x => <<y, x>> \in OpToRel(<, Nat)
  BY DEF OpToRel
<1>4. \E x \in T : \A y \in T : ~ (y < x)
  BY <1>2, <1>3
<1> QED
  BY <1>4, SMTT(30)

\* A nonempty set of naturals with a bound has a greatest element.
LEMMA GreatestNat ==
    ASSUME NEW n \in Nat, NEW T, T \subseteq 0..n, T # {}
    PROVE  \E x \in T : \A y \in T : y <= x
<1> DEFINE U == {k \in Nat : n - k \in T}
<1>1. U # {}
  <2>1. PICK x \in T : TRUE
    OBVIOUS
  <2>2. n - x \in U
    BY <2>1, SMTT(30)
  <2> QED
    BY <2>2
<1>2. PICK k \in U : \A m \in U : k <= m
  BY <1>1, LeastNat
<1>3. \A y \in T : n - y \in U
  BY SMTT(30)
<1> QED
  BY <1>2, <1>3, SMTT(30)

\* Entries whose ids are at most n.
Upto(S, n) == S \subseteq Entries /\ \A e \in S : e.id <= n

\* The first entry of a list is one of the list, unless the list is empty.
LEMMA FirstIn ==
    ASSUME NEW n \in Nat, NEW S, Upto(S, n)
    PROVE  /\ S = {} => First(S) = NULL
           /\ S # {} => \E e \in S : First(S) = e.id /\ \A f \in S : f.id <= e.id
<1>1. CASE S = {}
  BY <1>1 DEF First
<1>2. CASE S # {}
  <2> DEFINE T == {e.id : e \in S}
  <2>1. T \subseteq 0..n /\ T # {}
    BY <1>2, SMTT(30) DEF Upto, Entries
  <2>2. \E x \in T : \A y \in T : y <= x
    BY <2>1, GreatestNat
  <2>3. \E e \in S : \A f \in S : f.id <= e.id
    BY <2>2
  <2> QED
    BY <1>2, <2>3 DEF First
<1> QED
  BY <1>1, <1>2

\* So is the last one.
LEMMA LastIn ==
    ASSUME NEW n \in Nat, NEW S, Upto(S, n)
    PROVE  /\ S = {} => Last(S) = NULL
           /\ S # {} => \E e \in S : Last(S) = e.id
<1>1. CASE S = {}
  BY <1>1 DEF Last
<1>2. CASE S # {}
  <2> DEFINE T == {e.id : e \in S}
  <2>1. T \subseteq Nat /\ T # {}
    BY <1>2 DEF Upto, Entries
  <2>2. \E x \in T : \A y \in T : x <= y
    BY <2>1, LeastNat
  <2>3. \E e \in S : \A f \in S : e.id <= f.id
    BY <2>2
  <2> QED
    BY <1>2, <2>3 DEF Last
<1> QED
  BY <1>1, <1>2

Distinct(S) == \A e, f \in S : e.id = f.id => e = f

\* rib_choose_best finds a best entry whenever there is one to choose: system
\* routes before others, then the distance, then the age.
LEMMA BestIn ==
    ASSUME NEW S, S \subseteq Entries, Distinct(S)
    PROVE  /\ S = {} => Best(S) = NULL
           /\ S # {} => \E e \in S : Best(S) = e.id
<1>1. CASE S = {}
  BY <1>1 DEF Best
<1>2. CASE S # {}
  <2> DEFINE A == IF \E e \in S : e.type \in System
                  THEN {e \in S : e.type \in System} ELSE S
             D == {Distance[e.type] : e \in A}
  <2>0. \A e \in S : e.type \in Types /\ e.id \in Nat
    BY DEF Entries
  <2>1. A \subseteq S /\ A # {}
    BY <1>2
  <2>2. D \subseteq Nat /\ D # {}
    BY <2>0, <2>1, NodeAssumption
  <2>3. PICK d \in D : \A x \in D : d <= x
    BY <2>2, LeastNat
  <2> DEFINE B == {e \in A : Distance[e.type] = d}
             I == {e.id : e \in B}
  <2>4. I \subseteq Nat /\ I # {}
    BY <2>0, <2>1, <2>3
  <2>5. PICK i \in I : \A j \in I : i <= j
    BY <2>4, LeastNat
  <2>6. PICK e \in B : e.id = i
    BY <2>5
  <2>7. \A f \in S \ {e} : Beats(e, f)
    <3> SUFFICES ASSUME NEW f \in S, f # e
                 PROVE  Beats(e, f)
      OBVIOUS
    <3>1. e \in S /\ e \in A /\ Distance[e.type] = d
      BY <2>1, <2>6
    <3>2. CASE f \notin A
      BY <3>1, <3>2 DEF Beats
    <3>3. CASE f \in A
      <4>1. e.type \in System <=> f.type \in System
        BY <3>1, <3>3
      <4>2. Distance[f.type] \in Nat /\ d \in Nat /\ d <= Distance[f.type]
        BY <2>2, <2>3, <3>3
      <4>3. CASE Distance[f.type] # d
        BY <3>1, <4>1, <4>2, <4>3, SMTT(30) DEF Beats
      <4>4. CASE Distance[f.type] = d
        <5>1. f.id \in I /\ f.id # e.id /\ f.id \in Nat /\ e.id \in Nat
          BY <2>0, <3>1, <3>3, <4>4 DEF Distinct
        <5>2. e.id < f.id
          BY <2>5, <2>6, <5>1, SMTT(30)
        <5> QED
          BY <3>1, <4>1, <4>4, <5>2 DEF Beats
      <4> QED
        BY <4>3, <4>4
    <3> QED
      BY <3>2, <3>3
  <2>8. \E x \in S : \A f \in S \ {x} : Beats(x, f)
    BY <2>1, <2>6, <2>7
  <2>9. (CHOOSE x \in S : \A f \in S \ {x} : Beats(x, f)) \in S
    BY <2>8
  <2> QED
    BY <1>2, <2>9 DEF Best
<1> QED
  BY <1>1, <1>2

-----------------------------------------------------------------------------
(* Nodes: what every function of the main pthread keeps. *)

OneLive(S) == \A e, f \in Live(S) : e.type = f.type => e = f
OneSelected(S) == \A e, f \in S : e.selected /\ f.selected => e = f

SameIds(S, T) == \A i : (\E e \in T : e.id = i) <=> (\E e \in S : e.id = i)

Points(z, i) == \E e \in z.routes : e.id = i

\* A node all of whose entries have ids up to n.
NodeOK(z, n) ==
    /\ z \in Nodes
    /\ Upto(z.routes, n)
    /\ Distinct(z.routes)
    /\ OneLive(z.routes)
    /\ OneSelected(z.routes)
    /\ z.selected_fib = NULL \/ Points(z, z.selected_fib)

Waits(z) == \A e \in z.routes : e.removed => z.queued

\* What becomes of an entry that is only flagged.
Keeps(e, f) ==
    /\ f \in Entries
    /\ f.id = e.id /\ f.type = e.type
    /\ e.removed => f.removed

\* y has the entries of z, flagged anew, and removes none.
Follows(z, y, n) ==
    /\ NodeOK(y, n)
    /\ \A i : Points(y, i) <=> Points(z, i)
    /\ y.queued = z.queued
    /\ Waits(z) => Waits(y)

LEMMA FollowsTwice ==
    ASSUME NEW x, NEW y, NEW z, NEW n, Follows(x, y, n), Follows(y, z, n)
    PROVE  Follows(x, z, n)
BY DEF Follows

\* T consists of the entries of S, flagged by g.
Image(T, g, S) ==
    /\ \A e \in S : g[e] \in T /\ Keeps(e, g[e])
    /\ \A f \in T : \E e \in S : f = g[e]

\* Flagging the entries of a list, for g the flagging as a function.
LEMMA MapRoutes ==
    ASSUME NEW n \in Nat, NEW S, Upto(S, n), Distinct(S), OneLive(S),
           NEW g, NEW T, Image(T, g, S)
    PROVE  /\ Upto(T, n) /\ Distinct(T) /\ OneLive(T)
           /\ SameIds(S, T)
<1>1. Upto(T, n)
  BY SMTT(30) DEF Upto, Keeps, Image
<1>2. Distinct(T)
  BY SMTT(30) DEF Distinct, Keeps, Image
<1>3. OneLive(T)
  <2> SUFFICES ASSUME NEW e \in T, NEW f \in T, ~e.removed, ~f.removed, e.type = f.type
               PROVE  e = f
    BY DEF OneLive, Live
  <2>1. PICK a \in S : e = g[a]
    BY DEF Image
  <2>2. PICK b \in S : f = g[b]
    BY DEF Image
  <2>3. a \in Live(S) /\ b \in Live(S) /\ a.type = b.type
    BY <2>1, <2>2 DEF Keeps, Live, Image
  <2> QED
    BY <2>1, <2>2, <2>3 DEF OneLive
<1>4. SameIds(S, T)
  BY SMTT(30) DEF Keeps, Image, SameIds
<1> QED
  BY <1>1, <1>2, <1>3, <1>4

LEMMA MapNode ==
    ASSUME NEW n \in Nat, NEW z, NodeOK(z, n), NEW y \in Nodes,
           NEW g, Image(y.routes, g, z.routes), y.selected_fib = z.selected_fib,
           OneSelected(y.routes)
    PROVE  NodeOK(y, n) /\ \A i : Points(y, i) <=> Points(z, i)
<1>1. /\ Upto(z.routes, n) /\ Distinct(z.routes) /\ OneLive(z.routes)
  BY DEF NodeOK
<1>2. /\ Upto(y.routes, n) /\ Distinct(y.routes) /\ OneLive(y.routes)
      /\ SameIds(z.routes, y.routes)
  BY <1>1, MapRoutes
<1>3. \A i : Points(y, i) <=> Points(z, i)
  BY <1>2 DEF SameIds, Points
<1> QED
  BY <1>2, <1>3 DEF NodeOK

\* A node whose entries are flagged, and none of them removed.
Marks(z, y, g) ==
    /\ y \in Nodes
    /\ Image(y.routes, g, z.routes)
    /\ \A e \in z.routes : /\ g[e].removed => e.removed
                           /\ g[e].selected => e.selected
    /\ y.queued = z.queued
    /\ y.selected_fib = z.selected_fib

LEMMA MarksFollows ==
    ASSUME NEW n \in Nat, NEW z, NodeOK(z, n), NEW y, NEW g, Marks(z, y, g)
    PROVE  Follows(z, y, n)
<1>0. OneSelected(y.routes)
  BY SMTT(30) DEF NodeOK, OneSelected, Marks, Image
<1>1. NodeOK(y, n) /\ \A i : Points(y, i) <=> Points(z, i)
  BY <1>0, MapNode DEF Marks
<1>2. Waits(z) => Waits(y)
  BY SMTT(30) DEF Waits, Marks, Image
<1> QED
  BY <1>1, <1>2 DEF Follows, Marks

\* A change of a node that leaves its entries alone.
LEMMA SameRoutes ==
    ASSUME NEW n \in Nat, NEW z, NodeOK(z, n), NEW y \in Nodes,
           y.routes = z.routes, y.queued = z.queued,
           y.selected_fib = NULL \/ Points(z, y.selected_fib)
    PROVE  Follows(z, y, n)
BY DEF NodeOK, Points, Waits, Follows

LEMMA ReIn ==
    ASSUME NEW z, NEW i, Points(z, i)
    PROVE  Re(z, i) \in z.routes /\ Re(z, i).id = i
BY DEF Points, Re

-----------------------------------------------------------------------------
(* Towards the dataplane. *)

LEMMA ContextIn ==
    ASSUME NEW op \in {"INSTALL", "UPDATE", "DELETE"}, NEW e \in Entries,
           NEW t \in Types, NEW i \in Nat, NEW j \in Nat
    PROVE  Context(op, e, t, i, j) \in Contexts
BY DEF Context, Contexts, Entries

LEMMA UpdateFollows ==
    ASSUME NEW n \in Nat, NEW z, NodeOK(z, n), NEW re, Points(z, re),
           NEW old, old = NULL \/ Points(z, old)
    PROVE  /\ Follows(z, dplane_route_update(z, re, old), n)
           /\ dplane_route_update(z, re, old).selected_fib = z.selected_fib
<1> DEFINE r == Re(z, re)
           replace == old \notin {NULL, re}
           seq == z.sequence + 1
           old_seq == IF replace THEN z.sequence + 2 ELSE 0
           old_type == IF replace THEN Re(z, old).type ELSE r.type
           op == IF old = NULL THEN "INSTALL" ELSE "UPDATE"
           number(e) ==
               IF e.id = re THEN [e EXCEPT !.seq = seq]
               ELSE IF e.id = old THEN [e EXCEPT !.seq = old_seq] ELSE e
           g == [e \in z.routes |-> number(e)]
           R == {number(e) : e \in z.routes}
           d == Append(z.dplane, Context(op, r, old_type, seq, old_seq))
           y == [z EXCEPT !.routes = R, !.sequence = IF replace THEN old_seq ELSE seq,
                          !.dplane = d]
<1>0. dplane_route_update(z, re, old) = y
  BY DEF dplane_route_update
<1>1. z \in Nodes /\ z.routes \subseteq Entries /\ z.sequence \in Nat
      /\ z.dplane \in Seq(Contexts)
  BY DEF NodeOK, Nodes
<1>2. seq \in Nat /\ old_seq \in Nat
  BY <1>1, SMTT(30)
<1>3. \A e \in z.routes :
         /\ Keeps(e, number(e))
         /\ number(e).removed = e.removed /\ number(e).selected = e.selected
  BY <1>1, <1>2 DEF Keeps, Entries
<1>4. R \subseteq Entries
  BY <1>3 DEF Keeps
<1>5. d \in Seq(Contexts)
  <2>1. r \in Entries /\ old_type \in Types
    BY <1>1, ReIn, SMTT(30) DEF Entries
  <2>2. Context(op, r, old_type, seq, old_seq) \in Contexts
    BY <1>2, <2>1, ContextIn
  <2> QED
    BY <1>1, <2>2, SMTT(30)
<1> HIDE DEF seq, old_seq, d, R, number
<1>6. /\ y \in Nodes /\ y.routes = R
      /\ y.selected_fib = z.selected_fib /\ y.queued = z.queued
  BY <1>1, <1>2, <1>4, <1>5 DEF Nodes
<1>7. Marks(z, y, g)
  BY <1>3, <1>6 DEF Image, R, Marks
<1> HIDE DEF y, g
<1>8. Follows(z, y, n)
  BY <1>7, MarksFollows
<1> QED
  BY <1>0, <1>6, <1>8

LEMMA DeleteFollows ==
    ASSUME NEW n \in Nat, NEW z, NodeOK(z, n), NEW re, Points(z, re)
    PROVE  Follows(z, dplane_route_delete(z, re), n)
<1> DEFINE r == Re(z, re)
           seq == z.sequence + 1
           number(e) == IF e.id = re THEN [e EXCEPT !.seq = seq] ELSE e
           g == [e \in z.routes |-> number(e)]
           R == {number(e) : e \in z.routes}
           d == Append(z.dplane, Context("DELETE", r, r.type, seq, 0))
           y == [z EXCEPT !.routes = R, !.sequence = seq, !.dplane = d]
<1>0. dplane_route_delete(z, re) = y
  BY DEF dplane_route_delete
<1>1. z \in Nodes /\ z.routes \subseteq Entries /\ z.sequence \in Nat
      /\ z.dplane \in Seq(Contexts)
  BY DEF NodeOK, Nodes
<1>2. seq \in Nat
  BY <1>1, SMTT(30)
<1>3. \A e \in z.routes :
         /\ Keeps(e, number(e))
         /\ number(e).removed = e.removed /\ number(e).selected = e.selected
  BY <1>1, <1>2 DEF Keeps, Entries
<1>4. R \subseteq Entries
  BY <1>3 DEF Keeps
<1>5. d \in Seq(Contexts)
  <2>1. r \in Entries /\ r.type \in Types
    BY <1>1, ReIn, SMTT(30) DEF Entries
  <2>2. Context("DELETE", r, r.type, seq, 0) \in Contexts
    BY <1>2, <2>1, ContextIn
  <2> QED
    BY <1>1, <2>2, SMTT(30)
<1> HIDE DEF seq, d, R, number
<1>6. /\ y \in Nodes /\ y.routes = R
      /\ y.selected_fib = z.selected_fib /\ y.queued = z.queued
  BY <1>1, <1>2, <1>4, <1>5 DEF Nodes
<1>7. Marks(z, y, g)
  BY <1>3, <1>6 DEF Image, R, Marks
<1> HIDE DEF y, g
<1> QED
  BY <1>0, <1>7, MarksFollows

\* rib_install_kernel moves selected_fib to the entry it sends.
LEMMA InstallFollows ==
    ASSUME NEW n \in Nat, NEW z, NodeOK(z, n), NEW re, Points(z, re),
           NEW old, old = NULL \/ Points(z, old)
    PROVE  Follows(z, rib_install_kernel(z, re, old), n)
<1> DEFINE lost == old \notin {NULL, re} /\ Re(z, old).type # Re(z, re).type
           told == IF lost
                   THEN [z.note EXCEPT ![Re(z, old).type] = "BETTER_ADMIN_WON"]
                   ELSE z.note
           x == [z EXCEPT !.note = told, !.selected_fib = re]
           sent == dplane_route_update(x, re, old)
           mark(e) == [e EXCEPT !.queued = @ \/ e.id \in {re, old},
                                !.replacing = @ \/ (e.id = re /\ old # NULL)]
           R == {mark(e) : e \in sent.routes}
           y == [sent EXCEPT !.routes = R]
           g == [e \in sent.routes |-> mark(e)]
<1>0. rib_install_kernel(z, re, old) = y
  BY DEF rib_install_kernel
<1>1. z \in Nodes /\ z.routes \subseteq Entries /\ z.note \in [Types -> Notes]
  BY DEF NodeOK, Nodes
<1>2. told \in [Types -> Notes]
  BY <1>1, ReIn DEF Notes
<1>3. re \in Nat
  BY <1>1 DEF Points, Entries
<1> HIDE DEF told
<1>4. /\ x \in Nodes /\ x.routes = z.routes /\ x.queued = z.queued
      /\ x.selected_fib = re
  BY <1>1, <1>2, <1>3 DEF Nodes
<1>5. Follows(z, x, n)
  BY <1>4, SameRoutes
<1> HIDE DEF x
<1>6. Follows(x, sent, n) /\ sent.selected_fib = re
  BY <1>4, <1>5, UpdateFollows DEF Follows
<1> HIDE DEF sent
<1>7. sent \in Nodes /\ sent.routes \subseteq Entries /\ NodeOK(sent, n)
  BY <1>6 DEF Follows, NodeOK, Nodes
<1>8. \A e \in sent.routes :
         /\ Keeps(e, mark(e))
         /\ mark(e).removed = e.removed /\ mark(e).selected = e.selected
  BY <1>7 DEF Keeps, Entries
<1>9. R \subseteq Entries
  BY <1>8 DEF Keeps
<1> HIDE DEF mark, R
<1>10. /\ y \in Nodes /\ y.routes = R /\ y.selected_fib = sent.selected_fib
       /\ y.queued = sent.queued
  BY <1>7, <1>9 DEF Nodes
<1>11. Marks(sent, y, g)
  BY <1>8, <1>10 DEF Image, R, Marks
<1> HIDE DEF y, g
<1>12. Follows(sent, y, n)
  BY <1>7, <1>11, MarksFollows
<1> QED
  BY <1>0, <1>5, <1>6, <1>12, FollowsTwice

-----------------------------------------------------------------------------
(* Redistribution and best-path selection. *)

LEMMA RedistDelFollows ==
    ASSUME NEW n \in Nat, NEW z, NodeOK(z, n), NEW t
    PROVE  Follows(z, RedistDel(z, t), n)
<1> DEFINE y == RedistDel(z, t)
<1>1. /\ y \in Nodes /\ y.routes = z.routes /\ y.queued = z.queued
      /\ y.selected_fib = z.selected_fib
  BY DEF RedistDel, NodeOK, Nodes
<1> QED
  BY <1>1, SameRoutes DEF NodeOK

LEMMA RedistAddFollows ==
    ASSUME NEW n \in Nat, NEW z, NodeOK(z, n), NEW e \in Entries
    PROVE  Follows(z, RedistAdd(z, e), n)
<1> DEFINE y == RedistAdd(z, e)
<1>1. [type |-> e.type, pay |-> e.pay] \in Routes
  BY DEF Entries, Routes
<1>2. /\ y \in Nodes /\ y.routes = z.routes /\ y.queued = z.queued
      /\ y.selected_fib = z.selected_fib
  BY <1>1 DEF RedistAdd, NodeOK, Nodes
<1> QED
  BY <1>2, SameRoutes DEF NodeOK

LEMMA FollowsSelf ==
    ASSUME NEW n, NEW z, NodeOK(z, n)
    PROVE  Follows(z, z, n)
BY DEF Follows

LEMMA RedistUpdateFollows ==
    ASSUME NEW n \in Nat, NEW z, NodeOK(z, n), NEW re, Points(z, re), NEW prev
    PROVE  Follows(z, redistribute_update(z, re, prev), n)
<1>1. Re(z, re) \in Entries
  BY ReIn DEF NodeOK, Nodes
<1> QED
  BY <1>1, RedistAddFollows, RedistDelFollows, FollowsSelf DEF redistribute_update

LEMMA RedistDeleteFollows ==
    ASSUME NEW n \in Nat, NEW z, NodeOK(z, n), NEW old, NEW new
    PROVE  Follows(z, redistribute_delete(z, old, new), n)
BY RedistDelFollows, FollowsSelf DEF redistribute_delete

LEMMA UpdateFibFollows ==
    ASSUME NEW n \in Nat, NEW z, NodeOK(z, n), NEW old, Points(z, old),
           NEW new, Points(z, new)
    PROVE  Follows(z, rib_process_update_fib(z, old, new), n)
BY InstallFollows, FollowsSelf DEF rib_process_update_fib

\* rib_unlink clears selected_fib when it points at the entry.
LEMMA UnlinkOK ==
    ASSUME NEW n \in Nat, NEW z, NodeOK(z, n), NEW S, S \subseteq z.routes
    PROVE  /\ NodeOK(Unlink(z, S), n)
           /\ Unlink(z, S).routes = z.routes \ S
           /\ Unlink(z, S).queued = z.queued
           /\ \A i : Points(Unlink(z, S), i) => Points(z, i)
<1> DEFINE y == Unlink(z, S)
<1>1. z \in Nodes
  BY DEF NodeOK
<1>2. /\ y \in Nodes /\ y.routes = z.routes \ S /\ y.queued = z.queued
      /\ y.selected_fib = IF \E e \in S : e.id = z.selected_fib THEN NULL
                          ELSE z.selected_fib
  BY <1>1 DEF Unlink, Nodes, NULL
<1> HIDE DEF y
<1>3. /\ Upto(y.routes, n) /\ Distinct(y.routes) /\ OneLive(y.routes)
      /\ OneSelected(y.routes)
  BY <1>2 DEF NodeOK, Upto, Distinct, OneLive, Live, OneSelected
<1>4. y.selected_fib = NULL \/ Points(y, y.selected_fib)
  BY <1>2 DEF NodeOK, Points
<1>5. \A i : Points(y, i) => Points(z, i)
  BY <1>2 DEF Points
<1>6. NodeOK(y, n)
  BY <1>2, <1>3, <1>4 DEF NodeOK
<1> QED
  BY <1>2, <1>5, <1>6 DEF y

\* The last part of rib_process takes the node off the queue, and every
\* removed entry off the list.
LEMMA UpdateFibOK ==
    ASSUME NEW n \in Nat, NEW z, NodeOK(z, n), NEW new, new = NULL \/ Points(z, new)
    PROVE  /\ NodeOK(UpdateFib(z, new), n) /\ Waits(UpdateFib(z, new))
           /\ \A i : Points(UpdateFib(z, new), i) => Points(z, i)
<1> DEFINE old == z.selected_fib
           sent == CASE new # NULL /\ old # NULL -> rib_process_update_fib(z, old, new)
                     [] new # NULL /\ old = NULL -> rib_install_kernel(z, new, NULL)
                     [] new = NULL /\ old # NULL -> dplane_route_delete(z, old)
                     [] OTHER -> z
           settle(e) == IF e.id \in {old, new} THEN [e EXCEPT !.changed = FALSE] ELSE e
           R == {settle(e) : e \in sent.routes}
           clean == [sent EXCEPT !.routes = R, !.queued = FALSE]
           g == [e \in sent.routes |-> settle(e)]
<1>0. UpdateFib(z, new) = Unlink(clean, {e \in clean.routes : e.removed})
  BY DEF UpdateFib
<1>1. Follows(z, sent, n)
  <2>0. old = NULL \/ Points(z, old)
    BY DEF NodeOK
  <2>1. CASE new # NULL /\ old # NULL
    <3>1. sent = rib_process_update_fib(z, old, new)
      BY <2>1
    <3> QED
      BY <2>0, <2>1, <3>1, UpdateFibFollows
  <2>2. CASE new # NULL /\ old = NULL
    <3>1. sent = rib_install_kernel(z, new, NULL)
      BY <2>2
    <3> QED
      BY <2>2, <3>1, InstallFollows
  <2>3. CASE new = NULL /\ old # NULL
    <3>1. sent = dplane_route_delete(z, old)
      BY <2>3
    <3> QED
      BY <2>0, <2>3, <3>1, DeleteFollows
  <2>4. CASE new = NULL /\ old = NULL
    <3>1. sent = z
      BY <2>4
    <3> QED
      BY <3>1, FollowsSelf
  <2> QED
    BY <2>1, <2>2, <2>3, <2>4
<1> HIDE DEF sent
<1>2. sent \in Nodes /\ sent.routes \subseteq Entries /\ NodeOK(sent, n)
  BY <1>1 DEF Follows, NodeOK, Nodes
<1>3. \A e \in sent.routes : Keeps(e, settle(e)) /\ settle(e).selected = e.selected
  BY <1>2 DEF Keeps, Entries
<1>4. R \subseteq Entries
  BY <1>3 DEF Keeps
<1> HIDE DEF settle, R
<1>5. /\ clean \in Nodes /\ clean.routes = R /\ clean.queued = FALSE
      /\ clean.selected_fib = sent.selected_fib
  BY <1>2, <1>4 DEF Nodes
<1>6. Image(clean.routes, g, sent.routes)
  BY <1>3, <1>5 DEF Image, R
<1>7. OneSelected(clean.routes)
  BY <1>2, <1>3, <1>5, SMTT(30) DEF NodeOK, OneSelected, R
<1> HIDE DEF clean, g
<1>8. NodeOK(clean, n) /\ \A i : Points(clean, i) <=> Points(sent, i)
  BY <1>2, <1>5, <1>6, <1>7, MapNode
<1> DEFINE y == Unlink(clean, {e \in clean.routes : e.removed})
<1>9. /\ NodeOK(y, n) /\ y.routes = clean.routes \ {e \in clean.routes : e.removed}
      /\ \A i : Points(y, i) => Points(clean, i)
  BY <1>8, UnlinkOK
<1>10. Waits(y)
  BY <1>9 DEF Waits
<1> QED
  BY <1>0, <1>1, <1>8, <1>9, <1>10 DEF Follows

\* rib_process leaves a single entry selected, whichever it chooses.
LEMMA ProcessOK ==
    ASSUME NEW n \in Nat, NEW z, NodeOK(z, n), NEW usable \in [Types -> BOOLEAN]
    PROVE  /\ NodeOK(rib_process(z, usable), n) /\ Waits(rib_process(z, usable))
           /\ \A i : Points(rib_process(z, usable), i) => Points(z, i)
<1> DEFINE old_selected == First({e \in z.routes : e.selected})
           examined == Examined(z, usable)
           new_selected == Best(Candidates(examined))
           proto_re_changed == Last({e \in Live(z.routes) : e.changed})
           changed == \E e \in examined : e.id = new_selected /\ e.changed
           flag(e) == [e EXCEPT
               !.selected = e.id = new_selected \/ (@ /\ e.id # old_selected),
               !.changed = @ /\ (e.id = new_selected \/ e \notin Candidates(examined))]
           refused == {e.type : e \in {f \in Live(z.routes) : f.changed /\ ~usable[f.type]}}
           outdone == /\ NULL \notin {new_selected, proto_re_changed}
                      /\ proto_re_changed # old_selected
                      /\ Re(z, new_selected).type # Re(z, proto_re_changed).type
           told == [t \in Types |->
                       IF outdone /\ t = Re(z, proto_re_changed).type THEN "BETTER_ADMIN_WON"
                       ELSE IF t \in refused THEN "FAIL_INSTALL" ELSE z.note[t]]
           R == {flag(e) : e \in examined}
           chosen == [z EXCEPT !.routes = R, !.note = told]
           gone == /\ old_selected # NULL
                   /\ old_selected # new_selected \/ changed
                   /\ new_selected = NULL \/ Re(z, old_selected).removed
           shown == IF gone THEN redistribute_delete(chosen, old_selected, new_selected)
                    ELSE chosen
           look(e) == IF e.removed \/ ~e.changed THEN e
                      ELSE nexthop_active_update(e, usable[e.type])
           h == [e \in z.routes |-> look(e)]
           g == [e \in z.routes |-> flag(look(e))]
<1>0. rib_process(z, usable) = UpdateFib(shown, new_selected)
  BY DEF rib_process
<1>1. z \in Nodes /\ z.routes \subseteq Entries /\ z.note \in [Types -> Notes]
      /\ Upto(z.routes, n) /\ Distinct(z.routes) /\ OneLive(z.routes)
  BY DEF NodeOK, Nodes
<1>2. \A e \in z.routes : Keeps(e, look(e)) /\ look(e).selected = e.selected
  BY <1>1 DEF Keeps, Entries, nexthop_active_update
<1>3. examined = {look(e) : e \in z.routes}
  BY DEF Examined
<1> HIDE DEF look, examined
<1>4. Image(examined, h, z.routes)
  BY <1>2, <1>3 DEF Image
<1>5. Upto(examined, n) /\ Distinct(examined) /\ SameIds(z.routes, examined)
  <2> HIDE DEF h
  <2> QED
    BY <1>1, <1>4, MapRoutes
<1>6. new_selected = NULL \/ Points(z, new_selected)
  <2>1. Candidates(examined) \subseteq examined
    BY DEF Candidates, Live
  <2>2. Candidates(examined) \subseteq Entries /\ Distinct(Candidates(examined))
    BY <1>5, <2>1 DEF Upto, Distinct
  <2>3. new_selected = NULL \/ \E e \in examined : new_selected = e.id
    BY <2>1, <2>2, BestIn
  <2> QED
    BY <1>5, <2>3 DEF SameIds, Points
<1>7. \A e \in z.routes : e.selected => e.id = old_selected
  <2> SUFFICES ASSUME NEW e \in z.routes, e.selected
               PROVE  e.id = old_selected
    OBVIOUS
  <2> DEFINE S == {f \in z.routes : f.selected}
  <2>1. Upto(S, n) /\ S # {}
    BY <1>1 DEF Upto
  <2>2. PICK f \in S : First(S) = f.id
    BY <2>1, FirstIn
  <2>3. f = e
    BY <2>2 DEF NodeOK, OneSelected
  <2> QED
    BY <2>2, <2>3
<1>8. told \in [Types -> Notes]
  BY <1>1 DEF Notes
<1> HIDE DEF new_selected, old_selected, told
<1>9. \A e \in examined : flag(e) \in Entries /\ Keeps(e, flag(e))
  BY <1>5 DEF Upto, Entries, Keeps
<1>10. \A e \in z.routes : Keeps(e, flag(look(e)))
  BY <1>2, <1>3, <1>9 DEF Keeps
<1>11. \A e \in examined : flag(e).selected => flag(e).id = new_selected
  <2> SUFFICES ASSUME NEW e \in examined, flag(e).selected
               PROVE  flag(e).id = new_selected
    OBVIOUS
  <2>1. e \in Entries /\ flag(e).id = e.id
    BY <1>5, <1>9 DEF Upto, Keeps
  <2>2. e.id = new_selected \/ (e.selected /\ e.id # old_selected)
    BY <2>1 DEF Entries
  <2>3. PICK f \in z.routes : e = look(f)
    BY <1>3
  <2>4. e.selected => e.id = old_selected
    BY <1>2, <1>7, <2>3 DEF Keeps
  <2> QED
    BY <2>1, <2>2, <2>4
<1> HIDE DEF flag
<1>12. R \subseteq Entries
  BY <1>9
<1>13. Image(R, g, z.routes)
  BY <1>3, <1>10 DEF Image
<1>14. OneSelected(R)
  BY <1>5, <1>9, <1>11, SMTT(30) DEF Distinct, OneSelected, Keeps
<1> HIDE DEF R, g
<1>15. /\ chosen \in Nodes /\ chosen.routes = R
       /\ chosen.selected_fib = z.selected_fib
  BY <1>1, <1>8, <1>12 DEF Nodes
<1> HIDE DEF chosen
<1>16. NodeOK(chosen, n) /\ \A i : Points(chosen, i) <=> Points(z, i)
  BY <1>13, <1>14, <1>15, MapNode
<1>17. Follows(chosen, shown, n)
  BY <1>16, RedistDeleteFollows, FollowsSelf
<1> HIDE DEF shown
<1>18. NodeOK(shown, n) /\ \A i : Points(shown, i) <=> Points(z, i)
  BY <1>16, <1>17 DEF Follows
<1> QED
  BY <1>0, <1>6, <1>18, UpdateFibOK

-----------------------------------------------------------------------------
(* The early-route queue and the dataplane results. *)

LEMMA DelnodeOK ==
    ASSUME NEW n \in Nat, NEW z, NodeOK(z, n), NEW re
    PROVE  /\ NodeOK(rib_delnode(z, re), n) /\ Waits(rib_delnode(z, re))
           /\ \A i : Points(rib_delnode(z, re), i) <=> Points(z, i)
<1> DEFINE mark(e) == [e EXCEPT !.removed = @ \/ e.id = re]
           R == {mark(e) : e \in z.routes}
           g == [e \in z.routes |-> mark(e)]
           y == [z EXCEPT !.routes = R, !.queued = TRUE]
<1>0. rib_delnode(z, re) = y
  BY DEF rib_delnode
<1>1. z \in Nodes /\ z.routes \subseteq Entries
  BY DEF NodeOK, Nodes
<1>2. \A e \in z.routes : Keeps(e, mark(e)) /\ mark(e).selected = e.selected
  BY <1>1 DEF Keeps, Entries
<1> HIDE DEF mark
<1>3. R \subseteq Entries /\ Image(R, g, z.routes) /\ OneSelected(R)
  BY <1>2, SMTT(30) DEF Keeps, Image, NodeOK, OneSelected
<1> HIDE DEF R, g
<1>4. /\ y \in Nodes /\ y.routes = R /\ y.queued = TRUE
      /\ y.selected_fib = z.selected_fib
  BY <1>1, <1>3 DEF Nodes
<1> HIDE DEF y
<1>5. NodeOK(y, n) /\ \A i : Points(y, i) <=> Points(z, i)
  BY <1>3, <1>4, MapNode
<1> QED
  BY <1>0, <1>4, <1>5 DEF Waits

\* A result flags entries and may tell the redistribution client.
LEMMA ResultFollows ==
    ASSUME NEW n \in Nat, NEW z, NodeOK(z, n), NEW c \in Contexts
    PROVE  Follows(z, rib_process_result(z, c), n)
<1> DEFINE re == First({e \in z.routes : rib_route_match_ctx(e, c, FALSE)})
           old == IF c.op # "UPDATE" THEN NULL
                  ELSE First({e \in z.routes : rib_route_match_ctx(e, c, TRUE)})
           unqueue(e) ==
               [e EXCEPT !.queued = @ /\ ~(e.id = re /\ e.seq = c.seq)
                                      /\ ~(e.id = old /\ e.seq = c.old_seq),
                         !.replacing = @ /\ ~(e.id = re /\ e.seq = c.seq)]
           system == /\ c.success \/ c.op = "DELETE"
                     /\ \E e \in z.routes : e.id \in {re, old} /\ e.type \in System
           fix(e) == IF system THEN zebra_rib_fixup_system(e) ELSE e
           note == CASE c.op = "DELETE" /\ c.success -> "REMOVED"
                     [] c.op = "DELETE" /\ ~c.success -> "REMOVE_FAIL"
                     [] c.op # "DELETE" /\ c.success -> "INSTALLED"
                     [] c.op # "DELETE" /\ ~c.success -> "FAIL_INSTALL"
           silent == c.op # "DELETE" /\ ~c.success /\ re = NULL
           flag(e) == fix(ResultFlags(unqueue(e), c, re, old))
           R == {flag(e) : e \in z.routes}
           g == [e \in z.routes |-> flag(e)]
           done == [z EXCEPT !.routes = R, !.note[c.type] = IF silent THEN @ ELSE note]
<1>0. \/ rib_process_result(z, c) = done
      \/ /\ re # NULL
         /\ rib_process_result(z, c) = redistribute_update(done, re, old)
  BY DEF rib_process_result
<1>1. z \in Nodes /\ z.routes \subseteq Entries /\ z.note \in [Types -> Notes]
      /\ c.type \in Types /\ c.success \in BOOLEAN
  BY DEF NodeOK, Nodes, Contexts
<1>2. re = NULL \/ Points(z, re)
  <2> DEFINE S == {e \in z.routes : rib_route_match_ctx(e, c, FALSE)}
  <2>1. Upto(S, n) /\ S \subseteq z.routes
    BY DEF NodeOK, Upto
  <2> QED
    BY <2>1, FirstIn DEF Points
<1> HIDE DEF re, old, system
<1>3. \A e \in z.routes :
         /\ Keeps(e, flag(e))
         /\ flag(e).removed = e.removed /\ flag(e).selected = e.selected
  <2> SUFFICES ASSUME NEW e \in Entries
               PROVE  /\ Keeps(e, flag(e))
                      /\ flag(e).removed = e.removed /\ flag(e).selected = e.selected
    BY <1>1
  <2> DEFINE a == unqueue(e)
             b == ResultFlags(a, c, re, old)
  <2>1. /\ a \in Entries /\ a.id = e.id /\ a.type = e.type
        /\ a.removed = e.removed /\ a.selected = e.selected
    <3> DEFINE q == e.queued /\ ~(e.id = re /\ e.seq = c.seq)
                             /\ ~(e.id = old /\ e.seq = c.old_seq)
               r == e.replacing /\ ~(e.id = re /\ e.seq = c.seq)
    <3>1. e.queued \in BOOLEAN /\ e.replacing \in BOOLEAN
      BY DEF Entries
    <3>2. a = [e EXCEPT !.queued = q, !.replacing = r] /\ q \in BOOLEAN /\ r \in BOOLEAN
      BY <3>1
    <3> HIDE DEF q, r, a
    <3> QED
      BY <3>2 DEF Entries
  <2> HIDE DEF a
  <2>2. /\ b \in Entries /\ b.id = a.id /\ b.type = a.type
        /\ b.removed = a.removed /\ b.selected = a.selected
    <3> DEFINE i == IF a.id # re THEN a.installed /\ ~(a.id = old /\ c.success)
                    ELSE IF c.op = "DELETE" THEN a.installed /\ ~c.success ELSE c.success
               f == IF a.id \in {re, old} THEN ~c.success ELSE a.failed
    <3>1. a.installed \in BOOLEAN /\ a.failed \in BOOLEAN
      BY <2>1 DEF Entries
    <3>2. i \in BOOLEAN /\ f \in BOOLEAN
      BY <1>1, <3>1
    <3>3. b = [a EXCEPT !.installed = i, !.failed = f]
      BY DEF ResultFlags
    <3> HIDE DEF i, f
    <3> QED
      BY <2>1, <3>2, <3>3 DEF Entries
  <2> HIDE DEF b
  <2>3. /\ fix(b) \in Entries /\ fix(b).id = b.id /\ fix(b).type = b.type
        /\ fix(b).removed = b.removed /\ fix(b).selected = b.selected
    BY <2>2 DEF Entries, zebra_rib_fixup_system
  <2> QED
    BY <2>1, <2>2, <2>3 DEF Keeps, a, b
<1> HIDE DEF flag
<1>4. R \subseteq Entries
  BY <1>3 DEF Keeps
<1>5. note \in Notes
  BY <1>1 DEF Notes
<1> HIDE DEF R, note, silent
<1>6. /\ done \in Nodes /\ done.routes = R /\ done.queued = z.queued
      /\ done.selected_fib = z.selected_fib
  BY <1>1, <1>4, <1>5 DEF Nodes
<1>7. Marks(z, done, g)
  BY <1>3, <1>6 DEF Image, R, Marks
<1> HIDE DEF done, g
<1>8. Follows(z, done, n)
  BY <1>7, MarksFollows
<1>9. re # NULL => Follows(done, redistribute_update(done, re, old), n)
  BY <1>2, <1>8, RedistUpdateFollows DEF Follows
<1> QED
  BY <1>0, <1>8, <1>9, FollowsTwice

LEMMA LinkOK ==
    ASSUME NEW n \in Nat, NEW w, NodeOK(w, n), NEW e \in Entries, e.id <= n,
           ~e.selected, ~Points(w, e.id),
           \A f \in Live(w.routes) : f.type # e.type,
           NEW y \in Nodes, y.routes = w.routes \cup {e},
           y.selected_fib = w.selected_fib
    PROVE  NodeOK(y, n) /\ \A i : Points(y, i) => Points(w, i) \/ i = e.id
<1>1. Upto(y.routes, n) /\ Distinct(y.routes)
  BY DEF NodeOK, Upto, Distinct, Points
<1>2. OneLive(y.routes) /\ OneSelected(y.routes)
  BY DEF NodeOK, OneLive, OneSelected, Live
<1>3. y.selected_fib = NULL \/ Points(y, y.selected_fib)
  BY DEF NodeOK, Points
<1> QED
  BY <1>1, <1>2, <1>3 DEF NodeOK, Points

\* A new entry goes in when its predecessor of the same type is withdrawn.
LEMMA AddOK ==
    ASSUME NEW n \in Nat, NEW z, NodeOK(z, n), NEW id \in 1..n, ~Points(z, id),
           NEW t \in Types, NEW p \in Payloads,
           NEW y, y = process_subq_early_route_add(z, id, t, p)
    PROVE  /\ NodeOK(y, n) /\ Waits(y)
           /\ \A i : Points(y, i) => Points(z, i) \/ i = id
<1> DEFINE S == {e \in Live(z.routes) : e.type = t}
           same == First(S)
           N == NewEntry(z, id, t, p)
           linked == [z EXCEPT !.routes = @ \cup {N}, !.queued = TRUE]
           mark(e) == [e EXCEPT !.replacing = @ \/ (e.id = same /\ same = z.selected_fib)]
           marked == [linked EXCEPT !.routes = {mark(e) : e \in @}]
           withdrawn == IF same = NULL THEN linked ELSE rib_delnode(marked, same)
           T == {e \in withdrawn.routes : e.removed /\ e.id # withdrawn.selected_fib}
<1>0. y = Unlink(withdrawn, T)
  BY DEF process_subq_early_route_add
<1>1. z \in Nodes /\ z.routes \subseteq Entries
  BY DEF NodeOK, Nodes
<1>2. /\ N \in Entries /\ N.id = id /\ N.type = t /\ ~N.selected /\ ~N.removed
  BY SMTT(30) DEF NewEntry, Entries, NULL
<1>3. linked \in Nodes /\ linked.routes = z.routes \cup {N} /\ linked.queued = TRUE
      /\ linked.selected_fib = z.selected_fib
  BY <1>1, <1>2 DEF Nodes
<1>4. Upto(S, n) /\ S \subseteq z.routes
  BY DEF Upto, NodeOK, Live
<1>5. /\ NodeOK(withdrawn, n) /\ withdrawn.queued = TRUE
      /\ \A i : Points(withdrawn, i) => Points(z, i) \/ i = id
  <2>1. CASE same = NULL
    <3>1. S = {}
      BY <1>1, <1>4, <2>1, FirstIn DEF Entries, Live
    <3>2. \A f \in Live(z.routes) : f.type # N.type
      BY <1>2, <3>1
    <3> HIDE DEF linked, N
    <3>3. NodeOK(linked, n) /\ \A i : Points(linked, i) => Points(z, i) \/ i = id
      BY <1>2, <1>3, <3>2, LinkOK, SMTT(30)
    <3> QED
      BY <1>3, <2>1, <3>3
  <2>2. CASE same # NULL
    <3> DEFINE x == [z EXCEPT !.routes = {mark(e) : e \in @}]
               w == rib_delnode(x, same)
               v == rib_delnode(marked, same)
               g == [e \in z.routes |-> mark(e)]
    <3>1. \E e \in S : same = e.id
      BY <1>4, <2>2, FirstIn
    <3>2. same # id
      BY <1>4, <3>1 DEF Points
    <3> HIDE DEF same, N
    <3>3. \A e \in z.routes :
             /\ Keeps(e, mark(e))
             /\ mark(e).removed = e.removed /\ mark(e).selected = e.selected
      BY <1>1 DEF Keeps, Entries
    <3>4. mark(N) = N
      <4>1. N.replacing = FALSE
        BY DEF N, NewEntry
      <4>2. (N.replacing \/ (N.id = same /\ same = z.selected_fib)) = FALSE
        BY <1>2, <3>2, <4>1
      <4>3. mark(N) = [N EXCEPT !.replacing = FALSE]
        BY <4>2
      <4> HIDE DEF mark
      <4> QED
        BY <1>2, <4>1, <4>3 DEF Entries
    <3> HIDE DEF mark
    <3>5. /\ x \in Nodes /\ x.routes = {mark(e) : e \in z.routes}
          /\ x.queued = z.queued /\ x.selected_fib = z.selected_fib
      BY <1>1, <3>3, SMTT(30) DEF Nodes, Keeps
    <3>6. Marks(z, x, g)
      BY <3>3, <3>5 DEF Marks, Image
    <3>7. /\ marked \in Nodes /\ marked.routes = x.routes \cup {N}
          /\ marked.queued = TRUE /\ marked.selected_fib = z.selected_fib
      <4> DEFINE M == {mark(e) : e \in linked.routes}
      <4>1. M = x.routes \cup {N}
        BY <1>3, <3>4, <3>5
      <4>2. M \subseteq Entries
        BY <1>2, <3>3, <3>5, <4>1 DEF Keeps
      <4> HIDE DEF M, linked
      <4>3. /\ [linked EXCEPT !.routes = M] \in Nodes
            /\ [linked EXCEPT !.routes = M].routes = M
            /\ [linked EXCEPT !.routes = M].queued = TRUE
            /\ [linked EXCEPT !.routes = M].selected_fib = z.selected_fib
        BY <1>3, <4>2 DEF Nodes
      <4> QED
        BY <4>1, <4>3 DEF M
    <3> HIDE DEF g, x, marked
    <3>8. Follows(z, x, n)
      BY <3>6, MarksFollows
    <3>9. NodeOK(w, n) /\ \A i : Points(w, i) <=> Points(z, i)
      BY <3>8, DelnodeOK DEF Follows
    <3> DEFINE m(e) == [e EXCEPT !.removed = @ \/ e.id = same]
    <3>10. x.routes \subseteq Entries
      BY <3>5, <3>3 DEF Keeps
    <3>11. m(N) = N
      <4>1. N.removed = FALSE
        BY DEF N, NewEntry
      <4>2. (N.removed \/ N.id = same) = FALSE
        BY <1>2, <3>2, <4>1
      <4>3. m(N) = [N EXCEPT !.removed = FALSE]
        BY <4>2
      <4> HIDE DEF m
      <4> QED
        BY <1>2, <4>1, <4>3 DEF Entries
    <3>12. \A e \in x.routes : m(e) \in Entries
      BY <3>10 DEF Entries
    <3>13. /\ w.routes = {m(e) : e \in x.routes} /\ w.selected_fib = z.selected_fib
      BY <3>5 DEF rib_delnode, Nodes
    <3>14. v.routes = {m(e) : e \in marked.routes} /\ v.queued = TRUE
           /\ v.selected_fib = z.selected_fib
      BY <3>7 DEF rib_delnode, Nodes
    <3> DEFINE V == v.routes
    <3>15. V = w.routes \cup {N}
      <4> HIDE DEF m, w, v
      <4> QED
        BY <3>7, <3>11, <3>13, <3>14
    <3>16. w.routes \subseteq Entries
      BY <3>9 DEF NodeOK, Nodes
    <3>17. v \in Nodes
      <4>1. V \subseteq Entries /\ V = {m(e) : e \in marked.routes}
        BY <1>2, <3>14, <3>15, <3>16
      <4>2. v = [marked EXCEPT !.routes = V, !.queued = TRUE]
        BY <4>1 DEF rib_delnode
      <4> HIDE DEF v, V
      <4> QED
        BY <3>7, <4>1, <4>2 DEF Nodes
    <3>18. \A f \in Live(w.routes) : f.type # N.type
      <4> SUFFICES ASSUME NEW f \in w.routes, ~f.removed, f.type = t
                   PROVE  FALSE
        BY <1>2 DEF Live
      <4>1. PICK e \in x.routes : f = m(e)
        BY <3>13
      <4>2. ~e.removed /\ e.type = t /\ e.id # same
        BY <3>10, <4>1 DEF Entries
      <4>3. PICK b \in z.routes : e = mark(b)
        BY <3>5
      <4>4. b \in S /\ b.id # same
        BY <3>3, <4>2, <4>3 DEF Keeps, Live
      <4>5. PICK a \in S : same = a.id
        BY <3>1
      <4>6. a = b
        BY <4>4, <4>5 DEF NodeOK, OneLive
      <4> QED
        BY <4>4, <4>5, <4>6
    <3> HIDE DEF w, v, N
    <3>19. NodeOK(v, n) /\ \A i : Points(v, i) => Points(w, i) \/ i = id
      <4>1. ~Points(w, N.id)
        BY <1>2, <3>9
      <4>2. v.routes = w.routes \cup {N} /\ v.selected_fib = w.selected_fib /\ N.id <= n
        BY <1>2, <3>13, <3>14, <3>15, SMTT(30)
      <4> HIDE DEF S, linked, T
      <4> QED
        BY <1>2, <3>9, <3>17, <3>18, <4>1, <4>2, LinkOK
    <3>20. withdrawn = v
      BY <2>2 DEF v
    <3> QED
      BY <3>9, <3>14, <3>19, <3>20
  <2> QED
    BY <2>1, <2>2
<1> HIDE DEF withdrawn
<1>6. T \subseteq withdrawn.routes
  OBVIOUS
<1>7. /\ NodeOK(y, n) /\ y.queued = TRUE
      /\ \A i : Points(y, i) => Points(withdrawn, i)
  BY <1>0, <1>5, <1>6, UnlinkOK, SMTT(30)
<1> QED
  BY <1>5, <1>7 DEF Waits

LEMMA WithdrawOK ==
    ASSUME NEW n \in Nat, NEW z, NodeOK(z, n), Waits(z), NEW t,
           NEW y, y = process_subq_early_route_delete(z, t)
    PROVE  /\ NodeOK(y, n) /\ Waits(y)
           /\ \A i : Points(y, i) => Points(z, i)
BY DelnodeOK DEF process_subq_early_route_delete

LEMMA KernelDeleteOK ==
    ASSUME NEW n \in Nat, NEW z, NodeOK(z, n), Waits(z), NEW t, NEW p,
           NEW y, y = EarlyDeleteFromKernel(z, t, p)
    PROVE  /\ NodeOK(y, n) /\ Waits(y)
           /\ \A i : Points(y, i) => Points(z, i)
<1> DEFINE S == {e \in Live(z.routes) : e.type = t /\ e.pay = p}
           same == First(S)
           f == z.selected_fib
           uninstall(e) == [e EXCEPT !.installed = @ /\ e.id # f]
           R == {uninstall(e) : e \in z.routes}
           x == [z EXCEPT !.routes = R]
           u == [z EXCEPT !.routes = R, !.selected_fib = NULL]
           g == [e \in z.routes |-> uninstall(e)]
<1>1. z \in Nodes /\ z.routes \subseteq Entries /\ z.queued \in BOOLEAN
      /\ (f = NULL \/ Points(z, f))
  BY DEF NodeOK, Nodes
<1>2. same = NULL \/ Points(z, same)
  <2>1. Upto(S, n) /\ S \subseteq z.routes
    BY DEF Upto, NodeOK, Live
  <2> QED
    BY <2>1, FirstIn DEF Points
<1>3. y \in {z, u} \/ (same # NULL /\ y = rib_install_kernel(z, same, NULL))
                   \/ (f # NULL /\ y = rib_install_kernel(z, f, NULL))
  BY <1>1 DEF EarlyDeleteFromKernel
<1> HIDE DEF same
<1>4. Follows(z, u, n)
  <2>1. \A e \in z.routes :
             /\ Keeps(e, uninstall(e))
             /\ uninstall(e).removed = e.removed /\ uninstall(e).selected = e.selected
    BY <1>1 DEF Keeps, Entries
  <2> HIDE DEF uninstall
  <2>2. R \subseteq Entries /\ NULL \in Nat
    BY <2>1 DEF Keeps, NULL
  <2>3. /\ x \in Nodes /\ x.routes = R /\ x.queued = z.queued
        /\ x.selected_fib = z.selected_fib
        /\ u \in Nodes /\ u.routes = R /\ u.queued = z.queued
        /\ u.selected_fib = NULL
    <3> HIDE DEF R
    <3> QED
      BY <1>1, <2>2 DEF Nodes
  <2>4. Marks(z, x, g)
    BY <2>1, <2>3 DEF Marks, Image
  <2> HIDE DEF x, u, g, R
  <2>5. Follows(z, x, n)
    BY <2>4, MarksFollows
  <2>6. Follows(x, u, n)
    BY <2>3, <2>5, SameRoutes DEF Follows
  <2> QED
    BY <2>5, <2>6, FollowsTwice
<1> HIDE DEF u
<1>5. Follows(z, y, n)
  BY <1>1, <1>2, <1>3, <1>4, InstallFollows, FollowsSelf
<1> QED
  BY <1>5 DEF Follows

-----------------------------------------------------------------------------
(* The queue of early routes. *)

\* The requests of q, the additions among them with ids up to n, none of which
\* is that of an entry of the node or of another addition.
Pending(q, n, z) ==
    /\ q \in Seq(Requests)
    /\ \A i \in 1..Len(q) :
          q[i].kind = "add" => q[i].id \in 1..n /\ ~Points(z, q[i].id)
    /\ \A i, j \in 1..Len(q) :
          q[i].kind = "add" /\ q[j].kind = "add" /\ q[i].id = q[j].id => i = j

\* What one iteration of early_route_meta_queue_free leaves of the queue.
Iterate(t, q, f, i) ==
    IF i = 0 THEN <<>>
    ELSE IF Drops(t, q[i]) THEN f[i - 1] ELSE Append(f[i - 1], q[i])

\* The loop of early_route_meta_queue_free is well defined on every queue.
LEMMA FreeLoop ==
    ASSUME NEW t, NEW q \in Seq(Requests)
    PROVE  \E f : /\ f = [i \in 0..Len(q) |-> Iterate(t, q, f, i)]
                  /\ early_route_meta_queue_free(t, q) = f[Len(q)]
<1> DEFINE L == Len(q)
           Ran(f, m) == f = [i \in 0..m |-> Iterate(t, q, f, i)]
           Bad == {m \in 0..L : ~\E f : Ran(f, m)}
<1>0. L \in Nat
  BY SMTT(30)
<1> HIDE DEF L
<1>1. Bad = {}
  <2> SUFFICES ASSUME Bad # {}
               PROVE  FALSE
    OBVIOUS
  <2>0. Bad \subseteq Nat
    BY <1>0, SMTT(30)
  <2>1. PICK m \in Bad : \A k \in Bad : m <= k
    <3> HIDE DEF Bad
    <3> QED
      BY <2>0, LeastNat
  <2>2. m \in 0..L /\ ~\E f : Ran(f, m)
    BY <2>1
  <2>3. CASE m = 0
    <3> DEFINE f == [i \in 0..0 |-> <<>>]
    <3>1. Ran(f, 0)
      BY SMTT(30) DEF Iterate
    <3> QED
      BY <2>2, <2>3, <3>1
  <2>4. CASE m # 0
    <3>1. m \in Nat /\ m - 1 \in 0..L /\ m - 1 \notin Bad
      BY <1>0, <2>1, <2>2, <2>4, SMTT(30)
    <3>2. PICK f : Ran(f, m - 1)
      BY <3>1
    <3> DEFINE h == [i \in 0..m |-> IF i < m THEN f[i] ELSE Iterate(t, q, f, m)]
    <3>3. \A i \in 0..m : h[i] = Iterate(t, q, h, i)
      <4> SUFFICES ASSUME NEW i \in 0..m
                   PROVE  h[i] = Iterate(t, q, h, i)
        OBVIOUS
      <4>1. i # 0 => h[i - 1] = f[i - 1]
        BY <3>1, SMTT(30)
      <4>2. Iterate(t, q, h, i) = Iterate(t, q, f, i)
        BY <4>1, SMTT(30) DEF Iterate
      <4>3. i < m => f[i] = Iterate(t, q, f, i)
        <5>1. i < m => i \in 0..(m - 1)
          BY <3>1, SMTT(30)
        <5>2. \A k \in 0..(m - 1) : f[k] = Iterate(t, q, f, k)
          BY <3>2
        <5> QED
          BY <5>1, <5>2
      <4> QED
        BY <3>1, <4>2, <4>3, SMTT(30)
    <3>4. Ran(h, m)
      <4>1. h = [i \in 0..m |-> h[i]]
        OBVIOUS
      <4>2. [i \in 0..m |-> h[i]] = [i \in 0..m |-> Iterate(t, q, h, i)]
        <5> HIDE DEF h
        <5> QED
          BY <3>3
      <4> HIDE DEF h
      <4> QED
        BY <4>1, <4>2
    <3> QED
      BY <2>2, <3>4
  <2> QED
    BY <2>3, <2>4
<1>2. \E f : Ran(f, L)
  BY <1>0, <1>1, SMTT(30)
<1> DEFINE f == CHOOSE h : Ran(h, L)
<1>3. Ran(f, L)
  BY <1>2
<1>4. early_route_meta_queue_free(t, q) = f[L]
  BY DEF early_route_meta_queue_free, Iterate, L
<1> HIDE DEF f
<1> QED
  BY <1>3, <1>4 DEF L

\* Freeing requests reorders and repeats none of those that stay.
LEMMA FreePending ==
    ASSUME NEW t, NEW n, NEW z, NEW q, Pending(q, n, z)
    PROVE  Pending(early_route_meta_queue_free(t, q), n, z)
<1>0. q \in Seq(Requests) /\ Len(q) \in Nat
  BY SMTT(30) DEF Pending
<1>1. PICK f : /\ f = [i \in 0..Len(q) |-> Iterate(t, q, f, i)]
               /\ early_route_meta_queue_free(t, q) = f[Len(q)]
  BY <1>0, FreeLoop
<1> DEFINE From(s, m) == \A a \in 1..Len(s) : \E k \in 1..m : s[a] = q[k]
           Good(m) == Pending(f[m], n, z) /\ From(f[m], m)
           Bad == {m \in 0..Len(q) : ~Good(m)}
<1>2. \A i \in 0..Len(q) : f[i] = Iterate(t, q, f, i)
  BY <1>1
<1>3. Good(0)
  <2>1. f[0] = <<>>
    BY <1>0, <1>2, SMTT(30) DEF Iterate
  <2> QED
    BY <2>1, SMTT(30) DEF Pending
<1>4. ASSUME NEW m \in 1..Len(q), Good(m - 1)
      PROVE  Good(m)
  <2> DEFINE s == f[m - 1]
  <2>0. f[m] = IF Drops(t, q[m]) THEN s ELSE Append(s, q[m])
    BY <1>0, <1>2, SMTT(30) DEF Iterate
  <2>1. Pending(s, n, z) /\ From(s, m - 1) /\ s \in Seq(Requests)
    BY <1>4 DEF Pending
  <2> HIDE DEF s
  <2>2. CASE f[m] = s
    <3>1. From(s, m)
      BY <1>0, <2>1, SMTT(30)
    <3> QED
      BY <2>1, <2>2, <3>1
  <2>3. CASE f[m] = Append(s, q[m])
    <3> DEFINE u == Append(s, q[m])
    <3>1. q[m] \in Requests
      BY <1>0, SMTT(30)
    <3>2. /\ u \in Seq(Requests) /\ Len(u) = Len(s) + 1 /\ Len(s) \in Nat
          /\ \A a \in 1..Len(s) : u[a] = s[a]
          /\ u[Len(s) + 1] = q[m]
      BY <2>1, <3>1, SMTT(30)
    <3> HIDE DEF u
    <3>3. From(u, m)
      <4> SUFFICES ASSUME NEW a \in 1..Len(u)
                   PROVE  \E k \in 1..m : u[a] = q[k]
        OBVIOUS
      <4>1. CASE a = Len(s) + 1
        BY <1>0, <3>2, <4>1, SMTT(30)
      <4>2. CASE a # Len(s) + 1
        <5>1. a \in 1..Len(s)
          BY <3>2, <4>2, SMTT(30)
        <5>2. PICK k \in 1..(m - 1) : s[a] = q[k]
          BY <2>1, <5>1
        <5>3. k \in 1..m
          BY <1>0, <5>2, SMTT(30)
        <5> QED
          BY <3>2, <5>1, <5>2, <5>3
      <4> QED
        BY <4>1, <4>2
    <3>4. \A i \in 1..Len(u) :
             u[i].kind = "add" => u[i].id \in 1..n /\ ~Points(z, u[i].id)
      <4> SUFFICES ASSUME NEW i \in 1..Len(u), u[i].kind = "add"
                   PROVE  u[i].id \in 1..n /\ ~Points(z, u[i].id)
        OBVIOUS
      <4>1. PICK k \in 1..m : u[i] = q[k]
        BY <3>3
      <4>2. k \in 1..Len(q)
        BY <1>0, <4>1, SMTT(30)
      <4> QED
        BY <4>1, <4>2 DEF Pending
    <3>5. \A i, j \in 1..Len(u) :
             u[i].kind = "add" /\ u[j].kind = "add" /\ u[i].id = u[j].id => i = j
      <4>1. ASSUME NEW a \in 1..Len(s), s[a].kind = "add", q[m].kind = "add"
            PROVE  s[a].id # q[m].id
        <5>1. PICK k \in 1..(m - 1) : s[a] = q[k]
          BY <2>1
        <5>2. k \in 1..Len(q) /\ k # m
          BY <1>0, <5>1, SMTT(30)
        <5> QED
          BY <4>1, <5>1, <5>2 DEF Pending
      <4> SUFFICES ASSUME NEW i \in 1..Len(u), NEW j \in 1..Len(u),
                          u[i].kind = "add", u[j].kind = "add", u[i].id = u[j].id
                   PROVE  i = j
        OBVIOUS
      <4>2. CASE i \in 1..Len(s) /\ j \in 1..Len(s)
        BY <2>1, <3>2, <4>2 DEF Pending
      <4>3. CASE i \in 1..Len(s) /\ j \notin 1..Len(s)
        BY <3>2, <4>1, <4>3, SMTT(30)
      <4>4. CASE i \notin 1..Len(s) /\ j \in 1..Len(s)
        BY <3>2, <4>1, <4>4, SMTT(30)
      <4>5. CASE i \notin 1..Len(s) /\ j \notin 1..Len(s)
        BY <3>2, <4>5, SMTT(30)
      <4> QED
        BY <4>2, <4>3, <4>4, <4>5
    <3>6. Pending(u, n, z)
      BY <3>2, <3>4, <3>5 DEF Pending
    <3> QED
      BY <2>3, <3>3, <3>6 DEF u
  <2> QED
    BY <2>0, <2>2, <2>3
<1>5. Bad = {}
  <2> SUFFICES ASSUME Bad # {}
               PROVE  FALSE
    OBVIOUS
  <2> HIDE DEF Good
  <2>0. Bad \subseteq Nat
    BY <1>0, SMTT(30)
  <2>1. PICK m \in Bad : \A k \in Bad : m <= k
    <3> HIDE DEF Bad
    <3> QED
      BY <2>0, LeastNat
  <2>2. m \in 1..Len(q) /\ m - 1 \in 0..Len(q) /\ m - 1 \notin Bad
    BY <1>0, <1>3, <2>1, SMTT(30)
  <2>3. Good(m - 1)
    BY <2>2
  <2> QED
    BY <1>4, <2>1, <2>2, <2>3
<1> QED
  BY <1>0, <1>1, <1>5, SMTT(30)

LEMMA PendingLater ==
    ASSUME NEW n \in Nat, NEW m \in Nat, n <= m, NEW q, NEW z, Pending(q, n, z),
           NEW y, \A i : Points(y, i) => Points(z, i)
    PROVE  Pending(q, m, y)
BY SMTT(30) DEF Pending

LEMMA PendingTail ==
    ASSUME NEW n, NEW q, NEW z, Pending(q, n, z), q # <<>>,
           NEW y, \A i : Points(y, i) =>
                            Points(z, i) \/ (Head(q).kind = "add" /\ i = Head(q).id)
    PROVE  Pending(Tail(q), n, y)
<1> DEFINE s == Tail(q)
<1>1. /\ q \in Seq(Requests) /\ Len(q) \in Nat \ {0}
      /\ s \in Seq(Requests) /\ Len(s) = Len(q) - 1
      /\ \A i \in 1..Len(s) : i + 1 \in 1..Len(q) /\ s[i] = q[i + 1]
      /\ Head(q) = q[1] /\ 1 \in 1..Len(q)
  BY SMTT(30) DEF Pending
<1> HIDE DEF s
<1>2. \A i, j \in 1..Len(s) :
         s[i].kind = "add" /\ s[j].kind = "add" /\ s[i].id = s[j].id => i = j
  BY <1>1, SMTT(30) DEF Pending
<1>3. ASSUME NEW i \in 1..Len(s), s[i].kind = "add"
      PROVE  s[i].id \in 1..n /\ ~Points(y, s[i].id)
  <2>1. i + 1 # 1 /\ i + 1 \in 1..Len(q) /\ s[i] = q[i + 1]
    BY <1>1, SMTT(30)
  <2>2. s[i].id \in 1..n /\ ~Points(z, s[i].id)
    BY <1>3, <2>1 DEF Pending
  <2>3. ~(Head(q).kind = "add" /\ s[i].id = Head(q).id)
    BY <1>1, <1>3, <2>1 DEF Pending
  <2> QED
    BY <2>2, <2>3
<1> QED
  BY <1>1, <1>2, <1>3 DEF Pending, s

LEMMA PendingAppend ==
    ASSUME NEW n, NEW q, NEW z, Pending(q, n, z), NEW r \in Requests,
           r.kind = "add" =>
               /\ r.id \in 1..n /\ ~Points(z, r.id)
               /\ \A i \in 1..Len(q) : q[i].kind = "add" => q[i].id # r.id
    PROVE  Pending(Append(q, r), n, z)
<1> DEFINE s == Append(q, r)
<1>1. /\ Len(q) \in Nat
      /\ s \in Seq(Requests) /\ Len(s) = Len(q) + 1
      /\ \A i \in 1..Len(q) : s[i] = q[i]
      /\ s[Len(q) + 1] = r
  BY SMTT(30) DEF Pending
<1> HIDE DEF s
<1>2. \A i \in 1..Len(s) : i \in 1..Len(q) \/ i = Len(q) + 1
  BY <1>1, SMTT(30)
<1>3. \A i \in 1..Len(s) : s[i].kind = "add" => s[i].id \in 1..n /\ ~Points(z, s[i].id)
  BY <1>1, <1>2 DEF Pending
<1>4. \A i, j \in 1..Len(s) :
         s[i].kind = "add" /\ s[j].kind = "add" /\ s[i].id = s[j].id => i = j
  BY <1>1, <1>2 DEF Pending
<1> QED
  BY <1>1, <1>3, <1>4 DEF Pending, s

-----------------------------------------------------------------------------
(* The system. *)

\* The inductive invariant: ids are given out in order, so a pending addition
\* never has the id of an entry or of another pending addition.
RibInv ==
    /\ requests \in Nat
    /\ NodeOK(node, requests)
    /\ Waits(node)
    /\ Pending(early, requests, node)
    /\ results \in Seq(Contexts)
    /\ fib \in Routes \cup {None}
    /\ netlink \in Seq(Routes)
    /\ permit \in [Types -> BOOLEAN]

LEMMA RibInvInit == Init => RibInv
<1> SUFFICES ASSUME Init
             PROVE  RibInv
  OBVIOUS
<1>1. node \in Nodes /\ node.routes = {} /\ node.selected_fib = NULL
  BY SMTT(30) DEF Init, EmptyNode, Nodes, NULL, Notes
<1>2. NodeOK(node, requests) /\ Waits(node)
  BY <1>1 DEF NodeOK, Waits, Upto, Distinct, OneLive, OneSelected, Live
<1>3. Pending(early, requests, node)
  BY SMTT(30) DEF Init, Pending
<1> QED
  BY <1>2, <1>3, SMTT(30) DEF Init, RibInv

\* A request gets an id larger than every one given out.
LEMMA RequestKeeps ==
    ASSUME RibInv, NEW kind \in {"add", "del"}, NEW t \in Types, NEW p \in Payloads,
           Request(kind, t, p)
    PROVE  RibInv'
<1> DEFINE n == requests
           r == [kind |-> kind, id |-> n + 1, type |-> t, pay |-> p]
<1>1. n \in Nat /\ NodeOK(node, n) /\ Pending(early, n, node)
  BY DEF RibInv
<1>2. requests' = n + 1 /\ early' = Append(early, r) /\ node' = node
  BY DEF Request
<1>3. r \in Requests /\ r.id = n + 1
  BY <1>1, SMTT(30) DEF Requests
<1> HIDE DEF r
<1>4. NodeOK(node, n + 1) /\ ~Points(node, n + 1)
  <2>1. /\ node.routes \subseteq Entries
        /\ \A e \in node.routes : e.id <= n
    BY <1>1 DEF NodeOK, Upto
  <2>2. \A e \in node.routes : e.id \in Nat
    BY <2>1 DEF Entries
  <2>3. \A e \in node.routes : e.id <= n + 1 /\ e.id # n + 1
    BY <1>1, <2>1, <2>2, SMTT(30)
  <2>4. Upto(node.routes, n + 1) /\ ~Points(node, n + 1)
    BY <2>1, <2>3 DEF Upto, Points
  <2> QED
    BY <1>1, <2>4 DEF NodeOK
<1>5. Pending(early, n + 1, node)
  BY <1>1, PendingLater, SMTT(30)
<1>6. \A i \in 1..Len(early) : early[i].kind = "add" => early[i].id # n + 1
  BY <1>1, SMTT(30) DEF Pending
<1>7. Pending(Append(early, r), n + 1, node)
  BY <1>1, <1>3, <1>4, <1>5, <1>6, PendingAppend, SMTT(30)
<1> QED
  BY <1>1, <1>2, <1>4, <1>7, SMTT(30) DEF RibInv, Request

\* A step of the main pthread that leaves the queue of requests alone.
LEMMA NodeKeeps ==
    ASSUME RibInv, NodeOK(node', requests), Waits(node'),
           \A i : Points(node', i) => Points(node, i),
           requests' = requests, early' = early
    PROVE  requests' \in Nat /\ NodeOK(node', requests') /\ Waits(node')
           /\ Pending(early', requests', node')
BY PendingLater, SMTT(30) DEF RibInv

LEMMA RibInvNext == RibInv /\ [Next]_vars => RibInv'
<1> SUFFICES ASSUME RibInv, [Next]_vars
             PROVE  RibInv'
  OBVIOUS
<1>0. requests \in Nat /\ NodeOK(node, requests) /\ Waits(node)
      /\ Pending(early, requests, node)
      /\ node \in Nodes /\ node.routes \subseteq Entries
  BY DEF RibInv, NodeOK, Nodes
<1>1. ASSUME NEW t \in Types, NEW p \in Payloads, rib_add_multipath_nhe(t, p)
      PROVE  RibInv'
  BY <1>1, RequestKeeps DEF rib_add_multipath_nhe
<1>2. ASSUME NEW t \in Types, rib_delete(t)
      PROVE  RibInv'
  <2>1. AnyPayload \in Payloads
    BY NodeAssumption DEF AnyPayload
  <2> QED
    BY <1>2, <2>1, RequestKeeps DEF rib_delete
<1>3. ASSUME NEW t \in Types, rib_score_proto(t)
      PROVE  RibInv'
  <2> DEFINE score(e) == [e EXCEPT !.removed = @ \/ e.type = t]
             mine == {e \in Live(node.routes) : e.type = t}
             R == {score(e) : e \in node.routes}
             g == [e \in node.routes |-> score(e)]
             y == [node EXCEPT !.routes = R, !.queued = @ \/ mine # {}, !.note[t] = "NONE"]
  <2>0. node' = y /\ early' = early_route_meta_queue_free(t, early)
        /\ UNCHANGED <<results, fib, netlink, permit, requests>>
    BY <1>3 DEF rib_score_proto
  <2>1. \A e \in node.routes : Keeps(e, score(e)) /\ score(e).selected = e.selected
    BY <1>0 DEF Keeps, Entries
  <2>2. \A e \in node.routes : score(e).removed => e.removed \/ mine # {}
    BY <1>0 DEF Entries, Live
  <2> HIDE DEF score, mine
  <2>3. R \subseteq Entries /\ Image(R, g, node.routes) /\ OneSelected(R)
    BY <1>0, <2>1, SMTT(30) DEF Keeps, Image, NodeOK, OneSelected
  <2>4. \A e \in R : e.removed => node.queued \/ mine # {}
    BY <1>0, <2>2 DEF Waits
  <2> HIDE DEF R, g
  <2>5. /\ y \in Nodes /\ y.routes = R /\ y.selected_fib = node.selected_fib
        /\ y.queued = (node.queued \/ mine # {})
    BY <1>0, <2>3 DEF Nodes, Notes
  <2> HIDE DEF y
  <2>6. NodeOK(y, requests) /\ \A i : Points(y, i) <=> Points(node, i)
    BY <1>0, <2>3, <2>5, MapNode
  <2>7. Waits(y)
    BY <2>4, <2>5 DEF Waits
  <2>8. Pending(early, requests, y)
    BY <1>0, <2>6, PendingLater, SMTT(30)
  <2>9. Pending(early_route_meta_queue_free(t, early), requests, y)
    BY <2>8, FreePending
  <2> QED
    BY <2>0, <2>6, <2>7, <2>9 DEF RibInv
<1>4. ASSUME NEW t \in Types, rib_update_table(t)
      PROVE  RibInv'
  <2> DEFINE mark(e) == [e EXCEPT !.changed = @ \/ e.type = t]
             R == {mark(e) : e \in node.routes}
             g == [e \in node.routes |-> mark(e)]
             y == [node EXCEPT !.routes = R, !.queued = TRUE]
  <2>0. node' \in {node, y} /\ permit' = [permit EXCEPT ![t] = ~@]
        /\ UNCHANGED <<early, results, fib, netlink, requests>>
    BY <1>4 DEF rib_update_table
  <2>1. \A e \in node.routes : Keeps(e, mark(e)) /\ mark(e).selected = e.selected
    BY <1>0 DEF Keeps, Entries
  <2> HIDE DEF mark
  <2>2. R \subseteq Entries /\ Image(R, g, node.routes) /\ OneSelected(R)
    BY <1>0, <2>1, SMTT(30) DEF Keeps, Image, NodeOK, OneSelected
  <2> HIDE DEF R, g
  <2>3. /\ y \in Nodes /\ y.routes = R /\ y.selected_fib = node.selected_fib
        /\ y.queued = TRUE
    BY <1>0, <2>2 DEF Nodes
  <2> HIDE DEF y
  <2>4. /\ NodeOK(y, requests) /\ Waits(y)
        /\ \A i : Points(y, i) <=> Points(node, i)
    BY <1>0, <2>2, <2>3, MapNode DEF Waits
  <2>5. /\ NodeOK(node', requests) /\ Waits(node')
        /\ \A i : Points(node', i) => Points(node, i)
    BY <1>0, <2>0, <2>4
  <2>6. permit' \in [Types -> BOOLEAN]
    BY <2>0 DEF RibInv
  <2> QED
    BY <2>0, <2>5, <2>6, NodeKeeps DEF RibInv
<1>5. CASE process_subq_early_route
  <2> DEFINE r == Head(early)
  <2>1. early # <<>> /\ early' = Tail(early)
        /\ UNCHANGED <<results, fib, netlink, permit, requests>>
    BY <1>5 DEF process_subq_early_route, EarlyReady
  <2>2. /\ r \in Requests
        /\ r.kind = "add" => r.id \in 1..requests /\ ~Points(node, r.id)
    BY <1>0, <2>1, SMTT(30) DEF Pending
  <2>3. /\ r.kind \in {"add", "del", "kernel"} /\ r.type \in Types /\ r.pay \in Payloads
    BY <2>2 DEF Requests
  <2> HIDE DEF r
  <2>4. /\ r.kind = "add" => node' = process_subq_early_route_add(node, r.id, r.type, r.pay)
        /\ r.kind = "del" => node' = process_subq_early_route_delete(node, r.type)
        /\ r.kind = "kernel" => node' = EarlyDeleteFromKernel(node, r.type, r.pay)
    BY <1>5, <2>3 DEF process_subq_early_route, r
  <2>5. /\ NodeOK(node', requests) /\ Waits(node')
        /\ \A i : Points(node', i) => Points(node, i) \/ (r.kind = "add" /\ i = r.id)
    <3>1. CASE r.kind = "add"
      BY <1>0, <2>2, <2>3, <2>4, <3>1, AddOK, SMTT(30)
    <3>2. CASE r.kind = "del"
      BY <1>0, <2>4, <3>2, WithdrawOK
    <3>3. CASE r.kind = "kernel"
      BY <1>0, <2>4, <3>3, KernelDeleteOK
    <3> QED
      BY <2>3, <3>1, <3>2, <3>3
  <2>6. Pending(Tail(early), requests, node')
    BY <1>0, <2>1, <2>5, PendingTail DEF r
  <2> QED
    BY <1>0, <2>1, <2>5, <2>6 DEF RibInv
<1>6. CASE process_subq_route
  <2>1. Usable \in [Types -> BOOLEAN]
    BY DEF RibInv, Usable
  <2>2. node' = rib_process(node, Usable)
        /\ UNCHANGED <<early, results, fib, netlink, permit, requests>>
    BY <1>6 DEF process_subq_route
  <2>3. /\ NodeOK(node', requests) /\ Waits(node')
        /\ \A i : Points(node', i) => Points(node, i)
    <3> HIDE DEF Usable
    <3> QED
      BY <1>0, <2>1, <2>2, ProcessOK
  <2> QED
    BY <2>2, <2>3, NodeKeeps DEF RibInv
<1>7. CASE rib_process_dplane_results
  <2>1. /\ results # <<>> /\ results' = Tail(results)
        /\ node' = rib_process_result(node, Head(results))
        /\ UNCHANGED <<early, fib, netlink, permit, requests>>
    BY <1>7 DEF rib_process_dplane_results
  <2>2. Head(results) \in Contexts /\ results' \in Seq(Contexts)
    BY <2>1, SMTT(30) DEF RibInv
  <2>3. Follows(node, node', requests)
    BY <1>0, <2>1, <2>2, ResultFollows
  <2>4. /\ NodeOK(node', requests) /\ Waits(node')
        /\ \A i : Points(node', i) => Points(node, i)
    BY <1>0, <2>3 DEF Follows
  <2> QED
    BY <2>1, <2>2, <2>4, NodeKeeps DEF RibInv
<1>8. CASE netlink_route_change
  <2> DEFINE r == [kind |-> "kernel", id |-> 0, type |-> Head(netlink).type,
                   pay |-> Head(netlink).pay]
  <2>1. /\ netlink # <<>> /\ netlink' = Tail(netlink) /\ early' = Append(early, r)
        /\ UNCHANGED <<node, results, fib, permit, requests>>
    BY <1>8 DEF netlink_route_change
  <2>2. Head(netlink) \in Routes /\ netlink' \in Seq(Routes)
    BY <2>1, SMTT(30) DEF RibInv
  <2>3. r \in Requests /\ r.kind # "add"
    BY <2>2 DEF Routes, Requests
  <2> HIDE DEF r
  <2>4. Pending(Append(early, r), requests, node)
    BY <1>0, <2>3, PendingAppend
  <2> QED
    BY <1>0, <2>1, <2>2, <2>4 DEF RibInv
<1>9. ASSUME NEW s \in BOOLEAN, ContextReady, Answer(Head(node.dplane), s),
             fib' \in {fib, KernelDoes(Head(node.dplane))}
      PROVE  RibInv'
  <2> DEFINE c == Head(node.dplane)
  <2>1. node.dplane \in Seq(Contexts) /\ c \in Contexts /\ Tail(node.dplane) \in Seq(Contexts)
    BY <1>0, <1>9, SMTT(30) DEF Nodes, ContextReady
  <2>2. fib' \in Routes \cup {None}
    <3>1. [type |-> c.type, pay |-> c.pay] \in Routes
      BY <2>1 DEF Contexts, Routes
    <3>2. KernelDoes(c) \in {[type |-> c.type, pay |-> c.pay], None, fib}
      BY DEF KernelDoes
    <3> QED
      BY <1>9, <3>1, <3>2 DEF RibInv
  <2>3. [c EXCEPT !.success = s] \in Contexts
    BY <1>9, <2>1 DEF Contexts
  <2>4. results' \in Seq(Contexts)
    BY <1>9, <2>3, SMTT(30) DEF Answer, RibInv
  <2>5. node' \in Nodes /\ node'.routes = node.routes /\ node'.queued = node.queued
        /\ node'.selected_fib = node.selected_fib
    BY <1>0, <1>9, <2>1 DEF Answer, Nodes
  <2>6. Follows(node, node', requests)
    BY <1>0, <2>5, SameRoutes DEF NodeOK
  <2>7. /\ NodeOK(node', requests) /\ Waits(node')
        /\ \A i : Points(node', i) => Points(node, i)
    BY <1>0, <2>6 DEF Follows
  <2> QED
    BY <1>9, <2>2, <2>4, <2>7, NodeKeeps DEF Answer, RibInv
<1>10. CASE kernel_update_multi
  BY <1>9, <1>10 DEF kernel_update_multi
<1>11. CASE KernelRefuses
  <2> DEFINE s == Head(node.dplane).type \in System
  <2>1. s \in BOOLEAN
    BY SMTT(30)
  <2>2. ContextReady /\ Answer(Head(node.dplane), s) /\ fib' = fib
    BY <1>11 DEF KernelRefuses
  <2> HIDE DEF s
  <2> QED
    BY <1>9, <2>1, <2>2
<1>12. CASE KernelNetdown
  BY <1>9, <1>12 DEF KernelNetdown
<1>13. CASE OutsideDelete
  <2>1. netlink' \in Seq(Routes) /\ fib' \in Routes \cup {None}
    BY <1>13, SMTT(30) DEF OutsideDelete, RibInv
  <2> QED
    BY <1>13, <2>1 DEF OutsideDelete, RibInv
<1>14. CASE UNCHANGED vars
  BY <1>14 DEF vars, RibInv
<1> QED
  BY <1>1, <1>2, <1>3, <1>4, <1>5, <1>6, <1>7, <1>8, <1>10, <1>11, <1>12, <1>13, <1>14
     DEF Next, Work

\* Whatever clients, kernel and results do, in whatever order, the list of
\* route entries stays well formed: zebra_rib.c never has two live entries of
\* a type, two selected ones, or a selected_fib that was freed, and a removed
\* entry is never off the queue that frees it.
THEOREM RibWellFormed == Spec => []WellFormed
<1>1. RibInv => WellFormed
  BY DEF RibInv, WellFormed, NodeOK, Distinct, OneLive, OneSelected, Points, Waits
<1> QED
  BY <1>1, RibInvInit, RibInvNext, PTL DEF Spec

=============================================================================
