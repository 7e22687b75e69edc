------------------------------ MODULE Atomlist ------------------------------
(***************************************************************************)
(* lib/atomlist.c: single-linked lists that threads change without locks.  *)
(* Every action is one atomic access of the C code to a shared pointer,    *)
(* with the thread-local work around it; memory is sequentially            *)
(* consistent.  The counter, which no operation reads, changes with the    *)
(* pointer access next to it.  A pointer carries a mark in its lowest bit: *)
(* "this pointer can't be updated, the item is being deleted".             *)
(***************************************************************************)
EXTENDS Integers, Sequences, SequencesExt, FiniteSets

CONSTANTS
    Items,      \* list items; each is added at most once
    Rank,       \* the order of the items on a sorted list (cmpfn)
    Threads,
    Usages,     \* sets of operations that lists are used with
    Fill,       \* what a list of each usage holds at the start, added in order
    Sweeper,    \* the thread that drains the list in usage "sweep"
    Readers,    \* the threads that traverse lists; one does as well as many,
                \* since a traversal changes nothing that others see
    Null, First \* the null pointer, and the place &h->first

Places == Items \union {First}

ASSUME RankAssumption == Rank \in [Items -> Nat]
ASSUME FillAssumption ==
    \A u \in Usages :
        /\ Fill[u] \in Seq(Items) /\ IsInjective(Fill[u])
        /\ \A j, k \in DOMAIN Fill[u] : j < k => Rank[Fill[u][j]] < Rank[Fill[u][k]]
ASSUME SweeperAssumption == Sweeper \in Threads
ASSUME ReadersAssumption == Readers \subseteq Threads
ASSUME NullAssumption == Null \notin Items /\ First \notin Items \union {Null}

VARIABLES
    usage,      \* the operations this list is used with
    link,       \* the pointer at each place: h->first and every item->next
    last,       \* h->last
    count,      \* h->count
    op,         \* what each thread is doing: its place in the code, its locals
    born,       \* history: items whose addition has begun
    gone,       \* history: items whose deletion has returned
    early,      \* history: items deleted before their addition was complete
    must        \* history: items on the list throughout the thread's traversal

shared == <<usage, link, last, count>>
vars == <<shared, op, born, gone, early, must>>

Ptr(p) == [p |-> p, l |-> FALSE]

Idle == [at |-> "idle", item |-> Null, prev |-> Null, val |-> Null,
         upd |-> Null, updval |-> Null, next |-> Null,
         seen |-> {},   \* history: the items a traversal has visited
         old |-> {}]    \* history: gone, when the operation began

Sorted == "sort_add" \in usage

\* The items from place p on, in order, deleted ones included.
Chain(p) ==
    LET n == Cardinality(Items)
        after(q) == IF q = Null THEN Null ELSE link[q].p
        at[k \in 0..n] == IF k = 0 THEN p ELSE after(at[k - 1])
    IN  SelectSeq([k \in 1..n |-> at[k]], LAMBDA i : i # Null)

Contents == SelectSeq(Chain(First), LAMBDA i : ~link[i].l)

Init ==
    /\ usage \in Usages
    /\ LET s == Fill[usage]
           place(p) == IF p = First THEN 0
                       ELSE IF p \in ToSet(s) THEN CHOOSE k \in DOMAIN s : s[k] = p
                       ELSE Len(s)
       IN  /\ link = [p \in Places |->
                        Ptr(IF place(p) < Len(s) THEN s[place(p) + 1] ELSE Null)]
           /\ last = IF s = <<>> \/ Sorted THEN Null ELSE s[Len(s)]
           /\ count = Len(s)
           /\ born = ToSet(s)
    /\ op = [t \in Threads |-> Idle]
    /\ gone = {}
    /\ early = {}
    /\ must = [t \in Threads |-> {}]

-----------------------------------------------------------------------------
\* A step of thread t in operation what, or at a place in its code, and where
\* the thread is after it.
Begins(t, what) == op[t].at = "idle" /\ what \in usage

At(t, place) == op[t].at = place

Becomes(t, r) == op' = [op EXCEPT ![t] = [r EXCEPT !.old = IF At(t, "idle")
                                                           THEN gone ELSE @]]

Returns(t) == op' = [op EXCEPT ![t] = Idle]

\* Of what a traversal has to see, only what is still on the list counts.
Traversals ==
    must' = [t \in Threads |-> must[t] \intersect ToSet(Contents')]

-----------------------------------------------------------------------------
\* atomlist_add_head
AddHead(t, i) ==
    /\ Begins(t, "add_head")
    /\ i \in Items \ born
    /\ born' = born \union {i}
    /\ count' = count + 1
    /\ link' = [link EXCEPT ![i] = Ptr(Null)]
    /\ Becomes(t, [Idle EXCEPT !.at = "add_head_cas", !.item = i])
    /\ Traversals
    /\ UNCHANGED <<usage, last, gone, early>>

AddHeadCas(t) ==
    /\ At(t, "add_head_cas")
    /\ IF link[First] = Ptr(op[t].val)
       THEN /\ link' = [link EXCEPT ![First] = Ptr(op[t].item)]
            /\ Returns(t)
       ELSE /\ link' = [link EXCEPT ![op[t].item] = link[First]]
            /\ Becomes(t, [op[t] EXCEPT !.val = link[First].p])
    /\ Traversals
    /\ UNCHANGED <<usage, last, count, born, gone, early>>

\* atomlist_add_tail: the new item is put into ->last, then hung onto the end of
\* the list, which is looked for from the item that was last before.
From(hint) == IF hint = Null THEN First ELSE hint

AddTail(t, i) ==
    /\ Begins(t, "add_tail")
    /\ i \in Items \ born
    /\ born' = born \union {i}
    /\ count' = count + 1
    /\ link' = [link EXCEPT ![i] = Ptr(Null)]
    /\ last' = i
    /\ Becomes(t, [Idle EXCEPT !.at = "add_tail_load", !.item = i,
                               !.prev = From(last)])
    /\ UNCHANGED <<usage, gone, early, must>>

AddTailLoad(t) ==
    /\ At(t, "add_tail_load")
    /\ LET v == link[op[t].prev]
       IN  Becomes(t, IF v.p # Null THEN [op[t] EXCEPT !.prev = v.p]
                      ELSE IF v.l THEN [op[t] EXCEPT !.prev = First]
                      ELSE [op[t] EXCEPT !.at = "add_tail_cas"])
    /\ UNCHANGED <<usage, link, last, count, born, gone, early, must>>

AddTailCas(t) ==
    /\ At(t, "add_tail_cas")
    /\ LET v == link[op[t].prev]
       IN  IF v = Ptr(Null)
           THEN /\ link' = [link EXCEPT ![op[t].prev] = Ptr(op[t].item)]
                /\ Returns(t)
           ELSE /\ Becomes(t, [op[t] EXCEPT !.at = "add_tail_load",
                                            !.prev = From(v.p)])
                /\ UNCHANGED link
    /\ Traversals
    /\ UNCHANGED <<usage, last, count, born, gone, early>>

\* Seeded fault: the counter is not decremented.
Marked_NotCounted(t, i, r) ==
    /\ link' = [link EXCEPT ![i].l = TRUE]
    /\ Becomes(t, [r EXCEPT !.at = IF Sorted THEN "del_load" ELSE "del_last",
                            !.item = i, !.next = link[i].p, !.prev = First])
    /\ Traversals
    /\ UNCHANGED count

\* atomlist_del_core and atomsort_del_core, from the mark set on the item's own
\* pointer: the item leaves ->last, then the pointer before the chain of deleted
\* items it is in is made to skip it.  Start says where the search begins.
Marked(t, i, r) ==
    /\ link' = [link EXCEPT ![i].l = TRUE]
    /\ count' = count - 1
    /\ Becomes(t, [r EXCEPT !.at = IF Sorted THEN "del_load" ELSE "del_last",
                            !.item = i, !.next = link[i].p, !.prev = First])
    /\ Traversals

\* atomlist_del_hint, called by the owner of an item once its addition has
\* returned.  add_tail may return before the item is on the list: "completion is
\* only guaranteed after all other add_tail operations that started before this
\* add_tail have completed as well".
Del(t, i) ==
    /\ Begins(t, "del")
    /\ i \in born /\ ~link[i].l
    /\ \A u \in Threads : op[u].item # i
    /\ early' = IF i \in ToSet(Contents) THEN early ELSE early \union {i}
    /\ Marked(t, i, Idle)
    /\ UNCHANGED <<usage, last, born, gone>>

DelLast(t) ==
    /\ At(t, "del_last")
    /\ last' = IF last = op[t].item THEN Null ELSE last
    /\ Becomes(t, [op[t] EXCEPT !.at = "del_load"])
    /\ UNCHANGED <<usage, link, count, born, gone, early, must>>

DelLoad(t) ==
    /\ At(t, "del_load")
    /\ LET o == op[t]
           v == link[o.prev]
           r == IF v.l THEN o ELSE [o EXCEPT !.upd = o.prev, !.updval = v.p]
       IN  IF v.p = Null
           THEN Returns(t) /\ gone' = gone \union {o.item}
           ELSE /\ Becomes(t,
                     IF v.p # o.item THEN [r EXCEPT !.prev = v.p]
                     ELSE IF r.upd = Null THEN [r EXCEPT !.prev = First]
                     ELSE [r EXCEPT !.at = "del_cas"])
                /\ UNCHANGED gone
    /\ UNCHANGED <<usage, link, last, count, born, early, must>>

\* The compare-and-exchange of upd: the pointers after a success, and what the
\* thread does after a failure.
Unlink(t, new, failed) ==
    /\ At(t, "del_cas")
    /\ LET o == op[t]
       IN  IF link[o.upd] = Ptr(o.updval)
           THEN /\ link' = new
                /\ Returns(t) /\ gone' = gone \union {o.item}
           ELSE /\ failed
                /\ UNCHANGED link
    /\ Traversals
    /\ UNCHANGED <<usage, last, count, born, early>>

Unlinked(t) == [link EXCEPT ![op[t].upd] = Ptr(op[t].next)]

Retry(t) ==
    /\ Becomes(t, [op[t] EXCEPT !.at = "del_load", !.upd = Null,
                                !.updval = Null])
    /\ UNCHANGED gone

\* Seeded fault: the pointer of the removed item is cleared.
DelCas_ClearsNext(t) ==
    Unlink(t, [Unlinked(t) EXCEPT ![op[t].item].p = Null], Retry(t))

\* Seeded fault: failure is taken to mean that another thread did the work.
DelCas_GivesUp(t) ==
    Unlink(t, Unlinked(t), Returns(t) /\ gone' = gone \union {op[t].item})

\* Seeded fault: upd is not reset for the next round.
DelCas_KeepsUpd(t) ==
    Unlink(t, Unlinked(t), /\ Becomes(t, [op[t] EXCEPT !.at = "del_load"])
                           /\ UNCHANGED gone)

DelCas(t) == Unlink(t, Unlinked(t), Retry(t))

\* atomlist_pop and atomsort_pop.
PopFirst(t) ==
    /\ link[First].p # Null
    /\ Becomes(t, [Idle EXCEPT !.at = "pop_mark", !.item = link[First].p])
    /\ UNCHANGED <<usage, link, last, count, born, gone, early, must>>

\* Seeded fault: the list is drained to the last item.
Pop_Drains(t) ==
    /\ Begins(t, "pop") \/ (Begins(t, "sweep") /\ t = Sweeper)
    /\ PopFirst(t)

\* The thread that sweeps a list alone leaves the last item (frrcu.c: "we never
\* delete the last item").
Pop(t) ==
    /\ \/ Begins(t, "pop")
       \/ Begins(t, "sweep") /\ t = Sweeper /\ Len(Contents) > 1
    /\ PopFirst(t)

PopMark(t) ==
    /\ At(t, "pop_mark")
    /\ LET v == link[op[t].item]
       IN  IF ~v.l THEN Marked(t, op[t].item, op[t])
           ELSE /\ IF v.p = Null THEN Returns(t)
                                 ELSE Becomes(t, [op[t] EXCEPT !.item = v.p])
                /\ UNCHANGED <<link, count, must>>
    /\ UNCHANGED <<usage, last, born, gone, early>>

\* atomsort_add.  An item equal to one that is found on the list is handed back.
SortAdd(t, i) ==
    /\ Begins(t, "sort_add")
    /\ i \in Items \ born
    /\ born' = born \union {i}
    /\ Becomes(t, [Idle EXCEPT !.at = "sort_load", !.item = i, !.prev = First])
    /\ UNCHANGED <<usage, link, last, count, gone, early, must>>

\* Seeded fault: the order is not looked at.
GoesBefore_Any(i, p) == p # Null => Rank[p] # Rank[i]

GoesBefore(i, p) == p # Null => Rank[p] > Rank[i]

SortLoad(t) ==
    /\ At(t, "sort_load")
    /\ LET o == op[t]
           v == link[o.prev]
           stop == GoesBefore(o.item, v.p)
       IN  \/ /\ stop /\ v.l
              /\ Becomes(t, [o EXCEPT !.prev = First])
              /\ UNCHANGED <<link, born>>
           \/ /\ stop /\ ~v.l
              /\ link' = [link EXCEPT ![o.item] = v]
              /\ Becomes(t, [o EXCEPT !.at = "sort_cas", !.val = v.p])
              /\ UNCHANGED born
           \/ /\ ~stop /\ Rank[v.p] < Rank[o.item]
              /\ Becomes(t, [o EXCEPT !.prev = v.p])
              /\ UNCHANGED <<link, born>>
           \/ /\ ~stop /\ Rank[v.p] = Rank[o.item]
              /\ Returns(t)
              /\ born' = born \ {o.item}
              /\ UNCHANGED link
    /\ UNCHANGED <<usage, last, count, gone, early, must>>

SortCas(t) ==
    /\ At(t, "sort_cas")
    /\ LET o == op[t]
       IN  IF link[o.prev] = Ptr(o.val)
           THEN /\ link' = [link EXCEPT ![o.prev] = Ptr(o.item)]
                /\ count' = count + 1
                /\ Returns(t)
           ELSE /\ Becomes(t, [o EXCEPT !.at = "sort_load", !.prev = First,
                                        !.val = Null])
                /\ UNCHANGED <<link, count>>
    /\ Traversals
    /\ UNCHANGED <<usage, last, born, gone, early>>

\* frr_each: first, then next of the item visited.
EachFirst(t) ==
    /\ Begins(t, "each") /\ t \in Readers
    /\ link[First].p # Null
    /\ Becomes(t, [Idle EXCEPT !.at = "each_next", !.prev = link[First].p,
                               !.seen = {link[First].p}])
    /\ must' = [must EXCEPT ![t] = ToSet(Contents)]
    /\ UNCHANGED <<usage, link, last, count, born, gone, early>>

EachNext(t) ==
    /\ At(t, "each_next")
    /\ LET p == link[op[t].prev].p
       IN  IF p = Null
           THEN Returns(t) /\ must' = [must EXCEPT ![t] = {}]
           ELSE /\ Becomes(t, [op[t] EXCEPT !.prev = p,
                                            !.seen = @ \union {p}])
                /\ UNCHANGED must
    /\ UNCHANGED <<usage, link, last, count, born, gone, early>>

-----------------------------------------------------------------------------
Step(t) ==
    \/ AddHeadCas(t)
    \/ AddTailLoad(t) \/ AddTailCas(t)
    \/ DelLast(t) \/ DelLoad(t) \/ DelCas(t)
    \/ PopMark(t)
    \/ SortLoad(t) \/ SortCas(t)
    \/ EachNext(t)

Next ==
    \E t \in Threads :
        \/ Step(t)
        \/ \E i \in Items : \/ AddHead(t, i) \/ AddTail(t, i)
                            \/ Del(t, i) \/ SortAdd(t, i)
        \/ Pop(t)
        \/ EachFirst(t)

Spec == Init /\ [][Next]_vars

\* The operating system runs every thread that is in the middle of an operation.
\* Such a thread can always take its next step, and each one changes op[t], so
\* this is weak fairness of Step(t).
FairSpec ==
    /\ Spec
    /\ \A t \in Threads : \/ []<>At(t, "idle")
                           \/ []<><<op'[t] # op[t]>>_vars

-----------------------------------------------------------------------------
\* The lock-free operations have the effects of atomic ones: contents change only
\* by whole additions and removals, in the right order, once for every item.
Promise == INSTANCE AtomicList WITH
    contents <- Contents,
    used <- ToSet(Contents) \union {i \in Items : link[i].l}

Refines == Promise!LSpec

Held(o) == {o.item, o.prev, o.upd} \union o.seen

Deleted(S) == S \ early

\* Once a deletion has returned, operations that begin later do not come across
\* the item ("completion is however guaranteed for all reads starting later"):
\* it can be freed when those that began earlier are over.  An item that was
\* deleted before its addition was complete is excepted: atomlist_del_core does
\* not find it and returns, and the add_tail it waited for puts it on the list.
NeverReached ==
    /\ Deleted(gone) \intersect ToSet(Chain(First)) = {}
    /\ last \notin gone
    /\ \A t \in Threads : Held(op[t]) \intersect Deleted(op[t].old) = {}

\* On a queue with one consumer that never takes the last item, a consumed item is
\* not even held by operations that are under way, and can be freed at once, as
\* the RCU thread does with rcu_heads (frrcu.c: "we can't run into ABA/UAF
\* issues").
SweptUnheld ==
    "sweep" \in usage =>
        \A t \in Threads : Held(op[t]) \intersect gone = {}

\* A traversal visits every item that is on the list from its beginning to its
\* end, whatever is added and deleted around it.
TraversalComplete ==
    \A t \in Threads : op[t].at = "each_next" =>
        must[t] \subseteq op[t].seen \union ToSet(Chain(op[t].prev))

\* ->count is right when no operation is under way.
CountExact ==
    (\A t \in Threads : op[t].at \in {"idle", "each_next"})
        => count = Len(Contents)

\* An item whose deletion is over, and that is on the list.
Stranded == gone \intersect ToSet(Chain(First)) # {}

\* What atomlist.h promises without exception, and deletions that come too early
\* break.
NeverStranded == ~Stranded

\* Every operation ends, once all threads run: no two of them keep each other from
\* finishing.  Where a deletion came too early this may fail: the mark of an item
\* that nobody takes off the list makes an add_tail that finds it at the end
\* start over again and again.
Ends == \A t \in Threads : op[t].at # "idle" ~> op[t].at = "idle" \/ Stranded
=============================================================================
