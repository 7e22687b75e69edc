----------------------------- MODULE AtomicList -----------------------------
(***************************************************************************)
(* What lib/atomlist.h promises of an atomic list, as if each of its       *)
(* operations were one step: add and pop "atomically transfer ownership of *)
(* an item to or from the list".  An item is on the list once in its life; *)
(* putting it back needs a new item, since old readers may still hold it.  *)
(***************************************************************************)
EXTENDS Sequences, SequencesExt, FiniteSets, Naturals

CONSTANTS Items, Rank

VARIABLES
    usage,      \* the operations this list is used with, fixed for its life
    contents,   \* the items on the list, in order
    used        \* the items that are, or once were, on the list

list == <<usage, contents, used>>

Fresh(i) == i \in Items \ used

Use(s) == used' = used \union ToSet(s)

LInit ==
    /\ \A i \in ToSet(contents) : i \in Items
    /\ IsInjective(contents)
    /\ used = ToSet(contents)

AddHead(i) ==
    /\ "add_head" \in usage
    /\ Fresh(i)
    /\ contents' = <<i>> \o contents
    /\ Use(<<i>>)
    /\ UNCHANGED usage

\* An add_tail completes only when those that started before it have; then all
\* that were waiting for it appear together, in the order they were added.
AddTail ==
    LET s == SubSeq(contents', Len(contents) + 1, Len(contents'))
    IN
    /\ "add_tail" \in usage
    /\ s # <<>>
    /\ IsInjective(s)
    /\ \A i \in ToSet(s) : Fresh(i)
    /\ contents' = contents \o s
    /\ Use(s)
    /\ UNCHANGED usage

\* The new item goes between the smaller and the larger ones.
SortAdd(i) ==
    /\ "sort_add" \in usage
    /\ Fresh(i)
    /\ contents' = SelectSeq(contents, LAMBDA j : Rank[j] < Rank[i])
                     \o <<i>>
                     \o SelectSeq(contents, LAMBDA j : Rank[j] > Rank[i])
    /\ Use(<<i>>)
    /\ UNCHANGED usage

\* del takes the item it is given.  pop takes the first one; when items are also
\* added at the front or in the middle, one that was the first a moment ago.
TakeOff(i) ==
    /\ i \in ToSet(contents)
    /\ usage \subseteq {"add_tail", "pop", "sweep"} => i = Head(contents)
    /\ contents' = SelectSeq(contents, LAMBDA j : j # i)
    /\ UNCHANGED <<usage, used>>

\* An item that is deleted before its add_tail completes never appears.
Discard(i) ==
    /\ {"add_tail", "del"} \subseteq usage
    /\ Fresh(i)
    /\ used' = used \union {i}
    /\ UNCHANGED <<usage, contents>>

LNext ==
    \/ \E i \in Items : AddHead(i) \/ SortAdd(i) \/ TakeOff(i) \/ Discard(i)
    \/ AddTail

LSpec == LInit /\ [][LNext]_list
=============================================================================
