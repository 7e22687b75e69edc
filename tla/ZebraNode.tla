------------------------------ MODULE ZebraNode ------------------------------
(***************************************************************************)
(* One prefix of zebra's RIB, a route_node with its rib_dest_t, and the    *)
(* functions of the main pthread that change it: the two handlers of the   *)
(* early-route queue, best-path selection (rib_process) and the processing *)
(* of dataplane results.                                                   *)
(*                                                                         *)
(* A node is a record.  routes holds the route entries; an entry's id      *)
(* stands for its address, and since entries are linked at the head of the *)
(* list a larger id is closer to the head.  selected_fib is the id of the  *)
(* entry last sent to the dataplane, or NULL.  The other fields are what   *)
(* the handlers write to: the dataplane's input queue, the notification    *)
(* each route owner saw last, and what the redistribution client has.      *)
(***************************************************************************)
EXTENDS Integers, Sequences

CONSTANTS
    Types,      \* route types, one client of zebra each
    System,     \* those of Types the kernel itself installs (connected)
    Distance,   \* administrative distance of each type
    Payloads,   \* nexthops and attributes a route may come with
    Redist      \* route types the redistribution client has asked for

ASSUME NodeAssumption ==
    /\ System \subseteq Types
    /\ Distance \in [Types -> Nat]
    /\ Redist \subseteq Types
    /\ Payloads # {}

NULL == 0
None == [type |-> "none"]
Routes == [type : Types, pay : Payloads]

Notes == {"NONE", "INSTALLED", "FAIL_INSTALL", "BETTER_ADMIN_WON",
          "REMOVED", "REMOVE_FAIL"}

Entries == [id : Nat \ {NULL}, type : Types, pay : Payloads,
            selected : BOOLEAN, removed : BOOLEAN, changed : BOOLEAN,
            installed : BOOLEAN, queued : BOOLEAN, failed : BOOLEAN,
            replacing : BOOLEAN, seq : Nat, active : BOOLEAN]

Contexts == [op : {"INSTALL", "UPDATE", "DELETE"}, type : Types,
             pay : Payloads, old_type : Types, seq : Nat, old_seq : Nat,
             success : BOOLEAN]

Nodes == [routes : SUBSET Entries, selected_fib : Nat, queued : BOOLEAN,
          sequence : Nat, dplane : Seq(Contexts), note : [Types -> Notes],
          redist : Routes \cup {None}]

EmptyNode ==
    [routes |-> {}, selected_fib |-> NULL, queued |-> FALSE, sequence |-> 0,
     dplane |-> <<>>, note |-> [t \in Types |-> "NONE"], redist |-> None]

(***************************************************************************)
(* Lists of entries.                                                       *)
(***************************************************************************)
Re(z, i) == CHOOSE e \in z.routes : e.id = i

\* The first entry of S in list order, or NULL; the last one, or NULL.
First(S) == IF S = {} THEN NULL
            ELSE (CHOOSE e \in S : \A f \in S : f.id <= e.id).id

Last(S) == IF S = {} THEN NULL
           ELSE (CHOOSE e \in S : \A f \in S : e.id <= f.id).id

Live(S) == {e \in S : ~e.removed}

\* Seeded fault: dest->selected_fib keeps pointing at an unlinked entry.
Unlink_KeepsFib(z, S) ==
    [z EXCEPT !.routes = @ \ S]

\* rib_unlink of each entry of S.
Unlink(z, S) ==
    [z EXCEPT !.routes = @ \ S,
              !.selected_fib = IF \E e \in S : e.id = @ THEN NULL ELSE @]

(***************************************************************************)
(* Towards the dataplane.  The kernel nexthop group of the entry is        *)
(* assumed installed or queued, so a context is always enqueued.           *)
(***************************************************************************)
Context(op, re, old_type, seq, old_seq) ==
    [op |-> op, type |-> re.type, pay |-> re.pay, old_type |-> old_type,
     seq |-> seq, old_seq |-> old_seq, success |-> TRUE]

dplane_route_update(z, re, old) ==
    LET n == Re(z, re)
        replace == old \notin {NULL, re}
        seq == z.sequence + 1
        old_seq == IF replace THEN z.sequence + 2 ELSE 0
        old_type == IF replace THEN Re(z, old).type ELSE n.type
        op == IF old = NULL THEN "INSTALL" ELSE "UPDATE"
        number(e) ==
            IF e.id = re THEN [e EXCEPT !.seq = seq]
            ELSE IF e.id = old THEN [e EXCEPT !.seq = old_seq] ELSE e
    IN  [z EXCEPT !.routes = {number(e) : e \in @},
                  !.sequence = IF replace THEN old_seq ELSE seq,
                  !.dplane = Append(@, Context(op, n, old_type, seq, old_seq))]

dplane_route_delete(z, re) ==
    LET n == Re(z, re)
        seq == z.sequence + 1
        number(e) == IF e.id = re THEN [e EXCEPT !.seq = seq] ELSE e
    IN  [z EXCEPT !.routes = {number(e) : e \in @},
                  !.sequence = seq,
                  !.dplane = Append(@, Context("DELETE", n, n.type, seq, 0))]

rib_install_kernel(z, re, old) ==
    LET lost == old \notin {NULL, re} /\ Re(z, old).type # Re(z, re).type
        told == IF lost
                THEN [z.note EXCEPT ![Re(z, old).type] = "BETTER_ADMIN_WON"]
                ELSE z.note
        sent == dplane_route_update(
                    [z EXCEPT !.note = told, !.selected_fib = re], re, old)
        mark(e) == [e EXCEPT !.queued = @ \/ e.id \in {re, old},
                             !.replacing = @ \/ (e.id = re /\ old # NULL)]
    IN  [sent EXCEPT !.routes = {mark(e) : e \in @}]

(***************************************************************************)
(* Redistribution.  A client treats an added route as replacing whatever   *)
(* it had for the prefix, and a deletion as about one route type.          *)
(***************************************************************************)
RedistAdd(z, e) == [z EXCEPT !.redist = [type |-> e.type, pay |-> e.pay]]

RedistDel(z, t) == [z EXCEPT !.redist = IF @.type = t THEN None ELSE @]

redistribute_update(z, re, prev) ==
    IF Re(z, re).type \in Redist THEN RedistAdd(z, Re(z, re))
    ELSE IF prev # NULL /\ Re(z, prev).type \in Redist
         THEN RedistDel(z, Re(z, prev).type) ELSE z

redistribute_delete(z, old, new) ==
    IF new # NULL /\ Re(z, new).type \in Redist THEN z
    ELSE IF Re(z, old).type \in Redist THEN RedistDel(z, Re(z, old).type)
         ELSE z

(***************************************************************************)
(* Best-path selection.  Usable(t) says whether the nexthops of a route of *)
(* type t resolve and pass the type's route-map ("ip protocol ...").       *)
(***************************************************************************)
\* rib_choose_best: connected first, then distance; the older entry wins a tie.
Beats(e, f) ==
    \/ e.type \in System /\ f.type \notin System
    \/ /\ e.type \in System <=> f.type \in System
       /\ \/ Distance[e.type] < Distance[f.type]
          \/ Distance[e.type] = Distance[f.type] /\ e.id < f.id

Best(S) == IF S = {} THEN NULL
           ELSE (CHOOSE e \in S : \A f \in S \ {e} : Beats(e, f)).id

\* The CHANGED flag becomes "a nexthop became active or inactive".
nexthop_active_update(e, ok) ==
    [e EXCEPT !.active = ok, !.changed = (ok # e.active)]

\* rib_process up to the choice of the new entry: the entries after the loop.
Examined(z, usable) ==
    LET look(e) == IF e.removed \/ ~e.changed THEN e
                   ELSE nexthop_active_update(e, usable[e.type])
    IN  {look(e) : e \in z.routes}

Candidates(S) == {e \in Live(S) : e.active}

\* Seeded fault: the new route is added without naming the one it replaces.
rib_process_update_fib_Adds(z, old, new) ==
    IF new # old \/ Re(z, new).changed \/ ~Re(z, new).installed
                 \/ Re(z, new).type \in System
    THEN rib_install_kernel(z, new, NULL) ELSE z

rib_process_update_fib(z, old, new) ==
    IF new # old \/ Re(z, new).changed THEN rib_install_kernel(z, new, old)
    ELSE IF ~Re(z, new).installed \/ Re(z, new).type \in System
         THEN rib_install_kernel(z, new, NULL) ELSE z

\* The last part of rib_process: update the FIB, then free what was removed.
UpdateFib(z, new) ==
    LET old == z.selected_fib
        sent == CASE new # NULL /\ old # NULL -> rib_process_update_fib(z, old, new)
                  [] new # NULL /\ old = NULL -> rib_install_kernel(z, new, NULL)
                  [] new = NULL /\ old # NULL -> dplane_route_delete(z, old)
                  [] OTHER -> z
        settle(e) == IF e.id \in {old, new} THEN [e EXCEPT !.changed = FALSE] ELSE e
        clean == [sent EXCEPT !.routes = {settle(e) : e \in @}, !.queued = FALSE]
    IN  Unlink(clean, {e \in clean.routes : e.removed})

rib_process(z, usable) ==
    LET old_selected == First({e \in z.routes : e.selected})
        examined == Examined(z, usable)
        new_selected == Best(Candidates(examined))
        proto_re_changed == Last({e \in Live(z.routes) : e.changed})
        changed == \E e \in examined : e.id = new_selected /\ e.changed
        flag(e) == [e EXCEPT
            !.selected = e.id = new_selected \/ (@ /\ e.id # old_selected),
            !.changed = @ /\ (e.id = new_selected \/ e \notin Candidates(examined))]
        refused == {e.type : e \in {f \in Live(z.routes) : f.changed /\ ~usable[f.type]}}
        outdone == /\ NULL \notin {new_selected, proto_re_changed}
                   /\ proto_re_changed # old_selected
                   /\ Re(z, new_selected).type # Re(z, proto_re_changed).type
        told == [t \in Types |->
                    IF outdone /\ t = Re(z, proto_re_changed).type THEN "BETTER_ADMIN_WON"
                    ELSE IF t \in refused THEN "FAIL_INSTALL" ELSE z.note[t]]
        chosen == [z EXCEPT !.routes = {flag(e) : e \in examined}, !.note = told]
        gone == /\ old_selected # NULL
                /\ old_selected # new_selected \/ changed
                /\ new_selected = NULL \/ Re(z, old_selected).removed
    IN  UpdateFib(IF gone THEN redistribute_delete(chosen, old_selected, new_selected)
                  ELSE chosen, new_selected)

(***************************************************************************)
(* The early-route queue.  rib_queue_add puts the node on the meta queue   *)
(* unless it is there already.                                             *)
(***************************************************************************)
rib_delnode(z, re) ==
    [z EXCEPT !.routes = {[e EXCEPT !.removed = @ \/ e.id = re] : e \in @},
              !.queued = TRUE]

\* The nexthop group of a new entry is shared with an entry that has the
\* same nexthops, and is active if that one's is.
NewEntry(z, id, t, p) ==
    [id |-> id, type |-> t, pay |-> p, selected |-> FALSE, removed |-> FALSE,
     changed |-> TRUE, installed |-> FALSE, queued |-> FALSE, failed |-> FALSE,
     replacing |-> FALSE, seq |-> 0,
     active |-> \E e \in z.routes : e.pay = p /\ e.active]

process_subq_early_route_add(z, id, t, p) ==
    LET same == First({e \in Live(z.routes) : e.type = t})
        linked == [z EXCEPT !.routes = @ \cup {NewEntry(z, id, t, p)}, !.queued = TRUE]
        mark(e) == [e EXCEPT !.replacing = @ \/ (e.id = same /\ same = z.selected_fib)]
        withdrawn == IF same = NULL THEN linked
                     ELSE rib_delnode([linked EXCEPT !.routes = {mark(e) : e \in @}], same)
    IN  Unlink(withdrawn, {e \in withdrawn.routes :
                              e.removed /\ e.id # withdrawn.selected_fib})

\* A client's withdrawal.
process_subq_early_route_delete(z, t) ==
    LET same == First({e \in Live(z.routes) : e.type = t})
    IN  IF same = NULL THEN z ELSE rib_delnode(z, same)

\* The kernel reports that a route zebra had installed was deleted.
EarlyDeleteFromKernel(z, t, p) ==
    LET same == First({e \in Live(z.routes) : e.type = t /\ e.pay = p})
        fib == z.selected_fib
        uninstall(e) == [e EXCEPT !.installed = @ /\ e.id # fib]
    IN  CASE same # NULL -> rib_install_kernel(z, same, NULL)
          [] same = NULL /\ fib # NULL /\ z.queued ->
                 [z EXCEPT !.routes = {uninstall(e) : e \in @}, !.selected_fib = NULL]
          [] same = NULL /\ fib # NULL /\ ~z.queued -> rib_install_kernel(z, fib, NULL)
          [] OTHER -> z

(***************************************************************************)
(* Dataplane results.  A context names route types, not entries, so it is  *)
(* matched with the first entry of its type.                               *)
(***************************************************************************)
rib_route_match_ctx(e, c, is_update) ==
    IF is_update THEN e.type = c.old_type
    ELSE /\ c.op = "DELETE" \/ ~e.removed
         /\ e.type = c.type
         /\ e.type \in System => e.pay = c.pay

zebra_rib_fixup_system(e) ==
    IF e.type \in System /\ ~e.removed
    THEN [e EXCEPT !.installed = TRUE, !.queued = FALSE, !.replacing = FALSE] ELSE e

\* Seeded fault: the replaced entry keeps ROUTE_ENTRY_INSTALLED.
ResultFlags_OldKept(e, c, re, old) ==
    [e EXCEPT
       !.installed = IF e.id # re THEN @
                     ELSE IF c.op = "DELETE" THEN @ /\ ~c.success ELSE c.success,
       !.failed = IF e.id \in {re, old} THEN ~c.success ELSE @]

\* INSTALLED and FAILED of the entry re and of the one it replaced, old.
ResultFlags(e, c, re, old) ==
    [e EXCEPT
       !.installed = IF e.id # re THEN @ /\ ~(e.id = old /\ c.success)
                     ELSE IF c.op = "DELETE" THEN @ /\ ~c.success ELSE c.success,
       !.failed = IF e.id \in {re, old} THEN ~c.success ELSE @]

rib_process_result(z, c) ==
    LET re == First({e \in z.routes : rib_route_match_ctx(e, c, FALSE)})
        old == IF c.op # "UPDATE" THEN NULL
               ELSE First({e \in z.routes : rib_route_match_ctx(e, c, TRUE)})
        \* unless the result is stale
        unqueue(e) ==
            [e EXCEPT !.queued = @ /\ ~(e.id = re /\ e.seq = c.seq)
                                   /\ ~(e.id = old /\ e.seq = c.old_seq),
                      !.replacing = @ /\ ~(e.id = re /\ e.seq = c.seq)]
        system == /\ c.success \/ c.op = "DELETE"
                  /\ \E e \in z.routes : e.id \in {re, old} /\ e.type \in System
        fix(e) == IF system THEN zebra_rib_fixup_system(e) ELSE e
        note == CASE c.op = "DELETE" /\ c.success -> "REMOVED"
                  [] c.op = "DELETE" /\ ~c.success -> "REMOVE_FAIL"
                  [] c.op # "DELETE" /\ c.success -> "INSTALLED"
                  [] c.op # "DELETE" /\ ~c.success -> "FAIL_INSTALL"
        silent == c.op # "DELETE" /\ ~c.success /\ re = NULL
        done == [z EXCEPT !.routes = {fix(ResultFlags(unqueue(e), c, re, old)) : e \in @},
                          !.note[c.type] = IF silent THEN @ ELSE note]
    IN  IF c.op # "DELETE" /\ c.success /\ re # NULL /\ re = z.selected_fib
        THEN redistribute_update(done, re, old) ELSE done

=============================================================================
