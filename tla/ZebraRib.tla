------------------------------ MODULE ZebraRib -------------------------------
(***************************************************************************)
(* zebra and its surroundings for one prefix: the clients that add and     *)
(* withdraw routes, the meta queue of the main pthread, the dataplane      *)
(* pthread with its input and result queues, the kernel's FIB, and a       *)
(* client that receives redistributed routes.                              *)
(***************************************************************************)
EXTENDS ZebraNode

CONSTANTS
    Instance,     \* protocol instance of each client
    QueueLimit,   \* dataplane queue length above which the RIB queue waits
    Hazards,      \* environment events that may happen
    MaxRequests,  \* bound: routes added and withdrawn in a behaviour
    MaxEvents     \* bound: environment events in a behaviour

ASSUME RibAssumption ==
    /\ Instance \in [Types -> Nat]
    /\ QueueLimit \in Nat
    /\ MaxRequests \in Nat
    /\ MaxEvents \in Nat

VARIABLES
    node,      \* the route node, as the main pthread sees it
    early,     \* META_QUEUE_EARLY_ROUTE: requests not yet looked at
    results,   \* contexts on their way back from the dataplane pthread
    fib,       \* the route zebra has in the kernel for the prefix
    netlink,   \* deletions the kernel has reported on zebra's socket
    permit,    \* what the route-map of each type says about the prefix
    wanted,    \* ghost: what each client last asked for
    requests,  \* requests made so far
    events,    \* environment events so far
    history    \* ghost: what has happened that the properties must know of

vars == <<node, early, results, fib, netlink, permit, wanted, requests,
          events, history>>

Requests ==
    [kind : {"add", "del", "kernel"}, id : Nat, type : Types, pay : Payloads]

AnyPayload == CHOOSE p \in Payloads : TRUE

Usable == [t \in Types |-> t \in System \/ permit[t]]

Init ==
    /\ node = EmptyNode
    /\ early = <<>>
    /\ results = <<>>
    /\ fib = None
    /\ netlink = <<>>
    /\ permit = [t \in Types |-> TRUE]
    /\ wanted = [t \in Types |-> None]
    /\ requests = 0
    /\ events = 0
    /\ history = {}

-----------------------------------------------------------------------------
(***************************************************************************)
(* The clients.                                                            *)
(***************************************************************************)
Request(kind, t, p) ==
    /\ requests < MaxRequests
    /\ requests' = requests + 1
    /\ early' = Append(early, [kind |-> kind, id |-> requests + 1, type |-> t, pay |-> p])
    /\ UNCHANGED <<node, results, fib, netlink, permit, events, history>>

\* zread_route_add; a connected route is always through its one interface.
rib_add_multipath_nhe(t, p) ==
    /\ t \in System => p = AnyPayload
    /\ wanted' = [wanted EXCEPT ![t] = [type |-> t, pay |-> p]]
    /\ Request("add", t, p)

\* zread_route_del
rib_delete(t) ==
    /\ wanted[t] # None
    /\ wanted' = [wanted EXCEPT ![t] = None]
    /\ Request("del", t, AnyPayload)

Event(name) ==
    /\ name \in Hazards
    /\ events < MaxEvents
    /\ events' = events + 1

Drops(t, r) == ~(t # r.type /\ Instance[t] # Instance[r.type])

\* The requests that stay in the queue q, up to each place of it.
early_route_meta_queue_free(t, q) ==
    LET kept[i \in 0..Len(q)] ==
            IF i = 0 THEN <<>>
            ELSE IF Drops(t, q[i]) THEN kept[i - 1] ELSE Append(kept[i - 1], q[i])
    IN  kept[Len(q)]

\* A client disconnects: rib_score_proto, with early_route_meta_queue_free.
rib_score_proto(t) ==
    LET mine == {e \in Live(node.routes) : e.type = t}
        score(e) == [e EXCEPT !.removed = @ \/ e.type = t]
    IN  /\ Event("close")
        /\ t \notin System
        /\ early' = early_route_meta_queue_free(t, early)
        /\ node' = [node EXCEPT !.routes = {score(e) : e \in @},
                                !.queued = @ \/ mine # {},
                                !.note[t] = "NONE"]
        /\ wanted' = [wanted EXCEPT ![t] = None]
        /\ history' = history \cup
              IF \E i \in DOMAIN early : early[i].type # t /\ Drops(t, early[i])
              THEN {"dropped"} ELSE {}
        /\ UNCHANGED <<results, fib, netlink, permit, requests>>

\* The route-map of a type changes: rib_update_table, RIB_UPDATE_RMAP_CHANGE.
rib_update_table(t) ==
    LET touched == {e \in node.routes : e.type = t}
        mark(e) == [e EXCEPT !.changed = @ \/ e.type = t]
    IN  /\ Event("rmap")
        /\ t \notin System
        /\ permit' = [permit EXCEPT ![t] = ~@]
        /\ node' = IF node.queued \/ touched = {} THEN node
                   ELSE [node EXCEPT !.routes = {mark(e) : e \in @}, !.queued = TRUE]
        /\ history' = history \cup
              IF node.queued /\ \E e \in touched : ~e.removed /\ ~e.changed
              THEN {"skipped"} ELSE {}
        /\ UNCHANGED <<early, results, fib, netlink, wanted, requests>>

-----------------------------------------------------------------------------
(***************************************************************************)
(* The main pthread.  meta_queue_process takes the first item of the first *)
(* non-empty sub-queue, unless the dataplane is behind.                    *)
(***************************************************************************)
Room == Len(node.dplane) <= QueueLimit

EarlyReady == Room /\ early # <<>>

process_subq_early_route ==
    /\ EarlyReady
    /\ LET r == Head(early)
       IN  node' = CASE r.kind = "add" ->
                          process_subq_early_route_add(node, r.id, r.type, r.pay)
                     [] r.kind = "del" -> process_subq_early_route_delete(node, r.type)
                     [] r.kind = "kernel" -> EarlyDeleteFromKernel(node, r.type, r.pay)
    /\ early' = Tail(early)
    /\ UNCHANGED <<results, fib, netlink, permit, wanted, requests, events, history>>

RouteReady == Room /\ early = <<>> /\ node.queued

process_subq_route ==
    /\ RouteReady
    /\ node' = rib_process(node, Usable)
    /\ UNCHANGED <<early, results, fib, netlink, permit, wanted, requests,
                   events, history>>

rib_process_dplane_results ==
    /\ results # <<>>
    /\ node' = rib_process_result(node, Head(results))
    /\ results' = Tail(results)
    /\ UNCHANGED <<early, fib, netlink, permit, wanted, requests, events, history>>

\* netlink_route_change: a DELROUTE for a route with one of zebra's protocols.
netlink_route_change ==
    /\ netlink # <<>>
    /\ early' = Append(early, [kind |-> "kernel", id |-> 0,
                               type |-> Head(netlink).type, pay |-> Head(netlink).pay])
    /\ netlink' = Tail(netlink)
    /\ UNCHANGED <<node, results, fib, permit, wanted, requests, events, history>>

-----------------------------------------------------------------------------
(***************************************************************************)
(* The dataplane pthread and the kernel.  netlink_put_route_update_msg     *)
(* sends nothing for a system route, except that one which replaces a      *)
(* route of zebra's deletes it.  A new route replaces any other of         *)
(* zebra's; a deletion names the protocol and only removes its route.      *)
(***************************************************************************)
Netlink(c) ==
    CASE c.op # "DELETE" /\ c.type \notin System -> "NEWROUTE"
      [] c.op = "DELETE" /\ c.type \notin System -> "DELROUTE"
      [] c.op = "UPDATE" /\ c.type \in System /\ c.old_type \notin System -> "DELROUTE"
      [] OTHER -> "nothing"

KernelDoes(c) ==
    CASE Netlink(c) = "NEWROUTE" -> [type |-> c.type, pay |-> c.pay]
      [] Netlink(c) = "DELROUTE" -> IF fib.type = c.old_type THEN None ELSE fib
      [] OTHER -> fib

Answer(c, success) ==
    /\ node' = [node EXCEPT !.dplane = Tail(@)]
    /\ results' = Append(results, [c EXCEPT !.success = success])
    /\ UNCHANGED <<early, netlink, permit, wanted, requests>>

\* Seeded fault: a context for which nothing is sent is never answered.
ContextReady_SilentSystem ==
    node.dplane # <<>> /\ Netlink(Head(node.dplane)) # "nothing"

ContextReady == node.dplane # <<>>

kernel_update_multi ==
    /\ ContextReady
    /\ fib' = KernelDoes(Head(node.dplane))
    /\ Answer(Head(node.dplane), TRUE)
    /\ UNCHANGED <<events, history>>

\* Seeded fault: an error the parser does not know counts as success.
KernelRefuses_Success ==
    /\ Event("refuse")
    /\ ContextReady
    /\ Netlink(Head(node.dplane)) # "nothing"
    /\ Answer(Head(node.dplane), TRUE)
    /\ history' = history \cup {"refused"}
    /\ UNCHANGED fib

\* The kernel refuses; the answer to a deletion made by a replacing system
\* route is not looked at.
KernelRefuses ==
    /\ Event("refuse")
    /\ ContextReady
    /\ Netlink(Head(node.dplane)) # "nothing"
    /\ Answer(Head(node.dplane), Head(node.dplane).type \in System)
    /\ history' = history \cup {"refused"}
    /\ UNCHANGED fib

\* netlink_parse_error: ENETDOWN for a new route counts as success.
KernelNetdown ==
    /\ Event("netdown")
    /\ ContextReady
    /\ Netlink(Head(node.dplane)) = "NEWROUTE"
    /\ Answer(Head(node.dplane), TRUE)
    /\ history' = history \cup {"netdown"}
    /\ UNCHANGED fib

\* Someone else deletes zebra's route from the kernel.
OutsideDelete ==
    /\ Event("outside")
    /\ fib # None
    /\ fib' = None
    /\ netlink' = Append(netlink, fib)
    /\ history' = history \cup {"outside"}
    /\ UNCHANGED <<node, early, results, permit, wanted, requests>>

-----------------------------------------------------------------------------
Work ==
    \/ process_subq_early_route
    \/ process_subq_route
    \/ rib_process_dplane_results
    \/ netlink_route_change
    \/ kernel_update_multi

Next ==
    \/ \E t \in Types, p \in Payloads : rib_add_multipath_nhe(t, p)
    \/ \E t \in Types : rib_delete(t)
    \/ \E t \in Types : rib_score_proto(t)
    \/ \E t \in Types : rib_update_table(t)
    \/ KernelRefuses
    \/ KernelNetdown
    \/ OutsideDelete
    \/ Work

Spec == Init /\ [][Next]_vars

\* Neither pthread has anything left to do.
AtRest ==
    /\ early = <<>> /\ results = <<>> /\ netlink = <<>>
    /\ node.dplane = <<>> /\ ~node.queued

(***************************************************************************)
(* Weak fairness of Work: both pthreads keep running, while clients and    *)
(* the environment need not do anything.  Each action of Work is enabled   *)
(* exactly when its guard holds, and a step of Work is one that leaves     *)
(* both counters alone, so that ENABLED need not be evaluated.             *)
(***************************************************************************)
CanWork ==
    EarlyReady \/ RouteReady \/ results # <<>> \/ netlink # <<>> \/ ContextReady

FairSpec ==
    /\ Spec
    /\ []<>~CanWork \/ []<><<UNCHANGED <<requests, events>>>>_vars

-----------------------------------------------------------------------------
\* The list of route entries is sound whatever was added, withdrawn, lost or
\* refused: at most one live entry per type (an addition withdraws the one
\* before it), at most one SELECTED (rib_process asserts it), selected_fib
\* never points at an entry that was freed, and an entry marked REMOVED waits
\* on the queue, since only rib_process will free it.
WellFormed ==
    /\ \A e, f \in node.routes : e.id = f.id => e = f
    /\ \A e, f \in Live(node.routes) : e.type = f.type => e = f
    /\ \A e, f \in node.routes : e.selected /\ f.selected => e = f
    /\ node.selected_fib # NULL => \E e \in node.routes : e.id = node.selected_fib
    /\ \A e \in node.routes : e.removed => node.queued

\* What the clients' requests and the route-maps call for.
Offers == {t \in Types : wanted[t] # None /\ Usable[t]}

Winners == {t \in Offers : \A u \in Offers : Distance[t] <= Distance[u]}

FibRight ==
    IF Offers = {} THEN fib = None
    ELSE \E t \in Winners : fib = IF t \in System THEN None ELSE wanted[t]

\* When all queues have drained, the kernel holds the route of the best
\* distance among those the clients want (nothing of zebra's if that is a
\* connected route), in whatever order requests, selection, kernel answers
\* and results overlapped: rib_process with the update and delete contexts.
FibIsBest == AtRest /\ history = {} => FibRight

\* When all queues have drained, an entry is marked INSTALLED only if the
\* kernel has exactly that route, though results name a route type and not
\* the entry they were for.
InstalledIsInFib ==
    AtRest /\ history \cap {"refused", "netdown", "outside"} = {} =>
        \A e \in node.routes :
            e.installed /\ e.type \notin System => fib = [type |-> e.type, pay |-> e.pay]

\* When all queues have drained, a selected route that is not in the kernel
\* is marked FAILED and its owner's last notification was FAIL_INSTALL: a
\* refusal by the kernel is never hidden by an older or a later success.
RefusalReported ==
    AtRest /\ history \cap {"netdown", "outside"} = {} =>
        \A e \in node.routes :
            e.selected /\ e.type \notin System =>
                \/ fib = [type |-> e.type, pay |-> e.pay]
                \/ e.failed /\ node.note[e.type] = "FAIL_INSTALL"

\* Once clients and environment are quiet, the work dies out: no request,
\* context or result is left waiting and zebra does not keep re-installing.
Settles == <>[]AtRest

\* What rib_score_proto says it does, "Remove specific by protocol routes":
\* when one client disconnects, the requests of the others are still served.
CloseKeepsOthers == AtRest /\ history \subseteq {"dropped"} => FibRight

\* What redistribute_delete and rib_process say of a withdrawn or replaced
\* route: when all queues have drained, the redistribution client has the
\* selected route if it asked for that type, and no other route.
RedistSelected ==
    AtRest /\ history = {} =>
        LET shown == {e \in node.routes : e.selected /\ e.type \in Redist}
        IN  IF shown = {} THEN node.redist = None
            ELSE \E e \in shown : node.redist = [type |-> e.type, pay |-> e.pay]

=============================================================================
