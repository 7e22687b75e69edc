------------------------------- MODULE Frrcu -------------------------------
(***************************************************************************)
(* lib/frrcu.c with lib/seqlock.c: a thread holds an epoch while it may    *)
(* look at shared objects, and the RCU thread frees an object when every   *)
(* holder of the epoch it was queued in, or of an earlier one, is gone.    *)
(*                                                                         *)
(* An action is one access to memory that threads share.  What a thread is *)
(* in the middle of is the sequence todo of the accesses it still makes.   *)
(* The two lists are used as Atomlist shows they behave: adding to         *)
(* rcu_heads is two steps (the item is last, then it can be reached),      *)
(* taking from it is one, and so are adding to and removing from           *)
(* rcu_threads: no program of frr has two threads that start others at the *)
(* same time, and what one of them adds is not seen before its last step.  *)
(* Memory accesses take effect in program order.                           *)
(***************************************************************************)
EXTENDS Seqlock, Sequences, SequencesExt, FiniteSets

CONSTANTS
    Main,       \* the main thread
    Workers,    \* threads that may be started, once each
    Objects,    \* shared objects, freed once each
    StartVal,   \* SEQLOCK_STARTVAL
    MaxDepth,   \* bound: nesting of rcu_read_lock
    Global,     \* names rcu_seq among the sequence locks
    None,
    Usages      \* the calls, and the objects to free, each thread may make use of

Threads == Workers \union {Main}

ASSUME StartAssumption == StartVal \in Tickets
ASSUME NamesAssumption ==
    /\ Main \notin Workers
    /\ Global \notin Threads
    /\ Threads \intersect Objects = {}
    /\ None \notin Threads \union Objects

VARIABLES
    usage,      \* the calls the threads of this program make
    pos,        \* the sequence locks: each thread's, and rcu_seq
    rcu_dirty,
    rcu_threads,
    frozen,     \* where a removed thread's next pointer still points
    rcu_heads,  \* the queued actions, in the order they were added
    rcu_active,
    th,         \* each thread: nesting depth, accesses to make, value read
    rcu_main,   \* the RCU thread
    live,       \* objects that can be reached through shared data
    ref,        \* the object a thread is looking at
    freed       \* objects and rcu_thread structures that were freed

rcu == <<pos, rcu_dirty, rcu_threads, frozen, rcu_heads, rcu_active>>

vars == <<usage, rcu, th, rcu_main, live, ref, freed>>

\* rcu_main's locals when it starts; on is the lock it waits for.
RcuMainStart == [at |-> "load", on |-> Global, rcuval |-> StartVal, cur |-> 0,
                 timed |-> FALSE, end |-> FALSE]

\* rcu_preinit
Init ==
    /\ usage \in Usages
    /\ pos = [s \in Threads \union {Global} |->
                IF s \in Workers THEN Free ELSE HeldAt(StartVal)]
    /\ rcu_dirty = 0
    /\ rcu_threads = <<Main>>
    /\ frozen = [t \in Threads |-> None]
    /\ rcu_heads = <<>>
    /\ rcu_active = FALSE
    /\ th = [t \in Threads |->
                [depth |-> IF t = Main THEN 1 ELSE 0, val |-> 0,
                 todo |-> IF t = Main THEN <<>> ELSE <<"absent">>]]
    /\ rcu_main = [RcuMainStart EXCEPT !.at = "done"]
    /\ live = Objects
    /\ ref = [t \in Threads |-> None]
    /\ freed = {}

-----------------------------------------------------------------------------
Ready(t) == th[t].todo = <<>>

Locked(t) == Ready(t) /\ th[t].depth > 0

At(t, access) == th[t].todo # <<>> /\ Head(th[t].todo) = access

\* A call begins: its accesses, in order.
Begin(t, depth, todo) == th' = [th EXCEPT ![t].depth = depth, ![t].todo = todo]

\* An access is made; val is what it read.
Done(t, val) ==
    th' = [th EXCEPT ![t].todo = Tail(@), ![t].val = val]

\* An exchange of the position, and wait_poke if anybody waits.
Exchange(s, p) ==
    /\ pos' = [pos EXCEPT ![s] = p]
    /\ rcu_main' = IF pos[s].w /\ rcu_main.at = "asleep" /\ rcu_main.on = s
                   THEN [rcu_main EXCEPT !.at = "load"] ELSE rcu_main

\* rcu_heads_add_tail up to its exchange of the last pointer.
Queue(t, type, item) ==
    rcu_heads' = Append(rcu_heads,
                        [type |-> type, item |-> item, by |-> t, linked |-> FALSE])

-----------------------------------------------------------------------------
\* The calls a thread makes.

Acquire == <<"cur", "acquire">>

\* Seeded fault: rcu_seq goes up before the barrier is on the queue.
Bump_SeqFirst == <<"bump", "next", "link", "pad", "link">>

Bump == <<"next", "link", "pad", "link", "bump">>

BumpMaybe == <<"dirty", "maybe">>

\* Seeded fault: rcu_bump_maybe runs before the thread holds an epoch.
rcu_read_lock_BumpsUnheld(t) ==
    /\ "lock" \in usage[t]
    /\ Ready(t)
    /\ th[t].depth < MaxDepth
    /\ Begin(t, th[t].depth + 1,
             IF th[t].depth > 0 THEN <<>> ELSE BumpMaybe \o Acquire)
    /\ UNCHANGED <<usage, rcu, rcu_main, live, ref, freed>>

rcu_read_lock(t) ==
    /\ "lock" \in usage[t]
    /\ Ready(t)
    /\ th[t].depth < MaxDepth
    /\ Begin(t, th[t].depth + 1,
             IF th[t].depth > 0 THEN <<>> ELSE Acquire \o BumpMaybe \o Acquire)
    /\ UNCHANGED <<usage, rcu, rcu_main, live, ref, freed>>

\* What the thread looks at, it looks at until it unlocks.
rcu_read_unlock(t) ==
    /\ "unlock" \in usage[t]
    /\ Locked(t)
    /\ Begin(t, th[t].depth - 1,
             IF th[t].depth > 1 THEN <<>> ELSE BumpMaybe \o <<"release">>)
    /\ ref' = IF th[t].depth > 1 THEN ref ELSE [ref EXCEPT ![t] = None]
    /\ UNCHANGED <<usage, rcu, rcu_main, live, freed>>

\* A reader finds an object in shared data.
Look(t) ==
    /\ "look" \in usage[t]
    /\ Locked(t)
    /\ \E o \in live : ref' = [ref EXCEPT ![t] = o]
    /\ UNCHANGED <<usage, rcu, th, rcu_main, live, freed>>

\* An object is taken out of shared data and given to rcu_free (rcu_close and
\* rcu_call: other actions of the same rcu_enqueue).
rcu_enqueue(t, o) ==
    /\ o \in usage[t]
    /\ Locked(t)
    /\ o \in live
    /\ live' = live \ {o}
    /\ ref' = [ref EXCEPT ![t] = IF @ = o THEN None ELSE @]
    /\ IF rcu_active
       THEN /\ Queue(t, "free", o)
            /\ Begin(t, th[t].depth, <<"link", "cur", "mark">>)
            /\ UNCHANGED freed
       ELSE /\ freed' = freed \union {o}
            /\ UNCHANGED <<rcu_heads, th>>
    /\ UNCHANGED <<usage, pos, rcu_dirty, rcu_threads, frozen, rcu_active, rcu_main>>

\* Seeded fault: the new thread holds the current epoch, not its parent's.
rcu_thread_prepare_CurrentEpoch(t, w) ==
    /\ w \in usage[t]
    /\ Locked(t)
    /\ At(w, "absent")
    /\ rcu_active' = TRUE
    /\ rcu_main' = IF rcu_active THEN rcu_main ELSE RcuMainStart
    /\ pos' = [pos EXCEPT ![w] = HeldAt(pos[Global].val)]
    /\ rcu_threads' = Append(rcu_threads, w)
    /\ Begin(w, 1, <<>>)
    /\ ref' = [ref EXCEPT ![w] = ref[t]]
    /\ UNCHANGED <<usage, rcu_dirty, frozen, rcu_heads, live, freed>>

\* A thread starts another, which may look at what the first one looks at.
rcu_thread_prepare(t, w) ==
    /\ w \in usage[t]
    /\ Locked(t)
    /\ At(w, "absent")
    /\ rcu_active' = TRUE
    /\ rcu_main' = IF rcu_active THEN rcu_main ELSE RcuMainStart
    /\ pos' = [pos EXCEPT ![w] = HeldAt(pos[t].val)]
    /\ rcu_threads' = Append(rcu_threads, w)
    /\ Begin(w, 1, <<>>)
    /\ ref' = [ref EXCEPT ![w] = ref[t]]
    /\ UNCHANGED <<usage, rcu_dirty, frozen, rcu_heads, live, freed>>

rcu_thread_unprepare(t) ==
    /\ "end" \in usage[t]
    /\ Ready(t)
    /\ t \in Workers
    /\ Begin(t, 1, Acquire \o Bump \o <<"free", "link", "del", "release", "gone">>)
    /\ ref' = [ref EXCEPT ![t] = None]
    /\ UNCHANGED <<usage, rcu, rcu_main, live, freed>>

\* frr_pthread_finish has waited for every thread that was started.
Joined == \A w \in Workers : At(w, "absent") \/ At(w, "gone")

rcu_shutdown(t) ==
    /\ "shutdown" \in usage[t]
    /\ Locked(t)
    /\ t = Main
    /\ rcu_active
    /\ Joined
    /\ Queue(t, "end", None)
    /\ Begin(t, 1, <<"link", "cur", "mark", "release", "stop", "join">>)
    /\ ref' = [ref EXCEPT ![t] = None]
    /\ UNCHANGED <<usage, pos, rcu_dirty, rcu_threads, frozen, rcu_active, rcu_main,
                   live, freed>>

-----------------------------------------------------------------------------
\* The accesses of those calls.

\* seqlock_cur(&rcu_seq)
seqlock_cur(t) ==
    /\ At(t, "cur")
    /\ Done(t, pos[Global].val)
    /\ UNCHANGED <<usage, rcu, rcu_main, live, ref, freed>>

\* The second half of seqlock_acquire(&rt->rcu, &rcu_seq).
seqlock_acquire(t) ==
    /\ At(t, "acquire")
    /\ Exchange(t, HeldAt(th[t].val))
    /\ Done(t, 0)
    /\ UNCHANGED <<usage, rcu_dirty, rcu_threads, frozen, rcu_heads, rcu_active, live, ref,
                   freed>>

\* rcu_bump_maybe reads rcu_dirty, then rcu_seq.
LoadDirty(t) ==
    /\ At(t, "dirty")
    /\ Done(t, rcu_dirty)
    /\ UNCHANGED <<usage, rcu, rcu_main, live, ref, freed>>

rcu_bump_maybe(t) ==
    /\ At(t, "maybe")
    /\ th' = [th EXCEPT ![t].val = 0,
                        ![t].todo = (IF th[t].val = pos[Global].val
                                     THEN Bump ELSE <<>>) \o Tail(@)]
    /\ UNCHANGED <<usage, rcu, rcu_main, live, ref, freed>>

\* rcu_bump queues a barrier, then the action that frees the barrier; the end of a
\* thread queues the freeing of its rcu_thread.
QueueInternal(t) ==
    /\ \/ At(t, "next") /\ Queue(t, "next", None)
       \/ At(t, "pad") /\ Queue(t, "pad", None)
       \/ At(t, "free") /\ Queue(t, "free", t)
    /\ Done(t, 0)
    /\ UNCHANGED <<usage, pos, rcu_dirty, rcu_threads, frozen, rcu_active, rcu_main, live,
                   ref, freed>>

\* The rest of rcu_heads_add_tail: the item can be reached.
Linked(t) ==
    [k \in DOMAIN rcu_heads |->
        [rcu_heads[k] EXCEPT !.linked = @ \/ rcu_heads[k].by = t]]

rcu_heads_add_tail(t) ==
    /\ At(t, "link")
    /\ rcu_heads' = Linked(t)
    /\ Done(t, 0)
    /\ UNCHANGED <<usage, pos, rcu_dirty, rcu_threads, frozen, rcu_active, rcu_main, live,
                   ref, freed>>

seqlock_bump(t) ==
    /\ At(t, "bump")
    /\ Exchange(Global, HeldAt(Plus(pos[Global].val)))
    /\ Done(t, 0)
    /\ UNCHANGED <<usage, rcu_dirty, rcu_threads, frozen, rcu_heads, rcu_active, live, ref,
                   freed>>

\* The end of rcu_enqueue.
MarkDirty(t) ==
    /\ At(t, "mark")
    /\ rcu_dirty' = th[t].val
    /\ Done(t, 0)
    /\ UNCHANGED <<usage, pos, rcu_threads, frozen, rcu_heads, rcu_active, rcu_main, live,
                   ref, freed>>

\* Where a thread's next pointer leads.
NextOf(t) ==
    IF t \notin ToSet(rcu_threads) THEN frozen[t]
    ELSE IF Last(rcu_threads) = t THEN None
    ELSE rcu_threads[1 + CHOOSE k \in DOMAIN rcu_threads : rcu_threads[k] = t]

rcu_threads_del(t) ==
    /\ At(t, "del")
    /\ rcu_threads' = SelectSeq(rcu_threads, LAMBDA u : u # t)
    /\ frozen' = [frozen EXCEPT ![t] = NextOf(t)]
    /\ Done(t, 0)
    /\ UNCHANGED <<usage, pos, rcu_dirty, rcu_heads, rcu_active, rcu_main, live, ref, freed>>

seqlock_release(t) ==
    /\ At(t, "release")
    /\ Exchange(t, Free)
    /\ th' = [th EXCEPT ![t].todo = Tail(@), ![t].depth = 0]
    /\ UNCHANGED <<usage, rcu_dirty, rcu_threads, frozen, rcu_heads, rcu_active, live, ref,
                   freed>>

\* Seeded fault: rcu_shutdown does not release rcu_seq.
Stop_KeepsSeq(t) ==
    /\ At(t, "stop")
    /\ rcu_active' = FALSE
    /\ Done(t, 0)
    /\ UNCHANGED <<usage, pos, rcu_main, rcu_dirty, rcu_threads, frozen, rcu_heads, live,
                   ref, freed>>

\* rcu_shutdown lets the RCU thread run to its end, and starts over.
Stop(t) ==
    /\ At(t, "stop")
    /\ Exchange(Global, Free)
    /\ rcu_active' = FALSE
    /\ Done(t, 0)
    /\ UNCHANGED <<usage, rcu_dirty, rcu_threads, frozen, rcu_heads, live, ref, freed>>

\* Seeded fault: rcu_shutdown does not hold the new first epoch when it is done.
Join_NotHeld(t) ==
    /\ At(t, "join")
    /\ rcu_main.at = "done"
    /\ pos' = [pos EXCEPT ![Global] = HeldAt(StartVal)]
    /\ Begin(t, 1, <<>>)
    /\ UNCHANGED <<usage, rcu_dirty, rcu_threads, frozen, rcu_heads, rcu_active, rcu_main,
                   live, ref, freed>>

Join(t) ==
    /\ At(t, "join")
    /\ rcu_main.at = "done"
    /\ pos' = [pos EXCEPT ![Global] = HeldAt(StartVal), ![t] = HeldAt(StartVal)]
    /\ Begin(t, 1, <<>>)
    /\ UNCHANGED <<usage, rcu_dirty, rcu_threads, frozen, rcu_heads, rcu_active, rcu_main,
                   live, ref, freed>>

-----------------------------------------------------------------------------
\* The RCU thread.

RcuMain(r) == rcu_main' = r

\* seqlock_wait and seqlock_timedwait are done with a lock: the next one, or, after
\* the last thread, the queue.
Waited ==
    LET next == IF rcu_main.on = Global THEN Head(rcu_threads)
                                        ELSE NextOf(rcu_main.on)
    IN IF next = None
       THEN [rcu_main EXCEPT !.at = "pop", !.on = Global, !.cur = 0,
                             !.timed = FALSE]
       ELSE [rcu_main EXCEPT !.at = "load", !.on = next, !.cur = 0,
                             !.timed = TRUE]

\* The loop of seqlock_wait up to the system call.  The position is read and, if it
\* has to be waited for, SEQLOCK_WAITERS is set in it provided it has not changed
\* since; when it has, the loop starts over with the new one.
seqlock_wait ==
    LET cur == pos[rcu_main.on]
    IN
    /\ rcu_main.at = "load"
    /\ IF Past(cur, rcu_main.rcuval)
       THEN RcuMain(Waited) /\ UNCHANGED pos
       ELSE /\ pos' = [pos EXCEPT ![rcu_main.on].w = TRUE]
            /\ RcuMain([rcu_main EXCEPT !.at = "futex", !.cur = cur.val])
    /\ UNCHANGED <<usage, rcu_dirty, rcu_threads, frozen, rcu_heads, rcu_active, th,
                   live, ref, freed>>

\* Seeded fault: the system call sleeps whatever the position has become.
wait_once_NoCompare ==
    /\ rcu_main.at = "futex"
    /\ RcuMain([rcu_main EXCEPT !.at = "asleep", !.cur = 0])
    /\ UNCHANGED <<usage, rcu, th, live, ref, freed>>

\* The system call sleeps only if the position is still the one that was read; when
\* it is not, the call fails, and seqlock_timedwait takes this for a timeout.
wait_once ==
    /\ rcu_main.at = "futex"
    /\ RcuMain(IF pos[rcu_main.on] = [val |-> rcu_main.cur, w |-> TRUE]
               THEN [rcu_main EXCEPT !.at = "asleep", !.cur = 0]
               ELSE [rcu_main EXCEPT !.at = "load", !.cur = 0, !.timed = FALSE])
    /\ UNCHANGED <<usage, rcu, th, live, ref, freed>>

\* seqlock_timedwait gives up, and rcu_main waits without a limit.
Timeout ==
    /\ rcu_main.at = "asleep"
    /\ rcu_main.timed
    /\ RcuMain([rcu_main EXCEPT !.at = "load", !.timed = FALSE])
    /\ UNCHANGED <<usage, rcu, th, live, ref, freed>>

\* The epoch is over: rcuval goes up, and the loop ends or waits for the next epoch.
Advance == [rcu_main EXCEPT !.at = IF rcu_main.end THEN "done" ELSE "load",
                            !.rcuval = Plus(@)]

\* rcu_heads_pop, and rcu_do or the end of the loop.
rcu_heads_pop ==
    /\ rcu_main.at = "pop"
    /\ IF rcu_heads = <<>> \/ ~Head(rcu_heads).linked
       THEN RcuMain(Advance) /\ UNCHANGED <<rcu_heads, freed>>
       ELSE LET rh == Head(rcu_heads) IN
            /\ rcu_heads' = Tail(rcu_heads)
            /\ freed' = IF rh.type = "free" THEN freed \union {rh.item} ELSE freed
            /\ RcuMain(CASE rh.type = "next" -> Advance
                         [] rh.type = "end" -> [rcu_main EXCEPT !.end = TRUE]
                         [] OTHER -> rcu_main)
    /\ UNCHANGED <<usage, pos, rcu_dirty, rcu_threads, frozen, rcu_active, th, live, ref>>

-----------------------------------------------------------------------------
Call(t) ==
    \/ rcu_read_lock(t)
    \/ rcu_read_unlock(t)
    \/ Look(t)
    \/ \E o \in Objects : rcu_enqueue(t, o)
    \/ \E w \in Workers : rcu_thread_prepare(t, w)
    \/ rcu_thread_unprepare(t)
    \/ rcu_shutdown(t)

Access(t) ==
    \/ seqlock_cur(t)
    \/ seqlock_acquire(t)
    \/ LoadDirty(t)
    \/ rcu_bump_maybe(t)
    \/ QueueInternal(t)
    \/ rcu_heads_add_tail(t)
    \/ seqlock_bump(t)
    \/ MarkDirty(t)
    \/ rcu_threads_del(t)
    \/ seqlock_release(t)
    \/ Stop(t)
    \/ Join(t)

Sweep ==
    \/ seqlock_wait
    \/ wait_once
    \/ rcu_heads_pop

Next ==
    \/ \E t \in Threads : Call(t) \/ Access(t)
    \/ Sweep
    \/ Timeout

Spec == Init /\ [][Next]_vars

-----------------------------------------------------------------------------
\* A thread that some library started (bgpd: the RTR client's) makes itself known with
\* frr_pthread_non_controlled_startup, which has no parent to give rcu_thread_new.
rcu_thread_new(w) ==
    /\ "foreign" \in usage[w]
    /\ At(w, "absent")
    /\ rcu_active
    /\ rcu_threads' = Append(rcu_threads, w)
    /\ Begin(w, 1, <<>>)
    /\ UNCHANGED <<usage, pos, rcu_dirty, frozen, rcu_heads, rcu_active, rcu_main, live,
                   ref, freed>>

ForeignSpec ==
    /\ Init
    /\ [][Next \/ \E w \in Workers : rcu_thread_new(w)]_vars

-----------------------------------------------------------------------------
\* Threads are scheduled: a call that began is not left in the middle, and the RCU
\* thread runs when it is not asleep.  Which calls are made, and when a wait times
\* out, is not assumed.
FairSpec == /\ Spec
            /\ \A t \in Threads : WF_vars(Access(t))
            /\ WF_vars(Sweep)

-----------------------------------------------------------------------------
\* frrcu.h: what is given to rcu_free "will remain available for other threads until
\* they have passed into RCU-released state".  It covers a thread that read rcu_seq
\* and stored it late, and one that was started with what its parent looked at.
NoUseAfterFree == \A t \in Threads : ref[t] \notin freed

\* A thread has queued its barrier and not yet bumped rcu_seq.
Bumping(t) == "bump" \in ToSet(th[t].todo) /\ "next" \notin ToSet(th[t].todo)

\* rcu_bump: "each RCUA_NEXT item corresponds to exactly one seqno bump", so that the
\* RCU thread, which counts the items it takes off the queue, and the threads, which
\* read rcu_seq, mean the same epoch by the same number.
EpochsInStep ==
    Held(pos[Global]) /\ rcu_main.at # "done" =>
        Cardinality({k \in DOMAIN rcu_heads : rcu_heads[k].type = "next"}) * Incr
          = ((pos[Global].val - rcu_main.rcuval + Modulus) % Modulus)
            + Incr * Cardinality({t \in Threads : Bumping(t)})

\* rcu_bump: "we never delete the last item", neither of those that can be reached,
\* and the RCU thread never finds the queue interrupted by an item that is last but
\* not reachable yet, except when it reaches RCUA_END.
NeverDry ==
    rcu_main.at = "pop" /\ ~rcu_main.end =>
        /\ rcu_heads # <<>>
        /\ Head(rcu_heads).linked
        /\ Head(rcu_heads).type # "end" => Len(rcu_heads) > 1 /\ rcu_heads[2].linked

\* The assertions of the two files hold: rcu_assert_read_locked where a thread may
\* call rcu_enqueue, no other thread left on rcu_threads where rcu_shutdown may be
\* called, the distance of the numbers seqlock_wait compares, and an empty queue at
\* the end of rcu_main.
AssertionsHold ==
    /\ \A t \in Threads : Locked(t) => Held(pos[t])
    /\ Joined => rcu_threads = <<Main>>
    /\ rcu_main.at = "load" => Near(pos[rcu_main.on], rcu_main.rcuval)
    /\ rcu_main.at = "done" /\ At(Main, "join") => rcu_heads = <<>>

\* rcu_thread_unprepare, where it queues the freeing of the thread's own structure:
\* "this free() happens after seqlock_release() below".
ThreadFreedLast == \A w \in Workers : w \in freed => At(w, "gone")

Waiting(o) ==
    \E j, k \in DOMAIN rcu_heads :
        j < k /\ rcu_heads[j].item = o /\ rcu_heads[k].type = "next"

\* No wake-up is lost: when every thread is outside its read lock again and again,
\* an object whose epoch was closed is freed.
Swept ==
    (\A t \in Threads : []<>(th[t].depth = 0)) =>
        \A o \in Objects : Waiting(o) ~> o \in freed

\* rcu_shutdown "waits until remaining RCU actions are done & RCU thread has exited",
\* and is not left waiting.
ShutdownReturns == At(Main, "join") ~> Ready(Main) /\ Objects \ live \subseteq freed
=============================================================================
