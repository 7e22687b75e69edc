------------------------------ MODULE BfdTimed ------------------------------
(***************************************************************************)
(* Bfd with real time in rounds, for the questions of progress.  All       *)
(* intervals are the slow one, so that a round is one transmission         *)
(* interval: every armed transmission timer fires once in it, packets take *)
(* less than a round, and the detection timer fires after the peer's       *)
(* detection multiplier of rounds without an accepted packet.              *)
(***************************************************************************)
EXTENDS Bfd

ASSUME OneInterval == Intervals = {<<Slow, Slow>>}

VARIABLES
    due,     \* peers whose transmission timer fires in this round
    age      \* rounds since the detection timer of each peer was armed

timed == <<sess, net, view, discr, heard, faults, due, age>>

Armed == {p \in Peers : sess[p].xmt}

Expired(p) == sess[p].recv /\ age[p] >= Mult[Other[p]]

TimedInit ==
    /\ Init
    /\ due = Armed
    /\ age = [p \in Peers |-> 0]

\* The detection timer of p is armed anew by an accepted packet, and whenever it
\* was not armed before.
Rearmed(p, accepted) ==
    age' = IF accepted \/ (sess'[p].recv /\ ~sess[p].recv)
           THEN [age EXCEPT ![p] = 0]
           ELSE age

TimedTransmit(p) ==
    /\ p \in due
    /\ Transmit(p)
    /\ due' = due \ {p}
    /\ UNCHANGED age

TimedReceive(p) ==
    /\ Receive(p)
    /\ Rearmed(p, Accepts(sess[p], Head(net[p])))
    /\ UNCHANGED due

TimedExpire(p) ==
    /\ Expired(p)
    /\ Expire(p)
    /\ UNCHANGED <<due, age>>

\* Whatever else happens takes no time.
TimedDisturb(p) ==
    /\ \/ Configure(p) \/ InterfaceDown(p) \/ InterfaceUp(p) \/ Restart(p)
       \/ Deregister(p) \/ Lose(p)
    /\ Rearmed(p, FALSE)
    /\ UNCHANGED due

TimedRegister(p) == Register(p) /\ UNCHANGED <<due, age>>

\* The next round starts when all of this one has happened.
Tick ==
    /\ due \intersect Armed = {}
    /\ \A p \in Peers : net[p] = <<>> /\ ~Expired(p)
    /\ due' = Armed
    /\ age' = [p \in Peers |-> IF age[p] < Mult[Other[p]] THEN age[p] + 1
                                                          ELSE age[p]]
    /\ UNCHANGED vars

TimedNext ==
    \/ Tick
    \/ \E p \in Peers :
          \/ TimedTransmit(p)
          \/ TimedReceive(p)
          \/ TimedExpire(p)
          \/ TimedDisturb(p)
          \/ TimedRegister(p)

\* Time passes and the event loops never stop.  A disturbance or a registration
\* happens a bounded number of times, and a round ends only when all that was due
\* in it has happened, so every timer fires and every packet arrives.
TimedSpec ==
    /\ TimedInit /\ [][TimedNext]_timed
    /\ WF_timed(Tick)
    /\ []<><<TRUE>>_timed

-----------------------------------------------------------------------------
\* A pair of sessions that can be up: enabled on both sides, and at least one
\* side starts the conversation.
Viable ==
    /\ \A p \in Peers : ~sess[p].shutdown /\ sess[p].sock
    /\ \E p \in Peers : ~sess[p].passive

Established ==
    \A p \in Peers : /\ sess[p].state = "UP"
                     /\ sess[p].remote_discr = sess[Other[p]].my_discr

\* Once the disturbances are over, sessions that can be up come up and stay up,
\* whatever states the disturbances left the two sides in: bs_down_handler and
\* its neighbours always find the way.
ComesUp == <>[]Viable => <>[]Established

\* Every poll sequence ends: the final bit comes back, or the session goes down.
PollEnds == \A p \in Peers : <>[]Viable => []<>~sess[p].polling
=============================================================================
