----------------------------- MODULE LossyFifo -----------------------------
(***************************************************************************)
(* What the loopback of one queue pair promises to the guest: the packets  *)
(* accepted from its transmit queue wait in one line; a packet at the head *)
(* of the line is either delivered to the receive queue or lost; nothing   *)
(* overtakes, nothing is delivered twice, nothing waits for ever.          *)
(***************************************************************************)
EXTENDS Naturals, Sequences

VARIABLES accepted,               \* how many packets were taken from the guest
          pending,                \* the line: packets neither delivered nor lost
          delivered               \* the packets handed back, in that order

vars == <<accepted, pending, delivered>>

First(s, n) == SubSeq(s, 1, n)
Rest(s, n) == SubSeq(s, n + 1, Len(s))

\* The n packets that follow number k in the order the guest sent them.
Fresh(k, n) == [i \in 1..n |-> k + i]

Init == /\ accepted = 0
        /\ pending = << >>
        /\ delivered = << >>

\* Any number of packets at a time.  (The number is read off accepted', so that
\* it need not be bounded for TLC.)
Accept == /\ accepted' \in Nat /\ accepted' > accepted
          /\ pending' = pending \o Fresh(accepted, accepted' - accepted)
          /\ UNCHANGED delivered

Deliver == \E n \in 1..Len(pending) :
              /\ delivered' = delivered \o First(pending, n)
              /\ pending' = Rest(pending, n)
              /\ UNCHANGED accepted

Lose == \E n \in 1..Len(pending) :
           /\ pending' = Rest(pending, n)
           /\ UNCHANGED <<accepted, delivered>>

Next == Accept \/ Deliver \/ Lose

Spec == Init /\ [][Next]_vars /\ WF_vars(Deliver \/ Lose)

-----------------------------------------------------------------------------
Increasing(s) == \A i, j \in 1..Len(s) : i < j => s[i] < s[j]

\* The delivered packets, followed by those that still wait, are in the order
\* of the guest's transmit queue and without repetition.
InOrder == Increasing(delivered \o pending)
=============================================================================
