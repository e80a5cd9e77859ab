------------------------------- MODULE SlotPool -------------------------------
(***************************************************************************)
(* What the semaphore of an account promises, without its counters, timers *)
(* and the life of the gate: a pool of slots with a waiting line.          *)
(*   - whoever enters takes a free slot, joins the end of the line or is   *)
(*     turned away, and brings the limit that is in force from now on;     *)
(*   - whoever leaves lets in those at the front of the line, as many as   *)
(*     the limit allows and no fewer, unless the account rests.            *)
(* Whoever enters need not look at the line: a slot that is free while     *)
(* others wait may go to a newcomer.  The order is that of the line only.  *)
(* AccountSemaphore implements it (ImplementsSlotPool).                    *)
(***************************************************************************)
EXTENDS Integers, Sequences, FiniteSets

CONSTANTS
    Guests,     \* who may use a slot
    Limits      \* the limits that guests may bring

VARIABLES
    holders,    \* who has a slot
    line,       \* who waits, in order of arrival
    limit,      \* slots there are; 0 while nobody has used the pool
    resting     \* is the account in cooldown?

poolVars == <<holders, line, limit, resting>>

Init ==
    /\ holders = {}
    /\ line = <<>>
    /\ limit = 0
    /\ resting = FALSE

Outside(r) == r \notin holders /\ \A i \in DOMAIN line : line[i] # r

\* The first k of the line join others, who keep their slots: as many as there
\* is room for, and nobody while the account rests.
LetIn(k, others) ==
    /\ k > 0 => ~resting /\ Cardinality(others) + k <= limit
    /\ k = Len(line) \/ resting \/ Cardinality(others) + k >= limit
    /\ holders' = others \cup {line[i] : i \in 1 .. k}
    /\ line' = SubSeq(line, k + 1, Len(line))
    /\ UNCHANGED <<limit, resting>>

Enter(r, n) ==
    /\ Outside(r)
    /\ limit' = n
    /\ \/ /\ ~resting /\ Cardinality(holders) < n
          /\ holders' = holders \cup {r}
          /\ UNCHANGED line
       \/ /\ resting \/ Cardinality(holders) >= n
          /\ line' \in {line, Append(line, r)}
          /\ UNCHANGED holders
    /\ UNCHANGED resting

Quit(i) ==
    /\ line' = SubSeq(line, 1, i - 1) \o SubSeq(line, i + 1, Len(line))
    /\ UNCHANGED <<holders, limit, resting>>

Return(r) == \E k \in 0 .. Len(line) : LetIn(k, holders \ {r})

\* The end of a rest is noticed.
Admit == \E k \in 0 .. Len(line) : LetIn(k, holders)

Rest == ~resting /\ resting' = TRUE /\ UNCHANGED <<holders, line, limit>>

Wake == resting /\ resting' = FALSE /\ UNCHANGED <<holders, line, limit>>

\* Nobody is left: the limit is forgotten.
Close ==
    /\ holders = {} /\ line = <<>> /\ ~resting
    /\ limit' = 0
    /\ UNCHANGED <<holders, line, resting>>

Next ==
    \/ \E r \in Guests, n \in Limits : Enter(r, n)
    \/ \E i \in DOMAIN line : Quit(i)
    \/ \E r \in holders : Return(r)
    \/ Admit
    \/ Rest
    \/ Wake
    \/ Close

Spec == Init /\ [][Next]_poolVars
=============================================================================
