----------------------------- MODULE RequestLedger -----------------------------
(***************************************************************************)
(* What the log of request details promises of its records, without        *)
(* buffer, timer and batches: a table of limited size in which the saves   *)
(* that were accepted appear in order, the second save of a record in the  *)
(* place of the first.  A save is its number in that order.  RequestLog    *)
(* implements it (LogIsLedger).                                            *)
(***************************************************************************)
EXTENDS Integers, FiniteSets

CONSTANT Capacity

VARIABLES
    entered,    \* how many saves have been accepted
    again,      \* pairs of saves of one record, the first and the second
    kept,       \* those in the table
    gone        \* those that were trimmed, replaced or lost; they do not come back

ledgerVars == <<entered, again, kept, gone>>

Init ==
    /\ entered = 0
    /\ again = {}
    /\ kept = {}
    /\ gone = {}

Pending == (1 .. entered) \ (kept \union gone)

\* Nobody is passed over: what still waits is younger.
Oldest(some) == \A r \in some, later \in Pending \ some : r < later

\* A new record, or the second save of one that has been saved once.
Enter ==
    /\ entered' = entered + 1
    /\ \/ UNCHANGED again
       \/ \E first \in 1 .. entered :
            /\ \A pair \in again : first # pair[1] /\ first # pair[2]
            /\ again' = again \union {<<first, entered + 1>>}
    /\ UNCHANGED <<kept, gone>>

\* The last of the given saves for each record.
Latest(saves) == {s \in saves : \A t \in saves : <<s, t>> \notin again}

\* Some saves are written.  The table then has one row for each record, the newest
\* of them, and drops none while it has room.
Commit(some) ==
    LET stored == Latest(kept \union some)
    IN  /\ some # {} /\ Oldest(some)
        /\ kept' \subseteq stored
        /\ gone' = gone \union ((kept \union some) \ kept')
        /\ \A old \in stored \ kept', new \in kept' : old < new
        /\ Cardinality(kept') <= Capacity
        /\ Cardinality(kept') = Capacity \/ kept' = stored
        /\ UNCHANGED <<entered, again>>

\* A batch fails, or the process ends with all that is pending.
Lose(some) ==
    /\ Oldest(some)
    /\ gone' = gone \union some
    /\ UNCHANGED <<entered, again, kept>>

Next ==
    \/ Enter
    \/ \E some \in SUBSET Pending : Commit(some) \/ Lose(some)

Spec == Init /\ [][Next]_ledgerVars
=============================================================================
