----------------------- MODULE AccountSemaphoreProofs -----------------------
(***************************************************************************)
(* Theorems about AccountSemaphore, for every finite set of requests, every*)
(* set of limits and every queue size.                                     *)
(***************************************************************************)
EXTENDS AccountSemaphore, FiniteSetTheorems, FunctionTheorems, SequenceTheorems, TLAPS

Elements(q) == {q[i] : i \in 1 .. Len(q)}

NoRepetition(q) == \A i, j \in 1 .. Len(q) : q[i] = q[j] => i = j

(* Lemmas about queues *)

\* The first k entries of a queue without repetition are k requests.
LEMMA PrefixCardinality ==
    ASSUME NEW q \in Seq(Requests), NoRepetition(q), NEW k \in 0 .. Len(q)
    PROVE  LET prefix == {q[i] : i \in 1 .. k}
           IN  IsFiniteSet(prefix) /\ Cardinality(prefix) = k
<1> DEFINE prefix == {q[i] : i \in 1 .. k}
           f == [i \in 1 .. k |-> q[i]]
<1>1. f \in Bijection(1 .. k, prefix)
  <2>1. f \in [1 .. k -> prefix]
    OBVIOUS
  <2>2. \A i, j \in 1 .. k : f[i] = f[j] => i = j
    BY DEF NoRepetition
  <2>3. \A x \in prefix : \E i \in 1 .. k : f[i] = x
    OBVIOUS
  <2> QED
    BY <2>1, <2>2, <2>3, Fun_IsBij
<1>2. IsFiniteSet(1 .. k) /\ Cardinality(1 .. k) = k
  BY FS_Interval
<1>3. ExistsBijection(1 .. k, prefix)
  BY <1>1, Fun_ExistsBij
<1> QED
  BY <1>2, <1>3, FS_Bijection

\* What is left of a queue when its first k entries are taken out.
LEMMA SuffixOfQueue ==
    ASSUME NEW q \in Seq(Requests), NoRepetition(q), NEW k \in 0 .. Len(q)
    PROVE  LET rest == SubSeq(q, k + 1, Len(q))
           IN  /\ rest \in Seq(Requests)
               /\ Len(rest) = Len(q) - k
               /\ NoRepetition(rest)
               /\ Elements(rest) = Elements(q) \ {q[i] : i \in 1 .. k}
<1> DEFINE rest == SubSeq(q, k + 1, Len(q))
<1>1. Len(q) \in Nat /\ \A i \in 1 .. Len(q) : q[i] \in Requests
  OBVIOUS
<1>2. /\ rest \in Seq(Requests)
      /\ Len(rest) = Len(q) - k
      /\ \A i \in 1 .. Len(q) - k : rest[i] = q[k + i]
  <2>1. \A i \in k + 1 .. Len(q) : q[i] \in Requests
    BY <1>1
  <2> QED
    BY <1>1, <2>1, SubSeqProperties
<1> HIDE DEF rest
<1>3. NoRepetition(rest)
  BY <1>1, <1>2 DEF NoRepetition
<1>4. Elements(rest) = Elements(q) \ {q[i] : i \in 1 .. k}
  <2>1. ASSUME NEW x \in Elements(rest)
        PROVE  x \in Elements(q) \ {q[i] : i \in 1 .. k}
    <3>1. PICK i \in 1 .. Len(q) - k : x = q[k + i]
      BY <1>1, <1>2, <2>1 DEF Elements
    <3>2. k + i \in 1 .. Len(q) /\ k + i > k
      BY <1>1, <3>1
    <3>3. \A j \in 1 .. k : q[j] # x
      BY <1>1, <3>1, <3>2 DEF NoRepetition
    <3> QED
      BY <3>1, <3>2, <3>3 DEF Elements
  <2>2. ASSUME NEW x \in Elements(q) \ {q[i] : i \in 1 .. k}
        PROVE  x \in Elements(rest)
    <3>1. PICK i \in 1 .. Len(q) : x = q[i]
      BY <2>2 DEF Elements
    <3>2. i > k
      BY <2>2, <3>1
    <3>3. i - k \in 1 .. Len(rest) /\ rest[i - k] = x
      BY <1>1, <1>2, <3>1, <3>2
    <3> QED
      BY <3>3 DEF Elements
  <2> QED
    BY <2>1, <2>2
<1> QED
  BY <1>2, <1>3, <1>4 DEF rest

\* What is left of a queue when its i-th entry is taken out.
LEMMA RemovalFromQueue ==
    ASSUME queue \in Seq(Requests), NoRepetition(queue), NEW i \in 1 .. Len(queue)
    PROVE  /\ Without(i) \in Seq(Requests)
           /\ NoRepetition(Without(i))
           /\ Elements(Without(i)) = Elements(queue) \ {queue[i]}
<1> DEFINE before == SubSeq(queue, 1, i - 1)
           after == SubSeq(queue, i + 1, Len(queue))
           rest == Without(i)
           n == Len(queue)
<1>1. n \in Nat /\ \A j \in 1 .. n : queue[j] \in Requests
  OBVIOUS
<1>2. /\ before \in Seq(Requests) /\ Len(before) = i - 1
      /\ \A j \in 1 .. i - 1 : before[j] = queue[j]
  <2>1. \A j \in 1 .. i - 1 : queue[j] \in Requests
    BY <1>1
  <2> QED
    BY <2>1, SubSeqProperties
<1>3. /\ after \in Seq(Requests) /\ Len(after) = n - i
      /\ \A j \in 1 .. n - i : after[j] = queue[i + j]
  <2>1. \A j \in i + 1 .. n : queue[j] \in Requests
    BY <1>1
  <2> QED
    BY <1>1, <2>1, SubSeqProperties
<1> HIDE DEF before, after
<1>4. /\ rest \in Seq(Requests)
      /\ Len(rest) = n - 1
      /\ \A j \in 1 .. n - 1 : rest[j] = IF j < i THEN queue[j] ELSE queue[j + 1]
  <2>1. rest = before \o after
    BY DEF Without, before, after
  <2>2. /\ before \o after \in Seq(Requests)
        /\ Len(before \o after) = Len(before) + Len(after)
        /\ \A j \in 1 .. Len(before) + Len(after) :
             (before \o after)[j] = IF j <= Len(before) THEN before[j] ELSE after[j - Len(before)]
    BY <1>2, <1>3, ConcatProperties
  <2> QED
    BY <1>1, <1>2, <1>3, <2>1, <2>2
<1> HIDE DEF rest
<1>5. NoRepetition(rest)
  <2> DEFINE from(j) == IF j < i THEN j ELSE j + 1
  <2>1. \A j \in 1 .. n - 1 : from(j) \in 1 .. n /\ rest[j] = queue[from(j)]
    BY <1>1, <1>4
  <2>2. \A j, l \in 1 .. n - 1 : from(j) = from(l) => j = l
    BY <1>1
  <2> HIDE DEF from
  <2> QED
    BY <1>4, <2>1, <2>2 DEF NoRepetition
<1>6. Elements(rest) = Elements(queue) \ {queue[i]}
  <2>1. ASSUME NEW x \in Elements(rest) PROVE x \in Elements(queue) \ {queue[i]}
    BY <1>1, <1>4, <2>1 DEF Elements, NoRepetition
  <2>2. ASSUME NEW x \in Elements(queue) \ {queue[i]} PROVE x \in Elements(rest)
    <3>1. PICK j \in 1 .. n : x = queue[j]
      BY <2>2 DEF Elements
    <3>2. CASE j < i
      <4>1. j \in 1 .. n - 1 /\ rest[j] = x
        BY <1>1, <1>4, <3>1, <3>2
      <4> QED BY <1>4, <4>1 DEF Elements
    <3>3. CASE j > i
      <4>1. j - 1 \in 1 .. n - 1 /\ rest[j - 1] = x
        BY <1>1, <1>4, <3>1, <3>3
      <4> QED BY <1>4, <4>1 DEF Elements
    <3>4. j # i
      BY <2>2, <3>1
    <3> QED BY <3>1, <3>2, <3>3, <3>4
  <2> QED BY <2>1, <2>2
<1> QED
  BY <1>4, <1>5, <1>6 DEF rest

\* What a queue becomes when a request joins it.
LEMMA ArrivalInQueue ==
    ASSUME NEW q \in Seq(Requests), NoRepetition(q), NEW r \in Requests \ Elements(q)
    PROVE  /\ Append(q, r) \in Seq(Requests)
           /\ NoRepetition(Append(q, r))
           /\ Elements(Append(q, r)) = Elements(q) \cup {r}
<1>1. /\ Append(q, r) \in Seq(Requests)
      /\ Len(Append(q, r)) = Len(q) + 1
      /\ \A i \in 1 .. Len(q) : Append(q, r)[i] = q[i]
      /\ Append(q, r)[Len(q) + 1] = r
  BY AppendProperties
<1>2. Len(q) \in Nat /\ \A i \in 1 .. Len(q) : q[i] # r
  BY DEF Elements
<1>3. NoRepetition(Append(q, r))
  BY <1>1, <1>2 DEF NoRepetition
<1>4. Elements(Append(q, r)) = Elements(q) \cup {r}
  <2>1. 1 .. Len(q) + 1 = 1 .. Len(q) \cup {Len(q) + 1}
    BY <1>2
  <2> QED
    BY <1>1, <2>1 DEF Elements
<1> QED
  BY <1>1, <1>3, <1>4
-----------------------------------------------------------------------------
(* The inductive invariant *)

LimitIsPositive == present => maxConcurrency >= 1

IInv == TypeOK /\ SlotAccounting /\ NobodyIsForgotten /\ LimitIsPositive

Waiters == {r \in Requests : pc[r] = "waiting"}

\* SlotAccounting in the terms of the lemmas.
Accounting ==
    /\ running = Cardinality(Holders)
    /\ Elements(queue) = Waiters
    /\ NoRepetition(queue)
    /\ ~present => running = 0 /\ queue = <<>> /\ blockedFor = 0 /\ ~blockTimer

LEMMA AccountingIsSlotAccounting ==
    ASSUME queue \in Seq(Requests)
    PROVE  SlotAccounting <=> Accounting
<1>1. DOMAIN queue = 1 .. Len(queue)
  OBVIOUS
<1> QED
  BY <1>1 DEF SlotAccounting, Accounting, Elements, NoRepetition, Waiters

LEMMA HoldersFinite == IsFiniteSet(Holders) /\ Cardinality(Holders) \in Nat
<1>1. Holders \subseteq Requests
  BY DEF Holders
<1> QED
  BY <1>1, SemaphoreAssumption, FS_Subset, FS_CardinalityType

\* drainQueue stays within the limit, and stops only when nobody waits, no
\* slot is free or the gate is blocked.
LEMMA GrantableBounds ==
    ASSUME TypeOK, NEW run \in Nat
    PROVE  /\ Grantable(run) \in 0 .. Len(queue)
           /\ Grantable(run) > 0 => blockedFor = 0 /\ run + Grantable(run) <= maxConcurrency
           /\ Grantable(run) < Len(queue) /\ blockedFor = 0 => run + Grantable(run) >= maxConcurrency
<1>1. Len(queue) \in Nat /\ maxConcurrency \in Nat /\ blockedFor \in Nat
  BY SemaphoreAssumption DEF TypeOK
<1> QED
  BY <1>1 DEF Grantable

\* The waiters that are let in are new holders.
LEMMA GrantedHolders ==
    ASSUME TypeOK, Accounting, NEW k \in 0 .. Len(queue),
           NEW H \in SUBSET Holders, NEW n \in Nat, n = Cardinality(H)
    PROVE  /\ First(k) \subseteq Waiters
           /\ Cardinality(H \cup First(k)) = n + k
<1>1. First(k) \subseteq Elements(queue)
  <2>1. Len(queue) \in Nat
    BY DEF TypeOK
  <2> QED
    BY <2>1 DEF First, Elements
<1>2. First(k) \subseteq Waiters
  BY <1>1 DEF Accounting
<1>3. IsFiniteSet(First(k)) /\ Cardinality(First(k)) = k
  BY PrefixCardinality DEF TypeOK, Accounting, First
<1>4. IsFiniteSet(H)
  BY HoldersFinite, FS_Subset
<1>5. H \cap First(k) = {}
  BY <1>2 DEF Holders, Waiters
<1>6. Cardinality(H \cap First(k)) = 0
  BY <1>5, FS_EmptySet
<1>7. Cardinality(H \cup First(k)) = Cardinality(H) + Cardinality(First(k)) - Cardinality(H \cap First(k))
  BY <1>3, <1>4, FS_Union
<1>8. n \in Nat /\ k \in Nat
  BY DEF TypeOK
<1>9. Cardinality(H \cup First(k)) = n + k
  BY <1>3, <1>6, <1>7, <1>8
<1> QED
  BY <1>2, <1>9

LEMMA InitInvariant == Init => IInv
<1> SUFFICES ASSUME Init PROVE IInv
  OBVIOUS
<1> USE SemaphoreAssumption
<1>1. TypeOK
  <2>1. queue \in Seq(Requests)
    BY EmptySeq DEF Init
  <2>2. blockedFor \in 0 .. MaxBlock
    BY DEF Init
  <2> QED
    BY <2>1, <2>2 DEF Init, TypeOK, Labels
<1>2. Holders = {} /\ Cardinality({}) = 0
  BY FS_EmptySet DEF Init, Holders
<1>3. SlotAccounting
  BY <1>2 DEF Init, SlotAccounting
<1> QED
  BY <1>1, <1>3 DEF Init, IInv, NobodyIsForgotten, LimitIsPositive

\* A step that lets waiters in after `run` slots are left to holders H, whoever
\* else (r, if any) changes its label.
LEMMA DrainKeeps ==
    ASSUME IInv, NEW run \in Nat, NEW H \in SUBSET Holders, run = Cardinality(H),
           Drain(run, Grantable(run)), present,
           UNCHANGED <<present, maxConcurrency, blockedFor, setting>>,
           pc' \in [Requests -> Labels],
           Holders' = H \cup First(Grantable(run)),
           Waiters' = Waiters \ First(Grantable(run)),
           blockTimer' \in BOOLEAN,
           blockedFor > 0 => blockTimer'
    PROVE  IInv'
<1> DEFINE k == Grantable(run)
<1>1. TypeOK /\ Accounting /\ LimitIsPositive
  BY AccountingIsSlotAccounting DEF IInv, TypeOK
<1>2. /\ k \in 0 .. Len(queue)
      /\ k < Len(queue) /\ blockedFor = 0 => run + k >= maxConcurrency
  BY <1>1, GrantableBounds
<1> HIDE DEF k
<1>3. /\ running' = run + k
      /\ queue' = SubSeq(queue, k + 1, Len(queue))
      /\ cleanupTimer' = (cleanupTimer \/ (running' = 0 /\ queue' = <<>> /\ blockedFor = 0))
  BY DEF Drain, k
<1>4. /\ queue' \in Seq(Requests)
      /\ Len(queue') = Len(queue) - k
      /\ NoRepetition(queue')
      /\ Elements(queue') = Elements(queue) \ First(k)
  BY <1>1, <1>2, <1>3, SuffixOfQueue DEF TypeOK, Accounting, First
<1>5. TypeOK'
  <2>1. cleanupTimer' \in BOOLEAN
    BY <1>3
  <2>2. running' \in Nat
    BY <1>2, <1>3
  <2> QED
    BY <1>1, <1>4, <2>1, <2>2 DEF TypeOK
<1>6. Accounting'
  <2>1. running' = Cardinality(Holders')
    BY <1>1, <1>2, <1>3, GrantedHolders DEF k
  <2>2. Elements(queue') = Waiters'
    BY <1>1, <1>4 DEF Accounting, k
  <2> QED
    BY <1>4, <2>1, <2>2 DEF Accounting
<1>7. SlotAccounting'
  <2>1. DOMAIN queue' = 1 .. Len(queue')
    BY <1>4
  <2> QED
    BY <1>6, <2>1 DEF SlotAccounting, Accounting, Elements, NoRepetition, Waiters
<1>8. LimitIsPositive'
  BY <1>1 DEF LimitIsPositive
<1>9. NobodyIsForgotten'
  <2>1. Len(queue) \in Nat /\ maxConcurrency \in Nat /\ maxConcurrency >= 1 /\ blockedFor \in Nat
    BY <1>1, SemaphoreAssumption DEF TypeOK, LimitIsPositive
  <2>2. ASSUME queue' # <<>> PROVE running' > 0 \/ blockTimer'
    <3>1. Len(queue') # 0
      BY <1>4, <2>2
    <3>2. k < Len(queue)
      BY <1>2, <1>4, <2>1, <3>1
    <3>3. CASE blockedFor = 0
      BY <1>2, <1>3, <2>1, <3>2, <3>3
    <3>4. CASE blockedFor > 0
      BY <3>4
    <3> QED
      BY <2>1, <3>3, <3>4
  <2>3. ASSUME running' = 0, queue' = <<>> PROVE cleanupTimer' \/ blockTimer'
    <3>1. CASE blockedFor = 0
      BY <1>3, <2>3, <3>1
    <3>2. CASE blockedFor > 0
      BY <3>2
    <3> QED
      BY <2>1, <3>1, <3>2
  <2> QED
    BY <2>2, <2>3 DEF NobodyIsForgotten
<1> QED
  BY <1>5, <1>7, <1>8, <1>9 DEF IInv

LEMMA SlotLimitPositive == \A max \in Settings : SlotLimit(max) \in Nat /\ SlotLimit(max) >= 1
  BY SemaphoreAssumption DEF SlotLimit

LEMMA AcquireKeeps ==
    ASSUME IInv, NEW r \in Requests, NEW max \in Settings, Acquire(r, max)
    PROVE  IInv'
<1>1. TypeOK /\ Accounting /\ NobodyIsForgotten
  BY AccountingIsSlotAccounting DEF IInv, TypeOK
<1>2. SlotLimit(max) \in Nat /\ SlotLimit(max) >= 1
  BY SlotLimitPositive
<1>3. LimitIsPositive' /\ present' = TRUE
  BY <1>2 DEF Acquire, LimitIsPositive
<1>4. setting' \in [Requests -> Settings]
  BY <1>1 DEF Acquire, TypeOK
<1>5. r \notin Holders /\ r \notin Waiters
  BY DEF Acquire, Holders, Waiters
<1>6. ASSUME queue' \in Seq(Requests), Accounting' PROVE SlotAccounting'
  <2>1. DOMAIN queue' = 1 .. Len(queue')
    BY <1>6
  <2> QED
    BY <1>6, <2>1 DEF SlotAccounting, Accounting, Elements, NoRepetition, Waiters
<1>7. blockedFor \in Nat /\ running \in Nat
  BY <1>1, SemaphoreAssumption DEF TypeOK
<1>8. CASE /\ blockedFor = 0 /\ running' = running + 1
           /\ pc' = [pc EXCEPT ![r] = "holding"]
           /\ UNCHANGED <<queue, cleanupTimer>>
  <2>1. TypeOK'
    BY <1>1, <1>2, <1>4, <1>8 DEF Acquire, TypeOK, Labels
  <2>2. Holders' = Holders \cup {r} /\ Waiters' = Waiters
    BY <1>1, <1>5, <1>8 DEF Holders, Waiters, TypeOK
  <2>3. Cardinality(Holders') = Cardinality(Holders) + 1
    BY <1>5, <2>2, HoldersFinite, FS_AddElement
  <2>4. Accounting'
    BY <1>1, <1>3, <1>8, <2>2, <2>3 DEF Accounting
  <2>5. NobodyIsForgotten'
    BY <1>7, <1>8 DEF NobodyIsForgotten, Acquire
  <2> QED
    BY <1>1, <1>3, <1>6, <1>8, <2>1, <2>4, <2>5 DEF IInv, TypeOK
<1>9. CASE /\ blockedFor > 0 \/ running >= SlotLimit(max)
           /\ UNCHANGED running
           /\ queue' = Append(queue, r) /\ cleanupTimer' = TRUE
           /\ pc' = [pc EXCEPT ![r] = "waiting"]
  <2>1. /\ queue' \in Seq(Requests)
        /\ NoRepetition(queue')
        /\ Elements(queue') = Elements(queue) \cup {r}
    BY <1>1, <1>5, <1>9, ArrivalInQueue DEF Accounting, TypeOK
  <2>2. TypeOK'
    BY <1>1, <1>2, <1>4, <1>9, <2>1 DEF Acquire, TypeOK, Labels
  <2>3. Holders' = Holders /\ Waiters' = Waiters \cup {r}
    BY <1>1, <1>5, <1>9 DEF Holders, Waiters, TypeOK
  <2>4. Accounting'
    BY <1>1, <1>3, <1>9, <2>1, <2>3 DEF Accounting
  <2>5. NobodyIsForgotten'
    BY <1>1, <1>2, <1>7, <1>9 DEF NobodyIsForgotten, Acquire
  <2> QED
    BY <1>3, <1>6, <2>1, <2>2, <2>4, <2>5 DEF IInv
<1>10. CASE /\ blockedFor > 0 \/ running >= SlotLimit(max)
            /\ UNCHANGED <<running, queue, cleanupTimer, pc>>
  <2>1. TypeOK'
    BY <1>1, <1>2, <1>4, <1>10 DEF Acquire, TypeOK
  <2>2. Holders' = Holders /\ Waiters' = Waiters
    BY <1>10 DEF Holders, Waiters
  <2>3. Accounting'
    BY <1>1, <1>3, <1>10, <2>2 DEF Accounting
  <2>4. present
    BY <1>1, <1>2, <1>7, <1>10 DEF Accounting
  <2>5. NobodyIsForgotten'
    BY <1>1, <1>10, <2>4 DEF NobodyIsForgotten, Acquire
  <2> QED
    BY <1>1, <1>3, <1>6, <1>10, <2>1, <2>3, <2>5 DEF IInv, TypeOK
<1> QED
  BY <1>8, <1>9, <1>10 DEF Acquire

LEMMA NextInvariant == IInv /\ [Next]_vars => IInv'
<1> SUFFICES ASSUME IInv, [Next]_vars PROVE IInv'
  OBVIOUS
<1>1. TypeOK /\ Accounting /\ NobodyIsForgotten /\ LimitIsPositive
  BY AccountingIsSlotAccounting DEF IInv, TypeOK
<1>2. ASSUME queue' \in Seq(Requests), Accounting' PROVE SlotAccounting'
  <2>1. DOMAIN queue' = 1 .. Len(queue')
    BY <1>2
  <2> QED
    BY <1>2, <2>1 DEF SlotAccounting, Accounting, Elements, NoRepetition, Waiters
<1>3. running \in Nat /\ maxConcurrency \in Nat /\ blockedFor \in Nat /\ queue \in Seq(Requests)
  BY <1>1, SemaphoreAssumption DEF TypeOK
<1>4. ASSUME NEW r \in Requests, NEW max \in Settings, Acquire(r, max) PROVE IInv'
  BY <1>4, AcquireKeeps
<1>5. ASSUME NEW r \in Requests, GiveUp(r) PROVE IInv'
  <2>1. PICK i \in DOMAIN queue : queue[i] = r /\ queue' = Without(i)
    BY <1>5 DEF GiveUp
  <2>2. i \in 1 .. Len(queue)
    BY <1>3, <2>1
  <2>3. queue' \in Seq(Requests) /\ NoRepetition(queue') /\ Elements(queue') = Elements(queue) \ {r}
    BY <1>1, <1>3, <2>1, <2>2, RemovalFromQueue DEF Accounting
  <2>4. TypeOK'
    BY <1>1, <1>5, <2>3 DEF GiveUp, TypeOK, Labels
  <2>5. Holders' = Holders /\ Waiters' = Waiters \ {r}
    BY <1>1, <1>5 DEF GiveUp, Holders, Waiters, TypeOK
  <2>6. present /\ queue # <<>>
    BY <1>1, <1>3, <2>2 DEF Accounting
  <2>7. Accounting'
    BY <1>1, <1>5, <2>3, <2>5, <2>6 DEF GiveUp, Accounting
  <2>8. NobodyIsForgotten'
    BY <1>1, <1>3, <1>5, <2>6 DEF GiveUp, NobodyIsForgotten
  <2>9. LimitIsPositive'
    BY <1>1, <1>5 DEF GiveUp, LimitIsPositive
  <2> QED
    BY <1>2, <2>3, <2>4, <2>7, <2>8, <2>9 DEF IInv
<1>6. ASSUME NEW r \in Requests, Finish(r) PROVE IInv'
  <2> DEFINE H == Holders \ {r}
             k == Grantable(running - 1)
  <2>1. r \in Holders
    BY <1>6 DEF Finish, Holders
  <2>2. Cardinality(H) = running - 1 /\ running - 1 \in Nat /\ H \in SUBSET Holders
    <3>1. IsFiniteSet(Holders) /\ Cardinality(H) = Cardinality(Holders) - 1
      BY <2>1, HoldersFinite, FS_RemoveElement
    <3>2. IsFiniteSet(H) /\ Cardinality(H) \in Nat
      BY <3>1, FS_RemoveElement, FS_CardinalityType
    <3> QED
      BY <1>1, <3>1, <3>2 DEF Accounting
  <2>3. present
    BY <1>1, <1>3, <2>2 DEF Accounting
  <2>4. k \in 0 .. Len(queue)
    BY <1>1, <2>2, GrantableBounds
  <2>5. First(k) \subseteq Waiters
    BY <1>1, <2>2, <2>4, GrantedHolders
  <2>6. PICK outcome \in {"idle", "refused"} : pc' = [Granted(k) EXCEPT ![r] = outcome]
    BY <1>6 DEF Finish
  <2>7. Drain(running - 1, k) /\ UNCHANGED <<present, maxConcurrency, blockedFor, blockTimer, setting>>
    BY <1>6 DEF Finish
  <2> HIDE DEF k
  <2>8. pc' \in [Requests -> Labels]
    BY <1>1, <2>6 DEF Granted, TypeOK, Labels
  <2>9. Holders' = H \cup First(k) /\ Waiters' = Waiters \ First(k)
    BY <1>1, <2>1, <2>5, <2>6 DEF Holders, Waiters, Granted, TypeOK
  <2>10. blockTimer' \in BOOLEAN /\ (blockedFor > 0 => blockTimer')
    BY <1>1, <2>7 DEF NobodyIsForgotten, TypeOK
  <2> HIDE DEF H
  <2> QED
    BY <2>2, <2>3, <2>7, <2>8, <2>9, <2>10, DrainKeeps DEF k
<1>7. ASSUME NEW r \in Requests, NEW duration \in 0 .. MaxBlock, Cooldown(r, duration) PROVE IInv'
  <2>1. pc' \in [Requests -> Labels] /\ Holders' = Holders /\ Waiters' = Waiters
    BY <1>1, <1>7 DEF Cooldown, Holders, Waiters, TypeOK, Labels
  <2>2. UNCHANGED <<present, running, maxConcurrency, queue, cleanupTimer, setting>>
    BY <1>7 DEF Cooldown
  <2>3. /\ blockedFor' \in 0 .. MaxBlock
        /\ blockTimer' \in BOOLEAN
        /\ blockTimer => blockTimer'
        /\ blockedFor' > 0 => blockTimer'
        /\ ~present => blockedFor' = blockedFor /\ blockTimer' = blockTimer
    BY <1>1, <1>3, <1>7 DEF Cooldown, MarkBlocked, TypeOK, NobodyIsForgotten
  <2>4. TypeOK'
    BY <1>1, <2>1, <2>2, <2>3 DEF TypeOK
  <2>5. Accounting'
    BY <1>1, <2>1, <2>2, <2>3 DEF Accounting
  <2>6. NobodyIsForgotten' /\ LimitIsPositive'
    BY <1>1, <2>2, <2>3 DEF NobodyIsForgotten, LimitIsPositive
  <2> QED
    BY <1>2, <1>3, <2>2, <2>4, <2>5, <2>6 DEF IInv
<1>8. CASE BlockTimerFires
  <2> DEFINE k == Grantable(running)
  <2>1. present
    BY <1>1, <1>8 DEF BlockTimerFires, Accounting
  <2>2. running = Cardinality(Holders)
    BY <1>1 DEF Accounting
  <2>3. k \in 0 .. Len(queue)
    BY <1>1, <1>3, GrantableBounds
  <2>4. First(k) \subseteq Waiters
    BY <1>1, <1>3, <2>2, <2>3, GrantedHolders
  <2>5. /\ Drain(running, k)
        /\ pc' = Granted(k)
        /\ blockTimer' = FALSE /\ blockedFor = 0
        /\ UNCHANGED <<present, maxConcurrency, blockedFor, setting>>
    BY <1>8 DEF BlockTimerFires
  <2> HIDE DEF k
  <2>6. pc' \in [Requests -> Labels]
    BY <1>1, <2>5 DEF Granted, TypeOK, Labels
  <2>7. Holders' = Holders \cup First(k) /\ Waiters' = Waiters \ First(k)
    BY <1>1, <2>4, <2>5 DEF Holders, Waiters, Granted, TypeOK
  <2>8. blockTimer' \in BOOLEAN /\ (blockedFor > 0 => blockTimer')
    <3>1. ~(blockedFor > 0)
      BY <2>5
    <3>2. blockTimer' \in BOOLEAN
      BY <2>5, Zenon
    <3> QED
      BY <3>1, <3>2, Zenon
  <2>9. Holders \in SUBSET Holders
    OBVIOUS
  <2> QED
    BY <1>3, <2>1, <2>2, <2>5, <2>6, <2>7, <2>8, <2>9, DrainKeeps DEF k
<1>9. CASE CleanupTimerFires
  <2>1. Holders' = Holders /\ Waiters' = Waiters
    BY <1>9 DEF CleanupTimerFires, Holders, Waiters
  <2>2. TypeOK'
    BY <1>1, <1>9 DEF CleanupTimerFires, TypeOK
  <2>3. Accounting'
    BY <1>1, <1>9, <2>1 DEF CleanupTimerFires, Accounting
  <2>4. NobodyIsForgotten'
    BY <1>1, <1>3, <1>9 DEF CleanupTimerFires, NobodyIsForgotten
  <2>5. LimitIsPositive'
    BY <1>1, <1>9 DEF CleanupTimerFires, LimitIsPositive
  <2> QED
    BY <1>2, <1>3, <1>9, <2>2, <2>3, <2>4, <2>5 DEF IInv, CleanupTimerFires
<1>10. CASE Tick
  <2>1. Holders' = Holders /\ Waiters' = Waiters
    BY <1>10 DEF Tick, Holders, Waiters
  <2>2. blockedFor' \in 0 .. MaxBlock
    BY <1>1, <1>10, SemaphoreAssumption DEF Tick, TypeOK
  <2>3. TypeOK'
    BY <1>1, <1>10, <2>2 DEF Tick, TypeOK
  <2>4. Accounting'
    BY <1>1, <1>3, <1>10, <2>1 DEF Tick, Accounting
  <2>5. NobodyIsForgotten' /\ LimitIsPositive'
    BY <1>1, <1>3, <1>10 DEF Tick, NobodyIsForgotten, LimitIsPositive
  <2> QED
    BY <1>2, <1>3, <1>10, <2>3, <2>4, <2>5 DEF IInv, Tick
<1>11. CASE UNCHANGED vars
  BY <1>11 DEF vars, gateVars, IInv, TypeOK, SlotAccounting, Holders, NobodyIsForgotten,
               LimitIsPositive
<1> QED
  BY <1>4, <1>5, <1>6, <1>7, <1>8, <1>9, <1>10, <1>11 DEF Next

\* IInv holds in every state.
THEOREM Invariance == Spec => []IInv
<1>1. Init => IInv
  BY InitInvariant
<1>2. IInv /\ [Next]_vars => IInv'
  BY NextInvariant
<1> QED
  BY <1>1, <1>2, PTL DEF Spec

\* Every variable keeps its type; in particular running never goes below zero.
THEOREM TypeCorrect == Spec => []TypeOK
<1>1. IInv => TypeOK
  BY DEF IInv
<1> QED
  BY <1>1, Invariance, PTL

\* Slots are neither leaked nor returned twice, for every number of requests,
\* every limit and every way of changing it.
THEOREM SlotsAreAccountedFor == Spec => []SlotAccounting
<1>1. IInv => SlotAccounting
  BY DEF IInv
<1> QED
  BY <1>1, Invariance, PTL

\* No wake-up is lost: a waiter always has a holder or a timer to wake it.
THEOREM WakeUpsAreNotLost == Spec => []NobodyIsForgotten
<1>1. IInv => NobodyIsForgotten
  BY DEF IInv
<1> QED
  BY <1>1, Invariance, PTL
-----------------------------------------------------------------------------
(* What a step may not do *)

\* Slots are handed out within the limit, and only while the gate is open.
LEMMA StepsRespectTheGate ==
    ASSUME IInv, [Next]_vars
    PROVE  /\ running' > running => running' <= maxConcurrency'
           /\ blockedFor > 0 => Holders' \subseteq Holders
<1>1. TypeOK /\ Accounting
  BY AccountingIsSlotAccounting DEF IInv, TypeOK
<1>2. running \in Nat /\ maxConcurrency \in Nat /\ blockedFor \in Nat
  BY <1>1, SemaphoreAssumption DEF TypeOK
<1>3. ASSUME NEW r \in Requests, NEW max \in Settings, Acquire(r, max)
      PROVE  /\ running' > running => running' <= maxConcurrency'
             /\ blockedFor > 0 => Holders' \subseteq Holders
  <2>1. SlotLimit(max) \in Nat
    BY SlotLimitPositive
  <2>2. running' > running => running' <= maxConcurrency'
    BY <1>2, <1>3, <2>1 DEF Acquire
  <2>3. ASSUME blockedFor > 0 PROVE pc' = pc \/ pc' = [pc EXCEPT ![r] = "waiting"]
    BY <1>2, <1>3, <2>3 DEF Acquire
  <2> QED
    BY <1>1, <2>2, <2>3 DEF Holders, TypeOK
<1>4. ASSUME NEW r \in Requests, Finish(r)
      PROVE  /\ running' > running => running' <= maxConcurrency'
             /\ blockedFor > 0 => Holders' \subseteq Holders
  <2> DEFINE k == Grantable(running - 1)
  <2>1. running' = running - 1 + k /\ maxConcurrency' = maxConcurrency
    BY <1>4 DEF Finish, Drain
  <2>2. running - 1 \in Nat
    <3>1. r \in Holders
      BY <1>4 DEF Finish, Holders
    <3>2. Cardinality(Holders) # 0
      BY <3>1, HoldersFinite, FS_EmptySet
    <3> QED
      BY <1>1, <1>2, <3>2 DEF Accounting
  <2>3. k \in 0 .. Len(queue) /\ (k > 0 => blockedFor = 0 /\ running - 1 + k <= maxConcurrency)
    BY <1>1, <2>2, GrantableBounds
  <2>4. PICK outcome \in {"idle", "refused"} : pc' = [Granted(k) EXCEPT ![r] = outcome]
    BY <1>4 DEF Finish
  <2> HIDE DEF k
  <2>5. Len(queue) \in Nat
    BY <1>1 DEF TypeOK
  <2>6. ASSUME blockedFor > 0 PROVE First(k) = {}
    BY <2>3, <2>5, <2>6 DEF First
  <2>7. blockedFor > 0 => Holders' \subseteq Holders
    BY <1>1, <2>4, <2>6 DEF Holders, Granted, TypeOK
  <2> QED
    BY <1>2, <2>1, <2>3, <2>5, <2>7
<1>5. CASE BlockTimerFires
  <2>1. blockedFor = 0
    BY <1>5 DEF BlockTimerFires
  <2>2. Grantable(running) \in 0 .. Len(queue)
        /\ (Grantable(running) > 0 => running + Grantable(running) <= maxConcurrency)
    BY <1>1, <1>2, GrantableBounds
  <2>3. running' = running + Grantable(running) /\ maxConcurrency' = maxConcurrency
    BY <1>5 DEF BlockTimerFires, Drain
  <2>4. Len(queue) \in Nat
    BY <1>1 DEF TypeOK
  <2> QED
    BY <1>2, <2>1, <2>2, <2>3, <2>4
<1>6. ASSUME NEW r \in Requests,
             GiveUp(r) \/ \E duration \in 0 .. MaxBlock : Cooldown(r, duration)
      PROVE  /\ running' = running
             /\ Holders' \subseteq Holders
  BY <1>1, <1>6 DEF GiveUp, Cooldown, Holders, TypeOK
<1>7. CASE CleanupTimerFires \/ Tick \/ UNCHANGED vars
  BY <1>2, <1>7 DEF CleanupTimerFires, Tick, vars, gateVars, Holders
<1> QED
  BY <1>2, <1>3, <1>4, <1>5, <1>6, <1>7 DEF Next

\* No grant exceeds the limit in force, however often the limit changes.
THEOREM LimitIsKept == Spec => GrantsKeepTheLimit
<1>1. IInv /\ [Next]_vars => [running' > running => running' <= maxConcurrency']_vars
  BY StepsRespectTheGate
<1> QED
  BY <1>1, Invariance, PTL DEF Spec, GrantsKeepTheLimit

\* While an account is in cooldown no request starts on it.
THEOREM CooldownIsKept == Spec => BlockedAccountRests
<1>1. IInv /\ [Next]_vars => [blockedFor > 0 => Holders' \subseteq Holders]_vars
  BY StepsRespectTheGate
<1> QED
  BY <1>1, Invariance, PTL DEF Spec, BlockedAccountRests

\* Of the waiters, only a prefix of the queue is let in.
LEMMA StepsServeInOrder ==
    ASSUME IInv, [Next]_vars,
           NEW i \in DOMAIN queue, NEW j \in DOMAIN queue, i < j, pc'[queue[j]] = "holding"
    PROVE  pc'[queue[i]] # "waiting"
<1>1. TypeOK /\ Accounting
  BY AccountingIsSlotAccounting DEF IInv, TypeOK
<1>2. /\ queue \in Seq(Requests) /\ Len(queue) \in Nat
      /\ i \in 1 .. Len(queue) /\ j \in 1 .. Len(queue)
      /\ pc \in [Requests -> Labels]
      /\ queue[i] \in Requests /\ queue[j] \in Requests
      /\ running \in Nat
  BY <1>1 DEF TypeOK
<1>3. pc[queue[i]] = "waiting" /\ pc[queue[j]] = "waiting"
  BY <1>1, <1>2 DEF Accounting, Elements, Waiters
<1>4. ASSUME NEW k \in 0 .. Len(queue), queue[j] \in First(k) PROVE queue[i] \in First(k)
  <2>1. PICK l \in 1 .. k : queue[l] = queue[j]
    BY <1>4 DEF First
  <2>2. l = j
    BY <1>1, <1>2, <2>1 DEF Accounting, NoRepetition
  <2> QED
    BY <1>2, <2>2 DEF First
<1>5. ASSUME NEW r \in Requests, NEW max \in Settings, Acquire(r, max) PROVE FALSE
  <2>1. queue[j] # r
    BY <1>3, <1>5 DEF Acquire
  <2>2. pc'[queue[j]] = pc[queue[j]]
    BY <1>2, <1>5, <2>1 DEF Acquire
  <2> QED
    BY <1>3, <2>2
<1>6. ASSUME NEW r \in Requests, GiveUp(r) PROVE FALSE
  BY <1>2, <1>3, <1>6 DEF GiveUp
<1>7. ASSUME NEW r \in Requests, Finish(r) PROVE pc'[queue[i]] # "waiting"
  <2> DEFINE k == Grantable(running - 1)
  <2>1. r \in Holders /\ pc[r] = "holding"
    BY <1>7 DEF Finish, Holders
  <2>2. running - 1 \in Nat
    <3>1. Cardinality(Holders) # 0
      BY <2>1, HoldersFinite, FS_EmptySet
    <3> QED
      BY <1>1, <1>2, <3>1 DEF Accounting
  <2>3. k \in 0 .. Len(queue)
    BY <1>1, <2>2, GrantableBounds
  <2>4. PICK outcome \in {"idle", "refused"} : pc' = [Granted(k) EXCEPT ![r] = outcome]
    BY <1>7 DEF Finish
  <2> HIDE DEF k
  <2>5. queue[j] \in First(k)
    BY <1>2, <1>3, <2>1, <2>4 DEF Granted
  <2>6. queue[i] \in First(k)
    BY <1>4, <2>3, <2>5
  <2> QED
    BY <1>2, <1>3, <2>1, <2>4, <2>6 DEF Granted
<1>8. ASSUME NEW r \in Requests, NEW duration \in 0 .. MaxBlock, Cooldown(r, duration)
      PROVE  FALSE
  BY <1>2, <1>3, <1>8 DEF Cooldown
<1>9. CASE BlockTimerFires
  <2> DEFINE k == Grantable(running)
  <2>1. k \in 0 .. Len(queue)
    BY <1>1, <1>2, GrantableBounds
  <2>2. pc' = Granted(k)
    BY <1>9 DEF BlockTimerFires
  <2> HIDE DEF k
  <2>3. queue[j] \in First(k)
    BY <1>2, <1>3, <2>2 DEF Granted
  <2>4. queue[i] \in First(k)
    BY <1>4, <2>1, <2>3
  <2> QED
    BY <1>2, <2>2, <2>4 DEF Granted
<1>10. CASE CleanupTimerFires \/ Tick \/ UNCHANGED vars
  BY <1>3, <1>10 DEF CleanupTimerFires, Tick, vars
<1> QED
  BY <1>5, <1>6, <1>7, <1>8, <1>9, <1>10 DEF Next

\* First come, first served: drainQueue passes nobody who has waited longer.
THEOREM OrderIsKept == Spec => WaitersAreServedInOrder
<1>1. IInv /\ [Next]_vars =>
        [\A i, j \in DOMAIN queue :
           i < j /\ pc'[queue[j]] = "holding" => pc'[queue[i]] # "waiting"]_vars
  BY StepsServeInOrder
<1> QED
  BY <1>1, Invariance, PTL DEF Spec, WaitersAreServedInOrder
-----------------------------------------------------------------------------
(* The gate implements SlotPool *)

\* The pool counts as the gate does.
LEMMA PoolCardinality == ASSUME NEW S PROVE Pool!Cardinality(S) = Cardinality(S)
  BY DEF Pool!Cardinality, Cardinality

\* What drainQueue does is what the pool does when somebody leaves or a rest ends.
LEMMA DrainLetsIn ==
    ASSUME IInv, NEW run \in Nat, NEW H \in SUBSET Holders, run = Cardinality(H),
           Drain(run, Grantable(run)), UNCHANGED <<maxConcurrency, blockedFor>>,
           Holders' = H \cup First(Grantable(run))
    PROVE  \E k \in 0 .. Len(queue) : Pool!LetIn(k, H)
<1> DEFINE k == Grantable(run)
<1>1. TypeOK
  BY DEF IInv
<1>2. Len(queue) \in Nat /\ maxConcurrency \in Nat /\ blockedFor \in Nat
  BY <1>1, SemaphoreAssumption DEF TypeOK
<1>3. /\ k \in 0 .. Len(queue)
      /\ k > 0 => blockedFor = 0 /\ run + k <= maxConcurrency
      /\ k < Len(queue) /\ blockedFor = 0 => run + k >= maxConcurrency
  BY <1>1, GrantableBounds
<1>4. queue' = SubSeq(queue, k + 1, Len(queue))
  BY DEF Drain
<1> HIDE DEF k
<1>5. Holders' = H \cup {queue[i] : i \in 1 .. k}
  BY DEF First, k
<1>6. /\ k > 0 => ~(blockedFor > 0) /\ Cardinality(H) + k <= maxConcurrency
      /\ k = Len(queue) \/ blockedFor > 0 \/ Cardinality(H) + k >= maxConcurrency
  BY <1>2, <1>3
<1>7. Pool!LetIn(k, H)
  BY <1>4, <1>5, <1>6, PoolCardinality DEF Pool!LetIn
<1> QED
  BY <1>3, <1>7

\* Every step of the gate is a step of the pool or leaves it as it is.
LEMMA StepsAreSteps ==
    ASSUME IInv, [Next]_vars
    PROVE  [Pool!Next]_(Pool!poolVars)
<1>1. TypeOK /\ Accounting
  BY AccountingIsSlotAccounting DEF IInv, TypeOK
<1>2. /\ running \in Nat /\ maxConcurrency \in Nat /\ blockedFor \in Nat
      /\ queue \in Seq(Requests) /\ DOMAIN queue = 1 .. Len(queue)
      /\ running = Cardinality(Holders)
  BY <1>1, SemaphoreAssumption DEF TypeOK, Accounting
<1>3. ASSUME NEW r \in Requests, NEW max \in Settings, Acquire(r, max)
      PROVE  Pool!Next
  <2> DEFINE n == SlotLimit(max)
  <2>1. n \in {SlotLimit(m) : m \in Settings} /\ n \in Nat
    BY SlotLimitPositive
  <2>2. Pool!Outside(r)
    <3>1. r \notin Holders /\ r \notin Elements(queue)
      BY <1>1, <1>3 DEF Acquire, Accounting, Holders, Waiters
    <3> QED
      BY <1>2, <3>1 DEF Pool!Outside, Elements
  <2>3. maxConcurrency' = n /\ blockedFor' = blockedFor
    BY <1>3 DEF Acquire
  <2> HIDE DEF n
  <2>4. CASE blockedFor = 0 /\ running < n /\ pc' = [pc EXCEPT ![r] = "holding"] /\ queue' = queue
    <3>1. Holders' = Holders \cup {r}
      BY <1>1, <2>4 DEF Holders, TypeOK
    <3>2. ~(blockedFor > 0) /\ Cardinality(Holders) < n
      BY <1>2, <2>4
    <3>3. Pool!Enter(r, n)
      BY <2>2, <2>3, <2>4, <3>1, <3>2, PoolCardinality DEF Pool!Enter
    <3> QED
      BY <2>1, <3>3 DEF Pool!Next
  <2>5. CASE /\ blockedFor > 0 \/ running >= n
             /\ \/ queue' = Append(queue, r) /\ pc' = [pc EXCEPT ![r] = "waiting"]
                \/ queue' = queue /\ pc' = pc
    <3>1. Holders' = Holders
      BY <1>1, <1>3, <2>5 DEF Acquire, Holders, TypeOK
    <3>2. blockedFor > 0 \/ Cardinality(Holders) >= n
      BY <1>2, <2>5
    <3>3. queue' \in {queue, Append(queue, r)}
      BY <2>5
    <3>4. Pool!Enter(r, n)
      BY <2>2, <2>3, <3>1, <3>2, <3>3, PoolCardinality DEF Pool!Enter
    <3> QED
      BY <2>1, <3>4 DEF Pool!Next
  <2> QED
    BY <1>3, <2>4, <2>5 DEF Acquire, n
<1>4. ASSUME NEW r \in Requests, GiveUp(r) PROVE Pool!Next
  <2>1. PICK i \in DOMAIN queue : queue' = Without(i)
    BY <1>4 DEF GiveUp
  <2>2. Holders' = Holders
    BY <1>1, <1>4 DEF GiveUp, Holders, TypeOK
  <2>3. Pool!Quit(i)
    BY <1>4, <2>1, <2>2 DEF GiveUp, Without, Pool!Quit
  <2> QED
    BY <2>1, <2>3 DEF Pool!Next
<1>5. ASSUME NEW r \in Requests, Finish(r) PROVE Pool!Next
  <2> DEFINE H == Holders \ {r}
             k == Grantable(running - 1)
  <2>1. r \in Holders
    BY <1>5 DEF Finish, Holders
  <2>2. Cardinality(H) = running - 1 /\ running - 1 \in Nat /\ H \in SUBSET Holders
    <3>1. Cardinality(H) = Cardinality(Holders) - 1
      BY <2>1, HoldersFinite, FS_RemoveElement
    <3>2. IsFiniteSet(H) /\ Cardinality(H) \in Nat
      BY HoldersFinite, FS_RemoveElement, FS_CardinalityType
    <3> QED
      BY <1>2, <3>1, <3>2
  <2>3. k \in 0 .. Len(queue)
    BY <1>1, <2>2, GrantableBounds
  <2>4. First(k) \subseteq Waiters
    BY <1>1, <2>2, <2>3, GrantedHolders
  <2>5. PICK outcome \in {"idle", "refused"} : pc' = [Granted(k) EXCEPT ![r] = outcome]
    BY <1>5 DEF Finish
  <2>6. Drain(running - 1, k) /\ UNCHANGED <<maxConcurrency, blockedFor>>
    BY <1>5 DEF Finish
  <2> HIDE DEF k
  <2>7. Holders' = H \cup First(k)
    BY <1>1, <2>1, <2>4, <2>5 DEF Holders, Waiters, Granted, TypeOK
  <2> HIDE DEF H
  <2>8. \E j \in 0 .. Len(queue) : Pool!LetIn(j, H)
    BY <2>2, <2>6, <2>7, DrainLetsIn DEF k
  <2>9. Pool!Return(r)
    BY <2>8 DEF Pool!Return, H
  <2> QED
    BY <2>1, <2>9 DEF Pool!Next
<1>6. ASSUME NEW r \in Requests, NEW duration \in 0 .. MaxBlock, Cooldown(r, duration)
      PROVE  Pool!Next \/ UNCHANGED Pool!poolVars
  <2>1. Holders' = Holders /\ UNCHANGED <<queue, maxConcurrency>>
    BY <1>1, <1>6 DEF Cooldown, Holders, TypeOK
  <2>2. blockedFor > 0 => blockedFor' > 0
    BY <1>2, <1>6 DEF Cooldown, MarkBlocked
  <2>3. CASE ~(blockedFor > 0) /\ blockedFor' > 0
    BY <2>1, <2>3 DEF Pool!Next, Pool!Rest
  <2>4. CASE (blockedFor' > 0) <=> (blockedFor > 0)
    BY <2>1, <2>4 DEF Pool!poolVars
  <2> QED
    BY <2>2, <2>3, <2>4
<1>7. CASE BlockTimerFires
  <2> DEFINE k == Grantable(running)
  <2>1. k \in 0 .. Len(queue)
    BY <1>1, <1>2, GrantableBounds
  <2>2. First(k) \subseteq Waiters
    BY <1>1, <1>2, <2>1, GrantedHolders
  <2>3. Drain(running, k) /\ pc' = Granted(k) /\ UNCHANGED <<maxConcurrency, blockedFor>>
    BY <1>7 DEF BlockTimerFires
  <2> HIDE DEF k
  <2>4. Holders' = Holders \cup First(k)
    BY <1>1, <2>2, <2>3 DEF Holders, Waiters, Granted, TypeOK
  <2>5. \E j \in 0 .. Len(queue) : Pool!LetIn(j, Holders)
    BY <1>2, <2>3, <2>4, DrainLetsIn DEF k
  <2> QED
    BY <2>5 DEF Pool!Next, Pool!Admit
<1>8. CASE CleanupTimerFires
  <2>1. Holders' = Holders /\ UNCHANGED <<queue, blockedFor>>
    BY <1>8 DEF CleanupTimerFires, Holders
  <2>2. CASE maxConcurrency' = maxConcurrency
    BY <2>1, <2>2 DEF Pool!poolVars
  <2>3. CASE running = 0 /\ queue = <<>> /\ blockedFor = 0 /\ maxConcurrency' = 0
    <3>1. Holders = {}
      BY <1>2, <2>3, HoldersFinite, FS_EmptySet
    <3> QED
      BY <2>1, <2>3, <3>1 DEF Pool!Next, Pool!Close
  <2> QED
    BY <1>8, <2>2, <2>3 DEF CleanupTimerFires
<1>9. CASE Tick
  <2>1. Holders' = Holders /\ UNCHANGED <<queue, maxConcurrency>> /\ blockedFor > 0
    BY <1>9 DEF Tick, Holders
  <2>2. CASE ~(blockedFor' > 0)
    BY <2>1, <2>2 DEF Pool!Next, Pool!Wake
  <2>3. CASE blockedFor' > 0
    BY <2>1, <2>3 DEF Pool!poolVars
  <2> QED
    BY <2>2, <2>3
<1>10. CASE UNCHANGED vars
  BY <1>10 DEF vars, gateVars, Holders, Pool!poolVars
<1> QED
  BY <1>3, <1>4, <1>5, <1>6, <1>7, <1>8, <1>9, <1>10 DEF Next

\* The semaphore keeps the promise of a pool of slots with a waiting line: who
\* leaves lets in those at the front, as many as there is room for and no more.
THEOREM SemaphoreIsPool == Spec => ImplementsSlotPool
<1>1. Init => Pool!Init
  <2>1. Init => Holders = {}
    BY DEF Init, Holders
  <2> QED
    BY <2>1 DEF Init, Pool!Init
<1>2. IInv /\ [Next]_vars => [Pool!Next]_(Pool!poolVars)
  BY StepsAreSteps
<1> QED
  BY <1>1, <1>2, Invariance, PTL DEF Spec, ImplementsSlotPool, Pool!Spec
=============================================================================
