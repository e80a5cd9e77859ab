----------------------------- MODULE RequestProofs -----------------------------
(***************************************************************************)
(* Theorems about AccountSelection, for any number of accounts and         *)
(* requests and every sticky limit, about ClientStream, for every route    *)
(* and any number of chunks and tools, and about the four services of      *)
(* RequestServices together.                                               *)
(***************************************************************************)
EXTENDS RequestServices, ComboProofs, NumberTheorems

(* The mutex of the selection *)

ChainTypeOK ==
    /\ chain \in Seq(Selectors)
    /\ selPc \in [Selectors -> {"idle", "queued", "deciding", "resolving"}]

ChainInvariant == ChainTypeOK /\ SelectionIsExclusive

\* Whoever is queued or further is in the chain, which is therefore not empty.
LEMMA ChainHasWaiters ==
    ASSUME ChainInvariant, NEW r \in Selectors, selPc[r] # "idle"
    PROVE  chain # <<>> /\ Len(chain) \in Nat \ {0}
<1>1. selPc[r] \in {"queued", "deciding", "resolving"}
  BY DEF ChainInvariant, ChainTypeOK
<1>2. \E i \in DOMAIN chain : chain[i] = r
  BY <1>1 DEF ChainInvariant, SelectionIsExclusive
<1> QED
  BY <1>2, EmptySeq, LenProperties DEF ChainInvariant, ChainTypeOK

\* A request that asks goes behind the others.
LEMMA AskKeepsChain ==
    ASSUME ChainInvariant, NEW r \in Selectors, Ask(r)
    PROVE  ChainInvariant'
<1> USE DEF ChainInvariant, ChainTypeOK
<1> DEFINE n == Len(chain)
<1>1. /\ chain' = Append(chain, r)
      /\ selPc' = [selPc EXCEPT ![r] = "queued"]
      /\ selPc[r] = "idle"
  BY DEF Ask
<1>2. n \in Nat /\ DOMAIN chain = 1 .. n
  BY LenProperties
<1>3. /\ chain' \in Seq(Selectors)
      /\ DOMAIN chain' = 1 .. n + 1
      /\ chain'[n + 1] = r
      /\ \A i \in 1 .. n : chain'[i] = chain[i]
  BY <1>1, <1>2
<1>4. \A i \in 1 .. n : chain[i] # r
  BY <1>1, <1>2 DEF SelectionIsExclusive
<1>5. ASSUME NEW q \in Selectors, selPc'[q] \in {"deciding", "resolving"}
      PROVE  q = Head(chain')
  <2>1. q # r /\ selPc[q] \in {"deciding", "resolving"}
    BY <1>1, <1>5
  <2>2. n \in Nat \ {0}
    BY <2>1, ChainHasWaiters
  <2>3. Head(chain') = chain'[1] /\ Head(chain) = chain[1]
    BY <1>2, <1>3
  <2> QED
    BY <1>3, <2>1, <2>2, <2>3 DEF SelectionIsExclusive
<1>6. \A i, j \in DOMAIN chain' : chain'[i] = chain'[j] => i = j
  BY <1>2, <1>3, <1>4 DEF SelectionIsExclusive
<1>7. ASSUME NEW q \in Selectors
      PROVE  (\E i \in DOMAIN chain' : chain'[i] = q)
               <=> selPc'[q] \in {"queued", "deciding", "resolving"}
  <2>1. CASE q = r
    BY <1>1, <1>2, <1>3, <2>1
  <2>2. CASE q # r
    <3>1. (\E i \in DOMAIN chain' : chain'[i] = q) <=> (\E i \in DOMAIN chain : chain[i] = q)
      BY <1>2, <1>3, <2>2
    <3> QED
      BY <1>1, <2>2, <3>1 DEF SelectionIsExclusive
  <2> QED
    BY <2>1, <2>2
<1>8. ChainTypeOK'
  BY <1>1, <1>3
<1> QED
  BY <1>5, <1>6, <1>7, <1>8 DEF SelectionIsExclusive

\* The first of the chain leaves, and nobody else was past its promise.
LEMMA LeavingKeepsChain ==
    ASSUME ChainInvariant, NEW r \in Selectors,
           selPc[r] # "idle", r = Head(chain),
           chain' = Tail(chain), selPc' = [selPc EXCEPT ![r] = "idle"]
    PROVE  ChainInvariant'
<1> USE DEF ChainInvariant, ChainTypeOK
<1> DEFINE n == Len(chain)
<1>1. n \in Nat \ {0} /\ DOMAIN chain = 1 .. n /\ chain # <<>>
  BY ChainHasWaiters, LenProperties
<1>2. /\ chain' \in Seq(Selectors)
      /\ DOMAIN chain' = 1 .. n - 1
      /\ \A i \in 1 .. n - 1 : chain'[i] = chain[i + 1]
      /\ chain[1] = r
  BY <1>1
<1>3. \A q \in Selectors : selPc'[q] \notin {"deciding", "resolving"}
  BY DEF SelectionIsExclusive
<1>4. \A i, j \in DOMAIN chain' : chain'[i] = chain'[j] => i = j
  BY <1>1, <1>2 DEF SelectionIsExclusive
<1>5. ASSUME NEW q \in Selectors
      PROVE  (\E i \in DOMAIN chain' : chain'[i] = q)
               <=> selPc'[q] \in {"queued", "deciding", "resolving"}
  <2>1. CASE q = r
    <3>1. \A i \in 1 .. n - 1 : chain'[i] # r
      BY <1>1, <1>2 DEF SelectionIsExclusive
    <3> QED
      BY <1>2, <2>1, <3>1
  <2>2. CASE q # r
    <3>1. (\E i \in DOMAIN chain : chain[i] = q) => \E i \in DOMAIN chain' : chain'[i] = q
      <4> SUFFICES ASSUME NEW i \in 1 .. n, chain[i] = q
                   PROVE  \E j \in DOMAIN chain' : chain'[j] = q
        BY <1>1
      <4>1. i # 1
        BY <1>2, <2>2
      <4>2. i - 1 \in 1 .. n - 1 /\ (i - 1) + 1 = i
        BY <1>1, <4>1
      <4>3. chain'[i - 1] = q
        BY <1>2, <4>2
      <4> QED
        BY <1>2, <4>2, <4>3
    <3>2. (\E i \in DOMAIN chain' : chain'[i] = q) => \E i \in DOMAIN chain : chain[i] = q
      BY <1>1, <1>2
    <3> QED
      BY <2>2, <3>1, <3>2 DEF SelectionIsExclusive
  <2> QED
    BY <2>1, <2>2
<1>6. ChainTypeOK'
  BY <1>2
<1> QED
  BY <1>3, <1>4, <1>5, <1>6 DEF SelectionIsExclusive

\* The first of the chain goes on without leaving.
LEMMA StayingKeepsChain ==
    ASSUME ChainInvariant, NEW r \in Selectors, NEW pc \in {"deciding", "resolving"},
           selPc[r] # "idle", r = Head(chain),
           UNCHANGED chain, selPc' = [selPc EXCEPT ![r] = pc]
    PROVE  ChainInvariant'
<1> USE DEF ChainInvariant, ChainTypeOK
<1>1. \A q \in Selectors : selPc'[q] \in {"queued", "deciding", "resolving"}
                             <=> selPc[q] \in {"queued", "deciding", "resolving"}
  OBVIOUS
<1> QED
  BY <1>1 DEF SelectionIsExclusive

LEMMA StepsKeepChain == ChainInvariant /\ [SelectionNext]_selectionVars => ChainInvariant'
<1> SUFFICES ASSUME ChainInvariant, [SelectionNext]_selectionVars
             PROVE  ChainInvariant'
  OBVIOUS
<1>1. ASSUME NEW r \in Selectors, Ask(r)
      PROVE  ChainInvariant'
  BY <1>1, AskKeepsChain
<1>2. ASSUME NEW r \in Selectors, NEW free \in SUBSET Accounts, Read(r, free)
      PROVE  ChainInvariant'
  BY <1>2, LeavingKeepsChain, StayingKeepsChain DEF Read
<1>3. ASSUME NEW r \in Selectors, Decide(r)
      PROVE  ChainInvariant'
  <2>1. selPc[r] = "deciding" /\ r = Head(chain)
    BY <1>3 DEF Decide, ChainInvariant, SelectionIsExclusive
  <2> QED
    BY <1>3, <2>1, StayingKeepsChain DEF Decide
<1>4. ASSUME NEW r \in Selectors, Return(r)
      PROVE  ChainInvariant'
  <2>1. selPc[r] = "resolving" /\ r = Head(chain)
    BY <1>4 DEF Return, ChainInvariant, SelectionIsExclusive
  <2> QED
    BY <1>4, <2>1, LeavingKeepsChain DEF Return
<1>5. CASE UNCHANGED selectionVars
  BY <1>5 DEF selectionVars, ChainInvariant, ChainTypeOK, SelectionIsExclusive
<1> QED
  BY <1>1, <1>2, <1>3, <1>4, <1>5 DEF SelectionNext, Proceed

\* The promise chain of auth.js is a mutex: of any number of requests, one at most is
\* between its read of the records and its write, and it is the first of the chain.
THEOREM SelectionIsAMutex == SelectionSpec => []SelectionIsExclusive
<1>1. SelectionInit => ChainInvariant
  BY EmptySeq DEF SelectionInit, ChainInvariant, ChainTypeOK, SelectionIsExclusive
<1>2. ChainInvariant => SelectionIsExclusive
  BY DEF ChainInvariant
<1> QED
  BY <1>1, <1>2, StepsKeepChain, PTL DEF SelectionSpec
-----------------------------------------------------------------------------
(* The turns of the watched account *)

\* Accounts that may be chosen before the watched one because they are older.
GoesFirst(c) ==
    \/ lastUsedAt[c] < lastUsedAt[Watched]
    \/ lastUsedAt[c] = lastUsedAt[Watched] /\ c < Watched

\* Uses that may still come before the watched account's: of an account that goes
\* first StickyLimit, of any other what is left of its run.
UsesBefore ==
    {u \in (Accounts \ {Watched}) \X (1 .. StickyLimit) : GoesFirst(u[1]) \/ useCount[u[1]] < u[2]}

\* Read and Decide see the same records, for the mutex is held in between.
ReadsAreFresh ==
    \A r \in Selectors : selPc[r] = "deciding" =>
        seen[r].free # {} /\ seen[r].used = lastUsedAt /\ seen[r].count = useCount

Snapshots ==
    [free : SUBSET Accounts, used : [Accounts -> 0 .. NumAccounts],
     count : [Accounts -> 0 .. StickyLimit]]

UsageTypeOK ==
    /\ lastUsedAt \in [Accounts -> 0 .. NumAccounts]
    /\ useCount \in [Accounts -> 0 .. StickyLimit]
    /\ seen \in [Selectors -> Snapshots]
    /\ overtaken \in Nat

UsageInvariant ==
    /\ ChainInvariant
    /\ UsageTypeOK
    /\ ReadsAreFresh
    /\ overtaken + Cardinality(UsesBefore) <= (NumAccounts - 1) * StickyLimit

LEMMA UsesAreFew ==
    ASSUME NEW U \in SUBSET ((Accounts \ {Watched}) \X (1 .. StickyLimit))
    PROVE  /\ IsFiniteSet(U)
           /\ Cardinality(U) \in Nat
           /\ Cardinality(U) <= (NumAccounts - 1) * StickyLimit
<1> DEFINE All == (Accounts \ {Watched}) \X (1 .. StickyLimit)
<1>1. IsFiniteSet(Accounts) /\ Cardinality(Accounts) = NumAccounts
  BY SelectionAssumption, FS_Interval DEF Accounts
<1>2. IsFiniteSet(Accounts \ {Watched}) /\ Cardinality(Accounts \ {Watched}) = NumAccounts - 1
  BY <1>1, SelectionAssumption, FS_RemoveElement
<1>3. IsFiniteSet(1 .. StickyLimit) /\ Cardinality(1 .. StickyLimit) = StickyLimit
  BY SelectionAssumption, FS_Interval
<1>4. IsFiniteSet(All) /\ Cardinality(All) = (NumAccounts - 1) * StickyLimit
  <2> DEFINE A == Accounts \ {Watched}
             B == 1 .. StickyLimit
  <2>1. IsFiniteSet(A) /\ IsFiniteSet(B) /\ Cardinality(A) = NumAccounts - 1 /\ Cardinality(B) = StickyLimit
    BY <1>2, <1>3
  <2> HIDE DEF A, B
  <2>2. IsFiniteSet(A \X B) /\ Cardinality(A \X B) = Cardinality(A) * Cardinality(B)
    BY <2>1, FS_Product
  <2> QED
    BY <2>1, <2>2 DEF A, B
<1>5. IsFiniteSet(U) /\ Cardinality(U) <= Cardinality(All)
  BY <1>4, FS_Subset
<1> QED
  BY <1>4, <1>5, FS_CardinalityType

\* A record that was stamped keeps the others in order and is the latest.
LEMMA RanksKeepOrder ==
    ASSUME NEW times \in [Accounts -> Nat]
    PROVE  LET rank == [d \in Accounts |->
                 Cardinality({times[e] : e \in {e \in Accounts : 0 < times[e] /\ times[e] <= times[d]}})]
           IN  /\ rank \in [Accounts -> 0 .. NumAccounts]
               /\ \A d, e \in Accounts : rank[d] < rank[e] <=> times[d] < times[e]
<1> DEFINE Sources(d) == {e \in Accounts : 0 < times[e] /\ times[e] <= times[d]}
           Values(d) == {times[e] : e \in Sources(d)}
           rank == [d \in Accounts |-> Cardinality(Values(d))]
<1>1. IsFiniteSet(Accounts) /\ Cardinality(Accounts) = NumAccounts
  BY SelectionAssumption, FS_Interval DEF Accounts
<1>2. ASSUME NEW d \in Accounts
      PROVE  IsFiniteSet(Values(d)) /\ Cardinality(Values(d)) \in 0 .. NumAccounts
  <2>1. IsFiniteSet(Sources(d)) /\ Cardinality(Sources(d)) <= NumAccounts
    BY <1>1, FS_Subset
  <2>2. Cardinality(Sources(d)) \in Nat
    BY <2>1, FS_CardinalityType
  <2> HIDE DEF Sources
  <2>3. IsFiniteSet(Values(d)) /\ Cardinality(Values(d)) <= Cardinality(Sources(d))
    BY <2>1, ValuesAreFew
  <2>4. Cardinality(Values(d)) \in Nat
    BY <2>3, FS_CardinalityType
  <2> QED
    BY <2>1, <2>2, <2>3, <2>4, SelectionAssumption
<1>3. ASSUME NEW d \in Accounts, NEW e \in Accounts, times[d] <= times[e]
      PROVE  Cardinality(Values(d)) <= Cardinality(Values(e))
  <2>1. Values(d) \in SUBSET Values(e)
    BY <1>3
  <2> QED
    BY <1>2, <2>1, FS_Subset
<1>4. ASSUME NEW d \in Accounts, NEW e \in Accounts, times[d] < times[e]
      PROVE  Cardinality(Values(d)) < Cardinality(Values(e))
  <2>1. Values(d) \in SUBSET Values(e)
    BY <1>4
  <2>2. times[e] \in Values(e) /\ times[e] \notin Values(d)
    BY <1>4
  <2>3. IsFiniteSet(Values(e))
    BY <1>2
  <2> HIDE DEF Values
  <2>4. /\ Cardinality(Values(d)) \in Nat
        /\ Cardinality(Values(e)) \in Nat
        /\ Cardinality(Values(d)) + 1 <= Cardinality(Values(e))
    BY <2>1, <2>2, <2>3, FewerElements
  <2> QED
    BY <2>4
<1>5. \A d \in Accounts : rank[d] = Cardinality(Values(d)) /\ times[d] \in Nat
  OBVIOUS
<1>6. rank \in [Accounts -> 0 .. NumAccounts]
  BY <1>2
<1> HIDE DEF Values, rank
<1>7. ASSUME NEW d \in Accounts, NEW e \in Accounts
      PROVE  rank[d] < rank[e] <=> times[d] < times[e]
  <2>1. rank[d] \in Nat /\ rank[e] \in Nat /\ rank[d] = Cardinality(Values(d))
          /\ rank[e] = Cardinality(Values(e))
    BY <1>5, <1>6
  <2>2. CASE times[d] < times[e]
    BY <1>4, <2>1, <2>2
  <2>3. CASE ~(times[d] < times[e])
    <3>1. times[e] <= times[d]
      BY <1>5, <2>3
    <3>2. rank[e] <= rank[d]
      BY <1>3, <2>1, <3>1
    <3> QED
      BY <2>1, <2>3, <3>2
  <2> QED
    BY <2>2, <2>3
<1> QED
  BY <1>6, <1>7 DEF rank, Values

LEMMA StampedIsLatest ==
    ASSUME NEW used \in [Accounts -> 0 .. NumAccounts], NEW c \in Accounts,
           NEW sameMillisecond \in BOOLEAN
    PROVE  LET new == Stamped(used, c, sameMillisecond)
           IN  /\ new \in [Accounts -> 0 .. NumAccounts]
               /\ \A d, e \in Accounts \ {c} : new[d] < new[e] <=> used[d] < used[e]
               /\ \A d \in Accounts \ {c} : /\ new[d] <= new[c]
                                            /\ used[d] < used[c] => new[d] < new[c]
                                            /\ ~sameMillisecond => new[d] < new[c]
<1> DEFINE T == {used[d] : d \in Accounts}
           newest == CHOOSE t \in 0 .. NumAccounts :
                         /\ \E d \in Accounts : used[d] = t
                         /\ \A d \in Accounts : used[d] <= t
           stamp == IF sameMillisecond THEN newest ELSE newest + 1
           times == [used EXCEPT ![c] = stamp]
           new == Stamped(used, c, sameMillisecond)
<1>1. \E t \in 0 .. NumAccounts :
          /\ \E d \in Accounts : used[d] = t
          /\ \A d \in Accounts : used[d] <= t
  <2>1. T \in SUBSET (0 .. NumAccounts) /\ T # {}
    OBVIOUS
  <2>2. PICK t \in T : \A n \in T : n <= t
    BY <2>1, GreatestNumber, SelectionAssumption
  <2> QED
    BY <2>1, <2>2
<1>2. newest \in 0 .. NumAccounts /\ \A d \in Accounts : used[d] <= newest
  <2> HIDE DEF newest
  <2> QED
    BY <1>1 DEF newest
<1> HIDE DEF newest
<1>3. stamp \in Nat /\ newest <= stamp /\ (~sameMillisecond => newest < stamp)
  BY <1>2
<1> HIDE DEF stamp
<1>4. times \in [Accounts -> Nat] /\ times[c] = stamp /\ \A d \in Accounts \ {c} : times[d] = used[d]
  BY <1>3
<1> HIDE DEF times
<1>5. new = [d \in Accounts |->
               Cardinality({times[e] : e \in {e \in Accounts : 0 < times[e] /\ times[e] <= times[d]}})]
  BY DEF Stamped, times, stamp, newest
<1> HIDE DEF new
<1>6. /\ new \in [Accounts -> 0 .. NumAccounts]
      /\ \A d, e \in Accounts : new[d] < new[e] <=> times[d] < times[e]
  BY <1>4, <1>5, RanksKeepOrder
<1>7. \A d \in Accounts : used[d] \in Nat /\ new[d] \in Nat /\ used[d] <= newest
  BY <1>2, <1>6
<1>8. \A d, e \in Accounts \ {c} : new[d] < new[e] <=> used[d] < used[e]
  BY <1>4, <1>6
<1>9. ASSUME NEW d \in Accounts \ {c}
      PROVE  /\ new[d] <= new[c]
             /\ used[d] < used[c] => new[d] < new[c]
             /\ ~sameMillisecond => new[d] < new[c]
  <2>1. times[d] = used[d] /\ times[c] = stamp /\ newest \in Nat
    BY <1>2, <1>4
  <2>2. ~(times[c] < times[d])
    BY <1>3, <1>7, <2>1
  <2>3. used[d] < used[c] => times[d] < times[c]
    BY <1>3, <1>7, <2>1
  <2>4. ~sameMillisecond => times[d] < times[c]
    BY <1>3, <1>7, <2>1
  <2> QED
    BY <1>6, <1>7, <2>2, <2>3, <2>4
<1> QED
  BY <1>6, <1>8, <1>9 DEF new

\* In any set of accounts there is a latest and an earliest used one.
LEMMA ChoicesAreThere ==
    ASSUME NEW s \in Snapshots, s.free # {}
    PROVE  /\ MostRecent(s) \in s.free
           /\ \A d \in s.free :
                 s.used[d] < s.used[MostRecent(s)]
                   \/ (s.used[d] = s.used[MostRecent(s)] /\ MostRecent(s) <= d)
           /\ LeastRecent(s) \in s.free
           /\ \A d \in s.free :
                 s.used[LeastRecent(s)] < s.used[d]
                   \/ (s.used[d] = s.used[LeastRecent(s)] /\ LeastRecent(s) <= d)
<1> DEFINE T == {s.used[d] : d \in s.free}
<1>1. s.free \in SUBSET Accounts /\ s.used \in [Accounts -> 0 .. NumAccounts]
  BY DEF Snapshots
<1>2. s.free \in SUBSET Nat /\ T \in SUBSET (0 .. NumAccounts) /\ T \in SUBSET Nat /\ T # {}
  <2>1. Accounts \in SUBSET Nat
    BY SelectionAssumption DEF Accounts
  <2>2. \A d \in s.free : s.used[d] \in 0 .. NumAccounts
    BY <1>1
  <2>3. 0 .. NumAccounts \in SUBSET Nat
    BY SelectionAssumption
  <2> QED
    BY <1>1, <2>1, <2>2, <2>3
<1>3. \A t \in T : \E c \in s.free : s.used[c] = t /\ \A d \in s.free : s.used[d] = t => c <= d
  <2> SUFFICES ASSUME NEW t \in T
               PROVE  \E c \in s.free : s.used[c] = t /\ \A d \in s.free : s.used[d] = t => c <= d
    OBVIOUS
  <2> DEFINE S == {d \in s.free : s.used[d] = t}
  <2>1. S \in SUBSET Nat /\ S # {}
    BY <1>2
  <2>2. PICK c \in S : \A d \in S : c <= d
    BY <2>1, LeastNumber
  <2> QED
    BY <2>2
<1>4. \E c \in s.free : \A d \in s.free :
          s.used[d] < s.used[c] \/ (s.used[d] = s.used[c] /\ c <= d)
  <2>1. PICK t \in T : \A u \in T : u <= t
    BY <1>2, GreatestNumber, SelectionAssumption
  <2>2. PICK c \in s.free : s.used[c] = t /\ \A d \in s.free : s.used[d] = t => c <= d
    BY <1>3
  <2>3. \A d \in s.free : s.used[d] \in Nat /\ t \in Nat /\ s.used[d] <= t
    BY <1>2, <2>1
  <2> HIDE DEF T
  <2>4. \A d \in s.free : s.used[d] < t \/ s.used[d] = t
    BY <2>3
  <2> QED
    BY <2>2, <2>4
<1>5. \E c \in s.free : \A d \in s.free :
          s.used[c] < s.used[d] \/ (s.used[d] = s.used[c] /\ c <= d)
  <2>1. PICK t \in T : \A u \in T : t <= u
    BY <1>2, LeastNumber
  <2>2. PICK c \in s.free : s.used[c] = t /\ \A d \in s.free : s.used[d] = t => c <= d
    BY <1>3
  <2>3. \A d \in s.free : s.used[d] \in Nat /\ t \in Nat /\ t <= s.used[d]
    BY <1>2, <2>1
  <2>4. \A d \in s.free : t < s.used[d] \/ s.used[d] = t
    BY <2>3
  <2> QED
    BY <2>2, <2>4
<1> QED
  BY <1>4, <1>5 DEF MostRecent, LeastRecent

\* A choice by rotation uses up one of the uses that may come before the watched
\* account's, unless it is that account or the account was not free.
LEMMA RotationUsesTurns ==
    ASSUME UsageInvariant, NEW r \in Selectors, selPc[r] = "deciding",
           NEW sameMillisecond \in BOOLEAN, Rotate(r, sameMillisecond)
    PROVE  /\ lastUsedAt' \in [Accounts -> 0 .. NumAccounts]
           /\ useCount' \in [Accounts -> 0 .. StickyLimit]
           /\ overtaken' \in Nat
           /\ overtaken' + Cardinality(UsesBefore') <= (NumAccounts - 1) * StickyLimit
<1>a. PICK s : s = seen[r]
  OBVIOUS
<1>b. PICK c : c = RoundRobinChoice(s)
  OBVIOUS
<1> DEFINE All == (Accounts \ {Watched}) \X (1 .. StickyLimit)
<1>1. /\ s \in Snapshots
      /\ s.free # {}
      /\ s.used = lastUsedAt
      /\ s.count = useCount
      /\ lastUsedAt \in [Accounts -> 0 .. NumAccounts]
      /\ useCount \in [Accounts -> 0 .. StickyLimit]
      /\ overtaken \in Nat
  BY <1>a DEF UsageInvariant, UsageTypeOK, ReadsAreFresh
<1>2. c \in s.free /\ s.free \in SUBSET Accounts
  BY <1>1, <1>b, ChoicesAreThere DEF RoundRobinChoice, Snapshots
<1>3. /\ lastUsedAt' = Stamped(lastUsedAt, c, sameMillisecond)
      /\ useCount' = [useCount EXCEPT ![c] = IF Stays(s) THEN s.count[c] + 1 ELSE 1]
      /\ overtaken' = IF c = Watched \/ Watched \notin s.free THEN 0
                      ELSE IF sameMillisecond THEN overtaken ELSE overtaken + 1
  BY <1>a, <1>b DEF Rotate
<1>4. Stays(s) => c = MostRecent(s) /\ useCount[c] < StickyLimit
  BY <1>1, <1>b DEF Stays, RoundRobinChoice
<1>5. ~Stays(s) => c = LeastRecent(s)
  BY <1>b DEF RoundRobinChoice
<1>6. c \in Accounts /\ NumAccounts \in Nat \ {0} /\ StickyLimit \in Nat \ {0} /\ Watched \in Accounts
  BY <1>2, SelectionAssumption
<1>7. /\ lastUsedAt' \in [Accounts -> 0 .. NumAccounts]
      /\ \A d, e \in Accounts \ {c} : lastUsedAt'[d] < lastUsedAt'[e] <=> lastUsedAt[d] < lastUsedAt[e]
      /\ \A d \in Accounts \ {c} :
            /\ lastUsedAt'[d] <= lastUsedAt'[c]
            /\ lastUsedAt[d] < lastUsedAt[c] => lastUsedAt'[d] < lastUsedAt'[c]
            /\ ~sameMillisecond => lastUsedAt'[d] < lastUsedAt'[c]
  BY <1>1, <1>3, <1>6, StampedIsLatest
<1>8. /\ useCount' \in [Accounts -> 0 .. StickyLimit]
      /\ useCount'[c] = IF Stays(s) THEN useCount[c] + 1 ELSE 1
      /\ \A d \in Accounts \ {c} : useCount'[d] = useCount[d]
  BY <1>1, <1>3, <1>4, <1>6
<1>9. \A d \in Accounts : /\ lastUsedAt[d] \in Nat /\ lastUsedAt'[d] \in Nat
                         /\ useCount[d] \in Nat /\ useCount'[d] \in Nat /\ d \in Nat
  BY <1>1, <1>7, <1>8 DEF Accounts
<1>10. UsesBefore \in SUBSET All /\ UsesBefore' \in SUBSET All
  BY DEF UsesBefore
<1>11. CASE c = Watched \/ Watched \notin s.free
  <2>1. overtaken' = 0
    BY <1>3, <1>11
  <2>2. Cardinality(UsesBefore') \in Nat /\ Cardinality(UsesBefore') <= (NumAccounts - 1) * StickyLimit
    BY <1>10, UsesAreFew
  <2> QED
    BY <1>7, <1>8, <2>1, <2>2
<1>12. CASE c # Watched /\ Watched \in s.free
  <2>1. Watched \in Accounts \ {c}
    BY <1>6, <1>12
  <2>2. ~Stays(s) => GoesFirst(c)
    <3> SUFFICES ASSUME ~Stays(s)
                 PROVE  GoesFirst(c)
      OBVIOUS
    <3>1. lastUsedAt[c] < lastUsedAt[Watched] \/ (lastUsedAt[Watched] = lastUsedAt[c] /\ c <= Watched)
      BY <1>1, <1>5, <1>12, ChoicesAreThere
    <3> QED
      BY <1>6, <1>9, <1>12, <3>1 DEF GoesFirst
  <2>3. GoesFirst(c)' => sameMillisecond /\ GoesFirst(c)
    <3> SUFFICES ASSUME GoesFirst(c)'
                 PROVE  sameMillisecond /\ GoesFirst(c)
      OBVIOUS
    <3>1. lastUsedAt'[c] = lastUsedAt'[Watched] /\ c < Watched
      BY <1>6, <1>7, <1>9, <2>1 DEF GoesFirst
    <3>2. sameMillisecond
      BY <1>6, <1>7, <1>9, <2>1, <3>1
    <3>3. ~(lastUsedAt[Watched] < lastUsedAt[c])
      BY <1>6, <1>7, <1>9, <2>1, <3>1
    <3> QED
      BY <1>6, <1>9, <3>1, <3>2, <3>3 DEF GoesFirst
  <2>4. ASSUME NEW d \in Accounts \ {c, Watched}
        PROVE  GoesFirst(d)' <=> GoesFirst(d)
    <3>1. /\ lastUsedAt'[d] < lastUsedAt'[Watched] <=> lastUsedAt[d] < lastUsedAt[Watched]
          /\ lastUsedAt'[Watched] < lastUsedAt'[d] <=> lastUsedAt[Watched] < lastUsedAt[d]
      BY <1>7, <2>1
    <3>2. lastUsedAt'[d] = lastUsedAt'[Watched] <=> lastUsedAt[d] = lastUsedAt[Watched]
      BY <1>6, <1>9, <3>1
    <3> QED
      BY <3>1, <3>2 DEF GoesFirst
  <2>5. UsesBefore' \in SUBSET UsesBefore
    <3> SUFFICES ASSUME NEW d \in Accounts \ {Watched}, NEW k \in 1 .. StickyLimit,
                        GoesFirst(d)' \/ useCount'[d] < k
                 PROVE  GoesFirst(d) \/ useCount[d] < k
      BY DEF UsesBefore, GoesFirst
    <3>1. CASE d = c
      BY <1>6, <1>8, <1>9, <2>2, <2>3, <3>1
    <3>2. CASE d # c
      BY <1>8, <2>4, <3>2
    <3> QED
      BY <3>1, <3>2
  <2>6. Cardinality(UsesBefore) \in Nat /\ Cardinality(UsesBefore') \in Nat /\ IsFiniteSet(UsesBefore)
    BY <1>10, UsesAreFew
  <2>7. overtaken + Cardinality(UsesBefore) <= (NumAccounts - 1) * StickyLimit
    BY DEF UsageInvariant
  <2>8. (NumAccounts - 1) * StickyLimit \in Nat
    <3> DEFINE k == NumAccounts - 1
    <3>1. k \in Nat
      BY <1>6
    <3> HIDE DEF k
    <3>2. k * StickyLimit \in Nat
      BY <1>6, <3>1
    <3> QED
      BY <3>2 DEF k
  <2>9. CASE sameMillisecond
    <3>1. overtaken' = overtaken
      BY <1>3, <1>12, <2>9
    <3>2. Cardinality(UsesBefore') <= Cardinality(UsesBefore)
      BY <2>5, <2>6, FS_Subset
    <3> QED
      BY <1>1, <1>7, <1>8, <2>6, <2>7, <2>8, <3>1, <3>2
  <2>10. CASE ~sameMillisecond
    <3> DEFINE u == <<c, IF Stays(s) THEN useCount[c] + 1 ELSE 1>>
    <3>1. overtaken' = overtaken + 1
      BY <1>3, <1>12, <2>10
    <3>2. u \in All /\ u[1] = c /\ u[2] = useCount'[c]
      BY <1>4, <1>6, <1>8, <1>9, <1>12
    <3>3. u \in UsesBefore
      BY <1>8, <1>9, <1>6, <2>2, <3>2 DEF UsesBefore
    <3>4. u \notin UsesBefore'
      <4>1. ~GoesFirst(c)' /\ ~(useCount'[c] < useCount'[c])
        BY <1>6, <1>9, <2>3, <2>10
      <4> HIDE DEF u
      <4> QED
        BY <3>2, <4>1 DEF UsesBefore, GoesFirst
    <3> HIDE DEF u
    <3>5. Cardinality(UsesBefore') + 1 <= Cardinality(UsesBefore)
      BY <2>5, <2>6, <3>3, <3>4, FewerElements
    <3> QED
      BY <1>1, <1>7, <1>8, <2>6, <2>7, <2>8, <3>1, <3>5
  <2> QED
    BY <2>9, <2>10
<1> QED
  BY <1>11, <1>12

LEMMA StepsKeepUsage == UsageInvariant /\ [SelectionNext]_selectionVars => UsageInvariant'
<1> SUFFICES ASSUME UsageInvariant, [SelectionNext]_selectionVars
             PROVE  UsageInvariant'
  OBVIOUS
<1>1. ChainInvariant /\ ChainInvariant'
  BY StepsKeepChain DEF UsageInvariant
<1>2. \A r \in Selectors : selPc[r] \in {"idle", "queued", "deciding", "resolving"}
  BY <1>1 DEF ChainInvariant, ChainTypeOK
<1>3. ASSUME NEW r \in Selectors, NEW free \in SUBSET Accounts, Read(r, free)
      PROVE  UsageInvariant'
  <2> DEFINE snapshot == [free |-> free, used |-> lastUsedAt, count |-> useCount]
  <2>1. snapshot \in Snapshots
    BY DEF Snapshots, UsageInvariant, UsageTypeOK
  <2>2. CASE free = {}
    BY <1>1, <1>3, <2>2
       DEF Read, UsageInvariant, UsageTypeOK, ReadsAreFresh, UsesBefore, GoesFirst, ChainInvariant, ChainTypeOK
  <2>3. CASE free # {}
    <3>1. /\ seen' = [seen EXCEPT ![r] = snapshot]
          /\ selPc' = [selPc EXCEPT ![r] = "deciding"]
          /\ UNCHANGED <<lastUsedAt, useCount, overtaken>>
      BY <1>3, <2>3 DEF Read
    <3>2. UsageTypeOK'
      BY <2>1, <3>1 DEF UsageInvariant, UsageTypeOK
    <3>3. ReadsAreFresh'
      BY <2>3, <3>1 DEF UsageInvariant, UsageTypeOK, ReadsAreFresh, ChainInvariant, ChainTypeOK
    <3>4. UsesBefore' = UsesBefore
      BY <3>1 DEF UsesBefore, GoesFirst
    <3> QED
      BY <1>1, <3>1, <3>2, <3>3, <3>4 DEF UsageInvariant
  <2> QED
    BY <2>2, <2>3
<1>4. ASSUME NEW r \in Selectors, Decide(r)
      PROVE  UsageInvariant'
  <2>1. /\ selPc[r] = "deciding"
        /\ selPc' = [selPc EXCEPT ![r] = "resolving"]
        /\ seen' = [seen EXCEPT ![r] = NothingSeen]
    BY <1>4 DEF Decide
  <2>2. seen' \in [Selectors -> Snapshots]
    <3>1. NothingSeen \in Snapshots
      BY SelectionAssumption DEF NothingSeen, Snapshots
    <3> QED
      BY <2>1, <3>1 DEF UsageInvariant, UsageTypeOK
  <2>3. ReadsAreFresh'
    <3>1. \A q \in Selectors \ {r} : selPc[q] # "deciding"
      BY <1>1, <2>1 DEF ChainInvariant, SelectionIsExclusive
    <3> QED
      BY <1>1, <2>1, <3>1 DEF ReadsAreFresh, ChainInvariant, ChainTypeOK
  <2>4. CASE \E sameMillisecond \in BOOLEAN : Rotate(r, sameMillisecond)
    <3>1. /\ lastUsedAt' \in [Accounts -> 0 .. NumAccounts]
          /\ useCount' \in [Accounts -> 0 .. StickyLimit]
          /\ overtaken' \in Nat
          /\ overtaken' + Cardinality(UsesBefore') <= (NumAccounts - 1) * StickyLimit
      BY <2>1, <2>4, RotationUsesTurns
    <3> QED
      BY <1>1, <2>2, <2>3, <3>1 DEF UsageInvariant, UsageTypeOK
  <2>5. CASE \E c \in Accounts : Pick(r, c)
    <3>1. UNCHANGED <<lastUsedAt, useCount, overtaken>>
      BY <2>5 DEF Pick
    <3>2. UsesBefore' = UsesBefore
      BY <3>1 DEF UsesBefore, GoesFirst
    <3> QED
      BY <1>1, <2>2, <2>3, <3>1, <3>2 DEF UsageInvariant, UsageTypeOK
  <2> QED
    BY <1>4, <2>4, <2>5 DEF Decide
<1>5. ASSUME NEW r \in Selectors, Ask(r) \/ Return(r)
      PROVE  UsageInvariant'
  <2>1. /\ UNCHANGED <<lastUsedAt, useCount, seen, overtaken>>
        /\ \A q \in Selectors : selPc'[q] = "deciding" => selPc[q] = "deciding"
    BY <1>1, <1>5 DEF Ask, Return, ChainInvariant, ChainTypeOK
  <2>2. UsesBefore' = UsesBefore
    BY <2>1 DEF UsesBefore, GoesFirst
  <2>3. ReadsAreFresh'
    BY <2>1 DEF UsageInvariant, ReadsAreFresh
  <2> QED
    BY <1>1, <2>1, <2>2, <2>3 DEF UsageInvariant, UsageTypeOK
<1>6. CASE UNCHANGED selectionVars
  BY <1>1, <1>6 DEF selectionVars, UsageInvariant, UsageTypeOK, ReadsAreFresh, UsesBefore, GoesFirst
<1> QED
  BY <1>3, <1>4, <1>5, <1>6 DEF SelectionNext, Proceed

LEMMA UsageStarts == SelectionInit => UsageInvariant
<1> SUFFICES ASSUME SelectionInit
             PROVE  UsageInvariant
  OBVIOUS
<1>1. ChainInvariant
  BY EmptySeq DEF SelectionInit, ChainInvariant, ChainTypeOK, SelectionIsExclusive
<1>2. NothingSeen \in Snapshots
  BY SelectionAssumption DEF NothingSeen, Snapshots
<1>3. UsageTypeOK /\ ReadsAreFresh
  BY <1>2, SelectionAssumption DEF SelectionInit, UsageTypeOK, ReadsAreFresh
<1>4. UsesBefore \in SUBSET ((Accounts \ {Watched}) \X (1 .. StickyLimit))
  BY DEF UsesBefore
<1>5. Cardinality(UsesBefore) \in Nat /\ Cardinality(UsesBefore) <= (NumAccounts - 1) * StickyLimit
  BY <1>4, UsesAreFew
<1> QED
  BY <1>1, <1>3, <1>5 DEF SelectionInit, UsageInvariant

LEMMA UsageIsFair == UsageInvariant => SelectionTypeOK /\ RotationIsFair
<1> SUFFICES ASSUME UsageInvariant
             PROVE  SelectionTypeOK /\ RotationIsFair
  OBVIOUS
<1>1. SelectionTypeOK
  BY DEF UsageInvariant, UsageTypeOK, ChainInvariant, ChainTypeOK, Snapshots, SelectionTypeOK
<1>2. UsesBefore \in SUBSET ((Accounts \ {Watched}) \X (1 .. StickyLimit))
  BY DEF UsesBefore
<1>3. Cardinality(UsesBefore) \in Nat
  BY <1>2, UsesAreFew
<1>4. (NumAccounts - 1) * StickyLimit \in Int
  <2> DEFINE k == NumAccounts - 1
  <2>1. k \in Int /\ StickyLimit \in Int
    BY SelectionAssumption
  <2> HIDE DEF k
  <2>2. k * StickyLimit \in Int
    BY <2>1
  <2> QED
    BY <2>2 DEF k
<1>5. overtaken <= (NumAccounts - 1) * StickyLimit
  BY <1>3, <1>4 DEF UsageInvariant, UsageTypeOK
<1> QED
  BY <1>1, <1>5 DEF RotationIsFair

\* Round-robin is fair: of any number of requests and accounts, none keeps an account
\* that is free waiting for more than StickyLimit uses of each other account.
THEOREM RotationFairness == SelectionSpec => [](SelectionTypeOK /\ RotationIsFair)
  BY UsageStarts, StepsKeepUsage, UsageIsFair, PTL DEF SelectionSpec
-----------------------------------------------------------------------------
(* The events of a stream *)

Clients ==
    [open : SUBSET Nat, closed : SUBSET Nat, begun : BOOLEAN, ends : 0 .. 2, failures : Nat,
     dones : Nat, faults : SUBSET Faults]

ClaudeStates ==
    [begun : BOOLEAN, thinking : Nat, text : Nat, tools : [Tools -> Nat], buffered : SUBSET Tools,
     next : Nat]

ResponsesStates ==
    [begun : BOOLEAN, added : SUBSET Nat, done : SUBSET Nat, inThinking : BOOLEAN,
     ids : SUBSET Tools, names : SUBSET Tools, completed : BOOLEAN]

Quiet(c) == c.failures = 0 /\ c.dones = 0

\* A Claude message under way: what the client has open are the blocks the translator
\* knows of, all its own; text and thinking are not open together.  No two calls have
\* a block in common, so an event of several blocks is one event for each.
ClaudeUnderWay(t, c) ==
    /\ t \in ClaudeStates
    /\ c \in Clients
    /\ c.faults = {} /\ c.ends = 0 /\ c.begun = t.begun /\ Quiet(c)
    /\ t.thinking = 0 \/ t.text = 0
    /\ \A i \in Tools : t.tools[i] # 0 =>
         /\ t.tools[i] \notin {t.thinking, t.text}
         /\ \A j \in Tools : t.tools[j] = t.tools[i] => j = i
    /\ c.open = ({t.thinking, t.text} \cup {t.tools[i] : i \in Tools}) \ {0}
    /\ c.open \cap c.closed = {}
    /\ \A b \in c.open \cup c.closed : b <= t.next

ClaudeOver(t, c) == t \in ClaudeStates /\ c \in Clients /\ c.faults = {} /\ Quiet(c)

ItemFaults == {"delta on closed", "unknown stop"}

\* A Responses stream under way: the client has open what was added and is not done.
\* Items are of the reasoning, the message and of calls whose id is known.
ResponseUnderWay(t, c) ==
    /\ t \in ResponsesStates
    /\ c \in Clients
    /\ c.faults \subseteq ItemFaults /\ c.ends = 0 /\ c.begun = t.begun /\ Quiet(c)
    /\ ~t.completed
    /\ t.done \subseteq t.added
    /\ t.added \subseteq {Reasoning, Message} \cup {ToolItem(i) : i \in t.ids}
    /\ c.open = t.added \ t.done
    /\ c.closed = t.done

ResponseOver(t, c) ==
    /\ t \in ResponsesStates
    /\ c \in Clients
    /\ c.faults \subseteq ItemFaults /\ c.ends = 1 /\ Quiet(c)
    /\ t.completed

\* The tail of a stream runs once, the pending counter is left when the stream is over
\* and the stall timer runs only before that.
StreamFlags ==
    /\ route \in Routes
    /\ finished \in BOOLEAN /\ gotDone \in BOOLEAN /\ terminalSeen \in BOOLEAN
    /\ doneSent \in BOOLEAN /\ stallArmed \in BOOLEAN
    /\ stale = FALSE
    /\ phase \in {"flowing", "flushed", "complete", "broken", "closed"}
    /\ stallArmed => phase = "flowing"

StreamCounts ==
    /\ tails \in 0 .. 1
    /\ settled \in Nat
    /\ phase = "flowing" => settled = 0
    /\ phase \in {"flushed", "complete"} => tails = 1 /\ settled = 1

StreamBooks == StreamFlags /\ StreamCounts

\* What the client of each kind of stream has been told.
ClaudeIsTold ==
    /\ ClaudeOver(translator, client)
    /\ ~finished /\ phase = "flowing" => ClaudeUnderWay(translator, client)

ResponsesIsTold ==
    /\ ResponseUnderWay(translator, client) \/ ResponseOver(translator, client)
    /\ ~finished /\ phase = "flowing" => ResponseUnderWay(translator, client)
    /\ phase \in {"flushed", "complete"} => ResponseOver(translator, client)

CodexIsTold ==
    /\ client \in Clients
    /\ phase = "flowing" /\ ~gotDone => Quiet(client)
    /\ (phase = "flowing" /\ gotDone) \/ phase \in {"flushed", "complete"} =>
         client.dones = 1 /\ client.failures = (IF finished THEN 0 ELSE 1)
    /\ client.failures <= 2 /\ client.dones <= 2
    /\ phase = "flowing" => doneSent = gotDone /\ terminalSeen = (finished \/ gotDone)
    /\ finished => tails = 1

LinesAreTold ==
    /\ client \in Clients
    /\ client.failures <= (IF phase = "broken" THEN 1 ELSE 0)
    /\ doneSent = FALSE
    /\ client.dones <= (IF gotDone THEN 1 ELSE 0) + (IF phase = "flowing" THEN 0 ELSE 1)
    /\ route = "raw" /\ finished => tails = 1

StreamInvariant ==
    /\ StreamBooks
    /\ route = "claude" => ClaudeIsTold
    /\ route = "responses" => ResponsesIsTold
    /\ route = "codex" => CodexIsTold
    /\ route \in Passthrough => LinesAreTold

Events ==
    [kind : {"begin", "start", "delta", "stop", "end", "failure", "done"}, blocks : SUBSET Nat]

\* How the client follows an event.
LEMMA ClientFollows ==
    ASSUME NEW c \in Clients, NEW e \in Events, NEW d, d = Follow(c, e)
    PROVE  /\ d.open = (IF e.kind = "start" THEN c.open \cup e.blocks
                        ELSE IF e.kind = "stop" THEN c.open \ e.blocks ELSE c.open)
           /\ d.closed = (IF e.kind = "stop" THEN c.closed \cup e.blocks ELSE c.closed)
           /\ d.begun <=> (c.begun \/ e.kind = "begin")
           /\ d.ends = (IF e.kind = "end" /\ c.ends < 2 THEN c.ends + 1 ELSE c.ends)
           /\ d.failures = (IF e.kind = "failure" THEN c.failures + 1 ELSE c.failures)
           /\ d.dones = (IF e.kind = "done" THEN c.dones + 1 ELSE c.dones)
           /\ d.faults = c.faults \cup Breaches(c, e)
           /\ d \in Clients
<1>1. /\ d.open = (IF e.kind = "start" THEN c.open \cup e.blocks
                   ELSE IF e.kind = "stop" THEN c.open \ e.blocks ELSE c.open)
      /\ d.closed = (IF e.kind = "stop" THEN c.closed \cup e.blocks ELSE c.closed)
      /\ d.ends = (IF e.kind = "end" /\ c.ends < 2 THEN c.ends + 1 ELSE c.ends)
      /\ d.failures = (IF e.kind = "failure" THEN c.failures + 1 ELSE c.failures)
      /\ d.dones = (IF e.kind = "done" THEN c.dones + 1 ELSE c.dones)
      /\ d.faults = c.faults \cup Breaches(c, e)
  BY DEF Follow
<1>2. d.begun = (c.begun \/ e.kind = "begin")
  BY DEF Follow
<1>3. Breaches(c, e) \in SUBSET Faults
  BY DEF Breaches
<1>4. d.open \in SUBSET Nat /\ d.closed \in SUBSET Nat /\ d.faults \in SUBSET Faults
  BY <1>1, <1>3 DEF Clients, Events
<1>5. d.begun \in BOOLEAN /\ d.ends \in 0 .. 2 /\ d.failures \in Nat /\ d.dones \in Nat
  <2>1. c.ends \in 0 .. 2 /\ c.failures \in Nat /\ c.dones \in Nat
    BY DEF Clients
  <2>2. d.begun \in BOOLEAN
    BY <1>2
  <2> QED
    BY <1>1, <2>1, <2>2
<1>6. d = [open |-> d.open, closed |-> d.closed, begun |-> d.begun, ends |-> d.ends,
           failures |-> d.failures, dones |-> d.dones, faults |-> d.faults]
  BY DEF Follow
<1>7. d \in Clients
  BY <1>4, <1>5, <1>6 DEF Clients
<1> QED
  BY <1>1, <1>2, <1>7

\* What an event may break before the end.
LEMMA EventBreaches ==
    ASSUME NEW c \in Clients, c.ends = 0, NEW e, NEW f \in Breaches(c, e)
    PROVE  /\ f \in Faults
           /\ f # "late"
           /\ f = "reopened"        => e.kind = "start" /\ e.blocks \cap (c.open \cup c.closed) # {}
           /\ f = "delta on closed" => e.kind = "delta" /\ ~(e.blocks \subseteq c.open)
           /\ f = "unknown stop"    => e.kind = "stop" /\ ~(e.blocks \subseteq c.open \cup c.closed)
           /\ f = "stopped twice"   => e.kind = "stop" /\ e.blocks \cap c.closed # {}
           /\ f = "open at end"     => e.kind = "end" /\ c.open # {}
           /\ f = "begun twice"     => e.kind = "begin" /\ c.begun
<1>1. f \in Faults
  BY DEF Breaches
<1>2. f # "late"
  <2>1. f = "late" => c.ends > 0
    BY DEF Breaches
  <2> QED
    BY <2>1
<1>3. f = "reopened" => e.kind = "start" /\ e.blocks \cap (c.open \cup c.closed) # {}
  BY DEF Breaches
<1>4. f = "delta on closed" => e.kind = "delta" /\ ~(e.blocks \subseteq c.open)
  BY DEF Breaches
<1>5. f = "unknown stop" => e.kind = "stop" /\ ~(e.blocks \subseteq c.open \cup c.closed)
  BY DEF Breaches
<1>6. f = "stopped twice" => e.kind = "stop" /\ e.blocks \cap c.closed # {}
  BY DEF Breaches
<1>7. f = "open at end" => e.kind = "end" /\ c.open # {}
  BY DEF Breaches
<1>8. f = "begun twice" => e.kind = "begin" /\ c.begun
  BY DEF Breaches
<1> QED
  BY <1>1, <1>2, <1>3, <1>4, <1>5, <1>6, <1>7, <1>8

\* What an event in order shows: d is the client c after it.
BeginShows(c, d) ==
    /\ d.open = c.open /\ d.closed = c.closed
    /\ d.begun = TRUE /\ d.begun \in BOOLEAN
    /\ d.ends = 0 /\ d.failures = c.failures /\ d.dones = c.dones
    /\ d.faults = c.faults

StartShows(c, d, S) ==
    /\ d.open = c.open \cup S /\ d.closed = c.closed
    /\ d.begun = c.begun /\ d.begun \in BOOLEAN
    /\ d.ends = 0 /\ d.failures = c.failures /\ d.dones = c.dones
    /\ d.faults = c.faults

DeltaShows(c, d, S) ==
    /\ d.open = c.open /\ d.closed = c.closed
    /\ d.begun = c.begun /\ d.begun \in BOOLEAN
    /\ d.ends = 0 /\ d.failures = c.failures /\ d.dones = c.dones
    /\ d.faults \subseteq c.faults \cup {"delta on closed"}
    /\ S \subseteq c.open => d.faults = c.faults

StopShows(c, d, S) ==
    /\ d.open = c.open \ S /\ d.closed = c.closed \cup S
    /\ d.begun = c.begun /\ d.begun \in BOOLEAN
    /\ d.ends = 0 /\ d.failures = c.failures /\ d.dones = c.dones
    /\ d.faults \subseteq c.faults \cup {"unknown stop"}
    /\ S \subseteq c.open => d.faults = c.faults

EndShows(c, d) ==
    /\ d.open = c.open /\ d.closed = c.closed
    /\ d.begun = c.begun /\ d.begun \in BOOLEAN
    /\ d.ends = 1 /\ d.failures = c.failures /\ d.dones = c.dones
    /\ d.faults = c.faults

\* Before the end, an event in order shows in the client and breaks nothing.
LEMMA BeginIsFollowed ==
    ASSUME NEW t, NEW c \in Clients, c.ends = 0, ~c.begun
    PROVE  \E d \in Clients :
             Emit([t |-> t, c |-> c], "begin", {}) = [t |-> t, c |-> d] /\ BeginShows(c, d)
<1>0. PICK e \in Events : e = [kind |-> "begin", blocks |-> {}] /\ e.kind = "begin" /\ e.blocks = {}
  <2>1. [kind |-> "begin", blocks |-> {}] \in Events
    BY DEF Events
  <2> QED
    BY <2>1
<1>1. PICK d : d = Follow(c, e) /\ Emit([t |-> t, c |-> c], "begin", {}) = [t |-> t, c |-> d]
  <2>1. Emit([t |-> t, c |-> c], "begin", {}) = [t |-> t, c |-> Follow(c, e)]
    BY <1>0 DEF Emit
  <2> QED
    BY <2>1
<1>2. /\ d \in Clients
      /\ d.open = c.open /\ d.closed = c.closed
      /\ d.begun = TRUE /\ d.begun \in BOOLEAN
      /\ d.ends = 0 /\ d.failures = c.failures /\ d.dones = c.dones
      /\ d.faults = c.faults \cup Breaches(c, e)
  <2>1. d \in Clients
    BY <1>0, <1>1, ClientFollows
  <2>2. c.begun \in BOOLEAN
    BY DEF Clients
  <2> QED
    BY <1>0, <1>1, <2>1, <2>2 DEF Follow
<1>3. Breaches(c, e) = {}
  <2> SUFFICES ASSUME NEW f \in Breaches(c, e)
               PROVE  FALSE
    OBVIOUS
  <2>1. f \in Faults \ {"late", "reopened", "delta on closed", "unknown stop", "stopped twice",
                      "open at end"}
    BY <1>0, <1>1, EventBreaches
  <2>2. f = "begun twice"
    BY <2>1 DEF Faults
  <2> QED
    BY <2>2, EventBreaches
<1>4. d.faults = c.faults
  BY <1>2, <1>3
<1>5. BeginShows(c, d)
  BY <1>2, <1>4 DEF BeginShows
<1> QED
  BY <1>0, <1>1, <1>2, <1>5

LEMMA StartIsFollowed ==
    ASSUME NEW t, NEW c \in Clients, c.ends = 0, NEW S \in SUBSET Nat, S \cap (c.open \cup c.closed) = {}
    PROVE  \E d \in Clients :
             Emit([t |-> t, c |-> c], "start", S) = [t |-> t, c |-> d] /\ StartShows(c, d, S)
<1>0. PICK e \in Events : e = [kind |-> "start", blocks |-> S] /\ e.kind = "start" /\ e.blocks = S
  <2>1. [kind |-> "start", blocks |-> S] \in Events
    BY DEF Events
  <2> QED
    BY <2>1
<1>1. PICK d : d = Follow(c, e) /\ Emit([t |-> t, c |-> c], "start", S) = [t |-> t, c |-> d]
  <2>1. Emit([t |-> t, c |-> c], "start", S) = [t |-> t, c |-> Follow(c, e)]
    BY <1>0 DEF Emit
  <2> QED
    BY <2>1
<1>2. /\ d \in Clients
      /\ d.open = c.open \cup S /\ d.closed = c.closed
      /\ d.begun = c.begun /\ d.begun \in BOOLEAN
      /\ d.ends = 0 /\ d.failures = c.failures /\ d.dones = c.dones
      /\ d.faults = c.faults \cup Breaches(c, e)
  <2>1. d \in Clients
    BY <1>0, <1>1, ClientFollows
  <2>2. c.begun \in BOOLEAN
    BY DEF Clients
  <2> QED
    BY <1>0, <1>1, <2>1, <2>2 DEF Follow
<1>3. Breaches(c, e) = {}
  BY <1>0, <1>1, EventBreaches DEF Faults
<1>4. d.faults = c.faults
  BY <1>2, <1>3
<1>5. StartShows(c, d, S)
  BY <1>2, <1>4 DEF StartShows
<1> QED
  BY <1>0, <1>1, <1>2, <1>5

LEMMA DeltaIsFollowed ==
    ASSUME NEW t, NEW c \in Clients, c.ends = 0, NEW S \in SUBSET Nat
    PROVE  \E d \in Clients :
             Emit([t |-> t, c |-> c], "delta", S) = [t |-> t, c |-> d] /\ DeltaShows(c, d, S)
<1>0. PICK e \in Events : e = [kind |-> "delta", blocks |-> S] /\ e.kind = "delta" /\ e.blocks = S
  <2>1. [kind |-> "delta", blocks |-> S] \in Events
    BY DEF Events
  <2> QED
    BY <2>1
<1>1. PICK d : d = Follow(c, e) /\ Emit([t |-> t, c |-> c], "delta", S) = [t |-> t, c |-> d]
  <2>1. Emit([t |-> t, c |-> c], "delta", S) = [t |-> t, c |-> Follow(c, e)]
    BY <1>0 DEF Emit
  <2> QED
    BY <2>1
<1>2. /\ d \in Clients
      /\ d.open = c.open /\ d.closed = c.closed
      /\ d.begun = c.begun /\ d.begun \in BOOLEAN
      /\ d.ends = 0 /\ d.failures = c.failures /\ d.dones = c.dones
      /\ d.faults = c.faults \cup Breaches(c, e)
  <2>1. d \in Clients
    BY <1>0, <1>1, ClientFollows
  <2>2. c.begun \in BOOLEAN
    BY DEF Clients
  <2> QED
    BY <1>0, <1>1, <2>1, <2>2 DEF Follow
<1>3. Breaches(c, e) \subseteq {"delta on closed"}
  BY <1>0, <1>1, EventBreaches DEF Faults
<1>4. S \subseteq c.open => Breaches(c, e) = {}
  BY <1>0, <1>1, <1>3, EventBreaches
<1>5. d.faults \subseteq c.faults \cup {"delta on closed"}
  BY <1>2, <1>3
<1>6. S \subseteq c.open => d.faults = c.faults
  BY <1>2, <1>4
<1>7. DeltaShows(c, d, S)
  BY <1>2, <1>5, <1>6 DEF DeltaShows
<1> QED
  BY <1>0, <1>1, <1>2, <1>7

LEMMA StopIsFollowed ==
    ASSUME NEW t, NEW c \in Clients, c.ends = 0, NEW S \in SUBSET Nat, S \cap c.closed = {}
    PROVE  \E d \in Clients :
             Emit([t |-> t, c |-> c], "stop", S) = [t |-> t, c |-> d] /\ StopShows(c, d, S)
<1>0. PICK e \in Events : e = [kind |-> "stop", blocks |-> S] /\ e.kind = "stop" /\ e.blocks = S
  <2>1. [kind |-> "stop", blocks |-> S] \in Events
    BY DEF Events
  <2> QED
    BY <2>1
<1>1. PICK d : d = Follow(c, e) /\ Emit([t |-> t, c |-> c], "stop", S) = [t |-> t, c |-> d]
  <2>1. Emit([t |-> t, c |-> c], "stop", S) = [t |-> t, c |-> Follow(c, e)]
    BY <1>0 DEF Emit
  <2> QED
    BY <2>1
<1>2. /\ d \in Clients
      /\ d.open = c.open \ S /\ d.closed = c.closed \cup S
      /\ d.begun = c.begun /\ d.begun \in BOOLEAN
      /\ d.ends = 0 /\ d.failures = c.failures /\ d.dones = c.dones
      /\ d.faults = c.faults \cup Breaches(c, e)
  <2>1. d \in Clients
    BY <1>0, <1>1, ClientFollows
  <2>2. c.begun \in BOOLEAN
    BY DEF Clients
  <2> QED
    BY <1>0, <1>1, <2>1, <2>2 DEF Follow
<1>3. Breaches(c, e) \subseteq {"unknown stop"}
  BY <1>0, <1>1, EventBreaches DEF Faults
<1>4. S \subseteq c.open => Breaches(c, e) = {}
  BY <1>0, <1>1, <1>3, EventBreaches
<1>5. d.faults \subseteq c.faults \cup {"unknown stop"}
  BY <1>2, <1>3
<1>6. S \subseteq c.open => d.faults = c.faults
  BY <1>2, <1>4
<1>7. StopShows(c, d, S)
  BY <1>2, <1>5, <1>6 DEF StopShows
<1> QED
  BY <1>0, <1>1, <1>2, <1>7

LEMMA EndIsFollowed ==
    ASSUME NEW t, NEW c \in Clients, c.ends = 0, c.open = {}
    PROVE  \E d \in Clients :
             Emit([t |-> t, c |-> c], "end", {}) = [t |-> t, c |-> d] /\ EndShows(c, d)
<1>0. PICK e \in Events : e = [kind |-> "end", blocks |-> {}] /\ e.kind = "end" /\ e.blocks = {}
  <2>1. [kind |-> "end", blocks |-> {}] \in Events
    BY DEF Events
  <2> QED
    BY <2>1
<1>1. PICK d : d = Follow(c, e) /\ Emit([t |-> t, c |-> c], "end", {}) = [t |-> t, c |-> d]
  <2>1. Emit([t |-> t, c |-> c], "end", {}) = [t |-> t, c |-> Follow(c, e)]
    BY <1>0 DEF Emit
  <2> QED
    BY <2>1
<1>2. /\ d \in Clients
      /\ d.open = c.open /\ d.closed = c.closed
      /\ d.begun = c.begun /\ d.begun \in BOOLEAN
      /\ d.ends = 1 /\ d.failures = c.failures /\ d.dones = c.dones
      /\ d.faults = c.faults \cup Breaches(c, e)
  <2>1. d \in Clients
    BY <1>0, <1>1, ClientFollows
  <2>2. c.begun \in BOOLEAN
    BY DEF Clients
  <2> QED
    BY <1>0, <1>1, <2>1, <2>2 DEF Follow
<1>3. Breaches(c, e) = {}
  BY <1>0, <1>1, EventBreaches DEF Faults
<1>4. d.faults = c.faults
  BY <1>2, <1>3
<1>5. EndShows(c, d)
  BY <1>2, <1>4 DEF EndShows
<1> QED
  BY <1>0, <1>1, <1>2, <1>5

(* A Claude message under way *)

LEMMA BeginKeepsClaude ==
    ASSUME NEW t, NEW c, ClaudeUnderWay(t, c)
    PROVE  \E u, d : Begin([t |-> t, c |-> c]) = [t |-> u, c |-> d] /\ ClaudeUnderWay(u, d)
<1> DEFINE p == [t |-> t, c |-> c]
<1>1. /\ t \in ClaudeStates /\ c \in Clients /\ c.ends = 0
      /\ t.begun \in BOOLEAN /\ c.begun = t.begun
  BY DEF ClaudeStates, ClaudeUnderWay
<1>2. CASE t.begun
  <2>1. Begin(p) = [t |-> t, c |-> c]
    BY <1>1, <1>2 DEF Begin
  <2> QED
    BY <2>1
<1>3. CASE ~t.begun
  <2>1. PICK d \in Clients : Emit(p, "begin", {}) = [t |-> t, c |-> d] /\ BeginShows(c, d)
    <3>1. ~c.begun
      BY <1>1, <1>3
    <3> QED
      BY <1>1, <3>1, BeginIsFollowed
  <2>2. PICK u : u = [t EXCEPT !.begun = TRUE]
    OBVIOUS
  <2>3. Begin(p) = [t |-> u, c |-> d]
    <3>1. Begin(p) = [[t |-> t, c |-> d] EXCEPT !.t.begun = TRUE]
      BY <1>1, <1>3, <2>1 DEF Begin
    <3> HIDE DEF p
    <3>2. /\ Begin(p) = [t |-> Begin(p).t, c |-> Begin(p).c]
          /\ Begin(p).c = d
          /\ Begin(p).t = u
      BY <2>2, <3>1
    <3> QED
      BY <3>2
  <2>4. /\ u \in ClaudeStates
        /\ u.begun = TRUE
        /\ u.thinking = t.thinking /\ u.text = t.text /\ u.tools = t.tools
        /\ u.next = t.next
    BY <1>1, <2>2 DEF ClaudeStates
  <2>5. d.begun = u.begun
    BY <2>1, <2>4 DEF BeginShows
  <2>6. ClaudeUnderWay(u, d)
    BY <2>1, <2>4, <2>5 DEF ClaudeUnderWay, Quiet, BeginShows
  <2> QED
    BY <2>3, <2>6
<1> QED
  BY <1>1, <1>2, <1>3

LEMMA StopKeepsClaude ==
    ASSUME NEW t, NEW c, ClaudeUnderWay(t, c), NEW part \in {"thinking", "text"},
           NEW u, u = [t EXCEPT ![part] = 0]
    PROVE  \E d : StopBlock([t |-> t, c |-> c], part) = [t |-> u, c |-> d] /\ ClaudeUnderWay(u, d)
<1> DEFINE p == [t |-> t, c |-> c]
<1>1. t \in ClaudeStates /\ c \in Clients /\ c.ends = 0 /\ t[part] \in Nat
  BY DEF ClaudeStates, ClaudeUnderWay
<1>2. /\ u \in ClaudeStates
      /\ u.begun = t.begun
      /\ u.thinking = (IF part = "thinking" THEN 0 ELSE t.thinking)
      /\ u.text = (IF part = "text" THEN 0 ELSE t.text)
      /\ u.tools = t.tools /\ u.next = t.next
  BY <1>1 DEF ClaudeStates
<1>3. CASE t[part] = 0
  <2>1. StopBlock(p, part) = [t |-> t, c |-> c]
    BY <1>3 DEF StopBlock
  <2>2. u = t
    BY <1>1, <1>3 DEF ClaudeStates
  <2> QED
    BY <2>1, <2>2
<1>4. CASE t[part] # 0
  <2>1. PICK b \in Nat \ {0} : b = t[part]
    BY <1>1, <1>4
  <2>2. PICK S \in SUBSET Nat : S = {b}
    OBVIOUS
  <2>3. S \subseteq c.open /\ S \cap c.closed = {}
    BY <2>1, <2>2 DEF ClaudeUnderWay
  <2>4. PICK d \in Clients : Emit(p, "stop", S) = [t |-> t, c |-> d] /\ StopShows(c, d, S)
    BY <1>1, <2>3, StopIsFollowed
  <2>5. StopBlock(p, part) = [t |-> u, c |-> d]
    <3>1. StopBlock(p, part) = [[t |-> t, c |-> d] EXCEPT !.t[part] = 0]
      BY <1>4, <2>1, <2>2, <2>4 DEF StopBlock
    <3> QED
      BY <3>1
  <2>6. d.open = ({u.thinking, u.text} \cup {u.tools[i] : i \in Tools}) \ {0}
    <3>1. /\ c.open = ({t.thinking, t.text} \cup {t.tools[i] : i \in Tools}) \ {0}
          /\ \A i \in Tools : t.tools[i] # b
          /\ t.thinking = 0 \/ t.text = 0
      BY <2>1 DEF ClaudeUnderWay
    <3>2. d.open = c.open \ {b}
      BY <2>2, <2>4 DEF StopShows
    <3>3. CASE part = "thinking"
      BY <1>2, <2>1, <3>1, <3>2, <3>3
    <3>4. CASE part = "text"
      BY <1>2, <2>1, <3>1, <3>2, <3>4
    <3> QED
      BY <3>3, <3>4
  <2>7. ClaudeUnderWay(u, d)
    <3>1. /\ d.faults = {} /\ d.ends = 0 /\ Quiet(d)
          /\ d.begun = u.begun
          /\ d.closed = c.closed \cup S
      BY <1>2, <2>3, <2>4 DEF ClaudeUnderWay, Quiet, StopShows
    <3>2. d.open = c.open \ S
      BY <2>4 DEF StopShows
    <3>3. d.open \cap d.closed = {} /\ d.open \cup d.closed = c.open \cup c.closed
      BY <2>3, <3>1, <3>2 DEF ClaudeUnderWay
    <3>4. \A x \in d.open \cup d.closed : x <= u.next
      BY <1>2, <3>3 DEF ClaudeUnderWay
    <3>5. /\ u.thinking = 0 \/ u.text = 0
          /\ u.thinking \in {0, t.thinking} /\ u.text \in {0, t.text}
      BY <1>2 DEF ClaudeUnderWay
    <3>6. \A i \in Tools : u.tools[i] # 0 =>
            /\ u.tools[i] \notin {u.thinking, u.text}
            /\ \A j \in Tools : u.tools[j] = u.tools[i] => j = i
      BY <1>2, <3>5 DEF ClaudeUnderWay
    <3> QED
      BY <1>2, <2>6, <3>1, <3>3, <3>4, <3>5, <3>6 DEF ClaudeUnderWay
  <2> QED
    BY <2>5, <2>7
<1> QED
  BY <1>3, <1>4

LEMMA DeltaKeepsClaude ==
    ASSUME NEW t, NEW c, ClaudeUnderWay(t, c), NEW S \in SUBSET Nat, S \subseteq c.open
    PROVE  \E d : Emit([t |-> t, c |-> c], "delta", S) = [t |-> t, c |-> d] /\ ClaudeUnderWay(t, d)
<1>1. c \in Clients /\ c.ends = 0
  BY DEF ClaudeUnderWay
<1>2. PICK d \in Clients : Emit([t |-> t, c |-> c], "delta", S) = [t |-> t, c |-> d] /\ DeltaShows(c, d, S)
  BY <1>1, DeltaIsFollowed
<1>3. /\ d.open = c.open /\ d.closed = c.closed
      /\ d.faults = {} /\ d.ends = 0 /\ Quiet(d)
      /\ d.begun = t.begun
  BY <1>2 DEF ClaudeUnderWay, Quiet, DeltaShows
<1>4. ClaudeUnderWay(t, d)
  BY <1>3 DEF ClaudeUnderWay
<1> QED
  BY <1>2, <1>4

\* A new block: nothing but calls is open, and the block is thinking, text or a call's.
LEMMA OpenKeepsClaude ==
    ASSUME NEW t, NEW c, ClaudeUnderWay(t, c), t.thinking = 0, t.text = 0,
           NEW b, b = t.next + 1, NEW u \in ClaudeStates, u.begun = t.begun, u.next = b,
           \/ u.thinking = b /\ u.text = 0 /\ u.tools = t.tools
           \/ u.thinking = 0 /\ u.text = b /\ u.tools = t.tools
           \/ /\ u.thinking = 0 /\ u.text = 0
              /\ \E i \in Tools : t.tools[i] = 0 /\ u.tools = [t.tools EXCEPT ![i] = b]
    PROVE  \E d : Emit([t |-> t, c |-> c], "start", {b}) = [t |-> t, c |-> d] /\ ClaudeUnderWay(u, d)
<1>1. /\ t \in ClaudeStates /\ c \in Clients /\ c.ends = 0
      /\ t.next \in Nat /\ b \in Nat \ {0} /\ t.tools \in [Tools -> Nat]
  BY DEF ClaudeStates, ClaudeUnderWay
<1>2. /\ \A k \in c.open \cup c.closed : k # b
      /\ \A k \in c.open \cup c.closed : k <= b
  <2>1. \A k \in c.open \cup c.closed : k \in Nat /\ k <= t.next
    BY DEF ClaudeUnderWay, Clients
  <2> QED
    BY <1>1, <2>1
<1>3. /\ c.open = {t.tools[i] : i \in Tools} \ {0}
      /\ \A i \in Tools : t.tools[i] # b
  <2>1. c.open = {t.tools[i] : i \in Tools} \ {0}
    BY DEF ClaudeUnderWay
  <2> QED
    BY <1>1, <1>2, <2>1
<1>4. PICK S \in SUBSET Nat : S = {b}
  BY <1>1
<1>5. PICK d \in Clients : Emit([t |-> t, c |-> c], "start", S) = [t |-> t, c |-> d] /\ StartShows(c, d, S)
  <2>1. S \cap (c.open \cup c.closed) = {}
    BY <1>2, <1>4
  <2> QED
    BY <1>1, <2>1, StartIsFollowed
<1>6. /\ d.open = c.open \cup {b} /\ d.closed = c.closed
      /\ d.faults = {} /\ d.ends = 0 /\ Quiet(d)
      /\ d.begun = u.begun
  BY <1>4, <1>5 DEF ClaudeUnderWay, Quiet, StartShows
<1>7. d.open \cap d.closed = {} /\ \A k \in d.open \cup d.closed : k <= u.next
  BY <1>1, <1>2, <1>6 DEF ClaudeUnderWay
<1>8. /\ d.open = ({u.thinking, u.text} \cup {u.tools[i] : i \in Tools}) \ {0}
      /\ \A i \in Tools : u.tools[i] # 0 =>
           /\ u.tools[i] \notin {u.thinking, u.text}
           /\ \A j \in Tools : u.tools[j] = u.tools[i] => j = i
  <2>1. \A i, j \in Tools : t.tools[i] # 0 /\ t.tools[j] = t.tools[i] => j = i
    BY DEF ClaudeUnderWay
  <2>2. CASE u.tools = t.tools /\ {u.thinking, u.text} = {0, b}
    BY <1>1, <1>3, <1>6, <2>1, <2>2
  <2>3. CASE u.thinking = 0 /\ u.text = 0 /\ \E i \in Tools : t.tools[i] = 0 /\ u.tools = [t.tools EXCEPT ![i] = b]
    <3>1. PICK i \in Tools : t.tools[i] = 0 /\ u.tools = [t.tools EXCEPT ![i] = b]
      BY <2>3
    <3>2. u.tools[i] = b /\ \A j \in Tools \ {i} : u.tools[j] = t.tools[j]
      BY <1>1, <3>1
    <3>3. d.open = ({u.thinking, u.text} \cup {u.tools[k] : k \in Tools}) \ {0}
      BY <1>1, <1>3, <1>6, <2>3, <3>1, <3>2
    <3>4. \A k \in Tools : u.tools[k] # 0 =>
           /\ u.tools[k] \notin {u.thinking, u.text}
           /\ \A j \in Tools : u.tools[j] = u.tools[k] => j = k
      BY <1>3, <2>1, <2>3, <3>2
    <3> QED
      BY <3>3, <3>4
  <2> QED
    BY <2>2, <2>3
<1>9. ClaudeUnderWay(u, d)
  BY <1>6, <1>7, <1>8 DEF ClaudeUnderWay
<1> QED
  BY <1>4, <1>5, <1>9

LEMMA WriteKeepsClaude ==
    ASSUME NEW t, NEW c, ClaudeUnderWay(t, c), NEW part \in {"thinking", "text"},
           \A other \in {"thinking", "text"} \ {part} : t[other] = 0
    PROVE  \E u, d : WriteBlock([t |-> t, c |-> c], part) = [t |-> u, c |-> d] /\ ClaudeUnderWay(u, d)
<1> DEFINE p == [t |-> t, c |-> c]
<1>1. t \in ClaudeStates /\ t.next \in Nat /\ t[part] \in Nat
  BY DEF ClaudeStates, ClaudeUnderWay
<1>2. ASSUME NEW u, NEW d, ClaudeUnderWay(u, d), u[part] # 0,
             WriteBlock(p, part) = Emit([t |-> u, c |-> d], "delta", {u[part]})
      PROVE  \E e : WriteBlock(p, part) = [t |-> u, c |-> e] /\ ClaudeUnderWay(u, e)
  <2>1. PICK S : S = {u[part]}
    OBVIOUS
  <2>2. S \in SUBSET Nat /\ S \subseteq d.open
    BY <1>2, <2>1 DEF ClaudeUnderWay, ClaudeStates
  <2> QED
    BY <1>2, <2>1, <2>2, DeltaKeepsClaude
<1>3. CASE t[part] # 0
  <2>1. WriteBlock(p, part) = Emit([t |-> t, c |-> c], "delta", {t[part]})
    BY <1>3 DEF WriteBlock
  <2> QED
    BY <1>2, <1>3, <2>1
<1>4. CASE t[part] = 0
  <2>1. PICK b : b = t.next + 1
    OBVIOUS
  <2>2. PICK u : u = [t EXCEPT ![part] = b, !.next = b]
    OBVIOUS
  <2>3. /\ u \in ClaudeStates /\ u.begun = t.begun /\ u.next = b /\ u[part] = b /\ b # 0
        /\ u.thinking = (IF part = "thinking" THEN b ELSE t.thinking)
        /\ u.text = (IF part = "text" THEN b ELSE t.text)
        /\ u.tools = t.tools
    <3>1. PICK v : v = [t EXCEPT ![part] = b]
      OBVIOUS
    <3>2. /\ v \in ClaudeStates /\ v[part] = b /\ v.begun = t.begun
          /\ v.thinking = (IF part = "thinking" THEN b ELSE t.thinking)
          /\ v.text = (IF part = "text" THEN b ELSE t.text)
          /\ v.tools = t.tools
      BY <1>1, <2>1, <3>1 DEF ClaudeStates
    <3>3. u = [v EXCEPT !.next = b]
      BY <2>2, <3>1
    <3>4. u \in ClaudeStates /\ u.next = b /\ u.begun = v.begun /\ u.tools = v.tools
      BY <1>1, <2>1, <3>2, <3>3 DEF ClaudeStates
    <3>5. u.thinking = v.thinking /\ u.text = v.text
      BY <3>2, <3>3 DEF ClaudeStates
    <3>6. u[part] = b
      BY <3>2, <3>5
    <3> QED
      BY <1>1, <2>1, <3>2, <3>4, <3>5, <3>6
  <2>4. t.thinking = 0 /\ t.text = 0
    BY <1>4
  <2>5. PICK d : Emit([t |-> t, c |-> c], "start", {b}) = [t |-> t, c |-> d] /\ ClaudeUnderWay(u, d)
    BY <2>1, <2>3, <2>4, OpenKeepsClaude
  <2>6. WriteBlock(p, part) = Emit([t |-> u, c |-> d], "delta", {u[part]})
    <3>1. [[t |-> t, c |-> d] EXCEPT !.t[part] = t.next + 1, !.t.next = @ + 1] = [t |-> u, c |-> d]
      <4>1. PICK q : q = [[t |-> t, c |-> d] EXCEPT !.t[part] = t.next + 1, !.t.next = @ + 1]
        OBVIOUS
      <4>2. q = [t |-> q.t, c |-> q.c] /\ q.c = d
        BY <4>1
      <4>3. q.t = [[t EXCEPT ![part] = b] EXCEPT !.next = @ + 1]
        BY <2>1, <4>1
      <4>4. q.t = u
        BY <1>1, <2>1, <2>2, <4>3 DEF ClaudeStates
      <4> QED
        BY <4>1, <4>2, <4>4
    <3> QED
      BY <1>4, <2>1, <2>5, <3>1 DEF WriteBlock
  <2> QED
    BY <1>2, <2>3, <2>5, <2>6
<1> QED
  BY <1>3, <1>4
\* Closing thinking and text leaves the calls' blocks.
LEMMA StopBothKeepsClaude ==
    ASSUME NEW t, NEW c, ClaudeUnderWay(t, c)
    PROVE  \E u, d : /\ StopBlock(StopBlock([t |-> t, c |-> c], "thinking"), "text") = [t |-> u, c |-> d]
                     /\ ClaudeUnderWay(u, d)
                     /\ u.thinking = 0 /\ u.text = 0 /\ u.tools = t.tools
<1>1. t \in ClaudeStates
  BY DEF ClaudeUnderWay
<1>2. PICK v : v = [t EXCEPT !["thinking"] = 0]
  OBVIOUS
<1>3. v \in ClaudeStates /\ v.thinking = 0 /\ v.tools = t.tools
  BY <1>1, <1>2 DEF ClaudeStates
<1>4. PICK e : StopBlock([t |-> t, c |-> c], "thinking") = [t |-> v, c |-> e] /\ ClaudeUnderWay(v, e)
  BY <1>2, StopKeepsClaude
<1>5. PICK u : u = [v EXCEPT !["text"] = 0]
  OBVIOUS
<1>6. u.thinking = 0 /\ u.text = 0 /\ u.tools = t.tools
  BY <1>3, <1>5 DEF ClaudeStates
<1>7. PICK d : StopBlock([t |-> v, c |-> e], "text") = [t |-> u, c |-> d] /\ ClaudeUnderWay(u, d)
  BY <1>4, <1>5, StopKeepsClaude
<1> QED
  BY <1>4, <1>6, <1>7

\* Thinking, or text, is written once the other is closed.
LEMMA SwitchKeepsClaude ==
    ASSUME NEW t, NEW c, ClaudeUnderWay(t, c), NEW part \in {"thinking", "text"},
           NEW other \in {"thinking", "text"}, other # part
    PROVE  \E u, d : /\ WriteBlock(StopBlock([t |-> t, c |-> c], other), part) = [t |-> u, c |-> d]
                     /\ ClaudeUnderWay(u, d)
<1>1. PICK v : v = [t EXCEPT ![other] = 0]
  OBVIOUS
<1>2. v[other] = 0
  BY <1>1 DEF ClaudeUnderWay, ClaudeStates
<1>3. PICK e : StopBlock([t |-> t, c |-> c], other) = [t |-> v, c |-> e] /\ ClaudeUnderWay(v, e)
  <2>1. \E e : StopBlock([t |-> t, c |-> c], other) = [t |-> v, c |-> e] /\ ClaudeUnderWay(v, e)
    BY <1>1, StopKeepsClaude
  <2> QED
    BY <2>1
<1>4. \A o \in {"thinking", "text"} \ {part} : v[o] = 0
  BY <1>2
<1>5. \E u, d : WriteBlock([t |-> v, c |-> e], part) = [t |-> u, c |-> d] /\ ClaudeUnderWay(u, d)
  BY <1>3, <1>4, WriteKeepsClaude
<1> QED
  BY <1>3, <1>5

LEMMA ToolKeepsClaude ==
    ASSUME NEW t, NEW c, ClaudeUnderWay(t, c), NEW k \in StreamChunks
    PROVE  \E u, d : ClaudeTool([t |-> t, c |-> c], k) = [t |-> u, c |-> d] /\ ClaudeUnderWay(u, d)
<1> DEFINE p == [t |-> t, c |-> c]
           i == k.tool.index
           q == IF ~OpensTool(p.t, k.tool) THEN p
                ELSE LET s == StopBlock(StopBlock(p, "thinking"), "text") IN
                     [Emit(s, "start", {s.t.next + 1}) EXCEPT !.t.tools[i] = s.t.next + 1,
                                                            !.t.next = @ + 1]
           r == IF k.tool.args /\ q.t.tools[i] # 0 THEN [q EXCEPT !.t.buffered = @ \cup {i}] ELSE q
<1>1. CASE k.tool = NoTool
  <2>1. ClaudeTool(p, k) = [t |-> t, c |-> c]
    BY <1>1 DEF ClaudeTool
  <2> QED
    BY <2>1
<1>2. CASE k.tool # NoTool
  <2>1. i \in Tools
    BY <1>2 DEF StreamChunks
  <2>2. \E u, d : q = [t |-> u, c |-> d] /\ ClaudeUnderWay(u, d)
    <3>1. CASE ~OpensTool(t, k.tool)
      BY <3>1
    <3>2. CASE OpensTool(t, k.tool)
      <4>1. PICK v, e : /\ StopBlock(StopBlock(p, "thinking"), "text") = [t |-> v, c |-> e]
                        /\ ClaudeUnderWay(v, e)
                        /\ v.thinking = 0 /\ v.text = 0 /\ v.tools = t.tools
        BY StopBothKeepsClaude
      <4>2. v \in ClaudeStates /\ v.next \in Nat /\ v.tools[i] = 0
        BY <3>2, <4>1 DEF ClaudeUnderWay, ClaudeStates, OpensTool
      <4>3. PICK b : b = v.next + 1
        OBVIOUS
      <4>4. PICK w : w = [v EXCEPT !.tools = [v.tools EXCEPT ![i] = b]]
        OBVIOUS
      <4>5. /\ w \in ClaudeStates /\ w.begun = v.begun
            /\ w.thinking = 0 /\ w.text = 0 /\ w.tools = [v.tools EXCEPT ![i] = b] /\ w.next = v.next
        BY <4>1, <4>2, <4>3, <4>4 DEF ClaudeStates
      <4>6. PICK u : u = [w EXCEPT !.next = b]
        OBVIOUS
      <4>7. /\ u \in ClaudeStates /\ u.begun = v.begun /\ u.next = b
            /\ u.thinking = 0 /\ u.text = 0 /\ u.tools = [v.tools EXCEPT ![i] = b]
        BY <4>2, <4>3, <4>5, <4>6 DEF ClaudeStates
      <4>8. PICK d : Emit([t |-> v, c |-> e], "start", {b}) = [t |-> v, c |-> d] /\ ClaudeUnderWay(u, d)
        <5>1. \E j \in Tools : v.tools[j] = 0 /\ u.tools = [v.tools EXCEPT ![j] = b]
          BY <2>1, <4>2, <4>7
        <5>2. u.thinking = 0 /\ u.text = 0 /\ \E j \in Tools : v.tools[j] = 0 /\ u.tools = [v.tools EXCEPT ![j] = b]
          BY <4>7, <5>1
        <5>3. u \in ClaudeStates /\ u.begun = v.begun /\ u.next = b
          BY <4>7
        <5> HIDE DEF i, p, q, r
        <5> QED
          BY <4>1, <4>3, <5>2, <5>3, OpenKeepsClaude
      <4>9. q = [[t |-> v, c |-> d] EXCEPT !.t.tools[i] = b, !.t.next = @ + 1]
        <5>1. q = (LET s == [t |-> v, c |-> e] IN
                   [Emit(s, "start", {s.t.next + 1}) EXCEPT !.t.tools[i] = s.t.next + 1,
                                                          !.t.next = @ + 1])
          BY <3>2, <4>1
        <5>2. q = [Emit([t |-> v, c |-> e], "start", {b}) EXCEPT !.t.tools[i] = b, !.t.next = @ + 1]
          BY <4>3, <5>1
        <5> QED
          BY <4>8, <5>2
      <4>10. [[t |-> v, c |-> d] EXCEPT !.t.tools[i] = b, !.t.next = @ + 1] = [t |-> u, c |-> d]
        <5>1. PICK x : x = [[t |-> v, c |-> d] EXCEPT !.t.tools[i] = b, !.t.next = @ + 1]
          OBVIOUS
        <5>2. x = [t |-> x.t, c |-> x.c] /\ x.c = d
          BY <5>1
        <5>3. x.t = [w EXCEPT !.next = @ + 1]
          BY <4>4, <5>1
        <5>4. x.t = u
          BY <4>3, <4>5, <4>6, <5>3
        <5> QED
          BY <5>1, <5>2, <5>4
      <4> QED
        BY <4>8, <4>9, <4>10
    <3> QED
      BY <3>1, <3>2
  <2> HIDE DEF q
  <2>3. PICK v, e : q = [t |-> v, c |-> e] /\ ClaudeUnderWay(v, e)
    BY <2>2
  <2>4. ClaudeTool(p, k) = r
    BY <1>2 DEF ClaudeTool, q
  <2>5. CASE ~(k.tool.args /\ q.t.tools[i] # 0)
    <3>1. r = [t |-> v, c |-> e]
      BY <2>3, <2>5
    <3> QED
      BY <2>3, <2>4, <3>1
  <2>6. CASE k.tool.args /\ q.t.tools[i] # 0
    <3>1. PICK u : u = [v EXCEPT !.buffered = @ \cup {i}]
      OBVIOUS
    <3>2. r = [t |-> u, c |-> e]
      <4>1. r = [[t |-> v, c |-> e] EXCEPT !.t.buffered = @ \cup {i}]
        BY <2>3, <2>6
      <4> HIDE DEF r
      <4>2. r = [t |-> r.t, c |-> r.c] /\ r.c = e /\ r.t = u
        BY <3>1, <4>1
      <4> QED
        BY <4>2
    <3>3. v \in ClaudeStates
      BY <2>3 DEF ClaudeUnderWay
    <3>4. /\ u \in ClaudeStates /\ u.begun = v.begun /\ u.thinking = v.thinking
          /\ u.text = v.text /\ u.tools = v.tools /\ u.next = v.next
      BY <2>1, <3>1, <3>3 DEF ClaudeStates
    <3>5. ClaudeUnderWay(u, e)
      BY <2>3, <3>4 DEF ClaudeUnderWay
    <3> QED
      BY <2>4, <3>2, <3>5
  <2> QED
    BY <2>5, <2>6
<1> QED
  BY <1>1, <1>2

\* A finish_reason closes whatever is open.
LEMMA FinishEndsClaude ==
    ASSUME NEW t, NEW c, ClaudeUnderWay(t, c), NEW k \in StreamChunks
    PROVE  \E u, d : /\ ClaudeFinish([t |-> t, c |-> c], k) = [t |-> u, c |-> d]
                     /\ IF k.finish THEN ClaudeOver(u, d) ELSE ClaudeUnderWay(u, d)
<1> DEFINE p == [t |-> t, c |-> c]
<1>1. CASE ~k.finish
  <2>1. ClaudeFinish(p, k) = [t |-> t, c |-> c]
    BY <1>1 DEF ClaudeFinish
  <2> QED
    BY <1>1, <2>1
<1>2. CASE k.finish
  <2>1. PICK u, c1 : /\ StopBlock(StopBlock(p, "thinking"), "text") = [t |-> u, c |-> c1]
                     /\ ClaudeUnderWay(u, c1)
                     /\ u.thinking = 0 /\ u.text = 0
    BY StopBothKeepsClaude
  <2>2. u \in ClaudeStates /\ u.tools \in [Tools -> Nat]
    BY <2>1 DEF ClaudeUnderWay, ClaudeStates
  <2>3. PICK opened : opened = {i \in Tools : u.tools[i] # 0}
    OBVIOUS
  <2>4. PICK D : D = BlocksOf(u, opened \cap u.buffered)
    OBVIOUS
  <2>5. PICK S : S = BlocksOf(u, opened)
    OBVIOUS
  <2>6. c1.open = S /\ D \subseteq S /\ S \in SUBSET Nat
    <3>1. c1.open = {u.tools[i] : i \in Tools} \ {0}
      BY <2>1 DEF ClaudeUnderWay
    <3> QED
      BY <2>2, <2>3, <2>4, <2>5, <3>1 DEF BlocksOf
  <2>7. PICK c2 : Emit([t |-> u, c |-> c1], "delta", D) = [t |-> u, c |-> c2] /\ ClaudeUnderWay(u, c2) /\ c2.open = S
    <3>1. PICK d \in Clients : Emit([t |-> u, c |-> c1], "delta", D) = [t |-> u, c |-> d] /\ DeltaShows(c1, d, D)
      BY <2>1, <2>6, DeltaIsFollowed DEF ClaudeUnderWay
    <3>2. d.open = S
      BY <2>6, <3>1 DEF DeltaShows
    <3>3. \E e : Emit([t |-> u, c |-> c1], "delta", D) = [t |-> u, c |-> e] /\ ClaudeUnderWay(u, e)
      BY <2>1, <2>6, DeltaKeepsClaude
    <3>4. ClaudeUnderWay(u, d)
      BY <3>1, <3>3
    <3> QED
      BY <3>1, <3>2, <3>4
  <2>8. PICK c3 \in Clients : Emit([t |-> u, c |-> c2], "stop", S) = [t |-> u, c |-> c3] /\ StopShows(c2, c3, S)
    <3>1. c2 \in Clients /\ c2.ends = 0 /\ S \cap c2.closed = {}
      BY <2>7 DEF ClaudeUnderWay
    <3> QED
      BY <2>6, <3>1, StopIsFollowed
  <2>9. c3.open = {} /\ c3.ends = 0 /\ c3.faults = {} /\ Quiet(c3)
    BY <2>7, <2>8 DEF StopShows, ClaudeUnderWay, Quiet
  <2>10. PICK d \in Clients : Emit([t |-> u, c |-> c3], "end", {}) = [t |-> u, c |-> d] /\ EndShows(c3, d)
    BY <2>9, EndIsFollowed
  <2>11. ClaudeOver(u, d)
    BY <2>2, <2>9, <2>10 DEF ClaudeOver, EndShows, Quiet
  <2>12. ClaudeFinish(p, k) = [t |-> u, c |-> d]
    <3> DEFINE q == StopBlock(StopBlock(p, "thinking"), "text")
               r == Emit(q, "delta", D)
    <3>1. q = [t |-> u, c |-> c1] /\ q.t = u
      BY <2>1
    <3>2. r = [t |-> u, c |-> c2] /\ r.t = u
      BY <2>7, <3>1
    <3>3. ClaudeFinish(p, k) = Emit(Emit(r, "stop", BlocksOf(r.t, opened)), "end", {})
      BY <1>2, <2>3, <2>4, <3>1 DEF ClaudeFinish
    <3> HIDE DEF q, r
    <3> QED
      BY <2>5, <2>8, <2>10, <3>2, <3>3
  <2> QED
    BY <1>2, <2>11, <2>12
<1> QED
  BY <1>1, <1>2

LEMMA ChunkKeepsClaude ==
    ASSUME NEW t, NEW c, ClaudeUnderWay(t, c), NEW k \in StreamChunks
    PROVE  \E u, d : /\ ClaudeChunk([t |-> t, c |-> c], k) = [t |-> u, c |-> d]
                     /\ IF k.finish THEN ClaudeOver(u, d) ELSE ClaudeUnderWay(u, d)
<1>1. PICK t1, c1 : Begin([t |-> t, c |-> c]) = [t |-> t1, c |-> c1] /\ ClaudeUnderWay(t1, c1)
  BY BeginKeepsClaude
<1>2. PICK t2, c2 : ClaudeReasoning([t |-> t1, c |-> c1], k) = [t |-> t2, c |-> c2] /\ ClaudeUnderWay(t2, c2)
  <2>1. CASE k.think
    <3>1. \E u, d : /\ WriteBlock(StopBlock([t |-> t1, c |-> c1], "text"), "thinking") = [t |-> u, c |-> d]
                    /\ ClaudeUnderWay(u, d)
      BY <1>1, SwitchKeepsClaude
    <3> QED
      BY <2>1, <3>1 DEF ClaudeReasoning
  <2>2. CASE ~k.think
    BY <1>1, <2>2 DEF ClaudeReasoning
  <2> QED
    BY <2>1, <2>2
<1>3. PICK t3, c3 : ClaudeText([t |-> t2, c |-> c2], k) = [t |-> t3, c |-> c3] /\ ClaudeUnderWay(t3, c3)
  <2>1. CASE k.content # "none"
    <3>1. \E u, d : /\ WriteBlock(StopBlock([t |-> t2, c |-> c2], "thinking"), "text") = [t |-> u, c |-> d]
                    /\ ClaudeUnderWay(u, d)
      BY <1>2, SwitchKeepsClaude
    <3> QED
      BY <2>1, <3>1 DEF ClaudeText
  <2>2. CASE k.content = "none"
    BY <1>2, <2>2 DEF ClaudeText
  <2> QED
    BY <2>1, <2>2
<1>4. PICK t4, c4 : ClaudeTool([t |-> t3, c |-> c3], k) = [t |-> t4, c |-> c4] /\ ClaudeUnderWay(t4, c4)
  BY <1>3, ToolKeepsClaude
<1>5. PICK u, d : /\ ClaudeFinish([t |-> t4, c |-> c4], k) = [t |-> u, c |-> d]
                  /\ IF k.finish THEN ClaudeOver(u, d) ELSE ClaudeUnderWay(u, d)
  BY <1>4, FinishEndsClaude
<1> QED
  BY <1>1, <1>2, <1>3, <1>4, <1>5 DEF ClaudeChunk
(* A Responses stream under way *)

LEMMA BeginKeepsResponse ==
    ASSUME NEW t, NEW c, ResponseUnderWay(t, c)
    PROVE  \E u, d : Begin([t |-> t, c |-> c]) = [t |-> u, c |-> d] /\ ResponseUnderWay(u, d)
<1> DEFINE p == [t |-> t, c |-> c]
<1>1. /\ t \in ResponsesStates /\ c \in Clients /\ c.ends = 0
      /\ t.begun \in BOOLEAN /\ c.begun = t.begun
  BY DEF ResponsesStates, ResponseUnderWay
<1>2. CASE t.begun
  <2>1. Begin(p) = [t |-> t, c |-> c]
    BY <1>1, <1>2 DEF Begin
  <2> QED
    BY <2>1
<1>3. CASE ~t.begun
  <2>1. PICK d \in Clients : Emit(p, "begin", {}) = [t |-> t, c |-> d] /\ BeginShows(c, d)
    <3>1. ~c.begun
      BY <1>1, <1>3
    <3> QED
      BY <1>1, <3>1, BeginIsFollowed
  <2>2. PICK u : u = [t EXCEPT !.begun = TRUE]
    OBVIOUS
  <2>3. Begin(p) = [t |-> u, c |-> d]
    <3>1. Begin(p) = [[t |-> t, c |-> d] EXCEPT !.t.begun = TRUE]
      BY <1>1, <1>3, <2>1 DEF Begin
    <3> HIDE DEF p
    <3>2. /\ Begin(p) = [t |-> Begin(p).t, c |-> Begin(p).c]
          /\ Begin(p).c = d
          /\ Begin(p).t = u
      BY <2>2, <3>1
    <3> QED
      BY <3>2
  <2>4. /\ u \in ResponsesStates
        /\ u.begun = TRUE
        /\ u.added = t.added /\ u.done = t.done /\ u.ids = t.ids
        /\ u.completed = t.completed
    BY <1>1, <2>2 DEF ResponsesStates
  <2>5. d.begun = u.begun
    BY <2>1, <2>4 DEF BeginShows
  <2>6. ResponseUnderWay(u, d)
    BY <2>1, <2>4, <2>5 DEF ResponseUnderWay, Quiet, BeginShows
  <2> QED
    BY <2>3, <2>6
<1> QED
  BY <1>1, <1>2, <1>3

\* What a chunk changes in the translator alone.
LEMMA NotesKeepResponse ==
    ASSUME NEW t, NEW c, ResponseUnderWay(t, c),
           NEW u \in ResponsesStates, u.begun = t.begun, u.added = t.added, u.done = t.done,
           t.ids \subseteq u.ids, u.completed = t.completed
    PROVE  ResponseUnderWay(u, c)
  BY DEF ResponseUnderWay

\* The items a translator may announce.
Announceable(t) == {Reasoning, Message} \cup {ToolItem(i) : i \in t.ids}

LEMMA ItemsAreNumbers ==
    ASSUME NEW t \in ResponsesStates
    PROVE  Announceable(t) \subseteq Nat
<1>1. t.ids \subseteq Nat
  BY StreamAssumption DEF ResponsesStates
<1> QED
  BY <1>1 DEF Announceable, Reasoning, Message, ToolItem

LEMMA AddKeepsResponse ==
    ASSUME NEW t, NEW c, ResponseUnderWay(t, c), NEW item \in Announceable(t)
    PROVE  \E u, d : AddItem([t |-> t, c |-> c], item) = [t |-> u, c |-> d] /\ ResponseUnderWay(u, d)
<1> DEFINE p == [t |-> t, c |-> c]
<1>1. t \in ResponsesStates /\ c \in Clients /\ c.ends = 0 /\ item \in Nat
  BY ItemsAreNumbers DEF ResponseUnderWay
<1>2. CASE item \in t.added
  <2>1. AddItem(p, item) = [t |-> t, c |-> c]
    BY <1>2 DEF AddItem
  <2> QED
    BY <2>1
<1>3. CASE item \notin t.added
  <2>1. PICK S \in SUBSET Nat : S = {item}
    BY <1>1
  <2>2. S \cap (c.open \cup c.closed) = {}
    BY <1>3, <2>1 DEF ResponseUnderWay
  <2>3. PICK d \in Clients : Emit(p, "start", S) = [t |-> t, c |-> d] /\ StartShows(c, d, S)
    BY <1>1, <2>2, StartIsFollowed
  <2>4. PICK u : u = [t EXCEPT !.added = @ \cup {item}]
    OBVIOUS
  <2>5. AddItem(p, item) = [t |-> u, c |-> d]
    <3>1. AddItem(p, item) = [[t |-> t, c |-> d] EXCEPT !.t.added = @ \cup {item}]
      BY <1>3, <2>1, <2>3 DEF AddItem
    <3> HIDE DEF p
    <3>2. /\ AddItem(p, item) = [t |-> AddItem(p, item).t, c |-> AddItem(p, item).c]
          /\ AddItem(p, item).c = d
          /\ AddItem(p, item).t = u
      BY <2>4, <3>1
    <3> QED
      BY <3>2
  <2>6. /\ u \in ResponsesStates
        /\ u.begun = t.begun /\ u.added = t.added \cup {item} /\ u.done = t.done
        /\ u.ids = t.ids /\ u.completed = t.completed
    BY <1>1, <2>4 DEF ResponsesStates
  <2>7. item \notin t.done
    BY <1>3 DEF ResponseUnderWay
  <2>8. ResponseUnderWay(u, d)
    BY <2>1, <2>3, <2>6, <2>7 DEF ResponseUnderWay, Quiet, StartShows, Announceable
  <2> QED
    BY <2>5, <2>8
<1> QED
  BY <1>2, <1>3

LEMMA DeltaKeepsResponse ==
    ASSUME NEW t, NEW c, ResponseUnderWay(t, c), NEW item \in Nat
    PROVE  \E d : /\ Emit([t |-> t, c |-> c], "delta", {item}) = [t |-> t, c |-> d]
                  /\ ResponseUnderWay(t, d)
<1>1. c \in Clients /\ c.ends = 0
  BY DEF ResponseUnderWay
<1>2. PICK S \in SUBSET Nat : S = {item}
  OBVIOUS
<1>3. PICK d \in Clients : Emit([t |-> t, c |-> c], "delta", S) = [t |-> t, c |-> d] /\ DeltaShows(c, d, S)
  BY <1>1, DeltaIsFollowed
<1>4. /\ d.open = c.open /\ d.closed = c.closed
      /\ d.faults \subseteq ItemFaults /\ d.ends = 0 /\ Quiet(d)
      /\ d.begun = t.begun
  BY <1>3 DEF ResponseUnderWay, Quiet, DeltaShows, ItemFaults
<1>5. ResponseUnderWay(t, d)
  BY <1>4 DEF ResponseUnderWay
<1> QED
  BY <1>2, <1>3, <1>5

\* An item is announced, if it was not, and written to.
LEMMA WriteItemKeepsResponse ==
    ASSUME NEW t, NEW c, ResponseUnderWay(t, c), NEW item \in Announceable(t)
    PROVE  \E u, d : /\ Emit(AddItem([t |-> t, c |-> c], item), "delta", {item}) = [t |-> u, c |-> d]
                     /\ ResponseUnderWay(u, d)
<1>1. item \in Nat
  BY ItemsAreNumbers DEF ResponseUnderWay
<1>2. PICK u, d : AddItem([t |-> t, c |-> c], item) = [t |-> u, c |-> d] /\ ResponseUnderWay(u, d)
  BY AddKeepsResponse
<1>3. \E e : Emit([t |-> u, c |-> d], "delta", {item}) = [t |-> u, c |-> e] /\ ResponseUnderWay(u, e)
  BY <1>1, <1>2, DeltaKeepsResponse
<1> QED
  BY <1>2, <1>3

LEMMA CloseItemKeepsResponse ==
    ASSUME NEW t, NEW c, ResponseUnderWay(t, c), NEW item
    PROVE  \E u, d : /\ CloseItem([t |-> t, c |-> c], item) = [t |-> u, c |-> d]
                     /\ ResponseUnderWay(u, d)
                     /\ item \notin u.added \ u.done
                     /\ u.added = t.added /\ t.done \subseteq u.done
                     /\ u.ids = t.ids /\ u.names = t.names /\ u.inThinking = t.inThinking
<1> DEFINE p == [t |-> t, c |-> c]
<1>1. t \in ResponsesStates /\ c \in Clients /\ c.ends = 0
  BY DEF ResponseUnderWay
<1>2. CASE item \notin t.added \ t.done
  <2>1. CloseItem(p, item) = [t |-> t, c |-> c]
    BY <1>2 DEF CloseItem
  <2> QED
    BY <1>2, <2>1
<1>3. CASE item \in t.added \ t.done
  <2>1. item \in Nat
    BY <1>1, <1>3 DEF ResponsesStates
  <2>2. PICK S \in SUBSET Nat : S = {item}
    BY <2>1
  <2>3. S \subseteq c.open /\ S \cap c.closed = {}
    BY <1>3, <2>2 DEF ResponseUnderWay
  <2>4. PICK d \in Clients : Emit(p, "stop", S) = [t |-> t, c |-> d] /\ StopShows(c, d, S)
    BY <1>1, <2>3, StopIsFollowed
  <2>5. PICK u : u = [t EXCEPT !.done = @ \cup {item}]
    OBVIOUS
  <2>6. CloseItem(p, item) = [t |-> u, c |-> d]
    <3>1. CloseItem(p, item) = [[t |-> t, c |-> d] EXCEPT !.t.done = @ \cup {item}]
      BY <1>3, <2>2, <2>4 DEF CloseItem
    <3> HIDE DEF p
    <3>2. /\ CloseItem(p, item) = [t |-> CloseItem(p, item).t, c |-> CloseItem(p, item).c]
          /\ CloseItem(p, item).c = d
          /\ CloseItem(p, item).t = u
      BY <2>5, <3>1
    <3> QED
      BY <3>2
  <2>7. /\ u \in ResponsesStates
        /\ u.begun = t.begun /\ u.added = t.added /\ u.done = t.done \cup {item}
        /\ u.ids = t.ids /\ u.completed = t.completed
        /\ u.names = t.names /\ u.inThinking = t.inThinking
    BY <1>1, <2>1, <2>5 DEF ResponsesStates
  <2>8. d.faults = c.faults
    BY <2>3, <2>4 DEF StopShows
  <2>9. ResponseUnderWay(u, d)
    BY <1>3, <2>2, <2>4, <2>7, <2>8 DEF ResponseUnderWay, Quiet, StopShows
  <2> QED
    BY <2>6, <2>7, <2>9
<1> QED
  BY <1>2, <1>3

\* Closing message, reasoning and calls leaves nothing open, so the response may end.
LEMMA CloseEndsResponse ==
    ASSUME NEW t, NEW c, ResponseUnderWay(t, c)
    PROVE  \E u, d : CloseResponse([t |-> t, c |-> c]) = [t |-> u, c |-> d] /\ ResponseOver(u, d)
<1>1. PICK t1, c1 : /\ CloseItem([t |-> t, c |-> c], Message) = [t |-> t1, c |-> c1]
                    /\ ResponseUnderWay(t1, c1)
                    /\ Message \notin t1.added \ t1.done
  <2>1. PICK item : item = Message
    OBVIOUS
  <2>2. PICK u, d : /\ CloseItem([t |-> t, c |-> c], item) = [t |-> u, c |-> d]
                    /\ ResponseUnderWay(u, d)
                    /\ item \notin u.added \ u.done
    BY CloseItemKeepsResponse
  <2> QED
    BY <2>1, <2>2
<1>2. PICK t2, c2 : /\ CloseItem([t |-> t1, c |-> c1], Reasoning) = [t |-> t2, c |-> c2]
                    /\ ResponseUnderWay(t2, c2)
                    /\ Reasoning \notin t2.added \ t2.done
                    /\ t2.added = t1.added /\ t1.done \subseteq t2.done
  <2>1. PICK item : item = Reasoning
    OBVIOUS
  <2>2. PICK u, d : /\ CloseItem([t |-> t1, c |-> c1], item) = [t |-> u, c |-> d]
                    /\ ResponseUnderWay(u, d)
                    /\ item \notin u.added \ u.done
                    /\ u.added = t1.added /\ t1.done \subseteq u.done
    BY <1>1, CloseItemKeepsResponse
  <2> QED
    BY <2>1, <2>2
<1>3. /\ t2 \in ResponsesStates /\ c2 \in Clients /\ c2.ends = 0 /\ Quiet(c2)
      /\ c2.faults \subseteq ItemFaults
      /\ ~t2.completed
  BY <1>2 DEF ResponseUnderWay
<1>4. PICK items : items = {ToolItem(i) : i \in t2.ids} \ t2.done
  OBVIOUS
<1>5. /\ c2.open \subseteq items /\ items \cap c2.closed = {}
      /\ items \in SUBSET Nat
  <2>1. /\ t2.added \subseteq {Reasoning, Message} \cup {ToolItem(i) : i \in t2.ids}
        /\ c2.open = t2.added \ t2.done
        /\ c2.closed = t2.done
    BY <1>2 DEF ResponseUnderWay
  <2>2. items \in SUBSET Nat
    BY <1>3, <1>4, ItemsAreNumbers DEF Announceable
  <2>3. Message \notin c2.open /\ Reasoning \notin c2.open
    BY <1>1, <1>2, <2>1
  <2> QED
    BY <1>4, <2>1, <2>2, <2>3
<1>6. PICK t3, c3 : /\ CloseTools([t |-> t2, c |-> c2]) = [t |-> t3, c |-> c3]
                    /\ t3 \in ResponsesStates /\ ~t3.completed
                    /\ c3 \in Clients /\ c3.open = {} /\ c3.ends = 0 /\ Quiet(c3)
                    /\ c3.faults \subseteq ItemFaults
  <2>1. CASE items = {}
    <3>1. CloseTools([t |-> t2, c |-> c2]) = [t |-> t2, c |-> c2]
      BY <1>4, <2>1 DEF CloseTools
    <3> QED
      BY <1>3, <1>5, <2>1, <3>1
  <2>2. CASE items # {}
    <3>1. PICK d \in Clients : /\ Emit([t |-> t2, c |-> c2], "stop", items) = [t |-> t2, c |-> d]
                               /\ StopShows(c2, d, items)
      BY <1>3, <1>5, StopIsFollowed
    <3>2. d.open = {} /\ d.ends = 0 /\ Quiet(d) /\ d.faults \subseteq ItemFaults
      BY <1>3, <1>5, <3>1 DEF StopShows, Quiet, ItemFaults
    <3>3. PICK u : u = [t2 EXCEPT !.done = @ \cup items]
      OBVIOUS
    <3>4. CloseTools([t |-> t2, c |-> c2]) = [t |-> u, c |-> d]
      <4>1. PICK x : x = CloseTools([t |-> t2, c |-> c2])
        OBVIOUS
      <4>2. x = [[t |-> t2, c |-> d] EXCEPT !.t.done = @ \cup items]
        BY <1>4, <2>2, <3>1, <4>1 DEF CloseTools
      <4>3. x = [t |-> x.t, c |-> x.c] /\ x.c = d /\ x.t = u
        BY <3>3, <4>2
      <4> QED
        BY <4>1, <4>3
    <3>5. u \in ResponsesStates /\ u.completed = t2.completed
      BY <1>3, <1>5, <3>3 DEF ResponsesStates
    <3> QED
      BY <1>3, <3>1, <3>2, <3>4, <3>5
  <2> QED
    BY <2>1, <2>2
<1>7. PICK d \in Clients : /\ Emit([t |-> t3, c |-> c3], "end", {}) = [t |-> t3, c |-> d]
                           /\ EndShows(c3, d)
  BY <1>6, EndIsFollowed
<1>8. PICK u : u = [t3 EXCEPT !.completed = TRUE]
  OBVIOUS
<1>9. CompleteResponse([t |-> t3, c |-> c3]) = [t |-> u, c |-> d]
  <2>1. PICK x : x = CompleteResponse([t |-> t3, c |-> c3])
    OBVIOUS
  <2>2. x = [[t |-> t3, c |-> d] EXCEPT !.t.completed = TRUE]
    BY <1>6, <1>7, <2>1 DEF CompleteResponse
  <2>3. x = [t |-> x.t, c |-> x.c] /\ x.c = d /\ x.t = u
    BY <1>8, <2>2
  <2> QED
    BY <2>1, <2>3
<1>10. ResponseOver(u, d)
  <2>1. u \in ResponsesStates /\ u.completed
    BY <1>6, <1>8 DEF ResponsesStates
  <2> QED
    BY <1>6, <1>7, <2>1 DEF ResponseOver, EndShows, Quiet
<1>11. CloseResponse([t |-> t, c |-> c]) = [t |-> u, c |-> d]
  BY <1>1, <1>2, <1>6, <1>9 DEF CloseResponse
<1> QED
  BY <1>10, <1>11

LEMMA ContentKeepsResponse ==
    ASSUME NEW t, NEW c, ResponseUnderWay(t, c), NEW k \in StreamChunks
    PROVE  \E u, d : ResponsesContent([t |-> t, c |-> c], k) = [t |-> u, c |-> d] /\ ResponseUnderWay(u, d)
<1> DEFINE p == [t |-> t, c |-> c]
<1>1. t \in ResponsesStates
  BY DEF ResponseUnderWay
<1>2. k.content \in Texts
  BY DEF StreamChunks
<1>3. CASE k.content = "none"
  <2>1. ResponsesContent(p, k) = [t |-> t, c |-> c]
    BY <1>3 DEF ResponsesContent
  <2> QED
    BY <2>1
<1>4. CASE k.content = "<think>"
  <2>1. PICK v : v = [t EXCEPT !.inThinking = TRUE]
    OBVIOUS
  <2>2. /\ v \in ResponsesStates /\ v.begun = t.begun /\ v.added = t.added /\ v.done = t.done
        /\ v.ids = t.ids /\ v.completed = t.completed
    BY <1>1, <2>1 DEF ResponsesStates
  <2>3. ResponseUnderWay(v, c)
    BY <2>2, NotesKeepResponse
  <2>4. Reasoning \in Announceable(v)
    BY DEF Announceable
  <2>5. \E u, d : AddItem([t |-> v, c |-> c], Reasoning) = [t |-> u, c |-> d] /\ ResponseUnderWay(u, d)
    BY <2>3, <2>4, AddKeepsResponse
  <2>6. [p EXCEPT !.t.inThinking = TRUE] = [t |-> v, c |-> c]
    <3>1. PICK x : x = [[t |-> t, c |-> c] EXCEPT !.t.inThinking = TRUE]
      OBVIOUS
    <3>2. x = [t |-> x.t, c |-> x.c] /\ x.c = c /\ x.t = v
      BY <2>1, <3>1
    <3> QED
      BY <3>1, <3>2
  <2> QED
    BY <1>4, <2>5, <2>6 DEF ResponsesContent
<1>5. CASE k.content = "</think>"
  <2>1. PICK v, d : CloseItem(p, Reasoning) = [t |-> v, c |-> d] /\ ResponseUnderWay(v, d)
    <3>1. PICK item : item = Reasoning
      OBVIOUS
    <3>2. PICK v, d : CloseItem([t |-> t, c |-> c], item) = [t |-> v, c |-> d] /\ ResponseUnderWay(v, d)
      BY CloseItemKeepsResponse
    <3> QED
      BY <3>1, <3>2
  <2>2. PICK u : u = [v EXCEPT !.inThinking = FALSE]
    OBVIOUS
  <2>3. v \in ResponsesStates
    BY <2>1 DEF ResponseUnderWay
  <2>4. /\ u \in ResponsesStates /\ u.begun = v.begun /\ u.added = v.added /\ u.done = v.done
        /\ u.ids = v.ids /\ u.completed = v.completed
    BY <2>2, <2>3 DEF ResponsesStates
  <2>5. ResponseUnderWay(u, d)
    BY <2>1, <2>4, NotesKeepResponse
  <2>6. ResponsesContent(p, k) = [[t |-> v, c |-> d] EXCEPT !.t.inThinking = FALSE]
    BY <1>5, <2>1 DEF ResponsesContent
  <2>7. [[t |-> v, c |-> d] EXCEPT !.t.inThinking = FALSE] = [t |-> u, c |-> d]
    <3>1. PICK x : x = [[t |-> v, c |-> d] EXCEPT !.t.inThinking = FALSE]
      OBVIOUS
    <3>2. x = [t |-> x.t, c |-> x.c] /\ x.c = d /\ x.t = u
      BY <2>2, <3>1
    <3> QED
      BY <3>1, <3>2
  <2> QED
    BY <2>5, <2>6, <2>7
<1>6. CASE k.content = "text"
  <2>1. PICK item : item = IF t.inThinking THEN Reasoning ELSE Message
    OBVIOUS
  <2>2. item \in Announceable(t)
    BY <2>1 DEF Announceable
  <2>3. ResponsesContent(p, k) = Emit(AddItem(p, item), "delta", {item})
    BY <1>6, <2>1 DEF ResponsesContent
  <2> QED
    BY <2>2, <2>3, WriteItemKeepsResponse
<1> QED
  BY <1>2, <1>3, <1>4, <1>5, <1>6 DEF Texts
LEMMA CallKeepsResponse ==
    ASSUME NEW t, NEW c, ResponseUnderWay(t, c), NEW k \in StreamChunks
    PROVE  \E u, d : ResponsesTool([t |-> t, c |-> c], k) = [t |-> u, c |-> d] /\ ResponseUnderWay(u, d)
<1> DEFINE p == [t |-> t, c |-> c]
           i == k.tool.index
           noted(v) == [v EXCEPT !.ids = IF k.tool.id THEN @ \cup {i} ELSE @,
                                 !.names = IF k.tool.name THEN @ \cup {i} ELSE @]
<1>1. CASE k.tool = NoTool
  <2>1. ResponsesTool(p, k) = [t |-> t, c |-> c]
    BY <1>1 DEF ResponsesTool
  <2> QED
    BY <2>1
<1>2. CASE k.tool # NoTool
  <2>1. i \in Tools
    BY <1>2 DEF StreamChunks
  <2>2. PICK v, d : CloseItem(p, Message) = [t |-> v, c |-> d] /\ ResponseUnderWay(v, d)
    <3>1. PICK item : item = Message
      OBVIOUS
    <3>2. PICK v, d : CloseItem([t |-> t, c |-> c], item) = [t |-> v, c |-> d] /\ ResponseUnderWay(v, d)
      BY CloseItemKeepsResponse
    <3> QED
      BY <3>1, <3>2
  <2>3. v \in ResponsesStates
    BY <2>2 DEF ResponseUnderWay
  <2>4. PICK w : w = noted(v)
    OBVIOUS
  <2>5. /\ w \in ResponsesStates /\ w.begun = v.begun /\ w.added = v.added /\ w.done = v.done
        /\ v.ids \subseteq w.ids /\ w.completed = v.completed
    BY <2>1, <2>3, <2>4 DEF ResponsesStates
  <2>6. ResponseUnderWay(w, d)
    BY <2>2, <2>5, NotesKeepResponse
  <2>7. [CloseItem(p, Message) EXCEPT !.t.ids = IF k.tool.id THEN @ \cup {i} ELSE @,
                                      !.t.names = IF k.tool.name THEN @ \cup {i} ELSE @]
        = [t |-> w, c |-> d]
    <3>1. PICK x : x = [[t |-> v, c |-> d] EXCEPT !.t.ids = IF k.tool.id THEN @ \cup {i} ELSE @,
                                                   !.t.names = IF k.tool.name THEN @ \cup {i} ELSE @]
      OBVIOUS
    <3>2. x = [t |-> x.t, c |-> x.c] /\ x.c = d
      BY <3>1
    <3>3. x.t = w
      BY <2>4, <3>1
    <3> QED
      BY <2>2, <3>1, <3>2, <3>3
  <2>8. PICK r : r = IF i \in w.ids \cap w.names THEN AddItem([t |-> w, c |-> d], ToolItem(i))
                     ELSE [t |-> w, c |-> d]
    OBVIOUS
  <2>9. PICK u, e : r = [t |-> u, c |-> e] /\ ResponseUnderWay(u, e)
    <3>1. CASE i \in w.ids \cap w.names
      <4>1. ToolItem(i) \in Announceable(w)
        BY <3>1 DEF Announceable
      <4> QED
        BY <2>6, <2>8, <3>1, <4>1, AddKeepsResponse
    <3>2. CASE i \notin w.ids \cap w.names
      BY <2>6, <2>8, <3>2
    <3> QED
      BY <3>1, <3>2
  <2>10. ResponsesTool(p, k) =
           IF k.tool.args /\ ToolItem(i) \in u.added THEN Emit([t |-> u, c |-> e], "delta", {ToolItem(i)})
           ELSE [t |-> u, c |-> e]
    <3>1. ResponsesTool(p, k) =
            LET q == [t |-> w, c |-> d]
                y == IF i \in q.t.ids \cap q.t.names THEN AddItem(q, ToolItem(i)) ELSE q
            IN IF k.tool.args /\ ToolItem(i) \in y.t.added THEN Emit(y, "delta", {ToolItem(i)}) ELSE y
      BY <1>2, <2>7 DEF ResponsesTool
    <3>2. ResponsesTool(p, k) =
            IF k.tool.args /\ ToolItem(i) \in r.t.added THEN Emit(r, "delta", {ToolItem(i)}) ELSE r
      BY <2>8, <3>1
    <3> QED
      BY <2>9, <3>2
  <2>11. ToolItem(i) \in Nat
    <3>1. i \in Nat
      BY <2>1, StreamAssumption
    <3> HIDE DEF i
    <3> QED
      BY <3>1 DEF ToolItem
  <2>12. \E f : /\ Emit([t |-> u, c |-> e], "delta", {ToolItem(i)}) = [t |-> u, c |-> f]
                /\ ResponseUnderWay(u, f)
    BY <2>9, <2>11, DeltaKeepsResponse
  <2> QED
    BY <2>9, <2>10, <2>12
<1> QED
  BY <1>1, <1>2

LEMMA ChunkKeepsResponse ==
    ASSUME NEW t, NEW c, ResponseUnderWay(t, c), NEW k \in StreamChunks
    PROVE  \E u, d : /\ ResponsesChunk([t |-> t, c |-> c], k) = [t |-> u, c |-> d]
                     /\ ResponseUnderWay(u, d) \/ (k.finish /\ ResponseOver(u, d))
<1>1. PICK t1, c1 : Begin([t |-> t, c |-> c]) = [t |-> t1, c |-> c1] /\ ResponseUnderWay(t1, c1)
  BY BeginKeepsResponse
<1>2. PICK t2, c2 : ResponsesReasoning([t |-> t1, c |-> c1], k) = [t |-> t2, c |-> c2] /\ ResponseUnderWay(t2, c2)
  <2>1. CASE k.think
    <3>1. Reasoning \in Announceable(t1)
      BY DEF Announceable
    <3>2. \E u, d : /\ Emit(AddItem([t |-> t1, c |-> c1], Reasoning), "delta", {Reasoning}) = [t |-> u, c |-> d]
                    /\ ResponseUnderWay(u, d)
      BY <1>1, <3>1, WriteItemKeepsResponse
    <3> QED
      BY <2>1, <3>2 DEF ResponsesReasoning
  <2>2. CASE ~k.think
    BY <1>1, <2>2 DEF ResponsesReasoning
  <2> QED
    BY <2>1, <2>2
<1>3. PICK t3, c3 : ResponsesContent([t |-> t2, c |-> c2], k) = [t |-> t3, c |-> c3] /\ ResponseUnderWay(t3, c3)
  BY <1>2, ContentKeepsResponse
<1>4. PICK t4, c4 : ResponsesTool([t |-> t3, c |-> c3], k) = [t |-> t4, c |-> c4] /\ ResponseUnderWay(t4, c4)
  BY <1>3, CallKeepsResponse
<1>5. PICK t5, c5 : CloseResponse([t |-> t4, c |-> c4]) = [t |-> t5, c |-> c5] /\ ResponseOver(t5, c5)
  BY <1>4, CloseEndsResponse
<1>6. ResponsesChunk([t |-> t, c |-> c], k) =
        IF k.content = "text" /\ t3.inThinking THEN [t |-> t3, c |-> c3]
        ELSE IF k.finish THEN [t |-> t5, c |-> c5] ELSE [t |-> t4, c |-> c4]
  BY <1>1, <1>2, <1>3, <1>4, <1>5 DEF ResponsesChunk
<1> QED
  BY <1>3, <1>4, <1>5, <1>6

LEMMA FlushEndsResponse ==
    ASSUME NEW t, NEW c, ResponseUnderWay(t, c) \/ ResponseOver(t, c)
    PROVE  \E u, d : ResponsesFlush([t |-> t, c |-> c]) = [t |-> u, c |-> d] /\ ResponseOver(u, d)
<1>1. CASE ResponseUnderWay(t, c)
  <2>1. ~t.completed
    BY <1>1 DEF ResponseUnderWay
  <2>2. ResponsesFlush([t |-> t, c |-> c]) = CloseResponse([t |-> t, c |-> c])
    BY <2>1 DEF ResponsesFlush
  <2> QED
    BY <1>1, <2>2, CloseEndsResponse
<1>2. CASE ResponseOver(t, c)
  <2>1. t.completed
    BY <1>2 DEF ResponseOver
  <2>2. ResponsesFlush([t |-> t, c |-> c]) = [t |-> t, c |-> c]
    BY <2>1 DEF ResponsesFlush
  <2> QED
    BY <1>2, <2>2
<1> QED
  BY <1>1, <1>2
(* The steps *)

LEMMA StepsKeepBooks ==
    ASSUME StreamBooks, StreamNext
    PROVE  StreamBooks' /\ route' = route
<1>0. StreamFlags /\ StreamCounts /\ tails \in 0 .. 1 /\ settled \in Nat
  BY DEF StreamBooks, StreamCounts
<1>1. ASSUME NEW c \in StreamChunks, TransformChunk(c)
      PROVE  StreamBooks' /\ route' = route
  <2>1. /\ phase = "flowing" /\ c.finish \in BOOLEAN /\ finished' = c.finish /\ stallArmed' = TRUE
        /\ UNCHANGED <<route, gotDone, terminalSeen, phase, doneSent, tails, settled, stale>>
    BY <1>1 DEF TransformChunk, StreamChunks
  <2> QED
    BY <1>0, <2>1 DEF StreamBooks, StreamFlags, StreamCounts
<1>2. ASSUME NEW terminal \in BOOLEAN, PassEvent(terminal)
      PROVE  StreamBooks' /\ route' = route
  <2>1. StreamFlags' /\ route' = route
    BY <1>0, <1>2 DEF StreamFlags, PassEvent
  <2>2. /\ phase = "flowing" /\ phase' = "flowing" /\ settled' = settled
        /\ tails' = tails \/ tails' = (IF tails = 0 THEN 1 ELSE tails)
    BY <1>2 DEF PassEvent, FinalizeStream
  <2>3. StreamCounts'
    BY <1>0, <2>2 DEF StreamCounts
  <2> QED
    BY <2>1, <2>3 DEF StreamBooks
<1>3. ASSUME TransformDone
      PROVE  StreamBooks' /\ route' = route
  <2>1. StreamFlags' /\ route' = route
    BY <1>0, <1>3 DEF StreamFlags, TransformDone
  <2>2. UNCHANGED <<phase, tails, settled>>
    BY <1>3 DEF TransformDone
  <2> QED
    BY <1>0, <2>1, <2>2 DEF StreamBooks, StreamCounts
<1>4. ASSUME ProviderEnds
      PROVE  StreamBooks' /\ route' = route
  <2>1. PICK p, rest : Flush(p, rest)
    BY <1>4 DEF ProviderEnds
  <2>2. StreamFlags' /\ route' = route
    BY <1>0, <2>1 DEF StreamFlags, Flush
  <2>3. /\ phase = "flowing" /\ phase' = "flushed" /\ settled' = settled + 1
        /\ tails' = (IF tails = 0 THEN 1 ELSE tails)
    BY <2>1 DEF Flush, FinalizeStream
  <2>4. StreamCounts'
    BY <1>0, <2>3 DEF StreamCounts
  <2> QED
    BY <2>2, <2>4 DEF StreamBooks
<1>5. ASSUME Complete
      PROVE  StreamBooks' /\ route' = route
  <2>1. StreamFlags' /\ route' = route
    BY <1>0, <1>5 DEF StreamFlags, Complete
  <2>2. phase = "flushed" /\ phase' = "complete" /\ UNCHANGED <<tails, settled>>
    BY <1>5 DEF Complete
  <2>3. StreamCounts'
    BY <1>0, <2>2 DEF StreamCounts
  <2> QED
    BY <2>1, <2>3 DEF StreamBooks
<1>6. ASSUME UpstreamBreaks \/ StallFires \/ ClientCloses
      PROVE  StreamBooks' /\ route' = route
  <2>1. stallArmed => phase = "flowing"
    BY <1>0 DEF StreamFlags
  <2>2. StreamFlags' /\ route' = route
    BY <1>0, <1>6, <2>1 DEF StreamFlags, UpstreamBreaks, StallFires, ClientCloses, HandleError
  <2>3. /\ phase' \in {"broken", "closed"} /\ tails' = tails
        /\ settled' = settled \/ settled' = settled + 1
    BY <1>6, <2>1 DEF UpstreamBreaks, StallFires, ClientCloses, HandleError
  <2>4. StreamCounts'
    BY <1>0, <2>3 DEF StreamCounts
  <2> QED
    BY <2>2, <2>4 DEF StreamBooks
<1> QED
  BY <1>1, <1>2, <1>3, <1>4, <1>5, <1>6 DEF StreamNext

LEMMA StepsTellClaude ==
    ASSUME StreamBooks, route = "claude", ClaudeIsTold, StreamNext
    PROVE  ClaudeIsTold'
<1>1. ASSUME NEW t, NEW c, ClaudeUnderWay(t, c)
      PROVE  ClaudeOver(t, c)
  BY <1>1 DEF ClaudeOver, ClaudeUnderWay
<1>2. ASSUME NEW c \in StreamChunks, ~finished, phase = "flowing"
      PROVE  \E u, d : /\ ClaudeChunk(Translation, c) = [t |-> u, c |-> d]
                       /\ ClaudeOver(u, d)
                       /\ ~c.finish => ClaudeUnderWay(u, d)
  <2>1. ClaudeUnderWay(translator, client)
    BY <1>2 DEF ClaudeIsTold
  <2>2. \E u, d : /\ ClaudeChunk([t |-> translator, c |-> client], c) = [t |-> u, c |-> d]
                  /\ IF c.finish THEN ClaudeOver(u, d) ELSE ClaudeUnderWay(u, d)
    BY <2>1, ChunkKeepsClaude
  <2> QED
    BY <1>1, <2>2 DEF Translation
<1>3. ASSUME NEW c \in StreamChunks, TransformChunk(c)
      PROVE  ClaudeIsTold'
  <2>1. ~finished /\ phase = "flowing" /\ finished' = c.finish /\ Translate(ClaudeChunk(Translation, c))
    BY <1>3 DEF TransformChunk
  <2>2. PICK u, d : /\ ClaudeChunk(Translation, c) = [t |-> u, c |-> d]
                    /\ ClaudeOver(u, d)
                    /\ ~c.finish => ClaudeUnderWay(u, d)
    BY <1>2, <2>1
  <2>3. translator' = u /\ client' = d
    BY <2>1, <2>2 DEF Translate
  <2>4. ClaudeOver(translator', client') /\ (~c.finish => ClaudeUnderWay(translator', client'))
    BY <2>2, <2>3
  <2> QED
    BY <2>1, <2>4 DEF ClaudeIsTold, ClaudeOver, ClaudeUnderWay, Quiet
<1>4. ASSUME NEW u, NEW d, NEW rest, ClaudeOver(u, d), Flush([t |-> u, c |-> d], rest)
      PROVE  ClaudeIsTold'
  <2>1. Translate([t |-> u, c |-> d]) /\ phase' = "flushed"
    BY <1>4 DEF Flush
  <2>2. translator' = u /\ client' = d
    BY <2>1 DEF Translate
  <2>3. ClaudeOver(translator', client')
    BY <1>4, <2>2
  <2> QED
    BY <2>1, <2>3 DEF ClaudeIsTold, ClaudeOver, Quiet
<1>5. ASSUME ProviderEnds
      PROVE  ClaudeIsTold'
  <2>1. ASSUME NEW rest \in BOOLEAN, Flush(Translation, rest)
        PROVE  ClaudeIsTold'
    <3>1. ClaudeOver(translator, client) /\ Flush([t |-> translator, c |-> client], rest)
      BY <2>1 DEF ClaudeIsTold, Translation
    <3> QED
      BY <1>4, <3>1
  <2>2. ASSUME NEW c \in StreamChunks, ~finished, Flush(ClaudeChunk(Translation, c), TRUE)
        PROVE  ClaudeIsTold'
    <3>1. phase = "flowing"
      BY <2>2 DEF Flush
    <3>2. PICK u, d : ClaudeChunk(Translation, c) = [t |-> u, c |-> d] /\ ClaudeOver(u, d)
      BY <1>2, <2>2, <3>1
    <3>3. Flush([t |-> u, c |-> d], TRUE)
      BY <2>2, <3>2
    <3> QED
      BY <1>4, <3>2, <3>3
  <2> QED
    BY <1>5, <2>1, <2>2 DEF ProviderEnds
<1>6. ASSUME UNCHANGED <<translator, client, finished>>, phase' = "flowing" => phase = "flowing"
      PROVE  ClaudeIsTold'
  BY <1>6 DEF ClaudeIsTold, ClaudeOver, ClaudeUnderWay, Quiet
<1>7. (\E terminal \in BOOLEAN : PassEvent(terminal)) => FALSE
  BY DEF PassEvent, SameResponses
<1>8. TransformDone \/ Complete \/ UpstreamBreaks \/ StallFires \/ ClientCloses =>
        UNCHANGED <<translator, client, finished>> /\ (phase' = "flowing" => phase = "flowing")
  BY DEF TransformDone, Complete, UpstreamBreaks, StallFires, ClientCloses, HandleError,
         SameResponses, Passthrough
<1> QED
  BY <1>3, <1>5, <1>6, <1>7, <1>8 DEF StreamNext

LEMMA StepsTellResponses ==
    ASSUME StreamBooks, route = "responses", ResponsesIsTold, StreamNext
    PROVE  ResponsesIsTold'
<1> USE DEF Quiet
<1>1. ASSUME NEW c \in StreamChunks, TransformChunk(c)
      PROVE  ResponsesIsTold'
  <2>1. /\ ~finished /\ finished' = c.finish /\ phase = "flowing" /\ phase' = phase
        /\ Translate(ResponsesChunk(Translation, c))
    BY <1>1 DEF TransformChunk
  <2>2. ResponseUnderWay(translator, client)
    BY <2>1 DEF ResponsesIsTold
  <2>3. PICK u, d : /\ ResponsesChunk([t |-> translator, c |-> client], c) = [t |-> u, c |-> d]
                    /\ ResponseUnderWay(u, d) \/ (c.finish /\ ResponseOver(u, d))
    BY <2>2, ChunkKeepsResponse
  <2>4. translator' = u /\ client' = d
    BY <2>1, <2>3 DEF Translation, Translate
  <2>5. ResponseUnderWay(translator', client') \/ (c.finish /\ ResponseOver(translator', client'))
    BY <2>3, <2>4
  <2> QED
    BY <2>1, <2>5 DEF ResponsesIsTold, ResponseUnderWay, ResponseOver
<1>2. ASSUME NEW u, NEW d, NEW rest, ResponseUnderWay(u, d) \/ ResponseOver(u, d),
             Flush([t |-> u, c |-> d], rest)
      PROVE  ResponsesIsTold'
  <2>1. Translate(ResponsesFlush([t |-> u, c |-> d])) /\ phase' = "flushed"
    BY <1>2 DEF Flush
  <2>2. PICK v, e : ResponsesFlush([t |-> u, c |-> d]) = [t |-> v, c |-> e] /\ ResponseOver(v, e)
    BY <1>2, FlushEndsResponse
  <2>3. translator' = v /\ client' = e
    BY <2>1, <2>2 DEF Translate
  <2>4. ResponseOver(translator', client')
    BY <2>2, <2>3
  <2> QED
    BY <2>1, <2>4 DEF ResponsesIsTold, ResponseOver
<1>3. ASSUME ProviderEnds
      PROVE  ResponsesIsTold'
  <2>1. ASSUME NEW rest \in BOOLEAN, Flush(Translation, rest)
        PROVE  ResponsesIsTold'
    <3>1. /\ ResponseUnderWay(translator, client) \/ ResponseOver(translator, client)
          /\ Flush([t |-> translator, c |-> client], rest)
      BY <2>1 DEF ResponsesIsTold, Translation
    <3> QED
      BY <1>2, <3>1
  <2>2. ASSUME NEW c \in StreamChunks, ~finished, Flush(ResponsesChunk(Translation, c), TRUE)
        PROVE  ResponsesIsTold'
    <3>1. ResponseUnderWay(translator, client)
      BY <2>2 DEF Flush, ResponsesIsTold
    <3>2. PICK u, d : /\ ResponsesChunk([t |-> translator, c |-> client], c) = [t |-> u, c |-> d]
                      /\ ResponseUnderWay(u, d) \/ ResponseOver(u, d)
      BY <3>1, ChunkKeepsResponse
    <3>3. Flush([t |-> u, c |-> d], TRUE)
      BY <2>2, <3>2 DEF Translation
    <3> QED
      BY <1>2, <3>2, <3>3
  <2> QED
    BY <1>3, <2>1, <2>2 DEF ProviderEnds
<1>4. ASSUME UNCHANGED <<translator, client, finished>>,
             phase' \in {phase, "broken", "closed"} \/ (phase = "flushed" /\ phase' = "complete")
      PROVE  ResponsesIsTold'
  BY <1>4 DEF ResponsesIsTold, ResponseUnderWay, ResponseOver
<1>5. (\E terminal \in BOOLEAN : PassEvent(terminal)) => FALSE
  BY DEF PassEvent, SameResponses
<1>6. TransformDone \/ Complete \/ UpstreamBreaks \/ StallFires \/ ClientCloses =>
        /\ UNCHANGED <<translator, client, finished>>
        /\ phase' \in {phase, "broken", "closed"} \/ (phase = "flushed" /\ phase' = "complete")
  BY DEF TransformDone, Complete, UpstreamBreaks, StallFires, ClientCloses, HandleError,
         SameResponses, Passthrough
<1> QED
  BY <1>1, <1>4, <1>5, <1>6, <1>3 DEF StreamNext
\* How a client takes the end of a stream.
LEMMA EndingIsFollowed ==
    ASSUME NEW c \in Clients, NEW kind \in {"end", "failure", "done"}, NEW d, d = Follow(c, Event(kind))
    PROVE  /\ d \in Clients
           /\ d.ends = (IF kind = "end" /\ c.ends < 2 THEN c.ends + 1 ELSE c.ends)
           /\ d.failures = (IF kind = "failure" THEN c.failures + 1 ELSE c.failures)
           /\ d.dones = (IF kind = "done" THEN c.dones + 1 ELSE c.dones)
<1>1. PICK e \in Events : e = Event(kind) /\ e.kind = kind
  <2>1. Event(kind) \in Events
    BY DEF Event, Events
  <2> QED
    BY <2>1 DEF Event
<1>2. d = Follow(c, e)
  BY <1>1
<1>3. d \in Clients
  BY <1>2, ClientFollows
<1>4. /\ d.ends = (IF e.kind = "end" /\ c.ends < 2 THEN c.ends + 1 ELSE c.ends)
      /\ d.failures = (IF e.kind = "failure" THEN c.failures + 1 ELSE c.failures)
      /\ d.dones = (IF e.kind = "done" THEN c.dones + 1 ELSE c.dones)
  BY <1>2 DEF Follow
<1> QED
  BY <1>1, <1>3, <1>4

\* The failure and [DONE] a Responses client is told of when the stream breaks.
LEMMA BreakIsFollowed ==
    ASSUME NEW c \in Clients, NEW d, d = Follow(Follow(c, Event("failure")), Event("done"))
    PROVE  d \in Clients /\ d.failures = c.failures + 1 /\ d.dones = c.dones + 1
<1>1. PICK e : e = Follow(c, Event("failure"))
  OBVIOUS
<1>2. e \in Clients /\ e.failures = c.failures + 1 /\ e.dones = c.dones
  BY <1>1, EndingIsFollowed
<1>3. d = Follow(e, Event("done"))
  BY <1>1
<1>4. d \in Clients /\ d.failures = e.failures /\ d.dones = e.dones + 1
  BY <1>2, <1>3, EndingIsFollowed
<1> QED
  BY <1>2, <1>4

\* A failure, if there was no terminal event, and [DONE], unless it was sent.
LEMMA RestIsFollowed ==
    ASSUME NEW c \in Clients, NEW d, d = MissingDone(MissingTerminal(c)),
           terminalSeen \in BOOLEAN, doneSent \in BOOLEAN
    PROVE  /\ d \in Clients
           /\ d.ends = c.ends
           /\ d.failures = (IF terminalSeen THEN c.failures ELSE c.failures + 1)
           /\ d.dones = (IF doneSent THEN c.dones ELSE c.dones + 1)
<1>1. PICK e : e = MissingTerminal(c)
  OBVIOUS
<1>2. /\ e \in Clients
      /\ e.ends = c.ends
      /\ e.failures = (IF terminalSeen THEN c.failures ELSE c.failures + 1)
      /\ e.dones = c.dones
  <2>1. CASE terminalSeen
    BY <1>1, <2>1 DEF MissingTerminal
  <2>2. CASE ~terminalSeen
    <3>1. e = Follow(c, Event("failure"))
      BY <1>1, <2>2 DEF MissingTerminal
    <3> QED
      BY <2>2, <3>1, EndingIsFollowed
  <2> QED
    BY <2>1, <2>2
<1>3. d = MissingDone(e)
  BY <1>1
<1>4. CASE doneSent
  <2>1. d = e
    BY <1>3, <1>4 DEF MissingDone
  <2> QED
    BY <1>2, <1>4, <2>1
<1>5. CASE ~doneSent
  <2>1. d = Follow(e, Event("done"))
    BY <1>3, <1>5 DEF MissingDone
  <2>2. d \in Clients /\ d.ends = e.ends /\ d.failures = e.failures /\ d.dones = e.dones + 1
    BY <1>2, <2>1, EndingIsFollowed
  <2> QED
    BY <1>2, <1>5, <2>2
<1> QED
  BY <1>4, <1>5

LEMMA StepsTellCodex ==
    ASSUME StreamBooks, route = "codex", CodexIsTold, StreamNext
    PROVE  CodexIsTold'
<1>1. /\ client \in Clients /\ client.failures \in Nat /\ client.dones \in Nat
      /\ finished \in BOOLEAN /\ gotDone \in BOOLEAN /\ terminalSeen \in BOOLEAN /\ doneSent \in BOOLEAN
      /\ tails \in 0 .. 1
  BY DEF CodexIsTold, StreamBooks, StreamFlags, StreamCounts, Clients
<1>2. ASSUME NEW terminal \in BOOLEAN, PassEvent(terminal)
      PROVE  CodexIsTold'
  <2>1. /\ phase = "flowing" /\ ~gotDone /\ phase' = phase /\ gotDone' = gotDone /\ doneSent' = doneSent
        /\ finished' = (finished \/ terminal)
        /\ terminalSeen' = (terminalSeen \/ terminal)
        /\ client' = IF terminal THEN Follow(client, Event("end")) ELSE client
    BY <1>2 DEF PassEvent, Tell
  <2>2. finished' => tails' = 1
    <3>1. IF terminal \/ terminalSeen THEN tails' = (IF tails = 0 THEN 1 ELSE tails) ELSE tails' = tails
      BY <1>2 DEF PassEvent, FinalizeStream
    <3>2. finished => tails = 1
      BY DEF CodexIsTold
    <3> QED
      BY <1>1, <2>1, <3>1, <3>2
  <2>3. client' \in Clients /\ client'.failures = client.failures /\ client'.dones = client.dones
    <3>1. CASE terminal
      <4>1. client' = Follow(client, Event("end"))
        BY <2>1, <3>1
      <4> QED
        BY <1>1, <4>1, EndingIsFollowed
    <3>2. CASE ~terminal
      BY <1>1, <2>1, <3>2
    <3> QED
      BY <3>1, <3>2
  <2>4. Quiet(client) /\ ~doneSent /\ terminalSeen = finished
    BY <1>1, <2>1 DEF CodexIsTold
  <2>5. /\ client'.failures = 0 /\ client'.dones = 0 /\ doneSent' = gotDone'
        /\ terminalSeen' = (finished' \/ gotDone')
    BY <1>1, <2>1, <2>3, <2>4 DEF Quiet
  <2> QED
    BY <1>1, <2>1, <2>2, <2>3, <2>5 DEF CodexIsTold, Quiet
<1>3. ASSUME NEW c \in Clients, c.failures = client.failures, c.dones = client.dones,
             phase = "flowing", phase' \in {"flowing", "flushed"}, phase' = "flowing" => gotDone',
             finished' = finished, finished => tails' = 1,
             doneSent' = TRUE, terminalSeen' = TRUE,
             client' = MissingDone(MissingTerminal(c))
      PROVE  CodexIsTold'
  <2>1. /\ client' \in Clients
        /\ client'.failures = (IF terminalSeen THEN client.failures ELSE client.failures + 1)
        /\ client'.dones = (IF doneSent THEN client.dones ELSE client.dones + 1)
    BY <1>1, <1>3, RestIsFollowed
  <2>2. client'.dones = 1 /\ client'.failures = (IF finished THEN 0 ELSE 1)
    <3>1. CASE gotDone
      <4>1. doneSent /\ terminalSeen /\ client.dones = 1 /\ client.failures = (IF finished THEN 0 ELSE 1)
        BY <1>1, <1>3, <3>1 DEF CodexIsTold
      <4> QED
        BY <2>1, <4>1
    <3>2. CASE ~gotDone
      <4>1. ~doneSent /\ terminalSeen = finished /\ client.dones = 0 /\ client.failures = 0
        BY <1>1, <1>3, <3>2 DEF CodexIsTold, Quiet
      <4>2. client'.dones = 1
        BY <2>1, <4>1
      <4>3. CASE terminalSeen
        BY <2>1, <4>1, <4>2, <4>3
      <4>4. CASE ~terminalSeen
        BY <2>1, <4>1, <4>2, <4>4
      <4> QED
        BY <4>3, <4>4
    <3> QED
      BY <3>1, <3>2
  <2>3. client'.failures <= 2 /\ client'.dones <= 2
    BY <2>2
  <2> QED
    BY <1>3, <2>1, <2>2, <2>3 DEF CodexIsTold, Quiet
<1>4. ASSUME TransformDone
      PROVE  CodexIsTold'
  <2>1. /\ phase = "flowing" /\ phase' = "flowing" /\ gotDone' = TRUE
        /\ finished' = finished /\ tails' = tails
    BY <1>4 DEF TransformDone
  <2>2. client' = MissingDone(MissingTerminal(client))
    BY <1>4 DEF TransformDone, Passthrough
  <2>3. doneSent' = TRUE /\ terminalSeen' = TRUE
    BY <1>4 DEF TransformDone, Passthrough
  <2>4. finished => tails' = 1
    BY <2>1 DEF CodexIsTold
  <2> QED
    BY <1>1, <1>3, <2>1, <2>3, <2>4, <2>2
<1>5. ASSUME NEW c \in Clients, c.failures = client.failures, c.dones = client.dones,
             NEW rest, Flush([t |-> translator, c |-> c], rest)
      PROVE  CodexIsTold'
  <2>1. /\ phase = "flowing" /\ phase' = "flushed"
        /\ finished' = finished /\ tails' = (IF tails = 0 THEN 1 ELSE tails)
    BY <1>5 DEF Flush, FinalizeStream
  <2>2. client' = MissingDone(MissingTerminal(c))
    <3>1. Translate([[t |-> translator, c |-> c] EXCEPT !.c = MissingDone(MissingTerminal(c))])
      BY <1>5 DEF Flush
    <3> QED
      BY <3>1 DEF Translate
  <2>3. doneSent' = TRUE /\ terminalSeen' = TRUE
    BY <1>5 DEF Flush
  <2>4. tails' = 1
    BY <1>1, <2>1
  <2> QED
    BY <1>3, <1>5, <2>1, <2>2, <2>3, <2>4
<1>6. ASSUME ProviderEnds
      PROVE  CodexIsTold'
  <2>1. ASSUME NEW rest \in BOOLEAN, Flush(Translation, rest)
        PROVE  CodexIsTold'
    BY <1>1, <1>5, <2>1 DEF Translation
  <2>2. ASSUME Flush([Translation EXCEPT !.c = Follow(client, Event("end"))], TRUE)
        PROVE  CodexIsTold'
    <3>1. PICK c : c = Follow(client, Event("end"))
      OBVIOUS
    <3>2. c \in Clients /\ c.failures = client.failures /\ c.dones = client.dones
      BY <1>1, <3>1, EndingIsFollowed
    <3>3. [Translation EXCEPT !.c = Follow(client, Event("end"))] = [t |-> translator, c |-> c]
      BY <3>1 DEF Translation
    <3>4. Flush([t |-> translator, c |-> c], TRUE)
      BY <2>2, <3>3
    <3> QED
      BY <1>5, <3>2, <3>4
  <2> QED
    BY <1>6, <2>1, <2>2 DEF ProviderEnds
<1>7. ASSUME phase = "flowing", HandleError(TRUE) \/ HandleError(FALSE),
             UNCHANGED <<finished, tails>>
      PROVE  CodexIsTold'
  <2>1. phase' = "broken" /\ client' = Follow(Follow(client, Event("failure")), Event("done"))
    BY <1>7 DEF HandleError, SameResponses
  <2>2. /\ client' \in Clients /\ client'.failures = client.failures + 1
        /\ client'.dones = client.dones + 1
    BY <1>1, <2>1, BreakIsFollowed
  <2>3. client.failures <= 1 /\ client.dones <= 1
    BY <1>1, <1>7 DEF CodexIsTold, Quiet
  <2>4. client'.failures <= 2 /\ client'.dones <= 2
    BY <1>1, <2>2, <2>3
  <2> QED
    BY <1>7, <2>1, <2>2, <2>4 DEF CodexIsTold
<1>8. ASSUME UpstreamBreaks
      PROVE  CodexIsTold'
  BY <1>7, <1>8 DEF UpstreamBreaks
<1>9. ASSUME StallFires
      PROVE  CodexIsTold'
  BY <1>7, <1>9 DEF StallFires, StreamBooks, StreamFlags, StreamCounts
<1>10. ASSUME Complete \/ ClientCloses
       PROVE  CodexIsTold'
  <2>1. /\ UNCHANGED <<client, finished, tails, gotDone>>
        /\ phase' = "closed" \/ (phase = "flushed" /\ phase' = "complete")
    BY <1>10 DEF Complete, ClientCloses
  <2> QED
    BY <2>1 DEF CodexIsTold, Quiet
<1>11. (\E c \in StreamChunks : TransformChunk(c)) => FALSE
  BY DEF TransformChunk
<1> QED
  BY <1>2, <1>4, <1>6, <1>8, <1>9, <1>10, <1>11 DEF StreamNext

LEMMA StepsTellLines ==
    ASSUME StreamBooks, route \in Passthrough, LinesAreTold, StreamNext
    PROVE  LinesAreTold'
<1>1. /\ client \in Clients /\ client.failures \in Nat /\ client.dones \in Nat
      /\ gotDone \in BOOLEAN /\ finished \in BOOLEAN /\ ~doneSent /\ tails \in 0 .. 1
      /\ client.failures <= (IF phase = "broken" THEN 1 ELSE 0)
      /\ client.dones <= (IF gotDone THEN 1 ELSE 0) + (IF phase = "flowing" THEN 0 ELSE 1)
      /\ route = "raw" /\ finished => tails = 1
  BY DEF LinesAreTold, StreamBooks, StreamFlags, StreamCounts, Clients
<1>2. ASSUME NEW kind \in {"end", "done"}, NEW due \in BOOLEAN, NEW d,
             d = IF due THEN Follow(client, Event(kind)) ELSE client
      PROVE  /\ d \in Clients /\ d.failures = client.failures
             /\ d.dones = (IF due /\ kind = "done" THEN client.dones + 1 ELSE client.dones)
  <2>1. CASE due
    BY <1>1, <1>2, <2>1, EndingIsFollowed
  <2>2. CASE ~due
    BY <1>1, <1>2, <2>2
  <2> QED
    BY <2>1, <2>2
<1>3. ASSUME NEW c \in StreamChunks, TransformChunk(c)
      PROVE  LinesAreTold'
  <2>1. /\ UNCHANGED <<route, phase, gotDone, doneSent>> /\ route # "raw"
        /\ client' = IF c.finish THEN Follow(client, Event("end")) ELSE client
    BY <1>3 DEF TransformChunk, Tell, Passthrough
  <2>2. c.finish \in BOOLEAN
    BY DEF StreamChunks
  <2>3. client' \in Clients /\ client'.failures = client.failures /\ client'.dones = client.dones
    BY <1>2, <2>1, <2>2
  <2> QED
    BY <1>1, <2>1, <2>3 DEF LinesAreTold
<1>4. ASSUME NEW terminal \in BOOLEAN, PassEvent(terminal)
      PROVE  LinesAreTold'
  <2>1. /\ UNCHANGED <<route, phase, gotDone, doneSent>>
        /\ finished' = (finished \/ terminal)
        /\ client' = IF terminal THEN Follow(client, Event("end")) ELSE client
    BY <1>4 DEF PassEvent, Tell
  <2>2. client' \in Clients /\ client'.failures = client.failures /\ client'.dones = client.dones
    BY <1>2, <2>1
  <2>3. IF terminal \/ terminalSeen THEN tails' = (IF tails = 0 THEN 1 ELSE tails) ELSE tails' = tails
    BY <1>4 DEF PassEvent, FinalizeStream
  <2>4. route = "raw" /\ finished' => tails' = 1
    BY <1>1, <2>1, <2>3
  <2> QED
    BY <1>1, <2>1, <2>2, <2>4 DEF LinesAreTold
<1>5. ASSUME TransformDone
      PROVE  LinesAreTold'
  <2>1. /\ phase = "flowing" /\ ~gotDone /\ gotDone' = TRUE
        /\ UNCHANGED <<route, phase, finished, tails>>
    BY <1>5 DEF TransformDone
  <2>2. doneSent' = FALSE
    BY <1>1, <1>5 DEF TransformDone
  <2>3. client' = IF TRUE THEN Follow(client, Event("done")) ELSE client
    <3>1. route # "codex"
      BY DEF Passthrough
    <3>2. Tell("done", TRUE)
      BY <1>5, <3>1 DEF TransformDone
    <3> QED
      BY <3>2 DEF Tell
  <2>4. client' \in Clients /\ client'.failures = client.failures /\ client'.dones = client.dones + 1
    BY <1>2, <2>3
  <2> QED
    BY <1>1, <2>1, <2>2, <2>4 DEF LinesAreTold
<1>6. ASSUME NEW rest, Flush(Translation, rest)
      PROVE  LinesAreTold'
  <2>0. route \notin {"responses", "claude", "codex"}
    BY DEF Passthrough
  <2>1. /\ phase = "flowing" /\ phase' = "flushed" /\ UNCHANGED <<route, gotDone, finished>>
        /\ tails' = (IF tails = 0 THEN 1 ELSE tails)
    BY <1>6 DEF Flush, FinalizeStream
  <2>2. doneSent' = FALSE
    BY <1>1, <1>6, <2>0 DEF Flush
  <2>3. client' = IF rest THEN client ELSE MissingDone(client)
    <3>1. Translate(IF rest THEN Translation ELSE [Translation EXCEPT !.c = MissingDone(Translation.c)])
      BY <1>6, <2>0 DEF Flush
    <3> QED
      BY <3>1 DEF Translate, Translation
  <2>4. MissingDone(client) = IF TRUE THEN Follow(client, Event("done")) ELSE client
    BY <1>1 DEF MissingDone
  <2>5. MissingDone(client) \in Clients /\ MissingDone(client).failures = client.failures
        /\ MissingDone(client).dones = client.dones + 1
    BY <1>2, <2>4
  <2>6. client' \in Clients /\ client'.failures = client.failures
        /\ client'.dones \in {client.dones, client.dones + 1}
    <3>1. CASE rest
      BY <1>1, <2>3, <3>1
    <3>2. CASE ~rest
      BY <2>3, <2>5, <3>2
    <3> QED
      BY <3>1, <3>2
  <2>7. tails' = 1
    BY <1>1, <2>1
  <2> QED
    BY <1>1, <2>1, <2>2, <2>6, <2>7 DEF LinesAreTold
<1>7. ASSUME ProviderEnds
      PROVE  LinesAreTold'
  BY <1>6, <1>7 DEF ProviderEnds, Passthrough
<1>8. ASSUME phase = "flowing", HandleError(TRUE) \/ HandleError(FALSE),
             UNCHANGED <<route, finished, tails, gotDone, doneSent>>
      PROVE  LinesAreTold'
  <2>1. phase' = "broken"
    BY <1>8 DEF HandleError
  <2>2. client' \in Clients /\ client'.failures <= client.failures + 1 /\ client'.dones <= client.dones + 1
    <3>1. CASE route \in SameResponses
      <4>1. client' = Follow(Follow(client, Event("failure")), Event("done"))
        BY <1>8, <3>1 DEF HandleError
      <4> QED
        BY <1>1, <4>1, BreakIsFollowed
    <3>2. CASE route \notin SameResponses
      BY <1>1, <1>8, <3>2 DEF HandleError
    <3> QED
      BY <3>1, <3>2
  <2>3. client'.failures <= 1 /\ client'.dones <= (IF gotDone THEN 1 ELSE 0) + 1
    <3>1. client'.failures \in Nat /\ client'.dones \in Nat
      BY <2>2 DEF Clients
    <3> QED
      BY <1>1, <1>8, <2>2, <3>1
  <2> QED
    BY <1>1, <1>8, <2>1, <2>2, <2>3 DEF LinesAreTold
<1>9. ASSUME UpstreamBreaks
      PROVE  LinesAreTold'
  BY <1>8, <1>9 DEF UpstreamBreaks
<1>10. ASSUME StallFires
       PROVE  LinesAreTold'
  BY <1>8, <1>10 DEF StallFires, StreamBooks, StreamFlags, StreamCounts
<1>11. ASSUME Complete \/ ClientCloses
       PROVE  LinesAreTold'
  <2>1. /\ UNCHANGED <<route, client, gotDone, doneSent, finished, tails>>
        /\ phase \in {"flowing", "flushed"} /\ phase' \in {"complete", "closed"}
    BY <1>11 DEF Complete, ClientCloses
  <2> QED
    BY <1>1, <2>1 DEF LinesAreTold
<1> QED
  BY <1>3, <1>4, <1>5, <1>7, <1>9, <1>10, <1>11 DEF StreamNext

LEMMA StepsKeepStream ==
    StreamInvariant /\ [StreamNext]_streamVars => StreamInvariant'
<1>1. ASSUME StreamInvariant, StreamNext
      PROVE  StreamInvariant'
  <2>1. StreamBooks' /\ route' = route
    BY <1>1, StepsKeepBooks DEF StreamInvariant
  <2>2. route = "claude" => ClaudeIsTold'
    BY <1>1, StepsTellClaude DEF StreamInvariant
  <2>3. route = "responses" => ResponsesIsTold'
    BY <1>1, StepsTellResponses DEF StreamInvariant
  <2>4. route = "codex" => CodexIsTold'
    BY <1>1, StepsTellCodex DEF StreamInvariant
  <2>5. route \in Passthrough => LinesAreTold'
    BY <1>1, StepsTellLines DEF StreamInvariant
  <2> QED
    BY <2>1, <2>2, <2>3, <2>4, <2>5 DEF StreamInvariant
<1>2. ASSUME StreamInvariant, UNCHANGED streamVars
      PROVE  StreamInvariant'
  BY <1>2 DEF StreamInvariant, streamVars, StreamBooks, StreamFlags, StreamCounts, ClaudeIsTold, ClaudeOver, ClaudeUnderWay, Quiet,
              ResponsesIsTold, ResponseUnderWay, ResponseOver, CodexIsTold, LinesAreTold
<1> QED
  BY <1>1, <1>2

LEMMA StreamStarts ==
    StreamInit => StreamInvariant
<1> SUFFICES ASSUME StreamInit
             PROVE  StreamInvariant
  OBVIOUS
<1>1. StreamBooks
  <2>1. StreamFlags
    BY DEF StreamInit, StreamFlags
  <2>2. StreamCounts
    BY DEF StreamInit, StreamCounts
  <2> QED
    BY <2>1, <2>2 DEF StreamBooks
<1>2. PICK c : c = NewClient
  OBVIOUS
<1>3. /\ c \in Clients /\ Quiet(c) /\ c.faults = {} /\ c.ends = 0 /\ c.begun = FALSE
      /\ c.open = {} /\ c.closed = {}
  BY <1>2 DEF NewClient, Clients, Quiet
<1>4. client = c
  BY <1>2 DEF StreamInit
<1>5. ASSUME route = "claude"
      PROVE  ClaudeIsTold
  <2>1. PICK t : t = ClaudeStart
    OBVIOUS
  <2>2. /\ t \in ClaudeStates /\ t.begun = FALSE /\ t.thinking = 0 /\ t.text = 0
        /\ \A i \in Tools : t.tools[i] = 0
    BY <2>1 DEF ClaudeStart, ClaudeStates
  <2>3. ClaudeUnderWay(t, c)
    BY <1>3, <2>2 DEF ClaudeUnderWay
  <2>4. translator = t
    BY <1>5, <2>1 DEF StreamInit
  <2>5. ClaudeOver(t, c)
    BY <1>3, <2>2 DEF ClaudeOver
  <2> QED
    BY <1>4, <2>3, <2>4, <2>5 DEF ClaudeIsTold
<1>6. ASSUME route = "responses"
      PROVE  ResponsesIsTold
  <2>1. PICK t : t = ResponsesStart
    OBVIOUS
  <2>2. /\ t \in ResponsesStates /\ t.begun = FALSE /\ t.added = {} /\ t.done = {}
        /\ t.completed = FALSE
    BY <2>1 DEF ResponsesStart, ResponsesStates
  <2>3. ResponseUnderWay(t, c)
    BY <1>3, <2>2 DEF ResponseUnderWay
  <2>4. phase = "flowing" /\ translator = t
    BY <1>6, <2>1 DEF StreamInit
  <2> QED
    BY <1>4, <2>3, <2>4 DEF ResponsesIsTold
<1>7. CodexIsTold
  <2>1. doneSent = gotDone /\ terminalSeen = (finished \/ gotDone) /\ gotDone = FALSE
        /\ finished = FALSE /\ phase = "flowing"
    BY DEF StreamInit
  <2> QED
    BY <1>3, <1>4, <2>1 DEF CodexIsTold, Quiet
<1>8. LinesAreTold
  BY <1>3, <1>4 DEF StreamInit, LinesAreTold, Quiet
<1> QED
  BY <1>1, <1>5, <1>6, <1>7, <1>8 DEF StreamInvariant

LEMMA StreamIsServed ==
    StreamInvariant => StreamTypeOK /\ StreamIsWellFormed /\ EndIsOrderly
<1> SUFFICES ASSUME StreamInvariant
             PROVE  StreamTypeOK /\ StreamIsWellFormed /\ EndIsOrderly
  OBVIOUS
<1>1. StreamBooks
  BY DEF StreamInvariant
<1>2. route = "claude" => client \in Clients /\ client.faults = {} /\ Quiet(client)
  BY DEF StreamInvariant, ClaudeIsTold, ClaudeOver, ClaudeUnderWay
<1>3. route = "responses" =>
        /\ client \in Clients /\ client.faults \subseteq ItemFaults /\ Quiet(client)
        /\ phase = "complete" => client.ends = 1
  BY DEF StreamInvariant, ResponsesIsTold, ResponseOver, ResponseUnderWay
<1>4. route = "codex" => CodexIsTold
  BY DEF StreamInvariant
<1>5. route \in Passthrough =>
        /\ client \in Clients /\ client.failures <= 2 /\ client.dones <= 2
        /\ route = "raw" /\ finished => tails = 1
  BY DEF StreamInvariant, LinesAreTold, Clients
<1>6. /\ client \in Clients
      /\ client.failures <= 2 /\ client.dones <= 2
  BY <1>1, <1>2, <1>3, <1>4, <1>5 DEF StreamBooks, StreamFlags, StreamCounts, Routes, Passthrough, CodexIsTold, Quiet
<1>7. StreamTypeOK
  <2>1. /\ client.faults \subseteq Faults /\ client.ends \in 0 .. 2
        /\ client.failures \in 0 .. 2 /\ client.dones \in 0 .. 2
    BY <1>6 DEF Clients
  <2>2. tails \in Nat /\ settled \in Nat
    BY <1>1 DEF StreamBooks, StreamCounts
  <2>3. /\ route \in Routes
        /\ {finished, gotDone, terminalSeen, doneSent, stallArmed, stale} \subseteq BOOLEAN
        /\ phase \in {"flowing", "flushed", "complete", "broken", "closed"}
    BY <1>1 DEF StreamBooks, StreamFlags
  <2> QED
    BY <2>1, <2>2, <2>3 DEF StreamTypeOK
<1>8. StreamIsWellFormed
  BY <1>2, <1>3 DEF StreamIsWellFormed, ItemFaults
<1>9. EndIsOrderly
  <2>1. route \in SameResponses /\ finished => tails = 1
    BY <1>4, <1>5 DEF SameResponses, Passthrough, CodexIsTold
  <2> QED
    BY <1>1, <1>3, <1>4, <2>1 DEF EndIsOrderly, StreamBooks, StreamFlags, StreamCounts, CodexIsTold
<1> QED
  BY <1>7, <1>8, <1>9

\* Whatever chunks the provider sends and wherever it stops, a Claude client's blocks and
\* a Responses client's items open and close in order; the tail of the stream (usage,
\* request record) never runs twice and has run when a terminal event came in a whole line
\* or the stream was read to its end.
THEOREM StreamsAreOrderly ==
    StreamSpec => [](StreamTypeOK /\ StreamIsWellFormed /\ EndIsOrderly)
<1>1. StreamSpec => []StreamInvariant
  BY StreamStarts, StepsKeepStream, PTL DEF StreamSpec
<1> QED
  BY <1>1, StreamIsServed, PTL
-----------------------------------------------------------------------------
(* The four services together *)

RequestInvariant ==
    /\ service \in {"selection", "combo", "fusion", "stream"}
    /\ UsageInvariant
    /\ ComboInvariant
    /\ FusionInvariant
    /\ StreamInvariant

\* A step of one service is a step, or a stutter, of each.
LEMMA StepsAreOfServices ==
    [RequestServicesNext]_requestVars =>
        /\ UNCHANGED service
        /\ [SelectionNext]_selectionVars
        /\ [ComboNext]_comboVars
        /\ [FusionNext]_fusionVars
        /\ [StreamNext]_streamVars
  BY DEF RequestServicesNext, requestVars

LEMMA StepsKeepRequests ==
    RequestInvariant /\ [RequestServicesNext]_requestVars => RequestInvariant'
  BY StepsAreOfServices, StepsKeepUsage, StepsKeepCombo, StepsKeepFusion, StepsKeepStream
     DEF RequestInvariant

LEMMA RequestsHold == RequestServicesSpec => []RequestInvariant
<1>1. RequestServicesInit => RequestInvariant
  BY UsageStarts, ComboStarts, FusionStarts, StreamStarts DEF RequestServicesInit, RequestInvariant
<1> QED
  BY <1>1, StepsKeepRequests, PTL DEF RequestServicesSpec

\* The variables of the four services keep their types, for every value of the constants:
\* among others the counters of active requests, the plans of combos and the numbers of
\* content blocks and output items, and no service writes what belongs to another.
THEOREM RequestTypes == RequestServicesSpec => []RequestServicesTypeOK
<1>1. RequestInvariant => RequestServicesTypeOK
  BY UsageIsFair, ComboTypes, FusionTypes, StreamIsServed
     DEF RequestInvariant, RequestServicesTypeOK
<1> QED
  BY <1>1, RequestsHold, PTL

\* What is proved of each service alone holds of the router that runs all of them: the
\* selection is a mutex and takes turns, anchors and counters follow the answers, every
\* answer of a panel is judged, and the streams of clients are well formed.
THEOREM RequestsAreSafe ==
    RequestServicesSpec =>
        []( /\ SelectionIsExclusive /\ RotationIsFair
            /\ AnchorIsLatestAnswer /\ ActiveIsExact
            /\ AnswersReachTheJudge
            /\ StreamIsWellFormed /\ EndIsOrderly )
<1>1. RequestInvariant => SelectionIsExclusive /\ RotationIsFair
  BY UsageIsFair DEF RequestInvariant, UsageInvariant, ChainInvariant
<1>2. RequestInvariant => AnchorIsLatestAnswer /\ ActiveIsExact
  BY DEF RequestInvariant, ComboInvariant, CountInvariant, ActiveIsExact, Waiting
<1>3. RequestInvariant => AnswersReachTheJudge
  BY PanelIsJudged DEF RequestInvariant, FusionInvariant
<1>4. RequestInvariant => StreamIsWellFormed /\ EndIsOrderly
  BY StreamIsServed DEF RequestInvariant
<1> QED
  BY <1>1, <1>2, <1>3, <1>4, RequestsHold, PTL
=============================================================================
