----------------------------- MODULE ComboProofs -----------------------------
(***************************************************************************)
(* Theorems about ComboFallback, for any number of requests, targets and   *)
(* accounts, and about FusionPanel, for panels of any size.                *)
(***************************************************************************)
EXTENDS ComboFallback, FusionPanel, FiniteSetTheorems, SequenceTheorems, TLAPS

(* The loop over the targets *)

RaceTypeOK ==
    /\ comboPc \in [ComboRequests -> {"idle", "next", "awaiting", "cooling"}]
    /\ plan \in [ComboRequests -> Seq(Targets)]
    /\ attempt \in [ComboRequests -> [Targets -> Attempts]]
    /\ \A q \in ComboRequests : comboPc[q] \in {"awaiting", "cooling"} => plan[q] # <<>>

\* An attempt whose race is not lost is awaited, and the other way round.
Racing(q, t) == attempt[q][t] # NoAttempt /\ ~attempt[q][t].lost

AwaitedIsRacing == \A q \in ComboRequests, t \in Targets : Awaited(q, t) <=> Racing(q, t)

Waiting(t) == {q \in ComboRequests : Awaited(q, t)}

RaceInvariant == RaceTypeOK /\ AwaitedIsRacing

\* The requests whose race is not the one of request q do not notice its step.
OnlyRaceOf(q) ==
    /\ \A r \in ComboRequests \ {q} :
         comboPc'[r] = comboPc[r] /\ plan'[r] = plan[r] /\ attempt'[r] = attempt[r]

\* Request q's races after a step, for itself.
RaceOK(q) ==
    /\ comboPc[q] \in {"idle", "next", "awaiting", "cooling"}
    /\ plan[q] \in Seq(Targets)
    /\ attempt[q] \in [Targets -> Attempts]
    /\ comboPc[q] \in {"awaiting", "cooling"} => plan[q] # <<>>
    /\ \A t \in Targets : Awaited(q, t) <=> Racing(q, t)

RacesAreFunctions ==
    /\ comboPc = [q \in ComboRequests |-> comboPc[q]]
    /\ plan = [q \in ComboRequests |-> plan[q]]
    /\ attempt = [q \in ComboRequests |-> attempt[q]]

LEMMA RaceByRequest ==
    RaceInvariant <=> RacesAreFunctions /\ \A q \in ComboRequests : RaceOK(q)
  BY DEF RaceInvariant, RaceTypeOK, AwaitedIsRacing, RacesAreFunctions, RaceOK

LEMMA RaceOfOne ==
    ASSUME RaceInvariant, NEW q \in ComboRequests, OnlyRaceOf(q), RacesAreFunctions', RaceOK(q)'
    PROVE  RaceInvariant'
<1>1. ASSUME NEW r \in ComboRequests, r # q
      PROVE  RaceOK(r)'
  <2>1. RaceOK(r)
    BY RaceByRequest
  <2>2. comboPc'[r] = comboPc[r] /\ plan'[r] = plan[r] /\ attempt'[r] = attempt[r]
    BY <1>1 DEF OnlyRaceOf
  <2> QED
    BY <2>1, <2>2 DEF RaceOK, Awaited, Trying, Racing
<1>2. \A r \in ComboRequests : RaceOK(r)'
  BY <1>1
<1>3. RaceTypeOK' /\ AwaitedIsRacing'
  BY <1>2 DEF RaceTypeOK, AwaitedIsRacing, RacesAreFunctions, RaceOK
<1> QED
  BY <1>3 DEF RaceInvariant

\* What is left of a plan is a plan.
LEMMA PlanGoesOn ==
    ASSUME NEW s \in Seq(Targets), s # <<>>
    PROVE  Tail(s) \in Seq(Targets) /\ Head(s) \in Targets
  BY HeadTailProperties

LEMMA AttemptTypes ==
    /\ NoAttempt \in Attempts /\ ~NoAttempt.lost
    /\ \A c \in ComboAccounts, tried \in SUBSET ComboAccounts, lost \in BOOLEAN :
         /\ [on |-> c, tried |-> tried, lost |-> lost] \in Attempts
         /\ [on |-> c, tried |-> tried, lost |-> lost] # NoAttempt
    /\ \A a \in Attempts : a # NoAttempt =>
         a.on \in ComboAccounts /\ a.tried \in SUBSET ComboAccounts /\ a.lost \in BOOLEAN
  BY ComboAssumption DEF Attempts, NoAttempt

-----------------------------------------------------------------------------
(* The steps of a request *)

LEMMA OrderKeepsRaces ==
    ASSUME RaceInvariant, NEW q \in ComboRequests, NEW healthy \in BOOLEAN,
           NEW o \in SetToSeqs(Targets), Order(q, healthy, o)
    PROVE  RaceInvariant'
<1> USE DEF RaceInvariant, RaceTypeOK
<1>1. Cardinality(Targets) \in Nat
  BY ComboAssumption, FS_CardinalityType
<1>2. o \in Seq(Targets)
  BY <1>1 DEF SetToSeqs
<1>3. /\ comboPc' = [comboPc EXCEPT ![q] = "next"]
      /\ plan' = [plan EXCEPT ![q] = o]
      /\ UNCHANGED attempt
      /\ \A t \in Targets : attempt[q][t] = NoAttempt
  BY DEF Order
<1>4. RaceOK(q)'
  BY <1>2, <1>3 DEF RaceOK, Awaited, Racing
<1>5. OnlyRaceOf(q) /\ RacesAreFunctions'
  BY <1>3 DEF OnlyRaceOf, RacesAreFunctions
<1> QED
  BY <1>4, <1>5, RaceOfOne

LEMMA TryKeepsRaces ==
    ASSUME RaceInvariant, NEW q \in ComboRequests, NEW free \in SUBSET ComboAccounts, Try(q, free)
    PROVE  RaceInvariant'
<1> USE DEF RaceInvariant, RaceTypeOK
<1> DEFINE t == Trying(q)
<1>1. comboPc[q] = "next" /\ plan[q] # <<>> /\ plan[q] \in Seq(Targets)
  BY DEF Try
<1>2. t \in Targets /\ Tail(plan[q]) \in Seq(Targets)
  BY <1>1, PlanGoesOn DEF Trying
<1>3. \A u \in Targets : ~Racing(q, u)
  BY <1>1 DEF AwaitedIsRacing, Awaited
<1>4. CASE free # {}
  <2>1. PICK c \in ComboAccounts :
            attempt' = [attempt EXCEPT ![q][t] = [on |-> c, tried |-> {}, lost |-> FALSE]]
    BY <1>4 DEF Try, AccountsToTry, Preferred
  <2>2. comboPc' = [comboPc EXCEPT ![q] = "awaiting"] /\ UNCHANGED plan
    BY <1>4 DEF Try
  <2> DEFINE a == [on |-> c, tried |-> {}, lost |-> FALSE]
  <2>3. a \in Attempts /\ a # NoAttempt /\ ~a.lost
    <3>1. {} \in SUBSET ComboAccounts
      OBVIOUS
    <3> QED
      BY <3>1, AttemptTypes
  <2> HIDE DEF a
  <2>4. attempt'[q] = [attempt[q] EXCEPT ![t] = a]
    BY <2>1 DEF a
  <2>5. Trying(q)' = t
    BY <2>2 DEF Trying
  <2>6. ASSUME NEW u \in Targets
        PROVE  Awaited(q, u)' <=> Racing(q, u)'
    <3>1. Awaited(q, u)' <=> u = t
      BY <2>2, <2>5 DEF Awaited
    <3>2. Racing(q, u)' <=> u = t
      BY <1>2, <1>3, <2>3, <2>4 DEF Racing
    <3> QED
      BY <3>1, <3>2
  <2>7. RaceOK(q)'
    BY <1>1, <1>2, <2>2, <2>3, <2>4, <2>6 DEF RaceOK
  <2>8. OnlyRaceOf(q) /\ RacesAreFunctions'
    BY <2>1, <2>2 DEF OnlyRaceOf, RacesAreFunctions
  <2> QED
    BY <2>7, <2>8, RaceOfOne
<1>5. CASE free = {}
  <2>1. plan' = [plan EXCEPT ![q] = Tail(@)] /\ UNCHANGED <<attempt, comboPc>>
    BY <1>5 DEF Try
  <2>2. RaceOK(q)'
    BY <1>1, <1>2, <1>3, <2>1 DEF RaceOK, Awaited, Racing
  <2>3. OnlyRaceOf(q) /\ RacesAreFunctions'
    BY <2>1 DEF OnlyRaceOf, RacesAreFunctions
  <2> QED
    BY <2>2, <2>3, RaceOfOne
<1> QED
  BY <1>4, <1>5

LEMMA DoneKeepsRaces ==
    ASSUME RaceInvariant, NEW q \in ComboRequests, Done(q),
           \/ UNCHANGED attempt /\ comboPc[q] = "next"
           \/ \E t \in Targets :
                Awaited(q, t) /\ attempt' = [attempt EXCEPT ![q][t] = NoAttempt]
    PROVE  RaceInvariant'
<1> USE DEF RaceInvariant, RaceTypeOK
<1>1. comboPc' = [comboPc EXCEPT ![q] = "idle"] /\ plan' = [plan EXCEPT ![q] = <<>>]
  BY DEF Done
<1>2. \A u \in Targets : ~Racing(q, u)'
  BY DEF AwaitedIsRacing, Awaited, Racing
<1>3. /\ attempt' \in [ComboRequests -> [Targets -> Attempts]]
      /\ \A r \in ComboRequests \ {q} : attempt'[r] = attempt[r]
  <2>1. CASE UNCHANGED attempt
    BY <2>1
  <2>2. ASSUME NEW t \in Targets, attempt' = [attempt EXCEPT ![q][t] = NoAttempt]
        PROVE  /\ attempt' \in [ComboRequests -> [Targets -> Attempts]]
               /\ \A r \in ComboRequests \ {q} : attempt'[r] = attempt[r]
    BY <2>2, AttemptTypes
  <2> QED
    BY <2>1, <2>2
<1>4. RaceOK(q)'
  <2>1. <<>> \in Seq(Targets)
    OBVIOUS
  <2>2. comboPc'[q] = "idle" /\ plan'[q] = <<>>
    BY <1>1
  <2> QED
    BY <1>2, <1>3, <2>1, <2>2 DEF RaceOK, Awaited
<1>5. OnlyRaceOf(q) /\ RacesAreFunctions'
  BY <1>1, <1>3 DEF OnlyRaceOf, RacesAreFunctions
<1> QED
  BY <1>4, <1>5, RaceOfOne

\* An attempt whose race was lost ends without a trace.
LEMMA LoserKeepsRaces ==
    ASSUME RaceInvariant, NEW q \in ComboRequests, NEW t \in Targets, ~Awaited(q, t),
           attempt' = [attempt EXCEPT ![q][t] = NoAttempt], UNCHANGED <<comboPc, plan>>
    PROVE  RaceInvariant'
<1> USE DEF RaceInvariant, RaceTypeOK
<1>1. \A u \in Targets : Racing(q, u)' <=> Racing(q, u)
  BY DEF AwaitedIsRacing, Racing
<1>2. attempt' \in [ComboRequests -> [Targets -> Attempts]]
  BY AttemptTypes
<1>3. RaceOK(q)'
  BY <1>1, <1>2 DEF RaceOK, Awaited, Trying, AwaitedIsRacing
<1>4. OnlyRaceOf(q) /\ RacesAreFunctions'
  BY DEF OnlyRaceOf, RacesAreFunctions
<1> QED
  BY <1>3, <1>4, RaceOfOne

LEMMA MoveOnKeepsRaces ==
    ASSUME RaceInvariant, NEW q \in ComboRequests, NEW t \in Targets, Awaited(q, t),
           attempt' = [attempt EXCEPT ![q][t] = NoAttempt], MoveOn(q, t)
    PROVE  RaceInvariant'
<1> USE DEF RaceInvariant, RaceTypeOK
<1>1. PICK transient \in BOOLEAN :
          /\ comboPc' = [comboPc EXCEPT ![q] = IF transient THEN "cooling" ELSE "next"]
          /\ plan' = [plan EXCEPT ![q] = IF transient THEN @ ELSE Tail(@)]
  BY DEF MoveOn
<1>2. plan[q] # <<>> /\ Tail(plan[q]) \in Seq(Targets)
  BY PlanGoesOn DEF Awaited
<1>3. \A u \in Targets : ~Racing(q, u)'
  BY DEF AwaitedIsRacing, Awaited, Racing
<1>4. attempt' \in [ComboRequests -> [Targets -> Attempts]]
  BY AttemptTypes
<1>5. comboPc'[q] \in {"next", "cooling"} /\ plan'[q] \in Seq(Targets)
  BY <1>1, <1>2
<1>6. comboPc'[q] = "cooling" => plan'[q] # <<>>
  BY <1>1, <1>2
<1>7. RaceOK(q)'
  BY <1>3, <1>4, <1>5, <1>6 DEF RaceOK, Awaited
<1>8. OnlyRaceOf(q) /\ RacesAreFunctions'
  BY <1>1 DEF OnlyRaceOf, RacesAreFunctions
<1> QED
  BY <1>7, <1>8, RaceOfOne

LEMMA NextAccountKeepsRaces ==
    ASSUME RaceInvariant, NEW q \in ComboRequests, NEW t \in Targets, NEW c \in ComboAccounts,
           NextAccount(q, t, c)
    PROVE  RaceInvariant'
<1> USE DEF RaceInvariant, RaceTypeOK
<1> DEFINE old == attempt[q][t]
           new == [on |-> c, tried |-> old.tried \union {old.on}, lost |-> old.lost]
<1>1. /\ old # NoAttempt
      /\ attempt' = [attempt EXCEPT ![q][t] = new]
      /\ UNCHANGED <<comboPc, plan>>
  BY DEF NextAccount
<1>2. old \in Attempts
  OBVIOUS
<1>3. old.on \in ComboAccounts /\ old.tried \union {old.on} \in SUBSET ComboAccounts /\ old.lost \in BOOLEAN
  BY <1>1, <1>2, AttemptTypes
<1>4. new \in Attempts /\ new # NoAttempt /\ new.lost = old.lost
  BY <1>3, AttemptTypes
<1> HIDE DEF new
<1>5. attempt'[q] = [attempt[q] EXCEPT ![t] = new]
  BY <1>1
<1>6. \A u \in Targets : Racing(q, u)' <=> Racing(q, u)
  BY <1>1, <1>4, <1>5 DEF Racing
<1>7. RaceOK(q)'
  BY <1>1, <1>4, <1>5, <1>6 DEF RaceOK, Awaited, Trying, AwaitedIsRacing
<1>8. OnlyRaceOf(q) /\ RacesAreFunctions'
  BY <1>1 DEF OnlyRaceOf, RacesAreFunctions
<1> QED
  BY <1>7, <1>8, RaceOfOne

LEMMA TimeoutKeepsRaces ==
    ASSUME RaceInvariant, NEW q \in ComboRequests, Timeout(q)
    PROVE  RaceInvariant'
<1> USE DEF RaceInvariant, RaceTypeOK
<1> DEFINE t == Trying(q)
           old == attempt[q][t]
           new == [on |-> old.on, tried |-> {}, lost |-> TRUE]
<1>1. /\ comboPc[q] = "awaiting"
      /\ attempt' = [attempt EXCEPT ![q][t] = new]
      /\ comboPc' = [comboPc EXCEPT ![q] = "next"]
      /\ plan' = [plan EXCEPT ![q] = Tail(@)]
  BY DEF Timeout
<1>2. t \in Targets /\ Tail(plan[q]) \in Seq(Targets)
  BY <1>1, PlanGoesOn DEF Trying
<1>3. old \in Attempts /\ old # NoAttempt
  BY <1>1, <1>2 DEF AwaitedIsRacing, Awaited, Racing
<1>4. old.on \in ComboAccounts
  BY <1>3, AttemptTypes
<1>5. new \in Attempts /\ new.lost
  <2>1. {} \in SUBSET ComboAccounts
    OBVIOUS
  <2> QED
    BY <1>4, <2>1, AttemptTypes
<1>6. \A u \in Targets : u # t => ~Racing(q, u)
  BY <1>1 DEF AwaitedIsRacing, Awaited
<1> HIDE DEF new
<1>7. attempt'[q] = [attempt[q] EXCEPT ![t] = new]
  BY <1>1
<1>8. \A u \in Targets : ~Racing(q, u)'
  BY <1>2, <1>5, <1>6, <1>7 DEF Racing
<1>9. RaceOK(q)'
  BY <1>1, <1>2, <1>5, <1>7, <1>8 DEF RaceOK, Awaited
<1>10. OnlyRaceOf(q) /\ RacesAreFunctions'
  BY <1>1 DEF OnlyRaceOf, RacesAreFunctions
<1> QED
  BY <1>9, <1>10, RaceOfOne

LEMMA CooledDownKeepsRaces ==
    ASSUME RaceInvariant, NEW q \in ComboRequests, CooledDown(q)
    PROVE  RaceInvariant'
<1> USE DEF RaceInvariant, RaceTypeOK
<1>1. /\ comboPc[q] = "cooling"
      /\ comboPc' = [comboPc EXCEPT ![q] = "next"]
      /\ plan' = [plan EXCEPT ![q] = Tail(@)]
      /\ UNCHANGED attempt
  BY DEF CooledDown
<1>2. Tail(plan[q]) \in Seq(Targets)
  BY <1>1, PlanGoesOn
<1>3. RaceOK(q)'
  BY <1>1, <1>2 DEF RaceOK, Awaited, Racing, AwaitedIsRacing
<1>4. OnlyRaceOf(q) /\ RacesAreFunctions'
  BY <1>1 DEF OnlyRaceOf, RacesAreFunctions
<1> QED
  BY <1>3, <1>4, RaceOfOne

LEMMA StepsKeepRaces == RaceInvariant /\ [ComboNext]_comboVars => RaceInvariant'
<1> SUFFICES ASSUME RaceInvariant, [ComboNext]_comboVars
             PROVE  RaceInvariant'
  OBVIOUS
<1>1. ASSUME UNCHANGED <<comboPc, plan, attempt>>
      PROVE  RaceInvariant'
  BY <1>1 DEF RaceInvariant, RaceTypeOK, AwaitedIsRacing, Awaited, Trying, Racing
<1>2. ASSUME NEW q \in ComboRequests, NEW healthy \in BOOLEAN, NEW o \in SetToSeqs(Targets),
             Order(q, healthy, o)
      PROVE  RaceInvariant'
  BY <1>2, OrderKeepsRaces
<1>3. ASSUME NEW q \in ComboRequests, NextTarget(q)
      PROVE  RaceInvariant'
  <2>1. CASE GiveUp(q)
    BY <2>1, DoneKeepsRaces DEF GiveUp
  <2>2. CASE \E free \in SUBSET ComboAccounts : Try(q, free)
    BY <2>2, TryKeepsRaces
  <2> QED
    BY <1>3, <2>1, <2>2 DEF NextTarget
<1>4. ASSUME NEW q \in ComboRequests, Timeout(q) \/ CooledDown(q)
      PROVE  RaceInvariant'
  BY <1>4, TimeoutKeepsRaces, CooledDownKeepsRaces
<1>5. ASSUME NEW q \in ComboRequests, Disconnect(q)
      PROVE  RaceInvariant'
  BY <1>1, <1>5 DEF Disconnect
<1>6. ASSUME NEW q \in ComboRequests, NEW t \in Targets, TargetAnswers(q, t)
      PROVE  RaceInvariant'
  <2>1. CASE Awaited(q, t)
    BY <1>6, <2>1, DoneKeepsRaces DEF TargetAnswers
  <2>2. CASE ~Awaited(q, t)
    BY <1>6, <2>2, LoserKeepsRaces DEF TargetAnswers
  <2> QED
    BY <2>1, <2>2
<1>7. ASSUME NEW q \in ComboRequests, NEW t \in Targets, NEW c \in ComboAccounts,
             NextAccount(q, t, c)
      PROVE  RaceInvariant'
  BY <1>7, NextAccountKeepsRaces
<1>8. ASSUME NEW q \in ComboRequests, NEW t \in Targets, NEW unprocessable \in BOOLEAN,
             Fail(q, t, unprocessable)
      PROVE  RaceInvariant'
  <2>1. CASE Awaited(q, t)
    BY <1>8, <2>1, MoveOnKeepsRaces DEF Fail
  <2>2. CASE ~Awaited(q, t)
    BY <1>8, <2>2, LoserKeepsRaces DEF Fail
  <2> QED
    BY <2>1, <2>2
<1>9. CASE Prune
  BY <1>1, <1>9 DEF Prune
<1>10. CASE UNCHANGED comboVars
  BY <1>1, <1>10 DEF comboVars
<1> QED
  BY <1>2, <1>3, <1>4, <1>5, <1>6, <1>7, <1>8, <1>9, <1>10 DEF ComboNext

LEMMA RacesHold == ComboSpec => []RaceInvariant
<1>1. ComboInit => RaceInvariant
  <2>1. <<>> \in Seq(Targets)
    OBVIOUS
  <2> QED
    BY <2>1, AttemptTypes
       DEF ComboInit, RaceInvariant, RaceTypeOK, AwaitedIsRacing, Awaited, Racing
<1> QED
  BY <1>1, StepsKeepRaces, PTL DEF ComboSpec

-----------------------------------------------------------------------------
(* The anchor *)

\* What is dropped is dropped with the memory of its answer.
LEMMA DroppingKeepsAnchor ==
    ASSUME AnchorIsLatestAnswer, anchor' \in {anchor, NoAnchor}, LastAnswerKept
    PROVE  AnchorIsLatestAnswer'
  BY DEF AnchorIsLatestAnswer, LastAnswerKept

LEMMA StepsKeepAnchor ==
    RaceInvariant /\ AnchorIsLatestAnswer /\ [ComboNext]_comboVars => AnchorIsLatestAnswer'
<1> SUFFICES ASSUME RaceInvariant, AnchorIsLatestAnswer, [ComboNext]_comboVars
             PROVE  AnchorIsLatestAnswer'
  OBVIOUS
<1>1. ASSUME UNCHANGED <<anchor, lastAnswer>>
      PROVE  AnchorIsLatestAnswer'
  BY <1>1 DEF AnchorIsLatestAnswer
<1>2. ASSUME NEW q \in ComboRequests, NEW healthy \in BOOLEAN, NEW o \in SetToSeqs(Targets),
             Order(q, healthy, o)
      PROVE  AnchorIsLatestAnswer'
  BY <1>2, DroppingKeepsAnchor DEF Order
<1>3. ASSUME NEW q \in ComboRequests, NextTarget(q)
      PROVE  AnchorIsLatestAnswer'
  <2>1. CASE GiveUp(q)
    BY <1>1, <2>1 DEF GiveUp
  <2>2. ASSUME NEW free \in SUBSET ComboAccounts, Try(q, free)
        PROVE  AnchorIsLatestAnswer'
    BY <2>2, DroppingKeepsAnchor DEF Try
  <2> QED
    BY <1>3, <2>1, <2>2 DEF NextTarget
<1>4. ASSUME NEW q \in ComboRequests, Timeout(q) \/ CooledDown(q) \/ Disconnect(q)
      PROVE  AnchorIsLatestAnswer'
  BY <1>1, <1>4 DEF Timeout, CooledDown, Disconnect
<1>5. ASSUME NEW q \in ComboRequests, NEW t \in Targets, TargetAnswers(q, t)
      PROVE  AnchorIsLatestAnswer'
  <2>1. attempt[q][t] # NoAttempt
    BY <1>5 DEF TargetAnswers
  <2>2. Awaited(q, t) <=> ~attempt[q][t].lost
    BY <2>1 DEF RaceInvariant, AwaitedIsRacing, Racing
  <2>3. CASE Silenced(q, t)
    BY <1>1, <1>5, <2>2, <2>3 DEF TargetAnswers, AnchorAfterAnswer, Silenced
  <2>4. CASE ~Silenced(q, t)
    BY <1>5, <2>2, <2>4 DEF TargetAnswers, AnchorAfterAnswer, Silenced, AnchorIsLatestAnswer
  <2> QED
    BY <2>3, <2>4
<1>6. ASSUME NEW q \in ComboRequests, NEW t \in Targets, NEW c \in ComboAccounts,
             NextAccount(q, t, c)
      PROVE  AnchorIsLatestAnswer'
  BY <1>6, DroppingKeepsAnchor DEF NextAccount, AnchorWithout
<1>7. ASSUME NEW q \in ComboRequests, NEW t \in Targets, NEW unprocessable \in BOOLEAN,
             Fail(q, t, unprocessable)
      PROVE  AnchorIsLatestAnswer'
  BY <1>7, DroppingKeepsAnchor DEF Fail, AnchorWithout
<1>8. CASE Prune
  BY <1>8, DroppingKeepsAnchor DEF Prune
<1>9. CASE UNCHANGED comboVars
  BY <1>1, <1>9 DEF comboVars
<1> QED
  BY <1>2, <1>3, <1>4, <1>5, <1>6, <1>7, <1>8, <1>9 DEF ComboNext

\* An attempt whose race was lost, or whose client has left, does not move a session
\* to an account that never answered it, for any number of requests and targets.
THEOREM AnchorFollowsAnswers == ComboSpec => []AnchorIsLatestAnswer
<1>1. ComboInit => AnchorIsLatestAnswer
  BY DEF ComboInit, AnchorIsLatestAnswer
<1> QED
  BY <1>1, StepsKeepAnchor, RacesHold, PTL DEF ComboSpec

-----------------------------------------------------------------------------
(* The counters of active requests *)

CountInvariant ==
    /\ activeRequests \in [Targets -> Nat]
    /\ \A t \in Targets : activeRequests[t] = Cardinality(Waiting(t))

OthersWaitOn(q) ==
    \A r \in ComboRequests \ {q} : comboPc'[r] = comboPc[r] /\ plan'[r] = plan[r]

LEMMA WaitingIsFinite ==
    \A t : IsFiniteSet(Waiting(t)) /\ Cardinality(Waiting(t)) \in Nat
<1> SUFFICES ASSUME NEW t
             PROVE  IsFiniteSet(Waiting(t)) /\ Cardinality(Waiting(t)) \in Nat
  OBVIOUS
<1>1. Waiting(t) \in SUBSET ComboRequests
  BY DEF Waiting
<1>2. IsFiniteSet(Waiting(t))
  BY <1>1, ComboAssumption, FS_Subset
<1> QED
  BY <1>2, FS_CardinalityType

LEMMA CountStays ==
    ASSUME CountInvariant, UNCHANGED activeRequests, NEW q \in ComboRequests, OthersWaitOn(q),
           \A u \in Targets : Awaited(q, u)' <=> Awaited(q, u)
    PROVE  CountInvariant'
<1>1. ASSUME NEW u \in Targets
      PROVE  Waiting(u)' = Waiting(u)
  BY DEF Waiting, Awaited, Trying, OthersWaitOn
<1> QED
  BY <1>1 DEF CountInvariant

LEMMA CountGoesUp ==
    ASSUME CountInvariant, NEW q \in ComboRequests, NEW t \in Targets, OthersWaitOn(q),
           \A u \in Targets : ~Awaited(q, u), \A u \in Targets : Awaited(q, u)' <=> u = t,
           activeRequests' = [activeRequests EXCEPT ![t] = @ + 1]
    PROVE  CountInvariant'
<1>1. Waiting(t)' = Waiting(t) \union {q} /\ q \notin Waiting(t)
  BY DEF Waiting, Awaited, Trying, OthersWaitOn
<1>2. \A u \in Targets \ {t} : Waiting(u)' = Waiting(u)
  BY DEF Waiting, Awaited, Trying, OthersWaitOn
<1>3. Cardinality(Waiting(t) \union {q}) = Cardinality(Waiting(t)) + 1
  BY <1>1, WaitingIsFinite, FS_AddElement
<1>4. activeRequests'[t] = Cardinality(Waiting(t)')
  BY <1>1, <1>3 DEF CountInvariant
<1> QED
  BY <1>2, <1>4 DEF CountInvariant

LEMMA CountGoesDown ==
    ASSUME CountInvariant, NEW q \in ComboRequests, NEW t \in Targets, OthersWaitOn(q),
           Awaited(q, t), \A u \in Targets : ~Awaited(q, u)',
           activeRequests' = ActiveAfterEnd(t)
    PROVE  CountInvariant'
<1>1. Waiting(t)' = Waiting(t) \ {q} /\ q \in Waiting(t)
  BY DEF Waiting, Awaited, Trying, OthersWaitOn
<1>2. \A u \in Targets \ {t} : Waiting(u)' = Waiting(u)
  BY DEF Waiting, Awaited, Trying, OthersWaitOn
<1>3. Cardinality(Waiting(t) \ {q}) = Cardinality(Waiting(t)) - 1
  BY <1>1, WaitingIsFinite, FS_RemoveElement
<1>4. Cardinality(Waiting(t)) \in Nat /\ Cardinality(Waiting(t) \ {q}) \in Nat
  BY <1>1, <1>3, WaitingIsFinite, FS_RemoveElement, FS_CardinalityType
<1>5. activeRequests' \in [Targets -> Nat] /\ activeRequests'[t] = Cardinality(Waiting(t)')
  BY <1>1, <1>3, <1>4 DEF CountInvariant, ActiveAfterEnd
<1>6. \A u \in Targets \ {t} : activeRequests'[u] = activeRequests[u]
  BY DEF CountInvariant, ActiveAfterEnd
<1> QED
  BY <1>2, <1>5, <1>6 DEF CountInvariant

LEMMA StepsKeepCount ==
    RaceInvariant /\ CountInvariant /\ [ComboNext]_comboVars => CountInvariant'
<1> SUFFICES ASSUME RaceInvariant, CountInvariant, [ComboNext]_comboVars
             PROVE  CountInvariant'
  OBVIOUS
<1> USE DEF RaceInvariant, RaceTypeOK
<1>1. ASSUME UNCHANGED <<comboPc, plan, activeRequests>>
      PROVE  CountInvariant'
  BY <1>1 DEF CountInvariant, Waiting, Awaited, Trying
<1>2. ASSUME NEW q \in ComboRequests, UNCHANGED activeRequests, OthersWaitOn(q),
             comboPc[q] # "awaiting", comboPc'[q] # "awaiting"
      PROVE  CountInvariant'
  BY <1>2, CountStays DEF Awaited
<1>3. ASSUME NEW q \in ComboRequests, NEW t \in Targets, Awaited(q, t), OthersWaitOn(q),
             comboPc'[q] # "awaiting", activeRequests' = ActiveAfterEnd(t)
      PROVE  CountInvariant'
  BY <1>3, CountGoesDown DEF Awaited
<1>4. ASSUME NEW q \in ComboRequests, NEW healthy \in BOOLEAN, NEW o \in SetToSeqs(Targets),
             Order(q, healthy, o)
      PROVE  CountInvariant'
  BY <1>2, <1>4 DEF Order, OthersWaitOn
<1>5. ASSUME NEW q \in ComboRequests, GiveUp(q)
      PROVE  CountInvariant'
  BY <1>2, <1>5 DEF GiveUp, Done, OthersWaitOn
<1>6. ASSUME NEW q \in ComboRequests, NEW free \in SUBSET ComboAccounts, Try(q, free)
      PROVE  CountInvariant'
  <2> DEFINE t == Trying(q)
  <2>1. comboPc[q] = "next" /\ t \in Targets
    BY <1>6, PlanGoesOn DEF Try, Trying
  <2>2. CASE free # {}
    <3>1. /\ comboPc' = [comboPc EXCEPT ![q] = "awaiting"]
          /\ UNCHANGED plan
          /\ activeRequests' = [activeRequests EXCEPT ![t] = @ + 1]
      BY <1>6, <2>2 DEF Try
    <3>2. OthersWaitOn(q)
      BY <3>1 DEF OthersWaitOn
    <3>3. \A u \in Targets : ~Awaited(q, u)
      BY <2>1 DEF Awaited
    <3>4. \A u \in Targets : Awaited(q, u)' <=> u = t
      BY <3>1 DEF Awaited, Trying
    <3> QED
      BY <2>1, <3>1, <3>2, <3>3, <3>4, CountGoesUp
  <2>3. CASE free = {}
    BY <1>2, <1>6, <2>1, <2>3 DEF Try, OthersWaitOn
  <2> QED
    BY <2>2, <2>3
<1>7. ASSUME NEW q \in ComboRequests, Timeout(q)
      PROVE  CountInvariant'
  <2>1. comboPc[q] = "awaiting" /\ Trying(q) \in Targets
    BY <1>7, PlanGoesOn DEF Timeout, Trying
  <2>2. OthersWaitOn(q) /\ comboPc'[q] # "awaiting" /\ activeRequests' = ActiveAfterEnd(Trying(q))
    BY <1>7 DEF Timeout, OthersWaitOn
  <2> QED
    BY <1>3, <2>1, <2>2 DEF Awaited
<1>8. ASSUME NEW q \in ComboRequests, CooledDown(q)
      PROVE  CountInvariant'
  BY <1>2, <1>8 DEF CooledDown, OthersWaitOn
<1>9. ASSUME NEW q \in ComboRequests, NEW t \in Targets, TargetAnswers(q, t)
      PROVE  CountInvariant'
  <2>1. CASE Awaited(q, t)
    BY <1>3, <1>9, <2>1 DEF TargetAnswers, Done, OthersWaitOn
  <2>2. CASE ~Awaited(q, t)
    BY <1>1, <1>9, <2>2 DEF TargetAnswers
  <2> QED
    BY <2>1, <2>2
<1>10. ASSUME NEW q \in ComboRequests, NEW t \in Targets, NEW unprocessable \in BOOLEAN,
              Fail(q, t, unprocessable)
       PROVE  CountInvariant'
  <2>1. CASE Awaited(q, t)
    <3>1. /\ activeRequests' = ActiveAfterEnd(t)
          /\ comboPc'[q] \in {"cooling", "next"}
          /\ OthersWaitOn(q)
      BY <1>10, <2>1 DEF Fail, MoveOn, OthersWaitOn
    <3> QED
      BY <1>3, <2>1, <3>1
  <2>2. CASE ~Awaited(q, t)
    BY <1>1, <1>10, <2>2 DEF Fail
  <2> QED
    BY <2>1, <2>2
<1>11. CASE \/ \E q \in ComboRequests : Disconnect(q)
            \/ \E q \in ComboRequests, t \in Targets, c \in ComboAccounts : NextAccount(q, t, c)
            \/ Prune
            \/ UNCHANGED comboVars
  BY <1>1, <1>11 DEF Disconnect, NextAccount, Prune, comboVars
<1> QED
  BY <1>4, <1>5, <1>6, <1>7, <1>8, <1>9, <1>10, <1>11 DEF ComboNext, NextTarget

\* The counter of a target, which P2C compares, is the number of requests that wait
\* for it: no way out of a race forgets it or counts it down twice.
THEOREM CountersAreExact == ComboSpec => []ActiveIsExact
<1>1. ComboInit => CountInvariant
  <2> SUFFICES ASSUME ComboInit
               PROVE  CountInvariant
    OBVIOUS
  <2>1. \A t \in Targets : Waiting(t) = {}
    BY DEF ComboInit, Waiting, Awaited
  <2> QED
    BY <2>1, FS_EmptySet DEF ComboInit, CountInvariant
<1>2. CountInvariant => ActiveIsExact
  BY DEF CountInvariant, ActiveIsExact, Waiting
<1> QED
  BY <1>1, <1>2, StepsKeepCount, RacesHold, PTL DEF ComboSpec

-----------------------------------------------------------------------------
(* Fusion panels *)

PanelInvariant ==
    /\ call \in [Panel -> Outcomes \union {"unsent", "running", "timeout"}]
    /\ readIndex \in Nat \ {0}
    /\ fusionPc \in {"idle", "collecting", "reading", "judging", "direct", "refused"}
    /\ fusionPc \in {"idle", "collecting"} => readIndex = 1 /\ answers = {} /\ presentAtClose = {}
    /\ presentAtClose \union answers \subseteq {m \in Panel : call[m] = "ok"}
    /\ \A m \in presentAtClose : m < readIndex => m \in answers
    /\ fusionPc \in {"judging", "direct", "refused"} => readIndex > PanelSize
    /\ fusionPc = "refused" => answers = {}
    /\ fusionPc = "direct" => \E m \in answers : answers = {m}
    /\ fusionPc = "judging" => \E m, n \in answers : m # n

\* The close remembers who has answered and changes no answer.
LEMMA ClosingKeepsPanel ==
    ASSUME PanelInvariant, ClosePanel(call'), UNCHANGED <<readIndex, answers>>,
           call' \in [Panel -> Outcomes \union {"unsent", "running", "timeout"}],
           \A m \in Panel : call[m] = "ok" => call'[m] = "ok"
    PROVE  PanelInvariant'
<1>1. CASE fusionPc = "collecting"
  <2>1. presentAtClose' = {m \in Panel : call'[m] = "ok"} /\ fusionPc' = "reading"
    BY <1>1 DEF ClosePanel
  <2>2. readIndex' = 1 /\ answers' = {}
    BY <1>1 DEF PanelInvariant
  <2>3. \A m \in presentAtClose' : ~(m < 1)
    BY <2>1, PanelAssumption DEF Panel
  <2> QED
    BY <2>1, <2>2, <2>3 DEF PanelInvariant
<1>2. CASE fusionPc # "collecting"
  BY <1>2 DEF ClosePanel, PanelInvariant
<1> QED
  BY <1>1, <1>2

LEMMA StepsKeepPanel == PanelInvariant /\ [FusionNext]_fusionVars => PanelInvariant'
<1> SUFFICES ASSUME PanelInvariant, [FusionNext]_fusionVars
             PROVE  PanelInvariant'
  OBVIOUS
<1> USE DEF PanelInvariant
<1>1. CASE FanOut
  BY <1>1 DEF FanOut
<1>2. ASSUME NEW m \in Panel, NEW outcome \in Outcomes \union {"timeout"}, SettleCall(m, outcome)
      PROVE  PanelInvariant'
  <2>1. /\ call' \in [Panel -> Outcomes \union {"unsent", "running", "timeout"}]
        /\ \A n \in Panel : call[n] = "ok" => call'[n] = "ok"
        /\ UNCHANGED <<readIndex, answers>>
    BY <1>2 DEF SettleCall
  <2>2. CASE ClosePanel(call')
    BY <2>1, <2>2, ClosingKeepsPanel
  <2>3. CASE UNCHANGED <<fusionPc, presentAtClose>>
    BY <2>1, <2>3
  <2> QED
    BY <1>2, <2>2, <2>3 DEF SettleCall, AfterSettle
<1>3. CASE GraceTimerFires
  BY <1>3, ClosingKeepsPanel DEF GraceTimerFires
<1>4. CASE ReadAnswer
  <2>1. /\ fusionPc = "reading"
        /\ readIndex <= PanelSize
        /\ readIndex' = readIndex + 1
        /\ answers' = IF call[readIndex] = "ok" THEN answers \union {readIndex} ELSE answers
        /\ UNCHANGED <<call, fusionPc, presentAtClose>>
    BY <1>4 DEF ReadAnswer
  <2>2. \A m \in presentAtClose : m \in Nat
    BY PanelAssumption DEF Panel
  <2>3. ASSUME NEW m \in presentAtClose, m < readIndex'
        PROVE  m \in answers'
    <3>1. m < readIndex \/ m = readIndex
      BY <2>1, <2>2, <2>3
    <3>2. call[m] = "ok"
      OBVIOUS
    <3> QED
      BY <2>1, <3>1, <3>2
  <2>4. readIndex >= 1
    OBVIOUS
  <2>5. answers' \subseteq {m \in Panel : call[m] = "ok"}
    BY <2>1, <2>4, PanelAssumption DEF Panel
  <2> QED
    BY <2>1, <2>3, <2>5
<1>5. CASE Conclude
  <2>1. IsFiniteSet(answers)
    <3>1. IsFiniteSet(Panel)
      BY PanelAssumption, FS_Interval DEF Panel
    <3>2. answers \subseteq Panel
      OBVIOUS
    <3> QED
      BY <3>1, <3>2, FS_Subset
  <2>2. /\ readIndex > PanelSize
        /\ fusionPc' = CASE answers = {} -> "refused"
                         [] Cardinality(answers) = 1 -> "direct"
                         [] OTHER -> "judging"
        /\ UNCHANGED <<call, readIndex, answers, presentAtClose>>
    BY <1>5 DEF Conclude
  <2>3. Cardinality(answers) = 1 <=> \E m : answers = {m}
    BY <2>1, FS_Singleton
  <2>4. CASE answers = {}
    <3>1. Cardinality(answers) # 1
      BY <2>4, FS_EmptySet
    <3>2. fusionPc' = "refused"
      BY <2>2, <2>4, <3>1
    <3> QED
      BY <2>2, <2>4, <3>2
  <2>5. CASE answers # {} /\ Cardinality(answers) = 1
    <3>1. fusionPc' = "direct"
      BY <2>2, <2>5
    <3>2. \E m \in answers : answers = {m}
      BY <2>3, <2>5
    <3> QED
      BY <2>2, <3>1, <3>2
  <2>6. CASE answers # {} /\ Cardinality(answers) # 1
    <3>1. fusionPc' = "judging"
      BY <2>2, <2>6
    <3>2. PICK m \in answers : TRUE
      BY <2>6
    <3>3. answers # {m}
      BY <2>3, <2>6
    <3>4. \E n \in answers : m # n
      BY <3>2, <3>3
    <3> QED
      BY <2>2, <3>1, <3>2, <3>4
  <2> QED
    BY <2>4, <2>5, <2>6
<1>6. CASE UNCHANGED fusionVars
  BY <1>6 DEF fusionVars
<1> QED
  BY <1>1, <1>2, <1>3, <1>4, <1>5, <1>6 DEF FusionNext

LEMMA PanelIsJudged == PanelInvariant => AnswersReachTheJudge
<1> SUFFICES ASSUME PanelInvariant, fusionPc \in {"judging", "direct", "refused"}
             PROVE  /\ presentAtClose \subseteq answers
                    /\ answers \subseteq {m \in Panel : call[m] = "ok"}
                    /\ fusionPc = "refused" => presentAtClose = {}
                    /\ (fusionPc = "judging") <=> (\E m, n \in answers : m # n)
  BY DEF AnswersReachTheJudge
<1>1. \A m \in presentAtClose : m < readIndex
  BY PanelAssumption DEF PanelInvariant, Panel
<1>2. presentAtClose \subseteq answers
  BY <1>1 DEF PanelInvariant
<1>3. (fusionPc = "judging") <=> (\E m, n \in answers : m # n)
  BY DEF PanelInvariant
<1> QED
  BY <1>2, <1>3 DEF PanelInvariant

\* For a panel of any size and any quorum: every answer there when the panel closed is
\* used, whatever arrives while the answers are read, and nothing else is; a panel with
\* an answer is not refused, and the judge has two to merge.
THEOREM AnswersAreJudged == FusionSpec => []AnswersReachTheJudge
<1>1. FusionInit => PanelInvariant
  BY DEF FusionInit, PanelInvariant
<1> QED
  BY <1>1, PanelIsJudged, StepsKeepPanel, PTL DEF FusionSpec

-----------------------------------------------------------------------------
(* The types of combos *)

\* What is left of a plan has no more targets than the combo.
PlansAreShort == \A q \in ComboRequests : Len(plan[q]) <= Cardinality(Targets)

SessionTypeOK ==
    /\ pin \in [ComboRequests -> Anchors \union {NoAnchor}]
    /\ clientGone \in [ComboRequests -> BOOLEAN]
    /\ anchor \in Anchors \union {NoAnchor}
    /\ lastAnswer \in Anchors \union {NoAnchor}

LEMMA TailIsShorter ==
    ASSUME NEW s \in Seq(Targets), s # <<>>
    PROVE  Len(Tail(s)) <= Len(s) /\ Len(Tail(s)) \in Nat /\ Len(s) \in Nat
  BY HeadTailProperties, LenProperties

\* A plan goes on, is given up or is made anew.
LEMMA PlanOfOneStaysShort ==
    ASSUME RaceTypeOK, PlansAreShort, NEW q \in ComboRequests,
           \/ plan' = plan
           \/ plan' = [plan EXCEPT ![q] = <<>>]
           \/ plan[q] # <<>> /\ plan' = [plan EXCEPT ![q] = Tail(@)]
           \/ \E o \in Seq(Targets) : Len(o) = Cardinality(Targets) /\ plan' = [plan EXCEPT ![q] = o]
    PROVE  PlansAreShort'
<1>1. Cardinality(Targets) \in Nat
  BY ComboAssumption, FS_CardinalityType
<1>2. Len(plan[q]) \in Nat /\ Len(plan[q]) <= Cardinality(Targets) /\ plan[q] \in Seq(Targets)
  BY LenProperties DEF RaceTypeOK, PlansAreShort
<1>3. Len(plan'[q]) <= Cardinality(Targets)
  <2>1. CASE plan' = plan
    BY <1>2, <2>1
  <2>2. CASE plan' = [plan EXCEPT ![q] = <<>>]
    <3>1. plan'[q] = <<>>
      BY <2>2 DEF RaceTypeOK
    <3> QED
      BY <1>1, <3>1
  <2>3. CASE plan[q] # <<>> /\ plan' = [plan EXCEPT ![q] = Tail(@)]
    <3>1. plan'[q] = Tail(plan[q])
      BY <2>3 DEF RaceTypeOK
    <3>2. Len(Tail(plan[q])) \in Nat /\ Len(Tail(plan[q])) <= Len(plan[q])
      BY <1>2, <2>3, TailIsShorter
    <3> QED
      BY <1>1, <1>2, <3>1, <3>2
  <2>4. ASSUME NEW o \in Seq(Targets), Len(o) = Cardinality(Targets), plan' = [plan EXCEPT ![q] = o]
        PROVE  Len(plan'[q]) <= Cardinality(Targets)
    <3>1. plan'[q] = o
      BY <2>4 DEF RaceTypeOK
    <3> QED
      BY <1>1, <2>4, <3>1
  <2> QED
    BY <2>1, <2>2, <2>3, <2>4
<1>4. \A r \in ComboRequests \ {q} : plan'[r] = plan[r]
  BY DEF RaceTypeOK
<1> QED
  BY <1>3, <1>4 DEF PlansAreShort

LEMMA StepsKeepPlansShort ==
    RaceInvariant /\ PlansAreShort /\ [ComboNext]_comboVars => PlansAreShort'
<1> SUFFICES ASSUME RaceInvariant, PlansAreShort, [ComboNext]_comboVars
             PROVE  PlansAreShort'
  OBVIOUS
<1>1. RaceTypeOK
  BY DEF RaceInvariant
<1>2. ASSUME UNCHANGED plan
      PROVE  PlansAreShort'
  BY <1>2 DEF PlansAreShort
<1>3. ASSUME NEW q \in ComboRequests, NEW healthy \in BOOLEAN, NEW o \in SetToSeqs(Targets),
             Order(q, healthy, o)
      PROVE  PlansAreShort'
  <2>1. Cardinality(Targets) \in Nat
    BY ComboAssumption, FS_CardinalityType
  <2>2. o \in [1 .. Cardinality(Targets) -> Targets]
    BY DEF SetToSeqs
  <2>3. o \in Seq(Targets) /\ Len(o) = Cardinality(Targets)
    BY <2>1, <2>2, LenProperties
  <2>4. plan' = [plan EXCEPT ![q] = o]
    BY <1>3 DEF Order
  <2> QED
    BY <1>1, <2>3, <2>4, PlanOfOneStaysShort
<1>4. ASSUME NEW q \in ComboRequests, NextTarget(q)
      PROVE  PlansAreShort'
  <2>1. CASE GiveUp(q)
    BY <1>1, <2>1, PlanOfOneStaysShort DEF GiveUp, Done
  <2>2. ASSUME NEW free \in SUBSET ComboAccounts, Try(q, free)
        PROVE  PlansAreShort'
    BY <1>1, <2>2, PlanOfOneStaysShort DEF Try
  <2> QED
    BY <1>4, <2>1, <2>2 DEF NextTarget
<1>5. ASSUME NEW q \in ComboRequests, Timeout(q) \/ CooledDown(q)
      PROVE  PlansAreShort'
  <2>1. plan[q] # <<>>
    BY <1>1, <1>5 DEF Timeout, CooledDown, RaceTypeOK
  <2>2. plan' = [plan EXCEPT ![q] = Tail(@)]
    BY <1>5 DEF Timeout, CooledDown
  <2> QED
    BY <1>1, <2>1, <2>2, PlanOfOneStaysShort
<1>6. ASSUME NEW q \in ComboRequests, NEW t \in Targets, TargetAnswers(q, t)
      PROVE  PlansAreShort'
  <2>1. CASE Done(q)
    BY <1>1, <2>1, PlanOfOneStaysShort DEF Done
  <2> QED
    BY <1>2, <1>6, <2>1 DEF TargetAnswers
<1>7. ASSUME NEW q \in ComboRequests, NEW t \in Targets, NEW unprocessable \in BOOLEAN,
             Fail(q, t, unprocessable)
      PROVE  PlansAreShort'
  <2>1. CASE Awaited(q, t)
    <3>1. plan[q] # <<>>
      BY <1>1, <2>1 DEF Awaited, RaceTypeOK
    <3>2. PICK transient \in BOOLEAN : plan' = [plan EXCEPT ![q] = IF transient THEN @ ELSE Tail(@)]
      BY <1>7, <2>1 DEF Fail, MoveOn
    <3>3. CASE transient
      <4>1. plan' = plan
        BY <1>1, <3>2, <3>3 DEF RaceTypeOK
      <4> QED
        BY <1>2, <4>1
    <3>4. CASE ~transient
      BY <1>1, <3>1, <3>2, <3>4, PlanOfOneStaysShort
    <3> QED
      BY <3>3, <3>4
  <2>2. CASE ~Awaited(q, t)
    BY <1>2, <1>7, <2>2 DEF Fail
  <2> QED
    BY <2>1, <2>2
<1>8. CASE \/ \E q \in ComboRequests : Disconnect(q)
           \/ \E q \in ComboRequests, t \in Targets, c \in ComboAccounts : NextAccount(q, t, c)
           \/ Prune
           \/ UNCHANGED comboVars
  BY <1>2, <1>8 DEF Disconnect, NextAccount, Prune, comboVars
<1> QED
  BY <1>3, <1>4, <1>5, <1>6, <1>7, <1>8 DEF ComboNext

LEMMA StepsKeepSession ==
    RaceTypeOK /\ SessionTypeOK /\ [ComboNext]_comboVars => SessionTypeOK'
<1> SUFFICES ASSUME RaceTypeOK, SessionTypeOK, [ComboNext]_comboVars
             PROVE  SessionTypeOK'
  OBVIOUS
<1>1. ASSUME UNCHANGED <<pin, clientGone>>, anchor' \in {anchor, NoAnchor}, lastAnswer' \in {lastAnswer, NoAnchor}
      PROVE  SessionTypeOK'
  BY <1>1 DEF SessionTypeOK
<1>2. ASSUME NEW q \in ComboRequests, NEW t \in Targets, attempt[q][t] # NoAttempt
      PROVE  <<t, attempt[q][t].on>> \in Anchors
  BY <1>2, AttemptTypes DEF RaceTypeOK, Anchors
<1>3. ASSUME NEW q \in ComboRequests, NEW healthy \in BOOLEAN, NEW o \in SetToSeqs(Targets),
             Order(q, healthy, o)
      PROVE  SessionTypeOK'
  BY <1>3 DEF Order, LastAnswerKept, SessionTypeOK
<1>4. ASSUME NEW q \in ComboRequests, GiveUp(q)
      PROVE  SessionTypeOK'
  BY <1>4 DEF GiveUp, Done, SessionTypeOK
<1>5. ASSUME NEW q \in ComboRequests, NEW free \in SUBSET ComboAccounts, Try(q, free)
      PROVE  SessionTypeOK'
  BY <1>5 DEF Try, LastAnswerKept, SessionTypeOK
<1>6. ASSUME NEW q \in ComboRequests, Disconnect(q)
      PROVE  SessionTypeOK'
  BY <1>6 DEF Disconnect, SessionTypeOK
<1>7. ASSUME NEW q \in ComboRequests, NEW t \in Targets, TargetAnswers(q, t)
      PROVE  SessionTypeOK'
  <2>1. <<t, attempt[q][t].on>> \in Anchors
    BY <1>2, <1>7 DEF TargetAnswers
  <2>2. anchor' \in {anchor, <<t, attempt[q][t].on>>} /\ lastAnswer' \in {lastAnswer, <<t, attempt[q][t].on>>}
    BY <1>7 DEF TargetAnswers, AnchorAfterAnswer
  <2>3. pin' \in [ComboRequests -> Anchors \union {NoAnchor}] /\ clientGone' \in [ComboRequests -> BOOLEAN]
    BY <1>7 DEF TargetAnswers, Done, SessionTypeOK
  <2> QED
    BY <2>1, <2>2, <2>3 DEF SessionTypeOK
<1>8. ASSUME NEW q \in ComboRequests, NEW t \in Targets, NEW c \in ComboAccounts, NextAccount(q, t, c)
      PROVE  SessionTypeOK'
  BY <1>1, <1>8 DEF NextAccount, AnchorWithout, LastAnswerKept
<1>9. ASSUME NEW q \in ComboRequests, NEW t \in Targets, NEW unprocessable \in BOOLEAN,
             Fail(q, t, unprocessable)
      PROVE  SessionTypeOK'
  BY <1>1, <1>9 DEF Fail, AnchorWithout, LastAnswerKept
<1>10. CASE \/ \E q \in ComboRequests : Timeout(q) \/ CooledDown(q)
            \/ Prune
            \/ UNCHANGED comboVars
  BY <1>1, <1>10 DEF Timeout, CooledDown, Prune, LastAnswerKept, comboVars
<1> QED
  BY <1>3, <1>4, <1>5, <1>6, <1>7, <1>8, <1>9, <1>10 DEF ComboNext, NextTarget

ComboInvariant == RaceInvariant /\ CountInvariant /\ PlansAreShort /\ SessionTypeOK /\ AnchorIsLatestAnswer

LEMMA ComboStarts == ComboInit => ComboInvariant
<1> SUFFICES ASSUME ComboInit
             PROVE  ComboInvariant
  OBVIOUS
<1>1. RaceInvariant
  BY AttemptTypes DEF ComboInit, RaceInvariant, RaceTypeOK, AwaitedIsRacing, Awaited, Racing
<1>2. CountInvariant
  <2>1. \A t \in Targets : Waiting(t) = {}
    BY DEF ComboInit, Waiting, Awaited
  <2> QED
    BY <2>1, FS_EmptySet DEF ComboInit, CountInvariant
<1>3. PlansAreShort
  <2>1. Cardinality(Targets) \in Nat
    BY ComboAssumption, FS_CardinalityType
  <2> QED
    BY <2>1 DEF ComboInit, PlansAreShort
<1>4. SessionTypeOK /\ AnchorIsLatestAnswer
  BY DEF ComboInit, SessionTypeOK, AnchorIsLatestAnswer
<1> QED
  BY <1>1, <1>2, <1>3, <1>4 DEF ComboInvariant

LEMMA StepsKeepCombo == ComboInvariant /\ [ComboNext]_comboVars => ComboInvariant'
  BY StepsKeepRaces, StepsKeepCount, StepsKeepPlansShort, StepsKeepSession, StepsKeepAnchor
     DEF ComboInvariant, RaceInvariant

LEMMA ComboTypes == ComboInvariant => ComboTypeOK
<1> SUFFICES ASSUME ComboInvariant
             PROVE  ComboTypeOK
  OBVIOUS
<1> USE DEF ComboInvariant, RaceInvariant
<1>1. ASSUME NEW q \in ComboRequests
      PROVE  plan[q] \in SeqOf(Targets, Cardinality(Targets))
  <2>1. plan[q] \in Seq(Targets) /\ Len(plan[q]) <= Cardinality(Targets)
    BY DEF RaceTypeOK, PlansAreShort
  <2>2. plan[q] \in [1 .. Len(plan[q]) -> Targets] /\ Len(plan[q]) \in Nat
    BY <2>1, LenProperties
  <2>3. Cardinality(Targets) \in Nat
    BY ComboAssumption, FS_CardinalityType
  <2>4. Len(plan[q]) \in 0 .. Cardinality(Targets)
    BY <2>1, <2>2, <2>3
  <2> QED
    BY <2>2, <2>4 DEF SeqOf
<1>2. ASSUME NEW t \in Targets
      PROVE  activeRequests[t] \in 0 .. Cardinality(ComboRequests)
  <2>1. Waiting(t) \in SUBSET ComboRequests
    BY DEF Waiting
  <2>2. Cardinality(Waiting(t)) <= Cardinality(ComboRequests)
    BY <2>1, ComboAssumption, FS_Subset
  <2>3. Cardinality(Waiting(t)) \in Nat /\ Cardinality(ComboRequests) \in Nat
    BY WaitingIsFinite, ComboAssumption, FS_CardinalityType
  <2> QED
    BY <2>2, <2>3 DEF CountInvariant
<1>3. activeRequests \in [Targets -> 0 .. Cardinality(ComboRequests)]
  BY <1>2 DEF CountInvariant
<1> QED
  BY <1>1, <1>3 DEF ComboTypeOK, RaceTypeOK, SessionTypeOK

-----------------------------------------------------------------------------
(* The types of panels *)

Settled == {m \in Panel : call[m] \notin {"unsent", "running"}}

Responded == {m \in Panel : call[m] \in {"ok", "empty"}}

\* The counters of a panel are numbers of calls, and reading ends with the panel.
PanelCounts ==
    /\ settledCount = Cardinality(Settled)
    /\ okCount = Cardinality(Responded)
    /\ graceTimer \in {"null", "armed", "cleared"}
    /\ readIndex <= PanelSize + 1
    /\ fusionPc = "idle" => \A m \in Panel : call[m] = "unsent"

LEMMA PanelIsFinite ==
    /\ IsFiniteSet(Panel) /\ Cardinality(Panel) = PanelSize
    /\ \A S \in SUBSET Panel : IsFiniteSet(S) /\ Cardinality(S) \in Nat /\ Cardinality(S) <= PanelSize
<1>1. PanelSize \in Nat
  BY PanelAssumption
<1>2. IsFiniteSet(Panel) /\ Cardinality(Panel) = PanelSize
  <2>1. 1 \in Int /\ PanelSize \in Int /\ PanelSize - 1 + 1 = PanelSize
    BY <1>1
  <2> QED
    BY <1>1, <2>1, FS_Interval DEF Panel
<1>3. ASSUME NEW S \in SUBSET Panel
      PROVE  IsFiniteSet(S) /\ Cardinality(S) \in Nat /\ Cardinality(S) <= PanelSize
  BY <1>2, FS_Subset, FS_CardinalityType
<1> QED
  BY <1>2, <1>3

LEMMA SettlingCounts ==
    ASSUME PanelInvariant, PanelCounts, NEW m \in Panel, NEW outcome \in Outcomes \union {"timeout"},
           SettleCall(m, outcome)
    PROVE  /\ settledCount' = Cardinality(Settled')
           /\ okCount' = Cardinality(Responded')
<1>1. /\ call[m] = "running"
      /\ call' = [call EXCEPT ![m] = outcome]
      /\ settledCount' = settledCount + 1
      /\ okCount' = IF outcome \in {"ok", "empty"} THEN okCount + 1 ELSE okCount
  BY DEF SettleCall
<1>2. call \in [Panel -> Outcomes \union {"unsent", "running", "timeout"}]
  BY DEF PanelInvariant
<1>3. m \notin Settled /\ Settled' = Settled \union {m}
  BY <1>1, <1>2 DEF Settled, Outcomes
<1>4. m \notin Responded
  BY <1>1 DEF Responded
<1>5. Responded' = IF outcome \in {"ok", "empty"} THEN Responded \union {m} ELSE Responded
  BY <1>1, <1>2 DEF Responded
<1>6. IsFiniteSet(Settled) /\ IsFiniteSet(Responded)
  <2>1. Settled \in SUBSET Panel /\ Responded \in SUBSET Panel
    BY DEF Settled, Responded
  <2> QED
    BY <2>1, PanelIsFinite
<1>7. Cardinality(Settled \union {m}) = Cardinality(Settled) + 1
  BY <1>3, <1>6, FS_AddElement
<1>8. Cardinality(Responded \union {m}) = Cardinality(Responded) + 1
  BY <1>4, <1>6, FS_AddElement
<1> QED
  BY <1>1, <1>3, <1>5, <1>7, <1>8 DEF PanelCounts

LEMMA StepsKeepPanelCounts ==
    PanelInvariant /\ PanelCounts /\ [FusionNext]_fusionVars => PanelCounts'
<1> SUFFICES ASSUME PanelInvariant, PanelCounts, [FusionNext]_fusionVars
             PROVE  PanelCounts'
  OBVIOUS
<1>1. ASSUME UNCHANGED <<call, settledCount, okCount>>, graceTimer' \in {"null", "armed", "cleared"},
             readIndex' <= PanelSize + 1, fusionPc' = "idle" => fusionPc = "idle"
      PROVE  PanelCounts'
  BY <1>1 DEF PanelCounts, Settled, Responded
<1>2. CASE FanOut
  <2>1. /\ fusionPc = "idle" /\ fusionPc' = "collecting" /\ call' = [m \in Panel |-> "running"]
        /\ UNCHANGED <<settledCount, okCount, graceTimer, readIndex>>
    BY <1>2 DEF FanOut
  <2>2. Settled' = Settled /\ Responded' = Responded
    BY <2>1 DEF PanelCounts, Settled, Responded
  <2> QED
    BY <2>1, <2>2 DEF PanelCounts
<1>3. ASSUME NEW m \in Panel, NEW outcome \in Outcomes \union {"timeout"}, SettleCall(m, outcome)
      PROVE  PanelCounts'
  <2>1. settledCount' = Cardinality(Settled') /\ okCount' = Cardinality(Responded')
    BY <1>3, SettlingCounts
  <2>2. graceTimer' \in {"null", "armed", "cleared"}
    BY <1>3 DEF SettleCall, AfterSettle, ClosePanel, PanelCounts
  <2>3. readIndex' <= PanelSize + 1
    BY <1>3 DEF SettleCall, PanelCounts
  <2>4. fusionPc # "idle"
    BY <1>3 DEF SettleCall, PanelCounts
  <2>5. fusionPc' # "idle"
    BY <1>3, <2>4 DEF SettleCall, AfterSettle, ClosePanel
  <2> QED
    BY <2>1, <2>2, <2>3, <2>5 DEF PanelCounts
<1>4. CASE GraceTimerFires
  BY <1>1, <1>4 DEF GraceTimerFires, ClosePanel, PanelCounts
<1>5. CASE ReadAnswer
  <2>1. readIndex' <= PanelSize + 1
    BY <1>5, PanelAssumption DEF ReadAnswer, PanelInvariant
  <2> QED
    BY <1>1, <1>5, <2>1 DEF ReadAnswer, PanelCounts
<1>6. CASE Conclude
  BY <1>1, <1>6 DEF Conclude, PanelCounts
<1>7. CASE UNCHANGED fusionVars
  BY <1>1, <1>7 DEF fusionVars, PanelCounts
<1> QED
  BY <1>2, <1>3, <1>4, <1>5, <1>6, <1>7 DEF FusionNext

FusionInvariant == PanelInvariant /\ PanelCounts

LEMMA FusionStarts == FusionInit => FusionInvariant
<1> SUFFICES ASSUME FusionInit
             PROVE  FusionInvariant
  OBVIOUS
<1>1. PanelInvariant
  BY DEF FusionInit, PanelInvariant
<1>2. Settled = {} /\ Responded = {}
  BY DEF FusionInit, Settled, Responded
<1>3. PanelCounts
  BY <1>2, FS_EmptySet, PanelAssumption DEF FusionInit, PanelCounts
<1> QED
  BY <1>1, <1>3 DEF FusionInvariant

LEMMA StepsKeepFusion == FusionInvariant /\ [FusionNext]_fusionVars => FusionInvariant'
  BY StepsKeepPanel, StepsKeepPanelCounts DEF FusionInvariant

LEMMA FusionTypes == FusionInvariant => FusionTypeOK
<1> SUFFICES ASSUME FusionInvariant
             PROVE  FusionTypeOK
  OBVIOUS
<1> USE DEF FusionInvariant
<1>1. Settled \in SUBSET Panel /\ Responded \in SUBSET Settled
  BY DEF Settled, Responded
<1>2. IsFiniteSet(Settled) /\ settledCount \in 0 .. PanelSize
  BY <1>1, PanelIsFinite, PanelAssumption DEF PanelCounts
<1>3. okCount \in 0 .. settledCount
  <2>1. Cardinality(Responded) <= Cardinality(Settled) /\ IsFiniteSet(Responded)
    BY <1>1, <1>2, FS_Subset
  <2>2. Cardinality(Responded) \in Nat /\ Cardinality(Settled) \in Nat
    BY <1>2, <2>1, FS_CardinalityType
  <2> QED
    BY <2>1, <2>2 DEF PanelCounts
<1>4. readIndex \in 1 .. PanelSize + 1
  BY PanelAssumption DEF PanelCounts, PanelInvariant
<1>5. answers \subseteq Panel /\ presentAtClose \subseteq Panel
  BY DEF PanelInvariant
<1> QED
  BY <1>2, <1>3, <1>4, <1>5 DEF FusionTypeOK, PanelInvariant, PanelCounts
=============================================================================
