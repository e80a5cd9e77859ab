---------------------------- MODULE ComboFallback ----------------------------
(***************************************************************************)
(* handleComboChat of open-sse/services/combo.js and the loop over the     *)
(* accounts of a target in src/sse/handlers/chat.js: the requests of one   *)
(* session try the targets of a combo one after the other, with the anchor *)
(* the context-relay strategy keeps for the session.                       *)
(*                                                                         *)
(*   idle --Order--> next --Try--> awaiting --error--> cooling | next      *)
(*                     \--no target, or client gone--> idle    |           *)
(*   idle <------------------ answer ------------------------- +           *)
(*                                                                         *)
(* Promise.race loses no attempt: one that timed out runs on, with its     *)
(* signal aborted, beside the target that is tried next.  The other        *)
(* strategies choose another order and have no anchor.  How the accounts   *)
(* of a target come to be free is the matter of AccountSelection,          *)
(* AccountHealth, AccountSemaphore and ProviderBreaker.                    *)
(***************************************************************************)
EXTENDS Integers, Sequences, FiniteSets, SequencesExt

CONSTANTS
    ComboRequests,  \* requests of one session
    Targets,        \* the models of the combo
    ComboAccounts,
    NoAnchor

ASSUME ComboAssumption ==
    /\ IsFiniteSet(ComboRequests)
    /\ IsFiniteSet(Targets) /\ Targets # {}
    /\ NoAnchor \notin ComboAccounts \union (Targets \X ComboAccounts)

VARIABLES
    comboPc,
    plan,           \* what is left of rotatedModels, from the target that is tried on
    pin,            \* the anchor as it was when the targets were ordered
    attempt,        \* handleSingleModelChat of a request for a target
    clientGone,     \* request.signal
    anchor,         \* sessionContextMap[sessionKey]
    activeRequests, \* activeRequestsMap
    lastAnswer      \* history: where the latest answer came from, while an anchor stands

comboVars == <<comboPc, plan, pin, attempt, clientGone, anchor, activeRequests, lastAnswer>>

Anchors == Targets \X ComboAccounts

\* on: the account in use; tried: excludeConnectionIds; lost: timed out.
NoAttempt == [on |-> NoAnchor, tried |-> {}, lost |-> FALSE]

Attempts == [on : ComboAccounts, tried : SUBSET ComboAccounts, lost : BOOLEAN] \union {NoAttempt}

ComboTypeOK ==
    /\ comboPc \in [ComboRequests -> {"idle", "next", "awaiting", "cooling"}]
    /\ \A q \in ComboRequests : plan[q] \in SeqOf(Targets, Cardinality(Targets))
    /\ pin \in [ComboRequests -> Anchors \union {NoAnchor}]
    /\ attempt \in [ComboRequests -> [Targets -> Attempts]]
    /\ clientGone \in [ComboRequests -> BOOLEAN]
    /\ anchor \in Anchors \union {NoAnchor}
    /\ activeRequests \in [Targets -> 0 .. Cardinality(ComboRequests)]
    /\ lastAnswer \in Anchors \union {NoAnchor}

ComboInit ==
    /\ comboPc = [q \in ComboRequests |-> "idle"]
    /\ plan = [q \in ComboRequests |-> <<>>]
    /\ pin = [q \in ComboRequests |-> NoAnchor]
    /\ attempt = [q \in ComboRequests |-> [t \in Targets |-> NoAttempt]]
    /\ clientGone = [q \in ComboRequests |-> FALSE]
    /\ anchor = NoAnchor
    /\ activeRequests = [t \in Targets |-> 0]
    /\ lastAnswer = NoAnchor
-----------------------------------------------------------------------------
Trying(q) == Head(plan[q])

Awaited(q, t) == comboPc[q] = "awaiting" /\ Trying(q) = t

\* The signal of an attempt: the client's, or that of the target's timer.
Silenced(q, t) == clientGone[q] \/ attempt[q][t].lost

\* trackActiveRequestEnd: entries are deleted at one, never negative.
ActiveAfterEnd(t) ==
    [activeRequests EXCEPT ![t] = IF activeRequests[t] <= 1 THEN 0 ELSE activeRequests[t] - 1]

\* Mutant: whoever succeeds commits, whether anybody waits or not.
AnchorAfterAnyAnswer(q, t) == <<t, attempt[q][t].on>>

\* commitContextRelayAffinity, behind the signal.
AnchorAfterAnswer(q, t) ==
    IF Silenced(q, t) THEN anchor ELSE <<t, attempt[q][t].on>>

\* invalidateContextRelayAffinity: only an anchor on that account is removed.
AnchorWithout(q, t, c) ==
    IF ~Silenced(q, t) /\ anchor # NoAnchor /\ anchor[2] = c THEN NoAnchor ELSE anchor

LastAnswerKept == lastAnswer' = IF anchor' = NoAnchor THEN NoAnchor ELSE lastAnswer

\* orderTargetsByContextRelay and reorderByCapabilities.  An anchored target
\* that is healthy comes first and pins its account; otherwise the anchor is
\* dropped and the first healthy target is taken.  A capability the request
\* needs may put another target in front.
Order(q, healthy, reordered) ==
    LET hit == anchor # NoAnchor /\ healthy
    IN  /\ comboPc[q] = "idle"
        /\ \A t \in Targets : attempt[q][t] = NoAttempt
        /\ anchor' = IF hit THEN anchor ELSE NoAnchor
        /\ pin' = [pin EXCEPT ![q] = anchor']
        /\ plan' = [plan EXCEPT ![q] = reordered]
        /\ comboPc' = [comboPc EXCEPT ![q] = "next"]
        /\ LastAnswerKept
        /\ UNCHANGED <<attempt, clientGone, activeRequests>>

\* The account an attempt prefers: the pinned one, for the first target only.
Preferred(q) ==
    IF pin[q] # NoAnchor /\ pin[q][1] = Trying(q)
    THEN {pin[q][2]} ELSE {}

\* The accounts getProviderCredentials may choose of those that are free.
AccountsToTry(q, free) ==
    IF Preferred(q) \subseteq free /\ Preferred(q) # {} THEN Preferred(q) ELSE free

\* One turn of the loop over the targets: the race begins.  Without a free
\* account the attempt fails at once, and the preferred account is given up.
Try(q, free) ==
    LET t == Trying(q)
    IN  /\ comboPc[q] = "next"
        /\ plan[q] # <<>>
        /\ ~clientGone[q]
        /\ pin' = [pin EXCEPT ![q] = NoAnchor]
        /\ \/ /\ free # {}
              /\ \E c \in AccountsToTry(q, free) :
                    attempt' = [attempt EXCEPT ![q][t] = [on |-> c, tried |-> {}, lost |-> FALSE]]
              /\ activeRequests' = [activeRequests EXCEPT ![t] = @ + 1]
              /\ comboPc' = [comboPc EXCEPT ![q] = "awaiting"]
              /\ UNCHANGED <<plan, anchor>>
           \/ /\ free = {}
              /\ anchor' = IF \E c \in Preferred(q) : AnchorWithout(q, t, c) = NoAnchor
                           THEN NoAnchor ELSE anchor
              /\ plan' = [plan EXCEPT ![q] = Tail(@)]
              /\ UNCHANGED <<attempt, activeRequests, comboPc>>
        /\ LastAnswerKept
        /\ UNCHANGED clientGone

\* handleComboChat returns.
Done(q) ==
    /\ comboPc' = [comboPc EXCEPT ![q] = "idle"]
    /\ plan' = [plan EXCEPT ![q] = <<>>]
    /\ pin' = [pin EXCEPT ![q] = NoAnchor]
    /\ clientGone' = [clientGone EXCEPT ![q] = FALSE]

\* The loop returns: 499 to a client that is gone, the aggregated error when
\* all targets have failed.
GiveUp(q) ==
    /\ comboPc[q] = "next"
    /\ clientGone[q] \/ plan[q] = <<>>
    /\ Done(q)
    /\ UNCHANGED <<attempt, anchor, activeRequests, lastAnswer>>
-----------------------------------------------------------------------------
\* The race is over without an answer; 502, 503 and 504 are given time.
MoveOn(q, t) ==
    /\ activeRequests' = ActiveAfterEnd(t)
    /\ \E transient \in BOOLEAN :
         /\ comboPc' = [comboPc EXCEPT ![q] = IF transient THEN "cooling" ELSE "next"]
         /\ plan' = [plan EXCEPT ![q] = IF transient THEN @ ELSE Tail(@)]

\* An account has answered.  If the race was lost nobody reads the answer.
TargetAnswers(q, t) ==
    /\ attempt[q][t] # NoAttempt
    /\ attempt' = [attempt EXCEPT ![q][t] = NoAttempt]
    /\ anchor' = AnchorAfterAnswer(q, t)
    /\ lastAnswer' = IF Awaited(q, t) /\ ~clientGone[q] THEN <<t, attempt[q][t].on>> ELSE lastAnswer
    /\ IF Awaited(q, t)
       THEN Done(q) /\ activeRequests' = ActiveAfterEnd(t)
       ELSE UNCHANGED <<comboPc, plan, pin, clientGone, activeRequests>>

\* An account has failed and another of the target is tried.
NextAccount(q, t, c) ==
    LET failed == attempt[q][t].on
    IN  /\ attempt[q][t] # NoAttempt
        /\ ~Silenced(q, t)
        /\ c \notin attempt[q][t].tried \union {failed}
        /\ attempt' = [attempt EXCEPT ![q][t] =
                [on |-> c, tried |-> @.tried \union {failed}, lost |-> @.lost]]
        /\ anchor' = AnchorWithout(q, t, failed)
        /\ LastAnswerKept
        /\ UNCHANGED <<comboPc, plan, pin, clientGone, activeRequests>>

\* An attempt ends with an error: no other account is free, the status admits
\* none (unprocessable: the anchor stays), the signal is aborted (499), or
\* handleSingleModelChat throws.
Fail(q, t, unprocessable) ==
    /\ attempt[q][t] # NoAttempt
    /\ attempt' = [attempt EXCEPT ![q][t] = NoAttempt]
    /\ anchor' = IF unprocessable THEN anchor ELSE AnchorWithout(q, t, attempt[q][t].on)
    /\ IF Awaited(q, t) THEN MoveOn(q, t) ELSE UNCHANGED <<comboPc, plan, activeRequests>>
    /\ LastAnswerKept
    /\ UNCHANGED <<pin, clientGone>>

\* Mutant: the counter is left alone when the timer wins the race.
TimeoutUncounted(q) ==
    /\ comboPc[q] = "awaiting"
    /\ attempt' = [attempt EXCEPT ![q][Trying(q)] = [on |-> @.on, tried |-> {}, lost |-> TRUE]]
    /\ comboPc' = [comboPc EXCEPT ![q] = "next"]
    /\ plan' = [plan EXCEPT ![q] = Tail(@)]
    /\ UNCHANGED <<pin, clientGone, anchor, activeRequests, lastAnswer>>

\* Mutant: the timer aborts the attempt and nobody resolves the race.
TimeoutUnresolved(q) ==
    /\ comboPc[q] = "awaiting"
    /\ ~attempt[q][Trying(q)].lost
    /\ attempt' = [attempt EXCEPT ![q][Trying(q)] = [on |-> @.on, tried |-> {}, lost |-> TRUE]]
    /\ UNCHANGED <<comboPc, plan, pin, clientGone, anchor, activeRequests, lastAnswer>>

\* The timer of the target wins: 524, and the next target at once.
Timeout(q) ==
    /\ comboPc[q] = "awaiting"
    /\ attempt' = [attempt EXCEPT ![q][Trying(q)] = [on |-> @.on, tried |-> {}, lost |-> TRUE]]
    /\ activeRequests' = ActiveAfterEnd(Trying(q))
    /\ comboPc' = [comboPc EXCEPT ![q] = "next"]
    /\ plan' = [plan EXCEPT ![q] = Tail(@)]
    /\ UNCHANGED <<pin, clientGone, anchor, lastAnswer>>

CooledDown(q) ==
    /\ comboPc[q] = "cooling"
    /\ comboPc' = [comboPc EXCEPT ![q] = "next"]
    /\ plan' = [plan EXCEPT ![q] = Tail(@)]
    /\ UNCHANGED <<pin, attempt, clientGone, anchor, activeRequests, lastAnswer>>

Disconnect(q) ==
    /\ comboPc[q] # "idle"
    /\ ~clientGone[q]
    /\ clientGone' = [clientGone EXCEPT ![q] = TRUE]
    /\ UNCHANGED <<comboPc, plan, pin, attempt, anchor, activeRequests, lastAnswer>>

\* The session was not seen for SESSION_CONTEXT_TTL_MS, or there are more than
\* SESSION_CONTEXT_MAX_ENTRIES: another session's request prunes its anchor.
Prune ==
    /\ anchor # NoAnchor
    /\ anchor' = NoAnchor
    /\ LastAnswerKept
    /\ UNCHANGED <<comboPc, plan, pin, attempt, clientGone, activeRequests>>

\* The loop over the targets goes on.
NextTarget(q) == GiveUp(q) \/ \E free \in SUBSET ComboAccounts : Try(q, free)

ComboNext ==
    \/ \E q \in ComboRequests :
         \/ \E healthy \in BOOLEAN, o \in SetToSeqs(Targets) : Order(q, healthy, o)
         \/ NextTarget(q)
         \/ Timeout(q)
         \/ CooledDown(q)
         \/ Disconnect(q)
         \/ \E t \in Targets :
              \/ TargetAnswers(q, t)
              \/ \E c \in ComboAccounts : NextAccount(q, t, c)
              \/ \E unprocessable \in BOOLEAN : Fail(q, t, unprocessable)
    \/ Prune
-----------------------------------------------------------------------------
(* Properties *)

\* The anchor of a session is where its latest answer came from: an attempt
\* whose race was lost, or whose client has left, does not move the session to
\* an account that never answered it.
AnchorIsLatestAnswer == anchor \in {NoAnchor, lastAnswer}

\* The counter of a target, which P2C compares, is the number of requests that
\* wait for it: no way out of the race forgets it or counts it down twice.
ActiveIsExact ==
    \A t \in Targets :
        activeRequests[t] = Cardinality({q \in ComboRequests : Awaited(q, t)})

\* A combo with a timeout for its targets answers, even when they all hang.  The
\* timeout has to be configured: handleComboChat is given none by default, and a
\* combo that has none waits for a target as long as the account does.
ComboAnswers == \A q \in ComboRequests : comboPc[q] # "idle" ~> comboPc[q] = "idle"

\* Timers fire and the loop goes on; nothing obliges an account to answer.
ComboFairness ==
    \A q \in ComboRequests :
        /\ WF_comboVars(Timeout(q))
        /\ WF_comboVars(CooledDown(q))
        /\ WF_comboVars(NextTarget(q))

ComboSpec == ComboInit /\ [][ComboNext]_comboVars /\ ComboFairness
=============================================================================
