----------------------------- MODULE FusionPanel -----------------------------
(***************************************************************************)
(* handleFusionChat and collectPanel of open-sse/services/combo.js: one    *)
(* request is put to all models of a panel at once, and a judge merges     *)
(* what has been answered when the panel closes.                           *)
(*                                                                         *)
(*   idle --> collecting --(closed)--> reading --> judging|direct|refused  *)
(*                                                                         *)
(* The calls run on when the panel has closed, and what they settle to     *)
(* goes into the array the reading loop is walking through.  collectPanel's*)
(* hard timer has the delay of the calls' own timers and is armed after    *)
(* them: by the time it is due every call is settled and it is cleared.    *)
(***************************************************************************)
EXTENDS Integers, Sequences, FiniteSets

CONSTANTS
    PanelSize,
    QuorumSetting   \* minPanel of the combo's tuning

ASSUME PanelAssumption ==
    /\ PanelSize \in Nat \ {0, 1}
    /\ QuorumSetting \in Nat

Panel == 1 .. PanelSize

Outcomes == {"ok", "empty", "failed"}

VARIABLES
    call,           \* out[i], or running; empty: a response without text
    settledCount,
    okCount,
    graceTimer,     \* null, armed, or cleared when the panel closes
    fusionPc,
    readIndex,
    answers,        \* models whose text goes to the judge
    presentAtClose  \* history: who had answered when the panel closed

fusionVars ==
    <<call, settledCount, okCount, graceTimer, fusionPc, readIndex, answers, presentAtClose>>

FusionTypeOK ==
    /\ call \in [Panel -> Outcomes \union {"unsent", "running", "timeout"}]
    /\ settledCount \in 0 .. PanelSize
    /\ okCount \in 0 .. settledCount
    /\ graceTimer \in {"null", "armed", "cleared"}
    /\ fusionPc \in {"idle", "collecting", "reading", "judging", "direct", "refused"}
    /\ readIndex \in 1 .. PanelSize + 1
    /\ answers \subseteq Panel
    /\ presentAtClose \subseteq Panel

FusionInit ==
    /\ call = [m \in Panel |-> "unsent"]
    /\ settledCount = 0
    /\ okCount = 0
    /\ graceTimer = "null"
    /\ fusionPc = "idle"
    /\ readIndex = 1
    /\ answers = {}
    /\ presentAtClose = {}
-----------------------------------------------------------------------------
\* minPanel, never below two nor above the panel.
Quorum ==
    LET atLeastTwo == IF QuorumSetting < 2 THEN 2 ELSE QuorumSetting
    IN  IF atLeastTwo < PanelSize THEN atLeastTwo ELSE PanelSize

\* finish: the first call of it closes the panel.
ClosePanel(calls) ==
    IF fusionPc = "collecting"
    THEN /\ fusionPc' = "reading"
         /\ presentAtClose' = {m \in Panel : calls[m] = "ok"}
         /\ graceTimer' = IF graceTimer = "armed" THEN "cleared" ELSE graceTimer
    ELSE UNCHANGED <<fusionPc, presentAtClose, graceTimer>>

\* Mutant: the panel waits for all of its members to succeed.
AfterSettleAllOk(calls) ==
    IF okCount' = PanelSize
    THEN ClosePanel(calls)
    ELSE /\ graceTimer' = IF okCount' >= Quorum /\ graceTimer = "null" THEN "armed" ELSE graceTimer
         /\ UNCHANGED <<fusionPc, presentAtClose>>

\* The finally clause of a call, before and after the panel has closed.
AfterSettle(calls) ==
    IF settledCount' = PanelSize
    THEN ClosePanel(calls)
    ELSE /\ graceTimer' = IF okCount' >= Quorum /\ graceTimer = "null" THEN "armed" ELSE graceTimer
         /\ UNCHANGED <<fusionPc, presentAtClose>>

\* The prompt goes to all members at once.  (A panel of one is an ordinary
\* request.)
FanOut ==
    /\ fusionPc = "idle"
    /\ fusionPc' = "collecting"
    /\ call' = [m \in Panel |-> "running"]
    /\ UNCHANGED <<settledCount, okCount, graceTimer, readIndex, answers, presentAtClose>>

\* A call settles: a response, an error status or an exception, or the call's
\* own timer.  A response counts as ok before its text is looked at.
SettleCall(m, outcome) ==
    /\ call[m] = "running"
    /\ call' = [call EXCEPT ![m] = outcome]
    /\ settledCount' = settledCount + 1
    /\ okCount' = IF outcome \in {"ok", "empty"} THEN okCount + 1 ELSE okCount
    /\ AfterSettle(call')
    /\ UNCHANGED <<readIndex, answers>>

\* stragglerGraceMs after the quorum.
GraceTimerFires ==
    /\ graceTimer = "armed"
    /\ ClosePanel(call)
    /\ UNCHANGED <<call, settledCount, okCount, readIndex, answers>>

\* Mutant: reading stops at the quorum.
ReadUpToQuorum ==
    /\ fusionPc = "reading"
    /\ readIndex <= PanelSize
    /\ readIndex' = IF Cardinality(answers) >= 2 THEN PanelSize + 1 ELSE readIndex + 1
    /\ answers' = IF call[readIndex] = "ok" /\ Cardinality(answers) < 2
                  THEN answers \union {readIndex} ELSE answers
    /\ UNCHANGED <<call, settledCount, okCount, graceTimer, fusionPc, presentAtClose>>

\* One turn of the loop over the array, which awaits the body of a response.
ReadAnswer ==
    /\ fusionPc = "reading"
    /\ readIndex <= PanelSize
    /\ readIndex' = readIndex + 1
    /\ answers' = IF call[readIndex] = "ok" THEN answers \union {readIndex} ELSE answers
    /\ UNCHANGED <<call, settledCount, okCount, graceTimer, fusionPc, presentAtClose>>

\* No answer: 503.  One: its model is asked directly.  More: the judge.
Conclude ==
    /\ fusionPc = "reading"
    /\ readIndex > PanelSize
    /\ fusionPc' = CASE answers = {} -> "refused"
                     [] Cardinality(answers) = 1 -> "direct"
                     [] OTHER -> "judging"
    /\ UNCHANGED <<call, settledCount, okCount, graceTimer, readIndex, answers, presentAtClose>>

FusionNext ==
    \/ FanOut
    \/ \E m \in Panel, outcome \in Outcomes \union {"timeout"} : SettleCall(m, outcome)
    \/ GraceTimerFires
    \/ ReadAnswer
    \/ Conclude
-----------------------------------------------------------------------------
(* Properties *)

\* What was answered in time is used, whatever arrives while the answers are read,
\* and nothing else is: a panel with an answer is not refused, and the judge is
\* asked if and only if there are two answers to merge.
AnswersReachTheJudge ==
    fusionPc \in {"judging", "direct", "refused"} =>
        /\ presentAtClose \subseteq answers
        /\ answers \subseteq {m \in Panel : call[m] = "ok"}
        /\ fusionPc = "refused" => presentAtClose = {}
        /\ (fusionPc = "judging") <=> (\E m, n \in answers : m # n)

\* The client gets its answer, even when members hang and whatever they answer.
PanelConcludes == fusionPc = "collecting" ~> fusionPc \in {"judging", "direct", "refused"}

\* A call that does not answer has its timer; timers fire; bodies are complete.
FusionFairness ==
    /\ \A m \in Panel : WF_fusionVars(SettleCall(m, "timeout"))
    /\ WF_fusionVars(GraceTimerFires)
    /\ WF_fusionVars((ReadAnswer \/ Conclude))

FusionSpec == FusionInit /\ [][FusionNext]_fusionVars /\ FusionFairness
=============================================================================
