---------------------------- MODULE RequestServices ----------------------------
(***************************************************************************)
(* What a request passes through besides breakers, semaphore and health:   *)
(* the selection of an account, the loop over the targets of a combo, the  *)
(* panel of a fusion, and the stream to the client.  Each has its own      *)
(* state, and no action of one reads or writes what belongs to another:    *)
(* interleaving them would show nothing that one of them alone does not.   *)
(* A behaviour therefore follows one service, chosen at the start, and     *)
(* leaves the others in their initial state.                               *)
(***************************************************************************)
EXTENDS AccountSelection, ComboFallback, FusionPanel, ClientStream

VARIABLE service

requestVars == <<service, selectionVars, comboVars, fusionVars, streamVars>>

RequestServicesTypeOK ==
    /\ service \in {"selection", "combo", "fusion", "stream"}
    /\ SelectionTypeOK
    /\ ComboTypeOK
    /\ FusionTypeOK
    /\ StreamTypeOK

RequestServicesInit ==
    /\ service \in {"selection", "combo", "fusion", "stream"}
    /\ SelectionInit
    /\ ComboInit
    /\ FusionInit
    /\ StreamInit /\ (service = "stream" \/ route = "openai")

RequestServicesNext ==
    \/ /\ service = "selection"
       /\ SelectionNext
       /\ UNCHANGED <<service, comboVars, fusionVars, streamVars>>
    \/ /\ service = "combo"
       /\ ComboNext
       /\ UNCHANGED <<service, selectionVars, fusionVars, streamVars>>
    \/ /\ service = "fusion"
       /\ FusionNext
       /\ UNCHANGED <<service, selectionVars, comboVars, streamVars>>
    \/ /\ service = "stream"
       /\ StreamNext
       /\ UNCHANGED <<service, selectionVars, comboVars, fusionVars>>

\* The fairness of each service while it is the one followed.
RequestServicesFairness ==
    /\ \A r \in Selectors : WF_selectionVars(service = "selection" /\ Proceed(r))
    /\ \A q \in ComboRequests :
         /\ WF_comboVars(service = "combo" /\ Timeout(q))
         /\ WF_comboVars(service = "combo" /\ CooledDown(q))
         /\ WF_comboVars(service = "combo" /\ NextTarget(q))
    /\ \A m \in Panel : WF_fusionVars(service = "fusion" /\ SettleCall(m, "timeout"))
    /\ WF_fusionVars(service = "fusion" /\ GraceTimerFires)
    /\ WF_fusionVars(service = "fusion" /\ (ReadAnswer \/ Conclude))

RequestServicesSpec ==
    RequestServicesInit /\ [][RequestServicesNext]_requestVars /\ RequestServicesFairness
=============================================================================
