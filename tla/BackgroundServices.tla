--------------------------- MODULE BackgroundServices ---------------------------
(***************************************************************************)
(* The services behind the requests: token refresh, quota cache, request   *)
(* log, start of the database, tunnel and MCP bridge, side by side.  As in *)
(* RequestServices no action of one reads or writes the state of another,  *)
(* so a behaviour follows one of them, chosen at the start.                *)
(***************************************************************************)
EXTENDS TokenRefresh, AntigravityQuota, RequestLog, DatabaseBoot, TunnelService, McpBridge

VARIABLE service

backgroundVars == <<service, refreshVars, quotaVars, logVars, bootVars, tunnelVars, bridgeVars>>

BackgroundServicesTypeOK ==
    /\ service \in {"refresh", "quota", "log", "boot", "tunnel", "bridge"}
    /\ RefreshTypeOK
    /\ QuotaTypeOK
    /\ LogTypeOK
    /\ BootTypeOK
    /\ TunnelTypeOK
    /\ BridgeTypeOK

BackgroundServicesInit ==
    /\ service \in {"refresh", "quota", "log", "boot", "tunnel", "bridge"}
    /\ RefreshInit
    /\ QuotaInit
    /\ LogInit
    /\ BootInit
    /\ TunnelInit
    /\ BridgeInit

BackgroundServicesNext ==
    \/ /\ service = "refresh"
       /\ RefreshNext
       /\ UNCHANGED <<service, quotaVars, logVars, bootVars, tunnelVars, bridgeVars>>
    \/ /\ service = "quota"
       /\ QuotaNext
       /\ UNCHANGED <<service, refreshVars, logVars, bootVars, tunnelVars, bridgeVars>>
    \/ /\ service = "log"
       /\ LogNext
       /\ UNCHANGED <<service, refreshVars, quotaVars, bootVars, tunnelVars, bridgeVars>>
    \/ /\ service = "boot"
       /\ BootNext
       /\ UNCHANGED <<service, refreshVars, quotaVars, logVars, tunnelVars, bridgeVars>>
    \/ /\ service = "tunnel"
       /\ TunnelNext
       /\ UNCHANGED <<service, refreshVars, quotaVars, logVars, bootVars, bridgeVars>>
    \/ /\ service = "bridge"
       /\ BridgeNext
       /\ UNCHANGED <<service, refreshVars, quotaVars, logVars, bootVars, tunnelVars>>

\* The fairness of each service while it is the one followed.
BackgroundServicesFairness ==
    /\ WF_quotaVars(service = "quota" /\
                       \E quotas \in [QuotaModels -> UpstreamReadings] : QuotaAnswer(quotas))
    /\ \A r \in QuotaRequests : WF_quotaVars(service = "quota" /\ Judge(r))
    /\ WF_logVars(service = "log" /\ LogTimerFires)
    /\ WF_logVars(service = "log" /\ (WriteBatch \/ WriteFails))
    /\ WF_tunnelVars(service = "tunnel" /\ WatchdogChecks)
    /\ SF_tunnelVars(service = "tunnel" /\ Restart)

BackgroundServicesSpec ==
    /\ BackgroundServicesInit
    /\ [][BackgroundServicesNext]_backgroundVars
    /\ BackgroundServicesFairness
=============================================================================
