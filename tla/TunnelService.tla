---------------------------- MODULE TunnelService ----------------------------
(***************************************************************************)
(* The quick tunnel: enableTunnel and disableTunnel of                     *)
(* lib/tunnel/cloudflare/manager.js, the cloudflared processes of          *)
(* cloudflared.js, and safeRestartTunnel with its watchdog in              *)
(* shared/services/initializeApp.js.                                       *)
(*                                                                         *)
(*   idle --Enable--> (probing) --> preparing --> spawning --> registering *)
(*     ^                                                            |      *)
(*     +-- success or failure -- reaching <-- verifying <-- saving <+      *)
(*                                                                         *)
(* Each arrow is an await.  A call of the user and a call of the watchdog  *)
(* may overlap with each other and with disableTunnel; two calls of the    *)
(* same origin are not put side by side.  A process stands for the URL it  *)
(* serves, and the change of a URL during its life is left out.  A restart *)
(* of the router forgets what is not in a file; after a crash the children *)
(* live on.                                                                *)
(***************************************************************************)
EXTENDS Integers, FiniteSets

CONSTANTS
    Procs,      \* cloudflared processes
    NoProc

Calls == {"user", "restart"}

Routes == {"enable", "disable"}

VARIABLES
    enableStep,
    child,          \* the process whose URL a call waits for
    owner,          \* the call in progress whose token svc.cancelToken is, if any
    callCancelled,  \* token.cancelled of a call in progress
    svcCancelled,   \* svc.cancelToken.cancelled
    spawnInProgress,
    portKnown,      \* svc.activeLocalPort
    alive,
    exited,         \* processes whose exit event is still to come
    pidFile,        \* also cloudflaredProcess, which changes with it
    savedUrl,       \* state.json has a tunnelUrl
    tunnelEnabled,  \* the setting
    intentionalKill,
    exitHandler,
    watching,       \* the watchdog's interval
    configuring,    \* routes that have yet to read the settings and start or stop it
    restartStep,    \* safeRestartTunnel awaits the check of the internet
    disabling       \* disableTunnel awaits the settings

tokenVars == <<owner, callCancelled, svcCancelled>>
callVars == <<enableStep, child, tokenVars, spawnInProgress, portKnown>>
processVars == <<alive, exited, pidFile, intentionalKill, exitHandler>>
monitorVars == <<watching, configuring>>
tunnelVars == <<callVars, processVars, savedUrl, tunnelEnabled, monitorVars, restartStep, disabling>>

TunnelTypeOK ==
    /\ enableStep \in [Calls -> {"idle", "probing", "preparing", "spawning", "registering",
                                 "saving", "verifying", "reaching"}]
    /\ child \in [Calls -> Procs \union {NoProc}]
    /\ owner \in Calls \union {"none"}
    /\ callCancelled \in [Calls -> BOOLEAN]
    /\ {svcCancelled, spawnInProgress, portKnown, savedUrl, tunnelEnabled, intentionalKill,
        exitHandler, watching, disabling} \subseteq BOOLEAN
    /\ configuring \subseteq Routes
    /\ alive \subseteq Procs /\ exited \subseteq Procs \ alive
    /\ pidFile \in Procs \union {NoProc}
    /\ restartStep \in {"none", "checking"}

TunnelInit ==
    /\ enableStep = [c \in Calls |-> "idle"]
    /\ child = [c \in Calls |-> NoProc]
    /\ owner = "none"
    /\ callCancelled = [c \in Calls |-> FALSE]
    /\ svcCancelled = FALSE
    /\ spawnInProgress = FALSE
    /\ portKnown = FALSE
    /\ alive = {} /\ exited = {}
    /\ pidFile = NoProc
    /\ savedUrl = FALSE
    /\ tunnelEnabled = FALSE
    /\ intentionalKill = FALSE
    /\ exitHandler = FALSE
    /\ watching = FALSE
    /\ configuring = {}
    /\ restartStep = "none"
    /\ disabling = FALSE
-----------------------------------------------------------------------------
Running == pidFile \in alive

\* killCloudflared: the recorded process, and by its port any other.
Kill(byPort) ==
    LET victims == IF byPort THEN alive ELSE alive \intersect {pidFile}
    IN  /\ intentionalKill' = TRUE
        /\ alive' = alive \ victims
        /\ exited' = exited \union victims
        /\ pidFile' = NoProc

\* Mutant: the finally clause is missing.
EndKeepingFlag(c) ==
    /\ enableStep' = [enableStep EXCEPT ![c] = "idle"]
    /\ child' = [child EXCEPT ![c] = NoProc]
    /\ owner' = IF owner = c THEN "none" ELSE owner
    /\ callCancelled' = [callCancelled EXCEPT ![c] = FALSE]
    /\ UNCHANGED <<svcCancelled, spawnInProgress>>

\* The finally clause of enableTunnel.
End(c) ==
    /\ enableStep' = [enableStep EXCEPT ![c] = "idle"]
    /\ child' = [child EXCEPT ![c] = NoProc]
    /\ owner' = IF owner = c THEN "none" ELSE owner
    /\ callCancelled' = [callCancelled EXCEPT ![c] = FALSE]
    /\ spawnInProgress' = FALSE
    /\ UNCHANGED svcCancelled

\* From killCloudflared to the await of spawnQuickTunnel; the token was checked.
ClearTheWay(c) ==
    /\ Kill(TRUE)
    /\ exitHandler' = TRUE
    /\ enableStep' = [enableStep EXCEPT ![c] = "preparing"]

\* enableTunnel up to its first await.  A process that runs is probed first.
Enable(c) ==
    /\ enableStep[c] = "idle"
    /\ owner' = c
    /\ callCancelled' = [callCancelled EXCEPT ![c] = FALSE]
    /\ svcCancelled' = FALSE
    /\ portKnown' = TRUE
    /\ spawnInProgress' = TRUE
    /\ IF Running /\ savedUrl
       THEN /\ enableStep' = [enableStep EXCEPT ![c] = "probing"]
            /\ UNCHANGED processVars
       ELSE ClearTheWay(c)
    /\ UNCHANGED <<child, savedUrl, tunnelEnabled, disabling>>

UserEnables ==
    /\ ~disabling
    /\ "enable" \notin configuring
    /\ Enable("user")
    /\ UNCHANGED <<monitorVars, restartStep>>

\* The route of the user's call goes on to configure the monitoring.
AfterSuccess(c) ==
    /\ End(c)
    /\ configuring' = IF c = "user" THEN configuring \union {"enable"} ELSE configuring
    /\ UNCHANGED watching

\* The URLs of the running process answer, or they do not.
Probed(c, ok) ==
    /\ enableStep[c] = "probing"
    /\ IF ok
       THEN AfterSuccess(c) /\ UNCHANGED processVars
       ELSE /\ IF callCancelled[c]
               THEN Kill(TRUE) /\ End(c) /\ UNCHANGED exitHandler
               ELSE ClearTheWay(c) /\ UNCHANGED <<child, tokenVars, spawnInProgress>>
            /\ UNCHANGED monitorVars
    /\ UNCHANGED <<portKnown, savedUrl, tunnelEnabled, restartStep, disabling>>

\* The binary is there: spawn it.  Nobody asks whether the call was cancelled.
Spawn(c, p) ==
    /\ enableStep[c] = "preparing"
    /\ p \notin alive \union exited
    /\ alive' = alive \union {p}
    /\ pidFile' = p
    /\ child' = [child EXCEPT ![c] = p]
    /\ enableStep' = [enableStep EXCEPT ![c] = "spawning"]
    /\ UNCHANGED <<tokenVars, spawnInProgress, portKnown, exited, intentionalKill, exitHandler,
                   savedUrl, tunnelEnabled, monitorVars, restartStep, disabling>>

\* cloudflared has printed its URL.
UrlArrives(c) ==
    /\ enableStep[c] = "spawning"
    /\ child[c] \in alive
    /\ IF callCancelled[c]
       THEN End(c)
       ELSE /\ enableStep' = [enableStep EXCEPT ![c] = "registering"]
            /\ child' = [child EXCEPT ![c] = NoProc]
            /\ UNCHANGED <<tokenVars, spawnInProgress>>
    /\ UNCHANGED <<portKnown, processVars, savedUrl, tunnelEnabled, monitorVars,
                   restartStep, disabling>>

\* The worker has answered: state.json is written at once.
Registered(c) ==
    /\ enableStep[c] = "registering"
    /\ savedUrl' = TRUE
    /\ enableStep' = [enableStep EXCEPT ![c] = "saving"]
    /\ UNCHANGED <<child, tokenVars, spawnInProgress, portKnown, processVars, tunnelEnabled,
                   monitorVars, restartStep, disabling>>

\* The transaction of updateSettings.
SettingsSaved(c) ==
    /\ enableStep[c] = "saving"
    /\ tunnelEnabled' = TRUE
    /\ enableStep' = [enableStep EXCEPT ![c] = "verifying"]
    /\ UNCHANGED <<child, tokenVars, spawnInProgress, portKnown, processVars, savedUrl,
                   monitorVars, restartStep, disabling>>

\* waitForHealth asks for the token before each probe and not after it.
CheckHealth(c) ==
    /\ enableStep[c] = "verifying"
    /\ ~callCancelled[c]
    /\ enableStep' = [enableStep EXCEPT ![c] = "reaching"]
    /\ UNCHANGED <<child, tokenVars, spawnInProgress, portKnown, processVars, savedUrl,
                   tunnelEnabled, monitorVars, restartStep, disabling>>

\* The public URL answers, and the direct one has been tried: nobody asks whether
\* the call was cancelled meanwhile.
Verified(c) ==
    /\ enableStep[c] = "reaching"
    /\ AfterSuccess(c)
    /\ UNCHANGED <<portKnown, processVars, savedUrl, tunnelEnabled, restartStep,
                   disabling>>

\* Any await may be rejected: download, 90 seconds without a URL, the worker,
\* the health check.  A process that was spawned is left alone.
FailCall(c) ==
    /\ enableStep[c] \notin {"idle", "probing"}
    /\ End(c)
    /\ UNCHANGED <<portKnown, processVars, savedUrl, tunnelEnabled, monitorVars,
                   restartStep, disabling>>
-----------------------------------------------------------------------------
\* A process ends by itself.
Crash(p) ==
    /\ p \in alive
    /\ alive' = alive \ {p}
    /\ exited' = exited \union {p}
    /\ UNCHANGED <<callVars, pidFile, intentionalKill, exitHandler, savedUrl, tunnelEnabled, monitorVars,
                   restartStep, disabling>>

\* Mutant: clearPid without the pid of the process that has ended.
PidAfterAnyExit(p) == NoProc

PidAfterExit(p) == IF pidFile = p THEN NoProc ELSE pidFile

\* The guards of safeRestartTunnel, up to the check of the internet.
Restartable(pid) ==
    tunnelEnabled /\ ~svcCancelled /\ ~spawnInProgress /\ pid \notin alive

\* The exit event of a process.  The flag a kill has left is used up by the
\* first event, whosever it is; otherwise the owner that still waits for a URL
\* gets an error, and anybody else asks for a restart.
ExitEvent(p) ==
    LET waiting == {c \in Calls : child[c] = p /\ enableStep[c] = "spawning"}
    IN  /\ p \in exited
        /\ exited' = exited \ {p}
        /\ pidFile' = PidAfterExit(p)
        /\ intentionalKill' = FALSE
        /\ IF waiting # {}
           THEN \E c \in waiting : End(c)
           ELSE UNCHANGED <<enableStep, child, tokenVars, spawnInProgress>>
        /\ restartStep' = IF ~intentionalKill /\ waiting = {} /\ exitHandler /\ Restartable(pidFile')
                          THEN "checking" ELSE restartStep
        /\ UNCHANGED <<portKnown, alive, exitHandler, savedUrl, tunnelEnabled, monitorVars,
                       disabling>>

\* A tick of the watchdog whose cooldown is over, or an event of the network
\* monitor, passes the guards.
WatchdogChecks ==
    /\ watching
    /\ restartStep = "none"
    /\ enableStep["restart"] = "idle"
    /\ Restartable(pidFile)
    /\ restartStep' = "checking"
    /\ UNCHANGED <<callVars, processVars, savedUrl, tunnelEnabled, monitorVars, disabling>>

\* There is internet: enableTunnel, whatever has happened since the guards.
Restart ==
    /\ restartStep = "checking"
    /\ Enable("restart")
    /\ restartStep' = "none"
    /\ UNCHANGED <<monitorVars>>

Offline ==
    /\ restartStep = "checking"
    /\ restartStep' = "none"
    /\ UNCHANGED <<callVars, processVars, savedUrl, tunnelEnabled, monitorVars, disabling>>
-----------------------------------------------------------------------------
\* disableTunnel up to its await.
Disable ==
    /\ ~disabling
    /\ "disable" \notin configuring
    /\ svcCancelled' = TRUE
    /\ callCancelled' = [c \in Calls |-> callCancelled[c] \/ c = owner]
    /\ exitHandler' = FALSE
    /\ Kill(portKnown)
    /\ savedUrl' = FALSE
    /\ disabling' = TRUE
    /\ UNCHANGED <<enableStep, child, owner, spawnInProgress, portKnown, tunnelEnabled, monitorVars,
                   restartStep>>

\* The settings are written; the route goes on to configure the monitoring.
Disabled ==
    /\ disabling
    /\ tunnelEnabled' = FALSE
    /\ spawnInProgress' = FALSE
    /\ portKnown' = FALSE
    /\ disabling' = FALSE
    /\ configuring' = configuring \union {"disable"}
    /\ UNCHANGED <<enableStep, child, tokenVars, processVars, savedUrl, watching, restartStep>>

\* configureTunnelMonitoring of the settings as they are now: a call that was under
\* way may have enabled the tunnel again, and a tailscale tunnel is watched too.
Configure(route) ==
    /\ route \in configuring
    /\ configuring' = configuring \ {route}
    /\ watching' \in {tunnelEnabled, TRUE}
    /\ UNCHANGED <<callVars, processVars, savedUrl, tunnelEnabled, restartStep, disabling>>

\* The end of the router, by a signal (it kills the process on record, and none by
\* its port) or not, and its next start.
RouterRestarts(graceful) ==
    LET killed == IF graceful THEN {pidFile} ELSE {}
    IN  /\ enableStep' = [c \in Calls |-> "idle"]
        /\ child' = [c \in Calls |-> NoProc]
        /\ owner' = "none"
        /\ callCancelled' = [c \in Calls |-> FALSE]
        /\ svcCancelled' = FALSE
        /\ spawnInProgress' = FALSE
        /\ portKnown' = FALSE
        /\ alive' = alive \ killed
        /\ exited' = {}
        /\ pidFile' = IF graceful THEN NoProc ELSE pidFile
        /\ intentionalKill' = FALSE
        /\ exitHandler' = FALSE
        /\ watching' \in {tunnelEnabled, TRUE}
        /\ configuring' = {}
        /\ restartStep' = IF tunnelEnabled /\ pidFile' \notin alive' THEN "checking" ELSE "none"
        /\ disabling' = FALSE
        /\ UNCHANGED <<savedUrl, tunnelEnabled>>

TunnelNext ==
    \/ UserEnables
    \/ \E c \in Calls :
         \/ \E ok \in BOOLEAN : Probed(c, ok)
         \/ \E p \in Procs : Spawn(c, p)
         \/ UrlArrives(c)
         \/ Registered(c)
         \/ SettingsSaved(c)
         \/ CheckHealth(c)
         \/ Verified(c)
         \/ FailCall(c)
    \/ \E p \in Procs : Crash(p) \/ ExitEvent(p)
    \/ WatchdogChecks \/ Restart \/ Offline
    \/ Disable \/ Disabled
    \/ \E route \in Routes : Configure(route)
    \/ \E graceful \in BOOLEAN : RouterRestarts(graceful)
-----------------------------------------------------------------------------
(* Properties *)

\* A process that lives stays on record until it is killed or a later one is
\* spawned, whenever the exit events of older ones arrive: the watchdog does not
\* take it for dead, and disableTunnel finds it.
LiveProcessStaysOnRecord ==
    [][Running => pidFile' = pidFile \/ pidFile \notin alive' \/ pidFile' \in alive']_tunnelVars

\* An enabled tunnel that is down is started again while the watchdog runs and
\* the user does not interfere, however earlier attempts have ended.
DeadTunnelIsRestarted ==
    /\ tunnelEnabled /\ watching /\ ~Running /\ ~svcCancelled
    ~> \/ ~tunnelEnabled \/ ~watching \/ Running \/ svcCancelled
       \/ \E c \in Calls : enableStep[c] # "idle"

\* The watchdog ticks and its cooldown ends; now and again there is internet.
TunnelFairness ==
    /\ WF_tunnelVars(WatchdogChecks)
    /\ SF_tunnelVars(Restart)

TunnelSpec == TunnelInit /\ [][TunnelNext]_tunnelVars /\ TunnelFairness
=============================================================================
