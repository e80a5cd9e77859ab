------------------------------- MODULE McpBridge -------------------------------
(***************************************************************************)
(* src/lib/mcp/stdioSseBridge.js: the bridge between one local MCP plugin, *)
(* a child process that talks on its standard streams, and the SSE         *)
(* sessions of its clients.  A child is spawned for the first session and  *)
(* killed with the last one.  The store knows one entry by the plugin's    *)
(* name; the exit of a child is noticed later than it happens.             *)
(***************************************************************************)
EXTENDS Integers, FiniteSets

CONSTANTS
    Children,   \* child processes, in no particular order
    Sessions,   \* SSE connections
    NoChild

ASSUME BridgeAssumption == NoChild \notin Children

VARIABLES
    entry,      \* the child under the plugin's name in the store, or NoChild
    listeners,  \* of each child: the sessions in its entry
    life,       \* of each child
    session,    \* of each session: the child it was registered with, or NoChild
    down,       \* has the process shut down?
    lateExit    \* history: an exit has deleted the entry of another child

bridgeVars == <<entry, listeners, life, session, down, lateExit>>

\* killed: told to end; exited: it has, and the exit event is to come.
Lives == {"unborn", "alive", "killed", "exited", "gone"}

BridgeTypeOK ==
    /\ entry \in Children \cup {NoChild}
    /\ listeners \in [Children -> SUBSET Sessions]
    /\ life \in [Children -> Lives]
    /\ session \in [Sessions -> Children \cup {NoChild}]
    /\ down \in BOOLEAN
    /\ lateExit \in BOOLEAN

BridgeInit ==
    /\ entry = NoChild
    /\ listeners = [c \in Children |-> {}]
    /\ life = [c \in Children |-> "unborn"]
    /\ session = [s \in Sessions |-> NoChild]
    /\ down = FALSE
    /\ lateExit = FALSE
-----------------------------------------------------------------------------
\* Mutant: whether the entry can be used is not asked.
NeverUsable(c) == FALSE

\* getOrSpawn keeps the entry unless its child was killed or its exit is known.
Usable(c) == c # NoChild /\ life[c] \in {"alive", "exited"}

\* registerSession, with getOrSpawn.
RegisterSession(s) ==
    /\ ~down /\ session[s] = NoChild
    /\ \E c \in Children :
         /\ IF Usable(entry) THEN c = entry /\ UNCHANGED life
                             ELSE life[c] = "unborn" /\ life' = [life EXCEPT ![c] = "alive"]
         /\ entry' = c
         /\ listeners' = [listeners EXCEPT ![c] = @ \cup {s}]
         /\ session' = [session EXCEPT ![s] = c]
    /\ UNCHANGED <<down, lateExit>>

EndChild(c) == life' = [life EXCEPT ![c] = IF @ = "alive" THEN "killed" ELSE @]

\* unregisterSession: it looks for the session in the entry of today, whichever
\* child the session was registered with.
UnregisterSession(s) ==
    /\ ~down /\ session[s] # NoChild
    /\ session' = [session EXCEPT ![s] = NoChild]
    /\ IF entry = NoChild
       THEN UNCHANGED <<entry, listeners, life>>
       ELSE /\ listeners' = [listeners EXCEPT ![entry] = @ \ {s}]
            /\ IF listeners'[entry] = {}
               THEN EndChild(entry) /\ entry' = NoChild
               ELSE UNCHANGED <<entry, life>>
    /\ UNCHANGED <<down, lateExit>>

\* The child ends, told to or not.
ChildExits(c) ==
    /\ life[c] \in {"alive", "killed"}
    /\ life' = [life EXCEPT ![c] = "exited"]
    /\ UNCHANGED <<entry, listeners, session, down, lateExit>>

\* The exit handler deletes the entry by its name.
ChildExitEvent(c) ==
    /\ ~down /\ life[c] = "exited"
    /\ life' = [life EXCEPT ![c] = "gone"]
    /\ lateExit' = (lateExit \/ entry \notin {c, NoChild})
    /\ entry' = NoChild
    /\ UNCHANGED <<listeners, session, down>>

\* The cleanup on SIGINT or SIGTERM: killAllBridges, and the process ends.
KillAllBridges ==
    /\ ~down
    /\ down' = TRUE
    /\ IF entry = NoChild THEN UNCHANGED life ELSE EndChild(entry)
    /\ entry' = NoChild
    /\ UNCHANGED <<listeners, session, lateExit>>

BridgeNext ==
    \/ \E s \in Sessions : RegisterSession(s) \/ UnregisterSession(s)
    \/ \E c \in Children : ChildExits(c) \/ ChildExitEvent(c)
    \/ KillAllBridges
-----------------------------------------------------------------------------
(* Properties *)

\* "No sessions left -> kill child to avoid idle orphan process leak": a child
\* that nobody can reach through the store has been told to end.  The one way
\* to leak a child is an exit event that comes late and deletes the entry of
\* the child spawned since.
OnlyLateExitsOrphan ==
    ~lateExit => \A c \in Children :
        /\ life[c] = "alive" => entry = c
        /\ entry = c => listeners[c] # {}

BridgeSpec == BridgeInit /\ [][BridgeNext]_bridgeVars
=============================================================================
