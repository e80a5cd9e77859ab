----------------------------- MODULE DatabaseBoot -----------------------------
(***************************************************************************)
(* The start of the database: initAdapter of lib/db/driver.js,             *)
(* runMigrationOnce of lib/db/migrate.js with the one-time import of the   *)
(* legacy JSON files, and the saves of the sql.js adapter.                 *)
(*                                                                         *)
(*   down --Open--> opened --Migrate--> migrated --Import--> marking       *)
(*                     |                   \--(abort, not fresh)--> up     *)
(*                     +--> failed                marking --Mark--> up     *)
(*                                                                         *)
(* The process may end anywhere; what a native driver has committed is     *)
(* then on disk, what sql.js has in memory is not.  The boot runs without  *)
(* an await: no save timer fires before it is over.  Which driver is       *)
(* chosen depends on the runtime, which may be another at the next boot    *)
(* (a write-ahead log a native driver leaves to sql.js is not modelled).   *)
(* Legacy files are there all the time.                                    *)
(***************************************************************************)
EXTENDS Integers

Drivers == {"native", "sqljs"}

\* stamped: _meta has rows; used: rows the router has written since.
Contents == [stamped : BOOLEAN, imported : BOOLEAN, used : BOOLEAN]

Empty == [stamped |-> FALSE, imported |-> FALSE, used |-> FALSE]

Torn == [torn |-> TRUE]

\* What a save that is cut off leaves: writeFileSync truncates before it writes.
CutShort == {Empty, Torn}

VARIABLES
    disk,           \* data.sqlite
    memory,         \* the open database
    bootPc,
    driver,
    fresh,          \* isFreshDb, before the migrations
    marker,         \* .migrated-from-json: none, or the driver that was open
    wiped,          \* history: the user has removed data.sqlite since the marker was written
    cut             \* history: a save of sql.js was cut off since then

bootVars == <<disk, memory, bootPc, driver, fresh, marker, wiped, cut>>

BootTypeOK ==
    /\ disk \in Contents \/ disk = Torn
    /\ memory \in Contents
    /\ bootPc \in {"down", "opened", "migrated", "marking", "up", "failed"}
    /\ driver \in Drivers
    /\ {fresh, wiped, cut} \subseteq BOOLEAN
    /\ marker \in Drivers \union {"none"}

BootInit ==
    /\ disk = Empty
    /\ memory = Empty
    /\ bootPc = "down"
    /\ driver = "native"
    /\ fresh = FALSE
    /\ marker = "none"
    /\ wiped = FALSE
    /\ cut = FALSE
-----------------------------------------------------------------------------
\* A change of the open database: on disk at once with a native driver.
Commit(contents) ==
    /\ memory' = contents
    /\ disk' = IF driver = "native" THEN contents ELSE disk

\* initAdapter.  No driver opens a torn file, and the rejected promise is kept; an
\* empty one is to every driver a new database.
Open(d) ==
    /\ bootPc = "down"
    /\ driver' = d
    /\ IF disk = Torn
       THEN bootPc' = "failed" /\ UNCHANGED memory
       ELSE bootPc' = "opened" /\ memory' = disk
    /\ UNCHANGED <<disk, fresh, marker, wiped, cut>>

\* isFreshDb, then the versioned migrations, the additive sync and the stamps.
Migrate ==
    /\ bootPc = "opened"
    /\ fresh' = ~memory.stamped
    /\ Commit([memory EXCEPT !.stamped = TRUE])
    /\ bootPc' = "migrated"
    /\ UNCHANGED <<driver, marker, wiped, cut>>

\* Mutant: the marker alone decides.
ImportIsDueByMarker == marker = "none"

\* fresh && hasLegacy && !alreadyImported
ImportIsDue == fresh /\ marker = "none"

\* The import's transaction.
Import ==
    /\ bootPc = "migrated"
    /\ ImportIsDue
    /\ Commit([memory EXCEPT !.imported = TRUE])
    /\ bootPc' = "marking"
    /\ UNCHANGED <<driver, fresh, marker, wiped, cut>>

\* Mutant: the marker is written though the transaction was rolled back.
ImportAbortsMarked ==
    /\ bootPc = "migrated"
    /\ ImportIsDue
    /\ bootPc' = "up"
    /\ marker' = driver
    /\ UNCHANGED <<disk, memory, driver, fresh, wiped, cut>>

\* MigrationAborted: a row was dropped, the transaction is rolled back, and the
\* router starts all the same.  Any other error fails the boot.
ImportAborts ==
    /\ bootPc = "migrated"
    /\ ImportIsDue
    /\ bootPc' \in {"up", "failed"}
    /\ UNCHANGED <<disk, memory, driver, fresh, marker, wiped, cut>>

NothingToImport ==
    /\ bootPc = "migrated"
    /\ ~ImportIsDue
    /\ bootPc' = "up"
    /\ UNCHANGED <<disk, memory, driver, fresh, marker, wiped, cut>>

\* The marker file; an error of the write is swallowed.
Mark ==
    /\ bootPc = "marking"
    /\ \/ marker' = driver /\ wiped' = FALSE /\ cut' = FALSE
       \/ UNCHANGED <<marker, wiped, cut>>
    /\ bootPc' = "up"
    /\ UNCHANGED <<disk, memory, driver, fresh>>

\* The router writes.
Use ==
    /\ bootPc = "up"
    /\ Commit([memory EXCEPT !.used = TRUE])
    /\ UNCHANGED <<bootPc, driver, fresh, marker, wiped, cut>>

\* persist.  An error of the write is swallowed; the file is then cut short.
Persist ==
    \/ disk' = memory /\ UNCHANGED cut
    \/ disk' \in CutShort /\ cut' = TRUE

\* sql.js has a timer that saves once its adapter was open.
Saving == driver = "sqljs" /\ bootPc \in {"up", "failed"} /\ memory.stamped

\* The debounced save.
SaveTimer ==
    /\ Saving
    /\ Persist
    /\ UNCHANGED <<memory, bootPc, driver, fresh, marker, wiped>>

\* The process ends, orderly: sql.js saves what is unsaved.
Stop ==
    /\ bootPc = "up"
    /\ IF driver = "sqljs" THEN Persist ELSE UNCHANGED <<disk, cut>>
    /\ memory' = Empty
    /\ bootPc' = "down"
    /\ UNCHANGED <<driver, fresh, marker, wiped>>

\* The process ends anywhere, in the middle of a save too: sql.js writes in place.
BootCrash ==
    /\ bootPc # "down"
    /\ \/ UNCHANGED <<disk, cut>>
       \/ Saving /\ disk' \in CutShort /\ cut' = TRUE
    /\ memory' = Empty
    /\ bootPc' = "down"
    /\ UNCHANGED <<driver, fresh, marker, wiped>>

Wipe ==
    /\ bootPc = "down"
    /\ disk' = Empty
    /\ wiped' = TRUE
    /\ UNCHANGED <<memory, bootPc, driver, fresh, marker, cut>>

BootNext ==
    \/ \E d \in Drivers : Open(d)
    \/ Migrate
    \/ Import \/ ImportAborts \/ NothingToImport
    \/ Mark
    \/ Use \/ SaveTimer
    \/ Stop \/ BootCrash \/ Wipe
-----------------------------------------------------------------------------
(* Properties *)

\* The import never runs over a database the router has written to, nor twice,
\* wherever the process ended before, whatever a save that was cut off has left
\* and whether or not the marker could be written.
ImportSparesUsedData ==
    [][bootPc = "migrated" /\ bootPc' = "marking" => ~memory.used /\ ~memory.imported]_bootVars

\* The marker, which forbids every later import, stands for data that is there:
\* with a native driver it is never written before the import is on disk.  (With
\* sql.js it is: the save comes up to 100 ms later.)  Only the user takes the data
\* away under it, or a later save of sql.js that is cut off: the next start finds
\* a new database, and does not import again.
MarkerFollowsImport ==
    marker = "native" /\ ~wiped /\ ~cut => disk.imported

BootSpec == BootInit /\ [][BootNext]_bootVars
=============================================================================
