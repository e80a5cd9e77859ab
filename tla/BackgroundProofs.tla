--------------------------- MODULE BackgroundProofs ---------------------------
(***************************************************************************)
(* Theorems about RequestLog, for every batch size and limit of the table, *)
(* about DatabaseBoot, and about TunnelService and McpBridge, for any      *)
(* number of processes, children and sessions.                             *)
(***************************************************************************)
EXTENDS BackgroundServices, CredentialProofs, NumberTheorems

(* The write buffer of request details *)

Written == rows \union trimmed \union replaced

\* Saves reach the table in the order of acceptance: buffer, batch and table never
\* change places.
LogOrder ==
    /\ accepted \in Nat
    /\ isFlushing \in BOOLEAN
    /\ \A t \in trimmed, r \in rows : t < r
    /\ \A b \in batch, r \in Written : r < b
    /\ \A w \in writeBuffer, r \in batch \union Written : r < w
    /\ ~isFlushing => batch = {}

\* A record is saved twice at most: a second save has no successor, and a save that
\* may get one is in no pair yet.
LogPairs ==
    /\ streaming \subseteq 1 .. accepted
    /\ again \subseteq (1 .. accepted) \X (1 .. accepted)
    /\ \A p \in again : p[1] \notin streaming /\ p[2] \notin streaming
    /\ \A p, q \in again : p[2] # q[1]

\* Every save is somewhere, and a row is replaced by that of the second save only.
LogRows ==
    /\ 1 .. accepted = writeBuffer \union batch \union Written \union lostSaves
    /\ \A s \in replaced : \E t \in rows \union trimmed : <<s, t>> \in again
    /\ \A s, t \in rows : <<s, t>> \notin again

LogInvariant == LogOrder /\ LogPairs /\ LogRows

\* What the table loses is older than what it keeps.
LEMMA NewestAreNewer ==
    ASSUME NEW n \in Nat, NEW S \in SUBSET (1 .. n)
    PROVE  \A t \in S \ Newest(S), r \in Newest(S) : t < r
<1> SUFFICES ASSUME NEW t \in S, t \notin Newest(S), NEW r \in Newest(S), ~(t < r)
             PROVE  FALSE
  OBVIOUS
<1> DEFINE Above(x) == {q \in S : q > x}
<1>1. IsFiniteSet(1 .. n)
  BY FS_Interval
<1>2. IsFiniteSet(S)
  BY <1>1, FS_Subset
<1>3. IsFiniteSet(Above(r)) /\ IsFiniteSet(Above(t))
  BY <1>2, FS_Subset
<1>4. Above(t) \in SUBSET Above(r)
  <2>1. t \in Int /\ r \in Int /\ \A q \in S : q \in Int
    BY DEF Newest
  <2>2. \A q \in S : q > t => q > r
    BY <2>1
  <2> QED
    BY <2>2
<1>5. Cardinality(Above(t)) <= Cardinality(Above(r))
  BY <1>3, <1>4, FS_Subset
<1>6. Cardinality(Above(t)) \in Nat /\ Cardinality(Above(r)) \in Nat
  BY <1>3, FS_CardinalityType
<1>7. Cardinality(Above(r)) < MaxRecords /\ ~(Cardinality(Above(t)) < MaxRecords)
  BY DEF Newest
<1> QED
  BY <1>5, <1>6, <1>7, LogAssumption

\* A save is a first one, or the second one of a record that has no pair yet.
LEMMA NumberKeepsPairs ==
    ASSUME accepted \in Nat, LogPairs, NEW first \in streaming \union {0}, Number(first)
    PROVE  LogPairs'
<1>1. /\ accepted' = accepted + 1
      /\ \/ streaming' = streaming \union {accepted + 1} /\ again' = again
         \/ /\ first \in streaming /\ streaming' = streaming \ {first}
            /\ again' = again \union {<<first, accepted + 1>>}
  BY DEF Number
<1>2. 1 .. accepted' = (1 .. accepted) \union {accepted + 1} /\ accepted + 1 \notin 1 .. accepted
  BY <1>1
<1>3. /\ streaming \subseteq 1 .. accepted
      /\ again \subseteq (1 .. accepted) \X (1 .. accepted)
      /\ \A p \in again : p[1] \notin streaming /\ p[2] \notin streaming
      /\ \A p, q \in again : p[2] # q[1]
  BY DEF LogPairs
<1>4. \A p \in again : p[1] \in 1 .. accepted /\ p[2] \in 1 .. accepted
  BY <1>3
<1>5. ASSUME streaming' = streaming \union {accepted + 1}, again' = again
      PROVE  LogPairs'
  BY <1>2, <1>3, <1>4, <1>5 DEF LogPairs
<1>6. ASSUME first \in streaming, streaming' = streaming \ {first},
             again' = again \union {<<first, accepted + 1>>}
      PROVE  LogPairs'
  <2>1. first \in 1 .. accepted
    BY <1>3, <1>6
  <2>2. streaming' \subseteq 1 .. accepted'
    BY <1>2, <1>3, <1>6
  <2>3. again' \subseteq (1 .. accepted') \X (1 .. accepted')
    BY <1>2, <1>3, <1>6, <2>1
  <2>4. \A p \in again' : p[1] \notin streaming' /\ p[2] \notin streaming'
    BY <1>2, <1>3, <1>6
  <2>5. \A p, q \in again' : p[2] # q[1]
    BY <1>2, <1>3, <1>4, <1>6, <2>1
  <2> QED
    BY <2>2, <2>3, <2>4, <2>5 DEF LogPairs
<1> QED
  BY <1>1, <1>5, <1>6

\* A new save is in no pair with one that is written.
LEMMA NumberKeepsRows ==
    ASSUME accepted \in Nat, NEW first, Number(first), rows \subseteq 1 .. accepted,
           NEW s \in rows, NEW t \in rows
    PROVE  <<s, t>> \in again' <=> <<s, t>> \in again
<1>1. again' = again \/ again' = again \union {<<first, accepted + 1>>}
  BY DEF Number
<1>2. t # accepted + 1
  OBVIOUS
<1> QED
  BY <1>1, <1>2

LEMMA UpsertsAreSaves ==
    ASSUME NEW S
    PROVE  Upserted(S) \subseteq S
  BY DEF Upserted

LEMMA StepsKeepLog == LogInvariant /\ [LogNext]_logVars => LogInvariant'
<1> SUFFICES ASSUME LogInvariant, [LogNext]_logVars
             PROVE  LogInvariant'
  OBVIOUS
<1>0. /\ LogOrder /\ LogPairs /\ LogRows
      /\ accepted \in Nat
      /\ rows \subseteq 1 .. accepted /\ trimmed \subseteq 1 .. accepted
      /\ replaced \subseteq 1 .. accepted /\ batch \subseteq 1 .. accepted
      /\ writeBuffer \subseteq 1 .. accepted /\ lostSaves \subseteq 1 .. accepted
  BY DEF LogInvariant, LogOrder, LogRows, Written
<1>1. ASSUME NEW first \in streaming \union {0}, Save(first)
      PROVE  LogInvariant'
  <2> DEFINE buffer == writeBuffer \union {accepted + 1}
  <2>1. Number(first) /\ accepted' = accepted + 1 /\ UNCHANGED <<rows, trimmed, replaced, lostSaves>>
    BY <1>1 DEF Save, Number
  <2>2. \/ writeBuffer' = buffer /\ UNCHANGED <<isFlushing, batch>>
        \/ ~isFlushing /\ writeBuffer' = {} /\ isFlushing' = TRUE /\ batch' = buffer
    BY <1>1 DEF Save, StartFlush
  <2>3. Written' = Written
    BY <2>1 DEF Written
  <2>4. LogOrder'
    <3>1. \A x \in batch \union Written : x \in Int /\ x < accepted + 1
      BY <1>0 DEF Written
    <3>2. \A w \in buffer, r \in batch \union Written : r < w
      BY <1>0, <3>1 DEF LogOrder
    <3>3. CASE writeBuffer' = buffer /\ UNCHANGED <<isFlushing, batch>>
      BY <1>0, <2>1, <2>3, <3>2, <3>3 DEF LogOrder
    <3>4. CASE ~isFlushing /\ writeBuffer' = {} /\ isFlushing' = TRUE /\ batch' = buffer
      <4>1. \A b \in batch', r \in Written' : r < b
        BY <2>3, <3>2, <3>4
      <4>2. (\A t \in trimmed, r \in rows : t < r)' /\ accepted' \in Nat
        BY <1>0, <2>1 DEF LogOrder
      <4> QED
        BY <3>4, <4>1, <4>2 DEF LogOrder
    <3> QED
      BY <2>2, <3>3, <3>4
  <2>5. LogPairs'
    BY <1>0, <2>1, NumberKeepsPairs
  <2>6. LogRows'
    <3>1. 1 .. accepted' = (1 .. accepted) \union {accepted + 1}
      BY <1>0, <2>1
    <3>2. writeBuffer' \union batch' = writeBuffer \union batch \union {accepted + 1}
      BY <1>0, <2>2 DEF LogOrder
    <3>3. 1 .. accepted' = writeBuffer' \union batch' \union Written' \union lostSaves'
      BY <1>0, <2>1, <2>3, <3>1, <3>2 DEF LogRows
    <3>4. again \subseteq again'
      BY <2>1 DEF Number
    <3>5. \A s \in replaced' : \E t \in rows' \union trimmed' : <<s, t>> \in again'
      BY <1>0, <2>1, <3>4 DEF LogRows
    <3>6. \A s, t \in rows' : <<s, t>> \notin again'
      BY <1>0, <2>1, NumberKeepsRows DEF LogRows
    <3> QED
      BY <3>3, <3>5, <3>6 DEF LogRows
  <2> QED
    BY <2>4, <2>5, <2>6 DEF LogInvariant
<1>2. CASE LogTimerFires
  <2>1. /\ UNCHANGED <<accepted, streaming, again, rows, trimmed, replaced, lostSaves>>
        /\ \/ UNCHANGED <<writeBuffer, isFlushing, batch>>
           \/ ~isFlushing /\ writeBuffer' = {} /\ isFlushing' = TRUE /\ batch' = writeBuffer
    BY <1>2 DEF LogTimerFires, StartFlush, recordVars
  <2>2. Written' = Written
    BY <2>1 DEF Written
  <2>3. LogOrder'
    BY <1>0, <2>1, <2>2 DEF LogOrder
  <2>4. LogPairs'
    BY <1>0, <2>1 DEF LogPairs
  <2>5. writeBuffer' \union batch' = writeBuffer \union batch
    BY <1>0, <2>1 DEF LogOrder
  <2>6. LogRows'
    BY <1>0, <2>1, <2>2, <2>5 DEF LogRows
  <2> QED
    BY <2>3, <2>4, <2>6 DEF LogInvariant
<1>3. CASE WriteBatch
  <2> DEFINE S == rows \union batch
             stored == Upserted(S)
  <2>1. /\ rows' = Newest(stored) /\ trimmed' = trimmed \union (stored \ rows')
        /\ replaced' = replaced \union (S \ stored)
        /\ batch' = writeBuffer /\ writeBuffer' = {} /\ isFlushing' = (writeBuffer # {})
        /\ UNCHANGED <<accepted, streaming, again, lostSaves>>
    BY <1>3 DEF WriteBatch, NextBatch, recordVars
  <2>2. stored \subseteq S /\ Newest(stored) \subseteq stored
    BY UpsertsAreSaves DEF Newest
  <2>3. stored \in SUBSET (1 .. accepted)
    BY <1>0, <2>2
  <2>4. \A t \in stored \ Newest(stored), r \in Newest(stored) : t < r
    BY <1>0, <2>3, NewestAreNewer
  <2>5. \A s, t \in S : <<s, t>> \in again /\ s \in stored => FALSE
    BY DEF Upserted
  <2>6. \A s \in S \ stored : \E t \in stored : <<s, t>> \in again
    <3>1. ASSUME NEW s \in S, s \notin stored
          PROVE  \E t \in stored : <<s, t>> \in again
      <4>1. PICK t \in S : <<s, t>> \in again
        BY <3>1 DEF Upserted
      <4>2. \A u \in S : <<t, u>> \notin again
        BY <1>0, <4>1 DEF LogPairs
      <4>3. t \in stored
        BY <4>2 DEF Upserted
      <4> QED
        BY <4>1, <4>3
    <3> QED
      BY <3>1
  <2>7. \A s \in rows : s \in stored \/ \E t \in stored : <<s, t>> \in again
    BY <2>6
  <2>8. \A q \in again : \A p \in again : p[2] # q[1]
    BY <1>0 DEF LogPairs
  <2>9. \A s, t \in S : <<s, t>> \in again => t \in stored
    BY <2>8 DEF Upserted
  <2> HIDE DEF stored
  <2>10. Written' = Written \union batch
    BY <2>1, <2>2 DEF Written
  <2>11. LogOrder'
    <3>1. \A t \in trimmed', r \in rows' : t < r
      BY <1>0, <2>1, <2>2, <2>4 DEF LogOrder, Written
    <3>2. \A b \in batch', r \in Written' : r < b
      BY <1>0, <2>1, <2>10 DEF LogOrder
    <3> QED
      BY <1>0, <2>1, <3>1, <3>2 DEF LogOrder
  <2>12. LogPairs'
    BY <1>0, <2>1 DEF LogPairs
  <2>13. LogRows'
    <3>1. (1 .. accepted)' = writeBuffer' \union batch' \union Written' \union lostSaves'
      BY <1>0, <2>1, <2>10 DEF LogRows
    <3>2. ASSUME NEW s \in replaced'
          PROVE  \E t \in rows' \union trimmed' : <<s, t>> \in again
      <4>1. stored \subseteq rows' \union trimmed' /\ trimmed \subseteq rows' \union trimmed'
        BY <2>1
      <4>2. CASE s \in S \ stored
        BY <2>6, <4>1, <4>2
      <4>3. CASE s \in replaced
        <5>1. PICK t \in rows \union trimmed : <<s, t>> \in again
          BY <1>0, <4>3 DEF LogRows
        <5>2. CASE t \in trimmed
          BY <4>1, <5>1, <5>2
        <5>3. CASE t \in rows
          <6>1. \A u \in S : <<t, u>> \notin again
            BY <2>8, <5>1
          <6>2. t \in stored
            BY <5>3, <6>1 DEF stored, Upserted
          <6> QED
            BY <4>1, <5>1, <6>2
        <5> QED
          BY <5>1, <5>2, <5>3
      <4> QED
        BY <2>1, <3>2, <4>2, <4>3
    <3>3. \A s, t \in rows' : <<s, t>> \notin again
      BY <2>1, <2>2, <2>5
    <3> QED
      BY <2>1, <3>1, <3>2, <3>3 DEF LogRows
  <2> QED
    BY <2>11, <2>12, <2>13 DEF LogInvariant
<1>4. CASE WriteFails
  BY <1>0, <1>4 DEF WriteFails, recordVars, LogInvariant, LogOrder, LogPairs, LogRows, Written
<1>5. CASE LogProcessEnds
  BY <1>0, <1>5 DEF LogProcessEnds, LogInvariant, LogOrder, LogPairs, LogRows, Written
<1>6. CASE UNCHANGED logVars
  BY <1>0, <1>6 DEF logVars, recordVars, LogInvariant, LogOrder, LogPairs, LogRows, Written
<1> QED
  BY <1>1, <1>2, <1>3, <1>4, <1>5, <1>6 DEF LogNext

LEMMA LogStarts == LogInit => LogInvariant
<1> SUFFICES ASSUME LogInit
             PROVE  LogInvariant
  OBVIOUS
<1>1. LogOrder
  BY DEF LogInit, LogOrder, Written
<1>2. LogPairs
  BY DEF LogInit, LogPairs
<1>3. 1 .. accepted = {}
  BY DEF LogInit
<1>4. writeBuffer \union batch \union Written \union lostSaves = {}
  BY DEF LogInit, Written
<1>5. replaced = {} /\ rows = {}
  BY DEF LogInit
<1> QED
  BY <1>1, <1>2, <1>3, <1>4, <1>5 DEF LogInvariant, LogRows

LEMMA UnionOfSix ==
    ASSUME NEW a, NEW b, NEW c, NEW d, NEW e, NEW f
    PROVE  UNION {a, b, c, d, e, f} = a \union b \union (c \union d \union e) \union f
<1>1. \A x : x \in UNION {a, b, c, d, e, f} <=> x \in a \union b \union (c \union d \union e) \union f
  BY Zenon
<1> QED
  BY <1>1, Zenon

LEMMA LogIsAccounted == LogInvariant => RecordsAreAccounted
<1>1. writeBuffer \union batch \union Written \union lostSaves
        = UNION {writeBuffer, batch, rows, trimmed, replaced, lostSaves}
  BY UnionOfSix DEF Written
<1> QED
  BY <1>1 DEF LogInvariant, LogOrder, LogRows, RecordsAreAccounted

\* "All pushes during await are persisted" (saveRequestDetail): for every batch
\* size and limit, a save is in the buffer, in the batch in hand or in the table,
\* unless it was lost with a batch or a process, trimmed as the oldest, or replaced
\* by the second save of its record; no record has two rows.
THEOREM NoRecordIsForgotten == LogSpec => []RecordsAreAccounted
  BY LogStarts, LogIsAccounted, StepsKeepLog, PTL DEF LogSpec

-----------------------------------------------------------------------------
(* The start of the database *)

\* A database that holds imported rows, or rows of the router, is not fresh.
Sound(contents) == contents.imported \/ contents.used => contents.stamped

BootInvariant ==
    /\ BootTypeOK
    /\ Sound(memory)
    /\ disk # Torn => Sound(disk)
    /\ bootPc \in {"migrated", "marking", "up"} => memory.stamped
    /\ bootPc = "migrated" /\ fresh => ~memory.used /\ ~memory.imported
    /\ bootPc = "marking" => memory.imported
    /\ disk = Torn => cut
    /\ bootPc \in {"opened", "migrated", "marking"} => disk # Torn
    /\ bootPc \in {"opened", "migrated", "marking", "up"} /\ driver = "native" => disk = memory
    /\ marker = "native" /\ ~wiped /\ ~cut =>
         disk.imported /\ (bootPc # "down" => memory.imported)

LEMMA StepsKeepBoot == BootInvariant /\ [BootNext]_bootVars => BootInvariant'
<1> SUFFICES ASSUME BootInvariant, [BootNext]_bootVars
             PROVE  BootInvariant'
  OBVIOUS
<1> USE DEF BootInvariant, BootTypeOK, Sound, Drivers
<1>1. \A c \in Contents : c # Torn
  BY DEF Contents, Torn
<1>2. Empty \in Contents /\ ~Empty.imported /\ ~Empty.used
  BY DEF Empty, Contents
<1>3. ASSUME NEW d \in Drivers, Open(d)
      PROVE  BootInvariant'
  BY <1>1, <1>3 DEF Open
<1>4. CASE Migrate
  BY <1>1, <1>4 DEF Migrate, Commit, Contents
<1>5. CASE Import
  BY <1>1, <1>5 DEF Import, Commit, Contents, ImportIsDue
<1>6. CASE ImportAborts
  BY <1>6 DEF ImportAborts, ImportIsDue
<1>7. CASE NothingToImport
  BY <1>7 DEF NothingToImport
<1>8. CASE Mark
  <2>1. CASE marker' = driver /\ wiped' = FALSE /\ cut' = FALSE
    BY <1>8, <2>1 DEF Mark
  <2>2. CASE UNCHANGED <<marker, wiped, cut>>
    BY <1>8, <2>2 DEF Mark
  <2> QED
    BY <1>8, <2>1, <2>2 DEF Mark
<1>9. CASE Use
  BY <1>1, <1>9 DEF Use, Commit, Contents
<1>10. CASE SaveTimer
  <2>1. /\ driver = "sqljs" /\ UNCHANGED <<memory, bootPc, driver, fresh, marker, wiped>>
        /\ bootPc \in {"up", "failed"}
        /\ \/ disk' = memory /\ cut' = cut
           \/ disk' \in {Empty, Torn} /\ cut' = TRUE
    BY <1>10 DEF SaveTimer, Saving, Persist, CutShort
  <2>2. CASE disk' = memory /\ cut' = cut
    <3>1. disk' # Torn
      BY <1>1, <2>1, <2>2
    <3> QED
      BY <1>1, <2>1, <2>2, <3>1
  <2>3. CASE disk' \in {Empty, Torn} /\ cut' = TRUE
    BY <1>1, <1>2, <2>1, <2>3
  <2> QED
    BY <2>1, <2>2, <2>3
<1>11. CASE Stop
  BY <1>1, <1>2, <1>11 DEF Stop, Persist, CutShort
<1>12. CASE BootCrash
  <2>1. /\ memory' = Empty /\ bootPc' = "down" /\ UNCHANGED <<driver, fresh, marker, wiped>>
        /\ \/ disk' = disk /\ cut' = cut
           \/ disk' \in {Empty, Torn} /\ cut' = TRUE
    BY <1>12 DEF BootCrash, CutShort
  <2>2. CASE disk' = disk /\ cut' = cut
    BY <1>1, <1>2, <2>1, <2>2
  <2>3. CASE disk' \in {Empty, Torn} /\ cut' = TRUE
    BY <1>1, <1>2, <2>1, <2>3
  <2> QED
    BY <2>1, <2>2, <2>3
<1>13. CASE Wipe
  BY <1>1, <1>2, <1>13 DEF Wipe
<1>14. CASE UNCHANGED bootVars
  BY <1>14 DEF bootVars
<1> QED
  BY <1>3, <1>4, <1>5, <1>6, <1>7, <1>8, <1>9, <1>10, <1>11, <1>12, <1>13, <1>14 DEF BootNext

LEMMA BootStarts == BootInit => BootInvariant
<1>1. Empty \in Contents /\ ~Empty.imported /\ ~Empty.used
  BY DEF Empty, Contents
<1>2. Empty # Torn
  BY <1>1 DEF Contents, Torn
<1> QED
  BY <1>1, <1>2 DEF BootInit, BootInvariant, BootTypeOK, Sound, Drivers

LEMMA BootInvariantHolds == BootSpec => []BootInvariant
  BY BootStarts, StepsKeepBoot, PTL DEF BootSpec

LEMMA BootIsSafe ==
    /\ BootInvariant => BootTypeOK /\ MarkerFollowsImport
    /\ BootInvariant /\ [BootNext]_bootVars
         => [bootPc = "migrated" /\ bootPc' = "marking" => ~memory.used /\ ~memory.imported]_bootVars
<1>1. BootInvariant => BootTypeOK /\ MarkerFollowsImport
  BY DEF BootInvariant, MarkerFollowsImport
<1>2. BootInvariant /\ [BootNext]_bootVars
        => [bootPc = "migrated" /\ bootPc' = "marking" => ~memory.used /\ ~memory.imported]_bootVars
  BY DEF BootInvariant, BootNext, Open, Migrate, Import, ImportIsDue, ImportAborts, NothingToImport,
         Mark, Use, SaveTimer, Stop, BootCrash, Wipe
<1> QED
  BY <1>1, <1>2

\* The marker, which forbids every later import, is never written by a native
\* driver before the import is on disk, wherever the process ends; only the user,
\* or a save of sql.js that is cut off, takes the data away under it.
THEOREM MarkerIsTrue == BootSpec => []MarkerFollowsImport
  BY BootIsSafe, BootInvariantHolds, PTL

\* The import never runs over a database the router has written to, nor twice,
\* whatever a save that was cut off has left on disk.
THEOREM ImportIsSafe == BootSpec => ImportSparesUsedData
  BY BootIsSafe, BootInvariantHolds, PTL DEF BootSpec, ImportSparesUsedData

-----------------------------------------------------------------------------
(* The tunnel *)

\* A process whose exit event is to come does not run.
ExitedAreDead == alive \intersect exited = {}

LEMMA StepsKeepDead == ExitedAreDead /\ [TunnelNext]_tunnelVars => ExitedAreDead'
<1> SUFFICES ASSUME ExitedAreDead, [TunnelNext]_tunnelVars
             PROVE  ExitedAreDead'
  OBVIOUS
<1> USE DEF ExitedAreDead, processVars
<1>1. ASSUME UNCHANGED <<alive, exited>> \/ \E byPort \in BOOLEAN : Kill(byPort)
      PROVE  ExitedAreDead'
  BY <1>1 DEF Kill
<1>2. ASSUME NEW c \in Calls, Enable(c)
      PROVE  ExitedAreDead'
  BY <1>1, <1>2 DEF Enable, ClearTheWay
<1>3. ASSUME NEW c \in Calls, NEW ok \in BOOLEAN, Probed(c, ok)
      PROVE  ExitedAreDead'
  BY <1>1, <1>3 DEF Probed, ClearTheWay
<1>4. ASSUME NEW c \in Calls, NEW p \in Procs, Spawn(c, p)
      PROVE  ExitedAreDead'
  BY <1>4 DEF Spawn
<1>5. ASSUME NEW c \in Calls, UrlArrives(c) \/ Registered(c) \/ SettingsSaved(c) \/ CheckHealth(c) \/ Verified(c)
                              \/ FailCall(c)
      PROVE  ExitedAreDead'
  BY <1>1, <1>5 DEF UrlArrives, Registered, SettingsSaved, CheckHealth, Verified, FailCall
<1>6. ASSUME NEW p \in Procs, Crash(p) \/ ExitEvent(p)
      PROVE  ExitedAreDead'
  BY <1>6 DEF Crash, ExitEvent
<1>7. CASE WatchdogChecks \/ Offline \/ Disabled \/ \E route \in Routes : Configure(route)
  BY <1>1, <1>7 DEF WatchdogChecks, Offline, Disabled, Configure
<1>8. CASE Disable
  <2>1. alive' \subseteq alive /\ exited' \subseteq exited \union (alive \ alive')
    BY <1>8 DEF Disable, Kill
  <2> QED
    BY <2>1
<1>9. ASSUME NEW graceful \in BOOLEAN, RouterRestarts(graceful)
      PROVE  ExitedAreDead'
  BY <1>9 DEF RouterRestarts
<1>10. CASE UNCHANGED tunnelVars
  BY <1>1, <1>10 DEF tunnelVars
<1>11. "user" \in Calls /\ "restart" \in Calls
  BY DEF Calls
<1> QED
  BY <1>2, <1>3, <1>4, <1>5, <1>6, <1>7, <1>8, <1>9, <1>10, <1>11 DEF TunnelNext, UserEnables, Restart

ProcessIsKept == Running => pidFile' = pidFile \/ pidFile \notin alive' \/ pidFile' \in alive'

LEMMA StepsKeepTheLiving == ExitedAreDead /\ [TunnelNext]_tunnelVars => [ProcessIsKept]_tunnelVars
<1> SUFFICES ASSUME ExitedAreDead, TunnelNext
             PROVE  ProcessIsKept
  OBVIOUS
<1> USE DEF ExitedAreDead, processVars, Running, ProcessIsKept
<1>1. ASSUME UNCHANGED pidFile
      PROVE  ProcessIsKept
  BY <1>1
<1>2. ASSUME NEW byPort, Kill(byPort)
      PROVE  ProcessIsKept
  <2>1. Running => pidFile \notin alive'
    BY <1>2 DEF Kill
  <2> QED
    BY <2>1
<1> HIDE DEF ProcessIsKept
<1>3. ASSUME NEW c \in Calls, Enable(c)
      PROVE  ProcessIsKept
  BY <1>1, <1>2, <1>3 DEF Enable, ClearTheWay
<1>4. ASSUME NEW c \in Calls, NEW ok \in BOOLEAN, Probed(c, ok)
      PROVE  ProcessIsKept
  BY <1>1, <1>2, <1>4 DEF Probed, ClearTheWay
<1>5. ASSUME NEW c \in Calls, NEW p \in Procs, Spawn(c, p)
      PROVE  ProcessIsKept
  BY <1>5 DEF Spawn, ProcessIsKept
<1>6. ASSUME NEW c \in Calls, UrlArrives(c) \/ Registered(c) \/ SettingsSaved(c) \/ CheckHealth(c) \/ Verified(c)
                              \/ FailCall(c)
      PROVE  ProcessIsKept
  BY <1>1, <1>6 DEF UrlArrives, Registered, SettingsSaved, CheckHealth, Verified, FailCall
<1>7. ASSUME NEW p \in Procs, Crash(p)
      PROVE  ProcessIsKept
  BY <1>1, <1>7 DEF Crash
<1>8. ASSUME NEW p \in Procs, ExitEvent(p)
      PROVE  ProcessIsKept
  BY <1>8 DEF ExitEvent, PidAfterExit, ProcessIsKept
<1>9. CASE WatchdogChecks \/ Offline \/ Disabled \/ \E route \in Routes : Configure(route)
  BY <1>1, <1>9 DEF WatchdogChecks, Offline, Disabled, Configure
<1>10. CASE Disable
  BY <1>2, <1>10 DEF Disable
<1>11. ASSUME NEW graceful \in BOOLEAN, RouterRestarts(graceful)
       PROVE  ProcessIsKept
  BY <1>11 DEF RouterRestarts, ProcessIsKept
<1>12. "user" \in Calls /\ "restart" \in Calls
  BY DEF Calls
<1> QED
  BY <1>3, <1>4, <1>5, <1>6, <1>7, <1>8, <1>9, <1>10, <1>11, <1>12 DEF TunnelNext, UserEnables, Restart

\* A process that lives stays on record until it is killed or a later one is spawned,
\* whenever the exit events of older ones arrive.
THEOREM RecordsKeepTheLiving == TunnelSpec => LiveProcessStaysOnRecord
<1>1. TunnelInit => ExitedAreDead
  BY DEF TunnelInit, ExitedAreDead
<1> QED
  BY <1>1, StepsKeepTheLiving, StepsKeepDead, PTL
     DEF TunnelSpec, LiveProcessStaysOnRecord, ProcessIsKept

-----------------------------------------------------------------------------
(* The MCP bridge *)

BridgeInvariant == BridgeTypeOK /\ OnlyLateExitsOrphan

LEMMA StepsKeepBridge == BridgeInvariant /\ [BridgeNext]_bridgeVars => BridgeInvariant'
<1> SUFFICES ASSUME BridgeInvariant, [BridgeNext]_bridgeVars
             PROVE  BridgeInvariant'
  OBVIOUS
<1> USE BridgeAssumption DEF BridgeInvariant, BridgeTypeOK, Lives
<1>1. ASSUME NEW s \in Sessions, RegisterSession(s)
      PROVE  BridgeInvariant'
  <2>1. PICK c \in Children :
            /\ IF Usable(entry) THEN c = entry /\ UNCHANGED life
                                ELSE life[c] = "unborn" /\ life' = [life EXCEPT ![c] = "alive"]
            /\ entry' = c
            /\ listeners' = [listeners EXCEPT ![c] = @ \cup {s}]
            /\ session' = [session EXCEPT ![s] = c]
    BY <1>1 DEF RegisterSession
  <2>2. UNCHANGED <<down, lateExit>>
    BY <1>1 DEF RegisterSession
  <2>3. BridgeTypeOK'
    BY <2>1, <2>2
  <2>4. ASSUME ~lateExit, NEW d \in Children, life'[d] = "alive"
        PROVE  d = c
    BY <2>1, <2>4 DEF OnlyLateExitsOrphan, Usable
  <2>5. s \in listeners'[c]
    BY <2>1
  <2> QED
    BY <2>1, <2>2, <2>3, <2>4, <2>5 DEF OnlyLateExitsOrphan
<1>2. ASSUME NEW s \in Sessions, UnregisterSession(s)
      PROVE  BridgeInvariant'
  <2>1. CASE entry = NoChild
    BY <1>2, <2>1 DEF UnregisterSession, OnlyLateExitsOrphan
  <2>2. CASE entry # NoChild
    BY <1>2, <2>2 DEF UnregisterSession, EndChild, OnlyLateExitsOrphan
  <2> QED
    BY <2>1, <2>2
<1>3. ASSUME NEW c \in Children, ChildExits(c)
      PROVE  BridgeInvariant'
  BY <1>3 DEF ChildExits, OnlyLateExitsOrphan
<1>4. ASSUME NEW c \in Children, ChildExitEvent(c)
      PROVE  BridgeInvariant'
  BY <1>4 DEF ChildExitEvent, OnlyLateExitsOrphan
<1>5. CASE KillAllBridges
  BY <1>5 DEF KillAllBridges, EndChild, OnlyLateExitsOrphan
<1>6. CASE UNCHANGED bridgeVars
  BY <1>6 DEF bridgeVars, OnlyLateExitsOrphan
<1> QED
  BY <1>1, <1>2, <1>3, <1>4, <1>5, <1>6 DEF BridgeNext

LEMMA BridgeStarts == BridgeInit => BridgeInvariant
  BY BridgeAssumption DEF BridgeInit, BridgeInvariant, BridgeTypeOK, OnlyLateExitsOrphan, Lives

\* "No sessions left -> kill child to avoid idle orphan process leak": for any number
\* of children and sessions, only a late exit event leaves a child behind.
THEOREM OrphansComeLate == BridgeSpec => []OnlyLateExitsOrphan
<1>1. BridgeInvariant => OnlyLateExitsOrphan
  BY DEF BridgeInvariant
<1> QED
  BY <1>1, BridgeStarts, StepsKeepBridge, PTL DEF BridgeSpec
-----------------------------------------------------------------------------
(* The types of the request log *)

\* The table keeps no more rows than it may: those above its oldest are fewer.
LEMMA NewestAreFew ==
    ASSUME NEW n \in Nat, NEW S \in SUBSET (1 .. n)
    PROVE  Cardinality(Newest(S)) <= MaxRecords
<1> DEFINE Above(x) == {q \in S : q > x}
<1>1. CASE Newest(S) = {}
  BY <1>1, FS_EmptySet, LogAssumption
<1>2. CASE Newest(S) # {}
  <2>1. S \in SUBSET Nat /\ Newest(S) \in SUBSET S /\ Newest(S) \in SUBSET Nat
    <3>1. \A x \in S : x \in Nat
      OBVIOUS
    <3>2. \A x \in Newest(S) : x \in S
      BY DEF Newest
    <3> QED
      BY <3>1, <3>2
  <2>2. PICK m \in Newest(S) : \A r \in Newest(S) : m <= r
    BY <1>2, <2>1, LeastNumber
  <2>3. IsFiniteSet(S)
    <3>1. IsFiniteSet(1 .. n)
      BY FS_Interval
    <3> QED
      BY <3>1, FS_Subset
  <2>4. IsFiniteSet(Above(m)) /\ IsFiniteSet(Newest(S))
    BY <2>1, <2>3, FS_Subset
  <2>5. Newest(S) \ {m} \in SUBSET Above(m)
    <3>1. ASSUME NEW r \in Newest(S) \ {m}
          PROVE  r \in S /\ r > m
      BY <2>1, <2>2
    <3> QED
      BY <3>1
  <2>6. Cardinality(Above(m)) < MaxRecords
    BY <2>2 DEF Newest
  <2>7. IsFiniteSet(Newest(S) \ {m}) /\ Cardinality(Newest(S) \ {m}) = Cardinality(Newest(S)) - 1
    BY <2>2, <2>4, FS_RemoveElement
  <2>8. Cardinality(Newest(S) \ {m}) <= Cardinality(Above(m))
    BY <2>4, <2>5, FS_Subset
  <2>9. Cardinality(Above(m)) \in Nat /\ Cardinality(Newest(S)) \in Nat
    BY <2>4, FS_CardinalityType
  <2> QED
    BY <2>6, <2>7, <2>8, <2>9, LogAssumption
<1> QED
  BY <1>1, <1>2

LogBounds ==
    /\ accepted <= LogLimit
    /\ flushTimer \in BOOLEAN
    /\ Cardinality(rows) <= MaxRecords

LEMMA StepsKeepLogBounds ==
    LogInvariant /\ LogBounds /\ [LogNext]_logVars => LogBounds'
<1> SUFFICES ASSUME LogInvariant, LogBounds, [LogNext]_logVars
             PROVE  LogBounds'
  OBVIOUS
<1>1. accepted \in Nat
  BY DEF LogInvariant, LogOrder
<1>2. ASSUME NEW first \in streaming \union {0}, Save(first)
      PROVE  LogBounds'
  <2>1. accepted < LogLimit /\ accepted' = accepted + 1 /\ rows' = rows
    BY <1>2 DEF Save, Number
  <2>2. flushTimer' \in BOOLEAN
    BY <1>2 DEF Save
  <2>3. accepted' <= LogLimit
    BY <1>1, <2>1, LogAssumption
  <2> QED
    BY <2>1, <2>2, <2>3 DEF LogBounds
<1>3. CASE LogTimerFires
  BY <1>3 DEF LogTimerFires, recordVars, LogBounds
<1>4. CASE WriteBatch
  <2>1. Upserted(rows \union batch) \in SUBSET (1 .. accepted)
    BY UpsertsAreSaves DEF LogInvariant, LogRows, Written
  <2>2. Cardinality(Newest(Upserted(rows \union batch))) <= MaxRecords
    BY <1>1, <2>1, NewestAreFew
  <2>3. rows' = Newest(Upserted(rows \union batch)) /\ UNCHANGED <<accepted, flushTimer>>
    BY <1>4 DEF WriteBatch, recordVars
  <2> QED
    BY <2>2, <2>3 DEF LogBounds
<1>5. CASE WriteFails \/ LogProcessEnds \/ UNCHANGED logVars
  BY <1>5 DEF WriteFails, LogProcessEnds, logVars, recordVars, LogBounds
<1> QED
  BY <1>2, <1>3, <1>4, <1>5 DEF LogNext

LEMMA LogBoundsStart == LogInit => LogBounds
<1> SUFFICES ASSUME LogInit
             PROVE  LogBounds
  OBVIOUS
<1>1. accepted = 0 /\ flushTimer = FALSE /\ rows = {}
  BY DEF LogInit
<1>2. Cardinality(rows) = 0
  BY <1>1, FS_EmptySet
<1>3. accepted <= LogLimit /\ Cardinality(rows) <= MaxRecords
  BY <1>1, <1>2, LogAssumption
<1> QED
  BY <1>1, <1>3 DEF LogBounds

LEMMA LogTypes == LogInvariant /\ LogBounds => LogTypeOK
<1> SUFFICES ASSUME LogInvariant, LogBounds
             PROVE  LogTypeOK
  OBVIOUS
<1>1. accepted \in Nat /\ accepted <= LogLimit
  BY DEF LogInvariant, LogOrder, LogBounds
<1>2. accepted \in 0 .. LogLimit /\ (1 .. accepted) \subseteq Saves
  BY <1>1, LogAssumption DEF Saves
<1>3. isFlushing \in BOOLEAN
  BY DEF LogInvariant, LogOrder
<1>4. streaming \subseteq 1 .. accepted /\ again \subseteq (1 .. accepted) \X (1 .. accepted)
  BY DEF LogInvariant, LogPairs
<1>5. \A s \in {streaming, writeBuffer, batch, rows, trimmed, replaced, lostSaves} : s \subseteq Saves
  BY <1>2, <1>4 DEF LogInvariant, LogRows, Written
<1>6. again \subseteq Saves \X Saves
  BY <1>2, <1>4
<1> QED
  BY <1>2, <1>3, <1>5, <1>6 DEF LogTypeOK, LogBounds

-----------------------------------------------------------------------------
(* The log is a ledger *)

\* Newest drops nothing while there is room.
LEMMA NewestFill ==
    ASSUME NEW n \in Nat, NEW S \in SUBSET (1 .. n), Newest(S) # S
    PROVE  Cardinality(Newest(S)) = MaxRecords
<1> DEFINE Dropped == S \ Newest(S)
           Above(x) == {q \in S : q > x}
<1>1. Newest(S) \subseteq S
  BY DEF Newest
<1>2. Dropped \in SUBSET (0 .. n) /\ Dropped # {}
  <2>1. \A d \in 1 .. n : d \in 0 .. n
    OBVIOUS
  <2>2. \A d \in Dropped : d \in 1 .. n
    OBVIOUS
  <2>3. Dropped # {}
    BY <1>1
  <2> QED
    BY <2>1, <2>2, <2>3
<1>3. PICK t \in Dropped : \A d \in Dropped : d <= t
  BY <1>2, GreatestNumber
<1>4. Above(t) = Newest(S)
  <2>1. \A q \in Above(t) : q \in Newest(S)
    BY <1>3
  <2>2. \A q \in Newest(S) : t < q
    BY <1>3, NewestAreNewer
  <2> QED
    BY <1>1, <1>3, <2>1, <2>2
<1>5. ~(Cardinality(Above(t)) < MaxRecords)
  BY <1>3 DEF Newest
<1>6. Cardinality(Newest(S)) <= MaxRecords
  BY NewestAreFew
<1>7. Cardinality(Newest(S)) \in Nat
  <2>1. IsFiniteSet(1 .. n)
    BY FS_Interval
  <2>2. IsFiniteSet(Newest(S))
    BY <1>1, <2>1, FS_Subset
  <2> QED
    BY <2>2, FS_CardinalityType
<1> QED
  BY <1>4, <1>5, <1>6, <1>7, LogAssumption

\* What is lost is nowhere else, and a flush has something in hand.
LedgerInvariant ==
    /\ lostSaves \intersect (writeBuffer \union batch \union Written) = {}
    /\ isFlushing => batch # {}

LEMMA LedgerCardinality == ASSUME NEW S PROVE Ledger!Cardinality(S) = Cardinality(S)
  BY DEF Ledger!Cardinality, Cardinality

\* What is pending in the ledger is in the buffer or in the batch in hand.
LEMMA PendingIsBuffered ==
    ASSUME LogInvariant, LedgerInvariant
    PROVE  Ledger!Pending = writeBuffer \union batch
<1>1. 1 .. accepted = writeBuffer \union batch \union Written \union lostSaves
  BY DEF LogInvariant, LogRows
<1>2. \A r \in writeBuffer \union batch : r \notin Written \union lostSaves
  <2>1. \A x \in 1 .. accepted : x \in Int
    OBVIOUS
  <2>2. \A r \in writeBuffer \union batch : r \notin Written
    BY <1>1, <2>1 DEF LogInvariant, LogOrder
  <2> QED
    BY <2>2 DEF LedgerInvariant
<1>3. rows \union (trimmed \union replaced \union lostSaves) = Written \union lostSaves
  BY DEF Written
<1> QED
  BY <1>1, <1>2, <1>3 DEF Ledger!Pending

LEMMA LogStepsAreEntered ==
    ASSUME LogInvariant, LedgerInvariant, [LogNext]_logVars
    PROVE  LedgerInvariant' /\ [Ledger!Next]_(Ledger!ledgerVars)
<1>1. Ledger!Pending = writeBuffer \union batch
  BY PendingIsBuffered
<1>2. /\ accepted \in Nat
      /\ 1 .. accepted = writeBuffer \union batch \union Written \union lostSaves
      /\ \A x \in 1 .. accepted : x \in Int
  BY DEF LogInvariant, LogOrder, LogRows
<1>3. \A b \in batch, w \in writeBuffer : b < w
  BY DEF LogInvariant, LogOrder
<1>4. /\ lostSaves \intersect (writeBuffer \union batch \union Written) = {}
      /\ isFlushing => batch # {}
  BY DEF LedgerInvariant
<1>5. ASSUME NEW first \in streaming \union {0}, Save(first)
      PROVE  LedgerInvariant' /\ [Ledger!Next]_(Ledger!ledgerVars)
  <2> DEFINE buffer == writeBuffer \union {accepted + 1}
  <2>1. Number(first) /\ accepted' = accepted + 1 /\ UNCHANGED <<rows, trimmed, replaced, lostSaves>>
    BY <1>5 DEF Save, Number
  <2>2. \/ writeBuffer' = buffer /\ UNCHANGED <<isFlushing, batch>>
        \/ writeBuffer' = {} /\ isFlushing' = TRUE /\ batch' = buffer
    BY <1>5 DEF Save, StartFlush
  <2>3. accepted + 1 \notin lostSaves
    BY <1>2
  <2>4. LedgerInvariant'
    BY <1>4, <2>1, <2>2, <2>3 DEF LedgerInvariant, Written
  <2>5. \/ again' = again
        \/ /\ first \in 1 .. accepted
           /\ \A pair \in again : first # pair[1] /\ first # pair[2]
           /\ again' = again \union {<<first, accepted + 1>>}
    BY <2>1 DEF Number, LogInvariant, LogPairs
  <2>6. Ledger!Enter
    BY <2>1, <2>5 DEF Ledger!Enter
  <2> QED
    BY <2>4, <2>6 DEF Ledger!Next
<1>6. CASE LogTimerFires
  <2>1. /\ UNCHANGED <<accepted, again, rows, trimmed, replaced, lostSaves>>
        /\ \/ UNCHANGED <<writeBuffer, isFlushing, batch>>
           \/ writeBuffer # {} /\ writeBuffer' = {} /\ isFlushing' = TRUE /\ batch' = writeBuffer
    BY <1>6 DEF LogTimerFires, StartFlush, recordVars
  <2>2. LedgerInvariant'
    BY <1>4, <2>1 DEF LedgerInvariant, Written
  <2> QED
    BY <2>1, <2>2 DEF Ledger!ledgerVars
<1>7. CASE WriteBatch
  <2> DEFINE S == rows \union batch
             stored == Upserted(S)
  <2>1. /\ isFlushing /\ rows' = Newest(stored) /\ trimmed' = trimmed \union (stored \ rows')
        /\ replaced' = replaced \union (S \ stored)
        /\ UNCHANGED <<accepted, again, lostSaves>>
        /\ batch' = writeBuffer /\ writeBuffer' = {} /\ isFlushing' = (writeBuffer # {})
    BY <1>7 DEF WriteBatch, NextBatch, recordVars
  <2>2. stored \subseteq S /\ Newest(stored) \subseteq stored
    BY UpsertsAreSaves DEF Newest
  <2>3. stored \in SUBSET (1 .. accepted)
    BY <1>2, <2>2 DEF Written
  <2>4. stored = Ledger!Latest(S)
    BY DEF Upserted, Ledger!Latest
  <2>5. \A old \in stored \ Newest(stored), new \in Newest(stored) : old < new
    BY <1>2, <2>3, NewestAreNewer
  <2>6. Cardinality(Newest(stored)) <= MaxRecords
    BY <1>2, <2>3, NewestAreFew
  <2>7. Cardinality(Newest(stored)) = MaxRecords \/ Newest(stored) = stored
    BY <1>2, <2>3, NewestFill
  <2> HIDE DEF stored
  <2>8. LedgerInvariant'
    <3>1. Written' \subseteq Written \union batch
      BY <2>1, <2>2 DEF Written
    <3> QED
      BY <1>4, <2>1, <3>1 DEF LedgerInvariant
  <2>9. Ledger!Oldest(batch)
    BY <1>1, <1>3 DEF Ledger!Oldest
  <2>10. (trimmed \union replaced \union lostSaves)'
           = (trimmed \union replaced \union lostSaves) \union (S \ rows')
    BY <2>1, <2>2
  <2>11. Ledger!Commit(batch)
    <3>1. rows' \subseteq stored /\ \A old \in stored \ rows', new \in rows' : old < new
      BY <2>1, <2>2, <2>5
    <3>2. /\ Ledger!Cardinality(rows') <= MaxRecords
          /\ Ledger!Cardinality(rows') = MaxRecords \/ rows' = stored
      BY <2>1, <2>6, <2>7, LedgerCardinality
    <3> QED
      BY <1>4, <2>1, <2>4, <2>9, <2>10, <3>1, <3>2 DEF Ledger!Commit
  <2>12. batch \in SUBSET Ledger!Pending
    BY <1>1
  <2> QED
    BY <2>8, <2>11, <2>12 DEF Ledger!Next
<1>8. CASE WriteFails
  <2>1. /\ isFlushing' = FALSE /\ batch' = {} /\ lostSaves' = lostSaves \union batch
        /\ UNCHANGED <<accepted, again, writeBuffer, rows, trimmed, replaced>>
    BY <1>8 DEF WriteFails, recordVars
  <2>2. \A b \in batch : b \notin writeBuffer \union Written
    <3>1. \A b \in batch : b \in Int
      BY <1>2
    <3> QED
      BY <3>1 DEF LogInvariant, LogOrder
  <2>3. LedgerInvariant'
    BY <1>4, <2>1, <2>2 DEF LedgerInvariant, Written
  <2>4. Ledger!Lose(batch)
    BY <1>1, <1>3, <2>1 DEF Ledger!Lose, Ledger!Oldest
  <2>5. batch \in SUBSET Ledger!Pending
    BY <1>1
  <2> QED
    BY <2>3, <2>4, <2>5 DEF Ledger!Next
<1>9. CASE LogProcessEnds
  <2>1. /\ isFlushing' = FALSE /\ batch' = {} /\ writeBuffer' = {}
        /\ lostSaves' = lostSaves \union writeBuffer \union batch
        /\ UNCHANGED <<accepted, again, rows, trimmed, replaced>>
    BY <1>9 DEF LogProcessEnds
  <2>2. \A b \in writeBuffer \union batch : b \notin Written
    <3>1. \A b \in writeBuffer \union batch : b \in Int
      BY <1>2
    <3> QED
      BY <3>1 DEF LogInvariant, LogOrder
  <2>3. LedgerInvariant'
    BY <1>4, <2>1, <2>2 DEF LedgerInvariant, Written
  <2>4. Ledger!Lose(writeBuffer \union batch)
    BY <1>1, <2>1 DEF Ledger!Lose, Ledger!Oldest
  <2>5. writeBuffer \union batch \in SUBSET Ledger!Pending
    BY <1>1
  <2> QED
    BY <2>3, <2>4, <2>5 DEF Ledger!Next
<1>10. CASE UNCHANGED logVars
  <2>1. UNCHANGED <<accepted, again, writeBuffer, isFlushing, batch, rows, trimmed, replaced, lostSaves>>
    BY <1>10 DEF logVars, recordVars
  <2> QED
    BY <1>4, <2>1 DEF LedgerInvariant, Written, Ledger!ledgerVars
<1> QED
  BY <1>5, <1>6, <1>7, <1>8, <1>9, <1>10 DEF LogNext

LEMMA LedgerStarts == LogInit => LedgerInvariant /\ Ledger!Init
  BY DEF LogInit, LedgerInvariant, Written, Ledger!Init

\* The log with its buffer, timer and batches implements the ledger, for every batch size
\* and limit: saves reach the table in order and once, the second one of a record in the
\* place of its row; the table loses its oldest rows only and none while it has room, and
\* a save that is gone stays so.
THEOREM LogKeepsLedger == LogSpec => LogIsLedger
<1>1. LogInvariant /\ LedgerInvariant /\ [LogNext]_logVars =>
          LedgerInvariant' /\ [Ledger!Next]_(Ledger!ledgerVars)
  BY LogStepsAreEntered
<1> QED
  BY <1>1, LogStarts, StepsKeepLog, LedgerStarts, PTL DEF LogSpec, LogIsLedger, Ledger!Spec
-----------------------------------------------------------------------------
(* The types of the tunnel *)

EnableSteps ==
    {"idle", "probing", "preparing", "spawning", "registering", "saving", "verifying", "reaching"}

CallsOK ==
    /\ enableStep \in [Calls -> EnableSteps]
    /\ child \in [Calls -> Procs \union {NoProc}]
    /\ owner \in Calls \union {"none"}
    /\ callCancelled \in [Calls -> BOOLEAN]

FlagsOK ==
    /\ svcCancelled \in BOOLEAN /\ spawnInProgress \in BOOLEAN /\ portKnown \in BOOLEAN
    /\ savedUrl \in BOOLEAN /\ tunnelEnabled \in BOOLEAN /\ intentionalKill \in BOOLEAN
    /\ exitHandler \in BOOLEAN /\ watching \in BOOLEAN /\ disabling \in BOOLEAN
    /\ configuring \subseteq Routes

ProcessesOK ==
    /\ alive \subseteq Procs /\ exited \subseteq Procs
    /\ pidFile \in Procs \union {NoProc}
    /\ restartStep \in {"none", "checking"}

LEMMA StepsKeepCalls == CallsOK /\ [TunnelNext]_tunnelVars => CallsOK'
<1> SUFFICES ASSUME CallsOK, [TunnelNext]_tunnelVars
             PROVE  CallsOK'
  OBVIOUS
<1>1. ASSUME UNCHANGED <<enableStep, child, owner, callCancelled>>
      PROVE  CallsOK'
  BY <1>1 DEF CallsOK
<1>2. ASSUME NEW c \in Calls, End(c)
      PROVE  CallsOK'
  BY <1>2 DEF End, CallsOK, EnableSteps
<1>3. ASSUME NEW c \in Calls, NEW s \in EnableSteps, enableStep' = [enableStep EXCEPT ![c] = s],
             UNCHANGED <<child, owner, callCancelled>>
      PROVE  CallsOK'
  BY <1>3 DEF CallsOK
<1>4. ASSUME NEW c \in Calls, Enable(c)
      PROVE  CallsOK'
  <2>1. /\ owner' = c /\ callCancelled' = [callCancelled EXCEPT ![c] = FALSE] /\ child' = child
        /\ \/ enableStep' = [enableStep EXCEPT ![c] = "probing"]
           \/ enableStep' = [enableStep EXCEPT ![c] = "preparing"]
    BY <1>4 DEF Enable, ClearTheWay
  <2> QED
    BY <2>1 DEF CallsOK, EnableSteps
<1>5. ASSUME NEW c \in Calls, NEW ok \in BOOLEAN, Probed(c, ok)
      PROVE  CallsOK'
  <2>1. \/ End(c)
        \/ /\ enableStep' = [enableStep EXCEPT ![c] = "preparing"]
           /\ UNCHANGED <<child, owner, callCancelled>>
    BY <1>5 DEF Probed, AfterSuccess, ClearTheWay, tokenVars
  <2> QED
    BY <1>2, <1>3, <2>1 DEF EnableSteps
<1>6. ASSUME NEW c \in Calls, NEW p \in Procs, Spawn(c, p)
      PROVE  CallsOK'
  BY <1>6 DEF Spawn, tokenVars, CallsOK, EnableSteps
<1>7. ASSUME NEW c \in Calls, UrlArrives(c)
      PROVE  CallsOK'
  <2>1. \/ End(c)
        \/ /\ enableStep' = [enableStep EXCEPT ![c] = "registering"]
           /\ child' = [child EXCEPT ![c] = NoProc]
           /\ UNCHANGED <<owner, callCancelled>>
    BY <1>7 DEF UrlArrives, tokenVars
  <2> QED
    BY <1>2, <2>1 DEF CallsOK, EnableSteps
<1>8. ASSUME NEW c \in Calls, Registered(c) \/ SettingsSaved(c) \/ CheckHealth(c)
      PROVE  CallsOK'
  <2>1. /\ \/ enableStep' = [enableStep EXCEPT ![c] = "saving"]
           \/ enableStep' = [enableStep EXCEPT ![c] = "verifying"]
           \/ enableStep' = [enableStep EXCEPT ![c] = "reaching"]
        /\ UNCHANGED <<child, owner, callCancelled>>
    BY <1>8 DEF Registered, SettingsSaved, CheckHealth, tokenVars
  <2> QED
    BY <1>3, <2>1 DEF EnableSteps
<1>9. ASSUME NEW c \in Calls, Verified(c) \/ FailCall(c)
      PROVE  CallsOK'
  BY <1>2, <1>9 DEF Verified, AfterSuccess, FailCall
<1>10. ASSUME NEW p \in Procs, ExitEvent(p)
       PROVE  CallsOK'
  BY <1>1, <1>2, <1>10 DEF ExitEvent, tokenVars
<1>11. CASE Disable
  BY <1>11 DEF Disable, CallsOK
<1>12. ASSUME NEW graceful \in BOOLEAN, RouterRestarts(graceful)
       PROVE  CallsOK'
  BY <1>12 DEF RouterRestarts, CallsOK, EnableSteps
<1>13. CASE \/ \E p \in Procs : Crash(p)
            \/ WatchdogChecks \/ Offline \/ Disabled
            \/ \E route \in Routes : Configure(route)
            \/ UNCHANGED tunnelVars
  BY <1>1, <1>13 DEF Crash, WatchdogChecks, Offline, Disabled, Configure, tunnelVars, callVars, tokenVars
<1>14. "user" \in Calls /\ "restart" \in Calls
  BY DEF Calls
<1> QED
  BY <1>4, <1>5, <1>6, <1>7, <1>8, <1>9, <1>10, <1>11, <1>12, <1>13, <1>14
     DEF TunnelNext, UserEnables, Restart

LEMMA StepsKeepFlags == FlagsOK /\ [TunnelNext]_tunnelVars => FlagsOK'
<1> SUFFICES ASSUME FlagsOK, [TunnelNext]_tunnelVars
             PROVE  FlagsOK'
  OBVIOUS
<1> USE DEF FlagsOK, monitorVars
<1>1. ASSUME NEW c \in Calls, Enable(c), UNCHANGED monitorVars
      PROVE  FlagsOK'
  <2>1. exitHandler' \in BOOLEAN /\ intentionalKill' \in BOOLEAN
    BY <1>1 DEF Enable, ClearTheWay, Kill, processVars
  <2> QED
    BY <1>1, <2>1 DEF Enable
<1>2. ASSUME NEW c \in Calls, NEW ok \in BOOLEAN, Probed(c, ok)
      PROVE  FlagsOK'
  <2>1. exitHandler' \in BOOLEAN /\ intentionalKill' \in BOOLEAN
    BY <1>2 DEF Probed, ClearTheWay, Kill, processVars
  <2>2. watching' = watching /\ configuring' \subseteq Routes
    BY <1>2 DEF Probed, AfterSuccess, Routes
  <2>3. svcCancelled' \in BOOLEAN /\ spawnInProgress' \in BOOLEAN
    BY <1>2 DEF Probed, AfterSuccess, End, tokenVars
  <2> QED
    BY <1>2, <2>1, <2>2, <2>3 DEF Probed
<1>3. ASSUME NEW c \in Calls, NEW p \in Procs, Spawn(c, p)
      PROVE  FlagsOK'
  BY <1>3 DEF Spawn, tokenVars
<1>4. ASSUME NEW c \in Calls, UrlArrives(c)
      PROVE  FlagsOK'
  <2>1. svcCancelled' \in BOOLEAN /\ spawnInProgress' \in BOOLEAN
    BY <1>4 DEF UrlArrives, End, tokenVars
  <2> QED
    BY <1>4, <2>1 DEF UrlArrives, processVars
<1>5. ASSUME NEW c \in Calls, Registered(c) \/ SettingsSaved(c) \/ CheckHealth(c)
      PROVE  FlagsOK'
  <2>1. CASE Registered(c)
    BY <2>1 DEF Registered, tokenVars, processVars
  <2>2. CASE SettingsSaved(c)
    BY <2>2 DEF SettingsSaved, tokenVars, processVars
  <2>3. CASE CheckHealth(c)
    BY <2>3 DEF CheckHealth, tokenVars, processVars
  <2> QED
    BY <1>5, <2>1, <2>2, <2>3
<1>6. ASSUME NEW c \in Calls, Verified(c) \/ FailCall(c)
      PROVE  FlagsOK'
  BY <1>6 DEF Verified, AfterSuccess, FailCall, End, processVars, Routes
<1>7. ASSUME NEW p \in Procs, Crash(p)
      PROVE  FlagsOK'
  BY <1>7 DEF Crash, callVars, tokenVars
<1>8. ASSUME NEW p \in Procs, ExitEvent(p)
      PROVE  FlagsOK'
  <2>1. svcCancelled' \in BOOLEAN /\ spawnInProgress' \in BOOLEAN
    BY <1>8 DEF ExitEvent, End, tokenVars
  <2> QED
    BY <1>8, <2>1 DEF ExitEvent
<1>9. CASE WatchdogChecks \/ Offline
  BY <1>9 DEF WatchdogChecks, Offline, callVars, tokenVars, processVars
<1>10. CASE Disable
  BY <1>10 DEF Disable, Kill
<1>11. CASE Disabled \/ \E route \in Routes : Configure(route)
  BY <1>11 DEF Disabled, Configure, callVars, tokenVars, processVars, Routes
<1>12. ASSUME NEW graceful \in BOOLEAN, RouterRestarts(graceful)
       PROVE  FlagsOK'
  BY <1>12 DEF RouterRestarts
<1>13. CASE UNCHANGED tunnelVars
  BY <1>13 DEF tunnelVars, callVars, tokenVars, processVars
<1>14. "user" \in Calls /\ "restart" \in Calls
  BY DEF Calls
<1> QED
  BY <1>1, <1>2, <1>3, <1>4, <1>5, <1>6, <1>7, <1>8, <1>9, <1>10, <1>11, <1>12, <1>13, <1>14
     DEF TunnelNext, UserEnables, Restart

LEMMA StepsKeepProcesses == ProcessesOK /\ [TunnelNext]_tunnelVars => ProcessesOK'
<1> SUFFICES ASSUME ProcessesOK, [TunnelNext]_tunnelVars
             PROVE  ProcessesOK'
  OBVIOUS
<1> USE DEF ProcessesOK
<1>1. ASSUME restartStep' \in {"none", "checking"},
             UNCHANGED <<alive, exited, pidFile>> \/ \E byPort \in BOOLEAN : Kill(byPort)
      PROVE  ProcessesOK'
  BY <1>1 DEF Kill
<1>2. ASSUME NEW c \in Calls, Enable(c), restartStep' \in {"none", "checking"}
      PROVE  ProcessesOK'
  BY <1>1, <1>2 DEF Enable, ClearTheWay, processVars
<1>3. ASSUME NEW c \in Calls, NEW ok \in BOOLEAN, Probed(c, ok)
      PROVE  ProcessesOK'
  BY <1>1, <1>3 DEF Probed, ClearTheWay, processVars
<1>4. ASSUME NEW c \in Calls, NEW p \in Procs, Spawn(c, p)
      PROVE  ProcessesOK'
  BY <1>4 DEF Spawn
<1>5. ASSUME NEW c \in Calls, UrlArrives(c) \/ Registered(c) \/ SettingsSaved(c) \/ CheckHealth(c) \/ Verified(c)
                              \/ FailCall(c)
      PROVE  ProcessesOK'
  BY <1>1, <1>5 DEF UrlArrives, Registered, SettingsSaved, CheckHealth, Verified, FailCall, processVars
<1>6. ASSUME NEW p \in Procs, Crash(p) \/ ExitEvent(p)
      PROVE  ProcessesOK'
  BY <1>6 DEF Crash, ExitEvent, PidAfterExit
<1>7. CASE WatchdogChecks \/ Offline \/ Disabled \/ \E route \in Routes : Configure(route)
  BY <1>1, <1>7 DEF WatchdogChecks, Offline, Disabled, Configure, processVars
<1>8. CASE Disable
  <2>1. alive' \subseteq alive /\ exited' \subseteq exited \union alive /\ pidFile' = NoProc /\ restartStep' = restartStep
    BY <1>8 DEF Disable, Kill
  <2> QED
    BY <2>1
<1>9. ASSUME NEW graceful \in BOOLEAN, RouterRestarts(graceful)
      PROVE  ProcessesOK'
  BY <1>9 DEF RouterRestarts
<1>10. CASE UNCHANGED tunnelVars
  BY <1>1, <1>10 DEF tunnelVars, processVars
<1>11. "user" \in Calls /\ "restart" \in Calls
  BY DEF Calls
<1> QED
  BY <1>2, <1>3, <1>4, <1>5, <1>6, <1>7, <1>8, <1>9, <1>10, <1>11 DEF TunnelNext, UserEnables, Restart

TunnelInvariant == CallsOK /\ FlagsOK /\ ProcessesOK /\ ExitedAreDead

LEMMA TunnelStarts == TunnelInit => TunnelInvariant
<1> SUFFICES ASSUME TunnelInit
             PROVE  TunnelInvariant
  OBVIOUS
<1>1. CallsOK
  BY DEF TunnelInit, CallsOK, EnableSteps
<1>2. FlagsOK
  BY DEF TunnelInit, FlagsOK
<1>3. ProcessesOK /\ ExitedAreDead
  BY DEF TunnelInit, ProcessesOK, ExitedAreDead
<1> QED
  BY <1>1, <1>2, <1>3 DEF TunnelInvariant

LEMMA StepsKeepTunnel == TunnelInvariant /\ [TunnelNext]_tunnelVars => TunnelInvariant'
  BY StepsKeepCalls, StepsKeepFlags, StepsKeepProcesses, StepsKeepDead DEF TunnelInvariant

LEMMA TunnelTypes == TunnelInvariant => TunnelTypeOK
<1> SUFFICES ASSUME TunnelInvariant
             PROVE  TunnelTypeOK
  OBVIOUS
<1>1. /\ {svcCancelled, spawnInProgress, portKnown, savedUrl, tunnelEnabled, intentionalKill,
          exitHandler, watching, disabling} \subseteq BOOLEAN
      /\ configuring \subseteq Routes
  BY DEF TunnelInvariant, FlagsOK
<1>2. exited \subseteq Procs \ alive
  BY DEF TunnelInvariant, ProcessesOK, ExitedAreDead
<1> QED
  BY <1>1, <1>2 DEF TunnelInvariant, CallsOK, EnableSteps, ProcessesOK, TunnelTypeOK
-----------------------------------------------------------------------------
(* The six services together *)

BackgroundInvariant ==
    /\ service \in {"refresh", "quota", "log", "boot", "tunnel", "bridge"}
    /\ LockInvariant /\ (~hasty => RotationInvariant)
    /\ BlockInvariant /\ StrikeInvariant /\ FlightInvariant
    /\ LogInvariant /\ LogBounds /\ LedgerInvariant
    /\ BootInvariant
    /\ TunnelInvariant
    /\ BridgeInvariant

\* A step of one service is a step, or a stutter, of each.
LEMMA StepsAreOfServices ==
    [BackgroundServicesNext]_backgroundVars =>
        /\ UNCHANGED service
        /\ [RefreshNext]_refreshVars
        /\ [QuotaNext]_quotaVars
        /\ [LogNext]_logVars
        /\ [BootNext]_bootVars
        /\ [TunnelNext]_tunnelVars
        /\ [BridgeNext]_bridgeVars
  BY DEF BackgroundServicesNext, backgroundVars

LEMMA BackgroundStarts == BackgroundServicesInit => BackgroundInvariant
  BY LockStarts, RotationStarts, BlocksStart, StrikesStart, QuotaFlightStarts, LogStarts,
     LogBoundsStart, LedgerStarts, BootStarts, TunnelStarts, BridgeStarts
     DEF BackgroundServicesInit, BackgroundInvariant

LEMMA StepsKeepBackground ==
    BackgroundInvariant /\ [BackgroundServicesNext]_backgroundVars => BackgroundInvariant'
<1> SUFFICES ASSUME BackgroundInvariant, [BackgroundServicesNext]_backgroundVars
             PROVE  BackgroundInvariant'
  OBVIOUS
<1> USE DEF BackgroundInvariant
<1>1. (service \in {"refresh", "quota", "log", "boot", "tunnel", "bridge"})'
  BY StepsAreOfServices
<1>2. LockInvariant' /\ (~hasty => RotationInvariant)'
  BY StepsAreOfServices, StepsKeepLock, StepsKeepRotation
<1>3. BlockInvariant' /\ StrikeInvariant' /\ FlightInvariant'
  BY StepsAreOfServices, StepsKeepBlocks, StepsKeepStrikes, QuotaStepsFly
<1>4. LogInvariant' /\ LogBounds' /\ LedgerInvariant'
  BY StepsAreOfServices, StepsKeepLog, StepsKeepLogBounds, LogStepsAreEntered
<1>5. BootInvariant' /\ TunnelInvariant' /\ BridgeInvariant'
  BY StepsAreOfServices, StepsKeepBoot, StepsKeepTunnel, StepsKeepBridge
<1> QED
  BY <1>1, <1>2, <1>3, <1>4, <1>5

LEMMA BackgroundHolds == BackgroundServicesSpec => []BackgroundInvariant
  BY BackgroundStarts, StepsKeepBackground, PTL DEF BackgroundServicesSpec

\* The variables of the six services keep their types, for every value of the constants:
\* the table never outgrows its limit, no counter of the strike breaker its threshold, and
\* no service writes what belongs to another.
THEOREM BackgroundTypes == BackgroundServicesSpec => []BackgroundServicesTypeOK
<1>1. BackgroundInvariant => BackgroundServicesTypeOK
  BY LogTypes, BootIsSafe, TunnelTypes
     DEF BackgroundInvariant, BackgroundServicesTypeOK, LockInvariant, StrikeInvariant, BridgeInvariant
<1> QED
  BY <1>1, BackgroundHolds, PTL

\* What is proved of each service alone holds of the router that runs all of them: one
\* refresh at a time, no rotation lost but to haste, no ghost block, no record forgotten,
\* a marker that is true and no orphans but of late exits.
THEOREM BackgroundIsSafe ==
    BackgroundServicesSpec =>
        []( /\ OneRefreshAtATime
            /\ OnlyHasteLosesRotations
            /\ NoGhostBlock
            /\ RecordsAreAccounted
            /\ MarkerFollowsImport
            /\ OnlyLateExitsOrphan )
<1>1. BackgroundInvariant =>
        /\ OneRefreshAtATime
        /\ OnlyHasteLosesRotations
        /\ NoGhostBlock
        /\ RecordsAreAccounted
        /\ MarkerFollowsImport
        /\ OnlyLateExitsOrphan
  BY RotationIsEnough, LogIsAccounted, BootIsSafe
     DEF BackgroundInvariant, LockInvariant, BlockInvariant, BridgeInvariant
<1> QED
  BY <1>1, BackgroundHolds, PTL

\* So do the promises about single steps: blocks are earned, imports spare used data and
\* a living tunnel process stays on record.
THEOREM BackgroundStepsAreSafe ==
    BackgroundServicesSpec =>
        BlocksAreEarned /\ ImportSparesUsedData /\ LiveProcessStaysOnRecord
<1>1. BackgroundInvariant /\ [BackgroundServicesNext]_backgroundVars =>
        [\A m \in QuotaModels :
           blockedFor'[m] > blockedFor[m] => doubts[m][StrikeWindow] >= StrikeThreshold - 1]_quotaVars
  BY StepsAreOfServices, BlockingIsEarned DEF BackgroundInvariant
<1>2. BackgroundInvariant /\ [BackgroundServicesNext]_backgroundVars =>
        [bootPc = "migrated" /\ bootPc' = "marking" => ~memory.used /\ ~memory.imported]_bootVars
  BY StepsAreOfServices, BootIsSafe DEF BackgroundInvariant
<1>3. BackgroundInvariant /\ [BackgroundServicesNext]_backgroundVars => [ProcessIsKept]_tunnelVars
  BY StepsAreOfServices, StepsKeepTheLiving DEF BackgroundInvariant, TunnelInvariant
<1> QED
  BY <1>1, <1>2, <1>3, BackgroundHolds, PTL
     DEF BackgroundServicesSpec, BlocksAreEarned, ImportSparesUsedData, LiveProcessStaysOnRecord,
         ProcessIsKept
=============================================================================
