---------------------------- MODULE DatasetStream ----------------------------
(***************************************************************************)
(* Parquex.Dataset.Stream (lib/parquex/dataset/stream.ex) over the listing *)
(* of a store (lib/parquex/store.ex, native store.rs and s3.rs): the       *)
(* planned partitions are listed one after the other, the listed files are *)
(* read one at a time, and rows outside [From, Until) are dropped.         *)
(*                                                                         *)
(* Three kinds of actor interleave: the consumer's process that enumerates *)
(* the stream, processes that call close/1, and other processes that       *)
(* publish and delete objects of the dataset.  They meet in the control    *)
(* Agent, which holds the active reader for close/1, in the native readers *)
(* and in the store.                                                       *)
(***************************************************************************)
EXTENDS Naturals, Sequences, FiniteSets, SequencesExt, Selection

CONSTANTS
    Backend,            \* "local" or "s3"
    Files,              \* part keys, numbered in key order within a partition
    FileTimes,          \* FileTimes[f]: the event times of f's rows, in order
    PartitionWidth,     \* event times per partition
    From, Until,        \* the half-open range of the stream
    BatchSize,          \* rows the native reader returns at a time
    PathPrefixes,       \* pairs <<p, q>>: p's path is a proper string prefix
                        \* of q's, in the same directory (day=1, day=10)
    Closers             \* processes that call close/1 once

\* The last conjunct is what the writer guarantees of a part: its rows are of
\* one partition (DatasetWriter.PartsWithinLimits).
ASSUME StreamAssumption ==
    /\ Backend \in {"local", "s3"}
    /\ Files \subseteq Nat /\ IsFiniteSet(Files)
    /\ \A f \in Files : FileTimes[f] \in Seq(Nat) /\ FileTimes[f] # <<>>
    /\ {PartitionWidth, BatchSize} \subseteq Nat \ {0}
    /\ From \in Nat /\ Until \in Nat /\ From <= Until
    /\ \A f \in Files : \A i \in DOMAIN FileTimes[f] :
          FileTimes[f][i] \div PartitionWidth = FileTimes[f][1] \div PartitionWidth

VARIABLES
    present,    \* objects in the store
    removed,    \* objects that have been deleted; a part name never returns
    folders,    \* partitions whose directory exists (local backend)
    plans,      \* planned partitions still to be listed
    queue,      \* listed files still to be opened
    current,    \* the reader in use and its file, or None
    position,   \* rows the reader in use has returned
    acc,        \* the accumulator Stream.resource holds while next/1 runs
    pc,         \* where the enumeration stands
    outcome,    \* how it ended
    readers,    \* open native readers
    opened,     \* how many readers have been opened
    agent,      \* the control Agent is alive
    held,       \* the reader the Agent holds, or None
    closer,     \* where each call of close/1 stands
    taken,      \* the reader a call of close/1 took from the Agent, or None
    delivered,  \* history: rows emitted, as <<file, index>>
    stable,     \* history: files present since the stream was opened
    seen        \* history: readers open when a call of close/1 began

store == <<present, removed, folders>>
position_vars == <<plans, queue, current, position>>
control == <<agent, held>>
closing == <<closer, taken, seen>>
vars == <<store, position_vars, acc, pc, outcome, readers, opened, control,
          closing, delivered, stable>>

None == [id |-> 0, file |-> 0]

Partition(ts) == ts \div PartitionWidth
FilePartition(f) == Partition(FileTimes[f][1])
InRangeClosed(ts) == From <= ts /\ ts <= Until

\* in_range?
InRange(ts) == From <= ts /\ ts < Until

\* TimePartition.plan: the partitions that overlap [From, Until), in order
PlannedPartitions ==
    IF From = Until THEN <<>>
    ELSE [i \in 1 .. Partition(Until - 1) - Partition(From) + 1 |->
            Partition(From) + i - 1]

Init ==
    /\ present \in SUBSET Files
    /\ removed = {}
    /\ folders = {FilePartition(f) : f \in present}
    /\ plans = PlannedPartitions
    /\ queue = <<>>
    /\ current = None
    /\ position = 0
    /\ acc = None
    /\ pc = "idle"
    /\ outcome = "none"
    /\ readers = {}
    /\ opened = 0
    /\ agent = TRUE
    /\ held = None
    /\ closer = [c \in Closers |-> "ready"]
    /\ taken = [c \in Closers |-> None]
    /\ delivered = <<>>
    /\ stable = present
    /\ seen = [c \in Closers |-> {}]
-----------------------------------------------------------------------------
(***************************************************************************)
(* Store.list of a partition's prefix.  The trailing "/" is stripped       *)
(* before the native call.  S3 compares whole path segments.  The local    *)
(* store lists the directory; when there is none it lists the parent and   *)
(* keeps every path that starts with the name as a string, so a missing    *)
(* day=1 gives the files of day=10.  Staging files are not .parquet keys.  *)
(***************************************************************************)
Listed(p) ==
    LET asString == {q \in folders : <<p, q>> \in PathPrefixes}
        found == IF Backend = "s3" \/ p \in folders THEN {p} ELSE asString
    IN  {f \in present : FilePartition(f) \in found}

\* The order Enum.sort gives the keys: by partition path, then by part name.
KeyOrder(f, g) ==
    \/ FilePartition(f) < FilePartition(g)
    \/ FilePartition(f) = FilePartition(g) /\ f < g
InKeyOrder(keys) == \A i, j \in DOMAIN keys : i < j => KeyOrder(keys[i], keys[j])
ListedKeysReversed(p) ==
    {keys \in SetToSeqs(Listed(p)) : InKeyOrder(Reverse(keys))}
ListedKeys(p) == {keys \in SetToSeqs(Listed(p)) : InKeyOrder(keys)}

\* filter_batch on the rows i .. j of f
RowsInRange(f) ==
    {<<f, n>> : n \in {m \in DOMAIN FileTimes[f] : InRange(FileTimes[f][m])}}
Selected(f, i, j) ==
    Select([n \in 1 .. j - i + 1 |-> <<f, i + n - 1>>], RowsInRange(f))
-----------------------------------------------------------------------------
(***************************************************************************)
(* next/1, called by Stream.resource with the accumulator acc; it loops    *)
(* until it has a batch to emit, raises or halts.  pc "set" and "update"   *)
(* are the two halves of set_current: Process.alive?, then Agent.update.   *)
(***************************************************************************)
ReleaseNothing(r) == readers
\* Parquex.Stream.close: the native reader is closed, once.
Release(r) == readers \ {r.id}

\* Rows a fresh reader has returned.
FreshPosition == 0

Raise ==
    /\ outcome' = "raised"
    /\ pc' = "finalizing"

\* The consumer asks for the next batch.
Pull ==
    /\ pc = "idle"
    /\ acc' = current
    /\ pc' = "next"
    /\ UNCHANGED <<store, position_vars, outcome, readers, opened, control,
                   closing, delivered, stable>>

NextBatch ==
    /\ pc = "next" /\ current # None
    /\ current.id \in readers
    /\ position < Len(FileTimes[current.file])
    /\ LET last == IF position + BatchSize <= Len(FileTimes[current.file])
                   THEN position + BatchSize
                   ELSE Len(FileTimes[current.file])
           output == Selected(current.file, position + 1, last)
       IN  /\ position' = last
           /\ delivered' = delivered \o output
           /\ pc' = IF output = <<>> THEN "next" ELSE "idle"
    /\ UNCHANGED <<store, plans, queue, current, acc, outcome, readers,
                   opened, control, closing, stable>>

NextEof ==
    /\ pc = "next" /\ current # None
    /\ current.id \in readers
    /\ position = Len(FileTimes[current.file])
    /\ readers' = Release(current)
    /\ current' = None
    /\ pc' = "set"
    /\ UNCHANGED <<store, plans, queue, position, acc, outcome, opened,
                   control, closing, delivered, stable>>

\* The reader was closed under the enumeration, or a read fails.
NextFails ==
    /\ pc = "next" /\ current # None
    /\ Raise
    /\ UNCHANGED <<store, position_vars, acc, readers, opened, control,
                   closing, delivered, stable>>

OpenFile ==
    /\ pc = "next" /\ current = None /\ queue # <<>>
    /\ Head(queue) \in present
    /\ opened' = opened + 1
    /\ readers' = readers \cup {opened + 1}
    /\ current' = [id |-> opened + 1, file |-> Head(queue)]
    /\ position' = FreshPosition
    /\ queue' = Tail(queue)
    /\ pc' = "set"
    /\ UNCHANGED <<store, plans, acc, outcome, control, closing, delivered,
                   stable>>

ListPartition ==
    /\ pc = "next" /\ current = None /\ queue = <<>> /\ plans # <<>>
    /\ queue' \in ListedKeys(Head(plans))
    /\ plans' = Tail(plans)
    /\ UNCHANGED <<store, current, position, acc, pc, outcome, readers,
                   opened, control, closing, delivered, stable>>

\* The object is gone since it was listed, or the store answers with an error.
OpenOrListFails ==
    /\ pc = "next" /\ current = None
    /\ queue # <<>> \/ plans # <<>>
    /\ Raise
    /\ UNCHANGED <<store, position_vars, acc, readers, opened, control,
                   closing, delivered, stable>>

SetCurrentWaits ==
    /\ pc = "set"
    /\ pc' = IF agent THEN "update" ELSE "set"
    /\ UNCHANGED <<store, position_vars, acc, outcome, readers, opened,
                   control, closing, delivered, stable>>

SetCurrent ==
    /\ pc = "set"
    /\ pc' = IF agent THEN "update" ELSE "next"
    /\ UNCHANGED <<store, position_vars, acc, outcome, readers, opened,
                   control, closing, delivered, stable>>

UpdateAgent ==
    /\ pc = "update" /\ agent
    /\ held' = current
    /\ pc' = "next"
    /\ UNCHANGED <<store, position_vars, acc, outcome, readers, opened,
                   agent, closing, delivered, stable>>

\* The Agent has been stopped since Process.alive?: Agent.update exits.
UpdateExits ==
    /\ pc = "update" /\ ~agent
    /\ Raise
    /\ UNCHANGED <<store, position_vars, acc, readers, opened, control,
                   closing, delivered, stable>>

Halt ==
    /\ pc = "next" /\ current = None /\ queue = <<>> /\ plans = <<>>
    /\ outcome' = "halted"
    /\ acc' = current
    /\ pc' = "finalizing"
    /\ UNCHANGED <<store, position_vars, readers, opened, control, closing,
                   delivered, stable>>

\* The consumer takes no more batches, or raises on one.
ConsumerStops ==
    /\ pc = "idle"
    /\ outcome' = "stopped"
    /\ acc' = current
    /\ pc' = "finalizing"
    /\ UNCHANGED <<store, position_vars, readers, opened, control, closing,
                   delivered, stable>>

FinalizeForgetsReader ==
    /\ pc = "finalizing"
    /\ pc' = IF agent THEN "stopping" ELSE "done"
    /\ UNCHANGED <<store, position_vars, acc, outcome, readers, opened,
                   control, closing, delivered, stable>>

\* finalize/1 closes the reader of the accumulator it is given.
Finalize ==
    /\ pc = "finalizing"
    /\ readers' = Release(acc)
    /\ pc' = IF agent THEN "stopping" ELSE "done"
    /\ UNCHANGED <<store, position_vars, acc, outcome, opened, control,
                   closing, delivered, stable>>

\* Agent.stop; it exits when the Agent has stopped since Process.alive?.
StopAgent ==
    /\ pc = "stopping"
    /\ agent' = FALSE
    /\ pc' = "done"
    /\ UNCHANGED <<store, position_vars, acc, outcome, readers, opened, held,
                   closing, delivered, stable>>
-----------------------------------------------------------------------------
(***************************************************************************)
(* close/1: Process.alive?, Agent.get_and_update, close of the reader,     *)
(* Agent.stop.  The calls to a stopped Agent exit.                         *)
(***************************************************************************)
CloseChecks(c) ==
    /\ closer[c] = "ready"
    /\ closer' = [closer EXCEPT ![c] = IF agent THEN "checked" ELSE "done"]
    /\ seen' = [seen EXCEPT ![c] = readers]
    /\ UNCHANGED <<store, position_vars, acc, pc, outcome, readers, opened,
                   control, taken, delivered, stable>>

CloseTakes(c) ==
    /\ closer[c] = "checked"
    /\ \/ /\ agent
          /\ taken' = [taken EXCEPT ![c] = held]
          /\ held' = None
          /\ closer' = [closer EXCEPT ![c] = "taken"]
       \/ /\ ~agent
          /\ closer' = [closer EXCEPT ![c] = "exited"]
          /\ UNCHANGED <<taken, held>>
    /\ UNCHANGED <<store, position_vars, acc, pc, outcome, readers, opened,
                   agent, seen, delivered, stable>>

CloseReader(c) ==
    /\ closer[c] = "taken"
    /\ readers' = Release(taken[c])
    /\ closer' = [closer EXCEPT ![c] = "closed"]
    /\ UNCHANGED <<store, position_vars, acc, pc, outcome, opened, control,
                   taken, seen, delivered, stable>>

CloseStops(c) ==
    /\ closer[c] = "closed"
    /\ closer' = [closer EXCEPT ![c] = IF agent THEN "done" ELSE "exited"]
    /\ agent' = FALSE
    /\ UNCHANGED <<store, position_vars, acc, pc, outcome, readers, opened,
                   held, taken, seen, delivered, stable>>
-----------------------------------------------------------------------------
\* Another process publishes a part (its directory is made first), or deletes
\* one; both only while the enumeration can notice.
PublishFile(f) ==
    /\ pc # "done" /\ f \notin present \cup removed
    /\ present' = present \cup {f}
    /\ folders' = folders \cup {FilePartition(f)}
    /\ UNCHANGED <<removed, position_vars, acc, pc, outcome, readers, opened,
                   control, closing, delivered, stable>>

DeleteFile(f) ==
    /\ pc # "done" /\ f \in present
    /\ removed' = removed \cup {f}
    /\ present' = present \ {f}
    /\ stable' = stable \ {f}
    /\ UNCHANGED <<folders, position_vars, acc, pc, outcome, readers, opened,
                   control, closing, delivered>>
----------------------------------------------------------------------------
Enumerate ==
    \/ NextBatch \/ NextEof \/ NextFails
    \/ OpenFile \/ ListPartition \/ OpenOrListFails
    \/ SetCurrent \/ UpdateAgent \/ UpdateExits
    \/ Halt \/ Finalize \/ StopAgent

CloseStep(c) == CloseChecks(c) \/ CloseTakes(c) \/ CloseReader(c) \/ CloseStops(c)

Next ==
    \/ Pull \/ ConsumerStops \/ Enumerate
    \/ \E c \in Closers : CloseStep(c)
    \/ \E f \in Files : PublishFile(f) \/ DeleteFile(f)

Spec == Init /\ [][Next]_vars

\* The enumeration keeps running, and the consumer keeps pulling or stops.
FairSpec == Spec /\ WF_vars(Enumerate) /\ WF_vars(Pull \/ ConsumerStops)
-----------------------------------------------------------------------------
Positions == {"idle", "next", "set", "update", "finalizing", "stopping", "done"}
Reader == [id : Nat, file : Files \cup {0}]

\* The domain of every variable; the reader in use is within its file.
TypeOK ==
    /\ present \subseteq Files /\ removed \subseteq Files /\ stable \subseteq present
    /\ queue \in Seq(Files)
    /\ current \in Reader /\ acc \in Reader /\ held \in Reader
    /\ current # None => position <= Len(FileTimes[current.file])
    /\ pc \in Positions
    /\ outcome \in {"none", "halted", "stopped", "raised"}
    /\ readers \subseteq 1 .. opened
    /\ agent \in BOOLEAN
    /\ closer \in [Closers -> {"ready", "checked", "taken", "closed", "done",
                               "exited"}]
    /\ taken \in [Closers -> Reader]

(***************************************************************************)
(* "opens one file at a time" (docs/datasets.md:76), counted at the native *)
(* readers: only the reader opened last can be open, so a call of close/1  *)
(* that finds the Agent stopped, or that comes between the opening of a    *)
(* reader and set_current, leaves at most that one behind.                 *)
(***************************************************************************)
OneFileAtATime == readers \subseteq {opened}

(***************************************************************************)
(* The position in the plan, the reader in use and the open native readers *)
(* agree in every state, whatever close/1 takes away in between.           *)
(***************************************************************************)
StreamConsistent == TypeOK /\ OneFileAtATime

(***************************************************************************)
(* Every emitted row lies in the half-open range, and rows come out by     *)
(* partition, part key and position in the part, each at most once.        *)
(***************************************************************************)
RowBefore(a, b) == KeyOrder(a[1], b[1]) \/ (a[1] = b[1] /\ a[2] < b[2])
OrderedOnce ==
    \A i, j \in DOMAIN delivered :
        i < j => RowBefore(delivered[i], delivered[j])

(***************************************************************************)
(* When the enumeration runs to its end it has emitted every row of the    *)
(* range [From, Until) that was in the store throughout, and no row        *)
(* outside it.                                                             *)
(***************************************************************************)
WantedRows ==
    {row \in UNION {{f} \X (DOMAIN FileTimes[f]) : f \in stable} :
        From <= FileTimes[row[1]][row[2]] /\ FileTimes[row[1]][row[2]] < Until}
ExactRange ==
    /\ outcome = "halted" => WantedRows \subseteq ToSet(delivered)
    /\ \A row \in ToSet(delivered) :
        LET ts == FileTimes[row[1]][row[2]] IN From <= ts /\ ts < Until

(***************************************************************************)
(* When the enumeration ends normally or the consumer stops it, no native  *)
(* reader stays open (finalize/1).                                         *)
(***************************************************************************)
EndReleases ==
    pc = "done" /\ outcome \in {"halted", "stopped"} => readers = {}

(***************************************************************************)
(* The enumeration of a finite plan ends, even when close/1 stops the      *)
(* Agent under it.                                                         *)
(***************************************************************************)
EnumerationEnds == <>(pc = "done")

(***************************************************************************)
(* "Halt/failure releases listing/read resources."                         *)
(* (@meta/@pm/roadmap002/EPIC006-plan.md:29), for a failure.               *)
(***************************************************************************)
FailureReleases == pc = "done" /\ outcome = "raised" => readers = {}

(***************************************************************************)
(* "This operation is idempotent." (stream.ex:104): a call of close/1      *)
(* never exits because the stream was closed meanwhile.                    *)
(***************************************************************************)
CloseIdempotent == \A c \in Closers : closer[c] # "exited"

(***************************************************************************)
(* "Closes the active file reader." (stream.ex:104): a reader that was     *)
(* open when a call of close/1 began is not open when it has returned.     *)
(***************************************************************************)
CloseClosesReader ==
    \A c \in Closers : closer[c] = "done" => seen[c] \cap readers = {}
=============================================================================
