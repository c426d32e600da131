------------------------ MODULE DatasetStreamProofs ------------------------
(***************************************************************************)
(* Proofs about Parquex.Dataset.Stream, for every set of parts with any    *)
(* event times, every range, batch size and number of closing processes.   *)
(*                                                                         *)
(* StreamConsistent and EndReleases rest on Single and Ending: the reader  *)
(* in use is the one opened last, none is open when none is in use, and    *)
(* the accumulator given to finalize/1 is the reader in use unless next/1  *)
(* raised.                                                                 *)
(*                                                                         *)
(* OrderedOnce and ExactRange speak of the rows emitted; InLine relates    *)
(* them to what is still to come (the rest of the reader in use, then the  *)
(* queue, then the plan), and NothingLost says where each row of the range *)
(* is meanwhile.  Both need that listing a partition gives the parts of    *)
(* this partition: Unambiguous.                                            *)
(***************************************************************************)
EXTENDS DatasetStream, SelectionProofs, FiniteSetTheorems, TLAPS

Row == Files \X Nat
Ended == pc \in {"finalizing", "stopping", "done"}

Typed ==
    /\ TypeOK
    /\ opened \in Nat /\ position \in Nat
    /\ plans \in Seq(Nat) /\ delivered \in Seq(Row)

Single ==
    /\ readers \subseteq {opened}
    /\ current = None => readers = {}
    /\ current # None => current.id = opened /\ current.file \in Files

Ending ==
    /\ outcome # "none" => Ended
    /\ outcome \in {"halted", "stopped"} =>
          IF pc = "finalizing" THEN acc = current ELSE readers = {}
    /\ outcome = "halted" => current = None /\ queue = <<>> /\ plans = <<>>

IInv == Typed /\ Single /\ Ending

\* No partition's path is a string prefix of another's that a local listing
\* of a missing directory would take for it.
Unambiguous == Backend = "s3" \/ PathPrefixes = {}

\* The parts still to come, in their order.
AheadInLine ==
    /\ \A i, j \in DOMAIN plans : i < j => plans[i] < plans[j]
    /\ InKeyOrder(queue)
    /\ \A i \in DOMAIN queue, j \in DOMAIN plans :
          FilePartition(queue[i]) < plans[j]
    /\ current # None =>
          /\ \A i \in DOMAIN queue : KeyOrder(current.file, queue[i])
          /\ \A j \in DOMAIN plans : FilePartition(current.file) < plans[j]

\* A row emitted lies in the range and before all that is still to come.
Passed(row) ==
    /\ row[2] \in DOMAIN FileTimes[row[1]] /\ InRange(FileTimes[row[1]][row[2]])
    /\ \A i \in DOMAIN queue : KeyOrder(row[1], queue[i])
    /\ \A j \in DOMAIN plans : FilePartition(row[1]) < plans[j]
    /\ current # None =>
          KeyOrder(row[1], current.file) \/ (row[1] = current.file /\ row[2] <= position)

InLine ==
    /\ AheadInLine
    /\ \A k \in DOMAIN delivered : Passed(delivered[k])
    /\ OrderedOnce

\* Where a row of the range is as long as its part stays in the store.
NothingLost ==
    /\ \A f \in present : FilePartition(f) \in folders
    /\ \A f \in stable : \A n \in DOMAIN FileTimes[f] :
          InRange(FileTimes[f][n]) =>
             \/ \E j \in DOMAIN plans : FilePartition(f) = plans[j]
             \/ \E i \in DOMAIN queue : f = queue[i]
             \/ current # None /\ current.file = f /\ n > position
             \/ \E k \in DOMAIN delivered : delivered[k] = <<f, n>>

RowInv == InLine /\ NothingLost
-----------------------------------------------------------------------------
\* Division by the width of a partition.
LEMMA DivisionFacts ==
    ASSUME NEW w \in Nat \ {0}, NEW a \in Nat, NEW b \in Nat
    PROVE  /\ a \div w \in Nat
           /\ a <= b => a \div w <= b \div w
  OBVIOUS

\* The partition of an event time, and of a part.
LEMMA PartitionType ==
    /\ \A ts \in Nat : Partition(ts) \in Nat
    /\ \A ts, tt \in Nat : ts <= tt => Partition(ts) <= Partition(tt)
    /\ \A f \in Files : FilePartition(f) \in Nat
    /\ \A f \in Files : \A n \in DOMAIN FileTimes[f] :
          FileTimes[f][n] \in Nat /\ Partition(FileTimes[f][n]) = FilePartition(f)
<1>1. PartitionWidth \in Nat \ {0}
  BY StreamAssumption
<1>2. /\ \A ts \in Nat : Partition(ts) \in Nat
      /\ \A ts, tt \in Nat : ts <= tt => Partition(ts) <= Partition(tt)
  BY <1>1, DivisionFacts DEF Partition
<1>3. ASSUME NEW f \in Files
      PROVE  /\ 1 \in DOMAIN FileTimes[f]
             /\ \A n \in DOMAIN FileTimes[f] : FileTimes[f][n] \in Nat
  <2>1. FileTimes[f] \in Seq(Nat) /\ FileTimes[f] # <<>>
    BY StreamAssumption
  <2> QED
    BY <2>1, EmptySeq, LenProperties, ElementOfSeq
<1>4. \A f \in Files : FilePartition(f) \in Nat
  BY <1>2, <1>3 DEF FilePartition
<1>5. \A f \in Files : \A n \in DOMAIN FileTimes[f] :
         Partition(FileTimes[f][n]) = FilePartition(f)
  BY StreamAssumption DEF Partition, FilePartition
<1> QED
  BY <1>2, <1>3, <1>4, <1>5

\* The planned partitions are consecutive, and every time of the range lies
\* in one of them.
LEMMA PlanFacts ==
    /\ PlannedPartitions \in Seq(Nat)
    /\ \A i, j \in DOMAIN PlannedPartitions :
          i < j => PlannedPartitions[i] < PlannedPartitions[j]
    /\ \A ts \in Nat : InRange(ts) =>
          \E j \in DOMAIN PlannedPartitions : Partition(ts) = PlannedPartitions[j]
<1>1. From \in Nat /\ Until \in Nat /\ From <= Until
  BY StreamAssumption
<1>2. CASE From = Until
  <2>1. PlannedPartitions = <<>>
    BY <1>2 DEF PlannedPartitions
  <2>2. ~ \E ts \in Nat : InRange(ts)
    BY <1>1, <1>2 DEF InRange
  <2> QED
    BY <2>1, <2>2, EmptySeq
<1>3. CASE From # Until
  <2> DEFINE a == Partition(From)
             b == Partition(Until - 1)
             n == b - a + 1
             plan == [i \in 1 .. n |-> a + i - 1]
  <2>1. Until - 1 \in Nat /\ From <= Until - 1
    BY <1>1, <1>3
  <2>2. a \in Nat /\ b \in Nat /\ a <= b
    BY <1>1, <2>1, PartitionType
  <2>3. PlannedPartitions = plan
    BY <1>3 DEF PlannedPartitions
  <2> HIDE DEF a, b
  <2>4. n \in Nat /\ \A i \in 1 .. n : a + i - 1 \in Nat
    BY <2>2
  <2>5. plan \in Seq(Nat) /\ DOMAIN plan = 1 .. n
    BY <2>4
  <2>6. \A i, j \in DOMAIN plan : i < j => plan[i] < plan[j]
    BY <2>2, <2>4, <2>5
  <2>7. ASSUME NEW ts \in Nat, InRange(ts)
        PROVE  \E j \in DOMAIN plan : Partition(ts) = plan[j]
    <3>1. From <= ts /\ ts <= Until - 1
      BY <1>1, <2>7 DEF InRange
    <3>2. Partition(ts) \in Nat /\ a <= Partition(ts) /\ Partition(ts) <= b
      BY <1>1, <2>1, <3>1, PartitionType DEF a, b
    <3>3. Partition(ts) - a + 1 \in 1 .. n
      BY <2>2, <3>2
    <3>4. plan[Partition(ts) - a + 1] = Partition(ts)
      BY <2>2, <3>2, <3>3
    <3> QED
      BY <2>5, <3>3, <3>4
  <2> QED
    BY <2>3, <2>5, <2>6, <2>7
<1> QED
  BY <1>2, <1>3

\* A listing holds every listed part once.
LEMMA ListedKeysFacts ==
    ASSUME present \subseteq Files, NEW p, NEW keys \in ListedKeys(p)
    PROVE  /\ keys \in Seq(Files)
           /\ \A i \in DOMAIN keys : keys[i] \in Listed(p)
           /\ \A f \in Listed(p) : \E i \in DOMAIN keys : f = keys[i]
           /\ InKeyOrder(keys)
<1> DEFINE L == Listed(p)
           D == 1 .. Cardinality(L)
<1>1. L \subseteq Files
  BY DEF Listed
<1>2. IsFiniteSet(L) /\ Cardinality(L) \in Nat
  BY <1>1, StreamAssumption, FS_Subset, FS_CardinalityType
<1>3. /\ keys \in [D -> L] /\ InKeyOrder(keys)
      /\ \A i, j \in D : i # j => keys[i] # keys[j]
  BY DEF ListedKeys, SetToSeqs
<1> HIDE DEF L
<1>4. keys \in Seq(Files)
  BY <1>1, <1>2, <1>3
<1>5. keys \in Surjection(D, L)
  <2>1. keys \in Injection(D, L)
    BY <1>3 DEF Injection, IsInjective
  <2>2. Cardinality(D) = Cardinality(L)
    BY <1>2, FS_Interval
  <2> QED
    BY <1>2, <2>1, <2>2, FS_Injection
<1> QED
  BY <1>3, <1>4, <1>5 DEF Surjection, L
-----------------------------------------------------------------------------
\* o has the rows i .. j of f that lie in the range, in their order.
IsFiltered(o, f, i, j) ==
    /\ \A k \in 1 .. Len(o) :
          /\ o[k][1] = f /\ o[k][2] \in i .. j
          /\ InRange(FileTimes[f][o[k][2]])
    /\ \A k, l \in 1 .. Len(o) : k < l => o[k][2] < o[l][2]
    /\ \A n \in i .. j : InRange(FileTimes[f][n]) =>
          \E k \in 1 .. Len(o) : o[k] = <<f, n>>

\* filter_batch keeps the rows in the range, all of them, in their order.
LEMMA SelectedRows ==
    ASSUME NEW f \in Files, NEW i \in Nat \ {0}, NEW j \in Nat,
           i <= j + 1, j <= Len(FileTimes[f])
    PROVE  /\ Selected(f, i, j) \in Seq(Row)
           /\ IsFiltered(Selected(f, i, j), f, i, j)
<1> DEFINE N == j - i + 1
           rows == [n \in 1 .. N |-> <<f, i + n - 1>>]
           o == Select(rows, RowsInRange(f))
<1>1. N \in Nat /\ \A n \in 1 .. N : <<f, i + n - 1>> \in Row
  BY DEF Row
<1>2. rows \in Seq(Row) /\ Len(rows) = N
  <2>1. N \in Nat /\ \A n \in 1 .. N : <<f, i + n - 1>> \in Row
    BY <1>1
  <2>2. rows \in [1 .. N -> Row]
    BY <2>1
  <2> HIDE DEF N, rows
  <2> QED
    BY <2>1, <2>2
<1>3. \A n \in 1 .. N : rows[n] = <<f, i + n - 1>>
  OBVIOUS
<1>4. FileTimes[f] \in Seq(Nat) /\ DOMAIN FileTimes[f] = 1 .. Len(FileTimes[f])
  BY StreamAssumption, LenProperties
<1>5. Selected(f, i, j) = o
  BY DEF Selected
<1> HIDE DEF rows, o
<1>6. /\ o \in Seq(Row)
      /\ \A k \in 1 .. Len(o) :
            o[k] \in RowsInRange(f) /\ \E a \in 1 .. N : o[k] = rows[a]
      /\ \A k, l \in 1 .. Len(o) : k < l =>
            \E a, b \in 1 .. N : a < b /\ o[k] = rows[a] /\ o[l] = rows[b]
      /\ \A a \in 1 .. N : rows[a] \in RowsInRange(f) =>
            \E k \in 1 .. Len(o) : o[k] = rows[a]
  <2>1. o \in Seq(Row) /\ Keeps(o, rows, Len(rows), RowsInRange(f))
    BY <1>2, SelectProperties DEF o
  <2> QED
    BY <1>2, <2>1 DEF Keeps
<1>7. ASSUME NEW k \in 1 .. Len(o)
      PROVE  /\ o[k][1] = f /\ o[k][2] \in i .. j
             /\ InRange(FileTimes[f][o[k][2]])
  <2>1. PICK a \in 1 .. N : o[k] = <<f, i + a - 1>>
    BY <1>3, <1>6
  <2>2. i + a - 1 \in i .. j
    OBVIOUS
  <2>3. <<f, i + a - 1>> \in RowsInRange(f)
    BY <1>6, <2>1
  <2>4. InRange(FileTimes[f][i + a - 1])
    BY <2>3 DEF RowsInRange
  <2> QED
    BY <2>1, <2>2, <2>4
<1>8. ASSUME NEW k \in 1 .. Len(o), NEW l \in 1 .. Len(o), k < l
      PROVE  o[k][2] < o[l][2]
  <2>1. PICK a \in 1 .. N, b \in 1 .. N :
           a < b /\ o[k] = <<f, i + a - 1>> /\ o[l] = <<f, i + b - 1>>
    <3>1. PICK a \in 1 .. N, b \in 1 .. N : a < b /\ o[k] = rows[a] /\ o[l] = rows[b]
      BY <1>6, <1>8
    <3>2. o[k] = <<f, i + a - 1>> /\ o[l] = <<f, i + b - 1>>
      BY <1>3, <3>1
    <3> QED
      BY <3>1, <3>2
  <2> QED
    BY <2>1
<1>9. ASSUME NEW n \in i .. j, InRange(FileTimes[f][n])
      PROVE  \E k \in 1 .. Len(o) : o[k] = <<f, n>>
  <2>1. n - i + 1 \in 1 .. N /\ i + (n - i + 1) - 1 = n
    OBVIOUS
  <2>2. rows[n - i + 1] = <<f, n>>
    BY <1>3, <2>1
  <2>3. n \in DOMAIN FileTimes[f]
    BY <1>4
  <2>4. <<f, n>> \in RowsInRange(f)
    BY <1>9, <2>3 DEF RowsInRange
  <2>5. \E k \in 1 .. Len(o) : o[k] = rows[n - i + 1]
    BY <1>6, <2>1, <2>2, <2>4
  <2> QED
    BY <2>2, <2>5
<1> QED
  BY <1>5, <1>6, <1>7, <1>8, <1>9 DEF IsFiltered

\* The batch that next/1 reads ends within the file.
BatchEnd(f) ==
    IF position + BatchSize <= Len(FileTimes[f]) THEN position + BatchSize
    ELSE Len(FileTimes[f])

LEMMA BatchFacts ==
    ASSUME Typed, Single, NextBatch
    PROVE  LET f == current.file
               last == BatchEnd(f)
               o == Selected(f, position + 1, last)
           IN  /\ f \in Files /\ last \in Nat /\ position < last
               /\ last <= Len(FileTimes[f]) /\ last \in DOMAIN FileTimes[f]
               /\ position' = last /\ delivered' = delivered \o o
               /\ pc' \in {"next", "idle"}
<1> DEFINE f == current.file
<1>1. f \in Files /\ position \in Nat
  BY DEF NextBatch, Single, Typed
<1>2. FileTimes[f] \in Seq(Nat) /\ DOMAIN FileTimes[f] = 1 .. Len(FileTimes[f])
  BY <1>1, StreamAssumption, LenProperties
<1>3. Len(FileTimes[f]) \in Nat /\ BatchSize \in Nat \ {0}
  BY <1>2, StreamAssumption, LenProperties
<1>4. position < Len(FileTimes[f])
  BY DEF NextBatch
<1> HIDE DEF f
<1>5. /\ BatchEnd(f) \in Nat /\ position < BatchEnd(f)
      /\ BatchEnd(f) <= Len(FileTimes[f]) /\ BatchEnd(f) \in DOMAIN FileTimes[f]
  BY <1>1, <1>2, <1>3, <1>4 DEF BatchEnd
<1>6. /\ position' = BatchEnd(f)
      /\ delivered' = delivered \o Selected(f, position + 1, BatchEnd(f))
      /\ pc' \in {"next", "idle"}
  BY DEF NextBatch, BatchEnd, f
<1> QED
  BY <1>1, <1>5, <1>6 DEF f

\* Opening a stream establishes the invariant.
LEMMA InitInv == Init => IInv
<1> SUFFICES ASSUME Init PROVE IInv
  OBVIOUS
<1>1. plans \in Seq(Nat)
  BY PlanFacts DEF Init
<1>2. queue \in Seq(Files) /\ delivered \in Seq(Row)
  BY EmptySeq DEF Init
<1>3. None \in Reader
  BY DEF None, Reader
<1>4. closer \in [Closers -> {"ready", "checked", "taken", "closed", "done", "exited"}]
  BY DEF Init
<1>5. taken \in [Closers -> Reader]
  BY <1>3 DEF Init
<1>6. TypeOK
  BY <1>2, <1>3, <1>4, <1>5 DEF Init, TypeOK, Positions
<1> QED
  BY <1>1, <1>2, <1>6 DEF Init, IInv, Typed, Single, Ending, Ended

\* Every step of the consumer, of close/1 and of other writers preserves it.
LEMMA StepInv == IInv /\ [Next]_vars => IInv'
<1> SUFFICES ASSUME IInv, [Next]_vars PROVE IInv'
  OBVIOUS
<1> USE DEF IInv, Typed, TypeOK, Single, Ending, Ended, store, position_vars, control, closing
<1>1. CASE Pull
  BY <1>1 DEF Pull, Positions
<1>2. CASE ConsumerStops
  BY <1>2 DEF ConsumerStops, Positions
<1>3. CASE NextBatch
  <2> DEFINE f == current.file
             o == Selected(f, position + 1, BatchEnd(f))
  <2>1. /\ f \in Files /\ position \in Nat /\ BatchEnd(f) \in Nat
        /\ position < BatchEnd(f) /\ BatchEnd(f) <= Len(FileTimes[f])
        /\ position' = BatchEnd(f) /\ delivered' = delivered \o o
        /\ pc' \in {"next", "idle"}
    BY <1>3, BatchFacts
  <2>2. o \in Seq(Row)
    BY <2>1, SelectedRows
  <2> HIDE DEF o
  <2>3. delivered' \in Seq(Row)
    BY <2>1, <2>2, ConcatProperties
  <2> QED
    BY <1>3, <2>1, <2>3 DEF NextBatch, Positions
<1>4. CASE NextEof
  BY <1>4 DEF NextEof, Release, None, Reader, Positions
<1>5. CASE NextFails
  BY <1>5 DEF NextFails, Raise, Positions
<1>6. CASE OpenFile
  <2>1. /\ Head(queue) \in Files /\ queue' \in Seq(Files) /\ readers = {}
    BY <1>6, HeadTailProperties DEF OpenFile
  <2>2. Len(FileTimes[Head(queue)]) \in Nat
    BY <2>1, StreamAssumption, LenProperties
  <2>3. current' = [id |-> opened + 1, file |-> Head(queue)] /\ opened + 1 \in Nat
    BY <1>6 DEF OpenFile
  <2>4. current' \in Reader /\ current'.id = opened + 1 /\ current'.file = Head(queue)
    BY <2>1, <2>3 DEF Reader
  <2>5. current' # None
    BY <2>4 DEF None
  <2> QED
    BY <1>6, <2>1, <2>2, <2>4, <2>5 DEF OpenFile, FreshPosition, Positions
<1>7. CASE ListPartition
  <2>1. queue' \in Seq(Files)
    BY <1>7, ListedKeysFacts DEF ListPartition
  <2>2. plans' \in Seq(Nat)
    BY <1>7, HeadTailProperties DEF ListPartition
  <2> QED
    BY <1>7, <2>1, <2>2 DEF ListPartition
<1>8. CASE OpenOrListFails
  BY <1>8 DEF OpenOrListFails, Raise, Positions
<1>9. CASE SetCurrent
  BY <1>9 DEF SetCurrent, Positions
<1>10. CASE UpdateAgent
  BY <1>10 DEF UpdateAgent, Positions
<1>11. CASE UpdateExits
  BY <1>11 DEF UpdateExits, Raise, Positions
<1>12. CASE Halt
  BY <1>12 DEF Halt, Positions
<1>13. CASE Finalize
  BY <1>13 DEF Finalize, Release, Positions
<1>14. CASE StopAgent
  BY <1>14 DEF StopAgent, Positions
<1>15. ASSUME NEW c \in Closers, CloseChecks(c)
       PROVE  IInv'
  BY <1>15 DEF CloseChecks
<1>16. ASSUME NEW c \in Closers, CloseTakes(c)
       PROVE  IInv'
  <2>1. None \in Reader
    BY DEF None, Reader
  <2>2. CASE agent
    BY <1>16, <2>1, <2>2 DEF CloseTakes
  <2>3. CASE ~agent
    BY <1>16, <2>3 DEF CloseTakes
  <2> QED
    BY <2>2, <2>3
<1>17. ASSUME NEW c \in Closers, CloseReader(c)
       PROVE  IInv'
  BY <1>17 DEF CloseReader, Release
<1>18. ASSUME NEW c \in Closers, CloseStops(c)
       PROVE  IInv'
  BY <1>18 DEF CloseStops
<1>19. ASSUME NEW f \in Files, PublishFile(f)
       PROVE  IInv'
  BY <1>19 DEF PublishFile
<1>20. ASSUME NEW f \in Files, DeleteFile(f)
       PROVE  IInv'
  BY <1>20 DEF DeleteFile
<1>21. CASE UNCHANGED vars
  BY <1>21 DEF vars
<1> QED
  BY <1>1, <1>2, <1>3, <1>4, <1>5, <1>6, <1>7, <1>8, <1>9, <1>10, <1>11,
     <1>12, <1>13, <1>14, <1>15, <1>16, <1>17, <1>18, <1>19, <1>20, <1>21
  DEF Next, Enumerate, CloseStep

\* Spec satisfies the invariant.
THEOREM Invariance == Spec => []IInv
<1>1. Init => IInv
  BY InitInv
<1>2. IInv /\ [Next]_vars => IInv'
  BY StepInv
<1> QED
  BY <1>1, <1>2, PTL DEF Spec

\* "opens one file at a time": whatever close/1 does meanwhile, only the
\* reader opened last can be open, and the stream's state keeps its types.
THEOREM StreamsAreConsistent == Spec => []StreamConsistent
<1>1. IInv => StreamConsistent
  BY DEF IInv, Typed, Single, StreamConsistent, OneFileAtATime
<1> QED
  BY <1>1, Invariance, PTL

\* An enumeration that runs to its end, or that its consumer stops, leaves no
\* native reader open (finalize/1).
THEOREM EndsRelease == Spec => []EndReleases
<1>1. IInv => EndReleases
  BY DEF IInv, Ending, EndReleases
<1> QED
  BY <1>1, Invariance, PTL
-----------------------------------------------------------------------------
\* Without look-alike paths a listing gives the parts of its partition.
LEMMA ListedExactly ==
    ASSUME Unambiguous, \A f \in present : FilePartition(f) \in folders, NEW p
    PROVE  Listed(p) = {f \in present : FilePartition(f) = p}
<1>1. CASE Backend = "s3" \/ p \in folders
  BY <1>1 DEF Listed
<1>2. CASE Backend # "s3" /\ p \notin folders
  BY <1>2 DEF Listed, Unambiguous
<1> QED
  BY <1>1, <1>2

\* Before the first batch all rows of the range are in planned partitions.
LEMMA InitRows == Init => RowInv
<1> SUFFICES ASSUME Init PROVE RowInv
  OBVIOUS
<1>1. queue = <<>> /\ delivered = <<>> /\ current = None
  BY DEF Init
<1>2. DOMAIN queue = {} /\ DOMAIN delivered = {}
  BY <1>1
<1>3. InLine
  BY <1>1, <1>2, PlanFacts
  DEF Init, InLine, AheadInLine, InKeyOrder, OrderedOnce
<1>4. ASSUME NEW f \in stable, NEW n \in DOMAIN FileTimes[f], InRange(FileTimes[f][n])
      PROVE  \E j \in DOMAIN plans : FilePartition(f) = plans[j]
  <2>1. f \in Files
    BY DEF Init
  <2>2. FileTimes[f][n] \in Nat /\ Partition(FileTimes[f][n]) = FilePartition(f)
    BY <2>1, PartitionType
  <2> QED
    BY <1>4, <2>2, PlanFacts DEF Init
<1>5. NothingLost
  BY <1>4 DEF Init, NothingLost
<1> QED
  BY <1>3, <1>5 DEF RowInv

\* Steps that leave the position, the rows and the store alone.
LEMMA RowsUntouched ==
    ASSUME RowInv, UNCHANGED <<store, position_vars, delivered, stable>>
    PROVE  RowInv'
  BY DEF RowInv, InLine, AheadInLine, InKeyOrder, Passed, OrderedOnce,
         NothingLost, store, position_vars

\* Reading a batch: its rows come after those emitted, and before the rest.
LEMMA BatchRows ==
    ASSUME IInv, RowInv, NextBatch
    PROVE  RowInv'
<1> DEFINE f == current.file
           last == BatchEnd(f)
           o == Selected(f, position + 1, last)
           D == Len(delivered)
<1>1. /\ f \in Files /\ last \in Nat /\ position \in Nat /\ position < last
      /\ last <= Len(FileTimes[f]) /\ last \in DOMAIN FileTimes[f]
      /\ position' = last /\ delivered' = delivered \o o
      /\ current # None /\ delivered \in Seq(Row)
      /\ UNCHANGED <<store, plans, queue, current, stable>>
  BY BatchFacts DEF IInv, Typed, NextBatch
<1>2. /\ o \in Seq(Row)
      /\ \A k \in 1 .. Len(o) :
            /\ o[k][1] = f /\ o[k][2] \in position + 1 .. last
            /\ InRange(FileTimes[f][o[k][2]])
      /\ \A k, l \in 1 .. Len(o) : k < l => o[k][2] < o[l][2]
      /\ \A n \in position + 1 .. last : InRange(FileTimes[f][n]) =>
            \E k \in 1 .. Len(o) : o[k] = <<f, n>>
  <2> DEFINE i == position + 1
  <2>1. /\ f \in Files /\ i \in Nat \ {0} /\ last \in Nat
        /\ i <= last + 1 /\ last <= Len(FileTimes[f])
    BY <1>1
  <2>2. o = Selected(f, i, last)
    OBVIOUS
  <2> HIDE DEF f, i, last, o
  <2>3. o \in Seq(Row) /\ IsFiltered(o, f, i, last)
    BY <2>1, <2>2, SelectedRows
  <2> QED
    BY <2>3 DEF i, IsFiltered
<1> HIDE DEF o, last
<1>3. /\ D \in Nat /\ Len(o) \in Nat /\ DOMAIN delivered = 1 .. D
      /\ DOMAIN delivered' = 1 .. D + Len(o)
      /\ \A k \in 1 .. D : delivered'[k] = delivered[k]
      /\ \A k \in 1 .. Len(o) : delivered'[D + k] = o[k]
  <2>1. delivered \o o \in Seq(Row) /\ Len(delivered \o o) = D + Len(o)
    BY <1>1, <1>2, ConcatProperties
  <2>2. D \in Nat /\ Len(o) \in Nat /\ DOMAIN delivered = 1 .. D
    BY <1>1, <1>2, LenProperties
  <2>3. DOMAIN (delivered \o o) = 1 .. D + Len(o)
    BY <2>1, LenProperties
  <2>4. \A k \in 1 .. D + Len(o) :
           (delivered \o o)[k] = IF k <= D THEN delivered[k] ELSE o[k - D]
    BY <1>1, <1>2, ConcatProperties
  <2> QED
    BY <1>1, <2>2, <2>3, <2>4
<1>4. \A k \in DOMAIN delivered' :
         k \in 1 .. D \/ (k - D \in 1 .. Len(o) /\ delivered'[k] = o[k - D])
  BY <1>3
<1>5. ASSUME NEW k \in 1 .. D
      PROVE  /\ Passed(delivered[k]) /\ delivered[k][2] \in Nat
             /\ \/ KeyOrder(delivered[k][1], f)
                \/ delivered[k][1] = f /\ delivered[k][2] <= position
  <2>1. delivered[k] \in Row
    BY <1>1, ElementOfSeq
  <2>2. Passed(delivered[k])
    BY <1>3 DEF RowInv, InLine
  <2> QED
    BY <1>1, <2>1, <2>2 DEF Passed, Row
<1>6. AheadInLine'
  BY <1>1 DEF RowInv, InLine, AheadInLine, InKeyOrder
<1>7. FileTimes[f] \in Seq(Nat) /\ DOMAIN FileTimes[f] = 1 .. Len(FileTimes[f])
  BY <1>1, StreamAssumption, LenProperties
<1>8. ASSUME NEW k \in DOMAIN delivered' PROVE Passed(delivered[k])'
  <2>1. CASE k \in 1 .. D
    <3>1. delivered'[k] = delivered[k]
      BY <1>3, <2>1
    <3>2. Passed(delivered[k]) /\ delivered[k][2] \in Nat
      BY <1>5, <2>1
    <3> QED
      BY <1>1, <3>1, <3>2 DEF Passed
  <2>2. CASE k - D \in 1 .. Len(o) /\ delivered'[k] = o[k - D]
    <3> DEFINE row == o[k - D]
    <3>1. /\ row[1] = f /\ row[2] \in position + 1 .. last
          /\ InRange(FileTimes[f][row[2]]) /\ delivered'[k] = row
      BY <1>2, <2>2
    <3> HIDE DEF row
    <3>2. row[2] \in DOMAIN FileTimes[f] /\ row[2] <= last
      BY <1>1, <1>7, <3>1
    <3>3. /\ \A i \in DOMAIN queue : KeyOrder(f, queue[i])
          /\ \A j \in DOMAIN plans : FilePartition(f) < plans[j]
      BY <1>1 DEF RowInv, InLine, AheadInLine
    <3> QED
      BY <1>1, <3>1, <3>2, <3>3 DEF Passed
  <2> QED
    BY <1>4, <2>1, <2>2
<1>9. ASSUME NEW k \in DOMAIN delivered', NEW l \in DOMAIN delivered', k < l
      PROVE  RowBefore(delivered'[k], delivered'[l])
  <2>1. CASE k \in 1 .. D /\ l \in 1 .. D
    BY <1>3, <1>9, <2>1 DEF RowInv, InLine, OrderedOnce
  <2>2. CASE k \in 1 .. D /\ l \notin 1 .. D
    <3>1. l - D \in 1 .. Len(o) /\ delivered'[l] = o[l - D]
      BY <1>4, <2>2
    <3>2. delivered'[l][1] = f /\ delivered'[l][2] \in position + 1 .. last
      BY <1>2, <3>1
    <3>3. delivered'[k] = delivered[k]
      BY <1>3, <2>2
    <3>4. \/ KeyOrder(delivered'[k][1], f)
          \/ delivered'[k][1] = f /\ delivered'[k][2] < delivered'[l][2]
      <4>1. /\ delivered'[k][2] \in Nat
            /\ \/ KeyOrder(delivered'[k][1], f)
               \/ delivered'[k][1] = f /\ delivered'[k][2] <= position
        BY <1>5, <2>2, <3>3
      <4> DEFINE x == delivered'[k][2]
                 y == delivered'[l][2]
      <4>2. /\ x \in Nat /\ y \in position + 1 .. last
            /\ position \in Nat /\ last \in Nat
        BY <1>1, <3>2, <4>1
      <4> HIDE DEF x, y
      <4>3. x <= position => x < y
        BY <4>2
      <4> QED
        BY <4>1, <4>3 DEF x, y
    <3> QED
      BY <3>2, <3>4 DEF RowBefore
  <2>3. CASE k \notin 1 .. D
    <3>1. l \notin 1 .. D
      BY <1>3, <1>9, <2>3
    <3>2. /\ k - D \in 1 .. Len(o) /\ delivered'[k] = o[k - D]
          /\ l - D \in 1 .. Len(o) /\ delivered'[l] = o[l - D]
      BY <1>4, <2>3, <3>1
    <3>3. k - D < l - D
      BY <1>3, <1>9
    <3>4. /\ o[k - D][1] = f /\ o[l - D][1] = f
          /\ o[k - D][2] < o[l - D][2]
      BY <1>2, <3>2, <3>3
    <3> QED
      BY <3>2, <3>4 DEF RowBefore
  <2> QED
    BY <2>1, <2>2, <2>3
<1>10. InLine'
  BY <1>6, <1>8, <1>9 DEF InLine, OrderedOnce
<1>11. ASSUME NEW g \in stable, NEW n \in DOMAIN FileTimes[g], InRange(FileTimes[g][n])
       PROVE  \/ \E j \in DOMAIN plans : FilePartition(g) = plans[j]
              \/ \E i \in DOMAIN queue : g = queue[i]
              \/ current.file = g /\ n > last
              \/ \E k \in DOMAIN delivered' : delivered'[k] = <<g, n>>
  <2>1. \/ \E j \in DOMAIN plans : FilePartition(g) = plans[j]
        \/ \E i \in DOMAIN queue : g = queue[i]
        \/ current.file = g /\ n > position
        \/ \E k \in DOMAIN delivered : delivered[k] = <<g, n>>
    BY <1>11 DEF RowInv, NothingLost
  <2>2. CASE \E k \in DOMAIN delivered : delivered[k] = <<g, n>>
    <3>1. \A k \in DOMAIN delivered : k \in DOMAIN delivered' /\ delivered'[k] = delivered[k]
      BY <1>3
    <3> QED
      BY <2>2, <3>1
  <2>3. CASE current.file = g /\ n > position /\ ~(n > last)
    <3>1. n \in position + 1 .. last
      BY <1>1, <1>7, <2>3
    <3>2. PICK k \in 1 .. Len(o) : o[k] = <<g, n>>
      BY <1>2, <1>11, <2>3, <3>1
    <3>3. D + k \in DOMAIN delivered' /\ delivered'[D + k] = <<g, n>>
      BY <1>3, <3>2
    <3> QED
      BY <3>3
  <2> QED
    BY <2>1, <2>2, <2>3
<1>12. NothingLost'
  BY <1>1, <1>11 DEF RowInv, NothingLost, store
<1> QED
  BY <1>10, <1>12 DEF RowInv

\* Opening the next file of the queue.
LEMMA OpenRows ==
    ASSUME IInv, RowInv, OpenFile
    PROVE  RowInv'
<1> DEFINE h == Head(queue)
<1>1. /\ queue \in Seq(Files) /\ queue # <<>> /\ current = None
      /\ position' = 0 /\ queue' = Tail(queue)
      /\ current' = [id |-> opened + 1, file |-> h] /\ opened \in Nat
      /\ UNCHANGED <<store, plans, delivered, stable>>
  BY DEF IInv, Typed, TypeOK, OpenFile, FreshPosition
<1>2. Len(queue) \in Nat \ {0} /\ DOMAIN queue = 1 .. Len(queue) /\ queue[1] = h
  BY <1>1, EmptySeq, LenProperties
<1>3. /\ DOMAIN queue' = 1 .. Len(queue) - 1
      /\ \A i \in 1 .. Len(queue) - 1 : queue'[i] = queue[i + 1]
  <2>1. /\ Tail(queue) \in Seq(Files) /\ Len(Tail(queue)) = Len(queue) - 1
        /\ \A i \in 1 .. Len(Tail(queue)) : Tail(queue)[i] = queue[i + 1]
    BY <1>1, HeadTailProperties
  <2>2. DOMAIN Tail(queue) = 1 .. Len(Tail(queue))
    BY <2>1, LenProperties
  <2> QED
    BY <1>1, <2>1, <2>2
<1>4. current'.file = h /\ current' # None
  BY <1>1 DEF None
<1> HIDE DEF h
<1>5. 1 \in DOMAIN queue /\ \A i \in DOMAIN queue' : i + 1 \in DOMAIN queue /\ 1 < i + 1
  BY <1>2, <1>3
<1>6. \A i \in DOMAIN queue' : queue'[i] = queue[i + 1]
  BY <1>3
<1>7. \A i, j \in DOMAIN queue : i < j => KeyOrder(queue[i], queue[j])
  BY DEF RowInv, InLine, AheadInLine, InKeyOrder
<1>8. AheadInLine'
  <2>1. InKeyOrder(queue)'
    <3>1. ASSUME NEW i \in DOMAIN queue', NEW j \in DOMAIN queue', i < j
          PROVE  KeyOrder(queue'[i], queue'[j])
      <4>1. i + 1 < j + 1
        BY <1>2, <1>3, <3>1
      <4> QED
        BY <1>5, <1>6, <1>7, <4>1
    <3> QED
      BY <3>1 DEF InKeyOrder
  <2>2. \A i \in DOMAIN queue', j \in DOMAIN plans : FilePartition(queue'[i]) < plans[j]
    BY <1>5, <1>6 DEF RowInv, InLine, AheadInLine
  <2>3. \A i \in DOMAIN queue' : KeyOrder(h, queue'[i])
    BY <1>2, <1>5, <1>6, <1>7
  <2>4. \A j \in DOMAIN plans : FilePartition(h) < plans[j]
    BY <1>2, <1>5 DEF RowInv, InLine, AheadInLine
  <2>5. \A i, j \in DOMAIN plans : i < j => plans[i] < plans[j]
    BY DEF RowInv, InLine, AheadInLine
  <2> QED
    BY <1>1, <1>4, <2>1, <2>2, <2>3, <2>4, <2>5 DEF AheadInLine
<1>9. ASSUME NEW k \in DOMAIN delivered PROVE Passed(delivered[k])'
  <2>1. Passed(delivered[k])
    BY DEF RowInv, InLine
  <2>2. \A i \in DOMAIN queue : KeyOrder(delivered[k][1], queue[i])
    BY <2>1 DEF Passed
  <2>3. KeyOrder(delivered[k][1], h) /\ \A i \in DOMAIN queue' : KeyOrder(delivered[k][1], queue'[i])
    BY <1>2, <1>5, <1>6, <2>2
  <2> QED
    BY <1>1, <1>4, <2>1, <2>3 DEF Passed
<1>10. InLine'
  BY <1>1, <1>8, <1>9 DEF RowInv, InLine, OrderedOnce
<1>11. ASSUME NEW f \in stable, NEW n \in DOMAIN FileTimes[f], InRange(FileTimes[f][n])
       PROVE  \/ \E j \in DOMAIN plans : FilePartition(f) = plans[j]
              \/ \E i \in DOMAIN queue' : f = queue'[i]
              \/ h = f /\ n > 0
              \/ \E k \in DOMAIN delivered : delivered[k] = <<f, n>>
  <2>1. n \in Nat /\ n > 0
    <3>1. f \in Files
      BY DEF IInv, Typed, TypeOK
    <3>2. FileTimes[f] \in Seq(Nat)
      BY <3>1, StreamAssumption
    <3>3. DOMAIN FileTimes[f] = 1 .. Len(FileTimes[f])
      BY <3>2, LenProperties
    <3> QED
      BY <3>3
  <2>2. CASE \E i \in DOMAIN queue : f = queue[i]
    <3>1. PICK i \in DOMAIN queue : f = queue[i]
      BY <2>2
    <3>2. CASE i = 1
      BY <1>2, <2>1, <3>1, <3>2
    <3>3. CASE i # 1
      <4>1. i - 1 \in DOMAIN queue' /\ (i - 1) + 1 = i
        BY <1>2, <1>3, <3>3
      <4>2. queue'[i - 1] = queue[i]
        BY <1>6, <4>1
      <4> QED
        BY <3>1, <4>1, <4>2
    <3> QED
      BY <3>2, <3>3
  <2> QED
    BY <1>1, <1>11, <2>2 DEF RowInv, NothingLost
<1>12. NothingLost'
  BY <1>1, <1>4, <1>11 DEF RowInv, NothingLost, store
<1> QED
  BY <1>10, <1>12 DEF RowInv

\* Listing the next partition of the plan.
LEMMA ListRows ==
    ASSUME Unambiguous, IInv, RowInv, ListPartition
    PROVE  RowInv'
<1> DEFINE p == Head(plans)
<1>1. /\ plans \in Seq(Nat) /\ plans # <<>> /\ queue = <<>> /\ current = None
      /\ plans' = Tail(plans) /\ queue' \in ListedKeys(p)
      /\ present \subseteq Files /\ stable \subseteq present
      /\ delivered \in Seq(Row)
      /\ UNCHANGED <<store, current, position, delivered, stable>>
  BY DEF IInv, Typed, TypeOK, ListPartition
<1>2. Len(plans) \in Nat \ {0} /\ DOMAIN plans = 1 .. Len(plans) /\ plans[1] = p
  BY <1>1, EmptySeq, LenProperties
<1>3. /\ DOMAIN plans' = 1 .. Len(plans) - 1
      /\ \A j \in 1 .. Len(plans) - 1 : plans'[j] = plans[j + 1]
  <2>1. /\ Tail(plans) \in Seq(Nat) /\ Len(Tail(plans)) = Len(plans) - 1
        /\ \A j \in 1 .. Len(Tail(plans)) : Tail(plans)[j] = plans[j + 1]
    BY <1>1, HeadTailProperties
  <2>2. DOMAIN Tail(plans) = 1 .. Len(Tail(plans))
    BY <2>1, LenProperties
  <2> QED
    BY <1>1, <2>1, <2>2
<1>4. Listed(p) = {f \in present : FilePartition(f) = p}
  BY ListedExactly DEF RowInv, NothingLost
<1>5. /\ \A i \in DOMAIN queue' : queue'[i] \in Listed(p)
      /\ \A f \in Listed(p) : \E i \in DOMAIN queue' : f = queue'[i]
      /\ InKeyOrder(queue')
  BY <1>1, ListedKeysFacts
<1> HIDE DEF p
<1>6. \A i \in DOMAIN queue' : FilePartition(queue'[i]) = p
  BY <1>4, <1>5
<1>7. /\ 1 \in DOMAIN plans
      /\ \A j \in DOMAIN plans' : j + 1 \in DOMAIN plans /\ 1 < j + 1
      /\ \A j \in DOMAIN plans' : plans'[j] = plans[j + 1]
  BY <1>2, <1>3
<1>8. \A i, j \in DOMAIN plans : i < j => plans[i] < plans[j]
  BY DEF RowInv, InLine, AheadInLine
<1>9. \A j \in DOMAIN plans' : p < plans'[j]
  BY <1>2, <1>7, <1>8
<1>10. AheadInLine'
  <2>1. ASSUME NEW i \in DOMAIN plans', NEW j \in DOMAIN plans', i < j
        PROVE  plans'[i] < plans'[j]
    <3>1. i + 1 < j + 1
      BY <1>2, <1>3, <2>1
    <3> QED
      BY <1>7, <1>8, <3>1
  <2>2. \A i \in DOMAIN queue', j \in DOMAIN plans' : FilePartition(queue'[i]) < plans'[j]
    BY <1>6, <1>9
  <2>3. InKeyOrder(queue)'
    BY <1>5 DEF InKeyOrder
  <2> QED
    BY <1>1, <2>1, <2>2, <2>3 DEF AheadInLine
<1>11. ASSUME NEW k \in DOMAIN delivered PROVE Passed(delivered[k])'
  <2>1. Passed(delivered[k])
    BY DEF RowInv, InLine
  <2>2. \A j \in DOMAIN plans : FilePartition(delivered[k][1]) < plans[j]
    BY <2>1 DEF Passed
  <2>3. \A i \in DOMAIN queue' : KeyOrder(delivered[k][1], queue'[i])
    BY <1>2, <1>6, <1>7, <2>2 DEF KeyOrder
  <2>4. \A j \in DOMAIN plans' : FilePartition(delivered[k][1]) < plans'[j]
    BY <1>7, <2>2
  <2> QED
    BY <1>1, <2>1, <2>3, <2>4 DEF Passed
<1>12. InLine'
  BY <1>1, <1>10, <1>11 DEF RowInv, InLine, OrderedOnce
<1>13. ASSUME NEW f \in stable, NEW n \in DOMAIN FileTimes[f], InRange(FileTimes[f][n])
       PROVE  \/ \E j \in DOMAIN plans' : FilePartition(f) = plans'[j]
              \/ \E i \in DOMAIN queue' : f = queue'[i]
              \/ \E k \in DOMAIN delivered : delivered[k] = <<f, n>>
  <2>1. \/ \E j \in DOMAIN plans : FilePartition(f) = plans[j]
        \/ \E k \in DOMAIN delivered : delivered[k] = <<f, n>>
    BY <1>1, <1>13 DEF RowInv, NothingLost
  <2>2. ASSUME NEW j \in DOMAIN plans, FilePartition(f) = plans[j]
        PROVE  \/ \E i \in DOMAIN plans' : FilePartition(f) = plans'[i]
               \/ \E i \in DOMAIN queue' : f = queue'[i]
    <3>1. CASE j = 1
      BY <1>1, <1>2, <1>4, <1>5, <2>2, <3>1
    <3>2. CASE j # 1
      <4>1. j - 1 \in DOMAIN plans' /\ (j - 1) + 1 = j
        BY <1>2, <1>3, <3>2
      <4>2. plans'[j - 1] = plans[j]
        BY <1>7, <4>1
      <4> QED
        BY <2>2, <4>1, <4>2
    <3> QED
      BY <3>1, <3>2
  <2> QED
    BY <2>1, <2>2
<1>14. NothingLost'
  BY <1>1, <1>13 DEF RowInv, NothingLost, store
<1> QED
  BY <1>12, <1>14 DEF RowInv

\* The end of a file: all of its rows have been passed.
LEMMA EofRows ==
    ASSUME IInv, RowInv, NextEof
    PROVE  RowInv'
<1>1. /\ current # None /\ current' = None /\ current.file \in Files
      /\ position = Len(FileTimes[current.file])
      /\ UNCHANGED <<store, plans, queue, position, delivered, stable>>
  BY DEF NextEof, IInv, Single
<1>2. InLine'
  BY <1>1 DEF RowInv, InLine, AheadInLine, InKeyOrder, Passed, OrderedOnce
<1>3. \A n \in DOMAIN FileTimes[current.file] : ~(n > position)
  <2>1. FileTimes[current.file] \in Seq(Nat)
    BY <1>1, StreamAssumption
  <2>2. /\ DOMAIN FileTimes[current.file] = 1 .. Len(FileTimes[current.file])
        /\ Len(FileTimes[current.file]) \in Nat
    BY <2>1, LenProperties
  <2> QED
    BY <1>1, <2>2
<1>4. NothingLost'
  BY <1>1, <1>3 DEF RowInv, NothingLost, store
<1> QED
  BY <1>2, <1>4 DEF RowInv

\* Every step preserves the order of the rows and loses none.
LEMMA RowStep ==
    ASSUME Unambiguous, IInv, RowInv, [Next]_vars
    PROVE  RowInv'
<1> USE DEF store, position_vars
<1>1. CASE Pull
  BY <1>1, RowsUntouched DEF Pull
<1>2. CASE ConsumerStops
  BY <1>2, RowsUntouched DEF ConsumerStops
<1>3. CASE NextBatch
  BY <1>3, BatchRows
<1>4. CASE NextEof
  BY <1>4, EofRows
<1>5. CASE NextFails
  BY <1>5, RowsUntouched DEF NextFails
<1>6. CASE OpenFile
  BY <1>6, OpenRows
<1>7. CASE ListPartition
  BY <1>7, ListRows
<1>8. CASE OpenOrListFails
  BY <1>8, RowsUntouched DEF OpenOrListFails
<1>9. CASE SetCurrent
  BY <1>9, RowsUntouched DEF SetCurrent
<1>10. CASE UpdateAgent
  BY <1>10, RowsUntouched DEF UpdateAgent
<1>11. CASE UpdateExits
  BY <1>11, RowsUntouched DEF UpdateExits
<1>12. CASE Halt
  BY <1>12, RowsUntouched DEF Halt
<1>13. CASE Finalize
  BY <1>13, RowsUntouched DEF Finalize
<1>14. CASE StopAgent
  BY <1>14, RowsUntouched DEF StopAgent
<1>15. ASSUME NEW c \in Closers, CloseChecks(c)
       PROVE  RowInv'
  BY <1>15, RowsUntouched DEF CloseChecks
<1>16. ASSUME NEW c \in Closers, CloseTakes(c)
       PROVE  RowInv'
  BY <1>16, RowsUntouched DEF CloseTakes
<1>17. ASSUME NEW c \in Closers, CloseReader(c)
       PROVE  RowInv'
  BY <1>17, RowsUntouched DEF CloseReader
<1>18. ASSUME NEW c \in Closers, CloseStops(c)
       PROVE  RowInv'
  BY <1>18, RowsUntouched DEF CloseStops
<1>19. ASSUME NEW f \in Files, PublishFile(f)
       PROVE  RowInv'
  <2>1. InLine'
    BY <1>19 DEF PublishFile, RowInv, InLine, AheadInLine, InKeyOrder, Passed,
                OrderedOnce
  <2>2. NothingLost'
    BY <1>19 DEF PublishFile, RowInv, NothingLost
  <2> QED
    BY <2>1, <2>2 DEF RowInv
<1>20. ASSUME NEW f \in Files, DeleteFile(f)
       PROVE  RowInv'
  <2>1. InLine'
    BY <1>20 DEF DeleteFile, RowInv, InLine, AheadInLine, InKeyOrder, Passed,
                OrderedOnce
  <2>2. NothingLost'
    BY <1>20 DEF DeleteFile, RowInv, NothingLost
  <2> QED
    BY <2>1, <2>2 DEF RowInv
<1>21. CASE UNCHANGED vars
  BY <1>21, RowsUntouched DEF vars
<1> QED
  BY <1>1, <1>2, <1>3, <1>4, <1>5, <1>6, <1>7, <1>8, <1>9, <1>10, <1>11,
     <1>12, <1>13, <1>14, <1>15, <1>16, <1>17, <1>18, <1>19, <1>20, <1>21
  DEF Next, Enumerate, CloseStep

\* The rows of every emitted batch are in line and none is lost.
THEOREM RowInvariance ==
    ASSUME Unambiguous
    PROVE  Spec => []RowInv
<1>1. Init => RowInv
  BY InitRows
<1>2. IInv /\ RowInv /\ [Next]_vars => RowInv'
  BY RowStep
<1> QED
  BY <1>1, <1>2, Invariance, PTL DEF Spec

\* Rows come out by partition, part key and position in the part, each at
\* most once, whatever is published, deleted or closed during the
\* enumeration.
THEOREM RowsInOrderOnce ==
    ASSUME Unambiguous
    PROVE  Spec => []OrderedOnce
<1>1. RowInv => OrderedOnce
  BY DEF RowInv, InLine
<1> QED
  BY <1>1, RowInvariance, PTL

\* An enumeration that runs to its end has emitted every row of [From, Until)
\* that was in the store throughout, and no enumeration emits another.
THEOREM RangeIsExact ==
    ASSUME Unambiguous
    PROVE  Spec => []ExactRange
<1>1. IInv /\ RowInv => ExactRange
  <2> SUFFICES ASSUME IInv, RowInv PROVE ExactRange
    OBVIOUS
  <2>1. \A row \in ToSet(delivered) :
           LET ts == FileTimes[row[1]][row[2]] IN From <= ts /\ ts < Until
    BY DEF RowInv, InLine, Passed, InRange, ToSet
  <2>2. ASSUME outcome = "halted" PROVE WantedRows \subseteq ToSet(delivered)
    <3>1. current = None /\ queue = <<>> /\ plans = <<>>
      BY <2>2 DEF IInv, Ending
    <3>2. ASSUME NEW f \in stable, NEW n \in DOMAIN FileTimes[f],
                 InRange(FileTimes[f][n])
          PROVE  <<f, n>> \in ToSet(delivered)
      BY <3>1, <3>2 DEF RowInv, NothingLost, ToSet
    <3> QED
      BY <3>2 DEF WantedRows, InRange
  <2> QED
    BY <2>1, <2>2 DEF ExactRange
<1> QED
  BY <1>1, Invariance, RowInvariance, PTL
=============================================================================
