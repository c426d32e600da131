------------------------ MODULE ParquetReaderProofs ------------------------
(***************************************************************************)
(* The native reader keeps its accounts, and the rows it hands out are the *)
(* rows a scan of the whole file would have kept, for every file, every    *)
(* predicate, every batch size and every prefetch depth.  A row group that *)
(* pruning skips holds no row the predicate selects (PruningIsSound).      *)
(***************************************************************************)
EXTENDS ParquetReader, SelectionProofs, FiniteSetTheorems, TLAPS

Rows == DOMAIN file.rows \cup {Foreign}

(***************************************************************************)
(* A call that decodes holds the mutex of an open reader, so nobody closes *)
(* it under the call; a reader is active only once it has been opened; and *)
(* an enumeration that goes on has not come to its end.                    *)
(***************************************************************************)
Held ==
    /\ pc = "decoding" => lock = Consumer /\ active /\ opened = "yes"
    /\ active => opened \in {"resource", "yes"}
    /\ pc \in {"idle", "decoding"} => outcome = "none"

(* The record batch reader stays within the selected rows. *)
Within ==
    /\ position <= Len(SelectedRows)
    /\ eof => position = Len(SelectedRows)

IInv == ReaderConsistent /\ Held /\ Within

(***************************************************************************)
(* While calls may follow, what was handed out and what is queued are the  *)
(* matching ones of the rows that have been decoded: nothing between them  *)
(* is missing, and nothing is there twice.                                 *)
(***************************************************************************)
Gapless(d, q, rows, n, keep) ==
    d \o Joined(q) = Select(SubSeq(rows, 1, n), keep)

Line == Gapless(delivered, queue, SelectedRows, position, Matching)

NoGap ==
    ~changed /\ pc \in {"idle", "decoding"} /\ (active \/ opened = "no")
        => Line

RowInv == IInv /\ NoGap /\ DeliversAnswer
-----------------------------------------------------------------------------
(***************************************************************************)
(* The rows of a group are finitely many, and its nulls are some of them.  *)
(***************************************************************************)
LEMMA GroupFinite ==
    ASSUME NEW f, IsFile(f), NEW g
    PROVE  /\ IsFiniteSet(RowsOf(f, g))
           /\ NullsOf(f, g) \in SUBSET RowsOf(f, g)
  <1>1. IsFiniteSet(1 .. Len(f.rows))
    BY FS_Interval DEF IsFile
  <1>2. RowsOf(f, g) \in SUBSET (1 .. Len(f.rows))
    BY DEF IsFile, RowsOf
  <1>3. IsFiniteSet(RowsOf(f, g))
    BY <1>1, <1>2, FS_Subset
  <1>4. QED
    BY <1>3 DEF NullsOf

(***************************************************************************)
(* integer_statistics_skip excludes no value between the bounds.           *)
(***************************************************************************)
LEMMA SkipExcludes ==
    ASSUME NEW s \in Statistics, NEW v \in Int, NEW lit \in Int,
           NEW op \in ComparisonOperators,
           s.min # None => s.min <= v,
           s.max # None => v <= s.max,
           IntegerStatisticsSkip(s, lit, op)
    PROVE  ~Compare(v, lit, op)
  <1>1. /\ s.min \in Int \cup {None} /\ s.max \in Int \cup {None}
        /\ Bound(s.min, s.minExact) => s.min \in Int /\ s.min <= v
        /\ Bound(s.max, s.maxExact) => s.max \in Int /\ v <= s.max
    BY DEF Statistics, Bound
  <1>2. CASE op = "gt"
    <2>1. Bound(s.max, s.maxExact) /\ s.max <= lit
      BY <1>2 DEF IntegerStatisticsSkip
    <2>2. QED
      BY <1>1, <1>2, <2>1 DEF Compare
  <1>3. CASE op = "gte"
    <2>1. Bound(s.max, s.maxExact) /\ s.max < lit
      BY <1>3 DEF IntegerStatisticsSkip
    <2>2. QED
      BY <1>1, <1>3, <2>1 DEF Compare
  <1>4. CASE op = "lt"
    <2>1. Bound(s.min, s.minExact) /\ s.min >= lit
      BY <1>4 DEF IntegerStatisticsSkip
    <2>2. QED
      BY <1>1, <1>4, <2>1 DEF Compare
  <1>5. CASE op = "lte"
    <2>1. Bound(s.min, s.minExact) /\ s.min > lit
      BY <1>5 DEF IntegerStatisticsSkip
    <2>2. QED
      BY <1>1, <1>5, <2>1 DEF Compare
  <1>6. CASE op = "eq"
    <2>1. \/ Bound(s.min, s.minExact) /\ s.min > lit
          \/ Bound(s.max, s.maxExact) /\ s.max < lit
      BY <1>6 DEF IntegerStatisticsSkip
    <2>2. QED
      BY <1>1, <1>6, <2>1 DEF Compare
  <1>7. QED
    BY <1>2, <1>3, <1>4, <1>5, <1>6 DEF ComparisonOperators

(***************************************************************************)
(* No row of a skipped row group matches the predicate (select_row_groups  *)
(* against predicate_mask), whichever statistics are present and exact, as *)
(* long as they describe the group.                                        *)
(***************************************************************************)
THEOREM PruningIsSound ==
    ASSUME NEW f, IsFile(f), WellDescribed(f),
           NEW p, IsPredicate(p),
           NEW g \in DOMAIN f.stats, SkipGroup(f, g, p)
    PROVE  \A i \in RowsOf(f, g) : ~Matches(f.rows[i], p)
  <1> DEFINE s == f.stats[g]
  <1>1. /\ s # None
        /\ s \in Statistics
        /\ Describes(s, f, g)
        /\ f.kind = "signed"
    BY DEF SkipGroup, IsFile, WellDescribed, Prunable
  <1> SUFFICES ASSUME NEW i \in RowsOf(f, g), f.rows[i] # None
               PROVE  ~Compare(f.rows[i], p.literal, p.operator)
    BY DEF Matches
  <1>2. f.rows[i] \in Int
    BY DEF RowsOf, IsFile
  <1>3. CASE s.nullCount = Cardinality(RowsOf(f, g))
    <2>1. Cardinality(RowsOf(f, g)) \in Nat
      BY GroupFinite, FS_CardinalityType
    <2>2. Cardinality(NullsOf(f, g)) = Cardinality(RowsOf(f, g))
      BY <1>1, <1>3, <2>1, NoneAssumption DEF Describes
    <2>3. NullsOf(f, g) = RowsOf(f, g)
      BY <2>2, GroupFinite, FS_Subset
    <2>4. QED
      BY <2>3 DEF NullsOf
  <1>4. CASE IntegerStatisticsSkip(s, p.literal, p.operator)
    <2>1. /\ s.min # None => s.min <= f.rows[i]
          /\ s.max # None => f.rows[i] <= s.max
      BY <1>1 DEF Describes, Logical
    <2>2. QED
      BY <1>1, <1>2, <1>4, <2>1, SkipExcludes DEF IsPredicate
  <1>5. QED
    BY <1>3, <1>4 DEF SkipGroup

(***************************************************************************)
(* The matching rows of a file are all in the row groups that are read.    *)
(***************************************************************************)
THEOREM MatchesAreRead ==
    ASSUME NEW f, IsFile(f), WellDescribed(f),
           NEW p, IsPredicate(p),
           NEW i \in DOMAIN f.rows,
           Matches(f.rows[i], p)
    PROVE  f.group[i] \in SelectedRowGroups(f, p)
  <1>1. i \in RowsOf(f, f.group[i])
    BY DEF RowsOf
  <1>2. f.group[i] \in DOMAIN f.stats
    BY DEF IsFile
  <1>3. ~SkipGroup(f, f.group[i], p)
    BY <1>1, <1>2, PruningIsSound
  <1>4. QED
    BY <1>2, <1>3 DEF SelectedRowGroups
-----------------------------------------------------------------------------
\* The rows of a file, and those of its selected row groups.
LEMMA FileFacts ==
    ASSUME file \in Files
    PROVE  /\ Len(file.rows) \in Nat /\ DOMAIN file.rows = 1 .. Len(file.rows)
           /\ RowNumbers \in Seq(DOMAIN file.rows)
           /\ Len(RowNumbers) = Len(file.rows)
           /\ \A i \in 1 .. Len(file.rows) : RowNumbers[i] = i
           /\ SelectedRows \in Seq(DOMAIN file.rows)
           /\ Len(SelectedRows) \in Nat /\ Len(SelectedRows) <= Len(file.rows)
<1> DEFINE N == Len(file.rows)
           D == DOMAIN file.rows
           R == RowNumbers
<1>1. file.rows \in Seq(Int \cup {None})
  BY FileAssumption DEF IsFile
<1>2. N \in Nat /\ D = 1 .. N
  BY <1>1, LenProperties
<1> HIDE DEF N, D
<1>3. R \in [1 .. N -> D]
  BY <1>2 DEF RowNumbers, D
<1>4. \A i \in 1 .. N : R[i] = i
  BY <1>2 DEF RowNumbers, D
<1> HIDE DEF R
<1>5. R \in Seq(D)
  BY <1>2, <1>3
<1>6. Len(R) = N
  BY <1>2, <1>3, <1>5, LenProperties
<1>7. \A keep : /\ Select(R, keep) \in Seq(D)
                /\ Len(Select(R, keep)) \in Nat
                /\ Len(Select(R, keep)) <= N
  BY <1>5, <1>6, SelectProperties, SelectShorter, LenProperties
<1>8. \E keep : SelectedRows = Select(R, keep)
  BY DEF SelectedRows, R
<1> QED
  BY <1>2, <1>4, <1>5, <1>6, <1>7, <1>8 DEF N, D, R

\* Scanning the selected row groups finds every row asked for: pruning loses
\* none, and without a predicate no group is skipped.
LEMMA AnswerIsSelected ==
    ASSUME file \in Files, predicate \in Predicates
    PROVE  Answer = Select(SelectedRows, Matching)
<1> DEFINE D == DOMAIN file.rows
           groups == SelectedRowGroups(file, predicate)
           read == {i \in D : file.group[i] \in groups}
           R == RowNumbers
           M == Matching
<1>1. /\ IsFile(file) /\ WellDescribed(file)
      /\ predicate = None \/ IsPredicate(predicate)
  BY FileAssumption
<1>2. ASSUME NEW i \in M PROVE i \in read
  <2>1. i \in D /\ Selects(predicate, file.rows[i])
    BY DEF Matching
  <2>2. file.group[i] \in DOMAIN file.stats
    BY <1>1, <2>1 DEF IsFile
  <2>3. CASE predicate = None
    <3>1. ~SkipGroup(file, file.group[i], predicate)
      BY <2>3 DEF SkipGroup
    <3> QED
      BY <2>1, <2>2, <3>1 DEF SelectedRowGroups
  <2>4. CASE predicate # None
    <3>1. IsPredicate(predicate) /\ Matches(file.rows[i], predicate)
      BY <1>1, <2>1, <2>4 DEF Selects
    <3>2. file.group[i] \in SelectedRowGroups(file, predicate)
      BY <1>1, <2>1, <3>1, MatchesAreRead
    <3> QED
      BY <2>1, <3>2
  <2> QED
    BY <2>3, <2>4
<1>3. SelectedRows = Select(R, read)
  BY DEF SelectedRows
<1>4. R \in Seq(D)
  BY FileFacts
<1>5. Answer = Select(R, M)
  BY DEF Answer
<1> HIDE DEF R, read, M, D
<1>6. read \cap M = M
  BY <1>2
<1>7. Select(Select(R, read), M) = Select(R, read \cap M)
  BY <1>4, SelectTwice
<1> QED
  BY <1>3, <1>5, <1>6, <1>7 DEF M

\* The file of a reader never changes, so neither do the rows it looks for.
LEMMA SameRows ==
    ASSUME file' = file, predicate' = predicate
    PROVE  /\ Rows' = Rows /\ RowNumbers' = RowNumbers
           /\ SelectedRows' = SelectedRows
           /\ Matching' = Matching /\ Answer' = Answer
  BY DEF Rows, RowNumbers, SelectedRows, Matching, Answer, SelectedRowGroups,
         SkipGroup, Prunable, RowsOf, Selects

\* The next batch is the next stretch of the selected rows, and not empty.
LEMMA BatchFacts ==
    ASSUME file \in Files, position \in Nat, position < Len(SelectedRows)
    PROVE  /\ NextBatch \in Seq(DOMAIN file.rows)
           /\ Len(NextBatch) \in Nat \ {0}
           /\ position + Len(NextBatch) <= Len(SelectedRows)
           /\ NextBatch = SubSeq(SelectedRows, position + 1,
                                 position + Len(NextBatch))
<1> DEFINE R == SelectedRows
           D == DOMAIN file.rows
           m == position + 1
           n == IF position + BatchSize < Len(R) THEN position + BatchSize
                                                 ELSE Len(R)
           b == NextBatch
<1>1. R \in Seq(D) /\ Len(R) \in Nat
  BY FileFacts
<1>2. b = SubSeq(R, m, n)
  BY DEF NextBatch
<1>3. position \in Nat /\ position < Len(R)
  OBVIOUS
<1>4. BatchSize \in Nat \ {0}
  BY SizeAssumption
<1> HIDE DEF R, D, b
<1>5. m \in Int /\ n \in Int /\ m <= n /\ n <= Len(R) /\ 1 <= m
  BY <1>1, <1>3, <1>4
<1>6. n - m + 1 \in Nat \ {0} /\ position + (n - m + 1) = n
  BY <1>1, <1>3, <1>4
<1> HIDE DEF n
<1>7. \A i \in m .. n : R[i] \in D
  <2>1. \A i \in m .. n : i \in 1 .. Len(R)
    BY <1>1, <1>5
  <2> QED
    BY <1>1, <2>1, ElementOfSeq
<1> HIDE DEF m
<1>8. /\ SubSeq(R, m, n) \in Seq(D)
      /\ Len(SubSeq(R, m, n)) = IF m <= n THEN n - m + 1 ELSE 0
  BY <1>5, <1>7, SubSeqProperties
<1>9. b \in Seq(D) /\ Len(b) = n - m + 1
  BY <1>2, <1>5, <1>8
<1>10. Len(b) \in Nat \ {0} /\ position + Len(b) = n
  BY <1>6, <1>9
<1> QED
  BY <1>2, <1>5, <1>9, <1>10 DEF R, D, b, m

\* What the predicate leaves of a batch, whichever object it comes from.
LEMMA AppliedType ==
    ASSUME file \in Files, NEW b \in Seq(Rows)
    PROVE  ApplyPredicate(b) \in Seq(Rows)
  BY SelectProperties DEF ApplyPredicate

LEMMA AppliedIsMatching ==
    ASSUME file \in Files, NEW b \in Seq(DOMAIN file.rows)
    PROVE  ApplyPredicate(b) = Select(b, Matching)
<1>1. \A n \in 1 .. Len(b) : b[n] \in DOMAIN file.rows
  BY ElementOfSeq
<1>2. Foreign \notin DOMAIN file.rows
  BY FileFacts, SizeAssumption
<1>3. \A n \in 1 .. Len(b) :
         b[n] \in Matching \cup {Foreign} <=> b[n] \in Matching
  BY <1>1, <1>2
<1> QED
  BY <1>3, SelectAgree DEF ApplyPredicate

\* No step changes the file or the predicate of the reader.
LEMMA FileStays ==
    ASSUME [Next]_vars
    PROVE  file' = file /\ predicate' = predicate
<1>1. CASE OpenStore
  BY <1>1 DEF OpenStore, fileVars
<1>2. CASE OpenFails
  BY <1>2 DEF OpenFails, fileVars
<1>3. CASE MonitorOwner
  BY <1>3 DEF MonitorOwner, fileVars
<1>4. CASE MonitorFails
  BY <1>4 DEF MonitorFails, fileVars
<1>5. CASE BeginNext
  BY <1>5 DEF BeginNext, fileVars
<1>6. CASE DecodeBatch
  BY <1>6 DEF DecodeBatch, fileVars
<1>7. CASE DecodeFails
  BY <1>7 DEF DecodeFails, fileVars
<1>8. CASE ReachEnd
  BY <1>8 DEF ReachEnd, fileVars
<1>9. CASE ReplyBatch
  BY <1>9 DEF ReplyBatch, fileVars
<1>10. CASE ReplyEof
  BY <1>10 DEF ReplyEof, fileVars
<1>11. CASE Panic
  BY <1>11 DEF Panic, fileVars
<1>12. CASE ConsumerHalts
  BY <1>12 DEF ConsumerHalts, fileVars
<1>13. CASE Finalize
  BY <1>13 DEF Finalize, fileVars
<1>14. ASSUME NEW c \in Closers, CloseCalled(c)
       PROVE  file' = file /\ predicate' = predicate
  BY <1>14 DEF CloseCalled, fileVars
<1>15. ASSUME NEW c \in Closers, CloseReturns(c)
       PROVE  file' = file /\ predicate' = predicate
  BY <1>15 DEF CloseReturns, fileVars
<1>16. CASE OwnerExits
  BY <1>16 DEF OwnerExits, fileVars
<1>17. CASE DownCancels
  BY <1>17 DEF DownCancels, fileVars
<1>18. CASE DownEnds
  BY <1>18 DEF DownEnds, fileVars
<1>19. CASE DropReader
  BY <1>19 DEF DropReader, fileVars
<1>20. CASE ReplaceObject
  BY <1>20 DEF ReplaceObject, fileVars
<1>21. CASE UNCHANGED vars
  BY <1>21 DEF vars
<1> QED
  BY <1>1, <1>2, <1>3, <1>4, <1>5, <1>6, <1>7, <1>8, <1>9, <1>10, <1>11,
     <1>12, <1>13, <1>14, <1>15, <1>16, <1>17, <1>18, <1>19, <1>20, <1>21
  DEF Next
-----------------------------------------------------------------------------
\* Closing, whoever does it, uncounts an active reader once and empties its
\* queue, and leaves an inactive one alone.
LEMMA Closing ==
    ASSUME IInv, CloseState \/ LockAndClose
    PROVE  /\ active' \in BOOLEAN /\ cancelled' \in BOOLEAN
           /\ active' => active
           /\ counter' \in Nat /\ counter' = IF active' THEN 1 ELSE 0
           /\ queue' \in Seq(Seq(DOMAIN file.rows \cup {Foreign}))
           /\ Len(queue') <= PrefetchDepth
           /\ ~active' => queue' = <<>>
           /\ buffered' \in Nat /\ buffered' = Len(Joined(queue'))
<1> USE DEF IInv, ReaderConsistent, TypeOK, CounterExact, BufferedExact
<1>1. CASE UNCHANGED <<cancelled, queue, buffered, active, counter>>
  BY <1>1
<1>2. CASE /\ active
           /\ cancelled' = TRUE /\ queue' = <<>> /\ buffered' = 0
           /\ active' = FALSE /\ counter' = counter - 1
  <2>1. Len(queue') = 0 /\ Len(Joined(queue')) = 0
    BY <1>2, JoinedEmpty
  <2>2. queue' \in Seq(Seq(DOMAIN file.rows \cup {Foreign}))
    BY <1>2, EmptySeq
  <2>3. 0 <= PrefetchDepth
    BY SizeAssumption
  <2>4. counter' = 0
    BY <1>2
  <2>5. buffered' \in Nat /\ buffered' = Len(Joined(queue'))
    <3>1. buffered' = 0
      BY <1>2
    <3> QED
      BY <2>1, <3>1
  <2>6. Len(queue') <= PrefetchDepth
    BY <2>1, <2>3
  <2> HIDE DEF IInv, ReaderConsistent, TypeOK, CounterExact, BufferedExact
  <2> QED
    BY <1>2, <2>2, <2>4, <2>5, <2>6
<1> QED
  BY <1>1, <1>2 DEF CloseState, LockAndClose

\* Every step keeps the accounts of the reader and what they rest on: a call
\* that decodes holds the mutex, so no close comes between its steps.
LEMMA Preservation == IInv /\ [Next]_vars => IInv'
<1> SUFFICES ASSUME IInv, [Next]_vars PROVE IInv'
  OBVIOUS
<1> USE DEF IInv, ReaderConsistent, TypeOK, CounterExact, BufferedExact, Held,
            Within, LockFree, fileVars, bufferVars, callVars
<1>r. /\ file' = file /\ predicate' = predicate
      /\ Rows' = Rows /\ SelectedRows' = SelectedRows
  BY FileStays, SameRows
<1>f. Len(SelectedRows) \in Nat /\ Len(SelectedRows) <= Len(file.rows)
  BY FileFacts
<1>e. /\ Joined(<<>>) = <<>> /\ Len(<<>>) = 0 /\ PrefetchDepth \in Nat
      /\ <<>> \in Seq(Seq(DOMAIN file.rows \cup {Foreign})) /\ Consumer # None
  BY JoinedEmpty, EmptySeq, SizeAssumption
<1>1. CASE OpenStore
  BY <1>1, <1>r, <1>e DEF OpenStore
<1>2. CASE OpenFails
  BY <1>2, <1>r, <1>e DEF OpenFails
<1>3. CASE MonitorOwner
  BY <1>3, <1>r, <1>e DEF MonitorOwner
<1>4. CASE MonitorFails
  <2>1. ~active'
    BY <1>4 DEF MonitorFails, CloseState
  <2> QED
    BY <1>4, <1>r, <1>e, <2>1, Closing DEF MonitorFails
<1>5. CASE BeginNext
  BY <1>5, <1>r, <1>e DEF BeginNext
<1>6. CASE DecodeBatch
  <2>0. /\ position \in Nat /\ position < Len(SelectedRows) /\ file \in Files
        /\ queue \in Seq(Seq(Rows)) /\ buffered \in Nat
        /\ buffered = Len(Joined(queue)) /\ Len(queue) < PrefetchDepth
    BY <1>6
    DEF DecodeBatch, WantsBatch, IInv, ReaderConsistent, TypeOK, CounterExact,
        BufferedExact, Held, Within, Rows
  <2>1. /\ NextBatch \in Seq(DOMAIN file.rows) /\ NextBatch \in Seq(Rows)
        /\ Len(NextBatch) \in Nat \ {0}
        /\ position + Len(NextBatch) <= Len(SelectedRows)
    <3>1. DOMAIN file.rows \subseteq Rows
      BY DEF Rows
    <3> QED
      BY <2>0, <3>1, BatchFacts, SeqMonotonic
  <2>2. position' = position + Len(NextBatch)
    BY <1>6 DEF DecodeBatch
  <2>3. PICK b \in Seq(Rows) : Buffer(b)
    <3>1. CASE Buffer(ApplyPredicate(NextBatch))
      BY <2>0, <2>1, <3>1, AppliedType
    <3>2. CASE Buffer(ApplyPredicate([i \in DOMAIN NextBatch |-> Foreign]))
      <4> DEFINE N == Len(NextBatch)
                 f == [i \in DOMAIN NextBatch |-> Foreign]
      <4>1. f \in Seq(Rows)
        <5>1. DOMAIN NextBatch = 1 .. N /\ N \in Nat
          BY <2>1, LenProperties
        <5>2. f \in [1 .. N -> Rows]
          BY <5>1 DEF Rows
        <5> HIDE DEF f, N
        <5> QED
          BY <5>1, <5>2
      <4> HIDE DEF f
      <4>2. ApplyPredicate(f) \in Seq(Rows)
        BY <2>0, <4>1, AppliedType
      <4> QED
        BY <3>2, <4>2 DEF f
    <3> QED
      BY <1>6, <3>1, <3>2 DEF DecodeBatch
  <2>4. /\ queue' \in Seq(Seq(Rows)) /\ Len(queue') <= PrefetchDepth
        /\ buffered' \in Nat /\ buffered' = Len(Joined(queue'))
    <3>0. PrefetchDepth \in Nat
      BY SizeAssumption
    <3>1. CASE b = <<>>
      <4>1. queue' = queue /\ buffered' = buffered
        BY <2>3, <3>1 DEF Buffer
      <4>2. Len(queue) \in Nat
        BY <2>0, LenProperties
      <4> QED
        BY <2>0, <3>0, <4>1, <4>2
    <3>2. CASE b # <<>>
      <4>1. queue' = Append(queue, b) /\ buffered' = buffered + Len(b)
        BY <2>3, <3>2 DEF Buffer
      <4>2. /\ Append(queue, b) \in Seq(Seq(Rows))
            /\ Len(Append(queue, b)) = Len(queue) + 1 /\ Len(queue) \in Nat
        BY <2>0, AppendProperties, LenProperties
      <4>3. Joined(Append(queue, b)) = Cat(Joined(queue), b)
        BY <2>0, JoinedAppend DEF JoinsLast
      <4>4. Joined(queue) \in Seq(Rows) /\ Len(b) \in Nat
        BY <2>0, JoinedType, LenProperties
      <4>5. Len(Cat(Joined(queue), b)) = Len(Joined(queue)) + Len(b)
        BY <4>4, CatProperties
      <4>6. Len(queue) + 1 <= PrefetchDepth
        BY <2>0, <3>0, <4>2
      <4> QED
        BY <2>0, <4>1, <4>2, <4>3, <4>4, <4>5, <4>6
    <3> QED
      BY <3>1, <3>2
  <2>5. /\ position' \in Nat /\ position' <= Len(SelectedRows)
        /\ position' \in 0 .. Len(file.rows)
    BY <2>0, <2>1, <2>2, <1>f
  <2>6. TypeOK'
    <3>1. queue' \in Seq(Seq(DOMAIN file'.rows \cup {Foreign}))
      BY <2>4, <1>r DEF Rows
    <3> QED
      BY <1>6, <1>r, <2>4, <2>5, <3>1
      DEF DecodeBatch, IInv, ReaderConsistent, TypeOK, CounterExact,
          BufferedExact, Held, Within
  <2>7. CounterExact' /\ BufferedExact' /\ Held' /\ Within'
    BY <1>6, <1>r, <2>4, <2>5
    DEF DecodeBatch, WantsBatch, IInv, ReaderConsistent, TypeOK, CounterExact,
        BufferedExact, Held, Within
  <2> QED
    BY <2>6, <2>7 DEF IInv, ReaderConsistent
<1>7. CASE DecodeFails
  BY <1>7, <1>r, <1>e DEF DecodeFails
<1>8. CASE ReachEnd
  BY <1>8, <1>r, <1>e DEF ReachEnd
<1>9. CASE ReplyBatch
  <2> DEFINE h == Head(queue)
             t == Tail(queue)
  <2>0. /\ queue \in Seq(Seq(Rows)) /\ queue # <<>> /\ buffered \in Nat
        /\ buffered = Len(Joined(queue)) /\ Len(queue) <= PrefetchDepth
        /\ delivered \in Seq(Rows)
        /\ queue' = t /\ buffered' = buffered - Len(h)
        /\ delivered' = delivered \o h \/ delivered' = delivered
    BY <1>9
    DEF ReplyBatch, callVars, IInv, ReaderConsistent, TypeOK, CounterExact,
        BufferedExact, Held, Within, Rows
  <2>1. /\ h \in Seq(Rows) /\ t \in Seq(Seq(Rows)) /\ Len(t) = Len(queue) - 1
        /\ Len(queue) \in Nat \ {0} /\ Len(h) \in Nat
    BY <2>0, HeadTailProperties, EmptySeq, LenProperties
  <2>2. Joined(queue) = Cat(h, Joined(t))
    BY <2>0, JoinedTail DEF JoinsFirst
  <2> HIDE DEF h, t
  <2>3. Joined(t) \in Seq(Rows) /\ Len(Joined(t)) \in Nat
    BY <2>1, JoinedType, LenProperties
  <2>4. Len(Joined(queue)) = Len(h) + Len(Joined(t))
    BY <2>1, <2>2, <2>3, CatProperties
  <2>5. buffered' \in Nat /\ buffered' = Len(Joined(queue'))
    BY <2>0, <2>1, <2>3, <2>4
  <2>6. Len(queue') <= PrefetchDepth
    <3>1. PrefetchDepth \in Nat
      BY SizeAssumption
    <3> QED
      BY <2>0, <2>1, <3>1
  <2>7. delivered' \in Seq(Rows)
    <3>1. Cat(delivered, h) \in Seq(Rows)
      BY <2>0, <2>1, CatProperties
    <3> QED
      BY <2>0, <3>1 DEF Cat
  <2>8. TypeOK'
    <3>1. /\ queue' \in Seq(Seq(DOMAIN file'.rows \cup {Foreign}))
          /\ delivered' \in Seq(DOMAIN file'.rows \cup {Foreign})
      BY <1>r, <2>0, <2>1, <2>7 DEF Rows
    <3> QED
      BY <1>9, <1>r, <2>5, <3>1
      DEF ReplyBatch, IInv, ReaderConsistent, TypeOK, CounterExact,
          BufferedExact, Held, Within
  <2>9. CounterExact' /\ BufferedExact' /\ Held' /\ Within'
    BY <1>9, <1>r, <2>5, <2>6
    DEF ReplyBatch, IInv, ReaderConsistent, TypeOK, CounterExact,
        BufferedExact, Held, Within
  <2> QED
    BY <2>8, <2>9 DEF IInv, ReaderConsistent
<1>10. CASE ReplyEof
  BY <1>10, <1>r, <1>e DEF ReplyEof
<1>11. CASE Panic
  BY <1>11, <1>r, <1>e DEF Panic
<1>12. CASE ConsumerHalts
  BY <1>12, <1>r, <1>e DEF ConsumerHalts
<1>13. CASE Finalize
  BY <1>13, <1>r, <1>e, Closing DEF Finalize
<1>14. ASSUME NEW c \in Closers, CloseCalled(c)
       PROVE  IInv'
  BY <1>14, <1>r, <1>e DEF CloseCalled
<1>15. ASSUME NEW c \in Closers, CloseReturns(c)
       PROVE  IInv'
  BY <1>15, <1>r, <1>e, Closing DEF CloseReturns
<1>16. CASE OwnerExits
  BY <1>16, <1>r, <1>e DEF OwnerExits
<1>17. CASE DownCancels
  BY <1>17, <1>r, <1>e DEF DownCancels
<1>18. CASE DownEnds
  BY <1>18, <1>r, <1>e, Closing DEF DownEnds, DownCloses
<1>19. CASE DropReader
  BY <1>19, <1>r, <1>e, Closing DEF DropReader
<1>20. CASE ReplaceObject
  BY <1>20, <1>r, <1>e DEF ReplaceObject
<1>21. CASE UNCHANGED vars
  BY <1>21, <1>r DEF vars
<1> QED
  BY <1>1, <1>2, <1>3, <1>4, <1>5, <1>6, <1>7, <1>8, <1>9, <1>10, <1>11,
     <1>12, <1>13, <1>14, <1>15, <1>16, <1>17, <1>18, <1>19, <1>20, <1>21
  DEF Next

\* The reader starts closed and empty.
LEMMA InitIInv == Init => IInv
<1> SUFFICES ASSUME Init PROVE IInv
  OBVIOUS
<1>1. /\ Joined(<<>>) = <<>> /\ Len(<<>>) = 0 /\ PrefetchDepth \in Nat
      /\ <<>> \in Seq(Seq(DOMAIN file.rows \cup {Foreign}))
      /\ <<>> \in Seq(DOMAIN file.rows \cup {Foreign})
  BY JoinedEmpty, EmptySeq, SizeAssumption
<1>2. file \in Files
  BY DEF Init
<1>3. /\ Len(SelectedRows) \in Nat /\ Len(file.rows) \in Nat
      /\ 0 <= Len(SelectedRows) /\ 0 \in 0 .. Len(file.rows)
  BY <1>2, FileFacts
<1>4. TypeOK
  BY <1>1, <1>2, <1>3 DEF Init, TypeOK
<1>5. CounterExact /\ BufferedExact /\ Held /\ Within
  BY <1>1, <1>3 DEF Init, CounterExact, BufferedExact, Held, Within
<1> QED
  BY <1>4, <1>5 DEF IInv, ReaderConsistent

\* What the reader reports of itself agrees with its state at every moment,
\* whichever of the finalizer, close/1, the owner's monitor and the collector
\* closes it: one active reader is counted once, and the buffered bytes are
\* those of the queue (ReaderState).
THEOREM ReadersAreConsistent == Spec => []ReaderConsistent
<1> QED
  BY InitIInv, Preservation, PTL DEF Spec, IInv
-----------------------------------------------------------------------------
\* Closing does not touch the queue of a reader that stays active.
LEMMA ClosingKeeps ==
    ASSUME CloseState \/ LockAndClose
    PROVE  /\ active' => active
           /\ active' \/ ~active => queue' = queue
  BY DEF CloseState, LockAndClose

\* Decoding moves on from n rows to m: the matching ones so far grow by k.
Extends(rows, n, m, keep, k) ==
    Select(SubSeq(rows, 1, m), keep) = Cat(Select(SubSeq(rows, 1, n), keep), k)

LEMMA ExtendsBy ==
    ASSUME NEW S, NEW rows \in Seq(S), NEW n \in Nat, NEW m \in Nat,
           n <= m, m <= Len(rows), NEW keep,
           NEW b, b = SubSeq(rows, n + 1, m)
    PROVE  /\ Extends(rows, n, m, keep, Select(b, keep))
           /\ SubSeq(rows, 1, n) \in Seq(S) /\ b \in Seq(S)
<1> DEFINE p == SubSeq(rows, 1, n)
<1>1. Len(rows) \in Nat
  BY LenProperties
<1>2. p \in Seq(S) /\ b \in Seq(S)
  <2>1. /\ \A i \in 1 .. n : rows[i] \in S
        /\ \A i \in n + 1 .. m : rows[i] \in S
    <3>1. /\ \A i \in 1 .. n : i \in 1 .. Len(rows)
          /\ \A i \in n + 1 .. m : i \in 1 .. Len(rows)
      BY <1>1
    <3> QED
      BY <3>1, ElementOfSeq
  <2>2. 1 \in Int /\ n \in Int /\ n + 1 \in Int /\ m \in Int
    OBVIOUS
  <2>3. SubSeq(rows, 1, n) \in Seq(S) /\ SubSeq(rows, n + 1, m) \in Seq(S)
    BY <2>1, <2>2, SubSeqProperties
  <2> QED
    BY <2>3
<1>3. Cat(p, b) = SubSeq(rows, 1, m)
  <2>1. /\ 1 \in 1 .. Len(rows) + 1 /\ n \in 1 - 1 .. Len(rows)
        /\ m \in n .. Len(rows)
    BY <1>1
  <2>2. SubSeq(rows, 1, n) \o SubSeq(rows, n + 1, m) = SubSeq(rows, 1, m)
    BY <2>1, ConcatAdjacentSubSeq
  <2> QED
    BY <2>2 DEF Cat
<1> HIDE DEF p
<1>4. Select(Cat(p, b), keep) = Cat(Select(p, keep), Select(b, keep))
  <2>1. \A x, y \in Seq(S) :
           Select(x \o y, keep) = Select(x, keep) \o Select(y, keep)
    BY SelectConcat
  <2> QED
    BY <1>2, <2>1 DEF Cat
<1> QED
  BY <1>2, <1>3, <1>4 DEF Extends, p

\* The matching rows of the first n selected ones begin the answer.
LEMMA AnswerExtends ==
    ASSUME file \in Files, predicate \in Predicates,
           position \in Nat, position <= Len(SelectedRows)
    PROVE  \E rest \in Seq(Rows) :
              Answer =
                 Cat(Select(SubSeq(SelectedRows, 1, position), Matching), rest)
<1> DEFINE R == SelectedRows
           N == Len(SelectedRows)
           b == SubSeq(R, position + 1, N)
           k == Select(b, Matching)
<1>1. R \in Seq(DOMAIN file.rows) /\ N \in Nat
  BY FileFacts
<1>2. position \in Nat /\ position <= N /\ N <= Len(R)
  BY <1>1
<1>3. Answer = Select(SubSeq(R, 1, N), Matching)
  BY <1>1, AnswerIsSelected, SubSeqFull
<1> HIDE DEF R, N
<1>4. Extends(R, position, N, Matching, k) /\ b \in Seq(DOMAIN file.rows)
  BY <1>1, <1>2, ExtendsBy
<1> HIDE DEF b
<1>5. k \in Seq(DOMAIN file.rows)
  BY <1>4, SelectProperties
<1>6. k \in Seq(Rows)
  <2>1. DOMAIN file.rows \subseteq Rows
    BY DEF Rows
  <2> QED
    BY <1>5, <2>1, SeqMonotonic
<1>7. Answer = Cat(Select(SubSeq(R, 1, position), Matching), k)
  BY <1>3, <1>4 DEF Extends
<1> QED
  BY <1>6, <1>7 DEF R

\* Every step keeps the rows in line: what is decoded is appended to what was
\* before it, and what is handed out is taken from the front.
LEMMA RowPreservation == RowInv /\ [Next]_vars => RowInv'
<1> SUFFICES ASSUME RowInv, [Next]_vars PROVE NoGap' /\ DeliversAnswer'
  BY Preservation DEF RowInv
<1> DEFINE D == DOMAIN file.rows
<1>i. IInv /\ NoGap /\ DeliversAnswer /\ Held /\ Within
  BY DEF RowInv, IInv
<1>t. /\ file \in Files /\ predicate \in Predicates /\ position \in Nat
      /\ position <= Len(SelectedRows)
      /\ queue \in Seq(Seq(Rows)) /\ delivered \in Seq(Rows)
  BY <1>i DEF IInv, ReaderConsistent, TypeOK, Within, Rows
<1>r. /\ file' = file /\ predicate' = predicate
      /\ SelectedRows' = SelectedRows /\ Matching' = Matching
      /\ Answer' = Answer
  BY FileStays, SameRows
<1>f. SelectedRows \in Seq(D) /\ Len(SelectedRows) \in Nat
  BY <1>t, FileFacts
<1>d. D \subseteq Rows
  BY DEF Rows
<1>j. Joined(queue) \in Seq(Rows)
  BY <1>t, JoinedType
<1> HIDE DEF D
<1> USE <1>i DEF LockFree, fileVars, bufferVars, callVars, Held
<1>1. CASE OpenStore
  BY <1>1, <1>r DEF OpenStore, NoGap, Line, DeliversAnswer
<1>2. CASE OpenFails
  BY <1>2, <1>r DEF OpenFails, NoGap, Line, DeliversAnswer
<1>3. CASE MonitorOwner
  BY <1>3, <1>r DEF MonitorOwner, NoGap, Line, DeliversAnswer
<1>4. CASE MonitorFails
  BY <1>4, <1>r, ClosingKeeps DEF MonitorFails, NoGap, Line, DeliversAnswer
<1>5. CASE BeginNext
  BY <1>5, <1>r DEF BeginNext, NoGap, Line, DeliversAnswer
<1>6. CASE DecodeBatch
  <2>0. /\ ~changed' => ~changed /\ Line
        /\ ~changed' => Buffer(ApplyPredicate(NextBatch))
        /\ delivered' = delivered /\ position' = position + Len(NextBatch)
        /\ position < Len(SelectedRows)
    BY <1>6 DEF DecodeBatch, NoGap, Line, Held, callVars
  <2>1. ASSUME ~changed' PROVE Line'
    <3> DEFINE b == NextBatch
               k == Select(b, Matching)
    <3>1. /\ b \in Seq(D) /\ Len(b) \in Nat \ {0}
          /\ position + Len(b) <= Len(SelectedRows)
          /\ b = SubSeq(SelectedRows, position + 1, position + Len(b))
      BY <1>t, <2>0, BatchFacts DEF D
    <3>2. Buffer(k)
      <4>1. ApplyPredicate(b) = k
        BY <1>t, <3>1, AppliedIsMatching DEF D
      <4> QED
        BY <2>0, <2>1, <4>1
    <3> HIDE DEF b
    <3>3. k \in Seq(D) /\ k \in Seq(Rows)
      BY <1>d, <3>1, SelectProperties, SeqMonotonic
    <3> HIDE DEF k
    <3>4. Joined(queue') = Cat(Joined(queue), k)
      <4>1. CASE k = <<>>
        <5>1. queue' = queue
          BY <3>2, <4>1 DEF Buffer
        <5> QED
          BY <1>j, <4>1, <5>1, CatEmpty
      <4>2. CASE k # <<>>
        <5>1. queue' = Append(queue, k)
          BY <3>2, <4>2 DEF Buffer
        <5>2. JoinsLast(queue, k)
          BY <1>t, <3>3, JoinedAppend
        <5> QED
          BY <5>1, <5>2 DEF JoinsLast
      <4> QED
        BY <4>1, <4>2
    <3>5. Extends(SelectedRows, position, position', Matching, k)
      <4>1. /\ position' \in Nat /\ position <= position'
            /\ position' <= Len(SelectedRows)
            /\ b = SubSeq(SelectedRows, position + 1, position')
        BY <1>t, <2>0, <3>1 DEF b
      <4>2. Extends(SelectedRows, position, position', Matching,
                    Select(b, Matching))
        BY <1>t, <1>f, <4>1, ExtendsBy
      <4> QED
        BY <4>2 DEF k
    <3>6. Cat(delivered, Joined(queue)) =
             Select(SubSeq(SelectedRows, 1, position), Matching)
      BY <2>0, <2>1 DEF Line, Gapless, Cat
    <3>7. Cat(delivered, Cat(Joined(queue), k)) =
             Cat(Cat(delivered, Joined(queue)), k)
      BY <1>t, <1>j, <3>3, CatAssociative
    <3>8. Select(SubSeq(SelectedRows, 1, position'), Matching) =
             Cat(Cat(delivered, Joined(queue)), k)
      BY <3>5, <3>6 DEF Extends
    <3>9. Cat(delivered', Joined(queue')) =
             Select(SubSeq(SelectedRows, 1, position'), Matching)
      BY <2>0, <3>4, <3>7, <3>8
    <3> QED
      BY <1>r, <3>9 DEF Line, Gapless, Cat
  <2>2. NoGap'
    BY <2>1 DEF NoGap
  <2>3. DeliversAnswer'
    BY <1>6, <1>r, <2>0 DEF DeliversAnswer, DecodeBatch, callVars
  <2> QED
    BY <2>2, <2>3
<1>7. CASE DecodeFails
  BY <1>7, <1>r DEF DecodeFails, NoGap, Line, DeliversAnswer
<1>8. CASE ReachEnd
  BY <1>8, <1>r DEF ReachEnd, NoGap, Line, DeliversAnswer
<1>9. CASE ReplyBatch
  <2> DEFINE h == Head(queue)
             t == Tail(queue)
             p == SubSeq(SelectedRows, 1, position)
  <2>0. /\ pc = "decoding" /\ queue # <<>> /\ queue' = t
        /\ changed' = changed /\ outcome = "none" /\ position' = position
        /\ ~changed => Line
        /\ \/ pc' = "idle" /\ delivered' = delivered \o h /\ outcome' = outcome
           \/ pc' = "ending" /\ outcome' = "raised" /\ delivered' = delivered
    BY <1>9 DEF ReplyBatch, NoGap, Held
  <2>1. /\ h \in Seq(Rows) /\ t \in Seq(Seq(Rows))
    BY <1>t, <2>0, HeadTailProperties
  <2>2. Joined(queue) = Cat(h, Joined(t))
    BY <1>t, <2>0, JoinedTail DEF JoinsFirst
  <2> HIDE DEF h, t
  <2>3. Joined(t) \in Seq(Rows)
    BY <2>1, JoinedType
  <2>4. CASE changed \/ pc' = "ending"
    BY <1>r, <2>0, <2>4 DEF NoGap, DeliversAnswer
  <2>5. CASE ~changed /\ pc' = "idle"
    <3>1. delivered' = Cat(delivered, h)
      BY <2>0, <2>5 DEF Cat
    <3>2. Cat(delivered, Joined(queue)) = Select(p, Matching)
      BY <2>0, <2>5 DEF Line, Gapless, Cat
    <3>3. Cat(delivered, Cat(h, Joined(t))) = Cat(delivered', Joined(t))
      BY <1>t, <2>1, <2>3, <3>1, CatAssociative
    <3>4. Cat(delivered', Joined(queue')) = Select(p, Matching)
      BY <2>0, <2>2, <3>2, <3>3
    <3>5. Line'
      BY <1>r, <2>0, <3>4 DEF Line, Gapless, Cat
    <3>6. delivered' \in Seq(Rows)
      BY <1>t, <2>1, <3>1, CatProperties
    <3>7. Begins(delivered', Answer)
      <4>1. PICK rest \in Seq(Rows) : Answer = Cat(Select(p, Matching), rest)
        BY <1>t, <1>f, AnswerExtends
      <4>2. Answer = Cat(delivered', Cat(Joined(t), rest))
        BY <2>0, <2>3, <3>4, <3>6, <4>1, CatAssociative
      <4>3. Cat(Joined(t), rest) \in Seq(Rows)
        BY <2>3, CatProperties
      <4> HIDE DEF p
      <4> QED
        BY <3>6, <4>2, <4>3, ConcatPrefix DEF Begins, Cat
    <3> QED
      BY <1>r, <2>0, <3>5, <3>7 DEF NoGap, DeliversAnswer
  <2> QED
    BY <2>0, <2>4, <2>5
<1>10. CASE ReplyEof
  <2>0. /\ pc = "decoding" /\ queue = <<>> /\ pc' = "ending" /\ eof
        /\ changed' = changed /\ delivered' = delivered
        /\ ~changed => Line
    <3>1. Len(<<>>) < PrefetchDepth
      BY SizeAssumption
    <3> QED
      BY <1>10, <3>1 DEF ReplyEof, WantsBatch, NoGap, Held
  <2>1. ASSUME ~changed PROVE delivered = Answer
    <3>1. position = Len(SelectedRows)
      BY <2>0 DEF Within
    <3>2. SubSeq(SelectedRows, 1, position) = SelectedRows
      BY <1>f, <3>1, SubSeqFull
    <3>3. Cat(delivered, Joined(queue)) = Answer
      BY <1>t, <2>0, <2>1, <3>2, AnswerIsSelected DEF Line, Gapless, Cat
    <3>4. Joined(queue) = <<>>
      BY <2>0, JoinedEmpty
    <3> QED
      BY <1>t, <3>3, <3>4, CatEmpty
  <2> QED
    BY <1>r, <2>0, <2>1 DEF NoGap, DeliversAnswer
<1>11. CASE Panic
  BY <1>11, <1>r DEF Panic, NoGap, Line, DeliversAnswer
<1>12. CASE ConsumerHalts
  BY <1>12, <1>r DEF ConsumerHalts, NoGap, Line, DeliversAnswer
<1>13. CASE Finalize
  BY <1>13, <1>r, ClosingKeeps DEF Finalize, NoGap, Line, DeliversAnswer
<1>14. ASSUME NEW c \in Closers, CloseCalled(c)
       PROVE  NoGap' /\ DeliversAnswer'
  BY <1>14, <1>r DEF CloseCalled, NoGap, Line, DeliversAnswer
<1>15. ASSUME NEW c \in Closers, CloseReturns(c)
       PROVE  NoGap' /\ DeliversAnswer'
  BY <1>15, <1>r, ClosingKeeps DEF CloseReturns, NoGap, Line, DeliversAnswer
<1>16. CASE OwnerExits
  BY <1>16, <1>r DEF OwnerExits, NoGap, Line, DeliversAnswer
<1>17. CASE DownCancels
  BY <1>17, <1>r DEF DownCancels, NoGap, Line, DeliversAnswer
<1>18. CASE DownEnds
  BY <1>18, <1>r, ClosingKeeps DEF DownEnds, NoGap, Line, DeliversAnswer,
     DownCloses
<1>19. CASE DropReader
  BY <1>19, <1>r, ClosingKeeps DEF DropReader, NoGap, Line, DeliversAnswer
<1>20. CASE ReplaceObject
  BY <1>20, <1>r DEF ReplaceObject, NoGap, Line, DeliversAnswer
<1>21. CASE UNCHANGED vars
  BY <1>21, <1>r DEF vars, NoGap, Line, DeliversAnswer
<1> QED
  BY <1>1, <1>2, <1>3, <1>4, <1>5, <1>6, <1>7, <1>8, <1>9, <1>10, <1>11,
     <1>12, <1>13, <1>14, <1>15, <1>16, <1>17, <1>18, <1>19, <1>20, <1>21
  DEF Next

\* While the object stays in place, the consumer has been given a prefix of
\* the rows that a scan of the whole file would keep, and an enumeration that
\* ends normally has given it all of them: skipping row groups, prefetching,
\* a failed call, a concurrent close and the exit of the owner lose and repeat
\* no row (reader_next and the Stream over it).
THEOREM DeliversTheAnswer == Spec => []DeliversAnswer
<1>1. Init => RowInv
  <2> SUFFICES ASSUME Init PROVE RowInv
    OBVIOUS
  <2>1. IInv
    BY InitIInv
  <2>2. file \in Files /\ predicate \in Predicates /\ position = 0
    BY DEF Init
  <2>3. Gapless(<<>>, <<>>, SelectedRows, 0, Matching)
    <3>1. SubSeq(SelectedRows, 1, 0) = <<>>
      BY SubSeqEmpty
    <3>2. Cat(<<>>, Joined(<<>>)) = <<>>
      <4>1. <<>> \in Seq(Rows)
        BY EmptySeq
      <4> QED
        BY <4>1, JoinedEmpty, CatEmpty
    <3> QED
      BY <3>1, <3>2, SelectEmpty DEF Gapless, Cat
  <2>4. Begins(<<>>, Answer)
    <3>1. Answer \in Seq(DOMAIN file.rows)
      BY <2>2, FileFacts, SelectProperties DEF Answer
    <3>2. Len(Answer) \in Nat
      BY <3>1, LenProperties
    <3>3. SubSeq(Answer, 1, 0) = <<>>
      BY SubSeqEmpty
    <3> QED
      BY <3>2, <3>3 DEF Begins
  <2> QED
    BY <2>1, <2>3, <2>4 DEF Init, RowInv, NoGap, Line, DeliversAnswer
<1> QED
  BY <1>1, RowPreservation, PTL DEF Spec, RowInv
=============================================================================
