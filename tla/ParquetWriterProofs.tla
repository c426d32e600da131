------------------------ MODULE ParquetWriterProofs ------------------------
(***************************************************************************)
(* Proofs about the native Parquet writer, for every size of row group and *)
(* batch, every number of batches and every set of cancelling processes.   *)
(*                                                                         *)
(* PublishedIsExact speaks of published files only, and is not inductive:  *)
(* that the file holds the rows answered ok when it is published rests on  *)
(* RowsKept, which accounts for every row between the batch and the file   *)
(* at every step of every call, as long as no row group was lost.  That a  *)
(* call still owns the staged output at its next step rests on Phases,     *)
(* which ties the step of the running call, the mutex, the encoder and the *)
(* staged output together: cancel/1 and the monitor can abort only between *)
(* two calls.                                                              *)
(***************************************************************************)
EXTENDS ParquetWriter, SequenceTheorems, TLAPS

\* The rows of the batch that a running write has not answered yet.
Unanswered == IF pc = "writing" THEN batch ELSE <<>>

\* The step of the running call, the mutex, the encoder and the output.
Phases ==
    /\ lock = "producer" <=> pc # "idle"
    /\ pc = "writing" => held
    /\ pc \in {"finishing", "publishing", "committing"}
         => ~held /\ active /\ staged = "open"
    /\ held => active /\ staged = "open" /\ pc \in {"idle", "writing"} /\ ~footer
    /\ staged = "open" => active
    /\ active /\ ~poisoned => staged = "open"
    /\ active /\ ~poisoned /\ pc = "idle" => held
    /\ poisoned => pc = "idle" /\ broken

\* What the life of the handle allows: who can still call it.
Lifetime ==
    /\ opened # "yes" => pc = "idle" /\ ~poisoned /\ ~dropped /\ ~aborted
                         /\ owner # "down"
                         /\ \A c \in Cancellers : canceller[c] = "idle"
    /\ opened = "no" => staged = "none" /\ ~footer
    /\ opened \in {"no", "failed"} => ~active
    /\ opened = "resource" => held
    /\ dropped => ~active /\ pc = "idle"
    /\ staged = "published" => ~active /\ ~aborted /\ pc = "idle"
    /\ aborted => ~active

\* Every row is in the file, in the row group in progress or in the batch
\* being written, in the order in which it was given.
RowsKept ==
    /\ ~broken => (content \o group) \o pending = acked \o Unanswered
    /\ pc # "writing" => pending = <<>>
    /\ footer => group = <<>> /\ pc # "finishing"
    /\ pc \in {"publishing", "committing"} => footer /\ ~broken

IInv ==
    /\ TypeOK
    /\ Phases
    /\ Lifetime
    /\ RowsKept
    /\ PublishedIsExact
    /\ AnswersHonest
-----------------------------------------------------------------------------
\* Encoding a row moves it from the batch to the row group in progress and
\* changes nothing in the order of the rows.
LEMMA EncodeKeeps ==
    ASSUME NEW c \in Seq(Rows), NEW g \in Seq(Rows), NEW p \in Seq(Rows), p # <<>>
    PROVE  (c \o Append(g, Head(p))) \o Tail(p) = (c \o g) \o p
<1>1. Head(p) \in Rows /\ Tail(p) \in Seq(Rows) /\ <<Head(p)>> \o Tail(p) = p
  BY HeadTailProperties
<1>2. Append(g, Head(p)) = g \o <<Head(p)>> /\ <<Head(p)>> \in Seq(Rows)
  BY <1>1, AppendIsConcat
<1>3. (g \o <<Head(p)>>) \o Tail(p) = g \o p
  BY <1>1, <1>2, ConcatAssociative
<1>4. g \o <<Head(p)>> \in Seq(Rows)
  BY <1>2, ConcatProperties
<1>5. (c \o (g \o <<Head(p)>>)) \o Tail(p)
        = c \o ((g \o <<Head(p)>>) \o Tail(p))
  BY <1>1, <1>4, ConcatAssociative
<1>6. c \o (g \o p) = (c \o g) \o p
  BY ConcatAssociative
<1> QED
  BY <1>2, <1>3, <1>5, <1>6

\* The initial states satisfy every part of the invariant.
LEMMA InitIInv == Init => IInv
<1> SUFFICES ASSUME Init PROVE IInv
  OBVIOUS
<1>1. TypeOK
  <2>1. /\ group \in Seq(Rows) /\ Len(group) <= MaxRowGroupRows
        /\ {content, batch, pending, acked} \subseteq Seq(Rows)
    BY BoundsAssumption DEF Init
  <2>2. {active, held, cancelled, poisoned, footer, broken, aborted, dropped}
          \subseteq BOOLEAN
    BY DEF Init
  <2> QED
    BY <2>1, <2>2, BoundsAssumption DEF Init, TypeOK
<1>2. Phases /\ Lifetime
  BY BoundsAssumption DEF Init, Phases, Lifetime
<1>3. RowsKept
  BY DEF Init, RowsKept, Unanswered
<1> QED
  BY <1>1, <1>2, <1>3 DEF Init, IInv, PublishedIsExact, AnswersHonest

\* Every step keeps the types, and a row group within its limit.
LEMMA TypeStep ==
    ASSUME TypeOK, Phases, [Next]_vars
    PROVE  TypeOK'
<1> USE BoundsAssumption DEF TypeOK, handleVars, fileVars, callVars, otherVars
<1>1. CASE OpenStore
  BY <1>1 DEF OpenStore
<1>2. CASE OpenFails
  BY <1>2 DEF OpenFails
<1>3. CASE MonitorOwner
  BY <1>3 DEF MonitorOwner
<1>4. CASE MonitorFails
  BY <1>4 DEF MonitorFails, AbortState, Discarded
<1>5. ASSUME NEW n \in 1 .. MaxBatchRows, BeginWrite(n)
      PROVE  TypeOK'
  <2>1. given + 1 \in 1 .. MaxBatches
    BY <1>5 DEF BeginWrite
  <2>2. \A i \in 1 .. n : <<given + 1, i>> \in Rows
    BY <2>1 DEF Rows
  <2>3. BatchRows(given + 1, n) \in Seq(Rows)
    BY <2>2 DEF BatchRows
  <2> QED
    BY <1>5, <2>3 DEF BeginWrite
<1>6. CASE WriteRefused
  BY <1>6 DEF WriteRefused, Callable, LockFree
<1>7. CASE EncodeRow
  <2>1. Head(pending) \in Rows /\ Tail(pending) \in Seq(Rows)
    BY <1>7, HeadTailProperties DEF EncodeRow
  <2>2. /\ Append(group, Head(pending)) \in Seq(Rows)
        /\ Len(Append(group, Head(pending))) = Len(group) + 1
    BY <2>1, AppendProperties
  <2> QED
    BY <1>7, <2>1, <2>2 DEF EncodeRow, GroupHasRoom
<1>8. CASE FlushGroup
  BY <1>8 DEF FlushGroup
<1>9. CASE FlushFails
  BY <1>9 DEF FlushFails
<1>10. CASE ReplyWrite
  BY <1>10 DEF ReplyWrite
<1>11. CASE BeginClose
  BY <1>11 DEF BeginClose, Callable, LockFree
<1>12. CASE CloseRefused
  BY <1>12 DEF CloseRefused, Callable, LockFree
<1>13. CASE FinishFile
  BY <1>13 DEF FinishFile
<1>14. CASE FinishFails
  BY <1>14 DEF FinishFails, CloseFails, Discarded
<1>15. CASE AdmitPublish
  BY <1>15 DEF AdmitPublish
<1>16. CASE PublishFails
  BY <1>16 DEF PublishFails, CloseFails, Discarded
<1>17. CASE CommitPublish
  BY <1>17 DEF CommitPublish
<1>18. CASE Panic
  BY <1>18 DEF Panic, Discarded
<1>19. ASSUME NEW c \in Cancellers, CancelCalled(c)
       PROVE  TypeOK'
  BY <1>19 DEF CancelCalled
<1>20. ASSUME NEW c \in Cancellers, CancelReturns(c)
       PROVE  TypeOK'
  BY <1>20 DEF CancelReturns, AbortState, Discarded, LockFree
<1>21. CASE OwnerExits
  BY <1>21 DEF OwnerExits
<1>22. CASE DownCancels
  BY <1>22 DEF DownCancels
<1>23. CASE DownAborts
  BY <1>23 DEF DownAborts, AbortState, Discarded, LockFree
<1>24. CASE DropWriter
  BY <1>24 DEF DropWriter, AbortState, Discarded
<1>25. CASE UNCHANGED vars
  BY <1>25 DEF vars
<1> QED
  BY <1>1, <1>2, <1>3, <1>4, <1>5, <1>6, <1>7, <1>8, <1>9, <1>10, <1>11,
     <1>12, <1>13, <1>14, <1>15, <1>16, <1>17, <1>18, <1>19, <1>20, <1>21,
     <1>22, <1>23, <1>24, <1>25
  DEF Next

\* Every step keeps the call, the mutex, the encoder and the staged output in
\* line, and the handle in its life cycle.
LEMMA ControlStep ==
    ASSUME TypeOK, Phases, Lifetime, [Next]_vars
    PROVE  (Phases /\ Lifetime)'
<1> USE BoundsAssumption
    DEF TypeOK, Phases, Lifetime, handleVars, fileVars, callVars, otherVars
<1>1. CASE OpenStore
  BY <1>1 DEF OpenStore
<1>2. CASE OpenFails
  BY <1>2 DEF OpenFails
<1>3. CASE MonitorOwner
  BY <1>3 DEF MonitorOwner
<1>4. CASE MonitorFails
  BY <1>4 DEF MonitorFails, AbortState, Discarded
<1>5. ASSUME NEW n \in 1 .. MaxBatchRows, BeginWrite(n)
      PROVE  (Phases /\ Lifetime)'
  BY <1>5 DEF BeginWrite, Callable, LockFree
<1>6. CASE WriteRefused
  BY <1>6 DEF WriteRefused, Callable, LockFree
<1>7. CASE EncodeRow
  BY <1>7 DEF EncodeRow
<1>8. CASE FlushGroup
  BY <1>8 DEF FlushGroup
<1>9. CASE FlushFails
  BY <1>9 DEF FlushFails
<1>10. CASE ReplyWrite
  BY <1>10 DEF ReplyWrite
<1>11. CASE BeginClose
  BY <1>11 DEF BeginClose, Callable, LockFree
<1>12. CASE CloseRefused
  BY <1>12 DEF CloseRefused, Callable, LockFree
<1>13. CASE FinishFile
  BY <1>13 DEF FinishFile
<1>14. CASE FinishFails
  BY <1>14 DEF FinishFails, CloseFails, Discarded
<1>15. CASE AdmitPublish
  BY <1>15 DEF AdmitPublish
<1>16. CASE PublishFails
  BY <1>16 DEF PublishFails, CloseFails, Discarded
<1>17. CASE CommitPublish
  BY <1>17 DEF CommitPublish
<1>18. CASE Panic
  BY <1>18 DEF Panic, Discarded
<1>19. ASSUME NEW c \in Cancellers, CancelCalled(c)
       PROVE  (Phases /\ Lifetime)'
  BY <1>19 DEF CancelCalled
<1>20. ASSUME NEW c \in Cancellers, CancelReturns(c)
       PROVE  (Phases /\ Lifetime)'
  BY <1>20 DEF CancelReturns, AbortState, Discarded, LockFree
<1>21. CASE OwnerExits
  BY <1>21 DEF OwnerExits
<1>22. CASE DownCancels
  BY <1>22 DEF DownCancels
<1>23. CASE DownAborts
  BY <1>23 DEF DownAborts, AbortState, Discarded, LockFree
<1>24. CASE DropWriter
  BY <1>24 DEF DropWriter, AbortState, Discarded
<1>25. CASE UNCHANGED vars
  BY <1>25 DEF vars
<1> QED
  BY <1>1, <1>2, <1>3, <1>4, <1>5, <1>6, <1>7, <1>8, <1>9, <1>10, <1>11,
     <1>12, <1>13, <1>14, <1>15, <1>16, <1>17, <1>18, <1>19, <1>20, <1>21,
     <1>22, <1>23, <1>24, <1>25
  DEF Next

\* Between two writes the file and the row group in progress hold exactly the
\* rows that were answered ok.
LEMMA AnsweredRows ==
    ASSUME TypeOK, RowsKept, ~broken, pc # "writing"
    PROVE  content \o group = acked
<1>1. content \o group \in Seq(Rows)
  BY ConcatProperties DEF TypeOK
<1>2. (content \o group) \o <<>> = content \o group /\ acked \o <<>> = acked
  BY <1>1, ConcatEmptySeq DEF TypeOK
<1> QED
  BY <1>2 DEF RowsKept, Unanswered

\* No step of any call loses, repeats or reorders a row without breaking the
\* file.
LEMMA RowsStep ==
    ASSUME TypeOK, Phases, Lifetime, RowsKept, [Next]_vars
    PROVE  RowsKept'
<1> USE DEF RowsKept, Unanswered, handleVars, fileVars, callVars, otherVars
<1>1. CASE OpenStore
  BY <1>1 DEF OpenStore
<1>2. CASE OpenFails
  BY <1>2 DEF OpenFails
<1>3. CASE MonitorOwner
  BY <1>3 DEF MonitorOwner
<1>4. CASE MonitorFails
  BY <1>4 DEF MonitorFails, AbortState, Discarded
<1>5. ASSUME NEW n \in 1 .. MaxBatchRows, BeginWrite(n)
      PROVE  RowsKept'
  <2>1. ~broken => content \o group = acked
    BY <1>5, AnsweredRows DEF BeginWrite, Callable
  <2> QED
    BY <1>5, <2>1 DEF BeginWrite, Phases, Lifetime
<1>6. CASE WriteRefused
  BY <1>6 DEF WriteRefused, Callable, LockFree
<1>7. CASE EncodeRow
  <2>1. /\ content \in Seq(Rows) /\ group \in Seq(Rows)
        /\ pending \in Seq(Rows) /\ pending # <<>>
    BY <1>7 DEF EncodeRow, TypeOK
  <2>2. (content \o Append(group, Head(pending))) \o Tail(pending)
          = (content \o group) \o pending
    BY <2>1, EncodeKeeps
  <2> QED
    BY <1>7, <2>2 DEF EncodeRow, Phases
<1>8. CASE FlushGroup
  <2>1. content \o group \in Seq(Rows)
    BY ConcatProperties DEF TypeOK
  <2>2. (content \o group) \o <<>> = content \o group
    BY <2>1, ConcatEmptySeq
  <2> QED
    BY <1>8, <2>2 DEF FlushGroup, Phases
<1>9. CASE FlushFails
  BY <1>9 DEF FlushFails
<1>10. CASE ReplyWrite
  <2>1. /\ content \o group \in Seq(Rows)
        /\ acked \o batch \in Seq(Rows)
    BY ConcatProperties DEF TypeOK
  <2>2. /\ (content \o group) \o <<>> = content \o group
        /\ (acked \o batch) \o <<>> = acked \o batch
    BY <2>1, ConcatEmptySeq
  <2> QED
    BY <1>10, <2>2 DEF ReplyWrite
<1>11. CASE BeginClose
  BY <1>11 DEF BeginClose, Callable, LockFree, Phases
<1>12. CASE CloseRefused
  BY <1>12 DEF CloseRefused, Callable, LockFree
<1>13. CASE FinishFile
  <2>1. pending = <<>>
    BY <1>13 DEF FinishFile
  <2>2. content \o group = acked
    BY <1>13, AnsweredRows DEF FinishFile
  <2>3. (acked \o <<>>) \o <<>> = acked \o <<>>
    BY ConcatEmptySeq DEF TypeOK
  <2> QED
    BY <1>13, <2>1, <2>2, <2>3 DEF FinishFile
<1>14. CASE FinishFails
  BY <1>14 DEF FinishFails, CloseFails, Discarded
<1>15. CASE AdmitPublish
  BY <1>15 DEF AdmitPublish
<1>16. CASE PublishFails
  BY <1>16 DEF PublishFails, CloseFails, Discarded
<1>17. CASE CommitPublish
  BY <1>17 DEF CommitPublish
<1>18. CASE Panic
  BY <1>18 DEF Panic, Discarded
<1>19. ASSUME NEW c \in Cancellers, CancelCalled(c)
       PROVE  RowsKept'
  BY <1>19 DEF CancelCalled
<1>20. ASSUME NEW c \in Cancellers, CancelReturns(c)
       PROVE  RowsKept'
  BY <1>20 DEF CancelReturns, AbortState, Discarded, LockFree
<1>21. CASE OwnerExits
  BY <1>21 DEF OwnerExits
<1>22. CASE DownCancels
  BY <1>22 DEF DownCancels
<1>23. CASE DownAborts
  BY <1>23 DEF DownAborts, AbortState, Discarded, LockFree
<1>24. CASE DropWriter
  BY <1>24 DEF DropWriter, AbortState, Discarded
<1>25. CASE UNCHANGED vars
  BY <1>25 DEF vars
<1> QED
  BY <1>1, <1>2, <1>3, <1>4, <1>5, <1>6, <1>7, <1>8, <1>9, <1>10, <1>11,
     <1>12, <1>13, <1>14, <1>15, <1>16, <1>17, <1>18, <1>19, <1>20, <1>21,
     <1>22, <1>23, <1>24, <1>25
  DEF Next

\* The output is published by CommitPublish alone, when the file has its
\* footer and holds the rows answered ok; a published output stays so.
LEMMA PublishedStep ==
    ASSUME TypeOK, Phases, Lifetime, RowsKept, PublishedIsExact, [Next]_vars
    PROVE  PublishedIsExact'
<1> USE DEF PublishedIsExact, handleVars, fileVars, callVars, otherVars
<1>1. CASE OpenStore
  BY <1>1 DEF OpenStore
<1>2. CASE OpenFails
  BY <1>2 DEF OpenFails
<1>3. CASE MonitorOwner
  BY <1>3 DEF MonitorOwner
<1>4. CASE MonitorFails
  BY <1>4 DEF MonitorFails, AbortState, Discarded
<1>5. ASSUME NEW n \in 1 .. MaxBatchRows, BeginWrite(n)
      PROVE  PublishedIsExact'
  BY <1>5 DEF BeginWrite, Callable, LockFree, Lifetime, Phases
<1>6. CASE WriteRefused
  BY <1>6 DEF WriteRefused, Callable, LockFree
<1>7. CASE EncodeRow
  BY <1>7 DEF EncodeRow, Lifetime, Phases
<1>8. CASE FlushGroup
  BY <1>8 DEF FlushGroup, Lifetime, Phases
<1>9. CASE FlushFails
  BY <1>9 DEF FlushFails, Lifetime, Phases
<1>10. CASE ReplyWrite
  BY <1>10 DEF ReplyWrite, Lifetime, Phases
<1>11. CASE BeginClose
  BY <1>11 DEF BeginClose, Callable, LockFree, Lifetime, Phases
<1>12. CASE CloseRefused
  BY <1>12 DEF CloseRefused, Callable, LockFree
<1>13. CASE FinishFile
  BY <1>13 DEF FinishFile, Lifetime, Phases
<1>14. CASE FinishFails
  BY <1>14 DEF FinishFails, CloseFails, Discarded, Lifetime, Phases
<1>15. CASE AdmitPublish
  BY <1>15 DEF AdmitPublish, Lifetime, Phases
<1>16. CASE PublishFails
  BY <1>16 DEF PublishFails, CloseFails, Discarded, Lifetime, Phases
<1>17. CASE CommitPublish
  <2>1. group = <<>> /\ footer /\ content \o group = acked
    BY <1>17, AnsweredRows DEF CommitPublish, RowsKept
  <2>2. content \o <<>> = content
    BY ConcatEmptySeq DEF TypeOK
  <2> QED
    BY <1>17, <2>1, <2>2 DEF CommitPublish
<1>18. CASE Panic
  BY <1>18 DEF Panic, Discarded, Lifetime, Phases
<1>19. ASSUME NEW c \in Cancellers, CancelCalled(c)
       PROVE  PublishedIsExact'
  BY <1>19 DEF CancelCalled
<1>20. ASSUME NEW c \in Cancellers, CancelReturns(c)
       PROVE  PublishedIsExact'
  BY <1>20 DEF CancelReturns, AbortState, Discarded, LockFree
<1>21. CASE OwnerExits
  BY <1>21 DEF OwnerExits
<1>22. CASE DownCancels
  BY <1>22 DEF DownCancels
<1>23. CASE DownAborts
  BY <1>23 DEF DownAborts, AbortState, Discarded, LockFree
<1>24. CASE DropWriter
  BY <1>24 DEF DropWriter, AbortState, Discarded
<1>25. CASE UNCHANGED vars
  BY <1>25 DEF vars
<1> QED
  BY <1>1, <1>2, <1>3, <1>4, <1>5, <1>6, <1>7, <1>8, <1>9, <1>10, <1>11,
     <1>12, <1>13, <1>14, <1>15, <1>16, <1>17, <1>18, <1>19, <1>20, <1>21,
     <1>22, <1>23, <1>24, <1>25
  DEF Next

\* close answers ok in the step that publishes, and a cancel answers aborted
\* only when it found a staged output, which it discards.
LEMMA AnswersStep ==
    ASSUME TypeOK, Phases, Lifetime, AnswersHonest, [Next]_vars
    PROVE  AnswersHonest'
<1> USE DEF AnswersHonest, Phases, Lifetime, TypeOK, handleVars, fileVars,
            callVars, otherVars
<1>1. CASE OpenStore
  BY <1>1 DEF OpenStore
<1>2. CASE OpenFails
  BY <1>2 DEF OpenFails
<1>3. CASE MonitorOwner
  BY <1>3 DEF MonitorOwner
<1>4. CASE MonitorFails
  BY <1>4 DEF MonitorFails, AbortState, Discarded
<1>5. ASSUME NEW n \in 1 .. MaxBatchRows, BeginWrite(n)
      PROVE  AnswersHonest'
  BY <1>5 DEF BeginWrite, Callable, LockFree
<1>6. CASE WriteRefused
  BY <1>6 DEF WriteRefused, Callable, LockFree
<1>7. CASE EncodeRow
  BY <1>7 DEF EncodeRow
<1>8. CASE FlushGroup
  BY <1>8 DEF FlushGroup
<1>9. CASE FlushFails
  BY <1>9 DEF FlushFails
<1>10. CASE ReplyWrite
  BY <1>10 DEF ReplyWrite
<1>11. CASE BeginClose
  BY <1>11 DEF BeginClose, Callable, LockFree
<1>12. CASE CloseRefused
  BY <1>12 DEF CloseRefused, Callable, LockFree
<1>13. CASE FinishFile
  BY <1>13 DEF FinishFile
<1>14. CASE FinishFails
  BY <1>14 DEF FinishFails, CloseFails, Discarded
<1>15. CASE AdmitPublish
  BY <1>15 DEF AdmitPublish
<1>16. CASE PublishFails
  BY <1>16 DEF PublishFails, CloseFails, Discarded
<1>17. CASE CommitPublish
  BY <1>17 DEF CommitPublish
<1>18. CASE Panic
  BY <1>18 DEF Panic, Discarded
<1>19. ASSUME NEW c \in Cancellers, CancelCalled(c)
       PROVE  AnswersHonest'
  BY <1>19 DEF CancelCalled
<1>20. ASSUME NEW c \in Cancellers, CancelReturns(c)
       PROVE  AnswersHonest'
  BY <1>20 DEF CancelReturns, AbortState, Discarded, LockFree
<1>21. CASE OwnerExits
  BY <1>21 DEF OwnerExits
<1>22. CASE DownCancels
  BY <1>22 DEF DownCancels
<1>23. CASE DownAborts
  BY <1>23 DEF DownAborts, AbortState, Discarded, LockFree
<1>24. CASE DropWriter
  BY <1>24 DEF DropWriter, AbortState, Discarded
<1>25. CASE UNCHANGED vars
  BY <1>25 DEF vars
<1> QED
  BY <1>1, <1>2, <1>3, <1>4, <1>5, <1>6, <1>7, <1>8, <1>9, <1>10, <1>11,
     <1>12, <1>13, <1>14, <1>15, <1>16, <1>17, <1>18, <1>19, <1>20, <1>21,
     <1>22, <1>23, <1>24, <1>25
  DEF Next

-----------------------------------------------------------------------------
\* Every step preserves the inductive invariant.
LEMMA NextIInv == IInv /\ [Next]_vars => IInv'
  BY TypeStep, ControlStep, RowsStep, PublishedStep, AnswersStep DEF IInv

(***************************************************************************)
(* The inductive invariant holds in every reachable state of the writer.   *)
(***************************************************************************)
THEOREM Invariance == Spec => []IInv
<1>1. Init => IInv
  BY InitIInv
<1>2. IInv /\ [Next]_vars => IInv'
  BY NextIInv
<1> QED
  BY <1>1, <1>2, PTL DEF Spec

(***************************************************************************)
(* Between calls the writer is active exactly while it owns a staged       *)
(* output, whatever failed, panicked or was cancelled before, and a        *)
(* collected writer leaves no open output: WriterState::abort, close and   *)
(* Drop keep stats.active and the staged writer in step.                   *)
(***************************************************************************)
THEOREM FlagsAgree == Spec => []WriterConsistent
<1>1. IInv => WriterConsistent
  BY BoundsAssumption
  DEF IInv, WriterConsistent, ActiveOwnsOutput, Phases, Lifetime, TypeOK,
      LockFree
<1> QED
  BY <1>1, Invariance, PTL

(***************************************************************************)
(* A file that close publishes has its footer and holds exactly the rows   *)
(* of the batches that write_batch answered ok, in order, for every size   *)
(* of row group and batch and after any failed write.                      *)
(***************************************************************************)
THEOREM PublishedFilesAreExact == Spec => []PublishedIsExact
<1>1. IInv => PublishedIsExact
  BY DEF IInv
<1> QED
  BY <1>1, Invariance, PTL

(***************************************************************************)
(* close answers ok only after the file was published, and no cancel that  *)
(* answered aborted leaves a published file behind.                        *)
(***************************************************************************)
THEOREM HonestAnswers == Spec => []AnswersHonest
<1>1. IInv => AnswersHonest
  BY DEF IInv
<1> QED
  BY <1>1, Invariance, PTL

(***************************************************************************)
(* Once cancel/1 or the owner's exit has set the token, a close that the   *)
(* store writer has not admitted never publishes.                          *)
(***************************************************************************)
THEOREM CancelledStaysDoomed == Spec => CancelStopsPublish
<1>1. TypeOK /\ Phases /\ [Next]_vars => (Doomed => Doomed')
  <2> SUFFICES ASSUME TypeOK, Phases, Doomed, [Next]_vars PROVE Doomed'
    OBVIOUS
  <2> USE DEF Doomed, Phases, TypeOK, handleVars, fileVars, callVars, otherVars
  <2>1. CASE OpenStore
    BY <2>1 DEF OpenStore
  <2>2. CASE OpenFails
    BY <2>2 DEF OpenFails
  <2>3. CASE MonitorOwner
    BY <2>3 DEF MonitorOwner
  <2>4. CASE MonitorFails
    BY <2>4 DEF MonitorFails, AbortState, Discarded
  <2>5. ASSUME NEW n \in 1 .. MaxBatchRows, BeginWrite(n)
        PROVE  Doomed'
    BY <2>5 DEF BeginWrite, Callable, LockFree
  <2>6. CASE WriteRefused
    BY <2>6 DEF WriteRefused, Callable, LockFree
  <2>7. CASE EncodeRow
    BY <2>7 DEF EncodeRow
  <2>8. CASE FlushGroup
    BY <2>8 DEF FlushGroup
  <2>9. CASE FlushFails
    BY <2>9 DEF FlushFails
  <2>10. CASE ReplyWrite
    BY <2>10 DEF ReplyWrite
  <2>11. CASE BeginClose
    BY <2>11 DEF BeginClose, Callable, LockFree
  <2>12. CASE CloseRefused
    BY <2>12 DEF CloseRefused, Callable, LockFree
  <2>13. CASE FinishFile
    BY <2>13 DEF FinishFile
  <2>14. CASE FinishFails
    BY <2>14 DEF FinishFails, CloseFails, Discarded
  <2>15. CASE AdmitPublish
    BY <2>15 DEF AdmitPublish, Admits
  <2>16. CASE PublishFails
    BY <2>16 DEF PublishFails, CloseFails, Discarded
  <2>17. CASE CommitPublish
    BY <2>17 DEF CommitPublish
  <2>18. CASE Panic
    BY <2>18 DEF Panic, Discarded
  <2>19. ASSUME NEW c \in Cancellers, CancelCalled(c)
         PROVE  Doomed'
    BY <2>19 DEF CancelCalled
  <2>20. ASSUME NEW c \in Cancellers, CancelReturns(c)
         PROVE  Doomed'
    BY <2>20 DEF CancelReturns, AbortState, Discarded, LockFree
  <2>21. CASE OwnerExits
    BY <2>21 DEF OwnerExits
  <2>22. CASE DownCancels
    BY <2>22 DEF DownCancels
  <2>23. CASE DownAborts
    BY <2>23 DEF DownAborts, AbortState, Discarded, LockFree
  <2>24. CASE DropWriter
    BY <2>24 DEF DropWriter, AbortState, Discarded
  <2>25. CASE UNCHANGED vars
    BY <2>25 DEF vars
  <2> QED
    BY <2>1, <2>2, <2>3, <2>4, <2>5, <2>6, <2>7, <2>8, <2>9, <2>10, <2>11,
       <2>12, <2>13, <2>14, <2>15, <2>16, <2>17, <2>18, <2>19, <2>20, <2>21,
       <2>22, <2>23, <2>24, <2>25
    DEF Next
<1>2. IInv => TypeOK /\ Phases
  BY DEF IInv
<1>3. Spec => [][Doomed => Doomed']_vars
  BY <1>1, <1>2, Invariance, PTL DEF Spec
<1> QED
  BY <1>3 DEF CancelStopsPublish
=============================================================================
