----------------------- MODULE MultipartWriterProofs -----------------------
(***************************************************************************)
(* Proofs about the S3 multipart writer, for every set of writers and      *)
(* keys, every part size and every bound; and the proof that it implements *)
(* ObjectStore.                                                            *)
(*                                                                         *)
(* The properties speak of the provider (completed, requested) and of the  *)
(* client's buffers at the same time, and none is inductive alone.         *)
(* UploadOK ties the step of a call to the two flags of the writer         *)
(* (upload, active) and to the upload at the provider.  Its central part   *)
(* is Sealed: from the moment a completion is requested, whoever waits for *)
(* the answer, the client holds neither the upload nor anything that was   *)
(* to go into it, so a late completion finds nothing missing.              *)
(***************************************************************************)
EXTENDS MultipartWriter, FiniteSetTheorems, TLAPS

\* Nothing is left at the client and nothing was lost on the way.
Sealed(w) == ~upload[w] /\ ~lost[w] /\ buffered[w] = 0 /\ Tasks(w) = 0

UploadOK(w) ==
    /\ pc[w] = "unopened" => key[w] = Absent
    /\ pc[w] # "unopened" => key[w] \in Keys
    /\ pc[w] \in {"unopened", "opening"} => remote[w] = "none" /\ reply[w] = "none"
    /\ upload[w] => /\ active[w] /\ remote[w] = "in_progress" /\ ~requested[w]
                    /\ pc[w] \in {"created", "idle", "writing"}
    /\ active[w] => upload[w] \/ pc[w] \in {"finishing", "completing"}
    /\ pc[w] \in {"created", "writing"} => upload[w]
    /\ pc[w] \in {"finishing", "completing"} => active[w] /\ ~upload[w]
    /\ pc[w] = "finishing" =>
           buffered[w] = 0 /\ remote[w] = "in_progress" /\ ~requested[w]
    /\ pc[w] = "heading" => remote[w] = "completed"
    /\ requested[w] => remote[w] \in {"in_progress", "aborted"}
    /\ requested[w] \/ remote[w] = "completed" \/ pc[w] = "completing" => Sealed(w)
    /\ pc[w] \in {"created", "finishing", "completing", "writing"}
         => reply[w] \notin {"aborted", "abort_failed"}
    /\ reply[w] \in {"aborted", "abort_failed"} => ~active[w]

WellFormed == \A w \in Writers : UploadOK(w)

IInv ==
    /\ TypeOK
    /\ WellFormed
    /\ CounterExact
    /\ ReplyHonest
-----------------------------------------------------------------------------
\* An active writer counts: finish_active never takes ACTIVE_MULTIPART below
\* zero.
LEMMA ActiveCounted ==
    ASSUME TypeOK, CounterExact, NEW w \in Writers, active[w]
    PROVE  activeMultipart \in Nat \ {0}
<1> DEFINE A == {u \in Writers : active[u]}
<1>1. IsFiniteSet(A) /\ w \in A
  BY AbsentAssumption, FS_Subset
<1>2. Cardinality(A) # 0
  BY <1>1, FS_EmptySet
<1> QED
  BY <1>2 DEF CounterExact, TypeOK

\* What upload.write keeps in its buffer is less than a part.
LEMMA CutChunk ==
    ASSUME NEW total \in Nat
    PROVE  /\ total % PartSize \in Nat /\ total % PartSize < PartSize
           /\ total \div PartSize \in Nat
           /\ total < 2 * PartSize => total \div PartSize <= 1
  BY SizesAssumption

\* The initial states satisfy every part of the invariant.
LEMMA InitIInv == Init => IInv
<1> SUFFICES ASSUME Init PROVE IInv
  OBVIOUS
<1>1. TypeOK
  BY SizesAssumption DEF Init, TypeOK, Steps, NoParts
<1>2. WellFormed
  BY DEF Init, WellFormed, UploadOK, Sealed
<1>3. CounterExact
  <2>1. {w \in Writers : active[w]} = {}
    BY DEF Init
  <2> QED
    BY <2>1, FS_EmptySet DEF Init, CounterExact
<1> QED
  BY <1>1, <1>2, <1>3 DEF Init, IInv, ReplyHonest

\* finish_active keeps its types.
LEMMA FinishTypes ==
    ASSUME TypeOK, CounterExact, NEW w \in Writers, FinishActive(w)
    PROVE  active' \in [Writers -> BOOLEAN] /\ activeMultipart' \in Nat
  BY ActiveCounted DEF FinishActive, TypeOK

\* Dropping the WriteMultipart keeps its types.
LEMMA DropTypes ==
    ASSUME TypeOK, NEW w \in Writers, DropUpload(w)
    PROVE  /\ buffered' \in [Writers -> Nat]
           /\ parts' \in [Writers -> [sending : Nat, done : Nat, failed : Nat]]
           /\ lost' \in [Writers -> BOOLEAN]
           /\ given' \in [Writers -> Nat]
  BY DEF DropUpload, NoParts, TypeOK

\* RemoteMultipartWriter::abort and Drop keep their types.
LEMMA AbortTypes ==
    ASSUME TypeOK, CounterExact, NEW w \in Writers,
           \/ AbortIfActive(w)
           \/ \E r \in {"aborted", "abort_failed"} : AbortActive(w, r)
    PROVE  /\ active' \in [Writers -> BOOLEAN] /\ activeMultipart' \in Nat
           /\ upload' \in [Writers -> BOOLEAN] /\ token' \in [Writers -> BOOLEAN]
           /\ buffered' \in [Writers -> Nat]
           /\ parts' \in [Writers -> [sending : Nat, done : Nat, failed : Nat]]
           /\ lost' \in [Writers -> BOOLEAN]
           /\ given' \in [Writers -> Nat]
           /\ remote' \in [Writers -> {"none", "in_progress", "completed", "aborted"}]
<1>1. ASSUME NEW r \in {"aborted", "abort_failed"}, AbortActive(w, r)
      PROVE  /\ upload' \in [Writers -> BOOLEAN] /\ token' \in [Writers -> BOOLEAN]
             /\ remote' \in [Writers -> {"none", "in_progress", "completed", "aborted"}]
             /\ DropUpload(w) /\ FinishActive(w)
  BY <1>1 DEF AbortActive, AbortAccepted, AbortRefused, TypeOK
<1>2. CASE \E r \in {"aborted", "abort_failed"} : AbortActive(w, r)
  BY <1>1, <1>2, DropTypes, FinishTypes
<1>3. CASE UNCHANGED <<active, activeMultipart, upload, buffers, remote, token>>
  BY <1>3 DEF TypeOK, buffers
<1> QED
  BY <1>2, <1>3 DEF AbortIfActive

\* Every step keeps the types; ACTIVE_MULTIPART never wraps.
LEMMA TypeStep ==
    ASSUME TypeOK, CounterExact, [Next]_vars
    PROVE  TypeOK'
<1> USE SizesAssumption
    DEF TypeOK, Steps, Selecting, call, writerState, buffers, provider
<1>1. ASSUME NEW w \in Writers, NEW k \in Keys, OpenWriter(w, k)
      PROVE  TypeOK'
  BY <1>1 DEF OpenWriter
<1>2. ASSUME NEW w \in Writers, CreateUpload(w)
      PROVE  TypeOK'
  BY <1>2 DEF CreateUpload
<1>3. ASSUME NEW w \in Writers, CreateFails(w)
      PROVE  TypeOK'
  BY <1>3 DEF CreateFails
<1>4. ASSUME NEW w \in Writers, MonitorOwner(w)
      PROVE  TypeOK'
  BY <1>4 DEF MonitorOwner
<1>5. ASSUME NEW w \in Writers, MonitorFails(w)
      PROVE  TypeOK'
  BY <1>5, AbortTypes DEF MonitorFails
<1>6. ASSUME NEW w \in Writers, CheckToken(w)
      PROVE  TypeOK'
  BY <1>6 DEF CheckToken
<1>7. ASSUME NEW w \in Writers, Register(w)
      PROVE  TypeOK'
  BY <1>7 DEF Register
<1>8. ASSUME NEW w \in Writers, JoinPart(w)
      PROVE  TypeOK'
  BY <1>8 DEF JoinPart, HasCapacity
<1>9. ASSUME NEW w \in Writers, AppendChunk(w)
      PROVE  TypeOK'
  <2>1. buffered[w] + chunk[w] \in Nat
    OBVIOUS
  <2>2. /\ (buffered[w] + chunk[w]) % PartSize \in Nat
        /\ (buffered[w] + chunk[w]) \div PartSize \in Nat
    BY <2>1, CutChunk
  <2>3. parts'[w] = [parts[w] EXCEPT
            !.sending = @ + ((buffered[w] + chunk[w]) \div PartSize)]
    BY <1>9 DEF AppendChunk
  <2>4. parts'[w] \in [sending : Nat, done : Nat, failed : Nat]
    BY <2>2, <2>3
  <2>5. parts' \in [Writers -> [sending : Nat, done : Nat, failed : Nat]]
    BY <1>9, <2>4 DEF AppendChunk
  <2>6. buffered' \in [Writers -> Nat] /\ given' \in [Writers -> Nat]
    BY <1>9, <2>2 DEF AppendChunk
  <2> QED
    BY <1>9, <2>5, <2>6 DEF AppendChunk
<1>10. ASSUME NEW w \in Writers, WriteFails(w)
       PROVE  TypeOK'
  <2>1. parts' \in [Writers -> [sending : Nat, done : Nat, failed : Nat]]
    <3>1. CASE parts[w].failed > 0 /\ parts' = [parts EXCEPT ![w].failed = @ - 1]
      BY <3>1
    <3>2. CASE UNCHANGED parts
      BY <3>2
    <3> QED
      BY <1>10, <3>1, <3>2 DEF WriteFails
  <2> QED
    BY <1>10, <2>1 DEF WriteFails
<1>11. ASSUME NEW w \in Writers, SendComplete(w)
       PROVE  TypeOK'
  BY <1>11 DEF SendComplete, ReadyToComplete
<1>12. ASSUME NEW w \in Writers, UploadFinished(w)
       PROVE  TypeOK'
  BY <1>12, FinishTypes DEF UploadFinished
<1>13. ASSUME NEW w \in Writers, FinishFails(w)
       PROVE  TypeOK'
  <2>1. remote' \in [Writers -> {"none", "in_progress", "completed", "aborted"}]
    BY <1>13 DEF FinishFails, AbortAccepted, AbortRefused
  <2> QED
    BY <1>13, <2>1, FinishTypes, DropTypes DEF FinishFails
<1>14. ASSUME NEW w \in Writers, FinishCancelled(w)
       PROVE  TypeOK'
  BY <1>14, FinishTypes, DropTypes DEF FinishCancelled
<1>15. ASSUME NEW w \in Writers, HeadAnswers(w)
       PROVE  TypeOK'
  BY <1>15 DEF HeadAnswers
<1>16. ASSUME NEW w \in Writers, DownCancels(w)
       PROVE  TypeOK'
  BY <1>16 DEF DownCancels
<1>17. ASSUME NEW w \in Writers, DownAborts(w)
       PROVE  TypeOK'
  BY <1>17, AbortTypes DEF DownAborts
<1>18. ASSUME NEW w \in Writers, PartEnds(w)
       PROVE  TypeOK'
  BY <1>18 DEF PartEnds
<1>19. ASSUME NEW w \in Writers, ProviderCompletes(w)
       PROVE  TypeOK'
  BY <1>19 DEF ProviderCompletes
<1>20. ASSUME NEW w \in Writers, NEW n \in 1 .. MaxChunk, BeginWrite(w, n)
       PROVE  TypeOK'
  BY <1>20 DEF BeginWrite, LockFree, Open
<1>21. ASSUME NEW w \in Writers, BeginPublish(w)
       PROVE  TypeOK'
  <2>1. parts' \in [Writers -> [sending : Nat, done : Nat, failed : Nat]]
    BY <1>21 DEF BeginPublish
  <2> QED
    BY <1>21, <2>1 DEF BeginPublish
<1>22. ASSUME NEW w \in Writers, Abort(w)
       PROVE  TypeOK'
  BY <1>22, AbortTypes DEF Abort
<1>23. ASSUME NEW w \in Writers, OwnerExits(w)
       PROVE  TypeOK'
  BY <1>23 DEF OwnerExits
<1>24. ASSUME NEW w \in Writers, DropWriter(w)
       PROVE  TypeOK'
  BY <1>24, AbortTypes DEF DropWriter
<1>25. ASSUME NEW k \in Keys, DeleteObject(k)
       PROVE  TypeOK'
  BY <1>25 DEF DeleteObject
<1>26. CASE Crash
  BY <1>26 DEF Crash, NoParts
<1>27. CASE UNCHANGED vars
  BY <1>27 DEF vars
<1> QED
  BY <1>1, <1>2, <1>3, <1>4, <1>5, <1>6, <1>7, <1>8, <1>9, <1>10, <1>11,
     <1>12, <1>13, <1>14, <1>15, <1>16, <1>17, <1>18, <1>19, <1>20, <1>21,
     <1>22, <1>23, <1>24, <1>25, <1>26, <1>27
  DEF Next, NativeStep, ProviderStep, CallerStep

\* Every step keeps the step of a call, the flags of the writer and the upload
\* at the provider in line.
LEMMA WellFormedStep ==
    ASSUME TypeOK, WellFormed, [Next]_vars
    PROVE  WellFormed'
<1> SUFFICES ASSUME NEW u \in Writers
             PROVE  UploadOK(u)'
  BY DEF WellFormed
<1>0. UploadOK(u)
  BY DEF WellFormed
<1> USE <1>0, AbsentAssumption, SizesAssumption
    DEF UploadOK, Sealed, Tasks, TypeOK, Selecting, call, writerState, buffers,
        provider
<1>1. ASSUME NEW w \in Writers, NEW k \in Keys, OpenWriter(w, k)
      PROVE  UploadOK(u)'
  BY <1>1 DEF OpenWriter
<1>2. ASSUME NEW w \in Writers, CreateUpload(w)
      PROVE  UploadOK(u)'
  BY <1>2 DEF CreateUpload
<1>3. ASSUME NEW w \in Writers, CreateFails(w)
      PROVE  UploadOK(u)'
  BY <1>3 DEF CreateFails
<1>4. ASSUME NEW w \in Writers, MonitorOwner(w)
      PROVE  UploadOK(u)'
  BY <1>4 DEF MonitorOwner
<1>5. ASSUME NEW w \in Writers, MonitorFails(w)
      PROVE  UploadOK(u)'
  BY <1>5 DEF MonitorFails, AbortIfActive, AbortActive, AbortAccepted,
     AbortRefused, DropUpload, NoParts, FinishActive
<1>6. ASSUME NEW w \in Writers, CheckToken(w)
      PROVE  UploadOK(u)'
  BY <1>6 DEF CheckToken
<1>7. ASSUME NEW w \in Writers, Register(w)
      PROVE  UploadOK(u)'
  BY <1>7 DEF Register
<1>8. ASSUME NEW w \in Writers, JoinPart(w)
      PROVE  UploadOK(u)'
  BY <1>8 DEF JoinPart, HasCapacity
<1>9. ASSUME NEW w \in Writers, AppendChunk(w)
      PROVE  UploadOK(u)'
  BY <1>9 DEF AppendChunk, HasCapacity
<1>10. ASSUME NEW w \in Writers, WriteFails(w)
       PROVE  UploadOK(u)'
  BY <1>10 DEF WriteFails, HasCapacity
<1>11. ASSUME NEW w \in Writers, SendComplete(w)
       PROVE  UploadOK(u)'
  BY <1>11 DEF SendComplete, ReadyToComplete
<1>12. ASSUME NEW w \in Writers, UploadFinished(w)
       PROVE  UploadOK(u)'
  BY <1>12 DEF UploadFinished, FinishActive
<1>13. ASSUME NEW w \in Writers, FinishFails(w)
       PROVE  UploadOK(u)'
  BY <1>13 DEF FinishFails, AbortAccepted, AbortRefused, DropUpload, NoParts,
     FinishActive
<1>14. ASSUME NEW w \in Writers, FinishCancelled(w)
       PROVE  UploadOK(u)'
  BY <1>14 DEF FinishCancelled, DropUpload, NoParts, FinishActive
<1>15. ASSUME NEW w \in Writers, HeadAnswers(w)
       PROVE  UploadOK(u)'
  BY <1>15 DEF HeadAnswers
<1>16. ASSUME NEW w \in Writers, DownCancels(w)
       PROVE  UploadOK(u)'
  BY <1>16 DEF DownCancels
<1>17. ASSUME NEW w \in Writers, DownAborts(w)
       PROVE  UploadOK(u)'
  <2>1. CASE active[w]
    BY <1>17, <2>1 DEF DownAborts, AbortIfActive, AbortActive, AbortAccepted,
       AbortRefused, DropUpload, NoParts, FinishActive, LockFree
  <2>2. CASE ~active[w]
    BY <1>17, <2>2 DEF DownAborts, AbortIfActive, LockFree
  <2> QED
    BY <2>1, <2>2
<1>18. ASSUME NEW w \in Writers, PartEnds(w)
       PROVE  UploadOK(u)'
  BY <1>18 DEF PartEnds
<1>19. ASSUME NEW w \in Writers, ProviderCompletes(w)
       PROVE  UploadOK(u)'
  BY <1>19 DEF ProviderCompletes
<1>20. ASSUME NEW w \in Writers, NEW n \in 1 .. MaxChunk, BeginWrite(w, n)
       PROVE  UploadOK(u)'
  BY <1>20 DEF BeginWrite, LockFree, Open
<1>21. ASSUME NEW w \in Writers, BeginPublish(w)
       PROVE  UploadOK(u)'
  BY <1>21 DEF BeginPublish, LockFree, Open
<1>22. ASSUME NEW w \in Writers, Abort(w)
       PROVE  UploadOK(u)'
  BY <1>22 DEF Abort, AbortActive, AbortAccepted, AbortRefused, DropUpload,
     NoParts, FinishActive, LockFree
<1>23. ASSUME NEW w \in Writers, OwnerExits(w)
       PROVE  UploadOK(u)'
  BY <1>23 DEF OwnerExits
<1>24. ASSUME NEW w \in Writers, DropWriter(w)
       PROVE  UploadOK(u)'
  BY <1>24 DEF DropWriter, AbortIfActive, AbortActive, AbortAccepted,
     AbortRefused, DropUpload, NoParts, FinishActive, LockFree
<1>25. ASSUME NEW k \in Keys, DeleteObject(k)
       PROVE  UploadOK(u)'
  BY <1>25 DEF DeleteObject
<1>26. CASE Crash
  BY <1>26 DEF Crash, NoParts
<1>27. CASE UNCHANGED vars
  BY <1>27 DEF vars
<1> QED
  BY <1>1, <1>2, <1>3, <1>4, <1>5, <1>6, <1>7, <1>8, <1>9, <1>10, <1>11,
     <1>12, <1>13, <1>14, <1>15, <1>16, <1>17, <1>18, <1>19, <1>20, <1>21,
     <1>22, <1>23, <1>24, <1>25, <1>26, <1>27
  DEF Next, NativeStep, ProviderStep, CallerStep

\* finish_active takes one off the counter exactly when the writer counted.
LEMMA FinishCounts ==
    ASSUME TypeOK, CounterExact, NEW w \in Writers, FinishActive(w)
    PROVE  CounterExact'
<1> DEFINE A == {u \in Writers : active[u]}
<1>1. IsFiniteSet(A) /\ A' = A \ {w}
  BY AbsentAssumption, FS_Subset DEF FinishActive, TypeOK
<1>2. CASE active[w]
  <2>1. Cardinality(A \ {w}) = Cardinality(A) - 1
    BY <1>1, <1>2, FS_RemoveElement
  <2> QED
    BY <1>1, <1>2, <2>1 DEF CounterExact, FinishActive, TypeOK
<1>3. CASE ~active[w]
  <2>1. A \ {w} = A
    BY <1>3
  <2>2. activeMultipart' = activeMultipart
    BY <1>3 DEF FinishActive, TypeOK
  <2> QED
    BY <1>1, <2>1, <2>2 DEF CounterExact
<1> QED
  BY <1>2, <1>3

\* ACTIVE_MULTIPART stays exact, whichever of publish, abort, the owner's
\* exit and Drop ends a writer.
LEMMA CounterStep ==
    ASSUME TypeOK, WellFormed, CounterExact, [Next]_vars
    PROVE  CounterExact'
<1>1. ASSUME NEW w \in Writers, CreateUpload(w)
      PROVE  CounterExact'
  <2> DEFINE A == {u \in Writers : active[u]}
  <2>1. ~active[w]
    BY <1>1 DEF CreateUpload, WellFormed, UploadOK
  <2>2. IsFiniteSet(A) /\ w \notin A /\ A' = A \cup {w}
    BY <1>1, <2>1, AbsentAssumption, FS_Subset DEF CreateUpload, TypeOK
  <2>3. Cardinality(A \cup {w}) = Cardinality(A) + 1
    BY <2>2, FS_AddElement
  <2> QED
    BY <1>1, <2>2, <2>3 DEF CounterExact, CreateUpload
<1>2. ASSUME NEW w \in Writers,
             UploadFinished(w) \/ FinishFails(w) \/ FinishCancelled(w) \/ Abort(w)
      PROVE  CounterExact'
  <2>1. FinishActive(w)
    BY <1>2 DEF UploadFinished, FinishFails, FinishCancelled, Abort, AbortActive
  <2> QED
    BY <2>1, FinishCounts
<1>3. ASSUME NEW w \in Writers,
             MonitorFails(w) \/ DownAborts(w) \/ DropWriter(w)
      PROVE  CounterExact'
  <2>1. FinishActive(w) \/ UNCHANGED <<active, activeMultipart>>
    BY <1>3 DEF MonitorFails, DownAborts, DropWriter, AbortIfActive, AbortActive
  <2> QED
    BY <2>1, FinishCounts DEF CounterExact
<1>4. CASE Crash
  <2>1. {u \in Writers : active'[u]} = {}
    BY <1>4 DEF Crash
  <2> QED
    BY <1>4, <2>1, FS_EmptySet DEF CounterExact, Crash
<1>5. CASE UNCHANGED <<active, activeMultipart>>
  BY <1>5 DEF CounterExact
<1> QED
  BY <1>1, <1>2, <1>3, <1>4, <1>5
  DEF Next, NativeStep, ProviderStep, CallerStep, vars, writerState, OpenWriter,
      CreateFails, MonitorOwner, CheckToken, Register, JoinPart, AppendChunk,
      WriteFails, SendComplete, HeadAnswers, DownCancels, PartEnds,
      ProviderCompletes, BeginWrite, BeginPublish, OwnerExits, DeleteObject

\* Every answer stays honest: what publish and abort have reported about the
\* upload remains so.
LEMMA ReplyStep ==
    ASSUME TypeOK, WellFormed, ReplyHonest, [Next]_vars
    PROVE  ReplyHonest'
<1> DEFINE Honest(u) ==
        /\ reply[u] = "published" => remote[u] = "completed"
        /\ reply[u] \in {"aborted", "abort_failed"} =>
               remote[u] # "completed" /\ ~requested[u]
<1> SUFFICES ASSUME NEW u \in Writers
             PROVE  Honest(u)'
  BY DEF ReplyHonest
<1>0. Honest(u) /\ UploadOK(u)
  BY DEF ReplyHonest, WellFormed
<1> USE <1>0
    DEF UploadOK, Sealed, TypeOK, Selecting, call, writerState, buffers, provider
<1>1. ASSUME NEW w \in Writers, NEW k \in Keys, OpenWriter(w, k)
      PROVE  Honest(u)'
  BY <1>1 DEF OpenWriter
<1>2. ASSUME NEW w \in Writers, CreateUpload(w)
      PROVE  Honest(u)'
  BY <1>2 DEF CreateUpload
<1>3. ASSUME NEW w \in Writers, CreateFails(w)
      PROVE  Honest(u)'
  BY <1>3 DEF CreateFails
<1>4. ASSUME NEW w \in Writers, MonitorOwner(w)
      PROVE  Honest(u)'
  BY <1>4 DEF MonitorOwner
<1>5. ASSUME NEW w \in Writers, MonitorFails(w)
      PROVE  Honest(u)'
  BY <1>5 DEF MonitorFails, AbortIfActive, AbortActive, AbortAccepted,
     AbortRefused, DropUpload, NoParts, FinishActive
<1>6. ASSUME NEW w \in Writers, CheckToken(w)
      PROVE  Honest(u)'
  BY <1>6 DEF CheckToken
<1>7. ASSUME NEW w \in Writers, Register(w)
      PROVE  Honest(u)'
  BY <1>7 DEF Register
<1>8. ASSUME NEW w \in Writers, JoinPart(w)
      PROVE  Honest(u)'
  BY <1>8 DEF JoinPart, HasCapacity
<1>9. ASSUME NEW w \in Writers, AppendChunk(w)
      PROVE  Honest(u)'
  BY <1>9 DEF AppendChunk, HasCapacity
<1>10. ASSUME NEW w \in Writers, WriteFails(w)
       PROVE  Honest(u)'
  BY <1>10 DEF WriteFails, HasCapacity
<1>11. ASSUME NEW w \in Writers, SendComplete(w)
       PROVE  Honest(u)'
  BY <1>11 DEF SendComplete, ReadyToComplete
<1>12. ASSUME NEW w \in Writers, UploadFinished(w)
       PROVE  Honest(u)'
  BY <1>12 DEF UploadFinished, FinishActive
<1>13. ASSUME NEW w \in Writers, FinishFails(w)
       PROVE  Honest(u)'
  BY <1>13 DEF FinishFails, AbortAccepted, AbortRefused, DropUpload, NoParts,
     FinishActive
<1>14. ASSUME NEW w \in Writers, FinishCancelled(w)
       PROVE  Honest(u)'
  BY <1>14 DEF FinishCancelled, DropUpload, NoParts, FinishActive
<1>15. ASSUME NEW w \in Writers, HeadAnswers(w)
       PROVE  Honest(u)'
  BY <1>15 DEF HeadAnswers
<1>16. ASSUME NEW w \in Writers, DownCancels(w)
       PROVE  Honest(u)'
  BY <1>16 DEF DownCancels
<1>17. ASSUME NEW w \in Writers, DownAborts(w)
       PROVE  Honest(u)'
  BY <1>17 DEF DownAborts, AbortIfActive, AbortActive, AbortAccepted,
     AbortRefused, DropUpload, NoParts, FinishActive, LockFree
<1>18. ASSUME NEW w \in Writers, PartEnds(w)
       PROVE  Honest(u)'
  BY <1>18 DEF PartEnds
<1>19. ASSUME NEW w \in Writers, ProviderCompletes(w)
       PROVE  Honest(u)'
  BY <1>19 DEF ProviderCompletes
<1>20. ASSUME NEW w \in Writers, NEW n \in 1 .. MaxChunk, BeginWrite(w, n)
       PROVE  Honest(u)'
  BY <1>20 DEF BeginWrite, LockFree, Open
<1>21. ASSUME NEW w \in Writers, BeginPublish(w)
       PROVE  Honest(u)'
  BY <1>21 DEF BeginPublish, LockFree, Open
<1>22. ASSUME NEW w \in Writers, Abort(w)
       PROVE  Honest(u)'
  BY <1>22 DEF Abort, AbortActive, AbortAccepted, AbortRefused, DropUpload,
     NoParts, FinishActive, LockFree
<1>23. ASSUME NEW w \in Writers, OwnerExits(w)
       PROVE  Honest(u)'
  BY <1>23 DEF OwnerExits
<1>24. ASSUME NEW w \in Writers, DropWriter(w)
       PROVE  Honest(u)'
  BY <1>24 DEF DropWriter, AbortIfActive, AbortActive, AbortAccepted,
     AbortRefused, DropUpload, NoParts, FinishActive, LockFree
<1>25. ASSUME NEW k \in Keys, DeleteObject(k)
       PROVE  Honest(u)'
  BY <1>25 DEF DeleteObject
<1>26. CASE Crash
  BY <1>26 DEF Crash, NoParts
<1>27. CASE UNCHANGED vars
  BY <1>27 DEF vars
<1> QED
  BY <1>1, <1>2, <1>3, <1>4, <1>5, <1>6, <1>7, <1>8, <1>9, <1>10, <1>11,
     <1>12, <1>13, <1>14, <1>15, <1>16, <1>17, <1>18, <1>19, <1>20, <1>21,
     <1>22, <1>23, <1>24, <1>25, <1>26, <1>27
  DEF Next, NativeStep, ProviderStep, CallerStep

\* Every step preserves the inductive invariant.
LEMMA NextIInv == IInv /\ [Next]_vars => IInv'
  BY TypeStep, WellFormedStep, CounterStep, ReplyStep DEF IInv

(***************************************************************************)
(* The inductive invariant holds in every reachable state of the writers.  *)
(***************************************************************************)
THEOREM Invariance == Spec => []IInv
<1>1. Init => IInv
  BY InitIInv
<1>2. IInv /\ [Next]_vars => IInv'
  BY NextIInv
<1> QED
  BY <1>1, <1>2, PTL DEF Spec

(***************************************************************************)
(* ACTIVE_MULTIPART counts the active writers exactly, and an upload that  *)
(* a writer still holds is one that its abort will ask the provider to     *)
(* drop, whichever of publish, abort, the owner's exit, Drop and a crash   *)
(* ended the others (finish_active, RemoteMultipartWriter::abort).         *)
(***************************************************************************)
THEOREM UploadsAreConsistent == Spec => []UploadConsistent
<1>1. IInv => UploadConsistent
  BY DEF IInv, UploadConsistent, HeldUploadIsActive, WellFormed, UploadOK
<1> QED
  BY <1>1, Invariance, PTL

(***************************************************************************)
(* An object that the provider completes is whole, also when publish was   *)
(* cancelled or the instance died while the request was on its way, and    *)
(* whatever write calls failed before (RemoteMultipartWriter::publish).    *)
(***************************************************************************)
THEOREM CompletedObjectsAreWhole == Spec => []CompletedWhole
<1>1. IInv => CompletedWhole
  BY DEF IInv, CompletedWhole, WellFormed, UploadOK, Sealed
<1> QED
  BY <1>1, Invariance, PTL

(***************************************************************************)
(* publish answers ok only for a completed upload, and an abort that       *)
(* answered, ok or not, is never overtaken by a completion.                *)
(***************************************************************************)
THEOREM HonestReplies == Spec => []ReplyHonest
<1>1. IInv => ReplyHonest
  BY DEF IInv
<1> QED
  BY <1>1, Invariance, PTL

(***************************************************************************)
(* Once the token is set, only a publish that was already admitted can     *)
(* still complete: a writer doomed by cancel or by its owner's exit stays  *)
(* doomed.                                                                 *)
(***************************************************************************)
THEOREM CancelledStaysDoomed == Spec => CancelStopsPublish
<1>1. TypeOK /\ WellFormed /\ [Next]_vars
        => [\A w \in Writers : Doomed(w) => Doomed(w)']_vars
  <2> SUFFICES ASSUME TypeOK, WellFormed, NEW u \in Writers, Doomed(u), [Next]_vars
               PROVE  Doomed(u)'
    OBVIOUS
  <2>0. UploadOK(u)
    BY DEF WellFormed
  <2> USE <2>0
      DEF Doomed, UploadOK, TypeOK, Selecting, call, writerState, buffers, provider
  <2>1. ASSUME NEW w \in Writers, NEW k \in Keys, OpenWriter(w, k)
        PROVE  Doomed(u)'
    BY <2>1 DEF OpenWriter
  <2>2. ASSUME NEW w \in Writers, CreateUpload(w)
        PROVE  Doomed(u)'
    BY <2>2 DEF CreateUpload
  <2>3. ASSUME NEW w \in Writers, CreateFails(w)
        PROVE  Doomed(u)'
    BY <2>3 DEF CreateFails
  <2>4. ASSUME NEW w \in Writers, MonitorOwner(w)
        PROVE  Doomed(u)'
    BY <2>4 DEF MonitorOwner
  <2>5. ASSUME NEW w \in Writers, MonitorFails(w)
        PROVE  Doomed(u)'
    BY <2>5 DEF MonitorFails, AbortIfActive, AbortActive, AbortAccepted,
       AbortRefused, DropUpload, NoParts, FinishActive
  <2>6. ASSUME NEW w \in Writers, CheckToken(w)
        PROVE  Doomed(u)'
    BY <2>6 DEF CheckToken
  <2>7. ASSUME NEW w \in Writers, Register(w)
        PROVE  Doomed(u)'
    BY <2>7 DEF Register
  <2>8. ASSUME NEW w \in Writers, JoinPart(w)
        PROVE  Doomed(u)'
    BY <2>8 DEF JoinPart, HasCapacity
  <2>9. ASSUME NEW w \in Writers, AppendChunk(w)
        PROVE  Doomed(u)'
    BY <2>9 DEF AppendChunk, HasCapacity
  <2>10. ASSUME NEW w \in Writers, WriteFails(w)
         PROVE  Doomed(u)'
    BY <2>10 DEF WriteFails, HasCapacity
  <2>11. ASSUME NEW w \in Writers, SendComplete(w)
         PROVE  Doomed(u)'
    BY <2>11 DEF SendComplete, ReadyToComplete
  <2>12. ASSUME NEW w \in Writers, UploadFinished(w)
         PROVE  Doomed(u)'
    BY <2>12 DEF UploadFinished, FinishActive
  <2>13. ASSUME NEW w \in Writers, FinishFails(w)
         PROVE  Doomed(u)'
    BY <2>13 DEF FinishFails, AbortAccepted, AbortRefused, DropUpload, NoParts,
       FinishActive
  <2>14. ASSUME NEW w \in Writers, FinishCancelled(w)
         PROVE  Doomed(u)'
    BY <2>14 DEF FinishCancelled, DropUpload, NoParts, FinishActive
  <2>15. ASSUME NEW w \in Writers, HeadAnswers(w)
         PROVE  Doomed(u)'
    BY <2>15 DEF HeadAnswers
  <2>16. ASSUME NEW w \in Writers, DownCancels(w)
         PROVE  Doomed(u)'
    BY <2>16 DEF DownCancels
  <2>17. ASSUME NEW w \in Writers, DownAborts(w)
         PROVE  Doomed(u)'
    BY <2>17 DEF DownAborts, AbortIfActive, AbortActive, AbortAccepted,
       AbortRefused, DropUpload, NoParts, FinishActive, LockFree
  <2>18. ASSUME NEW w \in Writers, PartEnds(w)
         PROVE  Doomed(u)'
    BY <2>18 DEF PartEnds
  <2>19. ASSUME NEW w \in Writers, ProviderCompletes(w)
         PROVE  Doomed(u)'
    BY <2>19 DEF ProviderCompletes
  <2>20. ASSUME NEW w \in Writers, NEW n \in 1 .. MaxChunk, BeginWrite(w, n)
         PROVE  Doomed(u)'
    BY <2>20 DEF BeginWrite, LockFree, Open
  <2>21. ASSUME NEW w \in Writers, BeginPublish(w)
         PROVE  Doomed(u)'
    BY <2>21 DEF BeginPublish, LockFree, Open
  <2>22. ASSUME NEW w \in Writers, Abort(w)
         PROVE  Doomed(u)'
    BY <2>22 DEF Abort, AbortActive, AbortAccepted, AbortRefused, DropUpload,
       NoParts, FinishActive, LockFree
  <2>23. ASSUME NEW w \in Writers, OwnerExits(w)
         PROVE  Doomed(u)'
    BY <2>23 DEF OwnerExits
  <2>24. ASSUME NEW w \in Writers, DropWriter(w)
         PROVE  Doomed(u)'
    <3>1. CASE active[w]
      BY <2>24, <3>1 DEF DropWriter, AbortIfActive, AbortActive, AbortAccepted,
         AbortRefused, DropUpload, FinishActive, LockFree
    <3>2. CASE ~active[w]
      BY <2>24, <3>2 DEF DropWriter, AbortIfActive, LockFree
    <3> QED
      BY <3>1, <3>2
  <2>25. ASSUME NEW k \in Keys, DeleteObject(k)
         PROVE  Doomed(u)'
    BY <2>25 DEF DeleteObject
  <2>26. CASE Crash
    BY <2>26 DEF Crash, NoParts
  <2>27. CASE UNCHANGED vars
    BY <2>27 DEF vars
  <2> QED
    BY <2>1, <2>2, <2>3, <2>4, <2>5, <2>6, <2>7, <2>8, <2>9, <2>10, <2>11,
       <2>12, <2>13, <2>14, <2>15, <2>16, <2>17, <2>18, <2>19, <2>20, <2>21,
       <2>22, <2>23, <2>24, <2>25, <2>26, <2>27
    DEF Next, NativeStep, ProviderStep, CallerStep
<1>2. IInv => TypeOK /\ WellFormed
  BY DEF IInv
<1> QED
  BY <1>1, <1>2, Invariance, PTL DEF Spec, CancelStopsPublish
-----------------------------------------------------------------------------
(***************************************************************************)
(* The buffer bound.  While a writer holds its upload at most max_in_      *)
(* flight_parts parts are on their way, and publish adds the one that was  *)
(* in the buffer.                                                          *)
(***************************************************************************)
BufferOK(w) ==
    /\ chunk[w] <= MaxChunk
    /\ buffered[w] < PartSize
    /\ parts[w].sending <= MaxInFlight + 1
    /\ pc[w] \notin {"finishing", "completing"} => parts[w].sending <= MaxInFlight
    /\ parts[w].sending = MaxInFlight + 1 => buffered[w] = 0
BufferBounded == \A w \in Writers : BufferOK(w)

\* Every step keeps what a writer buffers within the bound, when no chunk is
\* larger than a part.
LEMMA BufferStep ==
    ASSUME MaxChunk <= PartSize, TypeOK, WellFormed, BufferBounded, [Next]_vars
    PROVE  BufferBounded'
<1> SUFFICES ASSUME NEW u \in Writers
             PROVE  BufferOK(u)'
  BY DEF BufferBounded
<1>0. BufferOK(u) /\ UploadOK(u)
  BY DEF BufferBounded, WellFormed
<1> USE <1>0, SizesAssumption
    DEF BufferOK, UploadOK, Sealed, Tasks, TypeOK, Selecting, call, writerState,
        buffers, provider
<1>1. ASSUME NEW w \in Writers, NEW k \in Keys, OpenWriter(w, k)
      PROVE  BufferOK(u)'
  BY <1>1 DEF OpenWriter
<1>2. ASSUME NEW w \in Writers, CreateUpload(w)
      PROVE  BufferOK(u)'
  BY <1>2 DEF CreateUpload
<1>3. ASSUME NEW w \in Writers, CreateFails(w)
      PROVE  BufferOK(u)'
  BY <1>3 DEF CreateFails
<1>4. ASSUME NEW w \in Writers, MonitorOwner(w)
      PROVE  BufferOK(u)'
  BY <1>4 DEF MonitorOwner
<1>5. ASSUME NEW w \in Writers, MonitorFails(w)
      PROVE  BufferOK(u)'
  BY <1>5 DEF MonitorFails, AbortIfActive, AbortActive, AbortAccepted,
     AbortRefused, DropUpload, NoParts, FinishActive
<1>6. ASSUME NEW w \in Writers, CheckToken(w)
      PROVE  BufferOK(u)'
  BY <1>6 DEF CheckToken
<1>7. ASSUME NEW w \in Writers, Register(w)
      PROVE  BufferOK(u)'
  BY <1>7 DEF Register
<1>8. ASSUME NEW w \in Writers, JoinPart(w)
      PROVE  BufferOK(u)'
  BY <1>8 DEF JoinPart, HasCapacity
<1>9. ASSUME NEW w \in Writers, AppendChunk(w)
      PROVE  BufferOK(u)'
  <2> DEFINE total == buffered[w] + chunk[w]
  <2>1. CASE u # w
    BY <1>9, <2>1 DEF AppendChunk
  <2>2. CASE u = w
    <3>1. total \in Nat /\ total < 2 * PartSize
      BY <2>2
    <3>2. /\ total % PartSize < PartSize
          /\ total \div PartSize \in Nat /\ total \div PartSize <= 1
      BY <3>1, CutChunk
    <3>3. /\ buffered'[w] = total % PartSize
          /\ parts'[w].sending = parts[w].sending + (total \div PartSize)
          /\ chunk'[w] = 0 /\ pc'[w] = "idle"
      BY <1>9 DEF AppendChunk
    <3>4. parts[w].sending < MaxInFlight
      BY <1>9 DEF AppendChunk, HasCapacity
    <3>5. parts'[w].sending <= MaxInFlight
      BY <3>2, <3>3, <3>4
    <3> QED
      BY <2>2, <3>2, <3>3, <3>5
  <2> QED
    BY <2>1, <2>2
<1>10. ASSUME NEW w \in Writers, WriteFails(w)
       PROVE  BufferOK(u)'
  BY <1>10 DEF WriteFails, HasCapacity
<1>11. ASSUME NEW w \in Writers, SendComplete(w)
       PROVE  BufferOK(u)'
  BY <1>11 DEF SendComplete, ReadyToComplete
<1>12. ASSUME NEW w \in Writers, UploadFinished(w)
       PROVE  BufferOK(u)'
  BY <1>12 DEF UploadFinished, FinishActive
<1>13. ASSUME NEW w \in Writers, FinishFails(w)
       PROVE  BufferOK(u)'
  BY <1>13 DEF FinishFails, AbortAccepted, AbortRefused, DropUpload, NoParts,
     FinishActive
<1>14. ASSUME NEW w \in Writers, FinishCancelled(w)
       PROVE  BufferOK(u)'
  BY <1>14 DEF FinishCancelled, DropUpload, NoParts, FinishActive
<1>15. ASSUME NEW w \in Writers, HeadAnswers(w)
       PROVE  BufferOK(u)'
  BY <1>15 DEF HeadAnswers
<1>16. ASSUME NEW w \in Writers, DownCancels(w)
       PROVE  BufferOK(u)'
  BY <1>16 DEF DownCancels
<1>17. ASSUME NEW w \in Writers, DownAborts(w)
       PROVE  BufferOK(u)'
  BY <1>17 DEF DownAborts, AbortIfActive, AbortActive, AbortAccepted,
     AbortRefused, DropUpload, NoParts, FinishActive, LockFree
<1>18. ASSUME NEW w \in Writers, PartEnds(w)
       PROVE  BufferOK(u)'
  BY <1>18 DEF PartEnds
<1>19. ASSUME NEW w \in Writers, ProviderCompletes(w)
       PROVE  BufferOK(u)'
  BY <1>19 DEF ProviderCompletes
<1>20. ASSUME NEW w \in Writers, NEW n \in 1 .. MaxChunk, BeginWrite(w, n)
       PROVE  BufferOK(u)'
  BY <1>20 DEF BeginWrite, LockFree, Open
<1>21. ASSUME NEW w \in Writers, BeginPublish(w)
       PROVE  BufferOK(u)'
  BY <1>21 DEF BeginPublish, LockFree, Open
<1>22. ASSUME NEW w \in Writers, Abort(w)
       PROVE  BufferOK(u)'
  BY <1>22 DEF Abort, AbortActive, AbortAccepted, AbortRefused, DropUpload,
     NoParts, FinishActive, LockFree
<1>23. ASSUME NEW w \in Writers, OwnerExits(w)
       PROVE  BufferOK(u)'
  BY <1>23 DEF OwnerExits
<1>24. ASSUME NEW w \in Writers, DropWriter(w)
       PROVE  BufferOK(u)'
  BY <1>24 DEF DropWriter, AbortIfActive, AbortActive, AbortAccepted,
     AbortRefused, DropUpload, NoParts, FinishActive, LockFree
<1>25. ASSUME NEW k \in Keys, DeleteObject(k)
       PROVE  BufferOK(u)'
  BY <1>25 DEF DeleteObject
<1>26. CASE Crash
  BY <1>26 DEF Crash, NoParts
<1>27. CASE UNCHANGED vars
  BY <1>27 DEF vars
<1> QED
  BY <1>1, <1>2, <1>3, <1>4, <1>5, <1>6, <1>7, <1>8, <1>9, <1>10, <1>11,
     <1>12, <1>13, <1>14, <1>15, <1>16, <1>17, <1>18, <1>19, <1>20, <1>21,
     <1>22, <1>23, <1>24, <1>25, <1>26, <1>27
  DEF Next, NativeStep, ProviderStep, CallerStep

(***************************************************************************)
(* What a writer buffers stays within multipart_buffer_limit_bytes as long *)
(* as no chunk is larger than a part: wait_for_capacity before each write  *)
(* leaves room for the parts that the write and the publish can add.  The  *)
(* hypothesis is needed: MCMultipartWriterLargeChunk.cfg refutes the bound *)
(* without it.                                                             *)
(***************************************************************************)
THEOREM BuffersAreBounded ==
    ASSUME MaxChunk <= PartSize
    PROVE  Spec => []BufferWithinLimit
<1>1. Init => BufferBounded
  BY SizesAssumption DEF Init, BufferBounded, BufferOK, NoParts
<1>2. IInv /\ BufferBounded /\ [Next]_vars => BufferBounded'
  BY BufferStep DEF IInv
<1>3. IInv /\ BufferBounded => BufferWithinLimit
  <2> SUFFICES ASSUME TypeOK, BufferBounded, NEW w \in Writers
               PROVE  buffered[w] + parts[w].sending * PartSize
                        <= (MaxInFlight + 1) * PartSize
    BY DEF IInv, BufferWithinLimit
  <2>1. /\ buffered[w] \in Nat /\ parts[w].sending \in Nat
        /\ PartSize \in Nat \ {0} /\ MaxInFlight \in Nat \ {0}
        /\ BufferOK(w)
    BY SizesAssumption DEF TypeOK, BufferBounded
  <2>2. CASE parts[w].sending = MaxInFlight + 1
    BY <2>1, <2>2 DEF BufferOK
  <2>3. CASE parts[w].sending <= MaxInFlight
    <3>1. parts[w].sending * PartSize <= MaxInFlight * PartSize
      BY <2>1, <2>3
    <3>2. (MaxInFlight + 1) * PartSize = MaxInFlight * PartSize + PartSize
      BY <2>1
    <3> QED
      BY <2>1, <3>1, <3>2 DEF BufferOK
  <2> QED
    BY <2>1, <2>2, <2>3 DEF BufferOK
<1> QED
  BY <1>1, <1>2, <1>3, Invariance, PTL DEF Spec
-----------------------------------------------------------------------------
(***************************************************************************)
(* The refinement.  A writer is open in the abstract store while it is     *)
(* being opened, while it is active and, after its publish has given up,   *)
(* while the completion it requested may still take effect.                *)
(***************************************************************************)
AbstractVars == <<visible, AbstractStatus, key, AbstractContent>>

\* The abstract status of one writer.
StatusOf(w) ==
    IF remote[w] = "completed" THEN "published"
    ELSE IF pc[w] = "unopened" THEN "unopened"
    ELSE IF active[w] \/ pc[w] = "opening" \/ MayComplete(w) THEN "open"
    ELSE "discarded"

\* The abstract content is what was acknowledged.
LEMMA ContentFrame ==
    ASSUME UNCHANGED given
    PROVE  UNCHANGED AbstractContent
  BY DEF AbstractContent

\* A step of one writer changes the status of no other.
LEMMA StatusFrame ==
    ASSUME NEW w \in Writers,
           \A u \in Writers : u # w => StatusOf(u)' = StatusOf(u)
    PROVE  AbstractStatus' = [AbstractStatus EXCEPT ![w] = StatusOf(w)']
  BY DEF AbstractStatus, StatusOf

\* A step of one writer that leaves the objects alone either discards that
\* writer, which was open, or is none that the abstract store can see.
LEMMA EndsOrStays ==
    ASSUME NEW w \in Writers,
           \A u \in Writers : u # w => StatusOf(u)' = StatusOf(u),
           \/ StatusOf(w)' = StatusOf(w)
           \/ StatusOf(w) = "open" /\ StatusOf(w)' = "discarded",
           UNCHANGED <<visible, key, given>>
    PROVE  Abstract!Next \/ UNCHANGED AbstractVars
<1>1. UNCHANGED AbstractContent
  BY ContentFrame
<1>2. AbstractStatus' = [AbstractStatus EXCEPT ![w] = StatusOf(w)']
  BY StatusFrame
<1>3. AbstractStatus[w] = StatusOf(w)
  BY DEF AbstractStatus, StatusOf
<1>4. CASE StatusOf(w)' = StatusOf(w)
  <2>1. AbstractStatus' = AbstractStatus
    BY <1>2, <1>3, <1>4 DEF AbstractStatus
  <2> QED
    BY <1>1, <2>1 DEF AbstractVars
<1>5. CASE StatusOf(w) = "open" /\ StatusOf(w)' = "discarded"
  <2>1. Abstract!Discard({w})
    BY <1>1, <1>2, <1>3, <1>5 DEF Abstract!Discard, AbstractStatus
  <2> QED
    BY <2>1 DEF Abstract!Next
<1> QED
  BY <1>4, <1>5

\* The initial states of the writers are initial states of the store.
LEMMA InitRefines == Init => Abstract!Init
  BY DEF Init, Abstract!Init, AbstractStatus, AbstractContent,
     Abstract!NoContent

\* Every step is a step of the store or leaves it alone.
LEMMA StepRefines ==
    ASSUME IInv, [Next]_vars
    PROVE  Abstract!Next \/ UNCHANGED AbstractVars
<1>0. TypeOK /\ \A u \in Writers : UploadOK(u)
  BY DEF IInv, WellFormed
<1>1. ASSUME NEW w \in Writers, NEW k \in Keys, OpenWriter(w, k)
      PROVE  Abstract!Next
  <2>1. StatusOf(w) = "unopened" /\ StatusOf(w)' = "open"
    BY <1>0, <1>1 DEF OpenWriter, StatusOf, UploadOK, TypeOK, provider
  <2>2. \A u \in Writers : u # w => StatusOf(u)' = StatusOf(u)
    BY <1>0, <1>1 DEF OpenWriter, StatusOf, MayComplete, TypeOK, writerState,
       provider
  <2>3. AbstractStatus[w] = StatusOf(w)
    BY DEF AbstractStatus, StatusOf
  <2>4. AbstractStatus' = [AbstractStatus EXCEPT ![w] = "open"]
    BY <2>1, <2>2, StatusFrame
  <2>5. UNCHANGED <<visible, AbstractContent>>
    BY <1>1, ContentFrame DEF OpenWriter, buffers, provider
  <2>6. Abstract!Begin(w, k)
    BY <1>1, <2>1, <2>3, <2>4, <2>5 DEF OpenWriter, Abstract!Begin
  <2> QED
    BY <2>6 DEF Abstract!Next
<1>2. ASSUME NEW w \in Writers, AppendChunk(w)
      PROVE  Abstract!Next
  <2>1. active[w] /\ remote[w] = "in_progress"
    BY <1>0, <1>2 DEF AppendChunk, UploadOK
  <2>2. AbstractStatus[w] = "open"
    BY <1>2, <2>1 DEF AppendChunk, AbstractStatus
  <2>3. UNCHANGED <<visible, AbstractStatus, key>>
    BY <1>0, <1>2, <2>1
    DEF AppendChunk, AbstractStatus, MayComplete, TypeOK, writerState, provider
  <2>4. given'[w] \in Nat /\ \A u \in Writers : u # w => given'[u] = given[u]
    BY <1>0, <1>2 DEF AppendChunk, TypeOK
  <2>5. /\ AbstractContent'[w] \in Abstract!Content
        /\ AbstractContent' = [AbstractContent EXCEPT ![w] = AbstractContent'[w]]
    BY <2>4 DEF AbstractContent, Abstract!Content
  <2>6. Abstract!Amend(w)
    BY <2>2, <2>3, <2>5 DEF Abstract!Amend
  <2> QED
    BY <2>6 DEF Abstract!Next
<1>3. ASSUME NEW w \in Writers, ProviderCompletes(w)
      PROVE  Abstract!Next \/ UNCHANGED AbstractVars
  <2>1. \A u \in Writers : u # w => StatusOf(u)' = StatusOf(u)
    BY <1>0, <1>3 DEF ProviderCompletes, StatusOf, MayComplete, TypeOK, call,
       writerState
  <2>2. CASE remote[w] = "aborted"
    <3>1. StatusOf(w)' = StatusOf(w) /\ UNCHANGED <<visible, key, given>>
      BY <1>3, <2>2 DEF ProviderCompletes, StatusOf, MayComplete, call,
         writerState, buffers
    <3> QED
      BY <2>1, <3>1, EndsOrStays
  <2>3. CASE remote[w] = "in_progress"
    <3>1. StatusOf(w) = "open" /\ StatusOf(w)' = "published"
      BY <1>0, <1>3, <2>3
      DEF ProviderCompletes, StatusOf, MayComplete, UploadOK, TypeOK
    <3>2. AbstractStatus[w] = "open"
      BY <3>1 DEF AbstractStatus, StatusOf
    <3>3. AbstractStatus' = [AbstractStatus EXCEPT ![w] = "published"]
      BY <2>1, <3>1, StatusFrame
    <3>4. /\ visible' = [visible EXCEPT ![key[w]] = w]
          /\ UNCHANGED <<key, AbstractContent>>
      BY <1>3, <2>3, ContentFrame DEF ProviderCompletes, buffers
    <3>5. Abstract!Publish(w)
      BY <3>2, <3>3, <3>4 DEF Abstract!Publish
    <3> QED
      BY <3>5 DEF Abstract!Next
  <2> QED
    BY <1>3, <2>2, <2>3 DEF ProviderCompletes
<1>4. ASSUME NEW w \in Writers, CreateFails(w)
      PROVE  Abstract!Next \/ UNCHANGED AbstractVars
  <2> USE <1>0, <1>4
      DEF StatusOf, MayComplete, UploadOK, TypeOK, call, writerState, buffers,
          provider
  <2>1. \A u \in Writers : u # w => StatusOf(u)' = StatusOf(u)
    BY DEF CreateFails
  <2>2. \/ StatusOf(w)' = StatusOf(w)
        \/ StatusOf(w) = "open" /\ StatusOf(w)' = "discarded"
    BY DEF CreateFails
  <2>3. UNCHANGED <<visible, key, given>>
    BY DEF CreateFails
  <2> QED
    BY ONLY <2>1, <2>2, <2>3, EndsOrStays
<1>5. ASSUME NEW w \in Writers, MonitorFails(w)
      PROVE  Abstract!Next \/ UNCHANGED AbstractVars
  <2> USE <1>0, <1>5
      DEF StatusOf, MayComplete, UploadOK, TypeOK, call, writerState, buffers,
          provider
  <2>1. \A u \in Writers : u # w => StatusOf(u)' = StatusOf(u)
    BY DEF MonitorFails, AbortIfActive, AbortActive, AbortAccepted,
       AbortRefused, DropUpload, FinishActive
  <2>2. \/ StatusOf(w)' = StatusOf(w)
        \/ StatusOf(w) = "open" /\ StatusOf(w)' = "discarded"
    BY DEF MonitorFails, AbortIfActive, AbortActive, AbortAccepted,
       AbortRefused, DropUpload, FinishActive
  <2>3. UNCHANGED <<visible, key, given>>
    BY DEF MonitorFails, AbortIfActive, AbortActive, AbortAccepted,
       AbortRefused, DropUpload, FinishActive
  <2> QED
    BY ONLY <2>1, <2>2, <2>3, EndsOrStays
<1>6. ASSUME NEW w \in Writers, FinishFails(w)
      PROVE  Abstract!Next \/ UNCHANGED AbstractVars
  <2> USE <1>0, <1>6
      DEF StatusOf, MayComplete, UploadOK, TypeOK, call, writerState, buffers,
          provider
  <2>1. \A u \in Writers : u # w => StatusOf(u)' = StatusOf(u)
    BY DEF FinishFails, AbortAccepted, AbortRefused, DropUpload, FinishActive
  <2>2. \/ StatusOf(w)' = StatusOf(w)
        \/ StatusOf(w) = "open" /\ StatusOf(w)' = "discarded"
    BY DEF FinishFails, AbortAccepted, AbortRefused, DropUpload, FinishActive
  <2>3. UNCHANGED <<visible, key, given>>
    BY DEF FinishFails, AbortAccepted, AbortRefused, DropUpload, FinishActive
  <2> QED
    BY ONLY <2>1, <2>2, <2>3, EndsOrStays
<1>7. ASSUME NEW w \in Writers, FinishCancelled(w)
      PROVE  Abstract!Next \/ UNCHANGED AbstractVars
  <2> USE <1>0, <1>7
      DEF StatusOf, MayComplete, UploadOK, TypeOK, call, writerState, buffers,
          provider
  <2>1. \A u \in Writers : u # w => StatusOf(u)' = StatusOf(u)
    BY DEF FinishCancelled, DropUpload, FinishActive
  <2>2. \/ StatusOf(w)' = StatusOf(w)
        \/ StatusOf(w) = "open" /\ StatusOf(w)' = "discarded"
    BY DEF FinishCancelled, DropUpload, FinishActive
  <2>3. UNCHANGED <<visible, key, given>>
    BY DEF FinishCancelled, DropUpload, FinishActive
  <2> QED
    BY ONLY <2>1, <2>2, <2>3, EndsOrStays
<1>8. ASSUME NEW w \in Writers, Abort(w)
      PROVE  Abstract!Next \/ UNCHANGED AbstractVars
  <2> USE <1>0, <1>8
      DEF StatusOf, MayComplete, UploadOK, TypeOK, call, writerState, buffers,
          provider
  <2>1. \A u \in Writers : u # w => StatusOf(u)' = StatusOf(u)
    BY DEF Abort, AbortActive, AbortAccepted, AbortRefused, DropUpload,
       FinishActive, LockFree
  <2>2. \/ StatusOf(w)' = StatusOf(w)
        \/ StatusOf(w) = "open" /\ StatusOf(w)' = "discarded"
    BY DEF Abort, AbortActive, AbortAccepted, AbortRefused, DropUpload,
       FinishActive, LockFree
  <2>3. UNCHANGED <<visible, key, given>>
    BY DEF Abort, AbortActive, AbortAccepted, AbortRefused, DropUpload,
       FinishActive, LockFree
  <2> QED
    BY ONLY <2>1, <2>2, <2>3, EndsOrStays
<1>9. ASSUME NEW w \in Writers, DownAborts(w)
      PROVE  Abstract!Next \/ UNCHANGED AbstractVars
  <2> USE <1>0, <1>9
      DEF StatusOf, MayComplete, UploadOK, TypeOK, call, writerState, buffers,
          provider
  <2>1. \A u \in Writers : u # w => StatusOf(u)' = StatusOf(u)
    BY DEF DownAborts, AbortIfActive, AbortActive, AbortAccepted,
       AbortRefused, DropUpload, FinishActive, LockFree
  <2>2. \/ StatusOf(w)' = StatusOf(w)
        \/ StatusOf(w) = "open" /\ StatusOf(w)' = "discarded"
    BY DEF DownAborts, AbortIfActive, AbortActive, AbortAccepted,
       AbortRefused, DropUpload, FinishActive, LockFree
  <2>3. UNCHANGED <<visible, key, given>>
    BY DEF DownAborts, AbortIfActive, AbortActive, AbortAccepted,
       AbortRefused, DropUpload, FinishActive, LockFree
  <2> QED
    BY ONLY <2>1, <2>2, <2>3, EndsOrStays
<1>10. ASSUME NEW w \in Writers, DropWriter(w)
      PROVE  Abstract!Next \/ UNCHANGED AbstractVars
  <2> USE <1>0, <1>10
      DEF StatusOf, MayComplete, UploadOK, TypeOK, call, writerState, buffers,
          provider
  <2>1. \A u \in Writers : u # w => StatusOf(u)' = StatusOf(u)
    BY DEF DropWriter, AbortIfActive, AbortActive, AbortAccepted,
       AbortRefused, DropUpload, FinishActive, LockFree
  <2>2. \/ StatusOf(w)' = StatusOf(w)
        \/ StatusOf(w) = "open" /\ StatusOf(w)' = "discarded"
    BY DEF DropWriter, AbortIfActive, AbortActive, AbortAccepted,
       AbortRefused, DropUpload, FinishActive, LockFree
  <2>3. UNCHANGED <<visible, key, given>>
    BY DEF DropWriter, AbortIfActive, AbortActive, AbortAccepted,
       AbortRefused, DropUpload, FinishActive, LockFree
  <2> QED
    BY ONLY <2>1, <2>2, <2>3, EndsOrStays
<1>11. ASSUME NEW w \in Writers,
              \/ \E n \in 1 .. MaxChunk : BeginWrite(w, n)
              \/ CreateUpload(w)
              \/ MonitorOwner(w)
              \/ CheckToken(w)
              \/ Register(w)
              \/ JoinPart(w)
              \/ WriteFails(w)
              \/ PartEnds(w)
              \/ BeginPublish(w)
              \/ SendComplete(w)
              \/ UploadFinished(w)
              \/ HeadAnswers(w)
              \/ OwnerExits(w)
              \/ DownCancels(w)
       PROVE  UNCHANGED AbstractVars
  <2>1. \A u \in Writers : StatusOf(u)' = StatusOf(u)
    <3> SUFFICES ASSUME NEW u \in Writers PROVE StatusOf(u)' = StatusOf(u)
      OBVIOUS
    <3> USE <1>0
        DEF StatusOf, MayComplete, UploadOK, TypeOK, Selecting, call, writerState,
            provider
    <3>1. ASSUME NEW n \in 1 .. MaxChunk, BeginWrite(w, n)
          PROVE  StatusOf(u)' = StatusOf(u)
      BY <3>1 DEF BeginWrite, LockFree
    <3>2. CASE CreateUpload(w)
      BY <3>2 DEF CreateUpload
    <3>3. CASE MonitorOwner(w)
      BY <3>3 DEF MonitorOwner
    <3>4. CASE CheckToken(w)
      BY <3>4 DEF CheckToken
    <3>5. CASE Register(w)
      BY <3>5 DEF Register
    <3>6. CASE JoinPart(w)
      BY <3>6 DEF JoinPart
    <3>7. CASE WriteFails(w)
      BY <3>7 DEF WriteFails
    <3>8. CASE PartEnds(w)
      BY <3>8 DEF PartEnds
    <3>9. CASE BeginPublish(w)
      BY <3>9 DEF BeginPublish, LockFree, Open
    <3>10. CASE SendComplete(w)
      BY <3>10 DEF SendComplete
    <3>11. CASE UploadFinished(w)
      BY <3>11 DEF UploadFinished, FinishActive
    <3>12. CASE HeadAnswers(w)
      BY <3>12 DEF HeadAnswers
    <3>13. CASE OwnerExits(w)
      BY <3>13 DEF OwnerExits
    <3>14. CASE DownCancels(w)
      BY <3>14 DEF DownCancels
    <3> QED
      BY ONLY <1>11, <3>1, <3>2, <3>3, <3>4, <3>5, <3>6, <3>7, <3>8, <3>9,
         <3>10, <3>11, <3>12, <3>13, <3>14
  <2>2. AbstractStatus' = AbstractStatus
    BY <2>1 DEF AbstractStatus, StatusOf
  <2>3. UNCHANGED <<visible, key, given>>
    BY <1>11 DEF BeginWrite, CreateUpload, MonitorOwner, CheckToken, Register,
       JoinPart, WriteFails, PartEnds, BeginPublish, SendComplete,
       UploadFinished, HeadAnswers, OwnerExits, DownCancels, buffers, provider
  <2> QED
    BY <2>2, <2>3, ContentFrame DEF AbstractVars
<1>12. ASSUME NEW k \in Keys, DeleteObject(k)
       PROVE  Abstract!Next
  <2>1. UNCHANGED <<AbstractStatus, key, AbstractContent>>
    BY <1>12 DEF DeleteObject, AbstractStatus, AbstractContent, MayComplete,
       call, writerState, buffers
  <2>2. Abstract!Remove(k)
    BY <1>12, <2>1 DEF DeleteObject, Abstract!Remove
  <2> QED
    BY <2>2 DEF Abstract!Next
<1>13. CASE Crash
  <2> DEFINE W == {w \in Writers : AbstractStatus[w] = "open" /\ ~MayComplete(w)}
  <2>1. UNCHANGED <<visible, key, AbstractContent, remote, requested>>
    BY <1>13, ContentFrame DEF Crash, provider
  <2>2. AbstractStatus' =
            [w \in Writers |-> IF w \in W THEN "discarded" ELSE AbstractStatus[w]]
    <3> SUFFICES ASSUME NEW w \in Writers
                 PROVE  StatusOf(w)' =
                            IF w \in W THEN "discarded" ELSE AbstractStatus[w]
      BY DEF AbstractStatus, StatusOf
    <3>1. AbstractStatus[w] = StatusOf(w)
      BY DEF AbstractStatus, StatusOf
    <3>2. ~active'[w] /\ pc'[w] = IF pc[w] # "unopened" THEN "dropped" ELSE pc[w]
      BY <1>13 DEF Crash
    <3>3. MayComplete(w)' = MayComplete(w)
      BY <2>1 DEF MayComplete
    <3>4. UploadOK(w)
      BY <1>0
    <3> QED
      BY <2>1, <3>1, <3>2, <3>3, <3>4 DEF StatusOf, UploadOK
  <2>3. Abstract!Discard(W)
    BY <2>1, <2>2 DEF Abstract!Discard
  <2> QED
    BY <2>3 DEF Abstract!Next
<1>14. CASE UNCHANGED vars
  BY <1>14 DEF vars, AbstractVars, AbstractStatus, AbstractContent, MayComplete,
     call, writerState, buffers, provider
<1> QED
  BY <1>1, <1>2, <1>3, <1>4, <1>5, <1>6, <1>7, <1>8, <1>9, <1>10, <1>11,
     <1>12, <1>13, <1>14
  DEF Next, NativeStep, ProviderStep, CallerStep

(***************************************************************************)
(* The multipart writer implements the abstract store: a key holds the     *)
(* whole content of one published writer, a writer is published at most    *)
(* once, and one that is discarded never becomes visible, also when the    *)
(* provider answers after the client has stopped waiting or has died.      *)
(***************************************************************************)
THEOREM Refinement == Spec => ImplementsObjectStore
<1>1. IInv /\ [Next]_vars => [Abstract!Next]_(Abstract!vars)
  BY StepRefines DEF AbstractVars, Abstract!vars
<1> QED
  BY Invariance, InitRefines, <1>1, PTL
  DEF Spec, ImplementsObjectStore, Abstract!Spec
=============================================================================
