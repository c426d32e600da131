-------------------------- MODULE LocalWriterProofs --------------------------
(***************************************************************************)
(* Proofs about the staged local writer, for every number of instances,    *)
(* writers and keys and for every bound.                                   *)
(*                                                                         *)
(* The inductive invariant is the conjunction of the type invariant, the   *)
(* properties of LocalWriter and WellFormed, which says how the step of a  *)
(* call, the flags of the writer and its history go together.  No part is  *)
(* inductive alone: exclusiveness of staging files needs that every        *)
(* staging file has its owner (NoStrayStage), the counter needs that only  *)
(* an active writer finishes, and honest answers need that a writer        *)
(* answers at most once while it is active.                                *)
(***************************************************************************)
EXTENDS LocalWriter, FiniteSetTheorems, TLAPS

\* The steps at which a writer has to be active.
ActiveSteps == {"created", "publishing", "staged", "removed", "renamed"}

WriterOK(w) ==
    /\ pc[w] = "unopened" => node[w] = Absent
    /\ pc[w] # "unopened" => node[w] \in Nodes /\ key[w] \in Keys
    /\ active[w] => path[w] \in Names /\ pc[w] \in ActiveSteps \cup {"idle"}
    /\ pc[w] \in ActiveSteps => active[w]
    /\ w \in committed => pc[w] \in {"renamed", "idle", "dropped"}
    /\ w \in committed /\ active[w] => pc[w] = "renamed"
    /\ pc[w] = "renamed" => w \in committed
    /\ reply[w] # "none" => ~active[w] /\ pc[w] \in {"idle", "dropped"}
WellFormed == \A w \in Writers : WriterOK(w)

IInv ==
    /\ TypeOK
    /\ WellFormed
    /\ CounterExact
    /\ StageExclusive
    /\ NoStrayStage
    /\ VisibleIsOwn
    /\ ReplyHonest
-----------------------------------------------------------------------------
\* A writer counts for the instance it runs on: finish never takes
\* ACTIVE_WRITERS below zero.
LEMMA ActiveCounted ==
    ASSUME TypeOK, WellFormed, CounterExact, NEW w \in Writers, active[w]
    PROVE  activeWriters[node[w]] \in Nat \ {0}
<1>1. node[w] \in Nodes
  BY DEF WellFormed, WriterOK, ActiveSteps
<1>2. w \in ActiveOn(node[w])
  BY DEF ActiveOn
<1>3. IsFiniteSet(ActiveOn(node[w]))
  BY WritersAssumption, FS_Subset DEF ActiveOn
<1>4. Cardinality(ActiveOn(node[w])) # 0
  BY <1>2, <1>3, FS_EmptySet
<1> QED
  BY <1>1, <1>4 DEF CounterExact, TypeOK

\* The initial states satisfy every part of the invariant.
LEMMA InitIInv == Init => IInv
<1> SUFFICES ASSUME Init PROVE IInv
  OBVIOUS
<1>1. TypeOK
  BY BoundsAssumption DEF Init, TypeOK, Steps, Owners, Replies
<1>2. WellFormed
  BY DEF Init, WellFormed, WriterOK, ActiveSteps
<1>3. CounterExact
  <2>1. \A n \in Nodes : ActiveOn(n) = {}
    BY DEF Init, ActiveOn
  <2> QED
    BY <2>1, FS_EmptySet DEF Init, CounterExact
<1>4. StageExclusive /\ NoStrayStage /\ VisibleIsOwn /\ ReplyHonest
  BY DEF Init, StageExclusive, NoStrayStage, Staged, VisibleIsOwn, ReplyHonest
<1> QED
  BY <1>1, <1>2, <1>3, <1>4 DEF IInv

\* The name that the next turn of the loop in open tries.
LEMMA StageName ==
    ASSUME TypeOK, WellFormed, NEW w \in Writers, pc[w] = "opening",
           sequence[node[w]] <= MaxSequence
    PROVE  /\ node[w] \in Nodes
           /\ sequence[node[w]] \in 0 .. MaxSequence
           /\ <<key[w], sequence[node[w]]>> \in Names
<1>1. node[w] \in Nodes /\ key[w] \in Keys
  BY DEF WellFormed, WriterOK
<1>2. sequence[node[w]] \in 0 .. MaxSequence
  BY <1>1, BoundsAssumption DEF TypeOK
<1> QED
  BY <1>1, <1>2 DEF Names

\* What finish, cleanup_stage and abort do to the variables they change.
LEMMA FinishTypes ==
    ASSUME TypeOK, WellFormed, CounterExact, NEW w \in Writers, active[w],
           Finish(w)
    PROVE  /\ active' \in [Writers -> BOOLEAN]
           /\ activeWriters' \in [Nodes -> Nat]
<1>1. activeWriters[node[w]] - 1 \in Nat
  BY ActiveCounted
<1> QED
  BY <1>1 DEF Finish, TypeOK

LEMMA CleanupTypes ==
    ASSUME TypeOK, WellFormed, CounterExact, NEW w \in Writers, active[w],
           CleanupStage(w)
    PROVE  /\ file' \in [Writers -> BOOLEAN]
           /\ active' \in [Writers -> BOOLEAN]
           /\ activeWriters' \in [Nodes -> Nat]
           /\ staging' \in [Names -> Writers \cup {Absent}]
           /\ leaked' \in SUBSET Names
<1>1. Finish(w)
  BY DEF CleanupStage
<1>2. active' \in [Writers -> BOOLEAN] /\ activeWriters' \in [Nodes -> Nat]
  BY <1>1, FinishTypes
<1>3. path[w] \in Names
  BY DEF WellFormed, WriterOK
<1>4. file' \in [Writers -> BOOLEAN]
  BY DEF CleanupStage, TypeOK
<1>5. staging' \in [Names -> Writers \cup {Absent}] /\ leaked' \in SUBSET Names
  BY <1>3 DEF CleanupStage, TypeOK
<1> QED
  BY <1>2, <1>4, <1>5

LEMMA AbortTypes ==
    ASSUME TypeOK, WellFormed, CounterExact, NEW w \in Writers,
           AbortIfActive(w)
    PROVE  /\ file' \in [Writers -> BOOLEAN]
           /\ active' \in [Writers -> BOOLEAN]
           /\ activeWriters' \in [Nodes -> Nat]
           /\ staging' \in [Names -> Writers \cup {Absent}]
           /\ leaked' \in SUBSET Names
<1>1. CASE active[w] /\ CleanupStage(w)
  BY <1>1, CleanupTypes
<1>2. CASE ~active[w] /\ UNCHANGED <<file, active, activeWriters, staging, leaked>>
  BY <1>2 DEF TypeOK
<1> QED
  BY <1>1, <1>2 DEF AbortIfActive

\* Every step keeps the types; a step that finishes a writer needs the
\* counter to be exact.
LEMMA TypeStep ==
    ASSUME TypeOK, WellFormed, CounterExact, [Next]_vars
    PROVE  TypeOK'
<1>1. ASSUME NEW w \in Writers, CreateStage(w)
      PROVE  TypeOK'
  <2>1. /\ node[w] \in Nodes
        /\ sequence[node[w]] \in 0 .. MaxSequence
        /\ <<key[w], sequence[node[w]]>> \in Names
    BY <1>1, StageName DEF CreateStage
  <2>2. sequence' \in [Nodes -> 0 .. MaxSequence + 1]
    BY <1>1, <2>1, BoundsAssumption DEF CreateStage, TypeOK
  <2>3. activeWriters' \in [Nodes -> Nat]
    BY <1>1, <2>1 DEF CreateStage, TypeOK
  <2>4. /\ staging' \in [Names -> Writers \cup {Absent}]
        /\ path' \in [Writers -> Names \cup {Absent}]
    BY <1>1, <2>1 DEF CreateStage, TypeOK
  <2> QED
    BY <1>1, <2>2, <2>3, <2>4 DEF TypeOK, CreateStage, Steps, data, history
<1>2. ASSUME NEW w \in Writers, StageNameTaken(w)
      PROVE  TypeOK'
  BY <1>2, ActiveCounted, BoundsAssumption DEF TypeOK, WellFormed, WriterOK,
     ActiveSteps, Steps, Owners, Replies, StageNameTaken, NameFree,
     writerState, control, counters, disk, data, history
<1>3. ASSUME NEW w \in Writers, StageFails(w)
      PROVE  TypeOK'
  BY <1>3, ActiveCounted, BoundsAssumption DEF TypeOK, WellFormed, WriterOK,
     ActiveSteps, Steps, Owners, Replies, StageFails, writerState, control,
     counters, disk, data, history
<1>4. ASSUME NEW w \in Writers, MonitorOwner(w)
      PROVE  TypeOK'
  BY <1>4, ActiveCounted, BoundsAssumption DEF TypeOK, WellFormed, WriterOK,
     ActiveSteps, Steps, Owners, Replies, MonitorOwner, writerState, control,
     counters, disk, data, history
<1>5. ASSUME NEW w \in Writers, MonitorFails(w)
      PROVE  TypeOK'
  <2>1. active[w]
    BY <1>5 DEF MonitorFails, WellFormed, WriterOK, ActiveSteps
  <2> QED
    BY <1>5, <2>1, CleanupTypes DEF TypeOK, MonitorFails, Steps, Owners, Replies,
       writerState, control, counters, disk, data, history
<1>6. ASSUME NEW w \in Writers, Write(w)
      PROVE  TypeOK'
  <2>1. whole' \in [Writers -> Nat] /\ torn' \in [Writers -> BOOLEAN]
    <3>1. CASE whole' = [whole EXCEPT ![w] = @ + 1] /\ UNCHANGED torn
      BY <3>1 DEF TypeOK
    <3>2. CASE torn' = [torn EXCEPT ![w] = TRUE] /\ UNCHANGED whole
      BY <3>2 DEF TypeOK
    <3> QED
      BY <1>6, <3>1, <3>2 DEF Write
  <2> QED
    BY <1>6, <2>1 DEF TypeOK, Write, writerState, control, counters, disk,
       history
<1>7. ASSUME NEW w \in Writers, BeginPublish(w)
      PROVE  TypeOK'
  BY <1>7, ActiveCounted, BoundsAssumption DEF TypeOK, WellFormed, WriterOK,
     ActiveSteps, Steps, Owners, Replies, BeginPublish, LockFree, EnsureOpen,
     writerState, control, counters, disk, data, history
<1>8. ASSUME NEW w \in Writers, PreparePublish(w)
      PROVE  TypeOK'
  BY <1>8, ActiveCounted, BoundsAssumption DEF TypeOK, WellFormed, WriterOK,
     ActiveSteps, Steps, Owners, Replies, PreparePublish, writerState,
     control, counters, disk, data, history
<1>9. ASSUME NEW w \in Writers, RenameStage(w)
      PROVE  TypeOK'
  BY <1>9, ActiveCounted, BoundsAssumption DEF TypeOK, WellFormed, WriterOK,
     ActiveSteps, Steps, Owners, Replies, RenameStage, writerState, control,
     counters, disk, data, history
<1>10. ASSUME NEW w \in Writers, PublishFails(w)
      PROVE  TypeOK'
  <2>1. active[w]
    BY <1>10 DEF PublishFails, WellFormed, WriterOK, ActiveSteps
  <2> QED
    BY <1>10, <2>1, CleanupTypes DEF TypeOK, PublishFails, Steps, Owners, Replies,
       writerState, control, counters, disk, data, history
<1>11. ASSUME NEW w \in Writers, FinishPublish(w)
      PROVE  TypeOK'
  <2>1. active[w]
    BY <1>11 DEF FinishPublish, WellFormed, WriterOK, ActiveSteps
  <2> QED
    BY <1>11, <2>1, FinishTypes DEF TypeOK, FinishPublish, Steps, Owners, Replies,
       writerState, control, counters, disk, data, history
<1>12. ASSUME NEW w \in Writers, Abort(w)
      PROVE  TypeOK'
  <2>1. active[w]
    BY <1>12 DEF Abort, WellFormed, WriterOK, ActiveSteps
  <2> QED
    BY <1>12, <2>1, CleanupTypes DEF TypeOK, Abort, Steps, Owners, Replies,
       writerState, control, counters, disk, data, history
<1>13. ASSUME NEW w \in Writers, OwnerExits(w)
      PROVE  TypeOK'
  BY <1>13, ActiveCounted, BoundsAssumption DEF TypeOK, WellFormed, WriterOK,
     ActiveSteps, Steps, Owners, Replies, OwnerExits, writerState, control,
     counters, disk, data, history
<1>14. ASSUME NEW w \in Writers, DownCancels(w)
      PROVE  TypeOK'
  BY <1>14, ActiveCounted, BoundsAssumption DEF TypeOK, WellFormed, WriterOK,
     ActiveSteps, Steps, Owners, Replies, DownCancels, writerState, control,
     counters, disk, data, history
<1>15. ASSUME NEW w \in Writers, DownAborts(w)
      PROVE  TypeOK'
  BY <1>15, AbortTypes DEF TypeOK, DownAborts, Steps, Owners, Replies,
     writerState, control, counters, disk, data, history
<1>16. ASSUME NEW w \in Writers, DropWriter(w)
      PROVE  TypeOK'
  BY <1>16, AbortTypes DEF TypeOK, DropWriter, Steps, Owners, Replies,
     writerState, control, counters, disk, data, history
<1>17. ASSUME NEW w \in Writers, NEW n \in Nodes, NEW k \in Keys,
             OpenWriter(w, n, k)
      PROVE  TypeOK'
  BY <1>17, ActiveCounted, BoundsAssumption DEF TypeOK, WellFormed, WriterOK,
     ActiveSteps, Steps, Owners, Replies, OpenWriter, writerState, control,
     counters, disk, data, history
<1>18. ASSUME NEW k \in Keys, DeleteObject(k)
      PROVE  TypeOK'
  BY <1>18, ActiveCounted, BoundsAssumption DEF TypeOK, WellFormed, WriterOK,
     ActiveSteps, Steps, Owners, Replies, DeleteObject, writerState, control,
     counters, disk, data, history
<1>19. ASSUME NEW n \in Nodes, Crash(n)
      PROVE  TypeOK'
  BY <1>19, ActiveCounted, BoundsAssumption DEF TypeOK, WellFormed, WriterOK,
     ActiveSteps, Steps, Owners, Replies, Crash, writerState, control,
     counters, disk, data, history
<1>20. ASSUME UNCHANGED vars
      PROVE  TypeOK'
  BY <1>20, ActiveCounted, BoundsAssumption DEF TypeOK, WellFormed, WriterOK,
     ActiveSteps, Steps, Owners, Replies, vars, writerState, control,
     counters, disk, data, history
<1>21. ASSUME NEW w \in Writers, RemoveDestination(w)
      PROVE  TypeOK'
  BY <1>21, ActiveCounted, BoundsAssumption DEF TypeOK, WellFormed, WriterOK,
     ActiveSteps, Steps, Owners, Replies, RemoveDestination, writerState,
     control, counters, disk, data, history
<1> QED
  BY <1>1, <1>2, <1>3, <1>4, <1>5, <1>6, <1>7, <1>8, <1>9, <1>10, <1>11,
     <1>12, <1>13, <1>14, <1>15, <1>16, <1>17, <1>18, <1>19, <1>20, <1>21
     DEF Next, NativeStep, CallerStep

\* How the step, the flags and the history of each writer go together.
LEMMA WellFormedStep ==
    ASSUME TypeOK, WellFormed, StageExclusive, [Next]_vars
    PROVE  WellFormed'
<1>1. ASSUME NEW w \in Writers, CreateStage(w)
      PROVE  WellFormed'
  <2>1. <<key[w], sequence[node[w]]>> \in Names
    BY <1>1, StageName DEF CreateStage
  <2> QED
    BY <1>1, <2>1 DEF TypeOK, WellFormed, WriterOK, ActiveSteps, CreateStage,
       history
<1>2. ASSUME NEW w \in Writers, StageNameTaken(w)
      PROVE  WellFormed'
  BY <1>2, AbsentKeyAssumption DEF TypeOK, WellFormed, WriterOK, ActiveSteps,
     StageNameTaken, NameFree, writerState, control, counters, disk, data,
     history
<1>3. ASSUME NEW w \in Writers, StageFails(w)
      PROVE  WellFormed'
  BY <1>3, AbsentKeyAssumption DEF TypeOK, WellFormed, WriterOK, ActiveSteps,
     StageFails, writerState, control, counters, disk, data, history
<1>4. ASSUME NEW w \in Writers, MonitorOwner(w)
      PROVE  WellFormed'
  BY <1>4, AbsentKeyAssumption DEF TypeOK, WellFormed, WriterOK, ActiveSteps,
     MonitorOwner, writerState, control, counters, disk, data, history
<1>5. ASSUME NEW w \in Writers, MonitorFails(w)
      PROVE  WellFormed'
  BY <1>5, AbsentKeyAssumption DEF TypeOK, WellFormed, WriterOK, ActiveSteps,
     MonitorFails, CleanupStage, Finish, writerState, control, counters, disk,
     data, history
<1>6. ASSUME NEW w \in Writers, Write(w)
      PROVE  WellFormed'
  BY <1>6, AbsentKeyAssumption DEF TypeOK, WellFormed, WriterOK, ActiveSteps,
     Write, LockFree, EnsureOpen, writerState, control, counters, disk, data,
     history
<1>7. ASSUME NEW w \in Writers, BeginPublish(w)
      PROVE  WellFormed'
  BY <1>7, AbsentKeyAssumption DEF TypeOK, WellFormed, WriterOK, ActiveSteps,
     BeginPublish, LockFree, EnsureOpen, writerState, control, counters, disk,
     data, history
<1>8. ASSUME NEW w \in Writers, PreparePublish(w)
      PROVE  WellFormed'
  BY <1>8, AbsentKeyAssumption DEF TypeOK, WellFormed, WriterOK, ActiveSteps,
     PreparePublish, writerState, control, counters, disk, data, history
<1>9. ASSUME NEW w \in Writers, RenameStage(w)
      PROVE  WellFormed'
  BY <1>9, AbsentKeyAssumption DEF TypeOK, WellFormed, WriterOK, ActiveSteps,
     RenameStage, writerState, control, counters, disk, data, history
<1>10. ASSUME NEW w \in Writers, PublishFails(w)
      PROVE  WellFormed'
  BY <1>10, AbsentKeyAssumption DEF TypeOK, WellFormed, WriterOK, ActiveSteps,
     PublishFails, CleanupStage, Finish, writerState, control, counters, disk,
     data, history
<1>11. ASSUME NEW w \in Writers, FinishPublish(w)
      PROVE  WellFormed'
  BY <1>11, AbsentKeyAssumption DEF TypeOK, WellFormed, WriterOK, ActiveSteps,
     FinishPublish, Finish, writerState, control, counters, disk, data,
     history
<1>12. ASSUME NEW w \in Writers, Abort(w)
      PROVE  WellFormed'
  BY <1>12, AbsentKeyAssumption DEF TypeOK, WellFormed, WriterOK, ActiveSteps,
     Abort, CleanupStage, Finish, LockFree, writerState, control, counters,
     disk, data, history
<1>13. ASSUME NEW w \in Writers, OwnerExits(w)
      PROVE  WellFormed'
  BY <1>13, AbsentKeyAssumption DEF TypeOK, WellFormed, WriterOK, ActiveSteps,
     OwnerExits, writerState, control, counters, disk, data, history
<1>14. ASSUME NEW w \in Writers, DownCancels(w)
      PROVE  WellFormed'
  BY <1>14, AbsentKeyAssumption DEF TypeOK, WellFormed, WriterOK, ActiveSteps,
     DownCancels, writerState, control, counters, disk, data, history
<1>15. ASSUME NEW w \in Writers, DownAborts(w)
      PROVE  WellFormed'
  BY <1>15, AbsentKeyAssumption DEF TypeOK, WellFormed, WriterOK, ActiveSteps,
     DownAborts, AbortIfActive, CleanupStage, Finish, LockFree, writerState,
     control, counters, disk, data, history
<1>16. ASSUME NEW w \in Writers, DropWriter(w)
      PROVE  WellFormed'
  BY <1>16, AbsentKeyAssumption DEF TypeOK, WellFormed, WriterOK, ActiveSteps,
     DropWriter, AbortIfActive, CleanupStage, Finish, LockFree, writerState,
     control, counters, disk, data, history
<1>17. ASSUME NEW w \in Writers, NEW n \in Nodes, NEW k \in Keys,
             OpenWriter(w, n, k)
      PROVE  WellFormed'
  BY <1>17, AbsentKeyAssumption DEF TypeOK, WellFormed, WriterOK, ActiveSteps,
     OpenWriter, writerState, control, counters, disk, data, history
<1>18. ASSUME NEW k \in Keys, DeleteObject(k)
      PROVE  WellFormed'
  BY <1>18, AbsentKeyAssumption DEF TypeOK, WellFormed, WriterOK, ActiveSteps,
     DeleteObject, writerState, control, counters, disk, data, history
<1>19. ASSUME NEW n \in Nodes, Crash(n)
      PROVE  WellFormed'
  BY <1>19, AbsentKeyAssumption DEF TypeOK, WellFormed, WriterOK, ActiveSteps,
     Crash, writerState, control, counters, disk, data, history
<1>20. ASSUME UNCHANGED vars
      PROVE  WellFormed'
  BY <1>20, AbsentKeyAssumption DEF TypeOK, WellFormed, WriterOK, ActiveSteps,
     vars, writerState, control, counters, disk, data, history
<1>21. ASSUME NEW w \in Writers, RemoveDestination(w)
      PROVE  WellFormed'
  BY <1>21, AbsentKeyAssumption DEF TypeOK, WellFormed, WriterOK, ActiveSteps,
     RemoveDestination, writerState, control, counters, disk, data, history
<1> QED
  BY <1>1, <1>2, <1>3, <1>4, <1>5, <1>6, <1>7, <1>8, <1>9, <1>10, <1>11,
     <1>12, <1>13, <1>14, <1>15, <1>16, <1>17, <1>18, <1>19, <1>20, <1>21
     DEF Next, NativeStep, CallerStep

\* ActiveOn changes by one writer when that writer finishes.
LEMMA FinishCounts ==
    ASSUME TypeOK, WellFormed, CounterExact, NEW w \in Writers, active[w],
           Finish(w), UNCHANGED node
    PROVE  CounterExact'
<1> SUFFICES ASSUME NEW n \in Nodes
             PROVE  activeWriters'[n] = Cardinality(ActiveOn(n)')
  BY DEF CounterExact
<1>1. node[w] \in Nodes
  BY DEF WellFormed, WriterOK, ActiveSteps
<1>2. IsFiniteSet(ActiveOn(n))
  BY WritersAssumption, FS_Subset DEF ActiveOn
<1>3. CASE n = node[w]
  <2>1. ActiveOn(n)' = ActiveOn(n) \ {w} /\ w \in ActiveOn(n)
    BY <1>3 DEF ActiveOn, Finish, TypeOK
  <2>2. Cardinality(ActiveOn(n)') = Cardinality(ActiveOn(n)) - 1
    BY <1>2, <2>1, FS_RemoveElement
  <2> QED
    BY <1>3, <2>2 DEF CounterExact, Finish, TypeOK
<1>4. CASE n # node[w]
  <2>1. ActiveOn(n)' = ActiveOn(n)
    BY <1>4 DEF ActiveOn, Finish, TypeOK
  <2> QED
    BY <1>1, <1>4, <2>1 DEF CounterExact, Finish, TypeOK
<1> QED
  BY <1>3, <1>4

\* ACTIVE_WRITERS stays exact.
LEMMA CounterStep ==
    ASSUME TypeOK, WellFormed, CounterExact, [Next]_vars
    PROVE  CounterExact'
<1>1. ASSUME NEW w \in Writers, CreateStage(w)
      PROVE  CounterExact'
  <2> SUFFICES ASSUME NEW n \in Nodes
               PROVE  activeWriters'[n] = Cardinality(ActiveOn(n)')
    BY DEF CounterExact
  <2>1. node[w] \in Nodes /\ ~active[w]
    BY <1>1 DEF CreateStage, WellFormed, WriterOK, ActiveSteps
  <2>2. IsFiniteSet(ActiveOn(n))
    BY WritersAssumption, FS_Subset DEF ActiveOn
  <2>3. CASE n = node[w]
    <3>1. ActiveOn(n)' = ActiveOn(n) \cup {w} /\ w \notin ActiveOn(n)
      BY <1>1, <2>1, <2>3 DEF ActiveOn, CreateStage, TypeOK
    <3>2. Cardinality(ActiveOn(n)') = Cardinality(ActiveOn(n)) + 1
      BY <2>2, <3>1, FS_AddElement
    <3> QED
      BY <1>1, <2>3, <3>2 DEF CounterExact, CreateStage, TypeOK
  <2>4. CASE n # node[w]
    <3>1. ActiveOn(n)' = ActiveOn(n)
      BY <1>1, <2>4 DEF ActiveOn, CreateStage, TypeOK
    <3> QED
      BY <1>1, <2>1, <2>4, <3>1 DEF CounterExact, CreateStage, TypeOK
  <2> QED
    BY <2>3, <2>4
<1>2. ASSUME NEW w \in Writers,
             MonitorFails(w) \/ PublishFails(w) \/ FinishPublish(w) \/ Abort(w)
      PROVE  CounterExact'
  <2>1. active[w] /\ Finish(w) /\ UNCHANGED node
    BY <1>2 DEF MonitorFails, PublishFails, FinishPublish, Abort, CleanupStage,
       control, WellFormed, WriterOK, ActiveSteps
  <2> QED
    BY <2>1, FinishCounts
<1>3. ASSUME NEW w \in Writers, DownAborts(w) \/ DropWriter(w)
      PROVE  CounterExact'
  <2>1. AbortIfActive(w) /\ UNCHANGED node
    BY <1>3 DEF DownAborts, DropWriter, control
  <2>2. CASE active[w] /\ CleanupStage(w)
    BY <2>1, <2>2, FinishCounts DEF CleanupStage
  <2>3. CASE UNCHANGED <<active, activeWriters>>
    BY <2>1, <2>3 DEF CounterExact, ActiveOn
  <2> QED
    BY <2>1, <2>2, <2>3 DEF AbortIfActive
<1>4. ASSUME NEW n \in Nodes, Crash(n)
      PROVE  CounterExact'
  <2> SUFFICES ASSUME NEW m \in Nodes
               PROVE  activeWriters'[m] = Cardinality(ActiveOn(m)')
    BY DEF CounterExact
  <2>1. CASE m = n
    <3>1. ActiveOn(m)' = {}
      BY <1>4, <2>1 DEF ActiveOn, Crash
    <3> QED
      BY <1>4, <2>1, <3>1, FS_EmptySet DEF Crash, TypeOK
  <2>2. CASE m # n
    <3>1. ActiveOn(m)' = ActiveOn(m)
      BY <1>4, <2>2 DEF ActiveOn, Crash
    <3> QED
      BY <1>4, <2>2, <3>1 DEF CounterExact, Crash, TypeOK
  <2> QED
    BY <2>1, <2>2
<1>5. ASSUME NEW w \in Writers, NEW n \in Nodes, NEW k \in Keys,
             OpenWriter(w, n, k)
      PROVE  CounterExact'
  <2>1. ~active[w]
    BY <1>5 DEF OpenWriter, WellFormed, WriterOK, ActiveSteps
  <2>2. \A m \in Nodes : ActiveOn(m)' = ActiveOn(m)
    BY <1>5, <2>1 DEF ActiveOn, OpenWriter, TypeOK, writerState
  <2> QED
    BY <1>5, <2>2 DEF CounterExact, OpenWriter, counters
<1>6. ASSUME UNCHANGED <<node, active, activeWriters>>
      PROVE  CounterExact'
  BY <1>6 DEF CounterExact, ActiveOn
<1>7. ASSUME NEW w \in Writers,
             \/ StageNameTaken(w)
             \/ StageFails(w)
             \/ MonitorOwner(w)
             \/ Write(w)
             \/ BeginPublish(w)
             \/ PreparePublish(w)
             \/ RemoveDestination(w)
             \/ RenameStage(w)
             \/ OwnerExits(w)
             \/ DownCancels(w)
      PROVE  UNCHANGED <<node, active, activeWriters>>
  BY <1>7 DEF StageNameTaken, StageFails, MonitorOwner, Write, BeginPublish,
     PreparePublish, RemoveDestination, RenameStage, OwnerExits, DownCancels,
     control, writerState, counters
<1>8. ASSUME NEW k \in Keys, DeleteObject(k)
      PROVE  UNCHANGED <<node, active, activeWriters>>
  BY <1>8 DEF DeleteObject, control, writerState, counters
<1>9. CASE UNCHANGED vars
  BY <1>6, <1>9 DEF vars, control, writerState, counters
<1> QED
  BY <1>1, <1>2, <1>3, <1>4, <1>5, <1>6, <1>7, <1>8, <1>9
     DEF Next, NativeStep, CallerStep

\* cleanup_stage takes away the staging file of its own writer and no other.
LEMMA CleanupStages ==
    ASSUME TypeOK, WellFormed, StageExclusive, NoStrayStage,
           NEW w \in Writers, active[w], pc[w] # "renamed", CleanupStage(w),
           UNCHANGED path,
           \A u \in Writers : pc'[u] = "renamed" <=> pc[u] = "renamed"
    PROVE  StageExclusive' /\ NoStrayStage'
<1>1. active' = [active EXCEPT ![w] = FALSE]
  BY DEF CleanupStage, Finish
<1>2. path[w] \in Names /\ staging[path[w]] = w
  BY DEF WellFormed, WriterOK, StageExclusive, Staged
<1>3. StageExclusive'
  BY <1>1, <1>2 DEF CleanupStage, StageExclusive, Staged, TypeOK, WellFormed,
     WriterOK
<1>4. NoStrayStage'
  BY <1>1, <1>2, WritersAssumption DEF CleanupStage, NoStrayStage, Staged, TypeOK
<1> QED
  BY <1>3, <1>4

\* Staging files stay with their owners.
LEMMA StageStep ==
    ASSUME TypeOK, WellFormed, StageExclusive, NoStrayStage, [Next]_vars
    PROVE  StageExclusive' /\ NoStrayStage'
<1>1. ASSUME NEW w \in Writers, CreateStage(w)
      PROVE  StageExclusive' /\ NoStrayStage'
  <2> DEFINE p == <<key[w], sequence[node[w]]>>
  <2>1. p \in Names
    BY <1>1, StageName DEF CreateStage
  <2>2. /\ staging[p] = Absent
        /\ staging' = [staging EXCEPT ![p] = w]
        /\ path' = [path EXCEPT ![w] = p]
        /\ active' = [active EXCEPT ![w] = TRUE]
        /\ pc' = [pc EXCEPT ![w] = "created"]
        /\ leaked' = leaked
    BY <1>1 DEF CreateStage, NameFree, history
  <2>3. ~active[w]
    BY <1>1 DEF CreateStage, WellFormed, WriterOK, ActiveSteps
  <2> HIDE DEF p
  <2>4. StageExclusive'
    BY <2>1, <2>2, WritersAssumption DEF StageExclusive, Staged, TypeOK,
       WellFormed, WriterOK
  <2>5. NoStrayStage'
    BY <2>1, <2>2, <2>3, WritersAssumption DEF NoStrayStage, Staged, TypeOK
  <2> QED
    BY <2>4, <2>5
<1>2. ASSUME NEW w \in Writers, MonitorFails(w) \/ PublishFails(w) \/ Abort(w)
      PROVE  StageExclusive' /\ NoStrayStage'
  <2>1. /\ active[w] /\ pc[w] # "renamed" /\ CleanupStage(w)
        /\ UNCHANGED path
        /\ \A u \in Writers : pc'[u] = "renamed" <=> pc[u] = "renamed"
    BY <1>2 DEF MonitorFails, PublishFails, Abort, LockFree, control, TypeOK,
       WellFormed, WriterOK, ActiveSteps
  <2> QED
    BY <2>1, CleanupStages
<1>3. ASSUME NEW w \in Writers, DownAborts(w) \/ DropWriter(w)
      PROVE  StageExclusive' /\ NoStrayStage'
  <2>1. /\ AbortIfActive(w) /\ pc[w] # "renamed" /\ UNCHANGED path
        /\ \A u \in Writers : pc'[u] = "renamed" <=> pc[u] = "renamed"
    BY <1>3 DEF DownAborts, DropWriter, LockFree, control, TypeOK
  <2>2. CASE active[w] /\ CleanupStage(w)
    BY <2>1, <2>2, CleanupStages
  <2>3. CASE UNCHANGED <<active, staging, leaked>>
    BY <2>1, <2>3 DEF StageExclusive, NoStrayStage, Staged, TypeOK
  <2> QED
    BY <2>1, <2>2, <2>3 DEF AbortIfActive
<1>4. ASSUME NEW w \in Writers, RenameStage(w)
      PROVE  StageExclusive' /\ NoStrayStage'
  <2>1. path[w] \in Names /\ staging[path[w]] = w
    BY <1>4 DEF RenameStage, WellFormed, WriterOK, ActiveSteps, StageExclusive,
       Staged
  <2> QED
    BY <1>4, <2>1, WritersAssumption DEF RenameStage, StageExclusive,
       NoStrayStage, Staged, TypeOK, WellFormed, WriterOK, writerState
<1>5. ASSUME NEW w \in Writers, FinishPublish(w)
      PROVE  StageExclusive' /\ NoStrayStage'
  BY <1>5 DEF FinishPublish, Finish, StageExclusive, NoStrayStage, Staged,
     TypeOK, disk
<1>6. ASSUME NEW n \in Nodes, Crash(n)
      PROVE  StageExclusive' /\ NoStrayStage'
  <2>1. StageExclusive'
    BY <1>6 DEF Crash, StageExclusive, Staged, disk
  <2>2. ASSUME NEW p \in Names, staging'[p] # Absent, p \notin leaked'
        PROVE  Staged(staging[p])' /\ path'[staging[p]] = p
    <3>1. staging[p] \in Writers /\ node[staging[p]] # n /\ p \notin leaked
      BY <1>6, <2>2 DEF Crash, TypeOK, disk
    <3>2. Staged(staging[p]) /\ path[staging[p]] = p
      BY <1>6, <2>2, <3>1 DEF Crash, NoStrayStage, disk
    <3> QED
      BY <1>6, <3>1, <3>2 DEF Crash, Staged, disk
  <2>3. NoStrayStage'
    BY <1>6, <2>2 DEF Crash, NoStrayStage, disk
  <2> QED
    BY <2>1, <2>3
<1>7. ASSUME UNCHANGED <<active, path, staging, leaked>>,
             \A w \in Writers : pc'[w] = "renamed" <=> pc[w] = "renamed"
      PROVE  StageExclusive' /\ NoStrayStage'
  BY <1>7 DEF StageExclusive, NoStrayStage, Staged, TypeOK
<1>8. ASSUME NEW w \in Writers,
             \/ StageNameTaken(w)
             \/ StageFails(w)
             \/ MonitorOwner(w)
             \/ Write(w)
             \/ BeginPublish(w)
             \/ PreparePublish(w)
             \/ RemoveDestination(w)
             \/ OwnerExits(w)
             \/ DownCancels(w)
      PROVE  StageExclusive' /\ NoStrayStage'
  <2>1. UNCHANGED <<active, path, staging, leaked>>
    BY <1>8 DEF StageNameTaken, StageFails, MonitorOwner, Write, BeginPublish,
       PreparePublish, RemoveDestination, OwnerExits, DownCancels, control,
       writerState, disk, history
  <2>2. \A u \in Writers : pc'[u] = "renamed" <=> pc[u] = "renamed"
    BY <1>8 DEF StageNameTaken, StageFails, MonitorOwner, Write, BeginPublish,
       PreparePublish, RemoveDestination, OwnerExits, DownCancels, control,
       LockFree, TypeOK
  <2> QED
    BY <1>7, <2>1, <2>2
<1>9. ASSUME NEW w \in Writers, NEW n \in Nodes, NEW k \in Keys,
             OpenWriter(w, n, k)
      PROVE  StageExclusive' /\ NoStrayStage'
  BY <1>7, <1>9 DEF OpenWriter, TypeOK, writerState, disk, history
<1>10. ASSUME NEW k \in Keys, DeleteObject(k)
       PROVE  StageExclusive' /\ NoStrayStage'
  BY <1>7, <1>10 DEF DeleteObject, control, writerState, history
<1>11. CASE UNCHANGED vars
  BY <1>7, <1>11 DEF vars, control, writerState, disk, history
<1> QED
  BY <1>1, <1>2, <1>3, <1>4, <1>5, <1>6, <1>8, <1>9, <1>10, <1>11
     DEF Next, NativeStep, CallerStep

\* Only the rename in publish makes a writer committed and puts an object in
\* place, and what it puts there is the writer's own file.
LEMMA VisibleStep ==
    ASSUME TypeOK, WellFormed, StageExclusive, VisibleIsOwn, [Next]_vars
    PROVE  VisibleIsOwn'
<1>1. ASSUME NEW w \in Writers, RenameStage(w)
      PROVE  VisibleIsOwn'
  <2>1. staging[path[w]] = w /\ key[w] \in Keys
    BY <1>1 DEF RenameStage, WellFormed, WriterOK, ActiveSteps, StageExclusive,
       Staged
  <2> QED
    BY <1>1, <2>1 DEF RenameStage, VisibleIsOwn, TypeOK
<1>2. ASSUME NEW w \in Writers, NEW n \in Nodes, NEW k \in Keys,
             OpenWriter(w, n, k)
      PROVE  VisibleIsOwn'
  <2>1. w \notin committed
    BY <1>2 DEF OpenWriter, WellFormed, WriterOK
  <2> QED
    BY <1>2, <2>1 DEF OpenWriter, VisibleIsOwn, TypeOK, disk, history
<1>3. ASSUME NEW k \in Keys, DeleteObject(k)
      PROVE  VisibleIsOwn'
  BY <1>3 DEF DeleteObject, VisibleIsOwn, TypeOK, control, history
<1>4. ASSUME NEW w \in Writers, NativeStep(w) \/ CallerStep(w),
             ~RenameStage(w), ~RemoveDestination(w)
      PROVE  UNCHANGED <<key, visible, committed>>
  BY <1>4 DEF NativeStep, CallerStep, CreateStage, StageNameTaken, StageFails,
     MonitorOwner, MonitorFails, Write, BeginPublish, PreparePublish,
     PublishFails, FinishPublish, Abort, OwnerExits, DownCancels, DownAborts,
     DropWriter, control, disk, history
<1>5. ASSUME NEW n \in Nodes, Crash(n)
      PROVE  UNCHANGED <<key, visible, committed>>
  BY <1>5 DEF Crash, disk
<1>6. CASE UNCHANGED <<key, visible, committed>>
  BY <1>6 DEF VisibleIsOwn
<1>8. ASSUME NEW w \in Writers, RemoveDestination(w)
      PROVE  VisibleIsOwn'
  BY <1>8 DEF RemoveDestination, VisibleIsOwn, TypeOK, history
<1>7. CASE UNCHANGED vars
  BY <1>6, <1>7 DEF vars, control, disk, history
<1> QED
  BY <1>1, <1>2, <1>3, <1>4, <1>5, <1>6, <1>7, <1>8 DEF Next

\* The answers stay honest: a writer answers once, when it stops being active.
LEMMA ReplyStep ==
    ASSUME TypeOK, WellFormed, ReplyHonest, [Next]_vars
    PROVE  ReplyHonest'
<1>1. ASSUME NEW w \in Writers, RenameStage(w)
      PROVE  ReplyHonest'
  <2>1. reply[w] = "none"
    BY <1>1 DEF RenameStage, WellFormed, WriterOK
  <2> QED
    BY <1>1, <2>1 DEF RenameStage, ReplyHonest, TypeOK
<1>2. ASSUME NEW w \in Writers, PublishFails(w) \/ Abort(w)
      PROVE  ReplyHonest'
  <2>1. w \notin committed
    BY <1>2 DEF PublishFails, Abort, LockFree, WellFormed, WriterOK, ActiveSteps
  <2> QED
    BY <1>2, <2>1 DEF PublishFails, Abort, ReplyHonest, TypeOK
<1>3. ASSUME NEW w \in Writers, FinishPublish(w)
      PROVE  ReplyHonest'
  <2>1. w \in committed
    BY <1>3 DEF FinishPublish, WellFormed, WriterOK
  <2> QED
    BY <1>3, <2>1 DEF FinishPublish, ReplyHonest, TypeOK
<1>4. ASSUME NEW w \in Writers, NativeStep(w) \/ CallerStep(w),
             ~RenameStage(w), ~PublishFails(w), ~Abort(w), ~FinishPublish(w)
      PROVE  UNCHANGED <<committed, reply>>
  BY <1>4 DEF NativeStep, CallerStep, CreateStage, StageNameTaken, StageFails,
     MonitorOwner, MonitorFails, Write, BeginPublish, PreparePublish,
     RemoveDestination, OwnerExits, DownCancels, DownAborts, DropWriter, history
<1>5. ASSUME NEW w \in Writers, NEW n \in Nodes, NEW k \in Keys,
             OpenWriter(w, n, k)
      PROVE  UNCHANGED <<committed, reply>>
  BY <1>5 DEF OpenWriter, history
<1>6. ASSUME NEW k \in Keys, DeleteObject(k)
      PROVE  UNCHANGED <<committed, reply>>
  BY <1>6 DEF DeleteObject, history
<1>7. ASSUME NEW n \in Nodes, Crash(n)
      PROVE  UNCHANGED <<committed, reply>>
  BY <1>7 DEF Crash
<1>8. CASE UNCHANGED <<committed, reply>>
  BY <1>8 DEF ReplyHonest
<1>9. CASE UNCHANGED vars
  BY <1>8, <1>9 DEF vars, history
<1> QED
  BY <1>1, <1>2, <1>3, <1>4, <1>5, <1>6, <1>7, <1>8, <1>9 DEF Next
-----------------------------------------------------------------------------
(***************************************************************************)
(* The inductive invariant holds in every reachable state, for any number  *)
(* of instances, writers and keys, any bound and either sync policy.       *)
(***************************************************************************)
THEOREM Invariance == Spec => []IInv
<1>1. IInv /\ [Next]_vars => IInv'
  BY TypeStep, WellFormedStep, CounterStep, StageStep, VisibleStep, ReplyStep
     DEF IInv
<1> QED
  BY InitIInv, <1>1, PTL DEF Spec

\* The variables of the staged writer keep their types, and ACTIVE_WRITERS, an
\* unsigned counter that never wraps below zero, is exactly the number of active
\* writers of its instance, whichever of publish, abort, owner exit and Drop
\* ends each of them.
THEOREM CountersAreConsistent == Spec => []CountersConsistent
<1>1. IInv => CountersConsistent
  BY DEF IInv, CountersConsistent
<1> QED
  BY Invariance, <1>1, PTL

\* Two live writers never share a staging file, and no error path leaves a
\* staging file without a live writer, other than the ones the OS or a crash
\* left behind.
THEOREM StagingIsExclusive == Spec => []StagingSound
<1>1. IInv => StagingSound
  BY DEF IInv, StagingSound
<1> QED
  BY Invariance, <1>1, PTL

\* A key only ever holds the file of a committed writer of that key.
THEOREM VisibleObjects == Spec => []VisibleIsOwn
<1>1. IInv => VisibleIsOwn
  BY DEF IInv
<1> QED
  BY Invariance, <1>1, PTL

\* publish and cancel answer what happened.
THEOREM HonestReplies == Spec => []ReplyHonest
<1>1. IInv => ReplyHonest
  BY DEF IInv
<1> QED
  BY Invariance, <1>1, PTL

\* A writer whose token was set before its publish was admitted never becomes
\* visible.
THEOREM CancelledStaysDoomed == Spec => CancelStopsPublish
<1>1. TypeOK /\ [Next]_vars => [\A w \in Writers : Doomed(w) => Doomed(w)']_vars
  <2> SUFFICES ASSUME TypeOK, [Next]_vars, NEW w \in Writers, Doomed(w)
               PROVE  Doomed(w)'
    OBVIOUS
  <2>1. ASSUME NEW u \in Writers, NativeStep(u) \/ CallerStep(u)
        PROVE  Doomed(w)'
    BY <2>1 DEF NativeStep, CallerStep, CreateStage, StageNameTaken, StageFails,
       MonitorOwner, MonitorFails, Write, BeginPublish, PreparePublish,
       RemoveDestination, RenameStage, PublishFails, FinishPublish, Abort,
       OwnerExits, DownCancels, DownAborts, DropWriter, LockFree, EnsureOpen, control,
       writerState, history, Doomed, TypeOK
  <2>2. ASSUME NEW u \in Writers, NEW n \in Nodes, NEW k \in Keys,
               OpenWriter(u, n, k)
        PROVE  Doomed(w)'
    BY <2>2 DEF OpenWriter, Doomed, TypeOK, writerState, history
  <2>3. ASSUME NEW k \in Keys, DeleteObject(k)
        PROVE  Doomed(w)'
    BY <2>3 DEF DeleteObject, Doomed, control, writerState, history
  <2>4. ASSUME NEW n \in Nodes, Crash(n)
        PROVE  Doomed(w)'
    BY <2>4 DEF Crash, Doomed
  <2>5. CASE UNCHANGED vars
    BY <2>5 DEF vars, Doomed, control, writerState, history
  <2> QED
    BY <2>1, <2>2, <2>3, <2>4, <2>5 DEF Next
<1>2. IInv => TypeOK
  BY DEF IInv
<1> QED
  BY Invariance, <1>2, <1>1, PTL DEF Spec, CancelStopsPublish

\* The bytes of a published object never change, and only a delete of its key,
\* or the step of a publication on Windows that removes the object in place,
\* takes it away from its key.
THEOREM PublishedStaysFrozen == Spec => PublishedFrozen
<1> DEFINE Frozen == \A w \in committed : whole'[w] = whole[w] /\ torn'[w] = torn[w]
           Kept == \A k \in Keys : Emptied(k) =>
                        DeleteObject(k) \/ \E w \in Writers : Replacing(w, k)
<1>1. IInv /\ [Next]_vars => [Frozen]_vars
  <2> SUFFICES ASSUME TypeOK, WellFormed, [Next]_vars, NEW w \in committed
               PROVE  whole'[w] = whole[w] /\ torn'[w] = torn[w]
    BY DEF IInv
  <2>1. w \in Writers
    BY DEF TypeOK
  <2>2. ASSUME NEW u \in Writers, Write(u)
        PROVE  whole'[w] = whole[w] /\ torn'[w] = torn[w]
    <3>1. u # w
      BY <2>1, <2>2 DEF Write, LockFree, EnsureOpen, WellFormed, WriterOK
    <3> QED
      BY <2>1, <2>2, <3>1 DEF Write, TypeOK
  <2>3. ASSUME NEW u \in Writers, NativeStep(u) \/ CallerStep(u), ~Write(u)
        PROVE  UNCHANGED <<whole, torn>>
    BY <2>3 DEF NativeStep, CallerStep, CreateStage, StageNameTaken, StageFails,
       MonitorOwner, MonitorFails, BeginPublish, PreparePublish,
       RemoveDestination, RenameStage, PublishFails, FinishPublish, Abort, OwnerExits, DownCancels,
       DownAborts, DropWriter, data
  <2>4. ASSUME NEW u \in Writers, NEW n \in Nodes, NEW k \in Keys,
               OpenWriter(u, n, k)
        PROVE  UNCHANGED <<whole, torn>>
    BY <2>4 DEF OpenWriter, data
  <2>5. ASSUME NEW k \in Keys, DeleteObject(k)
        PROVE  UNCHANGED <<whole, torn>>
    BY <2>5 DEF DeleteObject, data
  <2>6. ASSUME NEW n \in Nodes, Crash(n)
        PROVE  UNCHANGED <<whole, torn>>
    BY <2>6 DEF Crash, data
  <2>7. CASE UNCHANGED vars
    BY <2>7 DEF vars, data
  <2> QED
    BY <2>2, <2>3, <2>4, <2>5, <2>6, <2>7 DEF Next
<1>2. IInv /\ [Next]_vars => [Kept]_vars
  <2> SUFFICES ASSUME TypeOK, WellFormed, [Next]_vars, NEW k \in Keys, Emptied(k)
               PROVE  DeleteObject(k) \/ \E w \in Writers : Replacing(w, k)
    BY DEF IInv
  <2>1. ASSUME NEW u \in Writers, RemoveDestination(u)
        PROVE  Replacing(u, k)
    BY <2>1 DEF RemoveDestination, Replacing, Emptied, TypeOK
  <2>2. ASSUME NEW u \in Writers, RenameStage(u)
        PROVE  FALSE
    BY <2>2 DEF RenameStage, Emptied, TypeOK
  <2>3. ASSUME NEW u \in Writers, NativeStep(u) \/ CallerStep(u),
               ~RemoveDestination(u), ~RenameStage(u)
        PROVE  UNCHANGED visible
    BY <2>3 DEF NativeStep, CallerStep, CreateStage, StageNameTaken, StageFails,
       MonitorOwner, MonitorFails, Write, BeginPublish, PreparePublish,
       PublishFails, FinishPublish, Abort, OwnerExits, DownCancels,
       DownAborts, DropWriter, disk
  <2>4. ASSUME NEW u \in Writers, NEW n \in Nodes, NEW l \in Keys,
               OpenWriter(u, n, l)
        PROVE  UNCHANGED visible
    BY <2>4 DEF OpenWriter, disk
  <2>5. ASSUME NEW l \in Keys, DeleteObject(l)
        PROVE  DeleteObject(k)
    <3>1. l = k
      BY <2>5 DEF DeleteObject, Emptied, TypeOK
    <3> QED
      BY <2>5, <3>1
  <2>6. ASSUME NEW n \in Nodes, Crash(n)
        PROVE  UNCHANGED visible
    BY <2>6 DEF Crash, disk
  <2>7. CASE UNCHANGED vars
    BY <2>7 DEF vars, disk, Emptied
  <2> QED
    BY <2>1, <2>2, <2>3, <2>4, <2>5, <2>6, <2>7 DEF Next, Emptied
<1>3. [Frozen]_vars /\ [Kept]_vars => [Frozen /\ Kept]_vars
  OBVIOUS
<1> QED
  BY Invariance, <1>1, <1>2, <1>3, PTL DEF Spec, PublishedFrozen
-----------------------------------------------------------------------------
(***************************************************************************)
(* The staged local writer implements ObjectStore, for every value of the  *)
(* constants: under the mapping of LocalWriter (a writer is open while it  *)
(* is being opened or active, published once it has been renamed, and      *)
(* discarded otherwise) each of its steps is a step of the abstract store  *)
(* or leaves it alone.  The steps rest on the inductive invariant above:   *)
(* the rename publishes the writer's own file only because staging files   *)
(* are exclusive, and nothing that has been published is ever discarded    *)
(* only because a committed writer that is still active stands at          *)
(* "renamed".                                                              *)
(***************************************************************************)

\* What the abstract store sees.
AbstractVars == <<visible, AbstractStatus, key, AbstractContent>>

\* The abstract content depends on the chunks alone.
LEMMA ContentFrame ==
    ASSUME UNCHANGED <<whole, torn>>
    PROVE  UNCHANGED AbstractContent
  BY DEF AbstractContent

\* One writer leaves the open state without being published.
LEMMA DiscardOne ==
    ASSUME NEW w \in Writers, AbstractStatus[w] = "open",
           AbstractStatus' = [AbstractStatus EXCEPT ![w] = "discarded"],
           UNCHANGED <<visible, key, AbstractContent>>
    PROVE  Abstract!Next
<1>1. Abstract!Discard({w})
  BY DEF Abstract!Discard, AbstractStatus
<1> QED
  BY <1>1 DEF Abstract!Next

\* A writer that was active or being opened ends; every other writer stays.
LEMMA EndsOne ==
    ASSUME TypeOK, NEW w \in Writers, w \notin committed, pc[w] # "unopened",
           active[w] \/ pc[w] = "opening",
           active' = [active EXCEPT ![w] = FALSE],
           pc' = [pc EXCEPT ![w] = pc'[w]], pc'[w] \in {"idle", "dropped"},
           UNCHANGED <<visible, key, whole, torn, committed>>
    PROVE  Abstract!Next
<1>1. AbstractStatus[w] = "open"
  BY DEF AbstractStatus
<1>2. AbstractStatus' = [AbstractStatus EXCEPT ![w] = "discarded"]
  BY DEF AbstractStatus, TypeOK
<1> QED
  BY <1>1, <1>2, DiscardOne, ContentFrame

\* The initial states of the staged writer are initial states of the store.
LEMMA InitRefines == Init => Abstract!Init
  BY DEF Init, Abstract!Init, AbstractStatus, AbstractContent,
     Abstract!NoContent

\* Every step is a step of the store or leaves it alone.
LEMMA StepRefines ==
    ASSUME IInv, [Next]_vars
    PROVE  Abstract!Next \/ UNCHANGED AbstractVars
<1> USE DEF IInv
<1>1. ASSUME NEW w \in Writers, NEW n \in Nodes, NEW k \in Keys,
             OpenWriter(w, n, k)
      PROVE  Abstract!Next
  <2>1. w \notin committed /\ ~active[w]
    BY <1>1 DEF OpenWriter, WellFormed, WriterOK, ActiveSteps
  <2>2. AbstractStatus[w] = "unopened"
    BY <1>1, <2>1 DEF OpenWriter, AbstractStatus
  <2>3. AbstractStatus' = [AbstractStatus EXCEPT ![w] = "open"]
    BY <1>1, <2>1 DEF OpenWriter, AbstractStatus, TypeOK, writerState, history
  <2>4. Abstract!Begin(w, k)
    BY <1>1, <2>2, <2>3, ContentFrame
       DEF OpenWriter, Abstract!Begin, disk, data
  <2> QED
    BY <2>4 DEF Abstract!Next
<1>2. ASSUME NEW w \in Writers, Write(w)
      PROVE  Abstract!Next
  <2>1. w \notin committed /\ active[w] /\ pc[w] = "idle"
    BY <1>2 DEF Write, LockFree, EnsureOpen, WellFormed, WriterOK
  <2>2. AbstractStatus[w] = "open"
    BY <2>1 DEF AbstractStatus
  <2>3. UNCHANGED <<visible, AbstractStatus, key>>
    BY <1>2 DEF Write, AbstractStatus, control, writerState, disk, history
  <2>4. /\ AbstractContent'[w] \in Abstract!Content
        /\ AbstractContent' = [AbstractContent EXCEPT ![w] = AbstractContent'[w]]
    <3>1. \A u \in Writers : u # w => whole'[u] = whole[u] /\ torn'[u] = torn[u]
      BY <1>2 DEF Write, TypeOK
    <3>2. TypeOK'
      BY TypeStep
    <3>3. whole'[w] \in Nat /\ torn'[w] \in BOOLEAN
      BY <3>2 DEF TypeOK
    <3> QED
      BY <3>1, <3>3 DEF AbstractContent, Abstract!Content
  <2>5. Abstract!Amend(w)
    BY <2>2, <2>3, <2>4 DEF Abstract!Amend
  <2> QED
    BY <2>5 DEF Abstract!Next
<1>3. ASSUME NEW w \in Writers, RenameStage(w)
      PROVE  Abstract!Next
  <2>1. active[w] /\ w \notin committed /\ staging[path[w]] = w
    BY <1>3 DEF RenameStage, WellFormed, WriterOK, ActiveSteps, StageExclusive,
       Staged
  <2>2. AbstractStatus[w] = "open"
    BY <1>3, <2>1 DEF RenameStage, AbstractStatus
  <2>3. AbstractStatus' = [AbstractStatus EXCEPT ![w] = "published"]
    BY <1>3, <2>1 DEF RenameStage, AbstractStatus, TypeOK, writerState
  <2>4. Abstract!Publish(w)
    BY <1>3, <2>1, <2>2, <2>3, ContentFrame
       DEF RenameStage, Abstract!Publish, data
  <2> QED
    BY <2>4 DEF Abstract!Next
<1>4. ASSUME NEW w \in Writers, MonitorFails(w) \/ PublishFails(w) \/ Abort(w)
      PROVE  Abstract!Next
  <2>1. active[w] /\ w \notin committed /\ pc[w] # "unopened"
    BY <1>4 DEF MonitorFails, PublishFails, Abort, LockFree, WellFormed,
       WriterOK, ActiveSteps
  <2>2. active' = [active EXCEPT ![w] = FALSE]
    BY <1>4 DEF MonitorFails, PublishFails, Abort, CleanupStage, Finish
  <2>3. pc' = [pc EXCEPT ![w] = pc'[w]] /\ pc'[w] \in {"idle", "dropped"}
    BY <1>4 DEF MonitorFails, PublishFails, Abort, LockFree, control, TypeOK
  <2>4. UNCHANGED <<visible, key, whole, torn, committed>>
    BY <1>4 DEF MonitorFails, PublishFails, Abort, control, data
  <2> QED
    BY <2>1, <2>2, <2>3, <2>4, EndsOne
<1>5. ASSUME NEW w \in Writers, DownAborts(w) \/ DropWriter(w)
      PROVE  Abstract!Next \/ UNCHANGED AbstractVars
  <2>1. /\ pc[w] = "idle"
        /\ pc' = [pc EXCEPT ![w] = pc'[w]] /\ pc'[w] \in {"idle", "dropped"}
    BY <1>5 DEF DownAborts, DropWriter, LockFree, control, TypeOK
  <2>2. UNCHANGED <<visible, key, whole, torn, committed>>
    BY <1>5 DEF DownAborts, DropWriter, control, data
  <2>3. CASE active[w] /\ CleanupStage(w)
    <3>1. w \notin committed
      BY <2>1, <2>3 DEF WellFormed, WriterOK
    <3>2. active' = [active EXCEPT ![w] = FALSE]
      BY <2>3 DEF CleanupStage, Finish
    <3> QED
      BY <2>1, <2>2, <2>3, <3>1, <3>2, EndsOne
  <2>4. CASE ~active[w] /\ UNCHANGED active
    <3>1. AbstractStatus' = AbstractStatus
      BY <2>1, <2>2, <2>4 DEF AbstractStatus, TypeOK
    <3> QED
      BY <2>2, <3>1, ContentFrame DEF AbstractVars
  <2> QED
    BY <1>5, <2>3, <2>4 DEF DownAborts, DropWriter, AbortIfActive
<1>6. ASSUME NEW w \in Writers, StageNameTaken(w) \/ StageFails(w)
      PROVE  Abstract!Next \/ UNCHANGED AbstractVars
  <2>1. /\ ~active[w] /\ w \notin committed /\ pc[w] = "opening"
        /\ pc' = [pc EXCEPT ![w] = pc'[w]] /\ pc'[w] \in {"opening", "dropped"}
        /\ UNCHANGED <<visible, key, whole, torn, committed, active>>
    BY <1>6 DEF StageNameTaken, StageFails, WellFormed, WriterOK, ActiveSteps, TypeOK,
       writerState, data, disk, history
  <2>2. CASE pc'[w] = "dropped"
    <3>1. active' = [active EXCEPT ![w] = FALSE]
      BY <2>1 DEF TypeOK
    <3> QED
      BY <2>1, <2>2, <3>1, EndsOne
  <2>3. CASE pc'[w] = "opening"
    <3>1. AbstractStatus' = AbstractStatus
      BY <2>1, <2>3 DEF AbstractStatus, TypeOK
    <3> QED
      BY <2>1, <3>1, ContentFrame DEF AbstractVars
  <2> QED
    BY <2>1, <2>2, <2>3
<1>7. ASSUME NEW w \in Writers,
             \/ CreateStage(w)
             \/ MonitorOwner(w)
             \/ BeginPublish(w)
             \/ PreparePublish(w)
             \/ FinishPublish(w)
             \/ OwnerExits(w)
             \/ DownCancels(w)
      PROVE  UNCHANGED AbstractVars
  <2>1. UNCHANGED <<visible, key, whole, torn, committed>>
    BY <1>7 DEF CreateStage, MonitorOwner, BeginPublish, PreparePublish,
       FinishPublish, OwnerExits, DownCancels, control, data, disk, history
  <2>2. AbstractStatus' = AbstractStatus
    <3>1. CASE FinishPublish(w)
      BY <3>1 DEF FinishPublish, Finish, AbstractStatus, TypeOK, WellFormed,
         WriterOK
    <3>2. CASE CreateStage(w)
      BY <3>2 DEF CreateStage, AbstractStatus, TypeOK, history
    <3>3. CASE MonitorOwner(w) \/ BeginPublish(w) \/ PreparePublish(w)
      <4>1. /\ active[w] /\ pc[w] # "unopened"
            /\ pc' = [pc EXCEPT ![w] = pc'[w]] /\ pc'[w] # "unopened"
            /\ UNCHANGED <<active, committed>>
        BY <3>3 DEF MonitorOwner, BeginPublish, PreparePublish, LockFree,
           EnsureOpen, TypeOK, WellFormed, WriterOK, ActiveSteps, writerState,
           history
      <4> QED
        BY <4>1 DEF AbstractStatus, TypeOK
    <3>4. CASE OwnerExits(w) \/ DownCancels(w)
      BY <3>4 DEF OwnerExits, DownCancels, AbstractStatus, control, writerState,
         history
    <3> QED
      BY <1>7, <3>1, <3>2, <3>3, <3>4
  <2> QED
    BY <2>1, <2>2, ContentFrame DEF AbstractVars
<1>8. ASSUME NEW k \in Keys, DeleteObject(k)
      PROVE  Abstract!Next
  <2>1. UNCHANGED <<AbstractStatus, key, AbstractContent>>
    BY <1>8 DEF DeleteObject, AbstractStatus, AbstractContent, control,
       writerState, data, history
  <2>2. Abstract!Remove(k)
    BY <1>8, <2>1 DEF DeleteObject, Abstract!Remove
  <2> QED
    BY <2>2 DEF Abstract!Next
<1>9. ASSUME NEW n \in Nodes, Crash(n)
      PROVE  Abstract!Next
  <2> DEFINE W == {w \in Writers : node[w] = n /\ AbstractStatus[w] = "open"}
  <2>1. UNCHANGED <<visible, key, AbstractContent, committed>>
    BY <1>9, ContentFrame DEF Crash, disk, data
  <2>2. AbstractStatus' =
            [w \in Writers |-> IF w \in W THEN "discarded" ELSE AbstractStatus[w]]
    <3> SUFFICES ASSUME NEW w \in Writers
                 PROVE  AbstractStatus'[w] =
                            IF w \in W THEN "discarded" ELSE AbstractStatus[w]
      BY DEF AbstractStatus
    <3>1. CASE node[w] = n
      <4>1. pc[w] # "unopened"
        BY <3>1, AbsentKeyAssumption DEF WellFormed, WriterOK
      <4>2. pc'[w] = "dropped" /\ ~active'[w]
        BY <1>9, <3>1 DEF Crash
      <4> QED
        BY <2>1, <3>1, <4>1, <4>2 DEF AbstractStatus
    <3>2. CASE node[w] # n
      BY <1>9, <2>1, <3>2 DEF Crash, AbstractStatus
    <3> QED
      BY <3>1, <3>2
  <2>3. Abstract!Discard(W)
    BY <2>1, <2>2 DEF Abstract!Discard
  <2> QED
    BY <2>3 DEF Abstract!Next
<1>11. ASSUME NEW w \in Writers, RemoveDestination(w)
       PROVE  Abstract!Next \/ UNCHANGED AbstractVars
  <2>1. active[w] /\ key[w] \in Keys
    BY <1>11 DEF RemoveDestination, WellFormed, WriterOK, ActiveSteps
  <2>2. AbstractStatus' = AbstractStatus
    BY <1>11, <2>1 DEF RemoveDestination, AbstractStatus, TypeOK, writerState,
       history
  <2>3. UNCHANGED <<key, AbstractContent>>
    BY <1>11, ContentFrame DEF RemoveDestination, data
  <2>4. CASE visible[key[w]] # Absent
    <3>1. Abstract!Remove(key[w])
      BY <1>11, <2>2, <2>3, <2>4 DEF RemoveDestination, Abstract!Remove
    <3> QED
      BY <2>1, <3>1 DEF Abstract!Next
  <2>5. CASE visible[key[w]] = Absent
    <3>1. visible' = visible
      BY <1>11, <2>1, <2>5 DEF RemoveDestination, TypeOK
    <3> QED
      BY <2>2, <2>3, <3>1 DEF AbstractVars
  <2> QED
    BY <2>4, <2>5
<1>10. CASE UNCHANGED vars
  BY <1>10 DEF vars, AbstractVars, AbstractStatus, AbstractContent, control,
     writerState, data, disk, history
<1> QED
  BY <1>1, <1>2, <1>3, <1>4, <1>5, <1>6, <1>7, <1>8, <1>9, <1>10,
     <1>11 DEF Next, NativeStep, CallerStep

(***************************************************************************)
(* The staged local writer implements the abstract store: a key holds the  *)
(* whole content of one published writer, publishing happens at most once, *)
(* and a discarded writer never becomes visible.                           *)
(***************************************************************************)
THEOREM Refinement == Spec => ImplementsObjectStore
<1>1. IInv /\ [Next]_vars => [Abstract!Next]_(Abstract!vars)
  BY StepRefines DEF AbstractVars, Abstract!vars
<1> QED
  BY Invariance, InitRefines, <1>1, PTL
     DEF Spec, ImplementsObjectStore, Abstract!Spec
=============================================================================
