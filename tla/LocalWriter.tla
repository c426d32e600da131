----------------------------- MODULE LocalWriter -----------------------------
(***************************************************************************)
(* The staged local writer behind Parquex.Store.open_writer/write/publish/ *)
(* cancel: native/parquex_nif/src/local.rs (LocalWriter), the resource and *)
(* its NIFs in lib.rs (StoreWriterResource) and the dispatch in store.rs.  *)
(*                                                                         *)
(* A writer fills a staging file beside its destination and publishes it   *)
(* by renaming it over the destination.  Every NIF call and the owner-exit *)
(* callback take the resource's mutex; the callback sets the cancellation  *)
(* token BEFORE it takes the mutex, so it interleaves with a publish that  *)
(* already holds it.  pc[w] is where the call that holds w's mutex stands  *)
(* ("idle": the mutex is free).                                            *)
(*                                                                         *)
(* Nodes are the BEAM instances that share the directory.  A staging name  *)
(* is made of the destination's name, the OS process id and a counter      *)
(* private to the instance; instances in containers commonly have the same *)
(* process id, and an instance restarts with its counter at zero, so the   *)
(* model gives every instance the same id: names clash, and only the       *)
(* exclusive creation of the file keeps two writers apart.                 *)
(***************************************************************************)
EXTENDS Integers, FiniteSets

CONSTANTS
    Nodes,          \* BEAM instances sharing the directory
    Writers,        \* identities of open_writer calls
    Keys,           \* object keys
    Absent,         \* no object, no staging file
    Sync,           \* the sync policy each writer is opened with
    RemovesFirst,   \* the instances built for Windows
    MaxAttempts,    \* staging names tried by one open (64 in the code)
    MaxSequence,    \* bound on an instance's staging counter
    MaxChunks,      \* bound on the write calls of one writer
    MaxCrashes      \* bound on the crashes of instances

ASSUME SyncAssumption == Sync \in [Writers -> {"none", "data", "all"}]
ASSUME PlatformAssumption == RemovesFirst \in SUBSET Nodes
ASSUME BoundsAssumption ==
    /\ MaxAttempts \in Nat \ {0}
    /\ MaxSequence \in Nat
    /\ MaxChunks \in Nat
    /\ MaxCrashes \in Nat
ASSUME WritersAssumption == IsFiniteSet(Writers) /\ Absent \notin Writers
ASSUME AbsentKeyAssumption == Absent \notin Keys /\ Absent \notin Nodes

VARIABLES
    pc,             \* the step of the call that holds the writer's mutex
    node,           \* the instance a writer runs on, or Absent
    key,            \* the destination of a writer, or Absent
    path,           \* the staging name of a writer, or Absent
    attempt,        \* staging names a writer has tried in vain
    file,           \* LocalWriter.file is Some
    active,         \* LocalWriter.active
    token,          \* the CancellationToken has been set
    owner,          \* the process that opened the writer, as the VM sees it
    whole,          \* whole chunks in the staging file: the acknowledged ones
    torn,           \* a failed write left data in it that nobody acknowledged
    sequence,       \* STAGE_SEQUENCE of each instance
    activeWriters,  \* ACTIVE_WRITERS of each instance
    staging,        \* directory entries of staging files
    visible,        \* directory entries of objects
    crashes,        \* crashes so far
    committed,      \* history: the writers that have been renamed into place
    reply,          \* history: what the admitted publish or the abort answered
    leaked          \* history: staging names the OS or a crash left behind

control == <<pc, node, key, path, attempt>>
writerState == <<file, active, token>>
counters == <<sequence, activeWriters>>
disk == <<staging, visible>>
data == <<whole, torn>>
history == <<committed, reply, leaked>>
vars == <<control, writerState, owner, data, counters, disk, crashes, history>>

\* stage_name: the destination's name and the counter (same process id)
Names == Keys \X (0 .. MaxSequence)

Init ==
    /\ pc = [w \in Writers |-> "unopened"]
    /\ node = [w \in Writers |-> Absent]
    /\ key = [w \in Writers |-> Absent]
    /\ path = [w \in Writers |-> Absent]
    /\ attempt = [w \in Writers |-> 0]
    /\ file = [w \in Writers |-> FALSE]
    /\ active = [w \in Writers |-> FALSE]
    /\ token = [w \in Writers |-> FALSE]
    /\ owner = [w \in Writers |-> "up"]
    /\ whole = [w \in Writers |-> 0]
    /\ torn = [w \in Writers |-> FALSE]
    /\ sequence = [n \in Nodes |-> 0]
    /\ activeWriters = [n \in Nodes |-> 0]
    /\ staging = [p \in Names |-> Absent]
    /\ visible = [k \in Keys |-> Absent]
    /\ crashes = 0
    /\ committed = {}
    /\ reply = [w \in Writers |-> "none"]
    /\ leaked = {}
-----------------------------------------------------------------------------
(***************************************************************************)
(* Pieces of LocalWriter shared by its operations.                         *)
(***************************************************************************)

(***************************************************************************)
(* Plausible bugs, one per property.  Nothing below refers to them: the    *)
(* mutants listed in PROJECT.json put one in the place of the definition   *)
(* that follows it.                                                        *)
(***************************************************************************)
LockIgnored(w) ==
    pc[w] \in {"idle", "publishing", "staged", "removed", "renamed"}
NameAlwaysFree(p) == TRUE
EnsureOpenIgnoresToken(w) == active[w] /\ file[w]
EnsureOpenIgnoresState(w) == ~token[w]
FinishUncounted(w) ==
    active' = [active EXCEPT ![w] = FALSE] /\ UNCHANGED activeWriters

\* The mutex of the writer's resource is free.
LockFree(w) == pc[w] = "idle"

\* create_new succeeds: the directory has no entry of this name.
NameFree(p) == staging[p] = Absent

\* ensure_open: the token is clear and the writer still has its file
EnsureOpen(w) == ~token[w] /\ active[w] /\ file[w]

\* finish: the writer stops counting
Finish(w) ==
    /\ active' = [active EXCEPT ![w] = FALSE]
    /\ activeWriters' = [activeWriters EXCEPT ![node[w]] = @ - 1]

(***************************************************************************)
(* cleanup_stage, and the body of abort: close the file, remove the        *)
(* staging file, finish.  The writer finishes even when the OS refuses to  *)
(* remove the file, which then stays behind.                               *)
(***************************************************************************)
CleanupStage(w) ==
    /\ file' = [file EXCEPT ![w] = FALSE]
    /\ Finish(w)
    /\ \/ /\ staging' = [staging EXCEPT ![path[w]] = Absent]
          /\ UNCHANGED leaked
       \/ /\ leaked' = leaked \cup {path[w]}
          /\ UNCHANGED staging

\* abort and Drop do nothing to a writer that has already finished.
AbortIfActive(w) ==
    \/ active[w] /\ CleanupStage(w)
    \/ ~active[w] /\ UNCHANGED <<file, active, activeWriters, staging, leaked>>
-----------------------------------------------------------------------------
(***************************************************************************)
(* store_writer_open                                                       *)
(***************************************************************************)

\* StoreResource::open_writer has accepted the key and made its parents.
OpenWriter(w, n, k) ==
    /\ pc[w] = "unopened"
    /\ pc' = [pc EXCEPT ![w] = "opening"]
    /\ node' = [node EXCEPT ![w] = n]
    /\ key' = [key EXCEPT ![w] = k]
    /\ UNCHANGED <<path, attempt, writerState, owner, data, counters, disk,
                   crashes, history>>

\* One turn of the loop in LocalWriter::open: the name is free, create_new
\* makes the file.
CreateStage(w) ==
    LET p == <<key[w], sequence[node[w]]>> IN
    /\ pc[w] = "opening"
    /\ sequence[node[w]] <= MaxSequence
    /\ NameFree(p)
    /\ sequence' = [sequence EXCEPT ![node[w]] = @ + 1]
    /\ staging' = [staging EXCEPT ![p] = w]
    /\ path' = [path EXCEPT ![w] = p]
    /\ file' = [file EXCEPT ![w] = TRUE]
    /\ active' = [active EXCEPT ![w] = TRUE]
    /\ activeWriters' = [activeWriters EXCEPT ![node[w]] = @ + 1]
    /\ pc' = [pc EXCEPT ![w] = "created"]
    /\ UNCHANGED <<node, key, attempt, token, owner, data, visible, crashes,
                   history>>

\* The name is taken: try the next one, or give up with a conflict.
StageNameTaken(w) ==
    /\ pc[w] = "opening"
    /\ sequence[node[w]] <= MaxSequence
    /\ ~NameFree(<<key[w], sequence[node[w]]>>)
    /\ sequence' = [sequence EXCEPT ![node[w]] = @ + 1]
    /\ attempt' = [attempt EXCEPT ![w] = @ + 1]
    /\ pc' = [pc EXCEPT ![w] =
                IF attempt'[w] = MaxAttempts THEN "dropped" ELSE "opening"]
    /\ UNCHANGED <<node, key, path, writerState, owner, data, activeWriters,
                   disk, crashes, history>>

\* create_new fails for another reason: the open fails.
StageFails(w) ==
    /\ pc[w] = "opening"
    /\ sequence[node[w]] <= MaxSequence
    /\ sequence' = [sequence EXCEPT ![node[w]] = @ + 1]
    /\ pc' = [pc EXCEPT ![w] = "dropped"]
    /\ UNCHANGED <<node, key, path, attempt, writerState, owner, data,
                   activeWriters, disk, crashes, history>>

\* env.monitor finds the owner alive: the caller gets the resource.
MonitorOwner(w) ==
    /\ pc[w] = "created"
    /\ owner[w] = "up"
    /\ pc' = [pc EXCEPT ![w] = "idle"]
    /\ UNCHANGED <<node, key, path, attempt, writerState, owner, data,
                   counters, disk, crashes, history>>

\* The owner is already gone: abort, and the resource is dropped.
MonitorFails(w) ==
    /\ pc[w] = "created"
    /\ owner[w] = "exited"
    /\ pc' = [pc EXCEPT ![w] = "dropped"]
    /\ token' = [token EXCEPT ![w] = TRUE]
    /\ CleanupStage(w)
    /\ UNCHANGED <<node, key, path, attempt, owner, data, sequence, visible,
                   crashes, committed, reply>>
-----------------------------------------------------------------------------
(***************************************************************************)
(* store_writer_write: the chunk reaches the staging file, or write_all or *)
(* flush fails after some of it did.  A failed write leaves the writer     *)
(* open.                                                                   *)
(***************************************************************************)
Write(w) ==
    /\ LockFree(w)
    /\ EnsureOpen(w)
    /\ whole[w] < MaxChunks
    /\ \/ whole' = [whole EXCEPT ![w] = @ + 1] /\ UNCHANGED torn
       \/ torn' = [torn EXCEPT ![w] = TRUE] /\ UNCHANGED whole
    /\ UNCHANGED <<control, writerState, owner, counters, disk, crashes,
                   history>>
-----------------------------------------------------------------------------
(***************************************************************************)
(* store_writer_publish.  A call that ensure_open refuses changes nothing. *)
(***************************************************************************)
BeginPublish(w) ==
    /\ LockFree(w)
    /\ EnsureOpen(w)
    /\ pc' = [pc EXCEPT ![w] = "publishing"]
    /\ UNCHANGED <<node, key, path, attempt, writerState, owner, data,
                   counters, disk, crashes, history>>

\* flush, sync and the metadata of the staging file succeed; the file closes.
PreparePublish(w) ==
    /\ pc[w] = "publishing"
    /\ staging[path[w]] # Absent
    /\ pc' = [pc EXCEPT ![w] = "staged"]
    /\ file' = [file EXCEPT ![w] = FALSE]
    /\ UNCHANGED <<node, key, path, attempt, active, token, owner, data,
                   counters, disk, crashes, history>>

\* replace_file on Windows: the object in place is removed before the rename.
RemoveDestination(w) ==
    /\ pc[w] = "staged"
    /\ node[w] \in RemovesFirst
    /\ visible' = [visible EXCEPT ![key[w]] = Absent]
    /\ pc' = [pc EXCEPT ![w] = "removed"]
    /\ UNCHANGED <<node, key, path, attempt, writerState, owner, data,
                   counters, staging, crashes, history>>

\* replace_file: the name of the object now refers to the staged file.
RenameStage(w) ==
    /\ pc[w] = IF node[w] \in RemovesFirst THEN "removed" ELSE "staged"
    /\ staging[path[w]] # Absent
    /\ visible' = [visible EXCEPT ![key[w]] = staging[path[w]]]
    /\ staging' = [staging EXCEPT ![path[w]] = Absent]
    /\ committed' = committed \cup {w}
    /\ pc' = [pc EXCEPT ![w] = "renamed"]
    /\ UNCHANGED <<node, key, path, attempt, writerState, owner, data,
                   counters, crashes, reply, leaked>>

\* flush, sync, metadata or rename fails: the staging file is cleaned up.
PublishFails(w) ==
    /\ pc[w] \in {"publishing", "staged", "removed"}
    /\ pc' = [pc EXCEPT ![w] = "idle"]
    /\ reply' = [reply EXCEPT ![w] = "publish_failed"]
    /\ CleanupStage(w)
    /\ UNCHANGED <<node, key, path, attempt, token, owner, data, sequence,
                   visible, crashes, committed>>

\* With the "all" policy the directory is synced after the rename; when that
\* fails the call answers with an error although the object is visible.
FinishPublish(w) ==
    /\ pc[w] = "renamed"
    /\ pc' = [pc EXCEPT ![w] = "idle"]
    /\ Finish(w)
    /\ \/ reply' = [reply EXCEPT ![w] = "published"]
       \/ Sync[w] = "all" /\ reply' = [reply EXCEPT ![w] = "publish_failed"]
    /\ UNCHANGED <<node, key, path, attempt, file, token, owner, data,
                   sequence, disk, crashes, committed, leaked>>
-----------------------------------------------------------------------------
(***************************************************************************)
(* store_writer_abort, the owner's exit and the end of the resource.       *)
(***************************************************************************)

\* LocalWriter::abort; on an inactive writer it answers "closed" and changes
\* nothing.
Abort(w) ==
    /\ LockFree(w)
    /\ active[w]
    /\ token' = [token EXCEPT ![w] = TRUE]
    /\ CleanupStage(w)
    /\ reply' = [reply EXCEPT ![w] = "aborted"]
    /\ UNCHANGED <<control, owner, data, sequence, visible, crashes,
                   committed>>

OwnerExits(w) ==
    /\ pc[w] \notin {"unopened", "dropped"}
    /\ owner[w] = "up"
    /\ owner' = [owner EXCEPT ![w] = "exited"]
    /\ UNCHANGED <<control, writerState, data, counters, disk, crashes,
                   history>>

\* StoreWriterResource::down, before it takes the mutex
DownCancels(w) ==
    /\ pc[w] \in {"idle", "publishing", "staged", "removed", "renamed"}
    /\ owner[w] = "exited"
    /\ owner' = [owner EXCEPT ![w] = "cancelling"]
    /\ token' = [token EXCEPT ![w] = TRUE]
    /\ UNCHANGED <<control, file, active, data, counters, disk, crashes,
                   history>>

\* StoreWriterResource::down, holding the mutex
DownAborts(w) ==
    /\ LockFree(w)
    /\ owner[w] = "cancelling"
    /\ owner' = [owner EXCEPT ![w] = "down"]
    /\ AbortIfActive(w)
    /\ UNCHANGED <<control, token, data, sequence, visible, crashes,
                   committed, reply>>

\* Nothing refers to the resource any more: Drop for LocalWriter.
DropWriter(w) ==
    /\ LockFree(w)
    /\ owner[w] # "cancelling"
    /\ pc' = [pc EXCEPT ![w] = "dropped"]
    /\ token' = [token EXCEPT ![w] = @ \/ active[w]]
    /\ AbortIfActive(w)
    /\ UNCHANGED <<node, key, path, attempt, owner, data, sequence, visible,
                   crashes, committed, reply>>
-----------------------------------------------------------------------------
(***************************************************************************)
(* Store.delete of an object, and the death of a BEAM instance: its        *)
(* memory is gone, its counters restart at zero, the directory stays.      *)
(***************************************************************************)
DeleteObject(k) ==
    /\ visible[k] # Absent
    /\ visible' = [visible EXCEPT ![k] = Absent]
    /\ UNCHANGED <<control, writerState, owner, data, counters, staging,
                   crashes, history>>

Crash(n) ==
    LET lost == {w \in Writers : node[w] = n} IN
    /\ crashes < MaxCrashes
    /\ crashes' = crashes + 1
    /\ pc' = [w \in Writers |-> IF w \in lost THEN "dropped" ELSE pc[w]]
    /\ file' = [w \in Writers |-> w \notin lost /\ file[w]]
    /\ active' = [w \in Writers |-> w \notin lost /\ active[w]]
    /\ sequence' = [sequence EXCEPT ![n] = 0]
    /\ activeWriters' = [activeWriters EXCEPT ![n] = 0]
    /\ leaked' = leaked \cup {p \in Names : staging[p] \in lost}
    /\ UNCHANGED <<node, key, path, attempt, token, owner, data, disk,
                   committed, reply>>
-----------------------------------------------------------------------------
\* What the native side does on its own once a call or a callback has begun.
NativeStep(w) ==
    \/ CreateStage(w)
    \/ StageNameTaken(w)
    \/ StageFails(w)
    \/ MonitorOwner(w)
    \/ MonitorFails(w)
    \/ PreparePublish(w)
    \/ RemoveDestination(w)
    \/ RenameStage(w)
    \/ PublishFails(w)
    \/ FinishPublish(w)
    \/ DownCancels(w)
    \/ DownAborts(w)

\* What callers, owners and the garbage collector do.
CallerStep(w) ==
    \/ Write(w)
    \/ BeginPublish(w)
    \/ Abort(w)
    \/ OwnerExits(w)
    \/ DropWriter(w)

Next ==
    \/ \E w \in Writers : NativeStep(w) \/ CallerStep(w)
    \/ \E w \in Writers, n \in Nodes, k \in Keys : OpenWriter(w, n, k)
    \/ \E k \in Keys : DeleteObject(k)
    \/ \E n \in Nodes : Crash(n)

Spec == Init /\ [][Next]_vars

\* A call that has entered native code runs to its end, and the VM delivers
\* the owner's exit: nothing there waits for another writer.
FairSpec == Spec /\ \A w \in Writers : WF_vars(NativeStep(w))
-----------------------------------------------------------------------------
Steps == {"unopened", "opening", "created", "idle", "publishing", "staged",
          "removed", "renamed", "dropped"}
Owners == {"up", "exited", "cancelling", "down"}
Replies == {"none", "published", "publish_failed", "aborted"}

\* The domain of every variable of the writers, the counters and the disk.
TypeOK ==
    /\ pc \in [Writers -> Steps]
    /\ node \in [Writers -> Nodes \cup {Absent}]
    /\ key \in [Writers -> Keys \cup {Absent}]
    /\ path \in [Writers -> Names \cup {Absent}]
    /\ attempt \in [Writers -> Nat]
    /\ file \in [Writers -> BOOLEAN]
    /\ active \in [Writers -> BOOLEAN]
    /\ token \in [Writers -> BOOLEAN]
    /\ owner \in [Writers -> Owners]
    /\ whole \in [Writers -> Nat]
    /\ torn \in [Writers -> BOOLEAN]
    /\ sequence \in [Nodes -> 0 .. MaxSequence + 1]
    /\ activeWriters \in [Nodes -> Nat]
    /\ staging \in [Names -> Writers \cup {Absent}]
    /\ visible \in [Keys -> Writers \cup {Absent}]
    /\ crashes \in 0 .. MaxCrashes
    /\ committed \in SUBSET Writers
    /\ reply \in [Writers -> Replies]
    /\ leaked \in SUBSET Names
-----------------------------------------------------------------------------
\* The writer has a staging file of its own.
Staged(w) == active[w] /\ pc[w] # "renamed"

(***************************************************************************)
(* Two live writers never share a staging file, even when their names      *)
(* clash after a restart or between instances with the same process id:    *)
(* create_new in LocalWriter::open.                                        *)
(***************************************************************************)
StageExclusive == \A w \in Writers : Staged(w) => staging[path[w]] = w

(***************************************************************************)
(* Every staging file belongs to a live writer, unless the OS refused to   *)
(* remove it or its instance died: no error path of publish, abort, owner  *)
(* exit or Drop forgets one.                                               *)
(***************************************************************************)
NoStrayStage ==
    \A p \in Names :
        staging[p] # Absent =>
            \/ p \in leaked
            \/ Staged(staging[p]) /\ path[staging[p]] = p

(***************************************************************************)
(* Live writers and staging files correspond one to one, but for the files *)
(* the OS or a crash left behind (open, cleanup_stage).                    *)
(***************************************************************************)
StagingSound == StageExclusive /\ NoStrayStage

(***************************************************************************)
(* ACTIVE_WRITERS counts the active writers of an instance exactly: abort, *)
(* the owner's exit, a failed publish and Drop can all end the same        *)
(* writer, and only the first of them decrements.                          *)
(***************************************************************************)
ActiveOn(n) == {w \in Writers : active[w] /\ node[w] = n}
CounterExact == \A n \in Nodes : activeWriters[n] = Cardinality(ActiveOn(n))

(***************************************************************************)
(* The variables keep their types, ACTIVE_WRITERS among them, which is     *)
(* unsigned and never wraps, and it counts exactly.                        *)
(***************************************************************************)
CountersConsistent == TypeOK /\ CounterExact

(***************************************************************************)
(* A key holds the file of a writer that was opened for this key and whose *)
(* publish reached the rename, never the staging file of someone else.     *)
(***************************************************************************)
VisibleIsOwn ==
    \A k \in Keys : visible[k] # Absent =>
        visible[k] \in committed /\ key[visible[k]] = k

(***************************************************************************)
(* The answers are honest: publish says ok only for a file that was        *)
(* renamed into place; cancel, and publish unless it syncs the directory,  *)
(* fail only for a file that never was.                                    *)
(***************************************************************************)
ReplyHonest ==
    \A w \in Writers :
        /\ reply[w] = "published" => w \in committed
        /\ reply[w] = "aborted" => w \notin committed
        /\ reply[w] = "publish_failed" /\ Sync[w] # "all" => w \notin committed

(***************************************************************************)
(* Once the token of a writer is set, only a publish that ensure_open had  *)
(* already admitted can still make it visible: a writer cancelled before   *)
(* that stays doomed for ever, whatever other calls race with the owner's  *)
(* exit.                                                                   *)
(***************************************************************************)
Doomed(w) ==
    /\ token[w] /\ w \notin committed
    /\ pc[w] \notin {"publishing", "staged", "removed"}
CancelStopsPublish ==
    [][\A w \in Writers : Doomed(w) => Doomed(w)']_vars

(***************************************************************************)
(* The bytes of a published object never change: no write reaches the file *)
(* once it has been renamed.  And its key becomes empty only by a delete   *)
(* of that key, or in a publication on Windows at the very step in which   *)
(* replace_file has removed the object in place to rename over it: never   *)
(* by a publication elsewhere, by its failure, by a cancel, an owner's     *)
(* exit or a crash.                                                        *)
(***************************************************************************)
Emptied(k) == visible[k] # Absent /\ visible'[k] = Absent
Replacing(w, k) ==
    /\ key[w] = k /\ node[w] \in RemovesFirst
    /\ pc[w] = "staged" /\ pc'[w] = "removed"
PublishedFrozen ==
    [][/\ \A w \in committed : whole'[w] = whole[w] /\ torn'[w] = torn[w]
       /\ \A k \in Keys : Emptied(k) =>
            DeleteObject(k) \/ \E w \in Writers : Replacing(w, k)
      ]_vars

(***************************************************************************)
(* When the owner of a writer exits, the writer ends and its staging file  *)
(* goes, whatever call was running (StoreWriterResource::down).            *)
(***************************************************************************)
OwnerExitReleases ==
    \A w \in Writers : owner[w] = "exited" ~> ~active[w]

(***************************************************************************)
(* "Local writes ... replace the destination after the data is complete"   *)
(* (docs/stores.md:86): an object that was published holds no torn chunk.  *)
(***************************************************************************)
PublishedComplete == \A w \in committed : ~torn[w]
-----------------------------------------------------------------------------
(***************************************************************************)
(* The abstract store this writer implements.                              *)
(***************************************************************************)
AbstractStatus ==
    [w \in Writers |->
        IF w \in committed THEN "published"
        ELSE IF pc[w] = "unopened" THEN "unopened"
        ELSE IF active[w] \/ pc[w] = "opening" THEN "open"
        ELSE "discarded"]
AbstractContent == [w \in Writers |-> [whole |-> whole[w], torn |-> torn[w]]]

Abstract == INSTANCE ObjectStore WITH
    objects <- visible, status <- AbstractStatus, target <- key,
    content <- AbstractContent

\* Every step of the staged writer is a step of the store it promises to be;
\* removing the destination on Windows is a deletion there.
ImplementsObjectStore == Abstract!Spec
=============================================================================
