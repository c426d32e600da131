--------------------------- MODULE MultipartWriter ---------------------------
(***************************************************************************)
(* The S3 writer behind Parquex.Store.open_writer/write/publish/cancel:    *)
(* native/parquex_nif/src/s3.rs (RemoteMultipartWriter, remote_call), the  *)
(* CancellationToken in object.rs and the resource in lib.rs.              *)
(*                                                                         *)
(* A writer fills a multipart upload and publishes it by asking the        *)
(* provider to complete it.  Writing and publishing wait, with the         *)
(* resource's mutex held, for the provider OR for the cancellation token   *)
(* (tokio::select!), and the owner-exit callback sets the token without    *)
(* the mutex.  A request that the client stops waiting for may still take  *)
(* effect at the provider.                                                 *)
(*                                                                         *)
(* External, modelled from its use in s3.rs: the provider, and the         *)
(* WriteMultipart of object_store, which cuts what it is given into parts, *)
(* uploads each in a task of its own, reports a failed part when its task  *)
(* is joined, and refuses to complete an upload that misses a part.        *)
(***************************************************************************)
EXTENDS Integers, FiniteSets

CONSTANTS
    Writers,        \* identities of open_writer calls
    Keys,           \* object keys
    Absent,         \* no object, no key
    PartSize,       \* multipart_part_size, in units of data
    MaxInFlight,    \* max_in_flight_parts
    MaxChunk,       \* bound on the units of one write call
    MaxUnits,       \* bound on the units given to one writer
    MaxCrashes      \* bound on the crashes of the instance

ASSUME SizesAssumption ==
    /\ PartSize \in Nat \ {0}
    /\ MaxInFlight \in Nat \ {0}
    /\ MaxChunk \in Nat \ {0}
    /\ MaxUnits \in Nat
    /\ MaxCrashes \in Nat
ASSUME AbsentAssumption ==
    IsFiniteSet(Writers) /\ Absent \notin Writers /\ Absent \notin Keys

VARIABLES
    pc,             \* the step of the call that holds the writer's mutex
    key,            \* the destination of a writer, or Absent
    upload,         \* RemoteMultipartWriter.upload is Some
    active,         \* RemoteMultipartWriter.active
    token,          \* CancellationToken.cancelled
    waiter,         \* the select's cancelled() future in the running call
    owner,          \* the process that opened the writer, as the VM sees it
    chunk,          \* the units of the write call in progress
    given,          \* units acknowledged to the caller
    buffered,       \* units in the buffer of the WriteMultipart
    parts,          \* its tasks: still sending, done, failed
    lost,           \* a part did not reach the provider
    remote,         \* the upload at the provider
    requested,      \* a completion request is on its way to the provider
    visible,        \* the objects at the provider
    activeMultipart,\* ACTIVE_MULTIPART
    crashes,        \* crashes so far
    reply           \* history: what publish or abort last answered

call == <<pc, waiter, chunk>>
writerState == <<upload, active, token>>
buffers == <<given, buffered, parts, lost>>
provider == <<remote, requested, visible>>
vars == <<call, key, writerState, owner, buffers, provider, activeMultipart,
          crashes, reply>>

NoParts == [sending |-> 0, done |-> 0, failed |-> 0]

Init ==
    /\ pc = [w \in Writers |-> "unopened"]
    /\ key = [w \in Writers |-> Absent]
    /\ upload = [w \in Writers |-> FALSE]
    /\ active = [w \in Writers |-> FALSE]
    /\ token = [w \in Writers |-> FALSE]
    /\ waiter = [w \in Writers |-> "none"]
    /\ owner = [w \in Writers |-> "up"]
    /\ chunk = [w \in Writers |-> 0]
    /\ given = [w \in Writers |-> 0]
    /\ buffered = [w \in Writers |-> 0]
    /\ parts = [w \in Writers |-> NoParts]
    /\ lost = [w \in Writers |-> FALSE]
    /\ remote = [w \in Writers |-> "none"]
    /\ requested = [w \in Writers |-> FALSE]
    /\ visible = [k \in Keys |-> Absent]
    /\ activeMultipart = 0
    /\ crashes = 0
    /\ reply = [w \in Writers |-> "none"]
-----------------------------------------------------------------------------
(***************************************************************************)
(* Pieces shared by the operations.  An operator that nothing below refers *)
(* to is a plausible bug in the definition that follows it: the mutants    *)
(* listed in PROJECT.json put it in that definition's place.               *)
(***************************************************************************)

\* The steps at which a call waits in tokio::select! for its token.
Selecting == {"writing", "finishing", "completing", "heading"}

LockIgnored(w) == pc[w] \in {"idle"} \cup Selecting

\* The mutex of the writer's resource is free.
LockFree(w) == pc[w] = "idle"

OpenWhateverToken(w) == upload[w]

\* CancellationToken::check, and upload is Some
Open(w) == ~token[w] /\ upload[w]

\* The tasks of the WriteMultipart that it has not joined yet.
Tasks(w) == parts[w].sending + parts[w].done + parts[w].failed

FinishUncounted(w) ==
    /\ active' = [active EXCEPT ![w] = FALSE]
    /\ UNCHANGED activeMultipart

\* finish_active: an active writer stops counting
FinishActive(w) ==
    /\ active' = [active EXCEPT ![w] = FALSE]
    /\ activeMultipart' = activeMultipart - (IF active[w] THEN 1 ELSE 0)

\* The WriteMultipart is dropped: its tasks stop, its buffer goes.
DropUpload(w) ==
    /\ buffered' = [buffered EXCEPT ![w] = 0]
    /\ parts' = [parts EXCEPT ![w] = NoParts]
    /\ lost' = [lost EXCEPT ![w] = @ \/ buffered[w] > 0 \/ Tasks(w) > 0]
    /\ UNCHANGED given

\* An abort request: the provider accepts it, or it fails on the way.
AbortAccepted(w) == remote' = [remote EXCEPT ![w] = "aborted"]
AbortRefused(w) == UNCHANGED remote

AbortKeepsUpload(w, r) ==
    /\ DropUpload(w)
    /\ \/ r = "aborted" /\ AbortAccepted(w)
       \/ r = "abort_failed" /\ AbortRefused(w)
    /\ FinishActive(w)
    /\ UNCHANGED <<token, upload>>

(***************************************************************************)
(* RemoteMultipartWriter::abort on an active writer, but for its answer:   *)
(* the token, the abort request for an upload that is still there, and     *)
(* finish_active whatever the provider said.                               *)
(***************************************************************************)
AbortActive(w, r) ==
    /\ token' = [token EXCEPT ![w] = TRUE]
    /\ upload' = [upload EXCEPT ![w] = FALSE]
    /\ DropUpload(w)
    /\ \/ r = "aborted" /\ (IF upload[w] THEN AbortAccepted(w) ELSE UNCHANGED remote)
       \/ r = "abort_failed" /\ upload[w] /\ AbortRefused(w)
    /\ FinishActive(w)

AbortSkipped(w) ==
    UNCHANGED <<active, activeMultipart, upload, buffers, remote, token>>

\* abort and Drop do nothing to a writer that has already finished.
AbortIfActive(w) ==
    \/ active[w] /\ \E r \in {"aborted", "abort_failed"} : AbortActive(w, r)
    \/ /\ ~active[w]
       /\ UNCHANGED <<active, activeMultipart, upload, buffers, remote, token>>
-----------------------------------------------------------------------------
(***************************************************************************)
(* store_writer_open: put_multipart, then the owner is monitored.          *)
(***************************************************************************)
OpenWriter(w, k) ==
    /\ pc[w] = "unopened"
    /\ pc' = [pc EXCEPT ![w] = "opening"]
    /\ key' = [key EXCEPT ![w] = k]
    /\ UNCHANGED <<waiter, chunk, writerState, owner, buffers, provider,
                   activeMultipart, crashes, reply>>

CreateUpload(w) ==
    /\ pc[w] = "opening"
    /\ remote' = [remote EXCEPT ![w] = "in_progress"]
    /\ upload' = [upload EXCEPT ![w] = TRUE]
    /\ active' = [active EXCEPT ![w] = TRUE]
    /\ activeMultipart' = activeMultipart + 1
    /\ pc' = [pc EXCEPT ![w] = "created"]
    /\ UNCHANGED <<waiter, chunk, key, token, owner, buffers, requested,
                   visible, crashes, reply>>

\* The request fails; its upload may exist at the provider all the same.
CreateFails(w) ==
    /\ pc[w] = "opening"
    /\ \E r \in {"none", "in_progress"} : remote' = [remote EXCEPT ![w] = r]
    /\ pc' = [pc EXCEPT ![w] = "dropped"]
    /\ UNCHANGED <<waiter, chunk, key, writerState, owner, buffers, requested,
                   visible, activeMultipart, crashes, reply>>

MonitorOwner(w) ==
    /\ pc[w] = "created"
    /\ owner[w] = "up"
    /\ pc' = [pc EXCEPT ![w] = "idle"]
    /\ UNCHANGED <<waiter, chunk, key, writerState, owner, buffers, provider,
                   activeMultipart, crashes, reply>>

MonitorFails(w) ==
    /\ pc[w] = "created"
    /\ owner[w] = "exited"
    /\ pc' = [pc EXCEPT ![w] = "dropped"]
    /\ AbortIfActive(w)
    /\ UNCHANGED <<waiter, chunk, key, owner, requested, visible, crashes,
                   reply>>
-----------------------------------------------------------------------------
(***************************************************************************)
(* The cancelled() branch of a select: it loads the flag, and if that is   *)
(* clear it registers for the notification, which wakes only the futures   *)
(* that are registered when cancel runs.                                   *)
(***************************************************************************)
CheckToken(w) ==
    /\ pc[w] \in Selecting
    /\ waiter[w] = "polled"
    /\ waiter' = [waiter EXCEPT ![w] = IF token[w] THEN "woken" ELSE "loaded"]
    /\ UNCHANGED <<pc, chunk, key, writerState, owner, buffers, provider,
                   activeMultipart, crashes, reply>>

Register(w) ==
    /\ pc[w] \in Selecting
    /\ waiter[w] = "loaded"
    /\ waiter' = [waiter EXCEPT ![w] = "registered"]
    /\ UNCHANGED <<pc, chunk, key, writerState, owner, buffers, provider,
                   activeMultipart, crashes, reply>>
-----------------------------------------------------------------------------
(***************************************************************************)
(* store_writer_write.  A call that the token or a taken upload refuses    *)
(* changes nothing.                                                        *)
(***************************************************************************)
BeginWrite(w, n) ==
    /\ LockFree(w)
    /\ Open(w)
    /\ given[w] + n <= MaxUnits
    /\ pc' = [pc EXCEPT ![w] = "writing"]
    /\ waiter' = [waiter EXCEPT ![w] = "polled"]
    /\ chunk' = [chunk EXCEPT ![w] = n]
    /\ UNCHANGED <<key, writerState, owner, buffers, provider,
                   activeMultipart, crashes, reply>>

HasCapacityAlways(w) == TRUE

\* wait_for_capacity waits until it has joined enough tasks.
HasCapacity(w) == Tasks(w) < MaxInFlight

JoinPart(w) ==
    /\ \/ pc[w] = "writing" /\ ~HasCapacity(w)
       \/ pc[w] = "finishing"
    /\ parts[w].done > 0
    /\ parts' = [parts EXCEPT ![w].done = @ - 1]
    /\ UNCHANGED <<call, key, writerState, owner, given, buffered, lost,
                   provider, activeMultipart, crashes, reply>>

\* upload.write: the buffer is cut into parts of the configured size.
AppendChunk(w) ==
    /\ pc[w] = "writing"
    /\ HasCapacity(w)
    /\ LET total == buffered[w] + chunk[w] IN
       /\ buffered' = [buffered EXCEPT ![w] = total % PartSize]
       /\ parts' = [parts EXCEPT ![w].sending = @ + total \div PartSize]
    /\ given' = [given EXCEPT ![w] = @ + chunk[w]]
    /\ pc' = [pc EXCEPT ![w] = "idle"]
    /\ waiter' = [waiter EXCEPT ![w] = "none"]
    /\ chunk' = [chunk EXCEPT ![w] = 0]
    /\ UNCHANGED <<key, writerState, owner, lost, provider, activeMultipart,
                   crashes, reply>>

\* The wait joined a failed part, or the token woke it: the chunk is not
\* taken and the writer stays open.
WriteFails(w) ==
    /\ pc[w] = "writing"
    /\ \/ /\ ~HasCapacity(w)
          /\ parts[w].failed > 0
          /\ parts' = [parts EXCEPT ![w].failed = @ - 1]
       \/ /\ waiter[w] = "woken"
          /\ UNCHANGED parts
    /\ pc' = [pc EXCEPT ![w] = "idle"]
    /\ waiter' = [waiter EXCEPT ![w] = "none"]
    /\ chunk' = [chunk EXCEPT ![w] = 0]
    /\ UNCHANGED <<key, writerState, owner, given, buffered, lost, provider,
                   activeMultipart, crashes, reply>>

\* A part's request ends.
PartEnds(w) ==
    /\ parts[w].sending > 0
    /\ \/ /\ parts' = [parts EXCEPT ![w].sending = @ - 1, ![w].done = @ + 1]
          /\ UNCHANGED lost
       \/ /\ parts' = [parts EXCEPT ![w].sending = @ - 1, ![w].failed = @ + 1]
          /\ lost' = [lost EXCEPT ![w] = TRUE]
    /\ UNCHANGED <<call, key, writerState, owner, given, buffered, provider,
                   activeMultipart, crashes, reply>>
-----------------------------------------------------------------------------
(***************************************************************************)
(* store_writer_publish                                                    *)
(***************************************************************************)

\* The token is clear and the upload is taken; what is buffered becomes the
\* last part.
BeginPublish(w) ==
    /\ LockFree(w)
    /\ Open(w)
    /\ upload' = [upload EXCEPT ![w] = FALSE]
    /\ parts' = [parts EXCEPT ![w].sending = @ + (IF buffered[w] > 0 THEN 1 ELSE 0)]
    /\ buffered' = [buffered EXCEPT ![w] = 0]
    /\ pc' = [pc EXCEPT ![w] = "finishing"]
    /\ waiter' = [waiter EXCEPT ![w] = "polled"]
    /\ UNCHANGED <<chunk, key, active, token, owner, given, lost, provider,
                   activeMultipart, crashes, reply>>

SendUnjoined(w) == TRUE

\* Every task has been joined and no part is missing.
ReadyToComplete(w) == Tasks(w) = 0 /\ ~lost[w]

SendComplete(w) ==
    /\ pc[w] = "finishing"
    /\ ReadyToComplete(w)
    /\ requested' = [requested EXCEPT ![w] = TRUE]
    /\ pc' = [pc EXCEPT ![w] = "completing"]
    /\ UNCHANGED <<waiter, chunk, key, writerState, owner, buffers, remote,
                   visible, activeMultipart, crashes, reply>>

\* The provider completes the upload, whether or not anyone waits for it.
ProviderCompletes(w) ==
    /\ requested[w]
    /\ requested' = [requested EXCEPT ![w] = FALSE]
    /\ \/ /\ remote[w] = "in_progress"
          /\ remote' = [remote EXCEPT ![w] = "completed"]
          /\ visible' = [visible EXCEPT ![key[w]] = w]
       \/ /\ remote[w] = "aborted"
          /\ UNCHANGED <<remote, visible>>
    /\ UNCHANGED <<call, key, writerState, owner, buffers, activeMultipart,
                   crashes, reply>>

\* finish returns ok: the writer is finished before its object is looked up.
UploadFinished(w) ==
    /\ pc[w] = "completing"
    /\ remote[w] = "completed"
    /\ FinishActive(w)
    /\ pc' = [pc EXCEPT ![w] = "heading"]
    /\ waiter' = [waiter EXCEPT ![w] = "polled"]
    /\ UNCHANGED <<chunk, key, upload, token, owner, buffers, provider,
                   crashes, reply>>

\* finish fails: a part failed or is missing, or the completion had no
\* answer; remote_error only names the failure.  The library may or may not
\* abort the upload.
FinishFails(w) ==
    /\ \/ pc[w] = "finishing" /\ (parts[w].failed > 0 \/ (Tasks(w) = 0 /\ lost[w]))
       \/ pc[w] = "completing"
    /\ \/ remote[w] = "in_progress" /\ AbortAccepted(w)
       \/ AbortRefused(w)
    /\ DropUpload(w)
    /\ FinishActive(w)
    /\ pc' = [pc EXCEPT ![w] = "idle"]
    /\ waiter' = [waiter EXCEPT ![w] = "none"]
    /\ reply' = [reply EXCEPT ![w] = "publish_failed"]
    /\ UNCHANGED <<chunk, key, upload, token, owner, requested, visible,
                   crashes>>

\* The token wakes the select: the finish future is dropped where it stands.
FinishCancelled(w) ==
    /\ pc[w] \in {"finishing", "completing"}
    /\ waiter[w] = "woken"
    /\ DropUpload(w)
    /\ FinishActive(w)
    /\ pc' = [pc EXCEPT ![w] = "idle"]
    /\ waiter' = [waiter EXCEPT ![w] = "none"]
    /\ reply' = [reply EXCEPT ![w] = "cancelled"]
    /\ UNCHANGED <<chunk, key, upload, token, owner, provider, crashes>>

\* The HEAD of the destination answers with whatever object is there, fails,
\* or is cancelled.
HeadAnswers(w) ==
    /\ pc[w] = "heading"
    /\ \/ visible[key[w]] # Absent /\ reply' = [reply EXCEPT ![w] = "published"]
       \/ reply' = [reply EXCEPT ![w] = "publish_failed"]
       \/ waiter[w] = "woken" /\ reply' = [reply EXCEPT ![w] = "cancelled"]
    /\ pc' = [pc EXCEPT ![w] = "idle"]
    /\ waiter' = [waiter EXCEPT ![w] = "none"]
    /\ UNCHANGED <<chunk, key, writerState, owner, buffers, provider,
                   activeMultipart, crashes>>
-----------------------------------------------------------------------------
(***************************************************************************)
(* store_writer_abort, the owner's exit, the end of the resource.          *)
(***************************************************************************)
Abort(w) ==
    /\ LockFree(w)
    /\ active[w]
    /\ \E r \in {"aborted", "abort_failed"} :
        AbortActive(w, r) /\ reply' = [reply EXCEPT ![w] = r]
    /\ UNCHANGED <<call, key, owner, requested, visible, crashes>>

OwnerExits(w) ==
    /\ pc[w] \notin {"unopened", "dropped"}
    /\ owner[w] = "up"
    /\ owner' = [owner EXCEPT ![w] = "exited"]
    /\ UNCHANGED <<call, key, writerState, buffers, provider,
                   activeMultipart, crashes, reply>>

\* StoreWriterResource::down, before it takes the mutex: cancel sets the flag
\* and wakes the registered waiter.
DownCancels(w) ==
    /\ pc[w] \in {"idle"} \cup Selecting
    /\ owner[w] = "exited"
    /\ owner' = [owner EXCEPT ![w] = "cancelling"]
    /\ token' = [token EXCEPT ![w] = TRUE]
    /\ waiter' = [waiter EXCEPT ![w] = IF @ = "registered" THEN "woken" ELSE @]
    /\ UNCHANGED <<pc, chunk, key, upload, active, buffers, provider,
                   activeMultipart, crashes, reply>>

DownAborts(w) ==
    /\ LockFree(w)
    /\ owner[w] = "cancelling"
    /\ owner' = [owner EXCEPT ![w] = "down"]
    /\ AbortIfActive(w)
    /\ UNCHANGED <<call, key, requested, visible, crashes, reply>>

\* Nothing refers to the resource any more: Drop for RemoteMultipartWriter.
DropWriter(w) ==
    /\ LockFree(w)
    /\ owner[w] # "cancelling"
    /\ pc' = [pc EXCEPT ![w] = "dropped"]
    /\ AbortIfActive(w)
    /\ UNCHANGED <<waiter, chunk, key, owner, requested, visible, crashes,
                   reply>>
-----------------------------------------------------------------------------
\* Store.delete of an object.
DeleteObject(k) ==
    /\ visible[k] # Absent
    /\ visible' = [visible EXCEPT ![k] = Absent]
    /\ UNCHANGED <<call, key, writerState, owner, buffers, remote, requested,
                   activeMultipart, crashes, reply>>

\* The instance dies; what it has asked of the provider stays asked.
Crash ==
    LET opened == {w \in Writers : pc[w] # "unopened"} IN
    /\ crashes < MaxCrashes
    /\ crashes' = crashes + 1
    /\ pc' = [w \in Writers |-> IF w \in opened THEN "dropped" ELSE pc[w]]
    /\ waiter' = [w \in Writers |-> "none"]
    /\ chunk' = [w \in Writers |-> 0]
    /\ upload' = [w \in Writers |-> FALSE]
    /\ active' = [w \in Writers |-> FALSE]
    /\ lost' = [w \in Writers |-> lost[w] \/ buffered[w] > 0 \/ Tasks(w) > 0]
    /\ buffered' = [w \in Writers |-> 0]
    /\ parts' = [w \in Writers |-> NoParts]
    /\ activeMultipart' = 0
    /\ UNCHANGED <<key, token, owner, given, provider, reply>>
-----------------------------------------------------------------------------
NativeStep(w) ==
    \/ CreateUpload(w)
    \/ CreateFails(w)
    \/ MonitorOwner(w)
    \/ MonitorFails(w)
    \/ CheckToken(w)
    \/ Register(w)
    \/ JoinPart(w)
    \/ AppendChunk(w)
    \/ WriteFails(w)
    \/ SendComplete(w)
    \/ UploadFinished(w)
    \/ FinishFails(w)
    \/ FinishCancelled(w)
    \/ HeadAnswers(w)
    \/ DownCancels(w)
    \/ DownAborts(w)

ProviderStep(w) ==
    \/ PartEnds(w)
    \/ ProviderCompletes(w)

CallerStep(w) ==
    \/ \E n \in 1 .. MaxChunk : BeginWrite(w, n)
    \/ BeginPublish(w)
    \/ Abort(w)
    \/ OwnerExits(w)
    \/ DropWriter(w)

Next ==
    \/ \E w \in Writers : NativeStep(w) \/ ProviderStep(w) \/ CallerStep(w)
    \/ \E w \in Writers, k \in Keys : OpenWriter(w, k)
    \/ \E k \in Keys : DeleteObject(k)
    \/ Crash

Spec == Init /\ [][Next]_vars

\* Calls and callbacks run to their end; a request ends, if only by the
\* client's timeout (with_timeout and the bounded retries in build_store).
FairSpec ==
    Spec /\ \A w \in Writers : WF_vars(NativeStep(w)) /\ WF_vars(PartEnds(w))
-----------------------------------------------------------------------------
Steps == {"unopened", "opening", "created", "idle", "dropped"} \cup Selecting

\* The domain of every variable; ACTIVE_MULTIPART is an unsigned counter.
TypeOK ==
    /\ pc \in [Writers -> Steps]
    /\ key \in [Writers -> Keys \cup {Absent}]
    /\ upload \in [Writers -> BOOLEAN]
    /\ active \in [Writers -> BOOLEAN]
    /\ token \in [Writers -> BOOLEAN]
    /\ waiter \in [Writers -> {"none", "polled", "loaded", "registered", "woken"}]
    /\ owner \in [Writers -> {"up", "exited", "cancelling", "down"}]
    /\ chunk \in [Writers -> Nat]
    /\ given \in [Writers -> Nat]
    /\ buffered \in [Writers -> Nat]
    /\ parts \in [Writers -> [sending : Nat, done : Nat, failed : Nat]]
    /\ lost \in [Writers -> BOOLEAN]
    /\ remote \in [Writers -> {"none", "in_progress", "completed", "aborted"}]
    /\ requested \in [Writers -> BOOLEAN]
    /\ visible \in [Keys -> Writers \cup {Absent}]
    /\ activeMultipart \in Nat
    /\ crashes \in 0 .. MaxCrashes
    /\ reply \in [Writers -> {"none", "published", "publish_failed",
                              "cancelled", "aborted", "abort_failed"}]

(***************************************************************************)
(* ACTIVE_MULTIPART counts the active writers exactly: publish, abort, the *)
(* owner's exit and Drop can all end the same writer, and only the first   *)
(* one that does decrements (finish_active).                               *)
(***************************************************************************)
CounterExact == activeMultipart = Cardinality({w \in Writers : active[w]})

(***************************************************************************)
(* An upload that a writer still holds is one that its abort would ask the *)
(* provider to drop: abort returns early for an inactive writer, so an     *)
(* upload left in one would never be aborted by down, Drop or cancel.      *)
(***************************************************************************)
HeldUploadIsActive ==
    \A w \in Writers : upload[w] => active[w] /\ remote[w] = "in_progress"

(***************************************************************************)
(* The bookkeeping of the writers is consistent: counter, flags and the    *)
(* uploads they hold agree in every state, between any two ends of a writer. *)
(***************************************************************************)
UploadConsistent == TypeOK /\ CounterExact /\ HeldUploadIsActive

(***************************************************************************)
(* A completed object is whole: every part reached the provider and none   *)
(* was still on its way, whatever writes failed in between.                *)
(***************************************************************************)
CompletedWhole ==
    \A w \in Writers :
        remote[w] = "completed" => ~lost[w] /\ buffered[w] = 0 /\ Tasks(w) = 0

(***************************************************************************)
(* The answers are honest: publish says ok only when the provider has      *)
(* completed the upload, and Store.cancel answers, ok or not, only for an  *)
(* upload that never becomes an object.                                    *)
(***************************************************************************)
ReplyHonest ==
    \A w \in Writers :
        /\ reply[w] = "published" => remote[w] = "completed"
        /\ reply[w] \in {"aborted", "abort_failed"} =>
               remote[w] # "completed" /\ ~requested[w]

(***************************************************************************)
(* Once the token is set, only a publish that was already admitted can     *)
(* still make the object visible; a writer cancelled before stays doomed.  *)
(***************************************************************************)
Doomed(w) ==
    token[w] /\ remote[w] # "completed" /\ ~requested[w] /\ pc[w] # "finishing"
CancelStopsPublish == [][\A w \in Writers : Doomed(w) => Doomed(w)']_vars

(***************************************************************************)
(* What a writer buffers stays within multipart_buffer_limit_bytes, the    *)
(* part in the buffer and max_in_flight_parts parts in flight: "S3         *)
(* buffering is bounded by multipart part size and in-flight part count"   *)
(* (@meta/@pm/ROADMAP003.md:96).  It holds for chunks up to the part size. *)
(***************************************************************************)
BufferWithinLimit ==
    \A w \in Writers :
        buffered[w] + parts[w].sending * PartSize <= (MaxInFlight + 1) * PartSize

(***************************************************************************)
(* When the owner of a writer exits, its upload stops counting as active.  *)
(***************************************************************************)
OwnerExitReleases == \A w \in Writers : owner[w] = "exited" ~> ~active[w]

(***************************************************************************)
(* "Incomplete multipart uploads are aborted on cancellation when the      *)
(* provider accepts the abort request" (docs/stores.md:86): a publish that *)
(* was cancelled leaves no upload in progress.  Its abort request is never *)
(* sent: publish has taken the upload, and abort sees an inactive writer.  *)
(***************************************************************************)
CancelledUploadsAbort ==
    \A w \in Writers :
        reply[w] = "cancelled" /\ owner[w] = "down" => remote[w] # "in_progress"

(***************************************************************************)
(* "Remote cancellation promptly releases HTTP/native resources"           *)
(* (@meta/@pm/roadmap001/EPIC005-spec.md:83): no call sleeps on a          *)
(* notification after its token has been set.                              *)
(***************************************************************************)
CancelWakesCall ==
    \A w \in Writers : token[w] => waiter[w] # "registered"
-----------------------------------------------------------------------------
(***************************************************************************)
(* The abstract store.  A writer is open for as long as it is active or    *)
(* its completion may still take effect at the provider.                   *)
(***************************************************************************)
MayComplete(w) == requested[w] /\ remote[w] = "in_progress"
AbstractStatus ==
    [w \in Writers |->
        IF remote[w] = "completed" THEN "published"
        ELSE IF pc[w] = "unopened" THEN "unopened"
        ELSE IF active[w] \/ pc[w] = "opening" \/ MayComplete(w) THEN "open"
        ELSE "discarded"]
AbstractContent == [w \in Writers |-> [whole |-> given[w], torn |-> FALSE]]

Abstract == INSTANCE ObjectStore WITH
    objects <- visible, status <- AbstractStatus, target <- key,
    content <- AbstractContent

\* Every step of the multipart writer is a step of the store it promises.
ImplementsObjectStore == Abstract!Spec
=============================================================================
