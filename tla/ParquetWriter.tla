--------------------------- MODULE ParquetWriter ---------------------------
(***************************************************************************)
(* The native Parquet writer (native/parquex_nif/src/writer.rs) under      *)
(* Parquex.Writer (lib/parquex/writer.ex): batches are encoded into row    *)
(* groups, row groups go to a staged store writer, and close writes the    *)
(* footer and publishes.  One process writes and closes, in any order and  *)
(* also after an error; others may cancel; the owner may exit; a native    *)
(* call may panic, which poisons the state mutex.                          *)
(*                                                                         *)
(* The store writer below is taken at its contract (ObjectStore): it is    *)
(* open, published or discarded, and it refuses bytes and publication once *)
(* the shared cancellation token is set.  The encoder is the parquet       *)
(* crate's ArrowWriter: a row group that could not be written leaves the   *)
(* file without a footer for good.  A row is <<batch, index>>.             *)
(***************************************************************************)
EXTENDS Naturals, Sequences, FiniteSets

CONSTANTS MaxRowGroupRows,  \* max_row_group_rows
          MaxBatchRows,     \* max_batch_rows
          MaxBatches,       \* bound on the batches given to the writer
          Cancellers,       \* processes that call Writer.cancel/1
          None              \* nobody holds the mutex

ASSUME BoundsAssumption ==
    /\ {MaxRowGroupRows, MaxBatchRows} \subseteq Nat \ {0}
    /\ MaxBatches \in Nat
    /\ None # "producer"

VARIABLES
    opened,     \* parquet_writer_open_store: "no", "resource", "yes", "failed"
    active,     \* WriterState.stats.active
    held,       \* WriterState.writer is Some
    staged,     \* the store writer: "none", "open", "published", "discarded"
    cancelled,  \* the token shared with the store writer
    lock,       \* holder of the state mutex: "producer" or None
    poisoned,   \* a call panicked while it held the mutex
    group,      \* rows of the row group in progress
    content,    \* rows of the completed row groups
    footer,     \* the footer has been written
    broken,     \* a row group was started and not completed
    batch,      \* rows of the batch given last
    pending,    \* those of them still to be encoded
    pc,         \* the producer: "idle", "writing", "finishing", "publishing",
                \* "committing"
    given,      \* batches given so far
    acked,      \* rows of the batches answered ok, in order
    reply,      \* the last answer to close: "none", "ok", "error"
    aborted,    \* some cancel answered "aborted"
    canceller,  \* Cancellers: "idle" or "waiting" for the mutex
    owner,      \* "alive", "exited", "down" (token cancelled), "gone"
    dropped     \* the resource has been collected

vars == <<opened, active, held, staged, cancelled, lock, poisoned, group,
          content, footer, broken, batch, pending, pc, given, acked, reply,
          aborted, canceller, owner, dropped>>
handleVars == <<active, held, staged, cancelled>>
fileVars == <<group, content, footer, broken>>
callVars == <<batch, pending, given, acked, reply>>
otherVars == <<opened, aborted, canceller, owner, dropped>>

Rows == (1 .. MaxBatches) \X (1 .. MaxBatchRows)

TypeOK ==
    /\ opened \in {"no", "resource", "yes", "failed"}
    /\ staged \in {"none", "open", "published", "discarded"}
    /\ {active, held, cancelled, poisoned, footer, broken, aborted, dropped} \subseteq BOOLEAN
    /\ lock \in {None, "producer"}
    /\ group \in Seq(Rows) /\ Len(group) <= MaxRowGroupRows
    /\ {content, batch, pending, acked} \subseteq Seq(Rows)
    /\ pc \in {"idle", "writing", "finishing", "publishing", "committing"}
    /\ given \in 0 .. MaxBatches
    /\ reply \in {"none", "ok", "error"}
    /\ canceller \in [Cancellers -> {"idle", "waiting"}]
    /\ owner \in {"alive", "exited", "down", "gone"}

Init ==
    /\ opened = "no"
    /\ active = FALSE /\ held = FALSE /\ staged = "none" /\ cancelled = FALSE
    /\ lock = None /\ poisoned = FALSE
    /\ group = <<>> /\ content = <<>> /\ footer = FALSE /\ broken = FALSE
    /\ batch = <<>> /\ pending = <<>> /\ pc = "idle" /\ given = 0 /\ acked = <<>>
    /\ reply = "none" /\ aborted = FALSE
    /\ canceller = [c \in Cancellers |-> "idle"]
    /\ owner = "alive"
    /\ dropped = FALSE

LockFree == lock = None

(* A dropped store writer discards what it staged. *)
Discarded == IF staged = "open" THEN "discarded" ELSE staged
-----------------------------------------------------------------------------
(***************************************************************************)
(* parquet_writer_open_store: the staged writer, the encoder with its      *)
(* leading magic bytes, the resource, then the monitor.  A failure drops   *)
(* the staged writer it got.                                               *)
(***************************************************************************)
OpenStore ==
    /\ opened = "no"
    /\ opened' = "resource"
    /\ active' = TRUE /\ held' = TRUE /\ staged' = "open"
    /\ UNCHANGED <<cancelled, lock, poisoned, fileVars, callVars, pc, aborted,
                   canceller, owner, dropped>>

(* The options or a field type are refused, or the store or the encoder fails. *)
OpenFails ==
    /\ opened = "no"
    /\ opened' = "failed"
    /\ staged' \in {"none", "discarded"}
    /\ UNCHANGED <<active, held, cancelled, lock, poisoned, fileVars, callVars,
                   pc, aborted, canceller, owner, dropped>>

(***************************************************************************)
(* WriterState::abort.                                                     *)
(***************************************************************************)
(* MUTANT: nothing is aborted. *)
AbortNothing == UNCHANGED handleVars

AbortState ==
    IF active
    THEN /\ cancelled' = TRUE
         /\ held' = FALSE /\ staged' = Discarded
         /\ active' = FALSE
    ELSE UNCHANGED handleVars

MonitorOwner ==
    /\ opened = "resource" /\ owner = "alive"
    /\ opened' = "yes"
    /\ UNCHANGED <<handleVars, lock, poisoned, fileVars, callVars, pc, aborted,
                   canceller, owner, dropped>>

MonitorFails ==
    /\ opened = "resource" /\ owner # "alive"
    /\ opened' = "failed"
    /\ AbortState
    /\ UNCHANGED <<lock, poisoned, fileVars, callVars, pc, aborted, canceller,
                   owner, dropped>>
-----------------------------------------------------------------------------
(***************************************************************************)
(* write_batch: the token, the state and the batch itself are checked, the *)
(* rows go to the row group in progress, and a full row group is written.  *)
(***************************************************************************)
Callable == opened = "yes" /\ ~dropped /\ pc = "idle" /\ LockFree

GroupHasRoom == Len(group) < MaxRowGroupRows

BatchRows(b, n) == [i \in 1 .. n |-> <<b, i>>]

BeginWrite(n) ==
    /\ Callable /\ ~poisoned
    /\ ~cancelled /\ active /\ held
    /\ given < MaxBatches
    /\ given' = given + 1
    /\ batch' = BatchRows(given + 1, n) /\ pending' = batch'
    /\ pc' = "writing" /\ lock' = "producer"
    /\ UNCHANGED <<handleVars, poisoned, fileVars, acked, reply, otherVars>>

(* Refused by the token, by the state, by decode_batch or by the mutex. *)
WriteRefused ==
    /\ Callable
    /\ given < MaxBatches
    /\ given' = given + 1
    /\ UNCHANGED <<handleVars, lock, poisoned, fileVars, batch, pending, pc,
                   acked, reply, otherVars>>

EncodeRow ==
    /\ pc = "writing"
    /\ pending # <<>> /\ GroupHasRoom
    /\ group' = Append(group, Head(pending))
    /\ pending' = Tail(pending)
    /\ UNCHANGED <<handleVars, lock, poisoned, content, footer, broken, batch,
                   pc, given, acked, reply, otherVars>>

(* Without a refusal by the store; small groups stay in the file's buffer. *)
FlushGroup ==
    /\ pc = "writing"
    /\ Len(group) = MaxRowGroupRows
    /\ ~broken
    /\ content' = content \o group
    /\ group' = <<>>
    /\ UNCHANGED <<handleVars, lock, poisoned, footer, broken, callVars, pc,
                   otherVars>>

(* The store refuses the bytes, or an earlier row group was not completed. *)
FlushFails ==
    /\ pc = "writing"
    /\ Len(group) = MaxRowGroupRows
    /\ broken' = TRUE /\ group' = <<>>
    /\ pending' = <<>> /\ pc' = "idle" /\ lock' = None
    /\ UNCHANGED <<handleVars, poisoned, content, footer, batch, given, acked,
                   reply, otherVars>>

ReplyWrite ==
    /\ pc = "writing"
    /\ pending = <<>> /\ GroupHasRoom
    /\ acked' = acked \o batch
    /\ pc' = "idle" /\ lock' = None
    /\ UNCHANGED <<handleVars, poisoned, fileVars, batch, pending, given,
                   reply, otherVars>>
-----------------------------------------------------------------------------
(***************************************************************************)
(* close: the encoder is taken, finishes the file and gives back the       *)
(* staged writer, which is published.  Every branch ends inactive.         *)
(***************************************************************************)
BeginClose ==
    /\ Callable /\ ~poisoned
    /\ ~cancelled /\ held
    /\ held' = FALSE
    /\ pc' = "finishing" /\ lock' = "producer"
    /\ UNCHANGED <<active, staged, cancelled, poisoned, fileVars, callVars,
                   otherVars>>

CloseRefused ==
    /\ Callable
    /\ poisoned \/ cancelled \/ ~held
    /\ reply' = "error"
    /\ UNCHANGED <<handleVars, lock, poisoned, fileVars, batch, pending, pc,
                   given, acked, otherVars>>

(* into_inner: the last row group, the footer, the buffered bytes. *)
FinishFile ==
    /\ pc = "finishing"
    /\ ~broken /\ ~cancelled
    /\ content' = content \o group /\ group' = <<>> /\ footer' = TRUE
    /\ pc' = "publishing"
    /\ UNCHANGED <<handleVars, lock, poisoned, broken, callVars, otherVars>>

(* MUTANT: the writer is published although the file could not be finished. *)
PublishAnyway ==
    /\ pc' = "publishing"
    /\ UNCHANGED <<active, staged, reply, lock>>

(* MUTANT: a failed close leaves the writer marked active. *)
FailStaysActive ==
    /\ staged' = Discarded
    /\ reply' = "error" /\ pc' = "idle" /\ lock' = None
    /\ UNCHANGED active

CloseFails ==
    /\ active' = FALSE /\ staged' = Discarded
    /\ reply' = "error" /\ pc' = "idle" /\ lock' = None

FinishFails ==
    /\ pc = "finishing"
    /\ CloseFails
    /\ UNCHANGED <<held, cancelled, poisoned, fileVars, batch, pending, given,
                   acked, otherVars>>

(* The store writer admits the publication unless the token is set. *)
(* MUTANT: the token is not looked at. *)
AdmitsAlways == TRUE

Admits == ~cancelled

AdmitPublish ==
    /\ pc = "publishing"
    /\ Admits
    /\ pc' = "committing"
    /\ UNCHANGED <<handleVars, lock, poisoned, fileVars, callVars, otherVars>>

PublishFails ==
    /\ pc \in {"publishing", "committing"}
    /\ CloseFails
    /\ UNCHANGED <<held, cancelled, poisoned, fileVars, batch, pending, given,
                   acked, otherVars>>

(* S3 may complete the upload and fail the caller all the same. *)
CommitPublish ==
    /\ pc = "committing"
    /\ staged' = "published"
    /\ active' = FALSE
    /\ reply' \in {"ok", "error"}
    /\ pc' = "idle" /\ lock' = None
    /\ UNCHANGED <<held, cancelled, poisoned, fileVars, batch, pending, given,
                   acked, otherVars>>

(***************************************************************************)
(* A panic is caught at the NIF boundary (guarded): the call answers an    *)
(* error, what it held on the stack is dropped, the mutex stays poisoned.  *)
(***************************************************************************)
Panic ==
    /\ pc \in {"writing", "finishing", "publishing"}
    /\ poisoned' = TRUE
    /\ broken' = TRUE
    /\ staged' = IF held THEN staged ELSE Discarded
    /\ reply' = IF pc = "writing" THEN reply ELSE "error"
    /\ pending' = <<>> /\ pc' = "idle" /\ lock' = None
    /\ UNCHANGED <<active, held, cancelled, group, content, footer, batch,
                   given, acked, otherVars>>
-----------------------------------------------------------------------------
(***************************************************************************)
(* cancel/1: parquet_writer_abort, a NIF of the normal schedulers, takes   *)
(* the mutex before it cancels the token.                                  *)
(***************************************************************************)
CancelCalled(c) ==
    /\ opened = "yes" /\ ~dropped
    /\ canceller[c] = "idle"
    /\ canceller' = [canceller EXCEPT ![c] = "waiting"]
    /\ UNCHANGED <<handleVars, lock, poisoned, fileVars, callVars, pc, opened,
                   aborted, owner, dropped>>

CancelReturns(c) ==
    /\ canceller[c] = "waiting"
    /\ LockFree
    /\ canceller' = [canceller EXCEPT ![c] = "idle"]
    /\ IF poisoned
       THEN UNCHANGED <<handleVars, aborted>>
       ELSE AbortState /\ aborted' = (aborted \/ active)
    /\ UNCHANGED <<lock, poisoned, fileVars, callVars, pc, opened, owner,
                   dropped>>

OwnerExits ==
    /\ owner = "alive"
    /\ owner' = "exited"
    /\ UNCHANGED <<handleVars, lock, poisoned, fileVars, callVars, pc, opened,
                   aborted, canceller, dropped>>

(* ParquetWriterResource::down: the token first, then the mutex. *)
DownCancels ==
    /\ owner = "exited" /\ opened = "yes" /\ ~dropped
    /\ owner' = "down"
    /\ cancelled' = TRUE
    /\ UNCHANGED <<active, held, staged, lock, poisoned, fileVars, callVars,
                   pc, opened, aborted, canceller, dropped>>

DownAborts ==
    /\ owner = "down"
    /\ LockFree
    /\ owner' = "gone"
    /\ IF poisoned THEN UNCHANGED handleVars ELSE AbortState
    /\ UNCHANGED <<lock, poisoned, fileVars, callVars, pc, opened, aborted,
                   canceller, dropped>>

(* Drop for WriterState: nobody refers to the resource any more. *)
DropWriter ==
    /\ opened = "yes" /\ ~dropped
    /\ pc = "idle" /\ owner \in {"alive", "gone"}
    /\ \A c \in Cancellers : canceller[c] = "idle"
    /\ dropped' = TRUE
    /\ AbortState
    /\ UNCHANGED <<lock, poisoned, fileVars, callVars, pc, opened, aborted,
                   canceller, owner>>

Next ==
    \/ OpenStore \/ OpenFails \/ MonitorOwner \/ MonitorFails
    \/ \E n \in 1 .. MaxBatchRows : BeginWrite(n)
    \/ WriteRefused \/ EncodeRow \/ FlushGroup \/ FlushFails \/ ReplyWrite
    \/ BeginClose \/ CloseRefused \/ FinishFile \/ FinishFails
    \/ AdmitPublish \/ PublishFails \/ CommitPublish \/ Panic
    \/ \E c \in Cancellers : CancelCalled(c) \/ CancelReturns(c)
    \/ OwnerExits \/ DownCancels \/ DownAborts \/ DropWriter

(***************************************************************************)
(* A running native call goes on and the mutex is given to who waits.      *)
(***************************************************************************)
Fairness ==
    /\ WF_vars(MonitorOwner \/ MonitorFails)
    /\ WF_vars(EncodeRow \/ FlushGroup \/ FlushFails \/ ReplyWrite)
    /\ WF_vars(FinishFile \/ FinishFails \/ AdmitPublish \/ PublishFails
               \/ CommitPublish)
    /\ WF_vars(DownCancels) /\ SF_vars(DownAborts)
    /\ \A c \in Cancellers : SF_vars(CancelReturns(c))

Spec == Init /\ [][Next]_vars
FairSpec == Spec /\ Fairness
-----------------------------------------------------------------------------
(***************************************************************************)
(* "A valid file becomes visible when close/1 succeeds" (README.md:141):   *)
(* a published file has its footer and holds the rows of the batches that  *)
(* were answered ok, all of them, in order, and no row of a failed batch.  *)
(***************************************************************************)
PublishedIsExact == staged = "published" => footer /\ content = acked

(***************************************************************************)
(* Between calls, a writer is active exactly while it owns a staged        *)
(* output: a failed close, a cancel or an exit leaves neither an output    *)
(* nobody ends nor a writer that claims to be open (close, abort, Drop).   *)
(***************************************************************************)
ActiveOwnsOutput ==
    /\ (LockFree /\ ~poisoned) => (active <=> staged = "open")
    /\ dropped => staged # "open"

(***************************************************************************)
(* The flags, the row group and the staged output of the writer agree in   *)
(* every state, also after failures and panics.                            *)
(***************************************************************************)
WriterConsistent == TypeOK /\ ActiveOwnsOutput

(***************************************************************************)
(* close answers ok only for a published file, and a cancel that answered  *)
(* aborted means that there is none.                                       *)
(***************************************************************************)
AnswersHonest ==
    /\ reply = "ok" => staged = "published"
    /\ aborted => staged # "published"

(***************************************************************************)
(* Once the token is set, by a cancel or by the owner's exit, a close that *)
(* the store writer has not yet admitted publishes nothing.                *)
(***************************************************************************)
Doomed == cancelled /\ staged # "published" /\ pc # "committing"

CancelStopsPublish == [][Doomed => Doomed']_vars

(***************************************************************************)
(* When the owner exits the staged output is published or discarded,       *)
(* whatever call was running, unless a panic left the mutex poisoned: then *)
(* it stays until the resource is collected.                               *)
(***************************************************************************)
OwnerExitReleases == owner # "alive" /\ staged = "open" ~> staged # "open" \/ poisoned

(***************************************************************************)
(* cancel/1 waits for the mutex that the call it is to cancel may hold,    *)
(* and always gets it: that call does not wait for the canceller.          *)
(***************************************************************************)
CancelAnswered ==
    \A c \in Cancellers : canceller[c] = "waiting" ~> canceller[c] = "idle"

(***************************************************************************)
(* The exit of the owner ends the staged output, and every cancel/1        *)
(* returns.                                                                *)
(***************************************************************************)
WriterReleased == OwnerExitReleases /\ CancelAnswered

(***************************************************************************)
(* "No ... normal-scheduler blocking remains on tested public paths"       *)
(* (@meta/@pm/roadmap001/EPIC007-spec.md:63): cancel/1, whose NIF runs on  *)
(* a normal scheduler, never finds the mutex held by a writing call.       *)
(***************************************************************************)
CancelNeverBlocks == \A c \in Cancellers : canceller[c] = "waiting" => lock = None
=============================================================================
