--------------------------- MODULE ParquetReader ---------------------------
(***************************************************************************)
(* One native reader (native/parquex_nif/src/reader.rs) and the            *)
(* Parquex.Stream over it (lib/parquex/stream.ex).  One process enumerates *)
(* the stream, others may call Stream.close/1, the owner may exit, and the *)
(* object under the key may be replaced while it is being read: the reader *)
(* reads ranges of a key, not of a file it holds open.                     *)
(*                                                                         *)
(* A row is its number in the file; Foreign is a row decoded from another  *)
(* object than the one whose footer was read.  Sizes count rows.  Columns  *)
(* other than the predicate's are left out.                                *)
(***************************************************************************)
EXTENDS Pruning, Selection

CONSTANTS Files,          \* the files the reader may be opened on
          Predicates,     \* the predicates it may be given, None included
          BatchSize,      \* batch_size
          PrefetchDepth,  \* prefetch_depth
          Closers,        \* processes that call Stream.close/1
          Foreign,        \* a row of another object
          Consumer        \* the enumerating process

ASSUME SizeAssumption ==
    /\ BatchSize \in Nat \ {0}
    /\ PrefetchDepth \in Nat \ {0}
    /\ Foreign \notin Nat /\ Consumer # None

(* The files are Parquet files whose footers describe them. *)
ASSUME FileAssumption ==
    /\ \A f \in Files : IsFile(f) /\ WellDescribed(f)
    /\ \A p \in Predicates : p = None \/ IsPredicate(p)

VARIABLES
    file,       \* the object whose footer was read
    predicate,  \* the compiled predicate, or None
    changed,    \* the key no longer holds that object
    opened,     \* reader_open_store: "no", "resource", "yes", "failed"
    active,     \* ReaderState.active (reader is Some exactly while it is)
    counter,    \* ACTIVE_READERS
    cancelled,  \* the cancellation token
    lock,       \* holder of the state mutex, or None
    poisoned,   \* a call panicked while it held the mutex
    position,   \* selected rows the record batch reader has passed
    eof,        \* ReaderState.eof
    queue,      \* ReaderState.queue
    buffered,   \* current_buffered_bytes
    pc,         \* the enumeration: "idle", "decoding", "ending", "ended"
    outcome,    \* how it ends: "none", "eof", "raised", "halted"
    delivered,  \* rows handed to the consumer, in order
    closer,     \* Closers: "idle" or "waiting" for the mutex
    owner,      \* "alive", "exited", "down" (token cancelled), "gone"
    dropped     \* the resource has been collected

vars == <<file, predicate, changed, opened, active, counter, cancelled, lock,
          poisoned, position, eof, queue, buffered, pc, outcome, delivered, closer,
          owner, dropped>>
fileVars == <<file, predicate>>
bufferVars == <<position, eof, queue, buffered>>
callVars == <<pc, outcome, delivered>>

TypeOK ==
    /\ file \in Files
    /\ predicate \in Predicates
    /\ changed \in BOOLEAN /\ active \in BOOLEAN /\ cancelled \in BOOLEAN
    /\ eof \in BOOLEAN /\ dropped \in BOOLEAN /\ poisoned \in BOOLEAN
    /\ opened \in {"no", "resource", "yes", "failed"}
    /\ counter \in Nat
    /\ lock \in {None, Consumer}
    /\ position \in 0 .. Len(file.rows)
    /\ queue \in Seq(Seq(DOMAIN file.rows \cup {Foreign}))
    /\ buffered \in Nat
    /\ pc \in {"idle", "decoding", "ending", "ended"}
    /\ outcome \in {"none", "eof", "raised", "halted"}
    /\ delivered \in Seq(DOMAIN file.rows \cup {Foreign})
    /\ closer \in [Closers -> {"idle", "waiting"}]
    /\ owner \in {"alive", "exited", "down", "gone"}

Init ==
    /\ file \in Files
    /\ predicate \in Predicates
    /\ changed = FALSE
    /\ opened = "no"
    /\ active = FALSE
    /\ counter = 0
    /\ cancelled = FALSE
    /\ lock = None /\ poisoned = FALSE
    /\ position = 0 /\ eof = FALSE /\ queue = <<>> /\ buffered = 0
    /\ pc = "idle" /\ outcome = "none" /\ delivered = <<>>
    /\ closer = [c \in Closers |-> "idle"]
    /\ owner = "alive"
    /\ dropped = FALSE
-----------------------------------------------------------------------------
(***************************************************************************)
(* with_row_groups: the rows of the selected row groups, in file order.    *)
(***************************************************************************)
RowNumbers == [i \in DOMAIN file.rows |-> i]

SelectedRows ==
    LET groups == SelectedRowGroups(file, predicate)
    IN  Select(RowNumbers, {i \in DOMAIN file.rows : file.group[i] \in groups})

(* apply_predicate_and_projection: every row is checked against the predicate. *)
Matching == {i \in DOMAIN file.rows : Selects(predicate, file.rows[i])}
ApplyPredicate(batch) == Select(batch, Matching \cup {Foreign})

NextBatch ==
    LET rows == SelectedRows
        last == position + BatchSize
    IN  SubSeq(rows, position + 1, IF last < Len(rows) THEN last ELSE Len(rows))

(***************************************************************************)
(* ReaderState::close.                                                     *)
(***************************************************************************)
(* MUTANT: an inactive reader is closed, and counted, again. *)
CloseAgain ==
    /\ cancelled' = TRUE
    /\ queue' = <<>> /\ buffered' = 0
    /\ active' = FALSE
    /\ counter' = counter - 1

(* MUTANT: the reader is not closed. *)
CloseNothing == UNCHANGED <<cancelled, queue, buffered, active, counter>>

CloseState ==
    IF active
    THEN /\ cancelled' = TRUE
         /\ queue' = <<>> /\ buffered' = 0
         /\ active' = FALSE
         /\ counter' = counter - 1
    ELSE UNCHANGED <<cancelled, queue, buffered, active, counter>>

LockFree == lock = None

(* A close through the mutex: a poisoned one answers an error. *)
LockAndClose ==
    IF poisoned
    THEN UNCHANGED <<cancelled, queue, buffered, active, counter>>
    ELSE CloseState
-----------------------------------------------------------------------------
(***************************************************************************)
(* reader_open_store: head, footer, predicate and row groups, then the     *)
(* resource, then the monitor.                                             *)
(***************************************************************************)
OpenStore ==
    /\ opened = "no"
    /\ opened' = "resource"
    /\ active' = TRUE
    /\ counter' = counter + 1
    /\ UNCHANGED <<poisoned, fileVars, changed, cancelled, lock, bufferVars,
                   callVars, closer, owner, dropped>>

(* The head, the footer, a field type, the projection or the predicate fails. *)
OpenFails ==
    /\ opened = "no"
    /\ opened' = "failed"
    /\ UNCHANGED <<poisoned, fileVars, changed, active, counter, cancelled,
                   lock, bufferVars, callVars, closer, owner, dropped>>

MonitorOwner ==
    /\ opened = "resource"
    /\ owner = "alive"
    /\ opened' = "yes"
    /\ UNCHANGED <<poisoned, fileVars, changed, active, counter, cancelled,
                   lock, bufferVars, callVars, closer, owner, dropped>>

MonitorFails ==
    /\ opened = "resource"
    /\ owner # "alive"
    /\ opened' = "failed"
    /\ CloseState
    /\ UNCHANGED <<poisoned, fileVars, changed, lock, position, eof, callVars,
                   closer, owner, dropped>>
-----------------------------------------------------------------------------
(***************************************************************************)
(* reader_next, ReaderState::next_batch.  The mutex is held to the reply;  *)
(* each record batch decoded for the queue is a step of its own.           *)
(***************************************************************************)
BeginNext ==
    /\ opened = "yes" /\ ~dropped
    /\ pc = "idle"
    /\ LockFree
    /\ IF cancelled \/ ~active
       THEN pc' = "ending" /\ outcome' = "raised" /\ UNCHANGED lock
       ELSE pc' = "decoding" /\ lock' = Consumer /\ UNCHANGED outcome
    /\ UNCHANGED <<poisoned, fileVars, changed, opened, active, counter,
                   cancelled, bufferVars, delivered, closer, owner, dropped>>

WantsBatch == ~eof /\ Len(queue) < PrefetchDepth

Buffer(batch) ==
    IF batch = <<>>
    THEN UNCHANGED <<queue, buffered>>
    ELSE queue' = Append(queue, batch) /\ buffered' = buffered + Len(batch)

(* Once the object has been replaced, a range may hold the other's bytes. *)
DecodeBatch ==
    /\ pc = "decoding" /\ WantsBatch
    /\ position < Len(SelectedRows)
    /\ position' = position + Len(NextBatch)
    /\ \/ Buffer(ApplyPredicate(NextBatch))
       \/ changed /\ Buffer(ApplyPredicate([i \in DOMAIN NextBatch |-> Foreign]))
    /\ UNCHANGED <<poisoned, fileVars, changed, opened, active, counter,
                   cancelled, lock, eof, callVars, closer, owner, dropped>>

(* A range fails, is cut short or is refused by the token; a page is bad. *)
DecodeFails ==
    /\ pc = "decoding" /\ WantsBatch
    /\ pc' = "ending" /\ outcome' = "raised" /\ lock' = None
    /\ UNCHANGED <<poisoned, fileVars, changed, opened, active, counter,
                   cancelled, bufferVars, delivered, closer, owner, dropped>>

ReachEnd ==
    /\ pc = "decoding" /\ WantsBatch
    /\ position = Len(SelectedRows)
    /\ eof' = TRUE
    /\ UNCHANGED <<poisoned, fileVars, changed, opened, active, counter,
                   cancelled, lock, position, queue, buffered, callVars,
                   closer, owner, dropped>>

(* The front of the queue is popped and encoded as terms: a value that has no
   encoding fails the call, and its batch is gone from the queue. *)
ReplyBatch ==
    /\ pc = "decoding" /\ ~WantsBatch
    /\ queue # <<>>
    /\ queue' = Tail(queue) /\ buffered' = buffered - Len(Head(queue))
    /\ lock' = None
    /\ \/ pc' = "idle" /\ delivered' = delivered \o Head(queue) /\ UNCHANGED outcome
       \/ pc' = "ending" /\ outcome' = "raised" /\ UNCHANGED delivered
    /\ UNCHANGED <<poisoned, fileVars, changed, opened, active, counter,
                   cancelled, position, eof, closer, owner, dropped>>

ReplyEof ==
    /\ pc = "decoding" /\ ~WantsBatch
    /\ queue = <<>>
    /\ lock' = None
    /\ pc' = "ending" /\ outcome' = "eof"
    /\ UNCHANGED <<poisoned, fileVars, changed, opened, active, counter,
                   cancelled, bufferVars, delivered, closer, owner, dropped>>

(* A panic is caught at the NIF boundary (guarded); the mutex is poisoned. *)
Panic ==
    /\ pc = "decoding" /\ WantsBatch
    /\ pc' = "ending" /\ outcome' = "raised" /\ lock' = None
    /\ poisoned' = TRUE
    /\ UNCHANGED <<fileVars, changed, opened, active, counter, cancelled,
                   bufferVars, delivered, closer, owner, dropped>>

(* The consumer takes no more, or raises. *)
ConsumerHalts ==
    /\ opened = "yes" /\ ~dropped
    /\ pc = "idle"
    /\ pc' = "ending" /\ outcome' = "halted"
    /\ UNCHANGED <<poisoned, fileVars, changed, opened, active, counter,
                   cancelled, lock, bufferVars, delivered, closer, owner,
                   dropped>>

(* The finalizer of Stream.resource. *)
Finalize ==
    /\ pc = "ending"
    /\ LockFree
    /\ LockAndClose
    /\ pc' = "ended"
    /\ UNCHANGED <<poisoned, fileVars, changed, opened, lock, position, eof,
                   outcome, delivered, closer, owner, dropped>>
-----------------------------------------------------------------------------
(***************************************************************************)
(* Stream.close/1: reader_close is a NIF of the normal schedulers; it      *)
(* waits for the mutex where it is called.                                 *)
(***************************************************************************)
CloseCalled(c) ==
    /\ opened = "yes" /\ ~dropped
    /\ closer[c] = "idle"
    /\ closer' = [closer EXCEPT ![c] = "waiting"]
    /\ UNCHANGED <<poisoned, fileVars, changed, opened, active, counter,
                   cancelled, lock, bufferVars, callVars, owner, dropped>>

CloseReturns(c) ==
    /\ closer[c] = "waiting"
    /\ LockFree
    /\ LockAndClose
    /\ closer' = [closer EXCEPT ![c] = "idle"]
    /\ UNCHANGED <<poisoned, fileVars, changed, opened, lock, position, eof,
                   callVars, owner, dropped>>
-----------------------------------------------------------------------------
OwnerExits ==
    /\ owner = "alive"
    /\ owner' = "exited"
    /\ UNCHANGED <<poisoned, fileVars, changed, opened, active, counter,
                   cancelled, lock, bufferVars, callVars, closer, dropped>>

(* ReaderResource::down, its two steps. *)
DownCancels ==
    /\ owner = "exited" /\ opened = "yes" /\ ~dropped
    /\ owner' = "down"
    /\ cancelled' = TRUE
    /\ UNCHANGED <<poisoned, fileVars, changed, opened, active, counter, lock,
                   bufferVars, callVars, closer, dropped>>

DownCloses == owner' = "gone" /\ LockAndClose

DownEnds ==
    /\ owner = "down"
    /\ LockFree
    /\ DownCloses
    /\ UNCHANGED <<poisoned, fileVars, changed, opened, lock, position, eof,
                   callVars, closer, dropped>>

(* Drop for ReaderState, when the last reference to the resource is gone. *)
DropReader ==
    /\ opened = "yes" /\ ~dropped
    /\ pc \in {"idle", "ended"}
    /\ owner \in {"alive", "gone"}
    /\ \A c \in Closers : closer[c] = "idle"
    /\ dropped' = TRUE
    /\ CloseState
    /\ UNCHANGED <<poisoned, fileVars, changed, opened, lock, position, eof,
                   callVars, closer, owner>>

(* Another writer publishes to the key, or the key is deleted. *)
ReplaceObject ==
    /\ ~changed
    /\ changed' = TRUE
    /\ UNCHANGED <<poisoned, fileVars, opened, active, counter, cancelled,
                   lock, bufferVars, callVars, closer, owner, dropped>>

Next ==
    \/ OpenStore \/ OpenFails \/ MonitorOwner \/ MonitorFails
    \/ BeginNext \/ DecodeBatch \/ DecodeFails \/ ReachEnd
    \/ ReplyBatch \/ ReplyEof \/ Panic \/ ConsumerHalts \/ Finalize
    \/ \E c \in Closers : CloseCalled(c) \/ CloseReturns(c)
    \/ OwnerExits \/ DownCancels \/ DownEnds \/ DropReader
    \/ ReplaceObject

(***************************************************************************)
(* A running native call goes on, and the mutex is given to who waits: the *)
(* schedulers are fair.  Nothing obliges the consumer to ask for more.     *)
(***************************************************************************)
Fairness ==
    /\ WF_vars(MonitorOwner \/ MonitorFails)
    /\ WF_vars(DecodeBatch \/ DecodeFails \/ ReachEnd \/ ReplyBatch \/ ReplyEof)
    /\ WF_vars(Finalize)
    /\ WF_vars(DownCancels) /\ SF_vars(DownEnds)
    /\ \A c \in Closers : SF_vars(CloseReturns(c))

Spec == Init /\ [][Next]_vars
FairSpec == Spec /\ Fairness
-----------------------------------------------------------------------------
(***************************************************************************)
(* ACTIVE_READERS is 1 exactly while the reader is active, whichever of    *)
(* the finalizer, close/1, down and Drop closes it and however often.      *)
(***************************************************************************)
CounterExact == counter = IF active THEN 1 ELSE 0

(***************************************************************************)
(* The buffered bytes reported are those of the queue, which never exceeds *)
(* the prefetch depth, and a closed reader buffers nothing (next_batch,    *)
(* close).                                                                 *)
(***************************************************************************)
BufferedExact ==
    /\ buffered = Len(Joined(queue))
    /\ Len(queue) <= PrefetchDepth
    /\ ~active => queue = <<>>

(***************************************************************************)
(* The counter, the queue and the byte figures of the reader agree with    *)
(* its state after every step of any process.                              *)
(***************************************************************************)
ReaderConsistent == TypeOK /\ CounterExact /\ BufferedExact

(***************************************************************************)
(* The rows asked for: a scan of the whole file, with no statistics.       *)
(***************************************************************************)
Answer == Select(RowNumbers, Matching)

Begins(s, t) == Len(s) <= Len(t) /\ s = SubSeq(t, 1, Len(s))

(***************************************************************************)
(* While the object stays in place, what the consumer has been given is a  *)
(* prefix of the answer: pruning loses no row, the predicate lets none     *)
(* through, and a failed call leaves no gap that a later one passes over.  *)
(* An enumeration that ends without an exception has delivered all of it:  *)
(* a concurrent close/1 or an owner's exit never looks like the end of the *)
(* file.                                                                   *)
(***************************************************************************)
DeliversAnswer ==
    changed \/ /\ Begins(delivered, Answer)
               /\ outcome = "eof" => delivered = Answer

(***************************************************************************)
(* When the owner of an opened reader exits, the reader is closed, unless  *)
(* a panic left the mutex poisoned: then it stays until it is collected.   *)
(***************************************************************************)
OwnerExitReleases == owner # "alive" /\ active ~> ~active \/ poisoned

(***************************************************************************)
(* However an enumeration ends short of a panic, the native reader is      *)
(* closed (stream.ex:                                                      *)
(* "Halting enumeration or a consumer exception ... closes native state"). *)
(***************************************************************************)
EndReleases == pc = "ending" ~> ~active \/ poisoned

(***************************************************************************)
(* close/1 waits for the mutex that a decoding call holds and always gets  *)
(* it: nobody who holds it waits for the closer.                           *)
(***************************************************************************)
CloseAnswered == \A c \in Closers : closer[c] = "waiting" ~> closer[c] = "idle"

(***************************************************************************)
(* Native state never outlives its use, and nobody waits for ever: neither *)
(* the exit of the owner nor the end of an enumeration leaves the reader   *)
(* open, and every close/1 returns.                                        *)
(***************************************************************************)
ReaderReleased == OwnerExitReleases /\ EndReleases /\ CloseAnswered

(***************************************************************************)
(* "No ... normal-scheduler blocking remains on tested public paths"       *)
(* (@meta/@pm/roadmap001/EPIC007-spec.md:63): close/1, whose NIF runs on a *)
(* normal scheduler, never finds the mutex held by a call that does I/O.   *)
(***************************************************************************)
CloseNeverBlocks == \A c \in Closers : closer[c] = "waiting" => lock = None
=============================================================================
