---------------------------- MODULE DatasetWriter ----------------------------
(***************************************************************************)
(* Parquex.Dataset.Writer (lib/parquex/dataset/writer.ex): a GenServer     *)
(* that routes rows to one open Parquet part per time partition, completes *)
(* the least recently used part when another partition needs room, rotates *)
(* parts at row and byte limits, and reports the parts it published.       *)
(*                                                                         *)
(* The server handles one call at a time; a call is a sequence of row      *)
(* steps here, because each row makes native calls whose effects outlive   *)
(* the server: `files' is the store's side (the native Parquet writers and *)
(* the objects they publish), `server' the GenServer's state.  The server  *)
(* can be killed at any moment, also while it waits for a native call,     *)
(* which then goes on without it; its exit makes the native owner monitor  *)
(* abort the parts that are still open.                                    *)
(*                                                                         *)
(* A part whose native close has failed, or was running when the server    *)
(* was killed, is "closing": the server never learns what became of it.    *)
(* The publish may have been refused, may have taken effect although an    *)
(* error came back (a lost answer, a failed head after the completion), or *)
(* may still take effect.                                                  *)
(***************************************************************************)
EXTENDS Naturals, Sequences, FiniteSets

CONSTANTS
    Timestamps,         \* event times a row may carry
    PartitionWidth,     \* event times per partition
    RowSizes,           \* estimated sizes a row may have
    MaxOpenPartitions,  \* settings.max_open_partitions
    MaxRowsPerFile,     \* settings.max_rows_per_file
    MaxBytesPerFile,    \* settings.max_bytes_per_file
    BatchRows,          \* settings.batch_rows
    MaxRows,            \* bound on the rows given to the writer
    MaxCallRows         \* bound on the rows of one write call

ASSUME SettingsAssumption ==
    /\ {PartitionWidth, MaxOpenPartitions, MaxRowsPerFile, MaxBytesPerFile,
        BatchRows} \subseteq Nat \ {0}
    /\ Timestamps \subseteq Nat
    /\ RowSizes \subseteq Nat \ {0}

ASSUME BoundsAssumption == MaxRows \in Nat /\ MaxCallRows \in Nat

VARIABLES
    server,     \* the GenServer state: active entries, access clock, reports
    saved,      \* the state the running write call was entered with
    files,      \* every part ever opened, in the order of opening
    call,       \* the call being handled: "none", "write" or "close"
    pending,    \* the rows of a write call still to be routed
    status,     \* the server is "running" or "stopped"
    reply,      \* the answer that stopped the server, with the reported parts
    given,      \* how many rows have been given to the writer
    acked,      \* history: rows of the write calls answered with :ok
    before,     \* history: the parts published when the running call began
    doubt       \* history: the part that was closing when the server stopped

vars == <<server, saved, files, call, pending, status, reply, given, acked,
          before, doubt>>

(***************************************************************************)
(* A row's flaw is found where the code finds it: a missing timestamp when *)
(* the row is routed, a value that does not fit the schema only when the   *)
(* row's buffer is flushed.                                                *)
(***************************************************************************)
Flaws == {"none", "no_timestamp", "bad_value"}
Input == [ts : Timestamps, size : RowSizes, flaw : Flaws]
Row == [id : 1 .. MaxRows, ts : Timestamps, size : RowSizes, flaw : Flaws]

\* TimePartition.for_timestamp, abstracted to fixed-width partitions
Partition(ts) == ts \div PartitionWidth

MinOf(a, b) == IF a <= b THEN a ELSE b
MaxOf(a, b) == IF a >= b THEN a ELSE b
With(f, p, e) == [q \in DOMAIN f \cup {p} |-> IF q = p THEN e ELSE f[q]]
Without(f, p) == [q \in DOMAIN f \ {p} |-> f[q]]

Idle == [active |-> <<>>, access |-> 0, reports |-> <<>>]
NoReply == [kind |-> "none", reported |-> <<>>]

\* init/1
Init ==
    /\ server = Idle
    /\ saved = Idle
    /\ files = <<>>
    /\ call = "none"
    /\ pending = <<>>
    /\ status = "running"
    /\ reply = NoReply
    /\ given = 0
    /\ acked = {}
    /\ before = {}
    /\ doubt = {}

Closing(fs) == {i \in DOMAIN fs : fs[i].state = "closing"}
Published == {i \in DOMAIN files : files[i].state = "published"}
-----------------------------------------------------------------------------
(***************************************************************************)
(* The private functions, over a record x with the server's fields and the *)
(* files.  Each gives the result of its success; what it leaves behind     *)
(* when a native call fails is in RouteFailures and CloseBegun.            *)
(***************************************************************************)
Now == [active |-> server.active, access |-> server.access,
        reports |-> server.reports, files |-> files]

\* Input.batches accepts the buffered rows
Flushable(x, p) ==
    \A i \in DOMAIN x.active[p].buffer : x.active[p].buffer[i].flaw = "none"

FlushEntryKeepsBuffer(x, p) ==
    [x EXCEPT !.files[x.active[p].file].rows = @ \o x.active[p].buffer]

\* flush_entry: the buffered rows go to the native writer as one batch
FlushEntry(x, p) ==
    [x EXCEPT !.files[x.active[p].file].rows = @ \o x.active[p].buffer,
              !.active[p].buffer = <<>>]

Part(e, p) == [file |-> e.file, partition |-> p, rows |-> e.rows,
               min |-> e.min, max |-> e.max]

PublishEntryUnflushed(x, p) ==
    [x EXCEPT !.files[x.active[p].file].state = "published",
              !.active = Without(@, p),
              !.reports = Append(@, Part(x.active[p], p))]

\* publish_entry: flush, close the native writer, record the part
PublishEntry(x, p) ==
    LET y == FlushEntry(x, p)
        e == y.active[p]
    IN  [y EXCEPT !.files[e.file].state = "published",
                  !.active = Without(@, p),
                  !.reports = Append(@, Part(e, p))]

\* open_entry: a new part under a name nobody else uses (part_name)
OpenEntry(x, p, ts) ==
    [x EXCEPT !.files = Append(@, [partition |-> p, rows |-> <<>>,
                                   state |-> "open"]),
              !.access = @ + 1,
              !.active = With(@, p, [file |-> Len(x.files) + 1, rows |-> 0,
                                     bytes |-> 0, buffer |-> <<>>, min |-> ts,
                                     max |-> ts, access |-> x.access + 1])]

\* append_row, before the flush of a full buffer: the entry and the state
Grown(e, row, access) ==
    [e EXCEPT !.rows = @ + 1,
              !.bytes = @ + row.size,
              !.buffer = Append(@, row),
              !.min = MinOf(@, row.ts),
              !.max = MaxOf(@, row.ts),
              !.access = access]

BufferRow(x, p, row) ==
    [x EXCEPT !.access = @ + 1,
              !.active[p] = Grown(@, row, x.access + 1)]

BufferFull(x, p) == Len(x.active[p].buffer) >= BatchRows

RotatesLate(e, row) ==
    e.rows > MaxRowsPerFile \/ e.bytes > MaxBytesPerFile

\* ensure_entry: the row would take the part over a limit
Rotates(e, row) ==
    /\ e.rows > 0
    /\ \/ e.rows + 1 > MaxRowsPerFile
       \/ e.bytes + row.size > MaxBytesPerFile

RoomIsUnlimited(x) == TRUE

\* make_room: another partition may be opened
HasRoom(x) == Cardinality(DOMAIN x.active) < MaxOpenPartitions

\* The entry with the smallest access time: make_room, and the order of close
Oldest(x) ==
    CHOOSE p \in DOMAIN x.active :
        \A q \in DOMAIN x.active : x.active[p].access <= x.active[q].access

\* ensure_entry: the partitions to complete before the row's part is ready
Completes(x, row) ==
    LET p == Partition(row.ts) IN
    IF p \in DOMAIN x.active
    THEN IF Rotates(x.active[p], row) THEN {p} ELSE {}
    ELSE IF HasRoom(x) THEN {} ELSE {Oldest(x)}

Opens(x, row) ==
    \/ Partition(row.ts) \notin DOMAIN x.active
    \/ Rotates(x.active[Partition(row.ts)], row)

\* route_row up to each of its native calls
Completed(x, row) ==
    IF Completes(x, row) = {} THEN x
    ELSE PublishEntry(x, CHOOSE p \in Completes(x, row) : TRUE)
Ensured(x, row) ==
    IF Opens(x, row)
    THEN OpenEntry(Completed(x, row), Partition(row.ts), row.ts)
    ELSE x
Buffered(x, row) == BufferRow(Ensured(x, row), Partition(row.ts), row)

Routable(x, row) ==
    /\ row.flaw # "no_timestamp"
    /\ \A p \in Completes(x, row) : Flushable(x, p)
    /\ BufferFull(Buffered(x, row), Partition(row.ts))
        => Flushable(Buffered(x, row), Partition(row.ts))

Routed(x, row) ==
    IF BufferFull(Buffered(x, row), Partition(row.ts))
    THEN FlushEntry(Buffered(x, row), Partition(row.ts))
    ELSE Buffered(x, row)

\* publish_entry up to the answer of the native close: the buffer has been
\* flushed, the part is neither known to be published nor to be discarded.
CloseBegun(x, p) ==
    [FlushEntry(x, p).files EXCEPT ![x.active[p].file].state = "closing"]

(***************************************************************************)
(* What a route_row that does not come to its end can leave in the store:  *)
(* nothing when the timestamp is missing or the old part cannot be         *)
(* flushed; the old part closing when the native close fails or the server *)
(* dies during it; the old part PUBLISHED when the new one cannot be       *)
(* opened, or is opened and its batch cannot be written.                   *)
(***************************************************************************)
RouteFailures(x, row) ==
    IF row.flaw = "no_timestamp" THEN {x.files}
    ELSE LET old == Completes(x, row)
             p == Partition(row.ts)
         IN  {x.files : q \in {r \in old : x.active[r].buffer # <<>>}}
             \cup
             (IF \A q \in old : Flushable(x, q)
              THEN {CloseBegun(x, q) : q \in old}
                   \cup (IF Opens(x, row) THEN {Completed(x, row).files} ELSE {})
                   \cup (IF BufferFull(Buffered(x, row), p)
                         THEN {Ensured(x, row).files} ELSE {})
              ELSE {})

\* cancel_all: abort the native writers the given state knows of
CancelAll(fs, active) ==
    [i \in DOMAIN fs |->
        IF fs[i].state = "open" /\ \E p \in DOMAIN active : active[p].file = i
        THEN [fs[i] EXCEPT !.state = "discarded"]
        ELSE fs[i]]

\* {:stop, :normal, reply, cancel_all(state)}
Stop(fs, active, kind, reported) ==
    /\ files' = CancelAll(fs, active)
    /\ server' = [server EXCEPT !.active = <<>>]
    /\ status' = "stopped"
    /\ reply' = [kind |-> kind, reported |-> reported]
    /\ call' = "none"
    /\ pending' = <<>>
    /\ saved' = Idle
    /\ doubt' = Closing(fs)
-----------------------------------------------------------------------------
(***************************************************************************)
(* handle_call({:write, input})                                            *)
(***************************************************************************)
StartWrite(rows) ==
    /\ status = "running" /\ call = "none"
    /\ call' = "write"
    /\ pending' = rows
    /\ saved' = server
    /\ given' = given + Len(rows)
    /\ before' = Published
    /\ UNCHANGED <<server, files, status, reply, acked, doubt>>

RouteRow ==
    /\ call = "write" /\ pending # <<>>
    /\ Routable(Now, Head(pending))
    /\ LET y == Routed(Now, Head(pending)) IN
        /\ server' = [active |-> y.active, access |-> y.access,
                      reports |-> y.reports]
        /\ files' = y.files
    /\ pending' = Tail(pending)
    /\ UNCHANGED <<saved, call, status, reply, given, acked, before, doubt>>

ReplyWrite ==
    /\ call = "write" /\ pending = <<>>
    /\ call' = "none"
    /\ acked' = acked \cup (1 .. given)
    /\ saved' = Idle
    /\ UNCHANGED <<server, files, pending, status, reply, given, before, doubt>>

\* The else branch works on the state the call was entered with: it cancels
\* and reports what that state knows.
WriteFails ==
    /\ call = "write" /\ pending # <<>>
    /\ \E fs \in RouteFailures(Now, Head(pending)) :
        Stop(fs, saved.active, "write_failed", saved.reports)
    /\ UNCHANGED <<given, acked, before>>
-----------------------------------------------------------------------------
(***************************************************************************)
(* handle_call(:close) and close_all: publish in access order              *)
(***************************************************************************)
StartClose ==
    /\ status = "running" /\ call = "none"
    /\ call' = "close"
    /\ before' = Published
    /\ UNCHANGED <<server, saved, files, pending, status, reply, given, acked,
                   doubt>>

CloseOldest ==
    /\ call = "close" /\ DOMAIN server.active # {}
    /\ Flushable(Now, Oldest(Now))
    /\ LET y == PublishEntry(Now, Oldest(Now)) IN
        /\ server' = [active |-> y.active, access |-> y.access,
                      reports |-> y.reports]
        /\ files' = y.files
    /\ UNCHANGED <<saved, call, pending, status, reply, given, acked, before,
                   doubt>>

\* A failed flush answers without the published parts, a failed native close
\* with those of the current state.
CloseFails ==
    /\ call = "close" /\ DOMAIN server.active # {}
    /\ \/ /\ server.active[Oldest(Now)].buffer # <<>>
          /\ Stop(files, server.active, "close_failed", <<>>)
       \/ /\ Flushable(Now, Oldest(Now))
          /\ Stop(CloseBegun(Now, Oldest(Now)), server.active, "close_failed",
                  server.reports)
    /\ UNCHANGED <<given, acked, before>>

ReplyClose ==
    /\ call = "close" /\ DOMAIN server.active = {}
    /\ Stop(files, server.active, "closed", server.reports)
    /\ UNCHANGED <<given, acked, before>>
-----------------------------------------------------------------------------
\* handle_call(:cancel), and handle_info for the DOWN of the owner
Cancel ==
    /\ status = "running" /\ call = "none"
    /\ Stop(files, server.active, "cancelled", <<>>)
    /\ UNCHANGED <<given, acked, before>>

\* What the native calls of a step that the server did not live to see the end
\* of have done to the store.
Interrupted ==
    IF call = "write" /\ pending # <<>> THEN RouteFailures(Now, Head(pending))
    ELSE IF /\ call = "close" /\ DOMAIN server.active # {}
            /\ Flushable(Now, Oldest(Now))
    THEN {CloseBegun(Now, Oldest(Now))}
    ELSE {}

\* The process is killed, between two native calls or during one: neither a
\* reply nor terminate/2.
Killed ==
    /\ status = "running"
    /\ status' = "stopped"
    /\ call' = "none"
    /\ pending' = <<>>
    /\ server' = [server EXCEPT !.active = <<>>]
    /\ \E fs \in {files} \cup Interrupted : files' = fs /\ doubt' = Closing(fs)
    /\ UNCHANGED <<saved, reply, given, acked, before>>

NativeDownPublishes(i) ==
    /\ status = "stopped"
    /\ files[i].state = "open"
    /\ files' = [files EXCEPT ![i].state = "published"]
    /\ UNCHANGED <<server, saved, call, pending, status, reply, given, acked,
                   before, doubt>>

\* ParquetWriterResource::down: the owner of an open part, this server, exited
NativeDown(i) ==
    /\ status = "stopped"
    /\ files[i].state = "open"
    /\ files' = [files EXCEPT ![i].state = "discarded"]
    /\ UNCHANGED <<server, saved, call, pending, status, reply, given, acked,
                   before, doubt>>

\* The native close that nobody waits for any more comes to its end, or what it
\* had asked of the provider does or does not take effect.
NativeCloseEnds(i) ==
    /\ files[i].state = "closing"
    /\ \E outcome \in {"published", "discarded"} :
          files' = [files EXCEPT ![i].state = outcome]
    /\ UNCHANGED <<server, saved, call, pending, status, reply, given, acked,
                   before, doubt>>

\* The rows of a call, numbered in the order they are given to the writer.
Numbered(inputs) ==
    [i \in DOMAIN inputs |-> [id |-> given + i, ts |-> inputs[i].ts,
                              size |-> inputs[i].size, flaw |-> inputs[i].flaw]]

Next ==
    \/ \E n \in 1 .. MaxCallRows : \E inputs \in [1 .. n -> Input] :
            given + n <= MaxRows /\ StartWrite(Numbered(inputs))
    \/ RouteRow \/ ReplyWrite \/ WriteFails
    \/ StartClose \/ CloseOldest \/ CloseFails \/ ReplyClose
    \/ Cancel \/ Killed
    \/ \E i \in DOMAIN files : NativeDown(i) \/ NativeCloseEnds(i)

Spec == Init /\ [][Next]_vars

\* The server's own steps, the VM's exit notifications and the end of a native
\* call are never withheld.
FairSpec ==
    /\ Spec
    /\ WF_vars(RouteRow \/ ReplyWrite \/ WriteFails)
    /\ WF_vars(CloseOldest \/ CloseFails \/ ReplyClose)
    /\ WF_vars(\E i \in DOMAIN files : NativeDown(i) \/ NativeCloseEnds(i))
-----------------------------------------------------------------------------
FileStates == {"open", "closing", "published", "discarded"}

\* The domain of every variable; an entry of the server refers to an open part
\* of its own partition.
TypeOK ==
    /\ \A p \in DOMAIN server.active :
        LET e == server.active[p] IN
        /\ e.file \in DOMAIN files
        /\ files[e.file].state = "open" /\ files[e.file].partition = p
        /\ e.access \in 1 .. server.access
    /\ \A i \in DOMAIN files : files[i].state \in FileStates
    /\ pending \in Seq(Row)
    /\ call \in {"none", "write", "close"}
    /\ status \in {"running", "stopped"}
    /\ reply.kind \in {"none", "write_failed", "close_failed", "closed",
                       "cancelled"}
    /\ given \in 0 .. MaxRows
    /\ acked \subseteq 1 .. given
    /\ doubt \subseteq DOMAIN files

\* The places of the store, and of the server's memory, that hold a row.
PlacesIn(states, id) ==
    {at \in (DOMAIN files) \X (1 .. MaxRows) :
        /\ files[at[1]].state \in states
        /\ at[2] \in DOMAIN files[at[1]].rows
        /\ files[at[1]].rows[at[2]].id = id}
Buffers(id) ==
    {at \in (DOMAIN server.active) \X (1 .. MaxRows) :
        /\ at[2] \in DOMAIN server.active[at[1]].buffer
        /\ server.active[at[1]].buffer[at[2]].id = id}

(***************************************************************************)
(* No row is lost or duplicated by buffering, eviction, rotation or a      *)
(* flush: while the server runs, every row it has acknowledged is in       *)
(* exactly one place, a buffer, an open part or a published part; when     *)
(* close succeeds, exactly once in the published parts.                    *)
(***************************************************************************)
ExactlyOnce ==
    /\ status = "running" => \A id \in acked :
        Cardinality(PlacesIn({"open", "published"}, id))
            + Cardinality(Buffers(id)) = 1
    /\ reply.kind = "closed" => \A id \in 1 .. given :
        Cardinality(PlacesIn({"published"}, id)) = 1

\* The size of the first n rows, for every n, and of all of them.
Sizes(rows) ==
    LET sum[n \in 0 .. Len(rows)] ==
            IF n = 0 THEN 0 ELSE sum[n - 1] + rows[n].size
    IN  sum
SizeOf(rows) == Sizes(rows)[Len(rows)]

(***************************************************************************)
(* Every part holds rows of its partition only, in the order they were     *)
(* given, at most max_rows_per_file of them, and more than                 *)
(* max_bytes_per_file only when a single row is that large; a published    *)
(* part is never empty.                                                    *)
(***************************************************************************)
PartsWithinLimits ==
    \A i \in DOMAIN files :
        LET rows == files[i].rows IN
        /\ \A j \in DOMAIN rows : Partition(rows[j].ts) = files[i].partition
        /\ \A j, l \in DOMAIN rows : j < l => rows[j].id < rows[l].id
        /\ Len(rows) <= MaxRowsPerFile
        /\ SizeOf(rows) <= MaxBytesPerFile \/ Len(rows) = 1
        /\ files[i].state = "published" => rows # <<>>

(***************************************************************************)
(* "max_open_partitions bounds the number of active Parquet writers"       *)
(* (docs/datasets.md:48): counted at the native writers, so that parts a   *)
(* failed call forgot, and one that is still closing, count too.           *)
(***************************************************************************)
OpenWithinLimit ==
    Cardinality({i \in DOMAIN files : files[i].state \in {"open", "closing"}})
        <= MaxOpenPartitions

(***************************************************************************)
(* The entries of the server and the native writers agree in every state:  *)
(* an entry has an open part of its partition, and there are never more    *)
(* open parts than the limit allows.                                       *)
(***************************************************************************)
ServerConsistent == TypeOK /\ OpenWithinLimit

(***************************************************************************)
(* Every part in an answer is published, and its row count and time bounds *)
(* are those of the rows in the file.  A successful close reports every    *)
(* published part.  A failed write reports every part of the earlier calls *)
(* and none that is not published, but leaves out the parts it completed   *)
(* itself; a failed close reports every published part but the one whose   *)
(* native close failed, which may have been or still be published, or none *)
(* at all when it was the flush that failed.                               *)
(***************************************************************************)
ReportSound ==
    LET Reported == {reply.reported[i].file : i \in DOMAIN reply.reported} IN
    /\ \A i \in DOMAIN reply.reported :
        LET part == reply.reported[i]
            rows == files[part.file].rows
            times == {rows[j].ts : j \in DOMAIN rows}
        IN  /\ files[part.file].state = "published"
            /\ part.rows = Len(rows)
            /\ part.min \in times /\ part.max \in times
            /\ \A t \in times : part.min <= t /\ t <= part.max
    /\ reply.kind = "closed" => Reported = Published
    /\ reply.kind = "write_failed" => before \subseteq Reported
    /\ reply.kind = "close_failed" => Reported \in {Published \ doubt, {}}

(***************************************************************************)
(* The writer implements the promise of module Dataset: every part appears *)
(* whole, of rows not visible before, and stays; close succeeds only when  *)
(* all the rows given are visible; after close or cancel no part becomes   *)
(* visible any more; after a failure or a kill at most one, and none       *)
(* unless the server stopped in a native close, by its failure or a kill   *)
(* during it.                                                              *)
(***************************************************************************)
Promise ==
    INSTANCE Dataset WITH
        taken <- given,
        visible <- {{files[i].rows[j].id : j \in DOMAIN files[i].rows} :
                        i \in Published},
        state <- IF status = "running" THEN "open"
                 ELSE IF reply.kind \in {"closed", "cancelled"} THEN reply.kind
                 ELSE IF Closing(files) # {} THEN "in_doubt" ELSE "stopped"
ImplementsDataset == Promise!DatasetSpec

(***************************************************************************)
(* However the server ends, every part it had opened is published or       *)
(* discarded in the end: those cancel_all does not know of are aborted by  *)
(* the native owner monitor, and a running native close ends.              *)
(***************************************************************************)
StoppedReleases ==
    status = "stopped" ~>
        \A i \in DOMAIN files : files[i].state \in {"published", "discarded"}

(***************************************************************************)
(* "Parts successfully published before a later failure ... are reported   *)
(* in the structured partial-failure details" (@meta/@pm/roadmap002/       *)
(* EPIC005-spec.md:40), for a failed write and for a failed close.         *)
(***************************************************************************)
AllPublishedReported ==
    \A i \in DOMAIN files : files[i].state = "published" =>
        \E j \in DOMAIN reply.reported : reply.reported[j].file = i
WriteFailureReportsAll ==
    reply.kind = "write_failed" => AllPublishedReported
CloseFailureReportsAll ==
    reply.kind = "close_failed" => AllPublishedReported
=============================================================================
