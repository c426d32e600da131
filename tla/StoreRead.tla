----------------------------- MODULE StoreRead -----------------------------
(***************************************************************************)
(* Parquex.Store.read/2 (lib/parquex/store.ex): the size from a head, then *)
(* range reads of at most max_range_bytes until that many bytes have come, *)
(* while writers replace and delete the object under the key.  The local   *)
(* range read is itself two looks at the path: a stat that bounds the      *)
(* length and an open that reads (native/parquex_nif/src/local.rs); the S3 *)
(* one is a single request (s3.rs).                                        *)
(*                                                                         *)
(* An object is a version with a size; its byte i is <<version, i>>.       *)
(***************************************************************************)
EXTENDS Naturals, Sequences

CONSTANTS Backends,       \* the backends a store may have
          MaxRangeBytes,  \* max_range_bytes
          Sizes,          \* sizes an object may have
          MaxVersions,    \* bound on the versions published
          Absent          \* no object, no answer

ASSUME RangeAssumption ==
    /\ Backends \subseteq {"local", "s3"}
    /\ MaxRangeBytes \in Nat \ {0}
    /\ Sizes \subseteq Nat
    /\ MaxVersions \in Nat

VARIABLES
    backend,   \* the backend of the store, "local" or "s3"
    object,    \* what the key holds: [version, size], or Absent
    versions,  \* versions published so far
    pc,        \* the read: "idle", "range", "opened", "answered"
    size,      \* the size the head answered
    bytes,     \* the chunks so far, joined; its length is the offset
    length,    \* the bytes the current range may return (local, after the stat)
    result     \* "none", "ok" or "error"

vars == <<backend, object, versions, pc, size, bytes, length, result>>
readVars == <<backend, pc, size, bytes, length, result>>

Versions == 1 .. MaxVersions
Object == [version : Versions, size : Sizes]

TypeOK ==
    /\ backend \in Backends
    /\ object \in Object \cup {Absent}
    /\ versions \in 0 .. MaxVersions
    /\ pc \in {"idle", "range", "opened", "answered"}
    /\ size \in Sizes \cup {0}
    /\ \A i \in DOMAIN bytes : bytes[i] \in Versions \X Nat
    /\ length \in 0 .. MaxRangeBytes
    /\ result \in {"none", "ok", "error"}
    /\ Len(bytes) <= size

Init ==
    /\ backend \in Backends
    /\ object = Absent /\ versions = 0
    /\ pc = "idle" /\ size = 0 /\ bytes = <<>> /\ length = 0 /\ result = "none"

Least(a, b) == IF a <= b THEN a ELSE b
Offset == Len(bytes)

(* The n bytes of the object from the offset on, or what there is of them. *)
Slice(n) ==
    LET last == Least(Offset + n, object.size)
    IN  IF last <= Offset THEN <<>>
        ELSE [i \in 1 .. last - Offset |-> <<object.version, Offset + i>>]
-----------------------------------------------------------------------------
(* A writer publishes to the key; the object is deleted. *)
Publish(n) ==
    /\ versions < MaxVersions
    /\ versions' = versions + 1
    /\ object' = [version |-> versions + 1, size |-> n]
    /\ UNCHANGED readVars

Delete ==
    /\ object # Absent
    /\ object' = Absent
    /\ UNCHANGED <<versions, readVars>>
-----------------------------------------------------------------------------
(* read/2: the head. *)
HeadObject ==
    /\ pc = "idle"
    /\ IF object = Absent
       THEN pc' = "answered" /\ result' = "error" /\ UNCHANGED size
       ELSE pc' = "range" /\ size' = object.size /\ UNCHANGED result
    /\ UNCHANGED <<backend, object, versions, bytes, length>>

Requested == Least(MaxRangeBytes, size - Offset)

(* read_chunks ends when the offset has reached the size. *)
(* MUTANT: a chunk of the largest length ends the read. *)
EnoughEarly == Offset + MaxRangeBytes >= size

Enough == Offset >= size

ReadDone ==
    /\ pc = "range" /\ Enough
    /\ pc' = "answered" /\ result' = "ok"
    /\ UNCHANGED <<backend, object, versions, size, bytes, length>>

(* LocalStore::read_range up to the length: the path is resolved and stat'ed. *)
Beyond == Offset > object.size

LocalStat ==
    /\ backend = "local"
    /\ pc = "range" /\ ~Enough
    /\ IF object = Absent \/ Beyond
       THEN pc' = "answered" /\ result' = "error" /\ UNCHANGED length
       ELSE /\ pc' = "opened"
            /\ length' = Least(Requested, object.size - Offset)
            /\ UNCHANGED result
    /\ UNCHANGED <<backend, object, versions, size, bytes>>

(* ... and from the open on: the path may name another file by now. *)
LocalRead ==
    /\ pc = "opened"
    /\ IF object = Absent
       THEN pc' = "answered" /\ result' = "error" /\ UNCHANGED bytes
       ELSE pc' = "range" /\ bytes' = bytes \o Slice(length) /\ UNCHANGED result
    /\ length' = 0
    /\ UNCHANGED <<backend, object, versions, size>>

(* RemoteObject::read_range: a range that starts at the end is refused. *)
(* MUTANT: such a range is answered with no bytes. *)
RemoteBeyondEnd == Offset > object.size

RemoteBeyond == Offset >= object.size

RemoteRead ==
    /\ backend = "s3"
    /\ pc = "range" /\ ~Enough
    /\ IF object = Absent \/ RemoteBeyond
       THEN pc' = "answered" /\ result' = "error" /\ UNCHANGED bytes
       ELSE bytes' = bytes \o Slice(Requested) /\ UNCHANGED <<pc, result>>
    /\ UNCHANGED <<backend, object, versions, size, length>>

(* Any of the calls fails: permissions, timeouts, a file removed meanwhile. *)
CallFails ==
    /\ pc \in {"range", "opened"}
    /\ pc' = "answered" /\ result' = "error" /\ length' = 0
    /\ UNCHANGED <<backend, object, versions, size, bytes>>

ReadStep == HeadObject \/ ReadDone \/ LocalStat \/ LocalRead \/ RemoteRead

Next ==
    \/ \E n \in Sizes : Publish(n)
    \/ Delete \/ ReadStep \/ CallFails

Spec == Init /\ [][Next]_vars
FairSpec == Spec /\ WF_vars(ReadStep)
-----------------------------------------------------------------------------
(***************************************************************************)
(* Whatever happens to the object, an answer has the size the head         *)
(* reported, and its byte i is byte i of some object the key held: no      *)
(* byte is skipped or repeated between chunks (read_chunks).               *)
(***************************************************************************)
BytesInPlace ==
    /\ result = "ok" => Len(bytes) = size
    /\ \A i \in DOMAIN bytes : bytes[i][2] = i

(***************************************************************************)
(* The read is consistent in every state: it has never more bytes than the *)
(* head announced, and each in its place.                                  *)
(***************************************************************************)
ReadConsistent == TypeOK /\ BytesInPlace

(***************************************************************************)
(* "`read/2` materializes the complete object" (docs/stores.md:69): the    *)
(* bytes of an answer are those of one published object.                   *)
(***************************************************************************)
ReadIsOneObject ==
    result = "ok" => \A i, j \in DOMAIN bytes : bytes[i][1] = bytes[j][1]

(***************************************************************************)
(* "No panic, indefinite wait ... remains on tested public paths"          *)
(* (@meta/@pm/roadmap001/EPIC007-spec.md:63): a read that has begun is     *)
(* answered, also when the object is replaced under it.                    *)
(***************************************************************************)
ReadEnds == pc = "range" ~> pc = "answered"

(***************************************************************************)
(* When a read does not end: only over the local store, and only while the *)
(* key holds an object that ends exactly where the next range begins, so   *)
(* that read_range answers no bytes and read_chunks asks again.            *)
(***************************************************************************)
Stalled ==
    /\ backend = "local"
    /\ object # Absent
    /\ object.size = Offset /\ Offset < size

ReadEndsUnlessStalled == pc = "range" ~> (pc = "answered" \/ Stalled)
=============================================================================
