----------------------------- MODULE CallProofs -----------------------------
(***************************************************************************)
(* Proofs about the calls that keep no state between them: Store.read/2,   *)
(* Store.list/2 and TimePartition.plan/4, for every size of range and      *)
(* object, every set of keys, links and prefixes, any number of changes by *)
(* writers, and every range of instants.                                   *)
(*                                                                         *)
(* ReadConsistent is not inductive: between the stat and the open of a     *)
(* local range read the length is fixed while the object may be replaced,  *)
(* so ReadInv also bounds what the pending range may add.  ListErrorCaused *)
(* speaks of answers only; WalkInv says what the walk knows at each of its *)
(* steps: the entry that readdir returned is what it was or has vanished   *)
(* since, and lies where the prefix sent the walk, and what has been there *)
(* throughout is there, so a link's target that is missing has not been.   *)
(* ListExact needs ExactInv: a file that has been there throughout is      *)
(* listed, or some directory on the stack still has to return the entry    *)
(* that leads to it, and nothing that is listed, and has not vanished      *)
(* since, lies at or below an entry that readdir may still return.         *)
(*                                                                         *)
(* A plan rests on the calendar.  The months of all years follow each      *)
(* other (MonthLies, MonthsApart), so every day has one month, and of any  *)
(* granularity every second has one partition, which starts where the one  *)
(* before it ends (UnitHolds, UnitOwns, UnitFollows).  PlanInv says what   *)
(* the loop has taken so far and that it stays inside the calendar.        *)
(***************************************************************************)
EXTENDS Store, TimePartition, SelectionProofs, FiniteSetTheorems, TLAPS

Byte == Versions \X Nat

ReadInv ==
    /\ TypeOK
    /\ bytes \in Seq(Byte)
    /\ \A i \in 1 .. Len(bytes) : bytes[i][2] = i
    /\ pc = "idle" => bytes = <<>>
    /\ pc = "opened" => Len(bytes) + length <= size
    /\ result = "ok" => pc = "answered" /\ Len(bytes) = size

Paths == Seq(STRING)
Frame == [dir : Paths, returned : SUBSET Paths]

ListTypeOK ==
    /\ files \subseteq Paths /\ links \subseteq Links
    /\ dirs \subseteq Paths /\ Root \in dirs
    /\ prefix \in Paths /\ entry \in Paths
    /\ stack \in Seq(Frame)

WalkInv ==
    /\ answer # "none" => listPc = "answered"
    /\ listPc \in {"idle", "lookup"} => stack = <<>>
    /\ listPc \in {"walk", "stat"} => stack # <<>>
    /\ lasting \subseteq files \cup dirs \cup links
    /\ \A i \in 1 .. Len(stack) :
          stack[i].dir = Parent(prefix) \/ AtPrefix(stack[i].dir)
    /\ listPc = "head" => prefix \in files \cup gone
    /\ listPc = "stat" =>
          /\ AtPrefix(entry)
          /\ \/ fileType = "dir" /\ entry \in dirs
             \/ fileType = "link" /\ entry \in links
             \/ fileType = "file" /\ entry \in files \cup gone

ListInv == ListTypeOK /\ WalkInv /\ ListErrorCaused

\* The paths at which writers make files.
Known == Keys \cup {Staging(k) : k \in Keys}

\* Everything lies in directories, what has been there throughout in such that
\* have been there throughout, and nothing is of two kinds.  What has
\* vanished has not been there throughout, even if it has come back.
TreeInv ==
    /\ files \subseteq Known
    /\ dirs \cap (files \cup links) = {} /\ files \cap links = {}
    /\ \A p \in files \cup links \cup dirs : Above(p) \subseteq dirs
    /\ \A k \in files \cap lasting : Above(k) \subseteq lasting
    /\ gone \cap lasting = {}
    /\ listPc = "idle" => gone = {}

\* The entry of d through which a walk comes to p.
Toward(d, p) == SubSeq(p, 1, Len(d) + 1)
Leads(p, q) == p = q \/ p \in Above(q)

\* Nothing is listed twice unless it has vanished.
Once == \A i, j \in DOMAIN entries : entries[i] = entries[j] => i = j \/ entries[i] \in gone

\* What has been listed is right.  A prefix that is looked up has a last name.
EntriesInv ==
    /\ entries \in Seq(Known)
    /\ listPc \in {"idle", "lookup", "head"} => entries = <<>>
    /\ listPc = "lookup" /\ prefix # Root => Last(prefix) # NoFilter
    /\ Listing => Once /\ \A i \in DOMAIN entries :
          entries[i] \in files \cup gone /\ BeginsWith(entries[i], prefix)

\* The stack is a path from the listed directory down.  Every entry on the way
\* to an open directory, or to a listed file that has not vanished, has been
\* returned; the entry at hand leads to no such file.
StackInv ==
    listPc \in {"walk", "stat"} =>
        /\ \/ stack[Len(stack)].dir = prefix /\ filter = NoFilter
           \/ /\ prefix # Root /\ stack[Len(stack)].dir = Parent(prefix)
              /\ filter = Last(prefix) /\ filter # NoFilter
        /\ \A i, j \in 1 .. Len(stack) : i < j =>
              /\ stack[j].dir \in Above(stack[i].dir)
              /\ Toward(stack[j].dir, stack[i].dir) \in stack[j].returned
        /\ \A i \in 1 .. Len(stack) : stack[i].dir \in dirs
        /\ \A e \in Range(entries) \ gone : \A i \in 1 .. Len(stack) :
              stack[i].dir \in Above(e) => Toward(stack[i].dir, e) \in stack[i].returned
        /\ listPc = "stat" =>
              /\ entry # Root /\ Parent(entry) = stack[1].dir
              /\ (fileType = "dir" \/ entry \notin gone) => entry \in stack[1].returned
              /\ \A e \in Range(entries) \ gone : ~Leads(entry, e)

\* What has to be listed, and how the walk still comes to it.
Due == {k \in Keys \cap files \cap lasting : Covered(k)}
Awaited(k) ==
    \/ \E i \in 1 .. Len(stack) :
          stack[i].dir \in Above(k) /\ Toward(stack[i].dir, k) \notin stack[i].returned
    \/ listPc = "stat" /\ Leads(entry, k)

DueInv ==
    /\ listPc \in {"walk", "stat"} => \A k \in Due : k \in Range(entries) \/ Awaited(k)
    /\ listPc = "page" =>
          /\ listBackend # "local"
          /\ \A i, j \in DOMAIN entries :
                i < j => Position(entries[i]) < Position(entries[j])
          /\ \A k \in Due : k \in Range(entries) \/ AfterLast(k)
    /\ listPc = "sort" => Due \subseteq Range(entries)

ExactInv == TreeInv /\ EntriesInv /\ StackInv /\ DueInv /\ ListExact
-----------------------------------------------------------------------------
\* A slice has at most the length asked for, lies within the object and
\* numbers its bytes from the offset on.
LEMMA SliceBytes ==
    ASSUME ReadInv, object # Absent, NEW n \in Nat
    PROVE  /\ Slice(n) \in Seq(Byte)
           /\ Len(Slice(n)) <= n
           /\ \A i \in 1 .. Len(Slice(n)) : Slice(n)[i][2] = Len(bytes) + i
<1> DEFINE last == Least(Len(bytes) + n, object.size)
<1>0. Len(bytes) \in Nat /\ object.size \in Nat /\ object.version \in Versions
  <2>1. object \in Object
    BY DEF ReadInv, TypeOK
  <2>2. object.size \in Sizes /\ object.version \in Versions
    BY <2>1 DEF Object
  <2> QED
    BY <2>2, RangeAssumption, LenProperties DEF ReadInv
<1>1. last \in Nat /\ last <= Len(bytes) + n
  BY <1>0 DEF Least
<1>2. CASE last <= Len(bytes)
  <2>1. Slice(n) = <<>>
    BY <1>2 DEF Slice, Offset
  <2> QED
    BY <2>1
<1>3. CASE last > Len(bytes)
  <2> DEFINE f == [i \in 1 .. last - Len(bytes) |->
                     <<object.version, Len(bytes) + i>>]
  <2>1. Slice(n) = f
    BY <1>0, <1>1, <1>3 DEF Slice, Offset
  <2>2. last - Len(bytes) \in Nat /\ last - Len(bytes) <= n
    BY <1>0, <1>1, <1>3
  <2>3. \A i \in 1 .. last - Len(bytes) :
           <<object.version, Len(bytes) + i>> \in Byte
    BY <1>0, <1>1, <2>2 DEF Byte
  <2>4. f \in Seq(Byte) /\ Len(f) = last - Len(bytes)
    BY <2>2, <2>3
  <2>5. \A i \in 1 .. Len(f) : f[i][2] = Len(bytes) + i
    BY <2>4
  <2> QED
    BY <2>1, <2>2, <2>4, <2>5
<1> QED
  BY <1>0, <1>1, <1>2, <1>3

\* Joining a slice to the bytes read so far keeps every byte in its place.
LEMMA JoinSlice ==
    ASSUME ReadInv, object # Absent, NEW n \in Nat, Len(bytes) + n <= size
    PROVE  /\ bytes \o Slice(n) \in Seq(Byte)
           /\ Len(bytes \o Slice(n)) <= size
           /\ \A i \in 1 .. Len(bytes \o Slice(n)) : (bytes \o Slice(n))[i][2] = i
<1> DEFINE b == bytes \o Slice(n)
<1>1. /\ bytes \in Seq(Byte) /\ size \in Nat
      /\ \A i \in 1 .. Len(bytes) : bytes[i][2] = i
  BY RangeAssumption DEF ReadInv, TypeOK
<1>2. /\ Slice(n) \in Seq(Byte) /\ Len(Slice(n)) <= n
      /\ \A i \in 1 .. Len(Slice(n)) : Slice(n)[i][2] = Len(bytes) + i
  BY SliceBytes
<1>3. Len(bytes) \in Nat /\ Len(Slice(n)) \in Nat
  BY <1>1, <1>2, LenProperties
<1>4. /\ b \in Seq(Byte) /\ Len(b) = Len(bytes) + Len(Slice(n))
      /\ \A i \in 1 .. Len(bytes) + Len(Slice(n)) :
            b[i] = IF i <= Len(bytes) THEN bytes[i] ELSE Slice(n)[i - Len(bytes)]
  BY <1>1, <1>2, ConcatProperties
<1>5. ASSUME NEW i \in 1 .. Len(b) PROVE b[i][2] = i
  <2>1. CASE i <= Len(bytes)
    BY <1>1, <1>3, <1>4, <2>1
  <2>2. CASE i > Len(bytes)
    <3>1. i - Len(bytes) \in 1 .. Len(Slice(n))
      BY <1>3, <1>4, <2>2
    <3>2. Slice(n)[i - Len(bytes)][2] = Len(bytes) + (i - Len(bytes))
      BY <1>2, <3>1
    <3>3. b[i] = Slice(n)[i - Len(bytes)]
      BY <1>3, <1>4, <2>2
    <3> QED
      BY <1>3, <3>2, <3>3
  <2> QED
    BY <1>3, <1>4, <2>1, <2>2
<1> QED
  BY <1>1, <1>2, <1>3, <1>4, <1>5

\* The type of the bytes, as the sequence that ReadInv says they are.
LEMMA BytesTyped ==
    ASSUME NEW b \in Seq(Byte)
    PROVE  \A i \in DOMAIN b : b[i] \in Versions \X Nat
<1>1. DOMAIN b = 1 .. Len(b)
  BY LenProperties
<1> QED
  BY <1>1, ElementOfSeq DEF Byte

\* A read that has not begun satisfies the invariant.
LEMMA InitRead == Init => ReadInv
<1> SUFFICES ASSUME Init PROVE ReadInv
  OBVIOUS
<1>1. bytes \in Seq(Byte) /\ Len(bytes) = 0 /\ DOMAIN bytes = {}
  BY EmptySeq DEF Init
<1> QED
  BY <1>1, RangeAssumption DEF Init, ReadInv, TypeOK

\* Every step of a read, and every change of its object, preserves it.
LEMMA ReadStepInv ==
    ASSUME ReadInv, [Next]_vars
    PROVE  ReadInv'
<1>0. /\ Len(bytes) \in Nat /\ size \in Nat /\ length \in Nat
      /\ MaxRangeBytes \in Nat \ {0}
  BY RangeAssumption, LenProperties DEF ReadInv, TypeOK
<1>1. ASSUME NEW n \in Sizes, Publish(n)
      PROVE  ReadInv'
  BY <1>0, <1>1, RangeAssumption
  DEF Publish, ReadInv, TypeOK, Object, Versions, readVars
<1>2. CASE Delete
  BY <1>2 DEF Delete, ReadInv, TypeOK, readVars
<1>3. CASE HeadObject
  <2>1. bytes = <<>> /\ Len(bytes) = 0
    BY <1>3 DEF HeadObject, ReadInv
  <2>2. CASE object = Absent
    BY <1>3, <2>1, <2>2 DEF HeadObject, ReadInv, TypeOK
  <2>3. CASE object # Absent
    <3>1. object \in Object
      BY <2>3 DEF ReadInv, TypeOK
    <3>2. size' \in Sizes /\ size' \in Nat
      BY <1>3, <2>3, <3>1, RangeAssumption DEF HeadObject, Object
    <3> QED
      BY <1>3, <2>1, <2>3, <3>2 DEF HeadObject, ReadInv, TypeOK
  <2> QED
    BY <2>2, <2>3
<1>4. CASE ReadDone
  BY <1>0, <1>4 DEF ReadDone, Enough, Offset, ReadInv, TypeOK
<1>5. CASE LocalStat
  <2>1. CASE object = Absent \/ Beyond
    BY <1>5, <2>1 DEF LocalStat, ReadInv, TypeOK
  <2>2. CASE ~(object = Absent \/ Beyond)
    <3>1. object.size \in Nat
      BY <2>2, RangeAssumption DEF ReadInv, TypeOK, Object
    <3>2. /\ length' \in 0 .. MaxRangeBytes
          /\ Len(bytes) + length' <= size
      BY <1>0, <1>5, <2>2, <3>1
      DEF LocalStat, Beyond, Least, Requested, Enough, Offset
    <3> QED
      BY <1>5, <2>2, <3>2 DEF LocalStat, ReadInv, TypeOK
  <2> QED
    BY <2>1, <2>2
<1>6. CASE LocalRead
  <2>1. CASE object = Absent
    BY <1>0, <1>6, <2>1 DEF LocalRead, ReadInv, TypeOK
  <2>2. CASE object # Absent
    <3> DEFINE b == bytes \o Slice(length)
    <3>1. Len(bytes) + length <= size
      BY <1>6 DEF LocalRead, ReadInv
    <3>2. /\ b \in Seq(Byte) /\ Len(b) <= size
          /\ \A i \in 1 .. Len(b) : b[i][2] = i
      BY <1>0, <2>2, <3>1, JoinSlice
    <3>3. \A i \in DOMAIN b : b[i] \in Versions \X Nat
      BY <3>2, BytesTyped
    <3>4. bytes' = b /\ pc' = "range" /\ result # "ok"
      BY <1>6, <2>2 DEF LocalRead, ReadInv
    <3> QED
      BY <1>0, <1>6, <2>2, <3>2, <3>3, <3>4 DEF LocalRead, ReadInv, TypeOK
  <2> QED
    BY <2>1, <2>2
<1>7. CASE RemoteRead
  <2>1. CASE object = Absent \/ RemoteBeyond
    BY <1>7, <2>1 DEF RemoteRead, ReadInv, TypeOK
  <2>2. CASE ~(object = Absent \/ RemoteBeyond)
    <3> DEFINE b == bytes \o Slice(Requested)
    <3>1. Requested \in Nat /\ Len(bytes) + Requested <= size
      BY <1>0, <1>7 DEF RemoteRead, Requested, Least, Enough, Offset
    <3>2. /\ b \in Seq(Byte) /\ Len(b) <= size
          /\ \A i \in 1 .. Len(b) : b[i][2] = i
      BY <2>2, <3>1, JoinSlice
    <3>3. \A i \in DOMAIN b : b[i] \in Versions \X Nat
      BY <3>2, BytesTyped
    <3>4. bytes' = b /\ pc = "range" /\ result # "ok"
      BY <1>7, <2>2 DEF RemoteRead, ReadInv
    <3> QED
      BY <1>7, <2>2, <3>2, <3>3, <3>4 DEF RemoteRead, ReadInv, TypeOK
  <2> QED
    BY <2>1, <2>2
<1>8. CASE CallFails
  BY <1>0, <1>8 DEF CallFails, ReadInv, TypeOK
<1>9. CASE UNCHANGED vars
  BY <1>9 DEF vars, ReadInv, TypeOK
<1> QED
  BY <1>1, <1>2, <1>3, <1>4, <1>5, <1>6, <1>7, <1>8, <1>9 DEF Next, ReadStep

\* What the invariant says of the bytes of a read.
LEMMA ReadInvConsistent == ReadInv => ReadConsistent
<1> SUFFICES ASSUME ReadInv PROVE ReadConsistent
  OBVIOUS
<1>1. DOMAIN bytes = 1 .. Len(bytes)
  BY LenProperties DEF ReadInv
<1> QED
  BY <1>1 DEF ReadInv, ReadConsistent, BytesInPlace

\* Whatever writers do to the object between the calls of a read, Store.read/2
\* and the range reads of the reader have every byte in its place, never more
\* than the size they were told, and all of them when they answer ok.
THEOREM ReadsAreConsistent == StoreSpec => []ReadConsistent
<1>1. StoreInit => ReadInv
  BY InitRead DEF StoreInit
<1>2. ReadInv /\ [StoreNext]_storeVars => ReadInv'
  <2> SUFFICES ASSUME ReadInv, [StoreNext]_storeVars PROVE ReadInv'
    OBVIOUS
  <2>1. [Next]_vars
    BY DEF StoreNext, storeVars
  <2> QED
    BY <2>1, ReadStepInv
<1> QED
  BY <1>1, <1>2, ReadInvConsistent, PTL DEF StoreSpec
-----------------------------------------------------------------------------
\* The directories above a path are paths.
LEMMA AbovePaths ==
    ASSUME NEW p \in Paths
    PROVE  Above(p) \subseteq Paths
<1> SUFFICES ASSUME NEW n \in 0 .. Len(p) - 1
             PROVE  SubSeq(p, 1, n) \in Seq(STRING)
  BY DEF Above, Paths
<1>1. /\ Len(p) \in Nat /\ n \in Int
      /\ \A i \in 1 .. n : p[i] \in STRING
  BY LenProperties, ElementOfSeq DEF Paths
<1> QED
  BY <1>1, SubSeqProperties

\* The first names of a path are a path.
LEMMA CutPath ==
    ASSUME NEW p \in Paths, NEW n \in 0 .. Len(p)
    PROVE  /\ SubSeq(p, 1, n) \in Paths
           /\ Len(SubSeq(p, 1, n)) = n
           /\ \A i \in 1 .. n : SubSeq(p, 1, n)[i] = p[i]
<1>1. /\ Len(p) \in Nat /\ n \in Nat /\ 1 \in Int
      /\ \A i \in 1 .. n : p[i] \in STRING
  BY LenProperties, ElementOfSeq DEF Paths
<1>2. /\ SubSeq(p, 1, n) \in Seq(STRING)
      /\ Len(SubSeq(p, 1, n)) = IF 1 <= n THEN n - 1 + 1 ELSE 0
      /\ \A i \in 1 .. n - 1 + 1 : SubSeq(p, 1, n)[i] = p[1 + i - 1]
  BY <1>1, SubSeqProperties
<1> QED
  BY <1>1, <1>2 DEF Paths

\* Paths with the same names are the same.
LEMMA SamePath ==
    ASSUME NEW p \in Paths, NEW q \in Paths, Len(p) = Len(q),
           \A i \in 1 .. Len(p) : p[i] = q[i]
    PROVE  p = q
BY SeqEqual DEF Paths

\* A directory is above a path when the path begins with its names.
LEMMA AboveIs ==
    ASSUME NEW p \in Paths, NEW d
    PROVE  d \in Above(p) <=>
              d \in Paths /\ Len(d) < Len(p) /\ \A i \in 1 .. Len(d) : d[i] = p[i]
<1>0. Len(p) \in Nat
  BY LenProperties DEF Paths
<1>1. ASSUME d \in Above(p)
      PROVE  d \in Paths /\ Len(d) < Len(p) /\ \A i \in 1 .. Len(d) : d[i] = p[i]
  <2>1. PICK n \in 0 .. Len(p) - 1 : d = SubSeq(p, 1, n)
    BY <1>1 DEF Above
  <2>2. n \in 0 .. Len(p)
    BY <1>0
  <2> QED
    BY <1>0, <2>1, <2>2, CutPath
<1>2. ASSUME d \in Paths, Len(d) < Len(p), \A i \in 1 .. Len(d) : d[i] = p[i]
      PROVE  d \in Above(p)
  <2>1. Len(d) \in 0 .. Len(p) - 1 /\ Len(d) \in 0 .. Len(p)
    BY <1>0, <1>2, LenProperties DEF Paths
  <2>2. /\ SubSeq(p, 1, Len(d)) \in Paths /\ Len(SubSeq(p, 1, Len(d))) = Len(d)
        /\ \A i \in 1 .. Len(d) : SubSeq(p, 1, Len(d))[i] = p[i]
    BY <2>1, CutPath
  <2>3. d = SubSeq(p, 1, Len(d))
    BY <1>2, <2>2, SamePath
  <2> QED
    BY <2>1, <2>3 DEF Above
<1> QED
  BY <1>1, <1>2

\* A directory lies above its entries, with all that lies above it.
LEMMA AboveChild ==
    ASSUME NEW p \in Paths, p # Root
    PROVE  /\ Parent(p) \in Paths
           /\ Parent(p) \in Above(p)
           /\ Above(Parent(p)) \subseteq Above(p)
<1>1. Len(p) \in Nat \ {0}
  BY EmptySeq DEF Paths, Root
<1>2. Parent(p) = SubSeq(p, 1, Len(p) - 1)
  BY DEF Parent, Front
<1>3. Parent(p) \in Above(p)
  BY <1>1, <1>2 DEF Above
<1>4. Parent(p) \in Paths
  BY <1>3, AbovePaths
<1>5. Len(Parent(p)) = Len(p) - 1
  <2> DEFINE m == Len(p) - 1
  <2>1. m \in Nat /\ \A i \in 1 .. m : p[i] \in STRING
    BY <1>1, ElementOfSeq DEF Paths
  <2>2. Parent(p) = SubSeq(p, 1, m)
    BY <1>2
  <2> HIDE DEF m
  <2>3. Len(SubSeq(p, 1, m)) = IF 1 <= m THEN m - 1 + 1 ELSE 0
    BY <2>1, SubSeqProperties
  <2>4. Len(Parent(p)) = m
    BY <2>1, <2>2, <2>3
  <2> QED
    BY <2>4 DEF m
<1>6. ASSUME NEW n \in 0 .. Len(Parent(p)) - 1
      PROVE  SubSeq(Parent(p), 1, n) \in Above(p)
  <2>1. CASE n = 0
    <3>1. SubSeq(Parent(p), 1, 0) = <<>> /\ SubSeq(p, 1, 0) = <<>>
      BY SubSeqEmpty
    <3> QED
      BY <1>1, <2>1, <3>1 DEF Above
  <2>2. CASE n # 0
    <3> DEFINE m == Len(p) - 1
    <3>1. m \in 1 .. Len(p) /\ 1 \in 1 .. Len(p) /\ n \in 1 .. m /\ 1 \in 1 .. m
      BY <1>1, <1>5, <2>2
    <3>2. SubSeq(SubSeq(p, 1, m), 1, n) = SubSeq(p, 1 + 1 - 1, 1 + n - 1)
      <4>1. m - 1 + 1 = m
        BY <3>1
      <4> HIDE DEF m
      <4> QED
        BY <3>1, <4>1, SubSeqOfSubSeq DEF Paths
    <3>3. SubSeq(Parent(p), 1, n) = SubSeq(p, 1, n)
      BY <1>2, <3>1, <3>2
    <3> QED
      BY <1>1, <1>5, <3>3 DEF Above
  <2> QED
    BY <2>1, <2>2
<1> QED
  BY <1>3, <1>4, <1>6 DEF Above

\* A writer's staging file lies beside its object.
LEMMA StagingPath ==
    ASSUME NEW k \in Keys
    PROVE  k \in Paths /\ Staging(k) \in Paths
<1>1. k \in Paths /\ k # Root /\ StageName[k[Len(k)]] \in STRING
  BY ListAssumption DEF Paths, Root
<1>2. Parent(k) \in Seq(STRING)
  BY <1>1, AboveChild DEF Paths
<1> QED
  BY <1>1, <1>2, AppendProperties DEF Staging, Paths, Last

\* Opening a directory puts a frame on the stack and leaves the others.
LEMMA OpenFrame ==
    ASSUME ListTypeOK, NEW d \in Paths
    PROVE  /\ Open(d) \in Seq(Frame) /\ Open(d) # <<>>
           /\ \A i \in 1 .. Len(Open(d)) :
                 \/ Open(d)[i].dir = d
                 \/ \E j \in 1 .. Len(stack) : Open(d)[i] = stack[j]
<1> DEFINE f == [dir |-> d, returned |-> {}]
           one == <<f>>
<1>1. f \in Frame /\ f.dir = d
  BY DEF Frame
<1>2. one \in Seq(Frame) /\ Len(one) = 1 /\ one[1] = f
  BY <1>1
<1>3. stack \in Seq(Frame) /\ Len(stack) \in Nat
  BY LenProperties DEF ListTypeOK
<1>4. Open(d) = one \o stack
  BY DEF Open
<1> HIDE DEF one
<1>5. /\ one \o stack \in Seq(Frame)
      /\ Len(one \o stack) = Len(one) + Len(stack)
      /\ \A i \in 1 .. Len(one) + Len(stack) :
            (one \o stack)[i] =
               IF i <= Len(one) THEN one[i] ELSE stack[i - Len(one)]
  BY <1>2, <1>3, ConcatProperties
<1>6. Open(d) # <<>>
  BY <1>2, <1>3, <1>4, <1>5, EmptySeq
<1>7. ASSUME NEW i \in 1 .. Len(Open(d))
      PROVE  \/ Open(d)[i].dir = d
             \/ \E j \in 1 .. Len(stack) : Open(d)[i] = stack[j]
  <2>1. CASE i = 1
    BY <1>1, <1>2, <1>3, <1>4, <1>5, <2>1
  <2>2. CASE i # 1
    <3>1. i - 1 \in 1 .. Len(stack) /\ Open(d)[i] = stack[i - 1]
      BY <1>2, <1>3, <1>4, <1>5, <2>2
    <3> QED
      BY <3>1
  <2> QED
    BY <2>1, <2>2
<1> QED
  BY <1>4, <1>5, <1>6, <1>7

\* A list that has not begun satisfies the invariant.
LEMMA InitList == ListInit => ListInv
<1> SUFFICES ASSUME ListInit PROVE ListInv
  OBVIOUS
<1>1. Root \in Paths /\ stack \in Seq(Frame) /\ Len(stack) = 0
  BY EmptySeq DEF ListInit, Root, Paths
<1>2. links \subseteq Links
  BY DEF ListInit
<1>3. files \subseteq Paths /\ links \subseteq Paths
  <2>1. files \subseteq Keys \cup {Staging(k) : k \in Keys}
    BY DEF ListInit
  <2>2. files \subseteq Paths
    BY <2>1, StagingPath
  <2> QED
    BY <1>2, <2>2, ListAssumption DEF Paths
<1>4. dirs \subseteq Paths
  BY <1>1, <1>3, AbovePaths DEF ListInit
<1>5. ListTypeOK
  BY <1>1, <1>2, <1>3, <1>4 DEF ListInit, ListTypeOK
<1> QED
  BY <1>1, <1>5 DEF ListInit, ListInv, WalkInv, ListErrorCaused

\* A list that goes on has no error.
LEMMA NoErrorYet == answer = "none" => ListErrorCaused
BY DEF ListErrorCaused

\* Writers may add and remove files and add directories: what a walk has seen
\* is still there or counted among the vanished.
LEMMA ChangedStack ==
    ASSUME ListTypeOK, NEW newFiles, NEW newDirs, Change(newFiles, newDirs)
    PROVE  /\ stack' \in Seq(Frame) /\ Len(stack') = Len(stack)
           /\ \A i \in 1 .. Len(stack) :
                 /\ stack'[i].dir = stack[i].dir
                 /\ stack'[i].returned =
                       stack[i].returned \cap (newFiles \cup newDirs \cup links)
<1> DEFINE there == newFiles \cup newDirs \cup links
           f(i) == [stack[i] EXCEPT !.returned = @ \cap there]
           N == Len(stack)
<1>1. N \in Nat /\ DOMAIN stack = 1 .. N /\ \A i \in 1 .. N : stack[i] \in Frame
  BY LenProperties, ElementOfSeq DEF ListTypeOK
<1>2. stack' = [i \in 1 .. N |-> f(i)]
  BY <1>1 DEF Change
<1>3. \A i \in 1 .. N : /\ f(i) \in Frame /\ f(i).dir = stack[i].dir
                        /\ f(i).returned = stack[i].returned \cap there
  BY <1>1 DEF Frame
<1> HIDE DEF f, N, there
<1>4. stack' \in Seq(Frame) /\ Len(stack') = N
  BY <1>1, <1>2, <1>3
<1>5. \A i \in 1 .. N : stack'[i] = f(i)
  BY <1>2
<1> QED
  BY <1>3, <1>4, <1>5 DEF N, there

LEMMA ChangeInv ==
    ASSUME ListInv, NEW newFiles \in SUBSET Paths, NEW newDirs \in SUBSET Paths,
           dirs \subseteq newDirs, Change(newFiles, newDirs)
    PROVE  ListInv'
<1>1. /\ ListTypeOK /\ WalkInv /\ Listing
      /\ UNCHANGED <<links, listPc, prefix, entry, fileType, answer>>
      /\ files' = newFiles /\ dirs' = newDirs
      /\ lasting' = lasting \cap (newFiles \cup newDirs \cup links)
      /\ gone' = gone \cup (files \ newFiles)
  BY DEF ListInv, Change
<1>2. /\ stack' \in Seq(Frame) /\ Len(stack') = Len(stack)
      /\ \A i \in 1 .. Len(stack) : stack'[i].dir = stack[i].dir
  BY <1>1, ChangedStack
<1>3. ListTypeOK'
  BY <1>1, <1>2 DEF ListTypeOK
<1>4. answer' = "none"
  BY <1>1 DEF WalkInv, Listing
<1>5. stack # <<>> => stack' # <<>>
  BY <1>1, <1>2, EmptySeq DEF ListTypeOK
<1>6. stack = <<>> => stack' = <<>>
  BY <1>1, <1>2, EmptySeq DEF ListTypeOK
<1>7. \A i \in 1 .. Len(stack') :
         stack'[i].dir = Parent(prefix') \/ AtPrefix(stack[i].dir)'
  BY <1>1, <1>2 DEF WalkInv, AtPrefix
<1>8. listPc' = "stat" => AtPrefix(entry)'
  BY <1>1 DEF WalkInv, AtPrefix
<1>9. WalkInv'
  BY <1>1, <1>4, <1>5, <1>6, <1>7, <1>8 DEF WalkInv
<1> QED
  BY <1>3, <1>4, <1>9, NoErrorYet DEF ListInv, ListErrorCaused

\* A list that ends satisfies the invariant if its error has a cause.
LEMMA AnswerInv ==
    ASSUME ListInv, NEW a, NEW list, Answer(a, list), UNCHANGED <<dirVars, lasting>>,
           prefix' \in Paths, ListErrorCaused'
    PROVE  ListInv'
<1>1. Root \in Paths /\ <<>> \in Seq(Frame) /\ Len(<<>>) = 0
  BY EmptySeq DEF Root, Paths
<1>2. ListTypeOK'
  BY <1>1 DEF ListInv, ListTypeOK, Answer, dirVars
<1>3. WalkInv'
  BY <1>1 DEF ListInv, WalkInv, Answer, dirVars
<1> QED
  BY <1>2, <1>3 DEF ListInv

\* An answer needs no cause.
LEMMA OkInv ==
    ASSUME ListInv, NEW list, Answer("ok", list), UNCHANGED <<dirVars, lasting>>,
           prefix' \in Paths
    PROVE  ListInv'
<1>1. ListErrorCaused'
  BY DEF ListErrorCaused, Answer
<1> QED
  BY <1>1, AnswerInv

\* A file that is not there any more was at the prefix.
LEMMA NoFileInv ==
    ASSUME ListInv, NEW p \in gone, AtPrefix(p), NoFile(p),
           UNCHANGED <<dirVars, prefix, lasting>>
    PROVE  ListInv'
<1>1. prefix \in Paths
  BY DEF ListInv, ListTypeOK
<1>2. p \in {g \in gone : AtPrefix(g)}'
  BY DEF AtPrefix, dirVars
<1>3. CASE p \in dirs
  <2>1. answer' = "invalid_argument" /\ p \in dirs'
    BY <1>3 DEF NoFile, Fail, Answer, dirVars
  <2>2. ListErrorCaused'
    BY <1>2, <2>1 DEF ListErrorCaused
  <2> QED
    BY <1>1, <1>3, <2>2, AnswerInv DEF NoFile, Fail
<1>4. CASE p \notin dirs
  <2>1. answer' = "not_found"
    BY <1>4 DEF NoFile, Fail, Answer
  <2>2. ListErrorCaused'
    BY <1>2, <2>1 DEF ListErrorCaused
  <2> QED
    BY <1>1, <1>4, <2>2, AnswerInv DEF NoFile, Fail
<1> QED
  BY <1>3, <1>4

\* The prefix lies at the prefix.
LEMMA PrefixAt == prefix \in Paths => AtPrefix(prefix)
BY AboveChild DEF AtPrefix

\* A walk that starts at the prefix's directory lies at the prefix.
LEMMA WalkStartInv ==
    ASSUME ListInv, listPc = "lookup", NEW d \in dirs, NEW f, Walk(d, f),
           UNCHANGED <<dirVars, lasting>>, prefix' \in Paths,
           d = prefix' \/ d = Parent(prefix')
    PROVE  ListInv'
<1>1. /\ ListTypeOK /\ WalkInv /\ dirs \subseteq Paths /\ stack = <<>> /\ answer = "none"
  BY DEF ListInv, ListTypeOK, WalkInv
<1>2. d \in Paths /\ Len(stack) = 0
  BY <1>1, EmptySeq
<1>3. /\ Open(d) \in Seq(Frame) /\ Open(d) # <<>>
      /\ \A i \in 1 .. Len(Open(d)) : Open(d)[i].dir = d
  BY <1>1, <1>2, OpenFrame
<1>4. d = Parent(prefix') \/ AtPrefix(d)'
  BY <1>2, AboveChild DEF AtPrefix
<1>5. \A i \in 1 .. Len(stack') :
         stack'[i].dir = Parent(prefix') \/ AtPrefix(stack[i].dir)'
  BY <1>3, <1>4 DEF Walk, AtPrefix
<1>6. WalkInv'
  BY <1>1, <1>3, <1>5 DEF Walk, WalkInv, dirVars
<1>7. ListTypeOK'
  BY <1>1, <1>3 DEF Walk, ListTypeOK, dirVars
<1>8. ListErrorCaused'
  BY <1>1 DEF Walk, ListErrorCaused
<1> QED
  BY <1>6, <1>7, <1>8 DEF ListInv

\* A list begins with nothing on its stack.
LEMMA BeginListInv ==
    ASSUME ListInv, NEW p \in AskedPrefixes, BeginList(p)
    PROVE  ListInv'
<1>1. /\ p \in Paths /\ prefix' = p /\ UNCHANGED <<dirVars, stack, entry, answer>>
      /\ answer = "none" /\ stack = <<>> /\ listPc' \in {"lookup", "page"}
      /\ lasting' = files \cup dirs \cup links
  BY ListAssumption DEF BeginList, Proceed, ListInv, WalkInv, Paths
<1>2. Len(stack) = 0
  BY <1>1, EmptySeq
<1> QED
  BY <1>1, <1>2 DEF ListInv, ListTypeOK, WalkInv, ListErrorCaused, dirVars

\* A link on the way to the prefix is followed.
LEMMA FollowedPath ==
    ASSUME NEW p \in Paths, NEW l \in Above(p), NEW t \in Paths
    PROVE  LET q == t \o SubSeq(p, Len(l) + 1, Len(p))
           IN  q \in Paths /\ q # Root /\ Last(q) = Last(p)
<1> DEFINE s == SubSeq(p, Len(l) + 1, Len(p))
           q == t \o s
           m == Len(l) + 1
           n == Len(p)
<1>1. /\ l \in Paths /\ Len(l) \in Nat /\ n \in Nat /\ Len(l) < n
  BY AboveIs, LenProperties DEF Paths
<1>2. /\ m \in Nat \ {0} /\ m <= n /\ \A i \in m .. n : p[i] \in STRING
  <2>1. m \in Nat \ {0} /\ m <= n
    BY <1>1
  <2>2. \A i \in m .. n : i \in 1 .. Len(p)
    BY <1>1, <2>1
  <2> QED
    BY <2>1, <2>2, ElementOfSeq DEF Paths
<1> HIDE DEF m, n
<1>3. s = SubSeq(p, m, n)
  BY DEF m, n
<1>4. /\ SubSeq(p, m, n) \in Seq(STRING)
      /\ Len(SubSeq(p, m, n)) = n - m + 1
      /\ \A i \in 1 .. n - m + 1 : SubSeq(p, m, n)[i] = p[m + i - 1]
  BY <1>1, <1>2, SubSeqProperties
<1>5. n - m + 1 \in 1 .. n - m + 1 /\ m + (n - m + 1) - 1 = n
  BY <1>1, <1>2
<1>6. s \in Seq(STRING) /\ Len(s) \in Nat \ {0} /\ s[Len(s)] = p[n]
  <2> HIDE DEF s
  <2>1. s \in Seq(STRING) /\ Len(s) = n - m + 1
    BY <1>3, <1>4
  <2>2. n - m + 1 \in Nat \ {0}
    BY <1>1, <1>2
  <2>3. s[n - m + 1] = p[m + (n - m + 1) - 1]
    BY <1>3, <1>4, <1>5
  <2> QED
    BY <1>5, <2>1, <2>2, <2>3
<1> HIDE DEF s
<1>7. /\ q \in Seq(STRING) /\ Len(t) \in Nat /\ Len(q) = Len(t) + Len(s)
      /\ \A i \in 1 .. Len(t) + Len(s) : q[i] = IF i <= Len(t) THEN t[i] ELSE s[i - Len(t)]
  BY <1>6, ConcatProperties, LenProperties DEF Paths
<1>8. /\ Len(q) \in 1 .. Len(t) + Len(s) /\ ~(Len(q) <= Len(t))
      /\ Len(q) - Len(t) = Len(s)
  BY <1>6, <1>7
<1>9. q[Len(q)] = p[n] /\ q # <<>>
  BY <1>6, <1>7, <1>8, EmptySeq
<1> QED
  BY <1>7, <1>9 DEF Last, Root, Paths, n, s

LEMMA FollowLinkInv ==
    ASSUME ListInv, FollowLink
    PROVE  ListInv'
<1>1. PICK l \in Above(prefix) \cap (links \ OutsideLinks) :
         prefix' = LinkTarget[l] \o SubSeq(prefix, Len(l) + 1, Len(prefix))
  BY DEF FollowLink
<1>2. /\ listPc = "lookup" /\ ListTypeOK /\ prefix \in Paths /\ stack = <<>>
      /\ answer = "none" /\ links \subseteq Links
      /\ UNCHANGED <<dirVars, listPc, stack, entry, answer, lasting>>
  BY DEF FollowLink, ListInv, ListTypeOK, WalkInv
<1>3. LinkTarget[l] \in Paths
  BY <1>2, ListAssumption DEF Paths
<1>4. prefix' \in Paths
  BY <1>1, <1>2, <1>3, FollowedPath
<1>5. Len(stack) = 0
  BY <1>2, EmptySeq
<1> QED
  BY <1>2, <1>4, <1>5 DEF ListInv, ListTypeOK, WalkInv, ListErrorCaused, dirVars

\* The target of a link in the root.
LEMMA TargetIs ==
    ASSUME NEW l \in Links \ OutsideLinks
    PROVE  LinkTarget[l] \in Paths /\ LinkTarget[l] \notin Links
<1>1. l \in DOMAIN LinkTarget /\ LinkTarget[l] \in Paths
  BY ListAssumption DEF Paths
<1> QED
  BY <1>1, TargetAssumption

\* What the prefix names decides where the walk starts, or what is wrong.
LEMMA LookUpInv ==
    ASSUME ListInv, LookUp
    PROVE  ListInv'
<1>1. /\ listPc = "lookup" /\ ListTypeOK /\ prefix \in Paths /\ stack = <<>>
      /\ answer = "none" /\ links \subseteq Links /\ dirs \subseteq Paths /\ Root \in dirs
      /\ UNCHANGED <<dirVars, lasting>>
  BY DEF LookUp, ListInv, ListTypeOK, WalkInv
<1> DEFINE out == (Above(prefix) \cup {prefix}) \cap links \cap OutsideLinks
<1>2. CASE out # {}
  <2>1. /\ UNCHANGED prefix
        /\ Fail("permission_denied") \/ Answer("ok", <<>>) \/ Fail("native_failure")
    BY <1>2 DEF LookUp, OutsideList
  <2>2. PICK l \in out : TRUE
    BY <1>2
  <2>3. l \in links \cap OutsideLinks /\ (AtPrefix(l) \/ l \in Above(prefix))
    BY <1>1, <2>2, PrefixAt
  <2>4. l \in {m \in links \cap OutsideLinks : AtPrefix(m) \/ m \in Above(prefix)}'
    BY <1>1, <2>1, <2>3 DEF AtPrefix, dirVars
  <2>5. CASE Fail("permission_denied")
    <3>1. ListErrorCaused'
      BY <2>4, <2>5 DEF ListErrorCaused, Fail, Answer
    <3> QED
      BY <1>1, <2>1, <2>5, <3>1, AnswerInv DEF Fail
  <2>6. CASE Fail("native_failure")
    <3>1. ListErrorCaused'
      BY <2>4, <2>6 DEF ListErrorCaused, Fail, Answer
    <3> QED
      BY <1>1, <2>1, <2>6, <3>1, AnswerInv DEF Fail
  <2>7. CASE Answer("ok", <<>>)
    BY <1>1, <2>1, <2>7, OkInv
  <2> QED
    BY <2>1, <2>5, <2>6, <2>7
<1>3. CASE out = {}
  <2>0. LocalList
    BY <1>3 DEF LookUp
  <2>1. Target \in Paths /\ (prefix \in links => prefix \in links \ OutsideLinks)
    BY <1>1, <1>3, TargetIs DEF Target
  <2>2. CASE Target \in dirs /\ prefix' = Target /\ Walk(Target, NoFilter)
    BY <1>1, <2>1, <2>2, WalkStartInv
  <2>3. CASE Target \in files /\ prefix' = Target /\ Proceed("head")
    <3>1. /\ prefix' \in Paths /\ prefix' \in files' /\ listPc' = "head" /\ Len(stack) = 0
          /\ UNCHANGED <<stack, entry, answer>>
      BY <1>1, <2>1, <2>3, EmptySeq DEF Proceed, dirVars
    <3> QED
      BY <1>1, <3>1 DEF ListInv, ListTypeOK, WalkInv, ListErrorCaused, dirVars
  <2>4. CASE /\ Target \notin files \cup dirs /\ UNCHANGED prefix
             /\ Above(Target) \cap files # {} /\ Fail("native_failure")
    <3>1. answer' = "native_failure" /\ files' = files /\ links' = links /\ prefix' = prefix
      BY <1>1, <2>4 DEF Fail, Answer, dirVars
    <3>2. Target = prefix \/ (prefix \in links \ OutsideLinks /\ Target = LinkTarget[prefix])
      BY <2>1 DEF Target
    <3>3. prefix \in links \ OutsideLinks =>
             prefix' \in {l \in links \ OutsideLinks : AtPrefix(l)}'
      BY <1>1, <3>1, PrefixAt DEF AtPrefix
    <3>4. Target \in {prefix'} \cup
             {LinkTarget[l] : l \in {l \in links \ OutsideLinks : AtPrefix(l)}'}
      BY <3>1, <3>2, <3>3
    <3>5. Above(Target) \cap (files' \cup gone') # {}
      BY <2>4, <3>1
    <3>6. ListErrorCaused'
      BY <3>1, <3>4, <3>5 DEF ListErrorCaused
    <3> QED
      BY <1>1, <2>4, <3>6, AnswerInv DEF Fail
  <2>5. CASE Target \notin files \cup dirs /\ UNCHANGED prefix /\ ListMissing(prefix)
    <3>1. CASE Parent(prefix) \in dirs
      BY <1>1, <2>5, <3>1, WalkStartInv DEF ListMissing
    <3>2. CASE Parent(prefix) \notin dirs
      BY <1>1, <2>5, <3>2, OkInv DEF ListMissing
    <3> QED
      BY <3>1, <3>2
  <2> QED
    BY <2>0, <2>2, <2>3, <2>4, <2>5 DEF LocalList
<1> QED
  BY <1>2, <1>3

\* readdir returns an entry of a directory at the prefix.
LEMMA ReadEntryInv ==
    ASSUME ListInv, ReadEntry
    PROVE  ListInv'
<1>1. PICK p \in Children(Top.dir) \ Top.returned :
         /\ entry' = p /\ fileType' = KindOf(p)
         /\ stack' = [stack EXCEPT ![1].returned = @ \cup {p}]
  BY DEF ReadEntry
<1>2. /\ stack \in Seq(Frame) /\ stack # <<>> /\ answer = "none"
      /\ listPc = "walk" /\ listPc' = "stat" /\ answer' = answer
      /\ UNCHANGED <<dirVars, prefix, lasting>>
  BY DEF ReadEntry, ListInv, ListTypeOK, WalkInv
<1>3. 1 \in 1 .. Len(stack) /\ stack[1] \in Frame /\ Top = stack[1]
  BY <1>2, EmptySeq, ElementOfSeq DEF Top
<1>4. p \in Paths /\ p # Root /\ Parent(p) = stack[1].dir
  BY <1>1, <1>3, ListAssumption DEF Children, ListInv, ListTypeOK, Paths
<1>5. AtPrefix(p)
  <2>1. stack[1].dir = Parent(prefix) \/ AtPrefix(stack[1].dir)
    BY <1>3 DEF ListInv, WalkInv
  <2> QED
    BY <1>4, <2>1, AboveChild DEF AtPrefix
<1>6. /\ stack' \in Seq(Frame) /\ stack' # <<>>
      /\ Len(stack') = Len(stack)
      /\ \A i \in 1 .. Len(stack) : stack'[i].dir = stack[i].dir
  <2> DEFINE f == [stack[1] EXCEPT !.returned = @ \cup {p}]
  <2>1. f \in Frame /\ f.dir = stack[1].dir
    BY <1>3, <1>4 DEF Frame
  <2>2. stack' = [stack EXCEPT ![1] = f]
    BY <1>1
  <2> HIDE DEF f
  <2>3. /\ stack' \in Seq(Frame) /\ Len(stack') = Len(stack)
        /\ \A j \in 1 .. Len(stack) : stack'[j] = IF j = 1 THEN f ELSE stack[j]
    BY <1>2, <1>3, <2>1, <2>2, ExceptSeq
  <2> QED
    BY <1>2, <2>1, <2>3, EmptySeq
<1>7. ListTypeOK'
  BY <1>1, <1>2, <1>4, <1>6 DEF ListInv, ListTypeOK, dirVars
<1>8. \/ fileType' = "dir" /\ p \in dirs
      \/ fileType' = "link" /\ p \in links
      \/ fileType' = "file" /\ p \in files
  BY <1>1 DEF Children, KindOf
<1>9. WalkInv'
  <2>1. AtPrefix(entry)'
    BY <1>1, <1>2, <1>5 DEF AtPrefix
  <2>2. \A i \in 1 .. Len(stack') :
           stack'[i].dir = Parent(prefix') \/ AtPrefix(stack[i].dir)'
    BY <1>2, <1>6 DEF ListInv, WalkInv, AtPrefix
  <2> QED
    BY <1>1, <1>2, <1>6, <1>8, <2>1, <2>2 DEF ListInv, WalkInv, dirVars
<1> QED
  BY <1>2, <1>7, <1>9 DEF ListInv, ListErrorCaused

\* Leaving a directory leaves the directories that it lies in.
LEMMA EndDirectoryInv ==
    ASSUME ListInv, EndDirectory
    PROVE  ListInv'
<1>1. /\ stack \in Seq(Frame) /\ stack # <<>> /\ stack' = Tail(stack)
      /\ answer = "none" /\ UNCHANGED <<answer, prefix, entry, dirVars, lasting>>
      /\ listPc' = IF Len(stack) = 1 THEN "sort" ELSE "walk"
  BY DEF EndDirectory, ListInv, ListTypeOK, WalkInv
<1>2. /\ Len(stack) \in Nat \ {0}
      /\ stack' \in Seq(Frame) /\ Len(stack') = Len(stack) - 1
      /\ \A i \in 1 .. Len(stack') : stack'[i] = stack[i + 1]
  BY <1>1, EmptySeq, HeadTailProperties
<1>3. Len(stack) # 1 => stack' # <<>>
  BY <1>2, EmptySeq
<1>4. \A i \in 1 .. Len(stack') : i + 1 \in 1 .. Len(stack)
  BY <1>2
<1>5. ListTypeOK'
  BY <1>1, <1>2 DEF ListInv, ListTypeOK, dirVars
<1>6. WalkInv'
  BY <1>1, <1>2, <1>3, <1>4 DEF ListInv, WalkInv, AtPrefix, dirVars
<1> QED
  BY <1>1, <1>5, <1>6 DEF ListInv, ListErrorCaused

\* Visiting an entry: it may have vanished, and a link may lead out of the root
\* or to nothing.
LEMMA VisitEntryInv ==
    ASSUME ListInv, VisitEntry
    PROVE  ListInv'
<1>1. /\ listPc = "stat" /\ answer = "none" /\ stack # <<>>
      /\ UNCHANGED <<dirVars, prefix, lasting>> /\ AtPrefix(entry)
      /\ \/ fileType = "dir" /\ entry \in dirs
         \/ fileType = "link" /\ entry \in links
         \/ fileType = "file" /\ entry \in files \cup gone
  BY DEF VisitEntry, ListInv, WalkInv
<1>2. ListTypeOK /\ prefix \in Paths /\ entry \in Paths /\ links \subseteq Links
  BY DEF ListInv, ListTypeOK
<1>3. ASSUME NextEntry, answer' = answer,
             \/ stack' = stack
             \/ stack' = Open(entry)
      PROVE  ListInv'
  <2>1. Root \in Paths /\ listPc' = "walk" /\ entry' = Root
    BY <1>3, EmptySeq DEF Root, Paths, NextEntry
  <2>2. CASE stack' = stack
    BY <1>1, <1>2, <1>3, <2>1, <2>2
    DEF ListInv, ListTypeOK, WalkInv, ListErrorCaused, AtPrefix, dirVars
  <2>3. CASE stack' = Open(entry)
    <3>1. /\ stack' \in Seq(Frame) /\ stack' # <<>>
          /\ \A i \in 1 .. Len(stack') :
                \/ stack'[i].dir = entry
                \/ \E j \in 1 .. Len(stack) : stack'[i] = stack[j]
      BY <1>2, <2>3, OpenFrame
    <3>2. \A i \in 1 .. Len(stack') :
             stack'[i].dir = Parent(prefix') \/ AtPrefix(stack[i].dir)'
      BY <1>1, <3>1 DEF ListInv, WalkInv, AtPrefix
    <3>3. WalkInv'
      BY <1>1, <1>3, <2>1, <3>1, <3>2 DEF ListInv, WalkInv, dirVars
    <3>4. ListTypeOK'
      BY <1>1, <1>2, <1>3, <2>1, <3>1 DEF ListTypeOK, dirVars
    <3> QED
      BY <1>1, <1>3, <3>3, <3>4 DEF ListInv, ListErrorCaused
  <2> QED
    BY <1>3, <2>2, <2>3
<1>4. CASE VisitDirectory
  BY <1>3, <1>4 DEF VisitDirectory
<1>5. CASE VisitLink
  <2>1. entry \in links
    BY <1>1, <1>5 DEF VisitLink
  <2>2. CASE entry \in OutsideLinks
    <3>1. Fail("permission_denied")
      BY <1>5, <2>2 DEF VisitLink
    <3>2. entry \in {l \in links \cap OutsideLinks : AtPrefix(l) \/ l \in Above(prefix)}'
      BY <1>1, <2>1, <2>2 DEF AtPrefix, dirVars
    <3>3. ListErrorCaused'
      BY <3>1, <3>2 DEF ListErrorCaused, Fail, Answer
    <3> QED
      BY <1>1, <1>2, <3>1, <3>3, AnswerInv DEF Fail
  <2>3. CASE entry \notin OutsideLinks
    <3> DEFINE target == LinkTarget[entry]
    <3>1. target \in Paths /\ target \notin links
      BY <1>2, <2>1, <2>3, TargetIs
    <3>2. entry \in {l \in links \ OutsideLinks : AtPrefix(l)}'
      BY <1>1, <2>1, <2>3 DEF AtPrefix, dirVars
    <3>3. CASE target \in files \cup dirs
      BY <1>3, <1>5, <2>3, <3>3 DEF VisitLink
    <3>4. CASE target \notin files \cup dirs /\ Above(target) \cap files # {}
      <4>1. Fail("native_failure")
        BY <1>5, <2>3, <3>4 DEF VisitLink
      <4>2. Above(target) \cap (files' \cup gone') # {}
        BY <1>1, <3>4 DEF dirVars
      <4>3. target \in {prefix'} \cup
               {LinkTarget[l] : l \in {l \in links \ OutsideLinks : AtPrefix(l)}'}
        BY <3>2
      <4>4. ListErrorCaused'
        BY <4>1, <4>2, <4>3 DEF ListErrorCaused, Fail, Answer
      <4> QED
        BY <1>1, <1>2, <4>1, <4>4, AnswerInv DEF Fail
    <3>5. CASE target \notin files \cup dirs /\ Above(target) \cap files = {}
      <4>1. Fail("not_found")
        BY <1>5, <2>3, <3>5 DEF VisitLink
      <4>2. target \notin lasting'
        BY <1>1, <3>1, <3>5 DEF ListInv, WalkInv
      <4>3. ListErrorCaused'
        BY <3>2, <4>1, <4>2 DEF ListErrorCaused, Fail, Answer
      <4> QED
        BY <1>1, <1>2, <4>1, <4>3, AnswerInv DEF Fail
    <3> QED
      BY <3>3, <3>4, <3>5
  <2> QED
    BY <2>2, <2>3
<1>6. CASE VisitFile
  <2>1. entry \in files \cup gone
    BY <1>1, <1>6 DEF VisitFile
  <2>2. CASE Takes(entry) /\ entry \notin files
    BY <1>1, <1>6, <2>1, <2>2, NoFileInv DEF VisitFile
  <2>3. CASE ~(Takes(entry) /\ entry \notin files)
    BY <1>3, <1>6, <2>3 DEF VisitFile
  <2> QED
    BY <2>2, <2>3
<1> QED
  BY <1>4, <1>5, <1>6 DEF VisitEntry

\* Every step of a list, and every change of the namespace, preserves it.
LEMMA ListStepInv ==
    ASSUME ListInv, [ListNext]_listVars
    PROVE  ListInv'
<1>0. files \subseteq Paths /\ dirs \subseteq Paths /\ prefix \in Paths
  BY DEF ListInv, ListTypeOK
<1>1. ASSUME NEW k \in Keys, StageFile(k) PROVE ListInv'
  <2>1. Above(k) \subseteq Paths
    BY StagingPath, AbovePaths
  <2> QED
    BY <1>0, <1>1, <2>1, StagingPath, ChangeInv DEF StageFile
<1>2. ASSUME NEW k \in Keys, PublishFile(k) PROVE ListInv'
  BY <1>0, <1>2, StagingPath, ChangeInv DEF PublishFile
<1>3. ASSUME NEW k \in Keys, CancelFile(k) PROVE ListInv'
  BY <1>0, <1>3, ChangeInv DEF CancelFile
<1>4. ASSUME NEW k \in Keys, DeleteFile(k) PROVE ListInv'
  BY <1>0, <1>4, ChangeInv DEF DeleteFile
<1>5. CASE HeadPrefix
  <2>1. UNCHANGED <<dirVars, prefix, lasting>> /\ prefix \in files \cup gone
    BY <1>5 DEF HeadPrefix, ListInv, WalkInv
  <2>2. CASE prefix \in files
    BY <1>0, <1>5, <2>1, <2>2, OkInv DEF HeadPrefix
  <2>3. CASE prefix \notin files
    BY <1>0, <1>5, <2>1, <2>3, PrefixAt, NoFileInv DEF HeadPrefix
  <2> QED
    BY <2>2, <2>3
<1>6. CASE NextPage
  <2>1. /\ listPc' \in {"page", "sort"} /\ listPc = "page"
        /\ UNCHANGED <<stack, entry, answer, prefix, dirVars, lasting>>
    BY <1>6 DEF NextPage, Proceed
  <2>2. answer' = "none"
    BY <2>1 DEF ListInv, WalkInv
  <2> QED
    BY <2>1, <2>2 DEF ListInv, ListTypeOK, WalkInv, ListErrorCaused, AtPrefix, dirVars
<1>7. CASE FinishList
  BY <1>0, <1>7, OkInv DEF FinishList
<1>8. CASE ListCallFails
  <2>1. faulted' = TRUE
    BY <1>8 DEF ListCallFails
  <2>2. ListErrorCaused'
    BY <2>1 DEF ListErrorCaused
  <2> QED
    BY <1>0, <1>8, <2>2, AnswerInv DEF ListCallFails, Fail
<1>9. CASE UNCHANGED listVars
  <2>1. /\ UNCHANGED <<files, links, dirs, listPc, prefix, stack, entry, fileType, answer>>
        /\ UNCHANGED <<lasting, gone, faulted>>
    BY <1>9 DEF listVars
  <2>2. ListTypeOK' /\ WalkInv'
    BY <2>1 DEF ListInv, ListTypeOK, WalkInv, AtPrefix
  <2>3. ListErrorCaused'
    BY <2>1 DEF ListInv, ListErrorCaused, AtPrefix
  <2> QED
    BY <2>2, <2>3 DEF ListInv
<1> QED
  BY <1>1, <1>2, <1>3, <1>4, <1>5, <1>6, <1>7, <1>8, <1>9, BeginListInv, FollowLinkInv,
     LookUpInv, ReadEntryInv, EndDirectoryInv, VisitEntryInv
  DEF ListNext

\* However writers change the directory during the walk of Store.list/2, and
\* whatever links there are, it fails only for what it meets, as long as the
\* system and the provider refuse no call: not_found for a file at the prefix
\* that has vanished since it began or a link there that dangled,
\* permission_denied for a link out of the root, invalid_argument for a
\* directory in the place of a file, native_failure for a path below a file.
THEOREM ListErrorsAreCaused == StoreSpec => []ListErrorCaused
<1>1. StoreInit => ListInv
  BY InitList DEF StoreInit
<1>2. ListInv /\ [StoreNext]_storeVars => ListInv'
  <2> SUFFICES ASSUME ListInv, [StoreNext]_storeVars PROVE ListInv'
    OBVIOUS
  <2>1. [ListNext]_listVars
    BY DEF StoreNext, storeVars
  <2> QED
    BY <2>1, ListStepInv
<1>3. ListInv => ListErrorCaused
  BY DEF ListInv
<1> QED
  BY <1>1, <1>2, <1>3, PTL DEF StoreSpec
-----------------------------------------------------------------------------
\* What is above a directory is above all that lies in it.
LEMMA AboveTransitive ==
    ASSUME NEW p \in Paths, NEW c \in Above(p), NEW d \in Above(c)
    PROVE  d \in Above(p)
<1>1. c \in Paths /\ Len(c) < Len(p) /\ \A i \in 1 .. Len(c) : c[i] = p[i]
  BY AboveIs
<1>2. d \in Paths /\ Len(d) < Len(c) /\ \A i \in 1 .. Len(d) : d[i] = c[i]
  BY <1>1, AboveIs
<1>3. Len(p) \in Nat /\ Len(c) \in Nat /\ Len(d) \in Nat
  BY <1>1, <1>2, LenProperties DEF Paths
<1>4. Len(d) < Len(p) /\ \A i \in 1 .. Len(d) : d[i] = p[i]
  BY <1>1, <1>2, <1>3
<1> QED
  BY <1>2, <1>4, AboveIs

\* The directory that an entry lies in.
LEMMA ParentIs ==
    ASSUME NEW p \in Paths, p # Root
    PROVE  /\ Parent(p) \in Paths /\ Len(p) \in Nat \ {0}
           /\ Len(Parent(p)) = Len(p) - 1
           /\ \A i \in 1 .. Len(p) - 1 : Parent(p)[i] = p[i]
           /\ Parent(p) = SubSeq(p, 1, Len(p) - 1)
<1>1. Len(p) \in Nat \ {0}
  BY EmptySeq DEF Paths, Root
<1>2. Len(p) - 1 \in 0 .. Len(p)
  BY <1>1
<1>3. Parent(p) = SubSeq(p, 1, Len(p) - 1)
  BY DEF Parent, Front
<1> QED
  BY <1>1, <1>2, <1>3, CutPath

\* The entry of a directory through which a walk comes to a path below it.
LEMMA TowardIs ==
    ASSUME NEW p \in Paths, NEW d \in Above(p)
    PROVE  /\ Toward(d, p) \in Paths /\ Toward(d, p) # Root
           /\ Len(Toward(d, p)) = Len(d) + 1
           /\ Len(d) \in Nat /\ Len(p) \in Nat /\ Len(d) < Len(p)
           /\ \A i \in 1 .. Len(d) + 1 : Toward(d, p)[i] = p[i]
           /\ Parent(Toward(d, p)) = d
           /\ Leads(Toward(d, p), p)
<1> DEFINE t == Toward(d, p)
<1>1. d \in Paths /\ Len(d) < Len(p) /\ \A i \in 1 .. Len(d) : d[i] = p[i]
  BY AboveIs
<1>2. Len(p) \in Nat /\ Len(d) \in Nat
  BY <1>1, LenProperties DEF Paths
<1>3. Len(d) + 1 \in 0 .. Len(p)
  BY <1>1, <1>2
<1>4. t \in Paths /\ Len(t) = Len(d) + 1 /\ \A i \in 1 .. Len(d) + 1 : t[i] = p[i]
  BY <1>3, CutPath DEF Toward
<1> HIDE DEF t
<1>5. t # Root
  BY <1>2, <1>4, EmptySeq DEF Root
<1>6. Parent(t) = d
  <2>1. /\ Parent(t) \in Paths /\ Len(Parent(t)) = Len(t) - 1
        /\ \A i \in 1 .. Len(t) - 1 : Parent(t)[i] = t[i]
    BY <1>4, <1>5, ParentIs
  <2>2. Len(Parent(t)) = Len(d) /\ \A i \in 1 .. Len(d) : Parent(t)[i] = d[i]
    BY <1>1, <1>2, <1>4, <2>1
  <2> QED
    BY <1>1, <2>1, <2>2, SamePath
<1>7. Leads(t, p)
  <2>1. CASE Len(t) = Len(p)
    BY <1>2, <1>4, <2>1, SamePath DEF Leads
  <2>2. CASE Len(t) # Len(p)
    <3>1. Len(t) < Len(p)
      BY <1>1, <1>2, <1>4, <2>2
    <3> QED
      BY <1>4, <3>1, AboveIs DEF Leads
  <2> QED
    BY <2>1, <2>2
<1> QED
  BY <1>1, <1>2, <1>4, <1>5, <1>6, <1>7 DEF t

\* An entry is the one that leads from its directory to all that lies below.
LEMMA TowardEntry ==
    ASSUME NEW c \in Paths, c # Root, NEW p \in Paths, Leads(c, p)
    PROVE  Parent(c) \in Above(p) /\ Toward(Parent(c), p) = c
<1>1. Parent(c) \in Above(p)
  <2>1. Parent(c) \in Above(c)
    BY AboveChild
  <2> QED
    BY <2>1, AboveTransitive DEF Leads
<1>2. /\ Toward(Parent(c), p) \in Paths
      /\ Len(Toward(Parent(c), p)) = Len(Parent(c)) + 1
      /\ \A i \in 1 .. Len(Parent(c)) + 1 : Toward(Parent(c), p)[i] = p[i]
  BY <1>1, TowardIs
<1>3. Len(c) \in Nat \ {0} /\ Len(Parent(c)) = Len(c) - 1
  BY ParentIs
<1>4. Len(Toward(Parent(c), p)) = Len(c)
  BY <1>2, <1>3
<1>5. \A i \in 1 .. Len(c) : c[i] = p[i]
  BY AboveIs DEF Leads
<1>6. \A i \in 1 .. Len(Toward(Parent(c), p)) : Toward(Parent(c), p)[i] = c[i]
  BY <1>2, <1>3, <1>4, <1>5
<1> QED
  BY <1>1, <1>2, <1>4, <1>6, SamePath

\* From a directory it is the same way to what lies below another one.
LEMMA TowardBelow ==
    ASSUME NEW p \in Paths, NEW c \in Above(p), NEW d \in Above(c)
    PROVE  d \in Above(p) /\ Toward(d, p) = Toward(d, c)
<1>1. d \in Above(p) /\ c \in Paths
  BY AboveTransitive, AbovePaths
<1>2. /\ Toward(d, p) \in Paths /\ Len(Toward(d, p)) = Len(d) + 1
      /\ \A i \in 1 .. Len(d) + 1 : Toward(d, p)[i] = p[i]
  BY <1>1, TowardIs
<1>3. /\ Toward(d, c) \in Paths /\ Len(Toward(d, c)) = Len(d) + 1
      /\ \A i \in 1 .. Len(d) + 1 : Toward(d, c)[i] = c[i]
      /\ Len(d) \in Nat /\ Len(c) \in Nat /\ Len(d) < Len(c)
  BY <1>1, TowardIs
<1>4. \A i \in 1 .. Len(c) : c[i] = p[i]
  BY AboveIs
<1>5. \A i \in 1 .. Len(d) + 1 : i \in 1 .. Len(c)
  BY <1>3
<1>6. \A i \in 1 .. Len(d) + 1 : Toward(d, p)[i] = Toward(d, c)[i]
  BY <1>2, <1>3, <1>4, <1>5
<1> QED
  BY <1>1, <1>2, <1>3, <1>6, SamePath

\* A path is a strict prefix of what it is above.
LEMMA StrictPrefixIs ==
    ASSUME NEW p \in Paths, NEW q \in Paths
    PROVE  IsStrictPrefix(q, p) <=> q \in Above(p)
<1>0. Len(p) \in Nat /\ Len(q) \in Nat /\ SubSeq(q, 1, Len(q)) = q
  BY LenProperties, SubSeqFull DEF Paths
<1>1. ASSUME IsStrictPrefix(q, p)
      PROVE  q \in Above(p)
  <2>1. Len(q) <= Len(p) /\ q = SubSeq(p, 1, Len(q)) /\ q # p
    BY <1>0, <1>1 DEF IsStrictPrefix, IsPrefix
  <2>2. Len(q) # Len(p)
    BY <2>1, SubSeqFull DEF Paths
  <2>3. Len(q) \in 0 .. Len(p) - 1
    BY <1>0, <2>1, <2>2
  <2> QED
    BY <2>1, <2>3 DEF Above
<1>2. ASSUME q \in Above(p)
      PROVE  IsStrictPrefix(q, p)
  <2>1. PICK n \in 0 .. Len(p) - 1 : q = SubSeq(p, 1, n)
    BY <1>2 DEF Above
  <2>2. n \in 0 .. Len(p)
    BY <1>0
  <2>3. Len(q) = n
    BY <2>1, <2>2, CutPath
  <2>4. Len(q) <= Len(p) /\ q # p
    BY <1>0, <2>1, <2>3
  <2> QED
    BY <1>0, <2>1, <2>3, <2>4 DEF IsStrictPrefix, IsPrefix
<1> QED
  BY <1>1, <1>2

\* A path begins with every path that leads to it.
LEMMA LeadsBegins ==
    ASSUME NEW p \in Paths, NEW q \in Paths, Leads(q, p)
    PROVE  BeginsWith(p, q)
<1>1. CASE q = Root
  BY <1>1 DEF BeginsWith
<1>2. CASE q # Root
  <2>1. /\ Len(q) \in Nat \ {0} /\ Parent(q) \in Paths
        /\ Len(Parent(q)) = Len(q) - 1
        /\ \A i \in 1 .. Len(q) - 1 : Parent(q)[i] = q[i]
    BY <1>2, ParentIs
  <2>2. Len(q) <= Len(p) /\ \A i \in 1 .. Len(q) : q[i] = p[i]
    BY <2>1, AboveIs, LenProperties DEF Leads, Paths
  <2>3. Len(p) \in Nat
    BY LenProperties DEF Paths
  <2>4. Len(q) - 1 \in 0 .. Len(p) /\ Len(q) \in 1 .. Len(q)
    BY <2>1, <2>2, <2>3
  <2>5. /\ SubSeq(p, 1, Len(q) - 1) \in Paths
        /\ Len(SubSeq(p, 1, Len(q) - 1)) = Len(q) - 1
        /\ \A i \in 1 .. Len(q) - 1 : SubSeq(p, 1, Len(q) - 1)[i] = p[i]
    BY <2>4, CutPath
  <2>6. \A i \in 1 .. Len(q) - 1 : Parent(q)[i] = SubSeq(p, 1, Len(q) - 1)[i]
    BY <2>1, <2>2, <2>5
  <2>7. Parent(q) = SubSeq(p, 1, Len(q) - 1)
    BY <2>1, <2>5, <2>6, SamePath
  <2>8. p[Len(q)] = Last(q)
    BY <2>2, <2>4 DEF Last
  <2> QED
    BY <2>2, <2>7, <2>8 DEF BeginsWith
<1> QED
  BY <1>1, <1>2

\* What lies below the directory of a prefix begins with it, if its name does.
LEMMA NameBegins ==
    ASSUME NEW p \in Paths, NEW q \in Paths, q # Root, Parent(q) \in Above(p),
           \/ p[Len(Parent(q)) + 1] = Last(q)
           \/ <<p[Len(Parent(q)) + 1], Last(q)>> \in Extends
    PROVE  BeginsWith(p, q)
<1>1. Len(q) \in Nat \ {0} /\ Parent(q) \in Paths /\ Len(Parent(q)) = Len(q) - 1
  BY ParentIs
<1>2. Len(Parent(q)) + 1 = Len(q)
  BY <1>1
<1>3. PICK n \in 0 .. Len(p) - 1 : Parent(q) = SubSeq(p, 1, n)
  BY DEF Above
<1>4. Len(p) \in Nat /\ n \in 0 .. Len(p)
  BY LenProperties DEF Paths
<1>5. n = Len(q) - 1
  BY <1>1, <1>3, <1>4, CutPath
<1>6. Len(q) <= Len(p)
  BY <1>1, <1>4, <1>5
<1> QED
  BY <1>2, <1>3, <1>5, <1>6 DEF BeginsWith

\* The place of a file's path in the order of paths.
LEMMA PositionIs ==
    ASSUME NEW p \in Known
    PROVE  /\ Position(p) \in DOMAIN PathOrder /\ Position(p) \in Nat
           /\ PathOrder[Position(p)] = p
<1>1. p \in Range(PathOrder)
  BY OrderAssumption DEF Known
<1>2. \E i \in DOMAIN PathOrder : PathOrder[i] = p
  BY <1>1 DEF Range
<1>3. DOMAIN PathOrder = 1 .. Len(PathOrder)
  BY ListAssumption, LenProperties
<1>4. Position(p) \in DOMAIN PathOrder /\ PathOrder[Position(p)] = p
  BY <1>2 DEF Position
<1> QED
  BY <1>3, <1>4

\* Each path has one place.
LEMMA PositionOf ==
    ASSUME NEW i \in DOMAIN PathOrder
    PROVE  Position(PathOrder[i]) = i
<1>1. Position(PathOrder[i]) \in DOMAIN PathOrder
      /\ PathOrder[Position(PathOrder[i])] = PathOrder[i]
  BY DEF Position
<1> QED
  BY <1>1, ListAssumption DEF IsInjective

\* Values can be put in order: each goes to the place given by how many come
\* before it, the earlier of two equal ones first.
LEMMA OrderExists ==
    ASSUME NEW N \in Nat, NEW v \in [1 .. N -> Nat]
    PROVE  \E f \in Bijection(1 .. N, 1 .. N) :
              \A i, j \in 1 .. N : i < j => v[f[i]] <= v[f[j]]
<1> DEFINE D == 1 .. N
           Before(i, j) == v[i] < v[j] \/ (v[i] = v[j] /\ i < j)
           Upto(i) == {j \in D : Before(j, i) \/ j = i}
           R == [i \in D |-> Cardinality(Upto(i))]
<1>1. IsFiniteSet(D) /\ Cardinality(D) = N
  BY FS_Interval
<1>2. ASSUME NEW i \in D
      PROVE  /\ IsFiniteSet(Upto(i)) /\ Cardinality(Upto(i)) \in Nat
             /\ Cardinality(Upto(i)) \in D
  <2> HIDE DEF D
  <2>1. Upto(i) \in SUBSET D /\ i \in Upto(i)
    BY DEF D
  <2> HIDE DEF Upto
  <2>2. IsFiniteSet(Upto(i)) /\ Cardinality(Upto(i)) <= N
    BY <1>1, <2>1, FS_Subset
  <2>3. Cardinality(Upto(i)) \in Nat /\ Cardinality(Upto(i)) # 0
    BY <2>1, <2>2, FS_CardinalityType, FS_EmptySet
  <2> QED
    BY <2>2, <2>3 DEF D
<1>3. R \in [D -> D]
  BY <1>2
<1>4. ASSUME NEW i \in D, NEW j \in D, Before(i, j)
      PROVE  R[i] < R[j]
  <2>1. v[i] \in Nat /\ v[j] \in Nat /\ \A k \in D : v[k] \in Nat
    OBVIOUS
  <2>2. Upto(i) \in SUBSET Upto(j)
    BY <1>4, <2>1
  <2>3. j \in Upto(j) /\ j \notin Upto(i)
    BY <1>4, <2>1
  <2>4. IsFiniteSet(Upto(j))
    BY <1>2
  <2> HIDE DEF Upto
  <2>5. /\ Cardinality(Upto(i)) <= Cardinality(Upto(j))
        /\ Cardinality(Upto(i)) # Cardinality(Upto(j))
    BY <2>2, <2>3, <2>4, FS_Subset
  <2>6. Cardinality(Upto(i)) < Cardinality(Upto(j))
    BY <1>2, <2>5
  <2> QED
    BY <2>6
<1> HIDE DEF R
<1>5. \A i, j \in D : R[i] = R[j] => i = j
  <2> SUFFICES ASSUME NEW i \in D, NEW j \in D, i # j
               PROVE  R[i] # R[j]
    OBVIOUS
  <2>1. Before(i, j) \/ Before(j, i)
    OBVIOUS
  <2>2. R[i] \in Nat /\ R[j] \in Nat
    <3>1. R[i] \in D /\ R[j] \in D
      BY <1>3, Zenon
    <3> QED
      BY <3>1
  <2>3. R[i] < R[j] \/ R[j] < R[i]
    BY <1>4, <2>1
  <2> QED
    BY <2>2, <2>3
<1>6. R \in Surjection(D, D)
  <2> HIDE DEF D
  <2>1. R \in Injection(D, D)
    BY <1>3, <1>5 DEF Injection, IsInjective
  <2> QED
    BY <1>1, <2>1, FS_Injection
<1> DEFINE f == [r \in D |-> CHOOSE i \in D : R[i] = r]
<1>7. \A r \in D : f[r] \in D /\ R[f[r]] = r
  <2>1. \A r \in D : \E i \in D : R[i] = r
    BY <1>6 DEF Surjection
  <2> HIDE DEF D
  <2> QED
    BY <2>1
<1>8. DOMAIN f = D
  OBVIOUS
<1>9. f \in [D -> D]
  <2> HIDE DEF D
  <2> QED
    BY <1>7
<1> HIDE DEF f
<1>10. f \in Bijection(D, D)
  <2>1. f \in Injection(D, D)
    <3> HIDE DEF D, Before, Upto
    <3>1. \A a, b \in DOMAIN f : f[a] = f[b] => a = b
      BY <1>7, <1>8, Zenon
    <3> QED
      BY <1>9, <3>1 DEF Injection, IsInjective
  <2>2. \A i \in D : f[R[i]] = i /\ R[i] \in D
    BY <1>3, <1>5, <1>7
  <2>3. f \in Surjection(D, D)
    BY <1>9, <2>2 DEF Surjection
  <2> QED
    BY <2>1, <2>3 DEF Bijection
<1>11. ASSUME NEW i \in D, NEW j \in D, i < j
       PROVE  v[f[i]] <= v[f[j]]
  <2>1. v[f[i]] \in Nat /\ v[f[j]] \in Nat /\ f[i] \in D /\ f[j] \in D
    BY <1>7
  <2>2. v[f[j]] < v[f[i]] => j < i
    BY <1>4, <1>7, <2>1
  <2> QED
    BY <1>11, <2>1, <2>2
<1> QED
  BY <1>10, <1>11

\* Sorting puts the entries in order, all and only them; what is there twice has
\* vanished.
LEMMA SortedIs ==
    ASSUME entries \in Seq(Known), Once
    PROVE  /\ Sorted \in Seq(Known)
           /\ Range(Sorted) = Range(entries)
           /\ \A i, j \in DOMAIN Sorted : i < j =>
                 \/ Position(Sorted[i]) < Position(Sorted[j])
                 \/ Sorted[i] = Sorted[j] /\ Sorted[i] \in gone
<1> DEFINE N == Len(entries)
           D == 1 .. N
           v == [i \in D |-> Position(entries[i])]
           order == CHOOSE f \in Bijection(DOMAIN entries, DOMAIN entries) : InPathOrder(f)
<1>1. N \in Nat /\ DOMAIN entries = D /\ \A i \in D : entries[i] \in Known
  BY LenProperties, ElementOfSeq
<1>2. v \in [D -> Nat]
  BY <1>1, PositionIs
<1> HIDE DEF N
<1>4. \E f \in Bijection(D, D) : \A i, j \in D : i < j => v[f[i]] <= v[f[j]]
  <2> HIDE DEF v
  <2> QED
    BY <1>1, <1>2, OrderExists
<1>5. \A f \in Bijection(D, D) :
         (\A i, j \in D : i < j => v[f[i]] <= v[f[j]]) => InPathOrder(f)
  <2> SUFFICES ASSUME NEW f \in Bijection(D, D),
                      \A i, j \in D : i < j => v[f[i]] <= v[f[j]]
               PROVE  InPathOrder(f)
    OBVIOUS
  <2>1. f \in [D -> D]
    BY DEF Bijection, Injection
  <2> QED
    BY <2>1 DEF InPathOrder
<1>6. order \in Bijection(D, D) /\ InPathOrder(order)
  <2>1. \E f \in Bijection(DOMAIN entries, DOMAIN entries) : InPathOrder(f)
    BY <1>1, <1>4, <1>5
  <2> HIDE DEF D, v
  <2> QED
    BY <1>1, <2>1
<1> HIDE DEF order, v
<1>7. /\ order \in [D -> D]
      /\ \A i, j \in D : order[i] = order[j] => i = j
      /\ \A k \in D : \E i \in D : order[i] = k
  BY <1>6 DEF Bijection, Injection, Surjection, IsInjective
<1>8. Sorted = [i \in D |-> entries[order[i]]]
  BY <1>1 DEF Sorted, order
<1>9. \A i \in D : Sorted[i] = entries[order[i]] /\ Sorted[i] \in Known
  BY <1>1, <1>7, <1>8
<1>10. Sorted \in Seq(Known) /\ DOMAIN Sorted = D
  <2>1. Sorted \in [1 .. N -> Known] /\ N \in Nat
    BY <1>1, <1>8, <1>9
  <2> QED
    BY <2>1, <1>8
<1>11. Range(Sorted) = Range(entries)
  BY <1>1, <1>7, <1>9, <1>10 DEF Range
<1>12. ASSUME NEW i \in D, NEW j \in D, i < j
       PROVE  \/ Position(Sorted[i]) < Position(Sorted[j])
              \/ Sorted[i] = Sorted[j] /\ Sorted[i] \in gone
  <2>1. Position(Sorted[i]) <= Position(Sorted[j])
    BY <1>6, <1>7, <1>9, <1>12 DEF InPathOrder
  <2>2. order[i] # order[j] /\ order[i] \in D /\ order[j] \in D
    BY <1>1, <1>7, <1>12
  <2>3. Sorted[i] = Sorted[j] => Sorted[i] \in gone
    BY <1>1, <1>9, <2>2 DEF Once
  <2>4. Sorted[i] # Sorted[j] => Position(Sorted[i]) # Position(Sorted[j])
    BY <1>9, PositionIs
  <2>5. Position(Sorted[i]) \in Nat /\ Position(Sorted[j]) \in Nat
    BY <1>9, PositionIs
  <2> QED
    BY <2>1, <2>3, <2>4, <2>5
<1> QED
  BY <1>10, <1>11, <1>12

\* A page has the keys below the prefix that come after what is listed, all of
\* them and in order.
LEMMA PageIs ==
    /\ Page \in Seq(Paths)
    /\ \A i \in 1 .. Len(Page) :
          /\ Page[i] \in files \cap Keys /\ IsStrictPrefix(prefix, Page[i])
          /\ AfterLast(Page[i])
    /\ \A i, j \in 1 .. Len(Page) : i < j => Position(Page[i]) < Position(Page[j])
    /\ \A k \in files \cap Keys :
          IsStrictPrefix(prefix, k) /\ AfterLast(k) =>
             \E i \in 1 .. Len(Page) : Page[i] = k
<1> DEFINE keep == {p \in files \cap Keys : IsStrictPrefix(prefix, p) /\ AfterLast(p)}
<1>1. PathOrder \in Seq(Paths) /\ DOMAIN PathOrder = 1 .. Len(PathOrder)
  BY ListAssumption, LenProperties DEF Paths
<1>2. Page = Select(PathOrder, keep)
  BY DEF Page
<1>3. Page \in Seq(Paths) /\ Keeps(Page, PathOrder, Len(PathOrder), keep)
  <2> HIDE DEF keep
  <2> QED
    BY <1>1, <1>2, SelectProperties
<1>4. \A i \in 1 .. Len(Page) : Page[i] \in keep
  BY <1>3 DEF Keeps
<1>5. ASSUME NEW i \in 1 .. Len(Page), NEW j \in 1 .. Len(Page), i < j
      PROVE  Position(Page[i]) < Position(Page[j])
  <2>1. PICK a \in 1 .. Len(PathOrder), b \in 1 .. Len(PathOrder) :
           a < b /\ Page[i] = PathOrder[a] /\ Page[j] = PathOrder[b]
    BY <1>3, <1>5 DEF Keeps
  <2> QED
    BY <1>1, <2>1, PositionOf
<1>6. ASSUME NEW k \in files \cap Keys, IsStrictPrefix(prefix, k), AfterLast(k)
      PROVE  \E i \in 1 .. Len(Page) : Page[i] = k
  <2>1. k \in keep /\ k \in Known
    BY <1>6 DEF Known
  <2>2. PICK a \in 1 .. Len(PathOrder) : PathOrder[a] = k
    BY <1>1, <2>1, PositionIs
  <2> QED
    BY <1>3, <2>1, <2>2 DEF Keeps
<1> QED
  BY <1>3, <1>4, <1>5, <1>6

\* The files that writers make have paths.
LEMMA KnownPaths == Known \subseteq Paths /\ Keys \subseteq Known
BY StagingPath DEF Known

\* The staging file lies in the directories of its object, and is none of them.
LEMMA AboveStaging ==
    ASSUME NEW k \in Keys
    PROVE  Above(Staging(k)) = Above(k) /\ Staging(k) \notin Above(k)
<1> DEFINE s == Staging(k)
<1>1. k \in Paths /\ s \in Paths /\ k # Root
  BY StagingPath, ListAssumption DEF Root
<1>2. /\ Parent(k) \in Paths /\ Len(k) \in Nat \ {0} /\ Len(Parent(k)) = Len(k) - 1
      /\ \A i \in 1 .. Len(k) - 1 : Parent(k)[i] = k[i]
  BY <1>1, ParentIs
<1>3. StageName[Last(k)] \in STRING
  BY ListAssumption DEF Last
<1>4. /\ Len(s) = Len(Parent(k)) + 1
      /\ \A i \in 1 .. Len(Parent(k)) : s[i] = Parent(k)[i]
  BY <1>2, <1>3, AppendProperties DEF Staging, Paths
<1>5. Len(s) = Len(k) /\ \A i \in 1 .. Len(k) - 1 : s[i] = k[i]
  BY <1>2, <1>4
<1> HIDE DEF s
<1>6. ASSUME NEW d
      PROVE  d \in Above(s) <=> d \in Above(k)
  <2>1. d \in Paths /\ Len(d) < Len(k) =>
           /\ Len(d) \in Nat
           /\ \A i \in 1 .. Len(d) : i \in 1 .. Len(k) - 1
    BY <1>2, LenProperties DEF Paths
  <2>2. d \in Paths /\ Len(d) < Len(k) => \A i \in 1 .. Len(d) : s[i] = k[i]
    BY <1>5, <2>1
  <2>3. d \in Above(s) <=>
           d \in Paths /\ Len(d) < Len(s) /\ \A i \in 1 .. Len(d) : d[i] = s[i]
    BY <1>1, AboveIs
  <2>4. d \in Above(k) <=>
           d \in Paths /\ Len(d) < Len(k) /\ \A i \in 1 .. Len(d) : d[i] = k[i]
    BY <1>1, AboveIs
  <2> QED
    BY <1>5, <2>2, <2>3, <2>4
<1>7. s \notin Above(k)
  BY <1>1, <1>2, <1>5, AboveIs
<1>8. Above(s) = Above(k)
  BY <1>6
<1> QED
  BY <1>7, <1>8 DEF s


\* The directories of the walk are paths.
LEMMA StackPaths ==
    ASSUME ListTypeOK
    PROVE  /\ Len(stack) \in Nat
           /\ \A i \in 1 .. Len(stack) :
                 stack[i] \in Frame /\ stack[i].dir \in Paths /\ stack[i].returned \subseteq Paths
<1>1. Len(stack) \in Nat /\ \A i \in 1 .. Len(stack) : stack[i] \in Frame
  BY LenProperties, ElementOfSeq DEF ListTypeOK
<1> QED
  BY <1>1 DEF Frame

\* A list that has not begun satisfies the invariant.
LEMMA InitExact == ListInit => ExactInv
<1> SUFFICES ASSUME ListInit PROVE ExactInv
  OBVIOUS
<1>1. files \subseteq Known /\ files \cup links \subseteq Paths
  BY KnownPaths, ListAssumption DEF ListInit, Known, Paths
<1>2. \A p \in files \cup links : Above(p) \subseteq dirs
  BY DEF ListInit
<1>3. ASSUME NEW d \in dirs
      PROVE  Above(d) \subseteq dirs
  <2>1. CASE d = Root
    <3>1. Above(Root) = {}
      BY DEF Above, Root
    <3> QED
      BY <2>1, <3>1
  <2>2. CASE d # Root
    <3>1. PICK p \in files \cup links : d \in Above(p)
      BY <2>2 DEF ListInit
    <3> QED
      BY <1>1, <1>2, <3>1, AboveTransitive
  <2> QED
    BY <2>1, <2>2
<1>4. TreeInv
  BY <1>1, <1>2, <1>3 DEF ListInit, TreeInv
<1>5. entries \in Seq(Known) /\ DOMAIN entries = {} /\ listPc = "idle" /\ answer = "none"
  BY EmptySeq DEF ListInit
<1>6. EntriesInv
  BY <1>5 DEF ListInit, EntriesInv, Listing
<1> QED
  BY <1>4, <1>5, <1>6 DEF ExactInv, StackInv, DueInv, ListExact

\* Writers add only files that were not there, in directories: what a list has
\* to have is what it had to have before, less what has vanished.
LEMMA ChangeExact ==
    ASSUME ListInv, ExactInv,
           NEW newFiles \in SUBSET Known, NEW newDirs, dirs \subseteq newDirs,
           Change(newFiles, newDirs),
           newDirs \cap (files \cup newFiles \cup links) = {},
           (newFiles \ files) \cap (dirs \cup links) = {},
           \A p \in newFiles \cup newDirs : Above(p) \subseteq newDirs
    PROVE  ExactInv'
<1>1. /\ UNCHANGED <<listBackend, links, listPc, prefix, filter, entry, fileType, entries, answer>>
      /\ files' = newFiles /\ dirs' = newDirs
      /\ lasting' = lasting \cap (newFiles \cup newDirs \cup links)
      /\ gone' = gone \cup (files \ newFiles)
      /\ Listing /\ ListTypeOK /\ WalkInv
      /\ TreeInv /\ EntriesInv /\ StackInv /\ DueInv
  BY DEF Change, ListInv, ExactInv
<1>2. answer' = "none" /\ Listing'
  BY <1>1 DEF WalkInv, Listing
<1>3. /\ Len(stack') = Len(stack)
      /\ \A i \in 1 .. Len(stack) :
            /\ stack'[i].dir = stack[i].dir
            /\ stack'[i].returned = stack[i].returned \cap (files' \cup dirs' \cup links')
  BY <1>1, ChangedStack
<1>4. ASSUME NEW k \in files' \cap lasting'
      PROVE  k \in files \cap lasting
  BY <1>1, <1>4 DEF TreeInv, WalkInv
<1>5. TreeInv'
  <2>1. \A k \in files' \cap lasting' : Above(k) \subseteq lasting'
    BY <1>1, <1>4 DEF TreeInv
  <2>2. gone' \cap lasting' = {}
    BY <1>1 DEF TreeInv
  <2>3. \A p \in files' \cup links' \cup dirs' : Above(p) \subseteq dirs'
    BY <1>1 DEF TreeInv
  <2> QED
    BY <1>1, <1>2, <2>1, <2>2, <2>3 DEF TreeInv, Listing
<1>6. files \cup gone \subseteq files' \cup gone' /\ gone \subseteq gone'
  BY <1>1
<1>7. EntriesInv'
  <2>1. \A i \in DOMAIN entries' : BeginsWith(entries[i], prefix)'
    BY <1>1 DEF EntriesInv, BeginsWith
  <2>2. Once'
    BY <1>1, <1>6 DEF EntriesInv, Once
  <2> QED
    BY <1>1, <1>6, <2>1, <2>2 DEF EntriesInv
<1>8. StackInv'
  <2> SUFFICES ASSUME listPc \in {"walk", "stat"}
               PROVE  StackInv'
    BY <1>1 DEF StackInv
  <2>1. /\ \/ stack[Len(stack)].dir = prefix /\ filter = NoFilter
           \/ /\ prefix # Root /\ stack[Len(stack)].dir = Parent(prefix)
              /\ filter = Last(prefix) /\ filter # NoFilter
        /\ \A i, j \in 1 .. Len(stack) : i < j =>
              /\ stack[j].dir \in Above(stack[i].dir)
              /\ Toward(stack[j].dir, stack[i].dir) \in stack[j].returned
        /\ \A i \in 1 .. Len(stack) : stack[i].dir \in dirs /\ stack[i].dir \in Paths
        /\ \A e \in Range(entries) \ gone : \A i \in 1 .. Len(stack) :
              stack[i].dir \in Above(e) => Toward(stack[i].dir, e) \in stack[i].returned
    BY <1>1, StackPaths DEF StackInv
  <2>2. Len(stack) \in 1 .. Len(stack)
    <3>1. stack # <<>> /\ stack \in Seq(Frame)
      BY <1>1 DEF WalkInv, ListTypeOK
    <3> QED
      BY <3>1, EmptySeq
  <2>3. \/ stack'[Len(stack')].dir = prefix' /\ filter' = NoFilter
        \/ /\ prefix' # Root /\ stack'[Len(stack')].dir = Parent(prefix')
           /\ filter' = Last(prefix') /\ filter' # NoFilter
    BY <1>1, <1>3, <2>1, <2>2
  <2>4. ASSUME NEW i \in 1 .. Len(stack'), NEW j \in 1 .. Len(stack'), i < j
        PROVE  /\ stack'[j].dir \in Above(stack'[i].dir)
               /\ Toward(stack'[j].dir, stack'[i].dir) \in stack'[j].returned
    <3> DEFINE t == Toward(stack[j].dir, stack[i].dir)
    <3>1. /\ i \in 1 .. Len(stack) /\ j \in 1 .. Len(stack)
          /\ stack[j].dir \in Above(stack[i].dir) /\ t \in stack[j].returned
      BY <1>3, <2>1, <2>4
    <3>2. Leads(t, stack[i].dir)
      BY <2>1, <3>1, TowardIs
    <3>3. t \in dirs
      BY <1>1, <2>1, <3>1, <3>2 DEF Leads, TreeInv
    <3> QED
      BY <1>1, <1>3, <3>1, <3>3
  <2>5. ASSUME NEW e \in Range(entries') \ gone', NEW i \in 1 .. Len(stack'),
               stack'[i].dir \in Above(e)
        PROVE  Toward(stack'[i].dir, e) \in stack'[i].returned
    <3> DEFINE t == Toward(stack[i].dir, e)
    <3>1. e \in Range(entries) \ gone /\ i \in 1 .. Len(stack)
      BY <1>1, <1>3, <1>6
    <3>2. e \in files
      BY <1>1, <3>1 DEF EntriesInv, Range
    <3>3. e \in files' /\ e \in Paths /\ Above(e) \subseteq dirs'
      BY <1>1, <2>5, <3>2, KnownPaths
    <3>4. stack[i].dir \in Above(e) /\ t \in stack[i].returned
      BY <1>3, <2>1, <2>5, <3>1
    <3>5. Leads(t, e)
      BY <3>3, <3>4, TowardIs
    <3>6. t \in files' \cup dirs'
      BY <3>3, <3>5 DEF Leads
    <3> QED
      BY <1>3, <3>1, <3>4, <3>6
  <2>6. ASSUME listPc = "stat"
        PROVE  /\ entry # Root /\ Parent(entry) = stack'[1].dir
               /\ (fileType = "dir" \/ entry \notin gone') => entry \in stack'[1].returned
               /\ \A e \in Range(entries) \ gone' : ~Leads(entry, e)
    <3>1. /\ entry # Root /\ Parent(entry) = stack[1].dir
          /\ (fileType = "dir" \/ entry \notin gone) => entry \in stack[1].returned
          /\ \A e \in Range(entries) \ gone : ~Leads(entry, e)
          /\ \/ fileType = "dir" /\ entry \in dirs
             \/ fileType = "link" /\ entry \in links
             \/ fileType = "file" /\ entry \in files \cup gone
      BY <1>1, <2>6 DEF StackInv, WalkInv
    <3>2. 1 \in 1 .. Len(stack)
      BY <2>2
    <3>3. fileType = "dir" \/ entry \notin gone' => entry \in files' \cup dirs' \cup links'
      BY <1>1, <3>1
    <3> QED
      BY <1>3, <1>6, <3>1, <3>2, <3>3
  <2>7. \A i \in 1 .. Len(stack') : stack'[i].dir \in dirs'
    BY <1>1, <1>3, <2>1
  <2> QED
    BY <1>1, <2>3, <2>4, <2>5, <2>6, <2>7 DEF StackInv, Toward, Leads
<1>9. Due' \subseteq Due
  BY <1>1, <1>4 DEF Due, Covered
<1>10. DueInv'
  <2>1. \A k : Awaited(k) => Awaited(k)'
    <3> SUFFICES ASSUME NEW k, Awaited(k) PROVE Awaited(k)'
      OBVIOUS
    <3>1. CASE listPc = "stat" /\ Leads(entry, k)
      BY <1>1, <3>1 DEF Awaited, Leads
    <3>2. CASE \E i \in 1 .. Len(stack) :
                  stack[i].dir \in Above(k) /\ Toward(stack[i].dir, k) \notin stack[i].returned
      <4>1. PICK i \in 1 .. Len(stack) :
               stack[i].dir \in Above(k) /\ Toward(stack[i].dir, k) \notin stack[i].returned
        BY <3>2
      <4>2. /\ i \in 1 .. Len(stack') /\ stack'[i].dir \in Above(k)
            /\ Toward(stack'[i].dir, k) \notin stack'[i].returned
        BY <1>3, <4>1
      <4> QED
        BY <4>2 DEF Awaited, Toward
    <3> QED
      BY <3>1, <3>2 DEF Awaited
  <2>2. \A k : AfterLast(k)' <=> AfterLast(k)
    BY <1>1 DEF AfterLast, Position
  <2> QED
    BY <1>1, <1>9, <2>1, <2>2 DEF DueInv, Position
<1>11. ListExact'
  BY <1>2 DEF ListExact
<1> QED
  BY <1>5, <1>7, <1>8, <1>10, <1>11 DEF ExactInv

\* Each writer's step is such a change.
LEMMA WriterExact ==
    ASSUME ListInv, ExactInv, NEW k \in Keys,
           StageFile(k) \/ PublishFile(k) \/ CancelFile(k) \/ DeleteFile(k)
    PROVE  ExactInv'
<1>1. /\ files \subseteq Known /\ dirs \cap (files \cup links) = {}
      /\ \A p \in files \cup links \cup dirs : Above(p) \subseteq dirs
      /\ links \cap Keys = {}
  BY ListAssumption DEF ExactInv, TreeInv, ListInv, ListTypeOK
<1>2. /\ k \in Known /\ Staging(k) \in Known /\ k \in Paths
      /\ Above(Staging(k)) = Above(k) /\ Staging(k) \notin Above(k)
  BY AboveStaging, KnownPaths DEF Known
<1>3. \A d \in Above(k) : Above(d) \subseteq Above(k)
  BY <1>2, AboveTransitive
<1>4. CASE StageFile(k)
  BY <1>1, <1>2, <1>3, <1>4, ChangeExact DEF StageFile
<1>5. CASE PublishFile(k)
  <2>1. Above(k) \subseteq dirs
    BY <1>1, <1>2, <1>5 DEF PublishFile
  <2> QED
    BY <1>1, <1>2, <1>5, <2>1, ChangeExact DEF PublishFile
<1>6. CASE CancelFile(k)
  BY <1>1, <1>2, <1>6, ChangeExact DEF CancelFile
<1>7. CASE DeleteFile(k)
  BY <1>1, <1>2, <1>7, ChangeExact DEF DeleteFile
<1> QED
  BY <1>4, <1>5, <1>6, <1>7

\* A list that ends leaves nothing to be done but what it answers.
LEMMA AnswerExact ==
    ASSUME NEW a, NEW list \in Seq(Known), Answer(a, list), TreeInv', ListExact'
    PROVE  ExactInv'
<1>1. EntriesInv'
  BY DEF Answer, EntriesInv, Listing
<1> QED
  BY <1>1 DEF Answer, ExactInv, StackInv, DueInv

\* An error has no list.
LEMMA FailExact ==
    ASSUME NEW c, c # "ok", Fail(c), TreeInv'
    PROVE  ExactInv'
<1>1. <<>> \in Seq(Known)
  BY EmptySeq
<1>2. ListExact'
  BY DEF Fail, Answer, ListExact
<1> QED
  BY <1>1, <1>2, AnswerExact DEF Fail

\* While the directory stays, so does what the tree says.
LEMMA TreeStays ==
    ASSUME TreeInv, UNCHANGED <<dirVars, lasting>>, listPc' # "idle"
    PROVE  TreeInv'
BY DEF TreeInv, dirVars

\* What a walk from a single directory, whose entries are all to be read, finds.
LEMMA WalkExact ==
    ASSUME NEW p \in Paths, NEW d \in Paths, NEW f, Walk(d, f), d \in dirs',
           prefix' = p, stack = <<>>, entries = <<>>, answer = "none", TreeInv',
           \/ d = p /\ f = NoFilter
           \/ p # Root /\ d = Parent(p) /\ f = Last(p) /\ f # NoFilter,
           \A k \in Due' : d \in Above(k)
    PROVE  ExactInv'
<1> DEFINE one == [dir |-> d, returned |-> {}]
<1>1. /\ listPc' = "walk" /\ filter' = f /\ entries' = <<>> /\ answer' = "none"
      /\ entry' = entry
  BY DEF Walk
<1>2. stack' = <<one>>
  <2>1. stack' = <<one>> \o <<>>
    BY DEF Walk, Open
  <2>2. <<one>> \in Seq({one})
    OBVIOUS
  <2> HIDE DEF one
  <2> QED
    BY <2>1, <2>2, ConcatEmptySeq
<1>3. /\ Len(stack') = 1 /\ 1 .. Len(stack') = {1} /\ stack'[1] = one
      /\ one.dir = d /\ one.returned = {}
  BY <1>2
<1>4. entries' \in Seq(Known) /\ Range(entries') = {} /\ DOMAIN entries' = {}
  BY <1>1, EmptySeq DEF Range
<1>5. EntriesInv'
  BY <1>1, <1>4 DEF EntriesInv, Once, Listing
<1> HIDE DEF one
<1>6. StackInv'
  <2>1. ~\E i, j \in {1} : i < j
    OBVIOUS
  <2> QED
    BY <1>1, <1>3, <1>4, <2>1 DEF StackInv
<1>7. DueInv'
  <2>1. ASSUME NEW k \in Due'
        PROVE  Awaited(k)'
    BY <1>3, <2>1 DEF Awaited, Toward
  <2> QED
    BY <1>1, <2>1 DEF DueInv
<1>8. ListExact'
  BY <1>1 DEF ListExact
<1> QED
  BY <1>5, <1>6, <1>7, <1>8 DEF ExactInv

\* What has to be listed lies at the prefix or below it, in directories that
\* have been there throughout.
AtOrBelow(k) ==
    /\ k \in Keys /\ k \in files /\ k \in lasting /\ k \in Paths /\ k # Root
    /\ Leads(prefix, k)
    /\ Above(k) \subseteq dirs /\ Above(k) \subseteq lasting
    /\ k \notin dirs /\ k \notin links

DueAtOrBelow == \A k \in Due : AtOrBelow(k)

LEMMA DueLies == ListTypeOK /\ TreeInv => DueAtOrBelow
<1> SUFFICES ASSUME ListTypeOK, TreeInv, NEW k \in Due
             PROVE  AtOrBelow(k)
  BY DEF DueAtOrBelow
<1>1. /\ k \in Keys /\ k \in files /\ k \in lasting /\ k \in Paths
      /\ prefix \in Paths /\ Covered(k)
  BY DEF Due, ListTypeOK
<1>2. Leads(prefix, k)
  BY <1>1, StrictPrefixIs DEF Covered, Leads
<1>3. k # Root /\ k \notin links
  BY <1>1, ListAssumption DEF Root, ListTypeOK
<1> QED
  BY <1>1, <1>2, <1>3 DEF TreeInv, AtOrBelow

\* A list begins with all that it has to have still to be found.
LEMMA BeginExact ==
    ASSUME ListInv, ExactInv, NEW p \in AskedPrefixes, BeginList(p)
    PROVE  ExactInv'
<1>1. /\ p \in Paths /\ prefix' = p /\ listPc = "idle" /\ entries = <<>>
      /\ answer = "none" /\ TreeInv
      /\ UNCHANGED <<listBackend, files, links, dirs, gone, entries, answer>>
      /\ lasting' = files \cup dirs \cup links
      /\ p # Root => Last(p) # NoFilter
      /\ listPc' = IF listBackend = "local" THEN "lookup" ELSE "page"
  BY ListAssumption
  DEF BeginList, Proceed, ListInv, WalkInv, ExactInv, EntriesInv, Paths, dirVars, Root, Last,
      NoFilter
<1>2. TreeInv'
  BY <1>1 DEF TreeInv
<1>3. entries' \in Seq(Known) /\ entries' = <<>> /\ DOMAIN entries' = {}
  BY <1>1, EmptySeq
<1>4. EntriesInv'
  BY <1>1, <1>3 DEF EntriesInv, Once
<1>5. DueInv'
  BY <1>1, <1>3 DEF DueInv, AfterLast
<1> QED
  BY <1>1, <1>2, <1>4, <1>5 DEF ExactInv, StackInv, ListExact

\* A prefix whose links are followed has a last name still.
LEMMA FollowLinkExact ==
    ASSUME ListInv, ExactInv, FollowLink
    PROVE  ExactInv'
<1>1. PICK l \in Above(prefix) \cap (links \ OutsideLinks) :
         prefix' = LinkTarget[l] \o SubSeq(prefix, Len(l) + 1, Len(prefix))
  BY DEF FollowLink
<1>2. /\ listPc = "lookup" /\ prefix \in Paths /\ entries = <<>> /\ answer = "none"
      /\ links \subseteq Links /\ TreeInv
      /\ prefix # Root => Last(prefix) # NoFilter
      /\ UNCHANGED <<dirVars, listPc, entries, answer, lasting>>
  BY DEF FollowLink, ListInv, ListTypeOK, WalkInv, ExactInv, EntriesInv
<1>3. LinkTarget[l] \in Paths
  BY <1>2, TargetIs
<1>4. Last(prefix') = Last(prefix)
  BY <1>1, <1>2, <1>3, FollowedPath
<1>5. prefix # Root
  <2>1. Above(Root) = {}
    BY DEF Above, Root
  <2> QED
    BY <1>1, <2>1
<1>6. TreeInv'
  BY <1>2, TreeStays
<1>7. entries' \in Seq(Known) /\ entries' = <<>> /\ DOMAIN entries' = {}
  BY <1>2, EmptySeq
<1>8. EntriesInv'
  BY <1>2, <1>4, <1>5, <1>7 DEF EntriesInv, Once
<1> QED
  BY <1>2, <1>6, <1>8 DEF ExactInv, StackInv, DueInv, ListExact

\* What the prefix names has all that has to be listed.
LEMMA LookUpExact ==
    ASSUME ListInv, ExactInv, LookUp
    PROVE  ExactInv'
<1>1. /\ listPc = "lookup" /\ ListTypeOK /\ prefix \in Paths /\ stack = <<>>
      /\ answer = "none" /\ entries = <<>> /\ links \subseteq Links /\ dirs \subseteq Paths
      /\ Root \in dirs /\ TreeInv
      /\ prefix # Root => Last(prefix) # NoFilter
      /\ UNCHANGED <<dirVars, lasting>>
  BY DEF LookUp, ListInv, ListTypeOK, WalkInv, ExactInv, EntriesInv
<1>2. listPc' # "idle" /\ TreeInv'
  <2>1. listPc' # "idle"
    BY DEF LookUp, OutsideList, LocalList, ListMissing, Walk, Proceed, Fail, Answer
  <2> QED
    BY <1>1, <2>1, TreeStays
<1>3. ListTypeOK'
  BY LookUpInv DEF ListInv
<1>4. ASSUME NEW k \in Due'
      PROVE  /\ k \in Paths /\ k # Root /\ Leads(prefix', k)
             /\ Above(k) \subseteq dirs /\ k \in files /\ k \notin dirs /\ k \notin links
  <2>1. (ListTypeOK /\ TreeInv => DueAtOrBelow)'
    BY DueLies, PTL
  <2> QED
    BY <1>1, <1>2, <1>3, <1>4, <2>1 DEF Leads, AtOrBelow, DueAtOrBelow, dirVars
<1>5. ASSUME Answer("ok", <<>>), Due' = {}
      PROVE  ExactInv'
  <2>1. <<>> \in Seq(Known) /\ entries' = <<>> /\ DOMAIN entries' = {}
    BY <1>5, EmptySeq DEF Answer
  <2>2. ListExact'
    BY <1>5, <2>1 DEF ListExact, Due
  <2> QED
    BY <1>2, <1>5, <2>1, <2>2, AnswerExact
<1> DEFINE out == (Above(prefix) \cup {prefix}) \cap links \cap OutsideLinks
<1>6. CASE out # {}
  <2>1. /\ UNCHANGED prefix
        /\ Fail("permission_denied") \/ Answer("ok", <<>>) \/ Fail("native_failure")
    BY <1>6 DEF LookUp, OutsideList
  <2>2. PICK l \in out : TRUE
    BY <1>6
  <2>3. l \in links /\ l \notin dirs /\ Leads(l, prefix)
    BY <1>1, <2>2 DEF TreeInv, Leads
  <2>4. Due' = {}
    <3> SUFFICES ASSUME NEW k \in Due' PROVE FALSE
      OBVIOUS
    <3>1. /\ k \in Paths /\ Leads(prefix, k) /\ Above(k) \subseteq dirs /\ k \notin links
      BY <1>4, <2>1
    <3>2. Leads(l, k)
      BY <2>3, <3>1, AboveTransitive DEF Leads
    <3> QED
      BY <2>3, <3>1, <3>2 DEF Leads
  <2> QED
    BY <1>2, <1>5, <2>1, <2>4, FailExact
<1>7. CASE out = {}
  <2>0. LocalList
    BY <1>7 DEF LookUp
  <2>1. Target \in Paths
    BY <1>1, <1>7, TargetIs DEF Target
  <2>2. CASE Target \in dirs /\ prefix' = Target /\ Walk(Target, NoFilter)
    <3>1. \A k \in Due' : Target \in Above(k)
      BY <1>4, <2>2 DEF Leads
    <3>2. Target \in dirs'
      BY <1>1, <2>2 DEF dirVars
    <3> QED
      BY <1>1, <1>2, <2>1, <2>2, <3>1, <3>2, WalkExact
  <2>3. CASE Target \in files /\ prefix' = Target /\ Proceed("head")
    <3>1. listPc' = "head" /\ entries' = <<>> /\ answer' = "none"
      BY <1>1, <2>3 DEF Proceed
    <3>2. entries' \in Seq(Known) /\ DOMAIN entries' = {}
      BY <3>1, EmptySeq
    <3>3. EntriesInv'
      BY <3>1, <3>2 DEF EntriesInv, Once
    <3> QED
      BY <1>2, <3>1, <3>3 DEF ExactInv, StackInv, DueInv, ListExact
  <2>4. CASE Fail("native_failure")
    BY <1>2, <2>4, FailExact
  <2>5. CASE Target \notin files \cup dirs /\ UNCHANGED prefix /\ ListMissing(prefix)
    <3>1. prefix # Root
      BY <1>1, <2>5 DEF Target, TreeInv
    <3>2. \A k \in Due' : Parent(prefix) \in Above(k)
      BY <1>1, <1>4, <2>5, <3>1, TowardEntry
    <3>3. CASE Parent(prefix) \in dirs
      <4>1. Walk(Parent(prefix), Last(prefix))
        BY <2>5, <3>3 DEF ListMissing
      <4>2. Parent(prefix) \in Paths /\ Parent(prefix) \in dirs'
        BY <1>1, <3>3 DEF dirVars
      <4> QED
        BY <1>1, <1>2, <2>5, <3>1, <3>2, <4>1, <4>2, WalkExact
    <3>4. CASE Parent(prefix) \notin dirs
      <4>1. Answer("ok", <<>>)
        BY <2>5, <3>4 DEF ListMissing
      <4>2. Due' = {}
        BY <1>4, <3>2, <3>4
      <4> QED
        BY <1>5, <4>1, <4>2
    <3> QED
      BY <3>3, <3>4
  <2> QED
    BY <2>0, <2>2, <2>3, <2>4, <2>5 DEF LocalList
<1> QED
  BY <1>6, <1>7

\* The prefix is a file: nothing else has to be listed.
LEMMA HeadExact ==
    ASSUME ListInv, ExactInv, HeadPrefix
    PROVE  ExactInv'
<1>1. /\ TreeInv /\ ListTypeOK /\ UNCHANGED <<dirVars, prefix, lasting>>
      /\ prefix \in Paths /\ files \subseteq Known
  BY DEF HeadPrefix, ExactInv, TreeInv, ListInv, ListTypeOK
<1>2. TreeInv'
  BY <1>1, TreeStays DEF HeadPrefix, NoFile, Fail, Answer
<1>3. CASE prefix \in files
  <2>1. Answer("ok", <<prefix>>)
    BY <1>3 DEF HeadPrefix
  <2>2. /\ <<prefix>> \in Seq(Known) /\ DOMAIN <<prefix>> = {1}
        /\ <<prefix>>[1] = prefix
    BY <1>1, <1>3
  <2>3. entries' = <<prefix>> /\ prefix' = prefix /\ files' = files
    BY <1>1, <2>1 DEF Answer, dirVars
  <2>4. BeginsWith(prefix, prefix)
    BY <1>1, LeadsBegins DEF Leads
  <2>5. \A k \in Due : k = prefix
    BY <1>1, <1>3, DueLies DEF AtOrBelow, DueAtOrBelow, Leads, TreeInv
  <2>6. Due' = Due
    BY <1>1 DEF Due, Covered, dirVars
  <2>7. prefix \in Range(entries')
    BY <2>2, <2>3 DEF Range
  <2>8. \A k \in Due' : k \in Range(entries')
    BY <2>5, <2>6, <2>7
  <2>9. /\ \A i \in DOMAIN entries' : i = 1 /\ entries'[i] = prefix
        /\ BeginsWith(prefix, prefix)'
    BY <2>2, <2>3, <2>4 DEF BeginsWith
  <2>10. ListExact'
    <3>1. \A i \in DOMAIN entries' : BeginsWith(entries[i], prefix)'
      BY <2>9, <2>3, <2>4 DEF BeginsWith
    <3>2. \A i, j \in DOMAIN entries' : ~(i < j)
      BY <2>9
    <3> QED
      BY <1>3, <2>3, <2>8, <2>9, <3>1, <3>2 DEF ListExact, Due
  <2> QED
    BY <1>2, <2>1, <2>2, <2>10, AnswerExact
<1>4. CASE prefix \notin files
  BY <1>2, <1>4, FailExact DEF HeadPrefix, NoFile
<1> QED
  BY <1>3, <1>4

\* The walk has come to the entry at hand through entries it has been given.
LEMMA EntryReached ==
    ASSUME ListInv, ExactInv, listPc = "stat"
    PROVE  /\ entry \in Paths /\ entry # Root /\ Len(stack) \in Nat \ {0}
           /\ \A i \in 1 .. Len(stack) :
                 /\ stack[i].dir \in Above(entry)
                 /\ (fileType = "dir" \/ entry \notin gone) =>
                       Toward(stack[i].dir, entry) \in stack[i].returned
<1>1. /\ entry \in Paths /\ entry # Root /\ Parent(entry) = stack[1].dir
      /\ (fileType = "dir" \/ entry \notin gone) => entry \in stack[1].returned
      /\ stack # <<>>
      /\ \A i, j \in 1 .. Len(stack) : i < j =>
            /\ stack[j].dir \in Above(stack[i].dir)
            /\ Toward(stack[j].dir, stack[i].dir) \in stack[j].returned
  BY DEF ListInv, ListTypeOK, WalkInv, ExactInv, StackInv
<1>2. Len(stack) \in Nat \ {0}
  BY <1>1, EmptySeq DEF ListInv, ListTypeOK
<1>3. /\ stack[1].dir \in Above(entry)
      /\ Toward(stack[1].dir, entry) = entry
  BY <1>1, TowardEntry DEF Leads
<1>4. ASSUME NEW i \in 1 .. Len(stack)
      PROVE  /\ stack[i].dir \in Above(entry)
             /\ (fileType = "dir" \/ entry \notin gone) =>
                   Toward(stack[i].dir, entry) \in stack[i].returned
  <2>1. CASE i = 1
    BY <1>1, <1>3, <2>1
  <2>2. CASE i # 1
    <3>1. 1 < i /\ 1 \in 1 .. Len(stack)
      BY <1>2, <2>2
    <3>2. /\ stack[i].dir \in Above(stack[1].dir)
          /\ Toward(stack[i].dir, stack[1].dir) \in stack[i].returned
      BY <1>1, <3>1
    <3> QED
      BY <1>1, <1>3, <3>2, TowardBelow
  <2> QED
    BY <2>1, <2>2
<1> QED
  BY <1>1, <1>2, <1>4

\* readdir returns an entry that has led to nothing yet.
LEMMA ReadEntryExact ==
    ASSUME ListInv, ExactInv, ReadEntry
    PROVE  ExactInv'
<1>1. PICK p \in Children(Top.dir) \ Top.returned :
         /\ entry' = p
         /\ stack' = [stack EXCEPT ![1].returned = @ \cup {p}]
  BY DEF ReadEntry
<1>2. /\ listPc = "walk" /\ listPc' = "stat" /\ stack # <<>> /\ answer = "none"
      /\ UNCHANGED <<dirVars, prefix, filter, entries, answer, lasting>>
      /\ ListTypeOK /\ stack \in Seq(Frame)
  BY DEF ReadEntry, ListInv, WalkInv, ListTypeOK
<1>3. /\ Len(stack) \in Nat \ {0} /\ 1 \in 1 .. Len(stack) /\ Top = stack[1]
      /\ stack[1] \in Frame
  BY <1>2, EmptySeq, StackPaths DEF Top
<1>4. /\ p \in Paths /\ p # Root /\ Parent(p) = stack[1].dir
      /\ p \notin stack[1].returned
  BY <1>1, <1>2, <1>3, ListAssumption DEF Children, ListTypeOK, Paths
<1>5. /\ Len(stack') = Len(stack)
      /\ \A i \in 1 .. Len(stack) :
            /\ stack'[i].dir = stack[i].dir
            /\ stack'[i].returned =
                  IF i = 1 THEN stack[1].returned \cup {p} ELSE stack[i].returned
  <2> DEFINE f == [stack[1] EXCEPT !.returned = @ \cup {p}]
  <2>1. f \in Frame /\ f.dir = stack[1].dir /\ f.returned = stack[1].returned \cup {p}
    BY <1>3, <1>4 DEF Frame
  <2>2. stack' = [stack EXCEPT ![1] = f]
    BY <1>1
  <2> HIDE DEF f
  <2>3. /\ stack' \in Seq(Frame) /\ Len(stack') = Len(stack)
        /\ \A j \in 1 .. Len(stack) : stack'[j] = IF j = 1 THEN f ELSE stack[j]
    BY <1>2, <1>3, <2>1, <2>2, ExceptSeq
  <2> QED
    BY <2>1, <2>3
<1>6. /\ \A i \in 1 .. Len(stack) : stack[i].returned \subseteq stack'[i].returned
      /\ p \in stack'[1].returned
  BY <1>3, <1>5
<1>7. TreeInv'
  BY <1>2, TreeStays DEF ExactInv
<1>8. EntriesInv'
  BY <1>2 DEF ExactInv, EntriesInv, Once, Listing, BeginsWith, dirVars
<1>9. Range(entries) \subseteq Paths
  <2>1. entries \in Seq(Known)
    BY DEF ExactInv, EntriesInv
  <2>2. \A i \in DOMAIN entries : entries[i] \in Known
    BY <2>1, LenProperties, ElementOfSeq
  <2> QED
    BY <2>2, KnownPaths DEF Range
<1>10. ASSUME NEW e \in Range(entries) \ gone
       PROVE  ~Leads(p, e)
  <2>1. stack[1].dir \in Above(e) => Toward(stack[1].dir, e) \in stack[1].returned
    BY <1>2, <1>3 DEF ExactInv, StackInv
  <2>2. Leads(p, e) => stack[1].dir \in Above(e) /\ Toward(stack[1].dir, e) = p
    BY <1>4, <1>9, TowardEntry
  <2> QED
    BY <1>4, <2>1, <2>2
<1>11. StackInv'
  <2>1. /\ \/ stack[Len(stack)].dir = prefix /\ filter = NoFilter
           \/ /\ prefix # Root /\ stack[Len(stack)].dir = Parent(prefix)
              /\ filter = Last(prefix) /\ filter # NoFilter
        /\ \A i, j \in 1 .. Len(stack) : i < j =>
              /\ stack[j].dir \in Above(stack[i].dir)
              /\ Toward(stack[j].dir, stack[i].dir) \in stack[j].returned
        /\ \A i \in 1 .. Len(stack) : stack[i].dir \in dirs
        /\ \A e \in Range(entries) \ gone : \A i \in 1 .. Len(stack) :
              stack[i].dir \in Above(e) => Toward(stack[i].dir, e) \in stack[i].returned
    BY <1>2 DEF ExactInv, StackInv
  <2>2. Len(stack) \in 1 .. Len(stack)
    BY <1>3
  <2>3. \/ stack'[Len(stack')].dir = prefix' /\ filter' = NoFilter
        \/ /\ prefix' # Root /\ stack'[Len(stack')].dir = Parent(prefix')
           /\ filter' = Last(prefix') /\ filter' # NoFilter
    BY <1>2, <1>5, <2>1, <2>2
  <2>4. \A i, j \in 1 .. Len(stack') : i < j =>
           /\ stack'[j].dir \in Above(stack'[i].dir)
           /\ Toward(stack'[j].dir, stack'[i].dir) \in stack'[j].returned
    BY <1>5, <1>6, <2>1
  <2>5. \A e \in Range(entries') \ gone' : \A i \in 1 .. Len(stack') :
           stack'[i].dir \in Above(e) => Toward(stack'[i].dir, e) \in stack'[i].returned
    BY <1>2, <1>5, <1>6, <2>1 DEF dirVars
  <2>6. /\ entry' = p /\ Parent(p) = stack'[1].dir /\ Range(entries') = Range(entries)
        /\ gone' = gone
    BY <1>1, <1>2, <1>3, <1>4, <1>5 DEF dirVars
  <2>7. \A i \in 1 .. Len(stack') : stack'[i].dir \in dirs'
    BY <1>2, <1>5, <2>1 DEF dirVars
  <2> QED
    BY <1>2, <1>4, <1>6, <1>10, <2>3, <2>4, <2>5, <2>6, <2>7 DEF StackInv, Toward, Leads
<1>12. DueInv'
  <2>1. Due' = Due
    BY <1>2 DEF Due, Covered, dirVars
  <2>2. ASSUME NEW k \in Due, k \notin Range(entries)
        PROVE  Awaited(k)'
    <3>1. PICK i \in 1 .. Len(stack) :
             stack[i].dir \in Above(k) /\ Toward(stack[i].dir, k) \notin stack[i].returned
      BY <1>2, <2>2 DEF ExactInv, DueInv, Awaited
    <3>2. CASE Toward(stack[i].dir, k) \notin stack'[i].returned
      BY <1>5, <3>1, <3>2 DEF Awaited, Toward
    <3>3. CASE Toward(stack[i].dir, k) \in stack'[i].returned
      <4>1. Toward(stack[i].dir, k) = p
        BY <1>5, <3>1, <3>3
      <4>2. k \in Paths
        BY <1>2 DEF Due, ListTypeOK
      <4>3. Leads(p, k)
        BY <3>1, <4>1, <4>2, TowardIs
      <4> QED
        BY <1>1, <1>2, <4>3 DEF Awaited, Leads
    <3> QED
      BY <3>2, <3>3
  <2> QED
    BY <1>2, <2>1, <2>2 DEF DueInv
<1>13. ListExact'
  BY <1>2 DEF ListExact
<1> QED
  BY <1>7, <1>8, <1>11, <1>12, <1>13 DEF ExactInv

\* A directory is done when all that was there throughout has been returned.
LEMMA EndDirectoryExact ==
    ASSUME ListInv, ExactInv, EndDirectory
    PROVE  ExactInv'
<1>1. /\ listPc = "walk" /\ stack # <<>> /\ stack' = Tail(stack) /\ answer = "none"
      /\ listPc' = IF Len(stack) = 1 THEN "sort" ELSE "walk"
      /\ UNCHANGED <<dirVars, prefix, filter, entry, entries, answer, lasting>>
      /\ ListTypeOK /\ stack \in Seq(Frame)
      /\ Children(Top.dir) \cap lasting \subseteq Top.returned
  BY DEF EndDirectory, ListInv, WalkInv, ListTypeOK
<1>2. /\ Len(stack) \in Nat \ {0} /\ Top = stack[1]
      /\ Len(stack') = Len(stack) - 1
      /\ \A i \in 1 .. Len(stack') : stack'[i] = stack[i + 1]
  BY <1>1, EmptySeq, HeadTailProperties DEF Top
<1>3. \A i \in 1 .. Len(stack') : i + 1 \in 1 .. Len(stack)
  BY <1>2
<1>4. TreeInv'
  BY <1>1, TreeStays DEF ExactInv
<1>5. EntriesInv'
  BY <1>1 DEF ExactInv, EntriesInv, Once, Listing, BeginsWith, dirVars
<1>6. StackInv'
  <2>1. CASE Len(stack) = 1
    BY <1>1, <2>1 DEF StackInv
  <2>2. CASE Len(stack) # 1
    <3>1. /\ \/ stack[Len(stack)].dir = prefix /\ filter = NoFilter
             \/ /\ prefix # Root /\ stack[Len(stack)].dir = Parent(prefix)
                /\ filter = Last(prefix) /\ filter # NoFilter
          /\ \A i, j \in 1 .. Len(stack) : i < j =>
                /\ stack[j].dir \in Above(stack[i].dir)
                /\ Toward(stack[j].dir, stack[i].dir) \in stack[j].returned
          /\ \A i \in 1 .. Len(stack) : stack[i].dir \in dirs
          /\ \A e \in Range(entries) \ gone : \A i \in 1 .. Len(stack) :
                stack[i].dir \in Above(e) => Toward(stack[i].dir, e) \in stack[i].returned
      BY <1>1 DEF ExactInv, StackInv
    <3>2. Len(stack') \in 1 .. Len(stack') /\ Len(stack') + 1 = Len(stack)
      BY <1>2, <2>2
    <3>3. stack'[Len(stack')] = stack[Len(stack)]
      BY <1>2, <3>2
    <3>4. \A i, j \in 1 .. Len(stack') : i < j => i + 1 < j + 1
      OBVIOUS
    <3>5. \A i, j \in 1 .. Len(stack') : i < j =>
             /\ stack'[j].dir \in Above(stack'[i].dir)
             /\ Toward(stack'[j].dir, stack'[i].dir) \in stack'[j].returned
      BY <1>2, <1>3, <3>1, <3>4
    <3>6. \A e \in Range(entries') \ gone' : \A i \in 1 .. Len(stack') :
             stack'[i].dir \in Above(e) => Toward(stack'[i].dir, e) \in stack'[i].returned
      BY <1>1, <1>2, <1>3, <3>1 DEF dirVars
    <3>7. \A i \in 1 .. Len(stack') : stack'[i].dir \in dirs'
      BY <1>1, <1>2, <1>3, <3>1 DEF dirVars
    <3> QED
      BY <1>1, <2>2, <3>1, <3>3, <3>5, <3>6, <3>7 DEF StackInv, Toward
  <2> QED
    BY <2>1, <2>2
<1>7. Due' = Due /\ Range(entries') = Range(entries)
  BY <1>1 DEF Due, Covered, dirVars
<1>8. ASSUME NEW k \in Due, k \notin Range(entries)
      PROVE  \E i \in 1 .. Len(stack') :
                stack'[i].dir \in Above(k) /\ Toward(stack'[i].dir, k) \notin stack'[i].returned
  <2>1. PICK i \in 1 .. Len(stack) :
           stack[i].dir \in Above(k) /\ Toward(stack[i].dir, k) \notin stack[i].returned
    BY <1>1, <1>8 DEF ExactInv, DueInv, Awaited
  <2>2. i # 1
    <3> SUFFICES ASSUME i = 1 PROVE FALSE
      OBVIOUS
    <3> DEFINE t == Toward(stack[1].dir, k)
    <3>1. AtOrBelow(k)
      BY <1>1, DueLies DEF ExactInv, DueAtOrBelow
    <3>2. /\ t \in Paths /\ t # Root /\ Parent(t) = stack[1].dir /\ Leads(t, k)
      BY <2>1, <3>1, TowardIs DEF AtOrBelow
    <3>3. t \in files \cup dirs /\ t \in lasting
      BY <3>1, <3>2 DEF AtOrBelow, Leads
    <3>4. t \in Children(stack[1].dir)
      BY <3>2, <3>3 DEF Children
    <3> QED
      BY <1>1, <1>2, <2>1, <3>3, <3>4
  <2>3. i - 1 \in 1 .. Len(stack') /\ (i - 1) + 1 = i
    BY <1>2, <2>2
  <2>4. stack'[i - 1] = stack[i]
    BY <1>2, <2>3
  <2> QED
    BY <2>1, <2>3, <2>4
<1>9. DueInv'
  <2>1. CASE Len(stack) = 1
    <3>1. 1 .. Len(stack') = {}
      BY <1>2, <2>1
    <3> QED
      BY <1>1, <1>7, <1>8, <2>1, <3>1 DEF DueInv
  <2>2. CASE Len(stack) # 1
    <3>1. \A k \in Due : k \in Range(entries) \/ Awaited(k)'
      BY <1>8 DEF Awaited, Toward
    <3> QED
      BY <1>1, <1>7, <2>2, <3>1 DEF DueInv
  <2> QED
    BY <2>1, <2>2
<1>10. ListExact'
  BY <1>1 DEF ListExact
<1> QED
  BY <1>4, <1>5, <1>6, <1>9, <1>10 DEF ExactInv

\* The walk goes on past an entry that leads to nothing that has to be listed,
\* with or without listing it.
LEMMA PastEntryExact ==
    ASSUME ListInv, ExactInv, listPc = "stat", listPc' = "walk",
           UNCHANGED <<dirVars, prefix, lasting, stack, filter, answer>>,
           \/ entries' = entries
           \/ /\ entries' = Append(entries, entry) /\ entry \in files
              /\ BeginsWith(entry, prefix),
           \A k \in Due : Leads(entry, k) => k \in Range(entries')
    PROVE  ExactInv'
<1>1. /\ answer = "none" /\ entries \in Seq(Known) /\ Once
      /\ \A i \in DOMAIN entries :
            entries[i] \in files \cup gone /\ BeginsWith(entries[i], prefix)
      /\ files \subseteq Known /\ ListTypeOK
  BY DEF ListInv, WalkInv, ExactInv, TreeInv, EntriesInv, Listing
<1>2. /\ entry \in Paths /\ entry # Root /\ Len(stack) \in Nat \ {0}
      /\ \A i \in 1 .. Len(stack) :
            /\ stack[i].dir \in Above(entry)
            /\ entry \notin gone => Toward(stack[i].dir, entry) \in stack[i].returned
  BY EntryReached
<1>3. DOMAIN entries = 1 .. Len(entries) /\ Len(entries) \in Nat
  BY <1>1, LenProperties
<1>4. entry \notin gone => entry \notin Range(entries)
  BY DEF ExactInv, StackInv, Leads
<1>5. /\ entries' \in Seq(Known) /\ Once'
      /\ \A i \in DOMAIN entries' :
            entries'[i] \in files \cup gone /\ BeginsWith(entries'[i], prefix)
      /\ Range(entries) \subseteq Range(entries')
      /\ Range(entries') \subseteq Range(entries) \cup {entry}
  <2>1. CASE entries' = entries
    BY <1>1, <2>1 DEF Once, dirVars
  <2>2. CASE entries' = Append(entries, entry) /\ entry \in files
             /\ BeginsWith(entry, prefix)
    <3>1. /\ entries' \in Seq(Known) /\ Len(entries') = Len(entries) + 1
          /\ \A i \in 1 .. Len(entries) : entries'[i] = entries[i]
          /\ entries'[Len(entries) + 1] = entry
      BY <1>1, <2>2, AppendProperties
    <3>2. DOMAIN entries' = 1 .. Len(entries) + 1
      BY <3>1, LenProperties
    <3>3. \A i \in DOMAIN entries' : i \in DOMAIN entries \/ i = Len(entries) + 1
      BY <1>3, <3>2
    <3>4. \A i \in DOMAIN entries : i \in DOMAIN entries' /\ entries'[i] = entries[i]
      BY <1>3, <3>1, <3>2
    <3>5. \A i \in DOMAIN entries : entries[i] = entry => entry \in gone
      BY <1>4 DEF Range
    <3>6. Once'
      BY <1>1, <3>1, <3>3, <3>4, <3>5 DEF Once, dirVars
    <3>7. \A i \in DOMAIN entries' :
             entries'[i] \in files \cup gone /\ BeginsWith(entries'[i], prefix)
      BY <1>1, <2>2, <3>1, <3>3, <3>4
    <3>8. /\ Range(entries) \subseteq Range(entries')
          /\ Range(entries') \subseteq Range(entries) \cup {entry}
      BY <3>1, <3>3, <3>4 DEF Range
    <3> QED
      BY <3>1, <3>6, <3>7, <3>8
  <2> QED
    BY <2>1, <2>2
<1>6. TreeInv'
  BY TreeStays DEF ExactInv
<1>7. EntriesInv'
  <2>1. \A i \in DOMAIN entries' : BeginsWith(entries[i], prefix)'
    BY <1>5 DEF BeginsWith
  <2> QED
    BY <1>5, <2>1 DEF EntriesInv, Listing, dirVars
<1>8. StackInv'
  <2>1. \A e \in Range(entries') \ gone : \A i \in 1 .. Len(stack) :
           stack[i].dir \in Above(e) => Toward(stack[i].dir, e) \in stack[i].returned
    BY <1>2, <1>5 DEF ExactInv, StackInv
  <2> QED
    BY <2>1 DEF ExactInv, StackInv, Toward, dirVars
<1>9. DueInv'
  <2>1. Due' = Due
    BY DEF Due, Covered, dirVars
  <2>2. \A k \in Due : k \in Range(entries') \/ Awaited(k)'
    BY <1>5 DEF ExactInv, DueInv, Awaited, Toward
  <2> QED
    BY <2>1, <2>2 DEF DueInv
<1>10. ListExact'
  BY <1>1 DEF ListExact
<1> QED
  BY <1>6, <1>7, <1>8, <1>9, <1>10 DEF ExactInv

\* A directory is opened on the way to what lies below it.
LEMMA VisitDirectoryExact ==
    ASSUME ListInv, ExactInv, listPc = "stat", VisitDirectory,
           UNCHANGED <<dirVars, prefix, lasting>>
    PROVE  ExactInv'
<1> DEFINE new == [dir |-> entry, returned |-> {}]
           one == <<new>>
<1>1. /\ listPc' = "walk" /\ entry \in dirs /\ stack' = one \o stack /\ answer = "none"
      /\ UNCHANGED <<filter, entries, answer>> /\ ListTypeOK
  BY DEF VisitDirectory, NextEntry, Open, ListInv, WalkInv
<1>2. /\ entry \in Paths /\ entry # Root /\ Len(stack) \in Nat \ {0}
      /\ \A i \in 1 .. Len(stack) :
            /\ stack[i].dir \in Above(entry)
            /\ Toward(stack[i].dir, entry) \in stack[i].returned
  BY EntryReached DEF VisitDirectory
<1>3. /\ Len(stack') = Len(stack) + 1 /\ stack'[1] = new
      /\ \A i \in 1 .. Len(stack) : stack'[i + 1] = stack[i]
  <2>1. new \in Frame
    BY <1>2 DEF Frame
  <2>2. one \in Seq(Frame) /\ Len(one) = 1 /\ one[1] = new
    BY <2>1
  <2> HIDE DEF one, new
  <2>3. stack \in Seq(Frame)
    BY <1>1 DEF ListTypeOK
  <2>4. /\ Len(one \o stack) = Len(one) + Len(stack)
        /\ \A i \in 1 .. Len(one) + Len(stack) :
              (one \o stack)[i] = IF i <= Len(one) THEN one[i] ELSE stack[i - Len(one)]
    BY <2>2, <2>3, ConcatProperties
  <2>5. \A i \in 1 .. Len(stack) :
           i + 1 \in 1 .. 1 + Len(stack) /\ ~(i + 1 <= 1) /\ (i + 1) - 1 = i
    BY <1>2
  <2>6. 1 \in 1 .. 1 + Len(stack)
    BY <1>2
  <2>7. stack'[1] = new
    BY <1>1, <2>2, <2>4, <2>6
  <2>8. \A i \in 1 .. Len(stack) : stack'[i + 1] = stack[i]
    BY <1>1, <2>2, <2>4, <2>5
  <2>9. Len(stack') = Len(stack) + 1
    BY <1>1, <1>2, <2>2, <2>4
  <2> QED
    BY <2>7, <2>8, <2>9
<1>4. new.dir = entry /\ new.returned = {}
  OBVIOUS
<1> HIDE DEF one, new
<1>5. \A i \in 1 .. Len(stack') : i # 1 => i - 1 \in 1 .. Len(stack) /\ stack'[i] = stack[i - 1]
  <2>1. \A i \in 1 .. Len(stack') : i # 1 => i - 1 \in 1 .. Len(stack) /\ (i - 1) + 1 = i
    BY <1>2, <1>3
  <2> QED
    BY <1>3, <2>1
<1>6. TreeInv'
  BY <1>1, TreeStays DEF ExactInv
<1>7. EntriesInv'
  BY <1>1 DEF ExactInv, EntriesInv, Once, Listing, BeginsWith, dirVars
<1>8. StackInv'
  <2>1. /\ \/ stack[Len(stack)].dir = prefix /\ filter = NoFilter
           \/ /\ prefix # Root /\ stack[Len(stack)].dir = Parent(prefix)
              /\ filter = Last(prefix) /\ filter # NoFilter
        /\ \A i, j \in 1 .. Len(stack) : i < j =>
              /\ stack[j].dir \in Above(stack[i].dir)
              /\ Toward(stack[j].dir, stack[i].dir) \in stack[j].returned
        /\ \A i \in 1 .. Len(stack) : stack[i].dir \in dirs
        /\ \A e \in Range(entries) \ gone : \A i \in 1 .. Len(stack) :
              stack[i].dir \in Above(e) => Toward(stack[i].dir, e) \in stack[i].returned
        /\ \A e \in Range(entries) \ gone : ~Leads(entry, e)
    BY DEF ExactInv, StackInv
  <2>2. stack'[Len(stack')] = stack[Len(stack)]
    <3>1. Len(stack) \in 1 .. Len(stack)
      BY <1>2
    <3> QED
      BY <1>3, <3>1
  <2>3. ASSUME NEW i \in 1 .. Len(stack'), NEW j \in 1 .. Len(stack'), i < j
        PROVE  /\ stack'[j].dir \in Above(stack'[i].dir)
               /\ Toward(stack'[j].dir, stack'[i].dir) \in stack'[j].returned
    <3>1. j # 1 /\ j - 1 \in 1 .. Len(stack) /\ stack'[j] = stack[j - 1]
      BY <1>2, <1>3, <1>5, <2>3
    <3>2. CASE i = 1
      BY <1>2, <1>3, <1>4, <3>1, <3>2
    <3>3. CASE i # 1
      <4>1. i - 1 \in 1 .. Len(stack) /\ stack'[i] = stack[i - 1] /\ i - 1 < j - 1
        BY <1>2, <1>3, <1>5, <2>3, <3>3
      <4> QED
        BY <2>1, <3>1, <4>1
    <3> QED
      BY <3>2, <3>3
  <2>4. ASSUME NEW e \in Range(entries') \ gone', NEW i \in 1 .. Len(stack'),
               stack'[i].dir \in Above(e)
        PROVE  Toward(stack'[i].dir, e) \in stack'[i].returned
    <3>1. e \in Range(entries) \ gone
      BY <1>1 DEF dirVars
    <3>2. i # 1
      BY <1>3, <1>4, <2>1, <2>4, <3>1 DEF Leads
    <3> QED
      BY <1>5, <2>1, <2>4, <3>1, <3>2
  <2>5. \A i \in 1 .. Len(stack') : stack'[i].dir \in dirs'
    BY <1>1, <1>3, <1>4, <1>5, <2>1 DEF dirVars
  <2> QED
    BY <1>1, <2>1, <2>2, <2>3, <2>4, <2>5 DEF StackInv, Toward
<1>9. DueInv'
  <2>1. Due' = Due
    BY <1>1 DEF Due, Covered, dirVars
  <2>2. ASSUME NEW k \in Due, k \notin Range(entries)
        PROVE  Awaited(k)'
    <3>1. CASE Leads(entry, k)
      <4>1. k \notin dirs
        BY <1>1, DueLies DEF ExactInv, AtOrBelow, DueAtOrBelow
      <4>2. entry \in Above(k)
        BY <1>1, <3>1, <4>1 DEF Leads
      <4>3. 1 \in 1 .. Len(stack')
        BY <1>2, <1>3
      <4> QED
        BY <1>3, <1>4, <4>2, <4>3 DEF Awaited
    <3>2. CASE ~Leads(entry, k)
      <4>1. PICK i \in 1 .. Len(stack) :
               stack[i].dir \in Above(k) /\ Toward(stack[i].dir, k) \notin stack[i].returned
        BY <2>2, <3>2 DEF ExactInv, DueInv, Awaited
      <4>2. i + 1 \in 1 .. Len(stack') /\ stack'[i + 1] = stack[i]
        BY <1>2, <1>3
      <4> QED
        BY <4>1, <4>2 DEF Awaited, Toward
    <3> QED
      BY <3>1, <3>2
  <2> QED
    BY <1>1, <2>1, <2>2 DEF DueInv
<1>10. ListExact'
  BY <1>1 DEF ListExact
<1> QED
  BY <1>6, <1>7, <1>8, <1>9, <1>10 DEF ExactInv

\* The filter takes what begins with the prefix, and all that lies at it.
LEMMA TakesIs ==
    ASSUME ListInv, ExactInv, listPc = "stat"
    PROVE  /\ Takes(entry) => BeginsWith(entry, prefix)
           /\ Leads(prefix, entry) => Takes(entry)
<1> DEFINE base == stack[Len(stack)].dir
<1>1. /\ entry \in Paths /\ entry # Root /\ Len(stack) \in Nat \ {0}
      /\ base \in Above(entry) /\ prefix \in Paths
  <2>1. /\ entry \in Paths /\ entry # Root /\ Len(stack) \in Nat \ {0}
        /\ \A i \in 1 .. Len(stack) : stack[i].dir \in Above(entry)
    BY EntryReached
  <2>2. Len(stack) \in 1 .. Len(stack)
    BY <2>1
  <2> QED
    BY <2>1, <2>2 DEF ListInv, ListTypeOK
<1>2. Takes(entry) <=>
         LET name == entry[Len(base) + 1]
         IN  filter \in {NoFilter, name} \/ <<name, filter>> \in Extends
  BY DEF Takes, Last
<1>3. \/ base = prefix /\ filter = NoFilter
      \/ /\ prefix # Root /\ base = Parent(prefix)
         /\ filter = Last(prefix) /\ filter # NoFilter
  BY DEF ExactInv, StackInv
<1> HIDE DEF base
<1>4. CASE base = prefix /\ filter = NoFilter
  BY <1>1, <1>2, <1>4, LeadsBegins DEF Leads
<1>5. CASE /\ prefix # Root /\ base = Parent(prefix)
           /\ filter = Last(prefix) /\ filter # NoFilter
  <2>1. Takes(entry) => BeginsWith(entry, prefix)
    BY <1>1, <1>2, <1>5, NameBegins
  <2>2. ASSUME Leads(prefix, entry)
        PROVE  Takes(entry)
    <3>1. Len(prefix) \in Nat \ {0} /\ Len(base) = Len(prefix) - 1
      BY <1>1, <1>5, ParentIs
    <3>2. Len(base) + 1 = Len(prefix) /\ Len(prefix) \in 1 .. Len(prefix)
      BY <3>1
    <3>3. entry[Len(prefix)] = prefix[Len(prefix)]
      BY <1>1, <2>2, <3>2, AboveIs DEF Leads
    <3> QED
      BY <1>2, <1>5, <3>2, <3>3 DEF Last
  <2> QED
    BY <2>1, <2>2
<1> QED
  BY <1>3, <1>4, <1>5

\* Visiting an entry: a directory is walked, a link passed by, a file listed.
LEMMA VisitEntryExact ==
    ASSUME ListInv, ExactInv, VisitEntry
    PROVE  ExactInv'
<1>1. /\ listPc = "stat" /\ UNCHANGED <<dirVars, prefix, lasting>>
      /\ TreeInv /\ ListTypeOK
  BY DEF VisitEntry, ListInv, ExactInv
<1>2. TreeInv'
  BY <1>1, TreeStays
  DEF VisitEntry, VisitDirectory, VisitLink, VisitFile, NextEntry, NoFile, Fail, Answer
<1>3. ASSUME NEW k \in Due, entry \in files \cup links \cup gone, Leads(entry, k)
      PROVE  k = entry /\ k \notin links /\ Leads(prefix, k)
  <2>1. AtOrBelow(k)
    BY <1>1, DueLies DEF DueAtOrBelow
  <2> QED
    BY <1>1, <1>3, <2>1 DEF AtOrBelow, Leads, TreeInv
<1>4. CASE VisitDirectory
  BY <1>1, <1>4, VisitDirectoryExact
<1>5. CASE VisitLink
  <2>1. entry \in links
    BY <1>1, <1>5 DEF VisitLink, ListInv, WalkInv
  <2>2. CASE NextEntry /\ UNCHANGED <<stack, filter, entries, answer>>
    <3>1. listPc' = "walk"
      BY <2>2 DEF NextEntry
    <3> QED
      BY <1>1, <1>3, <2>1, <2>2, <3>1, PastEntryExact
  <2>3. CASE \E c \in {"permission_denied", "native_failure", "not_found"} : Fail(c)
    BY <1>2, <2>3, FailExact
  <2> QED
    BY <1>5, <2>2, <2>3 DEF VisitLink
<1>6. CASE VisitFile
  <2>1. CASE Takes(entry) /\ entry \notin files
    BY <1>2, <1>6, <2>1, FailExact DEF VisitFile, NoFile
  <2>2. CASE ~(Takes(entry) /\ entry \notin files)
    <3>0. /\ listPc' = "walk"
          /\ entries' = IF Takes(entry) THEN Append(entries, entry) ELSE entries
          /\ UNCHANGED <<stack, filter, answer>>
      BY <1>6, <2>2 DEF VisitFile, NextEntry
    <3>1. entry \in files \cup gone
      BY <1>1, <1>6 DEF VisitFile, ListInv, WalkInv
    <3>2. CASE Takes(entry)
      <4>1. BeginsWith(entry, prefix)
        BY <1>1, <3>2, TakesIs
      <4>2. entry \in Range(entries')
        <5>1. entries \in Seq(Known) /\ entry \in Known /\ entries' = Append(entries, entry)
          BY <1>1, <2>2, <3>0, <3>2, Zenon
          DEF TreeInv, ExactInv, EntriesInv
        <5>2. /\ Len(entries) \in Nat /\ entries' \in Seq(Known)
              /\ Len(entries') = Len(entries) + 1
              /\ entries'[Len(entries) + 1] = entry
          BY <5>1, AppendProperties, LenProperties
        <5>3. DOMAIN entries' = 1 .. Len(entries') /\ Len(entries') \in 1 .. Len(entries')
          BY <5>2, LenProperties
        <5> QED
          BY <5>2, <5>3 DEF Range
      <4>3. \A k \in Due : Leads(entry, k) => k \in Range(entries')
        BY <1>3, <3>1, <4>2
      <4> QED
        BY <1>1, <2>2, <3>0, <3>2, <4>1, <4>3, PastEntryExact
    <3>3. CASE ~Takes(entry)
      <4>1. \A k \in Due : ~Leads(entry, k)
        BY <1>1, <1>3, <3>1, <3>3, TakesIs
      <4> QED
        BY <1>1, <3>0, <3>3, <4>1, PastEntryExact
    <3> QED
      BY <3>2, <3>3
  <2> QED
    BY <2>1, <2>2
<1> QED
  BY <1>4, <1>5, <1>6 DEF VisitEntry

\* A page follows what is listed, in order, and leaves nothing out between.
LEMMA NextPageExact ==
    ASSUME ListInv, ExactInv, NextPage
    PROVE  ExactInv'
<1>1. /\ listPc = "page" /\ answer = "none" /\ TreeInv /\ ListTypeOK
      /\ UNCHANGED <<dirVars, prefix, lasting, answer>>
      /\ entries \in Seq(Known) /\ Once
      /\ \A i \in DOMAIN entries :
            entries[i] \in files \cup gone /\ BeginsWith(entries[i], prefix)
      /\ listBackend # "local"
      /\ \A i, j \in DOMAIN entries : i < j => Position(entries[i]) < Position(entries[j])
      /\ \A k \in Due : k \in Range(entries) \/ AfterLast(k)
  BY DEF NextPage, Proceed, ListInv, WalkInv, ExactInv, EntriesInv, DueInv, Listing
<1>2. TreeInv'
  BY <1>1, TreeStays DEF NextPage, Proceed
<1>3. Due' = Due
  BY <1>1 DEF Due, Covered, dirVars
<1>4. ASSUME NEW k \in Due, k \notin Range(entries)
      PROVE  k \in Keys /\ \E i \in 1 .. Len(Page) : Page[i] = k
  <2>1. k \in files \cap Keys /\ IsStrictPrefix(prefix, k) /\ AfterLast(k)
    BY <1>1, <1>4 DEF Due, Covered
  <2> QED
    BY <2>1, PageIs
<1>5. CASE Page = <<>>
  <2>1. Proceed("sort")
    BY <1>5 DEF NextPage
  <2>2. listPc' = "sort" /\ entries' = entries /\ listBackend' = listBackend
    BY <1>1, <2>1 DEF Proceed, dirVars
  <2>3. 1 .. Len(Page) = {}
    BY <1>5, EmptySeq
  <2>4. Due \subseteq Range(entries)
    BY <1>4, <2>3
  <2>5. EntriesInv'
    BY <1>1, <2>2 DEF EntriesInv, Once, Listing, BeginsWith, dirVars
  <2> QED
    BY <1>1, <1>2, <1>3, <2>2, <2>4, <2>5 DEF ExactInv, StackInv, DueInv, ListExact
<1>6. CASE Page # <<>>
  <2>1. PICK n \in 1 .. PageSize :
           n <= Len(Page) /\ entries' = entries \o SubSeq(Page, 1, n)
    BY <1>6 DEF NextPage
  <2> DEFINE next == SubSeq(Page, 1, n)
             L == Len(entries)
  <2>2. /\ listPc' = "page" /\ listBackend' = listBackend
        /\ Len(Page) \in Nat /\ L \in Nat /\ DOMAIN entries = 1 .. L
        /\ n \in Nat \ {0}
    <3>1. listPc' = "page" /\ listBackend' = listBackend
      BY <1>1, <1>6 DEF NextPage, dirVars
    <3>2. Len(Page) \in Nat
      BY PageIs, LenProperties
    <3>3. L \in Nat /\ DOMAIN entries = 1 .. L
      BY <1>1, LenProperties
    <3>4. n \in Nat \ {0}
      <4>1. PageSize \in Nat
        BY ListAssumption
      <4> QED
        BY <4>1
    <3> QED
      BY <3>1, <3>2, <3>3, <3>4
  <2>3. /\ next \in Seq(Known) /\ Len(next) = n
        /\ \A i \in 1 .. n : i \in 1 .. Len(Page) /\ next[i] = Page[i]
    <3>1. \A i \in 1 .. n : i \in 1 .. Len(Page)
      BY <2>1, <2>2
    <3>2. \A i \in 1 .. n : Page[i] \in Known
      BY <3>1, PageIs, KnownPaths
    <3>3. /\ next \in Seq(Known) /\ Len(next) = IF 1 <= n THEN n - 1 + 1 ELSE 0
          /\ \A i \in 1 .. n - 1 + 1 : next[i] = Page[1 + i - 1]
      BY <2>2, <3>2, SubSeqProperties
    <3> QED
      BY <2>2, <3>1, <3>3
  <2> HIDE DEF next
  <2>4. /\ entries' \in Seq(Known) /\ Len(entries') = L + n
        /\ \A i \in 1 .. L + n : entries'[i] = IF i <= L THEN entries[i] ELSE next[i - L]
    BY <1>1, <2>1, <2>3, ConcatProperties DEF next
  <2>5. DOMAIN entries' = 1 .. L + n
    BY <2>4, LenProperties
  <2>6. \A i \in 1 .. L : i \in DOMAIN entries' /\ entries'[i] = entries[i]
    BY <2>2, <2>4, <2>5
  <2>7. \A i \in 1 .. n : L + i \in DOMAIN entries' /\ entries'[L + i] = Page[i]
    <3>1. \A i \in 1 .. n : L + i \in 1 .. L + n /\ ~(L + i <= L) /\ (L + i) - L = i
      BY <2>2
    <3> QED
      BY <2>3, <2>4, <2>5, <3>1
  <2>8. \A i \in DOMAIN entries' : i \in 1 .. L \/ \E a \in 1 .. n : i = L + a
    <3>1. \A i \in 1 .. L + n : i \in 1 .. L \/ (i - L \in 1 .. n /\ i = L + (i - L))
      BY <2>2
    <3> QED
      BY <2>5, <3>1
  <2>9. \A i \in DOMAIN entries' : entries'[i] \in Known /\ Position(entries'[i]) \in Nat
    BY <2>4, <2>5, ElementOfSeq, PositionIs
  <2>10. \A i \in 1 .. L, a \in 1 .. n : Position(entries[i]) < Position(Page[a])
    <3> SUFFICES ASSUME NEW i \in 1 .. L, NEW a \in 1 .. n
                 PROVE  Position(entries[i]) < Position(Page[a])
      OBVIOUS
    <3>1. entries # <<>> /\ L \in 1 .. L /\ Last(entries) = entries[L]
      BY <2>2, EmptySeq DEF Last
    <3>2. AfterLast(Page[a])
      BY <2>3, PageIs
    <3>3. Position(entries[L]) < Position(Page[a])
      <4>1. Position(Page[a]) > Position(entries[L])
        BY <3>1, <3>2 DEF AfterLast
      <4> QED
        BY <2>6, <2>7, <2>9, <3>1, <4>1
    <3>4. i = L \/ Position(entries[i]) < Position(entries[L])
      <4>1. i = L \/ i < L
        <5>1. L \in Nat
          BY <2>2
        <5> HIDE DEF L
        <5> QED
          BY <5>1
      <4> QED
        BY <1>1, <2>2, <3>1, <4>1
    <3>5. /\ Position(entries[i]) \in Nat /\ Position(entries[L]) \in Nat
          /\ Position(Page[a]) \in Nat
      BY <2>6, <2>7, <2>9, <3>1
    <3> QED
      BY <3>3, <3>4, <3>5
  <2>11. ASSUME NEW i \in DOMAIN entries', NEW j \in DOMAIN entries', i < j
         PROVE  Position(entries'[i]) < Position(entries'[j])
    <3>1. CASE i \in 1 .. L /\ j \in 1 .. L
      BY <1>1, <2>2, <2>6, <2>11, <3>1
    <3>2. CASE i \in 1 .. L /\ \E b \in 1 .. n : j = L + b
      BY <2>6, <2>7, <2>10, <3>2
    <3>3. CASE \E a \in 1 .. n : i = L + a
      <4>1. PICK a \in 1 .. n : i = L + a
        BY <3>3
      <4>2. \E b \in 1 .. n : j = L + b
        BY <2>2, <2>8, <2>11, <4>1
      <4>3. PICK b \in 1 .. n : j = L + b
        BY <4>2
      <4>4. a < b
        BY <2>2, <2>11, <4>1, <4>3
      <4>5. Position(Page[a]) < Position(Page[b])
        BY <2>3, <4>4, PageIs
      <4> QED
        BY <2>7, <4>1, <4>3, <4>5
    <3> QED
      BY <2>8, <3>1, <3>2, <3>3
  <2>12. Once'
    <3>1. ASSUME NEW i \in DOMAIN entries', NEW j \in DOMAIN entries',
                 entries'[i] = entries'[j], i # j
          PROVE  FALSE
      <4>1. i < j \/ j < i
        BY <2>2, <2>5, <3>1
      <4>2. Position(entries'[i]) < Position(entries'[i])
        BY <2>11, <3>1, <4>1
      <4> QED
        BY <2>9, <4>2
    <3> QED
      BY <3>1 DEF Once
  <2>13. ASSUME NEW i \in DOMAIN entries'
         PROVE  entries'[i] \in files \cup gone /\ BeginsWith(entries'[i], prefix)
    <3>1. CASE i \in 1 .. L
      BY <1>1, <2>2, <2>6, <3>1
    <3>2. CASE \E a \in 1 .. n : i = L + a
      <4>1. PICK a \in 1 .. n : i = L + a
        BY <3>2
      <4>2. /\ Page[a] \in files /\ Page[a] \in Keys /\ IsStrictPrefix(prefix, Page[a])
            /\ entries'[i] = Page[a]
        BY <2>3, <2>7, <4>1, PageIs
      <4>3. Page[a] \in Paths /\ prefix \in Paths
        BY <1>1, <4>2 DEF ListTypeOK
      <4>4. Leads(prefix, Page[a])
        BY <4>2, <4>3, StrictPrefixIs DEF Leads
      <4> QED
        BY <4>2, <4>3, <4>4, LeadsBegins
    <3> QED
      BY <2>8, <3>1, <3>2
  <2>14. EntriesInv'
    <3>1. \A i \in DOMAIN entries' : BeginsWith(entries[i], prefix)'
      BY <1>1, <2>13 DEF BeginsWith
    <3> QED
      BY <1>1, <2>2, <2>4, <2>12, <2>13, <3>1 DEF EntriesInv, dirVars
  <2>15. ASSUME NEW k \in Due
         PROVE  k \in Range(entries') \/ AfterLast(k)'
    <3>1. CASE k \in Range(entries)
      BY <2>2, <2>6, <3>1 DEF Range
    <3>2. CASE k \notin Range(entries)
      <4>1. PICK a \in 1 .. Len(Page) : Page[a] = k
        BY <1>4, <3>2
      <4>2. CASE a \in 1 .. n
        BY <2>7, <4>1, <4>2 DEF Range
      <4>3. CASE a \notin 1 .. n
        <5>1. n \in 1 .. Len(Page) /\ n < a
          BY <2>1, <2>2, <4>3
        <5>2. Position(Page[n]) < Position(Page[a])
          BY <5>1, PageIs
        <5>3. n \in 1 .. n
          BY <2>2
        <5>4. entries'[L + n] = Page[n]
          BY <2>7, <5>3
        <5>5. Last(entries') = Page[n]
          BY <2>4, <5>4 DEF Last
        <5>6. Position(k) \in Nat /\ Position(Page[n]) \in Nat
          BY <2>7, <2>9, <5>3, KnownPaths, PositionIs DEF Due
        <5>7. Position(k) > Position(Last(entries'))
          BY <4>1, <5>2, <5>5, <5>6
        <5> QED
          BY <5>7 DEF AfterLast, Position
      <4> QED
        BY <4>2, <4>3
    <3> QED
      BY <3>1, <3>2
  <2>16. DueInv'
    BY <1>1, <1>3, <2>2, <2>11, <2>15 DEF DueInv, Position
  <2> QED
    BY <1>1, <1>2, <2>2, <2>14, <2>16 DEF ExactInv, StackInv, ListExact
<1> QED
  BY <1>5, <1>6

\* Sorting and answering: the list is what has been gathered, in order.
LEMMA FinishExact ==
    ASSUME ListInv, ExactInv, FinishList
    PROVE  ExactInv'
<1>1. /\ listPc = "sort" /\ Answer("ok", Sorted) /\ TreeInv
      /\ UNCHANGED <<dirVars, prefix, lasting>>
      /\ entries \in Seq(Known) /\ Once
      /\ \A i \in DOMAIN entries :
            entries[i] \in files \cup gone /\ BeginsWith(entries[i], prefix)
      /\ Due \subseteq Range(entries)
  BY DEF FinishList, ExactInv, EntriesInv, DueInv, Listing
<1>2. /\ Sorted \in Seq(Known) /\ Range(Sorted) = Range(entries)
      /\ \A i, j \in DOMAIN Sorted : i < j =>
            \/ Position(Sorted[i]) < Position(Sorted[j])
            \/ Sorted[i] = Sorted[j] /\ Sorted[i] \in gone
  BY <1>1, SortedIs
<1>3. entries' = Sorted
  BY <1>1 DEF Answer
<1>4. Due' = Due
  BY <1>1 DEF Due, Covered, dirVars
<1>5. \A i \in DOMAIN Sorted :
         Sorted[i] \in files \cup gone /\ BeginsWith(Sorted[i], prefix)
  <2>1. \A i \in DOMAIN Sorted : \E j \in DOMAIN entries : Sorted[i] = entries[j]
    BY <1>2 DEF Range
  <2> QED
    BY <1>1, <2>1
<1>6. ListExact'
  <2>1. \A i \in DOMAIN entries' : BeginsWith(entries[i], prefix)'
    BY <1>1, <1>3, <1>5 DEF BeginsWith
  <2>2. \A k \in Due' : k \in Range(entries')
    BY <1>1, <1>2, <1>3, <1>4
  <2> QED
    BY <1>1, <1>2, <1>3, <1>5, <2>1, <2>2 DEF ListExact, Due, dirVars, Position
<1>7. TreeInv'
  BY <1>1, TreeStays DEF Answer
<1> QED
  BY <1>1, <1>2, <1>6, <1>7, AnswerExact

\* Every step of a list, and every change of the namespace, preserves it.
LEMMA ExactStepInv ==
    ASSUME ListInv, ExactInv, [ListNext]_listVars
    PROVE  ExactInv'
<1>1. CASE ListCallFails
  <2>1. TreeInv'
    BY <1>1, TreeStays DEF ListCallFails, Fail, Answer, ExactInv
  <2>2. PICK c \in Categories : Fail(c)
    BY <1>1 DEF ListCallFails
  <2> QED
    BY <2>1, <2>2, FailExact DEF Categories
<1>2. CASE UNCHANGED listVars
  <2>1. /\ UNCHANGED <<listBackend, files, links, dirs, listPc, prefix, filter, stack>>
        /\ UNCHANGED <<entry, fileType, entries, answer, lasting, gone>>
    BY <1>2 DEF listVars
  <2>2. TreeInv' /\ EntriesInv' /\ StackInv'
    BY <2>1
    DEF ExactInv, TreeInv, EntriesInv, Once, StackInv, Listing, BeginsWith, Toward, Leads
  <2>3. Due' = Due
    BY <2>1 DEF Due, Covered
  <2>4. \A k : (Awaited(k)' <=> Awaited(k)) /\ (AfterLast(k)' <=> AfterLast(k))
    BY <2>1 DEF Awaited, AfterLast, Toward, Leads, Position
  <2>5. DueInv'
    BY <2>1, <2>3, <2>4 DEF ExactInv, DueInv, Position
  <2>6. ListExact'
    BY <2>1 DEF ExactInv, ListExact, Covered, BeginsWith, Position
  <2> QED
    BY <2>2, <2>5, <2>6 DEF ExactInv
<1> QED
  BY <1>1, <1>2, WriterExact, BeginExact, FollowLinkExact, LookUpExact, HeadExact,
     ReadEntryExact, EndDirectoryExact, VisitEntryExact, NextPageExact, FinishExact
  DEF ListNext

\* However writers change the directory during the walk, or between the pages
\* of an S3 list, and wherever links lead, a Store.list/2 that answers is in
\* order, has only files that were there and begin with the prefix, the links
\* in it followed, and has every object at the prefix that was there
\* throughout; it names twice only what has vanished since it began.
THEOREM ListsAreExact == StoreSpec => []ListExact
<1>1. StoreInit => ListInv /\ ExactInv
  BY InitList, InitExact DEF StoreInit
<1>2. ListInv /\ ExactInv /\ [StoreNext]_storeVars => ListInv' /\ ExactInv'
  <2> SUFFICES ASSUME ListInv, ExactInv, [StoreNext]_storeVars
               PROVE  ListInv' /\ ExactInv'
    OBVIOUS
  <2>1. [ListNext]_listVars
    BY DEF StoreNext, storeVars
  <2> QED
    BY <2>1, ListStepInv, ExactStepInv
<1>3. ExactInv => ListExact
  BY DEF ExactInv
<1> QED
  BY <1>1, <1>2, <1>3, PTL DEF StoreSpec
-----------------------------------------------------------------------------
(* TimePartition.plan/4: the calendar, the partitions and the loop. *)

\* A year has 365 days, and one more if it is a leap year.
LEMMA YearLength ==
    ASSUME NEW y \in Int
    PROVE  /\ YearStart(y) \in Int
           /\ YearStart(y + 1) = YearStart(y) + IF IsLeap(y) THEN 366 ELSE 365
<1> DEFINE a == (y - 1969) \div 4
           b == (y - 1901) \div 100
           c == (y - 1601) \div 400
<1>1. a \in Int /\ b \in Int /\ c \in Int
  OBVIOUS
<1>2. ((y + 1) - 1969) \div 4 = a + IF y % 4 = 0 THEN 1 ELSE 0
  OBVIOUS
<1>3. ((y + 1) - 1901) \div 100 = b + IF y % 100 = 0 THEN 1 ELSE 0
  OBVIOUS
<1>4. ((y + 1) - 1601) \div 400 = c + IF y % 400 = 0 THEN 1 ELSE 0
  OBVIOUS
<1>5. (y % 100 = 0 => y % 4 = 0) /\ (y % 400 = 0 => y % 100 = 0)
  OBVIOUS
<1>6. YearStart(y) = 365 * (y - 1970) + a - b + c
  BY DEF YearStart
<1>7. YearStart(y + 1) = 365 * ((y + 1) - 1970)
         + (a + IF y % 4 = 0 THEN 1 ELSE 0)
         - (b + IF y % 100 = 0 THEN 1 ELSE 0)
         + (c + IF y % 400 = 0 THEN 1 ELSE 0)
  BY <1>2, <1>3, <1>4 DEF YearStart
<1> HIDE DEF a, b, c
<1> QED
  BY <1>1, <1>5, <1>6, <1>7 DEF IsLeap

\* Later years start later.
LEMMA YearsGrow ==
    ASSUME NEW y \in Int, NEW z \in Int, y < z
    PROVE  YearStart(y + 1) <= YearStart(z)
<1> DEFINE u == y + 1
<1>1. /\ (u - 1969) \div 4 <= (z - 1969) \div 4
      /\ (u - 1601) \div 400 <= (z - 1601) \div 400
  OBVIOUS
<1>2. (z - 1901) \div 100 - (u - 1901) \div 100 <= z - u
  OBVIOUS
<1>3. /\ (u - 1969) \div 4 \in Int /\ (z - 1969) \div 4 \in Int
      /\ (u - 1601) \div 400 \in Int /\ (z - 1601) \div 400 \in Int
      /\ (u - 1901) \div 100 \in Int /\ (z - 1901) \div 100 \in Int
  OBVIOUS
<1> QED
  BY <1>1, <1>2, <1>3 DEF YearStart

\* The months of a year follow each other from its start to the next one's.
LEMMA MonthLies ==
    ASSUME NEW y \in Int, NEW m \in 1 .. 12
    PROVE  /\ MonthStart(y, m) \in Int /\ NextMonth(y, m) \in Int
           /\ YearStart(y) <= MonthStart(y, m)
           /\ MonthStart(y, m) < NextMonth(y, m)
           /\ NextMonth(y, m) <= MonthStart(y, m) + 31
           /\ NextMonth(y, m) <= YearStart(y + 1)
           /\ m = 1 => MonthStart(y, m) = YearStart(y)
           /\ m < 12 => NextMonth(y, m) = MonthStart(y, m + 1)
           /\ m = 12 => NextMonth(y, m) = YearStart(y + 1)
<1>1. /\ YearStart(y) \in Int /\ YearStart(y + 1) \in Int
      /\ YearStart(y + 1) = YearStart(y) + IF IsLeap(y) THEN 366 ELSE 365
  BY YearLength
<1>2. MonthStart(y + 1, 1) = YearStart(y + 1)
  BY <1>1 DEF MonthStart, DaysBefore
<1>3. CASE m = 1
  BY <1>1, <1>3 DEF MonthStart, NextMonth, DaysBefore
<1>4. CASE m \in 2 .. 5
  BY <1>1, <1>4 DEF MonthStart, NextMonth, DaysBefore
<1>5. CASE m \in 6 .. 8
  BY <1>1, <1>5 DEF MonthStart, NextMonth, DaysBefore
<1>6. CASE m \in 9 .. 11
  BY <1>1, <1>6 DEF MonthStart, NextMonth, DaysBefore
<1>7. CASE m = 12
  <2>1. NextMonth(y, m) = YearStart(y + 1)
    BY <1>2, <1>7 DEF NextMonth
  <2> QED
    BY <1>1, <1>7, <2>1 DEF MonthStart, DaysBefore
<1> QED
  BY <1>3, <1>4, <1>5, <1>6, <1>7

\* Months do not overlap.
LEMMA MonthsApart ==
    ASSUME NEW y \in Int, NEW m \in 1 .. 12, NEW z \in Int, NEW n \in 1 .. 12,
           MonthStart(y, m) < NextMonth(z, n), MonthStart(z, n) < NextMonth(y, m)
    PROVE  y = z /\ m = n
<1>1. y = z
  <2>1. /\ MonthStart(y, m) \in Int /\ NextMonth(y, m) \in Int
        /\ YearStart(y) <= MonthStart(y, m) /\ NextMonth(y, m) <= YearStart(y + 1)
    BY MonthLies
  <2>2. /\ MonthStart(z, n) \in Int /\ NextMonth(z, n) \in Int
        /\ YearStart(z) <= MonthStart(z, n) /\ NextMonth(z, n) <= YearStart(z + 1)
    BY MonthLies
  <2>3. /\ YearStart(y) \in Int /\ YearStart(y + 1) \in Int
        /\ YearStart(z) \in Int /\ YearStart(z + 1) \in Int
    BY YearLength
  <2>4. CASE y < z
    <3>1. YearStart(y + 1) <= YearStart(z)
      BY <2>4, YearsGrow
    <3> QED
      BY <2>1, <2>2, <2>3, <3>1
  <2>5. CASE z < y
    <3>1. YearStart(z + 1) <= YearStart(y)
      BY <2>5, YearsGrow
    <3> QED
      BY <2>1, <2>2, <2>3, <3>1
  <2> QED
    BY <2>4, <2>5
<1>2. YearStart(y) \in Int
  BY YearLength
<1>3. ASSUME NEW a \in 1 .. 12, NEW b \in 1 .. 12, a < b
      PROVE  NextMonth(y, a) <= MonthStart(y, b)
  <2>1. NextMonth(y, a) = MonthStart(y, a + 1)
    BY <1>3 DEF NextMonth
  <2> DEFINE leap == IsLeap(y)
  <2>2. CASE a + 1 = b
    <3>1. MonthStart(y, b) \in Int
      BY MonthLies
    <3> QED
      BY <2>1, <2>2, <3>1
  <2>3. CASE a + 1 < b
    <3>1. DaysBefore[a + 1] + 1 <= DaysBefore[b] /\ DaysBefore[a + 1] \in Nat
          /\ DaysBefore[b] \in Nat
      BY <1>3, <2>3 DEF DaysBefore
    <3>2. /\ MonthStart(y, a + 1) = YearStart(y) + DaysBefore[a + 1]
                                    + IF leap /\ a + 1 > 2 THEN 1 ELSE 0
          /\ MonthStart(y, b) = YearStart(y) + DaysBefore[b]
                                + IF leap /\ b > 2 THEN 1 ELSE 0
      BY DEF MonthStart
    <3> HIDE DEF leap
    <3> QED
      BY <1>2, <1>3, <2>1, <2>3, <3>1, <3>2
  <2> QED
    BY <1>3, <2>2, <2>3
<1>4. m = n
  <2>1. /\ MonthStart(y, m) \in Int /\ NextMonth(y, m) \in Int
        /\ MonthStart(y, n) \in Int /\ NextMonth(y, n) \in Int
    BY MonthLies
  <2>2. ~(m < n)
    BY <1>1, <1>3, <2>1
  <2>3. ~(n < m)
    BY <1>1, <1>3, <2>1
  <2> QED
    BY <2>2, <2>3
<1> QED
  BY <1>1, <1>4

\* The days of the calendar.
Calendar == YearStart(FirstYear) .. YearStart(LastYear + 1) - 1

\* Every day of the calendar falls into a month of it.
LEMMA MonthExists ==
    ASSUME NEW day \in Calendar
    PROVE  \E y \in FirstYear .. LastYear, m \in 1 .. 12 :
              MonthStart(y, m) <= day /\ day < NextMonth(y, m)
<1>0. /\ FirstYear \in Int /\ LastYear \in Int /\ FirstYear <= LastYear
      /\ YearStart(FirstYear) \in Int /\ YearStart(LastYear + 1) \in Int
  BY RequestAssumption, YearLength
<1>1. day \in Int /\ YearStart(FirstYear) <= day /\ day < YearStart(LastYear + 1)
  BY <1>0 DEF Calendar
<1> DEFINE T == {n \in Nat : day < YearStart(FirstYear + n + 1)}
<1>2. LastYear - FirstYear \in T
  <2>1. LastYear - FirstYear \in Nat /\ FirstYear + (LastYear - FirstYear) + 1 = LastYear + 1
    BY <1>0
  <2> QED
    BY <1>1, <2>1
<1>3. PICK n \in T : \A k \in T : n <= k
  BY <1>2, LeastElement
<1> DEFINE y == FirstYear + n
<1>4. n \in Nat /\ y \in FirstYear .. LastYear /\ day < YearStart(y + 1)
  BY <1>0, <1>2, <1>3
<1>5. YearStart(y) <= day
  <2>1. CASE n = 0
    BY <1>0, <1>1, <2>1
  <2>2. CASE n # 0
    <3>1. n - 1 \in Nat /\ ~(n <= n - 1)
      BY <1>4, <2>2
    <3>2. n - 1 \notin T
      BY <1>3, <3>1
    <3>3. FirstYear + (n - 1) + 1 = y
      BY <1>0, <1>4
    <3>4. ~(day < YearStart(y))
      BY <3>1, <3>2, <3>3
    <3>5. YearStart(y) \in Int
      BY <1>0, <1>4, YearLength
    <3> QED
      BY <1>1, <3>4, <3>5
  <2> QED
    BY <2>1, <2>2
<1> HIDE DEF y, T
<1>6. y \in Int
  BY <1>0, <1>4
<1>7. \E m \in 1 .. 12 : MonthStart(y, m) <= day /\ day < NextMonth(y, m)
  <2> DEFINE S == {m \in 1 .. 12 : day < NextMonth(y, m)}
  <2>1. 12 \in S /\ S \subseteq Nat
    <3>1. 12 \in 1 .. 12 /\ 12 = 12
      OBVIOUS
    <3>2. NextMonth(y, 12) = YearStart(y + 1)
      BY <1>6, <3>1, MonthLies
    <3> QED
      BY <1>4, <3>1, <3>2
  <2>2. PICK m \in S : \A k \in S : m <= k
    BY <2>1, LeastElement
  <2>3. m \in 1 .. 12 /\ day < NextMonth(y, m)
    BY <2>2
  <2>4. MonthStart(y, m) <= day
    <3>1. CASE m = 1
      BY <1>5, <1>6, <2>3, <3>1, MonthLies
    <3>2. CASE m # 1
      <4>1. m - 1 \in 1 .. 12 /\ m - 1 < 12 /\ (m - 1) + 1 = m /\ ~(m <= m - 1)
        BY <2>3, <3>2
      <4>2. m - 1 \notin S
        BY <2>2, <4>1
      <4>3. ~(day < NextMonth(y, m - 1))
        BY <4>1, <4>2
      <4>4. NextMonth(y, m - 1) = MonthStart(y, m) /\ NextMonth(y, m - 1) \in Int
        <5> DEFINE k == m - 1
        <5>1. k \in 1 .. 12 /\ k < 12 /\ k + 1 = m
          BY <4>1
        <5> HIDE DEF k
        <5>2. NextMonth(y, k) = MonthStart(y, k + 1) /\ NextMonth(y, k) \in Int
          BY <1>6, <5>1, MonthLies
        <5> QED
          BY <5>1, <5>2 DEF k
      <4> QED
        BY <1>1, <4>3, <4>4
    <3> QED
      BY <3>1, <3>2
  <2> QED
    BY <2>3, <2>4
<1> QED
  BY <1>4, <1>7

\* The date of a day says which month it falls into.
LEMMA DateIs ==
    ASSUME NEW day \in Calendar
    PROVE  /\ YearOf(day) \in FirstYear .. LastYear /\ MonthOf(day) \in 1 .. 12
           /\ MonthStart(YearOf(day), MonthOf(day)) <= day
           /\ day < NextMonth(YearOf(day), MonthOf(day))
           /\ DayOfMonth(day) = day - MonthStart(YearOf(day), MonthOf(day)) + 1
<1> DEFINE months == (FirstYear .. LastYear) \X (1 .. 12)
           P(ym) == /\ MonthStart(ym[1], ym[2]) <= day
                    /\ day < NextMonth(ym[1], ym[2])
           ch == CHOOSE ym \in months : P(ym)
<1>1. \E ym \in months : P(ym)
  <2>1. PICK y \in FirstYear .. LastYear, m \in 1 .. 12 :
           MonthStart(y, m) <= day /\ day < NextMonth(y, m)
    BY MonthExists
  <2>2. <<y, m>> \in months /\ P(<<y, m>>)
    BY <2>1
  <2> HIDE DEF months, P
  <2> QED
    BY <2>2
<1>2. ch \in months /\ P(ch)
  <2> HIDE DEF months, P
  <2> QED
    BY <1>1
<1>3. Dates[day] = <<ch[1], ch[2], day - MonthStart(ch[1], ch[2]) + 1>>
  BY DEF Dates, Calendar
<1> HIDE DEF ch
<1>4. /\ YearOf(day) = ch[1] /\ MonthOf(day) = ch[2]
      /\ DayOfMonth(day) = day - MonthStart(ch[1], ch[2]) + 1
  BY <1>3 DEF YearOf, MonthOf, DayOfMonth
<1>5. ch[1] \in FirstYear .. LastYear /\ ch[2] \in 1 .. 12
  BY <1>2
<1> QED
  BY <1>2, <1>4, <1>5

\* The seconds whose day is in the calendar.
Times == {s \in Int : s \div Day \in Calendar}

\* The month of a time, as its bounds.
LEMMA MonthIs ==
    ASSUME NEW s \in Times
    PROVE  \E y \in Int, m \in 1 .. 12 :
              /\ YearOf(s \div Day) = y /\ MonthOf(s \div Day) = m
              /\ StartOf(s, "month") = MonthStart(y, m) * Day
              /\ MonthStart(y, m) <= s \div Day /\ s \div Day < NextMonth(y, m)
              /\ MonthStart(y, m) \in Calendar
<1> DEFINE d == s \div Day
           y == YearOf(d)
           m == MonthOf(d)
<1>1. d \in Calendar /\ d \in Int
  BY DEF Times, Calendar, Day
<1>2. /\ y \in FirstYear .. LastYear /\ m \in 1 .. 12
      /\ MonthStart(y, m) <= d /\ d < NextMonth(y, m)
  BY <1>1, DateIs
<1>3. StartOf(s, "month") = MonthStart(y, m) * Day
  BY DEF StartOf
<1> HIDE DEF d, y, m
<1>4. FirstYear \in Int /\ LastYear \in Int /\ y \in Int /\ FirstYear <= y
  BY <1>2, RequestAssumption
<1>5. /\ YearStart(FirstYear) \in Int /\ YearStart(LastYear + 1) \in Int
      /\ YearStart(y) \in Int
  BY <1>4, YearLength
<1>6. YearStart(FirstYear) <= YearStart(y)
  <2>1. CASE FirstYear = y
    BY <1>5, <2>1
  <2>2. CASE FirstYear # y
    <3>1. YearStart(FirstYear + 1) <= YearStart(y)
      BY <1>4, <2>2, YearsGrow
    <3>2. /\ YearStart(FirstYear + 1) \in Int
          /\ YearStart(FirstYear) <= YearStart(FirstYear + 1)
      BY <1>4, <1>5, YearLength
    <3> QED
      BY <1>5, <3>1, <3>2
  <2> QED
    BY <2>1, <2>2
<1>7. MonthStart(y, m) \in Int /\ YearStart(y) <= MonthStart(y, m)
  BY <1>2, <1>4, MonthLies
<1>8. MonthStart(y, m) \in Calendar
  BY <1>1, <1>2, <1>5, <1>6, <1>7 DEF Calendar
<1>9. y = YearOf(s \div Day) /\ m = MonthOf(s \div Day) /\ d = s \div Day
  BY DEF y, m, d
<1> QED
  BY <1>2, <1>3, <1>4, <1>8, <1>9

\* The partition that starts with a month ends with it.
LEMMA MonthUntil ==
    ASSUME NEW y \in Int, NEW m \in 1 .. 12, MonthStart(y, m) \in Calendar
    PROVE  /\ MonthStart(y, m) * Day \in Times
           /\ (MonthStart(y, m) * Day) \div Day = MonthStart(y, m)
           /\ UntilOf(MonthStart(y, m) * Day, "month") = NextMonth(y, m) * Day
           /\ StartOf(MonthStart(y, m) * Day, "month") = MonthStart(y, m) * Day
<1> DEFINE d == MonthStart(y, m)
           s == d * Day
<1>1. /\ d \in Int /\ NextMonth(y, m) \in Int /\ d < NextMonth(y, m)
  BY MonthLies
<1>2. s \in Int /\ s \div Day = d
  <2> HIDE DEF d
  <2> QED
    BY <1>1 DEF Day
<1>3. s \in Times
  BY <1>2 DEF Times
<1>4. PICK z \in Int, n \in 1 .. 12 :
         /\ YearOf(s \div Day) = z /\ MonthOf(s \div Day) = n
         /\ StartOf(s, "month") = MonthStart(z, n) * Day
         /\ MonthStart(z, n) <= s \div Day /\ s \div Day < NextMonth(z, n)
  BY <1>3, MonthIs
<1>5. y = z /\ m = n
  <2>1. MonthStart(z, n) \in Int /\ NextMonth(z, n) \in Int
    BY MonthLies
  <2>2. MonthStart(y, m) < NextMonth(z, n) /\ MonthStart(z, n) < NextMonth(y, m)
    BY <1>1, <1>2, <1>4, <2>1
  <2> QED
    BY <2>2, MonthsApart
<1>6. UntilOf(s, "month") = NextMonth(y, m) * Day
  BY <1>2, <1>4, <1>5 DEF UntilOf
<1> QED
  BY <1>2, <1>3, <1>4, <1>5, <1>6

\* The partition of a time holds it, and is at most 31 days long.
LEMMA UnitHolds ==
    ASSUME NEW g \in Granularities, NEW s \in Times
    PROVE  /\ StartOf(s, g) \in Int /\ StartOf(s, g) <= s
           /\ UntilOf(StartOf(s, g), g) \in Int /\ s < UntilOf(StartOf(s, g), g)
           /\ UntilOf(StartOf(s, g), g) <= StartOf(s, g) + 31 * Day
<1>0. s \in Int
  BY DEF Times
<1>1. CASE g = "minute"
  BY <1>0, <1>1 DEF StartOf, UntilOf, Day
<1>2. CASE g = "hour"
  BY <1>0, <1>2 DEF StartOf, UntilOf, Day
<1>3. CASE g = "day"
  BY <1>0, <1>3 DEF StartOf, UntilOf, Day
<1>4. CASE g = "week"
  BY <1>0, <1>4 DEF StartOf, UntilOf, Day, DaysFromMonday
<1>5. CASE g = "month"
  <2>1. PICK y \in Int, m \in 1 .. 12 :
           /\ StartOf(s, "month") = MonthStart(y, m) * Day
           /\ MonthStart(y, m) <= s \div Day /\ s \div Day < NextMonth(y, m)
           /\ MonthStart(y, m) \in Calendar
    BY MonthIs
  <2> DEFINE a == MonthStart(y, m)
             b == NextMonth(y, m)
  <2>2. UntilOf(a * Day, "month") = b * Day
    BY <2>1, MonthUntil
  <2>3. a \in Int /\ b \in Int /\ b <= a + 31
    BY MonthLies
  <2>4. StartOf(s, g) = a * Day /\ UntilOf(StartOf(s, g), g) = b * Day
        /\ a <= s \div Day /\ s \div Day < b
    BY <1>5, <2>1, <2>2
  <2> HIDE DEF a, b
  <2>5. a * Day \in Int /\ b * Day \in Int /\ a * Day <= s /\ s < b * Day
        /\ b * Day <= a * Day + 31 * Day
    BY <1>0, <2>3, <2>4 DEF Day
  <2> QED
    BY <2>4, <2>5
<1> QED
  BY <1>1, <1>2, <1>3, <1>4, <1>5 DEF Granularities

\* All the times that a partition holds have it as theirs.
LEMMA UnitOwns ==
    ASSUME NEW g \in Granularities, NEW s \in Times, NEW t \in Times,
           StartOf(s, g) <= t, t < UntilOf(StartOf(s, g), g)
    PROVE  StartOf(t, g) = StartOf(s, g)
<1>0. s \in Int /\ t \in Int
  BY DEF Times
<1>1. CASE g = "minute"
  BY <1>0, <1>1 DEF StartOf, UntilOf, Day
<1>2. CASE g = "hour"
  BY <1>0, <1>2 DEF StartOf, UntilOf, Day
<1>3. CASE g = "day"
  <2> DEFINE a == s \div Day
             b == t \div Day
  <2>1. a \in Int /\ b \in Int /\ b * Day <= t /\ t < b * Day + Day
    BY <1>0 DEF Day
  <2>2. StartOf(s, g) = a * Day /\ StartOf(t, g) = b * Day
        /\ UntilOf(StartOf(s, g), g) = a * Day + Day
    BY <1>3 DEF StartOf, UntilOf
  <2> HIDE DEF a, b
  <2>3. a = b
    BY <1>0, <2>1, <2>2 DEF Day
  <2> QED
    BY <2>2, <2>3
<1>4. CASE g = "week"
  BY <1>0, <1>4 DEF StartOf, UntilOf, Day, DaysFromMonday
<1>5. CASE g = "month"
  <2>1. PICK y \in Int, m \in 1 .. 12 :
           /\ StartOf(s, "month") = MonthStart(y, m) * Day
           /\ MonthStart(y, m) \in Calendar
    BY MonthIs
  <2>2. PICK z \in Int, n \in 1 .. 12 :
           /\ StartOf(t, "month") = MonthStart(z, n) * Day
           /\ MonthStart(z, n) <= t \div Day /\ t \div Day < NextMonth(z, n)
    BY MonthIs
  <2>3. /\ MonthStart(y, m) \in Int /\ NextMonth(y, m) \in Int
        /\ MonthStart(z, n) \in Int /\ NextMonth(z, n) \in Int
    BY MonthLies
  <2>4. MonthStart(y, m) * Day <= t /\ t < NextMonth(y, m) * Day
    BY <1>5, <2>1, MonthUntil
  <2>5. MonthStart(y, m) <= t \div Day /\ t \div Day < NextMonth(y, m)
    BY <1>0, <2>3, <2>4 DEF Day
  <2>6. MonthStart(y, m) < NextMonth(z, n) /\ MonthStart(z, n) < NextMonth(y, m)
    <3>1. t \div Day \in Int
      BY <1>0 DEF Day
    <3> QED
      BY <2>2, <2>3, <2>5, <3>1
  <2>7. y = z /\ m = n
    BY <2>6, MonthsApart
  <2> QED
    BY <1>5, <2>1, <2>2, <2>7
<1> QED
  BY <1>1, <1>2, <1>3, <1>4, <1>5 DEF Granularities

\* A partition starts where the one before it ends.
LEMMA UnitFollows ==
    ASSUME NEW g \in Granularities, NEW s \in Times, UntilOf(StartOf(s, g), g) \in Times
    PROVE  StartOf(UntilOf(StartOf(s, g), g), g) = UntilOf(StartOf(s, g), g)
<1>0. s \in Int
  BY DEF Times
<1>1. CASE g = "minute"
  BY <1>0, <1>1 DEF StartOf, UntilOf, Day
<1>2. CASE g = "hour"
  BY <1>0, <1>2 DEF StartOf, UntilOf, Day
<1>3. CASE g = "day"
  BY <1>0, <1>3 DEF StartOf, UntilOf, Day
<1>4. CASE g = "week"
  BY <1>0, <1>4 DEF StartOf, UntilOf, Day, DaysFromMonday
<1>5. CASE g = "month"
  <2>1. PICK y \in Int, m \in 1 .. 12 :
           /\ StartOf(s, "month") = MonthStart(y, m) * Day
           /\ MonthStart(y, m) \in Calendar
    BY MonthIs
  <2>2. UntilOf(StartOf(s, g), g) = NextMonth(y, m) * Day
    BY <1>5, <2>1, MonthUntil
  <2>3. \E z \in Int, n \in 1 .. 12 : NextMonth(y, m) = MonthStart(z, n)
    <3>1. CASE m = 12
      BY <3>1 DEF NextMonth
    <3>2. CASE m # 12
      BY <3>2 DEF NextMonth
    <3> QED
      BY <3>1, <3>2
  <2>4. PICK z \in Int, n \in 1 .. 12 : NextMonth(y, m) = MonthStart(z, n)
    BY <2>3
  <2>5. MonthStart(z, n) \in Calendar
    <3>1. MonthStart(z, n) \in Int
      BY MonthLies
    <3>2. (MonthStart(z, n) * Day) \div Day \in Calendar
      BY <2>2, <2>4 DEF Times
    <3> QED
      BY <3>1, <3>2 DEF Day
  <2> QED
    BY <1>5, <2>2, <2>4, <2>5, MonthUntil
<1> QED
  BY <1>1, <1>2, <1>3, <1>4, <1>5 DEF Granularities

\* The second of an instant, whatever the resolution, before 1970 too.
LEMMA SecondsIs ==
    ASSUME NEW x \in Int
    PROVE  /\ Seconds(x) \in Int
           /\ \A a \in Int : a * TicksPerSecond <= x <=> a <= Seconds(x)
<1> DEFINE T == TicksPerSecond
           q == x \div T
<1>1. T \in Nat /\ 0 < T
  BY ResolutionAssumption
<1>2. q \in Int /\ q * T <= x /\ x < (q + 1) * T
  <2> HIDE DEF T
  <2> QED
    BY <1>1
<1>3. Seconds(x) = q
  BY DEF Seconds
<1> HIDE DEF q, T
<1>4. ASSUME NEW a \in Int
      PROVE  a * T <= x <=> a <= q
  <2>1. ASSUME a <= q PROVE a * T <= x
    <3>1. a * T <= q * T /\ a * T \in Int /\ q * T \in Int
      BY <1>1, <1>2, <2>1
    <3> QED
      BY <1>2, <3>1
  <2>2. ASSUME a > q PROVE ~(a * T <= x)
    <3>1. q + 1 <= a
      BY <1>2, <2>2
    <3>2. (q + 1) * T <= a * T /\ a * T \in Int /\ (q + 1) * T \in Int
      BY <1>1, <1>2, <3>1
    <3> QED
      BY <1>2, <3>2
  <2> QED
    BY <1>2, <2>1, <2>2
<1> QED
  BY <1>2, <1>3, <1>4 DEF T

\* An instant is an integer, and later timestamps are later instants.
LEMMA TicksGrow ==
    ASSUME NEW unit \in Units, NEW a \in Int, NEW b \in Int
    PROVE  /\ Ticks(a, unit) \in Int
           /\ a <= b => Ticks(a, unit) <= Ticks(b, unit)
           /\ a < b => Ticks(a, unit) < Ticks(b, unit)
<1> DEFINE f == Factor(unit)
<1>1. f \in Nat /\ f >= 1
  BY ResolutionAssumption DEF Factor, Units
<1> HIDE DEF f
<1>2. a * f \in Int /\ b * f \in Int
  BY <1>1
<1>3. a <= b => a * f <= b * f
  BY <1>1
<1>4. a < b => a * f < b * f
  BY <1>1
<1> QED
  BY <1>2, <1>3, <1>4 DEF Ticks, f

\* The partitions of the calendar.
Partitions(g) == {BuildPartition(s, g) : s \in Times}

LEMMA PartitionIs ==
    ASSUME NEW g \in Granularities, NEW p \in Partitions(g)
    PROVE  /\ p.start \in Int /\ p.until \in Int /\ p.start < p.until
           /\ p.until <= p.start + 31 * Day
           /\ \A t \in Times : p.start <= t /\ t < p.until => p = BuildPartition(t, g)
           /\ p.until \in Times => BuildPartition(p.until, g).start = p.until
<1>1. PICK s \in Times : p = BuildPartition(s, g)
  BY DEF Partitions
<1> DEFINE b == StartOf(s, g)
<1>2. p.start = b /\ p.until = UntilOf(b, g)
  BY <1>1 DEF BuildPartition
<1>3. /\ b \in Int /\ UntilOf(b, g) \in Int /\ b <= s /\ s < UntilOf(b, g)
      /\ UntilOf(b, g) <= b + 31 * Day /\ s \in Int
  BY UnitHolds DEF Times
<1>4. ASSUME NEW t \in Times, p.start <= t, t < p.until
      PROVE  p = BuildPartition(t, g)
  <2>1. StartOf(t, g) = b
    BY <1>2, <1>4, UnitOwns
  <2> QED
    BY <1>1, <2>1 DEF BuildPartition
<1>5. ASSUME p.until \in Times
      PROVE  BuildPartition(p.until, g).start = p.until
  <2>1. StartOf(p.until, g) = p.until
    BY <1>2, <1>5, UnitFollows
  <2> QED
    BY <2>1 DEF BuildPartition
<1> HIDE DEF b
<1> QED
  BY <1>2, <1>3, <1>4, <1>5

\* The partition of a time starts no later, and ends later.
LEMMA BuiltHolds ==
    ASSUME NEW g \in Granularities, NEW s \in Times
    PROVE  /\ BuildPartition(s, g) \in Partitions(g)
           /\ BuildPartition(s, g).start <= s /\ s < BuildPartition(s, g).until
BY UnitHolds DEF BuildPartition, Partitions

\* The fields of a call.
Request(r) ==
    /\ r.from \in Int /\ r.until \in Int /\ r.unit \in Units
    /\ r.granularity \in Granularities /\ r.limit \in Nat \ {0}

\* The seconds the loop builds partitions of.
Span == {s \in Int : Seconds(From) <= s /\ s <= Seconds(Until) + 31 * Day}

\* The loop stays inside the calendar, two years from its ends.
LEMMA RequestIs ==
    ASSUME request \in Requests
    PROVE  /\ Request(request) /\ From \in Int /\ Until \in Int
           /\ Span \subseteq Times
           /\ \A s \in Span : /\ YearStart(FirstYear + 3) <= s \div Day
                              /\ s \div Day < YearStart(LastYear - 2)
<1>1. /\ Request(request)
      /\ YearStart(FirstYear + 3) <= Seconds(From) \div Day
      /\ Seconds(Until) \div Day + 31 < YearStart(LastYear - 2)
  BY RequestAssumption DEF Request, From, Until
<1>2. From \in Int /\ Until \in Int
  BY <1>1, TicksGrow DEF From, Until, Request
<1>3. Seconds(From) \in Int /\ Seconds(Until) \in Int
  BY <1>2, SecondsIs
<1>4. /\ YearStart(FirstYear) \in Int /\ YearStart(LastYear + 1) \in Int
      /\ YearStart(FirstYear + 3) \in Int /\ YearStart(LastYear - 2) \in Int
      /\ YearStart(FirstYear) <= YearStart(FirstYear + 3)
      /\ YearStart(LastYear - 2) <= YearStart(LastYear + 1)
  <2> DEFINE a == FirstYear
             b == LastYear - 2
  <2>1. a \in Int /\ b \in Int /\ LastYear = b + 2 /\ LastYear + 1 = b + 3
    BY RequestAssumption
  <2>2. \A y \in Int : YearStart(y) \in Int /\ YearStart(y) <= YearStart(y + 1)
    BY YearLength
  <2>3. \A y \in Int : YearStart(y + 1) <= YearStart(y + 3)
    <3> TAKE y \in Int
    <3>1. y < y + 3 /\ y + 3 \in Int
      OBVIOUS
    <3> QED
      BY <3>1, YearsGrow
  <2>4. \A y \in Int : YearStart(y) \in Int /\ YearStart(y + 1) \in Int
                       /\ YearStart(y + 3) \in Int /\ YearStart(y) <= YearStart(y + 3)
    <3> TAKE y \in Int
    <3>1. YearStart(y) \in Int /\ YearStart(y + 1) \in Int /\ YearStart(y + 3) \in Int
      BY <2>2
    <3> QED
      BY <2>2, <2>3, <3>1
  <2> QED
    BY <2>1, <2>4
<1>5. ASSUME NEW s \in Span
      PROVE  /\ s \in Times
             /\ YearStart(FirstYear + 3) <= s \div Day
             /\ s \div Day < YearStart(LastYear - 2)
  <2>1. /\ s \in Int /\ s \div Day \in Int
        /\ Seconds(From) \div Day <= s \div Day
        /\ s \div Day <= Seconds(Until) \div Day + 31
        /\ Seconds(From) \div Day \in Int /\ Seconds(Until) \div Day \in Int
    BY <1>3, <1>5 DEF Day, Span
  <2>2. /\ YearStart(FirstYear + 3) <= s \div Day
        /\ s \div Day < YearStart(LastYear - 2)
    BY <1>1, <1>4, <2>1
  <2>3. s \div Day \in Calendar
    BY <1>4, <2>1, <2>2 DEF Calendar
  <2> QED
    BY <2>1, <2>2, <2>3 DEF Times
<1> QED
  BY <1>1, <1>2, <1>5

\* Where the loop of plan/4 stands: what it has taken tiles the range up to the
\* partition it has built, which holds the start of the range if it is the first.
Taken ==
    /\ \A i \in 1 .. Len(output) : Bound(output[i]) < Until /\ From < End(output[i])
    /\ \A i \in 1 .. Len(output) - 1 : output[i].until = output[i + 1].start
    /\ output # <<>> => Bound(output[1]) <= From

PlanInv ==
    /\ request \in Requests
    /\ status \in {"called", "planning", "done", "limit", "invalid"}
    /\ output \in Seq(Partitions(request.granularity))
    /\ Len(output) <= request.limit
    /\ Taken
    /\ status = "called" => output = <<>>
    /\ status = "planning" =>
          /\ From < Until
          /\ current \in {BuildPartition(s, request.granularity) : s \in Span}
          /\ From < End(current)
          /\ output = <<>> => Bound(current) <= From
          /\ output # <<>> => current.start = output[Len(output)].until
    /\ status = "limit" => Len(output) = request.limit /\ Bound(current) < Until
    /\ status = "done" /\ From < Until =>
          output # <<>> /\ Until <= End(output[Len(output)])

\* Every timestamp of the range, and not only the probes.
AllRouted ==
    status = "done" =>
        \A t \in Int : request.from <= t /\ t < request.until =>
            \E i \in DOMAIN output :
                output[i] = PartitionFor(t, request.unit, request.granularity)

LEMMA InitPlan == PlanInit => PlanInv
<1> SUFFICES ASSUME PlanInit PROVE PlanInv
  OBVIOUS
<1>1. output = <<>> /\ Len(output) = 0 /\ output \in Seq(Partitions(request.granularity))
  BY EmptySeq DEF PlanInit
<1>2. request \in Requests /\ status = "called"
  BY DEF PlanInit
<1>3. request.limit \in Nat
  BY <1>2, RequestIs DEF Request
<1>4. Taken
  BY <1>1 DEF Taken
<1> QED
  BY <1>1, <1>2, <1>3, <1>4 DEF PlanInv

\* The first partition is the one of the start of the range.
LEMMA BeginPlan ==
    ASSUME PlanInv, Begin
    PROVE  PlanInv'
<1>1. /\ request \in Requests /\ status = "called" /\ output = <<>>
      /\ UNCHANGED <<request, output>> /\ Taken
  BY DEF Begin, PlanInv
<1>2. /\ Request(request) /\ From \in Int /\ Until \in Int
      /\ Span \subseteq Times
  BY <1>1, RequestIs
<1>3. From' = From /\ Until' = Until /\ Taken' /\ Span' = Span
  BY <1>1 DEF From, Until, Taken, Bound, End, Span
<1>4. CASE From < Until
  <2> DEFINE s == Seconds(From)
             g == request.granularity
             p == BuildPartition(s, g)
  <2>1. /\ s \in Int /\ Seconds(Until) \in Int
        /\ s * TicksPerSecond <= From /\ s <= Seconds(Until)
    BY <1>2, <1>4, SecondsIs, ResolutionAssumption
  <2>2. s \in Span /\ s \in Times /\ g \in Granularities
    BY <1>2, <2>1 DEF Day, Request, Span
  <2>3. p \in Partitions(g) /\ p.start <= s /\ s < p.until
    BY <2>2, BuiltHolds
  <2>4. p.start \in Int /\ p.until \in Int
    BY <2>2, <2>3, PartitionIs
  <2>5. p.start * TicksPerSecond <= From
    BY <1>2, <2>3, <2>4, SecondsIs
  <2>6. From < p.until * TicksPerSecond
    <3>1. ~(p.until <= s)
      BY <2>1, <2>3, <2>4
    <3>2. ~(p.until * TicksPerSecond <= From)
      BY <1>2, <2>4, <3>1, SecondsIs
    <3>3. p.until * TicksPerSecond \in Int
      BY <2>4, ResolutionAssumption
    <3> QED
      BY <1>2, <3>2, <3>3
  <2>7. current' = p /\ status' = "planning" /\ p \in {BuildPartition(r, g) : r \in Span}
    BY <1>4, <2>2 DEF Begin
  <2> HIDE DEF p, s
  <2> QED
    BY <1>1, <1>3, <1>4, <2>3, <2>5, <2>6, <2>7 DEF PlanInv, Bound, End
<1>5. CASE ~(From < Until)
  <2>1. status' \in {"done", "invalid"}
    BY <1>5 DEF Begin
  <2> QED
    BY <1>1, <1>3, <1>5, <2>1 DEF PlanInv
<1> QED
  BY <1>4, <1>5

\* The next partition starts where the one that is taken ends.
LEMMA PushPlan ==
    ASSUME PlanInv, PushPartition
    PROVE  PlanInv'
<1> DEFINE g == request.granularity
           n == Len(output)
           p == BuildPartition(current.until, g)
<1>1. /\ request \in Requests /\ status = "planning" /\ status' = "planning"
      /\ request' = request /\ output' = Append(output, current) /\ current' = p
      /\ output \in Seq(Partitions(g)) /\ current \in {BuildPartition(s, g) : s \in Span}
      /\ From < Until /\ From < End(current) /\ Bound(current) < Until
      /\ output = <<>> => Bound(current) <= From
      /\ output # <<>> => current.start = output[n].until
      /\ n # request.limit /\ n <= request.limit /\ Taken
  BY DEF PushPartition, PlanInv, StartsBeforeEnd, AtLimit, Bound
<1>2. /\ Request(request) /\ From \in Int /\ Until \in Int /\ g \in Granularities
      /\ request.limit \in Nat /\ Span \subseteq Times /\ current \in Partitions(g)
  BY <1>1, RequestIs DEF Request, Partitions
<1>3. /\ current.start \in Int /\ current.until \in Int /\ current.start < current.until
      /\ current.until <= current.start + 31 * Day
      /\ current.until \in Times => p.start = current.until
  BY <1>1, <1>2, PartitionIs
<1>4. /\ Seconds(From) \in Int /\ Seconds(Until) \in Int
      /\ current.start * TicksPerSecond \in Int /\ current.until * TicksPerSecond \in Int
  BY <1>2, <1>3, SecondsIs, ResolutionAssumption
<1>5. current.until \in Span /\ current.until \in Times
  <2>1. current.start <= Seconds(Until)
    <3>1. current.start * TicksPerSecond <= Until
      BY <1>1, <1>2, <1>4 DEF Bound
    <3> QED
      BY <1>2, <1>3, <3>1, SecondsIs
  <2>2. ~(current.until <= Seconds(From))
    <3>1. ~(current.until * TicksPerSecond <= From)
      BY <1>1, <1>2, <1>4 DEF End
    <3> QED
      BY <1>2, <1>3, <3>1, SecondsIs
  <2>3. Seconds(From) <= current.until /\ current.until <= Seconds(Until) + 31 * Day
    BY <1>3, <1>4, <2>1, <2>2 DEF Day
  <2> QED
    BY <1>2, <1>3, <2>3 DEF Span
<1>6. /\ p \in {BuildPartition(s, g) : s \in Span} /\ p \in Partitions(g)
      /\ p.start = current.until /\ p.until \in Int
      /\ current.until < p.until
  BY <1>2, <1>3, <1>5, BuiltHolds, PartitionIs
<1>7. From < End(p)
  <2>1. current.until * TicksPerSecond <= p.until * TicksPerSecond
        /\ p.until * TicksPerSecond \in Int
    BY <1>3, <1>6, ResolutionAssumption
  <2> QED
    BY <1>1, <1>2, <1>4, <2>1 DEF End
<1>8. /\ n \in Nat /\ output' \in Seq(Partitions(g)) /\ Len(output') = n + 1
      /\ \A i \in 1 .. n : output'[i] = output[i]
      /\ output'[n + 1] = current /\ output' # <<>>
  BY <1>1, <1>2, AppendProperties, LenProperties, EmptySeq
<1>9. From' = From /\ Until' = Until /\ Span' = Span
  BY <1>1 DEF From, Until, Span
<1> HIDE DEF p
<1>10. Taken'
  <2>1. ASSUME NEW i \in 1 .. Len(output')
        PROVE  Bound(output'[i]) < Until /\ From < End(output'[i])
    <3>1. i \in 1 .. n \/ i = n + 1
      BY <1>8
    <3> QED
      BY <1>1, <1>8, <3>1 DEF Taken
  <2>2. ASSUME NEW i \in 1 .. Len(output') - 1
        PROVE  output'[i].until = output'[i + 1].start
    <3>1. i \in 1 .. n /\ (i = n \/ (i \in 1 .. n - 1 /\ i + 1 \in 1 .. n))
      BY <1>8
    <3>2. CASE i = n
      <4>1. output # <<>>
        BY <3>1, EmptySeq, <1>8
      <4> QED
        BY <1>1, <1>8, <3>1, <3>2, <4>1
    <3>3. CASE i \in 1 .. n - 1 /\ i + 1 \in 1 .. n
      BY <1>1, <1>8, <3>1, <3>3 DEF Taken
    <3> QED
      BY <3>1, <3>2, <3>3
  <2>3. Bound(output'[1]) <= From
    <3>1. CASE output = <<>>
      <4>1. n = 0
        BY <3>1, EmptySeq
      <4> QED
        BY <1>1, <1>8, <3>1, <4>1
    <3>2. CASE output # <<>>
      <4>1. 1 \in 1 .. n
        BY <1>1, <3>2, EmptySeq
      <4> QED
        BY <1>1, <1>8, <3>2, <4>1 DEF Taken
    <3> QED
      BY <3>1, <3>2
  <2> QED
    BY <1>9, <2>1, <2>2, <2>3 DEF Taken, Bound, End
<1>11. Len(output') <= request'.limit
  BY <1>1, <1>2, <1>8
<1> QED
  BY <1>1, <1>6, <1>7, <1>8, <1>9, <1>10, <1>11 DEF PlanInv, End

\* The loop ends at the limit, or when the next partition is past the range.
LEMMA PlanStepInv ==
    ASSUME PlanInv, [PlanNext]_planVars
    PROVE  PlanInv'
<1>1. CASE ExceedLimit
  <2>1. /\ UNCHANGED <<request, current, output>> /\ status = "planning"
        /\ status' = "limit" /\ Len(output) = request.limit /\ Bound(current) < Until
    BY <1>1 DEF ExceedLimit, StartsBeforeEnd, AtLimit, Bound
  <2>2. From' = From /\ Until' = Until /\ Taken' /\ Bound(current)' = Bound(current)
    BY <2>1 DEF PlanInv, From, Until, Taken, Bound, End
  <2> QED
    BY <2>1, <2>2 DEF PlanInv
<1>2. CASE Finish
  <2>1. /\ UNCHANGED <<request, current, output>> /\ status = "planning"
        /\ status' \in {"done", "invalid"} /\ ~(Bound(current) < Until)
    BY <1>2 DEF Finish, StartsBeforeEnd, Bound
  <2>2. From' = From /\ Until' = Until /\ Taken'
    BY <2>1 DEF PlanInv, From, Until, Taken, Bound, End
  <2>3. /\ request \in Requests /\ From < Until
        /\ current \in {BuildPartition(s, request.granularity) : s \in Span}
        /\ output = <<>> => Bound(current) <= From
        /\ output # <<>> => current.start = output[Len(output)].until
    BY <2>1 DEF PlanInv
  <2>4. /\ From \in Int /\ Until \in Int /\ Bound(current) \in Int
    <3>1. /\ From \in Int /\ Until \in Int /\ request.granularity \in Granularities
          /\ current \in Partitions(request.granularity)
      BY <2>3, RequestIs DEF Request, Partitions
    <3> QED
      BY <3>1, PartitionIs, ResolutionAssumption DEF Bound
  <2>5. output # <<>>
    BY <2>1, <2>3, <2>4
  <2>6. Until <= End(output[Len(output)])
    BY <2>1, <2>3, <2>4, <2>5 DEF Bound, End
  <2> QED
    BY <2>1, <2>2, <2>5, <2>6 DEF PlanInv, End
<1>3. CASE UNCHANGED planVars
  BY <1>3 DEF planVars, PlanInv, Taken, From, Until, Bound, End, Span
<1> QED
  BY <1>1, <1>2, <1>3, BeginPlan, PushPlan DEF PlanNext

\* Partitions that tile the range hold every timestamp of it.
LEMMA PlanRoutes ==
    ASSUME PlanInv
    PROVE  AllRouted
<1> SUFFICES ASSUME status = "done", NEW t \in Int, request.from <= t, t < request.until
             PROVE  \E i \in DOMAIN output :
                       output[i] = PartitionFor(t, request.unit, request.granularity)
  BY DEF AllRouted
<1> DEFINE g == request.granularity
           x == Ticks(t, request.unit)
           s == Seconds(x)
           n == Len(output)
<1>1. /\ request \in Requests /\ output \in Seq(Partitions(g)) /\ Taken
      /\ From < Until => output # <<>> /\ Until <= End(output[n])
  BY DEF PlanInv
<1>2. /\ Request(request) /\ From \in Int /\ Until \in Int /\ g \in Granularities
      /\ request.unit \in Units /\ request.from \in Int /\ request.until \in Int
      /\ Span \subseteq Times
  BY <1>1, RequestIs DEF Request
<1>3. x \in Int /\ From <= x /\ x < Until
  BY <1>2, TicksGrow DEF From, Until
<1>4. From < Until
  BY <1>2, <1>3
<1>5. /\ Seconds(From) \in Int /\ Seconds(Until) \in Int /\ s \in Int
      /\ Seconds(From) <= s /\ s <= Seconds(Until)
  <2>1. Seconds(From) \in Int /\ Seconds(Until) \in Int /\ s \in Int
    BY <1>2, <1>3, SecondsIs
  <2>2. /\ Seconds(From) * TicksPerSecond <= From /\ s * TicksPerSecond <= x
    BY <1>2, <1>3, <2>1, SecondsIs
  <2>3. /\ Seconds(From) * TicksPerSecond \in Int /\ s * TicksPerSecond \in Int
    BY <2>1, ResolutionAssumption
  <2>4. /\ Seconds(From) * TicksPerSecond <= x /\ s * TicksPerSecond <= Until
    BY <1>2, <1>3, <2>2, <2>3
  <2> QED
    BY <1>2, <1>3, <2>1, <2>4, SecondsIs
<1>6. s \in Times
  BY <1>2, <1>5 DEF Day, Span
<1> HIDE DEF x, s, g
<1>7. n \in Nat \ {0} /\ DOMAIN output = 1 .. n
  BY <1>1, <1>4, EmptySeq, LenProperties
<1>8. \A i \in 1 .. n :
         /\ output[i] \in Partitions(g)
         /\ output[i].start \in Int /\ output[i].until \in Int
  BY <1>1, <1>2, ElementOfSeq, PartitionIs
<1> DEFINE later == {i \in 1 .. n : s < output[i].until}
<1>9. n \in later
  <2>1. n \in 1 .. n /\ Until <= output[n].until * TicksPerSecond
        /\ output[n].until * TicksPerSecond \in Int
    BY <1>1, <1>4, <1>7, <1>8, ResolutionAssumption DEF End
  <2>2. ~(output[n].until * TicksPerSecond <= x)
    BY <1>2, <1>3, <2>1
  <2>3. ~(output[n].until <= s)
    BY <1>3, <1>8, <2>1, <2>2, SecondsIs DEF s
  <2>4. s < output[n].until
    BY <1>5, <1>8, <2>1, <2>3
  <2> QED
    BY <2>1, <2>4
<1>10. PICK i \in later : \A j \in later : i <= j
  <2>1. later \in SUBSET Nat
    OBVIOUS
  <2> HIDE DEF later
  <2> QED
    BY <1>9, <2>1, LeastElement
<1>11. i \in 1 .. n /\ s < output[i].until
  BY <1>10
<1>12. output[i].start <= s
  <2>1. CASE i = 1
    <3>1. output[1].start * TicksPerSecond <= From
      BY <1>1, <1>4 DEF Taken, Bound
    <3>2. output[1].start * TicksPerSecond \in Int /\ output[1].start \in Int
      BY <1>7, <1>8, ResolutionAssumption
    <3>3. output[1].start * TicksPerSecond <= x
      BY <1>2, <1>3, <3>1, <3>2
    <3> QED
      BY <1>3, <2>1, <3>2, <3>3, SecondsIs DEF s
  <2>2. CASE i # 1
    <3>1. /\ i - 1 \in 1 .. n /\ i - 1 \in 1 .. n - 1 /\ (i - 1) + 1 = i /\ ~(i <= i - 1)
      BY <1>7, <1>11, <2>2
    <3>2. ~(s < output[i - 1].until)
      BY <1>10, <3>1
    <3>3. output[i - 1].until = output[i].start
      BY <1>1, <3>1 DEF Taken
    <3> QED
      BY <1>5, <1>8, <1>11, <3>2, <3>3
  <2> QED
    BY <2>1, <2>2
<1>13. output[i] = BuildPartition(s, g)
  BY <1>2, <1>6, <1>8, <1>11, <1>12, PartitionIs
<1> QED
  BY <1>7, <1>11, <1>13 DEF PartitionFor, s, x, g

\* plan/4 tiles the range: its partitions follow each other without a gap or an
\* overlap, the first holds the start, each overlaps the range, and together
\* they cover it; the limit refuses exactly the ranges with more partitions.
THEOREM PlansTile == PlanSpec => []PlanTiles
<1>1. PlanInv /\ [PlanNext]_planVars => PlanInv'
  BY PlanStepInv
<1>2. PlanInv => PlanTiles
  <2> SUFFICES ASSUME PlanInv PROVE PlanTiles
    OBVIOUS
  <2>1. DOMAIN output = 1 .. Len(output)
    BY LenProperties DEF PlanInv
  <2> QED
    BY <2>1 DEF PlanInv, Taken, PlanTiles
<1> QED
  BY <1>1, <1>2, InitPlan, PTL DEF PlanSpec

\* The dataset writer and the planner agree: the partition that partition_for
\* routes a row to is among those planned for every range that holds the row's
\* timestamp, with the same path, for all timestamps of the range.
THEOREM RowsAreFound == PlanSpec => [](AllRouted /\ RoutedIsPlanned)
<1>1. PlanInv /\ [PlanNext]_planVars => PlanInv'
  BY PlanStepInv
<1>2. PlanInv => AllRouted /\ RoutedIsPlanned
  <2> SUFFICES ASSUME PlanInv PROVE AllRouted /\ RoutedIsPlanned
    OBVIOUS
  <2>1. AllRouted
    BY PlanRoutes
  <2>2. Probes \subseteq Int
    <3>1. Request(request) /\ output \in Seq(Partitions(request.granularity))
      BY RequestIs DEF PlanInv
    <3>2. \A i \in DOMAIN output : output[i].until \in Int
      BY <3>1, LenProperties, ElementOfSeq, PartitionIs DEF Request
    <3>3. TicksPerSecond \in Nat /\ Factor(request.unit) \in Nat \ {0}
      BY <3>1, ResolutionAssumption DEF Factor, Units, Request
    <3>4. \A i \in DOMAIN output, d \in {-1, 0} :
             (output[i].until * TicksPerSecond) \div Factor(request.unit) + d \in Int
      <4> SUFFICES ASSUME NEW i \in DOMAIN output, NEW d \in {-1, 0}
                   PROVE  (output[i].until * TicksPerSecond) \div Factor(request.unit) + d
                             \in Int
        OBVIOUS
      <4> DEFINE u == output[i].until * TicksPerSecond
                 f == Factor(request.unit)
      <4>1. u \in Int /\ f \in Nat \ {0}
        BY <3>2, <3>3
      <4> HIDE DEF u, f
      <4>2. u \div f \in Int /\ d \in Int
        BY <4>1
      <4>3. (u \div f) + d \in Int
        BY <4>2
      <4> QED
        BY <4>3 DEF u, f
    <3> QED
      BY <3>1, <3>4 DEF Probes, Request
  <2> QED
    BY <2>1, <2>2 DEF AllRouted, RoutedIsPlanned
<1> QED
  BY <1>1, <1>2, InitPlan, PTL DEF PlanSpec

\* Two partitions of the calendar are the same or disjoint.
LEMMA PartitionsApart ==
    ASSUME NEW g \in Granularities, NEW p \in Partitions(g), NEW r \in Partitions(g), p # r
    PROVE  p.until <= r.start \/ r.until <= p.start
<1>1. PICK s \in Times : p = BuildPartition(s, g)
  BY DEF Partitions
<1>2. PICK t \in Times : r = BuildPartition(t, g)
  BY DEF Partitions
<1>3. /\ p.start <= s /\ s < p.until /\ r.start <= t /\ t < r.until
      /\ s \in Int /\ t \in Int
  BY <1>1, <1>2, BuiltHolds DEF Times
<1>4. /\ p.start \in Int /\ p.until \in Int /\ r.start \in Int /\ r.until \in Int
      /\ \A u \in Times : p.start <= u /\ u < p.until => p = BuildPartition(u, g)
      /\ \A u \in Times : r.start <= u /\ u < r.until => r = BuildPartition(u, g)
  BY PartitionIs
<1>5. ASSUME NEW u \in Times
      PROVE  ~(p.start <= u /\ u < p.until /\ r.start <= u /\ u < r.until)
  BY <1>4
<1>6. \A u \in Int : (s <= u /\ u <= t) \/ (t <= u /\ u <= s) => u \in Times
  <2> TAKE u \in Int
  <2>1. YearStart(FirstYear) \in Int /\ YearStart(LastYear + 1) \in Int
    BY RequestAssumption, YearLength
  <2>2. s \div Day \in Int /\ t \div Day \in Int /\ u \div Day \in Int
    BY <1>3 DEF Day
  <2>3. s \div Day \in Calendar /\ t \div Day \in Calendar
    BY DEF Times
  <2>4. /\ s <= u /\ u <= t => s \div Day <= u \div Day /\ u \div Day <= t \div Day
        /\ t <= u /\ u <= s => t \div Day <= u \div Day /\ u \div Day <= s \div Day
    BY <1>3 DEF Day
  <2>5. (s <= u /\ u <= t) \/ (t <= u /\ u <= s) => u \div Day \in Calendar
    BY <2>1, <2>2, <2>3, <2>4 DEF Calendar
  <2> QED
    BY <2>5 DEF Times
<1>7. CASE s <= t
  <2>1. CASE r.start <= s
    <3>1. s \in Times
      OBVIOUS
    <3> QED
      BY <1>3, <1>4, <1>5, <1>7, <2>1, <3>1
  <2>2. CASE s < r.start
    BY <1>3, <1>4, <1>5, <1>6, <1>7, <2>2
  <2> QED
    BY <1>3, <1>4, <2>1, <2>2
<1>8. CASE t < s
  <2>1. CASE p.start <= t
    BY <1>3, <1>4, <1>5, <1>8, <2>1
  <2>2. CASE t < p.start
    BY <1>3, <1>4, <1>5, <1>6, <1>8, <2>2
  <2> QED
    BY <1>3, <1>4, <2>1, <2>2
<1> QED
  BY <1>3, <1>7, <1>8

\* A day between the starts of two years is in the one it follows.
LEMMA YearIs ==
    ASSUME NEW y \in FirstYear .. LastYear, NEW d \in Int,
           YearStart(y) <= d, d < YearStart(y + 1)
    PROVE  d \in Calendar /\ YearOf(d) = y
<1>0. FirstYear \in Int /\ LastYear \in Int /\ y \in Int /\ FirstYear <= y /\ y <= LastYear
  BY RequestAssumption
<1>1. \A a, b \in Int : a <= b => YearStart(a) <= YearStart(b)
  <2> SUFFICES ASSUME NEW a \in Int, NEW b \in Int, a <= b
               PROVE  YearStart(a) <= YearStart(b)
    OBVIOUS
  <2>1. /\ YearStart(a) \in Int /\ YearStart(b) \in Int
        /\ YearStart(a + 1) \in Int /\ YearStart(a) <= YearStart(a + 1)
    BY YearLength
  <2>2. a < b => YearStart(a + 1) <= YearStart(b)
    BY YearsGrow
  <2> QED
    BY <2>1, <2>2
<1>2. /\ YearStart(FirstYear) \in Int /\ YearStart(LastYear + 1) \in Int
      /\ YearStart(y) \in Int /\ YearStart(y + 1) \in Int
  BY <1>0, YearLength
<1>3. YearStart(FirstYear) <= YearStart(y) /\ YearStart(y + 1) <= YearStart(LastYear + 1)
  BY <1>0, <1>1
<1>4. d \in Calendar
  BY <1>2, <1>3 DEF Calendar
<1> DEFINE z == YearOf(d)
           m == MonthOf(d)
<1>5. /\ z \in Int /\ m \in 1 .. 12 /\ MonthStart(z, m) <= d /\ d < NextMonth(z, m)
  BY <1>0, <1>4, DateIs
<1> HIDE DEF z, m
<1>6. /\ YearStart(z) <= d /\ d < YearStart(z + 1)
      /\ YearStart(z) \in Int /\ YearStart(z + 1) \in Int
  <2>1. /\ MonthStart(z, m) \in Int /\ NextMonth(z, m) \in Int
        /\ YearStart(z) <= MonthStart(z, m) /\ NextMonth(z, m) <= YearStart(z + 1)
    BY <1>5, MonthLies
  <2>2. YearStart(z) \in Int /\ YearStart(z + 1) \in Int
    BY <1>5, YearLength
  <2> QED
    BY <1>5, <2>1, <2>2
<1>7. ~(z < y)
  BY <1>0, <1>1, <1>2, <1>5, <1>6
<1>8. ~(y < z)
  BY <1>0, <1>1, <1>2, <1>5, <1>6
<1> QED
  BY <1>0, <1>4, <1>5, <1>7, <1>8 DEF z

\* The last ISO week of a year is the one of 28 December.
LEMMA WeeksIs ==
    ASSUME NEW y \in FirstYear .. LastYear
    PROVE  \E e \in Int :
              /\ e = YearStart(y) + IF IsLeap(y) THEN 362 ELSE 361
              /\ WeeksIn(y) = (Thursday(e) - YearStart(y)) \div 7 + 1
              /\ WeeksIn(y) \in 1 .. 53
<1> DEFINE b == YearStart(y)
           e == b + IF IsLeap(y) THEN 362 ELSE 361
           t == Thursday(e)
<1>1. y \in Int /\ b \in Int /\ YearStart(y + 1) \in Int
      /\ YearStart(y + 1) = b + IF IsLeap(y) THEN 366 ELSE 365
  BY RequestAssumption, YearLength
<1>2. e \in Int /\ b <= e /\ e - b \in 361 .. 362 /\ e + 3 < YearStart(y + 1)
  <2> HIDE DEF b
  <2> QED
    BY <1>1
<1>3. t \in Int /\ e - 3 <= t /\ t <= e + 3
  <2> HIDE DEF e
  <2> QED
    BY <1>2 DEF Thursday, DaysFromMonday
<1>4. YearOf(t) = y
  <2> HIDE DEF e, t, b
  <2>1. YearStart(y) <= t /\ t < YearStart(y + 1)
    BY <1>1, <1>2, <1>3 DEF b
  <2> QED
    BY <1>3, <2>1, YearIs
<1>5. IsoWeek(e) = (t - b) \div 7 + 1
  BY <1>4 DEF IsoWeek, IsoYear
<1>6. WeeksIn(y) = IsoWeek(e)
  BY DEF WeeksIn
<1>7. (t - b) \div 7 + 1 \in 1 .. 53
  <2> HIDE DEF t, b, e
  <2> QED
    BY <1>1, <1>2, <1>3
<1> QED
  BY <1>2, <1>5, <1>6, <1>7

\* The dates that parse accepts are in the calendar, if their year is inside it.
LEMMA DateFits ==
    ASSUME NEW g \in Granularities, NEW values, DateExists(values, g),
           values[1] \in FirstYear + 1 .. LastYear - 1
    PROVE  DateOf(values, g) \in Calendar
<1> DEFINE y == values[1]
<1>0. /\ FirstYear \in Int /\ LastYear \in Int /\ y \in Int
      /\ FirstYear + 1 <= y /\ y <= LastYear - 1 /\ y \in FirstYear .. LastYear
  BY RequestAssumption
<1>1. CASE g = "week"
  <2> DEFINE w == values[2]
             a == YearStart(y)
             fourth == a + 3
             date == fourth - DaysFromMonday(fourth) + 7 * (w - 1)
  <2>1. w \in 1 .. WeeksIn(y) /\ WeeksIn(y) \in 1 .. 53
    BY <1>0, <1>1, WeeksIs DEF DateExists
  <2>2. w \in 1 .. 53
    BY <2>1
  <2>3. a \in Int
    BY <1>0, YearLength
  <2>4. date \in Int /\ a - 3 <= date /\ date <= a + 367
    <3> HIDE DEF w, a
    <3> QED
      BY <2>2, <2>3 DEF DaysFromMonday
  <2>5. YearStart(FirstYear) + 3 <= a
    <3>1. YearStart(FirstYear + 1) <= a
      <4>1. FirstYear < y
        BY <1>0
      <4> QED
        BY <1>0, <4>1, YearsGrow
    <3>2. /\ YearStart(FirstYear) \in Int /\ YearStart(FirstYear + 1) \in Int
          /\ YearStart(FirstYear) + 365 <= YearStart(FirstYear + 1)
      BY <1>0, YearLength
    <3> HIDE DEF a
    <3> QED
      BY <2>3, <3>1, <3>2
  <2>6. a + 367 < YearStart(LastYear + 1)
    <3>1. a + 365 <= YearStart(y + 1) /\ YearStart(y + 1) \in Int
      BY <1>0, <2>3, YearLength
    <3>2. /\ YearStart(y + 2) \in Int /\ YearStart(y + 1) + 365 <= YearStart(y + 2)
      <4> DEFINE z == y + 1
      <4>1. z \in Int /\ z + 1 = y + 2
        BY <1>0
      <4> HIDE DEF z
      <4>2. /\ YearStart(z) \in Int
            /\ YearStart(z + 1) = YearStart(z) + IF IsLeap(z) THEN 366 ELSE 365
        BY <4>1, YearLength
      <4>3. YearStart(z + 1) \in Int /\ YearStart(z) + 365 <= YearStart(z + 1)
        BY <4>2
      <4> QED
        BY <4>1, <4>3 DEF z
    <3>3. YearStart(y + 2) <= YearStart(LastYear + 1) /\ YearStart(LastYear + 1) \in Int
      <4>1. y + 1 < LastYear + 1 /\ y + 1 \in Int /\ LastYear + 1 \in Int
            /\ (y + 1) + 1 = y + 2
        BY <1>0
      <4>2. YearStart((y + 1) + 1) <= YearStart(LastYear + 1)
        BY <4>1, YearsGrow
      <4>3. YearStart(LastYear + 1) \in Int
        BY <4>1, YearLength
      <4> QED
        BY <4>1, <4>2, <4>3
    <3> HIDE DEF a
    <3> QED
      BY <2>3, <3>1, <3>2, <3>3
  <2>7. DateOf(values, g) = date
    BY <1>1 DEF DateOf
  <2>8. YearStart(FirstYear) \in Int /\ YearStart(LastYear + 1) \in Int
    BY <1>0, YearLength
  <2> HIDE DEF date, a
  <2> QED
    BY <2>3, <2>4, <2>5, <2>6, <2>7, <2>8 DEF Calendar
<1>2. CASE g # "week"
  <2> DEFINE m == values[2]
             date == DateOf(values, g)
  <2>1. /\ m \in 1 .. 12
        /\ Len(values) > 2 => values[3] \in 1 .. (NextMonth(y, m) - MonthStart(y, m))
        /\ date = MonthStart(y, m) + IF Len(values) > 2 THEN values[3] - 1 ELSE 0
    BY <1>2 DEF DateExists, DateOf
  <2>2. /\ MonthStart(y, m) \in Int /\ NextMonth(y, m) \in Int
        /\ YearStart(y) <= MonthStart(y, m) /\ NextMonth(y, m) <= YearStart(y + 1)
        /\ MonthStart(y, m) < NextMonth(y, m)
    BY <1>0, <2>1, MonthLies
  <2>3. YearStart(y) \in Int /\ YearStart(y + 1) \in Int
    BY <1>0, YearLength
  <2> HIDE DEF y, m, date
  <2>4. date \in Int /\ YearStart(y) <= date /\ date < YearStart(y + 1)
    <3>1. CASE Len(values) > 2
      BY <2>1, <2>2, <2>3, <3>1
    <3>2. CASE ~(Len(values) > 2)
      BY <2>1, <2>2, <2>3, <3>2
    <3> QED
      BY <3>1, <3>2
  <2>5. date \in Calendar
    BY <1>0, <2>4, YearIs
  <2> QED
    BY <2>5 DEF date
<1> QED
  BY <1>1, <1>2

\* What parse accepts is a partition of the calendar, under its own path.
LEMMA ParsedIs ==
    ASSUME NEW g \in Granularities, NEW S, NEW q \in Seq(S), Parse(q, g) # Invalid,
           q[1][2] \in FirstYear + 1 .. LastYear - 1
    PROVE  Parse(q, g) \in Partitions(g) /\ Parse(q, g).path = q
<1> DEFINE values == [i \in DOMAIN q |-> q[i][2]]
           hour == IF Len(q) > 3 THEN values[4] ELSE 0
           minute == IF Len(q) > 4 THEN values[5] ELSE 0
           date == DateOf(values, g)
           s == date * Day + hour * 3600 + minute * 60
           p == BuildPartition(s, g)
<1>1. /\ Len(q) = Len(SegmentNames(g)) /\ DateExists(values, g)
      /\ hour \in 0 .. 23 /\ minute \in 0 .. 59 /\ p.path = q /\ Parse(q, g) = p
  BY DEF Parse
<1>2. Len(SegmentNames(g)) \in 2 .. 5
  BY DEF SegmentNames, Granularities
<1>3. 1 \in DOMAIN q
  BY <1>1, <1>2, LenProperties
<1>4. values[1] = q[1][2]
  BY <1>3
<1> HIDE DEF values
<1>5. date \in Calendar
  BY <1>1, <1>4, DateFits
<1>6. date \in Int
  <2>1. YearStart(FirstYear) \in Int /\ YearStart(LastYear + 1) \in Int
    BY RequestAssumption, YearLength
  <2> QED
    BY <1>5, <2>1 DEF Calendar
<1> HIDE DEF hour, minute, date
<1>7. s \in Int /\ s \div Day = date
  BY <1>1, <1>6 DEF Day
<1>8. s \in Times
  BY <1>5, <1>7 DEF Times
<1> HIDE DEF s
<1> QED
  BY <1>1, <1>8 DEF Partitions

\* The year of a day is between those whose starts it is between.
LEMMA YearWithin ==
    ASSUME NEW a \in Int, NEW c \in Int, NEW d \in Calendar,
           YearStart(a) <= d, d < YearStart(c)
    PROVE  YearOf(d) \in a .. c - 1
<1> DEFINE y == YearOf(d)
           m == MonthOf(d)
<1>1. /\ y \in Int /\ m \in 1 .. 12 /\ MonthStart(y, m) <= d /\ d < NextMonth(y, m)
  BY RequestAssumption, DateIs
<1>2. d \in Int
  <2>1. YearStart(FirstYear) \in Int /\ YearStart(LastYear + 1) \in Int
    BY RequestAssumption, YearLength
  <2> QED
    BY <2>1 DEF Calendar
<1> HIDE DEF y, m
<1>3. YearStart(y) <= d /\ d < YearStart(y + 1)
      /\ YearStart(y) \in Int /\ YearStart(y + 1) \in Int
      /\ YearStart(a) \in Int /\ YearStart(c) \in Int
  <2>1. /\ MonthStart(y, m) \in Int /\ NextMonth(y, m) \in Int
        /\ YearStart(y) <= MonthStart(y, m) /\ NextMonth(y, m) <= YearStart(y + 1)
    BY <1>1, MonthLies
  <2>2. YearStart(y) \in Int /\ YearStart(y + 1) \in Int
        /\ YearStart(a) \in Int /\ YearStart(c) \in Int
    BY <1>1, YearLength
  <2> QED
    BY <1>1, <1>2, <2>1, <2>2
<1>4. ~(y < a)
  <2>1. y < a => YearStart(y + 1) <= YearStart(a)
    BY <1>1, YearsGrow
  <2> QED
    BY <1>2, <1>3, <2>1
<1>5. y < c
  <2>1. c < y => YearStart(c + 1) <= YearStart(y)
    BY <1>1, YearsGrow
  <2>2. YearStart(c + 1) \in Int /\ YearStart(c) <= YearStart(c + 1)
    BY <1>3, YearLength
  <2>3. ~(c < y)
    BY <1>2, <1>3, <2>1, <2>2
  <2>4. c # y
    BY <1>2, <1>3
  <2> QED
    BY <1>1, <2>3, <2>4
<1> QED
  BY <1>1, <1>4, <1>5 DEF y

\* The start of a partition has that partition.
LEMMA StartBuilds ==
    ASSUME NEW g \in Granularities, NEW s \in Times, StartOf(s, g) \in Times
    PROVE  /\ StartOf(StartOf(s, g), g) = StartOf(s, g)
           /\ BuildPartition(StartOf(s, g), g) = BuildPartition(s, g)
<1> DEFINE b == StartOf(s, g)
<1>1. b \in Int /\ b < UntilOf(b, g)
  <2>1. b \in Int /\ UntilOf(b, g) \in Int /\ b <= s /\ s < UntilOf(b, g) /\ s \in Int
    BY UnitHolds DEF Times
  <2> QED
    BY <2>1
<1>2. StartOf(b, g) = b
  BY <1>1, UnitOwns
<1> QED
  BY <1>2 DEF BuildPartition

\* A path passes the tests of parse, which then builds the partition of second b.
Passes(path, g, values, hour, minute, b) ==
    /\ values = [i \in DOMAIN path |-> path[i][2]]
    /\ Len(path) = Len(SegmentNames(g))
    /\ \A i \in DOMAIN path : path[i][1] = SegmentNames(g)[i] /\ values[i] # NotCanonical
    /\ DateExists(values, g)
    /\ hour = IF Len(path) > 3 THEN values[4] ELSE 0
    /\ minute = IF Len(path) > 4 THEN values[5] ELSE 0
    /\ hour \in 0 .. 23 /\ minute \in 0 .. 59
    /\ b = DateOf(values, g) * Day + hour * 3600 + minute * 60
    /\ BuildPartition(b, g).path = path

LEMMA ParseIs ==
    ASSUME NEW g, NEW path, NEW values, NEW hour, NEW minute, NEW b,
           Passes(path, g, values, hour, minute, b)
    PROVE  Parse(path, g) = BuildPartition(b, g)
BY DEF Passes, Parse

\* A path of dates parses to the partition whose start it was made from.
LEMMA DatePathParses ==
    ASSUME NEW g \in Granularities \ {"week"}, NEW b \in Times, StartOf(b, g) = b
    PROVE  Parse(PathOf(b, g), g) = BuildPartition(b, g)
<1> DEFINE d == b \div Day
           y == YearOf(d)
           m == MonthOf(d)
           k == DayOfMonth(d)
           h == (b % Day) \div 3600
           n == (b % 3600) \div 60
           path == PathOf(b, g)
           values == [i \in DOMAIN path |-> path[i][2]]
<1>1. b \in Int /\ d \in Int /\ d \in Calendar
  BY DEF Times, Day
<1>2. /\ y \in Int /\ m \in 1 .. 12 /\ MonthStart(y, m) <= d /\ d < NextMonth(y, m)
      /\ k = d - MonthStart(y, m) + 1
  BY <1>1, DateIs, RequestAssumption
<1>3. MonthStart(y, m) \in Int /\ NextMonth(y, m) \in Int
  BY <1>2, MonthLies
<1>4. h \in 0 .. 23 /\ n \in 0 .. 59
  BY <1>1 DEF Day
<1>5. k \in 1 .. (NextMonth(y, m) - MonthStart(y, m)) /\ MonthStart(y, m) + (k - 1) = d
  <2> HIDE DEF y, m, d, k
  <2> QED
    BY <1>1, <1>2, <1>3
<1>6. y # NotCanonical /\ m # NotCanonical /\ k # NotCanonical
      /\ h # NotCanonical /\ n # NotCanonical
  BY <1>2, <1>3, <1>4, <1>5, RequestAssumption
<1>7. BuildPartition(b, g).path = path
  BY DEF BuildPartition
<1>8. CASE g = "minute"
  <2>1. path = <<<<"year", y>>, <<"month", m>>, <<"day", k>>, <<"hour", h>>, <<"minute", n>>>>
    BY <1>8 DEF PathOf
  <2>2. b = d * Day + h * 3600 + n * 60
    <3>1. b - (b % 60) = b
      BY <1>8 DEF StartOf
    <3>2. b % 60 = 0
      BY <1>1, <3>1
    <3> QED
      BY <1>1, <3>2 DEF Day
  <2> HIDE DEF d, y, m, k, h, n, path
  <2>3. values = <<y, m, k, h, n>> /\ Len(values) = 5 /\ Len(path) = 5 /\ DOMAIN path = 1 .. 5
    BY <2>1
  <2>4. SegmentNames(g) = <<"year", "month", "day", "hour", "minute">>
    BY <1>8 DEF SegmentNames
  <2>5. \A i \in 1 .. 5 : path[i][1] = SegmentNames(g)[i] /\ values[i] # NotCanonical
    BY <1>6, <2>1, <2>3, <2>4
  <2> HIDE DEF values
  <2>6. DateExists(values, g) /\ DateOf(values, g) = d
    BY <1>2, <1>3, <1>5, <1>8, <2>3 DEF DateExists, DateOf
  <2>7. values[4] = h /\ values[5] = n /\ Len(SegmentNames(g)) = 5
    BY <2>3, <2>4
  <2>8. Passes(path, g, values, h, n, b)
    BY <1>4, <1>7, <2>2, <2>3, <2>5, <2>6, <2>7 DEF Passes, values
  <2> QED
    BY <2>8, ParseIs DEF path
<1>9. CASE g = "hour"
  <2>1. path = <<<<"year", y>>, <<"month", m>>, <<"day", k>>, <<"hour", h>>>>
    BY <1>9 DEF PathOf
  <2>2. b = d * Day + h * 3600 + 0 * 60
    <3>1. b - (b % 3600) = b
      BY <1>9 DEF StartOf
    <3>2. b % 3600 = 0
      BY <1>1, <3>1
    <3> QED
      BY <1>1, <3>2 DEF Day
  <2> HIDE DEF d, y, m, k, h, n, path
  <2>3. values = <<y, m, k, h>> /\ Len(values) = 4 /\ Len(path) = 4 /\ DOMAIN path = 1 .. 4
    BY <2>1
  <2>4. SegmentNames(g) = <<"year", "month", "day", "hour">>
    BY <1>9 DEF SegmentNames
  <2>5. \A i \in 1 .. 4 : path[i][1] = SegmentNames(g)[i] /\ values[i] # NotCanonical
    BY <1>6, <2>1, <2>3, <2>4
  <2> HIDE DEF values
  <2>6. DateExists(values, g) /\ DateOf(values, g) = d
    BY <1>2, <1>3, <1>5, <1>9, <2>3 DEF DateExists, DateOf
  <2>7. values[4] = h /\ Len(SegmentNames(g)) = 4
    BY <2>3, <2>4
  <2>8. Passes(path, g, values, h, 0, b)
    BY <1>4, <1>7, <2>2, <2>3, <2>5, <2>6, <2>7 DEF Passes, values
  <2> QED
    BY <2>8, ParseIs DEF path
<1>10. CASE g = "day"
  <2>1. path = <<<<"year", y>>, <<"month", m>>, <<"day", k>>>>
    BY <1>10 DEF PathOf
  <2>2. b = d * Day + 0 * 3600 + 0 * 60
    BY <1>1, <1>10 DEF Day, StartOf
  <2> HIDE DEF d, y, m, k, h, n, path
  <2>3. values = <<y, m, k>> /\ Len(values) = 3 /\ Len(path) = 3 /\ DOMAIN path = 1 .. 3
    BY <2>1
  <2>4. SegmentNames(g) = <<"year", "month", "day">>
    BY <1>10 DEF SegmentNames
  <2>5. \A i \in 1 .. 3 : path[i][1] = SegmentNames(g)[i] /\ values[i] # NotCanonical
    BY <1>6, <2>1, <2>3, <2>4
  <2> HIDE DEF values
  <2>6. DateExists(values, g) /\ DateOf(values, g) = d
    BY <1>2, <1>3, <1>5, <1>10, <2>3 DEF DateExists, DateOf
  <2>7. Len(SegmentNames(g)) = 3
    BY <2>4
  <2>8. Passes(path, g, values, 0, 0, b)
    BY <1>4, <1>7, <2>2, <2>3, <2>5, <2>6, <2>7 DEF Passes, values
  <2> QED
    BY <2>8, ParseIs DEF path
<1>11. CASE g = "month"
  <2>1. path = <<<<"year", y>>, <<"month", m>>>>
    BY <1>11 DEF PathOf
  <2>2. StartOf(b, g) = MonthStart(y, m) * Day
    BY <1>11 DEF StartOf
  <2> HIDE DEF y, m
  <2>3. b = MonthStart(y, m) * Day + 0 * 3600 + 0 * 60
    BY <1>3, <2>2 DEF Day
  <2> HIDE DEF d, k, h, n, path
  <2>4. values = <<y, m>> /\ Len(values) = 2 /\ Len(path) = 2 /\ DOMAIN path = 1 .. 2
    BY <2>1
  <2>5. SegmentNames(g) = <<"year", "month">>
    BY <1>11 DEF SegmentNames
  <2>6. \A i \in 1 .. 2 : path[i][1] = SegmentNames(g)[i] /\ values[i] # NotCanonical
    BY <1>6, <2>1, <2>4, <2>5
  <2> HIDE DEF values
  <2>7. DateExists(values, g) /\ DateOf(values, g) = MonthStart(y, m)
    BY <1>2, <1>3, <1>11, <2>4 DEF DateExists, DateOf
  <2>8. Len(SegmentNames(g)) = 2
    BY <2>5
  <2>9. Passes(path, g, values, 0, 0, b)
    BY <1>7, <2>3, <2>4, <2>6, <2>7, <2>8 DEF Passes, values
  <2> QED
    BY <2>9, ParseIs DEF path
<1> QED
  BY <1>8, <1>9, <1>10, <1>11 DEF Granularities

\* A Monday is found again from the ISO year and week of its Thursday.
LEMMA MondayIs ==
    ASSUME NEW a \in Int, NEW d \in Int, DaysFromMonday(d) = 0
    PROVE  LET w == (d + 3 - a) \div 7 + 1
           IN  (a + 3) - DaysFromMonday(a + 3) + 7 * (w - 1) = d
<1> DEFINE w == (d + 3 - a) \div 7 + 1
<1>1. (d + 3) % 7 = 0
  BY DEF DaysFromMonday
<1>2. PICK i \in Int : d + 3 = 7 * i
  <2>1. (d + 3) \div 7 \in Int /\ d + 3 = 7 * ((d + 3) \div 7)
    BY <1>1
  <2> QED
    BY <2>1
<1>3. /\ w \in Int /\ 7 * (w - 1) <= 7 * i - a /\ 7 * i - a < 7 * (w - 1) + 7
  BY <1>2
<1>4. PICK j \in Int : (a + 6) - 7 * j = (a + 6) % 7
  <2>1. (a + 6) \div 7 \in Int /\ (a + 6) - 7 * ((a + 6) \div 7) = (a + 6) % 7
    OBVIOUS
  <2> QED
    BY <2>1
<1>5. (a + 6) % 7 \in 0 .. 6
  OBVIOUS
<1>6. DaysFromMonday(a + 3) = (a + 6) % 7
  BY DEF DaysFromMonday
<1>7. j = i - w + 1
  <2> HIDE DEF w
  <2> QED
    BY <1>3, <1>4, <1>5
<1> HIDE DEF w
<1>8. (a + 3) - DaysFromMonday(a + 3) + 7 * (w - 1) = d
  BY <1>2, <1>3, <1>4, <1>6, <1>7
<1> QED
  BY <1>8 DEF w

\* A path of an ISO week parses to the partition whose start it was made from,
\* if the week's Thursday is inside the calendar.
LEMMA WeekPathParses ==
    ASSUME NEW b \in Times, StartOf(b, "week") = b, b \div Day + 3 \in Calendar
    PROVE  Parse(PathOf(b, "week"), "week") = BuildPartition(b, "week")
<1> DEFINE d == b \div Day
           t == d + 3
           y == YearOf(t)
           a == YearStart(y)
           w == (t - a) \div 7 + 1
           path == PathOf(b, "week")
           values == [i \in DOMAIN path |-> path[i][2]]
<1>1. b \in Int /\ d \in Int /\ t \in Int
  BY DEF Times, Day
<1>2. b = d * Day /\ DaysFromMonday(d) = 0
  <2>1. b = (d - DaysFromMonday(d)) * Day
    BY DEF StartOf
  <2>2. DaysFromMonday(d) \in 0 .. 6 /\ d * Day <= b
    BY <1>1 DEF DaysFromMonday, Day
  <2> HIDE DEF d
  <2> QED
    BY <1>1, <2>1, <2>2 DEF Day
<1>3. Thursday(d) = t
  BY <1>1, <1>2 DEF Thursday
<1>4. y \in FirstYear .. LastYear /\ y \in Int /\ a <= t /\ t < YearStart(y + 1)
  <2> DEFINE m == MonthOf(t)
  <2>1. /\ y \in FirstYear .. LastYear /\ m \in 1 .. 12
        /\ MonthStart(y, m) <= t /\ t < NextMonth(y, m)
    BY DateIs
  <2>2. y \in Int
    BY <2>1, RequestAssumption
  <2> HIDE DEF y, m, t
  <2>3. /\ MonthStart(y, m) \in Int /\ NextMonth(y, m) \in Int
        /\ YearStart(y) <= MonthStart(y, m) /\ NextMonth(y, m) <= YearStart(y + 1)
    BY <2>1, <2>2, MonthLies
  <2>4. YearStart(y) \in Int /\ YearStart(y + 1) \in Int
    BY <2>2, YearLength
  <2> QED
    BY <1>1, <2>1, <2>2, <2>3, <2>4
<1>5. /\ a \in Int /\ YearStart(y + 1) = a + IF IsLeap(y) THEN 366 ELSE 365
  BY <1>4, YearLength
<1>6. path = <<<<"iso_year", y>>, <<"week", w>>>>
  BY <1>3 DEF PathOf, WeekYear, IsoYear, IsoWeek
<1>7. w \in 1 .. WeeksIn(y)
  <2>1. PICK e \in Int :
           /\ e = a + IF IsLeap(y) THEN 362 ELSE 361
           /\ WeeksIn(y) = (Thursday(e) - a) \div 7 + 1
           /\ WeeksIn(y) \in 1 .. 53
    BY <1>4, WeeksIs
  <2> DEFINE z == Thursday(e)
             i == (e + 3) \div 7
             j == t \div 7
  <2>2. z \in Int /\ z = 7 * i /\ i \in Int
    <3> DEFINE u == e + 3
    <3>1. u \in Int
      BY <2>1
    <3>2. u - (u % 7) = 7 * (u \div 7) /\ u \div 7 \in Int
      <4> HIDE DEF u
      <4> QED
        BY <3>1
    <3> QED
      BY <2>1, <3>2 DEF Thursday, DaysFromMonday
  <2>3. t = 7 * j /\ j \in Int
    BY <1>1, <1>2 DEF DaysFromMonday
  <2>4. t <= e + 3 /\ e + 3 < 7 * i + 7
    <3>1. e + 3 < 7 * i + 7
      BY <2>1
    <3> HIDE DEF t, a, y, i, z
    <3> QED
      BY <1>1, <1>4, <1>5, <2>1, <3>1
  <2> HIDE DEF t, a, y, i, j, z
  <2>5. j <= i
    BY <2>1, <2>2, <2>3, <2>4
  <2>6. t <= z
    BY <2>2, <2>3, <2>5
  <2>7. (t - a) \div 7 <= (z - a) \div 7 /\ 0 <= (t - a) \div 7
        /\ (t - a) \div 7 \in Int /\ (z - a) \div 7 \in Int
    BY <1>1, <1>4, <1>5, <2>2, <2>6
  <2>8. WeeksIn(y) = (z - a) \div 7 + 1
    BY <2>1 DEF z
  <2> QED
    BY <2>7, <2>8
<1>8. w \in Int
  BY <1>1, <1>5
<1>9. (a + 3) - DaysFromMonday(a + 3) + 7 * (w - 1) = d
  <2> HIDE DEF a, d
  <2> QED
    BY <1>1, <1>2, <1>5, MondayIs
<1>10. BuildPartition(b, "week").path = path
  BY DEF BuildPartition
<1>11. y # NotCanonical /\ w # NotCanonical
  BY <1>4, <1>8, RequestAssumption
<1> HIDE DEF d, t, y, w, path
<1>12. values = <<y, w>> /\ Len(path) = 2 /\ DOMAIN path = 1 .. 2
  BY <1>6
<1>13. SegmentNames("week") = <<"iso_year", "week">>
  BY DEF SegmentNames
<1>14. \A i \in 1 .. 2 : path[i][1] = SegmentNames("week")[i] /\ values[i] # NotCanonical
  BY <1>6, <1>11, <1>12, <1>13
<1> HIDE DEF values
<1>15. DateExists(values, "week") /\ DateOf(values, "week") = d
  BY <1>7, <1>9, <1>12 DEF DateExists, DateOf, a
<1>16. b = d * Day + 0 * 3600 + 0 * 60 /\ Len(SegmentNames("week")) = 2
  BY <1>1, <1>2, <1>13 DEF Day
<1>17. Passes(path, "week", values, 0, 0, b)
  BY <1>10, <1>12, <1>14, <1>15, <1>16 DEF Passes, values
<1> QED
  BY <1>17, ParseIs DEF path

\* A path is a sequence, and its first segment names a year.
LEMMA PathIs ==
    ASSUME NEW g \in Granularities, NEW b
    PROVE  /\ \E k \in 2 .. 5 : PathOf(b, g) \in [1 .. k -> {PathOf(b, g)[i] : i \in 1 .. k}]
           /\ g # "week" => PathOf(b, g)[1][2] = YearOf(b \div Day)
           /\ g = "week" => PathOf(b, g)[1][2] = YearOf(Thursday(b \div Day))
<1> DEFINE path == PathOf(b, g)
           T(k) == {path[i] : i \in 1 .. k}
<1>1. ASSUME NEW y, NEW m, NEW d, NEW h, NEW n, path = <<y, m, d, h, n>>
      PROVE  path \in [1 .. 5 -> T(5)] /\ path[1] = y
  <2> HIDE DEF path
  <2> QED
    BY <1>1
<1>2. ASSUME NEW y, NEW m, NEW d, NEW h, path = <<y, m, d, h>>
      PROVE  path \in [1 .. 4 -> T(4)] /\ path[1] = y
  <2> HIDE DEF path
  <2> QED
    BY <1>2
<1>3. ASSUME NEW y, NEW m, NEW d, path = <<y, m, d>>
      PROVE  path \in [1 .. 3 -> T(3)] /\ path[1] = y
  <2> HIDE DEF path
  <2> QED
    BY <1>3
<1>4. ASSUME NEW y, NEW m, path = <<y, m>>
      PROVE  path \in [1 .. 2 -> T(2)] /\ path[1] = y
  <2> HIDE DEF path
  <2> QED
    BY <1>4
<1> DEFINE y == <<"year", YearOf(b \div Day)>>
           m == <<"month", MonthOf(b \div Day)>>
           d == <<"day", DayOfMonth(b \div Day)>>
           h == <<"hour", (b % Day) \div 3600>>
           n == <<"minute", (b % 3600) \div 60>>
           z == <<"iso_year", YearOf(Thursday(b \div Day))>>
           w == <<"week", IsoWeek(b \div Day)>>
<1>5. /\ g = "minute" => path = <<y, m, d, h, n>>
      /\ g = "hour" => path = <<y, m, d, h>>
      /\ g = "day" => path = <<y, m, d>>
      /\ g = "month" => path = <<y, m>>
      /\ g = "week" => path = <<z, w>>
  BY DEF PathOf, WeekYear, IsoYear
<1>6. y[2] = YearOf(b \div Day) /\ z[2] = YearOf(Thursday(b \div Day))
  OBVIOUS
<1>7. 2 \in 2 .. 5 /\ 3 \in 2 .. 5 /\ 4 \in 2 .. 5 /\ 5 \in 2 .. 5
  OBVIOUS
<1> HIDE DEF path, T, y, m, d, h, n, z, w
<1>8. CASE g = "minute"
  BY <1>1, <1>5, <1>6, <1>7, <1>8 DEF path, T
<1>9. CASE g = "hour"
  BY <1>2, <1>5, <1>6, <1>7, <1>9 DEF path, T
<1>10. CASE g = "day"
  BY <1>3, <1>5, <1>6, <1>7, <1>10 DEF path, T
<1>11. CASE g = "month"
  BY <1>4, <1>5, <1>6, <1>7, <1>11 DEF path, T
<1>12. CASE g = "week"
  BY <1>4, <1>5, <1>6, <1>7, <1>12 DEF path, T
<1> QED
  BY <1>8, <1>9, <1>10, <1>11, <1>12 DEF Granularities

\* A neighbour of a path has the same year, the one before or after, or none.
LEMMA NeighbourIs ==
    ASSUME NEW k \in 2 .. 5, NEW T, NEW path \in [1 .. k -> T], NEW q \in Neighbours(path)
    PROVE  /\ q # path /\ \E S : q \in Seq(S)
           /\ q[1][2] \in {NotCanonical, path[1][2] - 1, path[1][2], path[1][2] + 1}
<1>1. DOMAIN path = 1 .. k
  OBVIOUS
<1> DEFINE V(i) == {NotCanonical, path[i][2] - 1, path[i][2] + 1}
                   \cup (IF i = 1 THEN {} ELSE {0, 1, 13, 24, 29, 32, 53, 60})
           N(i, v) == [path EXCEPT ![i] = <<path[i][1], v>>]
<1>2. PICK i \in 1 .. k :
         \E v \in {NotCanonical, path[i][2] - 1, path[i][2] + 1}
                  \cup (IF i = 1 THEN {} ELSE {0, 1, 13, 24, 29, 32, 53, 60}) :
            q = [path EXCEPT ![i] = <<path[i][1], v>>]
  <2>1. Neighbours(path) = (UNION {{N(i, v) : v \in V(i)} : i \in DOMAIN path}) \ {path}
    BY DEF Neighbours
  <2> HIDE DEF N, V
  <2>2. \E i \in 1 .. k : \E v \in V(i) : q = N(i, v)
    BY <1>1, <2>1
  <2> QED
    BY <2>2 DEF N, V
<1>3. PICK v \in {NotCanonical, path[i][2] - 1, path[i][2] + 1}
                 \cup (IF i = 1 THEN {} ELSE {0, 1, 13, 24, 29, 32, 53, 60}) :
         q = [path EXCEPT ![i] = <<path[i][1], v>>]
  BY <1>2
<1>4. q # path
  BY DEF Neighbours
<1> DEFINE S == T \cup {<<path[i][1], v>>}
<1>5. q \in [1 .. k -> S]
  BY <1>3, Zenon
<1>6. q \in Seq(S)
  <2> HIDE DEF S
  <2> QED
    BY <1>5
<1>7. q[1][2] \in {NotCanonical, path[1][2] - 1, path[1][2], path[1][2] + 1}
  <2>1. CASE i = 1
    <3>1. q[1] = <<path[1][1], v>> /\ v \in {NotCanonical, path[1][2] - 1, path[1][2] + 1}
      BY <1>2, <1>3, <2>1
    <3> QED
      BY <3>1
  <2>2. CASE i # 1
    <3>1. q[1] = path[1]
      BY <1>3, <2>2
    <3> QED
      BY <3>1
  <2> QED
    BY <2>1, <2>2
<1> QED
  BY <1>4, <1>6, <1>7

\* The partition that the loop has built is two years inside the calendar.
LEMMA BuiltInside ==
    ASSUME request \in Requests, NEW g \in Granularities, NEW s \in Span
    PROVE  LET b == StartOf(s, g)
               d == b \div Day
           IN  /\ s \in Times /\ b \in Times /\ b \in Int /\ d \in Calendar /\ d + 3 \in Calendar
               /\ YearOf(d) \in FirstYear + 2 .. LastYear - 2
               /\ YearOf(d + 3) \in FirstYear + 2 .. LastYear - 2
<1> DEFINE b == StartOf(s, g)
           d == b \div Day
           e == s \div Day
           x == YearStart(FirstYear + 2)
           z == YearStart(LastYear - 2)
<1>0. FirstYear \in Int /\ LastYear \in Int
  BY RequestAssumption
<1>1. /\ s \in Times /\ s \in Int
      /\ YearStart(FirstYear + 3) <= e /\ e < z
  BY RequestIs DEF Span
<1>2. b \in Int /\ b <= s /\ s < b + 31 * Day
  <2>1. /\ b \in Int /\ b <= s /\ UntilOf(b, g) \in Int /\ s < UntilOf(b, g)
        /\ UntilOf(b, g) <= b + 31 * Day
    BY <1>1, UnitHolds
  <2> HIDE DEF b
  <2> QED
    BY <1>1, <2>1 DEF Day
<1>3. d \in Int /\ e \in Int /\ d <= e /\ e <= d + 31
  <2> HIDE DEF b
  <2> QED
    BY <1>1, <1>2 DEF Day
<1>4. x \in Int /\ x + 365 <= YearStart(FirstYear + 3) /\ YearStart(FirstYear + 3) \in Int
  <2> DEFINE v == FirstYear + 2
  <2>1. v \in Int /\ v + 1 = FirstYear + 3
    BY <1>0
  <2> HIDE DEF v
  <2>2. YearStart(v) \in Int /\ YearStart(v + 1) \in Int /\ YearStart(v) + 365 <= YearStart(v + 1)
    BY <2>1, YearLength
  <2> QED
    BY <2>1, <2>2 DEF v
<1>5. z \in Int /\ z + 365 <= YearStart(LastYear - 1) /\ YearStart(LastYear - 1) \in Int
  <2> DEFINE v == LastYear - 2
  <2>1. v \in Int /\ v + 1 = LastYear - 1
    BY <1>0
  <2> HIDE DEF v
  <2>2. YearStart(v) \in Int /\ YearStart(v + 1) \in Int /\ YearStart(v) + 365 <= YearStart(v + 1)
    BY <2>1, YearLength
  <2> QED
    BY <2>1, <2>2 DEF v
<1>6. x <= d /\ d < z /\ x <= d + 3 /\ d + 3 < YearStart(LastYear - 1)
  <2> HIDE DEF d, e, x, z
  <2> QED
    BY <1>1, <1>3, <1>4, <1>5
<1>7. /\ YearStart(FirstYear) \in Int /\ YearStart(LastYear + 1) \in Int
      /\ YearStart(FirstYear) <= x /\ YearStart(LastYear - 1) <= YearStart(LastYear + 1)
      /\ z <= YearStart(LastYear + 1)
  <2>1. ASSUME NEW v \in Int PROVE YearStart(v) \in Int /\ YearStart(v) <= YearStart(v + 1)
    BY YearLength
  <2>2. YearStart(FirstYear + 1) <= x
    <3>1. FirstYear < FirstYear + 2 /\ FirstYear + 2 \in Int
      BY <1>0
    <3> QED
      BY <1>0, <3>1, YearsGrow
  <2>3. YearStart((LastYear - 1) + 1) <= YearStart(LastYear + 1)
    <3>1. LastYear - 1 < LastYear + 1 /\ LastYear - 1 \in Int /\ LastYear + 1 \in Int
      BY <1>0
    <3> QED
      BY <3>1, YearsGrow
  <2>4. /\ YearStart(FirstYear) <= YearStart(FirstYear + 1)
        /\ YearStart(FirstYear) \in Int /\ YearStart(FirstYear + 1) \in Int
        /\ YearStart(LastYear + 1) \in Int
    BY <1>0, <2>1
  <2>5. /\ YearStart(LastYear - 1) <= YearStart((LastYear - 1) + 1)
        /\ YearStart((LastYear - 1) + 1) \in Int
    <3>1. LastYear - 1 \in Int /\ (LastYear - 1) + 1 \in Int
      BY <1>0
    <3> QED
      BY <2>1, <3>1
  <2> HIDE DEF x, z
  <2> QED
    BY <1>4, <1>5, <2>2, <2>3, <2>4, <2>5
<1>8. d \in Calendar /\ d + 3 \in Calendar
  <2> HIDE DEF d, x, z
  <2> QED
    BY <1>3, <1>4, <1>5, <1>6, <1>7 DEF Calendar
<1>9. b \in Times
  BY <1>2, <1>8 DEF Times
<1>10. YearOf(d) \in FirstYear + 2 .. (LastYear - 2) - 1
  <2>1. FirstYear + 2 \in Int /\ LastYear - 2 \in Int
    BY <1>0
  <2> HIDE DEF d
  <2> QED
    BY <1>6, <1>8, <2>1, YearWithin DEF x, z
<1>11. YearOf(d + 3) \in FirstYear + 2 .. (LastYear - 1) - 1
  <2>1. FirstYear + 2 \in Int /\ LastYear - 1 \in Int
    BY <1>0
  <2> HIDE DEF d
  <2> QED
    BY <1>6, <1>8, <2>1, YearWithin DEF x
<1> HIDE DEF d, b
<1>12. /\ YearOf(d) \in FirstYear + 2 .. LastYear - 2
       /\ YearOf(d + 3) \in FirstYear + 2 .. LastYear - 2
  BY <1>0, <1>10, <1>11
<1> QED
  BY <1>1, <1>2, <1>8, <1>9, <1>12 DEF d, b

\* A path names one partition: a planned path parses to the partition it was made
\* from, and a path that differs from it in one segment is refused or names rows
\* of other times (parse, build_partition).
THEOREM PathsAreNames == PlanSpec => []PathsIdentify
<1>1. PlanInv /\ [PlanNext]_planVars => PlanInv'
  BY PlanStepInv
<1>2. PlanInv => PathsIdentify
  <2> SUFFICES ASSUME PlanInv, status = "planning"
               PROVE  /\ Parse(current.path, request.granularity) = current
                      /\ \A q \in Neighbours(current.path) :
                            LET p == Parse(q, request.granularity)
                            IN  p # Invalid => p.until <= current.start \/ current.until <= p.start
    BY DEF PathsIdentify
  <2> DEFINE g == request.granularity
  <2>1. request \in Requests /\ g \in Granularities /\ Span \subseteq Times
        /\ current \in {BuildPartition(s, g) : s \in Span}
    BY RequestIs DEF PlanInv, Request
  <2>2. PICK s \in Span : current = BuildPartition(s, g)
    BY <2>1
  <2> DEFINE b == StartOf(s, g)
             d == b \div Day
             path == PathOf(b, g)
  <2>3. /\ s \in Times /\ b \in Times /\ b \in Int /\ d \in Calendar /\ d + 3 \in Calendar
        /\ YearOf(d) \in FirstYear + 2 .. LastYear - 2
        /\ YearOf(d + 3) \in FirstYear + 2 .. LastYear - 2
    BY <2>1, BuiltInside
  <2>4. StartOf(b, g) = b /\ BuildPartition(b, g) = current
    BY <2>1, <2>2, <2>3, StartBuilds
  <2>5. current.path = path /\ current \in Partitions(g)
    BY <2>1, <2>2 DEF BuildPartition, Partitions
  <2> HIDE DEF g
  <2>6. Parse(path, g) = current
    <3>1. CASE g = "week"
      BY <2>3, <2>4, <3>1, WeekPathParses
    <3>2. CASE g # "week"
      BY <2>1, <2>3, <2>4, <3>2, DatePathParses
    <3> QED
      BY <3>1, <3>2
  <2>7. path[1][2] \in FirstYear + 2 .. LastYear - 2
    <3>1. CASE g = "week"
      <4>1. Thursday(d) = d + 3
        <5>1. b = (d - DaysFromMonday(d)) * Day
          BY <2>4, <3>1 DEF StartOf
        <5>2. d \in Int /\ DaysFromMonday(d) \in 0 .. 6 /\ d * Day <= b
          BY <2>3 DEF DaysFromMonday, Day
        <5> HIDE DEF d, b
        <5>3. DaysFromMonday(d) = 0
          BY <2>3, <5>1, <5>2 DEF Day
        <5> QED
          BY <5>2, <5>3 DEF Thursday
      <4> QED
        BY <2>1, <2>3, <3>1, <4>1, PathIs
    <3>2. CASE g # "week"
      BY <2>1, <2>3, <3>2, PathIs
    <3> QED
      BY <3>1, <3>2
  <2>8. ASSUME NEW q \in Neighbours(path), Parse(q, g) # Invalid
        PROVE  \/ Parse(q, g).until <= current.start
               \/ current.until <= Parse(q, g).start
    <3>1. PICK k \in 2 .. 5 : path \in [1 .. k -> {path[i] : i \in 1 .. k}]
      BY <2>1, PathIs
    <3> HIDE DEF path
    <3>2. /\ q # path /\ \E S : q \in Seq(S)
          /\ q[1][2] \in {NotCanonical, path[1][2] - 1, path[1][2], path[1][2] + 1}
      BY <2>8, <3>1, NeighbourIs
    <3>3. PICK S : q \in Seq(S)
      BY <3>2
    <3>4. q[1][2] # NotCanonical
      <4>1. /\ Len(q) = Len(SegmentNames(g))
            /\ \A i \in DOMAIN q : [j \in DOMAIN q |-> q[j][2]][i] # NotCanonical
        BY <2>8 DEF Parse
      <4>2. Len(SegmentNames(g)) \in 2 .. 5
        BY <2>1 DEF SegmentNames, Granularities
      <4>3. 1 \in DOMAIN q
        BY <3>3, <4>1, <4>2, LenProperties
      <4> QED
        BY <4>1, <4>3
    <3>5. q[1][2] \in FirstYear + 1 .. LastYear - 1
      <4>1. path[1][2] \in Int /\ FirstYear \in Int /\ LastYear \in Int
        BY <2>7, RequestAssumption
      <4> QED
        BY <2>7, <3>2, <3>4, <4>1
    <3>6. Parse(q, g) \in Partitions(g) /\ Parse(q, g).path = q
      BY <2>1, <2>8, <3>3, <3>5, ParsedIs
    <3>7. Parse(q, g) # current
      BY <2>5, <3>2, <3>6
    <3> QED
      BY <2>1, <2>5, <3>6, <3>7, PartitionsApart
  <2> QED
    BY <2>5, <2>6, <2>8 DEF g
<1> QED
  BY <1>1, <1>2, InitPlan, PTL DEF PlanSpec
=============================================================================
