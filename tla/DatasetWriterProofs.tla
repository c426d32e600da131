------------------------ MODULE DatasetWriterProofs ------------------------
(***************************************************************************)
(* Proofs about Parquex.Dataset.Writer, for every set of event times and   *)
(* row sizes and every setting of the limits.                              *)
(*                                                                         *)
(* Everything is said of the content of a part: the rows written to its    *)
(* file and, as long as it is open, those still in the buffer of its       *)
(* entry.  A flush and a publication leave the contents as they are, a     *)
(* part opened has none, and a row routed is appended to one of them.      *)
(* Good collects what holds of the contents, the entries and the reports   *)
(* between two native calls; FilesGood is what remains of it once the      *)
(* server has stopped, and Doubtful what is known of a part whose native   *)
(* close the server has not seen the end of.                               *)
(***************************************************************************)
EXTENDS DatasetWriter, SelectionProofs, FiniteSetTheorems, TLAPS

File == [partition : Nat, rows : Seq(Row), state : FileStates]
Entry == [file : Nat, rows : Nat, bytes : Nat, buffer : Seq(Row),
          min : Nat, max : Nat, access : Nat]
Report == [file : Nat, partition : Nat, rows : Nat, min : Nat, max : Nat]

OpenIn(fs) == {i \in DOMAIN fs : fs[i].state \in {"open", "closing"}}
PublishedIn(fs) == {i \in DOMAIN fs : fs[i].state = "published"}

Typed(x) ==
    /\ DOMAIN x = {"active", "access", "reports", "files"}
    /\ x.files \in Seq(File)
    /\ x.access \in Nat
    /\ x.reports \in Seq(Report)
    /\ IsFiniteSet(DOMAIN x.active)
    /\ \A p \in DOMAIN x.active : x.active[p] \in Entry

\* The entries and the open parts are the same.
Owned(x) ==
    /\ \A p \in DOMAIN x.active :
          LET e == x.active[p] IN
          /\ e.file \in DOMAIN x.files
          /\ x.files[e.file].state = "open" /\ x.files[e.file].partition = p
          /\ e.access \in 1 .. x.access
    /\ \A i \in DOMAIN x.files : x.files[i].state # "published" =>
          /\ x.files[i].state = "open"
          /\ x.files[i].partition \in DOMAIN x.active
          /\ x.active[x.files[i].partition].file = i

Content(x, i) ==
    IF x.files[i].state = "open"
    THEN Cat(x.files[i].rows, x.active[x.files[i].partition].buffer)
    ELSE x.files[i].rows

\* Rows of partition p among the first n, in the order they were given.
InOrder(s, p, n) ==
    /\ \A j \in DOMAIN s :
          Partition(s[j].ts) = p /\ j <= s[j].id /\ s[j].id <= n
    /\ \A j, l \in DOMAIN s : j < l => s[j].id < s[l].id

WithinLimits(s) ==
    /\ Len(s) <= MaxRowsPerFile
    /\ SizeOf(s) <= MaxBytesPerFile \/ Len(s) = 1

\* The bounds of the event times of s.
Times(min, max, s) ==
    /\ \A j \in DOMAIN s : min <= s[j].ts /\ s[j].ts <= max
    /\ \E j \in DOMAIN s : min = s[j].ts
    /\ \E j \in DOMAIN s : max = s[j].ts

PartsGood(x, n) ==
    \A i \in DOMAIN x.files :
        /\ InOrder(Content(x, i), x.files[i].partition, n)
        /\ WithinLimits(Content(x, i))
        /\ x.files[i].state = "published" => Content(x, i) # <<>>

\* What an entry counts is what its part contains.
Counts(e, s) ==
    /\ e.rows = Len(s) /\ e.bytes = SizeOf(s)
    /\ s # <<>> => Times(e.min, e.max, s)

EntriesCount(x) ==
    \A p \in DOMAIN x.active : Counts(x.active[p], Content(x, x.active[p].file))

\* Each of the first n rows is in one part, and in one only.
Located(x, n) ==
    /\ \A id \in 1 .. n : \E i \in DOMAIN x.files :
          \E j \in DOMAIN Content(x, i) : Content(x, i)[j].id = id
    /\ \A i, k \in DOMAIN x.files :
          \A j \in DOMAIN Content(x, i), l \in DOMAIN Content(x, k) :
             Content(x, i)[j].id = Content(x, k)[l].id => i = k

PartSound(part, fs) ==
    /\ part.file \in PublishedIn(fs)
    /\ part.rows = Len(fs[part.file].rows)
    /\ Times(part.min, part.max, fs[part.file].rows)

PartsSound(parts, fs) ==
    parts \in Seq(Report) /\ \A k \in DOMAIN parts : PartSound(parts[k], fs)

FilesOf(parts) == {parts[k].file : k \in DOMAIN parts}

Reported(x) ==
    PartsSound(x.reports, x.files) /\ FilesOf(x.reports) = PublishedIn(x.files)

Good(x, n) ==
    /\ Typed(x) /\ Owned(x)
    /\ PartsGood(x, n) /\ EntriesCount(x) /\ Located(x, n)
    /\ Reported(x)
    /\ Cardinality(DOMAIN x.active) <= MaxOpenPartitions

\* No entry is without a row between two calls of route_row.
Filled(x) == \A p \in DOMAIN x.active : x.active[p].rows > 0

\* What the store keeps, whatever becomes of the server.
FileGood(f) ==
    /\ InOrder(f.rows, f.partition, MaxRows) /\ WithinLimits(f.rows)
    /\ f.state = "published" => f.rows # <<>>

FilesGood(fs) ==
    /\ fs \in Seq(File)
    /\ \A i \in DOMAIN fs : FileGood(fs[i])
    /\ Cardinality(OpenIn(fs)) <= MaxOpenPartitions

\* A part is visible as the set of its rows.
Ids(rows) == {rows[j].id : j \in DOMAIN rows}
VisibleIn(fs) == {Ids(fs[i].rows) : i \in PublishedIn(fs)}
NewPart(part, visible, n) ==
    part \in (SUBSET ((1 .. n) \ UNION visible)) \ {{}}

\* At most one part is closing; it could appear whole, of rows that are not
\* visible.
Doubtful(fs, n) ==
    \A i \in Closing(fs) :
        Closing(fs) = {i} /\ NewPart(Ids(fs[i].rows), VisibleIn(fs), n)

\* The number of rows routed so far.
Done == given - Len(pending)

Running ==
    /\ given \in Nat /\ given <= MaxRows
    /\ pending \in Seq(Row) /\ Len(pending) <= given
    /\ \A k \in DOMAIN pending : pending[k].id = Done + k
    /\ call # "write" => pending = <<>>
    /\ acked \subseteq 1 .. Done
    /\ Good(Now, Done) /\ Filled(Now)
    /\ call = "write" => PartsSound(saved.reports, files) /\ FilesOf(saved.reports) = before
    /\ reply = NoReply /\ doubt = {}

OnceVisible(fs, id) ==
    /\ \E i \in PublishedIn(fs) : \E j \in DOMAIN fs[i].rows : fs[i].rows[j].id = id
    /\ \A i, k \in PublishedIn(fs) :
          \A j \in DOMAIN fs[i].rows, l \in DOMAIN fs[k].rows :
             fs[i].rows[j].id = id /\ fs[k].rows[l].id = id => i = k

Answered ==
    /\ PartsSound(reply.reported, files)
    /\ reply.kind = "closed" =>
          /\ FilesOf(reply.reported) = PublishedIn(files)
          /\ \A id \in 1 .. given : OnceVisible(files, id)
    /\ reply.kind = "write_failed" => before \subseteq FilesOf(reply.reported)
    /\ reply.kind = "close_failed" => FilesOf(reply.reported) \in {PublishedIn(files) \ doubt, {}}

Stopped ==
    /\ DOMAIN server.active = {} /\ pending = <<>> /\ call = "none"
    /\ given \in Nat /\ given <= MaxRows /\ acked \subseteq 1 .. given
    /\ doubt \subseteq DOMAIN files /\ Closing(files) \subseteq doubt
    /\ Doubtful(files, given)
    /\ reply.kind \in {"closed", "cancelled"} => Closing(files) = {}

IInv ==
    /\ call \in {"none", "write", "close"}
    /\ status \in {"running", "stopped"}
    /\ reply.kind \in {"none", "write_failed", "close_failed", "closed", "cancelled"}
    /\ FilesGood(files)
    /\ Answered
    /\ status = "running" => Running
    /\ status = "stopped" => Stopped
-----------------------------------------------------------------------------
\* The recursive definition of Sizes has a solution, so Sizes is one.
LEMMA SizesDef ==
    ASSUME NEW q, Len(q) \in Nat
    PROVE  Sizes(q) = [n \in 0 .. Len(q) |->
                         IF n = 0 THEN 0 ELSE Sizes(q)[n - 1] + q[n].size]
<1> DEFINE Rec(g, m) == [n \in 0 .. m |-> IF n = 0 THEN 0 ELSE g[n - 1] + q[n].size]
           S == {m \in Nat : \E g : g = Rec(g, m)}
<1>1. 0 \in S
  <2> DEFINE g == [n \in 0 .. 0 |-> 0]
  <2>1. g = Rec(g, 0)
    OBVIOUS
  <2> QED
    BY <2>1
<1>2. ASSUME NEW m \in Nat, m \in S
      PROVE  m + 1 \in S
  <2>1. PICK g : g = Rec(g, m)
    BY <1>2
  <2> DEFINE next == g[m] + q[m + 1].size
             h == [n \in 0 .. m + 1 |-> IF n = m + 1 THEN next ELSE g[n]]
  <2>2. \A n \in 0 .. m : h[n] = g[n]
    OBVIOUS
  <2>3. \A n \in 0 .. m : g[n] = Rec(g, m)[n]
    BY <2>1
  <2>4. ASSUME NEW n \in 0 .. m + 1
        PROVE  h[n] = Rec(h, m + 1)[n]
    <3>1. CASE n = 0
      BY <2>2, <2>3, <3>1
    <3>2. CASE n = m + 1
      <4>1. h[m + 1] = next /\ h[m] = g[m] /\ m + 1 # 0 /\ (m + 1) - 1 = m
        BY <2>2
      <4>2. Rec(h, m + 1)[m + 1] = h[m] + q[m + 1].size
        <5> HIDE DEF h
        <5> QED
          BY <4>1
      <4> QED
        BY <3>2, <4>1, <4>2
    <3>3. CASE n \in 1 .. m
      <4>1. n - 1 \in 0 .. m /\ n \in 0 .. m
        BY <3>3
      <4>2. h[n] = g[n] /\ h[n - 1] = g[n - 1]
        BY <2>2, <4>1
      <4> QED
        BY <2>3, <3>3, <4>1, <4>2
    <3> QED
      BY <3>1, <3>2, <3>3
  <2>5. h = Rec(h, m + 1)
    BY <2>4
  <2>6. \E g1 : g1 = Rec(g1, m + 1)
    <3> HIDE DEF h
    <3> QED
      BY <2>5
  <2> HIDE DEF Rec
  <2> QED
    BY <2>6
<1>3. Len(q) \in S
  <2> HIDE DEF S
  <2> QED
    BY <1>1, <1>2, NatSetInduction
<1>4. \E g : g = Rec(g, Len(q))
  BY <1>3
<1>5. Sizes(q) = CHOOSE g : g = Rec(g, Len(q))
  BY DEF Sizes
<1>6. Sizes(q) = Rec(Sizes(q), Len(q))
  BY <1>4, <1>5
<1> QED
  BY <1>6

\* The equations of the definition, as one statement about the function f.
SizedBy(f, q) ==
    f[0] = 0 /\ \A n \in 0 .. Len(q) - 1 : f[n + 1] = f[n] + q[n + 1].size

LEMMA SizesSteps ==
    ASSUME NEW q, Len(q) \in Nat
    PROVE  SizedBy(Sizes(q), q)
<1> DEFINE J == Sizes(q)
<1>1. Len(q) \in Nat
  OBVIOUS
<1>2. J = [n \in 0 .. Len(q) |-> IF n = 0 THEN 0 ELSE J[n - 1] + q[n].size]
  BY <1>1, SizesDef
<1> HIDE DEF J
<1>3. J[0] = 0
  BY <1>1, <1>2
<1>4. ASSUME NEW n \in 0 .. Len(q) - 1 PROVE J[n + 1] = J[n] + q[n + 1].size
  <2>1. n + 1 \in 0 .. Len(q) /\ n + 1 # 0 /\ (n + 1) - 1 = n
    BY <1>1
  <2> QED
    BY <1>2, <2>1
<1>5. SizedBy(J, q)
  BY <1>3, <1>4 DEF SizedBy
<1> QED
  BY <1>5 DEF J

LEMMA SizeType ==
    \A r \in Row : /\ r.size \in Nat /\ r.ts \in Nat /\ r.ts \in Timestamps
                   /\ r.id \in Nat /\ r.id >= 1 /\ r.id <= MaxRows
<1>1. Timestamps \subseteq Nat /\ RowSizes \subseteq Nat /\ MaxRows \in Nat
  BY SettingsAssumption, BoundsAssumption
<1> TAKE r \in Row
<1>2. r.ts \in Timestamps /\ r.size \in RowSizes /\ r.id \in 1 .. MaxRows
  BY DEF Row
<1>3. r.size \in Nat /\ r.ts \in Nat
  BY <1>1, <1>2
<1>4. r.id \in Nat /\ r.id >= 1 /\ r.id <= MaxRows
  BY <1>1, <1>2
<1> QED
  BY <1>2, <1>3, <1>4

LEMMA SizesType ==
    ASSUME NEW q \in Seq(Row)
    PROVE  \A n \in 0 .. Len(q) : Sizes(q)[n] \in Nat
<1> DEFINE J == Sizes(q)
           P == {n \in 0 .. Len(q) : J[n] \in Nat}
<1>1. Len(q) \in Nat
  BY LenProperties
<1>2. SizedBy(J, q)
  BY <1>1, SizesSteps
<1> HIDE DEF J
<1>3. 0 \in P
  BY <1>1, <1>2 DEF SizedBy
<1>4. ASSUME NEW n \in 0 .. Len(q) - 1, n \in P PROVE n + 1 \in P
  <2>1. n + 1 \in 0 .. Len(q) /\ n + 1 \in 1 .. Len(q) /\ J[n] \in Nat
    BY <1>1, <1>4
  <2>2. q[n + 1].size \in Nat
    BY <2>1, ElementOfSeq, SizeType
  <2>3. J[n + 1] = J[n] + q[n + 1].size
    BY <1>2 DEF SizedBy
  <2> QED
    BY <2>1, <2>2, <2>3
<1>5. \A n \in 0 .. Len(q) : n \in P
  <2> HIDE DEF P
  <2> QED
    BY <1>1, <1>3, <1>4, PositionInduction
<1>6. \A n \in 0 .. Len(q) : J[n] \in Nat
  BY <1>5
<1> QED
  BY <1>6 DEF J

\* Sequences with the same first rows have the same first sizes.
LEMMA SizesAgree ==
    ASSUME NEW q \in Seq(Row), NEW r \in Seq(Row), Len(q) <= Len(r),
           \A i \in 1 .. Len(q) : q[i] = r[i]
    PROVE  \A n \in 0 .. Len(q) : Sizes(r)[n] = Sizes(q)[n]
<1> DEFINE J == Sizes(q)
           K == Sizes(r)
           P == {n \in 0 .. Len(q) : K[n] = J[n]}
<1>1. Len(q) \in Nat /\ Len(r) \in Nat
  BY LenProperties
<1>2. SizedBy(J, q) /\ SizedBy(K, r)
  BY <1>1, SizesSteps
<1> HIDE DEF J, K
<1>3. 0 \in P
  BY <1>1, <1>2 DEF SizedBy
<1>4. ASSUME NEW n \in 0 .. Len(q) - 1, n \in P PROVE n + 1 \in P
  <2>1. /\ n + 1 \in 1 .. Len(q) /\ n + 1 \in 0 .. Len(q) /\ n \in 0 .. Len(r) - 1
        /\ K[n] = J[n]
    BY <1>1, <1>4
  <2>2. J[n + 1] = J[n] + q[n + 1].size /\ K[n + 1] = K[n] + r[n + 1].size
    BY <1>2, <2>1 DEF SizedBy
  <2>3. r[n + 1] = q[n + 1]
    BY <2>1
  <2> QED
    BY <2>1, <2>2, <2>3
<1>5. \A n \in 0 .. Len(q) : n \in P
  <2> HIDE DEF P
  <2> QED
    BY <1>1, <1>3, <1>4, PositionInduction
<1>6. \A n \in 0 .. Len(q) : K[n] = J[n]
  BY <1>5
<1> QED
  BY <1>6 DEF J, K

\* What a row adds to the size; nothing has size 0.
LEMMA SizeOfAppend ==
    ASSUME NEW q \in Seq(Row), NEW row \in Row
    PROVE  SizeOf(Append(q, row)) = SizeOf(q) + row.size /\ SizeOf(q) \in Nat
<1> DEFINE r == Append(q, row)
           K == Sizes(r)
<1>1. /\ r \in Seq(Row) /\ Len(q) \in Nat /\ Len(r) = Len(q) + 1
      /\ \A i \in 1 .. Len(q) : r[i] = q[i]
      /\ r[Len(q) + 1] = row
  BY LenProperties, AppendProperties
<1> HIDE DEF r
<1>2. \A n \in 0 .. Len(q) : K[n] = Sizes(q)[n]
  <2>1. Len(q) <= Len(r) /\ \A i \in 1 .. Len(q) : q[i] = r[i]
    BY <1>1
  <2> QED
    BY <1>1, <2>1, SizesAgree
<1>3. SizedBy(K, r)
  BY <1>1, SizesSteps
<1> HIDE DEF K
<1>4. K[Len(q) + 1] = K[Len(q)] + row.size
  <2>1. Len(q) \in 0 .. Len(r) - 1
    BY <1>1
  <2> QED
    BY <1>1, <1>3, <2>1 DEF SizedBy
<1>5. K[Len(q)] = SizeOf(q)
  BY <1>1, <1>2 DEF SizeOf
<1>6. SizeOf(q) \in Nat
  BY <1>1, SizesType DEF SizeOf
<1>7. SizeOf(r) = K[Len(q) + 1]
  BY <1>1 DEF SizeOf, K
<1> QED
  BY <1>4, <1>5, <1>6, <1>7 DEF r

LEMMA SizeOfEmpty == SizeOf(<<>>) = 0
<1>1. Len(<<>>) = 0
  OBVIOUS
<1> QED
  BY <1>1, SizesSteps DEF SizeOf, SizedBy

\* What comes first is no larger than the whole.
LEMMA SizeOfPrefix ==
    ASSUME NEW a \in Seq(Row), NEW b \in Seq(Row)
    PROVE  SizeOf(a) <= SizeOf(Cat(a, b)) /\ SizeOf(a) \in Nat /\ SizeOf(Cat(a, b)) \in Nat
<1> DEFINE c == Cat(a, b)
           K == Sizes(c)
           P == {n \in 0 .. Len(b) : K[Len(a)] <= K[Len(a) + n]}
<1>1. /\ c \in Seq(Row) /\ Len(a) \in Nat /\ Len(b) \in Nat /\ Len(c) = Len(a) + Len(b)
      /\ \A i \in 1 .. Len(a) : a[i] = c[i]
  BY LenProperties, ConcatProperties DEF Cat
<1> HIDE DEF c
<1>2. \A n \in 0 .. Len(a) : K[n] = Sizes(a)[n]
  <2>1. Len(a) <= Len(c)
    BY <1>1
  <2> QED
    BY <1>1, <2>1, SizesAgree
<1>3. SizedBy(K, c) /\ \A n \in 0 .. Len(c) : K[n] \in Nat
  BY <1>1, SizesSteps, SizesType
<1> HIDE DEF K
<1>4. 0 \in P
  <2>1. Len(a) + 0 = Len(a) /\ Len(a) \in 0 .. Len(c)
    BY <1>1
  <2> QED
    BY <1>1, <1>3, <2>1
<1>5. ASSUME NEW n \in 0 .. Len(b) - 1, n \in P PROVE n + 1 \in P
  <2> DEFINE m == Len(a) + n
  <2>1. /\ m \in 0 .. Len(c) - 1 /\ m + 1 \in 1 .. Len(c) /\ Len(a) + (n + 1) = m + 1
        /\ K[Len(a)] <= K[m] /\ n + 1 \in 0 .. Len(b)
        /\ m \in 0 .. Len(c) /\ Len(a) \in 0 .. Len(c)
    BY <1>1, <1>5
  <2> HIDE DEF m
  <2>2. c[m + 1].size \in Nat
    BY <1>1, <2>1, ElementOfSeq, SizeType
  <2>3. K[m + 1] = K[m] + c[m + 1].size
    BY <1>3, <2>1 DEF SizedBy
  <2>4. K[m] \in Nat /\ K[Len(a)] \in Nat
    BY <1>3, <2>1
  <2>5. K[Len(a)] <= K[m + 1]
    BY <2>1, <2>2, <2>3, <2>4
  <2> QED
    BY <2>1, <2>5
<1>6. \A n \in 0 .. Len(b) : n \in P
  <2> HIDE DEF P
  <2> QED
    BY <1>1, <1>4, <1>5, PositionInduction
<1>7. K[Len(a)] <= K[Len(c)]
  BY <1>1, <1>6
<1>8. SizeOf(a) = K[Len(a)] /\ SizeOf(c) = K[Len(c)]
  BY <1>1, <1>2 DEF SizeOf, K
<1>9. K[Len(a)] \in Nat /\ K[Len(c)] \in Nat
  BY <1>1, <1>3
<1> QED
  BY <1>7, <1>8, <1>9 DEF c
-----------------------------------------------------------------------------
LEMMA Limits ==
    /\ MaxOpenPartitions \in Nat /\ MaxOpenPartitions >= 1
    /\ MaxRowsPerFile \in Nat /\ MaxRowsPerFile >= 1
    /\ MaxBytesPerFile \in Nat /\ MaxBytesPerFile >= 1
    /\ BatchRows \in Nat /\ BatchRows >= 1
  BY SettingsAssumption

\* The partition of an event time.
LEMMA PartitionType == \A ts \in Nat : Partition(ts) \in Nat
<1>1. PartitionWidth \in Nat \ {0}
  BY SettingsAssumption
<1> QED
  BY <1>1 DEF Partition

\* The rows of a concatenation.
LEMMA CatRows ==
    ASSUME NEW a \in Seq(Row), NEW b \in Seq(Row)
    PROVE  /\ Cat(a, b) \in Seq(Row)
           /\ Len(a) \in Nat /\ Len(b) \in Nat /\ Len(Cat(a, b)) = Len(a) + Len(b)
           /\ DOMAIN a = 1 .. Len(a) /\ DOMAIN b = 1 .. Len(b)
           /\ DOMAIN Cat(a, b) = 1 .. Len(a) + Len(b)
           /\ \A i \in DOMAIN a : i \in DOMAIN Cat(a, b) /\ Cat(a, b)[i] = a[i]
           /\ \A i \in DOMAIN b : Len(a) + i \in DOMAIN Cat(a, b) /\ Cat(a, b)[Len(a) + i] = b[i]
<1> DEFINE c == Cat(a, b)
<1>1. /\ c \in Seq(Row) /\ Len(a) \in Nat /\ Len(b) \in Nat /\ Len(c) = Len(a) + Len(b)
      /\ DOMAIN a = 1 .. Len(a) /\ DOMAIN b = 1 .. Len(b) /\ DOMAIN c = 1 .. Len(c)
      /\ \A i \in 1 .. Len(a) + Len(b) : c[i] = IF i <= Len(a) THEN a[i] ELSE b[i - Len(a)]
  BY LenProperties, ConcatProperties DEF Cat
<1> HIDE DEF c
<1>2. \A i \in DOMAIN a : i \in DOMAIN c /\ c[i] = a[i]
  BY <1>1
<1>3. ASSUME NEW i \in DOMAIN b PROVE Len(a) + i \in DOMAIN c /\ c[Len(a) + i] = b[i]
  <2>1. Len(a) + i \in 1 .. Len(a) + Len(b) /\ ~(Len(a) + i <= Len(a)) /\ (Len(a) + i) - Len(a) = i
    BY <1>1
  <2> QED
    BY <1>1, <2>1
<1> QED
  BY <1>1, <1>2, <1>3 DEF c

\* The rows of a sequence with one more at its end.
LEMMA AppendRows ==
    ASSUME NEW s \in Seq(Row), NEW row \in Row
    PROVE  /\ Append(s, row) \in Seq(Row)
           /\ Len(s) \in Nat /\ Len(Append(s, row)) = Len(s) + 1
           /\ DOMAIN s = 1 .. Len(s) /\ DOMAIN Append(s, row) = 1 .. Len(s) + 1
           /\ \A i \in DOMAIN s : i \in DOMAIN Append(s, row) /\ Append(s, row)[i] = s[i]
           /\ Append(s, row)[Len(s) + 1] = row
           /\ Append(s, row) # <<>>
<1> DEFINE t == Append(s, row)
<1>1. /\ t \in Seq(Row) /\ Len(s) \in Nat /\ Len(t) = Len(s) + 1
      /\ DOMAIN s = 1 .. Len(s) /\ DOMAIN t = 1 .. Len(t)
      /\ \A i \in 1 .. Len(s) : t[i] = s[i]
      /\ t[Len(s) + 1] = row
  BY LenProperties, AppendProperties
<1>2. Len(<<>>) = 0
  OBVIOUS
<1> HIDE DEF t
<1>3. t # <<>>
  BY <1>1, <1>2
<1> QED
  BY <1>1, <1>3 DEF t

\* What holds of a content holds of the rows that have reached the file.
LEMMA PrefixGood ==
    ASSUME NEW a \in Seq(Row), NEW b \in Seq(Row), NEW p, NEW n,
           InOrder(Cat(a, b), p, n), WithinLimits(Cat(a, b))
    PROVE  InOrder(a, p, n) /\ WithinLimits(a)
<1> DEFINE c == Cat(a, b)
<1>1. /\ Len(a) \in Nat /\ Len(b) \in Nat /\ Len(c) = Len(a) + Len(b)
      /\ \A i \in DOMAIN a : i \in DOMAIN c /\ c[i] = a[i]
  BY CatRows
<1>2. SizeOf(a) <= SizeOf(c) /\ SizeOf(a) \in Nat /\ SizeOf(c) \in Nat
  BY SizeOfPrefix
<1>3. InOrder(c, p, n) /\ WithinLimits(c)
  OBVIOUS
<1> HIDE DEF c
<1>4. InOrder(a, p, n)
  BY <1>1, <1>3 DEF InOrder
<1>5. Len(a) <= MaxRowsPerFile
  BY <1>1, <1>3, Limits DEF WithinLimits
<1>6. CASE SizeOf(c) <= MaxBytesPerFile
  BY <1>2, <1>4, <1>5, <1>6, Limits DEF WithinLimits
<1>7. CASE Len(c) = 1
  <2>0. Len(a) = 0 \/ Len(a) = 1
    <3>1. Len(a) \in Nat /\ Len(b) \in Nat /\ 1 = Len(a) + Len(b)
      BY <1>1, <1>7
    <3>2. \A m, k \in Nat : 1 = m + k => m = 0 \/ m = 1
      OBVIOUS
    <3> QED
      BY <3>1, <3>2
  <2>1. CASE Len(a) = 1
    BY <1>4, <1>5, <2>1 DEF WithinLimits
  <2>2. CASE Len(a) = 0
    <3>1. a = <<>>
      BY <2>2, EmptySeq
    <3>2. SizeOf(a) <= MaxBytesPerFile
      BY <3>1, SizeOfEmpty, Limits
    <3> QED
      BY <1>4, <1>5, <3>2 DEF WithinLimits
  <2> QED
    BY <2>0, <2>1, <2>2
<1> QED
  BY <1>3, <1>6, <1>7 DEF WithinLimits

\* Fewer rows are also among more rows.
LEMMA InOrderMore ==
    ASSUME NEW s \in Seq(Row), NEW p, NEW n \in Nat, NEW m \in Nat, n <= m, InOrder(s, p, n)
    PROVE  InOrder(s, p, m)
<1>1. \A j \in DOMAIN s : s[j].id \in Nat
  BY LenProperties, ElementOfSeq, SizeType
<1> QED
  BY <1>1 DEF InOrder

\* The next row of its partition keeps the order, ...
LEMMA InOrderAppend ==
    ASSUME NEW s \in Seq(Row), NEW row \in Row, NEW n \in Nat,
           InOrder(s, Partition(row.ts), n), row.id = n + 1
    PROVE  InOrder(Append(s, row), Partition(row.ts), n + 1)
<1> DEFINE t == Append(s, row)
           p == Partition(row.ts)
<1>1. /\ Len(s) \in Nat /\ DOMAIN s = 1 .. Len(s) /\ DOMAIN t = 1 .. Len(s) + 1
      /\ \A i \in DOMAIN s : t[i] = s[i]
      /\ t[Len(s) + 1] = row
  BY AppendRows
<1>2. \A j \in DOMAIN s : s[j].id \in Nat
  BY LenProperties, ElementOfSeq, SizeType
<1>3. /\ \A j \in DOMAIN s : Partition(s[j].ts) = p /\ j <= s[j].id /\ s[j].id <= n
      /\ \A j, l \in DOMAIN s : j < l => s[j].id < s[l].id
  BY DEF InOrder
<1> HIDE DEF t
<1>4. Len(s) <= n
  <2>1. CASE Len(s) = 0
    BY <2>1
  <2>2. CASE Len(s) # 0
    <3>1. Len(s) \in DOMAIN s
      BY <1>1, <2>2
    <3> QED
      BY <1>1, <1>2, <1>3, <3>1
  <2> QED
    BY <2>1, <2>2
<1>5. \A j \in DOMAIN t : j \in DOMAIN s \/ j = Len(s) + 1
  BY <1>1
<1>6. \A j \in DOMAIN t : Partition(t[j].ts) = p
  BY <1>1, <1>3, <1>5
<1>7. \A j \in DOMAIN t : j <= t[j].id /\ t[j].id <= n + 1
  BY <1>1, <1>2, <1>3, <1>4, <1>5
<1>8. \A j, l \in DOMAIN t : j < l => j \in DOMAIN s
  BY <1>1
<1>9. ASSUME NEW j \in DOMAIN t, NEW l \in DOMAIN t, j < l PROVE t[j].id < t[l].id
  <2>1. j \in DOMAIN s
    BY <1>8, <1>9
  <2>2. CASE l \in DOMAIN s
    BY <1>1, <1>3, <1>9, <2>1, <2>2
  <2>3. CASE l = Len(s) + 1
    BY <1>1, <1>2, <1>3, <2>1, <2>3
  <2> QED
    BY <1>5, <2>2, <2>3
<1> QED
  BY <1>6, <1>7, <1>9 DEF InOrder, t

\* ... the limits, if they leave room for it, ...
LEMMA LimitsAppend ==
    ASSUME NEW s \in Seq(Row), NEW row \in Row,
           \/ s = <<>>
           \/ Len(s) + 1 <= MaxRowsPerFile /\ SizeOf(s) + row.size <= MaxBytesPerFile
    PROVE  WithinLimits(Append(s, row))
<1>1. Len(Append(s, row)) = Len(s) + 1
  BY AppendRows
<1>2. SizeOf(Append(s, row)) = SizeOf(s) + row.size
  BY SizeOfAppend
<1>3. Len(<<>>) = 0
  OBVIOUS
<1> QED
  BY <1>1, <1>2, <1>3, Limits DEF WithinLimits

\* ... and the bounds of the event times.
LEMMA TimesAppend ==
    ASSUME NEW s \in Seq(Row), NEW row \in Row, NEW lo \in Nat, NEW hi \in Nat,
           \/ s # <<>> /\ Times(lo, hi, s)
           \/ s = <<>> /\ lo = row.ts /\ hi = row.ts
    PROVE  Times(MinOf(lo, row.ts), MaxOf(hi, row.ts), Append(s, row))
<1> DEFINE t == Append(s, row)
           l2 == MinOf(lo, row.ts)
           h2 == MaxOf(hi, row.ts)
<1>1. /\ Len(s) \in Nat /\ DOMAIN s = 1 .. Len(s) /\ DOMAIN t = 1 .. Len(s) + 1
      /\ \A i \in DOMAIN s : i \in DOMAIN t /\ t[i] = s[i]
      /\ t[Len(s) + 1] = row
  BY AppendRows
<1>2. (\A j \in DOMAIN s : s[j].ts \in Nat) /\ row.ts \in Nat
  BY LenProperties, ElementOfSeq, SizeType
<1>3. /\ l2 \in Nat /\ h2 \in Nat /\ l2 <= lo /\ l2 <= row.ts /\ hi <= h2 /\ row.ts <= h2
      /\ l2 = lo \/ l2 = row.ts
      /\ h2 = hi \/ h2 = row.ts
  BY <1>2 DEF MinOf, MaxOf
<1>4. Len(s) + 1 \in DOMAIN t /\ \A j \in DOMAIN t : j \in DOMAIN s \/ j = Len(s) + 1
  BY <1>1
<1> HIDE DEF t, l2, h2
<1>5. CASE s # <<>> /\ Times(lo, hi, s)
  <2>1. \A j \in DOMAIN s : lo <= s[j].ts /\ s[j].ts <= hi
    BY <1>5 DEF Times
  <2>2. ASSUME NEW j \in DOMAIN t PROVE l2 <= t[j].ts /\ t[j].ts <= h2
    <3>1. CASE j \in DOMAIN s
      <4>1. lo <= s[j].ts /\ s[j].ts <= hi /\ s[j].ts \in Nat /\ t[j] = s[j]
        BY <1>1, <1>2, <2>1, <3>1
      <4> QED
        BY <1>3, <4>1
    <3>2. CASE j = Len(s) + 1
      BY <1>1, <1>3, <3>2
    <3> QED
      BY <1>4, <3>1, <3>2
  <2>3. (\E j \in DOMAIN t : lo = t[j].ts) /\ (\E j \in DOMAIN t : hi = t[j].ts)
    BY <1>1, <1>5 DEF Times
  <2>4. \E j \in DOMAIN t : row.ts = t[j].ts
    BY <1>1, <1>4
  <2>5. (\E j \in DOMAIN t : l2 = t[j].ts) /\ (\E j \in DOMAIN t : h2 = t[j].ts)
    BY <1>3, <2>3, <2>4
  <2>6. Times(l2, h2, t)
    BY <2>2, <2>5 DEF Times
  <2> QED
    BY <2>6 DEF t, l2, h2
<1>6. CASE s = <<>> /\ lo = row.ts /\ hi = row.ts
  <2>1. Len(s) = 0
    BY <1>6
  <2>2. l2 = row.ts /\ h2 = row.ts
    BY <1>3, <1>6
  <2>3. \A j \in DOMAIN t : t[j] = row
    BY <1>1, <2>1
  <2>4. Times(l2, h2, t)
    BY <1>2, <1>4, <2>2, <2>3 DEF Times
  <2> QED
    BY <2>4 DEF t, l2, h2
<1> QED
  BY <1>5, <1>6
-----------------------------------------------------------------------------
\* The effect of the private functions on the fields of the server's state.
LEMMA NowFields ==
    /\ DOMAIN Now = {"active", "access", "reports", "files"}
    /\ Now.active = server.active /\ Now.access = server.access
    /\ Now.reports = server.reports /\ Now.files = files
  BY DEF Now

LEMMA FlushFields ==
    ASSUME NEW x, Typed(x), NEW p
    PROVE  /\ DOMAIN FlushEntry(x, p) = {"active", "access", "reports", "files"}
           /\ FlushEntry(x, p).active = [x.active EXCEPT ![p].buffer = <<>>]
           /\ FlushEntry(x, p).files =
                [x.files EXCEPT ![x.active[p].file].rows = Cat(@, x.active[p].buffer)]
           /\ FlushEntry(x, p).access = x.access
           /\ FlushEntry(x, p).reports = x.reports
<1>1. DOMAIN x = {"active", "access", "reports", "files"}
  BY DEF Typed
<1> QED
  BY <1>1 DEF FlushEntry, Cat

LEMMA PublishFields ==
    ASSUME NEW x, NEW p, NEW y, y = FlushEntry(x, p), Typed(y)
    PROVE  /\ DOMAIN PublishEntry(x, p) = {"active", "access", "reports", "files"}
           /\ PublishEntry(x, p).active = Without(y.active, p)
           /\ PublishEntry(x, p).files =
                [y.files EXCEPT ![y.active[p].file].state = "published"]
           /\ PublishEntry(x, p).access = y.access
           /\ PublishEntry(x, p).reports = Append(y.reports, Part(y.active[p], p))
<1>1. DOMAIN y = {"active", "access", "reports", "files"}
  BY DEF Typed
<1> QED
  BY <1>1 DEF PublishEntry

NewFile(p) == [partition |-> p, rows |-> <<>>, state |-> "open"]
NewEntry(x, ts) == [file |-> Len(x.files) + 1, rows |-> 0, bytes |-> 0, buffer |-> <<>>,
                    min |-> ts, max |-> ts, access |-> x.access + 1]

LEMMA OpenFields ==
    ASSUME NEW x, Typed(x), NEW p, NEW ts
    PROVE  /\ DOMAIN OpenEntry(x, p, ts) = {"active", "access", "reports", "files"}
           /\ OpenEntry(x, p, ts).active = With(x.active, p, NewEntry(x, ts))
           /\ OpenEntry(x, p, ts).files = Append(x.files, NewFile(p))
           /\ OpenEntry(x, p, ts).access = x.access + 1
           /\ OpenEntry(x, p, ts).reports = x.reports
<1>1. DOMAIN x = {"active", "access", "reports", "files"}
  BY DEF Typed
<1> QED
  BY <1>1 DEF OpenEntry, NewFile, NewEntry

LEMMA BufferFields ==
    ASSUME NEW x, Typed(x), NEW p, NEW row
    PROVE  /\ DOMAIN BufferRow(x, p, row) = {"active", "access", "reports", "files"}
           /\ BufferRow(x, p, row).active =
                [x.active EXCEPT ![p] = Grown(x.active[p], row, x.access + 1)]
           /\ BufferRow(x, p, row).files = x.files
           /\ BufferRow(x, p, row).access = x.access + 1
           /\ BufferRow(x, p, row).reports = x.reports
<1>1. DOMAIN x = {"active", "access", "reports", "files"}
  BY DEF Typed
<1> QED
  BY <1>1 DEF BufferRow

\* A part of a well-typed state, and its content.
LEMMA ContentType ==
    ASSUME NEW x, Typed(x), Owned(x), NEW i \in DOMAIN x.files
    PROVE  /\ x.files[i] \in File /\ x.files[i].rows \in Seq(Row)
           /\ Content(x, i) \in Seq(Row)
           /\ Len(Content(x, i)) \in Nat /\ DOMAIN Content(x, i) = 1 .. Len(Content(x, i))
<1>1. x.files[i] \in File
  BY LenProperties, ElementOfSeq DEF Typed
<1>2. x.files[i].rows \in Seq(Row)
  BY <1>1 DEF File
<1>3. Content(x, i) \in Seq(Row)
  <2>1. CASE x.files[i].state = "open"
    <3>1. x.files[i].partition \in DOMAIN x.active
      BY <2>1 DEF Owned
    <3>2. x.active[x.files[i].partition].buffer \in Seq(Row)
      BY <3>1 DEF Typed, Entry
    <3> QED
      BY <1>2, <2>1, <3>2, CatRows DEF Content
  <2> QED
    BY <1>2, <2>1 DEF Content
<1> QED
  BY <1>1, <1>2, <1>3, LenProperties

\* The part of an entry.
LEMMA EntryFile ==
    ASSUME NEW x, Typed(x), Owned(x), NEW p \in DOMAIN x.active
    PROVE  /\ x.active[p] \in Entry
           /\ x.active[p].buffer \in Seq(Row)
           /\ x.active[p].file \in DOMAIN x.files
           /\ x.active[p].file \in Nat
           /\ x.files[x.active[p].file] \in File
           /\ x.files[x.active[p].file].rows \in Seq(Row)
           /\ x.files[x.active[p].file].state = "open"
           /\ x.files[x.active[p].file].partition = p
           /\ Content(x, x.active[p].file) = Cat(x.files[x.active[p].file].rows, x.active[p].buffer)
<1>1. x.active[p] \in Entry
  BY DEF Typed
<1>2. x.active[p].buffer \in Seq(Row) /\ x.active[p].file \in Nat
  BY <1>1 DEF Entry
<1>3. /\ x.active[p].file \in DOMAIN x.files
      /\ x.files[x.active[p].file].state = "open"
      /\ x.files[x.active[p].file].partition = p
  BY DEF Owned
<1>4. x.files[x.active[p].file] \in File /\ x.files[x.active[p].file].rows \in Seq(Row)
  BY <1>3, ContentType
<1>5. Content(x, x.active[p].file) = Cat(x.files[x.active[p].file].rows, x.active[p].buffer)
  BY <1>3 DEF Content
<1> QED
  BY <1>1, <1>2, <1>3, <1>4, <1>5

\* Two entries that differ in the buffer only.
SameEntry(e, d) ==
    /\ e.file = d.file /\ e.rows = d.rows /\ e.bytes = d.bytes
    /\ e.min = d.min /\ e.max = d.max /\ e.access = d.access

\* The buffer of p is written to its file.
FlushEffect(x, y, p) ==
    /\ DOMAIN y.active = DOMAIN x.active
    /\ \A q \in DOMAIN x.active : SameEntry(y.active[q], x.active[q])
    /\ \A q \in DOMAIN x.active : q # p => y.active[q] = x.active[q]
    /\ y.active[p].buffer = <<>>
    /\ DOMAIN y.files = DOMAIN x.files
    /\ \A i \in DOMAIN x.files : i # x.active[p].file => y.files[i] = x.files[i]
    /\ y.files[x.active[p].file].state = "open" /\ y.files[x.active[p].file].partition = p
    /\ y.files[x.active[p].file].rows = Cat(x.files[x.active[p].file].rows, x.active[p].buffer)
    /\ y.access = x.access /\ y.reports = x.reports

LEMMA Flushes ==
    ASSUME NEW x, Typed(x), Owned(x), NEW p \in DOMAIN x.active
    PROVE  Typed(FlushEntry(x, p)) /\ FlushEffect(x, FlushEntry(x, p), p)
<1> DEFINE y == FlushEntry(x, p)
           e == x.active[p]
           k == e.file
           d == [e EXCEPT !.buffer = <<>>]
           f == [x.files[k] EXCEPT !.rows = Cat(@, e.buffer)]
<1>1. /\ DOMAIN y = {"active", "access", "reports", "files"}
      /\ y.active = [x.active EXCEPT ![p] = d]
      /\ y.files = [x.files EXCEPT ![k] = f]
      /\ y.access = x.access /\ y.reports = x.reports
  BY FlushFields
<1>2. /\ e \in Entry /\ e.buffer \in Seq(Row) /\ k \in DOMAIN x.files
      /\ x.files[k] \in File /\ x.files[k].rows \in Seq(Row)
      /\ x.files[k].state = "open" /\ x.files[k].partition = p
  BY EntryFile
<1>3. Cat(x.files[k].rows, e.buffer) \in Seq(Row) /\ <<>> \in Seq(Row)
  BY <1>2, CatRows, EmptySeq
<1>4. d \in Entry /\ SameEntry(d, e) /\ d.buffer = <<>>
  BY <1>2, <1>3 DEF Entry, SameEntry
<1>5. /\ f \in File /\ f.state = "open" /\ f.partition = p
      /\ f.rows = Cat(x.files[k].rows, e.buffer)
  BY <1>2, <1>3 DEF File
<1> HIDE DEF d, f, y
<1>6. y.files \in Seq(File) /\ DOMAIN y.files = DOMAIN x.files
  BY <1>1, <1>2, <1>5, LenProperties, ExceptSeq DEF Typed
<1>7. /\ y.files[k] = f
      /\ \A i \in DOMAIN x.files : i # k => y.files[i] = x.files[i]
  BY <1>1, <1>2
<1>8. /\ DOMAIN y.active = DOMAIN x.active
      /\ y.active[p] = d
      /\ \A q \in DOMAIN x.active : q # p => y.active[q] = x.active[q]
  BY <1>1
<1>9. Typed(y)
  <2>1. /\ IsFiniteSet(DOMAIN x.active) /\ x.access \in Nat /\ x.reports \in Seq(Report)
        /\ \A q \in DOMAIN x.active : x.active[q] \in Entry
    BY DEF Typed
  <2>2. \A q \in DOMAIN y.active : y.active[q] \in Entry
    BY <1>4, <1>8, <2>1
  <2> QED
    BY <1>1, <1>6, <1>8, <2>1, <2>2 DEF Typed
<1>10. \A q \in DOMAIN x.active : SameEntry(y.active[q], x.active[q])
  BY <1>4, <1>8 DEF SameEntry
<1>11. FlushEffect(x, y, p)
  <2> HIDE DEF e, k
  <2> QED
    BY <1>1, <1>4, <1>5, <1>6, <1>7, <1>8, <1>10 DEF FlushEffect, e, k
<1> QED
  BY <1>9, <1>11 DEF y
-----------------------------------------------------------------------------
\* The same parts with the same contents.
Conserves(x, y) ==
    /\ DOMAIN y.files = DOMAIN x.files
    /\ \A i \in DOMAIN x.files : /\ y.files[i].partition = x.files[i].partition
                                 /\ Content(y, i) = Content(x, i)

\* What holds of the contents then holds still.
LEMMA ConservesGood ==
    ASSUME NEW x, NEW y, NEW n, PartsGood(x, n), Located(x, n), Conserves(x, y),
           \A i \in DOMAIN x.files : y.files[i].state = "published" =>
              x.files[i].state = "published" \/ Content(x, i) # <<>>
    PROVE  PartsGood(y, n) /\ Located(y, n)
<1>1. PartsGood(y, n)
  BY DEF PartsGood, Conserves
<1>2. Located(y, n)
  <2>1. \A id \in 1 .. n : \E i \in DOMAIN y.files :
           \E j \in DOMAIN Content(y, i) : Content(y, i)[j].id = id
    BY DEF Located, Conserves
  <2>2. \A i, k \in DOMAIN y.files :
           \A j \in DOMAIN Content(y, i), l \in DOMAIN Content(y, k) :
              Content(y, i)[j].id = Content(y, k)[l].id => i = k
    BY DEF Located, Conserves
  <2> QED
    BY <2>1, <2>2 DEF Located
<1> QED
  BY <1>1, <1>2

\* Published parts stay as they are, ...
KeepsPublished(fs, gs) ==
    \A i \in PublishedIn(fs) : i \in DOMAIN gs /\ gs[i] = fs[i]

\* ... so that a part reported is still as reported.
LEMMA KeepsSound ==
    ASSUME NEW fs, NEW gs, NEW parts, KeepsPublished(fs, gs), PartsSound(parts, fs)
    PROVE  PartsSound(parts, gs) /\ PublishedIn(fs) \subseteq PublishedIn(gs)
<1>1. ASSUME NEW k \in DOMAIN parts PROVE PartSound(parts[k], gs)
  <2>1. PartSound(parts[k], fs)
    BY DEF PartsSound
  <2>2. parts[k].file \in DOMAIN gs /\ gs[parts[k].file] = fs[parts[k].file]
    BY <2>1 DEF PartSound, KeepsPublished
  <2>3. parts[k].file \in PublishedIn(gs)
    BY <2>1, <2>2 DEF PartSound, PublishedIn
  <2> QED
    BY <2>1, <2>2, <2>3 DEF PartSound
<1>2. PublishedIn(fs) \subseteq PublishedIn(gs)
  BY DEF KeepsPublished, PublishedIn
<1> QED
  BY <1>1, <1>2 DEF PartsSound

\* Two entries never have the same part.
LEMMA EntriesApart ==
    ASSUME NEW x, Owned(x), NEW p \in DOMAIN x.active, NEW q \in DOMAIN x.active,
           x.active[p].file = x.active[q].file
    PROVE  p = q
  BY DEF Owned

\* flush_entry: the rows of the buffer are now in the file.
LEMMA FlushGood ==
    ASSUME NEW x, NEW n, Good(x, n), NEW p \in DOMAIN x.active
    PROVE  /\ Good(FlushEntry(x, p), n)
           /\ FlushEffect(x, FlushEntry(x, p), p)
           /\ Conserves(x, FlushEntry(x, p))
           /\ PublishedIn(FlushEntry(x, p).files) = PublishedIn(x.files)
           /\ KeepsPublished(x.files, FlushEntry(x, p).files)
<1> DEFINE y == FlushEntry(x, p)
           k == x.active[p].file
<1>1. Typed(x) /\ Owned(x)
  BY DEF Good
<1>2. Typed(y) /\ FlushEffect(x, y, p)
  BY <1>1, Flushes
<1> HIDE DEF y
<1>3. /\ x.active[p].buffer \in Seq(Row) /\ k \in DOMAIN x.files
      /\ x.files[k].rows \in Seq(Row)
      /\ x.files[k].state = "open" /\ x.files[k].partition = p
      /\ Content(x, k) = Cat(x.files[k].rows, x.active[p].buffer)
  BY <1>1, EntryFile
<1>4. /\ DOMAIN y.files = DOMAIN x.files
      /\ \A i \in DOMAIN x.files : i # k => y.files[i] = x.files[i]
      /\ y.files[k].state = "open" /\ y.files[k].partition = p
      /\ y.files[k].rows = Cat(x.files[k].rows, x.active[p].buffer)
      /\ y.active[p].buffer = <<>>
      /\ DOMAIN y.active = DOMAIN x.active
      /\ \A q \in DOMAIN x.active : q # p => y.active[q] = x.active[q]
  BY <1>2 DEF FlushEffect
<1>5. \A q \in DOMAIN x.active :
         /\ y.active[q].file = x.active[q].file /\ y.active[q].rows = x.active[q].rows
         /\ y.active[q].bytes = x.active[q].bytes /\ y.active[q].min = x.active[q].min
         /\ y.active[q].max = x.active[q].max /\ y.active[q].access = x.active[q].access
  BY <1>2 DEF FlushEffect, SameEntry
<1>6. y.access = x.access /\ y.reports = x.reports
  BY <1>2 DEF FlushEffect
<1>7. \A i \in DOMAIN x.files : /\ y.files[i].state = x.files[i].state
                                /\ y.files[i].partition = x.files[i].partition
  BY <1>3, <1>4
<1> HIDE DEF k
<1>8. Owned(y)
  <2>1. \A q \in DOMAIN y.active : LET e == y.active[q] IN
           /\ e.file \in DOMAIN y.files
           /\ y.files[e.file].state = "open" /\ y.files[e.file].partition = q
           /\ e.access \in 1 .. y.access
    BY <1>1, <1>4, <1>5, <1>6, <1>7 DEF Owned
  <2>2. \A i \in DOMAIN y.files : y.files[i].state # "published" =>
           /\ y.files[i].state = "open"
           /\ y.files[i].partition \in DOMAIN y.active
           /\ y.active[y.files[i].partition].file = i
    BY <1>1, <1>4, <1>5, <1>7 DEF Owned
  <2> QED
    BY <2>1, <2>2 DEF Owned
<1>9. Conserves(x, y)
  <2>1. Content(y, k) = Content(x, k)
    <3>1. Cat(x.files[k].rows, x.active[p].buffer) \in Seq(Row)
      BY <1>3, CatRows
    <3>2. Content(y, k) = Cat(Cat(x.files[k].rows, x.active[p].buffer), <<>>)
      BY <1>4 DEF Content
    <3> QED
      BY <1>3, <3>1, <3>2, CatEmpty
  <2>2. ASSUME NEW i \in DOMAIN x.files, i # k PROVE Content(y, i) = Content(x, i)
    <3>1. CASE x.files[i].state = "open"
      <4>1. /\ x.files[i].partition \in DOMAIN x.active
            /\ x.active[x.files[i].partition].file = i
        BY <1>1, <3>1 DEF Owned
      <4>2. x.files[i].partition # p
        BY <2>2, <4>1 DEF k
      <4>3. y.active[x.files[i].partition] = x.active[x.files[i].partition]
        BY <1>4, <4>1, <4>2
      <4> QED
        BY <1>4, <2>2, <4>3 DEF Content
    <3>2. CASE x.files[i].state # "open"
      BY <1>4, <2>2, <3>2 DEF Content
    <3> QED
      BY <3>1, <3>2
  <2> QED
    BY <1>4, <1>7, <2>1, <2>2 DEF Conserves
<1>10. PartsGood(y, n) /\ Located(y, n)
  <2>1. PartsGood(x, n) /\ Located(x, n)
    BY DEF Good
  <2> QED
    BY <1>7, <1>9, <2>1, ConservesGood
<1>11. EntriesCount(y)
  <2>1. EntriesCount(x)
    BY DEF Good
  <2> SUFFICES ASSUME NEW q \in DOMAIN x.active
               PROVE  Counts(y.active[q], Content(y, y.active[q].file))
    BY <1>4 DEF EntriesCount
  <2>2. Counts(x.active[q], Content(x, x.active[q].file))
    BY <2>1 DEF EntriesCount
  <2>3. x.active[q].file \in DOMAIN x.files
    BY <1>1 DEF Owned
  <2>4. Content(y, y.active[q].file) = Content(x, x.active[q].file)
    BY <1>5, <1>9, <2>3 DEF Conserves
  <2> QED
    BY <1>5, <2>2, <2>4 DEF Counts
<1>12. KeepsPublished(x.files, y.files) /\ PublishedIn(y.files) = PublishedIn(x.files)
  <2>1. \A i \in PublishedIn(x.files) : i \in DOMAIN y.files /\ y.files[i] = x.files[i]
    BY <1>3, <1>4 DEF PublishedIn
  <2>2. PublishedIn(y.files) = PublishedIn(x.files)
    BY <1>4, <1>7 DEF PublishedIn
  <2> QED
    BY <2>1, <2>2 DEF KeepsPublished
<1>13. Reported(y)
  <2>1. PartsSound(x.reports, x.files) /\ FilesOf(x.reports) = PublishedIn(x.files)
    BY DEF Good, Reported
  <2>2. PartsSound(x.reports, y.files)
    BY <1>12, <2>1, KeepsSound
  <2> QED
    BY <1>6, <1>12, <2>1, <2>2 DEF Reported
<1>14. Cardinality(DOMAIN y.active) <= MaxOpenPartitions
  BY <1>4 DEF Good
<1>15. Good(y, n)
  BY <1>2, <1>8, <1>10, <1>11, <1>13, <1>14 DEF Good
<1> QED
  BY <1>2, <1>9, <1>12, <1>15 DEF y
-----------------------------------------------------------------------------
\* The part of p is published and reported.
PublishEffect(x, z, p) ==
    /\ DOMAIN z.active = DOMAIN x.active \ {p}
    /\ \A q \in DOMAIN z.active : z.active[q] = x.active[q]
    /\ PublishedIn(z.files) = PublishedIn(x.files) \cup {x.active[p].file}
    /\ KeepsPublished(x.files, z.files)
    /\ z.files[x.active[p].file].rows = Content(x, x.active[p].file)

\* publish_entry of a flushed entry with a row.
LEMMA PublishFlushed ==
    ASSUME NEW y, NEW n, Good(y, n), NEW p \in DOMAIN y.active,
           y.active[p].buffer = <<>>, y.active[p].rows > 0,
           NEW z, DOMAIN z = {"active", "access", "reports", "files"},
           z.active = Without(y.active, p),
           z.files = [y.files EXCEPT ![y.active[p].file].state = "published"],
           z.access = y.access,
           z.reports = Append(y.reports, Part(y.active[p], p))
    PROVE  Good(z, n) /\ PublishEffect(y, z, p)
<1> DEFINE e == y.active[p]
           k == e.file
           f == [y.files[k] EXCEPT !.state = "published"]
           part == Part(e, p)
<1>1. Typed(y) /\ Owned(y)
  BY DEF Good
<1>2. /\ e \in Entry /\ k \in DOMAIN y.files /\ y.files[k] \in File
      /\ y.files[k].rows \in Seq(Row)
      /\ y.files[k].state = "open" /\ y.files[k].partition = p
      /\ Content(y, k) = Cat(y.files[k].rows, <<>>)
  BY <1>1, EntryFile
<1>3. Content(y, k) = y.files[k].rows
  BY <1>2, CatEmpty
<1>4. /\ f \in File /\ f.state = "published" /\ f.partition = p
      /\ f.rows = y.files[k].rows
  BY <1>2 DEF File, FileStates
<1>5. p \in Nat
  BY <1>2 DEF File
<1>6. /\ part \in Report /\ part.file = k /\ part.rows = e.rows
      /\ part.min = e.min /\ part.max = e.max
  BY <1>2, <1>5 DEF Part, Report, Entry
<1>7. /\ DOMAIN z.active = DOMAIN y.active \ {p}
      /\ \A q \in DOMAIN z.active : z.active[q] = y.active[q]
  BY DEF Without
<1>8. z.files = [y.files EXCEPT ![k] = f]
  OBVIOUS
<1>9. z.reports = Append(y.reports, part)
  OBVIOUS
<1> HIDE DEF f, part
<1>10. z.files \in Seq(File) /\ DOMAIN z.files = DOMAIN y.files
  BY <1>1, <1>2, <1>4, <1>8, LenProperties, ExceptSeq DEF Typed
<1>11. /\ z.files[k] = f
       /\ \A i \in DOMAIN y.files : i # k => z.files[i] = y.files[i]
  BY <1>2, <1>8
<1>12. /\ z.reports \in Seq(Report) /\ Len(y.reports) \in Nat
       /\ DOMAIN y.reports = 1 .. Len(y.reports) /\ DOMAIN z.reports = 1 .. Len(y.reports) + 1
       /\ \A i \in DOMAIN y.reports : z.reports[i] = y.reports[i]
       /\ z.reports[Len(y.reports) + 1] = part
  <2>1. y.reports \in Seq(Report)
    BY <1>1 DEF Typed
  <2>2. DOMAIN y.reports = 1 .. Len(y.reports) /\ Len(y.reports) \in Nat
    BY <2>1, LenProperties
  <2>3. /\ z.reports \in Seq(Report) /\ Len(z.reports) = Len(y.reports) + 1
        /\ \A i \in 1 .. Len(y.reports) : z.reports[i] = y.reports[i]
        /\ z.reports[Len(y.reports) + 1] = part
    BY <1>6, <1>9, <2>1, AppendProperties
  <2>4. DOMAIN z.reports = 1 .. Len(z.reports)
    BY <2>3, LenProperties
  <2> QED
    BY <2>2, <2>3, <2>4
<1>13. \A i \in DOMAIN z.reports : i \in DOMAIN y.reports \/ i = Len(y.reports) + 1
  BY <1>12
<1>14. Typed(z)
  <2>1. IsFiniteSet(DOMAIN z.active)
    BY <1>1, <1>7, FS_Subset DEF Typed
  <2>2. \A q \in DOMAIN z.active : z.active[q] \in Entry
    BY <1>1, <1>7 DEF Typed
  <2>3. z.access \in Nat
    BY <1>1 DEF Typed
  <2> QED
    BY <1>10, <1>12, <2>1, <2>2, <2>3 DEF Typed
<1>15. \A q \in DOMAIN z.active : q \in DOMAIN y.active /\ q # p /\ y.active[q].file # k
  BY <1>1, <1>7, EntriesApart
<1> HIDE DEF k
<1>16. Owned(z)
  <2>1. ASSUME NEW q \in DOMAIN z.active
        PROVE  LET d == z.active[q] IN
               /\ d.file \in DOMAIN z.files
               /\ z.files[d.file].state = "open" /\ z.files[d.file].partition = q
               /\ d.access \in 1 .. z.access
    <3>1. z.active[q] = y.active[q] /\ q \in DOMAIN y.active /\ y.active[q].file # k
      BY <1>7, <1>15
    <3>2. /\ y.active[q].file \in DOMAIN y.files
          /\ y.files[y.active[q].file].state = "open"
          /\ y.files[y.active[q].file].partition = q
          /\ y.active[q].access \in 1 .. y.access
      BY <1>1, <3>1 DEF Owned
    <3>3. z.files[y.active[q].file] = y.files[y.active[q].file]
      BY <1>11, <3>1, <3>2
    <3> QED
      BY <1>10, <3>1, <3>2, <3>3
  <2>2. ASSUME NEW i \in DOMAIN z.files, z.files[i].state # "published"
        PROVE  /\ z.files[i].state = "open"
               /\ z.files[i].partition \in DOMAIN z.active
               /\ z.active[z.files[i].partition].file = i
    <3>1. i # k /\ z.files[i] = y.files[i] /\ i \in DOMAIN y.files
      BY <1>4, <1>10, <1>11, <2>2
    <3>2. /\ y.files[i].state = "open"
          /\ y.files[i].partition \in DOMAIN y.active
          /\ y.active[y.files[i].partition].file = i
      BY <1>1, <2>2, <3>1 DEF Owned
    <3>3. y.files[i].partition # p
      BY <3>1, <3>2 DEF k
    <3> QED
      BY <1>7, <3>1, <3>2, <3>3
  <2> QED
    BY <2>1, <2>2 DEF Owned
<1>17. Conserves(y, z)
  <2>1. Content(z, k) = Content(y, k)
    BY <1>3, <1>4, <1>11 DEF Content
  <2>2. ASSUME NEW i \in DOMAIN y.files, i # k PROVE Content(z, i) = Content(y, i)
    <3>1. z.files[i] = y.files[i]
      BY <1>11, <2>2
    <3>2. CASE y.files[i].state = "open"
      <4>1. /\ y.files[i].partition \in DOMAIN y.active
            /\ y.active[y.files[i].partition].file = i
        BY <1>1, <3>2 DEF Owned
      <4>2. y.files[i].partition # p
        BY <2>2, <4>1 DEF k
      <4>3. z.active[y.files[i].partition] = y.active[y.files[i].partition]
        BY <1>7, <4>1, <4>2
      <4> QED
        BY <3>1, <4>3 DEF Content
    <3>3. CASE y.files[i].state # "open"
      BY <3>1, <3>3 DEF Content
    <3> QED
      BY <3>2, <3>3
  <2>3. \A i \in DOMAIN y.files : z.files[i].partition = y.files[i].partition
    BY <1>2, <1>4, <1>11
  <2> QED
    BY <1>10, <2>1, <2>2, <2>3 DEF Conserves
<1>18. Counts(e, Content(y, k))
  BY DEF Good, EntriesCount, k
<1>19. Content(y, k) # <<>>
  <2>1. e.rows = Len(Content(y, k))
    BY <1>18 DEF Counts
  <2>2. Len(<<>>) = 0
    OBVIOUS
  <2> QED
    BY <2>1, <2>2
<1>20. PartsGood(z, n) /\ Located(z, n)
  <2>1. PartsGood(y, n) /\ Located(y, n)
    BY DEF Good
  <2>2. \A i \in DOMAIN y.files : z.files[i].state = "published" =>
           y.files[i].state = "published" \/ Content(y, i) # <<>>
    BY <1>11, <1>19
  <2> QED
    BY <1>17, <2>1, <2>2, ConservesGood
<1>21. EntriesCount(z)
  <2> SUFFICES ASSUME NEW q \in DOMAIN z.active
               PROVE  Counts(z.active[q], Content(z, z.active[q].file))
    BY DEF EntriesCount
  <2>1. z.active[q] = y.active[q] /\ q \in DOMAIN y.active
    BY <1>7
  <2>2. Counts(y.active[q], Content(y, y.active[q].file)) /\ y.active[q].file \in DOMAIN y.files
    BY <1>1, <2>1 DEF Good, EntriesCount, Owned
  <2>3. Content(z, y.active[q].file) = Content(y, y.active[q].file)
    BY <1>17, <2>2 DEF Conserves
  <2> QED
    BY <2>1, <2>2, <2>3
<1>22. PublishedIn(z.files) = PublishedIn(y.files) \cup {k}
  <2>1. ASSUME NEW i PROVE i \in PublishedIn(z.files) <=> i \in PublishedIn(y.files) \cup {k}
    <3>1. CASE i = k
      BY <1>2, <1>4, <1>10, <1>11, <3>1 DEF PublishedIn, k
    <3>2. CASE i # k
      BY <1>10, <1>11, <3>2 DEF PublishedIn
    <3> QED
      BY <3>1, <3>2
  <2> QED
    BY <2>1
<1>23. KeepsPublished(y.files, z.files)
  <2>1. k \notin PublishedIn(y.files)
    BY <1>2 DEF PublishedIn, k
  <2> QED
    BY <1>10, <1>11, <2>1 DEF KeepsPublished, PublishedIn
<1>24. Reported(z)
  <2>1. PartsSound(y.reports, y.files) /\ FilesOf(y.reports) = PublishedIn(y.files)
    BY DEF Good, Reported
  <2>2. PartsSound(y.reports, z.files)
    BY <1>23, <2>1, KeepsSound
  <2>3. PartSound(part, z.files)
    <3>1. z.files[k].rows = Content(y, k)
      BY <1>3, <1>4, <1>11
    <3>2. k \in PublishedIn(z.files)
      BY <1>22
    <3>3. e.rows = Len(Content(y, k)) /\ Times(e.min, e.max, Content(y, k))
      BY <1>18, <1>19 DEF Counts
    <3>4. part.file = k /\ part.rows = e.rows /\ part.min = e.min /\ part.max = e.max
      BY <1>6 DEF k
    <3> QED
      BY <3>1, <3>2, <3>3, <3>4 DEF PartSound
  <2>4. PartsSound(z.reports, z.files)
    <3>1. ASSUME NEW i \in DOMAIN z.reports PROVE PartSound(z.reports[i], z.files)
      <4>1. CASE i \in DOMAIN y.reports
        BY <1>12, <2>2, <4>1 DEF PartsSound
      <4>2. CASE i = Len(y.reports) + 1
        BY <1>12, <2>3, <4>2
      <4> QED
        BY <1>13, <4>1, <4>2
    <3> QED
      BY <1>12, <3>1 DEF PartsSound
  <2>5. FilesOf(z.reports) = FilesOf(y.reports) \cup {k}
    <3>1. part.file = k
      BY <1>6 DEF k
    <3>2. Len(y.reports) + 1 \in DOMAIN z.reports /\ \A i \in DOMAIN y.reports : i \in DOMAIN z.reports
      BY <1>12
    <3>3. \A i \in DOMAIN y.reports : z.reports[i].file = y.reports[i].file
      BY <1>12
    <3>4. z.reports[Len(y.reports) + 1].file = k
      BY <1>12, <3>1
    <3>5. FilesOf(z.reports) \subseteq FilesOf(y.reports) \cup {k}
      BY <1>13, <3>3, <3>4 DEF FilesOf
    <3>6. FilesOf(y.reports) \cup {k} \subseteq FilesOf(z.reports)
      BY <3>2, <3>3, <3>4 DEF FilesOf
    <3> QED
      BY <3>5, <3>6
  <2> QED
    BY <1>22, <2>1, <2>4, <2>5 DEF Reported
<1>25. Cardinality(DOMAIN z.active) <= MaxOpenPartitions
  <2>1. IsFiniteSet(DOMAIN y.active) /\ Cardinality(DOMAIN y.active) <= MaxOpenPartitions
    BY <1>1 DEF Typed, Good
  <2>2. DOMAIN z.active \in SUBSET DOMAIN y.active
    BY <1>7
  <2>3. /\ IsFiniteSet(DOMAIN z.active)
        /\ Cardinality(DOMAIN z.active) <= Cardinality(DOMAIN y.active)
    BY <2>1, <2>2, FS_Subset
  <2>4. Cardinality(DOMAIN z.active) \in Nat /\ Cardinality(DOMAIN y.active) \in Nat
    BY <2>1, <2>3, FS_CardinalityType
  <2> QED
    BY <2>1, <2>3, <2>4, Limits
<1>26. Good(z, n)
  BY <1>14, <1>16, <1>20, <1>21, <1>24, <1>25 DEF Good
<1>27. PublishEffect(y, z, p)
  <2>1. z.files[k].rows = Content(y, k)
    BY <1>3, <1>4, <1>11
  <2> QED
    BY <1>7, <1>22, <1>23, <2>1 DEF PublishEffect, k
<1> QED
  BY <1>26, <1>27

\* publish_entry of an entry with a row.
LEMMA PublishGood ==
    ASSUME NEW x, NEW n, Good(x, n), NEW p \in DOMAIN x.active, x.active[p].rows > 0
    PROVE  Good(PublishEntry(x, p), n) /\ PublishEffect(x, PublishEntry(x, p), p)
<1> DEFINE y == FlushEntry(x, p)
           z == PublishEntry(x, p)
           k == x.active[p].file
<1>1. /\ Good(y, n) /\ FlushEffect(x, y, p) /\ Conserves(x, y)
      /\ PublishedIn(y.files) = PublishedIn(x.files)
      /\ KeepsPublished(x.files, y.files)
  BY FlushGood
<1>2. /\ DOMAIN y.active = DOMAIN x.active
      /\ y.active[p].buffer = <<>> /\ y.active[p].rows = x.active[p].rows
      /\ y.active[p].file = k
      /\ \A q \in DOMAIN x.active : q # p => y.active[q] = x.active[q]
  BY <1>1 DEF FlushEffect, SameEntry
<1>3. Typed(y)
  BY <1>1 DEF Good
<1>4. /\ DOMAIN z = {"active", "access", "reports", "files"}
      /\ z.active = Without(y.active, p)
      /\ z.files = [y.files EXCEPT ![y.active[p].file].state = "published"]
      /\ z.access = y.access
      /\ z.reports = Append(y.reports, Part(y.active[p], p))
  BY <1>3, PublishFields
<1> HIDE DEF y, z
<1>5. Good(z, n) /\ PublishEffect(y, z, p)
  <2>1. p \in DOMAIN y.active /\ y.active[p].rows > 0
    BY <1>2
  <2> QED
    BY <1>1, <1>2, <1>4, <2>1, PublishFlushed
<1>6. PublishEffect(x, z, p)
  <2>1. /\ DOMAIN z.active = DOMAIN x.active \ {p}
        /\ \A q \in DOMAIN z.active : z.active[q] = x.active[q]
    BY <1>2, <1>5 DEF PublishEffect
  <2>2. PublishedIn(z.files) = PublishedIn(x.files) \cup {k}
    BY <1>1, <1>2, <1>5 DEF PublishEffect
  <2>3. KeepsPublished(x.files, z.files)
    <3>1. KeepsPublished(y.files, z.files)
      BY <1>5 DEF PublishEffect
    <3> QED
      BY <1>1, <3>1 DEF KeepsPublished
  <2>4. k \in DOMAIN x.files
    BY DEF Good, Owned
  <2>5. z.files[k].rows = Content(x, k)
    BY <1>1, <1>2, <1>5, <2>4 DEF PublishEffect, Conserves
  <2> QED
    BY <2>1, <2>2, <2>3, <2>5 DEF PublishEffect
<1> QED
  BY <1>5, <1>6 DEF z
-----------------------------------------------------------------------------
\* open_entry: one more part, without rows.
LEMMA OpenGood ==
    ASSUME NEW x, NEW n, Good(x, n), NEW p \in Nat, p \notin DOMAIN x.active,
           NEW ts \in Nat, Cardinality(DOMAIN x.active) < MaxOpenPartitions
    PROVE  /\ Good(OpenEntry(x, p, ts), n)
           /\ DOMAIN OpenEntry(x, p, ts).active = DOMAIN x.active \cup {p}
           /\ OpenEntry(x, p, ts).active[p] = NewEntry(x, ts)
           /\ \A q \in DOMAIN x.active : OpenEntry(x, p, ts).active[q] = x.active[q]
           /\ PublishedIn(OpenEntry(x, p, ts).files) = PublishedIn(x.files)
           /\ KeepsPublished(x.files, OpenEntry(x, p, ts).files)
<1> DEFINE y == OpenEntry(x, p, ts)
           e == NewEntry(x, ts)
           f == NewFile(p)
           k == Len(x.files) + 1
<1>1. Typed(x) /\ Owned(x)
  BY DEF Good
<1>2. /\ DOMAIN y = {"active", "access", "reports", "files"}
      /\ y.active = With(x.active, p, e)
      /\ y.files = Append(x.files, f)
      /\ y.access = x.access + 1 /\ y.reports = x.reports
  BY <1>1, OpenFields
<1>3. /\ x.files \in Seq(File) /\ x.access \in Nat /\ x.reports \in Seq(Report)
      /\ IsFiniteSet(DOMAIN x.active) /\ \A q \in DOMAIN x.active : x.active[q] \in Entry
  BY <1>1 DEF Typed
<1>4. <<>> \in Seq(Row) /\ Len(<<>>) = 0
  BY EmptySeq
<1>5. /\ f \in File /\ f.state = "open" /\ f.partition = p /\ f.rows = <<>>
  BY <1>4 DEF File, NewFile, FileStates
<1>6. Len(x.files) \in Nat /\ DOMAIN x.files = 1 .. Len(x.files)
  BY <1>3, LenProperties
<1>7. /\ e \in Entry /\ e.file = k /\ e.rows = 0 /\ e.bytes = 0 /\ e.buffer = <<>>
      /\ e.access = x.access + 1
  <2>1. k \in Nat /\ x.access + 1 \in Nat
    BY <1>3, <1>6
  <2> QED
    BY <1>4, <2>1 DEF Entry, NewEntry
<1> HIDE DEF y, e, f
<1>8. /\ y.files \in Seq(File) /\ DOMAIN y.files = 1 .. k
      /\ \A i \in DOMAIN x.files : y.files[i] = x.files[i]
      /\ y.files[k] = f
  <2>1. /\ y.files \in Seq(File) /\ Len(y.files) = Len(x.files) + 1
        /\ \A i \in 1 .. Len(x.files) : y.files[i] = x.files[i]
        /\ y.files[Len(x.files) + 1] = f
    BY <1>2, <1>3, <1>5, AppendProperties
  <2>2. DOMAIN y.files = 1 .. Len(y.files)
    BY <2>1, LenProperties
  <2> QED
    BY <1>6, <2>1, <2>2
<1>9. /\ k \in DOMAIN y.files /\ k \notin DOMAIN x.files
      /\ \A i \in DOMAIN x.files : i \in DOMAIN y.files
      /\ \A i \in DOMAIN y.files : i \in DOMAIN x.files \/ i = k
  BY <1>6, <1>8
<1>10. /\ DOMAIN y.active = DOMAIN x.active \cup {p}
       /\ y.active[p] = e
       /\ \A q \in DOMAIN x.active : y.active[q] = x.active[q]
  BY <1>2 DEF With
<1> HIDE DEF k
<1>11. IsFiniteSet(DOMAIN y.active) /\ Cardinality(DOMAIN y.active) <= MaxOpenPartitions
  <2>1. /\ IsFiniteSet(DOMAIN y.active)
        /\ Cardinality(DOMAIN y.active) = Cardinality(DOMAIN x.active) + 1
    BY <1>3, <1>10, FS_AddElement
  <2>2. Cardinality(DOMAIN x.active) \in Nat
    BY <1>3, FS_CardinalityType
  <2> QED
    BY <2>1, <2>2, Limits
<1>12. Typed(y)
  <2>1. \A q \in DOMAIN y.active : y.active[q] \in Entry
    BY <1>3, <1>7, <1>10
  <2>2. y.access \in Nat
    BY <1>2, <1>3
  <2> QED
    BY <1>2, <1>3, <1>8, <1>11, <2>1, <2>2 DEF Typed
<1>13. Owned(y)
  <2>1. ASSUME NEW q \in DOMAIN y.active
        PROVE  LET d == y.active[q] IN
               /\ d.file \in DOMAIN y.files
               /\ y.files[d.file].state = "open" /\ y.files[d.file].partition = q
               /\ d.access \in 1 .. y.access
    <3>1. CASE q = p
      <4>1. x.access + 1 \in 1 .. x.access + 1
        BY <1>3
      <4> QED
        BY <1>2, <1>5, <1>7, <1>8, <1>9, <1>10, <3>1, <4>1
    <3>2. CASE q \in DOMAIN x.active
      <4>1. /\ x.active[q].file \in DOMAIN x.files
            /\ x.files[x.active[q].file].state = "open"
            /\ x.files[x.active[q].file].partition = q
            /\ x.active[q].access \in 1 .. x.access
        BY <1>1, <3>2 DEF Owned
      <4>2. x.active[q].access \in 1 .. x.access + 1
        BY <1>3, <4>1
      <4> QED
        BY <1>2, <1>8, <1>9, <1>10, <3>2, <4>1, <4>2
    <3> QED
      BY <1>10, <3>1, <3>2
  <2>2. ASSUME NEW i \in DOMAIN y.files, y.files[i].state # "published"
        PROVE  /\ y.files[i].state = "open"
               /\ y.files[i].partition \in DOMAIN y.active
               /\ y.active[y.files[i].partition].file = i
    <3>1. CASE i = k
      BY <1>5, <1>7, <1>8, <1>10, <3>1
    <3>2. CASE i \in DOMAIN x.files
      <4>1. y.files[i] = x.files[i]
        BY <1>8, <3>2
      <4>2. /\ x.files[i].state = "open"
            /\ x.files[i].partition \in DOMAIN x.active
            /\ x.active[x.files[i].partition].file = i
        BY <1>1, <2>2, <3>2, <4>1 DEF Owned
      <4> QED
        BY <1>10, <4>1, <4>2
    <3> QED
      BY <1>9, <3>1, <3>2
  <2> QED
    BY <2>1, <2>2 DEF Owned
<1>14. Content(y, k) = <<>>
  <2>1. Content(y, k) = Cat(<<>>, <<>>)
    BY <1>5, <1>7, <1>8, <1>10 DEF Content
  <2> QED
    BY <1>4, <2>1, CatEmpty
<1>15. \A i \in DOMAIN x.files : Content(y, i) = Content(x, i)
  <2> SUFFICES ASSUME NEW i \in DOMAIN x.files PROVE Content(y, i) = Content(x, i)
    OBVIOUS
  <2>1. y.files[i] = x.files[i]
    BY <1>8
  <2>2. CASE x.files[i].state = "open"
    <3>1. x.files[i].partition \in DOMAIN x.active
      BY <1>1, <2>2 DEF Owned
    <3>2. y.active[x.files[i].partition] = x.active[x.files[i].partition]
      BY <1>10, <3>1
    <3> QED
      BY <2>1, <3>2 DEF Content
  <2>3. CASE x.files[i].state # "open"
    BY <2>1, <2>3 DEF Content
  <2> QED
    BY <2>2, <2>3
<1>16. PartsGood(y, n)
  <2> SUFFICES ASSUME NEW i \in DOMAIN y.files
               PROVE  /\ InOrder(Content(y, i), y.files[i].partition, n)
                      /\ WithinLimits(Content(y, i))
                      /\ y.files[i].state = "published" => Content(y, i) # <<>>
    BY DEF PartsGood
  <2>1. CASE i = k
    <3>1. DOMAIN <<>> = {}
      OBVIOUS
    <3>2. InOrder(<<>>, p, n)
      BY <3>1 DEF InOrder
    <3>3. WithinLimits(<<>>)
      BY <1>4, SizeOfEmpty, Limits DEF WithinLimits
    <3>4. y.files[k].state = "open" /\ y.files[k].partition = p
      BY <1>5, <1>8
    <3> QED
      BY <1>14, <2>1, <3>2, <3>3, <3>4
  <2>2. CASE i \in DOMAIN x.files
    <3>1. PartsGood(x, n)
      BY DEF Good
    <3> QED
      BY <1>8, <1>15, <2>2, <3>1 DEF PartsGood
  <2> QED
    BY <1>9, <2>1, <2>2
<1>17. Located(y, n)
  <2>1. Located(x, n)
    BY DEF Good
  <2>2. \A id \in 1 .. n : \E i \in DOMAIN y.files :
           \E j \in DOMAIN Content(y, i) : Content(y, i)[j].id = id
    BY <1>9, <1>15, <2>1 DEF Located
  <2>3. DOMAIN Content(y, k) = {}
    <3>1. DOMAIN <<>> = {}
      OBVIOUS
    <3> QED
      BY <1>14, <3>1
  <2>4. \A i \in DOMAIN y.files : \A j \in DOMAIN Content(y, i) : i \in DOMAIN x.files
    BY <1>9, <2>3
  <2>5. ASSUME NEW i \in DOMAIN y.files, NEW m \in DOMAIN y.files,
               NEW j \in DOMAIN Content(y, i), NEW l \in DOMAIN Content(y, m),
               Content(y, i)[j].id = Content(y, m)[l].id
        PROVE  i = m
    <3>1. i \in DOMAIN x.files /\ m \in DOMAIN x.files
      BY <2>4
    <3>2. Content(y, i) = Content(x, i) /\ Content(y, m) = Content(x, m)
      BY <1>15, <3>1
    <3> QED
      BY <2>1, <2>5, <3>1, <3>2 DEF Located
  <2> QED
    BY <2>2, <2>5 DEF Located
<1>18. EntriesCount(y)
  <2> SUFFICES ASSUME NEW q \in DOMAIN y.active
               PROVE  Counts(y.active[q], Content(y, y.active[q].file))
    BY DEF EntriesCount
  <2>1. CASE q = p
    <3>1. y.active[q] = e /\ Content(y, e.file) = <<>>
      BY <1>7, <1>10, <1>14, <2>1
    <3>2. Counts(e, <<>>)
      BY <1>4, <1>7, SizeOfEmpty DEF Counts
    <3> QED
      BY <3>1, <3>2
  <2>2. CASE q \in DOMAIN x.active
    <3>1. y.active[q] = x.active[q] /\ x.active[q].file \in DOMAIN x.files
      BY <1>1, <1>10, <2>2 DEF Owned
    <3>2. Counts(x.active[q], Content(x, x.active[q].file))
      BY <2>2 DEF Good, EntriesCount
    <3>3. Content(y, x.active[q].file) = Content(x, x.active[q].file)
      BY <1>15, <3>1
    <3> QED
      BY <3>1, <3>2, <3>3
  <2> QED
    BY <1>10, <2>1, <2>2
<1>19. KeepsPublished(x.files, y.files) /\ PublishedIn(y.files) = PublishedIn(x.files)
  <2>1. KeepsPublished(x.files, y.files)
    BY <1>8, <1>9 DEF KeepsPublished, PublishedIn
  <2>2. ASSUME NEW i PROVE i \in PublishedIn(y.files) <=> i \in PublishedIn(x.files)
    <3>1. CASE i \in DOMAIN x.files
      BY <1>8, <1>9, <3>1 DEF PublishedIn
    <3>2. CASE i \notin DOMAIN x.files
      <4>1. y.files[k].state # "published"
        BY <1>5, <1>8
      <4> QED
        BY <1>9, <3>2, <4>1 DEF PublishedIn
    <3> QED
      BY <3>1, <3>2
  <2> QED
    BY <2>1, <2>2
<1>20. Reported(y)
  <2>1. PartsSound(x.reports, x.files) /\ FilesOf(x.reports) = PublishedIn(x.files)
    BY DEF Good, Reported
  <2>2. PartsSound(x.reports, y.files)
    BY <1>19, <2>1, KeepsSound
  <2> QED
    BY <1>2, <1>19, <2>1, <2>2 DEF Reported
<1>21. Good(y, n)
  BY <1>11, <1>12, <1>13, <1>16, <1>17, <1>18, <1>20 DEF Good
<1> QED
  BY <1>10, <1>19, <1>21 DEF y, e
-----------------------------------------------------------------------------
\* The part of e has room for the row, or is the one just opened for it.
Takes(e, row) ==
    \/ e.rows = 0 /\ e.min = row.ts /\ e.max = row.ts
    \/ e.rows > 0 /\ ~Rotates(e, row)

\* append_row without the flush: the content of one part has one more row.
LEMMA BufferGood ==
    ASSUME NEW x, NEW n \in Nat, Good(x, n), NEW row \in Row, row.id = n + 1,
           NEW p \in DOMAIN x.active, p = Partition(row.ts), Takes(x.active[p], row)
    PROVE  /\ Good(BufferRow(x, p, row), n + 1)
           /\ DOMAIN BufferRow(x, p, row).active = DOMAIN x.active
           /\ BufferRow(x, p, row).active[p].rows > 0
           /\ \A q \in DOMAIN x.active : q # p =>
                 BufferRow(x, p, row).active[q] = x.active[q]
           /\ BufferRow(x, p, row).files = x.files
<1> DEFINE y == BufferRow(x, p, row)
           e == x.active[p]
           k == e.file
           d == Grown(e, row, x.access + 1)
           s == Content(x, k)
<1>1. Typed(x) /\ Owned(x)
  BY DEF Good
<1>2. /\ DOMAIN y = {"active", "access", "reports", "files"}
      /\ y.active = [x.active EXCEPT ![p] = d]
      /\ y.files = x.files
      /\ y.access = x.access + 1 /\ y.reports = x.reports
  BY <1>1, BufferFields
<1>3. /\ x.access \in Nat /\ IsFiniteSet(DOMAIN x.active)
      /\ \A q \in DOMAIN x.active : x.active[q] \in Entry
      /\ x.files \in Seq(File) /\ x.reports \in Seq(Report)
  BY <1>1 DEF Typed
<1>4. /\ e \in Entry /\ e.buffer \in Seq(Row) /\ k \in DOMAIN x.files
      /\ x.files[k].rows \in Seq(Row)
      /\ x.files[k].state = "open" /\ x.files[k].partition = p
      /\ s = Cat(x.files[k].rows, e.buffer)
  BY <1>1, EntryFile
<1>5. row.size \in Nat /\ row.ts \in Nat
  BY SizeType
<1>6. /\ e.rows \in Nat /\ e.bytes \in Nat /\ e.min \in Nat /\ e.max \in Nat /\ e.file \in Nat
  BY <1>4 DEF Entry
<1>7. /\ d.file = e.file /\ d.rows = e.rows + 1 /\ d.bytes = e.bytes + row.size
      /\ d.buffer = Append(e.buffer, row)
      /\ d.min = MinOf(e.min, row.ts) /\ d.max = MaxOf(e.max, row.ts)
      /\ d.access = x.access + 1
  BY <1>4 DEF Entry, Grown
<1>8. d \in Entry
  <2>1. Append(e.buffer, row) \in Seq(Row)
    BY <1>4, AppendRows
  <2>2. /\ e.rows + 1 \in Nat /\ e.bytes + row.size \in Nat /\ x.access + 1 \in Nat
        /\ MinOf(e.min, row.ts) \in Nat /\ MaxOf(e.max, row.ts) \in Nat
    <3>1. \A a, b \in Nat : MinOf(a, b) \in Nat /\ MaxOf(a, b) \in Nat /\ a + b \in Nat
      BY DEF MinOf, MaxOf
    <3> QED
      BY <1>3, <1>5, <1>6, <3>1
  <2> QED
    BY <1>4, <2>1, <2>2 DEF Entry, Grown
<1> HIDE DEF d, y
<1>9. /\ DOMAIN y.active = DOMAIN x.active
      /\ y.active[p] = d
      /\ \A q \in DOMAIN x.active : q # p => y.active[q] = x.active[q]
  BY <1>2
<1> HIDE DEF e, k, s
<1>10. Typed(y)
  <2>1. \A q \in DOMAIN y.active : y.active[q] \in Entry
    BY <1>3, <1>8, <1>9
  <2>2. y.access \in Nat
    BY <1>2, <1>3
  <2> QED
    BY <1>2, <1>3, <1>9, <2>1, <2>2 DEF Typed
<1>11. \A q \in DOMAIN x.active : y.active[q].file = x.active[q].file
  BY <1>7, <1>9 DEF e
<1>12. Owned(y)
  <2>1. ASSUME NEW q \in DOMAIN y.active
        PROVE  LET c == y.active[q] IN
               /\ c.file \in DOMAIN y.files
               /\ y.files[c.file].state = "open" /\ y.files[c.file].partition = q
               /\ c.access \in 1 .. y.access
    <3>1. /\ x.active[q].file \in DOMAIN x.files
          /\ x.files[x.active[q].file].state = "open"
          /\ x.files[x.active[q].file].partition = q
          /\ x.active[q].access \in 1 .. x.access
      BY <1>1, <1>9 DEF Owned
    <3>2. y.active[q].access \in 1 .. x.access + 1
      <4>1. CASE q = p
        BY <1>3, <1>7, <1>9, <4>1
      <4>2. CASE q # p
        BY <1>3, <1>9, <3>1, <4>2
      <4> QED
        BY <4>1, <4>2
    <3> QED
      BY <1>2, <1>9, <1>11, <3>1, <3>2
  <2>2. \A i \in DOMAIN y.files : y.files[i].state # "published" =>
           /\ y.files[i].state = "open"
           /\ y.files[i].partition \in DOMAIN y.active
           /\ y.active[y.files[i].partition].file = i
    BY <1>1, <1>2, <1>9, <1>11 DEF Owned
  <2> QED
    BY <2>1, <2>2 DEF Owned
<1>13. s \in Seq(Row) /\ Len(s) \in Nat /\ DOMAIN s = 1 .. Len(s)
  BY <1>1, <1>4, ContentType DEF s
<1>14. Content(y, k) = Append(s, row)
  <2>1. Content(y, k) = Cat(x.files[k].rows, Append(e.buffer, row))
    BY <1>2, <1>4, <1>7, <1>9 DEF Content
  <2>2. AppendsLast(x.files[k].rows, e.buffer, row)
    BY <1>4, AppendConcat
  <2> QED
    BY <1>4, <2>1, <2>2 DEF AppendsLast, Cat
<1>15. \A i \in DOMAIN x.files : i # k => Content(y, i) = Content(x, i)
  <2> SUFFICES ASSUME NEW i \in DOMAIN x.files, i # k PROVE Content(y, i) = Content(x, i)
    OBVIOUS
  <2>1. CASE x.files[i].state = "open"
    <3>1. /\ x.files[i].partition \in DOMAIN x.active
          /\ x.active[x.files[i].partition].file = i
      BY <1>1, <2>1 DEF Owned
    <3>2. x.files[i].partition # p
      BY <3>1 DEF k, e
    <3>3. y.active[x.files[i].partition] = x.active[x.files[i].partition]
      BY <1>9, <3>1, <3>2
    <3> QED
      BY <1>2, <3>3 DEF Content
  <2>2. CASE x.files[i].state # "open"
    BY <1>2, <2>2 DEF Content
  <2> QED
    BY <2>1, <2>2
<1>16. Counts(e, s)
  BY DEF Good, EntriesCount, e, k, s
<1>17. e.rows = Len(s) /\ e.bytes = SizeOf(s) /\ (s # <<>> => Times(e.min, e.max, s))
  BY <1>16 DEF Counts
<1>18. \/ s = <<>> /\ e.min = row.ts /\ e.max = row.ts
       \/ /\ s # <<>> /\ Len(s) + 1 <= MaxRowsPerFile
          /\ SizeOf(s) + row.size <= MaxBytesPerFile
  <2>1. CASE e.rows = 0 /\ e.min = row.ts /\ e.max = row.ts
    <3>1. s = <<>>
      BY <1>13, <1>17, <2>1, EmptySeq
    <3> QED
      BY <2>1, <3>1
  <2>2. CASE e.rows > 0 /\ ~Rotates(e, row)
    <3>1. ~(e.rows + 1 > MaxRowsPerFile) /\ ~(e.bytes + row.size > MaxBytesPerFile)
      BY <2>2 DEF Rotates
    <3>2. e.rows + 1 <= MaxRowsPerFile /\ e.bytes + row.size <= MaxBytesPerFile
      BY <1>5, <1>6, <3>1, Limits
    <3>3. s # <<>>
      <4>1. Len(<<>>) = 0
        OBVIOUS
      <4> QED
        BY <1>17, <2>2, <4>1
    <3> QED
      BY <1>17, <3>2, <3>3
  <2> QED
    BY <2>1, <2>2 DEF Takes, e
<1>19. PartsGood(x, n)
  BY DEF Good
<1>20. PartsGood(y, n + 1)
  <2> SUFFICES ASSUME NEW i \in DOMAIN x.files
               PROVE  /\ InOrder(Content(y, i), x.files[i].partition, n + 1)
                      /\ WithinLimits(Content(y, i))
                      /\ x.files[i].state = "published" => Content(y, i) # <<>>
    BY <1>2 DEF PartsGood
  <2>1. /\ InOrder(Content(x, i), x.files[i].partition, n)
        /\ WithinLimits(Content(x, i))
        /\ x.files[i].state = "published" => Content(x, i) # <<>>
    BY <1>19 DEF PartsGood
  <2>2. CASE i = k
    <3>1. InOrder(s, Partition(row.ts), n)
      BY <1>4, <2>1, <2>2 DEF s
    <3>2. InOrder(Append(s, row), Partition(row.ts), n + 1)
      BY <1>13, <3>1, InOrderAppend
    <3>3. WithinLimits(Append(s, row))
      BY <1>13, <1>18, LimitsAppend
    <3> QED
      BY <1>4, <1>14, <2>2, <3>2, <3>3
  <2>3. CASE i # k
    <3>1. Content(x, i) \in Seq(Row)
      BY <1>1, ContentType
    <3>2. n + 1 \in Nat /\ n <= n + 1
      OBVIOUS
    <3>3. InOrder(Content(x, i), x.files[i].partition, n + 1)
      BY <2>1, <3>1, <3>2, InOrderMore
    <3> QED
      BY <1>15, <2>1, <2>3, <3>3
  <2> QED
    BY <2>2, <2>3
<1>21. /\ DOMAIN Content(y, k) = 1 .. Len(s) + 1
       /\ \A j \in DOMAIN s : j \in DOMAIN Content(y, k) /\ Content(y, k)[j] = s[j]
       /\ Content(y, k)[Len(s) + 1] = row
  BY <1>13, <1>14, AppendRows
<1>22. Len(s) + 1 \in DOMAIN Content(y, k) /\ \A j \in DOMAIN Content(y, k) : j \in DOMAIN s \/ j = Len(s) + 1
  BY <1>13, <1>21
<1>23. Located(x, n)
  BY DEF Good
<1>24. ASSUME NEW id \in 1 .. n + 1
       PROVE  \E i \in DOMAIN y.files : \E j \in DOMAIN Content(y, i) : Content(y, i)[j].id = id
  <2>1. CASE id = n + 1
    BY <1>2, <1>4, <1>21, <1>22, <2>1
  <2>2. CASE id \in 1 .. n
    <3>1. PICK i \in DOMAIN x.files : \E j \in DOMAIN Content(x, i) : Content(x, i)[j].id = id
      BY <1>23, <2>2 DEF Located
    <3>2. CASE i = k
      BY <1>2, <1>21, <3>1, <3>2 DEF s
    <3>3. CASE i # k
      BY <1>2, <1>15, <3>1, <3>3
    <3> QED
      BY <3>2, <3>3
  <2> QED
    BY <2>1, <2>2
<1>25. ASSUME NEW i \in DOMAIN x.files, NEW j \in DOMAIN Content(y, i)
       PROVE  \/ /\ j \in DOMAIN Content(x, i) /\ Content(y, i)[j] = Content(x, i)[j]
                 /\ Content(x, i)[j].id <= n
              \/ i = k /\ Content(y, i)[j].id = n + 1
  <2>1. \A l \in DOMAIN Content(x, i) : Content(x, i)[l].id <= n
    BY <1>19 DEF PartsGood, InOrder
  <2>2. CASE i # k
    BY <1>15, <2>1, <2>2
  <2>3. CASE i = k
    <3>1. CASE j \in DOMAIN s
      BY <1>21, <2>1, <2>3, <3>1 DEF s
    <3>2. CASE j = Len(s) + 1
      BY <1>21, <2>3, <3>2
    <3> QED
      BY <1>22, <2>3, <3>1, <3>2
  <2> QED
    BY <2>2, <2>3
<1>26. ASSUME NEW i \in DOMAIN x.files, NEW m \in DOMAIN x.files,
              NEW j \in DOMAIN Content(y, i), NEW l \in DOMAIN Content(y, m),
              Content(y, i)[j].id = Content(y, m)[l].id
       PROVE  i = m
  <2>1. n + 1 \in Nat /\ ~(n + 1 <= n)
    OBVIOUS
  <2>2. CASE /\ j \in DOMAIN Content(x, i) /\ Content(y, i)[j] = Content(x, i)[j]
             /\ Content(x, i)[j].id <= n
    <3>1. /\ l \in DOMAIN Content(x, m) /\ Content(y, m)[l] = Content(x, m)[l]
      BY <1>25, <1>26, <2>1, <2>2
    <3> QED
      BY <1>23, <1>26, <2>2, <3>1 DEF Located
  <2>3. CASE i = k /\ Content(y, i)[j].id = n + 1
    <3>1. m = k
      BY <1>25, <1>26, <2>1, <2>3
    <3> QED
      BY <2>3, <3>1
  <2> QED
    BY <1>25, <2>2, <2>3
<1>27. Located(y, n + 1)
  BY <1>2, <1>24, <1>26 DEF Located
<1>28. EntriesCount(y)
  <2> SUFFICES ASSUME NEW q \in DOMAIN x.active
               PROVE  Counts(y.active[q], Content(y, x.active[q].file))
    BY <1>9, <1>11 DEF EntriesCount
  <2>1. CASE q = p
    <3>1. Counts(d, Append(s, row))
      <4>1. d.rows = Len(Append(s, row))
        BY <1>7, <1>13, <1>17, AppendRows
      <4>2. d.bytes = SizeOf(Append(s, row))
        BY <1>7, <1>13, <1>17, SizeOfAppend
      <4>3. Times(d.min, d.max, Append(s, row))
        <5>1. \/ s # <<>> /\ Times(e.min, e.max, s)
              \/ s = <<>> /\ e.min = row.ts /\ e.max = row.ts
          BY <1>17, <1>18
        <5>2. Times(MinOf(e.min, row.ts), MaxOf(e.max, row.ts), Append(s, row))
          BY <1>6, <1>13, <5>1, TimesAppend
        <5> QED
          BY <1>7, <5>2
      <4> QED
        BY <4>1, <4>2, <4>3 DEF Counts
    <3> QED
      BY <1>9, <1>14, <2>1, <3>1 DEF k, e
  <2>2. CASE q # p
    <3>1. x.active[q].file \in DOMAIN x.files /\ x.active[q].file # k
      BY <1>1, <2>2, EntriesApart DEF Owned, k, e
    <3>2. Counts(x.active[q], Content(x, x.active[q].file))
      BY DEF Good, EntriesCount
    <3> QED
      BY <1>9, <1>15, <2>2, <3>1, <3>2
  <2> QED
    BY <2>1, <2>2
<1>29. Reported(y)
  <2>1. Reported(x)
    BY DEF Good
  <2> QED
    BY <1>2, <2>1 DEF Reported
<1>30. Cardinality(DOMAIN y.active) <= MaxOpenPartitions
  BY <1>9 DEF Good
<1>31. Good(y, n + 1)
  BY <1>10, <1>12, <1>20, <1>27, <1>28, <1>29, <1>30 DEF Good
<1>32. y.active[p].rows > 0
  BY <1>6, <1>7, <1>9
<1> QED
  BY <1>2, <1>9, <1>31, <1>32 DEF y
-----------------------------------------------------------------------------
\* There is a least recently used entry as long as there is an entry.
LEMMA OldestIsActive ==
    ASSUME NEW x, Typed(x), DOMAIN x.active # {}
    PROVE  Oldest(x) \in DOMAIN x.active
<1> DEFINE T == {x.active[q].access : q \in DOMAIN x.active}
<1>1. T \in SUBSET Nat /\ T # {}
  BY DEF Typed, Entry
<1>2. PICK m \in T : \A k \in T : m <= k
  BY <1>1, LeastElement
<1>3. \E p \in DOMAIN x.active : \A q \in DOMAIN x.active : x.active[p].access <= x.active[q].access
  BY <1>2
<1> QED
  BY <1>3 DEF Oldest

\* The parts that are visible in fs are those of x, and at most one more,
\* complete.
VisibleStep(x, fs) ==
    /\ KeepsPublished(x.files, fs)
    /\ \/ PublishedIn(fs) = PublishedIn(x.files)
       \/ \E q \in DOMAIN x.active :
             /\ PublishedIn(fs) = PublishedIn(x.files) \cup {x.active[q].file}
             /\ fs[x.active[q].file].rows = Content(x, x.active[q].file)

LEMMA VisibleThen ==
    ASSUME NEW x, NEW fs, NEW gs, VisibleStep(x, fs), KeepsPublished(fs, gs),
           PublishedIn(gs) = PublishedIn(fs)
    PROVE  VisibleStep(x, gs)
<1>1. KeepsPublished(x.files, gs)
  BY DEF VisibleStep, KeepsPublished, PublishedIn
<1>2. CASE PublishedIn(fs) = PublishedIn(x.files)
  BY <1>1, <1>2 DEF VisibleStep
<1>3. ASSUME NEW q \in DOMAIN x.active,
             PublishedIn(fs) = PublishedIn(x.files) \cup {x.active[q].file},
             fs[x.active[q].file].rows = Content(x, x.active[q].file)
      PROVE  VisibleStep(x, gs)
  <2>1. gs[x.active[q].file] = fs[x.active[q].file]
    BY <1>3 DEF KeepsPublished
  <2> QED
    BY <1>1, <1>3, <2>1 DEF VisibleStep
<1> QED
  BY <1>2, <1>3 DEF VisibleStep

\* The part for the row is ready: one part may have been completed for it, and
\* one opened.
Readied(x, row, n) ==
    /\ Good(Completed(x, row), n) /\ Good(Ensured(x, row), n)
    /\ VisibleStep(x, Completed(x, row).files)
    /\ VisibleStep(x, Ensured(x, row).files)
    /\ Partition(row.ts) \in DOMAIN Ensured(x, row).active
    /\ Takes(Ensured(x, row).active[Partition(row.ts)], row)
    /\ \A q \in DOMAIN Ensured(x, row).active :
          q # Partition(row.ts) => Ensured(x, row).active[q].rows > 0

\* Opening a part in c, for a partition without one.
LEMMA OpenReadies ==
    ASSUME NEW x, NEW n, NEW row \in Row, NEW c, c = Completed(x, row),
           Good(c, n), Filled(c), VisibleStep(x, c.files), Opens(x, row),
           Partition(row.ts) \notin DOMAIN c.active,
           Cardinality(DOMAIN c.active) < MaxOpenPartitions
    PROVE  Readied(x, row, n)
<1> DEFINE p == Partition(row.ts)
           e == OpenEntry(c, p, row.ts)
<1>1. row.ts \in Nat /\ p \in Nat
  BY SizeType, PartitionType
<1>2. Ensured(x, row) = e
  BY DEF Ensured
<1>3. /\ Good(e, n) /\ DOMAIN e.active = DOMAIN c.active \cup {p}
      /\ e.active[p] = NewEntry(c, row.ts)
      /\ \A q \in DOMAIN c.active : e.active[q] = c.active[q]
      /\ PublishedIn(e.files) = PublishedIn(c.files)
      /\ KeepsPublished(c.files, e.files)
  BY <1>1, OpenGood
<1>4. VisibleStep(x, e.files)
  BY <1>3, VisibleThen
<1>5. Takes(e.active[p], row)
  BY <1>3 DEF Takes, NewEntry
<1>6. \A q \in DOMAIN e.active : q # p => e.active[q].rows > 0
  BY <1>3 DEF Filled
<1> HIDE DEF e
<1> QED
  BY <1>2, <1>3, <1>4, <1>5, <1>6 DEF Readied

\* The case of an entry that has to be completed first.
LEMMA CompleteReadies ==
    ASSUME NEW x, NEW n, Good(x, n), Filled(x), NEW row \in Row,
           NEW o \in DOMAIN x.active, Completes(x, row) = {o}, Opens(x, row),
           Partition(row.ts) \notin DOMAIN x.active \ {o}
    PROVE  Readied(x, row, n)
<1> DEFINE c == Completed(x, row)
<1>1. c = PublishEntry(x, o)
  BY DEF Completed
<1>2. Good(c, n) /\ PublishEffect(x, c, o)
  BY <1>1, PublishGood DEF Filled
<1> HIDE DEF c
<1>3. DOMAIN c.active = DOMAIN x.active \ {o} /\ Filled(c)
  BY <1>2 DEF PublishEffect, Filled
<1>4. VisibleStep(x, c.files)
  BY <1>2 DEF PublishEffect, VisibleStep
<1>5. Cardinality(DOMAIN c.active) < MaxOpenPartitions
  <2>1. IsFiniteSet(DOMAIN x.active) /\ Cardinality(DOMAIN x.active) <= MaxOpenPartitions
    BY DEF Good, Typed
  <2>2. Cardinality(DOMAIN c.active) = Cardinality(DOMAIN x.active) - 1
    BY <1>3, <2>1, FS_RemoveElement
  <2>3. Cardinality(DOMAIN x.active) \in Nat
    BY <2>1, FS_CardinalityType
  <2> QED
    BY <2>1, <2>2, <2>3, Limits
<1> QED
  BY <1>2, <1>3, <1>4, <1>5, OpenReadies DEF c

\* ensure_entry.
LEMMA EnsureReadies ==
    ASSUME NEW x, NEW n, Good(x, n), Filled(x), NEW row \in Row
    PROVE  Readied(x, row, n)
<1> DEFINE p == Partition(row.ts)
<1>0. VisibleStep(x, x.files)
  BY DEF VisibleStep, KeepsPublished, PublishedIn
<1>1. CASE p \in DOMAIN x.active /\ ~Rotates(x.active[p], row)
  <2>1. Completed(x, row) = x /\ Ensured(x, row) = x
    BY <1>1 DEF Completed, Completes, Ensured, Opens
  <2>2. Takes(x.active[p], row)
    BY <1>1 DEF Filled, Takes
  <2> QED
    BY <1>0, <1>1, <2>1, <2>2 DEF Readied, Filled
<1>2. CASE p \in DOMAIN x.active /\ Rotates(x.active[p], row)
  <2>1. Completes(x, row) = {p} /\ Opens(x, row)
    BY <1>2 DEF Completes, Opens
  <2> QED
    BY <1>2, <2>1, CompleteReadies
<1>3. CASE p \notin DOMAIN x.active /\ HasRoom(x)
  <2>1. Completed(x, row) = x /\ Opens(x, row)
    BY <1>3 DEF Completed, Completes, Opens
  <2>2. Cardinality(DOMAIN x.active) < MaxOpenPartitions
    BY <1>3 DEF HasRoom
  <2> QED
    BY <1>0, <1>3, <2>1, <2>2, OpenReadies
<1>4. CASE p \notin DOMAIN x.active /\ ~HasRoom(x)
  <2>1. Completes(x, row) = {Oldest(x)} /\ Opens(x, row)
    BY <1>4 DEF Completes, Opens
  <2>2. DOMAIN x.active # {}
    <3>1. ~(Cardinality(DOMAIN x.active) < MaxOpenPartitions)
      BY <1>4 DEF HasRoom
    <3> QED
      BY <3>1, FS_EmptySet, Limits
  <2>3. Oldest(x) \in DOMAIN x.active
    BY <2>2, OldestIsActive DEF Good
  <2> QED
    BY <1>4, <2>1, <2>3, CompleteReadies
<1> QED
  BY <1>1, <1>2, <1>3, <1>4

\* route_row: the row is in the content of one part of its partition.
LEMMA RouteGood ==
    ASSUME NEW x, NEW n \in Nat, Good(x, n), Filled(x), NEW row \in Row, row.id = n + 1
    PROVE  /\ Good(Routed(x, row), n + 1) /\ Filled(Routed(x, row))
           /\ VisibleStep(x, Routed(x, row).files)
<1> DEFINE p == Partition(row.ts)
           e == Ensured(x, row)
           b == Buffered(x, row)
<1>1. /\ Good(e, n) /\ VisibleStep(x, e.files)
      /\ p \in DOMAIN e.active /\ Takes(e.active[p], row)
      /\ \A q \in DOMAIN e.active : q # p => e.active[q].rows > 0
  BY EnsureReadies DEF Readied
<1>2. b = BufferRow(e, p, row)
  BY DEF Buffered
<1> HIDE DEF e, b
<1>3. /\ Good(b, n + 1) /\ DOMAIN b.active = DOMAIN e.active
      /\ b.active[p].rows > 0
      /\ \A q \in DOMAIN e.active : q # p => b.active[q] = e.active[q]
      /\ b.files = e.files
  BY <1>1, <1>2, BufferGood
<1>4. Filled(b) /\ VisibleStep(x, b.files)
  BY <1>1, <1>3 DEF Filled
<1>5. CASE ~BufferFull(b, p)
  <2>1. Routed(x, row) = b
    BY <1>5 DEF Routed, b
  <2> QED
    BY <1>3, <1>4, <2>1
<1>6. CASE BufferFull(b, p)
  <2> DEFINE y == FlushEntry(b, p)
  <2>1. Routed(x, row) = y
    BY <1>6 DEF Routed, b
  <2>2. p \in DOMAIN b.active
    BY <1>1, <1>3
  <2>3. /\ Good(y, n + 1) /\ FlushEffect(b, y, p)
        /\ PublishedIn(y.files) = PublishedIn(b.files)
        /\ KeepsPublished(b.files, y.files)
    BY <1>3, <2>2, FlushGood
  <2> HIDE DEF y
  <2>4. VisibleStep(x, y.files)
    BY <1>4, <2>3, VisibleThen
  <2>5. Filled(y)
    BY <1>4, <2>3 DEF Filled, FlushEffect, SameEntry
  <2> QED
    BY <2>1, <2>3, <2>4, <2>5
<1> QED
  BY <1>5, <1>6
-----------------------------------------------------------------------------
\* What the store keeps of a good state.
LEMMA GoodFiles ==
    ASSUME NEW x, NEW n \in Nat, n <= MaxRows, Good(x, n)
    PROVE  FilesGood(x.files) /\ Closing(x.files) = {} /\ Doubtful(x.files, n)
<1>1. Typed(x) /\ Owned(x) /\ PartsGood(x, n)
  BY DEF Good
<1>2. x.files \in Seq(File)
  BY <1>1 DEF Typed
<1>3. ASSUME NEW i \in DOMAIN x.files PROVE FileGood(x.files[i])
  <2> DEFINE f == x.files[i]
  <2>1. f.rows \in Seq(Row)
    BY <1>1, ContentType
  <2>2. /\ InOrder(Content(x, i), f.partition, n) /\ WithinLimits(Content(x, i))
        /\ f.state = "published" => Content(x, i) # <<>>
    BY <1>1 DEF PartsGood
  <2>3. InOrder(f.rows, f.partition, n) /\ WithinLimits(f.rows)
    <3>1. CASE f.state = "open"
      <4> DEFINE b == x.active[f.partition].buffer
      <4>1. f.partition \in DOMAIN x.active
        BY <1>1, <3>1 DEF Owned
      <4>2. b \in Seq(Row)
        BY <1>1, <4>1, EntryFile
      <4>3. Content(x, i) = Cat(f.rows, b)
        BY <3>1 DEF Content
      <4> QED
        BY <2>1, <2>2, <4>2, <4>3, PrefixGood
    <3>2. CASE f.state # "open"
      BY <2>2, <3>2 DEF Content
    <3> QED
      BY <3>1, <3>2
  <2>4. f.state = "published" => f.rows # <<>>
    BY <2>2 DEF Content
  <2>5. InOrder(f.rows, f.partition, MaxRows)
    BY <2>1, <2>3, BoundsAssumption, InOrderMore
  <2> QED
    BY <2>3, <2>4, <2>5 DEF FileGood
<1>4. Cardinality(OpenIn(x.files)) <= MaxOpenPartitions
  <2> DEFINE S == OpenIn(x.files)
             g == [i \in S |-> x.files[i].partition]
  <2>1. \A i \in S : /\ x.files[i].partition \in DOMAIN x.active
                     /\ x.active[x.files[i].partition].file = i
    BY <1>1 DEF Owned, OpenIn
  <2> HIDE DEF S
  <2>2. g \in [S -> DOMAIN x.active] /\ \A i, k \in S : g[i] = g[k] => i = k
    BY <2>1
  <2>3. g \in Injection(S, DOMAIN x.active)
    <3> HIDE DEF g
    <3> QED
      BY <2>2 DEF Injection, IsInjective
  <2>4. IsFiniteSet(DOMAIN x.active) /\ Cardinality(DOMAIN x.active) <= MaxOpenPartitions
    BY DEF Good, Typed
  <2>5. IsFiniteSet(S) /\ Cardinality(S) <= Cardinality(DOMAIN x.active)
    BY <2>3, <2>4, FS_Injection
  <2>6. Cardinality(S) \in Nat /\ Cardinality(DOMAIN x.active) \in Nat
    BY <2>4, <2>5, FS_CardinalityType
  <2> QED
    BY <2>4, <2>5, <2>6, Limits DEF S
<1>5. Closing(x.files) = {}
  BY <1>1 DEF Owned, Closing
<1> QED
  BY <1>2, <1>3, <1>4, <1>5 DEF FilesGood, Doubtful

\* Fewer parts are open.
LEMMA FewerOpen ==
    ASSUME NEW fs \in Seq(File), NEW gs, Cardinality(OpenIn(fs)) <= MaxOpenPartitions,
           OpenIn(gs) \in SUBSET OpenIn(fs)
    PROVE  Cardinality(OpenIn(gs)) <= MaxOpenPartitions
<1>1. DOMAIN fs = 1 .. Len(fs) /\ Len(fs) \in Nat
  BY LenProperties
<1>2. IsFiniteSet(DOMAIN fs)
  BY <1>1, FS_Interval
<1>3. OpenIn(fs) \in SUBSET DOMAIN fs
  BY DEF OpenIn
<1>4. IsFiniteSet(OpenIn(fs))
  BY <1>2, <1>3, FS_Subset
<1>5. IsFiniteSet(OpenIn(gs)) /\ Cardinality(OpenIn(gs)) <= Cardinality(OpenIn(fs))
  BY <1>4, FS_Subset
<1>6. Cardinality(OpenIn(gs)) \in Nat /\ Cardinality(OpenIn(fs)) \in Nat
  BY <1>4, <1>5, FS_CardinalityType
<1> QED
  BY <1>5, <1>6, Limits

LEMMA VisibleSame ==
    ASSUME NEW fs, NEW gs, KeepsPublished(fs, gs), PublishedIn(gs) = PublishedIn(fs)
    PROVE  VisibleIn(gs) = VisibleIn(fs)
<1>1. \A i \in PublishedIn(fs) : gs[i] = fs[i]
  BY DEF KeepsPublished
<1> QED
  BY <1>1 DEF VisibleIn

\* A part that becomes visible holds rows that were not visible, and some.
LEMMA PartIsNew ==
    ASSUME NEW x, NEW n \in Nat, Good(x, n), Filled(x), NEW q \in DOMAIN x.active
    PROVE  NewPart(Ids(Content(x, x.active[q].file)), VisibleIn(x.files), n)
<1> DEFINE k == x.active[q].file
           s == Content(x, k)
<1>1. Typed(x) /\ Owned(x) /\ PartsGood(x, n) /\ EntriesCount(x) /\ Located(x, n)
  BY DEF Good
<1>2. k \in DOMAIN x.files /\ x.files[k].state = "open"
  BY <1>1, EntryFile
<1>3. s \in Seq(Row) /\ Len(s) \in Nat /\ DOMAIN s = 1 .. Len(s)
  BY <1>1, <1>2, ContentType
<1>4. Len(s) > 0
  BY <1>1 DEF EntriesCount, Counts, Filled
<1>5. InOrder(s, x.files[k].partition, n)
  BY <1>1, <1>2 DEF PartsGood
<1>6. \A j \in DOMAIN s : s[j].id \in 1 .. n
  <2> TAKE j \in DOMAIN s
  <2> HIDE DEF s
  <2>1. s[j] \in Row
    BY <1>3, ElementOfSeq
  <2>2. s[j].id \in Nat /\ s[j].id >= 1 /\ s[j].id <= n
    BY <1>5, <2>1 DEF Row, InOrder
  <2> QED
    BY <2>2
<1>7. ASSUME NEW id \in Ids(s), id \in UNION VisibleIn(x.files) PROVE FALSE
  <2>1. PICK j \in DOMAIN s : s[j].id = id
    BY DEF Ids
  <2>2. PICK i \in PublishedIn(x.files) : id \in Ids(x.files[i].rows)
    BY <1>7 DEF VisibleIn
  <2>3. i \in DOMAIN x.files /\ x.files[i].state = "published"
    BY <2>2 DEF PublishedIn
  <2>4. Content(x, i) = x.files[i].rows
    BY <2>3 DEF Content
  <2>5. PICK l \in DOMAIN Content(x, i) : Content(x, i)[l].id = id
    BY <2>2, <2>4 DEF Ids
  <2>6. i = k
    BY <1>1, <1>2, <2>1, <2>3, <2>5 DEF Located
  <2> QED
    BY <1>2, <2>3, <2>6
<1> HIDE DEF s
<1>8. 1 \in DOMAIN s
  BY <1>3, <1>4
<1>9. Ids(s) # {} /\ Ids(s) \subseteq 1 .. n
  BY <1>6, <1>8 DEF Ids
<1>10. NewPart(Ids(s), VisibleIn(x.files), n)
  <2> DEFINE I == Ids(s)
             U == UNION VisibleIn(x.files)
  <2>1. \A id \in I : id \notin U
    BY <1>7
  <2>2. I # {} /\ I \subseteq 1 .. n
    BY <1>9
  <2> HIDE DEF I, U
  <2>3. I \in (SUBSET ((1 .. n) \ U)) \ {{}}
    BY <2>1, <2>2
  <2> QED
    BY <2>3 DEF I, U, NewPart
<1> QED
  BY <1>10 DEF s


\* Some open parts are discarded.
Discards(fs, gs) ==
    /\ gs \in Seq(File) /\ DOMAIN gs = DOMAIN fs
    /\ \A i \in DOMAIN fs :
          /\ gs[i].rows = fs[i].rows /\ gs[i].partition = fs[i].partition
          /\ gs[i] = fs[i] \/ (fs[i].state = "open" /\ gs[i].state = "discarded")

LEMMA DiscardsGood ==
    ASSUME NEW fs, NEW gs, FilesGood(fs), Discards(fs, gs)
    PROVE  /\ FilesGood(gs)
           /\ PublishedIn(gs) = PublishedIn(fs) /\ KeepsPublished(fs, gs)
           /\ Closing(gs) = Closing(fs) /\ \A n : Doubtful(fs, n) => Doubtful(gs, n)
<1>1. PublishedIn(gs) = PublishedIn(fs) /\ Closing(gs) = Closing(fs)
  BY DEF Discards, PublishedIn, Closing
<1>2. KeepsPublished(fs, gs)
  BY DEF Discards, PublishedIn, KeepsPublished
<1>3. \A i \in DOMAIN gs : FileGood(gs[i])
  BY DEF Discards, FilesGood, FileGood
<1>4. Cardinality(OpenIn(gs)) <= MaxOpenPartitions
  <2>1. fs \in Seq(File) /\ Cardinality(OpenIn(fs)) <= MaxOpenPartitions
    BY DEF FilesGood
  <2>2. OpenIn(gs) \in SUBSET OpenIn(fs)
    BY DEF Discards, OpenIn
  <2> QED
    BY <2>1, <2>2, FewerOpen
<1>5. \A n : Doubtful(fs, n) => Doubtful(gs, n)
  <2>1. VisibleIn(gs) = VisibleIn(fs)
    BY <1>1, <1>2, VisibleSame
  <2>2. \A i \in Closing(fs) : gs[i].rows = fs[i].rows
    BY DEF Discards, Closing
  <2> QED
    BY <1>1, <2>1, <2>2 DEF Doubtful
<1> QED
  BY <1>1, <1>2, <1>3, <1>4, <1>5 DEF FilesGood, Discards

\* A part of the store.
LEMMA FileFields ==
    ASSUME NEW fs \in Seq(File), NEW i \in DOMAIN fs
    PROVE  /\ fs[i] \in File
           /\ [fs[i] EXCEPT !.state = "discarded"] \in File
           /\ [fs[i] EXCEPT !.state = "discarded"].rows = fs[i].rows
           /\ [fs[i] EXCEPT !.state = "discarded"].partition = fs[i].partition
           /\ [fs[i] EXCEPT !.state = "discarded"].state = "discarded"
<1>1. fs[i] \in File
  BY LenProperties, ElementOfSeq
<1> QED
  BY <1>1 DEF File, FileStates

\* cancel_all discards parts that are open.
LEMMA CancelDiscards ==
    ASSUME NEW fs \in Seq(File), NEW active
    PROVE  Discards(fs, CancelAll(fs, active))
<1> DEFINE gs == CancelAll(fs, active)
<1>1. /\ DOMAIN gs = DOMAIN fs
      /\ \A i \in DOMAIN fs :
            \/ gs[i] = fs[i]
            \/ fs[i].state = "open" /\ gs[i] = [fs[i] EXCEPT !.state = "discarded"]
  BY DEF CancelAll
<1>2. DOMAIN fs = 1 .. Len(fs) /\ Len(fs) \in Nat
  BY LenProperties
<1>3. gs = [i \in 1 .. Len(fs) |-> gs[i]]
  BY <1>2 DEF CancelAll
<1> HIDE DEF gs
<1>4. \A i \in DOMAIN fs : gs[i] \in File
  BY <1>1, FileFields
<1>5. gs \in [1 .. Len(fs) -> File]
  BY <1>2, <1>3, <1>4
<1>6. gs \in Seq(File)
  BY <1>2, <1>5
<1>7. \A i \in DOMAIN fs :
         /\ gs[i].rows = fs[i].rows /\ gs[i].partition = fs[i].partition
         /\ gs[i] = fs[i] \/ (fs[i].state = "open" /\ gs[i].state = "discarded")
  <2> TAKE i \in DOMAIN fs
  <2>1. CASE gs[i] = fs[i]
    BY <2>1
  <2>2. CASE /\ fs[i].state = "open"
             /\ gs[i] = [fs[i] EXCEPT !.state = "discarded"]
    <3> DEFINE f == [fs[i] EXCEPT !.state = "discarded"]
    <3>1. f.rows = fs[i].rows /\ f.partition = fs[i].partition /\ f.state = "discarded"
      BY FileFields
    <3> HIDE DEF f
    <3>2. gs[i] = f
      BY <2>2 DEF f
    <3> QED
      BY <2>2, <3>1, <3>2
  <2> QED
    BY <1>1, <2>1, <2>2
<1> QED
  BY <1>1, <1>6, <1>7 DEF Discards, gs

\* One part gets another state.
Becomes(fs, gs, k, state) ==
    /\ gs \in Seq(File) /\ DOMAIN gs = DOMAIN fs
    /\ gs[k].rows = fs[k].rows /\ gs[k].partition = fs[k].partition
    /\ gs[k].state = state
    /\ \A i \in DOMAIN fs : i # k => gs[i] = fs[i]

LEMMA OneBecomes ==
    ASSUME NEW fs \in Seq(File), NEW k \in DOMAIN fs, NEW state \in FileStates
    PROVE  Becomes(fs, [fs EXCEPT ![k].state = state], k, state)
<1> DEFINE f == [fs[k] EXCEPT !.state = state]
           gs == [fs EXCEPT ![k] = f]
<1>1. [fs EXCEPT ![k].state = state] = gs
  OBVIOUS
<1>2. /\ f \in File /\ f.rows = fs[k].rows /\ f.partition = fs[k].partition
      /\ f.state = state
  <2>1. fs[k] \in File
    BY FileFields
  <2> QED
    BY <2>1 DEF File
<1> HIDE DEF f
<1>3. gs \in Seq(File) /\ DOMAIN gs = DOMAIN fs
  BY <1>2, LenProperties, ExceptSeq
<1>4. \A i \in DOMAIN fs : gs[i] = IF i = k THEN f ELSE fs[i]
  OBVIOUS
<1> HIDE DEF gs
<1>5. Becomes(fs, gs, k, state)
  BY <1>2, <1>3, <1>4 DEF Becomes
<1> QED
  BY <1>1, <1>5

\* The native owner monitor discards one open part.
LEMMA OneDiscards ==
    ASSUME NEW fs \in Seq(File), NEW k \in DOMAIN fs, fs[k].state = "open"
    PROVE  Discards(fs, [fs EXCEPT ![k].state = "discarded"])
<1> DEFINE gs == [fs EXCEPT ![k].state = "discarded"]
<1>1. Becomes(fs, gs, k, "discarded")
  BY OneBecomes DEF FileStates
<1> HIDE DEF gs
<1>2. Discards(fs, gs)
  BY <1>1 DEF Becomes, Discards
<1> QED
  BY <1>2 DEF gs

\* The close of an open part is begun: the part is in doubt.
LEMMA OneCloses ==
    ASSUME NEW fs, NEW gs, NEW n, NEW k \in DOMAIN fs, FilesGood(fs), Closing(fs) = {},
           fs[k].state = "open", Becomes(fs, gs, k, "closing"),
           NewPart(Ids(fs[k].rows), VisibleIn(fs), n)
    PROVE  /\ FilesGood(gs) /\ Doubtful(gs, n)
           /\ PublishedIn(gs) = PublishedIn(fs) /\ KeepsPublished(fs, gs)
<1>1. PublishedIn(gs) = PublishedIn(fs) /\ KeepsPublished(fs, gs)
  BY DEF Becomes, PublishedIn, KeepsPublished
<1>2. Closing(gs) = {k}
  BY DEF Becomes, Closing
<1>3. VisibleIn(gs) = VisibleIn(fs)
  BY <1>1, VisibleSame
<1>4. Doubtful(gs, n)
  BY <1>2, <1>3 DEF Doubtful, Becomes
<1>5. \A i \in DOMAIN gs : FileGood(gs[i])
  BY DEF Becomes, FilesGood, FileGood
<1>6. OpenIn(gs) = OpenIn(fs)
  BY DEF Becomes, OpenIn
<1> QED
  BY <1>1, <1>4, <1>5, <1>6 DEF FilesGood, Becomes

\* The close in doubt has ended.
LEMMA OneEnds ==
    ASSUME NEW fs, NEW gs, NEW n \in Nat, NEW k \in Closing(fs), FilesGood(fs),
           Doubtful(fs, n), NEW state \in {"published", "discarded"},
           Becomes(fs, gs, k, state)
    PROVE  /\ FilesGood(gs) /\ Closing(gs) = {} /\ KeepsPublished(fs, gs)
           /\ PublishedIn(gs) =
                 IF state = "published" THEN PublishedIn(fs) \cup {k} ELSE PublishedIn(fs)
<1>1. /\ Closing(fs) = {k} /\ NewPart(Ids(fs[k].rows), VisibleIn(fs), n)
      /\ k \in DOMAIN fs /\ fs[k].state = "closing"
  BY DEF Doubtful, Closing
<1>2. Closing(gs) = {}
  BY <1>1 DEF Becomes, Closing
<1>3. KeepsPublished(fs, gs)
  BY <1>1 DEF Becomes, PublishedIn, KeepsPublished
<1>4. PublishedIn(gs) = IF state = "published" THEN PublishedIn(fs) \cup {k} ELSE PublishedIn(fs)
  BY <1>1 DEF Becomes, PublishedIn
<1>5. fs[k].rows # <<>>
  <2>1. Ids(fs[k].rows) # {}
    BY <1>1 DEF NewPart
  <2>2. DOMAIN <<>> = {}
    OBVIOUS
  <2> QED
    BY <2>1, <2>2 DEF Ids
<1>6. \A i \in DOMAIN gs : FileGood(gs[i])
  BY <1>1, <1>5 DEF Becomes, FilesGood, FileGood
<1>7. OpenIn(gs) \in SUBSET OpenIn(fs)
  BY <1>1 DEF Becomes, OpenIn
<1>8. Cardinality(OpenIn(gs)) <= MaxOpenPartitions
  BY <1>7, FewerOpen DEF FilesGood
<1> QED
  BY <1>2, <1>3, <1>4, <1>6, <1>8 DEF FilesGood, Becomes

\* More rows are given.
LEMMA DoubtfulMore ==
    ASSUME NEW fs, NEW n \in Nat, NEW m \in Nat, n <= m, Doubtful(fs, n)
    PROVE  Doubtful(fs, m)
<1>1. \A part, visible : NewPart(part, visible, n) => NewPart(part, visible, m)
  BY DEF NewPart
<1> QED
  BY <1>1 DEF Doubtful
-----------------------------------------------------------------------------
\* Good and Filled are about the fields of the state.
LEMMA GoodSame ==
    ASSUME NEW x, NEW y, NEW n, Good(x, n), Filled(x), DOMAIN y = DOMAIN x,
           y.active = x.active, y.access = x.access, y.reports = x.reports,
           y.files = x.files
    PROVE  Good(y, n) /\ Filled(y)
<1>1. \A i : Content(y, i) = Content(x, i)
  BY DEF Content
<1>2. Typed(y)
  BY DEF Good, Typed
<1>3. Owned(y)
  BY DEF Good, Owned
<1>4. PartsGood(y, n)
  BY <1>1 DEF Good, PartsGood
<1>5. EntriesCount(y)
  BY <1>1 DEF Good, EntriesCount
<1>6. Located(y, n)
  <2>1. Located(x, n)
    BY DEF Good
  <2>2. \A id \in 1 .. n : \E i \in DOMAIN y.files :
           \E j \in DOMAIN Content(y, i) : Content(y, i)[j].id = id
    BY <1>1, <2>1 DEF Located
  <2>3. \A i, k \in DOMAIN y.files :
           \A j \in DOMAIN Content(y, i), l \in DOMAIN Content(y, k) :
              Content(y, i)[j].id = Content(y, k)[l].id => i = k
    BY <1>1, <2>1 DEF Located
  <2> QED
    BY <2>2, <2>3 DEF Located
<1>7. Reported(y)
  BY DEF Good, Reported
<1> QED
  BY <1>2, <1>3, <1>4, <1>5, <1>6, <1>7 DEF Good, Filled

\* An answer without parts says nothing that could be wrong.
LEMMA NothingReported == \A fs : PartsSound(<<>>, fs) /\ FilesOf(<<>>) = {}
  BY DEF PartsSound, FilesOf

\* What a failing route_row leaves in the store.
LEMMA CompletesActive ==
    ASSUME NEW x, NEW n, Good(x, n), NEW row \in Row
    PROVE  Completes(x, row) \subseteq DOMAIN x.active
<1>1. CASE Partition(row.ts) \in DOMAIN x.active
  BY <1>1 DEF Completes
<1>2. CASE Partition(row.ts) \notin DOMAIN x.active /\ HasRoom(x)
  BY <1>2 DEF Completes
<1>3. CASE Partition(row.ts) \notin DOMAIN x.active /\ ~HasRoom(x)
  <2>1. ~(Cardinality(DOMAIN x.active) < MaxOpenPartitions)
    BY <1>3 DEF HasRoom
  <2>2. DOMAIN x.active # {}
    BY <2>1, FS_EmptySet, Limits
  <2>3. Oldest(x) \in DOMAIN x.active
    BY <2>2, OldestIsActive DEF Good
  <2> QED
    BY <1>3, <2>3 DEF Completes
<1> QED
  BY <1>1, <1>2, <1>3

\* What a step that does not come to its end leaves in the store: at most one
\* part has become visible, or else at most one is closing.
Left(x, fs, n) ==
    /\ FilesGood(fs) /\ VisibleStep(x, fs) /\ Doubtful(fs, n)
    /\ Closing(fs) = {} \/ PublishedIn(fs) = PublishedIn(x.files)

LEMMA GoodLeft ==
    ASSUME NEW x, NEW n \in Nat, n <= MaxRows, NEW y, Good(y, n), VisibleStep(x, y.files)
    PROVE  Left(x, y.files, n)
  BY GoodFiles DEF Left

LEMMA CloseBegunLeft ==
    ASSUME NEW x, NEW n \in Nat, n <= MaxRows, Good(x, n), Filled(x), NEW p \in DOMAIN x.active
    PROVE  /\ Left(x, CloseBegun(x, p), n)
           /\ PublishedIn(CloseBegun(x, p)) = PublishedIn(x.files)
<1> DEFINE k == x.active[p].file
           y == FlushEntry(x, p)
           gs == CloseBegun(x, p)
<1>1. gs = [y.files EXCEPT ![k].state = "closing"]
  BY DEF CloseBegun
<1>2. /\ Good(y, n) /\ FlushEffect(x, y, p) /\ Conserves(x, y)
      /\ PublishedIn(y.files) = PublishedIn(x.files) /\ KeepsPublished(x.files, y.files)
  BY FlushGood
<1>3. Typed(x) /\ Owned(x)
  BY DEF Good
<1>4. k \in DOMAIN x.files /\ Content(x, k) = Cat(x.files[k].rows, x.active[p].buffer)
  BY <1>3, EntryFile
<1> HIDE DEF y, gs
<1>5. /\ k \in DOMAIN y.files /\ y.files[k].state = "open"
      /\ y.files[k].rows = Content(x, k)
  BY <1>2, <1>4 DEF FlushEffect
<1>6. FilesGood(y.files) /\ Closing(y.files) = {} /\ y.files \in Seq(File)
  BY <1>2, GoodFiles DEF FilesGood
<1>7. Becomes(y.files, gs, k, "closing")
  BY <1>1, <1>5, <1>6, OneBecomes DEF FileStates
<1>8. NewPart(Ids(y.files[k].rows), VisibleIn(y.files), n)
  <2>1. NewPart(Ids(Content(x, k)), VisibleIn(x.files), n)
    BY PartIsNew
  <2>2. VisibleIn(y.files) = VisibleIn(x.files)
    BY <1>2, VisibleSame
  <2> QED
    BY <1>5, <2>1, <2>2
<1>9. /\ FilesGood(gs) /\ Doubtful(gs, n)
      /\ PublishedIn(gs) = PublishedIn(y.files) /\ KeepsPublished(y.files, gs)
  BY <1>5, <1>6, <1>7, <1>8, OneCloses
<1>10. VisibleStep(x, y.files)
  BY <1>2 DEF VisibleStep
<1>11. VisibleStep(x, gs)
  BY <1>9, <1>10, VisibleThen
<1> QED
  BY <1>2, <1>9, <1>11 DEF Left, gs

LEMMA RouteFailuresLeft ==
    ASSUME NEW x, NEW n \in Nat, n <= MaxRows, Good(x, n), Filled(x), NEW row \in Row,
           NEW fs \in RouteFailures(x, row)
    PROVE  Left(x, fs, n)
<1>1. \/ fs = x.files
      \/ \E q \in Completes(x, row) : fs = CloseBegun(x, q)
      \/ fs = Completed(x, row).files
      \/ fs = Ensured(x, row).files
  BY DEF RouteFailures
<1>2. CASE fs = x.files
  <2>1. VisibleStep(x, x.files)
    BY DEF VisibleStep, KeepsPublished, PublishedIn
  <2> QED
    BY <1>2, <2>1, GoodLeft
<1>3. ASSUME NEW q \in Completes(x, row), fs = CloseBegun(x, q)
      PROVE  Left(x, fs, n)
  <2>1. q \in DOMAIN x.active
    BY CompletesActive
  <2> QED
    BY <1>3, <2>1, CloseBegunLeft
<1>4. Readied(x, row, n)
  BY EnsureReadies
<1>5. CASE fs = Completed(x, row).files
  BY <1>4, <1>5, GoodLeft DEF Readied
<1>6. CASE fs = Ensured(x, row).files
  BY <1>4, <1>6, GoodLeft DEF Readied
<1> QED
  BY <1>1, <1>2, <1>3, <1>5, <1>6
-----------------------------------------------------------------------------
LEMMA InitInv == Init => IInv
<1> SUFFICES ASSUME Init PROVE IInv
  OBVIOUS
<1>1. /\ DOMAIN Now = {"active", "access", "reports", "files"}
      /\ Now.active = <<>> /\ Now.access = 0 /\ Now.reports = <<>> /\ Now.files = <<>>
      /\ files = <<>> /\ pending = <<>> /\ given = 0 /\ acked = {}
      /\ call = "none" /\ status = "running" /\ reply = NoReply /\ doubt = {}
  BY NowFields DEF Init, Idle
<1>2. DOMAIN Now.active = {} /\ DOMAIN Now.files = {} /\ Done = 0
  <2>1. Len(<<>>) = 0 /\ DOMAIN <<>> = {}
    OBVIOUS
  <2>2. Len(pending) = 0
    BY <1>1, <2>1
  <2>3. DOMAIN Now.active = {} /\ DOMAIN Now.files = {}
    BY ONLY <1>1, <2>1
  <2>4. given = 0
    BY <1>1
  <2>5. Done = 0
    BY ONLY <2>2, <2>4 DEF Done
  <2> QED
    BY ONLY <2>3, <2>5
<1>3. IsFiniteSet({}) /\ Cardinality({}) = 0
  BY FS_EmptySet
<1>4. Typed(Now) /\ Owned(Now)
  BY <1>1, <1>2, <1>3 DEF Typed, Owned
<1>5. PartsGood(Now, 0) /\ EntriesCount(Now) /\ Located(Now, 0)
  BY <1>2 DEF PartsGood, EntriesCount, Located
<1>6. Reported(Now)
  BY <1>1, <1>2, NothingReported DEF Reported, PublishedIn
<1>7. Good(Now, 0) /\ Filled(Now)
  BY <1>2, <1>3, <1>4, <1>5, <1>6, Limits DEF Good, Filled
<1>8. Running
  BY <1>1, <1>2, <1>7, BoundsAssumption DEF Running
<1>9. FilesGood(files)
  BY <1>1, <1>7, GoodFiles, BoundsAssumption
<1>10. Answered
  BY <1>1, NothingReported DEF Answered, NoReply
<1> QED
  BY <1>1, <1>8, <1>9, <1>10 DEF IInv, NoReply

\* As long as the server runs there is no answer that stopped it.
LEMMA RunningInv ==
    Running /\ call \in {"none", "write", "close"} /\ status = "running" => IInv
<1> SUFFICES ASSUME Running, call \in {"none", "write", "close"}, status = "running"
             PROVE  IInv
  OBVIOUS
<1>1. FilesGood(Now.files)
  <2>1. Done \in Nat /\ Done <= MaxRows /\ Good(Now, Done)
    BY LenProperties, BoundsAssumption DEF Running, Done
  <2> QED
    BY <2>1, GoodFiles
<1>2. FilesGood(files)
  BY <1>1, NowFields
<1>3. Answered
  BY NothingReported DEF Answered, Running, NoReply
<1> QED
  BY <1>2, <1>3 DEF IInv, Running, NoReply

\* The rows routed so far.
LEMMA DoneType ==
    ASSUME Running
    PROVE  /\ Done \in Nat /\ Done <= given /\ Done <= MaxRows
           /\ given = Done + Len(pending)
           /\ pending = <<>> => Done = given
  BY LenProperties, BoundsAssumption DEF Running, Done

\* write/2 is called.
LEMMA StartWriteInv ==
    ASSUME IInv, NEW n \in 1 .. MaxCallRows, NEW inputs \in [1 .. n -> Input],
           given + n <= MaxRows, StartWrite(Numbered(inputs))
    PROVE  IInv'
<1> DEFINE rows == Numbered(inputs)
<1>0. Running /\ call = "none" /\ pending = <<>> /\ n \in Nat
  BY BoundsAssumption DEF IInv, StartWrite, Running
<1>1. /\ rows \in Seq(Row) /\ Len(rows) = n
      /\ \A k \in DOMAIN rows : rows[k].id = given + k
  <2>1. given \in Nat
    BY <1>0 DEF Running
  <2>2. DOMAIN inputs = 1 .. n
    OBVIOUS
  <2>3. rows = [i \in 1 .. n |-> rows[i]] /\ DOMAIN rows = 1 .. n
    BY <2>2 DEF Numbered
  <2>4. ASSUME NEW i \in 1 .. n PROVE rows[i] \in Row /\ rows[i].id = given + i
    <3>1. inputs[i] \in Input /\ given + i \in 1 .. MaxRows
      BY <1>0, <2>1, BoundsAssumption
    <3>2. rows[i] = [id |-> given + i, ts |-> inputs[i].ts,
                     size |-> inputs[i].size, flaw |-> inputs[i].flaw]
      BY <2>2 DEF Numbered
    <3> QED
      BY <3>1, <3>2 DEF Row, Input
  <2> HIDE DEF rows
  <2>5. rows \in [1 .. n -> Row]
    BY <2>3, <2>4
  <2> QED
    BY <1>0, <2>3, <2>4, <2>5
<1>2. /\ pending' = rows /\ given' = given + Len(rows) /\ saved' = server
      /\ before' = Published /\ call' = "write"
      /\ UNCHANGED <<server, files, status, reply, acked, doubt>> /\ status = "running"
  BY DEF StartWrite
<1> HIDE DEF rows
<1>3. Now' = Now
  BY <1>2 DEF Now
<1>4. Done = given /\ given \in Nat
  BY <1>0, DoneType DEF Running
<1>5. Done' = Done
  BY <1>0, <1>1, <1>2, <1>4 DEF Done
<1>6. PartsSound(server.reports, files) /\ FilesOf(server.reports) = PublishedIn(files)
  BY <1>0, NowFields DEF Running, Good, Reported
<1>7. Published = PublishedIn(files)
  BY DEF Published, PublishedIn
<1>8. /\ Good(Now, Done) /\ Filled(Now) /\ acked \subseteq 1 .. Done /\ reply = NoReply
      /\ doubt = {}
  BY <1>0 DEF Running
<1>9. Running'
  <2>1. given' \in Nat /\ given' <= MaxRows
    BY <1>0, <1>1, <1>2, <1>4
  <2>2. pending' \in Seq(Row) /\ Len(pending') <= given'
    BY <1>0, <1>1, <1>2, <1>4
  <2>3. \A k \in DOMAIN pending' : pending'[k].id = Done' + k
    BY <1>1, <1>2, <1>4, <1>5
  <2>4. Good(Now', Done') /\ Filled(Now')
    BY <1>3, <1>5, <1>8
  <2>5. acked' \subseteq 1 .. Done'
    BY <1>2, <1>5, <1>8
  <2>6. PartsSound(saved.reports', files') /\ FilesOf(saved.reports') = before'
    BY <1>2, <1>6, <1>7
  <2> QED
    BY <1>2, <1>8, <2>1, <2>2, <2>3, <2>4, <2>5, <2>6 DEF Running
<1>10. (Running /\ call \in {"none", "write", "close"} /\ status = "running" => IInv)'
  BY RunningInv, PTL
<1> QED
  BY <1>2, <1>9, <1>10

\* A step of the server to the state y, with which it goes on.
LEMMA NowIs ==
    ASSUME NEW y, NEW n, Good(y, n), Filled(y), DOMAIN y = DOMAIN Now,
           server' = [active |-> y.active, access |-> y.access, reports |-> y.reports],
           files' = y.files
    PROVE  Good(Now', n) /\ Filled(Now')
<1>1. /\ DOMAIN Now' = DOMAIN y /\ Now'.active = y.active /\ Now'.access = y.access
      /\ Now'.reports = y.reports /\ Now'.files = y.files
  BY DEF Now
<1> QED
  BY <1>1, GoodSame

LEMMA RouteRowInv ==
    ASSUME IInv, RouteRow
    PROVE  IInv' /\ VisibleStep(Now, files')
<1> DEFINE row == Head(pending)
           y == Routed(Now, row)
<1>0. /\ Running /\ call = "write" /\ pending # <<>> /\ status = "running"
      /\ call' = call /\ status' = status /\ reply' = reply
      /\ given' = given /\ acked' = acked /\ before' = before /\ saved' = saved
      /\ doubt' = doubt
      /\ pending' = Tail(pending)
      /\ server' = [active |-> y.active, access |-> y.access, reports |-> y.reports]
      /\ files' = y.files
  BY DEF RouteRow, IInv, Stopped
<1>1. /\ pending \in Seq(Row) /\ Good(Now, Done) /\ Filled(Now)
      /\ acked \subseteq 1 .. Done /\ reply = NoReply /\ doubt = {}
      /\ given \in Nat /\ given <= MaxRows
      /\ \A k \in DOMAIN pending : pending[k].id = Done + k
      /\ PartsSound(saved.reports, files) /\ FilesOf(saved.reports) = before
  BY <1>0 DEF Running
<1>2. /\ Done \in Nat /\ Done <= given /\ Done <= MaxRows
      /\ given = Done + Len(pending)
  BY <1>0, DoneType
<1>3. /\ row \in Row /\ row = pending[1] /\ 1 \in DOMAIN pending
      /\ Len(pending) \in Nat /\ Len(pending) > 0
      /\ Tail(pending) \in Seq(Row) /\ Len(Tail(pending)) = Len(pending) - 1
      /\ \A k \in DOMAIN Tail(pending) : Tail(pending)[k] = pending[k + 1] /\ k + 1 \in DOMAIN pending /\ k \in Nat
  <2>1. pending \in Seq(Row) /\ pending # <<>>
    BY <1>0, <1>1
  <2> QED
    BY ONLY <2>1
<1>4. row.id = Done + 1
  BY <1>1, <1>3
<1>5. /\ Good(y, Done + 1) /\ Filled(y) /\ VisibleStep(Now, y.files)
  BY <1>1, <1>2, <1>3, <1>4, RouteGood
<1>6. Done' = Done + 1
  BY <1>0, <1>1, <1>2, <1>3 DEF Done
<1> HIDE DEF row, y
<1>7. Good(Now', Done + 1) /\ Filled(Now')
  <2>1. DOMAIN y = DOMAIN Now
    BY <1>5, NowFields DEF Good, Typed
  <2> QED
    BY <1>0, <1>5, <2>1, NowIs
<1>8. PartsSound(saved.reports, files')
  <2>1. KeepsPublished(files, files')
    BY <1>0, <1>5, NowFields DEF VisibleStep
  <2> QED
    BY <1>1, <2>1, KeepsSound
<1>9. Running'
  <2>1. pending' \in Seq(Row) /\ Len(pending') <= given'
    BY <1>0, <1>1, <1>2, <1>3
  <2>2. \A k \in DOMAIN pending' : pending'[k].id = Done' + k
    BY <1>0, <1>1, <1>2, <1>3, <1>6
  <2>3. Good(Now', Done') /\ Filled(Now')
    BY <1>6, <1>7
  <2>4. acked' \subseteq 1 .. Done'
    BY <1>0, <1>1, <1>2, <1>6
  <2> QED
    BY <1>0, <1>1, <1>8, <2>1, <2>2, <2>3, <2>4 DEF Running
<1>10. (Running /\ call \in {"none", "write", "close"} /\ status = "running" => IInv)'
  BY RunningInv, PTL
<1> QED
  BY <1>0, <1>5, <1>9, <1>10

LEMMA ReplyWriteInv == ASSUME IInv, ReplyWrite PROVE IInv'
<1>0. /\ Running /\ pending = <<>> /\ status = "running" /\ call' = "none"
      /\ acked' = acked \cup (1 .. given)
      /\ UNCHANGED <<server, files, pending, status, reply, given, before, doubt>>
  BY DEF ReplyWrite, IInv, Stopped
<1>1. Now' = Now /\ Done' = Done
  BY <1>0 DEF Now, Done
<1>2. Done = given
  BY <1>0, DoneType
<1>3. acked' \subseteq 1 .. Done'
  BY <1>0, <1>1, <1>2 DEF Running
<1>4. Good(Now', Done') /\ Filled(Now')
  BY <1>0, <1>1 DEF Running
<1>5. Running'
  BY <1>0, <1>1, <1>3, <1>4 DEF Running
<1>6. (Running /\ call \in {"none", "write", "close"} /\ status = "running" => IInv)'
  BY RunningInv, PTL
<1> QED
  BY <1>0, <1>5, <1>6

LEMMA StartCloseInv == ASSUME IInv, StartClose PROVE IInv'
<1>0. /\ Running /\ pending = <<>> /\ status = "running" /\ call' = "close"
      /\ UNCHANGED <<server, saved, files, pending, status, reply, given, acked, doubt>>
  BY DEF StartClose, IInv, Running
<1>1. Now' = Now /\ Done' = Done
  BY <1>0 DEF Now, Done
<1>2. Good(Now', Done') /\ Filled(Now')
  BY <1>0, <1>1 DEF Running
<1>3. Running'
  BY <1>0, <1>1, <1>2 DEF Running
<1>4. (Running /\ call \in {"none", "write", "close"} /\ status = "running" => IInv)'
  BY RunningInv, PTL
<1> QED
  BY <1>0, <1>3, <1>4

LEMMA CloseOldestInv ==
    ASSUME IInv, CloseOldest
    PROVE  IInv' /\ VisibleStep(Now, files')
<1> DEFINE p == Oldest(Now)
           y == PublishEntry(Now, p)
<1>0. /\ Running /\ call = "close" /\ status = "running" /\ DOMAIN Now.active # {}
      /\ UNCHANGED <<saved, call, pending, status, reply, given, acked, before, doubt>>
      /\ server' = [active |-> y.active, access |-> y.access, reports |-> y.reports]
      /\ files' = y.files
  BY NowFields DEF CloseOldest, IInv, Stopped
<1>1. Good(Now, Done) /\ Filled(Now) /\ Typed(Now)
  BY <1>0 DEF Running, Good
<1>2. p \in DOMAIN Now.active
  BY <1>0, <1>1, OldestIsActive
<1> HIDE DEF p
<1>3. Now.active[p].rows > 0
  BY <1>1, <1>2 DEF Filled
<1>4. Good(y, Done) /\ PublishEffect(Now, y, p)
  BY <1>1, <1>2, <1>3, PublishGood
<1> HIDE DEF y
<1>5. Filled(y) /\ VisibleStep(Now, y.files)
  BY <1>1, <1>2, <1>4 DEF PublishEffect, VisibleStep, Filled
<1>6. Good(Now', Done) /\ Filled(Now')
  <2>1. DOMAIN y = DOMAIN Now
    BY <1>4, NowFields DEF Good, Typed
  <2> QED
    BY <1>0, <1>4, <1>5, <2>1, NowIs
<1>7. Done' = Done
  BY <1>0 DEF Done
<1>8. Good(Now', Done')
  BY <1>6, <1>7
<1>9. Running'
  BY <1>0, <1>6, <1>7, <1>8 DEF Running
<1>10. (Running /\ call \in {"none", "write", "close"} /\ status = "running" => IInv)'
  BY RunningInv, PTL
<1> QED
  BY <1>0, <1>5, <1>9, <1>10
-----------------------------------------------------------------------------
\* The server stops: fs is what its calls have left in the store.
LEMMA StopKeeps ==
    ASSUME Running, NEW fs, Left(Now, fs, Done), NEW active, NEW kind, NEW reported,
           Stop(fs, active, kind, reported), UNCHANGED <<given, acked, before>>,
           kind \in {"closed", "cancelled"} => Closing(fs) = {}
    PROVE  /\ FilesGood(files') /\ PublishedIn(files') = PublishedIn(fs)
           /\ KeepsPublished(fs, files') /\ VisibleStep(Now, files')
           /\ Closing(files') = Closing(fs) /\ doubt' = Closing(fs)
           /\ Closing(files') = {} \/ PublishedIn(files') = PublishedIn(files)
           /\ status' = "stopped" /\ call' = "none" /\ Stopped'
           /\ reply'.kind = kind /\ reply'.reported = reported
<1> DEFINE gs == CancelAll(fs, active)
<1>0. /\ files' = gs /\ server' = [server EXCEPT !.active = <<>>]
      /\ status' = "stopped" /\ reply' = [kind |-> kind, reported |-> reported]
      /\ call' = "none" /\ pending' = <<>>
      /\ given' = given /\ acked' = acked /\ doubt' = Closing(fs)
  BY DEF Stop
<1>1. /\ FilesGood(fs) /\ fs \in Seq(File) /\ VisibleStep(Now, fs) /\ Doubtful(fs, Done)
      /\ Closing(fs) = {} \/ PublishedIn(fs) = PublishedIn(files)
  BY NowFields DEF Left, FilesGood
<1>2. Discards(fs, gs)
  BY <1>1, CancelDiscards
<1> HIDE DEF gs
<1>3. /\ FilesGood(gs) /\ PublishedIn(gs) = PublishedIn(fs)
      /\ KeepsPublished(fs, gs) /\ Closing(gs) = Closing(fs) /\ Doubtful(gs, Done)
  BY <1>1, <1>2, DiscardsGood
<1>4. VisibleStep(Now, gs)
  BY <1>1, <1>3, VisibleThen
<1>5. Done \in Nat /\ Done <= given /\ given \in Nat /\ given <= MaxRows /\ acked \subseteq 1 .. Done
  BY DoneType DEF Running
<1>6. Doubtful(gs, given)
  BY <1>3, <1>5, DoubtfulMore
<1>7. Stopped'
  <2>1. DOMAIN server'.active = {}
    BY <1>0
  <2>2. acked \subseteq 1 .. given
    BY <1>5
  <2>3. Closing(fs) \subseteq DOMAIN gs /\ Closing(gs) \subseteq Closing(fs)
    BY <1>2, <1>3 DEF Discards, Closing
  <2>4. reply'.kind \in {"closed", "cancelled"} => Closing(gs) = {}
    BY <1>0, <1>3
  <2> QED
    BY <1>0, <1>5, <1>6, <2>1, <2>2, <2>3, <2>4 DEF Stopped
<1> QED
  BY <1>0, <1>1, <1>3, <1>4, <1>7

\* ... and IInv holds when the answer is right.
LEMMA StopInv ==
    FilesGood(files) /\ Stopped /\ status = "stopped" /\ Answered
      /\ reply.kind \in {"none", "write_failed", "close_failed", "closed", "cancelled"}
      => IInv
  BY DEF IInv, Stopped

\* The store as the server sees it between two calls.
LEMMA NowLeft ==
    ASSUME Running
    PROVE  Left(Now, files, Done) /\ Closing(files) = {}
<1>1. Good(Now, Done) /\ Done \in Nat /\ Done <= MaxRows /\ Now.files = files
  BY DoneType, NowFields DEF Running
<1>2. VisibleStep(Now, Now.files)
  BY DEF VisibleStep, KeepsPublished, PublishedIn
<1> QED
  BY <1>1, <1>2, GoodLeft, GoodFiles

\* What the call of write/2 in progress can leave.
LEMMA WriteLeft ==
    ASSUME Running, pending # <<>>, NEW fs \in RouteFailures(Now, Head(pending))
    PROVE  Left(Now, fs, Done)
<1>1. Head(pending) \in Row
  <2>1. pending \in Seq(Row) /\ pending # <<>>
    BY DEF Running
  <2> QED
    BY ONLY <2>1
<1>2. Good(Now, Done) /\ Filled(Now) /\ Done \in Nat /\ Done <= MaxRows
  BY DoneType DEF Running
<1> QED
  BY <1>1, <1>2, RouteFailuresLeft

\* ... and that of close/1.
LEMMA CloseLeft ==
    ASSUME Running, DOMAIN server.active # {}
    PROVE  /\ Left(Now, CloseBegun(Now, Oldest(Now)), Done)
           /\ PublishedIn(CloseBegun(Now, Oldest(Now))) = PublishedIn(files)
<1>1. /\ Good(Now, Done) /\ Filled(Now) /\ Done \in Nat /\ Done <= MaxRows
      /\ Typed(Now) /\ Now.files = files /\ DOMAIN Now.active # {}
  BY DoneType, NowFields DEF Running, Good
<1>2. Oldest(Now) \in DOMAIN Now.active
  BY <1>1, OldestIsActive
<1> QED
  BY <1>1, <1>2, CloseBegunLeft

LEMMA WriteFailsInv ==
    ASSUME IInv, WriteFails
    PROVE  /\ IInv' /\ VisibleStep(Now, files')
           /\ Closing(files') = {} \/ PublishedIn(files') = PublishedIn(files)
           /\ status' = "stopped" /\ reply'.kind = "write_failed"
<1>0. Running /\ call = "write" /\ pending # <<>> /\ UNCHANGED <<given, acked, before>>
  BY DEF WriteFails, IInv, Stopped
<1>1. PICK fs \in RouteFailures(Now, Head(pending)) :
         Stop(fs, saved.active, "write_failed", saved.reports)
  BY DEF WriteFails
<1>2. Left(Now, fs, Done)
  BY <1>0, WriteLeft
<1>3. /\ FilesGood(files') /\ VisibleStep(Now, files')
      /\ Closing(files') = {} \/ PublishedIn(files') = PublishedIn(files)
      /\ status' = "stopped" /\ call' = "none" /\ Stopped'
      /\ reply'.kind = "write_failed" /\ reply'.reported = saved.reports
  BY <1>0, <1>1, <1>2, StopKeeps
<1>4. PartsSound(saved.reports, files')
  <2>1. KeepsPublished(files, files')
    BY <1>3, NowFields DEF VisibleStep
  <2>2. PartsSound(saved.reports, files)
    BY <1>0 DEF Running
  <2> QED
    BY <2>1, <2>2, KeepsSound
<1>5. FilesOf(saved.reports) = before /\ before' = before
  BY <1>0 DEF Running
<1>6. Answered'
  <2>1. PartsSound(reply'.reported, files')
    BY <1>3, <1>4
  <2>2. before' \subseteq FilesOf(reply'.reported)
    BY <1>3, <1>5
  <2> QED
    BY <1>3, <2>1, <2>2 DEF Answered
<1>7. (FilesGood(files) /\ Stopped /\ status = "stopped" /\ Answered
         /\ reply.kind \in {"none", "write_failed", "close_failed", "closed", "cancelled"}
         => IInv)'
  BY StopInv, PTL
<1> QED
  BY <1>3, <1>6, <1>7

LEMMA CloseFailsInv ==
    ASSUME IInv, CloseFails
    PROVE  /\ IInv' /\ VisibleStep(Now, files')
           /\ PublishedIn(files') = PublishedIn(files)
           /\ status' = "stopped" /\ reply'.kind = "close_failed"
<1>0. /\ Running /\ DOMAIN server.active # {} /\ UNCHANGED <<given, acked, before>>
      /\ files = Now.files /\ server.reports = Now.reports
  BY NowFields DEF CloseFails, IInv, Stopped
<1>1. Reported(Now)
  BY <1>0 DEF Running, Good
<1>2. PICK fs \in {files, CloseBegun(Now, Oldest(Now))}, parts \in {<<>>, server.reports} :
         Stop(fs, server.active, "close_failed", parts)
  BY DEF CloseFails
<1>3. Left(Now, fs, Done) /\ PublishedIn(fs) = PublishedIn(files)
  BY <1>0, NowLeft, CloseLeft
<1>4. /\ FilesGood(files') /\ PublishedIn(files') = PublishedIn(fs)
      /\ VisibleStep(Now, files') /\ doubt' = Closing(fs)
      /\ status' = "stopped" /\ call' = "none" /\ Stopped'
      /\ reply'.kind = "close_failed" /\ reply'.reported = parts
  BY <1>0, <1>2, <1>3, StopKeeps
<1>5. PublishedIn(files') \ doubt' = PublishedIn(files)
  BY <1>3, <1>4 DEF PublishedIn, Closing
<1>6. /\ PartsSound(parts, files')
      /\ FilesOf(parts) \in {PublishedIn(files'), {}}
  <2>1. CASE parts = <<>>
    BY <2>1, NothingReported
  <2>2. CASE parts = server.reports
    <3>1. KeepsPublished(files, files')
      BY <1>0, <1>4 DEF VisibleStep
    <3>2. PartsSound(parts, files) /\ FilesOf(parts) = PublishedIn(files)
      BY <1>0, <1>1, <2>2 DEF Reported
    <3> QED
      BY <1>3, <1>4, <3>1, <3>2, KeepsSound
  <2> QED
    BY <2>1, <2>2
<1>7. Answered'
  <2>1. PartsSound(reply'.reported, files')
    BY <1>4, <1>6
  <2>2. FilesOf(reply'.reported) \in {PublishedIn(files') \ doubt', {}}
    BY <1>3, <1>4, <1>5, <1>6
  <2> QED
    BY <1>4, <2>1, <2>2 DEF Answered
<1>8. (FilesGood(files) /\ Stopped /\ status = "stopped" /\ Answered
         /\ reply.kind \in {"none", "write_failed", "close_failed", "closed", "cancelled"}
         => IInv)'
  BY StopInv, PTL
<1> QED
  BY <1>3, <1>4, <1>7, <1>8

\* A row that is visible once stays so as long as no part is published.
LEMMA OnceKeeps ==
    ASSUME NEW fs, NEW gs, NEW id, KeepsPublished(fs, gs), OnceVisible(fs, id),
           PublishedIn(gs) = PublishedIn(fs)
    PROVE  OnceVisible(gs, id)
<1>1. \A i \in PublishedIn(fs) : gs[i].rows = fs[i].rows
  BY DEF KeepsPublished
<1> QED
  BY <1>1 DEF OnceVisible

\* Without an entry every part is published, so every row is visible once.
LEMMA AllVisible ==
    ASSUME NEW x, NEW n \in Nat, Good(x, n), DOMAIN x.active = {}
    PROVE  /\ \A id \in 1 .. n : OnceVisible(x.files, id)
           /\ \A i \in PublishedIn(x.files) : \A j \in DOMAIN x.files[i].rows :
                 x.files[i].rows[j].id \in 1 .. n
<1>1. PublishedIn(x.files) = DOMAIN x.files
  BY DEF Good, Owned, PublishedIn
<1>2. \A i \in DOMAIN x.files : Content(x, i) = x.files[i].rows
  BY <1>1 DEF Content, PublishedIn
<1>3. Located(x, n) /\ PartsGood(x, n) /\ Typed(x) /\ Owned(x)
  BY DEF Good
<1>4. ASSUME NEW id \in 1 .. n PROVE OnceVisible(x.files, id)
  <2>1. \E i \in DOMAIN x.files : \E j \in DOMAIN x.files[i].rows : x.files[i].rows[j].id = id
    BY <1>2, <1>3 DEF Located
  <2>2. \A i, k \in DOMAIN x.files :
           \A j \in DOMAIN x.files[i].rows, l \in DOMAIN x.files[k].rows :
              x.files[i].rows[j].id = x.files[k].rows[l].id => i = k
    BY <1>2, <1>3 DEF Located
  <2> QED
    BY <1>1, <2>1, <2>2 DEF OnceVisible
<1>5. ASSUME NEW i \in DOMAIN x.files, NEW j \in DOMAIN x.files[i].rows
      PROVE  x.files[i].rows[j].id \in 1 .. n
  <2> DEFINE s == x.files[i].rows
  <2>1. s \in Seq(Row) /\ InOrder(s, x.files[i].partition, n)
    BY <1>2, <1>3, ContentType DEF PartsGood
  <2>2. s[j] \in Row
    BY <2>1, LenProperties, ElementOfSeq
  <2> HIDE DEF s
  <2>3. s[j].id \in Nat /\ s[j].id >= 1 /\ s[j].id <= n
    BY <2>1, <2>2 DEF Row, InOrder, s
  <2> QED
    BY <2>3 DEF s
<1> QED
  BY <1>1, <1>4, <1>5

LEMMA ReplyCloseInv ==
    ASSUME IInv, ReplyClose
    PROVE  /\ IInv' /\ VisibleStep(Now, files') /\ PublishedIn(files') = PublishedIn(files)
           /\ status' = "stopped" /\ reply'.kind = "closed"
<1>0. /\ Running /\ DOMAIN Now.active = {} /\ UNCHANGED <<given, acked, before>>
      /\ files = Now.files /\ server.reports = Now.reports /\ pending = <<>>
      /\ Left(Now, files, Done) /\ Closing(files) = {}
      /\ Stop(files, server.active, "closed", server.reports)
  BY NowFields, NowLeft DEF ReplyClose, IInv, Stopped, Running
<1>1. Good(Now, given) /\ Reported(Now) /\ given \in Nat
  BY <1>0, DoneType DEF Running, Good
<1>2. /\ FilesGood(files') /\ PublishedIn(files') = PublishedIn(files)
      /\ KeepsPublished(files, files')
      /\ status' = "stopped" /\ call' = "none" /\ Stopped'
      /\ reply'.kind = "closed" /\ reply'.reported = server.reports
  BY <1>0, StopKeeps
<1>3. VisibleStep(Now, files')
  BY <1>0, <1>2 DEF VisibleStep
<1>4. PartsSound(server.reports, files) /\ FilesOf(server.reports) = PublishedIn(files)
  BY <1>0, <1>1 DEF Reported
<1>5. PartsSound(reply'.reported, files') /\ FilesOf(reply'.reported) = PublishedIn(files')
  BY <1>2, <1>4, KeepsSound
<1>6. \A id \in 1 .. given' : OnceVisible(files', id)
  BY <1>0, <1>1, <1>2, AllVisible, OnceKeeps
<1>7. Answered'
  BY <1>2, <1>5, <1>6 DEF Answered
<1>8. (FilesGood(files) /\ Stopped /\ status = "stopped" /\ Answered
         /\ reply.kind \in {"none", "write_failed", "close_failed", "closed", "cancelled"}
         => IInv)'
  BY StopInv, PTL
<1> QED
  BY <1>2, <1>3, <1>7, <1>8

LEMMA CancelInv ==
    ASSUME IInv, Cancel
    PROVE  /\ IInv' /\ KeepsPublished(files, files')
           /\ PublishedIn(files') = PublishedIn(files)
           /\ status' = "stopped" /\ reply'.kind = "cancelled"
<1>0. /\ Running /\ UNCHANGED <<given, acked, before>>
      /\ Left(Now, files, Done) /\ Closing(files) = {}
      /\ Stop(files, server.active, "cancelled", <<>>)
  BY NowLeft DEF Cancel, IInv
<1>1. /\ FilesGood(files') /\ PublishedIn(files') = PublishedIn(files)
      /\ KeepsPublished(files, files')
      /\ status' = "stopped" /\ call' = "none" /\ Stopped'
      /\ reply'.kind = "cancelled" /\ reply'.reported = <<>>
  BY <1>0, StopKeeps
<1>2. PartsSound(reply'.reported, files')
  BY <1>1, NothingReported
<1>3. Answered'
  BY <1>1, <1>2 DEF Answered
<1>4. (FilesGood(files) /\ Stopped /\ status = "stopped" /\ Answered
         /\ reply.kind \in {"none", "write_failed", "close_failed", "closed", "cancelled"}
         => IInv)'
  BY StopInv, PTL
<1> QED
  BY <1>1, <1>3, <1>4

LEMMA KilledInv ==
    ASSUME IInv, Killed
    PROVE  /\ IInv' /\ reply' = NoReply /\ VisibleStep(Now, files')
           /\ Closing(files') = {} \/ PublishedIn(files') = PublishedIn(files)
<1>0. /\ Running /\ status' = "stopped" /\ call' = "none" /\ pending' = <<>>
      /\ server' = [server EXCEPT !.active = <<>>]
      /\ UNCHANGED <<saved, reply, given, acked, before>>
      /\ files' \in {files} \cup Interrupted /\ doubt' = Closing(files')
  BY DEF Killed, IInv
<1>1. Left(Now, files', Done)
  <2>1. CASE files' = files
    BY <1>0, <2>1, NowLeft
  <2>2. CASE pending # <<>> /\ files' \in RouteFailures(Now, Head(pending))
    BY <1>0, <2>2, WriteLeft
  <2>3. CASE DOMAIN server.active # {} /\ files' = CloseBegun(Now, Oldest(Now))
    BY <1>0, <2>3, CloseLeft
  <2> QED
    BY <1>0, <2>1, <2>2, <2>3 DEF Interrupted
<1>2. /\ FilesGood(files') /\ VisibleStep(Now, files') /\ Doubtful(files', Done)
      /\ Closing(files') = {} \/ PublishedIn(files') = PublishedIn(files)
  BY <1>1, NowFields DEF Left
<1>3. Done \in Nat /\ Done <= given /\ given \in Nat /\ given <= MaxRows /\ acked \subseteq 1 .. Done
  BY <1>0, DoneType DEF Running
<1>4. Doubtful(files', given)
  BY <1>2, <1>3, DoubtfulMore
<1>5. reply' = NoReply
  BY <1>0 DEF Running
<1>6. Stopped'
  <2>1. DOMAIN server'.active = {}
    BY <1>0
  <2>2. acked \subseteq 1 .. given
    BY <1>3
  <2>3. Closing(files') \subseteq DOMAIN files' /\ Closing(files') \subseteq doubt'
    BY <1>0 DEF Closing
  <2>4. reply'.kind \notin {"closed", "cancelled"}
    BY <1>5 DEF NoReply
  <2> QED
    BY <1>0, <1>3, <1>4, <2>1, <2>2, <2>3, <2>4 DEF Stopped
<1>7. Answered'
  <2>1. PartsSound(reply'.reported, files')
    BY <1>5, NothingReported DEF NoReply
  <2> QED
    BY <1>5, <2>1 DEF Answered, NoReply
<1>8. (FilesGood(files) /\ Stopped /\ status = "stopped" /\ Answered
         /\ reply.kind \in {"none", "write_failed", "close_failed", "closed", "cancelled"}
         => IInv)'
  BY StopInv, PTL
<1> QED
  BY <1>0, <1>2, <1>5, <1>6, <1>7, <1>8 DEF NoReply

LEMMA NativeDownInv ==
    ASSUME IInv, NEW i \in DOMAIN files, NativeDown(i)
    PROVE  /\ IInv' /\ KeepsPublished(files, files')
           /\ PublishedIn(files') = PublishedIn(files)
           /\ Closing(files') = Closing(files)
           /\ UNCHANGED <<status, reply, given>>
<1> DEFINE gs == [files EXCEPT ![i].state = "discarded"]
<1>0. /\ status = "stopped" /\ files[i].state = "open" /\ files' = gs
      /\ FilesGood(files) /\ Stopped /\ Answered
      /\ UNCHANGED <<server, saved, call, pending, status, reply, given, acked, before, doubt>>
  BY DEF NativeDown, IInv
<1>1. Discards(files, gs)
  BY <1>0, OneDiscards DEF FilesGood
<1> HIDE DEF gs
<1>2. /\ FilesGood(gs) /\ PublishedIn(gs) = PublishedIn(files)
      /\ KeepsPublished(files, gs) /\ Closing(gs) = Closing(files)
      /\ Doubtful(files, given) => Doubtful(gs, given)
  BY <1>0, <1>1, DiscardsGood
<1>3. PartsSound(reply.reported, gs)
  BY <1>0, <1>2, KeepsSound DEF Answered
<1>4. reply.kind = "closed" => \A id \in 1 .. given : OnceVisible(gs, id)
  BY <1>0, <1>2, OnceKeeps DEF Answered
<1>5. Answered'
  BY <1>0, <1>2, <1>3, <1>4 DEF Answered
<1>6. Stopped' /\ FilesGood(files') /\ status' = "stopped"
  BY <1>0, <1>1, <1>2 DEF Stopped, Discards
<1>7. reply'.kind \in {"none", "write_failed", "close_failed", "closed", "cancelled"}
  BY <1>0 DEF IInv
<1>8. (FilesGood(files) /\ Stopped /\ status = "stopped" /\ Answered
         /\ reply.kind \in {"none", "write_failed", "close_failed", "closed", "cancelled"}
         => IInv)'
  BY StopInv, PTL
<1> QED
  BY <1>0, <1>2, <1>5, <1>6, <1>7, <1>8

\* The close in doubt ends: only after the server has stopped, and not after an
\* answer of close/1 or cancel/1.
LEMMA NativeCloseEndsInv ==
    ASSUME IInv, NEW i \in DOMAIN files, NativeCloseEnds(i)
    PROVE  /\ IInv' /\ KeepsPublished(files, files') /\ Closing(files') = {}
           /\ \/ PublishedIn(files') = PublishedIn(files)
              \/ /\ PublishedIn(files') = PublishedIn(files) \cup {i}
                 /\ files'[i].rows = files[i].rows
           /\ NewPart(Ids(files[i].rows), VisibleIn(files), given)
           /\ status = "stopped" /\ reply.kind \notin {"closed", "cancelled"}
           /\ i \in Closing(files)
           /\ UNCHANGED <<status, reply, given>>
<1>1. PICK outcome \in {"published", "discarded"} :
         files' = [files EXCEPT ![i].state = outcome]
  BY DEF NativeCloseEnds
<1>2. /\ i \in Closing(files) /\ FilesGood(files) /\ files \in Seq(File)
      /\ UNCHANGED <<server, saved, call, pending, status, reply, given, acked, before, doubt>>
  BY DEF NativeCloseEnds, Closing, IInv, FilesGood
<1>3. status = "stopped" /\ Stopped /\ Answered
  BY <1>2, NowLeft DEF IInv
<1>4. /\ given \in Nat /\ doubt \subseteq DOMAIN files /\ i \in doubt
      /\ Doubtful(files, given) /\ reply.kind \notin {"closed", "cancelled"}
  BY <1>2, <1>3 DEF Stopped
<1> DEFINE gs == [files EXCEPT ![i].state = outcome]
<1>5. Becomes(files, gs, i, outcome)
  BY <1>2, OneBecomes DEF FileStates
<1> HIDE DEF gs
<1>6. /\ FilesGood(gs) /\ Closing(gs) = {} /\ KeepsPublished(files, gs)
      /\ PublishedIn(gs) =
            IF outcome = "published" THEN PublishedIn(files) \cup {i} ELSE PublishedIn(files)
  BY <1>2, <1>4, <1>5, OneEnds
<1>7. files' = gs /\ DOMAIN gs = DOMAIN files /\ gs[i].rows = files[i].rows
  BY <1>1, <1>5 DEF gs, Becomes
<1>8. Answered'
  <2>1. PartsSound(reply.reported, gs)
    BY <1>3, <1>6, KeepsSound DEF Answered
  <2>2. PublishedIn(gs) \ doubt = PublishedIn(files) \ doubt
    BY <1>4, <1>6
  <2> QED
    BY <1>2, <1>3, <1>4, <1>7, <2>1, <2>2 DEF Answered
<1>9. Stopped'
  <2>1. Doubtful(gs, given)
    BY <1>6 DEF Doubtful
  <2> QED
    BY <1>2, <1>3, <1>6, <1>7, <2>1 DEF Stopped
<1>10. NewPart(Ids(files[i].rows), VisibleIn(files), given)
  BY <1>2, <1>4 DEF Doubtful
<1>11. reply'.kind \in {"none", "write_failed", "close_failed", "closed", "cancelled"}
  BY <1>2 DEF IInv
<1>12. (FilesGood(files) /\ Stopped /\ status = "stopped" /\ Answered
         /\ reply.kind \in {"none", "write_failed", "close_failed", "closed", "cancelled"}
         => IInv)'
  BY StopInv, PTL
<1> QED
  BY <1>2, <1>3, <1>4, <1>6, <1>7, <1>8, <1>9, <1>10, <1>11, <1>12

LEMMA NothingInv == ASSUME IInv, UNCHANGED vars PROVE IInv'
<1>1. UNCHANGED <<server, saved, files, call, pending, status, reply, given, acked, before, doubt>>
  BY DEF vars
<1>2. Now' = Now /\ Done' = Done
  BY <1>1 DEF Now, Done
<1>3. Running => Running'
  <2> SUFFICES ASSUME Running PROVE Running'
    OBVIOUS
  <2>1. Good(Now', Done') /\ Filled(Now')
    BY <1>2 DEF Running
  <2> QED
    BY <1>1, <1>2, <2>1 DEF Running
<1>4. Stopped => Stopped'
  BY <1>1 DEF Stopped
<1>5. Answered'
  BY <1>1 DEF IInv, Answered
<1> QED
  BY <1>1, <1>3, <1>4, <1>5 DEF IInv

LEMMA NextInv == IInv /\ [Next]_vars => IInv'
<1> SUFFICES ASSUME IInv, [Next]_vars PROVE IInv'
  OBVIOUS
<1> QED
  BY StartWriteInv, RouteRowInv, ReplyWriteInv, WriteFailsInv, StartCloseInv,
     CloseOldestInv, CloseFailsInv, ReplyCloseInv, CancelInv, KilledInv, NativeDownInv,
     NativeCloseEndsInv, NothingInv
  DEF Next

(***************************************************************************)
(* The inductive invariant: whatever rows are written, whichever native    *)
(* call fails and whenever the server is killed, the contents of the parts *)
(* are the rows routed so far, each in one place, the answer that stopped  *)
(* the server tells of published parts, and at most one part, of rows that *)
(* are not visible, is still closing.                                      *)
(***************************************************************************)
THEOREM Invariance == Spec => []IInv
  BY InitInv, NextInv, PTL DEF Spec

(***************************************************************************)
(* Every entry of the server has an open native writer of its partition,   *)
(* and never more than max_open_partitions of them exist, those a failed   *)
(* or killed server has left to the owner monitor, and one that is still   *)
(* closing, included.                                                      *)
(***************************************************************************)
THEOREM ServerIsConsistent == Spec => []ServerConsistent
<1>1. IInv => ServerConsistent
  <2> SUFFICES ASSUME IInv PROVE ServerConsistent
    OBVIOUS
  <2>1. OpenWithinLimit /\ files \in Seq(File)
    BY DEF IInv, FilesGood, OpenIn, OpenWithinLimit
  <2>2. \A i \in DOMAIN files : files[i].state \in FileStates
    BY <2>1, FileFields DEF File
  <2>3. CASE status = "running"
    <3>1. /\ Running /\ given \in Nat /\ given <= MaxRows /\ pending \in Seq(Row)
          /\ acked \subseteq 1 .. Done /\ Owned(Now)
      BY <2>3 DEF IInv, Running, Good
    <3>2. given \in 0 .. MaxRows /\ acked \subseteq 1 .. given
      BY <3>1, DoneType, BoundsAssumption
    <3>3. \A p \in DOMAIN server.active :
             LET e == server.active[p] IN
             /\ e.file \in DOMAIN files
             /\ files[e.file].state = "open" /\ files[e.file].partition = p
             /\ e.access \in 1 .. server.access
      BY <3>1, NowFields DEF Owned
    <3>4. doubt \subseteq DOMAIN files
      BY <3>1 DEF Running
    <3> QED
      BY <2>1, <2>2, <3>1, <3>2, <3>3, <3>4 DEF ServerConsistent, TypeOK, IInv
  <2>4. CASE status = "stopped"
    <3>1. /\ DOMAIN server.active = {} /\ pending = <<>> /\ given \in Nat
          /\ given <= MaxRows /\ acked \subseteq 1 .. given
          /\ doubt \subseteq DOMAIN files
      BY <2>4 DEF IInv, Stopped
    <3>2. given \in 0 .. MaxRows /\ pending \in Seq(Row)
      BY <3>1, BoundsAssumption
    <3> QED
      BY <2>1, <2>2, <3>1, <3>2 DEF ServerConsistent, TypeOK, IInv
  <2> QED
    BY <2>3, <2>4 DEF IInv
<1> QED
  BY <1>1, Invariance, PTL

(***************************************************************************)
(* Eviction and rotation keep every part within max_rows_per_file and      *)
(* max_bytes_per_file (one large row alone excepted), with rows of its     *)
(* partition only, in the order given, and publish no empty part.          *)
(***************************************************************************)
THEOREM PartsAreWithinLimits == Spec => []PartsWithinLimits
<1>1. IInv => PartsWithinLimits
  BY DEF IInv, FilesGood, FileGood, InOrder, WithinLimits, PartsWithinLimits
<1> QED
  BY <1>1, Invariance, PTL

(***************************************************************************)
(* The parts an answer of write/2 or close/1 names are published, with the *)
(* row counts and event times of the rows they hold, and none is left out  *)
(* but those the failing write/2 itself completed, the part whose native   *)
(* close failed in close/1, which may be or become published all the same, *)
(* or all of them when it was a flush of close/1 that failed.              *)
(***************************************************************************)
THEOREM ReportsAreSound == Spec => []ReportSound
<1>1. IInv => ReportSound
  <2> SUFFICES ASSUME IInv PROVE ReportSound
    OBVIOUS
  <2> DEFINE parts == reply.reported
             R == {parts[i].file : i \in DOMAIN parts}
  <2>1. R = FilesOf(parts) /\ Published = PublishedIn(files)
    BY DEF FilesOf, Published, PublishedIn
  <2>2. /\ reply.kind = "closed" => R = Published
        /\ reply.kind = "write_failed" => before \subseteq R
        /\ reply.kind = "close_failed" => R \in {Published \ doubt, {}}
    BY <2>1 DEF IInv, Answered
  <2>3. ASSUME NEW i \in DOMAIN parts
        PROVE  LET part == parts[i]
                   rows == files[part.file].rows
                   times == {rows[j].ts : j \in DOMAIN rows}
               IN  /\ files[part.file].state = "published"
                   /\ part.rows = Len(rows)
                   /\ part.min \in times /\ part.max \in times
                   /\ \A t \in times : part.min <= t /\ t <= part.max
    <3> DEFINE part == parts[i]
    <3>1. PartSound(part, files)
      BY DEF IInv, Answered, PartsSound
    <3> HIDE DEF part
    <3>2. /\ files[part.file].state = "published"
          /\ part.rows = Len(files[part.file].rows)
          /\ Times(part.min, part.max, files[part.file].rows)
      BY <3>1 DEF PartSound, PublishedIn
    <3> QED
      BY <3>2 DEF Times, part
  <2> QED
    BY <2>2, <2>3 DEF ReportSound
<1> QED
  BY <1>1, Invariance, PTL
-----------------------------------------------------------------------------
\* Position l of the content of part k is the row id.
Holds(x, k, l, id) ==
    k \in DOMAIN x.files /\ l \in DOMAIN Content(x, k) /\ Content(x, k)[l].id = id

LEMMA HeldOnce ==
    ASSUME NEW x, NEW n \in Nat, n <= MaxRows, Good(x, n), NEW id \in 1 .. n
    PROVE  \E i, j : /\ Holds(x, i, j, id) /\ j \in 1 .. MaxRows
                     /\ \A k, l : Holds(x, k, l, id) => k = i /\ l = j
<1>1. Located(x, n) /\ PartsGood(x, n) /\ Typed(x) /\ Owned(x)
  BY DEF Good
<1>2. PICK i \in DOMAIN x.files : \E j \in DOMAIN Content(x, i) : Content(x, i)[j].id = id
  BY <1>1 DEF Located
<1>3. PICK j \in DOMAIN Content(x, i) : Content(x, i)[j].id = id
  BY <1>2
<1>4. InOrder(Content(x, i), x.files[i].partition, n) /\ j \in Nat /\ j >= 1
  BY <1>1, ContentType DEF PartsGood
<1>5. j \in 1 .. MaxRows
  <2>1. j <= id
    BY <1>3, <1>4 DEF InOrder
  <2> QED
    BY <1>4, <2>1, BoundsAssumption
<1>6. ASSUME NEW k, NEW l, Holds(x, k, l, id) PROVE k = i /\ l = j
  <2>1. k = i
    BY <1>1, <1>3, <1>6 DEF Located, Holds
  <2>2. l \in DOMAIN Content(x, i) /\ Content(x, i)[l].id = id
    BY <1>6, <2>1 DEF Holds
  <2>3. l \in Nat
    BY <1>1, <2>2, ContentType
  <2>4. ~(j < l) /\ ~(l < j)
    BY <1>3, <1>4, <2>2 DEF InOrder
  <2> QED
    BY <1>4, <2>1, <2>3, <2>4
<1> QED
  BY <1>3, <1>5, <1>6 DEF Holds

\* The contents are the rows of the files and those of the buffers.
LEMMA HeldInFile ==
    ASSUME NEW x, Typed(x), Owned(x), NEW k \in DOMAIN x.files,
           NEW l \in DOMAIN x.files[k].rows, NEW id
    PROVE  Holds(x, k, l, id) <=> x.files[k].rows[l].id = id
<1> DEFINE a == x.files[k].rows
<1>1. a \in Seq(Row)
  BY ContentType
<1>2. CASE x.files[k].state = "open"
  <2> DEFINE b == x.active[x.files[k].partition].buffer
  <2>1. b \in Seq(Row) /\ Content(x, k) = Cat(a, b)
    BY <1>2, EntryFile DEF Owned, Content
  <2> HIDE DEF b
  <2>2. l \in DOMAIN Cat(a, b) /\ Cat(a, b)[l] = a[l]
    BY <1>1, <2>1, CatRows
  <2> QED
    BY <2>1, <2>2 DEF Holds
<1>3. CASE x.files[k].state # "open"
  BY <1>3 DEF Holds, Content
<1> QED
  BY <1>2, <1>3

HoldsBuffered(x, p, m, id) ==
    Holds(x, x.active[p].file, Len(x.files[x.active[p].file].rows) + m, id)

LEMMA HeldInBuffer ==
    ASSUME NEW x, Typed(x), Owned(x), NEW p \in DOMAIN x.active,
           NEW m \in DOMAIN x.active[p].buffer, NEW id
    PROVE  HoldsBuffered(x, p, m, id) <=> x.active[p].buffer[m].id = id
<1> DEFINE k == x.active[p].file
           a == x.files[k].rows
           b == x.active[p].buffer
<1>1. /\ a \in Seq(Row) /\ b \in Seq(Row) /\ Content(x, k) = Cat(a, b)
      /\ k \in DOMAIN x.files
  BY EntryFile
<1> HIDE DEF a, k
<1>2. Len(a) + m \in DOMAIN Cat(a, b) /\ Cat(a, b)[Len(a) + m] = b[m]
  BY <1>1, CatRows
<1>3. Holds(x, k, Len(a) + m, id) <=> b[m].id = id
  BY <1>1, <1>2 DEF Holds
<1> QED
  BY <1>3 DEF a, k, HoldsBuffered

\* A position of a content is in the file or in the buffer.
LEMMA HeldSomewhere ==
    ASSUME NEW x, Typed(x), Owned(x), NEW k, NEW l, NEW id, Holds(x, k, l, id)
    PROVE  \/ l \in DOMAIN x.files[k].rows
           \/ /\ x.files[k].partition \in DOMAIN x.active
              /\ x.active[x.files[k].partition].file = k
              /\ \E m \in DOMAIN x.active[x.files[k].partition].buffer :
                    l = Len(x.files[k].rows) + m
<1> DEFINE a == x.files[k].rows
           p == x.files[k].partition
           b == x.active[p].buffer
<1>1. k \in DOMAIN x.files /\ l \in DOMAIN Content(x, k)
  BY DEF Holds
<1>2. CASE x.files[k].state # "open"
  BY <1>1, <1>2 DEF Content
<1>3. CASE x.files[k].state = "open"
  <2>1. /\ p \in DOMAIN x.active /\ x.active[p].file = k
        /\ a \in Seq(Row) /\ b \in Seq(Row) /\ Content(x, k) = Cat(a, b)
    <3>1. p \in DOMAIN x.active /\ x.active[p].file = k
      BY <1>1, <1>3 DEF Owned
    <3>2. a \in Seq(Row) /\ b \in Seq(Row)
      BY <1>1, <3>1, EntryFile, ContentType
    <3> QED
      BY <1>3, <3>1, <3>2 DEF Content
  <2> HIDE DEF a, b
  <2>2. /\ Len(a) \in Nat /\ Len(b) \in Nat /\ l \in 1 .. Len(a) + Len(b)
        /\ DOMAIN a = 1 .. Len(a) /\ DOMAIN b = 1 .. Len(b)
    BY <1>1, <2>1, CatRows
  <2>3. l \in DOMAIN a \/ \E m \in DOMAIN b : l = Len(a) + m
    <3>1. CASE l <= Len(a)
      BY <2>2, <3>1
    <3>2. CASE ~(l <= Len(a))
      <4>1. l - Len(a) \in 1 .. Len(b) /\ l = Len(a) + (l - Len(a))
        BY <2>2, <3>2
      <4> QED
        BY <2>2, <4>1
    <3> QED
      BY <3>1, <3>2
  <2> QED
    BY <2>1, <2>3 DEF a, b
<1> QED
  BY <1>2, <1>3

\* A row routed is in one place: the file of a part, or a buffer.
LEMMA RunningOnce ==
    ASSUME IInv, status = "running", NEW id \in acked
    PROVE  Cardinality(PlacesIn({"open", "published"}, id)) + Cardinality(Buffers(id)) = 1
<1> DEFINE P == PlacesIn({"open", "published"}, id)
           B == Buffers(id)
<1>1. /\ Good(Now, Done) /\ Done \in Nat /\ Done <= MaxRows /\ id \in 1 .. Done
      /\ Typed(Now) /\ Owned(Now)
  BY DoneType DEF IInv, Running, Good
<1>2. PICK i, j : /\ Holds(Now, i, j, id) /\ j \in 1 .. MaxRows
                  /\ \A k, l : Holds(Now, k, l, id) => k = i /\ l = j
  BY <1>1, HeldOnce
<1>3. /\ i \in DOMAIN files /\ files[i].rows \in Seq(Row) /\ Len(files[i].rows) \in Nat
      /\ DOMAIN files[i].rows = 1 .. Len(files[i].rows)
  BY <1>1, <1>2, NowFields, ContentType, LenProperties DEF Holds
<1>4. \A k \in DOMAIN files : files[k].state \in {"open", "published"}
  BY <1>1, NowFields DEF Owned
<1>5. ASSUME NEW at \in P
      PROVE  at = <<i, j>> /\ j \in DOMAIN files[i].rows
  <2>1. /\ at = <<at[1], at[2]>> /\ at[1] \in DOMAIN files
        /\ at[2] \in DOMAIN files[at[1]].rows
        /\ files[at[1]].rows[at[2]].id = id
    BY <1>5 DEF PlacesIn
  <2>2. Holds(Now, at[1], at[2], id)
    BY <1>1, <2>1, NowFields, HeldInFile
  <2> QED
    BY <1>2, <2>1, <2>2
<1>6. ASSUME NEW at \in B
      PROVE  /\ at = <<at[1], at[2]>> /\ at[1] \in DOMAIN server.active
             /\ server.active[at[1]].file = i /\ at[1] = files[i].partition
             /\ at[2] \in Nat /\ at[2] >= 1 /\ j = Len(files[i].rows) + at[2]
  <2>1. /\ at = <<at[1], at[2]>> /\ at[1] \in DOMAIN server.active
        /\ at[2] \in DOMAIN server.active[at[1]].buffer
        /\ server.active[at[1]].buffer[at[2]].id = id
        /\ at[2] \in 1 .. MaxRows
    BY <1>6 DEF Buffers
  <2> DEFINE k == Now.active[at[1]].file
  <2>2. Holds(Now, k, Len(Now.files[k].rows) + at[2], id)
    <3>1. /\ at[1] \in DOMAIN Now.active /\ at[2] \in DOMAIN Now.active[at[1]].buffer
          /\ Now.active[at[1]].buffer[at[2]].id = id
      BY <2>1, NowFields
    <3>2. HoldsBuffered(Now, at[1], at[2], id)
      BY <1>1, <3>1, HeldInBuffer
    <3> QED
      BY <3>2 DEF HoldsBuffered
  <2>3. k = i /\ Len(Now.files[k].rows) + at[2] = j
    BY <1>2, <2>2
  <2>4. Now.files[k].partition = at[1]
    BY <1>1, <2>1, NowFields, EntryFile
  <2> QED
    BY <2>1, <2>3, <2>4, NowFields, BoundsAssumption
<1>7. CASE j \in DOMAIN files[i].rows
  <2>1. <<i, j>> \in P
    <3>1. files[i].rows[j].id = id
      BY <1>1, <1>2, <1>3, <1>7, NowFields, HeldInFile
    <3> QED
      BY <1>2, <1>3, <1>4, <1>7, <3>1 DEF PlacesIn
  <2>2. B = {}
    BY <1>3, <1>6, <1>7
  <2> HIDE DEF P, B
  <2>3. P = {<<i, j>>}
    BY <1>5, <2>1
  <2>4. Cardinality(P) = 1 /\ Cardinality(B) = 0
    BY <2>2, <2>3, FS_Singleton, FS_EmptySet
  <2> QED
    BY <2>4 DEF P, B
<1>8. CASE j \notin DOMAIN files[i].rows
  <2> DEFINE p == files[i].partition
  <2>1. /\ p \in DOMAIN server.active /\ server.active[p].file = i
        /\ \E m \in DOMAIN server.active[p].buffer : j = Len(files[i].rows) + m
    <3>1. \/ j \in DOMAIN Now.files[i].rows
          \/ /\ Now.files[i].partition \in DOMAIN Now.active
             /\ Now.active[Now.files[i].partition].file = i
             /\ \E m \in DOMAIN Now.active[Now.files[i].partition].buffer :
                   j = Len(Now.files[i].rows) + m
      BY <1>1, <1>2, HeldSomewhere
    <3> QED
      BY <1>8, <3>1, NowFields
  <2>2. PICK m \in DOMAIN server.active[p].buffer : j = Len(files[i].rows) + m
    BY <2>1
  <2>3. m \in Nat /\ m >= 1 /\ m \in 1 .. MaxRows
    <3>1. m \in Nat /\ m >= 1
      <4>1. server.active[p].buffer \in Seq(Row)
        BY <1>1, <2>1, NowFields, EntryFile
      <4>2. /\ DOMAIN server.active[p].buffer = 1 .. Len(server.active[p].buffer)
            /\ Len(server.active[p].buffer) \in Nat
        BY <4>1, LenProperties
      <4> QED
        BY <4>2
    <3> QED
      BY <1>2, <1>3, <2>2, <3>1, BoundsAssumption
  <2>4. <<p, m>> \in B
    <3>1. server.active[p].buffer[m].id = id
      <4>1. /\ p \in DOMAIN Now.active /\ m \in DOMAIN Now.active[p].buffer
            /\ Now.active[p].file = i
        BY <2>1, NowFields
      <4>2. Holds(Now, Now.active[p].file, Len(Now.files[Now.active[p].file].rows) + m, id)
        BY <1>2, <2>1, <2>2, NowFields
      <4>3. HoldsBuffered(Now, p, m, id)
        BY <4>2 DEF HoldsBuffered
      <4>4. Now.active[p].buffer[m].id = id
        BY <1>1, <4>1, <4>3, HeldInBuffer
      <4> QED
        BY <4>4, NowFields
    <3> QED
      BY <2>1, <2>3, <3>1 DEF Buffers
  <2>5. P = {}
    BY <1>5, <1>8
  <2>6. \A at \in B : at = <<p, m>>
    <3> TAKE at \in B
    <3>1. at = <<at[1], at[2]>> /\ at[1] = p /\ at[2] \in Nat /\ j = Len(files[i].rows) + at[2]
      BY <1>6
    <3>2. at[2] = m
      BY <1>3, <2>2, <2>3, <3>1
    <3> QED
      BY <3>1, <3>2
  <2> HIDE DEF P, B
  <2>7. B = {<<p, m>>}
    BY <2>4, <2>6
  <2>8. Cardinality(P) = 0 /\ Cardinality(B) = 1
    BY <2>5, <2>7, FS_Singleton, FS_EmptySet
  <2> QED
    BY <2>8 DEF P, B
<1> QED
  BY <1>7, <1>8

LEMMA ClosedOnce ==
    ASSUME IInv, reply.kind = "closed", NEW id \in 1 .. given
    PROVE  Cardinality(PlacesIn({"published"}, id)) = 1
<1> DEFINE P == PlacesIn({"published"}, id)
<1>1. OnceVisible(files, id) /\ FilesGood(files)
  BY DEF IInv, Answered
<1>2. PICK i \in PublishedIn(files) : \E j \in DOMAIN files[i].rows : files[i].rows[j].id = id
  BY <1>1 DEF OnceVisible
<1>3. PICK j \in DOMAIN files[i].rows : files[i].rows[j].id = id
  BY <1>2
<1>4. /\ i \in DOMAIN files /\ files[i].state = "published"
      /\ InOrder(files[i].rows, files[i].partition, MaxRows)
      /\ DOMAIN files[i].rows \subseteq Nat \ {0}
  <2>1. i \in DOMAIN files /\ files[i].state = "published"
    BY <1>2 DEF PublishedIn
  <2>2. files[i] \in File /\ InOrder(files[i].rows, files[i].partition, MaxRows)
    BY <1>1, <2>1, FileFields DEF FilesGood, FileGood
  <2>3. files[i].rows \in Seq(Row)
    BY <2>2 DEF File
  <2>4. DOMAIN files[i].rows = 1 .. Len(files[i].rows) /\ Len(files[i].rows) \in Nat
    BY <2>3, LenProperties
  <2> QED
    BY <2>1, <2>2, <2>4
<1>5. j \in 1 .. MaxRows
  <2>1. /\ j <= files[i].rows[j].id /\ files[i].rows[j].id <= MaxRows
        /\ j \in Nat /\ j # 0 /\ id \in Nat
    BY <1>3, <1>4 DEF InOrder
  <2> QED
    BY <1>3, <2>1, BoundsAssumption
<1>6. <<i, j>> \in P
  BY <1>3, <1>4, <1>5 DEF PlacesIn
<1>7. \A at \in P : at = <<i, j>>
  <2> TAKE at \in P
  <2>1. /\ at = <<at[1], at[2]>> /\ at[1] \in DOMAIN files
        /\ files[at[1]].state = "published" /\ at[2] \in DOMAIN files[at[1]].rows
        /\ files[at[1]].rows[at[2]].id = id
    BY DEF PlacesIn
  <2>2. at[1] = i
    BY <1>1, <1>3, <2>1 DEF OnceVisible, PublishedIn
  <2>3. ~(at[2] < j) /\ ~(j < at[2]) /\ j \in Nat /\ at[2] \in Nat
    <3>1. \A u, v \in DOMAIN files[i].rows : u < v => files[i].rows[u].id < files[i].rows[v].id
      BY <1>4 DEF InOrder
    <3>2. at[2] \in DOMAIN files[i].rows /\ files[i].rows[at[2]].id = id
      BY <2>1, <2>2
    <3>3. ~(id < id)
      OBVIOUS
    <3> QED
      BY <1>3, <1>4, <3>1, <3>2, <3>3
  <2>4. at[2] = j
    BY <2>3
  <2> QED
    BY <2>1, <2>2, <2>4
<1> HIDE DEF P
<1>8. P = {<<i, j>>}
  BY <1>6, <1>7
<1> QED
  BY <1>8, FS_Singleton DEF P

(***************************************************************************)
(* No row is lost or duplicated by buffering, eviction, rotation or a      *)
(* flush: every acknowledged row is in exactly one buffer or part, and     *)
(* once close/1 has succeeded every row is in exactly one published part.  *)
(***************************************************************************)
THEOREM RowsExactlyOnce == Spec => []ExactlyOnce
<1>1. IInv => ExactlyOnce
  BY RunningOnce, ClosedOnce DEF ExactlyOnce
<1> QED
  BY <1>1, Invariance, PTL
-----------------------------------------------------------------------------
\* The refinement mapping.
DatasetState ==
    IF status = "running" THEN "open"
    ELSE IF reply.kind \in {"closed", "cancelled"} THEN reply.kind
    ELSE IF Closing(files) # {} THEN "in_doubt" ELSE "stopped"

LEMMA MappedVisible ==
    {{files[i].rows[j].id : j \in DOMAIN files[i].rows} : i \in Published}
        = VisibleIn(files)
<1>1. Published = PublishedIn(files)
  BY DEF Published, PublishedIn
<1> QED
  BY <1>1 DEF VisibleIn, Ids

\* At most one part becomes visible in a step.
LEMMA StepVisible ==
    ASSUME NEW x, NEW n \in Nat, Good(x, n), Filled(x), NEW fs, VisibleStep(x, fs)
    PROVE  \/ VisibleIn(fs) = VisibleIn(x.files)
           \/ \E part : /\ NewPart(part, VisibleIn(x.files), n)
                        /\ VisibleIn(fs) = VisibleIn(x.files) \cup {part}
<1>1. CASE PublishedIn(fs) = PublishedIn(x.files)
  BY <1>1, VisibleSame DEF VisibleStep
<1>2. ASSUME NEW q \in DOMAIN x.active,
             PublishedIn(fs) = PublishedIn(x.files) \cup {x.active[q].file},
             fs[x.active[q].file].rows = Content(x, x.active[q].file)
      PROVE  \E part : /\ NewPart(part, VisibleIn(x.files), n)
                       /\ VisibleIn(fs) = VisibleIn(x.files) \cup {part}
  <2> DEFINE k == x.active[q].file
             part == Ids(Content(x, k))
  <2>1. NewPart(part, VisibleIn(x.files), n)
    BY PartIsNew
  <2>2. \A i \in PublishedIn(x.files) : fs[i] = x.files[i]
    BY DEF VisibleStep, KeepsPublished
  <2>3. VisibleIn(fs) = VisibleIn(x.files) \cup {Ids(fs[k].rows)}
    BY <1>2, <2>2 DEF VisibleIn
  <2>4. Ids(fs[k].rows) = part
    BY <1>2
  <2> QED
    BY <2>1, <2>3, <2>4
<1> QED
  BY <1>1, <1>2 DEF VisibleStep

\* The next-state relation of the promise, under the mapping.
DatasetStep ==
    \/ /\ DatasetState = "open" /\ given' > given
       /\ VisibleIn(files)' = VisibleIn(files) /\ DatasetState' = DatasetState
    \/ /\ DatasetState = "open"
       /\ \E part : /\ NewPart(part, VisibleIn(files), given)
                    /\ VisibleIn(files)' = VisibleIn(files) \cup {part}
       /\ DatasetState' \in {"open", "stopped"} /\ given' = given
    \/ /\ DatasetState = "open" /\ UNION VisibleIn(files) = 1 .. given
       /\ DatasetState' = "closed"
       /\ given' = given /\ VisibleIn(files)' = VisibleIn(files)
    \/ /\ DatasetState = "open"
       /\ DatasetState' \in {"cancelled", "stopped", "in_doubt"}
       /\ given' = given /\ VisibleIn(files)' = VisibleIn(files)
    \/ /\ DatasetState = "in_doubt" /\ DatasetState' = "stopped"
       /\ \/ \E part : /\ NewPart(part, VisibleIn(files), given)
                       /\ VisibleIn(files)' = VisibleIn(files) \cup {part}
          \/ VisibleIn(files)' = VisibleIn(files)
       /\ given' = given
    \/ /\ given' = given /\ VisibleIn(files)' = VisibleIn(files)
       /\ DatasetState' = DatasetState

\* A step in which a part may become visible.
LEMMA VisibleRefines ==
    ASSUME IInv, Running, status = "running", VisibleStep(Now, files'), given' = given,
           \/ DatasetState' \in {"open", "stopped"}
           \/ /\ DatasetState' = "in_doubt"
              /\ PublishedIn(files') = PublishedIn(files)
    PROVE  DatasetStep
<1>1. /\ Good(Now, Done) /\ Filled(Now) /\ Done \in Nat /\ Done <= given /\ given \in Nat
      /\ Now.files = files
  BY DoneType, NowFields DEF Running
<1>2. \/ VisibleIn(files') = VisibleIn(files)
      \/ \E part : /\ NewPart(part, VisibleIn(files), Done)
                   /\ VisibleIn(files') = VisibleIn(files) \cup {part}
  BY <1>1, StepVisible
<1>3. \A part : NewPart(part, VisibleIn(files), Done) => NewPart(part, VisibleIn(files), given)
  BY <1>1 DEF NewPart
<1>4. DatasetState = "open"
  BY DEF DatasetState
<1>5. CASE VisibleIn(files') = VisibleIn(files)
  BY <1>4, <1>5 DEF DatasetStep
<1>6. CASE /\ DatasetState' \in {"open", "stopped"}
           /\ \E part : /\ NewPart(part, VisibleIn(files), Done)
                        /\ VisibleIn(files') = VisibleIn(files) \cup {part}
  <2>1. \E part : /\ NewPart(part, VisibleIn(files), given)
                  /\ VisibleIn(files)' = VisibleIn(files) \cup {part}
    BY <1>3, <1>6
  <2> QED
    BY <1>4, <1>6, <2>1 DEF DatasetStep
<1>7. CASE /\ DatasetState' = "in_doubt"
           /\ PublishedIn(files') = PublishedIn(files)
  <2>1. VisibleIn(files') = VisibleIn(files)
    BY <1>1, <1>7, VisibleSame DEF VisibleStep
  <2> QED
    BY <1>4, <1>7, <2>1 DEF DatasetStep
<1> QED
  BY <1>2, <1>5, <1>6, <1>7

LEMMA StepRefines == IInv /\ [Next]_vars => DatasetStep
<1> SUFFICES ASSUME IInv, [Next]_vars PROVE DatasetStep
  OBVIOUS
<1>0. status = "running" => Running /\ DatasetState = "open"
  BY DEF IInv, DatasetState
<1>1. ASSUME NEW n \in 1 .. MaxCallRows, NEW inputs \in [1 .. n -> Input],
             given + n <= MaxRows, StartWrite(Numbered(inputs))
      PROVE  DatasetStep
  <2>1. /\ status = "running" /\ given' = given + Len(Numbered(inputs))
        /\ files' = files /\ status' = status /\ reply' = reply
    BY <1>1 DEF StartWrite
  <2>2. Len(Numbered(inputs)) = n
    <3>1. DOMAIN Numbered(inputs) = 1 .. n /\ n \in Nat
      BY BoundsAssumption DEF Numbered
    <3> QED
      BY <3>1
  <2>3. given' > given
    BY <1>0, <2>1, <2>2, BoundsAssumption DEF Running
  <2> QED
    BY <1>0, <2>1, <2>3 DEF DatasetStep, DatasetState
<1>2. CASE RouteRow
  <2>1. VisibleStep(Now, files') /\ status = "running" /\ given' = given /\ status' = status
    BY <1>2, RouteRowInv DEF RouteRow, IInv, Stopped
  <2> QED
    BY <1>0, <2>1, VisibleRefines DEF DatasetState
<1>3. CASE WriteFails
  <2>1. /\ VisibleStep(Now, files') /\ status = "running" /\ given' = given
        /\ status' = "stopped" /\ reply'.kind = "write_failed"
        /\ Closing(files') = {} \/ PublishedIn(files') = PublishedIn(files)
    BY <1>3, WriteFailsInv DEF WriteFails, IInv, Stopped
  <2> QED
    BY <1>0, <2>1, VisibleRefines DEF DatasetState
<1>4. CASE CloseOldest
  <2>1. VisibleStep(Now, files') /\ status = "running" /\ given' = given /\ status' = status
    BY <1>4, CloseOldestInv DEF CloseOldest, IInv, Stopped
  <2> QED
    BY <1>0, <2>1, VisibleRefines DEF DatasetState
<1>5. CASE CloseFails
  <2>1. /\ VisibleStep(Now, files') /\ status = "running" /\ given' = given
        /\ status' = "stopped" /\ reply'.kind = "close_failed"
        /\ PublishedIn(files') = PublishedIn(files)
    BY <1>5, CloseFailsInv DEF CloseFails, IInv, Stopped
  <2> QED
    BY <1>0, <2>1, VisibleRefines DEF DatasetState
<1>6. CASE ReplyClose
  <2>1. /\ status = "running" /\ given' = given /\ DOMAIN Now.active = {}
        /\ PublishedIn(files') = PublishedIn(files) /\ KeepsPublished(files, files')
        /\ status' = "stopped" /\ reply'.kind = "closed" /\ pending = <<>>
    BY <1>6, ReplyCloseInv, NowFields DEF ReplyClose, IInv, Stopped, Running, VisibleStep
  <2>2. Good(Now, given) /\ given \in Nat
    BY <1>0, <2>1, DoneType DEF Running
  <2>3. /\ \A id \in 1 .. given : OnceVisible(files, id)
        /\ \A i \in PublishedIn(files) : \A j \in DOMAIN files[i].rows :
              files[i].rows[j].id \in 1 .. given
    BY <2>1, <2>2, NowFields, AllVisible
  <2>4. UNION VisibleIn(files) = 1 .. given
    BY <2>3 DEF VisibleIn, Ids, OnceVisible
  <2>5. VisibleIn(files') = VisibleIn(files)
    BY <2>1, VisibleSame
  <2> QED
    BY <1>0, <2>1, <2>4, <2>5 DEF DatasetStep, DatasetState
<1>7. CASE Cancel
  <2>1. /\ status = "running" /\ given' = given
        /\ PublishedIn(files') = PublishedIn(files) /\ KeepsPublished(files, files')
        /\ status' = "stopped" /\ reply'.kind = "cancelled"
    BY <1>7, CancelInv DEF Cancel
  <2>2. VisibleIn(files') = VisibleIn(files)
    BY <2>1, VisibleSame
  <2> QED
    BY <1>0, <2>1, <2>2 DEF DatasetStep, DatasetState
<1>8. CASE Killed
  <2>1. /\ VisibleStep(Now, files') /\ status = "running" /\ given' = given
        /\ status' = "stopped" /\ reply'.kind = "none"
        /\ Closing(files') = {} \/ PublishedIn(files') = PublishedIn(files)
    BY <1>8, KilledInv DEF Killed, NoReply
  <2> QED
    BY <1>0, <2>1, VisibleRefines DEF DatasetState
<1>9. ASSUME NEW i \in DOMAIN files, NativeDown(i) PROVE DatasetStep
  <2>1. /\ UNCHANGED <<status, reply, given>> /\ Closing(files') = Closing(files)
        /\ PublishedIn(files') = PublishedIn(files) /\ KeepsPublished(files, files')
    BY <1>9, NativeDownInv
  <2>2. VisibleIn(files') = VisibleIn(files)
    BY <2>1, VisibleSame
  <2> QED
    BY <2>1, <2>2 DEF DatasetStep, DatasetState
<1>10. CASE ReplyWrite \/ StartClose \/ UNCHANGED vars
  <2>1. UNCHANGED <<status, reply, given, files>>
    BY <1>10 DEF ReplyWrite, StartClose, vars
  <2> QED
    BY <2>1 DEF DatasetStep, DatasetState
<1>11. ASSUME NEW i \in DOMAIN files, NativeCloseEnds(i) PROVE DatasetStep
  <2>1. /\ UNCHANGED <<status, reply, given>> /\ KeepsPublished(files, files')
        /\ Closing(files') = {} /\ i \in Closing(files)
        /\ status = "stopped" /\ reply.kind \notin {"closed", "cancelled"}
        /\ NewPart(Ids(files[i].rows), VisibleIn(files), given)
        /\ \/ PublishedIn(files') = PublishedIn(files)
           \/ /\ PublishedIn(files') = PublishedIn(files) \cup {i}
              /\ files'[i].rows = files[i].rows
    BY <1>11, NativeCloseEndsInv
  <2>2. DatasetState = "in_doubt" /\ DatasetState' = "stopped"
    BY <2>1 DEF DatasetState
  <2>3. CASE PublishedIn(files') = PublishedIn(files)
    <3>1. VisibleIn(files') = VisibleIn(files)
      BY <2>1, <2>3, VisibleSame
    <3> QED
      BY <2>1, <2>2, <3>1 DEF DatasetStep
  <2>4. CASE /\ PublishedIn(files') = PublishedIn(files) \cup {i}
             /\ files'[i].rows = files[i].rows
    <3>1. VisibleIn(files') = VisibleIn(files) \cup {Ids(files[i].rows)}
      BY <2>1, <2>4 DEF VisibleIn, KeepsPublished
    <3>2. \E part : /\ NewPart(part, VisibleIn(files), given)
                    /\ VisibleIn(files)' = VisibleIn(files) \cup {part}
      BY <2>1, <3>1
    <3> QED
      BY <2>1, <2>2, <3>2 DEF DatasetStep
  <2> QED
    BY <2>1, <2>3, <2>4
<1> QED
  BY <1>1, <1>2, <1>3, <1>4, <1>5, <1>6, <1>7, <1>8, <1>9, <1>10, <1>11 DEF Next

(***************************************************************************)
(* The dataset writer implements the promise of module Dataset: parts      *)
(* appear whole, of rows not visible before, and stay; close/1 succeeds    *)
(* only when every row given is visible; and once the server has stopped,  *)
(* also when it is killed with parts still open, no part appears but the   *)
(* one whose native close it has not seen the end of, which after close/1  *)
(* and cancel/1 there is not.                                              *)
(***************************************************************************)
THEOREM Refinement == Spec => ImplementsDataset
<1>1. Init => Promise!DatasetInit
  <2> SUFFICES ASSUME Init PROVE Promise!DatasetInit
    OBVIOUS
  <2>1. Published = {}
    BY DEF Init, Published
  <2> QED
    BY <2>1 DEF Init, Promise!DatasetInit
<1>2. IInv /\ [Next]_vars => [Promise!DatasetNext]_(Promise!datasetVars)
  <2> SUFFICES ASSUME DatasetStep
               PROVE  [Promise!DatasetNext]_(Promise!datasetVars)
    BY StepRefines
  <2> DEFINE V == {{files[i].rows[j].id : j \in DOMAIN files[i].rows} : i \in Published}
             S == IF status = "running" THEN "open"
                  ELSE IF reply.kind \in {"closed", "cancelled"} THEN reply.kind
                  ELSE IF Closing(files) # {} THEN "in_doubt" ELSE "stopped"
  <2>1. V = VisibleIn(files) /\ V' = VisibleIn(files)' /\ S = DatasetState /\ S' = DatasetState'
    <3>1. V = VisibleIn(files)
      BY MappedVisible
    <3>2. (V = VisibleIn(files))'
      BY MappedVisible, PTL
    <3> QED
      BY <3>1, <3>2 DEF DatasetState
  <2> HIDE DEF V, S
  <2>2. \/ S = "open" /\ given' > given /\ V' = V /\ S' = S
        \/ /\ S = "open"
           /\ \E part \in (SUBSET ((1 .. given) \ UNION V)) \ {{}} : V' = V \cup {part}
           /\ S' \in {"open", "stopped"} /\ given' = given
        \/ S = "open" /\ UNION V = 1 .. given /\ S' = "closed" /\ given' = given /\ V' = V
        \/ /\ S = "open" /\ S' \in {"cancelled", "stopped", "in_doubt"}
           /\ given' = given /\ V' = V
        \/ /\ S = "in_doubt" /\ S' = "stopped" /\ given' = given
           /\ \/ \E part \in (SUBSET ((1 .. given) \ UNION V)) \ {{}} : V' = V \cup {part}
              \/ V' = V
        \/ given' = given /\ V' = V /\ S' = S
    BY <2>1 DEF DatasetStep, NewPart
  <2> QED
    BY <2>2
    DEF V, S, Promise!DatasetNext, Promise!datasetVars, Promise!Take, Promise!Complete,
        Promise!Close, Promise!End, Promise!Settle, Promise!NewParts
<1> QED
  BY <1>1, <1>2, Invariance, PTL DEF Spec, ImplementsDataset, Promise!DatasetSpec
=============================================================================
