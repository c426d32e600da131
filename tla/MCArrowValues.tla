--------------------------- MODULE MCArrowValues ---------------------------
EXTENDS ArrowValues

(* Terms: integers at the edges of their widths, floats, binaries. *)
Signs(bits) == {<<b, TRUE>> : b \in {c \in {8, 16, 32, 64, 72, 128, 256} : c >= bits}}
Naught(bits) == {<<b, FALSE>> : b \in {c \in {8, 16, 32, 64} : c >= bits}}
One == [name |-> "1", widths |-> Signs(8) \cup Naught(8), digits |-> 1]
Below == [name |-> "-129", widths |-> Signs(16), digits |-> 4]
Byte == [name |-> "255", widths |-> Signs(16) \cup Naught(8), digits |-> 3]
Huge == [name |-> "2^64", widths |-> Signs(72), digits |-> 20]
Vast == [name |-> "2^100", widths |-> Signs(128), digits |-> 31]

IntTerm(i) == [is |-> "int", v |-> i]
ListTerm(s) == [is |-> "list", v |-> s]
MapTerm(m) == [is |-> "map", v |-> m]
Bin(length, utf8, int, shortest) ==
    [is |-> "binary",
     v |-> [length |-> length, utf8 |-> utf8, int |-> int, shortest |-> shortest]]

Leaves ==
    {Nil, [is |-> "bool", v |-> TRUE], ListTerm(<<>>)}
    \cup {IntTerm(i) : i \in {One, Below, Byte, Huge}}
    \cup {[is |-> "float", v |-> f] : f \in {"single", "double", "vast"}}
    \cup {Text(One), Bin(2, TRUE, One, FALSE), Text(Byte), Text(Huge), Text(Vast), Bin(2, FALSE, None, TRUE),
          Bin(0, TRUE, None, TRUE)}

(* Descriptors, some of them not supported. *)
Field(n, nullable, d) == [name |-> n, nullable |-> nullable, type |-> d]
IntType(bits, signed) == [Descriptor("integer") EXCEPT !.bits = bits, !.signed = signed]
Zone(u, z) == [Descriptor("timestamp") EXCEPT !.unit = u, !.zone = z]
LeafTypes ==
    {Descriptor(k) : k \in DOMAIN Plain \cup {"fixed_binary", "union"}}
    \cup {IntType(b, g) : b \in {8, 16, 32, 64, 128}, g \in {TRUE, FALSE}}
    \cup {[Descriptor("float") EXCEPT !.bits = b] : b \in {16, 32, 64}}
    \cup {[Descriptor("fixed_binary") EXCEPT !.length = n] : n \in {0, 2}}
    \cup {[Descriptor("time") EXCEPT !.bits = b, !.unit = u] : b \in {32, 64}, u \in Units}
    \cup {Zone(u, z) : u \in Units, z \in {None, "UTC"}}
    \cup {[Descriptor("duration") EXCEPT !.unit = u] : u \in Units \cup {"day"}}
    \cup {[Descriptor("decimal") EXCEPT !.bits = b, !.precision = p, !.scale = 2] :
             b \in {16, 32, 64, 128, 256}, p \in {0, 5}}
    \cup {[Descriptor("decimal") EXCEPT !.bits = 128, !.precision = p, !.scale = 2] :
             p \in {12, 20}}

ListOf(kind, f, n) == [Descriptor(kind) EXCEPT !.children = <<f>>, !.length = n]
StructOf(fields) == [Descriptor("struct") EXCEPT !.children = fields]
Small == IntType(8, TRUE)
Pair == StructOf(<<Field("a", FALSE, Small), Field("b", TRUE, Small)>>)
OneField == StructOf(<<Field("a", FALSE, Small)>>)
Twice == ListOf("fixed_list", Field("item", TRUE, Small), 2)
Many == ListOf("list", Field("item", FALSE, IntType(16, TRUE)), None)
Price == [Descriptor("decimal") EXCEPT !.bits = 128, !.precision = 5, !.scale = 2]
Prices == StructOf(<<Field("a", TRUE, ListOf("list", Field("item", TRUE, Price), None))>>)

ListTypes == {ListOf("list", Field("item", n, Small), None) : n \in BOOLEAN}
ZeroType == ListOf("fixed_list", Field("item", FALSE, Small), 0)
Deep(t) ==
    {ListOf(k, Field("item", TRUE, t), None) : k \in {"list", "large_list"}}
    \cup {ListOf("fixed_list", Field("item", n, t), 2) : n \in BOOLEAN}
Mixed == StructOf(<<Field("a", TRUE, Twice), Field("b", FALSE, Many)>>)

(* Terms for these types: nulls, lists of up to two, maps with a key less or more. *)
UpTo2(S) ==
    {Nil, ListTerm(<<>>)} \cup {ListTerm(<<x>>) : x \in S}
    \cup {ListTerm(<<x, y>>) : x \in S, y \in S}
Maps(A, B) ==
    {Nil, MapTerm([z |-> Nil])}
    \cup {MapTerm([a |-> x, b |-> y]) : x \in A, y \in B}

SmallTerms == {Nil, IntTerm(One), IntTerm(Below)}
SmallLists == UpTo2(SmallTerms)
Pairs == Maps(SmallTerms, SmallTerms)
OneFields == Maps(SmallTerms, {Nil})
Manys == UpTo2({Nil, IntTerm(One)})
DeepOneFields == UpTo2(OneFields)
DeepManys == UpTo2(Manys)
MixedTerms == Maps(SmallLists, Manys)
PriceTerms == {Nil} \cup {MapTerm([a |-> l]) : l \in UpTo2({Nil, Text(One), Text(Huge)})}

Column(n, terms) == [name |-> n, terms |-> terms]
Columns(terms, n) ==
    {[rows |-> n, columns |-> <<Column("x", ts)>>] : ts \in [1 .. n -> terms]}
Ones(n) == [i \in 1 .. n |-> IntTerm(One)]

(* Shapes: too many rows, a column missing, misnamed or too short. *)
TwoFields == <<Field("x", TRUE, Small), Field("y", TRUE, Small)>>
Shapes ==
    {[rows |-> n, columns |-> <<Column("x", Ones(n)), Column(m, Ones(k))>>] :
        n \in 0 .. MaxRows + 1, k \in 0 .. MaxRows + 1, m \in {"y", "z"}}
    \cup {[rows |-> 1, columns |-> <<Column("x", Ones(1))>>]}

Single(ds) == {<<Field("x", TRUE, d)>> : d \in ds}
MCSchemas ==
    {TwoFields} \cup {<<Field("x", n, d)>> : n \in BOOLEAN, d \in LeafTypes}
    \cup Single(ListTypes \cup {Twice, ZeroType, Pair, Mixed, Prices, StructOf(<<>>)} \cup Deep(OneField) \cup Deep(Many))

MCBatches(s) ==
    LET d == s[1].type
    IN  CASE s = TwoFields -> Shapes
          [] d \in ListTypes \cup {Twice, ZeroType} -> Columns(SmallLists, 3)
          [] d = Pair -> Columns(Pairs, 3)
          [] d = Prices -> Columns(PriceTerms, 2)
          [] d = Mixed -> Columns(MixedTerms, 2)
          [] d \in Deep(OneField) -> Columns(DeepOneFields, 2)
          [] d \in Deep(Many) -> Columns(DeepManys, 2)
          [] OTHER -> Columns(Leaves, 1)
=============================================================================
