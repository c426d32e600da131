---------------------------- MODULE ArrowValues ----------------------------
(***************************************************************************)
(* One batch from Elixir terms to Arrow arrays and back: the schema and    *)
(* value conversion of writer.rs (arrow_data_type, decode_batch,           *)
(* append_value) and of reader.rs (native_data_type, encode_batch).  A     *)
(* nested array has no values of its own: the rows of a list, a fixed list *)
(* or a struct are found in the child arrays by position, so every append  *)
(* must keep the children aligned.  The Parquet file between writer and    *)
(* reader is external; it keeps the arrays, but stores a decimal in the    *)
(* physical type of its precision.                                         *)
(*                                                                         *)
(* A term is a record [is, v] where is is "nil", "bool", "int", "float",   *)
(* "binary", "list" or "map".  An integer is known by its name, the widths *)
(* that hold it and its number of digits.  A float is "single" (exact in   *)
(* 32 bits), "double", "rounded" (a double after 32 bits) or "vast" (too   *)
(* large for 32 bits).  A binary has a length, may be UTF-8, and may be    *)
(* the text of an integer, in its shortest form or not.                    *)
(***************************************************************************)
EXTENDS Integers, Sequences, SequencesExt

CONSTANTS Schemas,     \* schemas a writer is opened with
          Batches(_),  \* the batches that are written with a schema
          MaxRows,     \* max_rows of decode_batch
          None         \* an absent option; a refusal

VARIABLES
    schema,    \* the fields as descriptors, [name, nullable, type]
    batch,     \* [rows, columns], a column is [name, terms]
    pc,        \* "open", "shape", "columns", "written", "encode", "done", or where
               \* it ended: "unsupported" (the schema), "invalid" (the batch)
    types,     \* the Arrow types of the fields
    arrays,    \* the arrays built so far
    readBack,  \* the descriptors the reader answers
    output     \* the columns the reader answers

vars == <<schema, batch, pc, types, arrays, readBack, output>>

Nil == [is |-> "nil", v |-> None]
Refused == None

Init ==
    /\ schema \in Schemas /\ batch \in Batches(schema)
    /\ pc = "open" /\ types = <<>> /\ arrays = <<>> /\ readBack = <<>> /\ output = <<>>
-----------------------------------------------------------------------------
(* Descriptors and Arrow types. *)
Units == {"second", "millisecond", "microsecond", "nanosecond"}
Plain == [null |-> "Null", boolean |-> "Boolean", utf8 |-> "Utf8",
          binary |-> "Binary", date32 |-> "Date32", date64 |-> "Date64"]
Lists == [list |-> "List", large_list |-> "LargeList"]

(* The units a time of 32 and of 64 bits has. *)
TimeUnits(bits) ==
    CASE bits = 32 -> {"second", "millisecond"}
      [] bits = 64 -> {"microsecond", "nanosecond"}
      [] OTHER -> {}

RECURSIVE ArrowType(_)
ArrowField(f) ==
    LET t == ArrowType(f.type)
    IN  IF t = Refused THEN Refused ELSE [f EXCEPT !.type = t]

(* arrow_data_type: the first child of a list, every child of a struct. *)
ArrowType(d) ==
    LET k == d.kind
        fields == [i \in DOMAIN d.children |-> ArrowField(d.children[i])]
        If(valid, t) == IF valid THEN t ELSE Refused
    IN  CASE k \in DOMAIN Plain -> [arrow |-> Plain[k]]
          [] k = "integer" ->
                If(d.bits \in {8, 16, 32, 64} /\ d.signed \in {TRUE, FALSE},
                   [arrow |-> "Int", bits |-> d.bits, signed |-> d.signed])
          [] k = "float" ->
                If(d.bits \in {32, 64}, [arrow |-> "Float", bits |-> d.bits])
          [] k = "fixed_binary" ->
                If(d.length # None, [arrow |-> "FixedSizeBinary", length |-> d.length])
          [] k = "time" ->
                If(d.unit \in TimeUnits(d.bits),
                   [arrow |-> "Time", bits |-> d.bits, unit |-> d.unit])
          [] k = "timestamp" ->
                If(d.unit \in Units,
                   [arrow |-> "Timestamp", unit |-> d.unit, zone |-> d.zone])
          [] k = "duration" ->
                If(d.unit \in Units, [arrow |-> "Duration", unit |-> d.unit])
          [] k = "decimal" ->
                If(d.bits \in {32, 64, 128, 256} /\ None \notin {d.precision, d.scale},
                   [arrow |-> "Decimal", bits |-> d.bits, precision |-> d.precision,
                    scale |-> d.scale])
          [] k \in DOMAIN Lists ->
                If(fields # <<>> /\ fields[1] # Refused,
                   [arrow |-> Lists[k], field |-> fields[1]])
          [] k = "fixed_list" ->
                If(fields # <<>> /\ fields[1] # Refused /\ d.length # None,
                   [arrow |-> "FixedSizeList", field |-> fields[1], length |-> d.length])
          [] k = "struct" ->
                If(Refused \notin Range(fields), [arrow |-> "Struct", fields |-> fields])
          [] OTHER -> Refused

(* What native_schema of the Elixir writer refuses beyond that: decode_type *)
(* wants positive lengths and precisions, valid_fields? a field in a struct. *)
RECURSIVE DecodeType(_)
DecodeType(d) ==
    /\ 0 \notin {d.length, d.precision}
    /\ d.kind = "struct" => d.children # <<>>
    /\ \A i \in DOMAIN d.children : DecodeType(d.children[i].type)

(* native_data_type, the reader's side: a fixed length must be positive. *)
Descriptor(kind) ==
    [kind |-> kind, bits |-> None, signed |-> None, unit |-> None, zone |-> None,
     precision |-> None, scale |-> None, length |-> None, children |-> <<>>]

RECURSIVE NativeType(_)
NativeField(f) ==
    LET d == NativeType(f.type)
    IN  IF d = Refused THEN Refused ELSE [f EXCEPT !.type = d]

Nested(kind, fields, length) ==
    LET children == [i \in DOMAIN fields |-> NativeField(fields[i])]
    IN  IF Refused \in Range(children) THEN Refused
        ELSE [Descriptor(kind) EXCEPT !.children = children, !.length = length]

KindOf(table, arrow) == CHOOSE k \in DOMAIN table : table[k] = arrow

NativeType(t) ==
    LET a == t.arrow
    IN  CASE a \in Range(Plain) -> Descriptor(KindOf(Plain, a))
          [] a = "Int" -> [Descriptor("integer") EXCEPT !.bits = t.bits, !.signed = t.signed]
          [] a = "Float" -> [Descriptor("float") EXCEPT !.bits = t.bits]
          [] a = "FixedSizeBinary" ->
                IF t.length > 0 THEN [Descriptor("fixed_binary") EXCEPT !.length = t.length]
                ELSE Refused
          [] a = "Time" -> [Descriptor("time") EXCEPT !.bits = t.bits, !.unit = t.unit]
          [] a = "Timestamp" ->
                [Descriptor("timestamp") EXCEPT !.unit = t.unit, !.zone = t.zone]
          [] a = "Duration" -> [Descriptor("duration") EXCEPT !.unit = t.unit]
          [] a = "Decimal" ->
                [Descriptor("decimal") EXCEPT !.bits = t.bits, !.precision = t.precision,
                                              !.scale = t.scale]
          [] a \in Range(Lists) -> Nested(KindOf(Lists, a), <<t.field>>, None)
          [] a = "FixedSizeList" ->
                IF t.length > 0 THEN Nested("fixed_list", <<t.field>>, t.length) ELSE Refused
          [] a = "Struct" -> Nested("struct", t.fields, None)
-----------------------------------------------------------------------------
(***************************************************************************)
(* Builders.  valid[i] says whether row i is a value; a leaf keeps it in   *)
(* values[i].  Row i of a list is what its child has up to ends[i] and not *)
(* yet up to ends[i - 1]; of a fixed list, the i-th run of length child    *)
(* rows; of a struct, row i of every child.                                *)
(***************************************************************************)
RECURSIVE MakeBuilder(_)
MakeBuilder(t) ==
    CASE t.arrow \in Range(Lists) ->
            [valid |-> <<>>, ends |-> <<>>, child |-> MakeBuilder(t.field.type)]
      [] t.arrow = "FixedSizeList" ->
            [valid |-> <<>>, child |-> MakeBuilder(t.field.type)]
      [] t.arrow = "Struct" ->
            [valid |-> <<>>,
             children |-> [i \in DOMAIN t.fields |-> MakeBuilder(t.fields[i].type)]]
      [] OTHER -> [valid |-> <<>>, values |-> <<>>]

Rows(b) == Len(b.valid)
AppendRow(b, valid) == [b EXCEPT !.valid = Append(@, valid)]
AppendLeaf(b, value) == [AppendRow(b, TRUE) EXCEPT !.values = Append(@, value)]

(* ListBuilder::append ends the row where the child ends. *)
AppendList(b, valid) == [AppendRow(b, valid) EXCEPT !.ends = Append(@, Rows(b.child))]

(* append_null: children that are found by position get a null too. *)
RECURSIVE AppendNull(_, _)
RECURSIVE AppendNulls(_, _, _)
AppendNulls(b, t, n) == IF n <= 0 THEN b ELSE AppendNulls(AppendNull(b, t), t, n - 1)

(* MUTANT: a null struct leaves its children alone. *)
NullStructBare(b, t) == AppendRow(b, FALSE)

NullStruct(b, t) ==
    [AppendRow(b, FALSE) EXCEPT
        !.children = [i \in DOMAIN @ |-> AppendNull(@[i], t.fields[i].type)]]

NullFixedList(b, t) ==
    [AppendRow(b, FALSE) EXCEPT !.child = AppendNulls(@, t.field.type, t.length)]

AppendNull(b, t) ==
    CASE t.arrow \in Range(Lists) -> AppendList(b, FALSE)
      [] t.arrow = "FixedSizeList" -> NullFixedList(b, t)
      [] t.arrow = "Struct" -> NullStruct(b, t)
      [] OTHER -> [AppendRow(b, FALSE) EXCEPT !.values = Append(@, None)]

(* The integer of a decimal is written as text. *)
Text(int) ==
    [is |-> "binary", v |-> [length |-> int.digits, utf8 |-> TRUE, int |-> int,
                             shortest |-> TRUE]]

(* string_value, binary_value, fixed_binary_value. *)
BinaryValue(t, term) ==
    IF /\ term.is = "binary"
       /\ t.arrow = "Utf8" => term.v.utf8
       /\ t.arrow = "FixedSizeBinary" => term.v.length = t.length
    THEN term ELSE Refused

(* primitive!, decimal!: what the builder gets for a term. *)
Signed(bits, term) == term.is = "int" /\ <<bits, TRUE>> \in term.v.widths

LeafValue(t, term) ==
    LET If(ok, value) == IF ok THEN value ELSE Refused
        a == t.arrow
    IN  CASE a = "Boolean" -> If(term.is = "bool", term)
          [] a = "Int" ->
                If(term.is = "int" /\ <<t.bits, t.signed>> \in term.v.widths, term)
          [] a = "Float" ->
                IF term.is # "float" \/ (t.bits = 32 /\ term.v = "vast") THEN Refused
                ELSE IF t.bits = 32 /\ term.v = "double" THEN [term EXCEPT !.v = "rounded"]
                ELSE term
          [] a = "Date32" -> If(Signed(32, term), term)
          [] a = "Time" -> If(Signed(t.bits, term), term)
          [] a \in {"Date64", "Timestamp", "Duration"} -> If(Signed(64, term), term)
          [] a = "Decimal" ->
                If(/\ term.is = "binary" /\ term.v.int # None
                   /\ <<t.bits, TRUE>> \in term.v.int.widths, term)
          [] a \in {"Utf8", "Binary", "FixedSizeBinary"} -> BinaryValue(t, term)
          [] a = "Null" -> Refused

RECURSIVE AppendValue(_, _, _, _)
RECURSIVE AppendItems(_, _, _)
AppendItems(b, field, items) ==
    IF b = Refused \/ items = <<>> THEN b
    ELSE AppendItems(AppendValue(b, field.type, field.nullable, Head(items)),
                     field, Tail(items))

(* list_value: the items go to the child, then the row is ended. *)
(* MUTANT: the row is ended first. *)
ListValueEnded(b, t, items) ==
    LET child == AppendItems(b.child, t.field, items)
    IN  IF child = Refused THEN Refused ELSE [AppendList(b, TRUE) EXCEPT !.child = child]

ListValue(b, t, items) ==
    LET child == AppendItems(b.child, t.field, items)
    IN  IF child = Refused THEN Refused ELSE AppendList([b EXCEPT !.child = child], TRUE)

FixedListValue(b, t, items) ==
    LET child == AppendItems(b.child, t.field, items)
    IN  IF Len(items) # t.length \/ child = Refused THEN Refused
        ELSE AppendRow([b EXCEPT !.child = child], TRUE)

(* struct_value: a field for every name the schema has; others are ignored. *)
StructValue(b, t, map) ==
    LET children ==
            [i \in DOMAIN t.fields |->
                LET f == t.fields[i]
                IN  IF f.name \notin DOMAIN map THEN Refused
                    ELSE AppendValue(b.children[i], f.type, f.nullable, map[f.name])]
    IN  IF Refused \in Range(children) THEN Refused
        ELSE AppendRow([b EXCEPT !.children = children], TRUE)

AppendValue(b, t, nullable, term) ==
    IF term = Nil THEN IF nullable THEN AppendNull(b, t) ELSE Refused
    ELSE CASE t.arrow \in Range(Lists) ->
                 IF term.is = "list" THEN ListValue(b, t, term.v) ELSE Refused
           [] t.arrow = "FixedSizeList" ->
                 IF term.is = "list" THEN FixedListValue(b, t, term.v) ELSE Refused
           [] t.arrow = "Struct" ->
                 IF term.is = "map" THEN StructValue(b, t, term.v) ELSE Refused
           [] OTHER ->
                 LET value == LeafValue(t, term)
                 IN  IF value = Refused THEN Refused ELSE AppendLeaf(b, value)

BuildArray(field, terms) == AppendItems(MakeBuilder(field.type), field, terms)

(* A builder finishes only if the children have a row for every row. *)
RECURSIVE Aligned(_, _)
Aligned(t, a) ==
    CASE t.arrow \in Range(Lists) -> Aligned(t.field.type, a.child)
      [] t.arrow = "FixedSizeList" ->
            Rows(a.child) = t.length * Rows(a) /\ Aligned(t.field.type, a.child)
      [] t.arrow = "Struct" ->
            \A i \in DOMAIN t.fields :
                Rows(a.children[i]) = Rows(a) /\ Aligned(t.fields[i].type, a.children[i])
      [] OTHER -> Rows(a) = Len(a.values)
-----------------------------------------------------------------------------
(* encode_boolean, encode_primitive, encode_string, ...: only a decimal changes. *)
EncodeLeaf(t, value) == IF t.arrow = "Decimal" THEN Text(value.v.int) ELSE value

(* encode_value: a null hides what lies below it. *)
RECURSIVE EncodeValue(_, _, _)
EncodeRange(t, a, first, last) ==
    [is |-> "list", v |-> [i \in 1 .. last - first + 1 |-> EncodeValue(t, a, first + i - 1)]]

EncodeValue(t, a, i) ==
    IF t.arrow = "Null" \/ ~a.valid[i] THEN Nil
    ELSE CASE t.arrow \in Range(Lists) ->
                 EncodeRange(t.field.type, a.child, IF i = 1 THEN 1 ELSE a.ends[i - 1] + 1,
                             a.ends[i])
           [] t.arrow = "FixedSizeList" ->
                 EncodeRange(t.field.type, a.child, (i - 1) * t.length + 1, i * t.length)
           [] t.arrow = "Struct" ->
                 [is |-> "map",
                  v |-> [n \in {f.name : f \in Range(t.fields)} |->
                            LET j == CHOOSE j \in DOMAIN t.fields : t.fields[j].name = n
                            IN  EncodeValue(t.fields[j].type, a.children[j], i)]]
           [] OTHER -> EncodeLeaf(t, a.values[i])

EncodeArray(field, a) == [i \in 1 .. Rows(a) |-> EncodeValue(field.type, a, i)]
-----------------------------------------------------------------------------
End(where) == pc' = where /\ UNCHANGED <<schema, batch, types, arrays, readBack, output>>

(* Writer.open: native_schema takes every field, and each has an Arrow type. *)
OpenWriter ==
    /\ pc = "open"
    /\ LET fields == [i \in DOMAIN schema |-> ArrowField(schema[i])]
           Taken == /\ \A i \in DOMAIN schema : DecodeType(schema[i].type)
                    /\ Refused \notin Range(fields)
       IN  \/ ~Taken /\ End("unsupported")
          \/ /\ Taken
             /\ types' = fields /\ pc' = "shape"
             /\ UNCHANGED <<schema, batch, arrays, readBack, output>>

(* decode_batch: the shape, then column by column. *)
BadShape == batch.rows > MaxRows \/ Len(batch.columns) # Len(types)

DecodeShape ==
    /\ pc = "shape"
    /\ End(IF BadShape THEN "invalid" ELSE "columns")

DecodeColumn ==
    /\ pc = "columns" /\ Len(arrays) < Len(types)
    /\ LET field == types[Len(arrays) + 1]
           column == batch.columns[Len(arrays) + 1]
           array == BuildArray(field, column.terms)
           Built == /\ column.name = field.name /\ Len(column.terms) = batch.rows
                    /\ array # Refused /\ Aligned(field.type, array)
       IN  IF Built
           THEN /\ arrays' = Append(arrays, array)
                /\ UNCHANGED <<schema, batch, pc, types, readBack, output>>
           ELSE End("invalid")

(***************************************************************************)
(* The Parquet file: INT32 for a precision up to 9, INT64 up to 18, else   *)
(* as many bytes as 10^precision needs (3.321928 is the logarithm of 10 to *)
(* base 2).  append_value has checked a decimal against its bit width, not *)
(* against its precision; of an integer too wide for the physical type the *)
(* low bits are kept, another number.                                      *)
(***************************************************************************)
PhysicalBits(precision) ==
    IF precision <= 9 THEN 32
    ELSE IF precision <= 18 THEN 64
    ELSE 8 * ((3321928 * precision + 8999999) \div 8000000)

LowBits == [name |-> "low bits", widths |-> {}, digits |-> 1]

Narrowed(precision, int) ==
    IF <<PhysicalBits(precision), TRUE>> \in int.widths THEN int ELSE LowBits

RECURSIVE Stored(_, _)
Stored(t, a) ==
    CASE t.arrow \in Range(Lists) \cup {"FixedSizeList"} ->
            [a EXCEPT !.child = Stored(t.field.type, @)]
      [] t.arrow = "Struct" ->
            [a EXCEPT !.children = [i \in DOMAIN @ |-> Stored(t.fields[i].type, @[i])]]
      [] t.arrow = "Decimal" ->
            [a EXCEPT !.values =
                [i \in DOMAIN @ |-> IF a.valid[i] THEN Text(Narrowed(t.precision, @[i].v.int))
                                    ELSE @[i]]]
      [] OTHER -> a

WriteBatch ==
    /\ pc = "columns" /\ Len(arrays) = Len(types)
    /\ arrays' = [i \in DOMAIN arrays |-> Stored(types[i].type, arrays[i])]
    /\ pc' = "written"
    /\ UNCHANGED <<schema, batch, types, readBack, output>>

(* reader_open: the descriptors of the file's fields. *)
OpenReader ==
    /\ pc = "written"
    /\ readBack' = [i \in DOMAIN types |-> NativeField(types[i])]
    /\ pc' = "encode"
    /\ UNCHANGED <<schema, batch, types, arrays, output>>

EncodeBatch ==
    /\ pc = "encode"
    /\ output' = [i \in DOMAIN arrays |->
                     [name |-> types[i].name, terms |-> EncodeArray(types[i], arrays[i])]]
    /\ pc' = "done"
    /\ UNCHANGED <<schema, batch, types, arrays, readBack>>

Next ==
    OpenWriter \/ DecodeShape \/ DecodeColumn \/ WriteBatch \/ OpenReader \/ EncodeBatch

Spec == Init /\ [][Next]_vars
-----------------------------------------------------------------------------
(* The reference: what belongs to a field, row by row and without arrays. *)
RECURSIVE Conforms(_, _)
Conforms(f, term) ==
    LET d == f.type
        Items == \A i \in DOMAIN term.v : Conforms(d.children[1], term.v[i])
    IN  IF term = Nil THEN f.nullable
        ELSE CASE d.kind \in DOMAIN Lists -> term.is = "list" /\ Items
               [] d.kind = "fixed_list" ->
                     term.is = "list" /\ Len(term.v) = d.length /\ Items
               [] d.kind = "struct" ->
                     /\ term.is = "map"
                     /\ \A c \in Range(d.children) :
                           c.name \in DOMAIN term.v /\ Conforms(c, term.v[c.name])
               [] OTHER -> LeafValue(ArrowType(d), term) # Refused

(* ... and what a reader of it is to get. *)
RECURSIVE Returned(_, _)
Returned(d, term) ==
    IF term = Nil THEN Nil
    ELSE CASE d.kind \in DOMAIN Lists \cup {"fixed_list"} ->
                 [term EXCEPT !.v = [i \in DOMAIN @ |-> Returned(d.children[1].type, @[i])]]
           [] d.kind = "struct" ->
                 [term EXCEPT !.v = [n \in {c.name : c \in Range(d.children)} |->
                     LET c == CHOOSE c \in Range(d.children) : c.name = n
                     IN  Returned(c.type, @[n])]]
           [] d.kind = "decimal" -> Text(Narrowed(d.precision, term.v.int))
           [] OTHER -> LeafValue(ArrowType(d), term)

BatchConforms ==
    /\ batch.rows <= MaxRows
    /\ Len(batch.columns) = Len(schema)
    /\ \A i \in DOMAIN schema :
          LET column == batch.columns[i]
          IN  /\ column.name = schema[i].name
              /\ Len(column.terms) = batch.rows
              /\ \A j \in DOMAIN column.terms : Conforms(schema[i], column.terms[j])

(***************************************************************************)
(* decode_batch takes exactly the batches that conform to the writer's     *)
(* schema: no null in a non-nullable field at any depth, no value its type *)
(* cannot hold, and nulls above lists, fixed lists and structs leave every *)
(* builder in line, so that nothing valid is refused.                      *)
(***************************************************************************)
AcceptsExactly ==
    /\ pc = "invalid" => ~BatchConforms
    /\ pc \in {"written", "encode", "done"} => BatchConforms

(***************************************************************************)
(* What was written is read back: the same descriptors and, row by row,    *)
(* the same terms, however nulls and lists of different length share the   *)
(* child arrays (append_value, append_null, encode_value).  The exceptions *)
(* are conversions: a double in 32 bits is rounded; a struct comes back    *)
(* without the keys the schema does not name; a decimal in its shortest    *)
(* form, and one too wide for the physical type of its precision, which    *)
(* the writer took, as another number.                                     *)
(***************************************************************************)
ReadsBack ==
    pc = "done" =>
        /\ readBack = schema
        /\ \A i \in DOMAIN schema :
              /\ output[i].name = schema[i].name
              /\ output[i].terms = [j \in DOMAIN batch.columns[i].terms |->
                                       Returned(schema[i].type, batch.columns[i].terms[j])]
=============================================================================
