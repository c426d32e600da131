-------------------------- MODULE MCParquetReader --------------------------
EXTENDS ParquetReader

(* Select is SelectSeq, on every sequence of up to four of three values. *)
ASSUME SelectIsSelectSeq ==
    \A s \in UNION {[1 .. n -> 1 .. 3] : n \in 0 .. 4}, keep \in SUBSET (1 .. 3) :
        LET Kept1(x) == x \in keep IN Select(s, keep) = SelectSeq(s, Kept1)

(* No predicate, and every comparison with a literal in the middle. *)
MiddlePredicates ==
    {None} \cup [operator : ComparisonOperators, literal : {1}]

Exact(min, max, nulls) ==
    [nullCount |-> nulls, min |-> min, max |-> max,
     minExact |-> TRUE, maxExact |-> TRUE]
Loose(min, max, minExact, maxExact) ==
    [nullCount |-> None, min |-> min, max |-> max,
     minExact |-> minExact, maxExact |-> maxExact]

(* Three row groups: one to skip for most predicates, one mixed, one of nulls. *)
ThreeGroups ==
    [kind |-> "signed",
     rows |-> <<2, 2, 0, None, 1, None>>,
     group |-> <<1, 1, 2, 2, 2, 3>>,
     stats |-> <<Exact(2, 2, 0), Exact(0, 1, 1), Exact(None, None, 1)>>]

(* Single groups around the literal with every description that fits them. *)
Columns == {<<1>>, <<0, None>>}
UnsignedColumns == {<<3, None>>}
Descriptions ==
    {None, Exact(-1, 1, 0), Exact(1, 2, None)}
        \cup {Loose(min, max, minExact, maxExact) :
                min \in {0, None}, max \in {-1, 2, None},
                minExact \in BOOLEAN, maxExact \in BOOLEAN}
File(kind, column, s) ==
    [kind |-> kind, rows |-> column, group |-> [i \in DOMAIN column |-> 1],
     stats |-> <<s>>]

MCFiles ==
    {ThreeGroups}
        \cup {f \in {File("signed", c, s) : c \in Columns, s \in Descriptions}
                \cup {File("unsigned", c, s) : c \in UnsignedColumns,
                                               s \in Descriptions}
                \cup {File("narrow", c, None) : c \in Columns} :
                WellDescribed(f)}
=============================================================================
