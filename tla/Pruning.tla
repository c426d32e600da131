------------------------------ MODULE Pruning ------------------------------
(***************************************************************************)
(* Row-group pruning and the row predicate of the Parquet reader           *)
(* (native/parquex_nif/src/reader.rs).  A file is                          *)
(*                                                                         *)
(*   kind   "signed" (Int32, Int64), "unsigned" (UInt32, UInt64: the same  *)
(*          physical integers, read modulo 2^Width) or "narrow" (the other *)
(*          types, for which no statistics are consulted);                 *)
(*   rows   the predicate column's value of every row, None for a null;    *)
(*   group  the row group of every row;                                    *)
(*   stats  per row group, the footer's statistics or None.                *)
(*                                                                         *)
(* None stands for Rust's None: a null value, an absent statistic, no      *)
(* predicate.  Comparisons are made in i128 in the code, so Int is exact.  *)
(***************************************************************************)
EXTENDS Integers, Sequences, FiniteSets

CONSTANTS None,    \* Option::None
          Width    \* bits of the physical integer type

ASSUME NoneAssumption == None \notin Int
ASSUME WidthAssumption == Width \in Nat \ {0}

ComparisonOperators == {"gt", "gte", "lt", "lte", "eq"}

(***************************************************************************)
(* A file and a predicate of the column types that can be pruned.          *)
(***************************************************************************)
Statistics ==
    [nullCount : Nat \cup {None}, min : Int \cup {None}, max : Int \cup {None},
     minExact : BOOLEAN, maxExact : BOOLEAN]

IsFile(file) ==
    /\ file.rows \in Seq(Int \cup {None})
    /\ \A i \in DOMAIN file.rows : file.group[i] \in DOMAIN file.stats
    /\ \A g \in DOMAIN file.stats : file.stats[g] # None => file.stats[g] \in Statistics

IsPredicate(p) == p.literal \in Int /\ p.operator \in ComparisonOperators

RowsOf(file, g) == {i \in DOMAIN file.rows : file.group[i] = g}
NullsOf(file, g) == {i \in RowsOf(file, g) : file.rows[i] = None}
-----------------------------------------------------------------------------
(***************************************************************************)
(* The row predicate: predicate_mask yields null for a null value, and     *)
(* filter_record_batch drops it.                                           *)
(***************************************************************************)
Compare(v, lit, op) ==
    CASE op = "gt"  -> v > lit
      [] op = "gte" -> v >= lit
      [] op = "lt"  -> v < lit
      [] op = "lte" -> v <= lit
      [] op = "eq"  -> v = lit

Matches(v, p) == v # None /\ Compare(v, p.literal, p.operator)

Selects(p, v) == p = None \/ Matches(v, p)
-----------------------------------------------------------------------------
(***************************************************************************)
(* integer_statistics_skip: only an exact bound excludes a group.          *)
(***************************************************************************)
Bound(bound, exact) == exact /\ bound # None

IntegerStatisticsSkip(s, lit, op) ==
    LET minKnown == Bound(s.min, s.minExact)
        maxKnown == Bound(s.max, s.maxExact)
    IN  CASE op = "gt"  -> maxKnown /\ s.max <= lit
          [] op = "gte" -> maxKnown /\ s.max < lit
          [] op = "lt"  -> minKnown /\ s.min >= lit
          [] op = "lte" -> minKnown /\ s.min > lit
          [] op = "eq"  -> (minKnown /\ s.min > lit) \/ (maxKnown /\ s.max < lit)

(***************************************************************************)
(* compile_predicate gives a prune kind to Int32 and Int64 columns only.   *)
(***************************************************************************)
(* MUTANT: unsigned columns, physically Int32 and Int64, are pruned too. *)
PrunesUnsigned(kind) == kind # "narrow"

Prunable(kind) == kind = "signed"

(***************************************************************************)
(* select_row_groups: without a predicate, a prune kind or statistics the  *)
(* group is read; a group of nulls only and a group out of bounds are not. *)
(***************************************************************************)
SkipGroup(file, g, p) ==
    /\ p # None
    /\ Prunable(file.kind)
    /\ file.stats[g] # None
    /\ \/ file.stats[g].nullCount = Cardinality(RowsOf(file, g))
       \/ IntegerStatisticsSkip(file.stats[g], p.literal, p.operator)

SelectedRowGroups(file, p) == {g \in DOMAIN file.stats : ~SkipGroup(file, g, p)}
-----------------------------------------------------------------------------
(***************************************************************************)
(* What a Parquet writer promises of the statistics in a footer: a null    *)
(* count is the number of nulls, and a bound bounds the values in the      *)
(* logical order of the column, whether a value attains it or not.         *)
(***************************************************************************)
Logical(physical, kind) ==
    IF kind = "unsigned" /\ physical < 0 THEN physical + 2 ^ Width ELSE physical

Describes(s, file, g) ==
    /\ s.nullCount # None => s.nullCount = Cardinality(NullsOf(file, g))
    /\ \A i \in RowsOf(file, g) : file.rows[i] # None =>
          /\ s.min # None => Logical(s.min, file.kind) <= file.rows[i]
          /\ s.max # None => file.rows[i] <= Logical(s.max, file.kind)

WellDescribed(file) ==
    \A g \in DOMAIN file.stats :
        file.stats[g] # None => Describes(file.stats[g], file, g)
=============================================================================
