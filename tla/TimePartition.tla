--------------------------- MODULE TimePartition ---------------------------
(***************************************************************************)
(* Event-time partitions (native/parquex_nif/src/time_partition.rs,        *)
(* lib/parquex/time_partition.ex): the partition of an instant, its path,  *)
(* the parsing of a path, and the planning loop that enumerates the        *)
(* partitions overlapping a half-open range, step by step.                 *)
(*                                                                         *)
(* Time is the proleptic Gregorian calendar in UTC, with whole seconds     *)
(* since 1970-01-01; an instant counts ticks, TicksPerSecond of them to a  *)
(* second where the code has 10^9 nanoseconds.  A path is the sequence of  *)
(* its name=value segments; a value that is not written canonically (a     *)
(* sign, a leading zero, no digits) is NotCanonical.                       *)
(***************************************************************************)
EXTENDS Integers, Sequences

CONSTANTS TicksPerSecond,  \* resolution of an instant
          FirstYear,       \* the years of the calendar considered,
          LastYear,        \* first and last
          MaxYear,         \* the last year of an Elixir DateTime
          Requests,        \* plan/4 calls: [from, until, unit, granularity, limit]
          NotCanonical,    \* a segment value canonical_integer refuses
          Invalid          \* an error of category invalid_argument

Granularities == {"minute", "hour", "day", "week", "month"}
Units == {"second", "millisecond", "microsecond", "nanosecond"}

ASSUME ResolutionAssumption == TicksPerSecond \in Nat /\ TicksPerSecond >= 8

VARIABLES
    request,  \* the call
    current,  \* the partition the loop has built and not yet taken
    output,   \* the partitions taken
    status    \* "called", "planning", "done", "limit" or "invalid"

planVars == <<request, current, output, status>>
-----------------------------------------------------------------------------
(***************************************************************************)
(* The calendar (chrono): days since 1970-01-01, a Thursday.               *)
(***************************************************************************)
Day == 86400
YearStart(y) ==
    365 * (y - 1970) + (y - 1969) \div 4 - (y - 1901) \div 100 + (y - 1601) \div 400
IsLeap(y) == y % 4 = 0 /\ (y % 100 # 0 \/ y % 400 = 0)
DaysBefore == <<0, 31, 59, 90, 120, 151, 181, 212, 243, 273, 304, 334>>
MonthStart(y, m) ==
    YearStart(y) + DaysBefore[m] + IF IsLeap(y) /\ m > 2 THEN 1 ELSE 0
NextMonth(y, m) == IF m = 12 THEN MonthStart(y + 1, 1) ELSE MonthStart(y, m + 1)

(* Every date of the years considered, by its day. *)
Dates ==
    [day \in YearStart(FirstYear) .. YearStart(LastYear + 1) - 1 |->
        LET month == CHOOSE ym \in (FirstYear .. LastYear) \X (1 .. 12) :
                         /\ MonthStart(ym[1], ym[2]) <= day
                         /\ day < NextMonth(ym[1], ym[2])
        IN  <<month[1], month[2], day - MonthStart(month[1], month[2]) + 1>>]

YearOf(day) == Dates[day][1]
MonthOf(day) == Dates[day][2]
DayOfMonth(day) == Dates[day][3]
DaysFromMonday(day) == (day + 3) % 7
Thursday(day) == day - DaysFromMonday(day) + 3
IsoYear(day) == YearOf(Thursday(day))
IsoWeek(day) == (Thursday(day) - YearStart(IsoYear(day))) \div 7 + 1
-----------------------------------------------------------------------------
(***************************************************************************)
(* instant: the timestamp in ticks, split into seconds and the rest by     *)
(* Euclidean division, so that times before 1970 round down.               *)
(***************************************************************************)
Factor(unit) ==
    CASE unit = "second"      -> TicksPerSecond
      [] unit = "millisecond" -> TicksPerSecond \div 2
      [] unit = "microsecond" -> TicksPerSecond \div 4
      [] unit = "nanosecond"  -> 1

Ticks(timestamp, unit) == timestamp * Factor(unit)

(* MUTANT: division that rounds towards zero. *)
SecondsTruncated(ticks) ==
    IF ticks < 0 THEN -((-ticks) \div TicksPerSecond) ELSE ticks \div TicksPerSecond

Seconds(ticks) == ticks \div TicksPerSecond

(***************************************************************************)
(* build_partition: the start of the unit the second falls into, the start *)
(* of the next one, and the canonical path.                                *)
(***************************************************************************)
StartOf(second, g) ==
    LET day == second \div Day
    IN  CASE g = "minute" -> second - (second % 60)
          [] g = "hour"   -> second - (second % 3600)
          [] g = "day"    -> day * Day
          [] g = "week"   -> (day - DaysFromMonday(day)) * Day
          [] g = "month"  -> MonthStart(YearOf(day), MonthOf(day)) * Day

UntilOf(start, g) ==
    CASE g = "minute" -> start + 60
      [] g = "hour"   -> start + 3600
      [] g = "day"    -> start + Day
      [] g = "week"   -> start + 7 * Day
      [] g = "month"  -> LET day == start \div Day
                         IN  NextMonth(YearOf(day), MonthOf(day)) * Day

(* MUTANT: the calendar year stands before the ISO week. *)
IsoYearIsCalendarYear(day) == YearOf(day)

WeekYear(day) == IsoYear(day)

PathOf(start, g) ==
    LET day == start \div Day
        year == <<"year", YearOf(day)>>
        month == <<"month", MonthOf(day)>>
        date == <<"day", DayOfMonth(day)>>
        hour == <<"hour", (start % Day) \div 3600>>
        minute == <<"minute", (start % 3600) \div 60>>
    IN  CASE g = "minute" -> <<year, month, date, hour, minute>>
          [] g = "hour"   -> <<year, month, date, hour>>
          [] g = "day"    -> <<year, month, date>>
          [] g = "week"   -> <<<<"iso_year", WeekYear(day)>>, <<"week", IsoWeek(day)>>>>
          [] g = "month"  -> <<year, month>>

BuildPartition(second, g) ==
    LET start == StartOf(second, g)
    IN  [path |-> PathOf(start, g), start |-> start, until |-> UntilOf(start, g)]

(* partition_for *)
PartitionFor(timestamp, unit, g) == BuildPartition(Seconds(Ticks(timestamp, unit)), g)

(***************************************************************************)
(* parse: the names and the number of segments, canonical integers, a date *)
(* and a time that exist, and a path that is the partition's own.          *)
(***************************************************************************)
SegmentNames(g) ==
    CASE g = "minute" -> <<"year", "month", "day", "hour", "minute">>
      [] g = "hour"   -> <<"year", "month", "day", "hour">>
      [] g = "day"    -> <<"year", "month", "day">>
      [] g = "week"   -> <<"iso_year", "week">>
      [] g = "month"  -> <<"year", "month">>

WeeksIn(y) == IsoWeek(YearStart(y) + IF IsLeap(y) THEN 362 ELSE 361)

DateExists(values, g) ==
    IF g = "week"
    THEN values[2] \in 1 .. WeeksIn(values[1])
    ELSE /\ values[2] \in 1 .. 12
         /\ Len(values) > 2 =>
               values[3] \in 1 .. (NextMonth(values[1], values[2])
                                   - MonthStart(values[1], values[2]))

DateOf(values, g) ==
    IF g = "week"
    THEN LET fourth == YearStart(values[1]) + 3
         IN  fourth - DaysFromMonday(fourth) + 7 * (values[2] - 1)
    ELSE MonthStart(values[1], values[2])
         + IF Len(values) > 2 THEN values[3] - 1 ELSE 0

Parse(path, g) ==
    LET names == SegmentNames(g)
        values == [i \in DOMAIN path |-> path[i][2]]
        hour == IF Len(path) > 3 THEN values[4] ELSE 0
        minute == IF Len(path) > 4 THEN values[5] ELSE 0
        partition == BuildPartition(DateOf(values, g) * Day + hour * 3600 + minute * 60, g)
    IN  IF /\ Len(path) = Len(names)
           /\ \A i \in DOMAIN path : path[i][1] = names[i] /\ values[i] # NotCanonical
           /\ DateExists(values, g)
           /\ hour \in 0 .. 23 /\ minute \in 0 .. 59
           /\ partition.path = path
        THEN partition
        ELSE Invalid
-----------------------------------------------------------------------------
(* The years considered go on for three years on either side of a request. *)
ASSUME RequestAssumption ==
    /\ FirstYear \in Int /\ LastYear \in Int /\ FirstYear <= LastYear
    /\ NotCanonical \notin Int
    /\ \A r \in Requests :
          /\ r.from \in Int /\ r.until \in Int /\ r.unit \in Units
          /\ r.granularity \in Granularities /\ r.limit \in Nat \ {0}
          /\ YearStart(FirstYear + 3) <= Seconds(Ticks(r.from, r.unit)) \div Day
          /\ Seconds(Ticks(r.until, r.unit)) \div Day + 31 < YearStart(LastYear - 2)

(***************************************************************************)
(* plan/4: Elixir encodes the bounds, the native loop collects partitions, *)
(* and Elixir refuses boundaries its DateTime cannot hold.                 *)
(***************************************************************************)
From == Ticks(request.from, request.unit)
Until == Ticks(request.until, request.unit)
Representable(p) == p.until < YearStart(MaxYear + 1) * Day

PlanInit ==
    /\ request \in Requests
    /\ current = Invalid
    /\ output = <<>>
    /\ status = "called"

Begin ==
    /\ status = "called"
    /\ IF From < Until
       THEN /\ current' = BuildPartition(Seconds(From), request.granularity)
            /\ status' = "planning"
       ELSE /\ status' = IF From = Until THEN "done" ELSE "invalid"
            /\ UNCHANGED current
    /\ UNCHANGED <<request, output>>

(* MUTANT: a partition that starts where the range ends is taken. *)
StartsInclusive == current.start * TicksPerSecond <= Until

StartsBeforeEnd == current.start * TicksPerSecond < Until

AtLimit == Len(output) = request.limit

PushPartition ==
    /\ status = "planning"
    /\ StartsBeforeEnd /\ ~AtLimit
    /\ output' = Append(output, current)
    /\ current' = BuildPartition(current.until, request.granularity)
    /\ UNCHANGED <<request, status>>

ExceedLimit ==
    /\ status = "planning"
    /\ StartsBeforeEnd /\ AtLimit
    /\ status' = "limit"
    /\ UNCHANGED <<request, current, output>>

Finish ==
    /\ status = "planning"
    /\ ~StartsBeforeEnd
    /\ status' = IF \A i \in DOMAIN output : Representable(output[i])
                 THEN "done" ELSE "invalid"
    /\ UNCHANGED <<request, current, output>>

PlanNext == Begin \/ PushPartition \/ ExceedLimit \/ Finish

PlanSpec == PlanInit /\ [][PlanNext]_planVars
-----------------------------------------------------------------------------
Bound(p) == p.start * TicksPerSecond
End(p) == p.until * TicksPerSecond

(***************************************************************************)
(* The planned partitions follow each other without a gap or an overlap,   *)
(* the first one contains the start of the range, each one overlaps it,    *)
(* and together they cover it when the plan is complete (plan).  The limit *)
(* refuses exactly the ranges with more partitions than it allows.         *)
(***************************************************************************)
PlanTiles ==
    /\ status = "done" => Len(output) <= request.limit
    /\ status = "limit" => Len(output) = request.limit /\ Bound(current) < Until
    /\ \A i \in DOMAIN output : Bound(output[i]) < Until /\ From < End(output[i])
    /\ \A i \in 1 .. Len(output) - 1 : output[i].until = output[i + 1].start
    /\ output # <<>> => Bound(output[1]) <= From
    /\ status = "done" /\ From < Until =>
          output # <<>> /\ Until <= End(output[Len(output)])

(***************************************************************************)
(* The writer and the planner agree: the partition a row's timestamp is    *)
(* routed to is one of those planned for any range that holds it, under    *)
(* the same path (partition_for against plan).                             *)
(***************************************************************************)
Probes ==
    {request.from, request.until - 1}
    \cup UNION {{(output[i].until * TicksPerSecond) \div Factor(request.unit) + d :
                    d \in {-1, 0}} : i \in DOMAIN output}

RoutedIsPlanned ==
    status = "done" =>
        \A t \in Probes : request.from <= t /\ t < request.until =>
            \E i \in DOMAIN output :
                output[i] = PartitionFor(t, request.unit, request.granularity)

(***************************************************************************)
(* Every planned path parses to the partition it was made from, and a path *)
(* that differs in one segment is refused or denotes a disjoint partition: *)
(* a week 53 of a short year, a 29 February or a leading zero never is a   *)
(* second name of the same rows (parse, build_partition).                  *)
(***************************************************************************)
Neighbours(path) ==
    (UNION {{[path EXCEPT ![i] = <<path[i][1], v>>] :
                v \in {NotCanonical, path[i][2] - 1, path[i][2] + 1}
                      \cup (IF i = 1 THEN {} ELSE {0, 1, 13, 24, 29, 32, 53, 60})} :
            i \in DOMAIN path}) \ {path}

PathsIdentify ==
    status = "planning" =>
        /\ Parse(current.path, request.granularity) = current
        /\ \A q \in Neighbours(current.path) :
              LET p == Parse(q, request.granularity)
              IN  p # Invalid => p.until <= current.start \/ current.until <= p.start
=============================================================================
