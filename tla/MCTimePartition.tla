-------------------------- MODULE MCTimePartition --------------------------
EXTENDS TimePartition

(* Days around which calendars differ: year ends with and without a week 53, *)
(* leap days, the epoch itself and the days before it.                       *)
EdgeDays == {YearStart(1969) - 3, -4, -1, 0, 3, 58, YearStart(1971) - 1,
             YearStart(1972) + 59, YearStart(1973) - 2}

(* Instants around the start of a day, in ticks. *)
Edges == {d * Day * TicksPerSecond + t : d \in EdgeDays, t \in {-1, 0, 1}}

(* Lengths of a range, in seconds, that suit each granularity. *)
Lengths(g) ==
    CASE g = "minute" -> {0, 1, 60, 150}
      [] g = "hour"   -> {1, 3600, 9000}
      [] g = "day"    -> {Day, 2 * Day + 1}
      [] g = "week"   -> {Day, 15 * Day}
      [] g = "month"  -> {31 * Day, 70 * Day}

Call(ticks, length, u, g, limit) ==
    [from |-> ticks \div Factor(u),
     until |-> ticks \div Factor(u) + (length * TicksPerSecond) \div Factor(u),
     unit |-> u, granularity |-> g, limit |-> limit]

Calls ==
    UNION {{Call(t, n, u, g, l) : t \in Edges, n \in Lengths(g) \cup {-1},
                                  u \in Units, l \in {1, 2, 9}} :
           g \in Granularities}
=============================================================================
