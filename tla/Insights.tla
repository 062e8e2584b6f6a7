---------------------------- MODULE Insights ----------------------------
(* Rows of insights and the sums over them (analysis/insights.py).  A row  *)
(* has dates start and stop, the ids of what it is about - None where it   *)
(* has none - its counts, and the results among its actions: a set of one  *)
(* number, or {} when the row came without actions.  query tells the rows  *)
(* of two requests apart; the program does not see it.  What is not known  *)
(* is the empty set throughout.                                            *)
EXTENDS Decimals, FiniteSetsExt

CONSTANT None

Total(S) == MapThenSumSet(LAMBDA x : x, S)

Level(r) ==
    CASE r.ad # None -> "ad"
      [] r.ad = None /\ r.adset # None -> "adset"
      [] r.ad = None /\ r.adset = None /\ r.campaign # None -> "campaign"
      [] OTHER -> "account"

Entity(r, level) == r[level]

Daily(rows) == {r \in rows : r.start = r.stop}

(* A mistake: the rows of every level pass.                                *)
OneLevelOrAll(rows, level) ==
    IF level = None THEN rows ELSE {r \in rows : Level(r) = level}

(* The rows of one level; {} where the program refuses: no row of the      *)
(* level asked for, or several levels and none asked for.                  *)
OneLevel(rows, level) ==
    CASE level # None -> {r \in rows : Level(r) = level}
      [] level = None /\ Cardinality({Level(r) : r \in rows}) > 1 -> {}
      [] OTHER -> rows

-----------------------------------------------------------------------------
(* Windows, both ends included                                             *)

Window(start, end) == [start |-> start, end |-> end]

WindowEnding(end, days) == Window(end - days + 1, end)

DaysOf(w) == w.start .. w.end

Length(w) == w.end - w.start + 1

(* A mistake: the windows share a day.                                     *)
BeforeSharing(w) == WindowEnding(w.start, Length(w))

(* The window of the same length just before.                              *)
Before(w) == WindowEnding(w.start - 1, Length(w))

Contains(w, r) == w.start <= r.start /\ r.stop <= w.end

Inside(w, rows) == {r \in rows : Contains(w, r)}

-----------------------------------------------------------------------------
(* Sums, and the rates made of them                                        *)

ActionsReported(rows) == \E r \in rows : r.actions # {}

(* Once any row of an export has actions, one without had no results.      *)
Results(rows, event, reported) ==
    IF event /\ rows # {} /\ (reported \/ \A r \in rows : r.actions # {})
    THEN {MapThenSumSet(LAMBDA r : Total(r.actions), rows)}
    ELSE {}

(* covering: the row of the whole window, if there is one.                 *)
TotalsOf(rows, event, reported, covering) ==
    [spend |-> MapThenSumSet(LAMBDA r : r.spend, rows),
     impressions |-> MapThenSumSet(LAMBDA r : r.impressions, rows),
     clicks |-> MapThenSumSet(LAMBDA r : r.clicks, rows),
     results |-> Results(rows, event, reported),
     reach |-> {r.reach : r \in covering},
     window_impressions |-> {r.impressions : r \in covering}]

Plain(rows) == TotalsOf(rows, FALSE, FALSE, {})

(* What each rate divides by what, and its scale.                          *)
Parts(t, m) ==
    CASE m = "ctr" -> <<{t.clicks}, {t.impressions}, 100>>
      [] m = "cpc" -> <<{t.spend}, {t.clicks}, 1>>
      [] m = "cpm" -> <<{t.spend}, {t.impressions}, 1000>>
      [] m = "cvr" -> <<t.results, {t.clicks}, 100>>
      [] m = "cpa" -> <<{t.spend}, t.results, 1>>
      [] m = "results" -> <<t.results, {1}, 1>>
      [] m = "frequency" ->
             <<IF t.window_impressions \ {0} = {} THEN {t.impressions} ELSE t.window_impressions,
               t.reach, 1>>

Rate(t, m) ==
    LET p == Parts(t, m)
    IN {Over(Times(Dec(n), Dec(p[3])), Dec(d)) : n \in p[1], d \in p[2] \ {0}}

PctChange(before, after) ==
    {Times(Over(Minus(x[2], x[1]), x[1]), Dec(100)) :
        x \in {b \in before : b.n # 0} \X after}
=============================================================================
