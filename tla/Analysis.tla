---------------------------- MODULE Analysis ----------------------------
(* The reports over rows of insights: the comparison of two periods        *)
(* (analysis/compare.py), the signals of creative fatigue (fatigue.py),    *)
(* the placements (breakdown.py) and the pacing of a budget (pacing.py).   *)
(* The thresholds are those of brand.yaml or their defaults.               *)
EXTENDS Insights

CONSTANTS NoiseBand, MinClicks, MinResults, DeclinePct, Ceiling

ASSUME ThresholdsAssumption ==
    /\ NoiseBand \in 1 .. 99
    /\ MinClicks \in Nat
    /\ MinResults \in Nat
    /\ DeclinePct \in 1 .. 99
    /\ Ceiling \in Nat \cup {None}

Refused == [kind |-> "refused"]

LastOf(rows) == Max({r.stop : r \in rows})

FirstOf(rows) == Min({r.start : r \in rows})

EndOf(end, rows) == IF end = None THEN LastOf(rows) ELSE end

-----------------------------------------------------------------------------
(* compare                                                                 *)

Rates == {"cpm", "ctr", "cpc", "results", "cvr", "cpa"}

(* The volume that a rate needs in both windows.                           *)
BelowFloor(m, before, now) ==
    \/ m \in {"ctr", "cpc"} /\ Lower(before.clicks, now.clicks) < MinClicks
    \/ m \in {"results", "cvr", "cpa"} /\ Lower(Total(before.results), Total(now.results)) < MinResults

(* "up" and "down" for a signal, else the reason why it is none.           *)
Reading(m, before, now) ==
    LET change == PctChange(Rate(before, m), Rate(now, m))
        Is(P(_)) == \E c \in change : P(c)
    IN IF change = {} THEN "unavailable"
       ELSE IF BelowFloor(m, before, now) THEN "insufficient"
       ELSE IF Is(LAMBDA c : Less(Magnitude(c), Dec(NoiseBand))) THEN "noise"
       ELSE IF Is(LAMBDA c : c.n > 0) THEN "up" ELSE "down"

Incomplete(w, rows) == \E d \in DaysOf(w) : \A r \in rows : r.start # d

(* An entity has rows on more days of one window than of the other.        *)
Uneven(current, previous, rows) ==
    \E e \in {Entity(r, Level(r)) : r \in {x \in rows : Level(x) # "account"}} :
        LET days == {r.start : r \in {x \in rows : Entity(x, Level(x)) = e}}
        IN Cardinality(days \cap DaysOf(current)) # Cardinality(days \cap DaysOf(previous))

(* A mistake: the last day of the attribution window counts as closed.     *)
OpenAfterLastDay(current, attribution, today) == current.end - (today - attribution) > 0

(* The end of the window is still inside the attribution window.           *)
Open(current, attribution, today) == current.end - (today - attribution) >= 0

Notes(current, previous, rows, event, attribution, today) ==
    {note \in {"INCOMPLETE current", "INCOMPLETE previous", "UNEVEN",
               "ATTRIBUTION NOT STATED", "RECENT", "NO RESULT EVENT"} :
        CASE note = "INCOMPLETE current"     -> Incomplete(current, rows)
          [] note = "INCOMPLETE previous"    -> Incomplete(previous, rows)
          [] note = "UNEVEN"                 -> Uneven(current, previous, rows)
          [] note = "ATTRIBUTION NOT STATED" -> attribution = None
          [] note = "RECENT"                 -> attribution # None /\ Open(current, attribution, today)
          [] note = "NO RESULT EVENT"        -> ~event}

(* boundary is the first day of the current window, if it is given.        *)
Compare(file, days, end, boundary, event, attribution, level, today) ==
    LET rows == OneLevel(Daily(file), level)
        reported == ActionsReported(rows)
        current == IF boundary # None THEN Window(boundary, boundary + days - 1)
                                      ELSE WindowEnding(EndOf(end, rows), days)
        previous == Before(current)
        now == TotalsOf(Inside(current, rows), event, reported, {})
        before == TotalsOf(Inside(previous, rows), event, reported, {})
    IN IF rows = {} THEN Refused
       ELSE [kind |-> "compare", current |-> current, previous |-> previous,
             now |-> now, before |-> before,
             readings |-> [m \in Rates |-> Reading(m, before, now)],
             notes |-> Notes(current, previous, rows, event, attribution, today)]

-----------------------------------------------------------------------------
(* fatigue                                                                 *)

(* The windows of that length that end before this one, from the first row.*)
PriorWindows(rows, w) ==
    {v \in {WindowEnding(e, Length(w)) : e \in FirstOf(rows) .. (w.start - 1)} :
        v.start >= FirstOf(rows)}

CtrOf(rows, w) == Rate(Plain(Inside(w, rows)), "ctr")

Eligible(rows, w) ==
    {v \in PriorWindows(rows, w) :
        Plain(Inside(v, rows)).clicks >= MinClicks /\ CtrOf(rows, v) # {}}

(* The best of them; the latest of equals, as they are listed backwards.   *)
Baseline(rows, w) ==
    CHOOSE v \in Eligible(rows, w) : \A u \in Eligible(rows, w) :
        \A a \in CtrOf(rows, v), b \in CtrOf(rows, u) :
            Less(b, a) \/ (Leq(b, a) /\ u.end <= v.end)

(* A mistake: every window that fell counts, recovered or not.             *)
FallenSinceEver(fallen, first, last) == fallen

(* Those of the windows - by their ends - that fell and stayed fallen.     *)
StayedFallen(fallen, first, last) == {e \in fallen : e .. last \subseteq fallen}

(* The start of the first window after the baseline that stayed fallen.    *)
DeclineStart(rows, baseline, current, ctr) ==
    LET floor == Times(ctr, Minus(Dec(1), Over(Dec(DeclinePct), Dec(100))))
        first == baseline.end + Length(current)
        fallen == {e \in first .. current.end :
                      \E c \in CtrOf(rows, WindowEnding(e, Length(current))) : Leq(c, floor)}
        stayed == StayedFallen(fallen, first, current.end)
    IN IF stayed = {} THEN {} ELSE {WindowEnding(Min(stayed), Length(current)).start}

Unassessed(t) == [status |-> "insufficient", now |-> t, baseline |-> {}, declined |-> {},
                  frequent |-> {}, started |-> {}, since |-> {}]

(* declined and frequent are the two conditions; {} where unknown.         *)
AssessOne(rows, w, covering) ==
    LET now == TotalsOf(Inside(w, rows), FALSE, FALSE, covering)
        baseline == Baseline(rows, w)
        best == CtrOf(rows, baseline)
        change == PctChange(best, Rate(now, "ctr"))
        declined == {Leq(c, Dec(-DeclinePct)) : c \in change}
        started == IF TRUE \in declined
                   THEN UNION {DeclineStart(rows, baseline, w, c) : c \in best} ELSE {}
    IN IF now.clicks < MinClicks \/ Eligible(rows, w) = {} THEN Unassessed(now)
       ELSE [status |-> "assessed", now |-> now, baseline |-> {baseline},
             declined |-> declined,
             frequent |-> {Less(Dec(Ceiling), f) :
                              f \in IF Ceiling = None THEN {} ELSE Rate(now, "frequency")},
             started |-> started,
             since |-> {MapThenSumSet(LAMBDA r : r.spend, {r \in rows : r.start >= d}) : d \in started}]

(* A mistake: any row within the window passes for one of the window.      *)
CoveringWithin(rows, w, a) ==
    {r \in rows : r.ad = a /\ Contains(w, r) /\ r.stop = w.end /\ r.reach > 0}

(* The row of one ad over exactly the window.                              *)
Covering(rows, w, a) ==
    {r \in rows : r.ad = a /\ r.start = w.start /\ r.stop = w.end /\ r.reach > 0}

(* The assessed ads of each ad set by what they did, and whether all fell. *)
Siblings(ads, setOf) ==
    [s \in {setOf[a] : a \in DOMAIN ads} \ {None} |->
        LET mine == {a \in DOMAIN ads : setOf[a] = s}
            assessed == {a \in mine : ads[a].status = "assessed"}
            fell == {a \in assessed : TRUE \in ads[a].declined}
        IN [declined |-> fell, held_up |-> assessed \ fell, insufficient |-> mine \ assessed,
            all_declined |-> Cardinality(assessed) > 1 /\ fell = assessed]]

Fatigue(file, days, end) ==
    LET rows == {r \in file : r.ad # None}
        daily == Daily(rows)
        w == WindowEnding(EndOf(end, daily), days)
        names == {r.ad : r \in daily}
        ads == [a \in names |-> AssessOne({r \in daily : r.ad = a}, w, Covering(rows, w, a))]
        setOf == [a \in names |-> (CHOOSE r \in daily : r.ad = a).adset]
    IN IF daily = {} THEN Refused
       ELSE [kind |-> "fatigue", current |-> w, ads |-> ads, siblings |-> Siblings(ads, setOf)]

-----------------------------------------------------------------------------
(* breakdown                                                               *)

(* How a placement's cost stands to the whole, at 100.                     *)
PlacementReading(t, whole, m) ==
    LET volume == IF m = "cpa" THEN Total(t.results) ELSE t.clicks
        floor == IF m = "cpa" THEN MinResults ELSE MinClicks
        index == {Times(Over(x[1], x[2]), Dec(100)) :
                     x \in Rate(t, m) \X {o \in Rate(whole, m) : o.n # 0}}
        Is(P(_)) == \E i \in index : P(i)
    IN IF index = {} THEN "unavailable"
       ELSE IF volume < floor THEN "insufficient"
       ELSE IF Is(LAMBDA i : Less(Magnitude(Minus(i, Dec(100))), Dec(NoiseBand))) THEN "in line"
       ELSE IF Is(LAMBDA i : Less(Dec(100), i)) THEN "costlier" ELSE "cheaper"

(* Without days the window is all there is.                                *)
Breakdown(file, days, end, event, level) ==
    LET rows == OneLevel(file, level)
        w == IF days = None THEN Window(FirstOf(rows), LastOf(rows))
                            ELSE WindowEnding(EndOf(end, rows), days)
        kept == Inside(w, rows)
        reported == ActionsReported(kept)
        Sum(S) == TotalsOf(S, event, reported, {})
        m == IF event /\ Total(Sum(kept).results) > 0 THEN "cpa" ELSE "cpc"
    IN IF (\E r \in file : r.place = None) \/ rows = {} \/ kept = {} THEN Refused
       ELSE [kind |-> "breakdown", current |-> w, now |-> Sum(kept), metric |-> m,
             places |-> [p \in {r.place : r \in kept} |->
                            LET t == Sum({r \in kept : r.place = p})
                            IN [totals |-> t, reading |-> PlacementReading(t, Sum(kept), m)]]]

-----------------------------------------------------------------------------
(* pacing                                                                  *)

SpendIn(w, rows) == MapThenSumSet(LAMBDA r : r.spend, Inside(w, rows))

(* Against a daily budget, over the days in the file or those given.       *)
PaceDaily(file, budget, start, end, level) ==
    LET rows == OneLevel(Daily(file), level)
        w == Window(IF start = None THEN FirstOf(rows) ELSE start, EndOf(end, rows))
        spent == [d \in {r.start : r \in Inside(w, rows)} |-> SpendIn(Window(d, d), rows)]
        share(d) == Times(Over(Dec(spent[d]), Dec(budget)), Dec(100))
    IN IF rows = {} \/ Length(w) < 1 THEN Refused
       ELSE [kind |-> "daily", current |-> w, spend |-> SpendIn(w, rows),
             allowed |-> budget * Length(w),
             low |-> {d \in DOMAIN spent : Less(share(d), Dec(50))},
             high |-> {d \in DOMAIN spent : Less(Dec(150), share(d))},
             missing |-> DaysOf(w) \ DOMAIN spent]

(* The day of the report counts.                                           *)
Elapsed(w, as_of) ==
    LET gone == as_of - w.start + 1 IN Max({0, Lower(Length(w), gone)})

(* Against a lifetime budget over its schedule, which is w.                *)
PaceLifetime(file, budget, w, as_of, level) ==
    LET rows == OneLevel(Daily(file), level)
        counted == Window(w.start, Lower(w.end, as_of))
        spend == SpendIn(counted, rows)
        gone == Elapsed(w, as_of)
        expected == Over(Times(Dec(budget), Dec(gone)), Dec(Length(w)))
    IN IF rows = {} \/ Length(w) < 1 THEN Refused
       ELSE [kind |-> "lifetime", current |-> counted, spend |-> spend, days |-> Length(w),
             pace |-> {Times(Over(Dec(spend), x), Dec(100)) : x \in {y \in {expected} : y.n # 0}},
             projected |-> {Times(Over(Dec(spend), Dec(g)), Dec(Length(w))) : g \in {gone} \ {0}},
             to_finish |-> {Over(Dec(budget - spend), Dec(l)) : l \in {Length(w) - gone} \ {0}}]
=============================================================================
