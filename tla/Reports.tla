----------------------------- MODULE Reports -----------------------------
(* A report on a campaign while it runs (cli/report_cmd.py): every day the *)
(* ads deliver, results of earlier days still arrive, the agent exports    *)
(* rows of insights to a file and runs the reports over it.                *)
EXTENDS Analysis, Sequences

CONSTANTS
    Ads,
    Outcomes,         \* what an ad may deliver, for each ad and day
    ReachedOn,        \* who sees an ad that delivers, for each day
    PlaceOf,          \* where each ad delivers
    Campaign, AdSet,
    LastDay,          \* bound
    MaxResults,       \* bound, for each ad: the results that a day may get
    AttributionDays,  \* a result arrives at most so many days later
    FirstDays,        \* where an export may start
    Lengths,          \* of the windows
    ReachLengths,     \* of the windows for which reach is exported
    OldExports,       \* whether the agent reports on an export that is out of date
    Budget,
    Schedules,        \* of the lifetime budget
    Attributions,     \* what the agent says of it: AttributionDays or nothing
    Levels,           \* what it gives as the level
    Events            \* whether it names the result event

Nothing == [spend |-> 0, impressions |-> 0, clicks |-> 0]

ASSUME ReportsAssumption ==
    /\ IsFiniteSet(Ads) /\ Ads # {} /\ None \notin Ads \cup {Campaign, AdSet} /\ Campaign \notin Ads
    /\ \A a \in Ads : PlaceOf[a] # None
    /\ LastDay \in Nat \ {0} /\ AttributionDays \in Nat /\ MaxResults \in [Ads -> Nat]
    /\ FirstDays \subseteq 1 .. LastDay /\ ReachLengths \subseteq Lengths
    /\ Attributions \subseteq {None, AttributionDays} /\ Events \subseteq BOOLEAN
    /\ Levels \subseteq {None, "ad", "adset", "campaign", "account"}
    /\ \A w \in Schedules : w.start \in Nat \ {0} /\ w.end \in Nat
    /\ Lengths \subseteq Nat \ {0} /\ Budget \in Nat \ {0}
    /\ OldExports \in BOOLEAN
    /\ \A a \in Ads, d \in 1 .. LastDay : \A o \in Outcomes[a][d] :
           /\ o \in [spend : Nat, impressions : Nat, clicks : Nat]
           /\ o.impressions = 0 => o = Nothing
    /\ \A d \in 1 .. LastDay : ReachedOn[d] # {}

VARIABLES
    delivered,    \* what each ad delivered, day by day, to this day
    results,      \* the results that have arrived, for each ad and day
    file,         \* the export: rows of insights
    exported,     \* the day of the export, 0 without one
    report        \* the last report, and the day on which it was made

vars == <<delivered, results, file, exported, report>>

Today == Len(delivered[CHOOSE a \in Ads : TRUE])

NoReport == [kind |-> "none"]

-----------------------------------------------------------------------------
(* What Meta reports                                                       *)

Live(a, w) == {d \in DaysOf(w) \cap 1 .. Today : delivered[a][d] # Nothing}

SumFor(ads, w, count) ==
    MapThenSumSet(LAMBDA a : MapThenSumSet(LAMBDA d : delivered[a][d][count], Live(a, w)), ads)

ResultsFor(ads, w) ==
    MapThenSumSet(LAMBDA a : MapThenSumSet(LAMBDA d : results[a][d], Live(a, w)), ads)

Reached(ads, w) == UNION {ReachedOn[d] : d \in UNION {Live(a, w) : a \in ads}}

(* A row without clicks and results comes without actions.                 *)
RowOf(ads, w, about, query) ==
    LET clicks == SumFor(ads, w, "clicks")
        n == ResultsFor(ads, w)
    IN [start |-> w.start, stop |-> w.end,
        campaign |-> Campaign,
        adset |-> IF about = Campaign THEN None ELSE AdSet,
        ad |-> IF about = Campaign THEN None ELSE about,
        place |-> IF query = "placements" THEN PlaceOf[about] ELSE None,
        spend |-> SumFor(ads, w, "spend"),
        impressions |-> SumFor(ads, w, "impressions"),
        clicks |-> clicks,
        reach |-> Cardinality(Reached(ads, w)),
        actions |-> IF clicks = 0 /\ n = 0 THEN {} ELSE {n},
        query |-> query]

(* Nothing is reported of what did not deliver.                            *)
AdRows(w, query) == {RowOf({a}, w, a, query) : a \in {x \in Ads : Live(x, w) # {}}}

CampaignRows(w) ==
    IF \E a \in Ads : Live(a, w) # {} THEN {RowOf(Ads, w, Campaign, "campaigns")} ELSE {}

ByDay(first, Rows(_)) == UNION {Rows(Window(d, d)) : d \in first .. Today}

Exports(first) ==
    LET ads == ByDay(first, LAMBDA w : AdRows(w, "ads"))
    IN {ads,
        ads \cup ByDay(first, CampaignRows),
        ByDay(first, LAMBDA w : AdRows(w, "placements"))}
       \cup {ads \cup AdRows(WindowEnding(Today, n), "reach") : n \in ReachLengths}

-----------------------------------------------------------------------------
Init ==
    /\ delivered = [a \in Ads |-> <<>>]
    /\ results = [a \in Ads |-> <<>>]
    /\ file = {}
    /\ exported = 0
    /\ report = NoReport

Settled(notes) == notes \cap {"RECENT", "ATTRIBUTION NOT STATED"} = {}

(* A comparison that came without a warning about its results is relied on *)
(* later; any other report is read and put away.                           *)
Kept == IF report.kind = "compare" THEN (IF Settled(report.notes) THEN report ELSE NoReport) ELSE NoReport

(* The export is not the whole story any more.                             *)
Age ==
    /\ file' = IF OldExports THEN file ELSE {}
    /\ exported' = IF OldExports THEN exported ELSE 0

(* A day passes.                                                           *)
Deliver ==
    /\ Today < LastDay
    /\ \E new \in [Ads -> UNION {Outcomes[a][Today + 1] : a \in Ads}] :
          /\ \A a \in Ads : new[a] \in Outcomes[a][Today + 1]
          /\ delivered' = [a \in Ads |-> Append(delivered[a], new[a])]
    /\ results' = [a \in Ads |-> Append(results[a], 0)]
    /\ Age
    /\ report' = Kept

(* A result that is attributed to an earlier click.                        *)
LateResult(a, d) ==
    /\ Today <= d + AttributionDays
    /\ delivered[a][d].clicks > 0
    /\ results[a][d] < MaxResults[a]
    /\ results' = [results EXCEPT ![a][d] = @ + 1]
    /\ report' = Kept
    /\ Age
    /\ UNCHANGED delivered

Export(first) ==
    /\ \E rows \in Exports(first) : rows # {} /\ file' = rows
    /\ exported' = Today
    /\ report' = NoReport
    /\ UNCHANGED <<delivered, results>>

Ran(r) ==
    /\ report.kind = "none"
    /\ report' = r
    /\ UNCHANGED <<delivered, results, file, exported>>

(* The day of the report is the day on which it runs.                      *)
RunCompare(days, level) ==
    /\ file # {}
    /\ \E end, boundary \in {None} \cup 1 .. Today, attribution \in Attributions, event \in Events :
          /\ end = None \/ boundary = None
          /\ Ran(Compare(file, days, end, boundary, event, attribution, level, Today))

RunFatigue(days) == file # {} /\ \E end \in {None} \cup 1 .. Today : Ran(Fatigue(file, days, end))

RunBreakdown(days, level) ==
    /\ file # {}
    /\ \E end \in {None} \cup 1 .. Today, event \in Events : Ran(Breakdown(file, days, end, event, level))

RunPacing(level) ==
    /\ file # {}
    /\ \/ \E start, end \in {None} \cup 1 .. Today : Ran(PaceDaily(file, Budget, start, end, level))
       \/ \E w \in Schedules, as_of \in {None} \cup 1 .. Today :
             Ran(PaceLifetime(file, Budget, w, EndOf(as_of, file), level))

Next ==
    \/ Deliver
    \/ \E a \in Ads, d \in 1 .. Today : LateResult(a, d)
    \/ \E first \in FirstDays : Export(first)
    \/ \E days \in Lengths, level \in Levels : RunCompare(days, level)
    \/ \E days \in Lengths : RunFatigue(days)
    \/ \E days \in Lengths \cup {None}, level \in Levels : RunBreakdown(days, level)
    \/ \E level \in Levels : RunPacing(level)

Spec == Init /\ [][Next]_vars

-----------------------------------------------------------------------------
(* Types; the two periods of a comparison have one length and meet.        *)
TypeOK ==
    /\ \A a \in Ads : Len(delivered[a]) = Today
    /\ \A a \in Ads, d \in 1 .. Today : delivered[a][d] \in Outcomes[a][d]
    /\ \A a \in Ads : results[a] \in [1 .. Today -> 0 .. MaxResults[a]]
    /\ exported \in 0 .. Today
    /\ report.kind \in {"none", "refused", "compare", "fatigue", "breakdown", "daily", "lifetime"}
    /\ report.kind = "compare" =>
          /\ Length(report.previous) = Length(report.current)
          /\ report.previous.end + 1 = report.current.start

(* Spend is reported once: no report of an export shows more than was      *)
(* delivered, whatever levels, placements or windows of reach the export   *)
(* holds (insights.py:324-345), and a comparison that is not marked        *)
(* incomplete shows all of it (compare.py:195-205).                        *)
NothingCountedTwice ==
    /\ report.kind = "compare" /\ exported > 0 =>
          /\ report.now.spend <= SumFor(Ads, report.current, "spend")
          /\ report.before.spend <= SumFor(Ads, report.previous, "spend")
          /\ "INCOMPLETE current" \notin report.notes =>
                report.now.spend = SumFor(Ads, report.current, "spend")
          /\ "INCOMPLETE previous" \notin report.notes =>
                report.before.spend = SumFor(Ads, report.previous, "spend")
    /\ report.kind = "fatigue" =>
          \A a \in DOMAIN report.ads : report.ads[a].now.spend <= SumFor({a}, report.current, "spend")
    /\ report.kind = "breakdown" => report.now.spend <= SumFor(Ads, report.current, "spend")
    /\ report.kind \in {"daily", "lifetime"} => report.spend <= SumFor(Ads, report.current, "spend")

(* Results that a comparison shows without a warning are final: none is    *)
(* still to come for either window (compare.py:224-240, "Conversions are   *)
(* still arriving, so results and CPA understate").                        *)
ReportIsFinal ==
    report.kind = "compare" /\ Settled(report.notes) =>
        /\ "INCOMPLETE current" \notin report.notes =>
              report.now.results \subseteq {ResultsFor(Ads, report.current)}
        /\ "INCOMPLETE previous" \notin report.notes =>
              report.before.results \subseteq {ResultsFor(Ads, report.previous)}

(* Whether the CTR of an ad over w is down by the threshold from that over *)
(* base, in whole numbers.                                                 *)
Fell(a, w, base) ==
    /\ SumFor({a}, w, "impressions") > 0
    /\ SumFor({a}, w, "clicks") * SumFor({a}, base, "impressions") * 100
          <= SumFor({a}, base, "clicks") * SumFor({a}, w, "impressions") * (100 - DeclinePct)

(* The same by more than the threshold.                                    *)
FellFurther(a, w, base) ==
    SumFor({a}, w, "clicks") * SumFor({a}, base, "impressions") * 100
        < SumFor({a}, base, "clicks") * SumFor({a}, w, "impressions") * (100 - DeclinePct)

(* From the date of a decline every window was down to the last, and the   *)
(* one before the date by the threshold at most; what was spent since is   *)
(* what was delivered since.                                               *)
DatedGoesOn ==
    report.kind = "fatigue" =>
        \A a \in DOMAIN report.ads :
            \A s \in report.ads[a].started, base \in report.ads[a].baseline :
                LET n == Length(report.current)
                    First == s + n - 1
                IN /\ \A e \in First .. report.current.end : Fell(a, WindowEnding(e, n), base)
                   /\ First > base.end + n => ~FellFurther(a, WindowEnding(First - 1, n), base)
                   /\ report.ads[a].since = {SumFor({a}, Window(s, Today), "spend")}

(* An ad that is said to be down is; and where its decline has no date, it *)
(* is exactly at the threshold.                                            *)
UndatedIsAtThreshold ==
    report.kind = "fatigue" =>
        \A a \in DOMAIN report.ads :
            TRUE \in report.ads[a].declined =>
                \A base \in report.ads[a].baseline :
                    /\ Fell(a, report.current, base)
                    /\ report.ads[a].started = {} => ~FellFurther(a, report.current, base)

(* The two together: however the rates are rounded, "the decline that      *)
(* counts is the one still going" (fatigue.py:242-263), and one that is    *)
(* reported is dated unless it is exactly at the threshold.                *)
DeclineIsOngoing == DatedGoesOn /\ UndatedIsAtThreshold

(* "a CTR exactly at the threshold counts as declined in both places, or   *)
(* one says "declined" and the other finds no decline to date"             *)
(* (fatigue.py:256-258; tests/test_analysis.py:475).                       *)
DeclineHasADate ==
    report.kind = "fatigue" =>
        \A a \in DOMAIN report.ads : TRUE \in report.ads[a].declined => report.ads[a].started # {}

(* How far a rate moved, times what makes it a whole number: <<by, of>>.   *)
Moved(m) ==
    LET b == Parts(report.before, m)
        n == Parts(report.now, m)
    IN {<<x[3] * x[2] - x[1] * x[4], x[1] * x[4]>> : x \in b[1] \X b[2] \X n[1] \X n[2]}

(* A rate that is said to have moved did, by at least the noise band, and  *)
(* one that is said to be noise did not (compare.py:164-187).              *)
SignalsAreReal ==
    report.kind = "compare" =>
        \A m \in Rates : \A x \in Moved(m) :
            CASE report.readings[m] = "up"    -> x[1] * 100 >= NoiseBand * x[2]
              [] report.readings[m] = "down"  -> -x[1] * 100 >= NoiseBand * x[2]
              [] report.readings[m] = "noise" -> Abs(x[1]) * 100 < NoiseBand * x[2]
              [] OTHER -> TRUE

(* Frequency counts the people of the whole window once; reach does not    *)
(* add up over days (insights.py:294-302).                                 *)
FrequencyIsOfPeople ==
    report.kind = "fatigue" =>
        \A a \in DOMAIN report.ads : report.ads[a].frequent \subseteq
            {SumFor({a}, report.current, "impressions")
                > Ceiling * Cardinality(Reached({a}, report.current))}

(* No breakdown finds every placement costlier than all of them together   *)
(* (breakdown.py:108-133).                                                 *)
NotAllCostlier ==
    report.kind = "breakdown" =>
        \E p \in DOMAIN report.places : report.places[p].reading # "costlier"

(* Spend that is the same every day is projected as that spend every day   *)
(* of the schedule (pacing.py:85-90).                                      *)
EvenSpendIsProjected ==
    report.kind = "lifetime" =>
        LET each == SumFor(Ads, Window(report.current.start, report.current.start), "spend")
            even == /\ \A d \in DaysOf(report.current) : SumFor(Ads, Window(d, d), "spend") = each
                    /\ report.spend = each * Length(report.current)
        IN even => \A p \in report.projected : Leq(p, Dec(each * report.days)) /\ Leq(Dec(each * report.days), p)

(* Rates are made of sums, never averaged or added (insights.py:11-18).    *)
RatesAreOfTheWhole ==
    /\ SignalsAreReal
    /\ FrequencyIsOfPeople
    /\ NotAllCostlier
    /\ EvenSpendIsProjected
=============================================================================
