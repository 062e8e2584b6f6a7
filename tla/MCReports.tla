---------------------------- MODULE MCReports ----------------------------
(* Instances of Reports for TLC.                                           *)
EXTENDS Reports

CONSTANTS ada, adb, feed, story, p1, p2, c1, s1

MCAds == {ada, adb}

Delivery(spend, impressions, clicks) ==
    [spend |-> spend, impressions |-> impressions, clicks |-> clicks]

(* One ad with good days, worse days, and a third day that is in between - *)
(* by a quarter of the CTR to the unit, or by less; and one that may start *)
(* late, has the volume for a reading over two days only, and whose clicks *)
(* bring nothing.                                                          *)
Good == Delivery(10, 45, 5)
Worse == Delivery(14, 70, 5)
Middling == Delivery(11, 50, 5)
QuarterOff == Delivery(12, 60, 5)

MCOutcomes ==
    [a \in MCAds |-> [d \in 1 .. LastDay |->
        CASE a = ada /\ d # 3 -> {Good, Worse}
          [] a = ada /\ d = 3 -> {Middling, QuarterOff}
          [] a = adb /\ d = 1 -> {Delivery(9, 30, 3), Nothing}
          [] OTHER            -> {Delivery(9, 30, 3)}]]

MCMaxResults == [a \in MCAds |-> IF a = ada THEN 1 ELSE 0]

(* A person who is there every day, and another every other day.           *)
MCReachedOn == [d \in 1 .. LastDay |-> IF d % 2 = 1 THEN {p1} ELSE {p1, p2}]

MCPlaceOf == [a \in MCAds |-> IF a = ada THEN feed ELSE story]

(* A schedule that has begun, one that begins later, and one that is no    *)
(* schedule.                                                               *)
MCSchedules == {Window(1, 4), Window(2, 3), Window(3, 2)}

(* What the .cfg files name.  TLC sorts the value of a definition before    *)
(* its workers share it, and not one that is written where a .cfg points.  *)
TheAds == MCAds
TheOutcomes == MCOutcomes
TheReachedOn == MCReachedOn
ThePlaceOf == MCPlaceOf
TheMaxResults == MCMaxResults
TheSchedules == MCSchedules
=============================================================================
