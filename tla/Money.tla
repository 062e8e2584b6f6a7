------------------------------- MODULE Money -------------------------------
(***************************************************************************)
(* money.py: amounts between what a person reads and what Meta is sent.    *)
(*                                                                         *)
(* A display amount is counted in parts of 1/FINEST of the currency, so    *)
(* that every offset up to FINEST divides it exactly, as Decimal does: 70  *)
(* is 70 * FINEST.  A minor amount is a number of the account's smallest   *)
(* units.                                                                  *)
(***************************************************************************)
EXTENDS Integers

FINEST == 10000

(* A Money is built with a power of ten as its offset.  FINEST bounds the  *)
(* powers in the model; no currency has a larger offset.                   *)
Offsets == {1, 10, 100, 1000, FINEST}

NotGiven == -1     \* offset=None: an offset of 0 is a value, and a bad one

(* One currency of each kind of row in the tables, and a code that no      *)
(* table lists would be any other.                                         *)
MinorUnitDigits == [JPY |-> 0, PLN |-> 2, HUF |-> 2, BHD |-> 3, KWD |-> 3]

MetaOffsetOverrides == [HUF |-> 1, BHD |-> 100]

Known(currency) == currency \in DOMAIN MinorUnitDigits

PowerOfTen == [n \in 0 .. 4 |-> CASE n = 0 -> 1 [] n = 1 -> 10 [] n = 2 -> 100
                                  [] n = 3 -> 1000 [] n = 4 -> FINEST]

OffsetFor(currency) ==
    IF currency \in DOMAIN MetaOffsetOverrides
    THEN MetaOffsetOverrides[currency]
    ELSE PowerOfTen[MinorUnitDigits[currency]]

(* The account's own offset outranks the table.                            *)
Scale(currency, offset) == IF offset = NotGiven THEN OffsetFor(currency) ELSE offset

HasScale(currency, offset) ==
    /\ offset # NotGiven \/ Known(currency)
    /\ Scale(currency, offset) \in Offsets

Money == [minor : Int, currency : STRING, offset : Offsets]

(* The smallest amount an offset can express.                              *)
SmallestUnit(offset) == FINEST \div offset

FromMinor(minor, currency, offset) ==
    [minor |-> minor, currency |-> currency, offset |-> Scale(currency, offset)]

(* from_display refuses an amount finer than the currency's smallest unit. *)
Representable(amount, currency, offset) ==
    /\ HasScale(currency, offset)
    /\ amount % SmallestUnit(Scale(currency, offset)) = 0

FromDisplay(amount, currency, offset) ==
    FromMinor(amount \div SmallestUnit(Scale(currency, offset)), currency, offset)

(* A mistake: an amount is read in the table's scale.                      *)
DisplayOfTable(money) == money.minor * SmallestUnit(OffsetFor(money.currency))

Display(money) == money.minor * SmallestUnit(money.offset)

SameKind(m, n) == m.currency = n.currency /\ m.offset = n.offset

(* n / d rounded to a whole number, half away from zero (ROUND_HALF_UP).   *)
HalfUp(n, d) ==
    IF n >= 0 THEN (2 * n + d) \div (2 * d) ELSE -((d - 2 * n) \div (2 * d))

(* The percentage in tenths, or nothing from zero.                         *)
PctChange(old, new) ==
    IF old.minor = 0 THEN {}
    ELSE {HalfUp(1000 * (new.minor - old.minor), old.minor)}

Direction(old, new) ==
    CASE new.minor > old.minor -> "increase"
      [] new.minor < old.minor -> "decrease"
      [] OTHER -> "unchanged"

ChangeType ==
    [currency : STRING, from : Int, to : Int, delta : Int, pct : SUBSET Int,
     direction : {"increase", "decrease", "unchanged"}]

(* What an approval prompt shows of a change; refused unless SameKind.     *)
DescribeChange(old, new) ==
    [currency  |-> old.currency,
     from      |-> Display(old),
     to        |-> Display(new),
     delta     |-> Display(new) - Display(old),
     pct       |-> PctChange(old, new),
     direction |-> Direction(old, new)]
=============================================================================
