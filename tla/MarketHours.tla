----------------------------- MODULE MarketHours -----------------------------
(* services/market_hours.py: which session of the Korean market an instant    *)
(* falls into. Holidays are not known.                                        *)
(*                                                                            *)
(* An instant is a place in the week of UTC, from Monday 0:00, in half        *)
(* minutes: an even one is a minute to the microsecond, an odd one stands for *)
(* the rest of that minute.                                                   *)
EXTENDS Integers

At(hour, minute) == 2 * (60 * hour + minute)

OneDay == At(24, 0)
Instants == 0..7 * OneDay - 1

\* now.astimezone(KST): nine hours ahead of UTC.
Korean(instant) == (instant + At(9, 0)) % (7 * OneDay)

WeekdayOfUTC(instant) == instant \div OneDay             \* wrong: the weekday before the conversion
Weekday(instant) == Korean(instant) \div OneDay

CurrentSession(instant) ==
    LET t == Korean(instant) % OneDay
    IN  IF Weekday(instant) >= 5 THEN "closed"
        ELSE IF t \in At(8, 0)..At(9, 0) - 1 THEN "pre_market"
        ELSE IF t \in At(9, 0)..At(15, 30) THEN "regular"
        ELSE IF t \in At(15, 40)..At(18, 0) THEN "after_market"
        ELSE "closed"

IsOpen(instant) == CurrentSession(instant) # "closed"
=============================================================================
