----------------------------- MODULE MCService ------------------------------
(* Small instances of the five parts.                                        *)
EXTENDS Service, TLC

\* Lower limits, higher ones, a maximum below the minimum, and no limits.
MCReloads == {[min |-> 4, max |-> 5], [min |-> 12, max |-> 12], [min |-> 4, max |-> 0], [min |-> 0, max |-> 0]}
MCLength == [b \in {"b0", "b1", "b2"} |-> IF b = "b0" THEN 0 ELSE IF b = "b1" THEN 2 ELSE 3]
From(a, b) == [kind |-> "from", a |-> a, b |-> b]
Suffix(n) == [kind |-> "suffix", a |-> n, b |-> -1]
MCHeaders == {Whole, From(1, -1), From(0, 5), From(2, 2), From(2, 1), Suffix(0), Suffix(9)}
GBudget(p, g, d, x, s) == [put |-> p, get |-> g, delete |-> d, fail |-> x, stop |-> s]
MCGBudgets == {GBudget(2, 1, 0, 0, 0), GBudget(1, 1, 1, 1, 0), GBudget(1, 1, 0, 0, 1), GBudget(2, 0, 0, 1, 1)}

\* The ends of a leap day and of a year.
MCCalendars == {<<1709251199, 1709251200>>, <<1735689599, 1735689600>>}
SBudget(c, d, o, a, r, g, f) == [create |-> c, delete |-> d, old |-> o, append |-> a, rotate |-> r, gc |-> g, fail |-> f]
MCSBudgets == {SBudget(2, 1, 1, 0, 0, 0, 0), SBudget(2, 0, 1, 0, 0, 0, 1), SBudget(1, 0, 0, 2, 1, 1, 1), SBudget(2, 0, 0, 1, 0, 0, 0)}
=============================================================================
