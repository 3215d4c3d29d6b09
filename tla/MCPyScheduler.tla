--------------------------- MODULE MCPyScheduler ---------------------------
(* Expressions that run several times a day, once a day, once a week.      *)
EXTENDS PyScheduler

Any == [kind |-> "any"]
At(n) == [kind |-> "number", value |-> n]

Times(min, hour) ==
  [min |-> min, hour |-> hour, mday |-> Any, mon |-> Any, wday |-> Any]

(* "0 */6 * * *", "30 1,13 * * *", "*/20 8-9 * * *", "10-11 3,4 * * *"     *)
SeveralADay ==
  {Times(At(0), [kind |-> "step", step |-> 6]),
   Times(At(30), [kind |-> "list", values |-> {1, 13}]),
   Times([kind |-> "step", step |-> 20], [kind |-> "range", lo |-> 8, hi |-> 9]),
   Times([kind |-> "range", lo |-> 10, hi |-> 11],
         [kind |-> "list", values |-> {3, 4}])}

(* They meet the hypotheses of MatchedPollsFireEveryDay, with cycles of up *)
(* to 5 slots.                                                             *)
ASSUME SeveralADayAssumption ==
  \A e \in SeveralADay :
    /\ EveryDay(e)
    /\ \A s \in 0 .. SlotsPerDay - 1 :
         CronMatches(e, LocalTime(s)) => MatchesAgain(e, s, 5)

(* "0 2 * * *": config.yaml.example:31                                     *)
OnceADay == {Times(At(0), At(2))}

(* "0 2 * * 0": Sundays                                                    *)
OnceAWeek == {[Times(At(0), At(2)) EXCEPT !.wday = At(0)]}
=============================================================================
