------------------------------- MODULE MCAlerts -------------------------------
(* Constants of the model checking of Alerts: rule 1 is stateful, rule 2     *)
(* reports events.                                                           *)
EXTENDS Alerts

CONSTANTS stalled, day1, day2, beat, button

JustStateful  == {1}
NoneStateful  == {}
JustEvents    == {2}
TwoEvents     == {day1, day2}
OnlyCondition == {stalled}
RuleOfKey     == [k \in Keys |-> IF k = stalled THEN 1 ELSE 2]
OneEvaluator  == {beat}
TwoEvaluators == {beat, button}
=============================================================================
