---------------------------- MODULE MCStrategyShadow ----------------------------
EXTENDS StrategyShadow

\* Two alerts that cheaptail fires on and one whose question is ambiguous.
MCSide  == [a \in Alerts |-> IF a = 3 THEN "SELL" ELSE "BUY"]
MCFacts == << {"tail"}, {"tail"}, {"marked", "ambiguous", "tail"} >>
MCLevel == [r \in Alerts \X Enabled |-> IF r[2] = "rulesrisk" THEN "none" ELSE IF r[1] = 1 THEN "info" ELSE "warning"]
MCDelta == <<0, 0, 1, 1>>
MCLoose == [t \in 0 .. 1 |-> 3]

\* Reviews and verdicts touch different columns: one of them at a time.
MCBudgets == {[alerts |-> 3, ticks |-> 2, verdicts |-> 0, versions |-> 1, faults |-> 1],
              [alerts |-> 2, ticks |-> 0, verdicts |-> 2, versions |-> 0, faults |-> 1]}
=================================================================================
