------------------------------ MODULE MCTimeCycle ------------------------------
EXTENDS TimeCycleClock

\* Interval layouts: one interval, alternating data, three unequal intervals.
MCEnds == {<<2>>, <<1, 2>>, <<1, 3>>, <<2, 3>>, <<2, 3, 5>>}

MCProblem(start) == [start_time |-> start, stop_time |-> start + 24]

\* Endless cycles from any start, counted cycles from time 0.
MCRuns ==
  {<<MCProblem(start), [ends |-> e, repeat |-> -1]>> : start \in {0, 4}, e \in MCEnds}
  \cup {<<MCProblem(0), [ends |-> e, repeat |-> r]>> : r \in {1, 2}, e \in MCEnds}

\* A cycle counted twice in a run that starts at time 4.
MCLateStart == {<<MCProblem(4), [ends |-> <<1, 3>>, repeat |-> 2]>>}
================================================================================
