\* Three commands, so that two goals overlap while a third one stops.
CONSTANTS
  Goals = {g1, g2, g3}
  None = None
SPECIFICATION Spec
SYMMETRY Symmetry
INVARIANTS TypeOK OneGoal IntervalTracked StatusTruthful GotoReported
