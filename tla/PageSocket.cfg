\* Three chains: two that the effect starts beside the timer of another one.
CONSTANTS
  Chains = {c1, c2, c3}
  None = None
  Url = Url
SPECIFICATION Spec
SYMMETRY Symmetry
INVARIANTS TypeOK NeverStranded ConnectedTruthful
