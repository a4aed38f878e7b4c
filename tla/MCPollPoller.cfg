SPECIFICATION Spec
CONSTANTS
  Channels = {c1, c2, c3}
  Reenable = FALSE
  Ready = {{}, {"read"}, {"hangup"}}
INVARIANT PollInv
PROPERTY PollerSpec
SYMMETRY Symmetry
