SPECIFICATION Spec
CONSTANTS
  Channels = {c1, c2}
  Reenable = TRUE
  InitEventListSize = 1
  Ready = {{}, {"read"}, {"write"}, {"hangup"}}
INVARIANT EPollInv
PROPERTIES PollerSpec NoStarvation
