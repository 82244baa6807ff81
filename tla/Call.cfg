SPECIFICATION MCSpec
CONSTANTS
  Configs <- MCConfigs
  Losses = {92, 112}
  Delays = {2688, 2790}
  MsLimits = {3, 12}
  BsLimits = {12, 30}
  C0Limits = {0, 6}
  MaxEvents = 1
INVARIANTS
    DtxInv
    LinkInv
PROPERTIES
    FacchDelivered
    LoopsSettle
CHECK_DEADLOCK FALSE
