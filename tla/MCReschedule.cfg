SPECIFICATION Spec
CONSTANTS
  u1 = u1
  u2 = u2
  u3 = u3
  d1 = d1
  d2 = d2
  d3 = d3
  v1 = v1
  v2 = v2
  Up = {u1, u2, u3}
  Down = {d1, d2, d3}
  VNode = {v1, v2}
  First <- FirstConfig
  Targets <- TargetConfigs
  MaxEpoch = 3
  MaxUpdates = 1
  MaxRows = 1
  MaxWatermarks = 2
  MaxWatermark = 2
INVARIANTS BarriersAligned ChannelsOpen RowsReachOwner WatermarkIsMinimum NoBarrierStuck
CHECK_DEADLOCK FALSE
