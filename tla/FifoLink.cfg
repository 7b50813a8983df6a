CONSTANTS
  bw = bw
  plain = plain
  Event = {bw, plain}
  Msg = {m1,m2}
  window_size = 8
  Delays = {1}
  latency <- MCLatency
  max_size <- MCMaxSize
  send_every <- MCSendEvery
  Lats = {0, 2}
  Costs = {0}
SPECIFICATION LinkSpec
INVARIANTS LinkTypeOK MarkIsTrue WakesInTime
PROPERTY EventuallyDelivered
