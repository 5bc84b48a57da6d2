\* Two publishers, no failure at all.
SPECIFICATION RabbitSpec
CONSTANTS
  Calls = {p1, p2}
  MaxRetries = 3
  MaxFaults = 0
INVARIANTS
  ChannelUsedByOne
CHECK_DEADLOCK FALSE
