\* POST /cdc/start is sent twice for a source PeerDB can replicate.
CONSTANTS
  Table = {1, 2}
  Command = {c, d}
  Kinds = {"start"}
  Modes = {}
  Sources = {"full"}
  Careful = TRUE
  Faults = {}
  MaxFaults = 0
  MaxCommands = 2
SPECIFICATION ControlSpec
INVARIANT StartIsIdempotent
CHECK_DEADLOCK FALSE
