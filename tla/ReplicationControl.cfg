\* Starts overlap; a stop, a deletion or a change of mode is given on its own.
CONSTANTS
  Table = {1, 2}
  Command = {c, d}
  Kinds = {"auto", "start", "force", "resume", "stop", "mode", "delete"}
  Modes = {"auto", "peerdb", "polling", "none"}
  Sources = {"full", "rows", "none"}
  Careful = TRUE
  Faults = {"list", "dump", "checkpoint", "lookup", "create", "crash"}
  MaxFaults = 2
  MaxCommands = 3
SPECIFICATION ControlSpec
INVARIANTS  ProgressIsTrue
PROPERTIES CommandsEnd RestoredAtBoot
CHECK_DEADLOCK FALSE
