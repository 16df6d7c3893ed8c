CONSTANTS
  Daemons = {"zebra", "bgpd"}
  MinRestart = 1
  MaxRestart = 2
  MaxFaults = 1
SPECIFICATION LiveSpec
INVARIANTS TypeOK NumdownExact
PROPERTIES GlobalAlone RestartJustified Recovers
