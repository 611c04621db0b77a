SPECIFICATION Spec
CONSTANTS
  WORD = 1048576
  Pids = {1, 2}
  Clients = {"c1"}
  Host = "n1"
  MaxChanges = 1
  MaxFaults = 1
  Ipv4s <- MCIpv4s
  Cidr <- MCCidr
  Commands <- MCCommands
  Docs <- MCDocs
  Confs <- MCConfs
  ClientConfs <- MCClientConfs
  SwitchDocs <- MCSwitchDocs
  StartDisks <- MCStartDisks
  EditedDisks <- MCEditedDisks
INVARIANTS
  PidFileSound
  CommandIsExact
  FileIsFollowed
PROPERTIES
  TermEnds
CHECK_DEADLOCK FALSE
