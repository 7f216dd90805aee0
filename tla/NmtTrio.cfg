SPECIFICATION FairSpec
CONSTANTS
  Node <- MCTrio
  Unconfigured = {}
  StoredStartup <- MCStartup3
  StoredProducer <- MCNoProducer
  Inhibit <- MCNoInhibit
  BufSize = 2
  LocalCs <- MCSlaveResets
  ClientProducer = {}
  ClientStartup = {}
  MaxRx = 2
INVARIANTS EstAgrees
