SPECIFICATION FairSpec
CONSTANTS
  Node <- MCPair
  Unconfigured = {}
  StoredStartup <- MCStartup2
  StoredProducer <- MCProducer
  Inhibit <- MCInhibit
  BufSize = 2
  LocalCs <- MCSlaveResets
  ClientProducer <- MCBoth
  ClientStartup = {}
  MaxRx = 2
INVARIANTS NoSlaveMissed
