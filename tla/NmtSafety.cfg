SPECIFICATION Spec
CONSTANTS
  Node <- MCTrio
  Unconfigured = {3}
  StoredStartup <- MCStartup3
  StoredProducer <- MCProducer
  Inhibit <- MCInhibit
  BufSize = 2
  LocalCs <- MCAllCs
  ClientProducer <- MCSilence
  ClientStartup <- MCDemote
  MaxRx = 1
INVARIANTS TypeOK RolesRespected ServicesMatchState NoStuckCommand ProducerFollowsObject
