SPECIFICATION Spec
CONSTANTS
  a = a
  z = z
  w = w
  Value = {a, z, w}
  Length <- MCLength
  Small = {a}
  Refused = {a}
  Local = {w}
  First = a
  Capacity = 3
  MaxSeqnos = {2, 127}
  Psts = {2}
  MaxFault = 2
  MaxOld = 2
INVARIANTS TypeOK WholeValues ConfirmedMeansStored UploadIsAValue FaultlessSucceeds
PROPERTIES Recovers
