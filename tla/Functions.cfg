CONSTANTS
  W = 2
  NCoils = 4
  NRegs = 2
  Words = {"a", "b"}
  InitCoils <- MCInitCoils
  InitHolding <- MCHolding
  Discrete <- MCDiscrete
  Input <- MCInput
  Outputs <- MCOutputs
  Ushort = 65536
  Uchar = 256
  CoilReadMax = 5
  CoilWriteMax = 5
  RegReadMax = 3
  RegWriteMax = 2
  Requests <- MCRequests
SPECIFICATION Spec
INVARIANTS ConfirmedIsStored ReadsAreCurrent LightsFollowCoils
PROPERTIES OnlyNamedChange
