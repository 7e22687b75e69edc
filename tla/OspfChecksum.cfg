CONSTANTS
  Owner <- MCOwner
  Randoms <- MCRandoms
  PerPacket = 1
  DdMod = 8
  FirstSum = 2
  NewSums = {4}
  Mixes <- MCMixes
SPECIFICATION Spec
INVARIANT BehindIsOwed
