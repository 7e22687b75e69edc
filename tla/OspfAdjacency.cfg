CONSTANTS
  Owner <- MCOwner
  Randoms <- MCRandoms
  PerPacket = 1
  DdMod = 8
  FirstSum = 2
  NewSums = {1, 3}
  Mixes <- MCMixes
SPECIFICATION FairSpec
INVARIANT BehindIsOwed
PROPERTY NeverAborted
PROPERTY Converges
