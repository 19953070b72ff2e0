SPECIFICATION Spec
CONSTANTS
  Accounts = {1, 2}
  Stake <- MCStake
  Witnesses = {1, 2, 3, 4, 5}
  CommitteeMembers = {11, 12, 13}
  Workers <- MCWorkers
  MinWitnessCount = 1
  MinCommitteeCount = 1
  FilledSlots = 4
  xorshift <- MCxorshift
  CycleRate = 1
  CycleUnit = 16
  Day = 8
  MaxSupply = 40
  FeePercent <- MCFeePercent
  Burners = {"referrer"}
  Parameters <- MCParameters
  Start <- MCStart
  Opinions <- MCOpinions
  MyWitnesses = {1, 4}
  RequiredParticipation = 33
  Fees = {9}
  GenesisTime = 3
  MaxTime = 13
  MaxOpinions = 2
  MaxFees = 1
INVARIANTS ScheduleKept OwnBlocksValid CoreConserved
PROPERTIES OneBlockPerSlot PaidInFull CountIsMedian
