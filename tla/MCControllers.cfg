CONSTANTS
  Remote = {r1, r2, r3}
  NoRemote = NoRemote
  Width = 4
  AsyncConfig <- MCAsyncConfig
  MaxEpoch = 6
SPECIFICATION RolesSpec
INVARIANTS AtMostOneMaster RecentClaimWins AsyncDelivered
PROPERTY MasterElected
