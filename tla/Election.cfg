SPECIFICATION Spec
CONSTANTS
  None = None
  Sentinels = {s1, s2, s3}
  Addrs = {a1, a2}
  FirstMaster = a1
  Quorum = 1
  MaxEpoch = 2
  MaxRestarts = 1
  MaxHellos = 1
SYMMETRY Symmetry
INVARIANTS TypeOK OneVotePerEpoch OneLeaderPerEpoch
CHECK_DEADLOCK FALSE
CONSTRAINT FewCampaigns
