SPECIFICATION FairSpec
CONSTANTS
  MaxKeys = 2
  MaxDisk = 2
INVARIANTS
  TypeOK
  
  MeipRecovers
PROPERTY StipFollows
