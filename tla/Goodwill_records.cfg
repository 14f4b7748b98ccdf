CONSTANTS
  u1 = u1
  u2 = u2
  c1 = c1
  c2 = c2
  c3 = c3
  a1 = a1
  a2 = a2
  a3 = a3
  Users <- TwoUsers
  Calls <- ThreeCalls
  Addresses <- ThreeAddresses
  Changes <- OneMoreOrLess
  Coins <- OneCoin
  MaxCalls = 4
  Limits <- CallsAndRows
  PerPage = 2
SPECIFICATION GoodwillSpec
SYMMETRY Symmetry
INVARIANTS
  NoUpdateLost
  WalletsFollowSchema
  FirebaseGoesFirst
  NothingDangles
PROPERTIES
  PrimaryIsKept
  RecordsStand
  HistoryLosesOnlyOvertaken
CHECK_DEADLOCK FALSE
