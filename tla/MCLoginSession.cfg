SPECIFICATION Spec
CONSTANTS
  ann = ann
  bob = bob
  eve = eve
  a1 = a1
  a2 = a2
  p1 = p1
  p2 = p2
  Names = {ann, bob, eve}
  Passwords = {p1, p2}
  Accounts = {a1, a2}
  Empty = Empty
  NoAccount = NoAccount
  Null = Null
  AccountOf <- MCAccountOf
  PasswordOf <- MCPasswordOf
  BOffline = {TRUE}
  Forms <- MCForms
  Serial = TRUE
  MaxActs = 5
  MaxIntros = 1
  MaxMains = 2
  MaxTasks = 2
  MaxRotations = 0
  MaxDeaths = 0
CONSTRAINT FewAlike
INVARIANTS TypeOK SessionIsVerified OneTaskPerForm MainShowsSession
PROPERTY LatestAttemptWins
