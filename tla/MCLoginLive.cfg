SPECIFICATION FairSpec
CONSTANTS
  ann = ann
  bob = bob
  eve = eve
  a1 = a1
  a2 = a2
  p1 = p1
  p2 = p2
  Names = {ann, bob, eve}
  Passwords = {p1, p2}
  Accounts = {a1, a2}
  Empty = Empty
  NoAccount = NoAccount
  Null = Null
  AccountOf <- MCAccountOf
  PasswordOf <- MCPasswordOf
  BOffline = {TRUE, FALSE}
  Forms <- MCErrorForms
  Serial = TRUE
  MaxActs = 3
  MaxIntros = 2
  MaxMains = 2
  MaxTasks = 1
  MaxRotations = 1
  MaxDeaths = 2
INVARIANT MainNeedsSession
PROPERTIES FormComesBack SplashLeaves
