SPECIFICATION ServicesSpec
\* Requests and events are used up: a behaviour ends when there are none left.
CHECK_DEADLOCK FALSE
CONSTANTS
  pa = pa
  Plans = {pa}
  KeyOrder <- Order
  KindOf <- Kinds3
  Designers = {d1, d2}
  Runners = {g1, g2}
  MaxRuns = 2
  DesignerMixes <- AllDesigns
  Keys = {"url", "ttl"}
  Legal <- MCLegal
  Prints = {"x", "y"}
  People = {"root", "ann", "bob"}
  Clerks = {k1, k2}
  Lasting = {"root"}
  WatchMixes <- AllWatches
  Ids = {"u1", "u2"}
  Labels = {"n1", "n2"}
  Paths = {"f1", "f2", "f3"}
  Porters = {k1, k2}
  MaxWrites = 1
  ImportMixes <- AllImports
  Guests = {"va", "vb"}
  Addresses = {"a1", "a2"}
  Visits = {j1, j2}
  MaxIds = 3
  ShellMixes <- AllShells
  Books = {"b1", "b2", "b3"}
  Roles = {"r1"}
  Shipped <- MCShipped
  Texts <- MCTexts
  Numbers = {"7"}
  Hosts = {"h1", "h2"}
  Runs = {r1, r2}
  Editors = {e1, e2}
  Dealers = {d1, d2}
  AnsibleMixes <- AllRuns
  Calls = {"c1", "c2", "c3", "c4"}
  Old = "v0"
  Names = {"a", "b", "c"}
  OldName = "a"
  SlowWorkers = 2
  Mixes <- RestOrSafe
  TwoDisks = FALSE
  PoolListed = TRUE
  MaxFaults = 1
  None = None
PROPERTIES Converged 
INVARIANTS
  InForceIsSaved ToldOfEachFirst PiecesAgree FilesKept ExportsWhole OneKey SameMachine Registered
  AllOrNone KeyedWhereReady NothingOutlives SecretsApart RowsMatchDomains
