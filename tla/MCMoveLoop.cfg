SPECIFICATION FairSpec
CONSTANTS
  g = g
  m1 = m1
  m2 = m2
  Null = Null
  Mons <- MCMons
  Guards <- MCGuards
  NormalSpeed = 2
  Rations <- MCRations
  Speeds <- MCSpeeds
  Loads <- MCLoads
  MaxMoves = 4
  MaxHelpless = 1
  MaxForm = 1
  SaveAtMore = FALSE
INVARIANTS
  TypeOK
  PurgeMatches
  CursorAlive
  NobodyIsSkipped
  OutOfSteam
PROPERTIES
  OnceInPass
  HeroIsAsked
