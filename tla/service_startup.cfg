SPECIFICATION StartupSpec
CONSTANTS
  Lambda = {"terraform", "eventbridge"}
  ByHand = {"psql"}
  TerraformRun = "terraform"
  MayAbandon = {"eventbridge"}
  Migrations <- mcMigrations
INVARIANTS
  TypeOK
  MissesOneMigration
  NoCommandRefused
  NotRefusedAtStart
PROPERTIES
  NothingNewLacks
  ServiceUsable
CHECK_DEADLOCK FALSE
