SPECIFICATION FaultlessSpec
CONSTANTS
  Lambda = {"terraform", "eventbridge"}
  ByHand = {"psql"}
  TerraformRun = "terraform"
  MayAbandon = {"eventbridge"}
  Migrations <- mcMigrations
INVARIANTS
  ReadyAfterTerraform
CHECK_DEADLOCK FALSE
