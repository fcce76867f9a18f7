SPECIFICATION Spec
CONSTANTS
  Pipelines = {"p1", "p2"}
  Provisioners = {"i1"}
  Placeholder = "nginx"
  Nobody = "nobody"
  MaxRetries = 2
  MaxScripts = 2
INVARIANTS
  ReportedDeploymentIsLive
CHECK_DEADLOCK FALSE
