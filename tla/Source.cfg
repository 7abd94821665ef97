SPECIFICATION Spec
CONSTANTS
  Urls = {u1, u2}
  Active = {u1}
  Alike = {u1, u2}
  GiteaUrl = gitea
  NoUrl = none
  Names = {"main", "v1"}
  Main = "main"
  Origins = {none, u1}
  Revisions = {"", "main", "v1"}
  MaxCommits = 3
  MaxFaults = 1
  MaxEdits = 2
INVARIANTS TypeOK NoForeignFiles NamedRevisionIsFresh AppliedWasValidated GiteaLetsOperatorIn
PROPERTIES EditsStand UpstreamIsFollowed ForkIsServed ImplementsDeployedSource
CHECK_DEADLOCK FALSE
