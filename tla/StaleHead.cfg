SPECIFICATION Spec
CONSTANTS
  Urls = {u1}
  Active = {u1}
  Alike = {}
  GiteaUrl = gitea
  NoUrl = none
  Names = {"main", "v1"}
  Main = "main"
  Origins = {none}
  Revisions = {""}
  MaxCommits = 3
  MaxFaults = 0
  MaxEdits = 1
PROPERTIES HeadIsValidated
CHECK_DEADLOCK FALSE
