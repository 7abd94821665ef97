SPECIFICATION Spec
CONSTANTS
  Patterns = {p1, p2}
  Slips = {}
  Images = {i1}
  DefaultImage = default
  OtherPlugins = {other}
  Lagging = {"configMap", "console"}
  MaxFaults = 1
  MaxEdits = 1
INVARIANTS TypeOK OneNamedPattern
PROPERTIES OthersKeepTheirPlugins ConfigIsTheUsers CatalogAsConfigured PluginIsEnabled
CHECK_DEADLOCK FALSE
