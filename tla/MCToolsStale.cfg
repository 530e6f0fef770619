CONSTANTS
  Manifests <- MCManifests
  Builds <- MCBuilds
  Jobs = 2
  None = None
  Torn = Torn
  Manifest <- MCManifest
  Guests <- MCGuests
  Threshold = 25
  Absent = Absent
SPECIFICATION ToolsSpec
INVARIANTS PassIsAboutThisBuild
