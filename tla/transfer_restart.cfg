SPECIFICATION Spec
CONSTANTS
  Size = 5
  ReadOnly = {}
  Texts = {}
  Inline = 0
  DownChunk = 2
  UpChunk = 3
  JobKinds = {"DOWNLOAD"}
  JobSizes = {5}
  Resume = FALSE
  MaxJobs = 1
  MaxFaults = 2
CHECK_DEADLOCK FALSE
PROPERTY BlockIntact
