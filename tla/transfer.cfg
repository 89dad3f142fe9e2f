SPECIFICATION LiveSpec
CONSTANTS
  Size = 9
  ReadOnly = {6, 7, 8, 9}
  Texts = {{6, 7}, {6, 7, 8, 9}}
  Inline = 2
  DownChunk = 2
  UpChunk = 3
  JobKinds = {"DOWNLOAD", "UPLOAD", "SHORT_UPLOAD", "CHECKSUM",
    "GET_ID", "GET_DAQ_EVENT_INFO", "PROGRAM", "PROGRAM_CLEAR", "PROGRAM_RESET"}
  JobSizes = {2, 5}
  Resume = TRUE
  MaxJobs = 2
  MaxFaults = 4
CHECK_DEADLOCK FALSE
INVARIANT TypeOK
PROPERTIES BlockIntact WritesStayInside UploadIntact ChecksumTrue JobsEnd
