SPECIFICATION Spec
CONSTANTS
  NumQtrm = 2
  MaxChunks = 1
  MaxAnnounces = 1
PROPERTY
  SingleTargetUploadCompletes
