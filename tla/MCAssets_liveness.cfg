SPECIFICATION FairSpec
CONSTANTS
  Assets = {x1}
  Callers = {c1}
  Workers = {w1}
  Fields = {}
  NoCall = NoCall
  NoRun = NoRun
  NoReference = NoReference
PROPERTIES UploadSettles DeletionCompletes
CHECK_DEADLOCK FALSE
