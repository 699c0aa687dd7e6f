SPECIFICATION Spec
CONSTANTS
  t1 = t1
  t2 = t2
  c1 = c1
  Texts = {t1, t2}
  Catalogs = {c1}
  MaxRecords = 3
  MaxCode = 2
  Documents <- ReadDocuments
  Provided <- ProvidedModels
  Nothing = Nothing
INVARIANTS
  WhatRunsIsSound
  ApprovalIsOfReviewed
  RestartKeepsPublished
CHECK_DEADLOCK FALSE
