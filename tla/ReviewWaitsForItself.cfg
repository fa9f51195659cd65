\* LisM: steps are run inline, by A as well.
CONSTANTS
  d1 = d1
  d2 = d2
  Driver <- MCDriver
  Stopper = Stopper
  Designer = Designer
  Nobody = Nobody
  Inline = TRUE
  MaxWorker = 1
SPECIFICATION FairSpec
PROPERTIES
  RequestsReturn
CHECK_DEADLOCK FALSE
