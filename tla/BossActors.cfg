\* Two drivers, two workers, any number of stops.
CONSTANTS
  d1 = d1
  d2 = d2
  Driver <- MCDriver
  Stopper = Stopper
  Designer = Designer
  Nobody = Nobody
  Inline = FALSE
  MaxWorker = 2
SPECIFICATION FairSpec
INVARIANTS
  LiveIsRecorded
  NothingAfterStop
PROPERTIES
  RequestsReturn
CHECK_DEADLOCK FALSE
