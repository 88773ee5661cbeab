SPECIFICATION FairReceiverSpec
CONSTANTS
  b1 = b1
  b2 = b2
  Wrap = 8
  Dropout = 3
  Window = 3
  FirstSent = 4
  LastSent = 10
  Bodies = {b1, b2}
  Size <- BodySize
  MaxPackets = 2
  MaxBytes = 3
  MaxDelay = 1
  Streams <- Sources
  Stamp <- OneStamp
  MaxFragments = 3
  MaxAge = 2
INVARIANTS
  TrackerInv
  OutputTiles
  SeenIsAccounted
  ReceiverInv
  WholeNals
PROPERTIES
  ReceiverProgress
