CONSTANTS
  PacketMax = 3
  Reserved = 1
  TotalMax = 8
  SubSeqs = 5
  Sizes = {3, 5, 8, 9}
  MaxPhotos = 2
SPECIFICATION FairSpec
PROPERTIES
  WholePhotos
  Delivered
