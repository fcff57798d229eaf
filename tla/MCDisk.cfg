\* Three processes and descriptors for two requests and one to spare.
CONSTANTS
  b1 = b1 b2 = b2 b3 = b3 Nil = Nil
  Bufs = {b1, b2, b3}
  NUM = 7
  WRAP = 14
SPECIFICATION FairSpec
INVARIANTS DescriptorsOwned DeviceSafe
PROPERTIES TransferredFirst RequestEnds
