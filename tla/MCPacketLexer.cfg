SPECIFICATION FairSpec
CONSTANTS
  Mixtures <- OneByOne
  Corrections <- Rtcm2Devices
  MaxRead = 2
  MaxIn = 9
  MaxPacket = 4
  MinJson = 3
  MinGtxt = 4
  MinTsip = 5
  MaxDepth = 2
INVARIANTS RoomToRead CutSentences
PROPERTIES Returns Resyncs
