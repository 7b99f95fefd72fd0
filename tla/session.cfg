SPECIFICATION FairSpec
CONSTANTS
  Links = {1, 2}
  NoLink = NoLink
  NoFile = NoFile
  Files <- FewFiles
  Aliens <- FewAliens
  HelloWait = 2
  RestartWait = 2
  HBInterval = 4
  HBTimeout = 6
  Delay = 1
  MaxBreaks = 1
  MaxEdits = 1
CONSTRAINT Short
INVARIANTS TypeOK LivePeerKept UpIsListening
PROPERTIES Served PortsReleased
