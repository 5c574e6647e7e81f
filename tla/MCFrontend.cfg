SPECIFICATION MCSpec
CONSTANTS
  NULL = NULL
  WindowSize <- MCWindowSize
  Sizes <- MCSizes
  Frame <- MCFrame
  MaxEvents = 3
INVARIANTS
  ExitReleases
  OneImage
  ImageFits
  WholeFrameShown
  HandlesAlive
PROPERTY
  CloseEnds
