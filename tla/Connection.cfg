SPECIFICATION FairConnSpec
CONSTANTS
  kCheapPrepend = 1
  kInitialSize = 3
  kHeaderLen = 2
  kIdLen = 1
  kMaxFrameLen = 2
  Base = 8
  Scripts <- MCScripts
  Threads = {0, 1}
  Lobby = 0
  MaxOps = 1
  Replies <- MCReplies
  SndBuf = 2
INVARIANT FlushedBeforeFin
INVARIANT ClientSeesFrames
INVARIANT FramesExact
INVARIANT LastWordsDelivered
INVARIANT ClosedIsUnregistered
PROPERTY CloseIsReported
PROPERTY IllegalHangsUp
CHECK_DEADLOCK FALSE
