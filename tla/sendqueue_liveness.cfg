SPECIFICATION FairSpec
CONSTANTS
  m1 = m1
  m2 = m2
  s1 = s1
  s2 = s2
  Free = Free
  Main = Main
  Msgs <- TwoMsgs
  Threads <- Senders
  Addressed = {m1}
  CancelActions = {}
  Failures = {"spawn", "folder", "transport", "disconnect"}
  Offline = TRUE
  BlockingAdd = FALSE
CHECK_DEADLOCK FALSE
INVARIANTS
  OneSender
  SentOnce
PROPERTIES
  ThreadEnds
  StopFollowsStart
