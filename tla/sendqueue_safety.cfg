SPECIFICATION Spec
CONSTANTS
  m1 = m1
  m2 = m2
  s1 = s1
  s2 = s2
  Free = Free
  Main = Main
  Msgs <- OneMsg
  Threads <- Senders
  Addressed <- OneMsg
  CancelActions = {"SUSPEND", "REMOVE"}
  Failures <- Failure
  Offline = FALSE
  BlockingAdd = TRUE
SYMMETRY Symmetry
CHECK_DEADLOCK FALSE
INVARIANTS
  TypeOK
  SentIsMarked
  FiledWasSent
  RequestHasThread
