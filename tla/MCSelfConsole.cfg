CONSTANTS
  Messages = {m1, m2, m3}
  Polls = {p1, p2}
  MaxFaults = 2
SPECIFICATION FairSpec
CHECK_DEADLOCK FALSE
INVARIANTS
  NothingForgotten
  PolledOnce
  ConfirmedIsNotQueued
  NeverAnswersItself
PROPERTIES
  ForwardedArrives
