SPECIFICATION FairSpec
CONSTANTS
  e1 = e1
  Events = {e1}
  Workers = {w1, w2}
  NoRow = NoRow
  Topic <- MCTopic
  TopicSubscribers <- MCTopicSubscribers
  AnySubscribers <- MCAnySubscribers
  MaxAttempts <- MCMaxAttempts
  AttemptCap = 3
  BackoffBase = 1
  BackoffCap = 2
  Horizon = 2
  StaleAfter = 1
INVARIANT InOrder
PROPERTIES DeliverySpec EventuallyHandled
