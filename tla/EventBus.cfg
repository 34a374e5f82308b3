\* Three events, of which two fit into the inbound channel and one into a delivery
\* channel: batches, refused publishes, dropped deliveries and their report.
SPECIFICATION FairSpec
CONSTANTS
  publisher = publisher
  other = other
  news = news
  Installations = {publisher, other}
  Topics = {news}
  MayPublish <- MCMayPublish
  MaySubscribe <- MCOneSubscriber
  MaxEvents = 3
  InboundQueueCapacity = 2
  DeliveryQueueCapacity = 1
INVARIANTS EveryDropReported OfferedInOrder
PROPERTIES PublishedBeforeStopIsOffered StopEndsTasks
CHECK_DEADLOCK FALSE
