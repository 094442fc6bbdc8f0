\* One event, two overlapping runs of ensureConsumer, two faults.
SPECIFICATION FairSpec
CONSTANTS
  Message = {m1}
  Channel = {h1, h2, h3, h4, h5}
  Call = {e1, e2}
  None = None
  MaxFaults = 2

INVARIANTS RegistrationIsLive NoMessageIsLost
PROPERTIES DeliverySpec ConsumersReturn
