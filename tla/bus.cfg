SPECIFICATION FairSpec
CONSTANTS
  Topic = {image}
  Sub = {actor, notifier}
  Notifier = notifier
  Client = {b1, b2}
  BufCap = 1
  ClientCap = 1
  MaxEvent = 2
INVARIANTS TypeOK NoCrashWhileLive Delivered
PROPERTIES Stops
