SPECIFICATION FairSpec
CONSTANTS
  Sources = {s1, s2}
  Clients = {c1}
  MaxAdds = 3
  MaxAsks = 1
  MaxEvents = 1
  FeedCap = 1
  SendCap = 2
  BacklogSize = 2
  StoreSize = 2
  Event = Event
  NoEntry = NoEntry
INVARIANTS NothingMissed PanicOnlyAfterDrop
PROPERTY GoneClientForgotten
