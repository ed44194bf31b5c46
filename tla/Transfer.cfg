SPECIFICATION FairSpec
CONSTANT
  MaxSent = 2
  Window = 1
  NoMessage = NoMessage
PROPERTIES ImplementsRpcCall ReturnsWhenBothDone
