\* Three attempts and one automatic reconnect: connect, reconnect, give up, click.
SPECIFICATION Spec
CONSTANTS
  MaxGen = 3
  ReconnectLimit = 1
  Minute = 2
INVARIANTS
  TypeOK
  OneAttempt
  LiveAdopted
  UndisturbedLive
  StatusHonest
  SocketReleased
  SpinnerHonest
PROPERTIES
  DropIsCurrent
  DropNoticed
  ConnectReturns
  ReconnectBudget
