SPECIFICATION Spec
CONSTANTS
  Senders = {s1, s2}
  MaxMined = 2
  MaxRetries = 3
  GasPrice = 5
  TxCount = 3
  BlockWindow = 3
  WalletIds = {1, 56}
  SwapGas = 150000
  Tasks = {t1, t2}
  Permits = 2
  MaxItems = 3
  Checkers = {k1, k2}
  Interval = 2
  LastTick = 4
  UrlCount = 2
  Askers = {k1, k2}
  Requests = {"q1", "q2"}
  Room = 2
  MaxOthers = 2
  Clients = {w1, w2}
  ChannelRoom = 1
  MaxBroadcasts = 2
  Loops = {l1, l2}
  Nobody = Nobody
  QueueSize = 2
  MaxMessages = 3
  MaxBreaks = 3
  MaxAttempts = 5
  ApiRequests = {a1, a2}
  Names = {n1}
  MaxStops = 1
INVARIANTS
  TypeOK
  
  OnceAndInOrder
  ReadyBeforeUse

  
