CONSTANTS
  k1 = k1
  k2 = k2
  c1 = c1
  Keys <- MCKeys
  Clients <- MCClients
  MaxWrites <- MCMaxWrites
  MaxGets <- MCMaxGets
  ChanCap <- MCChanCap
  Resync = TRUE
SPECIFICATION Spec
PROPERTY CacheConverges
CHECK_DEADLOCK FALSE
