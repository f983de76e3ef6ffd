SPECIFICATION FairSpec
CONSTANTS
  w1 = w1
  w2 = w2
  w3 = w3
  Workers <- MCWorkers
  Jobs <- OrderFirst
INVARIANT NoDeadlock
PROPERTY RequestsFinish
