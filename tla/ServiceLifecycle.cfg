SPECIFICATION FairSpec
CONSTANTS
  main = main
  t1 = t1
  t2 = t2
  d1 = d1
  d2 = d2
  d3 = d3
  x1 = x1
  loopTask = loopTask
  None = None
  Thread = {main, t1, t2}
  Main = main
  Driver = {d1, d2, d3}
  Rpc = {x1}
  Worker = loopTask
INVARIANTS
  LifecycleTypeOK
  OneDriver
  AwaitedIsOpen
  SchemaBeforeTraffic
  NothingOutlivesShutdown
PROPERTY TransitionsEnd
