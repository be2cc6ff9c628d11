CONSTANTS
  j1 = j1
  j2 = j2
  j3 = j3
  j4 = j4
  t1 = t1
  t2 = t2
  Jetty <- MCJetty
  Thread <- MCThread
SPECIFICATION Spec
INVARIANTS ContainersAgree OneOwner
PROPERTIES ImplementsQueue
