\* runInBackground / stopBackground against loopUntilError in a process whose
\* other threads open no descriptor while the receiver is stopping.
CONSTANTS
  MaxQueue <- MCMaxQueue
  FdReuse = FALSE
SPECIFICATION RecvSpec
PROPERTY StopReturns ImplementsReceiverLifecycle
