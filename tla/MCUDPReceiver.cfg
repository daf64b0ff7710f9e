\* runInBackground / stopBackground against loopUntilError, with other threads
\* of the process opening descriptors at any time.
CONSTANTS
  MaxQueue <- MCMaxQueue
  FdReuse = TRUE
SPECIFICATION RecvSpec
INVARIANT NoCallbackAfterStop
