\* stopBackground, then runInBackground again, in a process that reuses no
\* descriptor.
CONSTANTS
  MaxQueue <- MCMaxQueue
  FdReuse = FALSE
SPECIFICATION RecvSpec
INVARIANT RestartReceives
