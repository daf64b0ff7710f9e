\* Another thread opens a socket while stopBackground runs.
CONSTANTS
  MaxQueue <- MCMaxQueue
  FdReuse = TRUE
SPECIFICATION RecvSpec
INVARIANT OnlyOwnDatagrams
