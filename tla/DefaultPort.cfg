SPECIFICATION Spec
CONSTANTS
  p = p
  h = h
  Client = {p, h}
  Patient = {p}
  Listener = Listener
  NoFile = NoFile
  MG_IO_SIZE = 1
  FileLen = 2
  FD_SETSIZE = 3
  MaxRequests <- TwoPatient
  MaxTurns = 2
  Wanted <- StopOrFile
INVARIANT DefaultPortStarts
