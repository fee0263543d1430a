SPECIFICATION Spec
CONSTANTS
  p = p
  h = h
  Client = {p, h}
  Patient = {p}
  Listener = Listener
  NoFile = NoFile
  MG_IO_SIZE = 1
  FileLen = 2
  FD_SETSIZE = 3
  MaxRequests <- TwoHasty
  MaxTurns = 2
  Wanted <- FileForPatient
INVARIANTS TypeOK HandledInOrder RepliesInOrder WaitsOnlyBehindFile LostOnlyByHaste CutOnlyAtTheEnd
