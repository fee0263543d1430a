SPECIFICATION HostSpec
CONSTANTS
  thread = thread  alias = alias  thread_so = thread_so
  None = None
  Path = {thread, alias}
  LibPath = {}
  File = {thread_so}
  FileOf <- MCFileOf
  ThreadFile = thread_so
  Slot = {0, 1}
  MaxVersion = 2
  IterReach = 2
  MaxNodes = 3
  MaxLeaks = 2
  MaxLate = 1
INVARIANTS
  HostTypeOK
  OrphanedOnlyByFlush
  CrewInReach
