SPECIFICATION LogSpec
CONSTANTS
  logctl = logctl  alias = alias  tpl = tpl
  logctl_so = logctl_so  tpl_so = tpl_so
  None = None  Literal = Literal
  Path = {logctl, alias, tpl}
  LibPath = {}
  File = {logctl_so, tpl_so}
  FileOf <- MCFileOf
  LogFile = logctl_so
  Level = {"1", "4"}
  MaxVersion = 1
  IterReach = 2
  MaxNodes = 3
  MaxLeaks = 1
  MaxLate = 1
INVARIANTS
  LogReadable
