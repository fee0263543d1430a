SPECIFICATION Spec
CONSTANTS
  tpl = tpl  alias = alias  lib = lib  link = link
  tpl_so = tpl_so
  None = None
  Path = {tpl, alias}
  LibPath = {lib, link}
  File = {tpl_so}
  FileOf <- MCFileOf
  MaxVersion = 2
  IterReach = 1
  MaxNodes = 3
  MaxLeaks = 2
  MaxLate = 1
INVARIANTS
  TypeOK
  RefsAccounted
  RunsMappedCode
  FlushReloads
  UnloadedAtExit
PROPERTY ShutsDown
