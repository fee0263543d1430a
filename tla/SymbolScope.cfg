SPECIFICATION Spec
CONSTANTS
  data1 = data1  ex0 = ex0  lst = lst  alias = alias
  data1_so = data1_so  ex0_so = ex0_so  lst_so = lst_so
  None = None
  Path = {ex0, lst, alias}
  LibPath = {data1}
  File = {data1_so, ex0_so, lst_so}
  FileOf <- MCFileOf
  Defines <- MCDefines
  Needs <- MCNeeds
  MaxVersion = 2
  MaxCalls = 2
  MaxLost = 1
INVARIANTS
  TypeOK
  BoundMapped
  CounterKept
  OneNameIsEnough
  OldOnlyIfHeld
