SPECIFICATION Spec
CONSTANTS
  n1 = n1
  None = None
  Request = {r1, r2}
  File = {f1}
  Original = {o1, o2}
  Name = {n1}
  NameOf <- OneName
PROPERTIES HandsBackWhatWasChosen
