SPECIFICATION Spec
CONSTANTS
  Node = {n1, n2}
  Client = {c1}
  MemberId = {m1, m2, m3}
  FirstMember = {m1, m2}
  Url = {u1}
  BadUrl = {b1}
  MaxLog = 2
  MaxElections = 1
  MaxRestarts = 1
  Nobody = Nobody
  None = None
INVARIANT MembersAgree
CHECK_DEADLOCK FALSE
