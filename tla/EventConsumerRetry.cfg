SPECIFICATION Spec
CONSTANTS
  m1 = m1
  m2 = m2
  nobody = nobody
  NoMember = nobody
  Member <- OneMember
  MaxLog = 2
PROPERTY FailedIsRetried
