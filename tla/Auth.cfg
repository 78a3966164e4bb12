SPECIFICATION FairSpec
CONSTANTS
  Thread = {t1, t2}
  User = {root_user, alice}
  Role = {root_role, editor}
  RootUser = root_user
  RootRole = root_role
  Key = {2, 4}
  RequestEnd = {0}
  Grantable <- ReadFirst
  Password = {secret}
  MaxRevision = 6
  None = None
INVARIANTS TypeOK RevisionDetectsChanges ChecksAnswerTheMoment
PROPERTY CallsReturn
CHECK_DEADLOCK FALSE
