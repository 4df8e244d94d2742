\* The founder and one user, who may be removed and invited again, and four
\* requests: as many as that takes.
SPECIFICATION Spec
CONSTANTS
  User = {f, u1}
  Founder = f
  Request = {r1, r2, r3, r4}
  Signup = Signup
  NoUser = NoUser
  NoRequest = NoRequest
SYMMETRY Symmetric
INVARIANT OwnersAreAppointed
PROPERTY LastOwnerFallsToARace
PROPERTY ChangesHitTheRowTheyChecked
PROPERTY InvitationsClose
CHECK_DEADLOCK FALSE
