SPECIFICATION FairSpec
CONSTANTS
  Flow = {f1, f2}
  Browser = {b1}
  Subject <- MCSubject
  Email <- MCEmail
  AllowLists <- MCAllowLists
  MaxRestarts = 1
  Known <- MCKnown
  None = None
  x = x
  y = y
  ann = ann
  bob = bob
INVARIANTS OneAccount SessionsMatch LostIsLost SignInInvariant
PROPERTIES NoMembershipBack CallbacksEnd
CHECK_DEADLOCK FALSE
