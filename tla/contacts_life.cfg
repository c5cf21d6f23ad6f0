SPECIFICATION Spec
CONSTANTS
  People = {ann, bea}
  None = None
  MaxOpens = 2
INVARIANT AddableOffline InvitationsOpen
CHECK_DEADLOCK FALSE
