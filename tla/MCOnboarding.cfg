SPECIFICATION Spec
CONSTANTS
  None = None
  Emails = {ann, bob}
  Operators = {o1, o2, o3}
  MaxBootDisruptions = 3
  Invites = {i1}
  Passwords = {p1}
  Requests = {r1, r2}
  MaxTerm = 2
  MaxPolicy = 2
  MaxDisruptions = 1
INVARIANTS BootstrapSafe InvitationSafe
PROPERTIES ClaimAndOwnerFinal  InvitationSteps ClaimsAreRedeemed
