\* Two requests and one token, without a reset.
SPECIFICATION FirstRunSpec
CONSTANTS
  Request = {r1, r2}
  MaxIssues = 1
  MaxAdmins = 2
  MaxResets = 0
INVARIANT SingleUse
