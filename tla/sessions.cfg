SPECIFICATION Spec
CONSTANTS
  Requests = {r1, r2}
  Passwords = {p1, p2}
  MaxTokens = 3
  MaxLinks = 2
SYMMETRY Symmetry
INVARIANTS TypeOK OneLivePerSession
PROPERTIES SignOutIsComplete NewLinkReplacesOlder
