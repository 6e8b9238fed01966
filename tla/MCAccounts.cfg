CONSTANTS
  Procs = {p1, p2}
  Users = {u1, u2}
  Sessions = {s1, s2}
  Groups = {g}
  Inquiries = {i}
  Scopes = {shengxu, linxi}
  Codes = {c1, c2}
  shengxu = shengxu
  linxi = linxi
  c1 = c1
  c2 = c2
  Forms <- MCForms
  MaxRequests = 2
  NoOne = NoOne
SPECIFICATION Spec
SYMMETRY Symmetry
CHECK_DEADLOCK FALSE
INVARIANT TokenUsedOnce
INVARIANT SessionsAllowed
INVARIANT OwnersAvailable
INVARIANT GroupsSound
PROPERTY KeepsChains
