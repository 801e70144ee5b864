\* An aborted prompt returns while one of its events is on the way.
SPECIFICATION Spec
CONSTANTS
  Runs = {r1, r2}
  m1 = m1
  m2 = m2
  q1 = q1
  p1 = p1
  Messages = {m1}
  ChildMessages = {}
  Questions = {}
  Permissions = {p1}
  Root = Root
  Child = Child
  About <- AboutThese
  Closes = FALSE
  MaxEvents = 1
  None = None
INVARIANTS
  AbortedStayOut
\* Chats and messages are named once, so a run of the model ends.
CHECK_DEADLOCK FALSE
