\* Two chats of a session and a subagent that asks; events overtake each other.
SPECIFICATION FairSpec
CONSTANTS
  Runs = {r1, r2}
  m1 = m1
  m2 = m2
  q1 = q1
  p1 = p1
  Messages = {m2}
  ChildMessages = {m2}
  Questions = {q1}
  Permissions = {}
  Root = Root
  Child = Child
  About <- AboutThese
  Closes = TRUE
  MaxEvents = 2
  None = None
INVARIANTS
  HeadIsPrompted
  FactsAreInOrder
PROPERTIES
  RunsEnd
\* Chats and messages are named once, so a run of the model ends.
CHECK_DEADLOCK FALSE
