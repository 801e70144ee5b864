\* What the design promises of /session and of a switch; -continue shows both.
SPECIFICATION Spec
SYMMETRY Interchangeable
CONSTANTS
  a1 = a1  a2 = a2  a3 = a3  direct = direct  group = group
  None = None
  Anchors <- MCAnchors
  Entries <- MCEntries
  EntryOf <- MCEntryOf
  Natives = {direct}
  Sessions = {s1, s2}
  Tasks = {t1, t2}
  MaxFaults = 0
INVARIANTS
  EntriesAreApart
PROPERTIES
  SwitchTakesOnlyItsOwn
CHECK_DEADLOCK FALSE
