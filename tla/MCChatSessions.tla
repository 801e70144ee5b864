--------------------------- MODULE MCChatSessions ---------------------------
(* An anchor of an entry that sees native sessions and one of a group; with *)
(* a2 in place of a3, two anchors of the same entry.                       *)
EXTENDS ChatSessions, HostChecks, TLC

CONSTANTS a1, a2, a3, direct, group

MCAnchors == {a1, a3}
MCEntries == {direct, group}
MCEntryOf == [a \in MCAnchors |-> IF a = a3 THEN group ELSE direct]

Interchangeable == Permutations(Tasks) \cup Permutations(Sessions)
=============================================================================
