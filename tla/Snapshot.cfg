SPECIFICATION Spec
CONSTANTS
  Absent = Absent
  Top = {"SKILL.md"}
  Nested = {"notes.md"}
  Contents = {old, new}
  MaxChanges = 4
INVARIANT InstantRead
