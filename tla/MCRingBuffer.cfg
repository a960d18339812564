CONSTANTS
  Entry = {a, b}
  Blank = blank
  AmountOfEntries = 3
  CounterRange = 5
  NoSlot = none
SPECIFICATION Spec
INVARIANT CursorsAgree
PROPERTY HeldEntryStable
PROPERTY RefinesFifo
