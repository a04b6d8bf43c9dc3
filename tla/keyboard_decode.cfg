SPECIFICATION Spec
CONSTANTS
  nul = nul
  SIZE = 2
  MaxHeld = 3
  NUL = nul
  Letter <- MCLetter
  Symbol <- MCSymbol
  Silent <- MCSilent
  Nav <- MCNav
  GreyCode <- MCGreyCode
  Editing <- MCEditing
INVARIANTS DecoderInStep ModifiersHold KeystrokeGivesEvent
