\* Two aliases of one name and a third record; the question is what is exposed.
\* A request is answered once and then nothing is left to do.
SPECIFICATION Spec
CHECK_DEADLOCK FALSE
CONSTANTS
  LowerCase <- MCLowerCase
  Undotted <- MCUndotted
  Order <- MCOrder
  Pools <- MCSiblings
  Requests <- MCExposed
INVARIANT ExposureIsComplete
