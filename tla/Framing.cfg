SPECIFICATION Spec
CONSTANTS
  CR = CR
  LF = LF
  start = start
  zero = zero
  two = two
  five = five
  six = six
  none = none
  NotANumber = NotANumber
  Octets <- SmallOctets
  LengthLines <- SmallLengthLines
  Value <- SmallValue
  Messages <- SmallMessages
  Malformed <- SmallMalformed
  MaxItems = 3
INVARIANTS
  TypeOK
  CompleteIsRead
  OnlyMalformedFails
CHECK_DEADLOCK FALSE
