CONSTANTS
  Text <- MCText
  Hello <- MCHello
  MaxGreeting = 8
SPECIFICATION StreamSpec
INVARIANTS MessagesComeInOrder LossStaysLocal
CHECK_DEADLOCK FALSE
