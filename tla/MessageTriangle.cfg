SPECIFICATION Spec

CONSTANTS
  alice = alice
  bob = bob
  rita = rita
  hello = hello
  again = again
  answer = answer
  Node = {alice, rita, bob}
  Link <- TriangleLink
  Envelope = {hello}
  From <- LetterFrom
  To <- LetterTo
  MaxHops = 1
  MaxShown = 2

INVARIANTS
  HeldForAbsentPeers
  RecipientIsServed
  HeldIsShared

PROPERTIES
  ImplementsDelivery
