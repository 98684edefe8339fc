SPECIFICATION FairSpec

CONSTANTS
  alice = alice
  bob = bob
  rita = rita
  hello = hello
  again = again
  answer = answer
  Node = {alice, bob}
  Link <- DirectLink
  Envelope = {hello, answer}
  From <- LetterFrom
  To <- LetterTo
  MaxHops = 1
  MaxShown = 2

PROPERTIES
  RecipientIsShown
