CONSTANTS
  bogus = bogus
  real = real
  Way = {bogus, real}
  Genuine = {real}
  Known = {bogus}
  Page <- MCPage
  GuessWays = {real}
  OriginUploads = TRUE
  ContactWays = {real}
  CliqueWays = {}
  FrontWays = {bogus, real}
  Depth = 2
  Notable = {"b"}
  Contacts = 3
  MaxContacts = 2
  MaxGuesses = 1
  MaxShown = 2

SPECIFICATION ConnectSpec

INVARIANTS
  NoBlindNo
  

PROPERTIES
  BuildEnds

CHECK_DEADLOCK FALSE
