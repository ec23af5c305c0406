SPECIFICATION SwapSpec
CONSTANTS
  easy = easy
  hard = hard
  Cards = {c1, c2}
  Challenges = {easy, hard}
  MaxNonce = 5
  Solution <- MCSolution
  HashRate = 2
  NoCard = NoCard
  NoChallenge = NoChallenge
  Unset = Unset
  Apps = {btc, near}
  Exchange = Exchange
  Heedless = {near}
  MaxSwaps = 2
INVARIANTS
  SwapTypeOK
  NoSolutionSkipped
  AnswerSolves
  ChecksOwnSignature
  FetchFindsOwn
  CallsUnlocked
PROPERTIES
  UnlockedByCard
  SearchEnds
  ImplementsUnlock
