SPECIFICATION KeptSpec
CONSTANTS
  d = d f = f q = q text1 = text1 text2 = text2
  None = None
  Path = {d, f, q}
  Text = {text1, text2}
  Parent <- MCParent
  Start <- MCStart
  Proposal <- MCProposal
  MaxPatch = 2
  MaxChange = 3
  MaxEdit = 1
  s1 = s1 s2 = s2 fact1 = fact1 fact2 = fact2
  Chat = {s1, s2}
  Drawn <- MCDrawn
  Own <- MCOwn
  Fact = {fact1, fact2}
  MaxWord = 3
  MinUser = 1
  MaxAct = 2
  MaxBatch = 2
  MaxCall = 2
  MaxRow = 2
  NoChat = NoChat
  NoRow = NoRow
SYMMETRY Alike
INVARIANTS JournalIsTrue RollbackRestores NothingUnconfirmed
PROPERTIES OnlyWithConsent ForgottenStays NoEditLost
CHECK_DEADLOCK FALSE
