CONSTANTS
  c1 = c1
  c2 = c2
  u1 = u1
  u2 = u2
  l1 = l1
  l2 = l2
  User = {u1, u2}
  License = {l1, l2}
  UserOf <- MCUserOf
  ImageId = {i1}
  ChatId = {q1}
  Call = {c1, c2}
  NoAccount = NoAccount
  WELCOME_CREDITS = 4
  IMAGE_CREDIT_COST = 3
  PROMPT_CHAT_CREDIT_COST = 1
  PROMPT_CHAT_OUTPUT_TOKENS_PER_CREDIT = 2
  MaxTokens = 3
  TokensAsked = {2, 3}
  MaxRestarts = 1
SPECIFICATION Spec
PROPERTIES
  RefundsAreFinal
SYMMETRY CallSymmetry
