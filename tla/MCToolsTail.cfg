CONSTANTS
  a = a
  e = e
  c1 = c1
  c2 = c2
  r1 = r1
  Chars = {a, e}
  Width <- MCWidth
  Size = 4
  Callers = {c1, c2}
  Ids = {r1}
  Pages <- MCPages
  Requests <- MCRequests
  TextOf <- MCTextOf
  MaxChanges <- MCMaxChanges
SPECIFICATION GetSpec
INVARIANT AnswerIsWhole
CHECK_DEADLOCK FALSE
