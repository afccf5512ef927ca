\* Requests at once, around a new year, any of which may die; accounts used in every state.
SPECIFICATION Spec
CONSTANTS
  NULL = NULL
  h1 = h1
  h2 = h2
  h3 = h3
  e1 = e1
  e2 = e2
  p1 = p1
  p2 = p2
  w1 = w1
  w2 = w2
  s1 = s1
  s2 = s2
  c1 = c1
  c2 = c2
  Companies = {c1, c2}
  UnknownCodes = {c0}
  Emails = {e1, e2, e0}
  Disposable = {e0}
  Phones = {p1, p2}
  Passwords = {w1, w2}
  Selfies = {s1, s2}
  Handlers <- Slots
  Years = {2025, 2026}
  MaxCount = 3
  SerialClients = TRUE
  Faults = TRUE
  Office <- OneOffice
  Places <- Line
  Accuracies = {50, 51}
SYMMETRY Symmetry
INVARIANTS TypeOK NoIdCollision RegisterAnswerIsTrue OwnLoginWorks RefusalBlamesCulprit TokenOpensOwnAccount
PROPERTIES SelfieOnce AccountsStay
