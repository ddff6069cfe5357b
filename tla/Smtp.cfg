SPECIFICATION FairSpec
CONSTANTS
  m1 = m1  m2 = m2  m3 = m3  m4 = m4  m5 = m5  ok = ok  bad = bad
  MailMsgs = {m1, m2, m3, m4, m5}
  Matches <- MCMatches
  Required = {ok}
  Filtered = {bad}
  Callers = {p1, p2}
  Senders = {t1, t2}
  Interval = 1
CHECK_DEADLOCK FALSE
INVARIANTS SenderInv GoneIsQuiet
PROPERTIES ImplementsOutbox FoundIsMailed DestructorReturns
