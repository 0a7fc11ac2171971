\* The publishing backend and the RFQ hub, under the fairness of their timers.
\* One market and one live price; a market without odds in the feed, and one whose
\* odds are withdrawn (0), are among the choices of the feed.  Two market makers;
\* one broken connection or failed hello, at any time of one request.
SPECIFICATION FairSpec
CONSTANTS
  home = home
  m1 = m1
  m2 = m2
  a1 = a1
  a2 = a2
  b1 = b1
  b2 = b2
  r1 = r1
  NoOdds = NoOdds
  Markets = {home}
  Odds = {0, 2}
  Faults = 3
  Moves = 2
  None = None
  MMs = {m1, m2}
  Sockets = {a1, a2, b1, b2}
  Owner <- Owners
  Requests = {r1}
  Breaks = 1
INVARIANT RowsCoverAccounts
INVARIANT RoutesLive
PROPERTY StartedEventsClose
PROPERTY OddsFollowFeed
PROPERTY HubRecovers
CHECK_DEADLOCK FALSE
