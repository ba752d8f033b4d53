\* Two requests and two pairs of tokens: what is on disk and one refresh.
CONSTANTS
  Tasks = {t1, t2}
  Nobody = Nobody
  NoAuth = NoAuth
  MaxMinted = 2
SPECIFICATION FairSpec
INVARIANTS
  NoSpentToken
  LoginSurvives
  NoStaleWrite
  OneRefresh
  RetryIsDifferent
PROPERTIES
  LogoutStays
  RefreshAnswered
