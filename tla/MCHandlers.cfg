SPECIFICATION MCSpec
CONSTANTS
  Host <- Hosts
  PublicHost = {public}
  FullWeight = 2
  Missing = Missing
  Garbage = Garbage
  Config <- Configs
  Request <- Requests3
  Wait <- Waits
  Second = 4
  public = public
  private = private
  proxy = proxy
CHECK_DEADLOCK FALSE
INVARIANTS
  TypeOK
  OneAnswer
  RefusalsLogged
  FailsLikeSuccess
  AllowIsHonest
  AddressIsVouchedFor
  PreferenceIsBest
  RetryNotEarly
