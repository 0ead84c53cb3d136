SPECIFICATION controlSpec
CONSTANTS
  Letters = {"a", "c"}
  OpTypes = {"c"}
  MaxLen = 5
  Kinds = {2, 3, 4}
  LastSpecial = 1
  CacheSize = 3
  LateRegistration = TRUE
INVARIANT LookupRight
