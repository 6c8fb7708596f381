SPECIFICATION FairSpec
CONSTANTS
  Names = {p}
  Namespaces = {shop}
  Countries = {ru}
  shop = shop
  ru = ru
  NoNamespace = NoNamespace
  NoCountry = NoCountry
  Wildcard = Wildcard
  Absent = Absent
  Specs <- MCSpecs
  IPs = {x}
  CountryOf <- MCCountryOf
  UserOps = {"create", "edit", "delete", "clear"}
  MaxLog = 4
  FaultKinds = {"error", "lost", "restart"}
INVARIANTS
  TypeOK
  BlocklistCurrent
  BlocklistRemoved
PROPERTIES
  ReadyMeansActive
  Converges
CHECK_DEADLOCK FALSE
