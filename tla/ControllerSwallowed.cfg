SPECIFICATION Spec
CONSTANTS
  Names = {p}
  Namespaces = {shop}
  Countries = {ru}
  shop = shop
  ru = ru
  NoNamespace = NoNamespace
  NoCountry = NoCountry
  Wildcard = Wildcard
  Absent = Absent
  Specs <- MCSpecs
  IPs = {x, y}
  CountryOf <- MCCountryOf
  UserOps = {"create", "edit", "delete", "clear"}
  MaxLog = 3
  FaultKinds = {"swallowed"}
INVARIANT
  BlocklistRemoved
CHECK_DEADLOCK FALSE
