SPECIFICATION Spec
CONSTANTS
  Names = {p}
  Namespaces = {shop}
  Countries = {ru, us}
  shop = shop
  ru = ru
  us = us
  NoNamespace = NoNamespace
  NoCountry = NoCountry
  Wildcard = Wildcard
  Absent = Absent
  Specs <- MCSpecs
  IPs = {x, y}
  CountryOf <- MCCountryOf
  UserOps = {"create", "edit", "delete", "clear"}
  MaxLog = 3
  Agents = {a, b}
  MaxTries = 2
  MaxListed = 1
  MaxFaults = 1
SYMMETRY MCSymmetry
INVARIANTS
  TypeOK
  Justified
  MarksEarned
PROPERTY
  ImplementsLedger
CHECK_DEADLOCK FALSE
