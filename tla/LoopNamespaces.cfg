SPECIFICATION LoopSpec
CONSTANTS
  Names = {p}
  Namespaces = {shop, lab}
  Countries = {ru, us}
  shop = shop
  lab = lab
  ru = ru
  us = us
  x = x
  z = z
  NoNamespace = NoNamespace
  NoCountry = NoCountry
  Wildcard = Wildcard
  Absent = Absent
  Specs <- MCSpecs
  IPs = {x, y, z}
  CountryOf <- MCCountryOf
  UserOps = {"create", "edit", "delete", "clear"}
  MaxLog = 3
  Agents = {a}
  MaxTries = 2
  MaxListed = 1
  Family <- MCFamily
  First32 <- MCFirst32
  MaxFaults = 1
  FaultKinds = {"error", "lost"}
INVARIANT
  BlocksTargetedNamespaces
CHECK_DEADLOCK FALSE
