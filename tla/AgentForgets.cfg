SPECIFICATION FairSpec
CONSTANTS
  Names = {p}
  Namespaces = {shop}
  Countries = {ru, us}
  shop = shop
  ru = ru
  us = us
  NoNamespace = NoNamespace
  NoCountry = NoCountry
  Wildcard = Wildcard
  Absent = Absent
  Specs <- MCSpecs
  IPs = {x}
  CountryOf <- MCCountryOf
  UserOps = {"create", "delete"}
  MaxLog = 3
  Agents = {a, b}
  MaxTries = 2
  MaxListed = 1
  MaxFaults = 0
PROPERTY
  ViolatorsListed
CHECK_DEADLOCK FALSE
