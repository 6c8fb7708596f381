SPECIFICATION ProcessFairSpec
CONSTANTS
  Names = {p}
  Namespaces = {shop, lab}
  Countries = {ru, us}
  shop = shop
  lab = lab
  ru = ru
  us = us
  NoNamespace = NoNamespace
  NoCountry = NoCountry
  Wildcard = Wildcard
  Absent = Absent
  Specs <- MCSpecs
  IPs = {x}
  CountryOf <- MCCountryOf
  UserOps = {"create", "edit", "delete"}
  MaxLog = 3
  Tabs = {t}
  Typed = {lower, long}
  lower = lower
  long = long
  UpperOf <- MCUpperOf
  Forms <- MCForms
  Blank = Blank
  DefaultNamespace = shop
  FaultKinds = {"swallowed", "stray", "restart"}
INVARIANT
  ProcessTypeOK
PROPERTIES
  HandlersAsUsers
  EditsKeepTheRest
  Answered
  KeepsRepairing
CHECK_DEADLOCK FALSE
