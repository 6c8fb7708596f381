SPECIFICATION FairSpec
CONSTANTS
  Names = {p1, p2, p3}
  Namespaces = {shop}
  Countries = {ru, us}
  shop = shop
  ru = ru
  us = us
  NoNamespace = NoNamespace
  NoCountry = NoCountry
  Wildcard = Wildcard
  Absent = Absent
  Specs <- MCSpecs
INVARIANTS
  TypeOK
  ChainSkipsNothing
PROPERTIES
  ImplementsJudge
  CallsReturn
