SPECIFICATION FairSpec
CONSTANTS
  Names = {p, q}
  Namespaces = {shop, lab}
  Countries = {ru, us, Unknown}
  shop = shop
  lab = lab
  ru = ru
  us = us
  NoNamespace = NoNamespace
  NoCountry = NoCountry
  Wildcard = Wildcard
  Absent = Absent
  Specs <- MCSpecs
  PolicyOf <- MCPolicyOf
  Dests = {foreign, internal, garbled}
  foreign = foreign
  internal = internal
  garbled = garbled
  AddressOf <- MCAddressOf
  IsoOf <- MCIsoOf
  TrueCountry <- MCTrueCountry
  NoIso = NoIso
  Broken = Broken
  Unknown = Unknown
  Failed = Failed
  Kinds = {"tcp_connect", "no_pod"}
  Connections <- MCConnections
  Capacity = 1
  MaxBackoff = 2
  MaxEvents = 3
  MaxBreaks = 2
INVARIANTS
  TypeOK
  NothingLostOrReordered
PROPERTIES
  SentIsHandled
  Resubscribes
  OnlyExcusedMisses
  PoliciesArrive
CHECK_DEADLOCK FALSE
