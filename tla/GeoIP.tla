-------------------------------- MODULE GeoIP --------------------------------
(***************************************************************************)
(* internal/geo/geoip.go: from the destination of a connection to the      *)
(* country it is judged by.  Private addresses have none; those of which   *)
(* the MaxMind database knows no country have the country "UNKNOWN"; a     *)
(* destination that is no address, or a broken record, is a failure.       *)
(***************************************************************************)
EXTENDS Policy

CONSTANTS
  Dests,       \* destinations of connections, as Tetragon writes them
  AddressOf,   \* the address that each parses to, or Absent
  IsoOf,       \* what the database says of it: a country, NoIso or Broken
  NoIso, Broken,
  Unknown,     \* the country "UNKNOWN"
  Failed       \* no answer but an error

\* An address's version, its first 16 bits as a number, and its other bits.  An
\* IPv4 address embedded in IPv6 parses to the IPv4 address.
Address == [v : {4, 6}, head : Nat, rest : Nat]

ASSUME AddressAssumption ==
  /\ AddressOf \in [Dests -> Address \cup {Absent}]
  /\ Absent \notin Address
ASSUME IsoAssumption ==
  /\ IsoOf \in [Dests -> Countries \cup {NoIso, Broken}]
  /\ {NoIso, Broken, Failed} \cap (Countries \cup {NoCountry}) = {}
  /\ Unknown \in Countries
  /\ Failed # NoCountry

\* A network whose mask leaves free the last bits of the head, size values.
Network(v, head, size) == [v |-> v, head |-> head, size |-> size]

privateRanges ==
  { Network(4, 10 * 256,       256),     \* 10.0.0.0/8
    Network(4, 172 * 256 + 16,  16),     \* 172.16.0.0/12
    Network(4, 192 * 256 + 168,  1),     \* 192.168.0.0/16
    Network(4, 127 * 256,      256),     \* 127.0.0.0/8
    Network(4, 169 * 256 + 254,  1),     \* 169.254.0.0/16
    Network(6, 64512,          512),     \* fc00::/7
    Network(6, 65152,           64) }    \* fe80::/10

\* An address is in a network if they agree under the network's mask.
Contains(net, address) ==
  /\ address.v = net.v
  /\ address.head \div net.size = net.head \div net.size

Loopback6 == [v |-> 6, head |-> 0, rest |-> 1]   \* ::1/128

isPrivate(address) ==
  address = Loopback6 \/ \E net \in privateRanges : Contains(net, address)

LookupCountry(dest) ==
  IF AddressOf[dest] = Absent THEN Failed
  ELSE IF isPrivate(AddressOf[dest]) THEN NoCountry
  ELSE IF IsoOf[dest] = Broken THEN Failed
  ELSE IF IsoOf[dest] = NoIso THEN Unknown
  ELSE IsoOf[dest]
=============================================================================
