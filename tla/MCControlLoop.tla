---------------------------- MODULE MCControlLoop ----------------------------
(* One policy that users turn between blocking and logging, for one of two   *)
(* namespaces.  Of the IPv6 addresses x and y, which share their first 32    *)
(* bits, x is in the country it forbids and y elsewhere; z is IPv4.          *)
EXTENDS ControlLoop

CONSTANTS shop, lab, ru, us, x, z

Base == [actions |-> <<"block-noconn">>, namespaces |-> {shop},
         allowed |-> {}, disallowed |-> {ru}]

MCSpecs == { Base, [Base EXCEPT !.actions = <<"log">>] }

MCCountryOf == [ip \in IPs |-> IF ip = x THEN ru ELSE us]

MCFamily == [ip \in IPs |-> IF ip = z THEN 4 ELSE 6]

\* z has the bits of the network of x and y, which is of the other family.
MCFirst32 == [ip \in IPs |-> 1]
=============================================================================
