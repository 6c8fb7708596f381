------------------------- MODULE MCControllerProcess -------------------------
(* A policy for two namespaces with an allow list, as kubectl can write it,    *)
(* and what the dashboard's forms make of it and in its place.                 *)
EXTENDS ControllerProcess

CONSTANTS shop, lab, ru, us, lower, long

MCUpperOf == [text \in Typed |-> IF text = lower THEN ru ELSE NoCountry]

MCForms ==
  { [namespace |-> Blank, country |-> lower, action |-> "block-kill"],
    [namespace |-> shop, country |-> long, action |-> "log"] }

Allowing == [actions |-> <<"log">>, namespaces |-> {shop, lab},
             allowed |-> {us}, disallowed |-> {}]

MCSpecs ==
  LET forms == {form \in MCForms : form.country = lower}
  IN  {Allowing} \cup {D!EditedSpec(Allowing, form) : form \in forms}
                 \cup {D!NewSpec(form) : form \in forms}

MCCountryOf == [ip \in IPs |-> ru]
=============================================================================
