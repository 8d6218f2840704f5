------------------------------ MODULE MCDomains ------------------------------
(* One source with two tables, a domain that has no table yet, and another that *)
(* the panel may make while the canvas adds to the first.  The lists are read   *)
(* once, when the page opens, so that no late reading has a part in it.         *)
EXTENDS BusinessDomains

EmptyDomain == [group |-> "g", members |-> {}]

ReadOnce == page'.request <= 1
MCSpec == Init /\ [][Next /\ ReadOnce]_vars
=============================================================================
