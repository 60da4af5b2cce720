--------------------------- MODULE MCStateAdapters ---------------------------
(* Two classes and plain objects; two document types, each of which stands for *)
(* one of the classes, are enough for a state of one class to be kept as a     *)
(* document of the other.                                                       *)
EXTENDS StateAdapters

CONSTANTS Account, Order, accounts, orders

MCTypeNames == {Account, Order, Plain}
MCDocTypes == {accounts, orders}
MCTypeNameOf == [type \in MCDocTypes |-> IF type = accounts THEN Account ELSE Order]
=============================================================================
