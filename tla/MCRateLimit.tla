---------------------------- MODULE MCRateLimit -----------------------------
(* Small instances of RateLimit for TLC. *)
EXTENDS RateLimit

(* Two ports of one host, and an address without a port. *)
TwoAddresses   == {"ip:1", "ip:2"}
ThreeAddresses == TwoAddresses \cup {"socket"}
OneHost        == [a \in TwoAddresses |-> "ip"]
=============================================================================
