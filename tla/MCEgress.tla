------------------------------ MODULE MCEgress ------------------------------
(* Two interfaces; the unspecified address and a 192.168 address, whose  *)
(* bytes differ so that a byte-order error shows; up to two               *)
(* routes, so that a table may hold two default routes or a default route  *)
(* after another one.                                                      *)
EXTENDS Egress

MCIfaces == <<"eth0", "eth1">>
MCIps == {<<0, 0, 0, 0>>, <<192, 168, 1, 1>>}
MCHws == {"hw1"}
MCMaxRoutes == 2
MCMaxArp == 1
=============================================================================
