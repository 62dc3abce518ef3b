---------------------------- MODULE MCAwsTeardown ----------------------------
(* The teardown script against every starting set of resources.            *)
EXTENDS AwsTeardown
=============================================================================
