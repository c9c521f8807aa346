---------------------------- MODULE MCInventory ----------------------------
(***************************************************************************)
(* TLC instance of the inventory: a reload removes the first group, moves  *)
(* the second to another path prefix and adds a third on the same target.  *)
(***************************************************************************)
EXTENDS Inventory

Group(n, p, ts) == [name |-> n, path |-> p, targets |-> ts]

MCGenerations ==
  << <<Group("a", "/", {}), Group("b", "/", {"t"})>>,
     <<Group("b", "/x", {"t"}), Group("c", "/", {"t"})>> >>

\* One backend without buildinfo, the others as Prometheus answers.
MCHealth == {[u \in URLs |-> IF u = <<"/x", "t">> THEN "labelsOnly" ELSE "ok"]}
=============================================================================
