-------------------------- MODULE MCSupplierContact --------------------------
(***************************************************************************)
(* Instances of SupplierContact: two attempts, on two products or on one.  *)
(***************************************************************************)
EXTENDS SupplierContact

CONSTANTS t1, t2, w1, product1, product2

MCTasks == {t1, t2}
OneTask == {t1}
MCWorkers == {w1}
MCProducts == {product1, product2}

DifferentProducts == [t \in Tasks |-> IF t = t1 THEN product1 ELSE product2]

SameProduct == [t \in Tasks |-> product1]

=============================================================================
