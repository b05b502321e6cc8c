---------------------------- MODULE MCFiberMelt ----------------------------
(* Two melts the mint may pay and one of each kind it must refuse.         *)
EXTENDS FiberMelt

CONSTANTS i1, i2, foreign, native, amountless

MCInvoices == {i1, i2, foreign, native, amountless}

MCDecoded ==
  [i \in MCInvoices |->
     [network |-> IF i = foreign THEN "Fibb" ELSE "Fibt",
      asset |-> IF i = native THEN "ckb" ELSE "rusd",
      amount |-> IF i = amountless THEN NoAmount ELSE 1]]
==============================================================================
