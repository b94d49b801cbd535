--------------------------- MODULE MCStatefulReserve ---------------------------
(***************************************************************************)
(* Small instances of StatefulReserve.                                      *)
(***************************************************************************)
EXTENDS StatefulReserve, TLC

CONSTANTS c1, c2, c3, uses, spend, key

(* Two attempts of one request under one key, on a use counter and an       *)
(* amount, and a request without a key that takes the two in the opposite   *)
(* order.  Two uses fit and amounts up to 4: who comes third is refused.   *)
MCCands ==
  LET use == [base |-> uses, inc |-> 1, limit |-> 2]
      pay == [base |-> spend, inc |-> 2, limit |-> 4]
      payOne == [base |-> spend, inc |-> 1, limit |-> 4]
  IN (c1 :> <<use, pay>>) @@ (c2 :> <<use, pay>>) @@ (c3 :> <<payOne, use>>)

MCIdem == (c1 :> key) @@ (c2 :> key) @@ (c3 :> NoKey)
================================================================================
