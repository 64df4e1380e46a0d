--------------------------- MODULE MCApplication ---------------------------
(* An instance of Application: files of two and of four rows, one of which  *)
(* cannot be read and two of which show the same time; one bar of three     *)
(* leads to an order.                                                       *)
EXTENDS Application, TLC

CONSTANTS e1, e2, e3, bad

AllRows == {e1, e2, e3, bad}
Times == (e1 :> 3) @@ (e2 :> 3) @@ (e3 :> 4) @@ (bad :> 2)
BadRows == {bad}
BothFiles == {<<e3, bad, e2, e1>>, <<e1, e3>>}
WholeAndPart == {1..4, {4}}
AllEnvironments == {"script", "development", "live"}
OneSignal == {e1}
=============================================================================
