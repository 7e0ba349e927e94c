------------------------------ MODULE MCJsHost ------------------------------
(* A small level for JsHost: two players share an address, one does not.   *)
EXTENDS JsHost, TLC

CONSTANTS c1, c2, c3, home, away

MCAddress == c1 :> home @@ c2 :> home @@ c3 :> away
=============================================================================
