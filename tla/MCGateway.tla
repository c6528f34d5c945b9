------------------------------ MODULE MCGateway ------------------------------
(* TLC instance of Gateway: n1 asks its peers for a token, n2 has none. *)
EXTENDS Gateway, TLC

CONSTANTS n1, n2, r1, r2, secret

MCToken == (n1 :> secret) @@ (n2 :> NoToken)
=============================================================================
