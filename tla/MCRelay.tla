------------------------------ MODULE MCRelay ------------------------------
(***************************************************************************)
(* Calls of one account through the relayer: a payment and a freeze for    *)
(* the same nonce, and a second freeze behind them, while others reach the *)
(* account directly, an answer of the node is lost and the process stops,  *)
(* with no block assumed.                                                  *)
(***************************************************************************)
EXTENDS RelayerProperties, TLC

CONSTANTS a1, v1, r1, r2, r3

Relayed(call, nonce) == [kind |-> "relay", account |-> a1, call |-> call, nonce |-> nonce, visitor |-> v1]

MCJob == r1 :> Relayed("pay", 0) @@ r2 :> Relayed("freeze", 0) @@ r3 :> Relayed("freeze", 1)

MCLimit ==
  <<"perIp", v1>> :> 3 @@ <<"perAccount", a1>> :> 3 @@
  <<"unpaidSafetyActions", a1>> :> 1 @@ gas :> 3
=============================================================================
