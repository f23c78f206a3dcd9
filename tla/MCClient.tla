------------------------------ MODULE MCClient ------------------------------
(***************************************************************************)
(* Instance of Client: a Unity client and a bot, each with an account.     *)
(***************************************************************************)
EXTENDS Client, TLC

CONSTANTS u, b, a1, a2

MCUnity == {u}
MCBots == {b}
MCConnsOf == (u :> <<1, 2>>) @@ (b :> <<3, 4>>)
MCAccountOf == (u :> a1) @@ (b :> a2)
=============================================================================
