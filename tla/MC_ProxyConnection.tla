--------------------- MODULE MC_ProxyConnection ---------------------
(* Small instance of ProxyConnection: two units of payload on each side. *)
EXTENDS ProxyConnection

MCData == {"up1", "up2", "down1", "down2"}

MCPayload == [client |-> <<"up1", "up2">>, remote |-> <<"down1", "down2">>]
=====================================================================
