----------------------- MODULE MC_NetnsScript -----------------------
(* Small instance of NetnsScript: see NetnsScript.cfg. *)
EXTENDS NetnsScript
=====================================================================
