------------------------ MODULE MC_MainProgram ------------------------
(* Small instance of MainProgram: up to three options in any order, files    *)
(* among them the ports of config/default.conf.                              *)
EXTENDS MainProgram

Item ==
  {<<"--start">>, <<"--stop">>, <<"--fetch-endpoints">>, <<"--help">>, <<"--port">>,
   <<"--config", "f">>, <<"--port", "8888">>, <<"--port", "70000">>, <<"--port", "x">>,
   <<"--username", "u">>, <<"--username", "">>}

MCArgvs == {FlattenSeq(items) : items \in UNION {[1..n -> Item] : n \in 0..3}}

Leaf(key, value) == [key |-> key, value |-> value]

\* The ports of config/default.conf: that of the proxy, then those of endpoints.
SampleFile == <<Leaf("port", "8888"), Leaf("port", "1194"), Leaf("port", "1194")>>

MCUnreadable == <<Leaf("unreadable", "")>>

MCFiles ==
  {SampleFile, MCUnreadable,
   <<Leaf("port", "auto"), Leaf("username", "a"), Leaf("username", "b")>>}

MCEnvirons ==
  {[user |-> <<"Unset", "Unset">>, pass |-> <<"Unset", "p">>],
   [user |-> <<"", "e">>, pass |-> <<"Unset", "Unset">>],
   [user |-> <<"e", "Unset">>, pass |-> <<"Unset", "Unset">>]}

MCStoi == ("8888" :> 8888) @@ ("8888 " :> 8888) @@ ("1194" :> 1194) @@ ("70000" :> 70000) @@ ("0" :> 0)

MCTextOf == (8888 :> "8888") @@ (1194 :> "1194") @@ (70000 :> "70000") @@ (0 :> "0")
=======================================================================
