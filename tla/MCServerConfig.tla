--------------------------- MODULE MCServerConfig ---------------------------
(***************************************************************************)
(* The main server and one virtual host; fields of three bytes; a list     *)
(* with room for two that starts empty and one with room for three that    *)
(* starts with its default.                                                *)
(***************************************************************************)
EXTENDS ServerConfig, TLC

CONSTANTS a, b

MCMax == "grant_types" :> 3 @@ "trust_anchors" :> 2
MCDefaultList == "grant_types" :> <<a>> @@ "trust_anchors" :> <<>>
=============================================================================
