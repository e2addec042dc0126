--------------------------- MODULE MCServerLifespan ---------------------------
(* A finite instance of ServerLifespan; the cfg files give it its constants. *)
EXTENDS ServerLifespan, TLC
=============================================================================
