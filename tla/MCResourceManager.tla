------------------------- MODULE MCResourceManager -------------------------
(* Values of the constants of ResourceManager for TLC.                     *)
EXTENDS ResourceManager

Provider(order, identifier, kind) ==
    [order |-> order, identifier |-> identifier, kind |-> kind]

(* Two orders, two identifiers and both kinds of provider, so that an      *)
(* identifier names providers of several orders and several kinds.         *)
MCShapes == {Provider(0, "a", "custom"), Provider(1, "b", "custom"), Provider(1, "a", "archive")}
=============================================================================
