-------------------------- MODULE MCComponentUpdate ---------------------------
(* A game whose second version needs another library, and a loader with      *)
(* mappings that exist for each version of the game; the loader's second     *)
(* version wants another version of the new library than the game.           *)
EXTENDS ComponentUpdate

Needed(uid, equals, suggests) == [uid |-> uid, equals |-> equals, suggests |-> suggests]

MCOrder == <<"game", "lwjgl", "lwjgl3", "mappings", "loader">>
MCVersions == {1, 2}
MCMeta == [uid \in ToSet(MCOrder) |-> [v \in MCVersions |->
    CASE uid = "game" /\ v = 1 -> {Needed("lwjgl", 0, 1)}
      [] uid = "game" /\ v = 2 -> {Needed("lwjgl3", 2, 0)}
      [] uid = "mappings"      -> {Needed("game", v, 0)}
      [] uid = "loader" /\ v = 1 -> {Needed("mappings", 0, 0)}
      [] uid = "loader" /\ v = 2 -> {Needed("mappings", 0, 0), Needed("lwjgl3", 1, 0)}
      [] OTHER                 -> {}]]
MCVolatile == {"lwjgl", "lwjgl3", "mappings"}
MCFallback == [uid \in ToSet(MCOrder) |-> IF uid = "lwjgl3" THEN 1 ELSE NoVersion]
MCRecommended == [uid \in ToSet(MCOrder) |-> [v \in MCVersions |->
    IF uid = "mappings" THEN v ELSE NoVersion]]
MCFirstList == << <<"game", 1>> >>
=============================================================================
