---------------------------- MODULE MCModelPanel ----------------------------
(***************************************************************************)
(* Instances of ModelPanel for TLC.                                        *)
(***************************************************************************)
EXTENDS ModelPanel

CONSTANTS human, wolf, wyvern

MCObjects == 1..6

\* A tame scene, and the largest that are not mixed: broken files and all else
\* that the user does, without images, world map objects or both of the others.
Rest == {"missing", "dismount"}
MCScenes == {[broken |-> {}, uses |-> {"import", "mount"}]} \cup
            [broken : {{wyvern}}, uses : {Rest \cup {"wmo", "import", "mount"},
                                          Rest \cup {"image", "import", "mount"},
                                          Rest \cup {"image", "wmo"}}]
=============================================================================
