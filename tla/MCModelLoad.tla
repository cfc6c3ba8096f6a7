----------------------------- MODULE MCModelLoad -----------------------------
(***************************************************************************)
(* Instances of ModelLoad for TLC.                                         *)
(***************************************************************************)
EXTENDS ModelLoad, TLC

CONSTANTS hero, rat, ratskin, mod, bone, walk

MCIds == 1..10
MCNames == {hero, rat, ratskin, mod, bone, walk}

\* 1 the hero, listed under two names' identifiers; 2 its skeleton, which no line
\* lists; 3 the parent skeleton; 4 and 5 two files of one animation; 6 the hero's
\* skin; 7 a model that the user adds, 9 its animation; 8 a model cut short; 10 a
\* model that keeps its bones in a chunk of its own, with an animation file.
MCLines == {<<1, hero>>, <<3, bone>>, <<7, mod>>, <<7, rat>>, <<8, hero>>, <<5, walk>>}
MCPresent == {1, 3, 5, 8}
MCOpenables == {{1, 2, 3, 4, 5, 6, 8, 9, 10}, {1, 2, 4, 5, 6, 8}, {1, 2, 3, 4, 6, 9}, {1, 3}}
MCCustom == {hero, mod, rat}
MCArchived == {rat, ratskin}
MCMpqListed == {rat}

Plain == [chunks |-> {}, body |-> "short", skel |-> NoKey, parent |-> NoKey, skin |-> NoKey,
          anims |-> {}, animated |-> FALSE]
MCData == (1 :> [Plain EXCEPT !.chunks = {"MD21", "SKID", "SFID", "TXID"}, !.body = "whole",
                              !.skel = 2, !.skin = 6, !.animated = TRUE])
       @@ (2 :> [Plain EXCEPT !.chunks = {"SKS1", "SKPD", "SKA1", "SKB1"}, !.parent = 3])
       @@ (3 :> [Plain EXCEPT !.chunks = {"SKS1", "SKB1", "AFID"},
                              !.anims = {[anim |-> 0, sub |-> 0, file |-> 4],
                                         [anim |-> 0, sub |-> 1, file |-> 5]}])
       @@ [k \in {4, 9} |-> [Plain EXCEPT !.chunks = {"AFSB"}]]
       @@ [k \in {5, 6} |-> Plain]
       @@ (7 :> [Plain EXCEPT !.chunks = {"MD21", "SFID", "AFID"}, !.body = "whole", !.skin = 6,
                              !.animated = TRUE, !.anims = {[anim |-> 0, sub |-> 0, file |-> 9]}])
       @@ (10 :> [Plain EXCEPT !.chunks = {"MD21", "SFID", "SKB1"}, !.body = "whole", !.skin = 6,
                               !.animated = TRUE, !.anims = {[anim |-> 0, sub |-> 0, file |-> 4]}])
       @@ (8 :> [Plain EXCEPT !.chunks = {"MD21"}, !.body = "cut"])
       @@ (rat :> [Plain EXCEPT !.body = "whole", !.skin = ratskin])
       @@ [k \in {hero, ratskin, mod, bone, walk} |-> Plain]
=============================================================================
