--------------------------- MODULE MCCharDetails ---------------------------
(***************************************************************************)
(* A small character for TLC: 1 and 3 are the top and the bottom of the    *)
(* underclothes, both gated by their colour 2; 4 is a horn or blindfold    *)
(* whose texture is gated by the glow 5; 6 and 8 exist for Demon Hunters   *)
(* only, and 6 gates a look of 7.                                          *)
(***************************************************************************)
EXTENDS CharDetails

MCOptionIDs == <<1, 2, 3, 4, 5, 6, 7, 8>>
MCChoicesOf == <<<<11>>, <<21, 22>>, <<31, 32>>, <<41, 42>>, <<51, 52, 53>>, <<61>>, <<71, 72>>, <<81>>>>

Row(c, r, k, w) == [choice |-> c, related |-> r, kind |-> k, what |-> w]
MCElements ==
    {Row(11, 21, "skin", 1), Row(11, 22, "skin", 2),
     Row(21, 0, "skin", 3),
     Row(31, 0, "skin", 4), Row(31, 21, "geoset", 5), Row(31, 22, "skin", 13),
     Row(32, 22, "skin", 6),
     Row(42, 0, "model", 7), Row(42, 52, "bind", 8), Row(42, 0, "geoset", 9),
     Row(52, 0, "skin", 10), Row(61, 0, "model", 11), Row(61, 0, "skin", 12),
     Row(71, 0, "skin", 14), Row(72, 61, "model", 15),
     Row(81, 0, "skin", 16)}
MCDHOnly == {42, 61, 81}
MCLocked == {53}
MCImports ==
    <<<<<<1, 11>>, <<2, 22>>, <<3, 32>>, <<4, 41>>, <<5, 51>>, <<99, 991>>, <<6, 61>>, <<7, 72>>,
        <<8, 81>>>>,
      <<<<8, 81>>, <<7, 71>>, <<6, 61>>, <<5, 53>>, <<4, 42>>, <<3, 31>>, <<2, 22>>, <<1, 11>>>>>>

\* These tables and answers are among those the theorem ExactImports is about.
ASSUME MCSettles == DefaultsSettle /\ ImportsSettle
=============================================================================
