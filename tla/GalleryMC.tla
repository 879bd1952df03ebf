------------------------------ MODULE GalleryMC ------------------------------
(***************************************************************************)
(* A data directory for TLC: a kit of two frames, a kit of none, a set of  *)
(* noise, and a folder that is refused.                                    *)
(***************************************************************************)
EXTENDS GalleryProperties

File(kind, truth, values, count) ==
    [kind |-> kind, truth |-> truth, values |-> values, count |-> count]

DataDir ==
       "empty"   :> {File("kit", TRUE, 3, 0)}
    @@ "noise"   :> {File("noise", FALSE, 3, 1)}
    @@ "twins"   :> {File("pointer", FALSE, 3, 1), File("plain", FALSE, 3, 1)}
    @@ "voc"     :> {File("kit", TRUE, 3, 2)}

ByName == <<"empty", "noise", "twins", "voc">>
Sizes  == "tiled_yolov2_voc" :> 3 @@ "kws" :> 5

UserSymmetry == Permutations(Users)
=============================================================================
