----------------------------- MODULE MCDatasets -----------------------------
(* A small instance of Datasets for TLC. *)
EXTENDS Datasets

MCPieces == 1..14

MCKindOf == [p \in MCPieces |-> CASE p \in {1, 2, 4, 6, 8, 9, 13} -> "piece_b"
                                  [] p \in {3, 5, 7, 10} -> "p4"
                                  [] OTHER -> "other"]

MCClassOf == [p \in MCPieces |-> CASE p \in {11, 14} -> "class2" [] p = 12 -> "class3" [] OTHER -> "class1"]

MCImagesOf == [p \in MCPieces |-> CASE MCKindOf[p] = "piece_b" \/ p = 14 -> 3 [] p = 12 -> 2 [] OTHER -> 1]

(* Two of the defective candidates are views of one casting. *)
MCGroupOf == [p \in MCPieces |-> IF p = 6 THEN 9 ELSE p]

MCSplitOf == [p \in MCPieces |-> IF p \in {2, 5, 6, 8, 9, 13} THEN "test" ELSE "train"]

MCLabels == {some \cup more : some \in SUBSET {5, 6, 9}, more \in {{}, {2, 11}}}

MCNatural == {1, 2, 3, 4, 6, 8, 11, 12}

MCReserves == [boot |-> {13}, calib |-> {10}, repr |-> {9}, gate1 |-> {5}]

MCDefectTargets == [class1 |-> 1, class2 |-> 2]

MCMinimalCounts == [boot |-> 1, valid |-> 1, good |-> 2, bad |-> 1]

(* Blocks as long as a window, of two sizes; and blocks shorter than one. *)
MCPlanArgs == {[window |-> 2, suspected |-> 2, critical |-> 1, correction |-> 2],
               [window |-> 3, suspected |-> 3, critical |-> 2, correction |-> 1],
               [window |-> 3, suspected |-> 2, critical |-> 1, correction |-> 2]}
=============================================================================
