------------------------------ MODULE MCDataPath ------------------------------
(***************************************************************************)
(* A small data set: two ranks, of which the second has none of the only   *)
(* validation example, and packs that hold one to three sequences.         *)
(***************************************************************************)
EXTENDS DataPath

SevenExamples == <<1, 2, 3, 4, 5, 6, 7>>
TwoTests == <<8, 9>>
NoLimit == -1
TwoRanks == {0, 1}
NoneOrSome == {{}, {3, 8}, {2, 3, 4, 5}}
OddOrEven(x) == 1 + (x % 2)
=============================================================================
