------------------------------ MODULE MCTrainJob ------------------------------
(***************************************************************************)
(* A small job: an embedding, which is also the output head, and a fused   *)
(* projection of parts of two, one and one rows, over two ranks, so that   *)
(* the projection lies in both shards and the second is partly padding.    *)
(***************************************************************************)
EXTENDS TrainJob

FusedAndTied == <<<<1>>, <<2, 1, 1>>>>

SavedOrder == <<<<1, 1>>, <<2, 1>>, <<2, 2>>, <<2, 3>>>>

TwoOrders == {SavedOrder, Reverse(SavedOrder)}
=============================================================================
