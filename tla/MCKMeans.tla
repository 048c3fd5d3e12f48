------------------------------ MODULE MCKMeans ------------------------------
(* Instances of KMeans for TLC. *)
EXTENDS KMeans

AllInputs == [points : [Points -> Vectors], means : [Clusters -> Vectors]]

\* The first round puts point 3 into cluster 1 and the others into cluster 2. Its means
\* are as near to points 1, 2 and 4 as one another, so that the second puts all points
\* into cluster 1, and the mean of cluster 2 stays; the third is like the first again.
Cube == {[points |-> << <<1, 1, 0, 1>>, <<0, 1, 1, 1>>, <<1, 0, 1, 1>>, <<1, 1, 1, 0>> >>,
          means  |-> << <<0, 0, 1, 1>>, <<0, 1, 1, 1>> >>]}
=============================================================================
