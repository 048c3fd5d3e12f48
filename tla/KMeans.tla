------------------------------- MODULE KMeans -------------------------------
(***************************************************************************)
(* The application kmeans.c: rounds of map_reduce, each of which puts every*)
(* point into the cluster with the nearest mean and then computes the means*)
(* of the clusters, until no point changes its cluster; and the memory the *)
(* means are in.                                                           *)
(*                                                                         *)
(* A call of map_reduce is what MapReduce says it is: map tasks are taken  *)
(* in any order, each emitted pair is given to the reduce of its key once, *)
(* and the result is sorted by key.  Map tasks write to points of their own*)
(* and to a flag that they only set, so that each is one step.  Coordinates*)
(* are so small that squares and sums of them are integers of C.           *)
(***************************************************************************)
EXTENDS Integers, Functions

CONSTANTS NumPoints, NumMeans, Dim, GridSize,    \* the parameters of the program
          ReqUnits,     \* points the library requests for a map task
          Inputs,       \* the points and the first means, which rand chooses
          Blocks        \* the memory malloc takes means from

Points   == 1..NumPoints
Clusters == 1..NumMeans
Vectors  == [1..Dim -> 0..(GridSize - 1)]

\* parse_args accepts nothing below 1.
ASSUME ParametersAssumption ==
    \A n \in {NumPoints, NumMeans, Dim, GridSize, ReqUnits} : n \in Nat \ {0}

ASSUME InputsAssumption ==
    \A i \in Inputs : i.points \in [Points -> Vectors] /\ i.means \in [Clusters -> Vectors]

VARIABLES
    points, clusters, means, next_point,    \* kmeans_data
    modified, first_run,
    phase, turn,        \* the place in main, and in the loop that frees the means
    tasks, emitted,     \* map tasks left, how often each cluster got each point
    results,            \* kmeans_vals: entries not yet copied to means
    heap,               \* memory that has been allocated and not freed
    unfilled            \* (history) the clusters that got no point in the first round

data == <<points, clusters, means, next_point, modified>>
job  == <<tasks, emitted, results>>
vars == <<data, first_run, phase, turn, job, heap, unfilled>>

\* The first means are in one array, which is freed through its first element.
InArray(j)  == <<"means", j>>
Array       == InArray(1)
InBlock(b)  == <<"mean", b>>
Allocated(at) == IF at \in {InArray(j) : j \in Clusters} THEN Array \in heap ELSE at \in heap

NoPoints == [j \in Clusters |-> [p \in Points |-> 0]]

Init == /\ \E i \in Inputs :
              /\ points = i.points
              /\ means = [j \in Clusters |-> [at |-> InArray(j), val |-> i.means[j]]]
        /\ clusters = [p \in Points |-> 0]    \* -1 in the code
        /\ next_point = 0 /\ modified = TRUE /\ first_run = TRUE
        /\ phase = "test" /\ turn = 1
        /\ tasks = {} /\ emitted = NoPoints /\ results = {}
        /\ heap = {Array} /\ unfilled = {}

-----------------------------------------------------------------------------
(* A round: the loop condition and map_reduce. *)

\* Mutant: the next round goes on where the last one ended.
TestNoRewind == /\ phase = "test"
                /\ IF modified THEN phase' = "split" /\ modified' = FALSE
                               ELSE phase' = "free" /\ UNCHANGED modified
                /\ emitted' = NoPoints
                /\ UNCHANGED <<points, clusters, means, next_point, first_run, turn, tasks,
                               results, heap, unfilled>>

Test == /\ phase = "test"
        /\ IF modified THEN phase' = "split" /\ modified' = FALSE /\ next_point' = 0
                       ELSE phase' = "free" /\ UNCHANGED <<modified, next_point>>
        /\ emitted' = NoPoints
        /\ UNCHANGED <<points, clusters, means, first_run, turn, tasks, results, heap,
                       unfilled>>

\* Mutant: the last task is as long as the others.
LengthFull == ReqUnits

\* The last task has the rest of the points.
Length == IF next_point + ReqUnits >= NumPoints THEN NumPoints - next_point ELSE ReqUnits

kmeans_splitter ==
    /\ phase = "split" /\ next_point < NumPoints
    /\ tasks' = tasks \cup {[first |-> next_point + 1, last |-> next_point + Length]}
    /\ next_point' = next_point + ReqUnits
    /\ UNCHANGED <<points, clusters, means, modified, first_run, phase, turn, emitted, results,
                   heap, unfilled>>

StartMap == /\ phase = "split" /\ next_point >= NumPoints
            /\ phase' = "map"
            /\ UNCHANGED <<data, first_run, turn, job, heap, unfilled>>

get_sq_dist(v, w) == SumFunction([d \in 1..Dim |-> (v[d] - w[d]) * (v[d] - w[d])])

\* The first of the nearest means.
Nearest(p, j) ==
    \A k \in Clusters : LET dj == get_sq_dist(points[p], means[j].val)
                            dk == get_sq_dist(points[p], means[k].val)
                        IN  dj < dk \/ (dj = dk /\ j <= k)

\* The program reads or frees memory it does not have: anything may happen.
Undefined == /\ phase' = "undefined"
             /\ UNCHANGED <<data, first_run, turn, job, heap, unfilled>>

find_clusters(t) ==
    \E found \in [t.first..t.last -> Clusters] :
        LET cluster(p) == IF p \in t.first..t.last THEN found[p] ELSE clusters[p]
        IN  /\ \A p \in t.first..t.last : Nearest(p, found[p])
            /\ clusters' = [p \in Points |-> cluster(p)]
            /\ modified' = (modified \/ clusters' # clusters)
            /\ emitted' = [j \in Clusters |-> [p \in Points |->
                              emitted[j][p]
                                + IF p \in t.first..t.last /\ cluster(p) = j THEN 1 ELSE 0]]

kmeans_map(t) ==
    /\ phase = "map" /\ t \in tasks
    /\ IF \A j \in Clusters : Allocated(means[j].at)
         THEN /\ find_clusters(t)
              /\ tasks' = tasks \ {t}
              /\ UNCHANGED <<points, means, next_point, first_run, phase, turn, results, heap,
                             unfilled>>
         ELSE Undefined

StartReduce == /\ phase = "map" /\ tasks = {}
               /\ phase' = "reduce"
               /\ UNCHANGED <<data, first_run, turn, job, heap, unfilled>>

Emitted(j) == \E p \in Points : emitted[j][p] > 0
Reduced(j) == \E r \in results : r.key = j

\* The mean of points, each taken as often as count says.  Division truncates,
\* and coordinates are not negative.
Mean(count) == [d \in 1..Dim |-> SumFunction([p \in Points |-> count[p] * points[p][d]])
                                   \div SumFunction(count)]

kmeans_reduce(j) ==
    /\ phase = "reduce" /\ Emitted(j) /\ ~Reduced(j)
    /\ \E b \in Blocks :
          /\ InBlock(b) \notin heap
          /\ heap' = heap \cup {InBlock(b)}
          /\ results' = results \cup {[key |-> j, at |-> InBlock(b), val |-> Mean(emitted[j])]}
    /\ UNCHANGED <<data, first_run, phase, turn, tasks, emitted, unfilled>>

Return == /\ phase = "reduce" /\ \A j \in Clusters : Emitted(j) => Reduced(j)
          /\ phase' = "update"
          /\ UNCHANGED <<data, first_run, turn, job, heap, unfilled>>

-----------------------------------------------------------------------------
(* main, between the rounds and after the last one. *)

\* Mutant: the mean of the round before is not freed.
CopyKeeping(r) ==
    /\ means' = [means EXCEPT ![r.key] = [at |-> r.at, val |-> r.val]]
    /\ results' = results \ {r}
    /\ UNCHANGED <<points, clusters, next_point, modified, first_run, phase, turn, tasks,
                   emitted, heap, unfilled>>

Copy(r) ==
    /\ means' = [means EXCEPT ![r.key] = [at |-> r.at, val |-> r.val]]
    /\ heap' = IF first_run THEN heap ELSE heap \ {means[r.key].at}
    /\ results' = results \ {r}
    /\ UNCHANGED <<points, clusters, next_point, modified, first_run, phase, turn, tasks,
                   emitted, unfilled>>

Update == /\ phase = "update"
          /\ \E r \in results :
                /\ \A s \in results : r.key <= s.key
                /\ IF first_run \/ means[r.key].at \in heap THEN Copy(r) ELSE Undefined

EndRound == /\ phase = "update" /\ results = {}
            /\ phase' = "test" /\ first_run' = FALSE
            /\ unfilled' = IF first_run THEN {j \in Clusters : ~Emitted(j)} ELSE unfilled
            /\ UNCHANGED <<data, turn, job, heap>>

FreeMean == /\ phase = "free" /\ turn \in Clusters
            /\ IF means[turn].at \in heap
                 THEN /\ heap' = heap \ {means[turn].at}
                      /\ turn' = turn + 1
                      /\ UNCHANGED <<data, first_run, phase, job, unfilled>>
                 ELSE Undefined

FreeArray == /\ phase = "free" /\ turn \notin Clusters
             /\ IF Array \in heap
                  THEN /\ heap' = heap \ {Array}
                       /\ phase' = "done"
                       /\ UNCHANGED <<data, first_run, turn, job, unfilled>>
                  ELSE Undefined

Stopped == phase \in {"done", "undefined"} /\ UNCHANGED vars

Program == \/ Test \/ kmeans_splitter \/ StartMap
           \/ \E t \in tasks : kmeans_map(t)
           \/ StartReduce
           \/ \E j \in Clusters : kmeans_reduce(j)
           \/ Return \/ Update \/ EndRound \/ FreeMean \/ FreeArray

Next == Program \/ Stopped

Spec == Init /\ [][Next]_vars

\* The program and the workers of the library are scheduled.
FairSpec == Spec /\ WF_vars(Program)

-----------------------------------------------------------------------------
(* Properties. *)

Addresses == {InArray(j) : j \in Clusters} \cup {InBlock(b) : b \in Blocks}

TypeOK ==
    /\ points \in [Points -> Vectors]
    /\ clusters \in [Points -> 0..NumMeans]
    /\ means \in [Clusters -> [at : Addresses, val : Vectors]]
    /\ next_point \in 0..(NumPoints + ReqUnits - 1)
    /\ modified \in BOOLEAN /\ first_run \in BOOLEAN
    /\ phase \in {"test", "split", "map", "reduce", "update", "free", "done", "undefined"}
    /\ turn \in 1..(NumMeans + 1)
    /\ tasks \subseteq [first : Points, last : Points]
    /\ emitted \in [Clusters -> [Points -> {0, 1}]]
    /\ results \subseteq [key : Clusters, at : Addresses, val : Vectors]
    /\ heap \subseteq Addresses /\ unfilled \subseteq Clusters

\* The program frees each mean once and uses none that is freed exactly if every
\* cluster gets a point in the first round: the mean of a cluster that does not
\* stays in the middle of the array of the first means.
FreesValid ==
    /\ phase = "undefined" => unfilled # {}
    /\ phase = "done" => unfilled = {} /\ heap = {}

\* When the loop ends each point is in the cluster of the nearest of the final
\* means, and these are the means of the clusters: the means were computed once
\* more after the clusters were last compared.
Membership(j) == [p \in Points |-> IF clusters[p] = j THEN 1 ELSE 0]
MeansSettled ==
    phase \in {"free", "done"} =>
        /\ \A p \in Points : clusters[p] \in Clusters /\ Nearest(p, clusters[p])
        /\ \A p \in Points : means[clusters[p]].val = Mean(Membership(clusters[p]))

\* "groups several n-dimensional datapoints into a user-specified number of groups
\* using an iterative process" (tests/kmeans/README): the process ends.
Terminates == <>(phase \in {"done", "undefined"})
=============================================================================
