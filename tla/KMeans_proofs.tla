--------------------------- MODULE KMeans_proofs ---------------------------
(***************************************************************************)
(* Proofs about KMeans: when the rounds end the means and the clusters fit *)
(* each other, and the memory of the means is freed properly exactly if    *)
(* every cluster gets a point in the first round; for all points, first    *)
(* means and parameters.  Types come last: that a mean of grid points is in*)
(* the grid rests on an induction over SumFunction.                        *)
(***************************************************************************)
EXTENDS KMeans, WellFoundedInduction, NaturalsInduction, FiniteSetTheorems, TLAPS

-----------------------------------------------------------------------------
(* The clusters: what holds of them in each phase of a round. *)

Fresh      == \A p \in Points : clusters[p] = 0
Settled    == \A p \in Points : /\ clusters[p] \in Clusters
                                /\ means[clusters[p]].val = Mean(Membership(clusters[p]))
AllNearest == \A p \in Points : Nearest(p, clusters[p])

In(p, t)  == p \in t.first..t.last
Done(p)   == \A t \in tasks : ~In(p, t)
TasksInv  == /\ \A t \in tasks : t.first \in Points /\ t.last \in Points /\ t.first <= t.last
             /\ \A t, u \in tasks : \A p \in Points : In(p, t) /\ In(p, u) => t = u

\* What a round that has changed no cluster started from is still there.
Unmodified == ~modified => Settled \/ (Fresh /\ \A p \in Points : ~Done(p))
MapInv == \A p \in Points :
             /\ Done(p) => clusters[p] \in Clusters /\ Nearest(p, clusters[p])
             /\ \A j \in Clusters : emitted[j][p] = IF Done(p) /\ clusters[p] = j THEN 1 ELSE 0

Gathered == /\ \A p \in Points : clusters[p] \in Clusters
            /\ \A j \in Clusters : emitted[j] = Membership(j)
            /\ ~modified => Settled
ResultsInv == \A r \in results : /\ r.key \in Clusters /\ Emitted(r.key)
                                 /\ r.val = Mean(Membership(r.key))
UpdateInv == /\ ~modified => AllNearest
             /\ \A p \in Points : \/ means[clusters[p]].val = Mean(Membership(clusters[p]))
                                  \/ \E r \in results : r.key = clusters[p]

AtTest   == phase = "test" => /\ tasks = {} /\ results = {}
                              /\ IF modified THEN Fresh \/ Settled ELSE Settled /\ AllNearest
AtSplit  == phase = "split" => /\ results = {} /\ modified = FALSE /\ emitted = NoPoints
                               /\ Fresh \/ Settled
                               /\ TasksInv /\ next_point \in Nat
                               /\ \A p \in Points : Done(p) <=> p > next_point
AtMap    == phase = "map" => results = {} /\ TasksInv /\ Unmodified /\ MapInv
AtReduce == phase = "reduce" => tasks = {} /\ AllNearest /\ Gathered /\ ResultsInv
AtUpdate == phase = "update" => tasks = {} /\ Gathered /\ ResultsInv /\ UpdateInv
AtEnd    == phase \in {"free", "done"} => Settled /\ AllNearest

SInv == /\ DOMAIN means = Clusters /\ clusters \in [Points -> 0..NumMeans] /\ modified \in BOOLEAN
        /\ emitted \in [Clusters -> [Points -> Int]]
        /\ AtTest /\ AtSplit /\ AtMap /\ AtReduce /\ AtUpdate /\ AtEnd

LEMMA Parameters ==
    /\ NumPoints \in Nat \ {0} /\ NumMeans \in Nat \ {0} /\ ReqUnits \in Nat \ {0}
    /\ 1 \in Points /\ 1 \in Clusters /\ Points \subseteq Nat \ {0} /\ Clusters \subseteq Nat \ {0}
<1>1. NumPoints \in Nat \ {0} /\ NumMeans \in Nat \ {0} /\ ReqUnits \in Nat \ {0}
  BY ParametersAssumption
<1> QED BY <1>1 DEF Points, Clusters

LEMMA MeanKept ==
    ASSUME points' = points, clusters' = clusters, NEW CONSTANT j
    PROVE  Mean(Membership(j))' = Mean(Membership(j))
BY DEF Mean, Membership

\* While points, means and clusters stay, so does what is said of them.
LEMMA SettledKept ==
    ASSUME points' = points, clusters' = clusters, clusters \in [Points -> 0..NumMeans],
           DOMAIN means = Clusters, \A j \in Clusters : means'[j].val = means[j].val
    PROVE  /\ Settled => Settled'
           /\ Fresh => Fresh'
           /\ (\A p \in Points : clusters[p] \in Clusters) /\ AllNearest => AllNearest'
<1>1. ASSUME NEW j \in Clusters PROVE Mean(Membership(j))' = Mean(Membership(j))
  BY MeanKept
<1>2. Settled => Settled'
  BY <1>1 DEF Settled
<1>3. ASSUME NEW p \in Points, clusters[p] \in Clusters, Nearest(p, clusters[p])
      PROVE  Nearest(p, clusters[p])'
  BY <1>3 DEF Nearest
<1> QED BY <1>2, <1>3 DEF Fresh, AllNearest

\* Steps of main that leave points, means, clusters and what was emitted alone.
LEMMA TestKeeps == ASSUME SInv, Test PROVE SInv'
<1>1. /\ phase = "test" /\ points' = points /\ clusters' = clusters /\ means' = means
      /\ tasks' = tasks /\ results' = results /\ emitted' = NoPoints
  BY DEF Test
<1>2. /\ DOMAIN means = Clusters /\ clusters \in [Points -> 0..NumMeans] /\ modified \in BOOLEAN
      /\ tasks = {} /\ results = {} /\ IF modified THEN Fresh \/ Settled ELSE Settled /\ AllNearest
  BY <1>1 DEF SInv, AtTest
<1>3. (Fresh => Fresh') /\ (Settled => Settled')
  BY <1>1, <1>2, SettledKept
<1>4. Settled /\ AllNearest => AllNearest'
  BY <1>1, <1>2, SettledKept DEF Settled
<1>5. emitted' \in [Clusters -> [Points -> Int]]
  BY <1>1 DEF NoPoints
<1>6. CASE modified
  <2>1. phase' = "split" /\ modified' = FALSE /\ next_point' = 0
    BY <1>1, <1>6 DEF Test
  <2>2. AtSplit'
    <3>1. TasksInv'
      BY <1>1, <1>2 DEF TasksInv
    <3>2. \A p \in Points : Done(p)' /\ p > next_point'
      BY <1>1, <1>2, <2>1, Parameters DEF Done
    <3>3. (emitted = NoPoints)'
      BY <1>1 DEF NoPoints
    <3> QED BY <1>1, <1>2, <1>3, <1>6, <2>1, <3>1, <3>2, <3>3 DEF AtSplit
  <2> QED BY <1>1, <1>2, <1>5, <2>1, <2>2 DEF SInv, AtTest, AtMap, AtReduce, AtUpdate, AtEnd
<1>7. CASE ~modified
  <2>1. phase' = "free" /\ modified' = modified
    BY <1>1, <1>7 DEF Test
  <2>2. AtEnd'
    BY <1>2, <1>3, <1>4, <1>7 DEF AtEnd
  <2> QED BY <1>1, <1>2, <1>5, <2>1, <2>2 DEF SInv, AtTest, AtSplit, AtMap, AtReduce, AtUpdate
<1> QED BY <1>6, <1>7

LEMMA SplitKeeps == ASSUME SInv, kmeans_splitter PROVE SInv'
<1> DEFINE new == [first |-> next_point + 1, last |-> next_point + Length]
<1>1. /\ phase = "split" /\ phase' = "split" /\ next_point < NumPoints
      /\ points' = points /\ clusters' = clusters /\ means' = means /\ modified' = modified
      /\ tasks' = tasks \cup {new} /\ next_point' = next_point + ReqUnits
      /\ results' = results /\ emitted' = emitted
  BY DEF kmeans_splitter
<1>2. /\ DOMAIN means = Clusters /\ clusters \in [Points -> 0..NumMeans] /\ modified = FALSE
      /\ results = {} /\ emitted = NoPoints /\ (Fresh \/ Settled)
      /\ TasksInv /\ next_point \in Nat
      /\ \A p \in Points : Done(p) <=> p > next_point
  BY <1>1 DEF SInv, AtSplit
<1>3. (Fresh => Fresh') /\ (Settled => Settled')
  BY <1>1, <1>2, SettledKept
<1>4. /\ Length \in Nat \ {0} /\ Length <= ReqUnits /\ next_point + Length <= NumPoints
      /\ next_point + Length < NumPoints => Length = ReqUnits
  BY <1>1, <1>2, Parameters DEF Length
<1>5. /\ new.first = next_point + 1 /\ new.last = next_point + Length
      /\ new.first \in Points /\ new.last \in Points /\ new.first <= new.last
  BY <1>1, <1>2, <1>4, Parameters DEF Points
<1> HIDE DEF new
<1>6. \A p \in Points : In(p, new) <=> p > next_point /\ p <= next_point + Length
  BY <1>2, <1>4, <1>5, Parameters DEF In
<1>7. \A p \in Points, t \in tasks : In(p, t) => ~In(p, new)
  <2>1. \A p \in Points, t \in tasks : In(p, t) => ~(p > next_point)
    BY <1>2 DEF Done
  <2> QED BY <1>6, <2>1
<1>8. TasksInv'
  <2>1. \A t \in tasks' : t.first \in Points /\ t.last \in Points /\ t.first <= t.last
    BY <1>1, <1>2, <1>5 DEF TasksInv
  <2>2. \A t, u \in tasks' : \A p \in Points : In(p, t) /\ In(p, u) => t = u
    BY <1>1, <1>2, <1>7 DEF TasksInv
  <2> QED BY <2>1, <2>2 DEF TasksInv, In
<1>9. \A p \in Points : Done(p)' <=> p > next_point'
  <2> SUFFICES ASSUME NEW p \in Points PROVE Done(p)' <=> p > next_point'
    OBVIOUS
  <2>1. Done(p)' <=> Done(p) /\ ~In(p, new)
    BY <1>1 DEF Done, In
  <2>2. p \in Nat /\ p <= NumPoints
    BY Parameters DEF Points
  <2>3. Done(p)' <=> p > next_point + Length
    BY <1>2, <1>4, <1>6, <2>1, <2>2, Parameters
  <2> QED BY <1>1, <1>2, <1>4, <2>2, <2>3, Parameters
<1>10. AtSplit'
  <2>1. (emitted = NoPoints)'
    BY <1>1, <1>2 DEF NoPoints
  <2>2. next_point' \in Nat
    BY <1>1, <1>2, Parameters
  <2>3. Fresh' \/ Settled'
    BY <1>2, <1>3
  <2>4. results' = {} /\ modified' = FALSE
    BY <1>1, <1>2
  <2> QED BY <1>8, <1>9, <2>1, <2>2, <2>3, <2>4 DEF AtSplit
<1> QED BY <1>1, <1>2, <1>10 DEF SInv, AtTest, AtMap, AtReduce, AtUpdate, AtEnd

LEMMA StartMapKeeps == ASSUME SInv, StartMap PROVE SInv'
<1>1. /\ phase = "split" /\ phase' = "map" /\ next_point >= NumPoints
      /\ points' = points /\ clusters' = clusters /\ means' = means /\ modified' = modified
      /\ tasks' = tasks /\ results' = results /\ emitted' = emitted
  BY DEF StartMap, data, job
<1>2. /\ DOMAIN means = Clusters /\ clusters \in [Points -> 0..NumMeans] /\ modified = FALSE
      /\ results = {} /\ emitted = NoPoints /\ (Fresh \/ Settled)
      /\ TasksInv /\ next_point \in Nat
      /\ \A p \in Points : Done(p) <=> p > next_point
  BY <1>1 DEF SInv, AtSplit
<1>3. (Fresh => Fresh') /\ (Settled => Settled')
  BY <1>1, <1>2, SettledKept
<1>4. \A p \in Points : ~Done(p)'
  <2>1. ASSUME NEW p \in Points PROVE ~Done(p)
    <3>1. p \in Nat /\ p <= NumPoints
      BY Parameters DEF Points
    <3> QED BY <1>1, <1>2, <3>1, Parameters
  <2> QED BY <1>1, <2>1 DEF Done
<1>5. AtMap'
  <2>1. TasksInv'
    BY <1>1, <1>2 DEF TasksInv
  <2>2. Unmodified'
    BY <1>2, <1>3, <1>4 DEF Unmodified
  <2>3. \A p \in Points : \A j \in Clusters : emitted'[j][p] = 0
    BY <1>1, <1>2 DEF NoPoints
  <2>4. MapInv'
    BY <1>4, <2>3 DEF MapInv
  <2>5. results' = {}
    BY <1>1, <1>2
  <2> QED BY <2>1, <2>2, <2>4, <2>5 DEF AtMap
<1> QED BY <1>1, <1>2, <1>5 DEF SInv, AtTest, AtSplit, AtReduce, AtUpdate, AtEnd

\* A map task finds the clusters of its own points only.
LEMMA MapKeeps == ASSUME SInv, NEW t \in tasks, kmeans_map(t) PROVE SInv'
<1>0. CASE Undefined
  BY <1>0 DEF SInv, Undefined, data, job, AtTest, AtSplit, AtMap, AtReduce, AtUpdate, AtEnd
<1>1. CASE ~Undefined
  <2>1. /\ phase = "map" /\ phase' = "map" /\ find_clusters(t) /\ tasks' = tasks \ {t}
        /\ points' = points /\ means' = means /\ results' = results
    BY <1>1 DEF kmeans_map
  <2>2. /\ DOMAIN means = Clusters /\ clusters \in [Points -> 0..NumMeans] /\ modified \in BOOLEAN
        /\ emitted \in [Clusters -> [Points -> Int]]
        /\ results = {} /\ TasksInv /\ Unmodified /\ MapInv
    BY <2>1 DEF SInv, AtMap
  <2>3. PICK found \in [t.first..t.last -> Clusters] :
           /\ \A p \in t.first..t.last : Nearest(p, found[p])
           /\ clusters' = [p \in Points |-> IF p \in t.first..t.last THEN found[p] ELSE clusters[p]]
           /\ modified' = (modified \/ clusters' # clusters)
           /\ emitted' = [j \in Clusters |-> [p \in Points |->
                 emitted[j][p] + IF p \in t.first..t.last
                                    /\ (IF p \in t.first..t.last THEN found[p] ELSE clusters[p]) = j
                                 THEN 1 ELSE 0]]
    BY <2>1 DEF find_clusters
  <2>4. /\ \A p \in Points : In(p, t) => /\ clusters'[p] = found[p] /\ found[p] \in Clusters
                                         /\ Nearest(p, found[p])
        /\ \A p \in Points : ~In(p, t) => clusters'[p] = clusters[p]
        /\ \A p \in Points : \A j \in Clusters : emitted'[j][p]
              = emitted[j][p] + IF In(p, t) /\ clusters'[p] = j THEN 1 ELSE 0
    BY <2>3 DEF In
  <2>5. clusters' \in [Points -> 0..NumMeans]
    <3>1. \A j \in Clusters : j \in 0..NumMeans
      BY Parameters DEF Clusters
    <3> QED BY <2>2, <2>3, <3>1
  <2>6. emitted' \in [Clusters -> [Points -> Int]] /\ modified' \in BOOLEAN
    BY <2>2, <2>3
  <2>7. \A p \in Points : (Done(p)' <=> Done(p) \/ In(p, t)) /\ (In(p, t) => ~Done(p))
    <3>1. \A p \in Points : In(p, t) => \A u \in tasks \ {t} : ~In(p, u)
      BY <2>2 DEF TasksInv
    <3> QED BY <2>1, <3>1 DEF Done, In
  <2>8. TasksInv'
    BY <2>1, <2>2 DEF TasksInv, In
  <2>9. MapInv'
    <3> SUFFICES ASSUME NEW p \in Points
                 PROVE  /\ Done(p)' => clusters'[p] \in Clusters /\ Nearest(p, clusters[p])'
                        /\ \A j \in Clusters : emitted'[j][p]
                              = IF Done(p)' /\ clusters'[p] = j THEN 1 ELSE 0
      BY DEF MapInv
    <3>1. \A j \in Clusters : Nearest(p, j) /\ clusters'[p] = j => Nearest(p, clusters[p])'
      BY <2>1 DEF Nearest
    <3>2. /\ Done(p) => clusters[p] \in Clusters /\ Nearest(p, clusters[p])
          /\ \A j \in Clusters : emitted[j][p] = IF Done(p) /\ clusters[p] = j THEN 1 ELSE 0
      BY <2>2 DEF MapInv
    <3>3. CASE In(p, t)
      BY <2>4, <2>7, <3>1, <3>2, <3>3
    <3>4. CASE ~In(p, t)
      BY <2>4, <2>7, <3>1, <3>2, <3>4
    <3> QED BY <3>3, <3>4
  <2>10. Unmodified'
    <3> SUFFICES ASSUME ~modified' PROVE Settled'
      BY DEF Unmodified
    <3>1. ~modified /\ clusters' = clusters
      BY <2>2, <2>3
    <3>2. ~Fresh
      <4>1. t.first \in Points /\ In(t.first, t)
        <5>1. t.first \in Points /\ t.last \in Points /\ t.first <= t.last
          BY <2>2 DEF TasksInv
        <5>2. t.first \in Int /\ t.last \in Int
          BY <5>1, Parameters DEF Points
        <5> QED BY <5>1, <5>2 DEF In
      <4>2. clusters[t.first] \in Clusters
        BY <2>4, <3>1, <4>1
      <4>3. 0 \notin Clusters
        BY Parameters
      <4> QED BY <4>1, <4>2, <4>3 DEF Fresh
    <3>3. Settled
      BY <2>2, <3>1, <3>2 DEF Unmodified
    <3> QED BY <2>1, <2>2, <3>1, <3>3, SettledKept
  <2>11. AtMap'
    BY <2>1, <2>2, <2>8, <2>9, <2>10 DEF AtMap
  <2> QED BY <2>1, <2>2, <2>5, <2>6, <2>11 DEF SInv, AtTest, AtSplit, AtReduce, AtUpdate, AtEnd
<1> QED BY <1>0, <1>1

LEMMA StartReduceKeeps == ASSUME SInv, StartReduce PROVE SInv'
<1>1. /\ phase = "map" /\ phase' = "reduce" /\ tasks = {}
      /\ points' = points /\ clusters' = clusters /\ means' = means /\ modified' = modified
      /\ tasks' = tasks /\ results' = results /\ emitted' = emitted
  BY DEF StartReduce, data, job
<1>2. /\ DOMAIN means = Clusters /\ clusters \in [Points -> 0..NumMeans] /\ modified \in BOOLEAN
      /\ emitted \in [Clusters -> [Points -> Int]]
      /\ results = {} /\ TasksInv /\ Unmodified /\ MapInv
  BY <1>1 DEF SInv, AtMap
<1>3. \A p \in Points : Done(p)
  BY <1>1 DEF Done
<1>4. (\A p \in Points : clusters[p] \in Clusters) /\ AllNearest
  BY <1>2, <1>3 DEF MapInv, AllNearest
<1>5. ~modified => Settled
  BY <1>2, <1>3, Parameters DEF Unmodified
<1>6. AllNearest' /\ (Settled => Settled')
  BY <1>1, <1>2, <1>4, SettledKept
<1>7. ASSUME NEW j \in Clusters PROVE emitted[j] = Membership(j)
  <2>1. \A p \in Points : emitted[j][p] = IF clusters[p] = j THEN 1 ELSE 0
    BY <1>2, <1>3 DEF MapInv
  <2>2. emitted[j] = [p \in Points |-> emitted[j][p]]
    BY <1>2
  <2> QED BY <2>1, <2>2 DEF Membership
<1>8. Gathered'
  BY <1>1, <1>4, <1>5, <1>6, <1>7 DEF Gathered, Membership
<1>9. AtReduce'
  BY <1>1, <1>2, <1>6, <1>8 DEF AtReduce, ResultsInv
<1> QED BY <1>1, <1>2, <1>9 DEF SInv, AtTest, AtSplit, AtMap, AtUpdate, AtEnd

\* While points, clusters and what was emitted stay, so does what was gathered.
LEMMA GatheredKept ==
    ASSUME points' = points, clusters' = clusters, emitted' = emitted, modified' = modified,
           clusters \in [Points -> 0..NumMeans],
           DOMAIN means = Clusters, \A j \in Clusters : means'[j].val = means[j].val
    PROVE  Gathered => Gathered'
<1>1. Settled => Settled'
  BY SettledKept
<1> QED BY <1>1 DEF Gathered, Membership

LEMMA ReduceKeeps == ASSUME SInv, NEW k \in Clusters, kmeans_reduce(k) PROVE SInv'
<1>1. /\ phase = "reduce" /\ phase' = "reduce" /\ Emitted(k)
      /\ points' = points /\ clusters' = clusters /\ means' = means /\ modified' = modified
      /\ tasks' = tasks /\ emitted' = emitted
  BY DEF kmeans_reduce, data
<1>2. PICK b \in Blocks :
         results' = results \cup {[key |-> k, at |-> InBlock(b), val |-> Mean(emitted[k])]}
  BY DEF kmeans_reduce
<1>3. /\ DOMAIN means = Clusters /\ clusters \in [Points -> 0..NumMeans] /\ modified \in BOOLEAN
      /\ emitted \in [Clusters -> [Points -> Int]]
      /\ tasks = {} /\ AllNearest /\ Gathered /\ ResultsInv
  BY <1>1 DEF SInv, AtReduce
<1>4. Gathered'
  BY <1>1, <1>3, GatheredKept
<1>5. AllNearest'
  BY <1>1, <1>3, SettledKept DEF Gathered
<1>6. ASSUME NEW r \in results'
      PROVE  r.key \in Clusters /\ Emitted(r.key)' /\ r.val = Mean(Membership(r.key))'
  <2>1. r.key \in Clusters /\ Emitted(r.key) /\ r.val = Mean(Membership(r.key))
    <3>1. CASE r \in results
      BY <1>3, <3>1 DEF ResultsInv
    <3>2. CASE r = [key |-> k, at |-> InBlock(b), val |-> Mean(emitted[k])]
      BY <1>1, <1>3, <3>2 DEF Gathered
    <3> QED BY <1>2, <3>1, <3>2
  <2>2. Mean(Membership(r.key))' = Mean(Membership(r.key))
    BY <1>1 DEF Mean, Membership
  <2>3. Emitted(r.key)'
    BY <1>1, <2>1 DEF Emitted
  <2> QED BY <2>1, <2>2, <2>3
<1>7. AtReduce'
  BY <1>1, <1>3, <1>4, <1>5, <1>6 DEF AtReduce, ResultsInv
<1> QED BY <1>1, <1>3, <1>7 DEF SInv, AtTest, AtSplit, AtMap, AtUpdate, AtEnd

LEMMA ReturnKeeps == ASSUME SInv, Return PROVE SInv'
<1>1. /\ phase = "reduce" /\ phase' = "update"
      /\ points' = points /\ clusters' = clusters /\ means' = means /\ modified' = modified
      /\ tasks' = tasks /\ results' = results /\ emitted' = emitted
      /\ \A j \in Clusters : Emitted(j) => \E r \in results : r.key = j
  BY DEF Return, data, job, Reduced
<1>2. /\ DOMAIN means = Clusters /\ clusters \in [Points -> 0..NumMeans] /\ modified \in BOOLEAN
      /\ emitted \in [Clusters -> [Points -> Int]]
      /\ tasks = {} /\ AllNearest /\ Gathered /\ ResultsInv
  BY <1>1 DEF SInv, AtReduce
<1>3. Gathered'
  BY <1>1, <1>2, GatheredKept
<1>4. AllNearest'
  BY <1>1, <1>2, SettledKept DEF Gathered
<1>5. ResultsInv'
  <2>1. ASSUME NEW r \in results'
        PROVE  r.key \in Clusters /\ Emitted(r.key)' /\ r.val = Mean(Membership(r.key))'
    <3>1. r.key \in Clusters /\ Emitted(r.key) /\ r.val = Mean(Membership(r.key))
      BY <1>1, <1>2 DEF ResultsInv
    <3>2. Mean(Membership(r.key))' = Mean(Membership(r.key))
      BY <1>1 DEF Mean, Membership
    <3>3. Emitted(r.key)'
      BY <1>1, <3>1 DEF Emitted
    <3> QED BY <3>1, <3>2, <3>3
  <2> QED BY <2>1 DEF ResultsInv
<1>6. UpdateInv'
  <2>1. ASSUME NEW p \in Points PROVE \E r \in results : r.key = clusters[p]
    <3>1. clusters[p] \in Clusters /\ emitted[clusters[p]][p] = 1
      BY <1>2 DEF Gathered, Membership
    <3> QED BY <1>1, <3>1 DEF Emitted
  <2> QED BY <1>1, <1>4, <2>1 DEF UpdateInv
<1>7. AtUpdate'
  BY <1>1, <1>2, <1>3, <1>5, <1>6 DEF AtUpdate
<1> QED BY <1>1, <1>2, <1>7 DEF SInv, AtTest, AtSplit, AtMap, AtReduce, AtEnd

\* The mean that is copied is what the mean was, if no cluster has changed.
LEMMA UpdateKeeps == ASSUME SInv, Update PROVE SInv'
<1>0. CASE Undefined
  BY <1>0 DEF SInv, Undefined, data, job, AtTest, AtSplit, AtMap, AtReduce, AtUpdate, AtEnd
<1>1. CASE ~Undefined
  <2>1. PICK r \in results : Copy(r)
    BY <1>1 DEF Update
  <2>2. /\ phase = "update" /\ phase' = "update"
        /\ points' = points /\ clusters' = clusters /\ modified' = modified
        /\ tasks' = tasks /\ results' = results \ {r} /\ emitted' = emitted
        /\ means' = [means EXCEPT ![r.key] = [at |-> r.at, val |-> r.val]]
    BY <2>1 DEF Update, Copy
  <2>3. /\ DOMAIN means = Clusters /\ clusters \in [Points -> 0..NumMeans] /\ modified \in BOOLEAN
        /\ emitted \in [Clusters -> [Points -> Int]]
        /\ tasks = {} /\ Gathered /\ ResultsInv /\ UpdateInv
    BY <2>2 DEF SInv, AtUpdate
  <2>4. r.key \in Clusters /\ Emitted(r.key) /\ r.val = Mean(Membership(r.key))
    BY <2>3 DEF ResultsInv
  <2>5. /\ DOMAIN means' = Clusters /\ means'[r.key].val = r.val
        /\ \A j \in Clusters : j # r.key => means'[j] = means[j]
    BY <2>2, <2>3, <2>4
  <2>6. ~modified => \A j \in Clusters : means'[j].val = means[j].val
    <3> SUFFICES ASSUME ~modified PROVE means[r.key].val = r.val
      BY <2>5
    <3>1. PICK p \in Points : emitted[r.key][p] > 0
      BY <2>4 DEF Emitted
    <3>2. clusters[p] = r.key
      BY <2>3, <2>4, <3>1 DEF Gathered, Membership
    <3> QED BY <2>3, <2>4, <3>2 DEF Gathered, Settled
  <2>7. ~modified => Settled' /\ AllNearest'
    BY <2>2, <2>3, <2>6, SettledKept DEF Gathered, UpdateInv
  <2>8. Gathered'
    BY <2>2, <2>3, <2>7 DEF Gathered, Membership
  <2>9. ResultsInv'
    BY <2>2, <2>3 DEF ResultsInv, Emitted, Mean, Membership
  <2>10. UpdateInv'
    <3>1. ASSUME NEW p \in Points
          PROVE  \/ means'[clusters'[p]].val = Mean(Membership(clusters[p]))'
                 \/ \E s \in results' : s.key = clusters'[p]
      <4>1. Mean(Membership(clusters[p]))' = Mean(Membership(clusters[p]))
        BY <2>2 DEF Mean, Membership
      <4>2. CASE clusters[p] = r.key
        BY <2>2, <2>4, <2>5, <4>1, <4>2
      <4>3. CASE clusters[p] # r.key
        <5>1. clusters[p] \in Clusters
          BY <2>3 DEF Gathered
        <5> QED BY <2>2, <2>3, <2>5, <4>1, <4>3, <5>1 DEF UpdateInv
      <4> QED BY <4>2, <4>3
    <3> QED BY <2>2, <2>7, <3>1 DEF UpdateInv
  <2>11. AtUpdate'
    BY <2>2, <2>3, <2>8, <2>9, <2>10 DEF AtUpdate
  <2> QED BY <2>2, <2>3, <2>5, <2>11 DEF SInv, AtTest, AtSplit, AtMap, AtReduce, AtEnd
<1> QED BY <1>0, <1>1

LEMMA EndRoundKeeps == ASSUME SInv, EndRound PROVE SInv'
<1>1. /\ phase = "update" /\ phase' = "test" /\ results = {}
      /\ points' = points /\ clusters' = clusters /\ means' = means /\ modified' = modified
      /\ tasks' = tasks /\ results' = results /\ emitted' = emitted
  BY DEF EndRound, data, job
<1>2. /\ DOMAIN means = Clusters /\ clusters \in [Points -> 0..NumMeans] /\ modified \in BOOLEAN
      /\ emitted \in [Clusters -> [Points -> Int]]
      /\ tasks = {} /\ Gathered /\ ResultsInv /\ UpdateInv
  BY <1>1 DEF SInv, AtUpdate
<1>3. Settled
  BY <1>1, <1>2 DEF Gathered, UpdateInv, Settled
<1>4. Settled' /\ (AllNearest => AllNearest')
  BY <1>1, <1>2, <1>3, SettledKept DEF Settled
<1>5. AtTest'
  BY <1>1, <1>2, <1>3, <1>4 DEF AtTest, UpdateInv
<1> QED BY <1>1, <1>2, <1>5 DEF SInv, AtSplit, AtMap, AtReduce, AtUpdate, AtEnd

\* At the end only memory changes.
LEMMA FreeKeeps ==
    ASSUME SInv, phase = "free", phase' \in {"free", "done", "undefined"}, UNCHANGED <<data, job>>
    PROVE  SInv'
<1>1. /\ points' = points /\ clusters' = clusters /\ means' = means /\ modified' = modified
      /\ tasks' = tasks /\ results' = results /\ emitted' = emitted
  BY DEF data, job
<1>2. Settled' /\ AllNearest'
  BY <1>1, SettledKept DEF SInv, AtEnd, Settled
<1> QED BY <1>1, <1>2 DEF SInv, AtTest, AtSplit, AtMap, AtReduce, AtUpdate, AtEnd

LEMMA StutterKeeps == ASSUME SInv, UNCHANGED vars PROVE SInv'
<1>1. /\ points' = points /\ clusters' = clusters /\ means' = means /\ modified' = modified
      /\ next_point' = next_point /\ phase' = phase
      /\ tasks' = tasks /\ results' = results /\ emitted' = emitted
  BY DEF vars, data, job
<1>2. /\ DOMAIN means = Clusters /\ clusters \in [Points -> 0..NumMeans]
  BY DEF SInv
<1>3. /\ (Settled => Settled') /\ (Fresh => Fresh')
      /\ (\A p \in Points : clusters[p] \in Clusters) /\ AllNearest => AllNearest'
  BY <1>1, <1>2, SettledKept
<1>4. Settled /\ AllNearest => AllNearest'
  BY <1>3 DEF Settled
<1>5. \A p \in Points : Done(p)' <=> Done(p)
  BY <1>1 DEF Done
<1>6. TasksInv => TasksInv'
  BY <1>1 DEF TasksInv
<1>7. AtTest'
  BY <1>1, <1>3, <1>4 DEF SInv, AtTest
<1>8. AtSplit'
  BY <1>1, <1>3, <1>5, <1>6 DEF SInv, AtSplit, NoPoints
<1>9. AtMap'
  <2>1. MapInv => MapInv'
    BY <1>1, <1>5 DEF MapInv, Nearest
  <2> QED BY <1>1, <1>3, <1>5, <1>6, <2>1 DEF SInv, AtMap, Unmodified
<1>10. Gathered => Gathered'
  BY <1>1, <1>2, GatheredKept
<1>11. ResultsInv => ResultsInv'
  BY <1>1 DEF ResultsInv, Emitted, Mean, Membership
<1>12. AtReduce'
  BY <1>1, <1>3, <1>10, <1>11 DEF SInv, AtReduce, Gathered
<1>13. AtUpdate'
  <2>1. Gathered /\ UpdateInv => UpdateInv'
    BY <1>1, <1>3 DEF UpdateInv, Gathered, Mean, Membership
  <2> QED BY <1>1, <1>10, <1>11, <2>1 DEF SInv, AtUpdate
<1>14. AtEnd'
  BY <1>1, <1>3, <1>4 DEF SInv, AtEnd
<1> QED BY <1>1, <1>7, <1>8, <1>9, <1>12, <1>13, <1>14 DEF SInv

LEMMA SInvInit == Init => SInv
<1> SUFFICES ASSUME Init PROVE SInv
  OBVIOUS
<1>1. /\ phase = "test" /\ tasks = {} /\ results = {} /\ modified = TRUE
      /\ clusters = [p \in Points |-> 0] /\ emitted = NoPoints /\ DOMAIN means = Clusters
  BY DEF Init
<1>2. clusters \in [Points -> 0..NumMeans] /\ Fresh
  BY <1>1, Parameters DEF Fresh
<1>3. emitted \in [Clusters -> [Points -> Int]]
  BY <1>1 DEF NoPoints
<1> QED BY <1>1, <1>2, <1>3 DEF SInv, AtTest, AtSplit, AtMap, AtReduce, AtUpdate, AtEnd

LEMMA SInvNext == SInv /\ [Next]_vars => SInv'
<1> SUFFICES ASSUME SInv, [Next]_vars PROVE SInv'
  OBVIOUS
<1>1. CASE FreeMean \/ FreeArray
  <2>1. phase = "free" /\ phase' \in {"free", "done", "undefined"} /\ UNCHANGED <<data, job>>
    BY <1>1 DEF FreeMean, FreeArray, Undefined
  <2> QED BY <2>1, FreeKeeps
<1>2. CASE Stopped \/ UNCHANGED vars
  BY <1>2, StutterKeeps DEF Stopped
<1> QED BY <1>1, <1>2, TestKeeps, SplitKeeps, StartMapKeeps, MapKeeps, StartReduceKeeps,
           ReduceKeeps, ReturnKeeps, UpdateKeeps, EndRoundKeeps DEF Next, Program

\* When the rounds end, each point is in the cluster of the nearest mean, and the
\* mean of a cluster is that of its points: for every input, whatever the order
\* in which tasks are mapped and keys reduced.
THEOREM Settling == Spec => []MeansSettled
<1>1. SInv => MeansSettled
  BY DEF SInv, AtEnd, MeansSettled, Settled, AllNearest
<1> QED BY <1>1, SInvInit, SInvNext, PTL DEF Spec

-----------------------------------------------------------------------------
(* The memory of the means. *)

IsBlock(at) == \E b \in Blocks : at = InBlock(b)

\* What is freed later: by a Copy or a FreeMean to come.
Owned(at) == \/ \E j \in Clusters : turn <= j /\ means[j].at = at
             \/ \E r \in results : r.at = at

Distinct == /\ \A j, k \in Clusters : means[j].at = means[k].at => j = k
            /\ \A r, s \in results : r.at = s.at \/ r.key = s.key => r = s
            /\ \A j \in Clusters, r \in results : means[j].at # r.at

PhaseInv == /\ turn \in 1..(NumMeans + 1)
            /\ phase \notin {"free", "done"} => turn = 1
            /\ phase \notin {"reduce", "update"} => results = {}
            /\ \A r \in results : r.key \in Clusters /\ IsBlock(r.at)
            /\ \A at \in heap : at = Array \/ IsBlock(at)

\* While no cluster is known to have missed its points, nothing is lost or shared.
Kept == unfilled = {} =>
           /\ Array \in heap <=> phase # "done"
           /\ \A b \in Blocks : InBlock(b) \in heap <=> Owned(InBlock(b))
           /\ Distinct
           /\ ~first_run => \A j \in Clusters : IsBlock(means[j].at)

FirstInv == first_run =>
               /\ unfilled = {} /\ phase \notin {"free", "done"}
               /\ phase = "test" => modified
               /\ \A j \in Clusters : \/ means[j].at = InArray(j)
                                      \/ phase = "update" /\ Emitted(j) /\ IsBlock(means[j].at)
               /\ phase = "update" => \A j \in Clusters :
                     Emitted(j) /\ means[j].at = InArray(j) => Reduced(j)
               /\ \A r \in results : means[r.key].at = InArray(r.key)

\* A mean in the middle of the array is never freed, and the array only as the first.
Lost == unfilled # {} =>
           /\ phase # "done"
           /\ Array \in heap => \E j \in Clusters : turn <= j /\ means[j].at = InArray(j)

HInv == IF phase = "undefined" THEN unfilled # {} ELSE PhaseInv /\ Kept /\ FirstInv /\ Lost

LEMMA Places ==
    /\ \A j, k : InArray(j) = InArray(k) => j = k
    /\ \A b, c : InBlock(b) = InBlock(c) => b = c
    /\ \A at : IsBlock(at) => at # Array /\ \A j : at # InArray(j)
    /\ Array = InArray(1) /\ 1 \in Clusters
    /\ \A j \in Clusters : j \in 1..NumMeans /\ j >= 1
<1>1. \A j, k : InArray(j) = InArray(k) => j = k
  BY DEF InArray
<1>2. \A b, c : InBlock(b) = InBlock(c) => b = c
  BY DEF InBlock
<1>3. \A b, j : InBlock(b) # InArray(j)
  BY DEF InArray, InBlock
<1>4. 1 \in Clusters /\ \A j \in Clusters : j \in 1..NumMeans /\ j >= 1
  BY Parameters DEF Clusters
<1> QED BY <1>1, <1>2, <1>3, <1>4 DEF IsBlock, Array

\* Steps between the frees leave what is kept, and what is lost.
LEMMA MemoryKept ==
    ASSUME Kept, Lost, means' = means, turn' = turn, results' = results, heap' = heap,
           unfilled' = unfilled, first_run' = first_run, phase # "done", phase' # "done"
    PROVE  Kept' /\ Lost'
<1>1. \A at : Owned(at)' <=> Owned(at)
  BY DEF Owned
<1>2. Distinct' <=> Distinct
  BY DEF Distinct
<1>3. Kept'
  BY <1>1, <1>2 DEF Kept
<1> QED BY <1>3 DEF Lost

LEMMA RoundKeepsHeap ==
    ASSUME SInv, HInv, phase # "undefined",
           Test \/ kmeans_splitter \/ StartMap \/ StartReduce
             \/ (\E t \in tasks : kmeans_map(t) /\ ~Undefined)
    PROVE  HInv'
<1>1. /\ means' = means /\ turn' = turn /\ results' = results /\ heap' = heap
      /\ unfilled' = unfilled /\ first_run' = first_run
      /\ phase \in {"test", "split", "map"} /\ phase' \in {"split", "map", "reduce", "free"}
      /\ phase' = "free" => phase = "test" /\ ~modified
  BY DEF Test, kmeans_splitter, StartMap, StartReduce, kmeans_map, data, job
<1>2. PhaseInv /\ Kept /\ FirstInv /\ Lost
  BY DEF HInv
<1>3. Kept' /\ Lost'
  BY <1>1, <1>2, MemoryKept
<1>4. results = {} /\ turn = 1
  BY <1>1, <1>2 DEF PhaseInv
<1>5. PhaseInv'
  <2>1. results' = {} /\ turn' = 1
    BY <1>1, <1>4
  <2>2. turn' \in 1..(NumMeans + 1)
    BY <1>1, <1>2 DEF PhaseInv
  <2>3. \A at \in heap' : at = Array \/ IsBlock(at)
    BY <1>1, <1>2 DEF PhaseInv
  <2> QED BY <2>1, <2>2, <2>3 DEF PhaseInv, IsBlock
<1>6. FirstInv'
  <2> SUFFICES ASSUME first_run PROVE FirstInv'
    BY <1>1 DEF FirstInv
  <2>1. /\ unfilled' = {} /\ phase' \in {"split", "map", "reduce"}
        /\ \A j \in Clusters : means'[j].at = InArray(j)
    BY <1>1, <1>2 DEF FirstInv
  <2>2. results' = {}
    BY <1>1, <1>4
  <2> QED BY <2>1, <2>2 DEF FirstInv
<1> QED BY <1>1, <1>3, <1>5, <1>6 DEF HInv

LEMMA ReduceKeepsHeap ==
    ASSUME SInv, HInv, NEW k \in Clusters, kmeans_reduce(k) PROVE HInv'
<1>1. /\ phase = "reduce" /\ phase' = "reduce" /\ ~Reduced(k)
      /\ means' = means /\ turn' = turn /\ unfilled' = unfilled /\ first_run' = first_run
  BY DEF kmeans_reduce, data
<1>2. PICK b \in Blocks :
         /\ InBlock(b) \notin heap /\ heap' = heap \cup {InBlock(b)}
         /\ results' = results \cup {[key |-> k, at |-> InBlock(b), val |-> Mean(emitted[k])]}
  BY DEF kmeans_reduce
<1> DEFINE new == [key |-> k, at |-> InBlock(b), val |-> Mean(emitted[k])]
<1>3. results' = results \cup {new} /\ new.key = k /\ new.at = InBlock(b) /\ IsBlock(new.at)
  BY <1>2 DEF IsBlock
<1> HIDE DEF new
<1>4. PhaseInv /\ Kept /\ FirstInv /\ Lost
  BY <1>1 DEF HInv
<1>5. turn = 1
  BY <1>1, <1>4 DEF PhaseInv
<1>6. PhaseInv'
  <2>1. \A r \in results' : r.key \in Clusters /\ IsBlock(r.at)
    BY <1>3, <1>4 DEF PhaseInv
  <2>2. \A at \in heap' : at = Array \/ IsBlock(at)
    BY <1>2, <1>4 DEF PhaseInv, IsBlock
  <2>3. turn' \in 1..(NumMeans + 1) /\ turn' = 1
    BY <1>1, <1>4, <1>5 DEF PhaseInv
  <2> QED BY <1>1, <2>1, <2>2, <2>3 DEF PhaseInv, IsBlock
<1>7. Kept'
  <2> SUFFICES ASSUME unfilled = {} PROVE Kept'
    BY <1>1 DEF Kept
  <2>1. /\ Array \in heap /\ Distinct /\ ~Owned(InBlock(b))
        /\ \A c \in Blocks : InBlock(c) \in heap <=> Owned(InBlock(c))
        /\ ~first_run => \A j \in Clusters : IsBlock(means[j].at)
    BY <1>1, <1>2, <1>4 DEF Kept
  <2>2. \A at : Owned(at)' <=> Owned(at) \/ at = InBlock(b)
    BY <1>1, <1>3 DEF Owned
  <2>3. \A c \in Blocks : (InBlock(c) \in heap <=> Owned(InBlock(c)))'
    BY <1>2, <2>1, <2>2
  <2>4. /\ \A j \in Clusters : means[j].at # InBlock(b)
        /\ \A r \in results : r.at # InBlock(b)
    BY <1>5, <2>1, Places DEF Owned
  <2>5. \A r \in results : r.key # k
    BY <1>1 DEF Reduced
  <2>6. Distinct'
    BY <1>1, <1>3, <2>1, <2>4, <2>5 DEF Distinct
  <2> QED BY <1>1, <1>2, <2>1, <2>3, <2>6 DEF Kept
<1>8. FirstInv'
  <2> SUFFICES ASSUME first_run PROVE FirstInv'
    BY <1>1 DEF FirstInv
  <2>1. unfilled = {} /\ \A j \in Clusters : means[j].at = InArray(j)
    BY <1>1, <1>4 DEF FirstInv
  <2>2. \A r \in results' : r.key \in Clusters
    BY <1>6 DEF PhaseInv
  <2> QED BY <1>1, <2>1, <2>2 DEF FirstInv
<1>9. Lost'
  <2>1. Array \in heap' => Array \in heap
    BY <1>2, Places DEF IsBlock
  <2> QED BY <1>1, <1>4, <2>1 DEF Lost
<1> QED BY <1>1, <1>6, <1>7, <1>8, <1>9 DEF HInv

LEMMA ReturnKeepsHeap == ASSUME SInv, HInv, Return PROVE HInv'
<1>1. /\ phase = "reduce" /\ phase' = "update"
      /\ means' = means /\ turn' = turn /\ results' = results /\ heap' = heap
      /\ unfilled' = unfilled /\ first_run' = first_run /\ emitted' = emitted
      /\ \A j \in Clusters : Emitted(j) => Reduced(j)
  BY DEF Return, data, job
<1>2. PhaseInv /\ Kept /\ FirstInv /\ Lost
  BY <1>1 DEF HInv
<1>3. Kept' /\ Lost'
  BY <1>1, <1>2, MemoryKept
<1>4. PhaseInv'
  BY <1>1, <1>2 DEF PhaseInv, IsBlock
<1>5. FirstInv'
  <2> SUFFICES ASSUME first_run PROVE FirstInv'
    BY <1>1 DEF FirstInv
  <2>1. /\ unfilled' = {} /\ \A j \in Clusters : means'[j].at = InArray(j)
        /\ \A r \in results' : r.key \in Clusters
    BY <1>1, <1>2 DEF FirstInv, PhaseInv
  <2>2. \A j \in Clusters : Emitted(j)' => Reduced(j)'
    BY <1>1 DEF Emitted, Reduced
  <2> QED BY <1>1, <2>1, <2>2 DEF FirstInv
<1> QED BY <1>1, <1>3, <1>4, <1>5 DEF HInv

\* Memory the program does not have is used only if a cluster missed its points.
LEMMA MeansAllocated ==
    ASSUME HInv, phase # "undefined", unfilled = {}, NEW j \in Clusters, turn <= j, phase # "done"
    PROVE  Allocated(means[j].at) /\ (~first_run => means[j].at \in heap)
<1>1. Kept /\ FirstInv
  BY DEF HInv
<1>2. ASSUME IsBlock(means[j].at) PROVE means[j].at \in heap
  <2>1. PICK b \in Blocks : means[j].at = InBlock(b)
    BY <1>2 DEF IsBlock
  <2>2. Owned(InBlock(b))
    BY <2>1 DEF Owned
  <2> QED BY <1>1, <2>1, <2>2 DEF Kept
<1>3. CASE first_run
  <2>1. CASE means[j].at = InArray(j)
    BY <1>1, <1>3, <2>1 DEF Kept, Allocated
  <2>2. CASE IsBlock(means[j].at)
    BY <1>2, <1>3, <2>2, Places DEF Allocated
  <2> QED BY <1>1, <1>3, <2>1, <2>2 DEF FirstInv
<1>4. CASE ~first_run
  <2>1. IsBlock(means[j].at)
    BY <1>1, <1>4 DEF Kept
  <2> QED BY <1>2, <2>1, Places DEF Allocated
<1> QED BY <1>3, <1>4

\* A copy frees the mean it replaces, unless that is in the array of the first round.
LEMMA CopyKeepsHeap == ASSUME SInv, HInv, Update, NEW r \in results, Copy(r) PROVE HInv'
<1>1. /\ phase = "update" /\ phase' = "update" /\ turn' = turn /\ unfilled' = unfilled
      /\ first_run' = first_run /\ emitted' = emitted /\ results' = results \ {r}
      /\ means' = [means EXCEPT ![r.key] = [at |-> r.at, val |-> r.val]]
      /\ heap' = IF first_run THEN heap ELSE heap \ {means[r.key].at}
  BY DEF Update, Copy
<1>2. DOMAIN means = Clusters /\ r.key \in Clusters /\ Emitted(r.key)
  BY <1>1 DEF SInv, AtUpdate, ResultsInv
<1>3. PhaseInv /\ Kept /\ FirstInv /\ Lost
  BY <1>1 DEF HInv
<1>4. turn = 1 /\ IsBlock(r.at)
  BY <1>1, <1>3 DEF PhaseInv
<1>5. /\ means'[r.key].at = r.at
      /\ \A j \in Clusters : j # r.key => means'[j] = means[j]
  BY <1>1, <1>2
<1>6. PhaseInv'
  <2>1. \A s \in results' : s.key \in Clusters /\ IsBlock(s.at)
    BY <1>1, <1>3 DEF PhaseInv
  <2>2. \A at \in heap' : at = Array \/ IsBlock(at)
    BY <1>1, <1>3 DEF PhaseInv
  <2>3. turn' \in 1..(NumMeans + 1) /\ turn' = 1
    BY <1>1, <1>3, <1>4 DEF PhaseInv
  <2> QED BY <1>1, <2>1, <2>2, <2>3 DEF PhaseInv, IsBlock
<1>7. Kept'
  <2> SUFFICES ASSUME unfilled = {} PROVE Kept'
    BY <1>1 DEF Kept
  <2>1. /\ Array \in heap /\ Distinct
        /\ \A c \in Blocks : InBlock(c) \in heap <=> Owned(InBlock(c))
        /\ ~first_run => \A j \in Clusters : IsBlock(means[j].at)
    BY <1>1, <1>3 DEF Kept
  <2>2. Distinct'
    BY <1>1, <1>2, <1>5, <2>1 DEF Distinct
  <2>3. Array \in heap'
    BY <1>1, <1>2, <2>1, Places
  <2>4. ASSUME NEW c \in Blocks
        PROVE  Owned(InBlock(c))' <=> Owned(InBlock(c)) /\ means[r.key].at # InBlock(c)
    <3>1. Owned(InBlock(c)) <=> \/ \E j \in Clusters : means[j].at = InBlock(c)
                                \/ \E s \in results : s.at = InBlock(c)
      BY <1>4, Places DEF Owned
    <3>2. Owned(InBlock(c))' <=> \/ \E j \in Clusters : means'[j].at = InBlock(c)
                                 \/ \E s \in results' : s.at = InBlock(c)
      BY <1>1, <1>4, Places DEF Owned
    <3>3. (\E j \in Clusters : means'[j].at = InBlock(c))
            <=> r.at = InBlock(c) \/ \E j \in Clusters : j # r.key /\ means[j].at = InBlock(c)
      BY <1>2, <1>5
    <3>4. (\E s \in results' : s.at = InBlock(c))
            <=> r.at # InBlock(c) /\ \E s \in results : s.at = InBlock(c)
      BY <1>1, <2>1 DEF Distinct
    <3>5. means[r.key].at = InBlock(c) => /\ \A s \in results : s.at # InBlock(c)
                                          /\ \A j \in Clusters : j # r.key => means[j].at # InBlock(c)
      BY <1>2, <2>1 DEF Distinct
    <3> QED BY <1>2, <3>1, <3>2, <3>3, <3>4, <3>5
  <2>5. first_run => \A c \in Blocks : means[r.key].at # InBlock(c)
    BY <1>3, Places DEF FirstInv, IsBlock
  <2>6. \A c \in Blocks : (InBlock(c) \in heap <=> Owned(InBlock(c)))'
    <3>1. ASSUME NEW c \in Blocks PROVE InBlock(c) \in heap' <=> Owned(InBlock(c))'
      BY <1>1, <2>1, <2>4, <2>5
    <3> QED BY <3>1 DEF InBlock
  <2>7. (~first_run)' => \A j \in Clusters : IsBlock(means'[j].at)
    BY <1>1, <1>4, <1>5, <2>1
  <2> QED BY <1>1, <2>2, <2>3, <2>6, <2>7 DEF Kept, IsBlock
<1>8. FirstInv'
  <2> SUFFICES ASSUME first_run PROVE FirstInv'
    BY <1>1 DEF FirstInv
  <2>1. /\ unfilled = {} /\ Distinct
        /\ \A j \in Clusters : means[j].at = InArray(j) \/ (Emitted(j) /\ IsBlock(means[j].at))
        /\ \A j \in Clusters : Emitted(j) /\ means[j].at = InArray(j) => Reduced(j)
        /\ \A s \in results : means[s.key].at = InArray(s.key)
    BY <1>1, <1>3 DEF FirstInv, Kept
  <2>2. \A j \in Clusters : Emitted(j)' <=> Emitted(j)
    BY <1>1 DEF Emitted
  <2>3. \A j \in Clusters : \/ means'[j].at = InArray(j)
                            \/ Emitted(j)' /\ IsBlock(means'[j].at)
    BY <1>2, <1>4, <1>5, <2>1, <2>2
  <2>4. \A j \in Clusters : Emitted(j)' /\ means'[j].at = InArray(j) => Reduced(j)'
    <3> SUFFICES ASSUME NEW j \in Clusters, Emitted(j), means'[j].at = InArray(j)
                 PROVE  Reduced(j)'
      BY <2>2
    <3>1. j # r.key
      BY <1>4, <1>5, Places
    <3>2. PICK s \in results : s.key = j
      BY <1>5, <2>1, <3>1 DEF Reduced
    <3> QED BY <1>1, <3>1, <3>2 DEF Reduced
  <2>5. \A s \in results' : means'[s.key].at = InArray(s.key)
    BY <1>1, <1>3, <1>5, <2>1 DEF Distinct, PhaseInv
  <2> QED BY <1>1, <2>1, <2>3, <2>4, <2>5 DEF FirstInv, IsBlock
<1>9. Lost'
  <2> SUFFICES ASSUME unfilled # {}, Array \in heap'
               PROVE  \E j \in Clusters : turn <= j /\ means'[j].at = InArray(j)
    BY <1>1 DEF Lost
  <2>1. ~first_run /\ Array \in heap /\ means[r.key].at # Array /\ means[r.key].at \in heap
    BY <1>1, <1>3 DEF FirstInv, Update, Copy, Undefined
  <2>2. IsBlock(means[r.key].at)
    BY <1>3, <2>1 DEF PhaseInv
  <2>3. PICK j \in Clusters : turn <= j /\ means[j].at = InArray(j)
    BY <1>3, <2>1 DEF Lost
  <2> QED BY <1>5, <2>2, <2>3, Places
<1> QED BY <1>1, <1>6, <1>7, <1>8, <1>9 DEF HInv

LEMMA EndRoundKeepsHeap == ASSUME SInv, HInv, EndRound PROVE HInv'
<1>1. /\ phase = "update" /\ phase' = "test" /\ results = {} /\ first_run' = FALSE
      /\ means' = means /\ turn' = turn /\ results' = results /\ heap' = heap
      /\ unfilled' = IF first_run THEN {j \in Clusters : ~Emitted(j)} ELSE unfilled
  BY DEF EndRound, data, job
<1>2. PhaseInv /\ Kept /\ FirstInv /\ Lost
  BY <1>1 DEF HInv
<1>3. PhaseInv' /\ FirstInv'
  BY <1>1, <1>2 DEF PhaseInv, FirstInv, IsBlock
<1>4. turn = 1
  BY <1>1, <1>2 DEF PhaseInv
<1>5. first_run => /\ unfilled = {}
                   /\ \A j \in Clusters : ~Emitted(j) => means[j].at = InArray(j)
                   /\ \A j \in Clusters : Emitted(j) => IsBlock(means[j].at)
  BY <1>1, <1>2 DEF FirstInv, Reduced
<1>6. Kept'
  <2> SUFFICES ASSUME unfilled' = {} PROVE Kept'
    BY DEF Kept
  <2>1. unfilled = {} /\ \A j \in Clusters : IsBlock(means[j].at)
    BY <1>1, <1>2, <1>5 DEF Kept
  <2>2. \A at : Owned(at)' <=> Owned(at)
    BY <1>1 DEF Owned
  <2>3. Distinct' <=> Distinct
    BY <1>1 DEF Distinct
  <2> QED BY <1>1, <1>2, <2>1, <2>2, <2>3 DEF Kept, IsBlock
<1>7. Lost'
  <2> SUFFICES ASSUME unfilled' # {}
               PROVE  Array \in heap => \E j \in Clusters : turn <= j /\ means[j].at = InArray(j)
    BY <1>1 DEF Lost
  <2>1. CASE first_run
    BY <1>1, <1>4, <1>5, <2>1, Places
  <2>2. CASE ~first_run
    BY <1>1, <1>2, <2>2 DEF Lost
  <2> QED BY <2>1, <2>2
<1> QED BY <1>1, <1>3, <1>6, <1>7 DEF HInv

LEMMA FreeMeanKeepsHeap == ASSUME SInv, HInv, FreeMean, ~Undefined PROVE HInv'
<1>1. /\ phase = "free" /\ phase' = "free" /\ turn \in Clusters /\ means[turn].at \in heap
      /\ heap' = heap \ {means[turn].at} /\ turn' = turn + 1 /\ means' = means
      /\ results' = results /\ unfilled' = unfilled /\ first_run' = first_run
  BY DEF FreeMean, data, job
<1>2. PhaseInv /\ Kept /\ FirstInv /\ Lost /\ results = {}
  BY <1>1 DEF HInv, PhaseInv
<1>3. turn \in Nat /\ turn >= 1 /\ turn <= NumMeans /\ NumMeans \in Nat
  BY <1>1, Parameters DEF Clusters
<1>4. \A j \in Clusters : turn + 1 <= j <=> turn <= j /\ j # turn
  <2>1. \A j \in Clusters : j \in Int
    BY Parameters DEF Clusters
  <2> QED BY <1>3, <2>1
<1>5. PhaseInv'
  <2>1. turn' \in 1..(NumMeans + 1)
    BY <1>1, <1>3
  <2> QED BY <1>1, <1>2, <2>1 DEF PhaseInv, IsBlock
<1>6. ~first_run
  BY <1>1, <1>2 DEF FirstInv
<1>7. Kept'
  <2> SUFFICES ASSUME unfilled = {} PROVE Kept'
    BY <1>1 DEF Kept
  <2>1. /\ Array \in heap /\ Distinct
        /\ \A c \in Blocks : InBlock(c) \in heap <=> Owned(InBlock(c))
        /\ \A j \in Clusters : IsBlock(means[j].at)
    BY <1>1, <1>2, <1>6 DEF Kept
  <2>2. Distinct'
    BY <1>1, <2>1 DEF Distinct
  <2>3. Array \in heap'
    BY <1>1, <2>1, Places
  <2>4. ASSUME NEW c \in Blocks
        PROVE  Owned(InBlock(c))' <=> Owned(InBlock(c)) /\ means[turn].at # InBlock(c)
    <3>1. Owned(InBlock(c)) <=> \E j \in Clusters : turn <= j /\ means[j].at = InBlock(c)
      BY <1>2 DEF Owned
    <3>2. Owned(InBlock(c))' <=> \E j \in Clusters : turn + 1 <= j /\ means[j].at = InBlock(c)
      BY <1>1, <1>2 DEF Owned
    <3>3. means[turn].at = InBlock(c) => \A j \in Clusters : j # turn => means[j].at # InBlock(c)
      BY <1>1, <2>1 DEF Distinct
    <3> QED BY <1>1, <1>4, <3>1, <3>2, <3>3
  <2>5. \A c \in Blocks : (InBlock(c) \in heap <=> Owned(InBlock(c)))'
    <3>1. ASSUME NEW c \in Blocks PROVE InBlock(c) \in heap' <=> Owned(InBlock(c))'
      BY <1>1, <2>1, <2>4
    <3> QED BY <3>1 DEF InBlock
  <2> QED BY <1>1, <2>1, <2>2, <2>3, <2>5 DEF Kept, IsBlock
<1>8. Lost'
  <2> SUFFICES ASSUME unfilled # {}, Array \in heap'
               PROVE  \E j \in Clusters : turn + 1 <= j /\ means[j].at = InArray(j)
    BY <1>1 DEF Lost
  <2>1. Array \in heap /\ means[turn].at # Array
    BY <1>1
  <2>2. IsBlock(means[turn].at)
    BY <1>1, <1>2, <2>1 DEF PhaseInv
  <2>3. PICK j \in Clusters : turn <= j /\ means[j].at = InArray(j)
    BY <1>2, <2>1 DEF Lost
  <2>4. j # turn
    BY <2>2, <2>3, Places
  <2> QED BY <1>4, <2>3, <2>4
<1> QED BY <1>1, <1>5, <1>6, <1>7, <1>8 DEF HInv, FirstInv

LEMMA FreeArrayKeepsHeap == ASSUME SInv, HInv, FreeArray PROVE HInv' /\ FreesValid'
<1>1. /\ phase = "free" /\ turn \notin Clusters /\ means' = means /\ turn' = turn
      /\ results' = results /\ unfilled' = unfilled /\ first_run' = first_run
      /\ IF Array \in heap THEN phase' = "done" /\ heap' = heap \ {Array} ELSE phase' = "undefined"
  BY DEF FreeArray, Undefined, data, job
<1>2. PhaseInv /\ Kept /\ FirstInv /\ Lost /\ results = {}
  BY <1>1 DEF HInv, PhaseInv
<1>3. \A j \in Clusters : ~(turn <= j)
  <2>1. turn \in Nat /\ turn >= 1 /\ NumMeans \in Nat /\ ~(turn <= NumMeans)
    BY <1>1, <1>2, Parameters DEF PhaseInv, Clusters
  <2>2. \A j \in Clusters : j \in Nat /\ j <= NumMeans
    BY Parameters DEF Clusters
  <2> QED BY <2>1, <2>2
<1>4. CASE unfilled # {}
  <2>1. Array \notin heap
    BY <1>2, <1>3, <1>4 DEF Lost
  <2> QED BY <1>1, <1>4, <2>1 DEF HInv, FreesValid
<1>5. CASE unfilled = {}
  <2>1. /\ Array \in heap /\ Distinct /\ ~first_run
        /\ \A c \in Blocks : InBlock(c) \in heap <=> Owned(InBlock(c))
        /\ \A j \in Clusters : IsBlock(means[j].at)
    BY <1>1, <1>2, <1>5 DEF Kept, FirstInv
  <2>2. \A at : ~Owned(at) /\ ~Owned(at)'
    BY <1>1, <1>2, <1>3 DEF Owned
  <2>3. heap' = {}
    BY <1>1, <1>2, <2>1, <2>2 DEF PhaseInv, IsBlock
  <2>4. phase' = "done"
    BY <1>1, <2>1
  <2>5. PhaseInv'
    BY <1>1, <1>2, <2>3, <2>4 DEF PhaseInv
  <2>6. Distinct'
    BY <1>1, <2>1 DEF Distinct
  <2>7. Kept'
    BY <1>1, <2>1, <2>2, <2>3, <2>4, <2>6 DEF Kept, IsBlock
  <2> QED BY <1>1, <1>5, <2>1, <2>3, <2>4, <2>5, <2>7 DEF HInv, FirstInv, Lost, FreesValid
<1> QED BY <1>4, <1>5

LEMMA UndefinedKeepsHeap ==
    ASSUME SInv, HInv, phase # "undefined", Undefined,
           (\E t \in tasks : kmeans_map(t)) \/ Update \/ FreeMean
    PROVE  HInv' /\ FreesValid'
<1>1. phase' = "undefined" /\ unfilled' = unfilled /\ phase \in {"map", "update", "free"}
  BY DEF Undefined, kmeans_map, Update, FreeMean
<1>2. unfilled # {}
  <2> SUFFICES ASSUME unfilled = {} PROVE FALSE
    OBVIOUS
  <2>1. \A j \in Clusters : turn <= j => /\ Allocated(means[j].at)
                                         /\ ~first_run => means[j].at \in heap
    BY <1>1, MeansAllocated
  <2>2. CASE \E t \in tasks : kmeans_map(t)
    <3>1. turn = 1 /\ \E j \in Clusters : ~Allocated(means[j].at)
      BY <1>1, <2>2 DEF Undefined, kmeans_map, HInv, PhaseInv
    <3> QED BY <2>1, <3>1, Places
  <2>3. CASE Update
    <3>1. PICK r \in results : ~first_run /\ means[r.key].at \notin heap
      BY <1>1, <2>3 DEF Update, Undefined, Copy
    <3>2. turn = 1 /\ r.key \in Clusters
      BY <1>1, <2>3, <3>1 DEF Update, HInv, PhaseInv
    <3> QED BY <2>1, <3>1, <3>2, Places
  <2>4. CASE FreeMean
    <3>1. phase = "free" /\ turn \in Clusters /\ means[turn].at \notin heap
      BY <1>1, <2>4 DEF FreeMean
    <3>2. ~first_run
      BY <3>1 DEF HInv, FirstInv
    <3>3. turn <= turn
      BY <3>1, Parameters DEF Clusters
    <3> QED BY <2>1, <3>1, <3>2, <3>3
  <2> QED BY <2>2, <2>3, <2>4
<1> QED BY <1>1, <1>2 DEF HInv, FreesValid

LEMMA HeapInit == Init => HInv /\ FreesValid
<1> SUFFICES ASSUME Init PROVE HInv /\ FreesValid
  OBVIOUS
<1>1. /\ phase = "test" /\ turn = 1 /\ results = {} /\ heap = {Array} /\ unfilled = {}
      /\ first_run = TRUE /\ modified = TRUE
      /\ \A j \in Clusters : means[j].at = InArray(j)
  BY DEF Init
<1>2. PhaseInv
  BY <1>1, Parameters DEF PhaseInv
<1>3. Kept
  <2>1. Distinct
    BY <1>1, Places DEF Distinct
  <2>2. ASSUME NEW b \in Blocks PROVE InBlock(b) \notin heap /\ ~Owned(InBlock(b))
    BY <1>1, Places DEF Owned, IsBlock
  <2> QED BY <1>1, <2>1, <2>2 DEF Kept
<1>4. FirstInv /\ Lost
  BY <1>1 DEF FirstInv, Lost
<1> QED BY <1>1, <1>2, <1>3, <1>4 DEF HInv, FreesValid

LEMMA HeapStutter == ASSUME HInv, FreesValid, UNCHANGED vars PROVE HInv' /\ FreesValid'
<1>1. /\ means' = means /\ turn' = turn /\ results' = results /\ heap' = heap /\ phase' = phase
      /\ unfilled' = unfilled /\ first_run' = first_run /\ emitted' = emitted
      /\ modified' = modified
  BY DEF vars, data, job
<1>2. PhaseInv => PhaseInv'
  BY <1>1 DEF PhaseInv, IsBlock
<1>3. Kept => Kept'
  <2>1. \A at : Owned(at)' <=> Owned(at)
    BY <1>1 DEF Owned
  <2>2. Distinct' <=> Distinct
    BY <1>1 DEF Distinct
  <2> QED BY <1>1, <2>1, <2>2 DEF Kept, IsBlock
<1>4. FirstInv => FirstInv'
  BY <1>1 DEF FirstInv, Emitted, Reduced, IsBlock
<1>5. Lost => Lost'
  BY <1>1 DEF Lost
<1> QED BY <1>1, <1>2, <1>3, <1>4, <1>5 DEF HInv, FreesValid

LEMMA HeapNext == SInv /\ HInv /\ FreesValid /\ [Next]_vars => HInv' /\ FreesValid'
<1> SUFFICES ASSUME SInv, HInv, FreesValid, [Next]_vars PROVE HInv' /\ FreesValid'
  OBVIOUS
<1>1. CASE Stopped \/ UNCHANGED vars
  BY <1>1, HeapStutter DEF Stopped
<1>2. CASE Program /\ phase # "undefined"
  <2>1. CASE FreeArray
    BY <2>1, FreeArrayKeepsHeap
  <2>2. CASE Undefined /\ ((\E t \in tasks : kmeans_map(t)) \/ Update \/ FreeMean)
    BY <1>2, <2>2, UndefinedKeepsHeap
  <2>3. CASE ~FreeArray /\ ~(Undefined /\ ((\E t \in tasks : kmeans_map(t)) \/ Update \/ FreeMean))
    <3>1. HInv'
      <4>1. CASE Test \/ kmeans_splitter \/ StartMap \/ StartReduce \/ \E t \in tasks : kmeans_map(t)
        BY <1>2, <2>3, <4>1, RoundKeepsHeap
      <4>2. CASE Update
        <5>1. PICK r \in results : Copy(r)
          BY <2>3, <4>2 DEF Update
        <5> QED BY <4>2, <5>1, CopyKeepsHeap
      <4>3. CASE FreeMean
        BY <2>3, <4>3, FreeMeanKeepsHeap
      <4> QED BY <1>2, <2>3, <4>1, <4>2, <4>3, ReduceKeepsHeap, ReturnKeepsHeap, EndRoundKeepsHeap
              DEF Program
    <3>2. phase' \notin {"undefined", "done"}
      BY <1>2, <2>3 DEF Program, Test, kmeans_splitter, StartMap, kmeans_map, StartReduce,
         kmeans_reduce, Return, Update, Copy, EndRound, FreeMean
    <3> QED BY <3>1, <3>2 DEF FreesValid
  <2> QED BY <2>1, <2>2, <2>3
<1>3. ~(Program /\ phase = "undefined")
  BY DEF Program, Test, kmeans_splitter, StartMap, kmeans_map, StartReduce, kmeans_reduce,
     Return, Update, EndRound, FreeMean, FreeArray
<1> QED BY <1>1, <1>2, <1>3 DEF Next

\* No memory is used after it was freed, freed twice or left at the end, in any
\* program in which every cluster gets a point in the first round; and in no
\* other does the program end properly.
THEOREM Freeing == Spec => []FreesValid
BY SInvInit, SInvNext, HeapInit, HeapNext, PTL DEF Spec

-----------------------------------------------------------------------------
(* Sums.  SumFunction is a recursive function on the subsets of the domain, and *)
(* what it computes is proved by induction on their cardinality.             *)

SmallerThan == {ss \in Nat \X Nat : ss[1] < ss[2]}

\* A set of naturals that is not empty has a least element.
LEMMA Least ==
    ASSUME NEW T, T \subseteq Nat, T # {}
    PROVE  \E x \in T : \A y \in T : x <= y
<1>1. OpToRel(<, Nat) = SmallerThan
  BY Zenon DEF OpToRel, SmallerThan
<1>2. IsWellFoundedOn(SmallerThan, Nat)
  BY <1>1, NatLessThanWellFounded, Zenon
<1>3. PICK x \in T : \A y \in T : ~(<<y, x>> \in SmallerThan)
  BY <1>2, WFMin
<1>4. ASSUME NEW y \in T PROVE x <= y
  <2>1. x \in Nat /\ y \in Nat
    OBVIOUS
  <2>2. y < x => <<y, x>> \in SmallerThan
    BY <2>1 DEF SmallerThan
  <2> QED BY <1>3, <2>1, <2>2
<1> QED BY <1>4

\* Induction on Nat for a set T, which stands for the predicate "n is in T".
LEMMA Induction ==
    ASSUME NEW T, 0 \in T, \A n \in Nat : n \in T => n + 1 \in T
    PROVE  \A n \in Nat : n \in T
<1> DEFINE U == {n \in Nat : n \notin T}
<1> SUFFICES ASSUME U # {} PROVE FALSE
  OBVIOUS
<1>1. PICK x \in U : \A y \in U : x <= y
  BY Least, U \subseteq Nat
<1>2. x # 0
  OBVIOUS
<1>3. x - 1 \in Nat /\ x - 1 \notin U
  BY <1>1, <1>2
<1>4. (x - 1) + 1 \in T
  BY <1>3
<1> QED BY <1>4

\* Subsets and their cardinality.
LEMMA Cards ==
    ASSUME NEW D, IsFiniteSet(D)
    PROVE  /\ Cardinality(D) \in Nat /\ Cardinality({}) = 0
           /\ \A s \in SUBSET D : /\ Cardinality(s) \in Nat /\ Cardinality(s) <= Cardinality(D)
                                  /\ Cardinality(s) = 0 <=> s = {}
                                  /\ \A x \in s : Cardinality(s \ {x}) = Cardinality(s) - 1
<1>1. \A s \in SUBSET D : IsFiniteSet(s) /\ Cardinality(s) <= Cardinality(D)
  BY FS_Subset
<1>2. \A s \in SUBSET D : Cardinality(s) \in Nat
  BY <1>1, FS_CardinalityType
<1>3. ASSUME NEW s \in SUBSET D, NEW x \in s
      PROVE  Cardinality(s \ {x}) = Cardinality(s) - 1
  <2>1. IsFiniteSet(s)
    BY <1>1
  <2> QED BY <2>1, FS_RemoveElement, Zenon
<1> QED BY <1>1, <1>2, <1>3, FS_EmptySet, FS_CardinalityType

\* Induction on the subsets of a finite set.
LEMMA SetInduction ==
    ASSUME NEW D, IsFiniteSet(D), NEW T, {} \in T,
           \A s \in SUBSET D : s # {} /\ (\A x \in s : s \ {x} \in T) => s \in T
    PROVE  D \in T
<1> DEFINE U == {n \in Nat : \A s \in SUBSET D : Cardinality(s) = n => s \in T}
<1>1. 0 \in U
  BY Cards
<1>2. ASSUME NEW n \in Nat, n \in U PROVE n + 1 \in U
  <2> SUFFICES ASSUME NEW s \in SUBSET D, Cardinality(s) = n + 1 PROVE s \in T
    OBVIOUS
  <2>1. s # {} /\ \A x \in s : Cardinality(s \ {x}) = (n + 1) - 1
    <3>1. n + 1 # 0
      OBVIOUS
    <3> QED BY <3>1, Cards, Zenon
  <2>2. \A x \in s : Cardinality(s \ {x}) = n
    BY <2>1
  <2>3. \A x \in s : s \ {x} \in T
    BY <1>2, <2>2
  <2> QED BY <2>1, <2>3
<1> HIDE DEF U
<1>3. Cardinality(D) \in Nat /\ \A n \in Nat : n \in U
  BY <1>1, <1>2, Cards, Induction
<1> QED BY <1>3 DEF U

Some(s) == CHOOSE x \in s : TRUE
Added(f, sum, s) == IF s = {} THEN 0 ELSE f[Some(s)] + sum[s \ {Some(s)}]
IsSum(f, sum) == sum = [s \in SUBSET (DOMAIN f) |-> Added(f, sum, s)]

\* SumFunction is the function that its recursion defines.
LEMMA SumDef ==
    ASSUME NEW f
    PROVE  SumFunction(f) = (CHOOSE sum : IsSum(f, sum))[DOMAIN f]
BY DEF SumFunction, SumFunctionOnSet, FoldFunctionOnSet, MapThenFoldSet, IsSum, Added, Some

\* The recursion has a solution: one for subsets up to n gives one for those up to n + 1.
LEMMA SumExists ==
    ASSUME NEW f, IsFiniteSet(DOMAIN f)
    PROVE  \E sum : IsSum(f, sum)
<1> DEFINE D == DOMAIN f
           Part(sum, n) == sum = [s \in SUBSET D |-> IF Cardinality(s) <= n
                                                     THEN Added(f, sum, s) ELSE 0]
           T == {n \in Nat : \E sum : Part(sum, n)}
<1>0. /\ Cardinality(D) \in Nat /\ Cardinality({}) = 0
      /\ \A s \in SUBSET D : /\ Cardinality(s) \in Nat /\ Cardinality(s) <= Cardinality(D)
                             /\ Cardinality(s) = 0 <=> s = {}
                             /\ \A x \in s : Cardinality(s \ {x}) = Cardinality(s) - 1
  BY Cards
<1>s. \A s \in SUBSET D : s # {} => Some(s) \in s
  BY DEF Some
<1>1. 0 \in T
  <2> DEFINE sum == [s \in SUBSET D |-> 0]
  <2>1. Part(sum, 0)
    <3> HIDE DEF sum
    <3>1. \A s \in SUBSET D : Cardinality(s) <= 0 => Added(f, sum, s) = 0
      BY <1>0 DEF Added
    <3>2. [s \in SUBSET D |-> 0] = [s \in SUBSET D |-> IF Cardinality(s) <= 0
                                                       THEN Added(f, sum, s) ELSE 0]
      BY <3>1
    <3> QED BY <3>2 DEF sum
  <2> QED BY <2>1
<1>2. ASSUME NEW n \in Nat, n \in T PROVE n + 1 \in T
  <2>1. PICK g : Part(g, n)
    BY <1>2
  <2> DEFINE h == [s \in SUBSET D |-> IF Cardinality(s) <= n + 1 THEN Added(f, g, s) ELSE 0]
  <2>2. ASSUME NEW s \in SUBSET D, Cardinality(s) <= n PROVE g[s] = h[s]
    <3>1. Cardinality(s) <= n + 1
      BY <1>0, <2>2
    <3>2. g[s] = Added(f, g, s)
      <4>1. g = [r \in SUBSET D |-> IF Cardinality(r) <= n THEN Added(f, g, r) ELSE 0]
        BY <2>1
      <4> HIDE DEF Part, h, T
      <4> QED BY <2>2, <4>1
    <3>3. h[s] = Added(f, g, s)
      BY <3>1
    <3> QED BY <3>2, <3>3
  <2>3. ASSUME NEW s \in SUBSET D, Cardinality(s) <= n + 1 PROVE Added(f, g, s) = Added(f, h, s)
    <3> HIDE DEF h, Part, T
    <3>1. CASE s = {}
      BY <3>1 DEF Added
    <3>2. CASE s # {}
      <4>1. Some(s) \in s /\ s \ {Some(s)} \in SUBSET D
        BY <1>s, <3>2
      <4>2. Cardinality(s \ {Some(s)}) <= n
        BY <1>0, <2>3, <4>1
      <4>3. g[s \ {Some(s)}] = h[s \ {Some(s)}]
        BY <2>2, <4>1, <4>2
      <4> QED BY <4>3 DEF Added
    <3> QED BY <3>1, <3>2
  <2>4. h = [s \in SUBSET D |-> IF Cardinality(s) <= n + 1 THEN Added(f, h, s) ELSE 0]
    <3> HIDE DEF h, Part, T
    <3>1. [s \in SUBSET D |-> IF Cardinality(s) <= n + 1 THEN Added(f, g, s) ELSE 0]
            = [s \in SUBSET D |-> IF Cardinality(s) <= n + 1 THEN Added(f, h, s) ELSE 0]
      BY <2>3
    <3> QED BY <3>1 DEF h
  <2> HIDE DEF h
  <2>5. Part(h, n + 1)
    BY <2>4
  <2> HIDE DEF Part
  <2> QED BY <2>5
<1> HIDE DEF T
<1>3. Cardinality(D) \in T
  BY <1>0, <1>1, <1>2, Induction
<1>4. PICK sum : Part(sum, Cardinality(D))
  BY <1>3 DEF T
<1>5. sum = [s \in SUBSET D |-> Added(f, sum, s)]
  BY <1>0, <1>4
<1> QED BY <1>5 DEF IsSum

\* Sums of naturals, and a sum and the weights of its parts: no part is more than m
\* for each unit of its weight, and neither is the sum.
LEMMA SumBounded ==
    ASSUME NEW D, IsFiniteSet(D), NEW m \in Nat, NEW c \in [D -> Nat], NEW g \in [D -> Nat],
           \A x \in D : g[x] <= m * c[x]
    PROVE  /\ SumFunction(c) \in Nat /\ SumFunction(g) \in Nat
           /\ SumFunction(g) <= m * SumFunction(c)
           /\ (\E x \in D : c[x] > 0) => SumFunction(c) > 0
<1>1. PICK a : IsSum(c, a) /\ SumFunction(c) = a[D]
  <2>1. \E sum : IsSum(c, sum)
    BY SumExists
  <2>2. DOMAIN c = D
    OBVIOUS
  <2> QED BY <2>1, <2>2, SumDef
<1>2. PICK b : IsSum(g, b) /\ SumFunction(g) = b[D]
  <2>1. \E sum : IsSum(g, sum)
    BY SumExists
  <2>2. DOMAIN g = D
    OBVIOUS
  <2> QED BY <2>1, <2>2, SumDef
<1> DEFINE T == {s \in SUBSET D : /\ a[s] \in Nat /\ b[s] \in Nat /\ b[s] <= m * a[s]
                                  /\ (\E x \in s : c[x] > 0) => a[s] > 0}
<1>3. /\ \A s \in SUBSET D : a[s] = Added(c, a, s) /\ b[s] = Added(g, b, s)
  <2>1. a = [s \in SUBSET D |-> Added(c, a, s)]
    BY <1>1 DEF IsSum
  <2>2. b = [s \in SUBSET D |-> Added(g, b, s)]
    BY <1>2 DEF IsSum
  <2> HIDE DEF T
  <2>3. ASSUME NEW s \in SUBSET D PROVE a[s] = Added(c, a, s)
    BY <2>1
  <2>4. ASSUME NEW s \in SUBSET D PROVE b[s] = Added(g, b, s)
    BY <2>2
  <2> QED BY <2>3, <2>4
<1>4. {} \in T
  <2>1. a[{}] = 0 /\ b[{}] = 0
    BY <1>3 DEF Added
  <2>2. m * 0 = 0
    OBVIOUS
  <2> QED BY <2>1, <2>2
<1>5. ASSUME NEW s \in SUBSET D, s # {}, \A x \in s : s \ {x} \in T PROVE s \in T
  <2>1. Some(s) \in s
    BY <1>5 DEF Some
  <2>2. PICK x \in s, r \in T : x = Some(s) /\ r = s \ {x}
    BY <1>5, <2>1
  <2>3. a[s] = c[x] + a[r] /\ b[s] = g[x] + b[r]
    BY <1>3, <2>2 DEF Added
  <2>4. /\ a[r] \in Nat /\ b[r] \in Nat /\ c[x] \in Nat /\ g[x] \in Nat
        /\ b[r] <= m * a[r] /\ g[x] <= m * c[x] /\ (\E z \in r : c[z] > 0) => a[r] > 0
    OBVIOUS
  <2>5. \A u, v \in Nat : m * (u + v) = m * u + m * v /\ m * u \in Nat /\ m * v \in Nat
    OBVIOUS
  <2>6. m * a[s] = m * c[x] + m * a[r] /\ m * c[x] \in Nat /\ m * a[r] \in Nat
    BY <2>3, <2>4, <2>5
  <2>7. a[s] \in Nat /\ b[s] \in Nat /\ b[s] <= m * a[s]
    BY <2>3, <2>4, <2>6
  <2>8. (\E z \in s : c[z] > 0) => c[x] > 0 \/ \E z \in r : c[z] > 0
    BY <2>2
  <2>9. ASSUME \E z \in s : c[z] > 0 PROVE a[s] > 0
    <3>1. c[x] > 0 \/ a[r] > 0
      BY <2>4, <2>8, <2>9
    <3>2. \A u, v \in Nat : u > 0 \/ v > 0 => u + v > 0
      OBVIOUS
    <3> QED BY <2>3, <2>4, <3>1, <3>2
  <2> QED BY <2>7, <2>9
<1> HIDE DEF T
<1>6. D \in T
  BY <1>4, <1>5, SetInduction
<1> QED BY <1>1, <1>2, <1>6 DEF T

\* A mean of numbers up to m is one.
LEMMA Quotient ==
    ASSUME NEW m \in Nat, NEW a \in Nat, NEW b \in Nat \ {0}, a <= m * b
    PROVE  a \div b \in 0..m
<1> DEFINE q == a \div b
<1>1. q \in Nat /\ b * q <= a
  OBVIOUS
<1>2. ASSUME q > m PROVE FALSE
  <2> HIDE DEF q
  <2>1. q >= m + 1
    BY <1>1, <1>2
  <2>2. PICK k \in Nat : q = m + 1 + k
    <3>1. q - (m + 1) \in Nat /\ q = m + 1 + (q - (m + 1))
      BY <1>1, <2>1
    <3> QED BY <3>1
  <2>3. b * q = m * b + b + b * k /\ b * k \in Nat /\ m * b \in Nat
    BY <2>2
  <2> QED BY <1>1, <2>3
<1> QED BY <1>1, <1>2

-----------------------------------------------------------------------------
(* Types. *)

\* The mean of a cluster with a point is in the grid.
LEMMA MeanInGrid ==
    ASSUME TypeOK, NEW j \in Clusters, Emitted(j)
    PROVE  Mean(emitted[j]) \in Vectors
<1> DEFINE c == emitted[j]
           m == GridSize - 1
<1>1. m \in Nat
  BY ParametersAssumption
<1>2. IsFiniteSet(Points) /\ c \in [Points -> {0, 1}] /\ c \in [Points -> Nat]
  <2>1. IsFiniteSet(Points)
    BY FS_Interval, Parameters DEF Points
  <2>2. c \in [Points -> {0, 1}]
    BY DEF TypeOK
  <2> QED BY <2>1, <2>2
<1>3. \E p \in Points : c[p] > 0
  BY DEF Emitted
<1>4. \A p \in Points : \A d \in 1..Dim : points[p][d] \in 0..m
  <2>1. points \in [Points -> Vectors]
    BY DEF TypeOK
  <2> QED BY <2>1 DEF Vectors
<1> HIDE DEF c, m
<1>5. ASSUME NEW d \in 1..Dim
      PROVE  SumFunction([p \in Points |-> c[p] * points[p][d]]) \div SumFunction(c) \in 0..m
  <2> DEFINE g == [p \in Points |-> c[p] * points[p][d]]
  <2>1. ASSUME NEW p \in Points
        PROVE  c[p] * points[p][d] \in Nat /\ c[p] * points[p][d] <= m * c[p]
    <3>1. PICK x \in 0..m : x = points[p][d]
      BY <1>4
    <3>2. CASE c[p] = 0
      BY <1>1, <3>1, <3>2
    <3>3. CASE c[p] = 1
      BY <1>1, <3>1, <3>3
    <3> QED BY <1>2, <3>2, <3>3
  <2>2. g \in [Points -> Nat] /\ \A p \in Points : g[p] <= m * c[p]
    BY <2>1
  <2> HIDE DEF g
  <2>3. /\ SumFunction(c) \in Nat \ {0} /\ SumFunction(g) \in Nat
        /\ SumFunction(g) <= m * SumFunction(c)
    BY <1>1, <1>2, <1>3, <2>2, SumBounded
  <2>4. SumFunction(g) \div SumFunction(c) \in 0..m
    BY <1>1, <2>3, Quotient
  <2> QED BY <2>4 DEF g
<1>6. Mean(c) = [d \in 1..Dim |-> SumFunction([p \in Points |-> c[p] * points[p][d]])
                                     \div SumFunction(c)]
  BY DEF Mean
<1>7. Mean(c) \in [1..Dim -> 0..m]
  BY <1>5, <1>6
<1> QED BY <1>7 DEF c, m, Vectors

\* The initial state, and one lemma for each kind of step.
LEMMA TypeInit == Init => TypeOK
<1> SUFFICES ASSUME Init PROVE TypeOK
  OBVIOUS
<1>1. PICK i \in Inputs :
         /\ points = i.points
         /\ means = [j \in Clusters |-> [at |-> InArray(j), val |-> i.means[j]]]
  BY DEF Init
<1>2. i.points \in [Points -> Vectors] /\ i.means \in [Clusters -> Vectors]
  BY InputsAssumption
<1>3. means \in [Clusters -> [at : Addresses, val : Vectors]]
  BY <1>1, <1>2 DEF Addresses
<1>4. 0 \in 0..NumMeans /\ 0 \in 0..(NumPoints + ReqUnits - 1) /\ 1 \in 1..(NumMeans + 1)
  BY Parameters
<1>5. Array \in Addresses
  BY Parameters DEF Array, Addresses
<1>6. clusters \in [Points -> 0..NumMeans] /\ emitted \in [Clusters -> [Points -> {0, 1}]]
  BY <1>4 DEF Init, NoPoints
<1> QED BY <1>1, <1>2, <1>3, <1>4, <1>5, <1>6 DEF Init, TypeOK

\* Steps that change only the place in the program, and flags.
LEMMA TypeKept ==
    ASSUME TypeOK, points' = points, clusters' = clusters, means' = means, tasks' = tasks,
           results' = results, next_point' \in {next_point, 0},
           emitted' \in {emitted, NoPoints}, heap' \subseteq heap,
           turn' = turn \/ (turn \in Clusters /\ turn' = turn + 1),
           modified' \in BOOLEAN, first_run' \in BOOLEAN, unfilled' \subseteq Clusters,
           phase' \in {"test", "split", "map", "reduce", "update", "free", "done", "undefined"}
    PROVE  TypeOK'
<1>1. turn' \in 1..(NumMeans + 1)
  BY Parameters DEF TypeOK, Clusters
<1>2. next_point' \in 0..(NumPoints + ReqUnits - 1)
  BY Parameters DEF TypeOK
<1>3. emitted' \in [Clusters -> [Points -> {0, 1}]]
  BY DEF TypeOK, NoPoints
<1>4. heap' \subseteq Addresses
  BY DEF TypeOK
<1> QED BY <1>1, <1>2, <1>3, <1>4 DEF TypeOK

LEMMA TypePlace ==
    ASSUME TypeOK,
           \/ Test \/ StartMap \/ StartReduce \/ Return \/ EndRound \/ FreeMean \/ FreeArray
           \/ Undefined \/ UNCHANGED vars
    PROVE  TypeOK'
<1>1. /\ modified \in BOOLEAN /\ first_run \in BOOLEAN /\ unfilled \subseteq Clusters
      /\ phase \in {"test", "split", "map", "reduce", "update", "free", "done", "undefined"}
  BY DEF TypeOK
<1>2. CASE Test
  BY <1>1, <1>2, TypeKept DEF Test
<1>3. CASE StartMap \/ StartReduce \/ Return \/ Undefined
  BY <1>1, <1>3, TypeKept DEF StartMap, StartReduce, Return, Undefined, data, job
<1>4. CASE EndRound
  <2>1. unfilled' \subseteq Clusters
    BY <1>1, <1>4 DEF EndRound
  <2> QED BY <1>1, <1>4, <2>1, TypeKept DEF EndRound, data, job
<1>5. CASE FreeMean /\ ~Undefined
  BY <1>1, <1>5, TypeKept DEF FreeMean, data, job
<1>6. CASE FreeArray /\ ~Undefined
  BY <1>1, <1>6, TypeKept DEF FreeArray, data, job
<1>7. CASE UNCHANGED vars
  BY <1>1, <1>7, TypeKept DEF vars, data, job
<1> QED BY <1>2, <1>3, <1>4, <1>5, <1>6, <1>7

LEMMA TypeSplit == ASSUME TypeOK, kmeans_splitter PROVE TypeOK'
<1> DEFINE new == [first |-> next_point + 1, last |-> next_point + Length]
<1>1. /\ next_point < NumPoints /\ tasks' = tasks \cup {new}
      /\ next_point' = next_point + ReqUnits
      /\ UNCHANGED <<points, clusters, means, modified, first_run, phase, turn, emitted, results,
                     heap, unfilled>>
  BY DEF kmeans_splitter
<1>2. next_point \in Nat
  BY Parameters DEF TypeOK
<1>3. next_point' \in 0..(NumPoints + ReqUnits - 1)
  BY <1>1, <1>2, Parameters
<1>4. /\ Length \in Nat \ {0} /\ next_point + Length <= NumPoints
  BY <1>1, <1>2, Parameters DEF Length
<1>5. next_point + 1 \in Points /\ next_point + Length \in Points
  BY <1>1, <1>2, <1>4, Parameters DEF Points
<1>6. tasks' \subseteq [first : Points, last : Points]
  <2>1. new \in [first : Points, last : Points]
    BY <1>5
  <2> QED BY <1>1, <2>1 DEF TypeOK
<1> QED BY <1>1, <1>3, <1>6 DEF TypeOK

LEMMA TypeMap == ASSUME SInv, TypeOK, NEW t \in tasks, kmeans_map(t) PROVE TypeOK'
<1>1. CASE Undefined
  BY <1>1, TypePlace
<1>2. CASE ~Undefined
  <2>1. /\ phase = "map" /\ find_clusters(t) /\ tasks' = tasks \ {t}
        /\ UNCHANGED <<points, means, next_point, first_run, phase, turn, results, heap, unfilled>>
    BY <1>2 DEF kmeans_map
  <2>2. PICK found \in [t.first..t.last -> Clusters] :
           /\ clusters' = [p \in Points |-> IF p \in t.first..t.last THEN found[p] ELSE clusters[p]]
           /\ modified' = (modified \/ clusters' # clusters)
           /\ emitted' = [j \in Clusters |-> [p \in Points |->
                 emitted[j][p] + IF p \in t.first..t.last
                                    /\ (IF p \in t.first..t.last THEN found[p] ELSE clusters[p]) = j
                                 THEN 1 ELSE 0]]
    BY <2>1 DEF find_clusters
  <2>3. clusters' \in [Points -> 0..NumMeans] /\ modified' \in BOOLEAN
    <3>1. \A j \in Clusters : j \in 0..NumMeans
      BY Parameters DEF Clusters
    <3> QED BY <2>2, <3>1 DEF TypeOK
  <2>4. ASSUME NEW j \in Clusters, NEW p \in Points
        PROVE  emitted[j][p] \in {0, 1} /\ (p \in t.first..t.last => emitted[j][p] = 0)
    <3>1. emitted[j][p] \in {0, 1}
      BY DEF TypeOK
    <3>2. In(p, t) => ~Done(p)
      BY DEF Done
    <3>3. emitted[j][p] = IF Done(p) /\ clusters[p] = j THEN 1 ELSE 0
      BY <2>1 DEF SInv, AtMap, MapInv
    <3> QED BY <3>1, <3>2, <3>3 DEF In
  <2>5. emitted' \in [Clusters -> [Points -> {0, 1}]]
    <3>1. ASSUME NEW j \in Clusters, NEW p \in Points
          PROVE  emitted[j][p] + (IF p \in t.first..t.last
                                    /\ (IF p \in t.first..t.last THEN found[p] ELSE clusters[p]) = j
                                  THEN 1 ELSE 0) \in {0, 1}
      BY <2>4
    <3> QED BY <2>2, <3>1
  <2>6. tasks' \subseteq [first : Points, last : Points]
    BY <2>1 DEF TypeOK
  <2> QED BY <2>1, <2>3, <2>5, <2>6 DEF TypeOK
<1> QED BY <1>1, <1>2

LEMMA TypeReduce == ASSUME TypeOK, NEW j \in Clusters, kmeans_reduce(j) PROVE TypeOK'
<1>1. /\ Emitted(j)
      /\ UNCHANGED <<data, first_run, phase, turn, tasks, emitted, unfilled>>
  BY DEF kmeans_reduce
<1>2. PICK b \in Blocks :
         /\ heap' = heap \cup {InBlock(b)}
         /\ results' = results \cup {[key |-> j, at |-> InBlock(b), val |-> Mean(emitted[j])]}
  BY DEF kmeans_reduce
<1>3. InBlock(b) \in Addresses /\ Mean(emitted[j]) \in Vectors
  BY <1>1, MeanInGrid DEF Addresses
<1>4. results' \subseteq [key : Clusters, at : Addresses, val : Vectors] /\ heap' \subseteq Addresses
  <2>1. [key |-> j, at |-> InBlock(b), val |-> Mean(emitted[j])]
           \in [key : Clusters, at : Addresses, val : Vectors]
    BY <1>3
  <2> QED BY <1>2, <1>3, <2>1 DEF TypeOK
<1> QED BY <1>1, <1>4 DEF TypeOK, data

LEMMA TypeUpdate == ASSUME TypeOK, Update PROVE TypeOK'
<1>1. CASE Undefined
  BY <1>1, TypePlace
<1>2. CASE ~Undefined
  <2>1. PICK r \in results : Copy(r)
    BY <1>2 DEF Update
  <2>2. r.key \in Clusters /\ r.at \in Addresses /\ r.val \in Vectors
    BY DEF TypeOK
  <2>3. means' = [means EXCEPT ![r.key] = [at |-> r.at, val |-> r.val]]
    BY <2>1 DEF Copy
  <2>4. means' \in [Clusters -> [at : Addresses, val : Vectors]]
    BY <2>2, <2>3 DEF TypeOK
  <2>5. heap' \subseteq Addresses /\ results' \subseteq [key : Clusters, at : Addresses, val : Vectors]
    BY <2>1 DEF Copy, TypeOK
  <2> QED BY <2>1, <2>4, <2>5 DEF Copy, TypeOK
<1> QED BY <1>1, <1>2

\* The variables of kmeans keep their types.  That means are points of the grid again is a
\* fact about sums, and needs that reduce is not called for an empty cluster; that no
\* point is emitted twice needs that tasks do not overlap.
THEOREM TypeCorrect == Spec => []TypeOK
<1>1. SInv /\ TypeOK /\ [Next]_vars => TypeOK'
  <2> SUFFICES ASSUME SInv, TypeOK, [Next]_vars PROVE TypeOK'
    OBVIOUS
  <2>1. CASE Program
    <3>1. CASE \E t \in tasks : kmeans_map(t)
      BY <3>1, TypeMap
    <3>2. CASE \E j \in Clusters : kmeans_reduce(j)
      BY <3>2, TypeReduce
    <3> QED BY <2>1, <3>1, <3>2, TypePlace, TypeSplit, TypeUpdate DEF Program
  <2>2. CASE Stopped \/ UNCHANGED vars
    BY <2>2, TypePlace DEF Stopped
  <2> QED BY <2>1, <2>2 DEF Next
<1> QED BY <1>1, TypeInit, SInvInit, SInvNext, PTL DEF Spec
=============================================================================
