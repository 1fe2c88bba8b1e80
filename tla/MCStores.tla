------------------------------ MODULE MCStores ------------------------------
(***************************************************************************)
(* Two processes, a local disk with two roots and a bucket.                *)
(***************************************************************************)
EXTENDS Stores

Plain == [store |-> "auto", root |-> "", bucket |-> "", gcsBucket |-> "",
          path |-> "", glob |-> "", hive |-> "", s3Key |-> FALSE]
MCEnvironments ==
  {Plain, [Plain EXCEPT !.root = "/data", !.glob = "directory"],
   [Plain EXCEPT !.gcsBucket = "lake", !.path = "risk", !.s3Key = TRUE]}
MCChanges ==
  {[root |-> "/data"], [store |-> "gcs", hive_partitioning |-> "perhaps"],
   [store |-> "tape"], [partition_glob |-> "directory"]}
MCRoots == {DefaultRoot, "/data"}
Symmetry == Permutations(Processes)
=============================================================================
