---------------------------- MODULE StoreConfig ----------------------------
(***************************************************************************)
(* The storage configuration of a server process (storage.py) and what it  *)
(* resolves to (olap.py): the environment, memoised at first use, under    *)
(* the overrides store_configure keeps in the process.  Paths are places,  *)
(* globs are the three layouts the code tells apart:                       *)
(*   "flat"       risk_wide*.parquet in the root                           *)
(*   "directory"  one level of files under the table's directory           *)
(*   "nested"     files under directories of the table's directory         *)
(***************************************************************************)
EXTENDS Integers, Sequences, FiniteSets, TLC, SequencesExt, FiniteSetsExt

CONSTANTS
  Processes,    \* server processes, sharing disks and buckets
  Environments, \* what a process may be started with
  Changes       \* the changes store_configure may be asked for

VARIABLES
  environment,  \* the environment of each process
  overrides     \* the overrides of each process: field |-> value
configVars == <<environment, overrides>>

AllowedStores == {"local", "s3", "gcs", "auto"}
DefaultRoot == "/tmp/fina-risk-olap"
Booleans == {"true", "false"}
Globs == {"", "flat", "directory", "nested"}
NoOverride == <<>>

\* The environment is one that can be read: with an unknown store or flag in
\* it _build_storage_config raises, and the process answers no storage call.
ASSUME EnvironmentAssumption ==
  /\ \A env \in Environments : /\ env.store \in AllowedStores
                               /\ env.hive \in Booleans \cup {""}
                               /\ env.glob \in Globs
  /\ \A change \in Changes :
       "partition_glob" \in DOMAIN change => change.partition_glob \in Globs

\* The fields of one function over those of another, and a function with one
\* more value.
Over(change, kept) ==
  [f \in DOMAIN change \cup DOMAIN kept |->
     IF f \in DOMAIN change THEN change[f] ELSE kept[f]]
With(fun, key, value) ==
  [k \in DOMAIN fun \cup {key} |-> IF k = key THEN value ELSE fun[k]]

\* What _build_storage_config takes from the environment: the first alias
\* that is set; the GCS bucket is the last of the bucket's.
BuildConfig(env) ==
  [store |-> env.store, root |-> env.root,
   bucket |-> IF env.bucket # "" THEN env.bucket ELSE env.gcsBucket,
   default_path |-> env.path, partition_glob |-> env.glob,
   hive_partitioning |-> env.hive]

GetStorageConfig(p) ==
  LET change == overrides[p]
      config == BuildConfig(environment[p])
  IN IF change = NoOverride THEN config ELSE Over(change, config)

EffectiveBucket(p) ==
  LET cfg == GetStorageConfig(p)
  IN IF cfg.bucket # "" THEN cfg.bucket
     ELSE IF cfg.store = "gcs" THEN environment[p].gcsBucket ELSE ""
IsObjectStore(p) ==
  LET store == GetStorageConfig(p).store
  IN store \in {"s3", "gcs"} \/ (store = "auto" /\ EffectiveBucket(p) # "")
\* With interoperability credentials a GCS bucket is read as s3://.
ObjectScheme(p) ==
  IF GetStorageConfig(p).store = "gcs" /\ ~environment[p].s3Key
    THEN "gs://" ELSE "s3://"

\* A local root, or a bucket with a prefix.
Local(root) == [object |-> FALSE, place |-> <<root>>]
LocalRoot(p) == IF GetStorageConfig(p).root = "" THEN DefaultRoot
                ELSE GetStorageConfig(p).root
BaseLocation(p) ==
  IF IsObjectStore(p)
    THEN [object |-> TRUE,
          place |-> <<ObjectScheme(p), EffectiveBucket(p),
                      GetStorageConfig(p).default_path>>]
    ELSE Local(LocalRoot(p))
\* An explicit root is local whatever the configuration says.
LocationFor(p, root) == IF root # "" THEN Local(root) ELSE BaseLocation(p)

Layout(p) == LET glob == GetStorageConfig(p).partition_glob
             IN IF glob = "" THEN "flat" ELSE glob
EffectiveHive(p, object) ==
  LET hive == GetStorageConfig(p).hive_partitioning
  IN IF hive = "" THEN object ELSE hive = "true"

\* Where a table is read from and written to.  A glob with a slash asks for
\* a directory, and the writer puts one part into the table's own.
ResolveDatasetSource(p, table, root) ==
  [at |-> LocationFor(p, root), table |-> table, layout |-> Layout(p),
   hive |-> EffectiveHive(p, LocationFor(p, root).object)]
\* Mutant: the glob's layout is not looked at.
WriteTargetFlat(p, table, root) ==
  [at |-> LocationFor(p, root), table |-> table, file |-> "table"]
WriteTarget(p, table, root) ==
  [at |-> LocationFor(p, root), table |-> table,
   file |-> IF Layout(p) = "flat" THEN "table" ELSE "part"]
Matches(source, target) ==
  /\ source.at = target.at
  /\ source.table = target.table
  /\ source.layout = (IF target.file = "table" THEN "flat" ELSE "directory")

ConfigInit ==
  /\ environment \in [Processes -> Environments]
  /\ overrides = [p \in Processes |-> NoOverride]

\* Mutant: any store is taken.
BadStoreNever(change) == FALSE
\* store_configure: an unknown store is refused first; a flag that is not a
\* boolean only after the overrides were cleared.
BadStore(change) ==
  "store" \in DOMAIN change /\ change.store \notin AllowedStores
BadHive(change) == /\ "hive_partitioning" \in DOMAIN change
                   /\ change.hive_partitioning \notin Booleans
\* Mutant: the fields are applied one by one, up to the one refused.
SetStorageOverrideInOrder(kept, change) ==
  Over([f \in DOMAIN change \ {"hive_partitioning"} |-> change[f]], kept)
\* set_storage_override normalises every field before it applies any.
SetStorageOverride(kept, change) ==
  IF BadHive(change) THEN kept ELSE Over(change, kept)
StoreConfigure(p, change, clear) ==
  LET kept == IF clear THEN NoOverride ELSE overrides[p]
  IN /\ overrides' = [overrides EXCEPT ![p] =
                        IF BadStore(change) THEN @
                        ELSE SetStorageOverride(kept, change)]
     /\ UNCHANGED environment

\* A new process has the environment it is started with and no overrides.
Start(p) ==
  /\ \E env \in Environments : environment' = [environment EXCEPT ![p] = env]
  /\ overrides' = [overrides EXCEPT ![p] = NoOverride]
=============================================================================
