------------------------------- MODULE Stores -------------------------------
(***************************************************************************)
(* Server processes that share disks and buckets: each configures itself,  *)
(* ingests and persists risk, one call at a time; calls of different       *)
(* processes interleave at every file they open, and a process may die and *)
(* be started again with another environment.                              *)
(***************************************************************************)
EXTENDS RiskStore, Ingest

CONSTANTS
  MaxCalls,  \* bound on the calls of a behaviour
  MaxDeaths  \* bound on the deaths

VARIABLES calls, deaths
countVars == <<calls, deaths>>
vars == <<configVars, storeVars, ingestVars, countVars>>

ASSUME StoresAssumption == Ingesters = Processes

Init ==
  /\ ConfigInit /\ StoreInit /\ IngestInit
  /\ calls = 0 /\ deaths = 0

Free(p) == writing[p] = NoWrite /\ ingest[p] = Rest
Call(p) == Free(p) /\ calls < MaxCalls /\ calls' = calls + 1
             /\ UNCHANGED deaths
Continue == UNCHANGED countVars

\* The ingestion tools default to the configured local root, also when the
\* store is a bucket.
IngestTool(p, part) ==
  /\ part.root = LocalRoot(p)
  /\ part.name = Min(Names \ named)  \* any fresh name: which does not matter
  /\ OpenPartition(p, part)

Next ==
  \E p \in Processes :
    \/ /\ Call(p)
       /\ \/ /\ \E change \in Changes, clear \in BOOLEAN :
                  StoreConfigure(p, change, clear)
             /\ UNCHANGED <<storeVars, ingestVars>>
          \/ /\ \E caller \in Callers, batch \in Batches :
                  WriteRiskStore(p, caller, batch)
             /\ UNCHANGED <<configVars, ingestVars>>
          \/ /\ \E part \in Partitions : IngestTool(p, part)
             /\ UNCHANGED <<configVars, storeVars>>
    \/ StoreStep(p) /\ Continue /\ UNCHANGED <<configVars, ingestVars>>
    \/ IngestStep(p) /\ Continue /\ UNCHANGED <<configVars, storeVars>>
    \/ /\ ~Free(p) /\ deaths < MaxDeaths
       /\ StoreDie(p) /\ Die(p) /\ Start(p)
       /\ deaths' = deaths + 1 /\ UNCHANGED calls

Spec == Init /\ [][Next]_vars
-----------------------------------------------------------------------------
TypeOK ==
  /\ IngestTypeOK
  /\ \A p \in Processes :
       GetStorageConfig(p).store \in AllowedStores
         /\ GetStorageConfig(p).hive_partitioning \in Booleans \cup {""}
  /\ \A t \in DOMAIN tables : tables[t].batch \in Batches

\* A refused store_configure changes nothing, except that a refused flag
\* still clears the overrides when that was asked for.
RefusalIsAtomic ==
  [][\A p \in Processes :
       overrides'[p] \in {overrides[p], NoOverride}
         \/ \E change \in Changes :
              /\ ~BadStore(change) /\ ~BadHive(change)
              /\ overrides'[p] \in {Over(change, overrides[p]),
                                    Over(change, NoOverride)}]_vars
=============================================================================
