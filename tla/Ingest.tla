------------------------------- MODULE Ingest -------------------------------
(***************************************************************************)
(* Ingestion (pipeline.py): a call writes its records as a partition of    *)
(* their dataset under a fresh name, reads the root's manifest, adds the   *)
(* partition and rewrites the manifest in place.  Processes share roots    *)
(* and take no lock; one may die between any two steps.                    *)
(***************************************************************************)
EXTENDS Integers, FiniteSets, FiniteSetsExt

CONSTANTS
  Ingesters,   \* the processes that ingest
  Roots,       \* local roots
  Datasets,    \* instruments and market
  Names,       \* fresh names (time and uuid) of partitions
  Sizes        \* how many records a call may bring

ASSUME SizesAssumption == Sizes \subseteq Nat

Partitions ==
  [name : Names, root : Roots, dataset : Datasets, rows : Sizes]

VARIABLES
  named,    \* names used
  whole,    \* partitions whose file is complete
  manifest, \* per root: the partitions and rows listed, and whether the file
            \* is unreadable (truncated, or two writers' texts mixed)
  ingest,   \* per process: its call, or Rest
  acked,    \* partitions an ingestion was answered for
  raced     \* history: roots on which manifest writers overlapped, or died
ingestVars == <<named, whole, manifest, ingest, acked, raced>>

Empty == [files |-> {}, rows |-> [d \in Datasets |-> 0], torn |-> FALSE]
Rest == [step |-> "rest"]
OnManifest(q, root) ==
  ingest[q].step \in {"listed", "opened"} /\ ingest[q].part.root = root

IngestInit ==
  /\ named = {}
  /\ whole = {}
  /\ manifest = [r \in Roots |-> Empty]
  /\ ingest = [q \in Ingesters |-> Rest]
  /\ acked = {}
  /\ raced = {}

\* Mutant: a process that dies takes its partition with it.
DieCleaning(q) ==
  /\ ingest' = [ingest EXCEPT ![q] = Rest]
  /\ whole' = IF ingest[q] = Rest THEN whole ELSE whole \ {ingest[q].part}
  /\ UNCHANGED <<named, manifest, acked, raced>>
\* A process dies: its files stay as they are.
Die(q) ==
  /\ ingest' = [ingest EXCEPT ![q] = Rest]
  /\ raced' = IF ingest[q].step = "opened"
              THEN raced \cup {ingest[q].part.root} ELSE raced
  /\ UNCHANGED <<named, whole, manifest, acked>>

\* ingest_instruments and ingest_market_data, up to the open partition file.
\* A call without records writes nothing.
OpenPartition(q, part) ==
  /\ ingest[q] = Rest
  /\ part.name \notin named
  /\ named' = named \cup {part.name}
  /\ ingest' = [ingest EXCEPT ![q] = [step |-> "writing", part |-> part]]
  /\ UNCHANGED <<whole, manifest, acked, raced>>

FinishPartition(q) ==
  /\ ingest[q].step = "writing"
  /\ whole' = whole \cup {ingest[q].part}
  /\ ingest' = [ingest EXCEPT ![q].step = "written"]
  /\ UNCHANGED <<named, manifest, acked, raced>>

\* Mutant: the rows replace those counted before.
AddedCount(seen, part) ==
  [files |-> seen.files \cup {part},
   rows |-> [seen.rows EXCEPT ![part.dataset] = part.rows], torn |-> FALSE]
\* Mutant: the entry is started anew.
AddedAlone(seen, part) ==
  [files |-> {part},
   rows |-> [Empty.rows EXCEPT ![part.dataset] = part.rows], torn |-> FALSE]
\* The manifest with a partition appended.
Added(seen, part) ==
  [files |-> seen.files \cup {part},
   rows |-> [seen.rows EXCEPT ![part.dataset] = @ + part.rows],
   torn |-> FALSE]
\* Mutant: the manifest is updated while the partition is still written.
ReadManifestEarly(q) ==
  /\ ingest[q].step = "writing"
  /\ ~manifest[ingest[q].part.root].torn
  /\ ingest' = [ingest EXCEPT ![q] =
       [step |-> "listed", part |-> ingest[q].part,
        text |-> Added(manifest[ingest[q].part.root], ingest[q].part)]]
  /\ UNCHANGED <<named, whole, manifest, acked, raced>>
\* The manifest is read and the partition added in memory.  One that cannot
\* be parsed raises: the partition stays, unlisted and unacknowledged.
ReadManifest(q) ==
  /\ ingest[q].step = "written"
  /\ LET part == ingest[q].part
         seen == manifest[part.root]
     IN IF seen.torn
          THEN ingest' = [ingest EXCEPT ![q] = Rest] /\ UNCHANGED raced
          ELSE /\ ingest' = [ingest EXCEPT ![q] =
                    [step |-> "listed", part |-> part,
                     text |-> Added(seen, part)]]
               /\ raced' = IF \E r \in Ingesters : OnManifest(r, part.root)
                           THEN raced \cup {part.root} ELSE raced
  /\ UNCHANGED <<named, whole, manifest, acked>>

\* write_text truncates the manifest and then writes it.
OpenManifest(q) ==
  /\ ingest[q].step = "listed"
  /\ manifest' = [manifest EXCEPT ![ingest[q].part.root].torn = TRUE]
  /\ ingest' = [ingest EXCEPT ![q].step = "opened"]
  /\ UNCHANGED <<named, whole, acked, raced>>

\* A text written over another's that came after the truncation can leave the
\* tail of the longer one.
FinishManifest(q) ==
  LET part == ingest[q].part
      text == ingest[q].text
  IN /\ ingest[q].step = "opened"
     /\ \/ manifest' = [manifest EXCEPT ![part.root] = text]
        \/ /\ ~manifest[part.root].torn
           /\ manifest' = [manifest EXCEPT ![part.root] =
                             [text EXCEPT !.torn = TRUE]]
     /\ acked' = acked \cup {part}
     /\ ingest' = [ingest EXCEPT ![q] = Rest]
     /\ UNCHANGED <<named, whole, raced>>

IngestStep(q) ==
  \/ FinishPartition(q) \/ ReadManifest(q) \/ OpenManifest(q)
  \/ FinishManifest(q)
IngestNext ==
  \E q \in Ingesters :
    \/ \E part \in Partitions : OpenPartition(q, part)
    \/ IngestStep(q)
    \/ ingest[q] # Rest /\ Die(q)
IngestSpec == IngestInit /\ [][IngestNext]_ingestVars
-----------------------------------------------------------------------------
Manifests == [files : SUBSET Partitions, rows : [Datasets -> Nat],
              torn : BOOLEAN]
Early == [step : {"writing", "written"}, part : Partitions]
Late == [step : {"listed", "opened"}, part : Partitions, text : Manifests]
IngestTypeOK ==
  /\ named \subseteq Names
  /\ whole \subseteq Partitions
  /\ manifest \in [Roots -> Manifests]
  /\ ingest \in [Ingesters -> {Rest} \cup Early \cup Late]
  /\ acked \subseteq Partitions
  /\ raced \subseteq Roots

\* A partition is listed only once its file is complete, and under its own
\* root, whoever else rewrites the manifest and whoever dies.
ListedAreWhole ==
  \A r \in Roots :
    /\ manifest[r].files \subseteq whole
    /\ \A part \in manifest[r].files : part.root = r

\* The rows a manifest counts are those of the partitions it lists, also
\* when an overlapping call lost another's entry.
RowsOf(files, dataset) ==
  SumFunctionOnSet([part \in Partitions |-> part.rows],
                   {part \in files : part.dataset = dataset})
RowsMatchFiles ==
  \A r \in Roots, d \in Datasets :
    manifest[r].rows[d] = RowsOf(manifest[r].files, d)

\* Without overlap and without a death in the middle of the rewrite, every
\* acknowledged partition is listed, and the manifest is readable as soon as
\* no call has it open.
NothingLostAlone ==
  \A r \in Roots \ raced :
    /\ \A part \in acked : part.root = r => part \in manifest[r].files
    /\ manifest[r].torn =>
         \E q \in Ingesters : OnManifest(q, r) /\ ingest[q].step = "opened"

\* The complete partitions are an append-only log, and an acknowledged one
\* stays in it.
Log == INSTANCE AppendLog WITH log <- whole
LogRefined == Log!LogSpec
=============================================================================
