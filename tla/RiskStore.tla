----------------------------- MODULE RiskStore -----------------------------
(***************************************************************************)
(* The risk store (olap.py): write_risk_store replaces risk_wide, then     *)
(* risk_long, then the manifest, each in place and without a lock, where   *)
(* the configuration of the writing process says.  Its callers are the     *)
(* store tool, the P&L pipeline, whose root defaults to a fixed directory, *)
(* and the scheduler's batch, which has no long rows.                      *)
(***************************************************************************)
EXTENDS StoreConfig

CONSTANT Batches  \* what a call may persist: numbered batches

VARIABLES
  tables,   \* target |-> the batch in the file, and whether it is unreadable
  listing,  \* location |-> the store's manifest, likewise
  writing,  \* per process: the batch in progress, or NoWrite
  mixed     \* history: locations on which writers overlapped, or died
storeVars == <<tables, listing, writing, mixed>>

NoWrite == [step |-> "none"]
Tables == {"risk_wide", "risk_long"}

StoreInit ==
  /\ tables = <<>>
  /\ listing = <<>>
  /\ writing = [p \in Processes |-> NoWrite]
  /\ mixed = {}

\* The callers: which tables have rows, and which root is asked for.
Callers ==
  {[rows |-> Tables, root |-> root] : root \in {"", "/data"}}
    \cup {[rows |-> Tables, root |-> DefaultRoot],
          [rows |-> {"risk_wide"}, root |-> ""]}
Used == {writing[p].batch : p \in {q \in Processes : writing[q] # NoWrite}}
          \cup {tables[t].batch : t \in DOMAIN tables}
          \cup {listing[l].batch : l \in DOMAIN listing}

\* write_risk_store with a new batch (the first number not in use: only its
\* being new matters).
WriteRiskStore(p, caller, batch) ==
  LET at == LocationFor(p, caller.root)
  IN /\ writing[p] = NoWrite
     /\ Batches \ Used # {} /\ batch = Min(Batches \ Used)
     /\ writing' = [writing EXCEPT ![p] =
          [step |-> "next", batch |-> batch, at |-> at,
           root |-> caller.root, rows |-> caller.rows, left |-> caller.rows]]
     /\ mixed' = IF \E q \in Processes :
                      writing[q] # NoWrite /\ writing[q].at = at
                 THEN mixed \cup {at} ELSE mixed
     /\ UNCHANGED <<tables, listing>>

\* The next table with rows; risk_wide goes first.
NextTable(p) == IF "risk_wide" \in writing[p].left THEN "risk_wide"
                ELSE "risk_long"
TargetOf(p) == WriteTarget(p, NextTable(p), writing[p].root)

\* A local file is truncated and then written; an object is put whole.
OpenTable(p) ==
  /\ writing[p].step = "next"
  /\ writing[p].left # {}
  /\ ~writing[p].at.object
  /\ tables' = With(tables, TargetOf(p),
                    [batch |-> writing[p].batch, torn |-> TRUE])
  /\ writing' = [writing EXCEPT ![p].step = "open"]
  /\ UNCHANGED <<listing, mixed>>

\* Two writers of one file can leave a mixture of both.
Written(p) ==
  [batch |-> writing[p].batch,
   torn |-> TargetOf(p) \in DOMAIN tables
              /\ ~writing[p].at.object
              /\ tables[TargetOf(p)].batch # writing[p].batch]
FinishTable(p) ==
  /\ \/ writing[p].step = "open"
     \/ writing[p].step = "next" /\ writing[p].at.object
  /\ writing[p].left # {}
  /\ \E file \in {Written(p), [Written(p) EXCEPT !.torn = FALSE]} :
       tables' = With(tables, TargetOf(p), file)
  /\ writing' = [writing EXCEPT ![p].step = "next",
                                ![p].left = @ \ {NextTable(p)}]
  /\ UNCHANGED <<listing, mixed>>

\* Where the manifest goes: beside the tables.
ManifestPlace(p) == LocationFor(p, writing[p].root)
\* Mutant: both tables are listed, with or without rows.
ManifestOfBoth(p, torn) ==
  [batch |-> writing[p].batch, rows |-> writing[p].rows, torn |-> torn,
   targets |-> {WriteTarget(p, t, writing[p].root) : t \in Tables}]
\* The manifest lists the tables the batch had rows for.
Manifest(p, torn) ==
  [batch |-> writing[p].batch, rows |-> writing[p].rows, torn |-> torn,
   targets |-> {WriteTarget(p, t, writing[p].root) : t \in writing[p].rows}]

\* The manifest of a local root is rewritten in place; an object store has
\* none.
OpenListing(p) ==
  /\ writing[p].step = "next" /\ writing[p].left = {}
  /\ ~ManifestPlace(p).object
  /\ listing' = With(listing, ManifestPlace(p), Manifest(p, TRUE))
  /\ writing' = [writing EXCEPT ![p].step = "listing"]
  /\ UNCHANGED <<tables, mixed>>
FinishListing(p) ==
  /\ writing[p].step = "listing"
  /\ \E torn \in BOOLEAN :
       /\ torn => listing[ManifestPlace(p)].batch # writing[p].batch
       /\ listing' = With(listing, ManifestPlace(p), Manifest(p, torn))
  /\ writing' = [writing EXCEPT ![p] = NoWrite]
  /\ UNCHANGED <<tables, mixed>>
PutDone(p) ==
  /\ writing[p].step = "next" /\ writing[p].left = {}
  /\ ManifestPlace(p).object
  /\ writing' = [writing EXCEPT ![p] = NoWrite]
  /\ UNCHANGED <<tables, listing, mixed>>

StoreStep(p) ==
  \/ OpenTable(p) \/ FinishTable(p)
  \/ OpenListing(p) \/ FinishListing(p) \/ PutDone(p)

\* The process dies: what it had open stays as it is.
StoreDie(p) ==
  /\ writing' = [writing EXCEPT ![p] = NoWrite]
  /\ mixed' = IF writing[p] # NoWrite THEN mixed \cup {writing[p].at}
              ELSE mixed
  /\ UNCHANGED <<tables, listing>>

\* query_ssrm's source: the files it would read, and whether the query is
\* answered: there is one, and none of them is unreadable.
FilesRead(p, table, root) ==
  {t \in DOMAIN tables : Matches(ResolveDatasetSource(p, table, root), t)}
QueryAnswered(p, table, root) ==
  /\ FilesRead(p, table, root) # {}
  /\ \A t \in FilesRead(p, table, root) : ~tables[t].torn
-----------------------------------------------------------------------------
Quiet(at) == \A p \in Processes : writing[p] = NoWrite \/ writing[p].at # at

\* With no overlap of writers and no death on a local root, its manifest
\* between writes describes the files: every table it counts rows of is
\* there, readable and of the batch it names.
ManifestDescribesStore ==
  \A at \in DOMAIN listing :
    at \notin mixed /\ Quiet(at) =>
      /\ ~listing[at].torn
      /\ \A t \in listing[at].targets :
           t \in DOMAIN tables
             /\ tables[t] = [batch |-> listing[at].batch, torn |-> FALSE]

\* A process finds what was written to the location it is configured for,
\* by whichever process: when the last batch was written in the layout the
\* reader's glob names, its query reads that batch's file and no other.
ReadersFindTheBatch ==
  \A p \in Processes :
    LET at == LocationFor(p, "")
    IN (/\ at \in DOMAIN listing /\ at \notin mixed /\ Quiet(at)
        /\ listing[at].targets
             \cap {WriteTarget(p, "risk_wide", "")} # {}
        /\ Layout(p) # "nested")
         => /\ QueryAnswered(p, "risk_wide", "")
            /\ {tables[t].batch : t \in FilesRead(p, "risk_wide", "")}
                 = {listing[at].batch}
=============================================================================
