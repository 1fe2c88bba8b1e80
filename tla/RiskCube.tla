------------------------------ MODULE RiskCube ------------------------------
(***************************************************************************)
(* The RiskCube metadata lifecycle: src/fina_risk/riskcube.py, the report  *)
(* materialisation it drives in riskcube_reports.py, and the two stores    *)
(* they write - the metadata table (SQLite file or PostgreSQL, chosen by   *)
(* _use_postgres) and the report directory (Parquet partitions and         *)
(* index.json).                                                            *)
(*                                                                         *)
(* A client is one call in progress: server workers, scheduler processes   *)
(* and scripts all share the table and the directory.  Each action is the  *)
(* code between two points where another client can be seen: a statement   *)
(* that takes or releases the database write lock, or a file write.  A     *)
(* file is truncated when it is opened and holds its content only when the *)
(* write ends.                                                             *)
(***************************************************************************)
EXTENDS Naturals, FiniteSetsExt

CONSTANTS
  Clients,          \* concurrent callers
  Requests,         \* identities of calls, each made at most once
  Slices,           \* slice keys (and keys of slice/scenario definitions)
  Dirs,             \* directory names
  SafeName,         \* riskcube_reports._safe: slice key -> directory name
  DefinitionKinds,  \* "slices" and "scenarios", which share their code
  Backends,         \* deployments considered: subset of {"sqlite","postgres"}
  LegacyRows,       \* rows found in the retired <kind>.json files
  Legacy,           \* the req of a legacy row
  NoClient, NoJob, Missing, Torn,
  MaxEpoch          \* bound: the last wall-clock second considered

Kinds == DefinitionKinds \cup {"reports"}
Epochs == 0 .. MaxEpoch
Partitions == Dirs \X Epochs

Row == [kind : Kinds, slice : Slices, req : Requests \cup {Legacy},
        version : Nat, epoch : Epochs, ready : BOOLEAN]
Entry == [slice : Slices, epoch : Epochs, req : Requests]
Job == [op : {"create", "load"}, req : Requests, kind : Kinds, slice : Slices,
        version : Nat, epoch : Epochs, ready : BOOLEAN, entries : SUBSET Entry]

VARIABLES
  backend,    \* which metadata store this deployment uses
  clock,      \* int(time.time()) of the host whose call looks at it next
  skewed,     \* history: that clock has shown an earlier second than before
  rows,       \* committed rows of riskcube_metadata
  lock,       \* holder of the write transaction (advisory lock on Postgres)
  pc,         \* where each client is
  job,        \* the call each client is making
  inbox,      \* requests not yet made
  parquet,    \* content of each partition: the request that wrote it
  index,      \* entries of reports/index.json; a torn file reads as {}
  opened,     \* history: requests that ever opened each partition's file
  indexLost   \* history: some call died while index.json was truncated

vars == <<backend, clock, skewed, rows, lock, pc, job, inbox, parquet, index, opened,
          indexLost>>
files == <<parquet, index, opened, indexLost>>

\* PRIMARY KEY (kind, record_key); a report's key is name-epoch-vN, the key
\* of a slice or scenario definition is its slice or scenario key.
SameKey(r, s) ==
  /\ r.kind = s.kind
  /\ r.slice = s.slice
  /\ r.kind = "reports" => r.epoch = s.epoch /\ r.version = s.version

RowsOf(kind) == {r \in rows : r.kind = kind}
LegacyOf(kind) == {r \in LegacyRows : r.kind = kind}
Reports == RowsOf("reports")

\* Mutant: MAX(version_id) + 1 without COALESCE is NULL on an empty table.
NextVersionNull ==
  IF Reports = {} THEN Missing ELSE Max({r.version : r \in Reports}) + 1

\* Mutant: COUNT(*) + 1.
NextVersionByCount == Cardinality(Reports) + 1

\* SELECT COALESCE(MAX(version_id), 0) + 1
NextVersion == Max({0} \cup {r.version : r \in Reports}) + 1

\* Mutant: the version=... level of the directory is dropped.
PartitionBySlice(slice, epoch) == <<SafeName[slice], 0>>

\* The directory of one report: slice=<safe name>/version=<created_at>.
Partition(slice, epoch) == <<SafeName[slice], epoch>>

\* Where a call is once its _migrate_json is done.
AfterMigration(j) ==
  IF j.op = "load" THEN "select"
  ELSE IF j.kind = "reports" THEN "begin" ELSE "define"

\* Program points inside the write transaction of create_report.
Transaction == {"allocate", "calculate", "parquet", "readIndex", "openIndex",
                "writeIndex", "insert"}
Points == Transaction \cup
            {"idle", "schema", "check", "migrate", "begin", "define", "select"}

LegacyAssumption ==
  /\ LegacyRows \subseteq Row
  /\ \A r \in LegacyRows : r.req = Legacy /\ ~r.ready /\ r.version > 0
  /\ \A r, s \in LegacyRows : SameKey(r, s) => r = s
  /\ \A r, s \in LegacyOf("reports") : r.version = s.version => r = s
  /\ LegacyOf("reports") = {}
       \/ \E top \in LegacyOf("reports") :
            \A r \in LegacyOf("reports") : r.version <= top.version

ASSUME ConstantAssumption ==
  /\ MaxEpoch \in Nat
  /\ SafeName \in [Slices -> Dirs]
  /\ Backends \subseteq {"sqlite", "postgres"}
  /\ "reports" \notin DefinitionKinds
  /\ Legacy \notin Requests
  /\ NoClient \notin Clients
  /\ NoJob \notin Job
  /\ {Missing, Torn} \cap Requests = {}
  /\ LegacyAssumption
-----------------------------------------------------------------------------
Init ==
  /\ backend \in Backends
  /\ clock \in Epochs
  /\ skewed = FALSE
  /\ rows = {}
  /\ lock = NoClient
  /\ pc = [c \in Clients |-> "idle"]
  /\ job = [c \in Clients |-> NoJob]
  /\ inbox = Requests
  /\ parquet = [p \in Partitions |-> Missing]
  /\ index = {}
  /\ opened = [p \in Partitions |-> {}]
  /\ indexLost = FALSE

Goto(c, point) == pc' = [pc EXCEPT ![c] = point]

\* The call returns or raises: the client is idle and keeps nothing.
Leave(c) ==
  /\ Goto(c, "idle")
  /\ job' = [job EXCEPT ![c] = NoJob]

\* A validated call arrives; create_slice and create_scenario read their
\* created_at first.  Calls refused before they touch the store (missing key,
\* unknown kind, group mismatch) change nothing.
Submit(c) ==
  /\ pc[c] = "idle"
  /\ \E q \in inbox, k \in Kinds, s \in Slices, op \in {"create", "load"} :
       /\ inbox' = inbox \ {q}
       /\ job' = [job EXCEPT ![c] =
            [op |-> op, req |-> q, kind |-> k, slice |-> s, version |-> 0,
             epoch |-> clock, ready |-> FALSE, entries |-> {}]]
  /\ Goto(c, IF backend = "sqlite" THEN "check" ELSE "schema")
  /\ UNCHANGED <<backend, clock, skewed, rows, lock, files>>

\* _ensure_postgres_schema opens the transaction of every call.  Its CREATE
\* INDEX IF NOT EXISTS takes the table's SHARE lock, which others may share,
\* although the index is there.
EnsureSchema(c) ==
  /\ pc[c] = "schema"
  /\ Goto(c, AfterMigration(job[c]))
  /\ UNCHANGED <<backend, clock, skewed, rows, lock, job, inbox, files>>

\* The call holds that lock until its transaction ends.
Sharing(c) ==
  backend = "postgres" /\ pc[c] \in Transaction \cup {"begin", "define", "select"}

\* PostgreSQL makes an INSERT wait for the SHARE locks of others, and the
\* advisory lock wait for its holder.
WaitsFor(c, d) ==
  /\ backend = "postgres"
  /\ d # c
  /\ \/ pc[c] \in {"insert", "define"} /\ Sharing(d)
     \/ pc[c] = "begin" /\ lock = d

Unhindered(c) == \A d \in Clients : ~WaitsFor(c, d)

\* Mutant: the migration is forgotten on the create path.
MigrateCheckSkipped(c) ==
  /\ pc[c] = "check"
  /\ Goto(c, IF job[c].op = "load" THEN "migrate" ELSE AfterMigration(job[c]))
  /\ UNCHANGED <<backend, clock, skewed, rows, lock, job, inbox, files>>

\* _migrate_json looks for any row of the kind before it reads the file.
MigrateCheck(c) ==
  /\ pc[c] = "check"
  /\ LET wanted == RowsOf(job[c].kind) = {} /\ LegacyOf(job[c].kind) # {}
     IN Goto(c, IF wanted THEN "migrate" ELSE AfterMigration(job[c]))
  /\ UNCHANGED <<backend, clock, skewed, rows, lock, job, inbox, files>>

\* INSERT OR IGNORE of every legacy record, committed as one transaction.
Migrate(c) ==
  /\ pc[c] = "migrate"
  /\ lock = NoClient
  /\ rows' = rows \cup {r \in LegacyOf(job[c].kind) :
                           \A s \in rows : ~SameKey(s, r)}
  /\ Goto(c, AfterMigration(job[c]))
  /\ UNCHANGED <<backend, clock, skewed, lock, job, inbox, files>>

\* _load reads the rows of the kind and ends its transaction.
Select(c) ==
  /\ pc[c] = "select"
  /\ Leave(c)
  /\ UNCHANGED <<backend, clock, skewed, rows, lock, inbox, files>>

\* Mutant: INSERT OR REPLACE.
DefineReplacing(c) ==
  /\ pc[c] = "define"
  /\ backend = "sqlite" => lock = NoClient
  /\ Unhindered(c)
  /\ LET row == [kind |-> job[c].kind, slice |-> job[c].slice,
                 req |-> job[c].req, version |-> 0, epoch |-> job[c].epoch,
                 ready |-> FALSE]
     IN rows' = {s \in rows : ~SameKey(s, row)} \cup {row}
  /\ Leave(c)
  /\ UNCHANGED <<backend, clock, skewed, lock, inbox, files>>

\* A slice or scenario definition: INSERT, refused when the key exists.
Define(c) ==
  /\ pc[c] = "define"
  /\ backend = "sqlite" => lock = NoClient
  /\ Unhindered(c)
  /\ LET row == [kind |-> job[c].kind, slice |-> job[c].slice,
                 req |-> job[c].req, version |-> 0, epoch |-> job[c].epoch,
                 ready |-> FALSE]
     IN rows' = IF \A s \in rows : ~SameKey(s, row) THEN rows \cup {row}
                                                      ELSE rows
  /\ Leave(c)
  /\ UNCHANGED <<backend, clock, skewed, lock, inbox, files>>

\* Mutant: a plain BEGIN takes no lock before the first write.
BeginDeferred(c) ==
  /\ pc[c] = "begin"
  /\ lock = NoClient
  /\ Goto(c, "allocate")
  /\ UNCHANGED <<backend, clock, skewed, rows, lock, job, inbox, files>>

\* BEGIN IMMEDIATE, or pg_advisory_xact_lock.
Begin(c) ==
  /\ pc[c] = "begin"
  /\ lock = NoClient
  /\ lock' = c
  /\ Goto(c, "allocate")
  /\ UNCHANGED <<backend, clock, skewed, rows, job, inbox, files>>

\* sqlite3.connect(timeout=30): a writer gives up while another holds the lock.
BusyTimeout(c) ==
  /\ backend = "sqlite"
  /\ lock # NoClient
  /\ pc[c] \in {"migrate", "begin", "define"}
  /\ Leave(c)
  /\ UNCHANGED <<backend, clock, skewed, rows, lock, inbox, files>>

\* Mutant: time.time() is read before the wait for the lock.
AllocateEarlyClock(c) ==
  /\ pc[c] = "allocate"
  /\ \E materialise \in BOOLEAN, e \in 0 .. clock :
       /\ job' = [job EXCEPT ![c].version = NextVersion, ![c].epoch = e,
                             ![c].ready = materialise]
       /\ Goto(c, IF materialise THEN "calculate" ELSE "insert")
  /\ UNCHANGED <<backend, clock, skewed, rows, lock, inbox, files>>

\* Mutant: the report is declared ready and its rows are left for later.
AllocateLazy(c) ==
  /\ pc[c] = "allocate"
  /\ \E materialise \in BOOLEAN :
       job' = [job EXCEPT ![c].version = NextVersion, ![c].epoch = clock,
                          ![c].ready = materialise]
  /\ Goto(c, "insert")
  /\ UNCHANGED <<backend, clock, skewed, rows, lock, inbox, files>>

\* The version id, created_at and record_key; with a list of requests the
\* report is materialised next, without one it is inserted as "requested".
Allocate(c) ==
  /\ pc[c] = "allocate"
  /\ \E materialise \in BOOLEAN :
       /\ job' = [job EXCEPT ![c].version = NextVersion, ![c].epoch = clock,
                             ![c].ready = materialise]
       /\ Goto(c, IF materialise THEN "calculate" ELSE "insert")
  /\ UNCHANGED <<backend, clock, skewed, rows, lock, inbox, files>>

Own(c) == Partition(job[c].slice, job[c].epoch)

\* trigger_report prices every request, then opens the partition's Parquet
\* file, truncating whatever it held.
OpenParquet(c) ==
  /\ pc[c] = "calculate"
  /\ parquet' = [parquet EXCEPT ![Own(c)] = Torn]
  /\ opened' = [opened EXCEPT ![Own(c)] = @ \cup {job[c].req}]
  /\ Goto(c, "parquet")
  /\ UNCHANGED <<backend, clock, skewed, rows, lock, job, inbox, index, indexLost>>

\* The Parquet file is complete; report.json, which nothing reads, follows.
FinishParquet(c) ==
  /\ pc[c] = "parquet"
  /\ parquet' = [parquet EXCEPT ![Own(c)] = job[c].req]
  /\ Goto(c, "readIndex")
  /\ UNCHANGED <<backend, clock, skewed, rows, lock, job, inbox, index, opened,
                 indexLost>>

\* Mutant: the replaced entries are chosen by slice alone.
NewIndexPerSlice(c) ==
  {e \in index : e.slice # job[c].slice}
    \cup {[slice |-> job[c].slice, epoch |-> job[c].epoch, req |-> job[c].req]}

\* The index without the entry this report replaces, plus its own.
NewIndex(c) ==
  {e \in index : ~ (e.slice = job[c].slice /\ e.epoch = job[c].epoch)}
    \cup {[slice |-> job[c].slice, epoch |-> job[c].epoch, req |-> job[c].req]}

\* _read_json(index.json) and the new list, still in memory.
ReadIndex(c) ==
  /\ pc[c] = "readIndex"
  /\ job' = [job EXCEPT ![c].entries = NewIndex(c)]
  /\ Goto(c, "openIndex")
  /\ UNCHANGED <<backend, clock, skewed, rows, lock, inbox, files>>

\* _write_json truncates index.json ...
OpenIndex(c) ==
  /\ pc[c] = "openIndex"
  /\ index' = {}
  /\ Goto(c, "writeIndex")
  /\ UNCHANGED <<backend, clock, skewed, rows, lock, job, inbox, parquet, opened,
                 indexLost>>

\* ... and fills it.
WriteIndex(c) ==
  /\ pc[c] = "writeIndex"
  /\ index' = job[c].entries
  /\ Goto(c, "insert")
  /\ UNCHANGED <<backend, clock, skewed, rows, lock, job, inbox, parquet, opened,
                 indexLost>>

\* INSERT and commit, which releases the lock.
Insert(c) ==
  /\ pc[c] = "insert"
  /\ Unhindered(c)
  /\ rows' = rows \cup {[kind |-> "reports", slice |-> job[c].slice,
                         req |-> job[c].req, version |-> job[c].version,
                         epoch |-> job[c].epoch, ready |-> job[c].ready]}
  /\ lock' = NoClient
  /\ Leave(c)
  /\ UNCHANGED <<backend, clock, skewed, inbox, files>>

\* Mutant: the connection is not closed on an error, the lock is kept.
AbortLeaking(c) ==
  /\ pc[c] # "idle"
  /\ indexLost' = (indexLost \/ pc[c] = "writeIndex")
  /\ Leave(c)
  /\ UNCHANGED <<backend, clock, skewed, rows, lock, inbox, parquet, index, opened>>

\* The call raises (a pricing error, a full disk, a record _assert_metadata
\* refuses after materialisation) or its process dies: the transaction is
\* rolled back and the lock released, the files stay as they are.
Abort(c) ==
  /\ pc[c] # "idle"
  /\ lock' = IF lock = c THEN NoClient ELSE lock
  /\ indexLost' = (indexLost \/ pc[c] = "writeIndex")
  /\ Leave(c)
  /\ UNCHANGED <<backend, clock, skewed, rows, inbox, parquet, index, opened>>

\* Two calls wait for each other.
Deadlocked(c) == \E d \in Clients : WaitsFor(c, d) /\ WaitsFor(d, c)

\* PostgreSQL's deadlock detector cancels a call: its connection raises.
CancelDeadlocked(c) == Deadlocked(c) /\ Abort(c)

\* Time passes, a host's clock is set back, or the next call to look at a
\* clock runs on a host whose clock is ahead or behind.
Tick ==
  /\ clock' \in Epochs \ {clock}
  /\ skewed' = (skewed \/ clock' < clock)
  /\ UNCHANGED <<backend, rows, lock, pc, job, inbox, files>>

\* Every step of a call that the call itself drives.
Step(c) ==
  \/ EnsureSchema(c) \/ MigrateCheck(c) \/ Migrate(c) \/ Select(c) \/ Define(c)
  \/ Begin(c) \/ BusyTimeout(c) \/ Allocate(c) \/ OpenParquet(c)
  \/ FinishParquet(c) \/ ReadIndex(c) \/ OpenIndex(c) \/ WriteIndex(c)
  \/ Insert(c)

Next == Tick \/ \E c \in Clients : Submit(c) \/ Step(c) \/ Abort(c)

Spec == Init /\ [][Next]_vars

\* A call keeps running.  PostgreSQL queues the waiters of the advisory lock,
\* and after deadlock_timeout cancels one of the calls of a deadlock, whichever
\* it is.  SQLite's busy handler is not fair, so nothing is assumed of it but
\* that a waiter gets the lock or times out.  Nothing obliges anyone to make a
\* call, to fail for another reason, or time to pass.
Fairness ==
  /\ \A c \in Clients : /\ WF_vars(Step(c))
                        /\ SF_vars(backend = "postgres" /\ Begin(c))
  /\ WF_vars(\E c \in Clients : CancelDeadlocked(c))

FairSpec == Spec /\ Fairness
-----------------------------------------------------------------------------
TypeOK ==
  /\ backend \in Backends
  /\ clock \in Epochs
  /\ skewed \in BOOLEAN
  /\ rows \subseteq Row
  /\ lock \in Clients \cup {NoClient}
  /\ pc \in [Clients -> Points]
  /\ job \in [Clients -> Job \cup {NoJob}]
  /\ inbox \subseteq Requests
  /\ parquet \in [Partitions -> Requests \cup {Missing, Torn}]
  /\ index \subseteq Entry
  /\ opened \in [Partitions -> SUBSET Requests]
  /\ indexLost \in BOOLEAN

\* test_slice_and_report_lifecycle_uses_incremental_version_ids, for callers
\* that race, wait, fail and die: no two reports share a version id, and a
\* call that fails leaves no gap in the ids of those that succeed.
VersionsIncremental ==
  \A r \in Reports :
    /\ \A s \in Reports : r.version = s.version => r = s
    /\ \/ r.req = Legacy \/ r.version = 1
       \/ \E s \in Reports : s.version = r.version - 1

\* _load lists reports by created_at.  As long as no clock was set back and no
\* two hosts disagree, that never puts a later version of this implementation
\* before an earlier one, however long a call waited.
CreationFollowsVersion ==
  ~skewed =>
    \A r, s \in Reports :
      r.req # Legacy /\ s.req # Legacy /\ r.version < s.version
        => r.epoch <= s.epoch

\* A ready report's partition holds the rows of that very report, complete,
\* unless another call opened the same partition: no interleaving, failure or
\* crash of calls that write elsewhere can leave it missing, torn or foreign.
ReadySealed ==
  \A r \in Reports :
    LET p == Partition(r.slice, r.epoch)
    IN r.ready /\ opened[p] \subseteq {r.req} => parquet[p] = r.req

\* Unless a call died while index.json was truncated, every ready report has
\* an entry of its slice and version in the index whenever no call holds it.
IndexComplete ==
  ~indexLost /\ lock = NoClient =>
    \A r \in Reports :
      r.ready => \E e \in index : e.slice = r.slice /\ e.epoch = r.epoch

\* What _migrate_json carries over stays in force: a definition whose key was
\* in the retired file is the retired definition, whoever was first to create.
LegacyDefinitionsWin ==
  backend = "sqlite" =>
    \A r \in rows, l \in LegacyRows : SameKey(r, l) => r = l

\* A committed row never changes and never disappears: in particular the
\* second creator of a slice or scenario is refused, not obeyed.
RowsAreFinal ==
  [][\A r \in rows : \A s \in rows' : /\ r \in rows'
                                      /\ SameKey(r, s) => r = s]_vars

\* Whatever the clocks do, the Parquet file of a ready report is rewritten
\* only by a report that shares its directory name and its very second.
RewrittenWithinSecond ==
  [][\A r \in Reports :
       LET p == Partition(r.slice, r.epoch)
       IN r.ready /\ parquet'[p] # parquet[p]
            => \E c \in Clients :
                 /\ pc[c] \in {"calculate", "parquet"}
                 /\ job[c].epoch = r.epoch
                 /\ SafeName[job[c].slice] = SafeName[r.slice]]_vars

\* Every call is answered: it returns, is refused or raises.
Answered == \A c \in Clients : pc[c] # "idle" ~> pc[c] = "idle"

\* server.py, on riskcube_report_trigger: "Create an immutable RiskCube
\* report/version request."  The rows of a ready report never change.
ReadyReportsImmutable ==
  [][\A r \in Reports :
       r.ready => LET p == Partition(r.slice, r.epoch)
                  IN parquet'[p] = parquet[p]]_vars

\* Refinement: the published reports are the abstract ledger.
Published(S) == {[req |-> r.req, version |-> r.version] :
                   r \in {s \in S : s.kind = "reports"}}
Ledger == INSTANCE ReportLedger WITH
            ledger   <- Published(rows),
            Imported <- Published(LegacyRows)
LedgerRefined == Ledger!Spec
=============================================================================
