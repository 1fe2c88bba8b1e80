--------------------------- MODULE RiskCubeProofs ---------------------------
(***************************************************************************)
(* The safety of the RiskCube lifecycle for every number of clients, calls,*)
(* slices, definition kinds, legacy rows and clock seconds.                *)
(*                                                                         *)
(* None of the properties is inductive by itself.  The strengthening IInv  *)
(* says who is inside the write transaction, that the table's highest      *)
(* version is known while it is held, which legacy rows are already in the *)
(* table, and that every call's identity appears in one place only.        *)
(***************************************************************************)
EXTENDS RiskCube, TLAPS

\* The write lock is held by exactly the call inside a transaction.
LockInv == \A c \in Clients : pc[c] \in Transaction <=> lock = c

\* A version id has been allocated and not yet published.
Allocated(c) == pc[c] \in Transaction \ {"allocate"}

\* What a call's program point says about the call.
CallInv ==
  \A c \in Clients : pc[c] # "idle" =>
    /\ job[c] \in Job
    /\ pc[c] = "define" => job[c].kind # "reports"
    /\ pc[c] \in Transaction \cup {"begin"} => job[c].kind = "reports"
    /\ pc[c] \in {"check", "migrate"} => backend = "sqlite"
    /\ pc[c] = "schema" => backend # "sqlite"

\* Legacy rows enter the table before any other row of their kind.
MigratedInv ==
  backend = "sqlite" =>
    /\ \A k \in Kinds : RowsOf(k) = {} \/ LegacyOf(k) \subseteq rows
    /\ \A c \in Clients :
         pc[c] \in Transaction \cup {"begin", "define"}
           => LegacyOf(job[c].kind) \subseteq rows

\* The published versions have a maximum.
TopInv ==
  \/ Reports = {}
  \/ \E t \in Reports : \A r \in Reports : r.version <= t.version

AllocatedInv == \A c \in Clients : Allocated(c) => job[c].version = NextVersion

PrimaryKey == \A r, s \in rows : SameKey(r, s) => r = s

\* A call's identity is in the inbox, in one call, or in one row.
IdentityInv ==
  /\ \A r \in rows : r.req \notin inbox
  /\ \A p \in Partitions : opened[p] \cap inbox = {}
  /\ \A c \in Clients : pc[c] # "idle" =>
       /\ job[c].req \notin inbox
       /\ \A r \in rows : r.req # job[c].req
       /\ \A d \in Clients : pc[d] # "idle" /\ job[d].req = job[c].req => d = c

\* While no clock went back, it bounds every second it was read for.
EpochInv ==
  ~skewed =>
    /\ CreationFollowsVersion
    /\ \A r \in Reports : r.req # Legacy => r.epoch <= clock
    /\ \A c \in Clients : Allocated(c) =>
         /\ job[c].epoch <= clock
         /\ \A r \in Reports : r.req # Legacy => r.epoch <= job[c].epoch

\* The Parquet file of the call in its transaction is complete.
Written(c) ==
  \/ pc[c] \in {"readIndex", "openIndex", "writeIndex"}
  \/ pc[c] = "insert" /\ job[c].ready

SealInv ==
  /\ ReadySealed
  /\ \A c \in Clients :
       /\ pc[c] = "parquet" => job[c].req \in opened[Own(c)]
       /\ Written(c) => parquet[Own(c)] = job[c].req

\* S has an entry for report r.
Listed(S, slice, epoch) == \E e \in S : e.slice = slice /\ e.epoch = epoch

IndexInv ==
  ~indexLost =>
    /\ (\A c \in Clients : pc[c] # "writeIndex") =>
         \A r \in Reports : r.ready => Listed(index, r.slice, r.epoch)
    /\ \A c \in Clients : pc[c] \in {"openIndex", "writeIndex"} =>
         /\ Listed(job[c].entries, job[c].slice, job[c].epoch)
         /\ \A r \in Reports : r.ready =>
              Listed(job[c].entries, r.slice, r.epoch)
    /\ \A c \in Clients : pc[c] = "insert" /\ job[c].ready =>
         Listed(index, job[c].slice, job[c].epoch)

IInv ==
  /\ TypeOK
  /\ LockInv
  /\ CallInv
  /\ MigratedInv
  /\ TopInv
  /\ VersionsIncremental
  /\ AllocatedInv
  /\ PrimaryKey
  /\ IdentityInv
  /\ EpochInv
  /\ SealInv
  /\ IndexInv
-----------------------------------------------------------------------------
\* NextVersion is positive, exceeds every published version and leaves no gap.
LEMMA NextVersionFollows ==
  ASSUME rows \subseteq Row, TopInv
  PROVE  /\ NextVersion \in Nat \ {0}
         /\ \A r \in Reports : r.version < NextVersion
         /\ NextVersion = 1 \/ \E s \in Reports : s.version = NextVersion - 1
<1> DEFINE V == {0} \cup {r.version : r \in Reports}
<1>1. \A r \in Reports : r.version \in Nat
  BY DEF Reports, RowsOf, Row
<1>2. PICK m \in V : \A x \in V : m >= x
  <2>1. CASE Reports = {}
    BY <2>1
  <2>2. CASE \E t \in Reports : \A r \in Reports : r.version <= t.version
    BY <2>2, <1>1
  <2> QED BY <2>1, <2>2 DEF TopInv
<1>3. Max(V) \in V /\ \A x \in V : Max(V) >= x
  BY <1>2 DEF Max
<1>4. NextVersion = Max(V) + 1
  BY DEF NextVersion
<1>5. Max(V) \in Nat
  BY <1>1, <1>3
<1>6. \A r \in Reports : r.version < NextVersion
  <2> SUFFICES ASSUME NEW r \in Reports PROVE r.version < NextVersion
    OBVIOUS
  <2>1. r.version \in V
    OBVIOUS
  <2> QED BY <2>1, <1>1, <1>3, <1>4, <1>5
<1>7. NextVersion = 1 \/ \E s \in Reports : s.version = NextVersion - 1
  <2>1. CASE Max(V) = 0
    BY <2>1, <1>4
  <2>2. CASE \E s \in Reports : Max(V) = s.version
    <3>1. PICK s \in Reports : Max(V) = s.version
      BY <2>2
    <3>2. s.version = NextVersion - 1
      BY <3>1, <1>4, <1>5
    <3> QED BY <3>2
  <2> QED BY <1>3, <2>1, <2>2
<1> HIDE DEF V
<1> QED BY <1>4, <1>5, <1>6, <1>7

\* The initial states satisfy the strengthened invariant.
LEMMA InitIInv == Init => IInv
<1> SUFFICES ASSUME Init PROVE IInv
  OBVIOUS
<1> USE ConstantAssumption DEF Init
<1>1. TypeOK
  BY DEF TypeOK, Points
<1>2. Reports = {}
  BY DEF Reports, RowsOf
<1>3. LockInv /\ CallInv /\ AllocatedInv /\ PrimaryKey
  BY DEF LockInv, CallInv, AllocatedInv, Allocated, PrimaryKey, Transaction
<1>4. MigratedInv
  BY DEF MigratedInv, RowsOf, Transaction
<1>5. TopInv /\ VersionsIncremental
  BY <1>2 DEF TopInv, VersionsIncremental
<1>6. IdentityInv
  BY DEF IdentityInv
<1>7. EpochInv
  BY <1>2 DEF EpochInv, CreationFollowsVersion, Allocated, Transaction
<1>8. SealInv
  BY <1>2 DEF SealInv, ReadySealed, Written
<1>9. IndexInv
  BY <1>2 DEF IndexInv
<1> QED BY <1>1, <1>3, <1>4, <1>5, <1>6, <1>7, <1>8, <1>9 DEF IInv

\* Every step keeps every variable in its type.
LEMMA TypeStep == IInv /\ [Next]_vars => TypeOK'
<1> SUFFICES ASSUME IInv, [Next]_vars PROVE TypeOK'
  OBVIOUS
<1> USE ConstantAssumption
      DEF IInv, TypeOK, CallInv, Goto, Leave, files, Points, Transaction
<1>1. CASE Tick
  BY <1>1 DEF Tick, Epochs
<1>2. ASSUME NEW c \in Clients, Submit(c) PROVE TypeOK'
  BY <1>2 DEF Submit, Job, AfterMigration, Epochs, Kinds
<1>3. ASSUME NEW c \in Clients, MigrateCheck(c) PROVE TypeOK'
  BY <1>3 DEF MigrateCheck, AfterMigration
<1>4. ASSUME NEW c \in Clients, Migrate(c) PROVE TypeOK'
  BY <1>4 DEF Migrate, AfterMigration, LegacyAssumption, LegacyOf
<1>5. ASSUME NEW c \in Clients, Define(c) PROVE TypeOK'
  <2> DEFINE row == [kind |-> job[c].kind, slice |-> job[c].slice,
                     req |-> job[c].req, version |-> 0,
                     epoch |-> job[c].epoch, ready |-> FALSE]
  <2>1. row \in Row
    BY <1>5 DEF Define, Row, Job
  <2>2. rows' \subseteq rows \cup {row}
    BY <1>5 DEF Define
  <2>3. rows' \subseteq Row
    BY <2>1, <2>2
  <2> HIDE DEF row
  <2> QED BY <1>5, <2>3 DEF Define
<1>6. ASSUME NEW c \in Clients, Begin(c) PROVE TypeOK'
  BY <1>6 DEF Begin
<1>7. ASSUME NEW c \in Clients, BusyTimeout(c) PROVE TypeOK'
  BY <1>7 DEF BusyTimeout
<1>8. ASSUME NEW c \in Clients, Allocate(c) PROVE TypeOK'
  <2>1. NextVersion \in Nat
    BY NextVersionFollows
  <2>2. PICK m \in BOOLEAN :
          /\ job' = [job EXCEPT ![c].version = NextVersion, ![c].epoch = clock,
                                ![c].ready = m]
          /\ pc' = [pc EXCEPT ![c] = IF m THEN "calculate" ELSE "insert"]
    BY <1>8 DEF Allocate
  <2>3. job[c] \in Job /\ clock \in Epochs
    BY <1>8 DEF Allocate
  <2>4. [job[c] EXCEPT !.version = NextVersion, !.epoch = clock, !.ready = m]
          \in Job
    BY <2>1, <2>3 DEF Job
  <2>5. job' \in [Clients -> Job \cup {NoJob}]
    BY <2>2, <2>4
  <2> QED BY <1>8, <2>2, <2>5 DEF Allocate
<1>9. ASSUME NEW c \in Clients, OpenParquet(c) PROVE TypeOK'
  BY <1>9 DEF OpenParquet, Job, Own
<1>10. ASSUME NEW c \in Clients, FinishParquet(c) PROVE TypeOK'
  BY <1>10 DEF FinishParquet, Job, Own
<1>11. ASSUME NEW c \in Clients, ReadIndex(c) PROVE TypeOK'
  BY <1>11 DEF ReadIndex, Job, NewIndex, Entry
<1>12. ASSUME NEW c \in Clients, OpenIndex(c) PROVE TypeOK'
  BY <1>12 DEF OpenIndex
<1>13. ASSUME NEW c \in Clients, WriteIndex(c) PROVE TypeOK'
  BY <1>13 DEF WriteIndex, Job
<1>14. ASSUME NEW c \in Clients, Insert(c) PROVE TypeOK'
  BY <1>14 DEF Insert, Row, Job, Kinds
<1>15. ASSUME NEW c \in Clients, Abort(c) PROVE TypeOK'
  BY <1>15 DEF Abort
<1>16. ASSUME NEW c \in Clients, EnsureSchema(c) PROVE TypeOK'
  BY <1>16 DEF EnsureSchema, AfterMigration
<1>17. ASSUME NEW c \in Clients, Select(c) PROVE TypeOK'
  BY <1>17 DEF Select
<1>18. CASE UNCHANGED vars
  BY <1>18 DEF vars
<1> QED
  BY <1>1, <1>2, <1>3, <1>4, <1>5, <1>6, <1>7, <1>8, <1>9, <1>10, <1>11,
     <1>12, <1>13, <1>14, <1>15, <1>16,
     <1>17, <1>18 DEF Next, Step

\* Where a call goes after its migration, and what that says of the call.
LEMMA AfterMigrationPoints ==
  ASSUME NEW j
  PROVE  /\ AfterMigration(j) \in {"select", "begin", "define"}
         /\ AfterMigration(j) = "begin" => j.kind = "reports"
         /\ AfterMigration(j) = "define" => j.kind # "reports"
  BY DEF AfterMigration

\* The migration adds all legacy rows of a kind that had no row, or nothing.
LEMMA MigrateFacts ==
  ASSUME IInv, NEW c \in Clients, Migrate(c)
  PROVE  /\ job[c].kind \in Kinds
         /\ LegacyOf(job[c].kind) \subseteq rows'
         /\ \/ rows' = rows
            \/ /\ RowsOf(job[c].kind) = {}
               /\ rows' = rows \cup LegacyOf(job[c].kind)
<1> DEFINE k == job[c].kind
           fresh == {r \in LegacyOf(k) : \A s \in rows : ~SameKey(s, r)}
<1>1. k \in Kinds /\ backend = "sqlite"
  BY DEF IInv, CallInv, Migrate, Job
<1>2. rows' = rows \cup fresh
  BY DEF Migrate
<1>3. CASE RowsOf(k) = {}
  <2>1. fresh = LegacyOf(k)
    BY <1>3 DEF RowsOf, LegacyOf, SameKey
  <2> QED BY <1>1, <1>2, <1>3, <2>1
<1>4. CASE LegacyOf(k) \subseteq rows
  BY <1>1, <1>2, <1>4
<1> QED BY <1>1, <1>3, <1>4 DEF IInv, MigratedInv

\* What Allocate does to the call that takes it.
LEMMA AllocateFacts ==
  ASSUME IInv, NEW c \in Clients, Allocate(c)
  PROVE  /\ job'[c] \in Job
         /\ job'[c].kind = job[c].kind
         /\ job'[c].slice = job[c].slice
         /\ job'[c].req = job[c].req
         /\ job'[c].version = NextVersion
         /\ job'[c].epoch = clock
         /\ \/ pc'[c] = "calculate"
            \/ pc'[c] = "insert" /\ ~job'[c].ready
         /\ \A d \in Clients \ {c} : job'[d] = job[d] /\ pc'[d] = pc[d]
<1>1. PICK m \in BOOLEAN :
        /\ job' = [job EXCEPT ![c].version = NextVersion, ![c].epoch = clock,
                              ![c].ready = m]
        /\ pc' = [pc EXCEPT ![c] = IF m THEN "calculate" ELSE "insert"]
  BY DEF Allocate, Goto
<1>2. NextVersion \in Nat
  BY NextVersionFollows DEF IInv, TypeOK
<1>3. /\ job[c] \in Job /\ clock \in Epochs
      /\ job \in [Clients -> Job \cup {NoJob}] /\ pc \in [Clients -> Points]
  BY DEF IInv, TypeOK, CallInv, Allocate
<1>4. job'[c] = [job[c] EXCEPT !.version = NextVersion, !.epoch = clock,
                               !.ready = m]
  BY <1>1, <1>3
<1>5. /\ job'[c] \in Job /\ job'[c].kind = job[c].kind
      /\ job'[c].slice = job[c].slice /\ job'[c].req = job[c].req
      /\ job'[c].version = NextVersion /\ job'[c].epoch = clock
      /\ job'[c].ready = m
  BY <1>2, <1>3, <1>4 DEF Job
<1>6. pc'[c] = "calculate" \/ (pc'[c] = "insert" /\ ~job'[c].ready)
  <2>1. CASE m = TRUE
    BY <2>1, <1>1, <1>3
  <2>2. CASE m = FALSE
    BY <2>2, <1>1, <1>3, <1>5
  <2> QED BY <2>1, <2>2
<1> QED BY <1>1, <1>3, <1>5, <1>6

\* What Submit does.
LEMMA SubmitFacts ==
  ASSUME IInv, NEW c \in Clients, Submit(c)
  PROVE  /\ job'[c] \in Job
         /\ job'[c].req \in inbox
         /\ inbox' = inbox \ {job'[c].req}
         /\ pc'[c] = IF backend = "sqlite" THEN "check" ELSE "schema"
         /\ \A d \in Clients \ {c} : job'[d] = job[d] /\ pc'[d] = pc[d]
<1>1. PICK q \in inbox, k \in Kinds, s \in Slices, op \in {"create", "load"} :
        /\ inbox' = inbox \ {q}
        /\ job' = [job EXCEPT ![c] =
             [op |-> op, req |-> q, kind |-> k, slice |-> s, version |-> 0,
              epoch |-> clock, ready |-> FALSE, entries |-> {}]]
        /\ pc' = [pc EXCEPT ![c] =
                    IF backend = "sqlite" THEN "check" ELSE "schema"]
  BY DEF Submit, Goto
<1> DEFINE new == [op |-> op, req |-> q, kind |-> k, slice |-> s,
                   version |-> 0, epoch |-> clock, ready |-> FALSE,
                   entries |-> {}]
<1>2. /\ job \in [Clients -> Job \cup {NoJob}] /\ pc \in [Clients -> Points]
      /\ inbox \subseteq Requests /\ clock \in Epochs
  BY DEF IInv, TypeOK
<1>3. new \in Job
  BY <1>2 DEF Job
<1>4. /\ job'[c] = new
      /\ \A d \in Clients \ {c} : job'[d] = job[d] /\ pc'[d] = pc[d]
  BY <1>1, <1>2
<1>5. pc'[c] = IF backend = "sqlite" THEN "check" ELSE "schema"
  BY <1>1, <1>2
<1> QED BY <1>1, <1>3, <1>4, <1>5

\* What ReadIndex does to the call that takes it.
LEMMA ReadIndexFacts ==
  ASSUME IInv, NEW c \in Clients, ReadIndex(c)
  PROVE  /\ job'[c] \in Job
         /\ job'[c].kind = job[c].kind
         /\ job'[c].slice = job[c].slice
         /\ job'[c].req = job[c].req
         /\ job'[c].version = job[c].version
         /\ job'[c].epoch = job[c].epoch
         /\ job'[c].ready = job[c].ready
         /\ job'[c].entries = NewIndex(c)
         /\ pc'[c] = "openIndex"
         /\ \A d \in Clients \ {c} : job'[d] = job[d] /\ pc'[d] = pc[d]
<1>1. job[c] \in Job /\ job \in [Clients -> Job \cup {NoJob}]
  BY DEF IInv, TypeOK, CallInv, ReadIndex
<1>2. NewIndex(c) \subseteq Entry
  BY <1>1 DEF NewIndex, Job, Entry, IInv, TypeOK
<1>3. job'[c] = [job[c] EXCEPT !.entries = NewIndex(c)]
  BY <1>1 DEF ReadIndex
<1> QED BY <1>1, <1>2, <1>3 DEF Job, ReadIndex, Goto, IInv, TypeOK

\* The row a call publishes.
Published1(c) ==
  [kind |-> "reports", slice |-> job[c].slice, req |-> job[c].req,
   version |-> job[c].version, epoch |-> job[c].epoch, ready |-> job[c].ready]

\* The published row is a report whose version id no report has.
LEMMA InsertFacts ==
  ASSUME IInv, NEW c \in Clients, Insert(c)
  PROVE  /\ rows' = rows \cup {Published1(c)}
         /\ Reports' = Reports \cup {Published1(c)}
         /\ Published1(c) \in Row
         /\ Published1(c).version = NextVersion
         /\ NextVersion \in Nat \ {0}
         /\ \A r \in Reports : r.version < NextVersion
         /\ NextVersion = 1 \/ \E s \in Reports : s.version = NextVersion - 1
<1>1. rows' = rows \cup {Published1(c)}
  BY DEF Insert, Published1
<1>2. Reports' = Reports \cup {Published1(c)}
  BY <1>1 DEF Reports, RowsOf, Published1
<1>3. job[c] \in Job /\ job[c].version = NextVersion
  BY DEF IInv, CallInv, AllocatedInv, Allocated, Transaction, Insert
<1>4. Published1(c) \in Row
  BY <1>3 DEF Published1, Job, Row, Kinds
<1>5. Published1(c).version = NextVersion
  BY <1>3 DEF Published1
<1> QED
  BY <1>1, <1>2, <1>4, <1>5, NextVersionFollows DEF IInv, TypeOK


\* Taking and releasing the write lock brackets the transaction.
LEMMA LockStep == IInv /\ [Next]_vars => LockInv'
<1> SUFFICES ASSUME IInv, [Next]_vars PROVE LockInv'
  OBVIOUS
<1> USE ConstantAssumption
      DEF IInv, TypeOK, Goto, Leave, files, Transaction, LockInv
<1>1. CASE Tick
  BY <1>1 DEF Tick
<1>2. ASSUME NEW c \in Clients, Submit(c) PROVE LockInv'
  BY <1>2, AfterMigrationPoints DEF Submit
<1>3. ASSUME NEW c \in Clients, MigrateCheck(c) PROVE LockInv'
  BY <1>3, AfterMigrationPoints DEF MigrateCheck
<1>4. ASSUME NEW c \in Clients, Migrate(c) PROVE LockInv'
  BY <1>4, AfterMigrationPoints DEF Migrate
<1>5. ASSUME NEW c \in Clients, Define(c) PROVE LockInv'
  BY <1>5 DEF Define
<1>6. ASSUME NEW c \in Clients, Begin(c) PROVE LockInv'
  BY <1>6 DEF Begin
<1>7. ASSUME NEW c \in Clients, BusyTimeout(c) PROVE LockInv'
  BY <1>7 DEF BusyTimeout
<1>8. ASSUME NEW c \in Clients, Allocate(c) PROVE LockInv'
  BY <1>8 DEF Allocate
<1>9. ASSUME NEW c \in Clients, OpenParquet(c) PROVE LockInv'
  BY <1>9 DEF OpenParquet
<1>10. ASSUME NEW c \in Clients, FinishParquet(c) PROVE LockInv'
  BY <1>10 DEF FinishParquet
<1>11. ASSUME NEW c \in Clients, ReadIndex(c) PROVE LockInv'
  BY <1>11 DEF ReadIndex
<1>12. ASSUME NEW c \in Clients, OpenIndex(c) PROVE LockInv'
  BY <1>12 DEF OpenIndex
<1>13. ASSUME NEW c \in Clients, WriteIndex(c) PROVE LockInv'
  BY <1>13 DEF WriteIndex
<1>14. ASSUME NEW c \in Clients, Insert(c) PROVE LockInv'
  BY <1>14 DEF Insert
<1>15. ASSUME NEW c \in Clients, Abort(c) PROVE LockInv'
  BY <1>15 DEF Abort
<1>16. ASSUME NEW c \in Clients, EnsureSchema(c) PROVE LockInv'
  BY <1>16, AfterMigrationPoints DEF EnsureSchema
<1>17. ASSUME NEW c \in Clients, Select(c) PROVE LockInv'
  BY <1>17 DEF Select
<1>18. CASE UNCHANGED vars
  BY <1>18 DEF vars
<1> QED
  BY <1>1, <1>2, <1>3, <1>4, <1>5, <1>6, <1>7,
     <1>8, <1>9, <1>10, <1>11, <1>12, <1>13, <1>14, <1>15, <1>16,
     <1>17, <1>18 DEF Next, Step

\* What a program point says of the call holds after every step.
LEMMA CallStep == IInv /\ [Next]_vars => CallInv'
<1> SUFFICES ASSUME IInv, [Next]_vars PROVE CallInv'
  OBVIOUS
<1> USE ConstantAssumption
      DEF IInv, TypeOK, Goto, Leave, files, Transaction, CallInv
<1>1. CASE Tick
  BY <1>1 DEF Tick
<1>2. ASSUME NEW c \in Clients, Submit(c) PROVE CallInv'
  <2> SUFFICES ASSUME NEW d \in Clients, pc'[d] # "idle"
               PROVE  /\ job'[d] \in Job
                      /\ pc'[d] = "define" => job'[d].kind # "reports"
                      /\ pc'[d] \in Transaction \cup {"begin"}
                           => job'[d].kind = "reports"
                      /\ pc'[d] \in {"check", "migrate"} => backend' = "sqlite"
                      /\ pc'[d] = "schema" => backend' # "sqlite"
    BY DEF CallInv
  <2>1. backend' = backend
    BY <1>2 DEF Submit
  <2>2. CASE d = c
    BY <1>2, <2>1, <2>2, SubmitFacts DEF Submit
  <2>3. CASE d # c
    <3>1. job'[d] = job[d] /\ pc'[d] = pc[d]
      BY <1>2, <2>3, SubmitFacts
    <3> QED BY <2>1, <3>1
  <2> QED BY <2>2, <2>3
<1>3. ASSUME NEW c \in Clients, MigrateCheck(c) PROVE CallInv'
  BY <1>3, AfterMigrationPoints DEF MigrateCheck
<1>4. ASSUME NEW c \in Clients, Migrate(c) PROVE CallInv'
  BY <1>4, AfterMigrationPoints DEF Migrate
<1>5. ASSUME NEW c \in Clients, Define(c) PROVE CallInv'
  BY <1>5 DEF Define
<1>6. ASSUME NEW c \in Clients, Begin(c) PROVE CallInv'
  BY <1>6 DEF Begin
<1>7. ASSUME NEW c \in Clients, BusyTimeout(c) PROVE CallInv'
  BY <1>7 DEF BusyTimeout
<1>8. ASSUME NEW c \in Clients, Allocate(c) PROVE CallInv'
  <2> SUFFICES ASSUME NEW d \in Clients, pc'[d] # "idle"
               PROVE  /\ job'[d] \in Job
                      /\ pc'[d] = "define" => job'[d].kind # "reports"
                      /\ pc'[d] \in Transaction \cup {"begin"}
                           => job'[d].kind = "reports"
                      /\ pc'[d] \in {"check", "migrate"} => backend' = "sqlite"
                      /\ pc'[d] = "schema" => backend' # "sqlite"
    BY DEF CallInv
  <2>1. backend' = backend
    BY <1>8 DEF Allocate
  <2>2. CASE d = c
    BY <1>8, <2>1, <2>2, AllocateFacts DEF Allocate
  <2>3. CASE d # c
    <3>1. job'[d] = job[d] /\ pc'[d] = pc[d]
      BY <1>8, <2>3, AllocateFacts
    <3> QED BY <2>1, <3>1
  <2> QED BY <2>2, <2>3
<1>9. ASSUME NEW c \in Clients, OpenParquet(c) PROVE CallInv'
  BY <1>9 DEF OpenParquet
<1>10. ASSUME NEW c \in Clients, FinishParquet(c) PROVE CallInv'
  BY <1>10 DEF FinishParquet
<1>11. ASSUME NEW c \in Clients, ReadIndex(c) PROVE CallInv'
  <2> SUFFICES ASSUME NEW d \in Clients, pc'[d] # "idle"
               PROVE  /\ job'[d] \in Job
                      /\ pc'[d] = "define" => job'[d].kind # "reports"
                      /\ pc'[d] \in Transaction \cup {"begin"}
                           => job'[d].kind = "reports"
                      /\ pc'[d] \in {"check", "migrate"} => backend' = "sqlite"
                      /\ pc'[d] = "schema" => backend' # "sqlite"
    BY DEF CallInv
  <2>1. backend' = backend
    BY <1>11 DEF ReadIndex
  <2>2. CASE d = c
    <3>1. job'[c] \in Job /\ job'[c].kind = job[c].kind /\ pc'[c] = "openIndex"
      BY <1>11, ReadIndexFacts
    <3>2. job[c].kind = "reports"
      BY <1>11 DEF ReadIndex
    <3> QED BY <2>2, <3>1, <3>2
  <2>3. CASE d # c
    <3>1. job'[d] = job[d] /\ pc'[d] = pc[d]
      BY <1>11, <2>3, ReadIndexFacts
    <3> QED BY <2>1, <3>1
  <2> QED BY <2>2, <2>3
<1>12. ASSUME NEW c \in Clients, OpenIndex(c) PROVE CallInv'
  BY <1>12 DEF OpenIndex
<1>13. ASSUME NEW c \in Clients, WriteIndex(c) PROVE CallInv'
  BY <1>13 DEF WriteIndex
<1>14. ASSUME NEW c \in Clients, Insert(c) PROVE CallInv'
  BY <1>14 DEF Insert
<1>15. ASSUME NEW c \in Clients, Abort(c) PROVE CallInv'
  BY <1>15 DEF Abort
<1>16. ASSUME NEW c \in Clients, EnsureSchema(c) PROVE CallInv'
  BY <1>16, AfterMigrationPoints DEF EnsureSchema
<1>17. ASSUME NEW c \in Clients, Select(c) PROVE CallInv'
  BY <1>17 DEF Select
<1>18. CASE UNCHANGED vars
  BY <1>18 DEF vars
<1> QED
  BY <1>1, <1>2, <1>3, <1>4, <1>5, <1>6, <1>7,
     <1>8, <1>9, <1>10, <1>11, <1>12, <1>13, <1>14, <1>15, <1>16,
     <1>17, <1>18 DEF Next, Step

\* The migration check precedes every row of its kind.
LEMMA MigratedStep == IInv /\ [Next]_vars => MigratedInv'
<1> SUFFICES ASSUME IInv, [Next]_vars PROVE MigratedInv'
  OBVIOUS
<1> USE ConstantAssumption
      DEF IInv, TypeOK, Goto, Leave, files, Transaction, MigratedInv,
          CallInv, RowsOf
<1>1. CASE Tick
  BY <1>1 DEF Tick
<1>2. ASSUME NEW c \in Clients, Submit(c) PROVE MigratedInv'
  BY <1>2, SubmitFacts DEF Submit
<1>3. ASSUME NEW c \in Clients, MigrateCheck(c) PROVE MigratedInv'
  BY <1>3, AfterMigrationPoints DEF MigrateCheck, Job
<1>4. ASSUME NEW c \in Clients, Migrate(c) PROVE MigratedInv'
  <2>1. /\ LegacyOf(job[c].kind) \subseteq rows'
        /\ rows \subseteq rows'
        /\ backend' = backend
    BY <1>4, MigrateFacts DEF Migrate
  <2>2. ASSUME NEW k \in Kinds
        PROVE  RowsOf(k)' = {} \/ LegacyOf(k) \subseteq rows'
    <3>1. CASE rows' = rows
      BY <3>1, <1>4 DEF Migrate
    <3>2. CASE k = job[c].kind
      BY <2>1, <3>2
    <3>3. CASE k # job[c].kind /\ rows' = rows \cup LegacyOf(job[c].kind)
      <4>1. RowsOf(k)' = RowsOf(k)
        BY <3>3 DEF LegacyOf
      <4> QED BY <4>1, <2>1, <1>4 DEF Migrate
    <3> QED BY <1>4, <3>1, <3>2, <3>3, MigrateFacts
  <2>3. ASSUME NEW d \in Clients,
               pc'[d] \in Transaction \cup {"begin", "define"}
        PROVE  LegacyOf(job'[d].kind) \subseteq rows'
    <3>1. CASE d = c
      BY <1>4, <2>1, <2>3, <3>1, AfterMigrationPoints DEF Migrate
    <3>2. CASE d # c
      BY <1>4, <2>1, <2>3, <3>2 DEF Migrate
    <3> QED BY <3>1, <3>2
  <2> QED BY <2>2, <2>3
<1>5. ASSUME NEW c \in Clients, Define(c) PROVE MigratedInv'
  BY <1>5 DEF Define
<1>6. ASSUME NEW c \in Clients, Begin(c) PROVE MigratedInv'
  BY <1>6 DEF Begin
<1>7. ASSUME NEW c \in Clients, BusyTimeout(c) PROVE MigratedInv'
  BY <1>7 DEF BusyTimeout
<1>8. ASSUME NEW c \in Clients, Allocate(c) PROVE MigratedInv'
  BY <1>8 DEF Allocate
<1>9. ASSUME NEW c \in Clients, OpenParquet(c) PROVE MigratedInv'
  BY <1>9 DEF OpenParquet
<1>10. ASSUME NEW c \in Clients, FinishParquet(c) PROVE MigratedInv'
  BY <1>10 DEF FinishParquet
<1>11. ASSUME NEW c \in Clients, ReadIndex(c) PROVE MigratedInv'
  BY <1>11 DEF ReadIndex
<1>12. ASSUME NEW c \in Clients, OpenIndex(c) PROVE MigratedInv'
  BY <1>12 DEF OpenIndex
<1>13. ASSUME NEW c \in Clients, WriteIndex(c) PROVE MigratedInv'
  BY <1>13 DEF WriteIndex
<1>14. ASSUME NEW c \in Clients, Insert(c) PROVE MigratedInv'
  BY <1>14 DEF Insert
<1>15. ASSUME NEW c \in Clients, Abort(c) PROVE MigratedInv'
  BY <1>15 DEF Abort
<1>16. ASSUME NEW c \in Clients, EnsureSchema(c) PROVE MigratedInv'
  BY <1>16, AfterMigrationPoints DEF EnsureSchema
<1>17. ASSUME NEW c \in Clients, Select(c) PROVE MigratedInv'
  BY <1>17 DEF Select
<1>18. CASE UNCHANGED vars
  BY <1>18 DEF vars
<1> QED
  BY <1>1, <1>2, <1>3, <1>4, <1>5, <1>6, <1>7,
     <1>8, <1>9, <1>10, <1>11, <1>12, <1>13, <1>14, <1>15, <1>16,
     <1>17, <1>18 DEF Next, Step

\* No step adds a row whose key another row has.
LEMMA PrimaryKeyStep == IInv /\ [Next]_vars => PrimaryKey'
<1> SUFFICES ASSUME IInv, [Next]_vars PROVE PrimaryKey'
  OBVIOUS
<1> USE ConstantAssumption
      DEF IInv, TypeOK, Goto, Leave, files, Transaction, PrimaryKey
<1>1. CASE Tick
  BY <1>1 DEF Tick
<1>2. ASSUME NEW c \in Clients, Submit(c) PROVE PrimaryKey'
  BY <1>2 DEF Submit
<1>3. ASSUME NEW c \in Clients, MigrateCheck(c) PROVE PrimaryKey'
  BY <1>3 DEF MigrateCheck
<1>4. ASSUME NEW c \in Clients, Migrate(c) PROVE PrimaryKey'
  BY <1>4, MigrateFacts DEF SameKey, RowsOf, LegacyOf, LegacyAssumption
<1>5. ASSUME NEW c \in Clients, Define(c) PROVE PrimaryKey'
  <2>1. PICK row : rows' \subseteq rows \cup {row} /\
                      (row \in rows' =>
                         row \in rows \/ \A s \in rows : ~SameKey(s, row))
    BY <1>5 DEF Define
  <2> QED BY <2>1 DEF SameKey
<1>6. ASSUME NEW c \in Clients, Begin(c) PROVE PrimaryKey'
  BY <1>6 DEF Begin
<1>7. ASSUME NEW c \in Clients, BusyTimeout(c) PROVE PrimaryKey'
  BY <1>7 DEF BusyTimeout
<1>8. ASSUME NEW c \in Clients, Allocate(c) PROVE PrimaryKey'
  BY <1>8 DEF Allocate
<1>9. ASSUME NEW c \in Clients, OpenParquet(c) PROVE PrimaryKey'
  BY <1>9 DEF OpenParquet
<1>10. ASSUME NEW c \in Clients, FinishParquet(c) PROVE PrimaryKey'
  BY <1>10 DEF FinishParquet
<1>11. ASSUME NEW c \in Clients, ReadIndex(c) PROVE PrimaryKey'
  BY <1>11 DEF ReadIndex
<1>12. ASSUME NEW c \in Clients, OpenIndex(c) PROVE PrimaryKey'
  BY <1>12 DEF OpenIndex
<1>13. ASSUME NEW c \in Clients, WriteIndex(c) PROVE PrimaryKey'
  BY <1>13 DEF WriteIndex
<1>14. ASSUME NEW c \in Clients, Insert(c) PROVE PrimaryKey'
  <2>1. /\ rows' = rows \cup {Published1(c)}
        /\ \A r \in Reports : r.version < Published1(c).version
        /\ Published1(c).version \in Nat
        /\ Published1(c).kind = "reports"
    <3>1. /\ rows' = rows \cup {Published1(c)}
          /\ \A r \in Reports : r.version < NextVersion
          /\ Published1(c).version = NextVersion
          /\ NextVersion \in Nat \ {0}
      BY <1>14, InsertFacts
    <3>2. Published1(c).kind = "reports"
      BY DEF Published1
    <3> QED BY <3>1, <3>2
  <2>2. \A r \in rows : ~SameKey(r, Published1(c)) /\ ~SameKey(Published1(c), r)
    BY <2>1 DEF SameKey, Reports, RowsOf
  <2> QED BY <2>1, <2>2
<1>15. ASSUME NEW c \in Clients, Abort(c) PROVE PrimaryKey'
  BY <1>15 DEF Abort
<1>16. ASSUME NEW c \in Clients, EnsureSchema(c) PROVE PrimaryKey'
  BY <1>16, AfterMigrationPoints DEF EnsureSchema
<1>17. ASSUME NEW c \in Clients, Select(c) PROVE PrimaryKey'
  BY <1>17 DEF Select
<1>18. CASE UNCHANGED vars
  BY <1>18 DEF vars
<1> QED
  BY <1>1, <1>2, <1>3, <1>4, <1>5, <1>6, <1>7,
     <1>8, <1>9, <1>10, <1>11, <1>12, <1>13, <1>14, <1>15, <1>16,
     <1>17, <1>18 DEF Next, Step

\* A call's identity never gets to a second call or row.
LEMMA IdentityStep == IInv /\ [Next]_vars => IdentityInv'
<1> SUFFICES ASSUME IInv, [Next]_vars PROVE IdentityInv'
  OBVIOUS
<1> USE ConstantAssumption
      DEF IInv, TypeOK, Goto, Leave, files, Transaction, IdentityInv
<1>1. CASE Tick
  BY <1>1 DEF Tick
<1>2. ASSUME NEW c \in Clients, Submit(c) PROVE IdentityInv'
  BY <1>2 DEF Submit
<1>3. ASSUME NEW c \in Clients, MigrateCheck(c) PROVE IdentityInv'
  BY <1>3 DEF MigrateCheck
<1>4. ASSUME NEW c \in Clients, Migrate(c) PROVE IdentityInv'
  BY <1>4, MigrateFacts DEF Migrate, LegacyOf, LegacyAssumption, CallInv, Job
<1>5. ASSUME NEW c \in Clients, Define(c) PROVE IdentityInv'
  BY <1>5 DEF Define
<1>6. ASSUME NEW c \in Clients, Begin(c) PROVE IdentityInv'
  BY <1>6 DEF Begin
<1>7. ASSUME NEW c \in Clients, BusyTimeout(c) PROVE IdentityInv'
  BY <1>7 DEF BusyTimeout
<1>8. ASSUME NEW c \in Clients, Allocate(c) PROVE IdentityInv'
  BY <1>8 DEF Allocate
<1>9. ASSUME NEW c \in Clients, OpenParquet(c) PROVE IdentityInv'
  BY <1>9 DEF OpenParquet
<1>10. ASSUME NEW c \in Clients, FinishParquet(c) PROVE IdentityInv'
  BY <1>10 DEF FinishParquet
<1>11. ASSUME NEW c \in Clients, ReadIndex(c) PROVE IdentityInv'
  BY <1>11 DEF ReadIndex
<1>12. ASSUME NEW c \in Clients, OpenIndex(c) PROVE IdentityInv'
  BY <1>12 DEF OpenIndex
<1>13. ASSUME NEW c \in Clients, WriteIndex(c) PROVE IdentityInv'
  BY <1>13 DEF WriteIndex
<1>14. ASSUME NEW c \in Clients, Insert(c) PROVE IdentityInv'
  BY <1>14 DEF Insert
<1>15. ASSUME NEW c \in Clients, Abort(c) PROVE IdentityInv'
  BY <1>15 DEF Abort
<1>16. ASSUME NEW c \in Clients, EnsureSchema(c) PROVE IdentityInv'
  BY <1>16, AfterMigrationPoints DEF EnsureSchema
<1>17. ASSUME NEW c \in Clients, Select(c) PROVE IdentityInv'
  BY <1>17 DEF Select
<1>18. CASE UNCHANGED vars
  BY <1>18 DEF vars
<1> QED
  BY <1>1, <1>2, <1>3, <1>4, <1>5, <1>6, <1>7,
     <1>8, <1>9, <1>10, <1>11, <1>12, <1>13, <1>14, <1>15, <1>16,
     <1>17, <1>18 DEF Next, Step

\* What a step can do to the reports.
ReportsOnly ==
  \/ Reports' = Reports
  \/ /\ \A c \in Clients : pc'[c] \notin Transaction
     /\ \/ Reports = {} /\ Reports' = LegacyOf("reports")
        \/ \E c \in Clients : Insert(c)

\* The call's report is the same before and after a step.
SameReport(c) ==
  /\ job'[c].slice = job[c].slice
  /\ job'[c].req = job[c].req
  /\ job'[c].version = job[c].version
  /\ job'[c].epoch = job[c].epoch
  /\ job'[c].ready = job[c].ready

\* What a step can do to a call that holds a version id after it.
HolderOnly(c) ==
  Allocated(c)' => Allocate(c) \/ (Allocated(c) /\ SameReport(c))

\* The published reports change in two ways only, and neither leaves a call
\* inside a transaction.
LEMMA ReportsStep == IInv /\ [Next]_vars => ReportsOnly
<1> SUFFICES ASSUME IInv, [Next]_vars PROVE ReportsOnly
  OBVIOUS
<1> USE ConstantAssumption
      DEF IInv, TypeOK, Goto, Leave, files, Transaction, Reports, RowsOf,
          ReportsOnly, LockInv
<1>1. CASE Tick
  BY <1>1 DEF Tick
<1>2. ASSUME NEW c \in Clients, Submit(c) PROVE ReportsOnly
  BY <1>2 DEF Submit
<1>3. ASSUME NEW c \in Clients, MigrateCheck(c) PROVE ReportsOnly
  BY <1>3 DEF MigrateCheck
<1>4. ASSUME NEW c \in Clients, Migrate(c) PROVE ReportsOnly
  <2>1. ASSUME NEW d \in Clients PROVE pc'[d] \notin Transaction
    BY <1>4, AfterMigrationPoints DEF Migrate
  <2>2. CASE rows' = rows
    BY <2>2
  <2>3. CASE /\ RowsOf(job[c].kind) = {}
             /\ rows' = rows \cup LegacyOf(job[c].kind)
    BY <2>1, <2>3 DEF LegacyOf
  <2> QED BY <1>4, <2>2, <2>3, MigrateFacts
<1>5. ASSUME NEW c \in Clients, Define(c) PROVE ReportsOnly
  <2>1. PICK row : /\ row.kind # "reports"
                   /\ rows \subseteq rows' /\ rows' \subseteq rows \cup {row}
    <3> DEFINE new == [kind |-> job[c].kind, slice |-> job[c].slice,
                       req |-> job[c].req, version |-> 0,
                       epoch |-> job[c].epoch, ready |-> FALSE]
    <3>1. new.kind # "reports"
      BY <1>5 DEF Define, CallInv
    <3>2. rows \subseteq rows' /\ rows' \subseteq rows \cup {new}
      BY <1>5 DEF Define
    <3> HIDE DEF new
    <3> QED BY <3>1, <3>2
  <2> QED BY <2>1
<1>6. ASSUME NEW c \in Clients, Begin(c) PROVE ReportsOnly
  BY <1>6 DEF Begin
<1>7. ASSUME NEW c \in Clients, BusyTimeout(c) PROVE ReportsOnly
  BY <1>7 DEF BusyTimeout
<1>8. ASSUME NEW c \in Clients, Allocate(c) PROVE ReportsOnly
  BY <1>8 DEF Allocate
<1>9. ASSUME NEW c \in Clients, OpenParquet(c) PROVE ReportsOnly
  BY <1>9 DEF OpenParquet
<1>10. ASSUME NEW c \in Clients, FinishParquet(c) PROVE ReportsOnly
  BY <1>10 DEF FinishParquet
<1>11. ASSUME NEW c \in Clients, ReadIndex(c) PROVE ReportsOnly
  BY <1>11 DEF ReadIndex
<1>12. ASSUME NEW c \in Clients, OpenIndex(c) PROVE ReportsOnly
  BY <1>12 DEF OpenIndex
<1>13. ASSUME NEW c \in Clients, WriteIndex(c) PROVE ReportsOnly
  BY <1>13 DEF WriteIndex
<1>14. ASSUME NEW c \in Clients, Insert(c) PROVE ReportsOnly
  <2>1. ASSUME NEW d \in Clients PROVE pc'[d] \notin Transaction
    BY <1>14 DEF Insert
  <2> QED BY <1>14, <2>1
<1>15. ASSUME NEW c \in Clients, Abort(c) PROVE ReportsOnly
  BY <1>15 DEF Abort
<1>16. ASSUME NEW c \in Clients, EnsureSchema(c) PROVE ReportsOnly
  BY <1>16, AfterMigrationPoints DEF EnsureSchema
<1>17. ASSUME NEW c \in Clients, Select(c) PROVE ReportsOnly
  BY <1>17 DEF Select
<1>18. CASE UNCHANGED vars
  BY <1>18 DEF vars
<1> QED
  BY <1>1, <1>2, <1>3, <1>4, <1>5, <1>6, <1>7,
     <1>8, <1>9, <1>10, <1>11, <1>12, <1>13, <1>14, <1>15, <1>16,
     <1>17, <1>18 DEF Next, Step

\* A call that holds a version id either has just been given it or keeps it.
LEMMA HolderStep ==
  ASSUME IInv, [Next]_vars, NEW d \in Clients
  PROVE  HolderOnly(d)
<1> USE ConstantAssumption
      DEF IInv, TypeOK, Goto, Leave, files, Transaction, HolderOnly,
          Allocated, SameReport, CallInv
<1>1. CASE Tick
  BY <1>1 DEF Tick
<1>2. ASSUME NEW c \in Clients, Submit(c) PROVE HolderOnly(d)
  BY <1>2, SubmitFacts, ZenonT(60) DEF Submit
<1>3. ASSUME NEW c \in Clients, MigrateCheck(c) PROVE HolderOnly(d)
  BY <1>3, AfterMigrationPoints DEF MigrateCheck
<1>4. ASSUME NEW c \in Clients, Migrate(c) PROVE HolderOnly(d)
  BY <1>4, AfterMigrationPoints DEF Migrate
<1>5. ASSUME NEW c \in Clients, Define(c) PROVE HolderOnly(d)
  BY <1>5 DEF Define
<1>6. ASSUME NEW c \in Clients, Begin(c) PROVE HolderOnly(d)
  BY <1>6 DEF Begin
<1>7. ASSUME NEW c \in Clients, BusyTimeout(c) PROVE HolderOnly(d)
  BY <1>7 DEF BusyTimeout
<1>8. ASSUME NEW c \in Clients, Allocate(c) PROVE HolderOnly(d)
  BY <1>8, AllocateFacts
<1>9. ASSUME NEW c \in Clients, OpenParquet(c) PROVE HolderOnly(d)
  BY <1>9 DEF OpenParquet
<1>10. ASSUME NEW c \in Clients, FinishParquet(c) PROVE HolderOnly(d)
  BY <1>10 DEF FinishParquet
<1>11. ASSUME NEW c \in Clients, ReadIndex(c) PROVE HolderOnly(d)
  BY <1>11, ReadIndexFacts DEF ReadIndex
<1>12. ASSUME NEW c \in Clients, OpenIndex(c) PROVE HolderOnly(d)
  BY <1>12 DEF OpenIndex
<1>13. ASSUME NEW c \in Clients, WriteIndex(c) PROVE HolderOnly(d)
  BY <1>13 DEF WriteIndex
<1>14. ASSUME NEW c \in Clients, Insert(c) PROVE HolderOnly(d)
  BY <1>14 DEF Insert
<1>15. ASSUME NEW c \in Clients, Abort(c) PROVE HolderOnly(d)
  BY <1>15 DEF Abort
<1>16. ASSUME NEW c \in Clients, EnsureSchema(c) PROVE HolderOnly(d)
  BY <1>16, AfterMigrationPoints DEF EnsureSchema
<1>17. ASSUME NEW c \in Clients, Select(c) PROVE HolderOnly(d)
  BY <1>17 DEF Select
<1>18. CASE UNCHANGED vars
  BY <1>18 DEF vars
<1> QED
  BY <1>1, <1>2, <1>3, <1>4, <1>5, <1>6, <1>7,
     <1>8, <1>9, <1>10, <1>11, <1>12, <1>13, <1>14, <1>15, <1>16,
     <1>17, <1>18 DEF Next, Step

\* The highest version stays known, and versions stay unique and gapless.
LEMMA VersionsStep ==
  ASSUME IInv, [Next]_vars
  PROVE  TopInv' /\ VersionsIncremental'
<1>1. CASE Reports' = Reports
  BY <1>1 DEF IInv, TopInv, VersionsIncremental
<1>2. CASE Reports = {} /\ Reports' = LegacyOf("reports")
  <2>1. \A r \in Reports' : r.req = Legacy
    BY <1>2, ConstantAssumption DEF LegacyAssumption, LegacyOf
  <2>2. \A r, s \in Reports' : r.version = s.version => r = s
    BY <1>2, ConstantAssumption DEF LegacyAssumption
  <2>3. TopInv'
    BY <1>2, ConstantAssumption DEF LegacyAssumption, TopInv
  <2> QED BY <2>1, <2>2, <2>3 DEF VersionsIncremental
<1>3. ASSUME NEW c \in Clients, Insert(c)
      PROVE  TopInv' /\ VersionsIncremental'
  <2> DEFINE new == Published1(c)
  <2>1. /\ Reports' = Reports \cup {new}
        /\ new.version \in Nat \ {0}
        /\ \A r \in Reports : r.version < new.version /\ r.version \in Nat
        /\ new.version = 1 \/ \E s \in Reports : s.version = new.version - 1
    BY <1>3, InsertFacts DEF IInv, TypeOK, Row, Reports, RowsOf
  <2> HIDE DEF new
  <2>2. TopInv'
    BY <2>1 DEF TopInv
  <2>3. \A r, s \in Reports' : r.version = s.version => r = s
    BY <2>1 DEF IInv, VersionsIncremental
  <2>4. \A r \in Reports' :
          \/ r.req = Legacy \/ r.version = 1
          \/ \E s \in Reports' : s.version = r.version - 1
    BY <2>1 DEF IInv, VersionsIncremental
  <2> QED BY <2>2, <2>3, <2>4 DEF VersionsIncremental
<1> QED BY <1>1, <1>2, <1>3, ReportsStep DEF ReportsOnly

\* An allocated version id stays the next one until it is published.
LEMMA AllocatedStep == IInv /\ [Next]_vars => AllocatedInv'
<1> SUFFICES ASSUME IInv, [Next]_vars, NEW c \in Clients, Allocated(c)'
             PROVE  job'[c].version = NextVersion'
  BY DEF AllocatedInv
<1>1. Reports' = Reports
  <2>1. pc'[c] \in Transaction
    BY DEF Allocated
  <2> QED BY <2>1, ReportsStep DEF ReportsOnly
<1>2. NextVersion' = NextVersion
  BY <1>1 DEF NextVersion
<1>3. CASE Allocate(c)
  BY <1>2, <1>3, AllocateFacts
<1>4. CASE Allocated(c) /\ SameReport(c)
  BY <1>2, <1>4 DEF SameReport, IInv, AllocatedInv
<1> QED BY <1>3, <1>4, HolderStep DEF HolderOnly

\* A clock that goes back is remembered as skewed.
LEMMA ClockStep ==
  ASSUME IInv, [Next]_vars, ~skewed'
  PROVE  ~skewed /\ clock \in Nat /\ clock' \in Nat /\ clock <= clock'
<1>1. clock \in Nat /\ clock' \in Nat
  BY TypeStep, ConstantAssumption DEF IInv, TypeOK, Epochs
<1>2. \/ clock' = clock /\ skewed' = skewed
      \/ ~skewed /\ ~(clock' < clock)
  BY DEF Next, Step, Tick, Submit, EnsureSchema, Select, MigrateCheck, Migrate, Define, Begin,
         BusyTimeout, Allocate, OpenParquet, FinishParquet, ReadIndex,
         OpenIndex, WriteIndex, Insert, Abort, Leave, vars
<1> QED BY <1>1, <1>2

\* Creation times follow version ids, and the clock bounds both.
LEMMA EpochStep == IInv /\ [Next]_vars => EpochInv'
<1> SUFFICES ASSUME IInv, [Next]_vars, ~skewed' PROVE EpochInv'
  BY DEF EpochInv
<1> USE ClockStep
<1>1. \A r \in Reports : r.epoch \in Nat /\ r.version \in Nat
  BY DEF IInv, TypeOK, Reports, RowsOf, Row, Epochs
<1>2. ASSUME NEW c \in Clients, Allocated(c)'
      PROVE  /\ job'[c].epoch <= clock'
             /\ \A r \in Reports' : r.req # Legacy => r.epoch <= job'[c].epoch
  <2>1. Reports' = Reports
    BY <1>2, ReportsStep DEF ReportsOnly, Allocated
  <2>2. CASE Allocate(c)
    BY <2>1, <2>2, ClockStep, AllocateFacts DEF IInv, EpochInv
  <2>3. CASE Allocated(c) /\ SameReport(c)
    <3>1. job[c].epoch \in Nat
      BY <2>3 DEF Allocated, Transaction, IInv, CallInv, Job, Epochs
    <3> QED BY <2>1, <2>3, <3>1, ClockStep DEF SameReport, IInv, EpochInv
  <2> QED BY <1>2, <2>2, <2>3, HolderStep DEF HolderOnly
<1>3. \A r \in Reports' : r.req # Legacy => r.epoch <= clock'
  <2>1. CASE Reports' = Reports
    BY <1>1, <2>1, ClockStep DEF IInv, EpochInv
  <2>2. CASE Reports' = LegacyOf("reports")
    BY <2>2, ConstantAssumption DEF LegacyAssumption, LegacyOf
  <2>3. ASSUME NEW c \in Clients, Insert(c)
        PROVE  \A r \in Reports' : r.req # Legacy => r.epoch <= clock'
    <3>1. job[c].epoch \in Nat /\ job[c].epoch <= clock
      BY <2>3 DEF Insert, Allocated, Transaction, IInv, CallInv, EpochInv,
                  Job, Epochs
    <3>2. Published1(c).epoch = job[c].epoch
      BY DEF Published1
    <3> QED BY <1>1, <2>3, <3>1, <3>2, InsertFacts, ClockStep DEF IInv, EpochInv
  <2> QED BY <2>1, <2>2, <2>3, ReportsStep DEF ReportsOnly
<1>4. CreationFollowsVersion'
  <2>1. CASE Reports' = Reports
    BY <2>1 DEF IInv, EpochInv, CreationFollowsVersion
  <2>2. CASE Reports' = LegacyOf("reports")
    BY <2>2, ConstantAssumption
       DEF LegacyAssumption, LegacyOf, CreationFollowsVersion
  <2>3. ASSUME NEW c \in Clients, Insert(c) PROVE CreationFollowsVersion'
    <3> DEFINE new == Published1(c)
    <3>1. /\ Reports' = Reports \cup {new}
          /\ \A r \in Reports : r.version < new.version
          /\ new.version \in Nat
      BY <2>3, InsertFacts
    <3>2. /\ new.epoch \in Nat
          /\ \A r \in Reports : r.req # Legacy => r.epoch <= new.epoch
      BY <2>3 DEF Insert, Allocated, Transaction, IInv, CallInv, EpochInv,
                  Job, Epochs, Published1
    <3> HIDE DEF new
    <3> QED BY <1>1, <3>1, <3>2 DEF IInv, EpochInv, CreationFollowsVersion
  <2> QED BY <2>1, <2>2, <2>3, ReportsStep DEF ReportsOnly
<1> QED BY <1>2, <1>3, <1>4 DEF EpochInv

\* Which calls write which file.
FilesOnly ==
  /\ (\E c \in Clients : OpenParquet(c) \/ FinishParquet(c))
       \/ UNCHANGED <<parquet, opened>>
  /\ (\E c \in Clients : OpenIndex(c) \/ WriteIndex(c)) \/ index' = index
  /\ (\E c \in Clients : Abort(c)) \/ indexLost' = indexLost

\* Only four steps write a file; a call that dies can lose the index.
LEMMA FileStep == IInv /\ [Next]_vars => FilesOnly
<1> SUFFICES ASSUME IInv, [Next]_vars PROVE FilesOnly
  OBVIOUS
<1> USE ConstantAssumption DEF IInv, TypeOK, Goto, Leave, files, FilesOnly
<1>1. CASE Tick
  BY <1>1 DEF Tick
<1>2. ASSUME NEW c \in Clients, Submit(c) PROVE FilesOnly
  BY <1>2 DEF Submit
<1>3. ASSUME NEW c \in Clients, MigrateCheck(c) PROVE FilesOnly
  BY <1>3 DEF MigrateCheck
<1>4. ASSUME NEW c \in Clients, Migrate(c) PROVE FilesOnly
  BY <1>4 DEF Migrate
<1>5. ASSUME NEW c \in Clients, Define(c) PROVE FilesOnly
  BY <1>5 DEF Define
<1>6. ASSUME NEW c \in Clients, Begin(c) PROVE FilesOnly
  BY <1>6 DEF Begin
<1>7. ASSUME NEW c \in Clients, BusyTimeout(c) PROVE FilesOnly
  BY <1>7 DEF BusyTimeout
<1>8. ASSUME NEW c \in Clients, Allocate(c) PROVE FilesOnly
  BY <1>8 DEF Allocate
<1>9. ASSUME NEW c \in Clients, OpenParquet(c) PROVE FilesOnly
  BY <1>9 DEF OpenParquet
<1>10. ASSUME NEW c \in Clients, FinishParquet(c) PROVE FilesOnly
  BY <1>10 DEF FinishParquet
<1>11. ASSUME NEW c \in Clients, ReadIndex(c) PROVE FilesOnly
  BY <1>11 DEF ReadIndex
<1>12. ASSUME NEW c \in Clients, OpenIndex(c) PROVE FilesOnly
  BY <1>12 DEF OpenIndex
<1>13. ASSUME NEW c \in Clients, WriteIndex(c) PROVE FilesOnly
  BY <1>13 DEF WriteIndex
<1>14. ASSUME NEW c \in Clients, Insert(c) PROVE FilesOnly
  BY <1>14 DEF Insert
<1>15. ASSUME NEW c \in Clients, Abort(c) PROVE FilesOnly
  BY <1>15 DEF Abort
<1>16. ASSUME NEW c \in Clients, EnsureSchema(c) PROVE FilesOnly
  BY <1>16, AfterMigrationPoints DEF EnsureSchema
<1>17. ASSUME NEW c \in Clients, Select(c) PROVE FilesOnly
  BY <1>17 DEF Select
<1>18. CASE UNCHANGED vars
  BY <1>18 DEF vars
<1> QED
  BY <1>1, <1>2, <1>3, <1>4, <1>5, <1>6, <1>7,
     <1>8, <1>9, <1>10, <1>11, <1>12, <1>13, <1>14, <1>15, <1>16,
     <1>17, <1>18 DEF Next, Step


\* Where a call whose file is open, or complete, comes from.
ParquetOnly(d) ==
  \/ \E c \in Clients : OpenParquet(c) \/ FinishParquet(c)
  \/ /\ pc'[d] = "parquet" => pc[d] = "parquet" /\ SameReport(d)
     /\ Written(d)' => Written(d) /\ SameReport(d)

\* No other step lets a call believe its file is open or complete.
LEMMA ParquetStep ==
  ASSUME IInv, [Next]_vars, NEW d \in Clients
  PROVE  ParquetOnly(d)
<1> USE ConstantAssumption
      DEF IInv, TypeOK, Goto, Leave, files, Transaction, ParquetOnly,
          Written, SameReport, CallInv, Points
<1>1. CASE Tick
  BY <1>1 DEF Tick
<1>2. ASSUME NEW c \in Clients, Submit(c) PROVE ParquetOnly(d)
  BY <1>2, SubmitFacts, ZenonT(60) DEF Submit
<1>3. ASSUME NEW c \in Clients, MigrateCheck(c) PROVE ParquetOnly(d)
  BY <1>3, AfterMigrationPoints DEF MigrateCheck
<1>4. ASSUME NEW c \in Clients, Migrate(c) PROVE ParquetOnly(d)
  BY <1>4, AfterMigrationPoints DEF Migrate
<1>5. ASSUME NEW c \in Clients, Define(c) PROVE ParquetOnly(d)
  BY <1>5 DEF Define
<1>6. ASSUME NEW c \in Clients, Begin(c) PROVE ParquetOnly(d)
  BY <1>6 DEF Begin
<1>7. ASSUME NEW c \in Clients, BusyTimeout(c) PROVE ParquetOnly(d)
  BY <1>7 DEF BusyTimeout
<1>8. ASSUME NEW c \in Clients, Allocate(c) PROVE ParquetOnly(d)
  BY <1>8, AllocateFacts
<1>9. ASSUME NEW c \in Clients, OpenParquet(c) PROVE ParquetOnly(d)
  BY <1>9
<1>10. ASSUME NEW c \in Clients, FinishParquet(c) PROVE ParquetOnly(d)
  BY <1>10
<1>11. ASSUME NEW c \in Clients, ReadIndex(c) PROVE ParquetOnly(d)
  BY <1>11, ReadIndexFacts DEF ReadIndex
<1>12. ASSUME NEW c \in Clients, OpenIndex(c) PROVE ParquetOnly(d)
  BY <1>12 DEF OpenIndex
<1>13. ASSUME NEW c \in Clients, WriteIndex(c) PROVE ParquetOnly(d)
  BY <1>13 DEF WriteIndex
<1>14. ASSUME NEW c \in Clients, Insert(c) PROVE ParquetOnly(d)
  BY <1>14 DEF Insert
<1>15. ASSUME NEW c \in Clients, Abort(c) PROVE ParquetOnly(d)
  BY <1>15 DEF Abort
<1>16. ASSUME NEW c \in Clients, EnsureSchema(c) PROVE ParquetOnly(d)
  BY <1>16, AfterMigrationPoints DEF EnsureSchema
<1>17. ASSUME NEW c \in Clients, Select(c) PROVE ParquetOnly(d)
  BY <1>17 DEF Select
<1>18. CASE UNCHANGED vars
  BY <1>18 DEF vars
<1> QED
  BY <1>1, <1>2, <1>3, <1>4, <1>5, <1>6, <1>7,
     <1>8, <1>9, <1>10, <1>11, <1>12, <1>13, <1>14, <1>15, <1>16,
     <1>17, <1>18 DEF Next, Step


\* At most one call is inside a transaction.
LEMMA OneTransaction ==
  ASSUME IInv, NEW c \in Clients, NEW d \in Clients,
         pc[c] \in Transaction, pc[d] \in Transaction
  PROVE  c = d
  BY DEF IInv, LockInv

\* The partition a call in its transaction writes is a partition.
LEMMA OwnPartition ==
  ASSUME IInv, NEW c \in Clients, pc[c] \in Transaction
  PROVE  Own(c) \in Partitions
<1>1. job[c].slice \in Slices /\ job[c].epoch \in Epochs
  BY DEF IInv, CallInv, Job, Transaction
<1>2. SafeName[job[c].slice] \in Dirs
  BY <1>1, ConstantAssumption
<1> QED BY <1>1, <1>2 DEF Own, Partition, Partitions

\* Completed partitions stay complete, and the writer of one is in `opened'.
LEMMA SealStep == IInv /\ [Next]_vars => SealInv'
<1> SUFFICES ASSUME IInv, [Next]_vars PROVE SealInv'
  OBVIOUS
<1>1. ASSUME NEW c \in Clients, OpenParquet(c) PROVE SealInv'
  <2>1. /\ Reports' = Reports /\ job' = job /\ pc[c] \in Transaction
        /\ parquet' = [parquet EXCEPT ![Own(c)] = Torn]
        /\ opened' = [opened EXCEPT ![Own(c)] = @ \cup {job[c].req}]
        /\ pc' = [pc EXCEPT ![c] = "parquet"]
    BY <1>1 DEF OpenParquet, Goto, Reports, RowsOf, Transaction
  <2>2. /\ Own(c) \in Partitions /\ pc \in [Clients -> Points]
        /\ parquet \in [Partitions -> Requests \cup {Missing, Torn}]
        /\ opened \in [Partitions -> SUBSET Requests]
    BY <2>1, OwnPartition DEF IInv, TypeOK
  <2>3. ReadySealed'
    <3> SUFFICES ASSUME NEW r \in Reports, r.ready,
                        opened'[Partition(r.slice, r.epoch)] \subseteq {r.req}
                 PROVE  parquet'[Partition(r.slice, r.epoch)] = r.req
      BY <2>1 DEF ReadySealed, Partition
    <3>1. r \in Row /\ r.req # job[c].req
      BY <1>1 DEF IInv, TypeOK, IdentityInv, Reports, RowsOf, OpenParquet
    <3>2. Partition(r.slice, r.epoch) \in Partitions
      BY <3>1, ConstantAssumption DEF Partition, Partitions, Row
    <3>3. Partition(r.slice, r.epoch) # Own(c)
      BY <2>1, <2>2, <3>1
    <3> QED BY <2>1, <2>2, <3>2, <3>3 DEF IInv, SealInv, ReadySealed
  <2>4. ASSUME NEW d \in Clients, pc'[d] \in Transaction PROVE d = c
    <3>1. d = c \/ pc[d] \in Transaction
      BY <2>1, <2>2, <2>4
    <3> QED BY <3>1, <2>1, OneTransaction
  <2>5. ASSUME NEW d \in Clients
        PROVE  /\ pc'[d] = "parquet" => job'[d].req \in opened'[Own(d)']
               /\ Written(d)' => parquet'[Own(d)'] = job'[d].req
    BY <2>1, <2>2, <2>4 DEF Written, Transaction, Own, Partition
  <2> QED BY <2>3, <2>5 DEF SealInv
<1>2. ASSUME NEW c \in Clients, FinishParquet(c) PROVE SealInv'
  <2>1. /\ Reports' = Reports /\ job' = job /\ opened' = opened
        /\ pc[c] \in Transaction
        /\ parquet' = [parquet EXCEPT ![Own(c)] = job[c].req]
        /\ pc' = [pc EXCEPT ![c] = "readIndex"]
    BY <1>2 DEF FinishParquet, Goto, Reports, RowsOf, Transaction
  <2>2. /\ Own(c) \in Partitions /\ pc \in [Clients -> Points]
        /\ parquet \in [Partitions -> Requests \cup {Missing, Torn}]
        /\ job[c].req \in opened[Own(c)]
    BY <1>2, <2>1, OwnPartition DEF FinishParquet, IInv, TypeOK, SealInv
  <2>3. ReadySealed'
    <3> SUFFICES ASSUME NEW r \in Reports, r.ready,
                        opened[Partition(r.slice, r.epoch)] \subseteq {r.req}
                 PROVE  parquet'[Partition(r.slice, r.epoch)] = r.req
      BY <2>1 DEF ReadySealed, Partition
    <3>1. r \in Row /\ r.req # job[c].req
      BY <1>2 DEF IInv, TypeOK, IdentityInv, Reports, RowsOf, FinishParquet
    <3>2. Partition(r.slice, r.epoch) \in Partitions
      BY <3>1, ConstantAssumption DEF Partition, Partitions, Row
    <3>3. Partition(r.slice, r.epoch) # Own(c)
      BY <2>2, <3>1
    <3> QED BY <2>1, <2>2, <3>2, <3>3 DEF IInv, SealInv, ReadySealed
  <2>4. ASSUME NEW d \in Clients, pc'[d] \in Transaction PROVE d = c
    <3>1. d = c \/ pc[d] \in Transaction
      BY <2>1, <2>2, <2>4
    <3> QED BY <3>1, <2>1, OneTransaction
  <2>5. ASSUME NEW d \in Clients
        PROVE  /\ pc'[d] = "parquet" => job'[d].req \in opened'[Own(d)']
               /\ Written(d)' => parquet'[Own(d)'] = job'[d].req
    BY <2>1, <2>2, <2>4 DEF Written, Transaction, Own, Partition
  <2> QED BY <2>3, <2>5 DEF SealInv
<1>3. CASE /\ UNCHANGED <<parquet, opened>>
           /\ ~\E c \in Clients : OpenParquet(c) \/ FinishParquet(c)
  <2>1. ReadySealed'
    <3>1. CASE Reports' = Reports
      BY <1>3, <3>1 DEF IInv, SealInv, ReadySealed, Partition
    <3>2. CASE Reports' = LegacyOf("reports")
      BY <3>2, ConstantAssumption DEF LegacyAssumption, LegacyOf, ReadySealed
    <3>3. ASSUME NEW c \in Clients, Insert(c) PROVE ReadySealed'
      <4>1. Reports' = Reports \cup {Published1(c)}
        BY <3>3, InsertFacts
      <4>2. LET p == Partition(Published1(c).slice, Published1(c).epoch)
            IN Published1(c).ready => parquet[p] = Published1(c).req
        BY <3>3 DEF Insert, IInv, SealInv, Written, Own, Published1
      <4>3. \A r \in Reports :
              LET p == Partition(r.slice, r.epoch)
              IN r.ready /\ opened[p] \subseteq {r.req} => parquet[p] = r.req
        BY DEF IInv, SealInv, ReadySealed
      <4> HIDE DEF Published1
      <4> QED BY <1>3, <4>1, <4>2, <4>3 DEF ReadySealed, Partition
    <3> QED BY <3>1, <3>2, <3>3, ReportsStep DEF ReportsOnly
  <2>2. ASSUME NEW d \in Clients, pc'[d] = "parquet"
        PROVE  job'[d].req \in opened'[Own(d)']
    <3>1. pc[d] = "parquet" /\ SameReport(d)
      BY <1>3, <2>2, ParquetStep DEF ParquetOnly
    <3> QED BY <1>3, <3>1 DEF SameReport, IInv, SealInv, Own, Partition
  <2>3. ASSUME NEW d \in Clients, Written(d)'
        PROVE  parquet'[Own(d)'] = job'[d].req
    <3>1. Written(d) /\ SameReport(d)
      BY <1>3, <2>3, ParquetStep DEF ParquetOnly
    <3> QED BY <1>3, <3>1 DEF SameReport, IInv, SealInv, Own, Partition
  <2> QED BY <2>1, <2>2, <2>3 DEF SealInv
<1> QED BY <1>1, <1>2, <1>3, FileStep DEF FilesOnly

\* Some call reads, opens or fills the index.
IndexMoves == \E c \in Clients : ReadIndex(c) \/ OpenIndex(c) \/ WriteIndex(c)

\* What any other step can do to a call that works on the index.
IndexOnly(d) ==
  \/ IndexMoves
  \/ indexLost'
  \/ /\ ~indexLost
     /\ index' = index
     /\ pc[d] = "writeIndex" => pc'[d] = "writeIndex"
     /\ pc'[d] \in {"openIndex", "writeIndex"} =>
          /\ pc[d] \in {"openIndex", "writeIndex"}
          /\ SameReport(d)
          /\ job'[d].entries = job[d].entries
     /\ pc'[d] = "insert" /\ job'[d].ready =>
          pc[d] = "insert" /\ SameReport(d)

\* No other step disturbs the index or what is about to be written to it.
LEMMA IndexFrame ==
  ASSUME IInv, [Next]_vars, NEW d \in Clients
  PROVE  IndexOnly(d)
<1> USE ConstantAssumption
      DEF IndexMoves, IInv, TypeOK, Goto, Leave, files, Transaction,
          IndexOnly, SameReport, CallInv, Points
<1>1. CASE Tick
  BY <1>1 DEF Tick
<1>2. ASSUME NEW c \in Clients, Submit(c) PROVE IndexOnly(d)
  BY <1>2, SubmitFacts, ZenonT(60) DEF Submit
<1>3. ASSUME NEW c \in Clients, MigrateCheck(c) PROVE IndexOnly(d)
  BY <1>3, AfterMigrationPoints DEF MigrateCheck
<1>4. ASSUME NEW c \in Clients, Migrate(c) PROVE IndexOnly(d)
  BY <1>4, AfterMigrationPoints DEF Migrate
<1>5. ASSUME NEW c \in Clients, Define(c) PROVE IndexOnly(d)
  BY <1>5 DEF Define
<1>6. ASSUME NEW c \in Clients, Begin(c) PROVE IndexOnly(d)
  BY <1>6 DEF Begin
<1>7. ASSUME NEW c \in Clients, BusyTimeout(c) PROVE IndexOnly(d)
  BY <1>7 DEF BusyTimeout
<1>8. ASSUME NEW c \in Clients, Allocate(c) PROVE IndexOnly(d)
  BY <1>8, AllocateFacts, ZenonT(60) DEF Allocate
<1>9. ASSUME NEW c \in Clients, OpenParquet(c) PROVE IndexOnly(d)
  BY <1>9 DEF OpenParquet
<1>10. ASSUME NEW c \in Clients, FinishParquet(c) PROVE IndexOnly(d)
  BY <1>10 DEF FinishParquet
<1>11. ASSUME NEW c \in Clients, ReadIndex(c) PROVE IndexOnly(d)
  BY <1>11
<1>12. ASSUME NEW c \in Clients, OpenIndex(c) PROVE IndexOnly(d)
  BY <1>12
<1>13. ASSUME NEW c \in Clients, WriteIndex(c) PROVE IndexOnly(d)
  BY <1>13
<1>14. ASSUME NEW c \in Clients, Insert(c) PROVE IndexOnly(d)
  BY <1>14 DEF Insert
<1>15. ASSUME NEW c \in Clients, Abort(c) PROVE IndexOnly(d)
  BY <1>15 DEF Abort
<1>16. ASSUME NEW c \in Clients, EnsureSchema(c) PROVE IndexOnly(d)
  BY <1>16, AfterMigrationPoints DEF EnsureSchema
<1>17. ASSUME NEW c \in Clients, Select(c) PROVE IndexOnly(d)
  BY <1>17 DEF Select
<1>18. CASE UNCHANGED vars
  BY <1>18 DEF vars
<1> QED
  BY <1>1, <1>2, <1>3, <1>4, <1>5, <1>6, <1>7,
     <1>8, <1>9, <1>10, <1>11, <1>12, <1>13, <1>14, <1>15, <1>16,
     <1>17, <1>18 DEF Next, Step

\* The index lists every ready report, or is about to.
LEMMA IndexStep == IInv /\ [Next]_vars => IndexInv'
<1> SUFFICES ASSUME IInv, [Next]_vars, ~indexLost' PROVE IndexInv'
  BY DEF IndexInv
<1>1. ASSUME NEW c \in Clients, OpenIndex(c) PROVE IndexInv'
  <2>1. /\ Reports' = Reports /\ job' = job /\ ~indexLost
        /\ pc[c] = "openIndex" /\ pc' = [pc EXCEPT ![c] = "writeIndex"]
        /\ pc \in [Clients -> Points]
    BY <1>1 DEF OpenIndex, Goto, Reports, RowsOf, IInv, TypeOK
  <2>2. ASSUME NEW d \in Clients, pc[d] \in Transaction PROVE d = c
    BY <2>1, <2>2, OneTransaction DEF Transaction
  <2> QED BY <2>1, <2>2 DEF IInv, IndexInv, Transaction, Listed
<1>2. ASSUME NEW c \in Clients, WriteIndex(c) PROVE IndexInv'
  <2>1. /\ Reports' = Reports /\ job' = job /\ ~indexLost
        /\ index' = job[c].entries
        /\ pc[c] = "writeIndex" /\ pc' = [pc EXCEPT ![c] = "insert"]
        /\ pc \in [Clients -> Points]
    BY <1>2 DEF WriteIndex, Goto, Reports, RowsOf, IInv, TypeOK
  <2>2. ASSUME NEW d \in Clients, pc[d] \in Transaction PROVE d = c
    BY <2>1, <2>2, OneTransaction DEF Transaction
  <2> QED BY <2>1, <2>2 DEF IInv, IndexInv, Transaction, Listed
<1>3. ASSUME NEW c \in Clients, ReadIndex(c) PROVE IndexInv'
  <2>1. /\ Reports' = Reports /\ ~indexLost /\ index' = index
        /\ pc[c] = "readIndex" /\ pc'[c] = "openIndex"
        /\ \A d \in Clients \ {c} : pc'[d] = pc[d]
    BY <1>3, ReadIndexFacts DEF ReadIndex, Reports, RowsOf, files
  <2>2. ASSUME NEW d \in Clients, pc[d] \in Transaction PROVE d = c
    BY <2>1, <2>2, OneTransaction DEF Transaction
  <2>3. \A r \in Reports : r.ready => Listed(index, r.slice, r.epoch)
    BY <2>1, <2>2 DEF IInv, IndexInv, Transaction
  <2>4. Listed(job'[c].entries, job'[c].slice, job'[c].epoch)
    <3> DEFINE e == [slice |-> job[c].slice, epoch |-> job[c].epoch,
                     req |-> job[c].req]
    <3>1. e \in NewIndex(c) /\ e.slice = job[c].slice /\ e.epoch = job[c].epoch
      BY DEF NewIndex
    <3> HIDE DEF e
    <3> QED BY <1>3, <3>1, ReadIndexFacts DEF Listed
  <2>5. ASSUME NEW r \in Reports, r.ready
        PROVE  Listed(job'[c].entries, r.slice, r.epoch)
    <3>1. PICK e \in index : e.slice = r.slice /\ e.epoch = r.epoch
      BY <2>3, <2>5 DEF Listed
    <3>2. CASE r.slice = job[c].slice /\ r.epoch = job[c].epoch
      BY <1>3, <2>4, <3>2, ReadIndexFacts
    <3>3. CASE ~(r.slice = job[c].slice /\ r.epoch = job[c].epoch)
      BY <1>3, <3>1, <3>3, ReadIndexFacts DEF NewIndex, Listed
    <3> QED BY <3>2, <3>3
  <2>6. ASSUME NEW d \in Clients,
               pc'[d] \in {"openIndex", "writeIndex", "insert"}
        PROVE  d = c
    BY <2>1, <2>2, <2>6 DEF Transaction
  <2> HIDE DEF Listed
  <2> QED BY <2>1, <2>3, <2>4, <2>5, <2>6 DEF IndexInv
<1>4. CASE ~IndexMoves
  <2>1. \A d \in Clients :
          /\ ~indexLost
          /\ index' = index
          /\ pc[d] = "writeIndex" => pc'[d] = "writeIndex"
          /\ pc'[d] \in {"openIndex", "writeIndex"} =>
               /\ pc[d] \in {"openIndex", "writeIndex"}
               /\ SameReport(d)
               /\ job'[d].entries = job[d].entries
          /\ pc'[d] = "insert" /\ job'[d].ready =>
               pc[d] = "insert" /\ SameReport(d)
    BY <1>4, IndexFrame DEF IndexOnly
  <2>2. ~indexLost /\ index' = index
    <3>1. /\ index' = index
          /\ indexLost' = indexLost \/ \E c \in Clients : Abort(c)
      BY <1>4, FileStep DEF FilesOnly, IndexMoves
    <3>2. ASSUME NEW c \in Clients, Abort(c) PROVE ~indexLost
      BY <3>2 DEF Abort
    <3> QED BY <3>1, <3>2
  <2>3. CASE Reports' = Reports
    BY <2>1, <2>2, <2>3 DEF IInv, IndexInv, SameReport
  <2>4. CASE /\ \A c \in Clients : pc'[c] \notin Transaction
             /\ Reports' = LegacyOf("reports")
    <3>1. \A r \in Reports' : ~r.ready
      BY <2>4, ConstantAssumption DEF LegacyAssumption, LegacyOf
    <3> QED BY <2>4, <3>1 DEF IndexInv, Transaction
  <2>5. ASSUME NEW c \in Clients, Insert(c),
               \A d \in Clients : pc'[d] \notin Transaction
        PROVE  IndexInv'
    <3>1. Reports' = Reports \cup {Published1(c)} /\ pc[c] = "insert"
      BY <2>5, InsertFacts DEF Insert
    <3>2. \A d \in Clients : pc[d] # "writeIndex"
      BY <3>1, OneTransaction DEF Transaction
    <3>3. \A r \in Reports : r.ready => Listed(index, r.slice, r.epoch)
      BY <2>2, <3>2 DEF IInv, IndexInv
    <3>4. Published1(c).ready
            => Listed(index, Published1(c).slice, Published1(c).epoch)
      BY <2>2, <3>1 DEF IInv, IndexInv, Published1
    <3> QED BY <2>2, <2>5, <3>1, <3>3, <3>4 DEF IndexInv, Transaction
  <2> QED BY <2>3, <2>4, <2>5, ReportsStep DEF ReportsOnly
<1> QED BY <1>1, <1>2, <1>3, <1>4 DEF IndexMoves

\* IInv is an inductive invariant of the lifecycle.
LEMMA Inductive == IInv /\ [Next]_vars => IInv'
  BY TypeStep, LockStep, CallStep, MigratedStep, VersionsStep, AllocatedStep,
     PrimaryKeyStep, IdentityStep, EpochStep, SealStep, IndexStep DEF IInv

\* Every behaviour of the lifecycle satisfies the strengthened invariant.
THEOREM SpecInvariant == Spec => []IInv
<1>1. Init => IInv
  BY InitIInv
<1>2. IInv /\ [Next]_vars => IInv'
  BY Inductive
<1> QED BY <1>1, <1>2, PTL DEF Spec

(***************************************************************************)
(* The properties of the lifecycle, each a consequence of IInv.            *)
(***************************************************************************)

\* Type correctness: every variable keeps the values the code can give it.
THEOREM TypeCorrect == Spec => []TypeOK
<1>1. IInv => TypeOK
  BY DEF IInv
<1> QED BY <1>1, SpecInvariant, PTL

\* create_report's version ids are unique and without gaps, for any number of
\* callers that race for the lock, fail, time out or die.
THEOREM VersionsAreIncremental == Spec => []VersionsIncremental
<1>1. IInv => VersionsIncremental
  BY DEF IInv
<1> QED BY <1>1, SpecInvariant, PTL

\* created_at, which _load sorts by, never decreases along version ids while no
\* clock was set back and no two hosts disagreed on the second.
THEOREM CreationIsOrdered == Spec => []CreationFollowsVersion
<1>1. IInv => CreationFollowsVersion
  BY DEF IInv, EpochInv, CreationFollowsVersion
<1> QED BY <1>1, SpecInvariant, PTL

\* A ready report's Parquet partition is complete and its own, unless another
\* call opened the same partition.
THEOREM ReadyIsSealed == Spec => []ReadySealed
<1>1. IInv => ReadySealed
  BY DEF IInv, SealInv
<1> QED BY <1>1, SpecInvariant, PTL

\* index.json lists every ready report, unless a call died inside its rewrite.
THEOREM IndexIsComplete == Spec => []IndexComplete
<1>1. IInv => IndexComplete
  <2> SUFFICES ASSUME IInv, ~indexLost, lock = NoClient,
                      NEW r \in Reports, r.ready
               PROVE  \E e \in index : e.slice = r.slice /\ e.epoch = r.epoch
    BY DEF IndexComplete
  <2>1. \A c \in Clients : pc[c] # "writeIndex"
    BY ConstantAssumption DEF IInv, LockInv, Transaction
  <2> QED BY <2>1 DEF IInv, IndexInv, Listed
<1> QED BY <1>1, SpecInvariant, PTL

\* No row created after the upgrade to SQLite takes the key of a row of the
\* retired JSON files.
THEOREM LegacyIsPreserved == Spec => []LegacyDefinitionsWin
<1>1. IInv => LegacyDefinitionsWin
  <2> SUFFICES ASSUME IInv, backend = "sqlite", NEW r \in rows,
                      NEW l \in LegacyRows, SameKey(r, l)
               PROVE  r = l
    BY DEF LegacyDefinitionsWin
  <2>1. r.kind = l.kind /\ l.kind \in Kinds
    BY ConstantAssumption DEF SameKey, LegacyAssumption, Row
  <2>2. LegacyOf(l.kind) \subseteq rows
    BY <2>1 DEF IInv, MigratedInv, RowsOf
  <2>3. l \in rows
    BY <2>2 DEF LegacyOf
  <2> QED BY <2>3 DEF IInv, PrimaryKey
<1> QED BY <1>1, SpecInvariant, PTL

\* Rows are only ever added.
LEMMA RowsGrow == [Next]_vars => rows \subseteq rows'
  BY DEF Next, Step, Tick, Submit, EnsureSchema, Select, MigrateCheck,
         Migrate, Define, Begin, BusyTimeout, Allocate, OpenParquet, FinishParquet, ReadIndex,
         OpenIndex, WriteIndex, Insert, Abort, vars

\* INSERT never replaces: a committed row keeps its key and its content.
THEOREM CommittedRowsAreFinal == Spec => RowsAreFinal
<1>1. IInv /\ IInv' /\ [Next]_vars =>
        [\A r \in rows : \A s \in rows' : /\ r \in rows'
                                          /\ SameKey(r, s) => r = s]_vars
  BY RowsGrow DEF IInv, PrimaryKey
<1> QED BY <1>1, SpecInvariant, PTL DEF Spec, RowsAreFinal

\* Only a report of the same directory and second can rewrite a ready report's
\* Parquet file, whatever the clocks do.
THEOREM RewritesShareTheSecond == Spec => RewrittenWithinSecond
<1> DEFINE Within ==
      \A r \in Reports :
       LET p == Partition(r.slice, r.epoch)
       IN r.ready /\ parquet'[p] # parquet[p]
            => \E c \in Clients :
                 /\ pc[c] \in {"calculate", "parquet"}
                 /\ job[c].epoch = r.epoch
                 /\ SafeName[job[c].slice] = SafeName[r.slice]
<1>1. IInv /\ [Next]_vars => Within
  <2> SUFFICES ASSUME IInv, [Next]_vars, NEW r \in Reports,
                      parquet'[Partition(r.slice, r.epoch)] #
                        parquet[Partition(r.slice, r.epoch)]
               PROVE  \E c \in Clients :
                        /\ pc[c] \in {"calculate", "parquet"}
                        /\ job[c].epoch = r.epoch
                        /\ SafeName[job[c].slice] = SafeName[r.slice]
    OBVIOUS
  <2>1. PICK c \in Clients : OpenParquet(c) \/ FinishParquet(c)
    BY FileStep DEF FilesOnly
  <2>2. pc[c] \in {"calculate", "parquet"}
    BY <2>1 DEF OpenParquet, FinishParquet
  <2>3. Own(c) = Partition(r.slice, r.epoch)
    <3>1. \E x : parquet' = [parquet EXCEPT ![Own(c)] = x]
      BY <2>1 DEF OpenParquet, FinishParquet
    <3>2. Partition(r.slice, r.epoch) \in Partitions
      BY ConstantAssumption
         DEF Partition, Partitions, Row, IInv, TypeOK, Reports, RowsOf
    <3> HIDE DEF Own, Partition
    <3> QED BY <3>1, <3>2 DEF IInv, TypeOK
  <2>4. /\ job[c].epoch = r.epoch
        /\ SafeName[job[c].slice] = SafeName[r.slice]
    BY <2>3 DEF Own, Partition
  <2> QED BY <2>2, <2>4
<1>2. IInv /\ [Next]_vars => [Within]_vars
  BY <1>1
<1> QED BY <1>2, SpecInvariant, PTL DEF Spec, RewrittenWithinSecond

\* Published is the refinement mapping; it sees the reports only.
LEMMA PublishedReports ==
  Published(rows) = {[req |-> r.req, version |-> r.version] : r \in Reports}
  BY DEF Published, Reports, RowsOf

\* The detailed lifecycle implements the append-only ledger of reports.
THEOREM RefinesLedger == Spec => LedgerRefined
<1>1. Init => Ledger!Init
  BY DEF Init, Ledger!Init, Published
<1>2. IInv /\ [Next]_vars => [Ledger!Next]_(Published(rows))
  <2> SUFFICES ASSUME IInv, [Next]_vars
               PROVE  Ledger!Next \/ Published(rows)' = Published(rows)
    OBVIOUS
  <2>1. CASE Reports' = Reports
    BY <2>1, PublishedReports DEF Published, Reports, RowsOf
  <2>2. CASE Reports = {} /\ Reports' = LegacyOf("reports")
    BY <2>2 DEF Published, Reports, RowsOf, LegacyOf, Ledger!Next, Ledger!Import
  <2>3. ASSUME NEW c \in Clients, Insert(c) PROVE Ledger!Next
    <3> DEFINE q == job[c].req
               v == Published1(c).version
               old == Published(rows)
    <3>1. /\ Reports' = Reports \cup {Published1(c)}
          /\ v \in Nat \ {0}
          /\ \A r \in Reports : r.version < v /\ r.version \in Nat
          /\ v = 1 \/ \E s \in Reports : s.version = v - 1
      BY <2>3, InsertFacts DEF IInv, TypeOK, Row, Reports, RowsOf
    <3>2. q \in Requests /\ Published1(c).req = q
      BY <2>3 DEF Insert, IInv, CallInv, Job, Published1
    <3>3. \A r \in Reports : r.req # q
      BY <2>3 DEF Insert, IInv, IdentityInv, Reports, RowsOf
    <3>4. old = {[req |-> r.req, version |-> r.version] : r \in Reports}
      BY PublishedReports
    <3>5. Published(rows)' = old \cup {[req |-> q, version |-> v]}
      <4>1. Published(rows)' =
              {[req |-> r.req, version |-> r.version] : r \in Reports'}
        BY DEF Published, Reports, RowsOf
      <4>2. Published1(c) \in Reports'
        BY <3>1
      <4> HIDE DEF v, q, Published1
      <4> QED BY <3>1, <3>2, <3>4, <4>1, <4>2 DEF v
    <3>6. v \in Ledger!Successors(old)
      <4>1. CASE v = 1
        BY <4>1 DEF Ledger!Successors
      <4>2. CASE \E s \in Reports : s.version = v - 1
        <5>1. PICK s \in Reports : s.version = v - 1
          BY <4>2
        <5>2. [req |-> s.req, version |-> s.version] \in old
          BY <3>4
        <5>3. PICK e \in old : e.version = v - 1
          BY <5>1, <5>2
        <5>4. v = e.version + 1
          BY <3>1, <5>3
        <5> QED BY <5>4 DEF Ledger!Successors
      <4> QED BY <3>1, <4>1, <4>2
    <3>7. \A e \in old : e.req # q /\ e.version < v
      BY <3>1, <3>3, <3>4
    <3> HIDE DEF q, v, old
    <3> QED BY <3>2, <3>5, <3>6, <3>7 DEF Ledger!Next, Ledger!Publish, old
  <2> QED BY <2>1, <2>2, <2>3, ReportsStep DEF ReportsOnly
<1> QED BY <1>1, <1>2, SpecInvariant, PTL DEF Spec, LedgerRefined, Ledger!Spec
====
