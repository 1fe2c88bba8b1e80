----------------------------- MODULE SsrmQuery -----------------------------
(***************************************************************************)
(* The server-side row model query (olap.py): grouping, drilling down,     *)
(* filtering, pivoting and paging over one table, as one SQL statement     *)
(* with positional parameters.  Columns are names, cells naturals, of      *)
(* which 0 stands for NULL.  The database is external: it gives the k-th   *)
(* placeholder of the statement the k-th parameter, refuses a statement    *)
(* with another number of them, and compares nothing with NULL.            *)
(***************************************************************************)
EXTENDS Ascending, Sequences, SequencesExt, FiniteSetsExt

\* A request: the groups and the keys of the levels opened, the filters, the
\* pivot's column, the measures, the rows asked for and their order.
FilterTerm == [column : STRING, args : Seq(Nat),
               kind : {"equals", "notEqual", "inRange", "set"}]
Query == [groups : Seq(STRING), keys : Seq(Nat), filters : Seq(FilterTerm),
          pivot : STRING, values : Seq(STRING), start : Nat, end : Nat,
          sort : {"none", "asc", "desc"}]

Null == 0

\* What a comparison says of a cell once its placeholders are bound to args:
\* with NULL on a side it is not true, and the row is not selected.  An empty
\* set filter is FALSE.
Holds(kind, x, args) ==
  /\ x # Null
  /\ CASE kind = "equals"   -> x = args[1]
       [] kind = "notEqual" -> args[1] # Null /\ x # args[1]
       [] kind = "inRange"  -> args[1] # Null /\ args[1] <= x /\ x <= args[2]
       [] kind = "set"      -> x \in {args[i] : i \in DOMAIN args}

\* One level of the groups is asked for: the level below the keys given.  A
\* request with a key for every group asks for the leaves.
Refused(q) == Len(q.keys) > Len(q.groups)
IsGrouping(q) == Len(q.groups) > Len(q.keys)
GroupField(q) == q.groups[Len(q.keys) + 1]
IsPivot(q) == IsGrouping(q) /\ q.pivot # "none" /\ q.values # <<>>
ColumnValues(table, column) ==
  SetToSortSeq({table[r][column] : r \in DOMAIN table} \ {Null}, <)

\* Mutant: the filters are forgotten once a key is given.
WhereTermsOfKeys(q) ==
  IF q.keys = <<>> THEN q.filters
  ELSE [i \in DOMAIN q.keys |->
          [column |-> q.groups[i], kind |-> "equals", args |-> <<q.keys[i]>>]]
\* The WHERE clause: a column and a comparison for each key and filter.
WhereTerms(q) ==
  [i \in DOMAIN q.keys |->
     [column |-> q.groups[i], kind |-> "equals", args |-> <<q.keys[i]>>]]
    \o q.filters
WhereArgs(terms) == FlattenSeq([i \in DOMAIN terms |-> terms[i].args])

\* The cells of the SELECT list: with a pivot one for each value of its
\* column and each measure, else one for each measure.
PivotCells(q, table) ==
  FlattenSeq([c \in DOMAIN ColumnValues(table, q.pivot) |->
    [v \in DOMAIN q.values |->
       [value |-> ColumnValues(table, q.pivot)[c], measure |-> q.values[v]]]])

\* Mutant: no row beyond those asked for.
LimitExact(q) == Max({q.end, q.start}) - q.start
\* One row more than asked for.
Limit(q) == Max({q.end, q.start}) - q.start + 1
Offset(q) == q.start

\* Placeholders in the order of the statement's text: SELECT, WHERE.  Those of
\* limit and offset are the last, as their parameters are.
SelectHoles(q, table) == IF IsPivot(q) THEN Len(PivotCells(q, table)) ELSE 0
Holes(q, table) == SelectHoles(q, table) + Len(WhereArgs(WhereTerms(q)))

\* Parameters in the order _build_query appends them: keys, filters, one for
\* each value of the pivot's column.
Params(q, table) ==
  WhereArgs(WhereTerms(q))
    \o (IF IsPivot(q) THEN ColumnValues(table, q.pivot) ELSE <<>>)

\* The terms of the WHERE clause with what their placeholders are bound to.
BoundWhere(q, params, skip) ==
  LET terms == WhereTerms(q)
      From(i) == skip + Len(WhereArgs(SubSeq(terms, 1, i - 1)))
  IN [i \in DOMAIN terms |->
        [terms[i] EXCEPT !.args = [k \in DOMAIN @ |-> params[From(i) + k]]]]

Satisfies(row, terms) ==
  \A i \in DOMAIN terms : Holds(terms[i].kind, row[terms[i].column],
                                terms[i].args)
SumColumn(table, rows, column) ==
  SumFunctionOnSet([r \in rows |-> table[r][column]], rows)

\* The rows of the answer, before paging.
Answer(q, table, params) ==
  LET select == SelectHoles(q, table)
      rows == {r \in DOMAIN table :
                 Satisfies(table[r], BoundWhere(q, params, select))}
      Member(g) == {r \in rows : table[r][GroupField(q)] = g}
      Cells(g) ==
        IF IsPivot(q)
        THEN [c \in DOMAIN PivotCells(q, table) |->
                SumColumn(table, {r \in Member(g) :
                                    table[r][q.pivot] = params[c]},
                          PivotCells(q, table)[c].measure)]
        ELSE [v \in DOMAIN q.values |->
                SumColumn(table, Member(g), q.values[v])]
  IN IF IsGrouping(q)
     THEN {[id |-> g, cells |-> Cells(g)] :
             g \in {table[r][GroupField(q)] : r \in rows}}
     ELSE {[id |-> r, cells |-> [v \in DOMAIN q.values |->
                                   table[r][q.values[v]]]] : r \in rows}

\* Without a sort on the rows' identity their order is the database's.  NULL
\* comes last in both directions.
Sorted(answer, descending) ==
  LET ids == Ascending({row.id : row \in answer})
      nulls == \E row \in answer : row.id = Null
      Place(n) == IF descending THEN Len(ids) + 1 - n
                  ELSE IF ~nulls THEN n
                  ELSE IF n = Len(ids) THEN 1 ELSE n + 1
  IN [n \in DOMAIN ids |-> CHOOSE row \in answer : row.id = ids[Place(n)]]
Orders(q, answer) ==
  IF q.sort = "none" THEN SetToSeqs(answer)
  ELSE {Sorted(answer, q.sort = "desc")}

\* query_ssrm: one row more than asked tells that there are more.
Page(q, ordered) ==
  LET fetched == SubSeq(ordered, Offset(q) + 1,
                        Min({Offset(q) + Limit(q), Len(ordered)}))
      requested == Max({q.end - q.start, 0})
      more == Len(fetched) > requested
  IN [rows |-> IF more THEN SubSeq(fetched, 1, requested) ELSE fetched,
      lastRow |-> IF more THEN -1 ELSE q.start + Len(fetched)]

Failure == [rows |-> <<>>, lastRow |-> -2]
QuerySsrm(q, table) ==
  LET params == Params(q, table)
  IN IF Refused(q) \/ Len(params) # Holes(q, table) THEN {Failure}
     ELSE {Page(q, ordered) : ordered \in Orders(q, Answer(q, table, params))}
=============================================================================
