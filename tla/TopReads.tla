------------------------------ MODULE TopReads ------------------------------
(***************************************************************************)
(* The reads that return the worst rows up to a limit (ops/tables.py,      *)
(* ops/queries.py, ops/indexes.py) and the two analyses over them          *)
(* (ops/analysis.py).  A read asks for one row more than it returns, so    *)
(* that it can say whether it was cut.                                     *)
(*                                                                         *)
(* Each operator is the set of the possible answers: rows of equal rank    *)
(* come in any order, and the first of them stands for an ordered list.    *)
(* One call is made, of one tool, and its answer kept.                     *)
(* Columns that neither rank nor select a row are left out.  An index is   *)
(* measured in pages, as its size is a number of whole pages.              *)
(***************************************************************************)
EXTENDS Integers, FiniteSets

CONSTANTS
  RowCap,          \* the highest limit of a read
  RankedCap,       \* MAX_ROWS of the analyses
  DeadTupWarn,     \* _DEAD_TUP_WARN
  DeadPctWarn,     \* _DEAD_PCT_WARN
  EntriesPerPage,  \* _BLOCK_SIZE / _AVG_ENTRY_BYTES
  Names,           \* of the tables, statements or indexes of a server
  Tuples,          \* bound: counts of tuples
  Sizes,           \* bound: pages of an index; times of a statement
  Limits           \* bound: limits that a caller passes

ASSUME CapAssumption == RowCap \in Nat \ {0} /\ RankedCap \in Nat \ {0}
ASSUME WarnAssumption ==
  DeadTupWarn \in Nat \ {0} /\ DeadPctWarn \in Nat /\ EntriesPerPage \in Nat \ {0}
ASSUME InputAssumption ==
  /\ IsFiniteSet(Names)
  /\ Tuples \subseteq Nat /\ Sizes \subseteq Nat /\ Limits \subseteq Int

VARIABLES
  asked,    \* the tool called, the statistics it met, and the caller's limit
  returned  \* what it returned

reads == <<asked, returned>>

Idle == asked = [tool |-> "none"] /\ returned = {}

(* The first n of rows by a descending rank. *)
TopOf(rows, rank, n) ==
  {top \in SUBSET rows :
     /\ Cardinality(top) = IF Cardinality(rows) < n THEN Cardinality(rows) ELSE n
     /\ \A r \in top, q \in rows \ top : rank[q] <= rank[r]}

Requested(limit) ==
  IF limit < 1 THEN 1 ELSE IF limit > RowCap THEN RowCap ELSE limit

(* fetched[:requested] under a flag that is measured. *)
Envelopes(fetched, rank, n) ==
  {[rows |-> kept, limit |-> n, truncated |-> Cardinality(fetched) > n] :
     kept \in TopOf(fetched, rank, n)}

(* Faulty: no row more than is returned. *)
ReadNoMore(rows, rank, limit) ==
  LET n == Requested(limit) IN
    UNION {Envelopes(fetched, rank, n) : fetched \in TopOf(rows, rank, n)}

(* Faulty: ascending. *)
ReadAscending(rows, rank, limit) ==
  LET n == Requested(limit)
      up == [r \in rows |-> -rank[r]] IN
    UNION {Envelopes(fetched, up, n) : fetched \in TopOf(rows, up, n + 1)}

(* ORDER BY rank DESC LIMIT requested + 1. *)
Read(rows, rank, limit) ==
  LET n == Requested(limit) IN
    UNION {Envelopes(fetched, rank, n) : fetched \in TopOf(rows, rank, n + 1)}

-----------------------------------------------------------------------------
(* pg_stat_user_tables, as far as the analysis looks at it.                 *)
TableStats == [Names -> [dead : Tuples, live : Tuples, vacuumed : BOOLEAN]]

TableBloat(tables, limit) ==
  Read(DOMAIN tables, [t \in DOMAIN tables |-> tables[t].dead], limit)

(* In hundredths of a percent, rounded: round(100.0 * dead / total, 2).     *)
DeadPct(table) ==
  LET total == table.dead + table.live IN
    IF total = 0 THEN 0 ELSE (20000 * table.dead + total) \div (2 * total)

(* _vacuum_recommendation: dead by share, or never vacuumed.                *)
NeedsVacuum(table) ==
  table.dead >= DeadTupWarn /\ (DeadPct(table) >= 100 * DeadPctWarn \/ ~table.vacuumed)

BloatAndVacuum(tables, limit) ==
  UNION {LET needy == {t \in source.rows : NeedsVacuum(tables[t])} IN
           {[source |-> source, advised |-> advised, truncated |-> Cardinality(needy) > RankedCap] :
              advised \in TopOf(needy, [t \in needy |-> DeadPct(tables[t])], RankedCap)} :
           source \in TableBloat(tables, limit)}

AskVacuum(tables, limit) ==
  /\ asked' = [tool |-> "vacuum", tables |-> tables, limit |-> limit]
  /\ returned' \in BloatAndVacuum(tables, limit)

-----------------------------------------------------------------------------
(* pg_stat_statements by total time; slow_query_rca takes the worst one.    *)
TopQueries(times, limit) == Read(DOMAIN times, times, limit)

SlowQuery(times, limit) ==
  UNION {TopOf(source.rows, times, 1) : source \in TopQueries(times, limit)}

AskSlowQuery(times, limit) ==
  /\ asked' = [tool |-> "slow query", times |-> times, limit |-> limit]
  /\ returned' \in SlowQuery(times, limit)

(* Indexes by size, and then by what exceeds the ideal; a table that was    *)
(* never analyzed counts -1 tuples.                                         *)
IndexStats == [Names -> [pages : Sizes, tuples : Tuples \cup {-1}]]

Bloat(index) ==
  LET tuples == IF index.tuples > 0 THEN index.tuples ELSE 0
      ideal == (tuples + EntriesPerPage - 1) \div EntriesPerPage + 1 IN
    IF index.pages > ideal THEN index.pages - ideal ELSE 0

IndexBloat(indexes, limit) ==
  UNION {{[source |-> source, first |-> first] :
            first \in TopOf(source.rows, [i \in source.rows |-> Bloat(indexes[i])], 1)} :
           source \in Read(DOMAIN indexes, [i \in DOMAIN indexes |-> indexes[i].pages], limit)}

AskIndexes(indexes, limit) ==
  /\ asked' = [tool |-> "indexes", indexes |-> indexes, limit |-> limit]
  /\ returned' \in IndexBloat(indexes, limit)

Ask ==
  /\ asked.tool = "none"
  /\ \/ \E tables \in TableStats, limit \in Limits : AskVacuum(tables, limit)
     \/ \E times \in [Names -> Sizes], limit \in Limits : AskSlowQuery(times, limit)
     \/ \E indexes \in IndexStats, limit \in Limits : AskIndexes(indexes, limit)

ReadSpec == Idle /\ [][Ask]_reads
-----------------------------------------------------------------------------
(* A table that needs a vacuum is left out only by an answer that says it   *)
(* was cut; and, as the tables come by their dead tuples, a cut of the      *)
(* source that evaluated a table with few of them has left out none.        *)
LeftOutIsSaid ==
  asked.tool = "vacuum" =>
    \A t \in Names :
      NeedsVacuum(asked.tables[t]) /\ t \notin returned.advised =>
        \/ returned.truncated
        \/ /\ returned.source.truncated
           /\ \A u \in returned.source.rows : asked.tables[u].dead >= DeadTupWarn

(* What a limit cuts off is no worse than what is shown: the slow query     *)
(* that is explained is the worst of all statements, and an index that was  *)
(* not fetched can exceed the first one only while that exceeds none of     *)
(* the sizes that were.                                                     *)
CutOffIsNoWorse ==
  /\ asked.tool = "slow query" =>
       \A w \in returned, q \in Names : asked.times[q] <= asked.times[w]
  /\ asked.tool = "indexes" =>
       \A w \in returned.first, i \in Names :
         Bloat(asked.indexes[i]) > Bloat(asked.indexes[w]) =>
           /\ returned.source.truncated
           /\ \A j \in returned.source.rows : Bloat(asked.indexes[w]) < asked.indexes[j].pages
=============================================================================
