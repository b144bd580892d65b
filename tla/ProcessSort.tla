----------------------------- MODULE ProcessSort -----------------------------
(***************************************************************************)
(* The row comparators of src/src/process_item.cpp, the sortBy functions  *)
(* which the process list hands to its sort with the header's order.       *)
(* A sort needs its comparator to be a strict weak ordering: irreflexive,  *)
(* transitive, and with "neither before the other" transitive too.         *)
(*                                                                         *)
(* The state is the column and order the list is sorted by and three rows  *)
(* of the table; Init enumerates them and nothing changes them, so every   *)
(* reachable state is one input the invariants are checked on. A row only  *)
(* carries the fields its column's comparator reads; the others are 0.     *)
(*                                                                         *)
(* Doubles: cpu is a double and may be NaN (calculateCPUPercentage divides *)
(* by the system tick delta, which is 0 when two updates fall in one       *)
(* jiffy). Every comparison with NaN, == included, is false. Names compare *)
(* with == first, then with QCollator::compare, modelled as a rank per     *)
(* name: two different names may have the same rank (the collator finds   *)
(* them equal, e.g. canonically equivalent Unicode).                       *)
(***************************************************************************)
EXTENDS Integers, Relation

CONSTANTS
  Names,      \* display names
  Collate,    \* [Names -> Nat]: rank of a name under QCollator::compare
  CpuVals,    \* CPU shares a row may show (may include NaN)
  NaN,        \* the double not-a-number
  Vals        \* values of the integer columns

ASSUME Collate \in [Names -> Nat] /\ NaN \notin Vals

Columns == {"name", "cpu", "memory", "diskRead", "diskWrite",
            "download", "upload", "pid"}

VARIABLES sortColumn, descendingSort, r1, r2, r3
vars == <<sortColumn, descendingSort, r1, r2, r3>>

Zero == [name |-> CHOOSE n \in Names : TRUE, cpu |-> 0, memory |-> 0, pid |-> 0,
         readKbs |-> 0, writeKbs |-> 0, recvKbs |-> 0, recvBytes |-> 0,
         sentKbs |-> 0, sentBytes |-> 0]

\* The rows that differ in what the column's comparator reads.
RowsFor(col) ==
  CASE col = "name"      -> {[Zero EXCEPT !.name = n, !.cpu = c] : n \in Names, c \in CpuVals}
    [] col = "cpu"       -> {[Zero EXCEPT !.cpu = c, !.memory = m] : c \in CpuVals, m \in Vals}
    [] col = "memory"    -> {[Zero EXCEPT !.memory = m, !.cpu = c] : m \in Vals, c \in CpuVals}
    [] col = "diskRead"  -> {[Zero EXCEPT !.readKbs = v] : v \in Vals}
    [] col = "diskWrite" -> {[Zero EXCEPT !.writeKbs = v] : v \in Vals}
    [] col = "download"  -> {[Zero EXCEPT !.recvKbs = k, !.recvBytes = b] : k, b \in Vals}
    [] col = "upload"    -> {[Zero EXCEPT !.sentKbs = k, !.sentBytes = b] : k, b \in Vals}
    [] col = "pid"       -> {[Zero EXCEPT !.pid = v] : v \in Vals}

\* C++ double comparisons.
DGt(x, y) == x # NaN /\ y # NaN /\ x > y
DEq(x, y) == x # NaN /\ y # NaN /\ x = y

\* The common tail of every comparator.
Ordered(sortOrder, desc) == IF desc THEN sortOrder ELSE ~sortOrder

SortByCPU_geq(i1, i2, desc) ==
  Ordered(IF DEq(i1.cpu, i2.cpu) THEN i1.memory >= i2.memory
          ELSE DGt(i1.cpu, i2.cpu), desc)

SortByCPU(i1, i2, desc) ==
  Ordered(IF DEq(i1.cpu, i2.cpu) THEN i1.memory > i2.memory
          ELSE DGt(i1.cpu, i2.cpu), desc)

SortByDiskRead(i1, i2, desc)  == Ordered(i1.readKbs > i2.readKbs, desc)
SortByDiskWrite(i1, i2, desc) == Ordered(i1.writeKbs > i2.writeKbs, desc)

SortByMemory(i1, i2, desc) ==
  Ordered(IF i1.memory = i2.memory THEN DGt(i1.cpu, i2.cpu)
          ELSE i1.memory > i2.memory, desc)

SortByName(i1, i2, desc) ==
  Ordered(IF i1.name = i2.name THEN DGt(i1.cpu, i2.cpu)
          ELSE Collate[i1.name] < Collate[i2.name], desc)

SortByNetworkDownload(i1, i2, desc) ==
  Ordered(IF i1.recvKbs = i2.recvKbs THEN i1.recvBytes > i2.recvBytes
          ELSE i1.recvKbs > i2.recvKbs, desc)

SortByNetworkUpload(i1, i2, desc) ==
  Ordered(IF i1.sentKbs = i2.sentKbs THEN i1.sentBytes > i2.sentBytes
          ELSE i1.sentKbs > i2.sentKbs, desc)

SortByPid(i1, i2, desc) == Ordered(i1.pid > i2.pid, desc)

\* The comparator registered for each column.
Compare(col, i1, i2, desc) ==
  CASE col = "name"      -> SortByName(i1, i2, desc)
    [] col = "cpu"       -> SortByCPU(i1, i2, desc)
    [] col = "memory"    -> SortByMemory(i1, i2, desc)
    [] col = "diskRead"  -> SortByDiskRead(i1, i2, desc)
    [] col = "diskWrite" -> SortByDiskWrite(i1, i2, desc)
    [] col = "download"  -> SortByNetworkDownload(i1, i2, desc)
    [] col = "upload"    -> SortByNetworkUpload(i1, i2, desc)
    [] col = "pid"       -> SortByPid(i1, i2, desc)

Init ==
  /\ sortColumn \in Columns
  /\ descendingSort \in BOOLEAN
  /\ r1 \in RowsFor(sortColumn) /\ r2 \in RowsFor(sortColumn)
  /\ r3 \in RowsFor(sortColumn)

\* The comparators keep no state: every behaviour stays on its input.
Next == UNCHANGED vars

Spec == Init /\ [][Next]_vars

-----------------------------------------------------------------------------
\* The reference definition: a strict weak ordering on S.
IsStrictWeakOrderUnder(op(_, _), S) ==
  /\ IsStrictlyPartiallyOrderedUnder(op, S)
  /\ IsTransitiveUnder(LAMBDA x, y : ~op(x, y) /\ ~op(y, x), S)

Rows == {r1, r2, r3}

(***************************************************************************)
(* In descending order every comparator is a strict weak ordering of the  *)
(* table's rows, so the sort of the process list is well defined whatever *)
(* values the rows hold.                                                   *)
(***************************************************************************)
DescendingSortIsStrictWeak ==
  descendingSort =>
    IsStrictWeakOrderUnder(LAMBDA a, b : Compare(sortColumn, a, b, TRUE), Rows)

(***************************************************************************)
(* The same in ascending order. Every comparator returns !sortOrder there, *)
(* which is true for two equal rows and for a row and itself.              *)
(***************************************************************************)
AscendingSortIsStrictWeak ==
  ~descendingSort =>
    IsStrictWeakOrderUnder(LAMBDA a, b : Compare(sortColumn, a, b, FALSE), Rows)

====
