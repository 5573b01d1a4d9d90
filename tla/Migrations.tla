----------------------------- MODULE Migrations -----------------------------
(***************************************************************************)
(* Schema migrations and their rollback (kernel.ts: migrate,               *)
(* rollbackMigration; db-sqlite: migrate, rollback; migrations.ts:         *)
(* downStatementsFor).  What a migration added is recorded in a journal,   *)
(* the only thing a rollback may drop by.  The schema change is one        *)
(* transaction; the journal row is written, or deleted, after it.          *)
(*                                                                         *)
(* The schema is a set of tables and columns; indexes, which are dropped   *)
(* if they exist, are left out.                                            *)
(***************************************************************************)
EXTENDS Naturals, FiniteSets

CONSTANTS
  Tables,
  System,       (* the tables whose names begin with an underscore         *)
  Columns,
  Base,         (* what the database held before the first migration       *)
  Calls,
  MaxRuns,      (* bound: migrations and rollbacks                         *)
  MaxFaults,    (* bound: crashes, and journal writes that fail            *)
  None

(* A table, when its column is None, or a column.                          *)
Object == [table: Tables, column: Columns \union {None}]
Whole(t) == [table |-> t, column |-> None]
ColumnsOf(tables) == {o \in Object : o.table \in tables}

MigrationsAssumption ==
  /\ None \notin Columns /\ System \subseteq Tables
  /\ Base \subseteq Object /\ \A o \in Base : Whole(o.table) \in Base
  /\ MaxRuns \in Nat /\ MaxFaults \in Nat

VARIABLES
  db,           (* what the database holds                                 *)
  journal,      (* the _migrations rows                                    *)
  call,
  unrecorded,   (* what was added by migrations whose row was never written*)
  runs, faults

vars == <<db, journal, call, unrecorded, runs, faults>>

Entry == [n: 1..MaxRuns, created: SUBSET Tables, added: SUBSET Object]
Idle == [step |-> "idle", entries |-> {}]

Init ==
  /\ db = Base /\ journal = {}
  /\ call = [c \in Calls |-> Idle]
  /\ unrecorded = {} /\ runs = 0 /\ faults = 0

Becomes(c, step, entries) == call' = [call EXCEPT ![c] = [step |-> step, entries |-> entries]]

-----------------------------------------------------------------------------
(* migrate: the tables the configuration asks for and the database does    *)
(* not have are created whole, the others get the columns they lack.       *)

(* A configuration; a deployment may bring any.                            *)
Configs == {s \in SUBSET Object : s # {} /\ \A o \in s : Whole(o.table) \in s}

Created(config) == {t \in Tables : Whole(t) \in config \ db}
Added(config) == {o \in config \ db : o.table \notin Created(config)}

(* A migration with nothing to do is not recorded.                         *)
Migrate(c) ==
  /\ call[c].step = "idle" /\ runs < MaxRuns
  /\ \E config \in Configs :
       /\ config \ db # {}
       /\ db' = db \union config
       /\ Becomes(c, "record", {[n |-> runs + 1, created |-> Created(config), added |-> Added(config)]})
  /\ runs' = runs + 1
  /\ UNCHANGED <<journal, unrecorded, faults>>

Record(c) ==
  /\ call[c].step = "record"
  /\ journal' = journal \union call[c].entries
  /\ Becomes(c, "idle", {})
  /\ UNCHANGED <<db, unrecorded, runs, faults>>

AddedBy(e) == e.added \union ColumnsOf(e.created)
InHand(c) == UNION {AddedBy(e) : e \in call[c].entries}

(* It is only logged when the row cannot be written.                       *)
RecordFails(c) ==
  /\ call[c].step = "record" /\ faults < MaxFaults
  /\ faults' = faults + 1
  /\ unrecorded' = unrecorded \union InHand(c)
  /\ Becomes(c, "idle", {})
  /\ UNCHANGED <<db, journal, runs>>

-----------------------------------------------------------------------------
(* rollbackMigration: the newest entries are read, what they record is     *)
(* dropped in one transaction, then their rows are deleted one by one.     *)

Newest(k) == {e \in journal : Cardinality({f \in journal : f.n > e.n}) < k}

(* Variant: the rows are deleted as they are read.                         *)
RollbackTakesRows(c) ==
  /\ call[c].step = "idle" /\ runs < MaxRuns /\ runs' = runs + 1
  /\ \E k \in 1..2 : Becomes(c, "drop", Newest(k)) /\ journal' = journal \ Newest(k)
  /\ UNCHANGED <<db, unrecorded, faults>>

RollbackBegin(c) ==
  /\ call[c].step = "idle" /\ runs < MaxRuns /\ runs' = runs + 1
  /\ \E k \in 1..2 : Becomes(c, "drop", Newest(k))
  /\ UNCHANGED <<db, journal, unrecorded, faults>>

(* downStatementsFor: columns, then tables; never those of the system.     *)
DropsColumns(e) == {o \in e.added : o.table \notin e.created \union System}
Drops(e) == DropsColumns(e) \union ColumnsOf(e.created \ System)

(* Dropping a column that is not there is an error, of a table it is not.  *)
Fails(entries) ==
  \E e \in entries : \E o \in DropsColumns(e) :
    o \notin db \/ \E f \in entries : f.n > e.n /\ o \in Drops(f)

Drop(c) ==
  /\ call[c].step = "drop"
  /\ IF Fails(call[c].entries)
     THEN Becomes(c, "idle", {}) /\ UNCHANGED db
     ELSE /\ db' = db \ UNION {Drops(e) : e \in call[c].entries}
          /\ Becomes(c, "consume", call[c].entries)
  /\ UNCHANGED <<journal, unrecorded, runs, faults>>

(* Newest first.                                                           *)
Consume(c) ==
  /\ call[c].step = "consume"
  /\ IF call[c].entries = {} THEN Becomes(c, "idle", {}) /\ UNCHANGED journal
     ELSE \E e \in call[c].entries :
            /\ \A f \in call[c].entries : f.n <= e.n
            /\ journal' = journal \ {e}
            /\ Becomes(c, "consume", call[c].entries \ {e})
  /\ UNCHANGED <<db, unrecorded, runs, faults>>

Crash ==
  /\ faults < MaxFaults /\ faults' = faults + 1
  /\ \E c \in Calls : call[c] # Idle
  /\ unrecorded' = unrecorded \union UNION {InHand(c) : c \in {d \in Calls : call[d].step = "record"}}
  /\ call' = [c \in Calls |-> Idle]
  /\ UNCHANGED <<db, journal, runs>>

Next ==
  \/ \E c \in Calls :
       Migrate(c) \/ Record(c) \/ RecordFails(c) \/ RollbackBegin(c) \/ Drop(c) \/ Consume(c)
  \/ Crash

Spec == Init /\ [][Next]_vars

-----------------------------------------------------------------------------
(* Properties.                                                             *)

TypeOK ==
  /\ db \subseteq Object /\ journal \subseteq Entry /\ unrecorded \subseteq Object
  /\ \A c \in Calls : /\ call[c].step \in {"idle", "record", "drop", "consume"}
                      /\ call[c].entries \subseteq Entry
  /\ runs \in 0..MaxRuns /\ faults \in 0..MaxFaults

(* The journal can undo whatever was added, and nothing else goes: every   *)
(* table and column that was not there at first is in an entry, or about   *)
(* to be, or belongs to a migration whose entry was lost - whatever        *)
(* rollbacks failed, overlapped or were cut off by a crash.                *)
JournalAccounts ==
  /\ Base \subseteq db
  /\ \A o \in db \ Base :
       \/ o.table \in System
       \/ \E e \in journal : o \in AddedBy(e)
       \/ \E c \in Calls : call[c].step = "record" /\ o \in InHand(c)
       \/ o \in unrecorded
=============================================================================
