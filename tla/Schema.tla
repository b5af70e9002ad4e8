------------------------------- MODULE Schema ------------------------------
(***************************************************************************)
(* The database at boot (init_db of database.py, called by lifespan of     *)
(* main.py): missing columns are added, the NULLs they leave are filled,   *)
(* missing tables are made and the built-in rows are seeded.  There is no  *)
(* schema version: every boot tries everything again, after a crash in the *)
(* middle and after an older portal used the file meanwhile.               *)
(*                                                                         *)
(* One table stands for all.  SQLite commits an ALTER TABLE by itself; the *)
(* first UPDATE opens the transaction that engine.begin() commits at its   *)
(* end.  Columns that older portals have too play no part.                 *)
(***************************************************************************)
EXTENDS FiniteSets

CONSTANTS
  Declared,  \* new columns whose DDL has a DEFAULT
  Filled,    \* new columns without one, which the backfills are for
  Nullable   \* new columns that may be NULL

Columns == Declared \cup Filled \cup Nullable
Names == {"builtin", "own"}   \* a template of the seed directory, one an admin made
NoRow == [c \in {} |-> "null"]

VARIABLES
  app,     \* "down", "adding", "filling", "seeding", "serving", "old" (an older portal serves)
  todo,    \* columns this boot has still to add, or to fill
  disk,    \* the file: [table, strict, columns, rows]; strict: create_all made the new
           \* columns NOT NULL; a row maps them to "null", "default" or "chosen"
  work     \* what the open transaction sees

vars == <<app, todo, disk, work>>

Default(c) == IF c \in Declared THEN "default" ELSE "null"
Row(given) == [c \in Columns |-> IF c \in given THEN "default" ELSE Default(c)]

\* Both start from nothing: no file yet
Init ==
  /\ app = "down" /\ todo = {}
  /\ disk = [table |-> FALSE, strict |-> FALSE, columns |-> {}, rows |-> [n \in Names |-> NoRow]]
  /\ work = disk

Exists(n) == disk.rows[n] # NoRow
Write(d) == disk' = d /\ work' = d

-----------------------------------------------------------------------------
(* A boot                                                                  *)

Boot ==
  /\ app = "down"
  /\ app' = "adding" /\ todo' = Columns
  /\ UNCHANGED <<disk, work>>

\* ALTER TABLE ... ADD COLUMN; "duplicate column" and "no such table" are passed over.
Add(c) ==
  /\ app = "adding" /\ c \in todo
  /\ todo' = todo \ {c}
  /\ IF disk.table /\ c \notin disk.columns
     THEN Write([disk EXCEPT
            !.columns = @ \cup {c},
            !.rows = [n \in Names |->
              IF @[n] = NoRow THEN NoRow ELSE [@[n] EXCEPT ![c] = Default(c)]]])
     ELSE UNCHANGED <<disk, work>>
  /\ UNCHANGED app

\* mutant: only the columns this boot added are filled
ToFill_Added == {c \in Filled : c \notin disk.columns}

\* the backfills, whatever was added
ToFill == Filled

Added ==
  /\ app = "adding" /\ todo = {}
  /\ app' = "filling" /\ todo' = ToFill
  /\ UNCHANGED <<disk, work>>

FillRow(r, c) == IF r = NoRow \/ r[c] # "null" THEN r ELSE [r EXCEPT ![c] = "default"]

\* UPDATE ... SET c = default WHERE c IS NULL, in the transaction
Fill(c) ==
  /\ app = "filling" /\ c \in todo
  /\ todo' = todo \ {c}
  /\ work' = [work EXCEPT !.rows = [n \in Names |-> FillRow(@[n], c)]]
  /\ UNCHANGED <<app, disk>>

\* create_all makes a missing table with every column; the transaction is committed.
CreateAll ==
  /\ app = "filling" /\ todo = {}
  /\ app' = "seeding"
  /\ Write(IF work.table THEN work
           ELSE [work EXCEPT !.table = TRUE, !.strict = TRUE, !.columns = Columns])
  /\ UNCHANGED todo

\* seed_templates: a name that exists is left alone, a deleted one comes back.
Seed ==
  /\ app = "seeding" /\ app' = "serving"
  /\ IF Exists("builtin") THEN UNCHANGED <<disk, work>>
     ELSE Write([disk EXCEPT !.rows["builtin"] = Row(Columns)])
  /\ UNCHANGED todo

\* The process ends: what was not committed is gone.
Stop ==
  /\ app # "down"
  /\ app' = "down" /\ todo' = {} /\ work' = disk
  /\ UNCHANGED disk

-----------------------------------------------------------------------------
(* While a portal serves                                                   *)

Serves == app \in {"serving", "old"}

\* An older portal is started on the file, and makes the table without the new columns.
Downgrade ==
  /\ app = "down" /\ app' = "old"
  /\ IF disk.table THEN UNCHANGED <<disk, work>> ELSE Write([disk EXCEPT !.table = TRUE])
  /\ UNCHANGED todo

\* A row is inserted; an older portal names none of the new columns, and fails where they have
\* to be given.
Insert(n) ==
  /\ Serves /\ ~Exists(n)
  /\ app = "old" => ~disk.strict
  /\ Write([disk EXCEPT !.rows[n] =
              Row(IF app = "serving" THEN Declared \cup Filled ELSE {})])
  /\ UNCHANGED <<app, todo>>

Edit(n, c) ==
  /\ app = "serving" /\ Exists(n)
  /\ Write([disk EXCEPT !.rows[n][c] = "chosen"])
  /\ UNCHANGED <<app, todo>>

Delete(n) ==
  /\ Serves /\ Exists(n)
  /\ Write([disk EXCEPT !.rows[n] = NoRow])
  /\ UNCHANGED <<app, todo>>

Next ==
  \/ Boot \/ Added \/ CreateAll \/ Seed \/ Stop \/ Downgrade
  \/ \E c \in Columns : Add(c) \/ Fill(c) \/ \E n \in Names : Edit(n, c)
  \/ \E n \in Names : Insert(n) \/ Delete(n)

Spec == Init /\ [][Next]_vars

-----------------------------------------------------------------------------
(* Properties                                                              *)

\* A serving portal finds every column, and a value in each that its models do not allow to be
\* NULL: also after a boot that died between the ALTER and the UPDATE, and for rows an older
\* portal inserted meanwhile (database.py:151-171).
RowsAreWhole ==
  app = "serving" =>
    /\ disk.table /\ disk.columns = Columns
    /\ \A n \in Names : Exists(n) => \A c \in Declared \cup Filled : disk.rows[n][c] # "null"
=============================================================================
