------------------------------- MODULE Storage -------------------------------
(***************************************************************************)
(* The database across versions of the program: init_db, which brings the  *)
(* tables of any earlier version to the present shape whenever a process   *)
(* starts (api/db.py), and the script that gives the knowledge items of    *)
(* older Journeys their ids (scripts/backfill_knowledge_item_ids.py), over *)
(* a server whose turns load a Journey and save it seconds later.          *)
(*                                                                         *)
(* Every statement of init_db commits by itself: sqlite3 opens no          *)
(* transaction for DDL, so a crash may fall between any two of them.       *)
(***************************************************************************)
EXTENDS Naturals, Sequences, FiniteSets

CONSTANTS
  Rebuilt,    \* the tables (insights with insight_sessions) whose old shape cannot be extended, in init_db's order
  Columns,    \* columns added to the other tables
  Server, Script,
  Turns,      \* what the server loads a Journey for: messages, and Tier2's tasks
  Sessions,   \* Journeys
  MaxItems,   \* bound: knowledge items of a Journey
  MaxIds      \* bound: ids ever given

ASSUME StorageAssumption ==
  /\ Server # Script /\ Script \notin Turns
  /\ Rebuilt \in Seq(STRING) /\ Len(Rebuilt) > 0
  /\ {MaxItems, MaxIds} \subseteq Nat

VARIABLES
  shape,      \* of each rebuilt table: "none", "old" or "current"
  columns,    \* columns the other tables have
  rows,       \* rebuilt tables holding rows of the current shape
  upgrade,    \* where each process is in init_db: "off", a step, or "serving"
  saved,      \* world_state_json: the id of each item of each Journey, 0 = none
  held,       \* held[w][s]: the copy w works on, <<>> = none
  nextId,
  stored,     \* history: tables rows were written to
  given,      \* history: the id each item was first saved with
  overtaken   \* history: Journeys saved while another writer held a copy

schemaVars == <<shape, columns, rows, upgrade, stored>>
itemVars == <<saved, held, nextId, given, overtaken>>
storageVars == <<shape, columns, rows, upgrade, stored, saved, held, nextId, given, overtaken>>

Processes == {Server, Script}
Writers == Turns \cup {Script}
NoCopy == [s \in Sessions |-> <<>>]
Tables == DOMAIN Rebuilt

\* Any database an earlier version may have left.
StorageInit ==
  /\ shape \in [Tables -> {"none", "old", "current"}]
  /\ columns \in {{}, Columns} /\ rows = {} /\ stored = {}
  /\ upgrade = [p \in Processes |-> [at |-> "off", table |-> 1]]
  /\ saved = [s \in Sessions |-> <<0>>] /\ held = [w \in Writers |-> NoCopy]
  /\ nextId = 1 /\ given = [s \in Sessions |-> [i \in 1..MaxItems |-> 0]] /\ overtaken = {}

-----------------------------------------------------------------------------
(* init_db                                                                 *)

At(p, step, t) == upgrade' = [upgrade EXCEPT ![p] = [at |-> step, table |-> t]]

\* A script is run on a machine whose server is up.
StartUp(p) ==
  /\ upgrade[p].at = "off" /\ (p = Script => upgrade[Server].at = "serving")
  /\ At(p, "schema", 1) /\ UNCHANGED <<shape, columns, rows, stored, itemVars>>

\* _SCHEMA: CREATE TABLE IF NOT EXISTS.
CreateMissing(p) ==
  /\ upgrade[p].at = "schema"
  /\ shape' = [t \in Tables |-> IF shape[t] = "none" THEN "current" ELSE shape[t]]
  /\ At(p, "columns", 1) /\ UNCHANGED <<columns, rows, stored, itemVars>>

\* ALTER TABLE ADD COLUMN, one at a time, privacy_settings' among them; "duplicate column" is passed over.
AddColumn(p, c) ==
  /\ upgrade[p].at = "columns"
  /\ columns' = columns \cup {c}
  /\ UNCHANGED <<shape, rows, upgrade, stored, itemVars>>
ColumnsAdded(p) ==
  /\ upgrade[p].at = "columns" /\ Columns \subseteq columns
  /\ At(p, "look", 1) /\ UNCHANGED <<shape, columns, rows, stored, itemVars>>

\* Fault: the old shape is told by a column the current shape has too.
OldByAnyId(t) == shape[t] \in {"old", "current"}

\* PRAGMA table_info
IsOld(t) == shape[t] = "old"

\* On to the next table; after the last the process is up.
Onwards(p) ==
  IF upgrade[p].table = Len(Rebuilt) THEN At(p, "serving", 1) ELSE At(p, "look", upgrade[p].table + 1)

Look(p) ==
  /\ upgrade[p].at = "look"
  /\ IF IsOld(upgrade[p].table) THEN At(p, "drop", upgrade[p].table) ELSE Onwards(p)
  /\ UNCHANGED <<shape, columns, rows, stored, itemVars>>
DropOld(p) ==
  /\ upgrade[p].at = "drop" /\ shape[upgrade[p].table] # "none"
  /\ shape' = [shape EXCEPT ![upgrade[p].table] = "none"]
  /\ rows' = rows \ {upgrade[p].table}
  /\ At(p, "create", upgrade[p].table) /\ UNCHANGED <<columns, stored, itemVars>>
CreateCurrent(p) ==
  /\ upgrade[p].at = "create" /\ shape[upgrade[p].table] = "none"
  /\ shape' = [shape EXCEPT ![upgrade[p].table] = "current"]
  /\ Onwards(p)
  /\ UNCHANGED <<columns, rows, stored, itemVars>>

\* A machine stopped, a process killed, a statement that is refused.
Stop(p) ==
  /\ upgrade[p].at # "off" /\ At(p, "off", 1)
  /\ held' = [w \in Writers |-> IF (w = Script) = (p = Script) THEN NoCopy ELSE held[w]]
  /\ UNCHANGED <<shape, columns, rows, stored, saved, nextId, given, overtaken>>

\* Rows are written once the process is up.
WriteRow(t) ==
  /\ \E p \in Processes : upgrade[p].at = "serving"
  /\ shape[t] = "current"
  /\ rows' = rows \cup {t} /\ stored' = stored \cup {t}
  /\ UNCHANGED <<shape, columns, upgrade, itemVars>>

-----------------------------------------------------------------------------
(* The items' ids.                                                         *)

Missing(items) == {i \in DOMAIN items : items[i] = 0}

\* Fault: a backfill gives every item of the Journey a new id.
StampAll(items) == [i \in DOMAIN items |-> nextId + i - 1]

\* KnowledgeItem.id's default_factory: an item read without an id gets one.
Stamp(items) == [i \in DOMAIN items |-> IF items[i] = 0 THEN nextId + i - 1 ELSE items[i]]

Give(n) == nextId + n <= MaxIds /\ nextId' = nextId + n

\* w writes the whole document and is done with it.
Save(w, s, items) ==
  /\ saved' = [saved EXCEPT ![s] = items]
  /\ given' = [given EXCEPT ![s] = [i \in 1..MaxItems |->
       IF given[s][i] = 0 /\ i \in DOMAIN items THEN items[i] ELSE given[s][i]]]
  /\ held' = [held EXCEPT ![w] = [held[w] EXCEPT ![s] = <<>>]]
  /\ overtaken' = overtaken \cup
       {r \in {s} : \E v \in Writers \ {w} : held[v][r] # <<>>}

\* load_state, at the start of a turn or of its background task.
LoadState(t, s) ==
  /\ upgrade[Server].at = "serving" /\ held[t] = NoCopy
  /\ held' = [held EXCEPT ![t] = [NoCopy EXCEPT ![s] = Stamp(saved[s])]]
  /\ Give(IF Missing(saved[s]) = {} THEN 0 ELSE Len(saved[s]))
  /\ UNCHANGED <<schemaVars, saved, given, overtaken>>

\* save_turn_result, seconds later; the turn may have found one thing more.
SaveTurn(t, s) ==
  /\ held[t][s] # <<>>
  /\ \E more \in {<<>>, <<nextId>>} :
       /\ Len(held[t][s]) + Len(more) <= MaxItems
       /\ Give(Len(more))
       /\ Save(t, s, held[t][s] \o more)
  /\ UNCHANGED schemaVars

\* run_turn raised: nothing is saved.
DropTurn(t) ==
  /\ held[t] # NoCopy /\ held' = [held EXCEPT ![t] = NoCopy]
  /\ UNCHANGED <<schemaVars, saved, nextId, given, overtaken>>

\* get_all_sessions_raw
ReadAll ==
  /\ upgrade[Script].at = "serving" /\ held[Script] = NoCopy
  /\ held' = [held EXCEPT ![Script] = saved]
  /\ UNCHANGED <<schemaVars, saved, nextId, given, overtaken>>

\* A Journey with an item that has no id is written back as it was read.
SaveBackfilled(s) ==
  /\ Missing(held[Script][s]) # {}
  /\ Give(Len(held[Script][s]))
  /\ Save(Script, s, Stamp(held[Script][s]))
  /\ UNCHANGED schemaVars
PassOver(s) ==
  /\ held[Script][s] # <<>> /\ Missing(held[Script][s]) = {}
  /\ held' = [held EXCEPT ![Script] = [held[Script] EXCEPT ![s] = <<>>]]
  /\ UNCHANGED <<schemaVars, saved, nextId, given, overtaken>>

StorageNext ==
  \/ \E p \in Processes :
       \/ StartUp(p) \/ CreateMissing(p) \/ ColumnsAdded(p) \/ Look(p)
       \/ DropOld(p) \/ CreateCurrent(p) \/ Stop(p)
       \/ \E c \in Columns : AddColumn(p, c)
  \/ \E t \in Tables : WriteRow(t)
  \/ \E t \in Turns : DropTurn(t) \/ (\E s \in Sessions : LoadState(t, s) \/ SaveTurn(t, s))
  \/ ReadAll
  \/ \E s \in Sessions : SaveBackfilled(s) \/ PassOver(s)

StorageSpec == StorageInit /\ [][StorageNext]_storageVars

-----------------------------------------------------------------------------
\* Whatever an earlier start left half done: a process that is up finds every
\* table and column in place, and no start costs a row written before it.
SchemaStands ==
  /\ \A p \in Processes : upgrade[p].at = "serving" =>
       /\ \A t \in Tables : shape[t] = "current"
       /\ Columns \subseteq columns
  /\ stored = rows

\* An item once saved with an id stays, under that id, unless two writers of its
\* Journey crossed: whoever saves, writes back what it read.
IdsStand ==
  \A s \in Sessions \ overtaken : \A i \in 1..MaxItems :
    given[s][i] # 0 => i \in DOMAIN saved[s] /\ saved[s][i] = given[s][i]

\* An upgrade, whoever runs it and wherever it stops, keeps what is there: the
\* tables and their rows, and the knowledge items with the ids they were given.
UpgradesKeepWhatIsThere == SchemaStands /\ IdsStand
=============================================================================
