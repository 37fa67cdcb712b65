----------------------------- MODULE EntityTable -----------------------------
(***************************************************************************)
(* A table of soft-deletable rows behind a NestJS service of the shape that *)
(* rooms.service.ts, customers.service.ts and computers.service.ts share:   *)
(* create; findById, Object.assign, save; findById, softRemove.             *)
(*                                                                         *)
(* An update reads the row without a lock and later saves the entity it     *)
(* holds.  TypeORM (external) writes every column in which that entity      *)
(* differs from the row, deleted_at included, so the save puts back         *)
(* whatever another request changed in between.                            *)
(***************************************************************************)
EXTENDS FiniteSets, Integers

CONSTANTS
  Id,           \* primary keys
  Data,         \* values of a row's columns
  MaxUpdates    \* bound: updates in flight at once

VARIABLES
  table,        \* id -> the row
  updates       \* updates between findById and save: <<id, entity>>

Row == [life : {"unborn", "live", "removed"}, data : Data]

TypeOK ==
  /\ table \in [Id -> Row]
  /\ updates \subseteq Id \X Data

\* What findById finds: neither a row never inserted nor a soft-deleted one.
Live(id) == table[id].life = "live"

Create(id, data) ==
  /\ table[id].life = "unborn"
  /\ table' = [table EXCEPT ![id] = [life |-> "live", data |-> data]]
  /\ UNCHANGED updates

\* findById and Object.assign: `data` is the loaded row with the dto's fields.
BeginUpdate(id, data) ==
  /\ Live(id)
  /\ Cardinality(updates) < MaxUpdates
  /\ updates' = updates \cup {<<id, data>>}
  /\ UNCHANGED table

\* save: last writer wins, and a row removed meanwhile is live again.
SaveUpdate(update) ==
  /\ update \in updates
  /\ table' = [table EXCEPT ![update[1]] = [life |-> "live", data |-> update[2]]]
  /\ updates' = updates \ {update}

SoftRemove(id) ==
  /\ Live(id)
  /\ table' = [table EXCEPT ![id].life = "removed"]
  /\ UNCHANGED updates

=============================================================================
