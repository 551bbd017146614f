------------------------------- MODULE Queries -------------------------------
(***************************************************************************)
(* What a list may be asked for: filters, an order, and a page of the      *)
(* rows.  An entity's descriptor says which columns may be named, and with *)
(* which operators; the engine turns what it admits into one SELECT.       *)
(*                                                                         *)
(* A row is a function from columns to numbers that are ordered as the     *)
(* values are; NoValue is NULL, which is less than any value in an ORDER   *)
(* BY and of which no comparison holds.                                    *)
(***************************************************************************)
EXTENDS Naturals, Sequences, FiniteSets

NoValue == 0

-----------------------------------------------------------------------------
\* The descriptors.

\* The filterable columns of every entity, by kind.
Descriptor == [
  agent |-> [identifier |-> {"id"}, text |-> {"name", "role"}, int |-> {},
             enum |-> {"actor_type", "status"}, timestamp |-> {"created_at", "updated_at"}],
  session |-> [identifier |-> {"id", "agent_id"}, text |-> {"harness", "model"}, int |-> {},
               enum |-> {"status"}, timestamp |-> {"started_at", "last_seen_at", "ended_at"}],
  task |-> [identifier |-> {"id", "created_by"}, text |-> {"title"}, int |-> {"priority", "revision"},
            enum |-> {"status"}, timestamp |-> {"created_at", "updated_at"}],
  evidence |-> [identifier |-> {"task_id", "added_by"}, text |-> {"evidence_type"}, int |-> {"id"},
                enum |-> {}, timestamp |-> {"created_at"}],
  review |-> [identifier |-> {"id", "task_id", "reviewer_id"}, text |-> {"scope"}, int |-> {},
              enum |-> {"decision"}, timestamp |-> {"created_at"}],
  decision |-> [identifier |-> {"id", "owner_id"}, text |-> {"title"}, int |-> {},
                enum |-> {"status"}, timestamp |-> {"created_at", "updated_at"}],
  message |-> [identifier |-> {"id", "sender_id", "task_id"}, text |-> {"recipient"}, int |-> {},
               enum |-> {}, timestamp |-> {"created_at"}],
  artifact |-> [identifier |-> {"id", "owner_id"}, text |-> {"uri", "type"}, int |-> {},
                enum |-> {"status"}, timestamp |-> {"created_at", "updated_at"}],
  escalation |-> [identifier |-> {"id", "raised_by"}, text |-> {"owner"}, int |-> {},
                  enum |-> {"status"}, timestamp |-> {"created_at", "updated_at"}]]

Entities == DOMAIN Descriptor

ColumnsOf(entity) == UNION {Descriptor[entity][kind] : kind \in DOMAIN Descriptor[entity]}

\* Named in filters only.
Unorderable == {<<"session", "model">>, <<"evidence", "task_id">>, <<"review", "scope">>}

Orderable(entity) == {c \in ColumnsOf(entity) : <<entity, c>> \notin Unorderable}

OperatorsByKind == [
  identifier |-> {"eq", "ne", "in"}, enum |-> {"eq", "ne", "in"}, text |-> {"eq", "ne"},
  int |-> {"eq", "ne", "ge", "le"}, timestamp |-> {"ge", "le"}]

-----------------------------------------------------------------------------
\* Filters.

\* What --where is admitted: a column the entity has, an operator of its kind,
\* and values, of which none is NULL; one value unless the operator is in.
\* --updated-since is the filter updated_at:ge.
Admitted(entity, where) ==
  /\ where.column \in ColumnsOf(entity)
  /\ \E kind \in DOMAIN Descriptor[entity] :
       where.column \in Descriptor[entity][kind] /\ where.op \in OperatorsByKind[kind]
  /\ where.values # {} /\ NoValue \notin where.values
  /\ where.op # "in" => Cardinality(where.values) = 1

Holds(where, row) ==
  LET value == row[where.column] IN
  /\ value # NoValue
  /\ \/ where.op \in {"eq", "in"} /\ value \in where.values
     \/ where.op = "ne" /\ value \notin where.values
     \/ where.op = "ge" /\ \A least \in where.values : value >= least
     \/ where.op = "le" /\ \A most \in where.values : value <= most

\* Every filter must hold, and every condition that a list has beside them: a
\* tag, an assignee, a recipient, each standing for the ids that meet it.
Selected(table, conditions, wheres) ==
  {row \in table : /\ \A ids \in conditions : row["id"] \in ids
                   /\ \A where \in wheres : Holds(where, row)}

-----------------------------------------------------------------------------
\* Orders.

Ascending(column) == [column |-> column, descending |-> FALSE]

\* What each list is ordered by if nothing is asked.
TaskOrder == <<Ascending("priority"), Ascending("updated_at"), Ascending("id")>>
ArtifactOrder == <<Ascending("updated_at"), Ascending("id")>>
AgentOrder == <<Ascending("role"), Ascending("id")>>
SessionOrder == <<Ascending("started_at"), Ascending("id")>>
CreationOrder == <<Ascending("created_at"), Ascending("id")>>

DefaultOrder(entity) ==
  CASE entity = "task" -> TaskOrder
    [] entity = "artifact" -> ArtifactOrder
    [] entity = "agent" -> AgentOrder
    [] entity = "session" -> SessionOrder
    [] OTHER -> CreationOrder

\* A column named again does not count again.
FirstNamed(asked) ==
  {n \in DOMAIN asked : \A k \in 1 .. (n - 1) : asked[k].column # asked[n].column}

\* The parts of ORDER BY, by their places: the id comes last unless it is named.
Ordering(entity, asked) ==
  IF asked = << >> THEN DefaultOrder(entity)
  ELSE LET kept == FirstNamed(asked)
           last == IF \E n \in kept : asked[n].column = "id" THEN {} ELSE {Len(asked) + 1}
       IN [n \in kept \cup last |-> IF n \in last THEN Ascending("id") ELSE asked[n]]

Less(part, row, other) ==
  IF part.descending THEN row[part.column] > other[part.column]
                     ELSE row[part.column] < other[part.column]

\* The first part in which two rows differ decides.
Precedes(order, row, other) ==
  \E n \in DOMAIN order :
    /\ Less(order[n], row, other)
    /\ \A k \in DOMAIN order : k < n => row[order[k].column] = other[order[k].column]

-----------------------------------------------------------------------------
\* Pages: LIMIT and OFFSET.  Rows that the order does not tell apart may come
\* either way, and another way in the next query.

Earliest(order, chosen, row) == Cardinality({other \in chosen : Precedes(order, other, row)})
Latest(order, chosen, row) ==
  Cardinality(chosen) - Cardinality({other \in chosen : Precedes(order, row, other)}) - 1

OnPage(order, chosen, row, limit, offset) ==
  Earliest(order, chosen, row) >= offset /\ Latest(order, chosen, row) < offset + limit

MayBeOnPage(order, chosen, row, limit, offset) ==
  Latest(order, chosen, row) >= offset /\ Earliest(order, chosen, row) < offset + limit

-----------------------------------------------------------------------------

\* What --order-by may name.
Parts(entity) == [column : Orderable(entity), descending : BOOLEAN]

\* The rows of a list: typed by the schema, and told apart by their ids.
TableOf(entity, rows) ==
  /\ IsFiniteSet(rows)
  /\ \A row \in rows : \A c \in ColumnsOf(entity) : row[c] \in Nat
  /\ \A row, other \in rows : row["id"] = other["id"] => row = other
=============================================================================
