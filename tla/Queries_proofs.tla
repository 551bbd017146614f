--------------------------- MODULE Queries_proofs ---------------------------
(***************************************************************************)
(* Proofs about Queries, for every list, every order that may be asked for *)
(* and every finite table: the order is total, so that each page is        *)
(* determined and the pages together are the rows, once each.              *)
(***************************************************************************)
EXTENDS Queries, FiniteSetTheorems, WellFoundedInduction, TLAPS

\* A nonempty set of places has a first.
LEMMA FirstPlace ==
  ASSUME NEW places \in SUBSET Nat, places # {}
  PROVE  \E n \in places : \A k \in places : n <= k
<1> DEFINE R == OpToRel(<, Nat)
<1>1. PICK n \in places : \A k \in places : ~(<<k, n>> \in R)
  BY NatLessThanWellFounded, WFMin
<1>2. ASSUME NEW k \in places PROVE n <= k
  <2>1. <<k, n>> \in R <=> k < n
    BY DEF OpToRel
  <2>2. ~(k < n)
    BY <1>1, <2>1
  <2>3. k \in Nat /\ n \in Nat
    OBVIOUS
  <2> HIDE DEF R
  <2> QED
    BY <2>2, <2>3
<1> QED
  BY <1>2

\* What an order is: parts at places, over columns that the rows have, with the
\* id among them.
IsOrder(entity, order) ==
  /\ DOMAIN order \subseteq Nat
  /\ \A n \in DOMAIN order : order[n].column \in ColumnsOf(entity)
  /\ \E n \in DOMAIN order : order[n].column = "id"

\* A kind's columns are the entity's.
LEMMA OfKind ==
  ASSUME NEW entity, NEW kind \in DOMAIN Descriptor[entity], NEW c \in Descriptor[entity][kind]
  PROVE  c \in ColumnsOf(entity)
BY DEF ColumnsOf

\* The default orders are orders.
LEMMA DefaultIsOrder ==
  ASSUME NEW entity \in Entities
  PROVE  IsOrder(entity, DefaultOrder(entity))
<1>1. CASE entity = "task"
  <2>1. {"priority", "updated_at", "id"} \subseteq ColumnsOf(entity)
    BY <1>1, OfKind DEF Descriptor
  <2> QED
    BY <1>1, <2>1 DEF IsOrder, DefaultOrder, TaskOrder, Ascending
<1>2. CASE entity = "artifact"
  <2>1. {"updated_at", "id"} \subseteq ColumnsOf(entity)
    BY <1>2, OfKind DEF Descriptor
  <2> QED
    BY <1>2, <2>1 DEF IsOrder, DefaultOrder, ArtifactOrder, Ascending
<1>3. CASE entity = "agent"
  <2>1. {"role", "id"} \subseteq ColumnsOf(entity)
    BY <1>3, OfKind DEF Descriptor
  <2> QED
    BY <1>3, <2>1 DEF IsOrder, DefaultOrder, AgentOrder, Ascending
<1>4. CASE entity = "session"
  <2>1. {"started_at", "id"} \subseteq ColumnsOf(entity)
    BY <1>4, OfKind DEF Descriptor
  <2> QED
    BY <1>4, <2>1 DEF IsOrder, DefaultOrder, SessionOrder, Ascending
<1>5. CASE entity \in {"evidence", "review", "decision", "message", "escalation"}
  <2>1. {"created_at", "id"} \subseteq ColumnsOf(entity)
    <3>1. CASE entity = "evidence"
      BY <3>1, OfKind DEF Descriptor
    <3>2. CASE entity = "review"
      BY <3>2, OfKind DEF Descriptor
    <3>3. CASE entity = "decision"
      BY <3>3, OfKind DEF Descriptor
    <3>4. CASE entity = "message"
      BY <3>4, OfKind DEF Descriptor
    <3>5. CASE entity = "escalation"
      BY <3>5, OfKind DEF Descriptor
    <3> QED
      BY <1>5, <3>1, <3>2, <3>3, <3>4, <3>5
  <2> QED
    BY <1>5, <2>1 DEF IsOrder, DefaultOrder, CreationOrder, Ascending
<1>6. Entities = {"task", "artifact", "agent", "session", "evidence", "review", "decision",
                  "message", "escalation"}
  BY DEF Entities, Descriptor
<1> QED
  BY <1>1, <1>2, <1>3, <1>4, <1>5, <1>6

\* Every entity has an id.
LEMMA HasId ==
  ASSUME NEW entity \in Entities
  PROVE  "id" \in ColumnsOf(entity)
BY DefaultIsOrder DEF IsOrder

\* And so is what is asked for, with the id appended.
LEMMA OrderingIsOrder ==
  ASSUME NEW entity \in Entities, NEW asked \in Seq(Parts(entity))
  PROVE  IsOrder(entity, Ordering(entity, asked))
<1>1. CASE asked = << >>
  BY <1>1, DefaultIsOrder DEF Ordering
<1>2. CASE asked # << >>
  <2> DEFINE kept == FirstNamed(asked)
             last == IF \E n \in kept : asked[n].column = "id" THEN {} ELSE {Len(asked) + 1}
             order == [n \in kept \cup last |-> IF n \in last THEN Ascending("id") ELSE asked[n]]
  <2>1. Ordering(entity, asked) = order
    BY <1>2 DEF Ordering
  <2>2. kept \subseteq 1 .. Len(asked) /\ Len(asked) \in Nat
    BY DEF FirstNamed
  <2>3. \A n \in kept : n \notin last /\ asked[n].column \in ColumnsOf(entity)
    <3> SUFFICES ASSUME NEW n \in kept PROVE n \notin last /\ asked[n].column \in ColumnsOf(entity)
      OBVIOUS
    <3>1. asked[n] \in Parts(entity)
      BY <2>2
    <3> QED
      BY <2>2, <3>1 DEF Parts, Orderable
  <2>4. DOMAIN order \subseteq Nat
    BY <2>2
  <2>5. \A n \in DOMAIN order : order[n].column \in ColumnsOf(entity)
    BY <2>3, HasId DEF Ascending
  <2>6. \E n \in DOMAIN order : order[n].column = "id"
    <3>1. CASE \E n \in kept : asked[n].column = "id"
      BY <2>3, <3>1
    <3>2. CASE ~ \E n \in kept : asked[n].column = "id"
      BY <3>2 DEF Ascending
    <3> QED
      BY <3>1, <3>2
  <2> QED
    BY <2>1, <2>4, <2>5, <2>6 DEF IsOrder
<1> QED
  BY <1>1, <1>2

-----------------------------------------------------------------------------
\* The order of rows.

LEMMA Irreflexive ==
  ASSUME NEW entity, NEW order, IsOrder(entity, order), NEW rows, TableOf(entity, rows),
         NEW row \in rows
  PROVE  ~Precedes(order, row, row)
<1>1. \A n \in DOMAIN order : row[order[n].column] \in Nat
  BY DEF IsOrder, TableOf
<1> QED
  BY <1>1 DEF Precedes, Less

LEMMA Transitive ==
  ASSUME NEW entity, NEW order, IsOrder(entity, order), NEW rows, TableOf(entity, rows),
         NEW r1 \in rows, NEW r2 \in rows, NEW r3 \in rows,
         Precedes(order, r1, r2), Precedes(order, r2, r3)
  PROVE  Precedes(order, r1, r3)
<1>1. \A n \in DOMAIN order : /\ n \in Nat
                              /\ r1[order[n].column] \in Nat /\ r2[order[n].column] \in Nat
                              /\ r3[order[n].column] \in Nat
  BY DEF IsOrder, TableOf
<1>2. PICK n \in DOMAIN order :
        /\ Less(order[n], r1, r2)
        /\ \A k \in DOMAIN order : k < n => r1[order[k].column] = r2[order[k].column]
  BY DEF Precedes
<1>3. PICK m \in DOMAIN order :
        /\ Less(order[m], r2, r3)
        /\ \A k \in DOMAIN order : k < m => r2[order[k].column] = r3[order[k].column]
  BY DEF Precedes
<1>4. CASE n < m
  <2>1. Less(order[n], r1, r3)
    BY <1>2, <1>3, <1>4 DEF Less
  <2>2. \A k \in DOMAIN order : k < n => r1[order[k].column] = r3[order[k].column]
    BY <1>1, <1>2, <1>3, <1>4
  <2> QED
    BY <2>1, <2>2 DEF Precedes
<1>5. CASE m < n
  <2>1. Less(order[m], r1, r3)
    BY <1>2, <1>3, <1>5 DEF Less
  <2>2. \A k \in DOMAIN order : k < m => r1[order[k].column] = r3[order[k].column]
    BY <1>1, <1>2, <1>3, <1>5
  <2> QED
    BY <2>1, <2>2 DEF Precedes
<1>6. CASE n = m
  <2>1. Less(order[n], r1, r3)
    BY <1>1, <1>2, <1>3, <1>6 DEF Less
  <2> QED
    BY <1>2, <1>3, <1>6, <2>1 DEF Precedes
<1> QED
  BY <1>1, <1>4, <1>5, <1>6

\* The id decides at last.
LEMMA Total ==
  ASSUME NEW entity, NEW order, IsOrder(entity, order), NEW rows, TableOf(entity, rows),
         NEW row \in rows, NEW other \in rows, row # other
  PROVE  Precedes(order, row, other) \/ Precedes(order, other, row)
<1> DEFINE differ == {n \in DOMAIN order : row[order[n].column] # other[order[n].column]}
<1>1. PICK n \in DOMAIN order : order[n].column = "id"
  BY DEF IsOrder
<1>2. n \in differ
  BY <1>1 DEF TableOf
<1>3. differ \in SUBSET Nat
  BY DEF IsOrder
<1>4. PICK m \in differ : \A k \in differ : m <= k
  BY <1>2, <1>3, FirstPlace
<1>5. \A k \in DOMAIN order : k < m => row[order[k].column] = other[order[k].column]
  BY <1>3, <1>4 DEF IsOrder
<1>6. row[order[m].column] \in Nat /\ other[order[m].column] \in Nat
  BY DEF IsOrder, TableOf
<1>7. Less(order[m], row, other) \/ Less(order[m], other, row)
  BY <1>6 DEF Less
<1> QED
  BY <1>5, <1>7 DEF Precedes

\* Whatever list and order are asked for, two rows come in one order and in no
\* other (query_options: the id always ends the order).
THEOREM OrderIsTotal ==
  ASSUME NEW entity \in Entities, NEW asked \in Seq(Parts(entity)),
         NEW rows, TableOf(entity, rows), NEW row \in rows, NEW other \in rows, row # other
  PROVE  LET order == Ordering(entity, asked) IN
         Precedes(order, row, other) <=> ~Precedes(order, other, row)
<1>1. IsOrder(entity, Ordering(entity, asked))
  BY OrderingIsOrder
<1> QED
  BY <1>1, Total, Transitive, Irreflexive

-----------------------------------------------------------------------------
\* Pages.

\* The rows before a row and those after it are all the others.
LEMMA OnePosition ==
  ASSUME NEW entity, NEW order, IsOrder(entity, order), NEW rows, TableOf(entity, rows),
         NEW row \in rows
  PROVE  /\ Earliest(order, rows, row) = Latest(order, rows, row)
         /\ Earliest(order, rows, row) \in 0 .. Cardinality(rows) - 1
<1> DEFINE before == {other \in rows : Precedes(order, other, row)}
           after == {other \in rows : Precedes(order, row, other)}
<1>1. IsFiniteSet(rows)
  BY DEF TableOf
<1>2. IsFiniteSet(before) /\ IsFiniteSet(after)
  BY <1>1, FS_Subset
<1>3. row \notin before /\ row \notin after
  BY Irreflexive
<1>4. before \cap after = {}
  <2> SUFFICES ASSUME NEW other \in before, other \in after PROVE FALSE
    OBVIOUS
  <2>1. Precedes(order, row, row)
    BY Transitive
  <2> QED
    BY <2>1, Irreflexive
<1>5. rows = (before \cup after) \cup {row}
  BY Total
<1>6. /\ Cardinality(before) \in Nat /\ Cardinality(after) \in Nat
  BY <1>2, FS_CardinalityType
<1>7. IsFiniteSet(before \cup after) /\ Cardinality(before \cup after) = Cardinality(before) + Cardinality(after)
  <2>1. Cardinality(before \cap after) = 0
    BY <1>4, FS_EmptySet
  <2> HIDE DEF before, after
  <2>2. IsFiniteSet(before \cup after)
        /\ Cardinality(before \cup after)
             = Cardinality(before) + Cardinality(after) - Cardinality(before \cap after)
    BY <1>2, FS_Union
  <2> QED
    BY <1>6, <2>1, <2>2
<1>8. Cardinality(rows) = Cardinality(before \cup after) + 1
  <2>1. row \notin before \cup after
    BY <1>3
  <2> HIDE DEF before, after
  <2> QED
    BY <1>5, <1>7, <2>1, FS_AddElement
<1>9. Earliest(order, rows, row) = Cardinality(before)
      /\ Latest(order, rows, row) = Cardinality(rows) - Cardinality(after) - 1
  BY DEF Earliest, Latest
<1> HIDE DEF before, after
<1> QED
  BY <1>6, <1>7, <1>8, <1>9

\* Rows have positions of their own.
LEMMA OwnPosition ==
  ASSUME NEW entity, NEW order, IsOrder(entity, order), NEW rows, TableOf(entity, rows),
         NEW row \in rows, NEW other \in rows, Precedes(order, row, other)
  PROVE  Earliest(order, rows, row) < Earliest(order, rows, other)
<1> DEFINE first == {r \in rows : Precedes(order, r, row)}
           second == {r \in rows : Precedes(order, r, other)}
<1>1. IsFiniteSet(second)
  BY FS_Subset DEF TableOf
<1>2. first \subseteq second
  BY Transitive
<1>3. row \in second /\ row \notin first
  BY Irreflexive
<1>4. Earliest(order, rows, row) = Cardinality(first) /\ Earliest(order, rows, other) = Cardinality(second)
  BY DEF Earliest
<1> HIDE DEF first, second
<1>5. IsFiniteSet(first) /\ Cardinality(first) <= Cardinality(second) /\ Cardinality(first) # Cardinality(second)
  BY <1>1, <1>2, <1>3, FS_Subset
<1> QED
  BY <1>1, <1>4, <1>5, FS_CardinalityType

\* A list read a page at a time, while nothing is written, gives every row that
\* the filters select exactly once: each has one position, which no other row
\* has, and is on the pages that reach over it, however the engine breaks ties.
THEOREM PagesTellAll ==
  ASSUME NEW entity \in Entities, NEW asked \in Seq(Parts(entity)),
         NEW table, TableOf(entity, table), NEW conditions, NEW wheres
  PROVE  LET order == Ordering(entity, asked)
             chosen == Selected(table, conditions, wheres)
         IN \A row \in chosen :
              LET position == Earliest(order, chosen, row) IN
              /\ position \in 0 .. Cardinality(chosen) - 1
              /\ \A other \in chosen : other # row => Earliest(order, chosen, other) # position
              /\ \A limit \in Nat \ {0}, offset \in Nat :
                   LET reaches == offset <= position /\ position < offset + limit IN
                   /\ OnPage(order, chosen, row, limit, offset) <=> reaches
                   /\ MayBeOnPage(order, chosen, row, limit, offset) <=> reaches
<1> DEFINE order == Ordering(entity, asked)
           chosen == Selected(table, conditions, wheres)
<1>1. IsOrder(entity, order)
  BY OrderingIsOrder
<1>2. chosen \subseteq table
  BY DEF Selected
<1>3. TableOf(entity, chosen)
  BY <1>2, FS_Subset DEF TableOf
<1> HIDE DEF order, chosen
<1>4. ASSUME NEW row \in chosen
      PROVE  LET position == Earliest(order, chosen, row) IN
             /\ position \in 0 .. Cardinality(chosen) - 1
             /\ \A other \in chosen : other # row => Earliest(order, chosen, other) # position
             /\ \A limit \in Nat \ {0}, offset \in Nat :
                  LET reaches == offset <= position /\ position < offset + limit IN
                  /\ OnPage(order, chosen, row, limit, offset) <=> reaches
                  /\ MayBeOnPage(order, chosen, row, limit, offset) <=> reaches
  <2> DEFINE position == Earliest(order, chosen, row)
  <2>1. position = Latest(order, chosen, row) /\ position \in 0 .. Cardinality(chosen) - 1
    BY <1>1, <1>3, OnePosition
  <2>2. ASSUME NEW other \in chosen, other # row PROVE Earliest(order, chosen, other) # position
    <3>1. Earliest(order, chosen, other) \in 0 .. Cardinality(chosen) - 1
      BY <1>1, <1>3, OnePosition
    <3>2. CASE Precedes(order, row, other)
      BY <1>1, <1>3, <2>1, <3>1, <3>2, OwnPosition
    <3>3. CASE Precedes(order, other, row)
      BY <1>1, <1>3, <2>1, <3>1, <3>3, OwnPosition
    <3> QED
      BY <1>1, <1>3, <2>2, <3>2, <3>3, Total
  <2>3. ASSUME NEW limit \in Nat \ {0}, NEW offset \in Nat
        PROVE  /\ OnPage(order, chosen, row, limit, offset) <=>
                    offset <= position /\ position < offset + limit
               /\ MayBeOnPage(order, chosen, row, limit, offset) <=>
                    offset <= position /\ position < offset + limit
    BY <2>1 DEF OnPage, MayBeOnPage
  <2> QED
    BY <2>1, <2>2, <2>3
<1> QED
  BY <1>4 DEF order, chosen

\* A batch read, --where id:in=..., gives the rows of those ids that are there,
\* and no others (query_options).
THEOREM BatchRead ==
  ASSUME NEW entity \in Entities, NEW table, NEW ids,
         Admitted(entity, [column |-> "id", op |-> "in", values |-> ids])
  PROVE  Selected(table, {}, {[column |-> "id", op |-> "in", values |-> ids]}) =
           {row \in table : row["id"] \in ids}
BY DEF Admitted, Selected, Holds
=============================================================================
