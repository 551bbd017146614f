------------------------------- MODULE Ledger -------------------------------
(***************************************************************************)
(* What the audit log promises whoever reads it later.                     *)
(*                                                                         *)
(* An entry states a fact, in a text.  Entries are only added; the fact of *)
(* an entry never changes and no entry goes away.  The text of an entry    *)
(* may be withheld, once, and only together with a new entry that says so: *)
(* each of the two names the other.                                        *)
(***************************************************************************)
EXTENDS Naturals, Sequences

CONSTANTS
  Gone    \* the text of a withheld entry

VARIABLE
  ledger  \* the sequence of entries [fact, text, withholds, by]

-----------------------------------------------------------------------------

LedgerInit == ledger = << >>

\* The entry that a step adds: it stands at the end and is itself readable.
Newest == ledger'[Len(ledger) + 1]

Grows == Len(ledger') = Len(ledger) + 1

Readable(entry) == entry.text # Gone /\ entry.by = 0

Tell ==
  /\ Grows
  /\ ledger' = Append(ledger, Newest)
  /\ Readable(Newest) /\ Newest.withholds = 0

Withhold(n) ==
  /\ Grows
  /\ Readable(ledger[n])
  /\ ledger' = Append([ledger EXCEPT ![n] =
                         [fact |-> ledger[n].fact, text |-> Gone,
                          withholds |-> ledger[n].withholds, by |-> Len(ledger) + 1]],
                      Newest)
  /\ Readable(Newest) /\ Newest.withholds = n

LedgerNext == Tell \/ \E n \in 1 .. Len(ledger) : Withhold(n)

LedgerSpec == LedgerInit /\ [][LedgerNext]_ledger
=============================================================================
