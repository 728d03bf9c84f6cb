--------------------------- MODULE DirectorLedger ---------------------------
(***************************************************************************)
(* The Director's carry-over ledger as a value: the rows a weekly run      *)
(* keeps, the upsert that merges a plan into them and the two bounds that  *)
(* retire rows from the active set (src/director/carryover.py).            *)
(*                                                                         *)
(* A ledger is [items, retired]: items is a function from the ids of the   *)
(* active rows to rows; retired is the set of ids of retired_items, whose  *)
(* rows no code reads back.  A row keeps the fields that decide what a     *)
(* later run does; title, evidence, priority and the stamps a run rewrites *)
(* every time are left out.                                                *)
(***************************************************************************)
EXTENDS Integers, FiniteSets

CONSTANTS
  Items,       \* action-item slugs
  StaleAfter,  \* RETIREMENT_STALE_DAYS, in units of the model's calendar
  MaxActive,   \* ACTIVE_LEDGER_MAX_ITEMS
  CarryCap     \* bound: carry_count saturates here

ASSUME LedgerAssumption ==
  /\ IsFiniteSet(Items)
  /\ StaleAfter \in Nat
  /\ MaxActive \in Nat \ {0}
  /\ CarryCap \in Nat

-----------------------------------------------------------------------------
(* Rows and ledgers. *)

\* issue = 0 is issue_number None; notified and filed are the sticky flags
\* ruled_unrecovered_notified and ruled_unrecovered_filed.
Row == [issue : Nat, first : Nat, last : Nat, carry : 0..CarryCap,
        escalated : BOOLEAN, notified : BOOLEAN, filed : BOOLEAN]

IsLedger(ledger) ==
  /\ ledger = [items |-> ledger.items, retired |-> ledger.retired]
  /\ DOMAIN ledger.items \subseteq Items
  /\ ledger.items \in [DOMAIN ledger.items -> Row]
  /\ ledger.retired \subseteq Items

\* What load_ledger returns when the object does not exist.
EmptyLedger == [items |-> [i \in {} |-> 0], retired |-> {}]

\* Every id the artifact can still name.
Known(ledger) == DOMAIN ledger.items \union ledger.retired

-----------------------------------------------------------------------------
(* The upsert of one action item.  A plan may list an id twice (the schema *)
(* does not make ids unique) and the code upserts it twice, so a plan maps *)
(* an id to the status of its first and of its second mention.             *)

Statuses == {"none", "proposed", "resolved"}

Plan == [Items -> [first : Statuses, again : Statuses]]

Proposed(plan) == {i \in Items : plan[i].first # "none"}

NewRow(day) == [issue |-> 0, first |-> day, last |-> day, carry |-> 0,
                escalated |-> FALSE, notified |-> FALSE, filed |-> FALSE]

Counted(n) == IF n < CarryCap THEN n + 1 ELSE CarryCap

\* Variant: the row is rebuilt from the plan and only issue_number survives.
RenewedWithoutFlags(row, status, day) ==
  [row EXCEPT !.last = day, !.notified = FALSE, !.filed = FALSE]

\* Variant: the one-shot flag is not carried over by the upsert.
RenewedWithoutEscalated(row, status, day) ==
  [row EXCEPT !.last = day, !.escalated = FALSE, !.carry = Counted(@)]

\* An existing id: the flags of the loop verification belong to the issue
\* number and are kept; the carry clock resets only on "resolved".
Renewed(row, status, day) ==
  CASE status = "none"     -> row
    [] status = "resolved" -> [row EXCEPT !.last = day, !.carry = 0,
                                          !.escalated = FALSE]
    [] OTHER               -> [row EXCEPT !.last = day, !.carry = Counted(@)]

RowAfter(items, plan, i, day) ==
  LET once == IF i \in DOMAIN items
              THEN Renewed(items[i], plan[i].first, day)
              ELSE NewRow(day)
  IN  Renewed(once, plan[i].again, day)

Upserted(items, plan, day) ==
  [i \in DOMAIN items \union Proposed(plan) |-> RowAfter(items, plan, i, day)]

-----------------------------------------------------------------------------
(* Retirement. *)

Stale(rows, day) == {i \in DOMAIN rows : day - rows[i].last > StaleAfter}

\* Variant: only the age bound.
ActiveSetsByAge(rows, day) == {DOMAIN rows \ Stale(rows, day)}

\* Variant: the size bound keeps the least recently seen rows.
ActiveSetsOldestFirst(rows, day) ==
  LET fresh == DOMAIN rows \ Stale(rows, day)
  IN  IF Cardinality(fresh) <= MaxActive THEN {fresh}
      ELSE {kept \in SUBSET fresh :
              /\ Cardinality(kept) = MaxActive
              /\ \A i \in kept, j \in fresh \ kept :
                    rows[i].last <= rows[j].last}

\* The ids that stay active.  Over the size bound the most recently seen
\* survive; among equally recent rows priority decides, which is left open.
ActiveSets(rows, day) ==
  LET fresh == DOMAIN rows \ Stale(rows, day)
  IN  IF Cardinality(fresh) <= MaxActive THEN {fresh}
      ELSE {kept \in SUBSET fresh :
              /\ Cardinality(kept) = MaxActive
              /\ \A i \in kept, j \in fresh \ kept :
                    rows[i].last >= rows[j].last}

\* Variant: what overflows or is stale is dropped, not archived.
MergesDropping(ledger, plan, day) ==
  LET rows == Upserted(ledger.items, plan, day)
  IN  {[items |-> [i \in kept |-> rows[i]], retired |-> ledger.retired] :
         kept \in ActiveSets(rows, day)}

\* The ledgers merge_plan_into_ledger may return.
Merges(ledger, plan, day) ==
  LET rows == Upserted(ledger.items, plan, day)
  IN  {[items   |-> [i \in kept |-> rows[i]],
        retired |-> ledger.retired \union (DOMAIN rows \ kept)] :
         kept \in ActiveSets(rows, day)}
=============================================================================
