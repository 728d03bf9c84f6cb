------------------------- MODULE DirectorLoopProofs -------------------------
(* What holds of DirectorLoop for every value of its constants. *)
EXTENDS DirectorLoop, SequenceTheorems, FiniteSetTheorems, TLAPS

-----------------------------------------------------------------------------
(* The ledger as a value. *)

\* Renewing a row yields a row and keeps its issue number and ruling flags.
LEMMA RenewedProps ==
  ASSUME NEW row \in Row, NEW status \in Statuses, NEW day \in Nat
  PROVE  /\ Renewed(row, status, day) \in Row
         /\ Renewed(row, status, day).issue = row.issue
         /\ Renewed(row, status, day).notified = row.notified
         /\ Renewed(row, status, day).filed = row.filed
<1>1. Counted(row.carry) \in 0..CarryCap
  BY LedgerAssumption DEF Counted, Row
<1>2. CASE status = "none"
  BY <1>2 DEF Renewed
<1>3. CASE status = "resolved"
  <2>1. 0 \in 0..CarryCap
    BY LedgerAssumption
  <2>2. Renewed(row, status, day)
          = [row EXCEPT !.last = day, !.carry = 0, !.escalated = FALSE]
    BY <1>3 DEF Renewed
  <2> QED BY <2>1, <2>2 DEF Row
<1>4. CASE status = "proposed"
  BY <1>1, <1>4 DEF Renewed, Row
<1>5. QED
  BY <1>2, <1>3, <1>4 DEF Statuses

\* A row without an issue, first seen today.
LEMMA NewRowProps ==
  ASSUME NEW day \in Nat
  PROVE  NewRow(day) \in Row
BY LedgerAssumption DEF NewRow, Row

\* The rows of an upsert: renewed ones keep issue and flags, new ones have none.
LEMMA UpsertedProps ==
  ASSUME NEW ledger, IsLedger(ledger), NEW p \in Plan, NEW day \in Nat
  PROVE  LET rows == Upserted(ledger.items, p, day)
         IN  /\ DOMAIN rows = DOMAIN ledger.items \union Proposed(p)
             /\ DOMAIN rows \subseteq Items
             /\ \A i \in DOMAIN rows :
                  /\ rows[i] \in Row
                  /\ i \in DOMAIN ledger.items =>
                       /\ rows[i].issue = ledger.items[i].issue
                       /\ rows[i].notified = ledger.items[i].notified
                       /\ rows[i].filed = ledger.items[i].filed
                  /\ i \notin DOMAIN ledger.items => rows[i].issue = 0
<1> DEFINE rows == Upserted(ledger.items, p, day)
<1>1. DOMAIN rows = DOMAIN ledger.items \union Proposed(p)
  BY DEF Upserted
<1>2. DOMAIN rows \subseteq Items
  BY <1>1 DEF Proposed, IsLedger
<1>3. ASSUME NEW i \in DOMAIN rows
      PROVE  /\ rows[i] \in Row
             /\ i \in DOMAIN ledger.items =>
                  /\ rows[i].issue = ledger.items[i].issue
                  /\ rows[i].notified = ledger.items[i].notified
                  /\ rows[i].filed = ledger.items[i].filed
             /\ i \notin DOMAIN ledger.items => rows[i].issue = 0
  <2>1. p[i].first \in Statuses /\ p[i].again \in Statuses
    BY <1>2, <1>3 DEF Plan
  <2>2. rows[i] = RowAfter(ledger.items, p, i, day)
    BY <1>1, <1>3 DEF Upserted
  <2>3. CASE i \in DOMAIN ledger.items
    <3>1. ledger.items[i] \in Row
      BY <2>3 DEF IsLedger
    <3> DEFINE once == Renewed(ledger.items[i], p[i].first, day)
    <3>2. /\ once \in Row
          /\ once.issue = ledger.items[i].issue
          /\ once.notified = ledger.items[i].notified
          /\ once.filed = ledger.items[i].filed
      BY <2>1, <3>1, RenewedProps
    <3>3. rows[i] = Renewed(once, p[i].again, day)
      BY <2>2, <2>3 DEF RowAfter
    <3> HIDE DEF once
    <3>4. /\ Renewed(once, p[i].again, day) \in Row
          /\ Renewed(once, p[i].again, day).issue = once.issue
          /\ Renewed(once, p[i].again, day).notified = once.notified
          /\ Renewed(once, p[i].again, day).filed = once.filed
      BY <2>1, <3>2, RenewedProps
    <3> QED BY <2>3, <3>2, <3>3, <3>4
  <2>4. CASE i \notin DOMAIN ledger.items
    <3>1. rows[i] = Renewed(NewRow(day), p[i].again, day)
      BY <2>2, <2>4 DEF RowAfter
    <3>2. /\ Renewed(NewRow(day), p[i].again, day) \in Row
          /\ Renewed(NewRow(day), p[i].again, day).issue = NewRow(day).issue
      BY <2>1, RenewedProps, NewRowProps
    <3>3. NewRow(day).issue = 0
      BY DEF NewRow
    <3> QED BY <2>4, <3>1, <3>2, <3>3
  <2> QED BY <2>3, <2>4
<1> QED BY <1>1, <1>2, <1>3

\* The kept ids are rows, and at most MaxActive of them.
LEMMA ActiveSetsProps ==
  ASSUME NEW rows, DOMAIN rows \subseteq Items, NEW day,
         NEW kept \in ActiveSets(rows, day)
  PROVE  kept \subseteq DOMAIN rows /\ Cardinality(kept) <= MaxActive
<1> DEFINE fresh == DOMAIN rows \ Stale(rows, day)
<1>1. CASE Cardinality(fresh) <= MaxActive
  BY <1>1 DEF ActiveSets
<1>2. CASE ~(Cardinality(fresh) <= MaxActive)
  <2>1. kept \in SUBSET fresh /\ Cardinality(kept) = MaxActive
    BY <1>2 DEF ActiveSets
  <2>2. MaxActive <= MaxActive
    BY LedgerAssumption
  <2> QED BY <2>1, <2>2
<1> QED BY <1>1, <1>2

\* What a merge returns.
LEMMA MergesProps ==
  ASSUME NEW ledger, IsLedger(ledger), NEW p \in Plan, NEW day \in Nat,
         NEW merged \in Merges(ledger, p, day)
  PROVE  /\ IsLedger(merged)
         /\ Known(ledger) \subseteq Known(merged)
         /\ Cardinality(DOMAIN merged.items) <= MaxActive
         /\ \A i \in DOMAIN merged.items :
              \/ /\ i \in DOMAIN ledger.items
                 /\ merged.items[i].issue = ledger.items[i].issue
                 /\ merged.items[i].notified = ledger.items[i].notified
                 /\ merged.items[i].filed = ledger.items[i].filed
              \/ i \notin DOMAIN ledger.items /\ merged.items[i].issue = 0
<1> DEFINE rows == Upserted(ledger.items, p, day)
<1>1. PICK kept \in ActiveSets(rows, day) :
        merged = [items   |-> [i \in kept |-> rows[i]],
                  retired |-> ledger.retired \union (DOMAIN rows \ kept)]
  BY DEF Merges
<1>2. /\ DOMAIN rows = DOMAIN ledger.items \union Proposed(p)
      /\ DOMAIN rows \subseteq Items
      /\ \A i \in DOMAIN rows :
           /\ rows[i] \in Row
           /\ i \in DOMAIN ledger.items =>
                /\ rows[i].issue = ledger.items[i].issue
                /\ rows[i].notified = ledger.items[i].notified
                /\ rows[i].filed = ledger.items[i].filed
           /\ i \notin DOMAIN ledger.items => rows[i].issue = 0
  BY UpsertedProps
<1> HIDE DEF rows
<1>3. kept \subseteq DOMAIN rows /\ Cardinality(kept) <= MaxActive
  BY <1>2, ActiveSetsProps
<1>4. /\ merged.items = [i \in kept |-> rows[i]]
      /\ merged.retired = ledger.retired \union (DOMAIN rows \ kept)
      /\ DOMAIN merged.items = kept
  BY <1>1
<1>5. IsLedger(merged)
  <2>1. merged = [items |-> merged.items, retired |-> merged.retired]
    BY <1>1, <1>4
  <2>2. merged.items \in [kept -> Row]
    BY <1>2, <1>3, <1>4
  <2>3. merged.retired \subseteq Items
    BY <1>2, <1>4 DEF IsLedger
  <2> QED BY <1>2, <1>3, <1>4, <2>1, <2>2, <2>3 DEF IsLedger
<1>6. Known(ledger) \subseteq Known(merged)
  BY <1>2, <1>4 DEF Known
<1> QED BY <1>2, <1>3, <1>4, <1>5, <1>6

\* The ledger of a first run.
LEMMA EmptyLedgerProps ==
  /\ IsLedger(EmptyLedger)
  /\ DOMAIN EmptyLedger.items = {}
  /\ Known(EmptyLedger) = {}
BY DEF IsLedger, EmptyLedger, Known

-----------------------------------------------------------------------------
(* Types, and what an issue number means.                                  *)

\* Every issue number of a ledger names an issue whose text names the row's id.
Tracks(ledger) ==
  \A i \in DOMAIN ledger.items :
    ledger.items[i].issue # 0 =>
      /\ ledger.items[i].issue \in DOMAIN issues
      /\ i \in Marks(issues[ledger.items[i].issue])

\* A write acts on the issue of an active row, and a reopen on a row without
\* a recorded ruling.
ActsOnTracked ==
  pc \in {"acting", "asking"} =>
    /\ cur.item \in DOMAIN mem.items
    /\ mem.items[cur.item].issue # 0
    /\ cur.act = "reopen" =>
         ~mem.items[cur.item].notified /\ ~mem.items[cur.item].filed

\* Between runs no row is left to examine.
NoTodoBetween == pc = "idle" => todo = {}

LoopInv == /\ TypeOK
           /\ Tracks(store) /\ Tracks(mem)
           /\ ActsOnTracked
           /\ NoTodoBetween

\* The backfill fills in numbers of issues that name the row's id.
LEMMA BackfilledProps ==
  ASSUME NEW ledger, IsLedger(ledger), Tracks(ledger),
         issues \in Seq(Issue), NEW lo \in 1..Len(issues) + 1
  PROVE  LET filled == Backfilled(ledger.items, lo)
         IN  /\ filled \in [DOMAIN ledger.items -> Row]
             /\ \A i \in DOMAIN ledger.items :
                  /\ filled[i].notified = ledger.items[i].notified
                  /\ filled[i].filed = ledger.items[i].filed
                  /\ filled[i].issue # 0 =>
                       /\ filled[i].issue \in DOMAIN issues
                       /\ i \in Marks(issues[filled[i].issue])
<1> DEFINE filled == Backfilled(ledger.items, lo)
<1>1. DOMAIN filled = DOMAIN ledger.items
  BY DEF Backfilled
<1>2. ASSUME NEW i \in DOMAIN ledger.items
      PROVE  /\ filled[i] \in Row
             /\ filled[i].notified = ledger.items[i].notified
             /\ filled[i].filed = ledger.items[i].filed
             /\ filled[i].issue # 0 =>
                  /\ filled[i].issue \in DOMAIN issues
                  /\ i \in Marks(issues[filled[i].issue])
  <2>1. ledger.items[i] \in Row
    BY <1>2 DEF IsLedger
  <2>2. CASE ledger.items[i].issue # 0 \/ FirstListed(i, lo) = {}
    <3>1. filled[i] = ledger.items[i]
      BY <1>2, <2>2 DEF Backfilled
    <3> QED BY <1>2, <2>1, <3>1 DEF Tracks
  <2>3. CASE ~(ledger.items[i].issue # 0 \/ FirstListed(i, lo) = {})
    <3> DEFINE n == CHOOSE n \in FirstListed(i, lo) : TRUE
    <3>1. n \in FirstListed(i, lo)
      BY <2>3
    <3>2. filled[i] = [ledger.items[i] EXCEPT !.issue = n]
      BY <1>2, <2>3 DEF Backfilled
    <3> HIDE DEF n
    <3>3. n \in lo..Len(issues) /\ i \in Marks(issues[n])
      BY <3>1 DEF FirstListed
    <3>4. n \in Nat /\ n \in DOMAIN issues
      BY <3>3
    <3>5. /\ filled[i].issue = n
          /\ filled[i].notified = ledger.items[i].notified
          /\ filled[i].filed = ledger.items[i].filed
          /\ filled[i] \in Row
      BY <2>1, <3>2, <3>4 DEF Row
    <3> QED BY <3>3, <3>4, <3>5
  <2> QED BY <2>2, <2>3
<1>3. filled \in [DOMAIN ledger.items -> Row]
  BY <1>1, <1>2 DEF Backfilled
<1> QED BY <1>2, <1>3

\* The two issues name the same items.
SameText(e, issue) == e.slug = issue.slug /\ e.cites = issue.cites

\* Replacing an issue by one of the same text, or adding one, keeps every
\* number a ledger holds pointing at the same text.
SameSlugs == /\ DOMAIN issues \subseteq DOMAIN issues'
             /\ \A n \in DOMAIN issues : SameText(issues'[n], issues[n])

\* A ledger that tracks issues still does after a step that keeps their text.
LEMMA TracksStable ==
  ASSUME NEW ledger, Tracks(ledger), SameSlugs
  PROVE  \A i \in DOMAIN ledger.items :
           ledger.items[i].issue # 0 =>
             /\ ledger.items[i].issue \in DOMAIN issues'
             /\ i \in Marks(issues'[ledger.items[i].issue])
BY DEF Tracks, SameSlugs, SameText, Marks

\* Replacing one issue by another of its text keeps what all of them name.
LEMMA IssueReplaced ==
  ASSUME issues \in Seq(Issue), NEW n \in DOMAIN issues, NEW e \in Issue,
         SameText(e, issues[n]), issues' = [issues EXCEPT ![n] = e]
  PROVE  /\ issues' \in Seq(Issue)
         /\ Len(issues') = Len(issues)
         /\ SameSlugs
<1>1. n \in 1..Len(issues)
  OBVIOUS
<1>2. /\ issues' \in Seq(Issue)
      /\ Len(issues') = Len(issues)
      /\ \A j \in 1..Len(issues) : issues'[j] = IF j = n THEN e ELSE issues[j]
  BY <1>1, ExceptSeq
<1>3. DOMAIN issues = 1..Len(issues) /\ DOMAIN issues' = 1..Len(issues)
  BY <1>2
<1> QED BY <1>2, <1>3 DEF SameSlugs, SameText

\* Adding an issue keeps those that exist.
LEMMA IssueAdded ==
  ASSUME issues \in Seq(Issue), NEW e \in Issue, issues' = Append(issues, e)
  PROVE  /\ issues' \in Seq(Issue)
         /\ Len(issues') = Len(issues) + 1
         /\ SameSlugs
         /\ issues'[Len(issues) + 1] = e
         /\ \A n \in DOMAIN issues : issues'[n] = issues[n]
<1>1. /\ issues' \in Seq(Issue)
      /\ Len(issues') = Len(issues) + 1
      /\ \A i \in 1..Len(issues) : issues'[i] = issues[i]
      /\ issues'[Len(issues) + 1] = e
  BY AppendProperties
<1>2. DOMAIN issues = 1..Len(issues) /\ DOMAIN issues' = 1..Len(issues')
  BY <1>1
<1> QED BY <1>1, <1>2 DEF SameSlugs, SameText

\* What the writes make of an issue is an issue of the same text.
LEMMA IssueUpdates ==
  ASSUME NEW issue \in Issue
  PROVE  /\ Reopened(issue) \in Issue /\ SameText(Reopened(issue), issue)
         /\ [issue EXCEPT !.notices = UpToTwo(@)] \in Issue
         /\ [issue EXCEPT !.asks = UpToTwo(@), !.ruling = BehindAsk(@)] \in Issue
         /\ \A b \in BOOLEAN : [issue EXCEPT !.gated = b] \in Issue
         /\ \A r \in Rulings : [issue EXCEPT !.ruling = r] \in Issue
         /\ [issue EXCEPT !.state = "closed"] \in Issue
         /\ \A r \in Rulings :
              [issue EXCEPT !.state = "closed", !.ruling = r] \in Issue
<1>1. /\ issue.ruling \in Rulings
      /\ UpToTwo(issue.notices) \in 0..2 /\ UpToTwo(issue.asks) \in 0..2
      /\ BehindAsk(issue.ruling) \in Rulings
  BY DEF Issue, UpToTwo, BehindAsk, Rulings
<1>2. /\ Reopened(issue) \in Issue /\ SameText(Reopened(issue), issue)
  BY <1>1 DEF Issue, Reopened, Rulings, SameText
<1>3. /\ [issue EXCEPT !.notices = UpToTwo(@)] \in Issue
      /\ [issue EXCEPT !.asks = UpToTwo(@), !.ruling = BehindAsk(@)] \in Issue
  BY <1>1 DEF Issue
<1>4. /\ \A b \in BOOLEAN : [issue EXCEPT !.gated = b] \in Issue
      /\ \A r \in Rulings : [issue EXCEPT !.ruling = r] \in Issue
      /\ [issue EXCEPT !.state = "closed"] \in Issue
      /\ \A r \in Rulings :
           [issue EXCEPT !.state = "closed", !.ruling = r] \in Issue
  BY DEF Issue
<1> QED BY <1>2, <1>3, <1>4

\* A fault, and what may be one, leaves the count of faults in its range.
LEMMA FaultProps ==
  ASSUME faults \in 0..MaxFaults
  PROVE  /\ \A kind : Fault(kind) => faults' \in 0..MaxFaults
         /\ \A o : Outcome(o) => faults' \in 0..MaxFaults
         /\ \A o : CreateOutcome(o) => faults' \in 0..MaxFaults
         /\ \A lo : ListedFrom(lo) => faults' \in 0..MaxFaults
<1>1. MaxFaults \in Nat
  BY LoopAssumption
<1>2. ASSUME NEW kind, Fault(kind)  PROVE faults' \in 0..MaxFaults
  BY <1>1, <1>2 DEF Fault
<1>3. ASSUME NEW o, Outcome(o)  PROVE faults' \in 0..MaxFaults
  BY <1>2, <1>3 DEF Outcome
<1>4. ASSUME NEW o, CreateOutcome(o)  PROVE faults' \in 0..MaxFaults
  BY <1>3, <1>4 DEF CreateOutcome
<1>5. ASSUME NEW lo, ListedFrom(lo)  PROVE faults' \in 0..MaxFaults
  BY <1>2, <1>5 DEF ListedFrom
<1> QED BY <1>2, <1>3, <1>4, <1>5

\* Setting a flag of one active row.
LEMMA FlagProps ==
  ASSUME NEW ledger, IsLedger(ledger), NEW i \in DOMAIN ledger.items,
         NEW next,
         \/ next = [ledger EXCEPT !.items[i].notified = TRUE]
         \/ next = [ledger EXCEPT !.items[i].filed = TRUE]
         \/ next = [ledger EXCEPT !.items[i].escalated = TRUE]
         \/ next = ledger
  PROVE  /\ IsLedger(next)
         /\ DOMAIN next.items = DOMAIN ledger.items
         /\ next.retired = ledger.retired
         /\ \A j \in DOMAIN ledger.items :
              /\ next.items[j].issue = ledger.items[j].issue
              /\ ledger.items[j].notified => next.items[j].notified
              /\ ledger.items[j].filed => next.items[j].filed
<1>1. ledger = [items |-> ledger.items, retired |-> ledger.retired]
  BY DEF IsLedger
<1>2. /\ ledger.items \in [DOMAIN ledger.items -> Row]
      /\ ledger.items[i] \in Row
  BY DEF IsLedger
<1> DEFINE row == ledger.items[i]
<1>3. ASSUME NEW new \in Row, new.issue = row.issue,
             row.notified => new.notified, row.filed => new.filed,
             next = [ledger EXCEPT !.items[i] = new]
      PROVE  /\ IsLedger(next)
             /\ DOMAIN next.items = DOMAIN ledger.items
             /\ next.retired = ledger.retired
             /\ \A j \in DOMAIN ledger.items :
                  /\ next.items[j].issue = ledger.items[j].issue
                  /\ ledger.items[j].notified => next.items[j].notified
                  /\ ledger.items[j].filed => next.items[j].filed
  <2>1. /\ next.items = [ledger.items EXCEPT ![i] = new]
        /\ next.retired = ledger.retired
        /\ next = [items |-> next.items, retired |-> next.retired]
    BY <1>1, <1>3
  <2>2. /\ DOMAIN next.items = DOMAIN ledger.items
        /\ next.items \in [DOMAIN ledger.items -> Row]
    BY <1>2, <1>3, <2>1
  <2>3. IsLedger(next)
    BY <2>1, <2>2 DEF IsLedger
  <2> QED BY <1>2, <1>3, <2>1, <2>2, <2>3
<1>4. CASE next = [ledger EXCEPT !.items[i].notified = TRUE]
  <2>1. [row EXCEPT !.notified = TRUE] \in Row
    BY <1>2 DEF Row
  <2>2. next = [ledger EXCEPT !.items[i] = [row EXCEPT !.notified = TRUE]]
    BY <1>4
  <2>3. /\ [row EXCEPT !.notified = TRUE].issue = row.issue
        /\ [row EXCEPT !.notified = TRUE].notified = TRUE
        /\ [row EXCEPT !.notified = TRUE].filed = row.filed
    BY <1>2 DEF Row
  <2> QED BY <1>3, <2>1, <2>2, <2>3
<1>5. CASE next = [ledger EXCEPT !.items[i].filed = TRUE]
  <2>1. [row EXCEPT !.filed = TRUE] \in Row
    BY <1>2 DEF Row
  <2>2. next = [ledger EXCEPT !.items[i] = [row EXCEPT !.filed = TRUE]]
    BY <1>5
  <2>3. /\ [row EXCEPT !.filed = TRUE].issue = row.issue
        /\ [row EXCEPT !.filed = TRUE].notified = row.notified
        /\ [row EXCEPT !.filed = TRUE].filed = TRUE
    BY <1>2 DEF Row
  <2> QED BY <1>3, <2>1, <2>2, <2>3
<1>6. CASE next = [ledger EXCEPT !.items[i].escalated = TRUE]
  <2>1. [row EXCEPT !.escalated = TRUE] \in Row
    BY <1>2 DEF Row
  <2>2. next = [ledger EXCEPT !.items[i] = [row EXCEPT !.escalated = TRUE]]
    BY <1>6
  <2>3. /\ [row EXCEPT !.escalated = TRUE].issue = row.issue
        /\ [row EXCEPT !.escalated = TRUE].notified = row.notified
        /\ [row EXCEPT !.escalated = TRUE].filed = row.filed
    BY <1>2 DEF Row
  <2> QED BY <1>3, <2>1, <2>2, <2>3
<1> QED BY <1>4, <1>5, <1>6

\* A step that replaces no ledger keeps both tracking issues.
LEMMA TracksKept ==
  ASSUME Tracks(store), Tracks(mem), SameSlugs
  PROVE  /\ store' = store => Tracks(store)'
         /\ store' = mem => Tracks(store)'
         /\ mem' = mem => Tracks(mem)'
         /\ mem' = EmptyLedger => Tracks(mem)'
<1>1. /\ store' = store => Tracks(store)'
      /\ store' = mem => Tracks(store)'
      /\ mem' = mem => Tracks(mem)'
  BY TracksStable DEF Tracks
<1>2. mem' = EmptyLedger => Tracks(mem)'
  BY EmptyLedgerProps DEF Tracks
<1> QED BY <1>1, <1>2

\* A step that changes no issue keeps the slugs.
LEMMA SameIssues ==
  ASSUME issues' = issues
  PROVE  SameSlugs
BY DEF SameSlugs, SameText

\* Setting a flag keeps a ledger tracking issues.
LEMMA TracksFlagged ==
  ASSUME Tracks(mem), SameSlugs,
         DOMAIN mem'.items = DOMAIN mem.items,
         \A j \in DOMAIN mem.items : mem'.items[j].issue = mem.items[j].issue
  PROVE  Tracks(mem)'
BY TracksStable DEF Tracks

\* The end of a run leaves the run's variables well typed.
LEMMA EndRunProps ==
  ASSUME LoopInv, EndRun, SameSlugs, store' = store, today' = today,
         issues' \in Seq(Issue), Len(issues') <= MaxIssues,
         faults' \in 0..MaxFaults
  PROVE  LoopInv'
<1> USE DEF EndRun, LoopInv
<1>1. Tracks(store)' /\ Tracks(mem)'
  BY TracksKept
<1>2. ActsOnTracked' /\ NoTodoBetween'
  BY DEF ActsOnTracked, NoTodoBetween
<1>3. IsLedger(mem')
  BY EmptyLedgerProps
<1>4. TypeOK'
  BY <1>3 DEF TypeOK, NoCur, Acts, Steps, IsLedger
<1> QED BY <1>1, <1>2, <1>4

\* The issue a write acts on exists and names the row.
LEMMA TrackedProps ==
  ASSUME LoopInv, pc \in {"acting", "asking"}
  PROVE  /\ cur.item \in DOMAIN mem.items
         /\ Tracked \in DOMAIN issues
         /\ issues[Tracked] \in Issue
         /\ cur.item \in Marks(issues[Tracked])
<1>1. cur.item \in DOMAIN mem.items /\ Tracked # 0
  BY DEF LoopInv, ActsOnTracked, Tracked
<1>2. Tracked \in DOMAIN issues /\ cur.item \in Marks(issues[Tracked])
  BY <1>1 DEF LoopInv, Tracks, Tracked
<1>3. issues \in Seq(Issue)
  BY DEF LoopInv, TypeOK
<1> QED BY <1>1, <1>2, <1>3, ElementOfSeq

\* After a write other than the label: the pass goes on or ends.
LEMMA ProceedProps ==
  ASSUME LoopInv, NEW o \in Outcomes, Proceed(o), SameSlugs,
         UNCHANGED <<today, store, plan, pass, filing>>,
         issues' \in Seq(Issue), Len(issues') <= MaxIssues,
         faults' \in 0..MaxFaults,
         IsLedger(mem'), DOMAIN mem'.items = DOMAIN mem.items,
         \A j \in DOMAIN mem.items : mem'.items[j].issue = mem.items[j].issue
  PROVE  LoopInv'
<1> USE DEF Proceed, LoopInv, filing
<1>1. Tracks(store)' /\ Tracks(mem)'
  BY TracksKept, TracksFlagged
<1>2. ActsOnTracked' /\ NoTodoBetween'
  BY DEF ActsOnTracked, NoTodoBetween
<1>3. todo' \in SUBSET DOMAIN mem'.items
  BY DEF TypeOK
<1>4. TypeOK'
  BY <1>3 DEF TypeOK, NoCur, Acts, Steps, IsLedger
<1> QED BY <1>1, <1>2, <1>4

\* The invariant holds before the first run.
LEMMA LoopInvInit == Init => LoopInv
<1> SUFFICES ASSUME Init PROVE LoopInv
  OBVIOUS
<1>1. Tracks(store) /\ Tracks(mem)
  BY EmptyLedgerProps DEF Init, Tracks
<1>2. ActsOnTracked
  BY DEF Init, ActsOnTracked
<1>3. MaxDay \in Nat /\ MaxIssues \in Nat /\ MaxFaults \in Nat
  BY LoopAssumption
<1>4. /\ issues \in Seq(Issue) /\ Len(issues) <= MaxIssues
      /\ IsLedger(store) /\ IsLedger(mem)
  BY <1>3, EmptyLedgerProps, EmptySeq DEF Init
<1>5. /\ today \in 0..MaxDay /\ faults \in 0..MaxFaults
      /\ pc \in Steps /\ pc \notin {"acting", "asking"}
  BY <1>3 DEF Init, Steps
<1>6. /\ plan \in SUBSET Items /\ pass \in BOOLEAN
      /\ todo \in SUBSET DOMAIN mem.items /\ toFile \in SUBSET Items
      /\ priors \in SUBSET Items
  BY DEF Init
<1>7. cur \in [item : Items \union {NoItem}, act : Acts]
  BY DEF Init, NoCur, Acts
<1>8. TypeOK
  BY <1>4, <1>5, <1>6, <1>7 DEF TypeOK
<1> QED BY <1>1, <1>2, <1>8 DEF LoopInv, NoTodoBetween, Init

\* Every step of the run, of a fault, of people and of the calendar keeps it.
LEMMA LoopInvStep == LoopInv /\ [Next]_vars => LoopInv'
<1> SUFFICES ASSUME LoopInv, [Next]_vars PROVE LoopInv'
  OBVIOUS
<1> USE DEF LoopInv, filing
<1>0. /\ MaxDay \in Nat /\ MaxIssues \in Nat /\ MaxFaults \in Nat
      /\ PlanEntries \subseteq [first : Statuses, again : Statuses]
      /\ Verdicts \subseteq BOOLEAN
  BY LoopAssumption
<1>1. CASE BuildPlan
  <2> USE DEF BuildPlan
  <2>1. PICK p \in [Items -> PlanEntries], v \in Verdicts :
          /\ mem' \in Merges(store, p, today)
          /\ plan' = Proposed(p)
          /\ pass' = v
    BY <1>1
  <2>2. p \in Plan /\ today \in Nat
    BY <1>0 DEF Plan, TypeOK
  <2>3. /\ IsLedger(mem')
        /\ \A i \in DOMAIN mem'.items :
             \/ /\ i \in DOMAIN store.items
                /\ mem'.items[i].issue = store.items[i].issue
             \/ mem'.items[i].issue = 0
    BY <2>1, <2>2, MergesProps DEF TypeOK
  <2>4. SameSlugs
    BY <1>1, SameIssues
  <2>5. Tracks(store)'
    BY <1>1, <2>4, TracksKept
  <2>6. Tracks(mem)'
    BY <1>1, <2>3 DEF Tracks
  <2>7. plan' \in SUBSET Items /\ pass' \in BOOLEAN
    BY <1>0, <2>1 DEF Proposed
  <2>8. todo' = {}
    BY <1>1 DEF NoTodoBetween
  <2>9. TypeOK'
    BY <1>1, <2>3, <2>7, <2>8 DEF TypeOK, Steps, IsLedger
  <2> QED BY <1>1, <2>5, <2>6, <2>9 DEF ActsOnTracked, NoTodoBetween
<1>2. CASE SkipLoop
  BY <1>2, FaultProps, SameIssues, TracksKept
     DEF SkipLoop, TypeOK, Steps, ActsOnTracked, NoTodoBetween, IsLedger
<1>3. CASE Backfill
  <2>1. PICK lo \in 1..Len(issues) + 1 :
          ListedFrom(lo) /\ mem' = [mem EXCEPT !.items = Backfilled(mem.items, lo)]
    BY <1>3 DEF Backfill, BackfillUnder
  <2>2. UNCHANGED <<today, store, issues, plan, pass, cur, filing>>
    BY <1>3 DEF Backfill, BackfillUnder
  <2> DEFINE filled == Backfilled(mem.items, lo)
  <2>3. /\ filled \in [DOMAIN mem.items -> Row]
        /\ \A i \in DOMAIN mem.items :
             filled[i].issue # 0 => /\ filled[i].issue \in DOMAIN issues
                                    /\ i \in Marks(issues[filled[i].issue])
    BY BackfilledProps DEF TypeOK
  <2> HIDE DEF filled
  <2>4. mem = [items |-> mem.items, retired |-> mem.retired]
    BY DEF TypeOK, IsLedger
  <2>5. /\ mem'.items = filled
        /\ mem'.retired = mem.retired
        /\ mem' = [items |-> mem'.items, retired |-> mem'.retired]
    BY <2>1, <2>4 DEF filled
  <2>6. DOMAIN mem'.items = DOMAIN mem.items /\ IsLedger(mem')
    BY <2>3, <2>5 DEF TypeOK, IsLedger
  <2>7. Tracks(mem)'
    BY <2>2, <2>3, <2>5 DEF Tracks
  <2>8. Tracks(store)'
    BY <2>2, SameIssues, TracksKept
  <2>9. faults' \in 0..MaxFaults
    BY <2>1, FaultProps DEF TypeOK
  <2>10. /\ pc' \in {"verify", "persist"}
         /\ todo' \in SUBSET DOMAIN mem'.items
    BY <1>3, <2>6 DEF Backfill, BackfillUnder, TypeOK
  <2>11. TypeOK'
    BY <2>2, <2>6, <2>9, <2>10 DEF TypeOK, Steps, IsLedger
  <2> QED BY <2>7, <2>8, <2>10, <2>11 DEF ActsOnTracked, NoTodoBetween
<1>4. ASSUME NEW i \in Items, Examine(i) PROVE LoopInv'
  <2> DEFINE row == mem.items[i]
  <2>1. /\ pc = "verify" /\ i \in DOMAIN mem.items
        /\ todo' = todo \ {i}
        /\ UNCHANGED <<today, store, issues, mem, plan, pass, filing>>
    BY <1>4 DEF Examine, TypeOK
  <2>2. row \in Row
    BY <2>1 DEF TypeOK, IsLedger
  <2>3. faults' \in 0..MaxFaults
    BY <1>4, FaultProps DEF Examine, CommentsRead, TypeOK
  <2>4. \/ Decide(i, "none")
        \/ /\ row.issue # 0
           /\ \E reading \in Readings, readable \in BOOLEAN :
                Decide(i, ActFor(row, issues[row.issue], reading, readable))
    BY <1>4 DEF Examine
  <2>5. ASSUME NEW reading, NEW readable,
               NEW act, act = ActFor(row, issues[row.issue], reading, readable)
        PROVE  act \in Acts /\ (act = "reopen" => ~row.notified /\ ~row.filed)
    <3>1. row.notified \in BOOLEAN /\ row.filed \in BOOLEAN
      BY <2>2 DEF Row
    <3>2. RuledFollowUp(row) \in {"none", "retrack", "notice"}
      BY <3>1 DEF RuledFollowUp
    <3>3. CASE issues[row.issue].state = "open"
      BY <2>5, <3>3 DEF ActFor, Acts
    <3>4. CASE issues[row.issue].state # "open"
      BY <2>5, <3>2, <3>4 DEF ActFor, Acts, JudgedRuled
    <3> QED BY <3>3, <3>4
  <2>6. \/ pc' = "verify" /\ cur' = cur
        \/ /\ pc' = "acting" /\ row.issue # 0
           /\ \E act \in Acts : /\ cur' = [item |-> i, act |-> act]
                                /\ act = "reopen" => ~row.notified /\ ~row.filed
    <3>1. CASE Decide(i, "none")
      BY <3>1 DEF Decide
    <3>2. CASE /\ row.issue # 0
               /\ \E reading \in Readings, readable \in BOOLEAN :
                    Decide(i, ActFor(row, issues[row.issue], reading, readable))
      BY <2>5, <3>2 DEF Decide
    <3> QED BY <2>4, <3>1, <3>2
  <2>7. Tracks(store)' /\ Tracks(mem)'
    BY <2>1, SameIssues, TracksKept
  <2>8. ActsOnTracked'
    BY <2>1, <2>6 DEF ActsOnTracked
  <2>9. TypeOK'
    BY <2>1, <2>3, <2>6 DEF TypeOK, Steps, IsLedger, Acts
  <2> QED BY <2>6, <2>7, <2>8, <2>9 DEF NoTodoBetween
<1>5. CASE EndPass
  BY <1>5, SameIssues, TracksKept
     DEF EndPass, TypeOK, Steps, ActsOnTracked, NoTodoBetween, IsLedger
<1>6. ASSUME pc \in {"acting", "asking"}, NEW e \in Issue,
             SameText(e, issues[Tracked]),
             issues' = issues \/ issues' = [issues EXCEPT ![Tracked] = e]
      PROVE  /\ issues' \in Seq(Issue)
             /\ Len(issues') <= MaxIssues
             /\ SameSlugs
  BY <1>6, TrackedProps, IssueReplaced, SameIssues DEF TypeOK
<1>7. CASE Reopen
  <2>1. PICK o \in Outcomes :
          /\ Outcome(o)
          /\ Proceed(o)
          /\ issues' = IF Applied(o)
                       THEN [issues EXCEPT ![Tracked] = Reopened(@)]
                       ELSE issues
    BY <1>7 DEF Reopen
  <2>2. pc = "acting" /\ UNCHANGED <<today, store, mem, plan, pass, filing>>
    BY <1>7 DEF Reopen
  <2> DEFINE e == Reopened(issues[Tracked])
  <2>3. e \in Issue /\ SameText(e, issues[Tracked])
    BY <2>2, TrackedProps, IssueUpdates
  <2>4. issues' = issues \/ issues' = [issues EXCEPT ![Tracked] = e]
    BY <2>1
  <2> HIDE DEF e
  <2>5. /\ issues' \in Seq(Issue)
        /\ Len(issues') <= MaxIssues
        /\ SameSlugs
    BY <1>6, <2>2, <2>3, <2>4
  <2>6. faults' \in 0..MaxFaults /\ IsLedger(mem')
    BY <2>1, <2>2, FaultProps DEF TypeOK
  <2> QED BY <2>1, <2>2, <2>5, <2>6, ProceedProps
<1>8. CASE Notice
  <2>1. PICK o \in Outcomes :
          /\ Outcome(o)
          /\ Proceed(o)
          /\ mem' = IF o = "ok"
                    THEN [mem EXCEPT !.items[cur.item].notified = TRUE]
                    ELSE mem
          /\ issues' = IF Applied(o)
                       THEN [issues EXCEPT ![Tracked].notices = UpToTwo(@)]
                       ELSE issues
    BY <1>8 DEF Notice
  <2>2. pc = "acting" /\ UNCHANGED <<today, store, plan, pass, filing>>
    BY <1>8 DEF Notice
  <2> DEFINE e == [issues[Tracked] EXCEPT !.notices = UpToTwo(@)]
  <2>3. e \in Issue /\ SameText(e, issues[Tracked])
    BY <2>2, TrackedProps, IssueUpdates DEF Issue, SameText
  <2>4. issues' = issues \/ issues' = [issues EXCEPT ![Tracked] = e]
    BY <2>1
  <2> HIDE DEF e
  <2>5. /\ issues' \in Seq(Issue)
        /\ Len(issues') <= MaxIssues
        /\ SameSlugs
    BY <1>6, <2>2, <2>3, <2>4
  <2>6. /\ IsLedger(mem')
        /\ DOMAIN mem'.items = DOMAIN mem.items
        /\ \A j \in DOMAIN mem.items : mem'.items[j].issue = mem.items[j].issue
    BY <2>1, <2>2, TrackedProps, FlagProps DEF TypeOK
  <2>7. faults' \in 0..MaxFaults
    BY <2>1, FaultProps DEF TypeOK
  <2> QED BY <2>1, <2>2, <2>5, <2>6, <2>7, ProceedProps
<1>9. ASSUME NEW e \in Issue, issues' = issues \/ issues' = Append(issues, e),
             issues' # issues => Len(issues) < MaxIssues
      PROVE  /\ issues' \in Seq(Issue)
             /\ Len(issues') <= MaxIssues
             /\ SameSlugs
  <2>1. CASE issues' = issues
    BY <2>1, SameIssues DEF TypeOK
  <2>2. CASE issues' = Append(issues, e) /\ issues' # issues
    <3>1. /\ issues' \in Seq(Issue)
          /\ Len(issues') = Len(issues) + 1
          /\ SameSlugs
      BY <2>2, IssueAdded DEF TypeOK
    <3> QED BY <1>0, <1>9, <2>2, <3>1 DEF TypeOK
  <2> QED BY <1>9, <2>1, <2>2
<1>10. CASE Retrack
  <2>1. PICK o \in Outcomes :
          /\ CreateOutcome(o)
          /\ Proceed(o)
          /\ mem' = IF o = "ok"
                    THEN [mem EXCEPT !.items[cur.item].filed = TRUE]
                    ELSE mem
          /\ issues' = IF Applied(o)
                       THEN Append(issues, NewIssue(NoItem, Tracked, {}))
                       ELSE issues
    BY <1>10 DEF Retrack
  <2>2. pc = "acting" /\ UNCHANGED <<today, store, plan, pass, filing>>
    BY <1>10 DEF Retrack
  <2> DEFINE e == NewIssue(NoItem, Tracked, {})
  <2>3. Tracked \in 0..MaxIssues
    BY <1>0, <2>2, TrackedProps DEF TypeOK
  <2>4. e \in Issue
    BY <2>3 DEF NewIssue, Issue, Rulings
  <2>5. /\ issues' = issues \/ issues' = Append(issues, e)
        /\ issues' # issues => Len(issues) < MaxIssues
    BY <2>1 DEF CreateOutcome, Applied
  <2> HIDE DEF e
  <2>6. /\ issues' \in Seq(Issue)
        /\ Len(issues') <= MaxIssues
        /\ SameSlugs
    BY <1>9, <2>4, <2>5
  <2>7. /\ IsLedger(mem')
        /\ DOMAIN mem'.items = DOMAIN mem.items
        /\ \A j \in DOMAIN mem.items : mem'.items[j].issue = mem.items[j].issue
    BY <2>1, <2>2, TrackedProps, FlagProps DEF TypeOK
  <2>8. faults' \in 0..MaxFaults
    BY <2>1, FaultProps DEF TypeOK
  <2> QED BY <2>1, <2>2, <2>6, <2>7, <2>8, ProceedProps
<1>11. CASE Label
  <2>1. PICK o \in Outcomes :
          /\ Outcome(o)
          /\ issues' = IF Applied(o)
                       THEN [issues EXCEPT ![Tracked].gated = TRUE]
                       ELSE issues
          /\ IF o = "ok"
             THEN pc' = "asking" /\ UNCHANGED <<todo, cur>>
             ELSE Proceed(o)
    BY <1>11 DEF Label
  <2>2. /\ pc = "acting" /\ cur.act = "label"
        /\ UNCHANGED <<today, store, mem, plan, pass, filing>>
    BY <1>11 DEF Label
  <2> DEFINE e == [issues[Tracked] EXCEPT !.gated = TRUE]
  <2>3. e \in Issue /\ SameText(e, issues[Tracked])
    BY <2>2, TrackedProps, IssueUpdates DEF Issue, SameText
  <2>4. issues' = issues \/ issues' = [issues EXCEPT ![Tracked] = e]
    BY <2>1
  <2> HIDE DEF e
  <2>5. /\ issues' \in Seq(Issue)
        /\ Len(issues') <= MaxIssues
        /\ SameSlugs
    BY <1>6, <2>2, <2>3, <2>4
  <2>6. faults' \in 0..MaxFaults /\ IsLedger(mem')
    BY <2>1, <2>2, FaultProps DEF TypeOK
  <2>7. CASE o # "ok"
    BY <2>1, <2>2, <2>5, <2>6, <2>7, ProceedProps
  <2>8. CASE o = "ok"
    <3>1. pc' = "asking" /\ todo' = todo /\ cur' = cur
      BY <2>1, <2>8
    <3>2. Tracks(store)' /\ Tracks(mem)'
      BY <2>2, <2>5, TracksKept
    <3>3. ActsOnTracked' /\ NoTodoBetween'
      BY <2>2, <3>1 DEF ActsOnTracked, NoTodoBetween
    <3>4. TypeOK'
      BY <2>2, <2>5, <2>6, <3>1 DEF TypeOK, Steps, IsLedger
    <3> QED BY <3>2, <3>3, <3>4
  <2> QED BY <2>7, <2>8
<1>12. CASE Ask
  <2>1. PICK o \in Outcomes :
          /\ Outcome(o)
          /\ Proceed(o)
          /\ mem' = IF o \in {"ok", "refused"}
                    THEN [mem EXCEPT !.items[cur.item].escalated = TRUE]
                    ELSE mem
          /\ issues' = IF Applied(o)
                       THEN [issues EXCEPT ![Tracked].asks = UpToTwo(@),
                                           ![Tracked].ruling = BehindAsk(@)]
                       ELSE issues
    BY <1>12 DEF Ask
  <2>2. pc = "asking" /\ UNCHANGED <<today, store, plan, pass, filing>>
    BY <1>12 DEF Ask
  <2> DEFINE e == [issues[Tracked] EXCEPT !.asks = UpToTwo(@), !.ruling = BehindAsk(@)]
  <2>3. e \in Issue /\ SameText(e, issues[Tracked])
    BY <2>2, TrackedProps, IssueUpdates DEF Issue, SameText
  <2>4. issues' = issues \/ issues' = [issues EXCEPT ![Tracked] = e]
    BY <2>1
  <2> HIDE DEF e
  <2>5. /\ issues' \in Seq(Issue)
        /\ Len(issues') <= MaxIssues
        /\ SameSlugs
    BY <1>6, <2>2, <2>3, <2>4
  <2>6. /\ IsLedger(mem')
        /\ DOMAIN mem'.items = DOMAIN mem.items
        /\ \A j \in DOMAIN mem.items : mem'.items[j].issue = mem.items[j].issue
    BY <2>1, <2>2, TrackedProps, FlagProps DEF TypeOK
  <2>7. faults' \in 0..MaxFaults
    BY <2>1, FaultProps DEF TypeOK
  <2> QED BY <2>1, <2>2, <2>5, <2>6, <2>7, ProceedProps
<1>13. CASE WriteLedger
  <2>1. SameSlugs
    BY <1>13, SameIssues DEF WriteLedger
  <2>2. Tracks(store)' /\ Tracks(mem)'
    BY <1>13, <2>1, TracksKept DEF WriteLedger
  <2>3. TypeOK'
    BY <1>13 DEF WriteLedger, TypeOK, Steps, IsLedger
  <2> QED BY <1>13, <2>2, <2>3 DEF WriteLedger, ActsOnTracked, NoTodoBetween
<1>14. CASE SkipFiling
  BY <1>14, FaultProps, SameIssues, EndRunProps DEF SkipFiling, TypeOK
<1>15. CASE ListFiled
  <2>1. /\ UNCHANGED <<today, store, issues, mem, plan, pass, todo, cur>>
        /\ pc' = "filing" /\ toFile' \in SUBSET Items
        /\ faults' \in 0..MaxFaults
    BY <1>15, FaultProps DEF ListFiled, TypeOK
  <2>4. priors' \in SUBSET Items
    <3>1. ClosedSlugs \in SUBSET Items
      <4>1. \A n \in DOMAIN issues : issues[n] \in Issue
        BY ElementOfSeq DEF TypeOK
      <4> QED BY <4>1 DEF ClosedSlugs, Issue
    <3> QED BY <1>15, <3>1 DEF ListFiled
  <2>2. Tracks(store)' /\ Tracks(mem)'
    BY <2>1, SameIssues, TracksKept
  <2>3. TypeOK'
    BY <2>1, <2>4 DEF TypeOK, Steps, IsLedger
  <2> QED BY <2>1, <2>2, <2>3 DEF ActsOnTracked, NoTodoBetween
<1>16. ASSUME NEW i \in Items, File(i) PROVE LoopInv'
  <2>1. PICK o \in Outcomes, cites \in SUBSET (priors \ {i}) :
          /\ CreateOutcome(o)
          /\ issues' = IF Applied(o)
                       THEN Append(issues, NewIssue(i, 0, cites))
                       ELSE issues
          /\ IF o = "ok"
             THEN /\ toFile' = toFile \ {i}
                  /\ UNCHANGED <<pc, mem, plan, pass, todo, cur, priors>>
             ELSE EndRun
    BY <1>16 DEF File
  <2>2. pc = "filing" /\ UNCHANGED <<today, store>>
    BY <1>16 DEF File
  <2> DEFINE e == NewIssue(i, 0, cites)
  <2>3. e \in Issue
    <3>1. cites \in SUBSET Items
      BY DEF TypeOK
    <3> QED BY <1>0, <3>1 DEF NewIssue, Issue, Rulings
  <2>4. /\ issues' = issues \/ issues' = Append(issues, e)
        /\ issues' # issues => Len(issues) < MaxIssues
    BY <2>1 DEF CreateOutcome, Applied
  <2> HIDE DEF e
  <2>5. /\ issues' \in Seq(Issue)
        /\ Len(issues') <= MaxIssues
        /\ SameSlugs
    BY <1>9, <2>3, <2>4
  <2>6. faults' \in 0..MaxFaults
    BY <2>1, FaultProps DEF TypeOK
  <2>7. CASE o # "ok"
    BY <2>1, <2>2, <2>5, <2>6, <2>7, EndRunProps
  <2>8. CASE o = "ok"
    <3>1. /\ toFile' \in SUBSET Items
          /\ UNCHANGED <<pc, mem, plan, pass, todo, cur, priors>>
      BY <2>1, <2>8 DEF TypeOK
    <3>2. Tracks(store)' /\ Tracks(mem)'
      BY <2>2, <2>5, <3>1, TracksKept
    <3>3. TypeOK'
      BY <2>2, <2>5, <2>6, <3>1 DEF TypeOK, IsLedger
    <3> QED BY <2>2, <3>1, <3>2, <3>3 DEF ActsOnTracked, NoTodoBetween
  <2> QED BY <2>7, <2>8
<1>17. CASE EndFiling
  BY <1>17, SameIssues, EndRunProps DEF EndFiling, TypeOK
<1>18. CASE Crash
  BY <1>18, FaultProps, SameIssues, EndRunProps DEF Crash, TypeOK
<1>19. CASE NextDay
  <2>1. /\ UNCHANGED <<store, issues, pc, mem, plan, pass, todo, cur, toFile, priors, faults>>
        /\ today' \in 0..MaxDay
    BY <1>0, <1>19 DEF NextDay, runVars, TypeOK
  <2>2. Tracks(store)' /\ Tracks(mem)'
    BY <2>1, SameIssues, TracksKept
  <2>3. TypeOK'
    BY <2>1 DEF TypeOK, IsLedger
  <2> QED BY <2>1, <2>2, <2>3 DEF ActsOnTracked, NoTodoBetween
<1>20. ASSUME NEW n \in DOMAIN issues, NEW act \in AllHumanActs, HumanStep(n, act)
       PROVE  LoopInv'
  <2>1. UNCHANGED <<today, store, pc, mem, plan, pass, todo, cur, toFile, priors, faults>>
    BY <1>20 DEF HumanStep, runVars
  <2>2. issues[n] \in Issue
    BY <1>20, ElementOfSeq DEF TypeOK
  <2> DEFINE e == CASE act = "merge"  -> [issues[n] EXCEPT !.state = "closed"]
                    [] act = "reopen" -> Reopened(issues[n])
                    [] act = "reply"  -> [issues[n] EXCEPT !.ruling = "buried"]
                    [] act = "ungate" -> [issues[n] EXCEPT !.gated = FALSE]
                    [] OTHER          -> [issues[n] EXCEPT !.state = "closed",
                                                           !.ruling = act]
  <2>3. issues' = [issues EXCEPT ![n] = e]
    BY <1>20 DEF HumanStep
  <2>4. e \in Issue /\ SameText(e, issues[n])
    <3>1. CASE act = "merge"
      BY <2>2, <3>1, IssueUpdates DEF Issue, SameText
    <3>2. CASE act = "reopen"
      BY <2>2, <3>2, IssueUpdates
    <3>3. CASE act = "reply"
      BY <2>2, <3>3 DEF Issue, Rulings, SameText
    <3>4. CASE act = "ungate"
      BY <2>2, <3>4 DEF Issue, SameText
    <3>5. CASE act \in {"label", "not_planned", "comment"}
      <4>1. e = [issues[n] EXCEPT !.state = "closed", !.ruling = act]
        BY <3>5
      <4>2. act \in Rulings
        BY <3>5 DEF Rulings
      <4> QED BY <2>2, <4>1, <4>2, IssueUpdates DEF Issue, SameText
    <3> QED BY <1>20, <3>1, <3>2, <3>3, <3>4, <3>5 DEF AllHumanActs
  <2> HIDE DEF e
  <2>5. /\ issues' \in Seq(Issue)
        /\ Len(issues') <= MaxIssues
        /\ SameSlugs
    BY <1>20, <2>3, <2>4, IssueReplaced DEF TypeOK
  <2>6. Tracks(store)' /\ Tracks(mem)'
    BY <2>1, <2>5, TracksKept
  <2>7. TypeOK'
    BY <2>1, <2>5 DEF TypeOK, IsLedger
  <2> QED BY <2>1, <2>6, <2>7 DEF ActsOnTracked, NoTodoBetween
<1>21. CASE UNCHANGED vars
  <2>1. Tracks(store)' /\ Tracks(mem)'
    BY <1>21, SameIssues, TracksKept DEF vars
  <2>2. TypeOK'
    BY <1>21 DEF vars, TypeOK, IsLedger
  <2> QED BY <1>21, <2>1, <2>2 DEF vars, ActsOnTracked, NoTodoBetween
<1> QED
  BY <1>1, <1>2, <1>3, <1>4, <1>5, <1>7, <1>8, <1>10, <1>11, <1>12, <1>13,
     <1>14, <1>15, <1>16, <1>17, <1>18, <1>19, <1>20, <1>21
  DEF Next, DirectorStep

\* Every state of the loop is well typed, whatever fails and whatever people do.
THEOREM TypeCorrect == Spec => []TypeOK
<1>1. Init => LoopInv
  BY LoopInvInit
<1>2. LoopInv /\ [Next]_vars => LoopInv'
  BY LoopInvStep
<1>3. LoopInv => TypeOK
  BY DEF LoopInv
<1> QED BY <1>1, <1>2, <1>3, PTL DEF Spec

\* The invariant holds in every state of the loop.
LEMMA LoopInvAlways == Spec => []LoopInv
BY LoopInvInit, LoopInvStep, PTL DEF Spec

-----------------------------------------------------------------------------
(* What a run does to the ledgers.                                         *)

\* The rows of the two ledgers that both keep active: flags are only added.
FlagsGrow(older, newer) ==
  \A i \in DOMAIN older.items \intersect DOMAIN newer.items :
    /\ older.items[i].notified => newer.items[i].notified
    /\ older.items[i].filed => newer.items[i].filed

\* The five things a step may do to store and mem.
MergeStep == /\ pc = "idle" /\ pc' = "loop" /\ store' = store
             /\ \E p \in Plan : mem' \in Merges(store, p, today)
EndStep == pc' = "idle" /\ store' = store /\ mem' = EmptyLedger
RunStep == /\ pc # "idle" /\ store' = store
           /\ DOMAIN mem'.items = DOMAIN mem.items
           /\ mem'.retired = mem.retired
           /\ FlagsGrow(mem, mem')
           /\ \/ Backfill
              \/ \A i \in DOMAIN mem.items : mem'.items[i].issue = mem.items[i].issue
WriteStep == pc # "idle" /\ store' = mem /\ mem' = mem
QuietStep == UNCHANGED <<pc, store, mem>>

\* Every step does one of these to the two ledgers.
LEMMA LedgerSteps ==
  ASSUME LoopInv, [Next]_vars
  PROVE  MergeStep \/ EndStep \/ RunStep \/ WriteStep \/ QuietStep
<1> USE DEF LoopInv
<1>1. CASE BuildPlan
  <2>1. PICK p \in [Items -> PlanEntries], v \in Verdicts :
          mem' \in Merges(store, p, today)
    BY <1>1 DEF BuildPlan
  <2>2. p \in Plan
    BY LoopAssumption DEF Plan
  <2> QED BY <1>1, <2>1, <2>2 DEF BuildPlan, MergeStep
<1>2. ASSUME pc # "idle", store' = store, mem' = mem
      PROVE  RunStep
  BY <1>2 DEF RunStep, FlagsGrow
<1>3. CASE \/ SkipLoop \/ EndPass \/ Reopen \/ Label \/ ListFiled
           \/ \E i \in Items : Examine(i)
  BY <1>2, <1>3 DEF SkipLoop, EndPass, Reopen, Label, ListFiled, Examine
<1>4. CASE Backfill
  <2>1. PICK lo \in 1..Len(issues) + 1 :
          mem' = [mem EXCEPT !.items = Backfilled(mem.items, lo)]
    BY <1>4 DEF Backfill, BackfillUnder
  <2>2. pc = "loop" /\ store' = store
    BY <1>4 DEF Backfill, BackfillUnder
  <2> DEFINE filled == Backfilled(mem.items, lo)
  <2>3. /\ DOMAIN filled = DOMAIN mem.items
        /\ \A i \in DOMAIN mem.items :
             /\ filled[i].notified = mem.items[i].notified
             /\ filled[i].filed = mem.items[i].filed
    BY BackfilledProps DEF TypeOK
  <2> HIDE DEF filled
  <2>4. mem = [items |-> mem.items, retired |-> mem.retired]
    BY DEF TypeOK, IsLedger
  <2>5. mem'.items = filled /\ mem'.retired = mem.retired
    BY <2>1, <2>4 DEF filled
  <2> QED BY <1>4, <2>2, <2>3, <2>5 DEF RunStep, FlagsGrow
<1>5. ASSUME NEW o, pc \in {"acting", "asking"}, store' = store,
             \/ mem' = [mem EXCEPT !.items[cur.item].notified = TRUE]
             \/ mem' = [mem EXCEPT !.items[cur.item].filed = TRUE]
             \/ mem' = [mem EXCEPT !.items[cur.item].escalated = TRUE]
             \/ mem' = mem
      PROVE  RunStep
  <2>1. /\ DOMAIN mem'.items = DOMAIN mem.items
        /\ mem'.retired = mem.retired
        /\ \A j \in DOMAIN mem.items :
              /\ mem'.items[j].issue = mem.items[j].issue
              /\ mem.items[j].notified => mem'.items[j].notified
              /\ mem.items[j].filed => mem'.items[j].filed
    <3>1. IsLedger(mem) /\ cur.item \in DOMAIN mem.items
      BY <1>5, TrackedProps DEF TypeOK
    <3> QED BY <1>5, <3>1, FlagProps
  <2> QED BY <1>5, <2>1 DEF RunStep, FlagsGrow
<1>6. CASE Notice
  BY <1>5, <1>6 DEF Notice
<1>7. CASE Retrack
  BY <1>5, <1>7 DEF Retrack
<1>8. CASE Ask
  BY <1>5, <1>8 DEF Ask
<1>9. CASE WriteLedger
  BY <1>9 DEF WriteLedger, WriteStep
<1>10. CASE SkipFiling \/ EndFiling \/ Crash
  BY <1>10 DEF SkipFiling, EndFiling, Crash, EndRun, EndStep
<1>11. ASSUME NEW i \in Items, File(i)
       PROVE  EndStep \/ RunStep
  <2>1. pc = "filing" /\ store' = store /\ (mem' = mem \/ EndRun)
    BY <1>11 DEF File
  <2> QED BY <1>2, <2>1 DEF EndRun, EndStep
<1>12. CASE NextDay \/ UNCHANGED vars
            \/ \E n \in DOMAIN issues, act \in AllHumanActs : HumanStep(n, act)
  BY <1>12 DEF NextDay, HumanStep, vars, runVars, QuietStep
<1> QED
  BY <1>1, <1>3, <1>4, <1>6, <1>7, <1>8, <1>9, <1>10, <1>11, <1>12
  DEF Next, DirectorStep

\* While a run is under way its merged ledger holds all the persisted one
\* knows, and every ruling the persisted one has recorded.
MergedInv ==
  /\ ActiveBounded
  /\ pc # "idle" => Known(store) \subseteq Known(mem) /\ FlagsGrow(store, mem)

\* Every step keeps the size bound and what a run has inherited.
LEMMA MergedInvStep == LoopInv /\ MergedInv /\ [Next]_vars => MergedInv'
<1> SUFFICES ASSUME LoopInv, MergedInv, [Next]_vars PROVE MergedInv'
  OBVIOUS
<1> USE DEF MergedInv, ActiveBounded
<1>1. CASE MergeStep
  <2>1. PICK p \in Plan : mem' \in Merges(store, p, today)
    BY <1>1 DEF MergeStep
  <2>2. IsLedger(store) /\ today \in Nat
    BY LoopAssumption DEF LoopInv, TypeOK
  <2>3. /\ Known(store) \subseteq Known(mem')
        /\ Cardinality(DOMAIN mem'.items) <= MaxActive
        /\ \A i \in DOMAIN mem'.items :
             i \in DOMAIN store.items =>
               /\ mem'.items[i].notified = store.items[i].notified
               /\ mem'.items[i].filed = store.items[i].filed
    BY <2>1, <2>2, MergesProps
  <2> QED BY <1>1, <2>3 DEF MergeStep, Known, FlagsGrow
<1>2. CASE EndStep
  <2>1. Cardinality(DOMAIN EmptyLedger.items) <= MaxActive
    BY EmptyLedgerProps, FS_EmptySet, LedgerAssumption
  <2> QED BY <1>2, <2>1 DEF EndStep
<1>3. CASE RunStep
  BY <1>3 DEF RunStep, Known, FlagsGrow
<1>4. CASE WriteStep
  BY <1>4 DEF WriteStep, Known, FlagsGrow
<1>5. CASE QuietStep
  BY <1>5 DEF QuietStep, Known, FlagsGrow
<1> QED BY <1>1, <1>2, <1>3, <1>4, <1>5, LedgerSteps

\* That holds in every state of the loop.
LEMMA MergedInvAlways == Spec => []MergedInv
<1>1. Init => MergedInv
  <2>1. Cardinality(DOMAIN EmptyLedger.items) <= MaxActive
    BY EmptyLedgerProps, FS_EmptySet, LedgerAssumption
  <2> QED BY <2>1 DEF Init, MergedInv, ActiveBounded
<1>2. LoopInv /\ MergedInv /\ [Next]_vars => MergedInv'
  BY MergedInvStep
<1> QED BY <1>1, <1>2, LoopInvAlways, PTL DEF Spec

\* The active set, in memory and as persisted, never exceeds its size bound.
THEOREM ActiveSetStaysBounded == Spec => []ActiveBounded
<1>1. MergedInv => ActiveBounded
  BY DEF MergedInv
<1> QED BY <1>1, MergedInvAlways, PTL

\* No id is ever lost from the ledger artifact: neither the age bound, the
\* size bound, a crash nor a failed pass drops a commitment.
THEOREM NothingIsForgotten == Spec => LedgerNeverForgets
<1>1. LoopInv /\ MergedInv /\ [Next]_vars => [Known(store) \subseteq Known(store')]_vars
  <2> SUFFICES ASSUME LoopInv, MergedInv, [Next]_vars
               PROVE  Known(store) \subseteq Known(store')
    OBVIOUS
  <2>1. CASE MergeStep \/ EndStep \/ RunStep \/ QuietStep
    BY <2>1 DEF MergeStep, EndStep, RunStep, QuietStep
  <2>2. CASE WriteStep
    BY <2>2 DEF WriteStep, MergedInv
  <2> QED BY <2>1, <2>2, LedgerSteps
<1> QED BY <1>1, LoopInvAlways, MergedInvAlways, PTL DEF Spec, LedgerNeverForgets

-----------------------------------------------------------------------------
(* Recorded rulings. *)

\* A step of the Director that opens a closed issue is a reopen of the issue
\* its current row names.
LEMMA OpenedByReopen ==
  ASSUME LoopInv, [Next]_vars, ByDirector, NEW n \in DOMAIN issues, Opened(n)
  PROVE  pc = "acting" /\ cur.act = "reopen" /\ n = Tracked
<1> USE DEF LoopInv
<1>0. /\ issues[n].state = "closed" /\ issues'[n].state = "open"
      /\ issues'[n] # issues[n]
  BY DEF Opened
<1>1. CASE issues' = issues
  BY <1>0, <1>1
<1>2. ASSUME NEW e \in Issue, issues' = Append(issues, e)
      PROVE  FALSE
  BY <1>0, <1>2, IssueAdded DEF TypeOK
<1>3. ASSUME NEW m \in DOMAIN issues, NEW e \in Issue,
             e.state = issues[m].state, issues' = [issues EXCEPT ![m] = e]
      PROVE  FALSE
  BY <1>0, <1>3
<1>4. CASE Reopen
  <2>1. pc = "acting" /\ cur.act = "reopen"
    BY <1>4 DEF Reopen
  <2>2. issues' = issues \/ issues' = [issues EXCEPT ![Tracked] = Reopened(@)]
    BY <1>4 DEF Reopen
  <2>3. n = Tracked
    BY <1>0, <1>1, <2>1, <2>2, TrackedProps
  <2> QED BY <2>1, <2>3
<1>5. CASE Notice \/ Label \/ Ask
  <2>1. pc \in {"acting", "asking"}
    BY <1>5 DEF Notice, Label, Ask
  <2>2. Tracked \in DOMAIN issues /\ issues[Tracked] \in Issue
    BY <2>1, TrackedProps
  <2>3. \/ issues' = issues
        \/ issues' = [issues EXCEPT ![Tracked].notices = UpToTwo(@)]
        \/ issues' = [issues EXCEPT ![Tracked].gated = TRUE]
        \/ issues' = [issues EXCEPT ![Tracked].asks = UpToTwo(@),
                                    ![Tracked].ruling = BehindAsk(@)]
    <3>1. CASE Notice
      BY <3>1 DEF Notice
    <3>2. CASE Label
      BY <3>2 DEF Label
    <3>3. CASE Ask
      BY <3>3 DEF Ask
    <3> QED BY <1>5, <3>1, <3>2, <3>3
  <2> DEFINE noticed == [issues[Tracked] EXCEPT !.notices = UpToTwo(@)]
             gated == [issues[Tracked] EXCEPT !.gated = TRUE]
             asked == [issues[Tracked] EXCEPT !.asks = UpToTwo(@), !.ruling = BehindAsk(@)]
  <2>4. /\ noticed \in Issue /\ gated \in Issue /\ asked \in Issue
    BY <2>2, IssueUpdates
  <2>5. /\ noticed.state = issues[Tracked].state
        /\ gated.state = issues[Tracked].state
        /\ asked.state = issues[Tracked].state
    BY <2>2 DEF Issue
  <2>6. CASE issues' = [issues EXCEPT ![Tracked] = noticed]
    BY <1>3, <2>2, <2>4, <2>5, <2>6
  <2>7. CASE issues' = [issues EXCEPT ![Tracked] = gated]
    BY <1>3, <2>2, <2>4, <2>5, <2>7
  <2>8. CASE issues' = [issues EXCEPT ![Tracked] = asked]
    BY <1>3, <2>2, <2>4, <2>5, <2>8
  <2> QED BY <1>1, <2>3, <2>6, <2>7, <2>8
<1>6. CASE Retrack
  <2>1. pc = "acting"
    BY <1>6 DEF Retrack
  <2>2. NewIssue(NoItem, Tracked, {}) \in Issue
    BY <2>1, TrackedProps, LoopAssumption DEF TypeOK, NewIssue, Issue, Rulings
  <2> QED BY <1>1, <1>2, <1>6, <2>2 DEF Retrack
<1>7. ASSUME NEW i \in Items, File(i) PROVE FALSE
  <2>1. \A cites \in SUBSET (priors \ {i}) : NewIssue(i, 0, cites) \in Issue
    BY LoopAssumption DEF NewIssue, Issue, Rulings, TypeOK
  <2>2. \/ issues' = issues
        \/ \E cites \in SUBSET (priors \ {i}) :
             issues' = Append(issues, NewIssue(i, 0, cites))
    BY <1>7 DEF File
  <2> QED BY <1>0, <1>2, <2>1, <2>2
<1>8. CASE \/ BuildPlan \/ SkipLoop \/ Backfill \/ EndPass \/ WriteLedger
           \/ SkipFiling \/ ListFiled \/ EndFiling \/ Crash \/ NextDay
           \/ UNCHANGED vars \/ \E i \in Items : Examine(i)
  BY <1>0, <1>8 DEF BuildPlan, SkipLoop, Backfill, BackfillUnder, EndPass,
     WriteLedger, SkipFiling, ListFiled, EndFiling, Crash, NextDay, Examine, vars
<1>9. CASE \E m \in DOMAIN issues, act \in AllHumanActs : HumanStep(m, act)
  BY <1>9 DEF HumanStep, ByDirector
<1> QED
  BY <1>4, <1>5, <1>6, <1>7, <1>8, <1>9 DEF Next, DirectorStep


-----------------------------------------------------------------------------
(* What issues name. *)

\* What a step does to what issues name: keep it all, add a re-track (which
\* names no item), add one of the items still to file, or set what is still to
\* file and what may be cited.
KeepSlugs == /\ DOMAIN issues' = DOMAIN issues
             /\ \A n \in DOMAIN issues : SameText(issues'[n], issues[n])
             /\ pc' = "filing" => pc = "filing" /\ toFile' = toFile
             /\ priors' = priors \/ priors' = {}
AddSlug(e) == /\ issues' = Append(issues, e)
              /\ e.cites \subseteq priors
              /\ \/ e.slug = NoItem /\ pc' # "filing"
                 \/ /\ pc = "filing" /\ e.slug \in toFile
                    /\ pc' = "filing" => toFile' = toFile \ {e.slug}
              /\ priors' = priors \/ priors' = {}

\* Every step is one of these.
LEMMA SlugSteps ==
  ASSUME LoopInv, [Next]_vars
  PROVE  KeepSlugs \/ (\E e \in Issue : AddSlug(e)) \/ ListFiled
<1> USE DEF LoopInv, filing
<1>1. ASSUME NEW n \in DOMAIN issues, NEW e, SameText(e, issues[n]),
             issues' = issues \/ issues' = [issues EXCEPT ![n] = e],
             pc' = "filing" => pc = "filing" /\ toFile' = toFile,
             priors' = priors \/ priors' = {}
      PROVE  KeepSlugs
  BY <1>1 DEF KeepSlugs, SameText
<1>2. CASE Reopen \/ Notice \/ Label \/ Ask
  <2>1. pc \in {"acting", "asking"} /\ pc' # "filing" /\ priors' = priors
    <3>1. CASE Reopen
      BY <3>1 DEF Reopen, Proceed
    <3>2. CASE Notice
      BY <3>2 DEF Notice, Proceed
    <3>3. CASE Label
      BY <3>3 DEF Label, Proceed
    <3>4. CASE Ask
      BY <3>4 DEF Ask, Proceed
    <3> QED BY <1>2, <3>1, <3>2, <3>3, <3>4
  <2>2. Tracked \in DOMAIN issues /\ issues[Tracked] \in Issue
    BY <2>1, TrackedProps
  <2> DEFINE noticed == [issues[Tracked] EXCEPT !.notices = UpToTwo(@)]
             gated == [issues[Tracked] EXCEPT !.gated = TRUE]
             asked == [issues[Tracked] EXCEPT !.asks = UpToTwo(@), !.ruling = BehindAsk(@)]
  <2>3. \/ issues' = issues
        \/ issues' = [issues EXCEPT ![Tracked] = Reopened(issues[Tracked])]
        \/ issues' = [issues EXCEPT ![Tracked] = noticed]
        \/ issues' = [issues EXCEPT ![Tracked] = gated]
        \/ issues' = [issues EXCEPT ![Tracked] = asked]
    <3>1. CASE Reopen
      BY <3>1 DEF Reopen
    <3>2. CASE Notice
      BY <3>2 DEF Notice
    <3>3. CASE Label
      BY <3>3 DEF Label
    <3>4. CASE Ask
      BY <3>4 DEF Ask
    <3> QED BY <1>2, <3>1, <3>2, <3>3, <3>4
  <2>4. /\ SameText(issues[Tracked], issues[Tracked])
        /\ SameText(Reopened(issues[Tracked]), issues[Tracked])
        /\ SameText(noticed, issues[Tracked])
        /\ SameText(gated, issues[Tracked])
        /\ SameText(asked, issues[Tracked])
    BY <2>2, IssueUpdates DEF Issue, SameText
  <2> HIDE DEF noticed, gated, asked
  <2>5. \E e : /\ SameText(e, issues[Tracked])
               /\ issues' = issues \/ issues' = [issues EXCEPT ![Tracked] = e]
    BY <2>3, <2>4
  <2> QED BY <1>1, <2>1, <2>2, <2>5
<1>3. CASE Retrack
  <2>1. pc = "acting" /\ pc' # "filing" /\ priors' = priors
    BY <1>3 DEF Retrack, Proceed
  <2> DEFINE e == NewIssue(NoItem, Tracked, {})
  <2>2. e \in Issue /\ e.slug = NoItem /\ e.cites \subseteq priors
    BY <2>1, TrackedProps, LoopAssumption DEF TypeOK, NewIssue, Issue, Rulings
  <2>3. CASE issues' = issues
    BY <2>1, <2>3 DEF KeepSlugs, SameText
  <2>4. CASE issues' = Append(issues, e)
    BY <2>1, <2>2, <2>4 DEF AddSlug
  <2> QED BY <1>3, <2>3, <2>4 DEF Retrack
<1>4. ASSUME NEW i \in Items, File(i)
      PROVE  KeepSlugs \/ \E e \in Issue : AddSlug(e)
  <2>1. PICK o \in Outcomes, cites \in SUBSET (priors \ {i}) :
          /\ issues' = IF Applied(o)
                       THEN Append(issues, NewIssue(i, 0, cites))
                       ELSE issues
          /\ IF o = "ok"
             THEN /\ toFile' = toFile \ {i}
                  /\ UNCHANGED <<pc, mem, plan, pass, todo, cur, priors>>
             ELSE EndRun
    BY <1>4 DEF File
  <2>2. pc = "filing" /\ i \in toFile
    BY <1>4 DEF File
  <2> DEFINE e == NewIssue(i, 0, cites)
  <2>3. e \in Issue /\ e.slug = i /\ e.cites \subseteq priors
    BY LoopAssumption DEF NewIssue, Issue, Rulings, TypeOK
  <2>4. CASE o = "ok"
    BY <2>1, <2>2, <2>3, <2>4 DEF Applied, AddSlug
  <2>5. CASE o # "ok" /\ Applied(o)
    BY <2>1, <2>2, <2>3, <2>5 DEF EndRun, AddSlug
  <2>6. CASE o # "ok" /\ ~Applied(o)
    BY <2>1, <2>6 DEF EndRun, KeepSlugs, SameText
  <2> QED BY <2>4, <2>5, <2>6
<1>5. CASE \/ BuildPlan \/ SkipLoop \/ Backfill \/ EndPass \/ WriteLedger
           \/ SkipFiling \/ EndFiling \/ Crash \/ NextDay
           \/ UNCHANGED vars \/ \E i \in Items : Examine(i)
  BY <1>5 DEF BuildPlan, SkipLoop, Backfill, BackfillUnder, EndPass, Decide,
     WriteLedger, SkipFiling, EndFiling, EndRun, Crash, NextDay, Examine, vars,
     runVars, KeepSlugs, SameText
<1>6. ASSUME NEW n \in DOMAIN issues, NEW act \in AllHumanActs, HumanStep(n, act)
      PROVE  KeepSlugs
  <2>1. pc' = pc /\ toFile' = toFile /\ priors' = priors
    BY <1>6 DEF HumanStep, runVars
  <2>2. issues[n] \in Issue
    BY <1>6, ElementOfSeq DEF TypeOK
  <2> DEFINE e == CASE act = "merge"  -> [issues[n] EXCEPT !.state = "closed"]
                    [] act = "reopen" -> Reopened(issues[n])
                    [] act = "reply"  -> [issues[n] EXCEPT !.ruling = "buried"]
                    [] act = "ungate" -> [issues[n] EXCEPT !.gated = FALSE]
                    [] OTHER          -> [issues[n] EXCEPT !.state = "closed",
                                                           !.ruling = act]
  <2>3. issues' = [issues EXCEPT ![n] = e]
    BY <1>6 DEF HumanStep
  <2>4. SameText(e, issues[n])
    BY <2>2 DEF Issue, Reopened, SameText
  <2> HIDE DEF e
  <2> QED BY <1>1, <2>1, <2>3, <2>4
<1> QED
  BY <1>2, <1>3, <1>4, <1>5, <1>6 DEF Next, DirectorStep

-----------------------------------------------------------------------------
(* A row's issue is its own. *)

\* A listing is never cut short: no page of it fails, and it is long enough.
WholeListings == "list" \notin Faults /\ ListMax >= MaxIssues

\* Every issue number of a ledger names the issue filed for that row's id.
Own(ledger) ==
  \A i \in DOMAIN ledger.items :
    ledger.items[i].issue # 0 => issues[ledger.items[i].issue].slug = i

\* The issue filed for an item is older than any that cites it, and exists
\* before the item can be cited.
CitesOlder ==
  \A n \in DOMAIN issues : \A i \in issues[n].cites :
    \E m \in DOMAIN issues : m < n /\ issues[m].slug = i
PriorsExist ==
  \A i \in priors : \E n \in DOMAIN issues : issues[n].slug = i

OwnInv == Own(store) /\ Own(mem) /\ CitesOlder /\ PriorsExist

\* With the whole listing at hand the oldest issue that names an item is its own.
LEMMA FirstListedIsOwn ==
  ASSUME issues \in Seq(Issue), CitesOlder, NEW i, NEW n \in FirstListed(i, 1)
  PROVE  issues[n].slug = i
<1>1. /\ n \in 1..Len(issues)
      /\ i \in Marks(issues[n])
      /\ \A m \in 1..n-1 : i \notin Marks(issues[m])
  BY DEF FirstListed
<1>2. CASE i \in issues[n].cites
  <2>1. PICK m \in DOMAIN issues : m < n /\ issues[m].slug = i
    BY <1>1, <1>2 DEF CitesOlder
  <2>2. m \in 1..n-1 /\ i \in Marks(issues[m])
    BY <1>1, <2>1 DEF Marks
  <2> QED BY <1>1, <2>2
<1> QED BY <1>1, <1>2 DEF Marks

\* The numbers a backfill from the whole listing fills in are own ones.
LEMMA BackfilledOwn ==
  ASSUME issues \in Seq(Issue), CitesOlder, NEW ledger, IsLedger(ledger),
         Own(ledger), NEW i \in DOMAIN ledger.items,
         Backfilled(ledger.items, 1)[i].issue # 0
  PROVE  issues[Backfilled(ledger.items, 1)[i].issue].slug = i
<1> DEFINE filled == Backfilled(ledger.items, 1)
<1>1. CASE ledger.items[i].issue # 0 \/ FirstListed(i, 1) = {}
  <2>1. filled[i] = ledger.items[i]
    BY <1>1 DEF Backfilled
  <2> QED BY <2>1 DEF Own
<1>2. CASE ~(ledger.items[i].issue # 0 \/ FirstListed(i, 1) = {})
  <2> DEFINE n == CHOOSE n \in FirstListed(i, 1) : TRUE
  <2>1. n \in FirstListed(i, 1)
    BY <1>2
  <2>2. filled[i] = [ledger.items[i] EXCEPT !.issue = n]
    BY <1>2 DEF Backfilled
  <2>3. ledger.items[i] \in Row
    BY DEF IsLedger
  <2> HIDE DEF n
  <2>4. filled[i].issue = n
    BY <2>2, <2>3 DEF Row
  <2> QED BY <2>1, <2>4, FirstListedIsOwn
<1> QED BY <1>1, <1>2

\* What a step does to issues: existing ones keep their text, and what the new
\* text cites was filed before.
LEMMA TextsStep ==
  ASSUME LoopInv, OwnInv, [Next]_vars
  PROVE  SameSlugs /\ CitesOlder' /\ PriorsExist'
<1> USE DEF LoopInv, OwnInv
<1>0. issues \in Seq(Issue) /\ DOMAIN issues = 1..Len(issues)
  BY DEF TypeOK
<1>1. CASE KeepSlugs
  BY <1>1 DEF KeepSlugs, SameSlugs, SameText, CitesOlder, PriorsExist
<1>2. ASSUME NEW e \in Issue, AddSlug(e)
      PROVE  SameSlugs /\ CitesOlder' /\ PriorsExist'
  <2>1. /\ issues' \in Seq(Issue)
        /\ Len(issues') = Len(issues) + 1
        /\ SameSlugs
        /\ issues'[Len(issues) + 1] = e
        /\ \A n \in DOMAIN issues : issues'[n] = issues[n]
    BY <1>2, IssueAdded DEF AddSlug, TypeOK
  <2>2. DOMAIN issues' = 1..Len(issues) + 1
    BY <2>1
  <2>3. ASSUME NEW n \in DOMAIN issues', NEW i \in issues'[n].cites
        PROVE  \E m \in DOMAIN issues' : m < n /\ issues'[m].slug = i
    <3>1. CASE n \in DOMAIN issues
      <4>1. PICK m \in DOMAIN issues : m < n /\ issues[m].slug = i
        BY <2>1, <2>3, <3>1 DEF CitesOlder
      <4> QED BY <1>0, <2>1, <2>2, <4>1
    <3>2. CASE n = Len(issues) + 1
      <4>1. i \in priors
        BY <1>2, <2>1, <2>3, <3>2 DEF AddSlug
      <4>2. PICK m \in DOMAIN issues : issues[m].slug = i
        BY <4>1 DEF PriorsExist
      <4> QED BY <1>0, <2>1, <2>2, <3>2, <4>2
    <3> QED BY <1>0, <2>2, <3>1, <3>2
  <2>4. PriorsExist'
    BY <1>2, <2>1 DEF AddSlug, PriorsExist, SameSlugs
  <2> QED BY <2>1, <2>3, <2>4 DEF CitesOlder
<1>3. CASE ListFiled
  <2>1. issues' = issues /\ (priors' = {} \/ priors' = ClosedSlugs)
    BY <1>3 DEF ListFiled
  <2>2. \A i \in ClosedSlugs : \E n \in DOMAIN issues : issues[n].slug = i
    BY DEF ClosedSlugs
  <2> QED BY <2>1, <2>2, SameIssues DEF CitesOlder, PriorsExist
<1> QED BY <1>1, <1>2, <1>3, SlugSteps

\* With whole listings every step keeps rows on their own issues.
LEMMA OwnInvStep ==
  ASSUME WholeListings, LoopInv, OwnInv, [Next]_vars
  PROVE  OwnInv'
<1> USE DEF LoopInv, OwnInv
<1>1. SameSlugs /\ CitesOlder' /\ PriorsExist'
  BY TextsStep
<1>2. ASSUME NEW ledger, Tracks(ledger), Own(ledger)
      PROVE  \A i \in DOMAIN ledger.items :
               ledger.items[i].issue # 0 =>
                 issues'[ledger.items[i].issue].slug = i
  BY <1>1, <1>2 DEF Tracks, Own, SameSlugs, SameText
<1>3. ASSUME store' = store \/ store' = mem
      PROVE  Own(store)'
  BY <1>2, <1>3 DEF Own
<1>4. CASE MergeStep
  <2>1. PICK p \in Plan : mem' \in Merges(store, p, today)
    BY <1>4 DEF MergeStep
  <2>2. IsLedger(store) /\ today \in Nat
    BY LoopAssumption DEF TypeOK
  <2>3. \A i \in DOMAIN mem'.items :
          mem'.items[i].issue # 0 =>
            /\ i \in DOMAIN store.items
            /\ mem'.items[i].issue = store.items[i].issue
    BY <2>1, <2>2, MergesProps
  <2>4. Own(mem)'
    BY <1>2, <2>3 DEF Own
  <2> QED BY <1>1, <1>3, <1>4, <2>4 DEF MergeStep
<1>5. CASE EndStep
  <2>1. Own(mem)'
    BY <1>5, EmptyLedgerProps DEF EndStep, Own
  <2> QED BY <1>1, <1>3, <1>5, <2>1 DEF EndStep
<1>6. CASE RunStep
  <2>1. CASE \A i \in DOMAIN mem.items : mem'.items[i].issue = mem.items[i].issue
    <3>1. Own(mem)'
      BY <1>2, <1>6, <2>1 DEF Own, RunStep
    <3> QED BY <1>1, <1>3, <1>6, <3>1 DEF RunStep
  <2>2. CASE Backfill
    <3>1. PICK lo \in 1..Len(issues) + 1 :
            ListedFrom(lo) /\ mem' = [mem EXCEPT !.items = Backfilled(mem.items, lo)]
      BY <2>2 DEF Backfill, BackfillUnder
    <3>2. lo = 1
      <4>1. ~(Len(issues) > ListMax)
        BY LoopAssumption DEF WholeListings, TypeOK
      <4> QED BY <3>1, <4>1 DEF ListedFrom, Fault, WholeListings
    <3> DEFINE filled == Backfilled(mem.items, 1)
    <3>3. mem'.items = filled /\ DOMAIN filled = DOMAIN mem.items
      BY <3>1, <3>2 DEF TypeOK, IsLedger, Backfilled
    <3>4. \A i \in DOMAIN mem.items :
            filled[i].issue # 0 => issues[filled[i].issue].slug = i
      BY BackfilledOwn DEF TypeOK
    <3> HIDE DEF filled
    <3>5. issues' = issues
      BY <2>2 DEF Backfill, BackfillUnder
    <3>6. Own(mem)'
      BY <3>3, <3>4, <3>5 DEF Own
    <3> QED BY <1>1, <1>3, <1>6, <3>6 DEF RunStep
  <2> QED BY <1>6, <2>1, <2>2 DEF RunStep
<1>7. CASE WriteStep
  <2>1. Own(mem)'
    BY <1>2, <1>7 DEF WriteStep, Own
  <2> QED BY <1>1, <1>3, <1>7, <2>1 DEF WriteStep
<1>8. CASE QuietStep
  <2>1. Own(mem)'
    BY <1>2, <1>8 DEF QuietStep, Own
  <2> QED BY <1>1, <1>3, <1>8, <2>1 DEF QuietStep
<1> QED BY <1>4, <1>5, <1>6, <1>7, <1>8, LedgerSteps

\* That holds in every state of a loop whose listings are whole.
LEMMA OwnInvAlways ==
  ASSUME WholeListings
  PROVE  Spec => []OwnInv
<1>1. Init => OwnInv
  BY EmptyLedgerProps DEF Init, OwnInv, Own, CitesOlder, PriorsExist
<1>2. LoopInv /\ OwnInv /\ [Next]_vars => OwnInv'
  BY OwnInvStep
<1> QED BY <1>1, <1>2, LoopInvAlways, PTL DEF Spec

\* When no listing is cut short, the issue a row names was filed for that row,
\* however many issues cite the item and under every other fault and act of
\* people: the loop never acts on another item's issue.
THEOREM RowsTrackTheirOwnIssue ==
  ASSUME "list" \notin Faults, ListMax >= MaxIssues
  PROVE  Spec => []TracksOwnIssue
<1>1. LoopInv /\ OwnInv => TracksOwnIssue
  BY DEF LoopInv, Tracks, OwnInv, Own, TracksOwnIssue
<1>2. Spec => []OwnInv
  BY OwnInvAlways DEF WholeListings
<1> QED BY <1>1, <1>2, LoopInvAlways, PTL

\* Once a run has persisted that a close was ruled, no later run reopens the
\* issue: not after a crash, not when its comments cannot be read or have been
\* buried, not when people reopen and close it again, not through the row of
\* another item whose issue cites this one.
THEOREM RecordedRulingStands ==
  ASSUME "list" \notin Faults, ListMax >= MaxIssues
  PROVE  Spec => NoReopenOfRecordedRuling
<1> DEFINE Stands ==
      \A n \in DOMAIN issues : ByDirector /\ Opened(n) =>
        \A i \in DOMAIN store.items :
          store.items[i].issue = n => ~store.items[i].notified /\ ~store.items[i].filed
<1>1. LoopInv /\ MergedInv /\ OwnInv /\ [Next]_vars => [Stands]_vars
  <2> SUFFICES ASSUME LoopInv, MergedInv, OwnInv, [Next]_vars,
                      NEW n \in DOMAIN issues, ByDirector, Opened(n),
                      NEW i \in DOMAIN store.items, store.items[i].issue = n
               PROVE  ~store.items[i].notified /\ ~store.items[i].filed
    OBVIOUS
  <2>1. pc = "acting" /\ cur.act = "reopen" /\ n = Tracked
    BY OpenedByReopen
  <2>2. n # 0
    BY DEF LoopInv, TypeOK
  <2>3. issues[n].slug = i /\ issues[n].slug = cur.item
    BY <2>1, <2>2, TrackedProps DEF OwnInv, Own, Tracked
  <2>4. cur.item \in DOMAIN mem.items
    BY <2>1, TrackedProps
  <2>5. ~mem.items[i].notified /\ ~mem.items[i].filed
    BY <2>1, <2>3, <2>4 DEF LoopInv, ActsOnTracked
  <2> QED BY <2>1, <2>3, <2>4, <2>5 DEF MergedInv, FlagsGrow
<1>2. Spec => []OwnInv
  BY OwnInvAlways DEF WholeListings
<1> QED
  BY <1>1, <1>2, LoopInvAlways, MergedInvAlways, PTL
  DEF Spec, NoReopenOfRecordedRuling

-----------------------------------------------------------------------------
(* One issue per slug. *)

\* While a run files, no issue has a slug it still has to file: the listing it
\* started from named every issue, and only the run itself files slugs.
UniqueInv ==
  /\ OneIssuePerSlug
  /\ pc = "filing" => \A n \in DOMAIN issues : issues[n].slug \notin toFile

\* With listings that are whole, every step keeps that.
LEMMA UniqueInvStep ==
  ASSUME "list" \notin Faults, ListMax >= MaxIssues,
         LoopInv, UniqueInv, [Next]_vars
  PROVE  UniqueInv'
<1> USE DEF LoopInv
<1>1. /\ MaxIssues \in Nat /\ ListMax \in Nat /\ NoItem \notin Items
  BY LoopAssumption
<1>2. CASE KeepSlugs
  BY <1>2 DEF KeepSlugs, SameText, UniqueInv, OneIssuePerSlug
<1>3. ASSUME NEW e \in Issue, AddSlug(e) PROVE UniqueInv'
  <2>1. /\ Len(issues') = Len(issues) + 1
        /\ issues'[Len(issues) + 1] = e
        /\ \A n \in DOMAIN issues : issues'[n] = issues[n]
        /\ issues \in Seq(Issue) /\ issues' \in Seq(Issue)
    BY <1>3, IssueAdded DEF AddSlug, TypeOK
  <2>2. \A n \in DOMAIN issues' : n \in DOMAIN issues \/ issues'[n] = e
    BY <2>1
  <2>3. e.slug # NoItem => \A n \in DOMAIN issues : issues[n].slug # e.slug
    BY <1>1, <1>3 DEF AddSlug, UniqueInv
  <2>4. OneIssuePerSlug'
    <3> SUFFICES ASSUME NEW m \in DOMAIN issues', NEW n \in DOMAIN issues',
                        issues'[m].slug = issues'[n].slug,
                        issues'[m].slug # NoItem
                 PROVE  m = n
      BY DEF OneIssuePerSlug
    <3>1. CASE m \in DOMAIN issues /\ n \in DOMAIN issues
      BY <2>1, <3>1 DEF UniqueInv, OneIssuePerSlug
    <3>2. CASE m \notin DOMAIN issues /\ n \notin DOMAIN issues
      BY <2>1, <3>2
    <3>3. CASE m \in DOMAIN issues /\ n \notin DOMAIN issues
      BY <2>1, <2>2, <2>3, <3>3
    <3>4. CASE m \notin DOMAIN issues /\ n \in DOMAIN issues
      BY <2>1, <2>2, <2>3, <3>4
    <3> QED BY <3>1, <3>2, <3>3, <3>4
  <2>5. ASSUME pc' = "filing", NEW n \in DOMAIN issues'
        PROVE  issues'[n].slug \notin toFile'
    BY <1>3, <2>1, <2>2, <2>5 DEF AddSlug, UniqueInv
  <2> QED BY <2>4, <2>5 DEF UniqueInv
<1>4. CASE ListFiled
  <2>1. PICK lo \in 1..Len(issues) + 1, held \in SUBSET Holdable :
          /\ ListedFrom(lo)
          /\ toFile' = (plan \ SlugsFrom(lo)) \ held
    BY <1>4 DEF ListFiled
  <2>2. lo = 1
    BY <1>1, <2>1 DEF ListedFrom, Fault, TypeOK
  <2>3. issues \in Seq(Issue) /\ issues' = issues
    BY <1>4 DEF ListFiled, TypeOK
  <2>4. \A n \in DOMAIN issues : issues[n].slug \in SlugsFrom(lo)
    BY <2>2, <2>3 DEF SlugsFrom, Marks
  <2> QED BY <2>1, <2>3, <2>4 DEF UniqueInv, OneIssuePerSlug
<1> QED BY <1>2, <1>3, <1>4, SlugSteps

\* As long as a listing names every issue, no slug is ever filed twice: not by
\* re-runs, not after a crash, not when the answer to a filing was lost.
THEOREM NoSlugIsFiledTwice ==
  ASSUME "list" \notin Faults, ListMax >= MaxIssues
  PROVE  Spec => []OneIssuePerSlug
<1>1. Init => UniqueInv
  BY DEF Init, UniqueInv, OneIssuePerSlug
<1>2. LoopInv /\ UniqueInv /\ [Next]_vars => UniqueInv'
  BY UniqueInvStep
<1>3. UniqueInv => OneIssuePerSlug
  BY DEF UniqueInv
<1> QED BY <1>1, <1>2, <1>3, LoopInvAlways, PTL DEF Spec

-----------------------------------------------------------------------------
(* The verdict gate. *)

\* The pass and the filing run only under a PASS.
GateInv == pc \in {"verify", "acting", "asking", "filing"} => pass

\* A run whose card is not attested PASS changes no issue, at any of its steps.
THEOREM WithheldRunsMutateNothing == Spec => WithheldRunMutatesNothing
<1>1. Init => GateInv
  BY DEF Init, GateInv
<1>2. GateInv /\ [Next]_vars => GateInv'
  <2> SUFFICES ASSUME GateInv, [Next]_vars PROVE GateInv'
    OBVIOUS
  <2> USE DEF GateInv
  <2>1. CASE \/ BuildPlan \/ SkipLoop \/ Backfill \/ EndPass \/ WriteLedger
             \/ SkipFiling \/ EndFiling \/ Crash \/ NextDay \/ ListFiled
             \/ UNCHANGED vars \/ (\E i \in Items : Examine(i))
    BY <2>1 DEF BuildPlan, SkipLoop, Backfill, BackfillUnder, EndPass, Decide,
       WriteLedger, SkipFiling, ListFiled, EndFiling, EndRun, Crash, NextDay,
       Examine, vars, runVars
  <2>2. CASE Reopen \/ Notice \/ Retrack \/ Label \/ Ask
    <3>1. CASE Reopen
      BY <3>1 DEF Reopen, Proceed
    <3>2. CASE Notice
      BY <3>2 DEF Notice, Proceed
    <3>3. CASE Retrack
      BY <3>3 DEF Retrack, Proceed
    <3>4. CASE Label
      BY <3>4 DEF Label, Proceed
    <3>5. CASE Ask
      BY <3>5 DEF Ask, Proceed
    <3> QED BY <2>2, <3>1, <3>2, <3>3, <3>4, <3>5
  <2>3. CASE \E i \in Items : File(i)
    BY <2>3 DEF File, EndRun
  <2>4. CASE \E n \in DOMAIN issues, act \in AllHumanActs : HumanStep(n, act)
    BY <2>4 DEF HumanStep, runVars
  <2> QED BY <2>1, <2>2, <2>3, <2>4 DEF Next, DirectorStep
<1>3. GateInv /\ [Next]_vars => [ByDirector /\ ~pass => issues' = issues]_vars
  <2> SUFFICES ASSUME GateInv, [Next]_vars, ByDirector, ~pass
               PROVE  issues' = issues
    OBVIOUS
  <2>1. pc \notin {"verify", "acting", "asking", "filing"}
    BY DEF GateInv
  <2> QED
    BY <2>1 DEF Next, DirectorStep, BuildPlan, SkipLoop, Backfill,
       BackfillUnder, Examine, EndPass, Reopen, Notice, Retrack, Label, Ask,
       WriteLedger, SkipFiling, ListFiled, File, EndFiling, Crash, NextDay,
       HumanStep, vars, ByDirector
<1> QED BY <1>1, <1>2, <1>3, PTL DEF Spec, WithheldRunMutatesNothing
=============================================================================
