---------------------------- MODULE RulingProofs ----------------------------
(* What holds of the answers DirectorLoop gives to rulings and to carried  *)
(* items, for every value of the constants: notices, re-tracks, Asks and   *)
(* what a run's retirement may let go.                                     *)
EXTENDS DirectorLoopProofs

-----------------------------------------------------------------------------
(* More about the ledger as a value. *)

\* Renewing a row sets its date or leaves it, and without a "resolved" keeps
\* the escalation flag.
LEMMA RenewedKeeps ==
  ASSUME NEW row \in Row, NEW status \in Statuses, NEW day \in Nat
  PROVE  LET new == Renewed(row, status, day)
         IN  /\ new.last = IF status = "none" THEN row.last ELSE day
             /\ status # "resolved" => new.escalated = row.escalated
<1>1. CASE status = "none"
  BY <1>1 DEF Renewed
<1>2. CASE status = "resolved"
  <2>1. Renewed(row, status, day)
          = [row EXCEPT !.last = day, !.carry = 0, !.escalated = FALSE]
    BY <1>2 DEF Renewed
  <2> QED BY <1>2, <2>1 DEF Row
<1>3. CASE status = "proposed"
  <2>1. Renewed(row, status, day)
          = [row EXCEPT !.last = day, !.carry = Counted(@)]
    BY <1>3 DEF Renewed
  <2> QED BY <1>3, <2>1 DEF Row
<1> QED BY <1>1, <1>2, <1>3 DEF Statuses

\* After an upsert the proposed rows carry the run's date and the others the
\* date they had; without a "resolved" an escalated row stays escalated; a
\* new row records no notice.
LEMMA UpsertedKeeps ==
  ASSUME NEW ledger, IsLedger(ledger), NEW p \in Plan, NEW day \in Nat
  PROVE  LET rows == Upserted(ledger.items, p, day)
         IN  \A i \in DOMAIN rows :
               /\ i \in Proposed(p) => rows[i].last = day
               /\ i \notin Proposed(p) =>
                    /\ i \in DOMAIN ledger.items
                    /\ rows[i].last \in {ledger.items[i].last, day}
               /\ /\ i \in DOMAIN ledger.items
                  /\ p[i].first # "resolved" /\ p[i].again # "resolved"
                  => rows[i].escalated = ledger.items[i].escalated
               /\ i \notin DOMAIN ledger.items => ~rows[i].notified
<1> DEFINE rows == Upserted(ledger.items, p, day)
<1> SUFFICES ASSUME NEW i \in DOMAIN rows
             PROVE  /\ i \in Proposed(p) => rows[i].last = day
                    /\ i \notin Proposed(p) =>
                         /\ i \in DOMAIN ledger.items
                         /\ rows[i].last \in {ledger.items[i].last, day}
                    /\ /\ i \in DOMAIN ledger.items
                       /\ p[i].first # "resolved" /\ p[i].again # "resolved"
                       => rows[i].escalated = ledger.items[i].escalated
                    /\ i \notin DOMAIN ledger.items => ~rows[i].notified
  OBVIOUS
<1>1. /\ i \in DOMAIN ledger.items \union Proposed(p)
      /\ rows[i] = RowAfter(ledger.items, p, i, day)
  BY DEF Upserted
<1>2. i \in Items /\ p[i].first \in Statuses /\ p[i].again \in Statuses
  BY <1>1 DEF IsLedger, Proposed, Plan
<1>3. CASE i \in DOMAIN ledger.items
  <2> DEFINE row == ledger.items[i]
             once == Renewed(row, p[i].first, day)
  <2>1. row \in Row
    BY <1>3 DEF IsLedger
  <2>2. /\ once \in Row
        /\ once.last = IF p[i].first = "none" THEN row.last ELSE day
        /\ p[i].first # "resolved" => once.escalated = row.escalated
    BY <1>2, <2>1, RenewedProps, RenewedKeeps
  <2>3. rows[i] = Renewed(once, p[i].again, day)
    BY <1>1, <1>3 DEF RowAfter
  <2>4. i \in Proposed(p) <=> p[i].first # "none"
    BY <1>2 DEF Proposed
  <2> HIDE DEF once
  <2>5. /\ rows[i].last = IF p[i].again = "none" THEN once.last ELSE day
        /\ p[i].again # "resolved" => rows[i].escalated = once.escalated
    BY <1>2, <2>2, <2>3, RenewedKeeps
  <2> HIDE DEF rows
  <2> QED BY <1>3, <2>2, <2>4, <2>5
<1>4. CASE i \notin DOMAIN ledger.items
  <2>1. /\ NewRow(day) \in Row
        /\ NewRow(day).last = day /\ NewRow(day).notified = FALSE
    BY NewRowProps DEF NewRow
  <2>2. rows[i] = Renewed(NewRow(day), p[i].again, day)
    BY <1>1, <1>4 DEF RowAfter
  <2>3. rows[i].last = day /\ rows[i].notified = FALSE
    BY <1>2, <2>1, <2>2, RenewedKeeps, RenewedProps
  <2> QED BY <1>1, <1>4, <2>3
<1> QED BY <1>3, <1>4

\* A row dated today is let go only if every row kept is dated today.
LEMMA ActiveSetsKeepFresh ==
  ASSUME NEW rows, NEW day \in Nat, \A i \in DOMAIN rows : rows[i].last \in 0..day,
         NEW kept \in ActiveSets(rows, day)
  PROVE  \A i \in DOMAIN rows \ kept, j \in kept :
           rows[i].last = day => rows[j].last = day
<1> SUFFICES ASSUME NEW i \in DOMAIN rows \ kept, NEW j \in kept, rows[i].last = day
             PROVE  rows[j].last = day
  OBVIOUS
<1> DEFINE fresh == DOMAIN rows \ Stale(rows, day)
<1>1. i \in fresh
  BY LedgerAssumption DEF Stale
<1>2. CASE Cardinality(fresh) <= MaxActive
  BY <1>1, <1>2 DEF ActiveSets
<1>3. CASE ~(Cardinality(fresh) <= MaxActive)
  <2>1. /\ kept \in SUBSET fresh
        /\ \A a \in kept, b \in fresh \ kept : rows[a].last >= rows[b].last
    BY <1>3 DEF ActiveSets
  <2>2. rows[j].last >= rows[i].last /\ j \in DOMAIN rows
    BY <1>1, <2>1
  <2> QED BY <2>2
<1> QED BY <1>2, <1>3

\* What a merge keeps, beyond MergesProps: an id that is not retired stays
\* active, a new row records no notice, dates reach at most today, and what it proposed today goes only
\* when all that stays was proposed today.
LEMMA MergesKeep ==
  ASSUME NEW ledger, IsLedger(ledger), NEW p \in Plan, NEW day \in Nat,
         NEW merged \in Merges(ledger, p, day)
  PROVE  /\ ledger.retired \subseteq merged.retired
         /\ \A i \in DOMAIN ledger.items : i \notin merged.retired =>
              /\ i \in DOMAIN merged.items
              /\ p[i].first # "resolved" /\ p[i].again # "resolved" =>
                   merged.items[i].escalated = ledger.items[i].escalated
         /\ \A i \in DOMAIN merged.items \ DOMAIN ledger.items : ~merged.items[i].notified
         /\ (\A i \in DOMAIN ledger.items : ledger.items[i].last <= day) =>
              /\ \A i \in DOMAIN merged.items : merged.items[i].last <= day
              /\ \A i \in Proposed(p) \ DOMAIN merged.items, j \in DOMAIN merged.items :
                   merged.items[j].last = day
<1> DEFINE rows == Upserted(ledger.items, p, day)
<1>1. PICK kept \in ActiveSets(rows, day) :
        merged = [items   |-> [i \in kept |-> rows[i]],
                  retired |-> ledger.retired \union (DOMAIN rows \ kept)]
  BY DEF Merges
<1>2. /\ DOMAIN rows = DOMAIN ledger.items \union Proposed(p)
      /\ DOMAIN rows \subseteq Items
      /\ \A i \in DOMAIN rows : rows[i] \in Row
  BY UpsertedProps
<1>3. \A i \in DOMAIN rows :
        /\ i \in Proposed(p) => rows[i].last = day
        /\ i \notin Proposed(p) =>
             /\ i \in DOMAIN ledger.items
             /\ rows[i].last \in {ledger.items[i].last, day}
        /\ /\ i \in DOMAIN ledger.items
           /\ p[i].first # "resolved" /\ p[i].again # "resolved"
           => rows[i].escalated = ledger.items[i].escalated
        /\ i \notin DOMAIN ledger.items => ~rows[i].notified
  BY UpsertedKeeps
<1> HIDE DEF rows
<1>4. kept \subseteq DOMAIN rows
  BY <1>2, ActiveSetsProps
<1>5. /\ merged.items = [i \in kept |-> rows[i]]
      /\ merged.retired = ledger.retired \union (DOMAIN rows \ kept)
      /\ DOMAIN merged.items = kept
      /\ \A i \in kept : merged.items[i] = rows[i]
  BY <1>1
<1>6. ASSUME NEW i \in DOMAIN ledger.items, i \notin merged.retired
      PROVE  /\ i \in DOMAIN merged.items
             /\ p[i].first # "resolved" /\ p[i].again # "resolved" =>
                  merged.items[i].escalated = ledger.items[i].escalated
  BY <1>2, <1>3, <1>5, <1>6
<1>7. ASSUME \A i \in DOMAIN ledger.items : ledger.items[i].last <= day
      PROVE  /\ \A i \in DOMAIN merged.items : merged.items[i].last <= day
             /\ \A i \in Proposed(p) \ DOMAIN merged.items, j \in DOMAIN merged.items :
                  merged.items[j].last = day
  <2>1. \A i \in DOMAIN rows : rows[i].last \in 0..day
    <3> SUFFICES ASSUME NEW i \in DOMAIN rows PROVE rows[i].last \in 0..day
      OBVIOUS
    <3>1. rows[i].last \in Nat
      BY <1>2 DEF Row
    <3>2. CASE i \in Proposed(p)
      BY <1>3, <3>2
    <3>3. CASE i \notin Proposed(p)
      BY <1>3, <1>7, <3>1, <3>3
    <3> QED BY <3>2, <3>3
  <2>2. \A i \in DOMAIN rows \ kept, j \in kept :
          rows[i].last = day => rows[j].last = day
    BY <2>1, ActiveSetsKeepFresh
  <2>3. \A i \in DOMAIN merged.items : merged.items[i].last <= day
    BY <1>4, <1>5, <2>1
  <2>4. ASSUME NEW i \in Proposed(p) \ DOMAIN merged.items,
               NEW j \in DOMAIN merged.items
        PROVE  merged.items[j].last = day
    BY <1>2, <1>3, <1>5, <2>2, <2>4
  <2> QED BY <2>3, <2>4
<1>8. \A i \in DOMAIN merged.items \ DOMAIN ledger.items : ~merged.items[i].notified
  BY <1>3, <1>4, <1>5
<1> QED BY <1>5, <1>6, <1>7, <1>8

\* Setting a flag leaves dates alone and takes no escalation back.
LEMMA FlagKeeps ==
  ASSUME NEW ledger, IsLedger(ledger), NEW i \in DOMAIN ledger.items,
         NEW next,
         \/ next = [ledger EXCEPT !.items[i].notified = TRUE]
         \/ next = [ledger EXCEPT !.items[i].filed = TRUE]
         \/ next = [ledger EXCEPT !.items[i].escalated = TRUE]
         \/ next = ledger
  PROVE  \A j \in DOMAIN ledger.items :
           /\ next.items[j].last = ledger.items[j].last
           /\ ledger.items[j].escalated => next.items[j].escalated
<1>1. /\ ledger = [items |-> ledger.items, retired |-> ledger.retired]
      /\ ledger.items \in [DOMAIN ledger.items -> Row]
      /\ ledger.items[i] \in Row
  BY DEF IsLedger
<1> DEFINE row == ledger.items[i]
<1>2. ASSUME NEW new, new.last = row.last, row.escalated => new.escalated,
             next = [ledger EXCEPT !.items[i] = new]
      PROVE  \A j \in DOMAIN ledger.items :
               /\ next.items[j].last = ledger.items[j].last
               /\ ledger.items[j].escalated => next.items[j].escalated
  BY <1>1, <1>2
<1>3. CASE next = [ledger EXCEPT !.items[i].notified = TRUE]
  <2>1. next = [ledger EXCEPT !.items[i] = [row EXCEPT !.notified = TRUE]]
    BY <1>3
  <2>2. /\ [row EXCEPT !.notified = TRUE].last = row.last
        /\ [row EXCEPT !.notified = TRUE].escalated = row.escalated
    BY <1>1 DEF Row
  <2> QED BY <1>2, <2>1, <2>2
<1>4. CASE next = [ledger EXCEPT !.items[i].filed = TRUE]
  <2>1. next = [ledger EXCEPT !.items[i] = [row EXCEPT !.filed = TRUE]]
    BY <1>4
  <2>2. /\ [row EXCEPT !.filed = TRUE].last = row.last
        /\ [row EXCEPT !.filed = TRUE].escalated = row.escalated
    BY <1>1 DEF Row
  <2> QED BY <1>2, <2>1, <2>2
<1>5. CASE next = [ledger EXCEPT !.items[i].escalated = TRUE]
  <2>1. next = [ledger EXCEPT !.items[i] = [row EXCEPT !.escalated = TRUE]]
    BY <1>5
  <2>2. /\ [row EXCEPT !.escalated = TRUE].last = row.last
        /\ [row EXCEPT !.escalated = TRUE].escalated = TRUE
    BY <1>1 DEF Row
  <2> QED BY <1>2, <2>1, <2>2
<1> QED BY <1>3, <1>4, <1>5

\* The backfill changes a row's issue number and nothing else, and only a
\* number it does not have yet.
LEMMA BackfilledKeeps ==
  ASSUME NEW ledger, IsLedger(ledger), NEW lo
  PROVE  LET filled == Backfilled(ledger.items, lo)
         IN  /\ DOMAIN filled = DOMAIN ledger.items
             /\ \A i \in DOMAIN ledger.items :
                  /\ ledger.items[i].issue # 0 => filled[i] = ledger.items[i]
                  /\ filled[i].last = ledger.items[i].last
                  /\ filled[i].escalated = ledger.items[i].escalated
                  /\ filled[i].notified = ledger.items[i].notified
                  /\ filled[i].filed = ledger.items[i].filed
<1> DEFINE filled == Backfilled(ledger.items, lo)
<1>1. DOMAIN filled = DOMAIN ledger.items
  BY DEF Backfilled
<1>2. ASSUME NEW i \in DOMAIN ledger.items
      PROVE  \/ filled[i] = ledger.items[i]
             \/ /\ ledger.items[i].issue = 0
                /\ \E n : filled[i] = [ledger.items[i] EXCEPT !.issue = n]
  BY <1>2 DEF Backfilled
<1>3. \A i \in DOMAIN ledger.items : ledger.items[i] \in Row
  BY DEF IsLedger
<1> HIDE DEF filled
<1>4. ASSUME NEW i \in DOMAIN ledger.items
      PROVE  /\ ledger.items[i].issue # 0 => filled[i] = ledger.items[i]
             /\ filled[i].last = ledger.items[i].last
             /\ filled[i].escalated = ledger.items[i].escalated
             /\ filled[i].notified = ledger.items[i].notified
             /\ filled[i].filed = ledger.items[i].filed
  BY <1>2, <1>3, <1>4 DEF Row
<1> QED BY <1>1, <1>4 DEF filled

-----------------------------------------------------------------------------
(* What a step does to the rows of a run. *)

\* The rows of a run that is under way: the same ids, the same dates, and
\* what was recorded in them stays.
RowsStay ==
  /\ DOMAIN mem'.items = DOMAIN mem.items
  /\ mem'.retired = mem.retired
  /\ \A i \in DOMAIN mem.items :
       /\ mem'.items[i].last = mem.items[i].last
       /\ mem.items[i].issue # 0 => mem'.items[i].issue = mem.items[i].issue
       /\ mem.items[i].notified => mem'.items[i].notified
       /\ mem.items[i].filed => mem'.items[i].filed
       /\ mem.items[i].escalated => mem'.items[i].escalated

\* A run that goes on: its rows stay, its plan and its date too, and the
\* ledger is left alone or written.
GoesOn == /\ pc # "idle" /\ pc' # "idle"
          /\ RowsStay
          /\ plan' = plan /\ today' = today
          /\ \/ store' = store
             \/ store' = mem /\ mem' = mem /\ pc = "persist"
          /\ pc' \in {"list", "filing"} =>
               mem' = mem /\ (store' = mem \/ pc \in {"list", "filing"})

\* A run that ends: by a crash, or past its ledger write.
Ends == /\ pc # "idle" /\ EndRun
        /\ store' = store /\ today' = today
        /\ "crash" \in Faults \/ pc \in {"list", "filing"}

\* Between runs.
Waits == /\ pc = "idle" /\ pc' = "idle"
         /\ store' = store /\ mem' = mem /\ plan' = plan
         /\ today' \in {today, today + 1}

\* Every step starts a run, is one of a run that goes on or ends, or is one
\* between two runs.
LEMMA RunSteps ==
  ASSUME LoopInv, [Next]_vars
  PROVE  BuildPlan \/ GoesOn \/ Ends \/ Waits
<1> USE DEF LoopInv
<1>1. mem' = mem => RowsStay
  BY DEF RowsStay
<1>2. CASE SkipLoop \/ EndPass \/ ListFiled \/ WriteLedger
  BY <1>1, <1>2 DEF SkipLoop, EndPass, ListFiled, WriteLedger, GoesOn
<1>3. ASSUME NEW i \in Items, Examine(i) PROVE GoesOn
  BY <1>1, <1>3 DEF Examine, Decide, GoesOn
<1>4. CASE Backfill
  <2>1. PICK lo \in 1..Len(issues) + 1 :
          mem' = [mem EXCEPT !.items = Backfilled(mem.items, lo)]
    BY <1>4 DEF Backfill, BackfillUnder
  <2>2. /\ UNCHANGED <<today, store, plan>>
        /\ pc = "loop" /\ pc' \in {"verify", "persist"}
    BY <1>4 DEF Backfill, BackfillUnder
  <2> DEFINE filled == Backfilled(mem.items, lo)
  <2>3. /\ DOMAIN filled = DOMAIN mem.items
        /\ \A i \in DOMAIN mem.items :
             /\ mem.items[i].issue # 0 => filled[i] = mem.items[i]
             /\ filled[i].last = mem.items[i].last
             /\ filled[i].escalated = mem.items[i].escalated
             /\ filled[i].notified = mem.items[i].notified
             /\ filled[i].filed = mem.items[i].filed
    BY BackfilledKeeps DEF TypeOK
  <2> HIDE DEF filled
  <2>4. mem = [items |-> mem.items, retired |-> mem.retired]
    BY DEF TypeOK, IsLedger
  <2>5. mem'.items = filled /\ mem'.retired = mem.retired
    BY <2>1, <2>4 DEF filled
  <2>6. RowsStay
    BY <2>3, <2>5 DEF RowsStay
  <2> QED BY <2>2, <2>6 DEF GoesOn
<1>5. ASSUME pc \in {"acting", "asking"}, pc' \in {"verify", "persist", "asking"},
             UNCHANGED <<today, store, plan>>,
             \/ mem' = [mem EXCEPT !.items[cur.item].notified = TRUE]
             \/ mem' = [mem EXCEPT !.items[cur.item].filed = TRUE]
             \/ mem' = [mem EXCEPT !.items[cur.item].escalated = TRUE]
             \/ mem' = mem
      PROVE  GoesOn
  <2>1. /\ DOMAIN mem'.items = DOMAIN mem.items
        /\ mem'.retired = mem.retired
        /\ \A j \in DOMAIN mem.items :
             /\ mem'.items[j].issue = mem.items[j].issue
             /\ mem.items[j].notified => mem'.items[j].notified
             /\ mem.items[j].filed => mem'.items[j].filed
    BY <1>5, TrackedProps, FlagProps DEF TypeOK
  <2>2. \A j \in DOMAIN mem.items :
          /\ mem'.items[j].last = mem.items[j].last
          /\ mem.items[j].escalated => mem'.items[j].escalated
    BY <1>5, TrackedProps, FlagKeeps DEF TypeOK
  <2> QED BY <1>5, <2>1, <2>2 DEF RowsStay, GoesOn
<1>6. CASE Reopen
  BY <1>5, <1>6 DEF Reopen, Proceed
<1>7. CASE Notice
  BY <1>5, <1>7 DEF Notice, Proceed
<1>8. CASE Retrack
  BY <1>5, <1>8 DEF Retrack, Proceed
<1>9. CASE Label
  BY <1>5, <1>9 DEF Label, Proceed
<1>10. CASE Ask
  BY <1>5, <1>10 DEF Ask, Proceed
<1>11. CASE SkipFiling \/ EndFiling
  BY <1>11 DEF SkipFiling, EndFiling, Ends
<1>12. CASE Crash
  BY <1>12 DEF Crash, Fault, Ends
<1>13. ASSUME NEW i \in Items, File(i)
       PROVE  GoesOn \/ Ends
  <2>1. /\ pc = "filing" /\ store' = store /\ today' = today
        /\ EndRun \/ UNCHANGED <<pc, mem, plan, pass, todo, cur, priors>>
    BY <1>13 DEF File
  <2> QED BY <1>1, <2>1 DEF GoesOn, Ends
<1>14. CASE \/ NextDay \/ UNCHANGED vars
            \/ \E n \in DOMAIN issues, act \in AllHumanActs : HumanStep(n, act)
  <2>1. /\ UNCHANGED <<store, pc, mem, plan>>
        /\ today' \in {today, today + 1}
        /\ pc # "idle" => today' = today
    BY <1>14 DEF NextDay, HumanStep, vars, runVars
  <2> QED BY <1>1, <2>1 DEF GoesOn, Waits
<1> QED
  BY <1>2, <1>3, <1>4, <1>6, <1>7, <1>8, <1>9, <1>10, <1>11, <1>12, <1>13, <1>14
  DEF Next, DirectorStep

-----------------------------------------------------------------------------
(* What the bounds let go. *)

\* No row is dated after today, and the run under way let go what it proposed
\* only for rows it proposed too.
LastInv ==
  /\ \A i \in DOMAIN store.items : store.items[i].last <= today
  /\ \A i \in DOMAIN mem.items : mem.items[i].last <= today
  /\ RenewedOutlivesOlder

\* Every step keeps that.
LEMMA LastInvStep == LoopInv /\ LastInv /\ [Next]_vars => LastInv'
<1> SUFFICES ASSUME LoopInv, LastInv, [Next]_vars PROVE LastInv'
  OBVIOUS
<1> USE DEF LastInv, RenewedOutlivesOlder
<1>0. today \in Nat /\ IsLedger(store) /\ IsLedger(mem)
  BY LoopAssumption DEF LoopInv, TypeOK
<1>1. CASE BuildPlan
  <2>1. PICK p \in [Items -> PlanEntries], v \in Verdicts :
          mem' \in Merges(store, p, today) /\ plan' = Proposed(p)
    BY <1>1 DEF BuildPlan
  <2>2. p \in Plan
    BY LoopAssumption DEF Plan
  <2>3. /\ \A i \in DOMAIN mem'.items : mem'.items[i].last <= today
        /\ \A i \in Proposed(p) \ DOMAIN mem'.items, j \in DOMAIN mem'.items :
             mem'.items[j].last = today
    BY <1>0, <2>1, <2>2, MergesKeep
  <2>4. store' = store /\ today' = today
    BY <1>1 DEF BuildPlan
  <2> QED BY <2>1, <2>3, <2>4
<1>2. CASE GoesOn
  <2>1. /\ DOMAIN mem'.items = DOMAIN mem.items
        /\ \A i \in DOMAIN mem.items : mem'.items[i].last = mem.items[i].last
        /\ plan' = plan /\ today' = today /\ pc # "idle"
        /\ store' = store \/ store' = mem
    BY <1>2 DEF GoesOn, RowsStay
  <2> QED BY <2>1
<1>3. CASE Ends
  <2>1. mem'.items = EmptyLedger.items /\ pc' = "idle" /\ store' = store /\ today' = today
    BY <1>3 DEF Ends, EndRun
  <2> QED BY <2>1, EmptyLedgerProps
<1>4. CASE Waits
  <2>1. today <= today' /\ store' = store /\ mem' = mem /\ pc' = "idle" /\ today' \in Nat
    BY <1>0, <1>4 DEF Waits
  <2>2. \A i \in DOMAIN store.items : store.items[i].last \in Nat
    BY <1>0 DEF IsLedger, Row
  <2>3. \A i \in DOMAIN mem.items : mem.items[i].last \in Nat
    BY <1>0 DEF IsLedger, Row
  <2> QED BY <1>0, <2>1, <2>2, <2>3
<1> QED BY <1>1, <1>2, <1>3, <1>4, RunSteps

\* What the Director still proposes is never let go for what it has stopped
\* proposing, however many runs share a date and whatever fails.
THEOREM ProposedOutlivesStale == Spec => []RenewedOutlivesOlder
<1>1. Init => LastInv
  BY EmptyLedgerProps DEF Init, LastInv, RenewedOutlivesOlder
<1>2. LoopInv /\ LastInv /\ [Next]_vars => LastInv'
  BY LastInvStep
<1>3. LastInv => RenewedOutlivesOlder
  BY DEF LastInv
<1> QED BY <1>1, <1>2, <1>3, LoopInvAlways, PTL DEF Spec

-----------------------------------------------------------------------------
(* What a step does to the answers on issues. *)

\* What an issue shows of the Director's answers to it.
SameAnswers(one, other) ==
  /\ one.slug = other.slug /\ one.prior = other.prior
  /\ one.notices = other.notices /\ one.asks = other.asks

\* No issue gets an answer; a new one has none and cites none.
NoAnswer ==
  /\ DOMAIN issues \subseteq DOMAIN issues'
  /\ \A n \in DOMAIN issues : SameAnswers(issues'[n], issues[n])
  /\ \A n \in DOMAIN issues' \ DOMAIN issues :
       /\ issues'[n].prior = 0 /\ issues'[n].notices = 0 /\ issues'[n].asks = 0
       /\ issues'[n].slug \in Items

\* Writes to an issue that leave its answers alone.
LEMMA SilentWrites ==
  ASSUME NEW issue \in Issue
  PROVE  /\ SameAnswers(Reopened(issue), issue)
         /\ \A b \in BOOLEAN : SameAnswers([issue EXCEPT !.gated = b], issue)
         /\ SameAnswers([issue EXCEPT !.state = "closed"], issue)
         /\ \A r \in Rulings :
              /\ SameAnswers([issue EXCEPT !.ruling = r], issue)
              /\ SameAnswers([issue EXCEPT !.state = "closed", !.ruling = r], issue)
BY DEF SameAnswers, Reopened, Issue

\* Only notices, re-tracks and Asks answer.
LEMMA AnswerSteps ==
  ASSUME LoopInv, [Next]_vars
  PROVE  NoAnswer \/ Notice \/ Retrack \/ Ask
<1> USE DEF LoopInv
<1>0. issues \in Seq(Issue) /\ \A n \in DOMAIN issues : issues[n] \in Issue
  BY ElementOfSeq DEF TypeOK
<1>1. ASSUME issues' = issues PROVE NoAnswer
  BY <1>1 DEF NoAnswer, SameAnswers
<1>2. ASSUME NEW n \in DOMAIN issues, NEW e, SameAnswers(e, issues[n]),
             issues' = [issues EXCEPT ![n] = e]
      PROVE  NoAnswer
  BY <1>0, <1>2 DEF NoAnswer, SameAnswers
<1>3. CASE Reopen
  <2>1. Tracked \in DOMAIN issues /\ SameAnswers(Reopened(issues[Tracked]), issues[Tracked])
    BY <1>3, TrackedProps, SilentWrites DEF Reopen
  <2>2. \/ issues' = issues
        \/ issues' = [issues EXCEPT ![Tracked] = Reopened(issues[Tracked])]
    BY <1>3 DEF Reopen
  <2> QED BY <1>1, <1>2, <2>1, <2>2
<1>4. CASE Label
  <2> DEFINE e == [issues[Tracked] EXCEPT !.gated = TRUE]
  <2>1. Tracked \in DOMAIN issues /\ SameAnswers(e, issues[Tracked])
    BY <1>4, TrackedProps, SilentWrites DEF Label
  <2>2. issues' = issues \/ issues' = [issues EXCEPT ![Tracked] = e]
    BY <1>4 DEF Label
  <2> HIDE DEF e
  <2> QED BY <1>1, <1>2, <2>1, <2>2
<1>5. ASSUME NEW i \in Items, File(i)
      PROVE  NoAnswer
  <2>0. PICK cites \in SUBSET (priors \ {i}) :
          issues' = issues \/ issues' = Append(issues, NewIssue(i, 0, cites))
    BY <1>5 DEF File
  <2> DEFINE e == NewIssue(i, 0, cites)
  <2>1. e \in Issue /\ e.slug = i /\ e.prior = 0 /\ e.notices = 0 /\ e.asks = 0
    BY LoopAssumption DEF NewIssue, Issue, Rulings, TypeOK
  <2>2. issues' = issues \/ issues' = Append(issues, e)
    BY <2>0
  <2> HIDE DEF e
  <2>3. CASE issues' = Append(issues, e)
    <3>1. /\ issues' \in Seq(Issue)
          /\ Len(issues') = Len(issues) + 1
          /\ issues'[Len(issues) + 1] = e
          /\ \A n \in DOMAIN issues : issues'[n] = issues[n]
      BY <1>0, <2>1, <2>3, IssueAdded
    <3>2. \A n \in DOMAIN issues' \ DOMAIN issues : issues'[n] = e
      BY <1>0, <3>1
    <3>3. DOMAIN issues \subseteq DOMAIN issues'
      BY <1>0, <3>1
    <3> QED BY <2>1, <3>1, <3>2, <3>3 DEF NoAnswer, SameAnswers
  <2> QED BY <1>1, <2>2, <2>3
<1>6. CASE \/ BuildPlan \/ SkipLoop \/ Backfill \/ EndPass \/ WriteLedger
           \/ SkipFiling \/ ListFiled \/ EndFiling \/ Crash \/ NextDay
           \/ UNCHANGED vars \/ \E i \in Items : Examine(i)
  BY <1>1, <1>6 DEF BuildPlan, SkipLoop, Backfill, BackfillUnder, EndPass,
     WriteLedger, SkipFiling, ListFiled, EndFiling, Crash, NextDay, Examine, vars
<1>7. ASSUME NEW n \in DOMAIN issues, NEW act \in AllHumanActs, HumanStep(n, act)
      PROVE  NoAnswer
  <2> DEFINE e == CASE act = "merge"  -> [issues[n] EXCEPT !.state = "closed"]
                    [] act = "reopen" -> Reopened(issues[n])
                    [] act = "reply"  -> [issues[n] EXCEPT !.ruling = "buried"]
                    [] act = "ungate" -> [issues[n] EXCEPT !.gated = FALSE]
                    [] OTHER          -> [issues[n] EXCEPT !.state = "closed",
                                                           !.ruling = act]
  <2>1. issues' = [issues EXCEPT ![n] = e]
    BY <1>7 DEF HumanStep
  <2>2. SameAnswers(e, issues[n])
    <3>1. CASE act = "merge"
      BY <1>0, <3>1, SilentWrites
    <3>2. CASE act = "reopen"
      BY <1>0, <3>2, SilentWrites
    <3>3. CASE act = "reply"
      BY <1>0, <3>3, SilentWrites DEF Rulings
    <3>4. CASE act = "ungate"
      BY <1>0, <3>4, SilentWrites
    <3>5. CASE act \in {"label", "not_planned", "comment"}
      <4>1. e = [issues[n] EXCEPT !.state = "closed", !.ruling = act]
        BY <3>5
      <4> QED BY <1>0, <3>5, <4>1, SilentWrites DEF Rulings
    <3> QED BY <3>1, <3>2, <3>3, <3>4, <3>5 DEF AllHumanActs
  <2> HIDE DEF e
  <2> QED BY <1>2, <2>1, <2>2
<1> QED
  BY <1>3, <1>4, <1>5, <1>6, <1>7 DEF Next, DirectorStep

\* The run has just examined the row it is about to act on.
DecidedNow ==
  /\ pc' = "acting" /\ mem' = mem /\ issues' = issues
  /\ cur'.item \in DOMAIN mem.items /\ mem.items[cur'.item].issue # 0
  /\ \E reading \in Readings, readable \in BOOLEAN :
       LET row == mem.items[cur'.item]
       IN  /\ CommentsRead(issues[row.issue], reading, readable)
           /\ cur'.act = ActFor(row, issues[row.issue], reading, readable)

\* A run that is about to write decided so just now, or is as it was.
LEMMA ActingSteps ==
  ASSUME LoopInv, [Next]_vars, pc' \in {"acting", "asking"}
  PROVE  \/ UNCHANGED <<pc, cur, mem>>
         \/ Label /\ pc = "acting" /\ pc' = "asking" /\ UNCHANGED <<cur, mem>>
         \/ DecidedNow
<1>1. ASSUME NEW i \in Items, Examine(i) PROVE DecidedNow
  <2>1. i \in DOMAIN mem.items /\ mem' = mem /\ issues' = issues
    BY <1>1 DEF Examine, LoopInv, TypeOK
  <2>2. ~Decide(i, "none")
    BY DEF Decide
  <2>3. PICK reading \in Readings, readable \in BOOLEAN :
          /\ mem.items[i].issue # 0
          /\ CommentsRead(issues[mem.items[i].issue], reading, readable)
          /\ Decide(i, ActFor(mem.items[i], issues[mem.items[i].issue], reading, readable))
    BY <1>1, <2>2 DEF Examine
  <2>4. /\ pc' = "acting"
        /\ cur' = [item |-> i,
                   act |-> ActFor(mem.items[i], issues[mem.items[i].issue], reading, readable)]
    BY <2>3 DEF Decide
  <2> QED BY <2>1, <2>3, <2>4 DEF DecidedNow
<1>2. CASE Label
  BY <1>2 DEF Label, Proceed
<1>3. CASE Reopen \/ Notice \/ Retrack \/ Ask
  BY <1>3 DEF Reopen, Notice, Retrack, Ask, Proceed
<1>4. CASE \/ BuildPlan \/ SkipLoop \/ Backfill \/ EndPass \/ WriteLedger
           \/ SkipFiling \/ ListFiled \/ EndFiling \/ Crash
           \/ \E i \in Items : File(i)
  BY <1>4 DEF BuildPlan, SkipLoop, Backfill, BackfillUnder, EndPass, WriteLedger,
     SkipFiling, ListFiled, EndFiling, Crash, File, EndRun
<1>5. CASE \/ NextDay \/ UNCHANGED vars
           \/ \E n \in DOMAIN issues, act \in AllHumanActs : HumanStep(n, act)
  BY <1>5 DEF NextDay, HumanStep, vars, runVars
<1> QED
  BY <1>1, <1>2, <1>3, <1>4, <1>5 DEF Next, DirectorStep

-----------------------------------------------------------------------------
(* Notices and re-tracks. *)

\* The notice a row records was posted on the issue it names.
Noticed(ledger) ==
  \A i \in DOMAIN ledger.items :
    ledger.items[i].notified =>
      /\ ledger.items[i].issue # 0
      /\ issues[ledger.items[i].issue].notices > 0

\* So a run that re-tracks an issue found its notice recorded.
NoticeInv ==
  /\ Noticed(store) /\ Noticed(mem)
  /\ pc = "acting" /\ cur.act = "retrack" => mem.items[cur.item].notified
  /\ \A n \in DOMAIN issues :
       issues[n].prior # 0 =>
         /\ issues[n].prior \in DOMAIN issues
         /\ issues[issues[n].prior].notices > 0

\* Nothing but a notice makes a row record one.
LEMMA OnlyNoticeNotifies ==
  ASSUME LoopInv, [Next]_vars, GoesOn, ~Notice
  PROVE  \A i \in DOMAIN mem.items : mem'.items[i].notified = mem.items[i].notified
<1> USE DEF LoopInv
<1>0. /\ mem = [items |-> mem.items, retired |-> mem.retired]
      /\ mem.items \in [DOMAIN mem.items -> Row]
  BY DEF TypeOK, IsLedger
<1>1. CASE mem' = mem
  BY <1>1
<1>2. CASE Backfill
  <2>1. PICK lo \in 1..Len(issues) + 1 :
          mem' = [mem EXCEPT !.items = Backfilled(mem.items, lo)]
    BY <1>2 DEF Backfill, BackfillUnder
  <2> DEFINE filled == Backfilled(mem.items, lo)
  <2>2. \A i \in DOMAIN mem.items : filled[i].notified = mem.items[i].notified
    BY BackfilledKeeps DEF TypeOK
  <2>3. mem'.items = filled
    BY <1>0, <2>1
  <2> QED BY <2>2, <2>3
<1>3. CASE Retrack
  <2>1. \/ mem' = [mem EXCEPT !.items[cur.item].filed = TRUE]
        \/ mem' = mem
    BY <1>3 DEF Retrack
  <2> QED BY <1>0, <2>1 DEF Row
<1>4. CASE Ask
  <2>1. \/ mem' = [mem EXCEPT !.items[cur.item].escalated = TRUE]
        \/ mem' = mem
    BY <1>4 DEF Ask
  <2> QED BY <1>0, <2>1 DEF Row
<1>5. CASE \/ SkipLoop \/ EndPass \/ Reopen \/ Label \/ WriteLedger \/ ListFiled
           \/ NextDay \/ UNCHANGED vars \/ (\E i \in Items : Examine(i))
           \/ (\E n \in DOMAIN issues, act \in AllHumanActs : HumanStep(n, act))
  BY <1>1, <1>5 DEF SkipLoop, EndPass, Reopen, Label, WriteLedger, ListFiled,
     NextDay, Examine, HumanStep, vars, runVars
<1>6. CASE BuildPlan \/ SkipFiling \/ EndFiling \/ Crash
  BY <1>6 DEF BuildPlan, SkipFiling, EndFiling, Crash, EndRun, GoesOn
<1>7. ASSUME NEW i \in Items, File(i) PROVE mem' = mem
  BY <1>7 DEF File, EndRun, GoesOn
<1> QED
  BY <1>1, <1>2, <1>3, <1>4, <1>5, <1>6, <1>7 DEF Next, DirectorStep

\* A notice adds to the notices of the tracked issue and to nothing else.
LEMMA NoticeProps ==
  ASSUME LoopInv, Notice
  PROVE  /\ Tracked \in DOMAIN issues
         /\ cur.item \in DOMAIN mem.items /\ pc = "acting" /\ cur.act = "notice"
         /\ DOMAIN issues' = DOMAIN issues
         /\ \A n \in DOMAIN issues :
              /\ issues'[n].slug = issues[n].slug
              /\ issues'[n].prior = issues[n].prior
              /\ issues'[n].asks = issues[n].asks
              /\ n # Tracked => issues'[n].notices = issues[n].notices
         /\ store' = store
         /\ \/ /\ mem' = mem
               /\ \/ issues'[Tracked].notices = issues[Tracked].notices
                  \/ /\ "lost" \in Faults
                     /\ issues'[Tracked].notices = UpToTwo(issues[Tracked].notices)
            \/ /\ mem' = [mem EXCEPT !.items[cur.item].notified = TRUE]
               /\ issues'[Tracked].notices = UpToTwo(issues[Tracked].notices)
<1> USE DEF LoopInv
<1>1. PICK o \in Outcomes :
        /\ Outcome(o)
        /\ mem' = IF o = "ok"
                  THEN [mem EXCEPT !.items[cur.item].notified = TRUE]
                  ELSE mem
        /\ issues' = IF Applied(o)
                     THEN [issues EXCEPT ![Tracked].notices = UpToTwo(@)]
                     ELSE issues
  BY DEF Notice
<1>2. /\ pc = "acting" /\ cur.act = "notice" /\ store' = store
  BY DEF Notice
<1>3. /\ cur.item \in DOMAIN mem.items
      /\ Tracked \in DOMAIN issues /\ issues[Tracked] \in Issue
  BY <1>2, TrackedProps
<1> DEFINE e == [issues[Tracked] EXCEPT !.notices = UpToTwo(@)]
<1>4. /\ e.slug = issues[Tracked].slug /\ e.prior = issues[Tracked].prior
      /\ e.asks = issues[Tracked].asks
      /\ e.notices = UpToTwo(issues[Tracked].notices)
  BY <1>3 DEF Issue
<1>5. issues' = IF Applied(o) THEN [issues EXCEPT ![Tracked] = e] ELSE issues
  BY <1>1
<1> HIDE DEF e
<1>6. /\ DOMAIN issues' = DOMAIN issues
      /\ \A n \in DOMAIN issues :
           /\ issues'[n].slug = issues[n].slug
           /\ issues'[n].prior = issues[n].prior
           /\ issues'[n].asks = issues[n].asks
           /\ n # Tracked => issues'[n].notices = issues[n].notices
  BY <1>3, <1>4, <1>5 DEF TypeOK
<1>7. issues'[Tracked].notices = IF Applied(o) THEN UpToTwo(issues[Tracked].notices)
                                 ELSE issues[Tracked].notices
  BY <1>3, <1>4, <1>5 DEF TypeOK
<1>8. o = "ok" => Applied(o)
  BY DEF Applied
<1>9. o # "ok" /\ Applied(o) => "lost" \in Faults
  BY <1>1 DEF Applied, Outcome, Fault
<1> QED BY <1>1, <1>2, <1>3, <1>6, <1>7, <1>8, <1>9

\* A re-track adds an issue that cites the tracked one, or nothing.
LEMMA RetrackProps ==
  ASSUME LoopInv, Retrack
  PROVE  /\ Tracked \in DOMAIN issues
         /\ cur.item \in DOMAIN mem.items /\ pc = "acting" /\ cur.act = "retrack"
         /\ \A n \in DOMAIN issues : issues'[n] = issues[n]
         /\ store' = store
         /\ \/ /\ mem' = mem
               /\ issues' = issues
            \/ /\ \/ mem' = [mem EXCEPT !.items[cur.item].filed = TRUE]
                  \/ "lost" \in Faults /\ mem' = mem
               /\ DOMAIN issues' = DOMAIN issues \union {Len(issues) + 1}
               /\ Len(issues) + 1 \notin DOMAIN issues
               /\ issues'[Len(issues) + 1] = NewIssue(NoItem, Tracked, {})
<1> USE DEF LoopInv
<1>1. PICK o \in Outcomes :
        /\ CreateOutcome(o)
        /\ mem' = IF o = "ok"
                  THEN [mem EXCEPT !.items[cur.item].filed = TRUE]
                  ELSE mem
        /\ issues' = IF Applied(o)
                     THEN Append(issues, NewIssue(NoItem, Tracked, {}))
                     ELSE issues
  BY DEF Retrack
<1>2. /\ pc = "acting" /\ cur.act = "retrack" /\ store' = store
  BY DEF Retrack
<1>3. /\ cur.item \in DOMAIN mem.items
      /\ Tracked \in DOMAIN issues
  BY <1>2, TrackedProps
<1> DEFINE e == NewIssue(NoItem, Tracked, {})
<1>4. e \in Issue
  <2>1. Tracked \in 0..MaxIssues
    BY <1>3, LoopAssumption DEF TypeOK
  <2> QED BY <2>1 DEF NewIssue, Issue, Rulings
<1>5. issues' = IF Applied(o) THEN Append(issues, e) ELSE issues
  BY <1>1
<1>6. o # "ok" /\ Applied(o) => "lost" \in Faults
  BY <1>1 DEF Applied, CreateOutcome, Outcome, Fault
<1> HIDE DEF e
<1>7. CASE ~Applied(o)
  <2>1. o # "ok"
    BY <1>7 DEF Applied
  <2> QED BY <1>1, <1>2, <1>3, <1>5, <1>7, <2>1
<1>8. CASE Applied(o)
  <2>1. /\ issues' \in Seq(Issue)
        /\ Len(issues') = Len(issues) + 1
        /\ issues'[Len(issues) + 1] = e
        /\ \A n \in DOMAIN issues : issues'[n] = issues[n]
        /\ issues \in Seq(Issue)
    BY <1>4, <1>5, <1>8, IssueAdded DEF TypeOK
  <2>2. /\ DOMAIN issues' = DOMAIN issues \union {Len(issues) + 1}
        /\ Len(issues) + 1 \notin DOMAIN issues
    BY <2>1
  <2> QED BY <1>1, <1>2, <1>3, <1>6, <2>1, <2>2 DEF e
<1> QED BY <1>7, <1>8

\* An Ask adds to the Asks of the tracked issue and to nothing else.
LEMMA AskProps ==
  ASSUME LoopInv, Ask
  PROVE  /\ Tracked \in DOMAIN issues
         /\ cur.item \in DOMAIN mem.items /\ pc = "asking"
         /\ DOMAIN issues' = DOMAIN issues
         /\ \A n \in DOMAIN issues :
              /\ issues'[n].slug = issues[n].slug
              /\ issues'[n].prior = issues[n].prior
              /\ issues'[n].notices = issues[n].notices
              /\ n # Tracked => issues'[n].asks = issues[n].asks
         /\ store' = store
         /\ \/ /\ mem' = mem
               /\ \/ issues'[Tracked].asks = issues[Tracked].asks
                  \/ /\ "lost" \in Faults
                     /\ issues'[Tracked].asks = UpToTwo(issues[Tracked].asks)
            \/ /\ mem' = [mem EXCEPT !.items[cur.item].escalated = TRUE]
               /\ issues'[Tracked].asks
                    \in {issues[Tracked].asks, UpToTwo(issues[Tracked].asks)}
<1> USE DEF LoopInv
<1>1. PICK o \in Outcomes :
        /\ Outcome(o)
        /\ mem' = IF o \in {"ok", "refused"}
                  THEN [mem EXCEPT !.items[cur.item].escalated = TRUE]
                  ELSE mem
        /\ issues' = IF Applied(o)
                     THEN [issues EXCEPT ![Tracked].asks = UpToTwo(@),
                                         ![Tracked].ruling = BehindAsk(@)]
                     ELSE issues
  BY DEF Ask
<1>2. pc = "asking" /\ store' = store
  BY DEF Ask
<1>3. /\ cur.item \in DOMAIN mem.items
      /\ Tracked \in DOMAIN issues /\ issues[Tracked] \in Issue
  BY <1>2, TrackedProps
<1> DEFINE e == [issues[Tracked] EXCEPT !.asks = UpToTwo(@), !.ruling = BehindAsk(@)]
<1>4. /\ e.slug = issues[Tracked].slug /\ e.prior = issues[Tracked].prior
      /\ e.notices = issues[Tracked].notices
      /\ e.asks = UpToTwo(issues[Tracked].asks)
  BY <1>3 DEF Issue
<1>5. issues' = IF Applied(o) THEN [issues EXCEPT ![Tracked] = e] ELSE issues
  BY <1>1
<1> HIDE DEF e
<1>6. /\ DOMAIN issues' = DOMAIN issues
      /\ \A n \in DOMAIN issues :
           /\ issues'[n].slug = issues[n].slug
           /\ issues'[n].prior = issues[n].prior
           /\ issues'[n].notices = issues[n].notices
           /\ n # Tracked => issues'[n].asks = issues[n].asks
  BY <1>3, <1>4, <1>5 DEF TypeOK
<1>7. issues'[Tracked].asks = IF Applied(o) THEN UpToTwo(issues[Tracked].asks)
                              ELSE issues[Tracked].asks
  BY <1>3, <1>4, <1>5 DEF TypeOK
<1>8. o \notin {"ok", "refused"} /\ Applied(o) => "lost" \in Faults
  BY <1>1 DEF Applied, Outcome, Fault
<1> QED BY <1>1, <1>2, <1>3, <1>6, <1>7, <1>8

\* What was decided about a row was decided on its flags.
LEMMA DecidedFlags ==
  ASSUME LoopInv, NEW i \in DOMAIN mem.items, NEW issue \in Issue, NEW reading, NEW readable,
         NEW act, act = ActFor(mem.items[i], issue, reading, readable)
  PROVE  /\ act = "notice" => ~mem.items[i].notified /\ ~mem.items[i].filed
         /\ act = "retrack" => mem.items[i].notified /\ ~mem.items[i].filed
         /\ act = "label" => ~mem.items[i].escalated
         /\ act = "reopen" => /\ issue.state # "open"
                              /\ ~JudgedRuled(mem.items[i], issue, readable)
                              /\ reading = "adverse"
<1> DEFINE row == mem.items[i]
<1>1. row.notified \in BOOLEAN /\ row.filed \in BOOLEAN /\ row.escalated \in BOOLEAN
  BY DEF LoopInv, TypeOK, IsLedger, Row
<1>2. /\ RuledFollowUp(row) \in {"none", "notice", "retrack"}
      /\ RuledFollowUp(row) = "notice" => ~row.notified /\ ~row.filed
      /\ RuledFollowUp(row) = "retrack" => row.notified /\ ~row.filed
  BY <1>1 DEF RuledFollowUp
<1>3. \/ /\ issue.state = "open"
         /\ act = IF DueForEscalation(row, issue) THEN "label" ELSE "none"
      \/ issue.state # "open" /\ reading # "adverse" /\ act = "none"
      \/ /\ issue.state # "open" /\ reading = "adverse"
         /\ act = IF JudgedRuled(row, issue, readable)
                  THEN RuledFollowUp(row)
                  ELSE "reopen"
  <2>1. issue.state \in {"open", "closed"}
    BY DEF Issue
  <2> HIDE DEF row
  <2>2. CASE issue.state = "open"
    BY <2>2 DEF ActFor, row
  <2>3. CASE issue.state = "closed" /\ reading # "adverse"
    BY <2>3 DEF ActFor, row
  <2>4. CASE issue.state = "closed" /\ reading = "adverse"
    BY <2>4 DEF ActFor, row
  <2> QED BY <2>1, <2>2, <2>3, <2>4
<1> HIDE DEF row
<1>4. DueForEscalation(row, issue) => ~row.escalated
  BY DEF DueForEscalation
<1>5. /\ act = "notice" => ~row.notified /\ ~row.filed
      /\ act = "retrack" => row.notified /\ ~row.filed
      /\ act = "label" => ~row.escalated
      /\ act = "reopen" => /\ issue.state # "open"
                           /\ ~JudgedRuled(row, issue, readable)
                           /\ reading = "adverse"
  BY <1>2, <1>3, <1>4
<1> QED BY <1>5 DEF row

\* So was what the run has just decided.
LEMMA DecidedActs ==
  ASSUME LoopInv, DecidedNow
  PROVE  LET row == mem.items[cur'.item]
             issue == issues[row.issue]
         IN  /\ cur'.item \in DOMAIN mem.items /\ row.issue \in DOMAIN issues
             /\ cur'.act = "notice" => ~row.notified /\ ~row.filed
             /\ cur'.act = "retrack" => row.notified /\ ~row.filed
             /\ cur'.act = "label" => ~row.escalated
             /\ cur'.act = "reopen" =>
                  /\ issue.state = "closed"
                  /\ \E readable \in BOOLEAN :
                       /\ ~JudgedRuled(row, issue, readable)
                       /\ CommentsRead(issue, "adverse", readable)
<1>1. PICK i \in DOMAIN mem.items : i = cur'.item
  BY DEF DecidedNow
<1> DEFINE row == mem.items[i]
           issue == issues[row.issue]
<1>2. PICK reading \in Readings, readable \in BOOLEAN :
        /\ CommentsRead(issue, reading, readable)
        /\ cur'.act = ActFor(row, issue, reading, readable)
  BY <1>1 DEF DecidedNow
<1>3. row.issue # 0
  BY <1>1 DEF DecidedNow
<1>4. row.issue \in DOMAIN issues /\ issue \in Issue
  BY <1>3, ElementOfSeq DEF LoopInv, TypeOK, Tracks
<1>5. PICK act : act = cur'.act
  OBVIOUS
<1>6. /\ act = "notice" => ~row.notified /\ ~row.filed
      /\ act = "retrack" => row.notified /\ ~row.filed
      /\ act = "label" => ~row.escalated
      /\ act = "reopen" => /\ issue.state # "open"
                           /\ ~JudgedRuled(row, issue, readable)
                           /\ reading = "adverse"
  BY <1>2, <1>4, <1>5, DecidedFlags
<1>7. issue.state # "open" => issue.state = "closed"
  BY <1>4 DEF Issue
<1> QED BY <1>1, <1>2, <1>4, <1>5, <1>6, <1>7

\* Every step keeps that a recorded notice was posted.
LEMMA NoticeInvStep == LoopInv /\ NoticeInv /\ [Next]_vars => NoticeInv'
<1> SUFFICES ASSUME LoopInv, NoticeInv, [Next]_vars PROVE NoticeInv'
  OBVIOUS
<1> USE DEF LoopInv, NoticeInv
<1>0. /\ mem = [items |-> mem.items, retired |-> mem.retired]
      /\ mem.items \in [DOMAIN mem.items -> Row]
      /\ \A n \in DOMAIN issues : issues[n].notices \in 0..2
  <2>1. \A n \in DOMAIN issues : issues[n] \in Issue
    BY ElementOfSeq DEF TypeOK
  <2> QED BY <2>1 DEF TypeOK, IsLedger, Issue
<1>1. /\ DOMAIN issues \subseteq DOMAIN issues'
      /\ \A n \in DOMAIN issues : issues[n].notices > 0 => issues'[n].notices > 0
  <2>1. CASE NoAnswer
    BY <2>1 DEF NoAnswer, SameAnswers
  <2>2. CASE Notice
    BY <1>0, <2>2, NoticeProps DEF UpToTwo
  <2>3. CASE Retrack
    BY <2>3, RetrackProps
  <2>4. CASE Ask
    BY <1>0, <2>4, AskProps
  <2> QED BY <2>1, <2>2, <2>3, <2>4, AnswerSteps
<1>2. Noticed(store)' /\ Noticed(mem)'
  <2>1. ASSUME NEW ledger, Tracks(ledger), Noticed(ledger)
        PROVE  \A i \in DOMAIN ledger.items :
                 ledger.items[i].notified =>
                   /\ ledger.items[i].issue # 0
                   /\ issues'[ledger.items[i].issue].notices > 0
    BY <1>1, <2>1 DEF Noticed, Tracks
  <2>2. store' = store \/ store' = mem => Noticed(store)'
    BY <2>1 DEF Noticed
  <2>3. mem' = mem => Noticed(mem)'
    BY <2>1 DEF Noticed
  <2>4. CASE BuildPlan
    <3>1. PICK p \in [Items -> PlanEntries], v \in Verdicts :
            mem' \in Merges(store, p, today) /\ store' = store
      BY <2>4 DEF BuildPlan
    <3>2. p \in Plan /\ today \in Nat /\ IsLedger(store)
      BY LoopAssumption DEF Plan, TypeOK
    <3>3. \A i \in DOMAIN mem'.items :
            \/ /\ i \in DOMAIN store.items
               /\ mem'.items[i].issue = store.items[i].issue
               /\ mem'.items[i].notified = store.items[i].notified
            \/ i \notin DOMAIN store.items
      BY <3>1, <3>2, MergesProps
    <3>4. \A i \in DOMAIN mem'.items \ DOMAIN store.items : ~mem'.items[i].notified
      BY <3>1, <3>2, MergesKeep
    <3>5. Noticed(mem)'
      BY <2>1, <3>3, <3>4 DEF Noticed
    <3> QED BY <2>2, <3>1, <3>5
  <2>5. CASE GoesOn /\ ~Notice
    <3>1. \A i \in DOMAIN mem.items : mem'.items[i].notified = mem.items[i].notified
      BY <2>5, OnlyNoticeNotifies
    <3>2. /\ DOMAIN mem'.items = DOMAIN mem.items
          /\ \A i \in DOMAIN mem.items :
               mem.items[i].issue # 0 => mem'.items[i].issue = mem.items[i].issue
          /\ store' = store \/ store' = mem
      BY <2>5 DEF GoesOn, RowsStay
    <3>3. Noticed(mem)'
      BY <2>1, <3>1, <3>2 DEF Noticed
    <3> QED BY <2>2, <3>2, <3>3
  <2>6. CASE Notice
    <3>1. CASE mem' = mem
      BY <2>2, <2>3, <2>6, <3>1, NoticeProps
    <3>2. CASE mem' # mem
      <4>1. /\ mem' = [mem EXCEPT !.items[cur.item].notified = TRUE]
            /\ issues'[Tracked].notices = UpToTwo(issues[Tracked].notices)
            /\ Tracked \in DOMAIN issues
            /\ cur.item \in DOMAIN mem.items /\ pc = "acting"
            /\ store' = store
        BY <2>6, <3>2, NoticeProps
      <4>2. issues'[Tracked].notices > 0 /\ Tracked # 0
        BY <1>0, <4>1 DEF UpToTwo, ActsOnTracked, Tracked
      <4>3. /\ DOMAIN mem'.items = DOMAIN mem.items
            /\ \A i \in DOMAIN mem.items :
                 /\ mem'.items[i].issue = mem.items[i].issue
                 /\ i # cur.item => mem'.items[i].notified = mem.items[i].notified
        BY <1>0, <4>1 DEF Row
      <4>4. Noticed(mem)'
        BY <2>1, <4>2, <4>3 DEF Noticed, Tracked
      <4> QED BY <2>2, <4>1, <4>4
    <3> QED BY <3>1, <3>2
  <2>7. CASE Ends
    <3>1. DOMAIN mem'.items = {} /\ store' = store
      BY <2>7, EmptyLedgerProps DEF Ends, EndRun
    <3> QED BY <2>2, <3>1 DEF Noticed
  <2>8. CASE Waits
    BY <2>2, <2>3, <2>8 DEF Waits
  <2> QED BY <2>4, <2>5, <2>6, <2>7, <2>8, RunSteps
<1>3. pc' = "acting" /\ cur'.act = "retrack" => mem'.items[cur'.item].notified
  <2> SUFFICES ASSUME pc' = "acting", cur'.act = "retrack"
               PROVE  mem'.items[cur'.item].notified
    OBVIOUS
  <2>1. CASE UNCHANGED <<pc, cur, mem>>
    BY <2>1
  <2>2. CASE DecidedNow
    BY <2>2, DecidedActs DEF DecidedNow
  <2> QED BY <2>1, <2>2, ActingSteps
<1>4. ASSUME NEW n \in DOMAIN issues', issues'[n].prior # 0
      PROVE  /\ issues'[n].prior \in DOMAIN issues'
             /\ issues'[issues'[n].prior].notices > 0
  <2>1. CASE NoAnswer
    BY <1>1, <1>4, <2>1 DEF NoAnswer, SameAnswers
  <2>2. CASE Notice
    BY <1>1, <1>4, <2>2, NoticeProps
  <2>3. CASE Retrack
    <3>1. CASE n \in DOMAIN issues
      BY <1>1, <1>4, <2>3, <3>1, RetrackProps
    <3>2. CASE n \notin DOMAIN issues
      <4>1. issues'[n] = NewIssue(NoItem, Tracked, {}) /\ Tracked \in DOMAIN issues
        BY <1>4, <2>3, <3>2, RetrackProps
      <4>2. issues'[n].prior = Tracked
        BY <4>1 DEF NewIssue
      <4>3. issues[Tracked].notices > 0
        BY <2>3, RetrackProps DEF Noticed, Tracked
      <4> QED BY <1>1, <4>1, <4>2, <4>3
    <3> QED BY <3>1, <3>2
  <2>4. CASE Ask
    BY <1>1, <1>4, <2>4, AskProps
  <2> QED BY <2>1, <2>2, <2>3, <2>4, AnswerSteps
<1> QED BY <1>2, <1>3, <1>4

\* So it holds in every state.
LEMMA NoticeInvAlways == Spec => []NoticeInv
<1>1. Init => NoticeInv
  BY EmptyLedgerProps DEF Init, NoticeInv, Noticed
<1>2. LoopInv /\ NoticeInv /\ [Next]_vars => NoticeInv'
  BY NoticeInvStep
<1> QED BY <1>1, <1>2, LoopInvAlways, PTL DEF Spec

\* A ruled close is re-tracked only after its ruling was answered with a
\* notice, even when the notice, the re-track or the run that records them
\* fails half-way.
THEOREM NoRetrackWithoutNotice == Spec => []RetrackFollowsNotice
<1>1. NoticeInv => RetrackFollowsNotice
  BY DEF NoticeInv, RetrackFollowsNotice
<1> QED BY <1>1, NoticeInvAlways, PTL

-----------------------------------------------------------------------------
(* Closes that show a ruling. *)

\* The ruling signs a run sees for sure: the label and the state reason come
\* with the issue, a decision comment only if the comments can be read.
Seen(ruling) == \/ ruling \in {"label", "not_planned"}
                \/ ruling = "comment" /\ "comments" \notin Faults

\* A run about to reopen an issue found it closed and showing no such sign, and
\* still does.
RuledInv ==
  pc = "acting" /\ cur.act = "reopen" =>
    issues[Tracked].state = "closed" /\ ~Seen(issues[Tracked].ruling)

\* A step that leaves a run where it is about to write changes issues only by
\* an act of people.
LEMMA WaitingToAct ==
  ASSUME LoopInv, [Next]_vars, pc = "acting", pc' = "acting"
  PROVE  \/ issues' = issues
         \/ \E n \in DOMAIN issues, act \in AllHumanActs : HumanStep(n, act)
<1>1. ASSUME NEW i \in Items PROVE ~Examine(i) /\ ~File(i)
  BY DEF Examine, File
<1>2. ~Reopen /\ ~Notice /\ ~Retrack /\ ~Label /\ ~Ask
  BY DEF Reopen, Notice, Retrack, Label, Ask, Proceed
<1> QED
  BY <1>1, <1>2 DEF Next, DirectorStep, BuildPlan, SkipLoop, Backfill,
     BackfillUnder, EndPass, WriteLedger, SkipFiling, ListFiled, EndFiling,
     Crash, NextDay, vars

\* While nobody reopens issues by hand, a close that shows no ruling stays
\* closed and shows none until the run has acted on it.
LEMMA RuledInvStep ==
  ASSUME "reopen" \notin HumanActs, LoopInv, RuledInv, [Next]_vars
  PROVE  RuledInv'
<1> USE DEF LoopInv, RuledInv
<1> SUFFICES ASSUME pc' = "acting", cur'.act = "reopen"
             PROVE  /\ issues'[Tracked'].state = "closed"
                    /\ ~Seen(issues'[Tracked'].ruling)
  OBVIOUS
<1>1. CASE UNCHANGED <<pc, cur, mem>>
  <2>1. /\ pc = "acting" /\ cur.act = "reopen" /\ Tracked' = Tracked
        /\ issues[Tracked].state = "closed"
        /\ ~Seen(issues[Tracked].ruling)
    BY <1>1 DEF Tracked
  <2>2. CASE issues' = issues
    BY <2>1, <2>2
  <2>3. ASSUME NEW n \in DOMAIN issues, NEW act \in AllHumanActs, HumanStep(n, act)
        PROVE  /\ issues'[Tracked].state = "closed"
               /\ ~Seen(issues'[Tracked].ruling)
    <3> DEFINE e == CASE act = "merge"  -> [issues[n] EXCEPT !.state = "closed"]
                      [] act = "reopen" -> Reopened(issues[n])
                      [] act = "reply"  -> [issues[n] EXCEPT !.ruling = "buried"]
                      [] act = "ungate" -> [issues[n] EXCEPT !.gated = FALSE]
                      [] OTHER          -> [issues[n] EXCEPT !.state = "closed",
                                                             !.ruling = act]
    <3>1. issues' = [issues EXCEPT ![n] = e]
      BY <2>3 DEF HumanStep
    <3>2. n = Tracked => act \in {"ungate", "reply"}
      BY <2>1, <2>3 DEF HumanStep
    <3>3. issues[n] \in Issue /\ issues \in Seq(Issue)
      BY <2>3, ElementOfSeq DEF TypeOK
    <3>4. /\ act = "ungate" => e.state = issues[n].state /\ e.ruling = issues[n].ruling
          /\ act = "reply" => e.state = issues[n].state /\ ~Seen(e.ruling)
      <4>1. /\ act = "ungate" => e = [issues[n] EXCEPT !.gated = FALSE]
            /\ act = "reply" => e = [issues[n] EXCEPT !.ruling = "buried"]
        OBVIOUS
      <4>2. ~Seen("buried")
        BY DEF Seen
      <4> HIDE DEF e
      <4> QED BY <3>3, <4>1, <4>2 DEF Issue
    <3>5. Tracked \in DOMAIN issues
      BY <2>1, TrackedProps
    <3> HIDE DEF e
    <3>6. CASE n = Tracked
      BY <2>1, <3>1, <3>2, <3>3, <3>4, <3>5, <3>6
    <3>7. CASE n # Tracked
      BY <2>1, <3>1, <3>3, <3>5, <3>7
    <3> QED BY <3>6, <3>7
  <2> QED BY <2>1, <2>2, <2>3, WaitingToAct
<1>2. CASE DecidedNow
  <2>1. Tracked' = mem.items[cur'.item].issue /\ issues' = issues
    BY <1>2 DEF DecidedNow, Tracked
  <2> DEFINE row == mem.items[cur'.item]
             issue == issues[row.issue]
  <2>2. /\ issue.state = "closed"
        /\ \E readable \in BOOLEAN :
             /\ ~JudgedRuled(row, issue, readable)
             /\ CommentsRead(issue, "adverse", readable)
    BY <1>2, DecidedActs
  <2>3. ~Seen(issue.ruling)
    BY <2>2 DEF CommentsRead, Fault, JudgedRuled, Seen
  <2> QED BY <2>1, <2>2, <2>3
<1> QED BY <1>1, <1>2, ActingSteps

\* While nobody reopens issues by hand, that holds in every state.
LEMMA RuledInvAlways ==
  ASSUME "reopen" \notin HumanActs
  PROVE  Spec => []RuledInv
<1>1. Init => RuledInv
  BY DEF Init, RuledInv
<1>2. LoopInv /\ RuledInv /\ [Next]_vars => RuledInv'
  BY RuledInvStep
<1> QED BY <1>1, <1>2, LoopInvAlways, PTL DEF Spec

\* As long as comments can be read, and people who change their mind do not
\* reopen an issue while a run is about to, the Director reopens no close that
\* shows a human ruling to its guard.  Its own Ask, which the guard takes for
\* somebody's comment, may hide a decision comment; nothing else it writes does.
THEOREM RuledClosesStayClosed ==
  ASSUME "comments" \notin Faults, "reopen" \notin HumanActs
  PROVE  Spec => HumanRuledStaysClosed
<1>1. LoopInv /\ RuledInv /\ [Next]_vars =>
        [\A n \in DOMAIN issues : ByDirector /\ Opened(n) =>
           issues[n].ruling \notin {"label", "not_planned", "comment"}]_vars
  BY OpenedByReopen DEF RuledInv, Seen
<1> QED
  BY <1>1, LoopInvAlways, RuledInvAlways, PTL DEF Spec, HumanRuledStaysClosed

\* The Director reopens no close ruled by the human label or as not planned.
LabelledCloseStands ==
  [][\A n \in DOMAIN issues : ByDirector /\ Opened(n) =>
       issues[n].ruling \notin {"label", "not_planned"}]_vars

\* A ruling that the issue itself bears needs no comment to be read: it stands
\* through unreadable comments, replies and Asks.
THEOREM LabelledClosesStayClosed ==
  ASSUME "reopen" \notin HumanActs
  PROVE  Spec => LabelledCloseStands
<1>1. LoopInv /\ RuledInv /\ [Next]_vars =>
        [\A n \in DOMAIN issues : ByDirector /\ Opened(n) =>
           issues[n].ruling \notin {"label", "not_planned"}]_vars
  BY OpenedByReopen DEF RuledInv, Seen
<1> QED
  BY <1>1, LoopInvAlways, RuledInvAlways, PTL DEF Spec, LabelledCloseStands

-----------------------------------------------------------------------------
(* Once each. *)

\* The ledger the protocol stands on: the persisted one between runs, the
\* merged one during a run.
Ledger == IF pc = "idle" THEN store ELSE mem

\* Row i of that ledger names issue n.
Names(i, n) == i \in DOMAIN Ledger.items /\ Ledger.items[i].issue = n

\* Of an item that was never retired: its issue got a notice, or was cited by
\* a re-track, at most once, and the row says so.
OnceInv ==
  /\ pc \in {"list", "filing"} => mem = store
  /\ \A n \in DOMAIN issues : issues[n].slug \notin Ledger.retired =>
       /\ issues[n].notices <= 1
       /\ issues[n].notices > 0 => /\ Names(issues[n].slug, n)
                                   /\ Ledger.items[issues[n].slug].notified
  /\ \A n \in DOMAIN issues :
       issues[n].prior # 0 /\ issues[issues[n].prior].slug \notin Ledger.retired =>
         /\ Names(issues[issues[n].prior].slug, issues[n].prior)
         /\ Ledger.items[issues[issues[n].prior].slug].filed
         /\ \A m \in DOMAIN issues : issues[m].prior = issues[n].prior => m = n
  /\ pc = "acting" /\ cur.act = "notice" => ~mem.items[cur.item].notified
  /\ pc = "acting" /\ cur.act = "retrack" => ~mem.items[cur.item].filed

\* Between two states of that ledger: what is retired stays so, a row that is
\* not keeps its issue number and what it records.
LedgerKept ==
  /\ Ledger.retired \subseteq Ledger'.retired
  /\ \A i \in DOMAIN Ledger.items : i \notin Ledger'.retired =>
       /\ i \in DOMAIN Ledger'.items
       /\ Ledger.items[i].issue # 0 => Ledger'.items[i].issue = Ledger.items[i].issue
       /\ Ledger.items[i].notified => Ledger'.items[i].notified
       /\ Ledger.items[i].filed => Ledger'.items[i].filed
       /\ /\ Ledger.items[i].escalated
          /\ \A entry \in PlanEntries :
               entry.first # "resolved" /\ entry.again # "resolved"
          => Ledger'.items[i].escalated

\* Without crashes every step keeps it.
LEMMA LedgerIsKept ==
  ASSUME "crash" \notin Faults, LoopInv, [Next]_vars,
         pc \in {"list", "filing"} => mem = store
  PROVE  /\ LedgerKept
         /\ pc' \in {"list", "filing"} => mem' = store'
<1> USE DEF LoopInv
<1>1. CASE BuildPlan
  <2>1. PICK p \in [Items -> PlanEntries], v \in Verdicts :
          mem' \in Merges(store, p, today)
    BY <1>1 DEF BuildPlan
  <2>2. p \in Plan /\ today \in Nat /\ IsLedger(store)
    BY LoopAssumption DEF Plan, TypeOK
  <2>3. Ledger = store /\ Ledger' = mem' /\ pc' = "loop"
    BY <1>1 DEF BuildPlan, Ledger
  <2>4. /\ store.retired \subseteq mem'.retired
        /\ \A i \in DOMAIN store.items : i \notin mem'.retired =>
             /\ i \in DOMAIN mem'.items
             /\ p[i].first # "resolved" /\ p[i].again # "resolved" =>
                  mem'.items[i].escalated = store.items[i].escalated
    BY <2>1, <2>2, MergesKeep
  <2>5. \A i \in DOMAIN mem'.items :
          i \in DOMAIN store.items =>
            /\ mem'.items[i].issue = store.items[i].issue
            /\ mem'.items[i].notified = store.items[i].notified
            /\ mem'.items[i].filed = store.items[i].filed
    BY <2>1, <2>2, MergesProps
  <2>6. \A i \in DOMAIN store.items : p[i] \in PlanEntries
    BY <2>2 DEF IsLedger
  <2> QED BY <2>3, <2>4, <2>5, <2>6 DEF LedgerKept
<1>2. CASE GoesOn
  <2>1. Ledger = mem /\ Ledger' = mem'
    BY <1>2 DEF GoesOn, Ledger
  <2>2. LedgerKept
    BY <1>2, <2>1 DEF GoesOn, RowsStay, LedgerKept
  <2>3. pc' \in {"list", "filing"} => mem' = store'
    BY <1>2 DEF GoesOn
  <2> QED BY <2>2, <2>3
<1>3. ASSUME Ledger' = Ledger PROVE LedgerKept
  BY <1>3 DEF LedgerKept
<1>4. CASE Ends
  BY <1>3, <1>4 DEF Ends, EndRun, Ledger
<1>5. CASE Waits
  BY <1>3, <1>5 DEF Waits, Ledger
<1> QED BY <1>1, <1>2, <1>4, <1>5, RunSteps

\* A row of an item that is not retired goes on naming its issue.
LEMMA NamesKept ==
  ASSUME LedgerKept, NEW i, NEW n \in Nat \ {0}, Names(i, n), i \notin Ledger'.retired
  PROVE  /\ i \notin Ledger.retired
         /\ i \in DOMAIN Ledger'.items /\ Ledger'.items[i].issue = n
         /\ Ledger.items[i].notified => Ledger'.items[i].notified
         /\ Ledger.items[i].filed => Ledger'.items[i].filed
         /\ /\ Ledger.items[i].escalated
            /\ \A entry \in PlanEntries :
                 entry.first # "resolved" /\ entry.again # "resolved"
            => Ledger'.items[i].escalated
BY DEF LedgerKept, Names

\* When listings are whole the issue a write acts on is the row's own.
LEMMA TrackedIsOwn ==
  ASSUME LoopInv, OwnInv, pc \in {"acting", "asking"}
  PROVE  issues[Tracked].slug = cur.item
BY DEF LoopInv, ActsOnTracked, OwnInv, Own, Tracked

\* A run that answers stands on its own ledger, before and after.
LEMMA LedgerOfARun ==
  ASSUME Notice \/ Retrack \/ Ask
  PROVE  Ledger = mem /\ Ledger' = mem'
<1>1. pc # "idle" /\ pc' # "idle"
  <2>1. CASE Notice
    BY <2>1 DEF Notice, Proceed
  <2>2. CASE Retrack
    BY <2>2 DEF Retrack, Proceed
  <2>3. CASE Ask
    BY <2>3 DEF Ask, Proceed
  <2> QED BY <2>1, <2>2, <2>3
<1> QED BY <1>1 DEF Ledger

\* The part of the invariant about notices.
LEMMA NoticedOnceStep ==
  ASSUME "crash" \notin Faults, "lost" \notin Faults,
         LoopInv, OwnInv, OnceInv, [Next]_vars,
         NEW n \in DOMAIN issues', issues'[n].slug \notin Ledger'.retired
  PROVE  /\ issues'[n].notices <= 1
         /\ issues'[n].notices > 0 =>
              /\ issues'[n].slug \in DOMAIN Ledger'.items
              /\ Ledger'.items[issues'[n].slug].issue = n
              /\ Ledger'.items[issues'[n].slug].notified
<1> USE DEF LoopInv, OnceInv
<1>0. /\ mem = [items |-> mem.items, retired |-> mem.retired]
      /\ mem.items \in [DOMAIN mem.items -> Row]
      /\ DOMAIN issues \subseteq Nat \ {0}
      /\ \A m \in DOMAIN issues : issues[m].notices \in 0..2
  <2>1. \A m \in DOMAIN issues : issues[m] \in Issue
    BY ElementOfSeq DEF TypeOK
  <2> QED BY <2>1 DEF TypeOK, IsLedger, Issue
<1>1. LedgerKept
  BY LedgerIsKept
<1>2. ASSUME n \in DOMAIN issues, issues'[n].slug = issues[n].slug,
             issues'[n].notices = issues[n].notices
      PROVE  /\ issues'[n].notices <= 1
             /\ issues'[n].notices > 0 =>
                  /\ issues'[n].slug \in DOMAIN Ledger'.items
                  /\ Ledger'.items[issues'[n].slug].issue = n
                  /\ Ledger'.items[issues'[n].slug].notified
  <2>1. issues[n].slug \notin Ledger.retired
    BY <1>1, <1>2 DEF LedgerKept
  <2>2. /\ issues[n].notices <= 1
        /\ issues[n].notices > 0 =>
             Names(issues[n].slug, n) /\ Ledger.items[issues[n].slug].notified
    BY <1>2, <2>1
  <2> QED BY <1>0, <1>1, <1>2, <2>2, NamesKept
<1>3. CASE NoAnswer
  <2>1. CASE n \in DOMAIN issues
    BY <1>2, <1>3, <2>1 DEF NoAnswer, SameAnswers
  <2>2. CASE n \notin DOMAIN issues
    BY <1>3, <2>2 DEF NoAnswer
  <2> QED BY <2>1, <2>2
<1>4. CASE Notice
  <2>1. n \in DOMAIN issues /\ issues'[n].slug = issues[n].slug
    BY <1>4, NoticeProps
  <2>2. CASE n # Tracked
    BY <1>2, <1>4, <2>1, <2>2, NoticeProps
  <2>3. CASE n = Tracked
    <3>1. /\ issues[n].slug = cur.item /\ cur.item \in DOMAIN mem.items
          /\ ~mem.items[cur.item].notified
      BY <1>4, <2>3, NoticeProps, TrackedIsOwn
    <3>2. Ledger = mem /\ Ledger' = mem'
      BY <1>4, LedgerOfARun
    <3>3. issues[n].slug \notin Ledger.retired
      BY <1>1, <2>1 DEF LedgerKept
    <3>4. issues[n].notices = 0
      BY <1>0, <2>1, <3>1, <3>2, <3>3
    <3>5. CASE issues'[n].notices = issues[n].notices
      BY <3>4, <3>5
    <3>6. CASE issues'[n].notices # issues[n].notices
      <4>1. /\ mem' = [mem EXCEPT !.items[cur.item].notified = TRUE]
            /\ issues'[n].notices = UpToTwo(issues[n].notices)
        BY <1>4, <2>3, <3>6, NoticeProps
      <4>2. issues'[n].notices = 1
        BY <3>4, <4>1 DEF UpToTwo
      <4>3. /\ cur.item \in DOMAIN mem'.items
            /\ mem'.items[cur.item].issue = n
            /\ mem'.items[cur.item].notified
        BY <1>0, <2>3, <3>1, <4>1 DEF Row, Tracked
      <4> QED BY <2>1, <3>1, <3>2, <4>2, <4>3
    <3> QED BY <3>5, <3>6
  <2> QED BY <2>2, <2>3
<1>5. CASE Retrack
  <2>1. CASE n \in DOMAIN issues
    BY <1>2, <1>5, <2>1, RetrackProps
  <2>2. CASE n \notin DOMAIN issues
    <3>1. issues'[n] = NewIssue(NoItem, Tracked, {})
      BY <1>5, <2>2, RetrackProps
    <3> QED BY <3>1 DEF NewIssue
  <2> QED BY <2>1, <2>2
<1>6. CASE Ask
  BY <1>2, <1>6, AskProps
<1> QED BY <1>3, <1>4, <1>5, <1>6, AnswerSteps

\* The part about re-tracks.
LEMMA RetrackedOnceStep ==
  ASSUME "crash" \notin Faults, "lost" \notin Faults,
         LoopInv, OwnInv, NoticeInv, OnceInv, [Next]_vars,
         NEW n \in DOMAIN issues', issues'[n].prior # 0,
         NEW c, c = issues'[n].prior, issues'[c].slug \notin Ledger'.retired
  PROVE  /\ issues'[c].slug \in DOMAIN Ledger'.items
         /\ Ledger'.items[issues'[c].slug].issue = c
         /\ Ledger'.items[issues'[c].slug].filed
         /\ \A m \in DOMAIN issues' : issues'[m].prior = c => m = n
<1> USE DEF LoopInv, OnceInv
<1>0. /\ mem = [items |-> mem.items, retired |-> mem.retired]
      /\ mem.items \in [DOMAIN mem.items -> Row]
      /\ DOMAIN issues \subseteq Nat \ {0}
  BY DEF TypeOK, IsLedger
<1>1. LedgerKept
  BY LedgerIsKept
<1>2. ASSUME n \in DOMAIN issues, issues[n].prior = c,
             \A m \in DOMAIN issues : issues'[m].slug = issues[m].slug,
             \A m \in DOMAIN issues : issues'[m].prior = issues[m].prior,
             \A m \in DOMAIN issues' \ DOMAIN issues : issues'[m].prior # c
      PROVE  /\ issues'[c].slug \in DOMAIN Ledger'.items
             /\ Ledger'.items[issues'[c].slug].issue = c
             /\ Ledger'.items[issues'[c].slug].filed
             /\ \A m \in DOMAIN issues' : issues'[m].prior = c => m = n
  <2>1. c \in DOMAIN issues /\ c # 0 /\ issues'[c].slug = issues[c].slug
    BY <1>2 DEF NoticeInv
  <2>2. issues[c].slug \notin Ledger.retired
    BY <1>1, <2>1 DEF LedgerKept
  <2>3. /\ Names(issues[c].slug, c) /\ Ledger.items[issues[c].slug].filed
        /\ \A m \in DOMAIN issues : issues[m].prior = c => m = n
    BY <1>2, <2>1, <2>2
  <2>4. /\ issues[c].slug \in DOMAIN Ledger'.items
        /\ Ledger'.items[issues[c].slug].issue = c
        /\ Ledger'.items[issues[c].slug].filed
    BY <1>0, <1>1, <2>1, <2>3, NamesKept
  <2> QED BY <1>2, <2>1, <2>3, <2>4
<1>3. CASE NoAnswer
  <2>1. /\ \A m \in DOMAIN issues :
             issues'[m].slug = issues[m].slug /\ issues'[m].prior = issues[m].prior
        /\ \A m \in DOMAIN issues' \ DOMAIN issues : issues'[m].prior = 0
    BY <1>3 DEF NoAnswer, SameAnswers
  <2> QED BY <1>2, <2>1
<1>4. CASE Notice
  <2>1. /\ DOMAIN issues' = DOMAIN issues
        /\ \A m \in DOMAIN issues :
             issues'[m].slug = issues[m].slug /\ issues'[m].prior = issues[m].prior
    BY <1>4, NoticeProps
  <2> QED BY <1>2, <2>1
<1>5. CASE Ask
  <2>1. /\ DOMAIN issues' = DOMAIN issues
        /\ \A m \in DOMAIN issues :
             issues'[m].slug = issues[m].slug /\ issues'[m].prior = issues[m].prior
    BY <1>5, AskProps
  <2> QED BY <1>2, <2>1
<1>6. CASE Retrack /\ issues' = issues
  BY <1>2, <1>6
<1>7. CASE Retrack /\ issues' # issues
  <2> DEFINE new == Len(issues) + 1
  <2>1. /\ Tracked \in DOMAIN issues /\ issues[Tracked].slug = cur.item
        /\ cur.item \in DOMAIN mem.items /\ pc = "acting" /\ cur.act = "retrack"
        /\ \A m \in DOMAIN issues : issues'[m] = issues[m]
        /\ mem' = [mem EXCEPT !.items[cur.item].filed = TRUE]
        /\ DOMAIN issues' = DOMAIN issues \union {new} /\ new \notin DOMAIN issues
        /\ issues'[new] = NewIssue(NoItem, Tracked, {})
    BY <1>7, RetrackProps, TrackedIsOwn
  <2>2. issues'[new].prior = Tracked
    BY <2>1 DEF NewIssue
  <2> HIDE DEF new
  <2>3. Ledger = mem /\ Ledger' = mem'
    BY <1>7, LedgerOfARun
  <2>4. ~mem.items[cur.item].filed
    BY <2>1
  <2>5. CASE c = Tracked
    <3>1. issues'[c].slug = cur.item
      BY <2>1, <2>5
    <3>2. /\ cur.item \in DOMAIN mem'.items
          /\ mem'.items[cur.item].issue = c
          /\ mem'.items[cur.item].filed
      BY <1>0, <2>1, <2>5 DEF Row, Tracked
    <3>3. ASSUME NEW m \in DOMAIN issues PROVE issues[m].prior # c
      <4> SUFFICES ASSUME issues[m].prior = c PROVE FALSE
        OBVIOUS
      <4>1. issues[m].prior # 0
        BY <1>0, <2>1, <2>5
      <4>2. issues[issues[m].prior].slug \notin Ledger.retired
        BY <1>1, <2>1, <2>5, <3>1 DEF LedgerKept
      <4>3. Ledger.items[issues[issues[m].prior].slug].filed
        BY <4>1, <4>2
      <4> QED BY <2>1, <2>3, <2>4, <2>5, <4>3
    <3>4. \A m \in DOMAIN issues' : issues'[m].prior = c => m = new
      BY <2>1, <3>3
    <3> QED BY <2>3, <3>1, <3>2, <3>4
  <2>6. CASE c # Tracked
    <3>1. n \in DOMAIN issues /\ issues[n].prior = c
      BY <2>1, <2>2, <2>6
    <3> QED BY <1>2, <2>1, <2>2, <2>6, <3>1
  <2> QED BY <2>5, <2>6
<1> QED BY <1>3, <1>4, <1>5, <1>6, <1>7, AnswerSteps

\* Without crashes and lost answers every step keeps the invariant.
LEMMA OnceInvStep ==
  ASSUME "crash" \notin Faults, "lost" \notin Faults,
         LoopInv, OwnInv, NoticeInv, OnceInv, [Next]_vars
  PROVE  OnceInv'
<1> USE DEF LoopInv
<1>1. pc' \in {"list", "filing"} => mem' = store'
  BY LedgerIsKept DEF OnceInv
<1>2. ASSUME NEW n \in DOMAIN issues', issues'[n].slug \notin Ledger'.retired
      PROVE  /\ issues'[n].notices <= 1
             /\ issues'[n].notices > 0 =>
                  /\ issues'[n].slug \in DOMAIN Ledger'.items
                  /\ Ledger'.items[issues'[n].slug].issue = n
                  /\ Ledger'.items[issues'[n].slug].notified
  BY <1>2, NoticedOnceStep
<1>3. ASSUME NEW n \in DOMAIN issues', issues'[n].prior # 0,
             issues'[issues'[n].prior].slug \notin Ledger'.retired
      PROVE  /\ issues'[issues'[n].prior].slug \in DOMAIN Ledger'.items
             /\ Ledger'.items[issues'[issues'[n].prior].slug].issue = issues'[n].prior
             /\ Ledger'.items[issues'[issues'[n].prior].slug].filed
             /\ \A m \in DOMAIN issues' : issues'[m].prior = issues'[n].prior => m = n
  BY <1>3, RetrackedOnceStep
<1>4. /\ pc' = "acting" /\ cur'.act = "notice" => ~mem'.items[cur'.item].notified
      /\ pc' = "acting" /\ cur'.act = "retrack" => ~mem'.items[cur'.item].filed
  <2>1. CASE UNCHANGED <<pc, cur, mem>>
    BY <2>1 DEF OnceInv
  <2>2. CASE DecidedNow
    BY <2>2, DecidedActs DEF DecidedNow
  <2>3. CASE pc' # "acting"
    BY <2>3
  <2> QED BY <2>1, <2>2, <2>3, ActingSteps
<1> QED BY <1>1, <1>2, <1>3, <1>4 DEF OnceInv, Names

\* Of an item that was never retired: its issue was put to the Decision Queue
\* at most once, and the row says so.
AskInv ==
  /\ \A n \in DOMAIN issues : issues[n].slug \notin Ledger.retired =>
       /\ issues[n].asks <= 1
       /\ issues[n].asks > 0 => /\ Names(issues[n].slug, n)
                                /\ Ledger.items[issues[n].slug].escalated
  /\ pc = "acting" /\ cur.act = "label" => ~mem.items[cur.item].escalated
  /\ pc = "asking" => ~mem.items[cur.item].escalated

\* Without crashes and lost answers, and with plans that resolve nothing,
\* every step keeps that.
LEMMA AskInvStep ==
  ASSUME "crash" \notin Faults, "lost" \notin Faults,
         \A entry \in PlanEntries :
           entry.first # "resolved" /\ entry.again # "resolved",
         LoopInv, OwnInv, OnceInv, AskInv, [Next]_vars
  PROVE  AskInv'
<1> USE DEF LoopInv, AskInv
<1>0. /\ mem = [items |-> mem.items, retired |-> mem.retired]
      /\ mem.items \in [DOMAIN mem.items -> Row]
      /\ DOMAIN issues \subseteq Nat \ {0}
      /\ \A m \in DOMAIN issues : issues[m].asks \in 0..2
  <2>1. \A m \in DOMAIN issues : issues[m] \in Issue
    BY ElementOfSeq DEF TypeOK
  <2> QED BY <2>1 DEF TypeOK, IsLedger, Issue
<1>1. LedgerKept
  BY LedgerIsKept DEF OnceInv
<1>2. ASSUME NEW n \in DOMAIN issues', issues'[n].slug \notin Ledger'.retired
      PROVE  /\ issues'[n].asks <= 1
             /\ issues'[n].asks > 0 =>
                  /\ issues'[n].slug \in DOMAIN Ledger'.items
                  /\ Ledger'.items[issues'[n].slug].issue = n
                  /\ Ledger'.items[issues'[n].slug].escalated
  <2>1. ASSUME n \in DOMAIN issues, issues'[n].slug = issues[n].slug,
               issues'[n].asks = issues[n].asks
        PROVE  /\ issues'[n].asks <= 1
               /\ issues'[n].asks > 0 =>
                    /\ issues'[n].slug \in DOMAIN Ledger'.items
                    /\ Ledger'.items[issues'[n].slug].issue = n
                    /\ Ledger'.items[issues'[n].slug].escalated
    <3>1. issues[n].slug \notin Ledger.retired
      BY <1>1, <1>2, <2>1 DEF LedgerKept
    <3>2. /\ issues[n].asks <= 1
          /\ issues[n].asks > 0 =>
               Names(issues[n].slug, n) /\ Ledger.items[issues[n].slug].escalated
      BY <2>1, <3>1
    <3> QED BY <1>0, <1>1, <1>2, <2>1, <3>2, NamesKept
  <2>2. CASE NoAnswer
    <3>1. CASE n \in DOMAIN issues
      BY <2>1, <2>2, <3>1 DEF NoAnswer, SameAnswers
    <3>2. CASE n \notin DOMAIN issues
      BY <1>2, <2>2, <3>2 DEF NoAnswer
    <3> QED BY <3>1, <3>2
  <2>3. CASE Notice
    BY <1>2, <2>1, <2>3, NoticeProps
  <2>4. CASE Retrack
    <3>1. CASE n \in DOMAIN issues
      BY <2>1, <2>4, <3>1, RetrackProps
    <3>2. CASE n \notin DOMAIN issues
      <4>1. issues'[n] = NewIssue(NoItem, Tracked, {})
        BY <1>2, <2>4, <3>2, RetrackProps
      <4> QED BY <4>1 DEF NewIssue
    <3> QED BY <3>1, <3>2
  <2>5. CASE Ask
    <3>1. n \in DOMAIN issues /\ issues'[n].slug = issues[n].slug
      BY <1>2, <2>5, AskProps
    <3>2. CASE n # Tracked
      BY <2>1, <2>5, <3>1, <3>2, AskProps
    <3>3. CASE n = Tracked
      <4>1. /\ issues[n].slug = cur.item /\ cur.item \in DOMAIN mem.items
            /\ ~mem.items[cur.item].escalated
        BY <2>5, <3>3, AskProps, TrackedIsOwn
      <4>2. Ledger = mem /\ Ledger' = mem'
        BY <2>5, LedgerOfARun
      <4>3. issues[n].slug \notin Ledger.retired
        BY <1>1, <1>2, <3>1 DEF LedgerKept
      <4>4. issues[n].asks = 0
        BY <1>0, <3>1, <4>1, <4>2, <4>3
      <4>5. CASE issues'[n].asks = issues[n].asks
        BY <4>4, <4>5
      <4>6. CASE issues'[n].asks # issues[n].asks
        <5>1. /\ mem' = [mem EXCEPT !.items[cur.item].escalated = TRUE]
              /\ issues'[n].asks = UpToTwo(issues[n].asks)
          BY <2>5, <3>3, <4>6, AskProps
        <5>2. issues'[n].asks = 1
          BY <4>4, <5>1 DEF UpToTwo
        <5>3. /\ cur.item \in DOMAIN mem'.items
              /\ mem'.items[cur.item].issue = n
              /\ mem'.items[cur.item].escalated
          BY <1>0, <3>3, <4>1, <5>1 DEF Row, Tracked
        <5> QED BY <3>1, <4>1, <4>2, <5>2, <5>3
      <4> QED BY <4>5, <4>6
    <3> QED BY <3>2, <3>3
  <2> QED BY <2>2, <2>3, <2>4, <2>5, AnswerSteps
<1>3. /\ pc' = "acting" /\ cur'.act = "label" => ~mem'.items[cur'.item].escalated
      /\ pc' = "asking" => ~mem'.items[cur'.item].escalated
  <2>1. CASE UNCHANGED <<pc, cur, mem>>
    BY <2>1
  <2>2. CASE DecidedNow
    BY <2>2, DecidedActs DEF DecidedNow
  <2>3. CASE Label /\ pc = "acting" /\ pc' = "asking" /\ UNCHANGED <<cur, mem>>
    BY <2>3 DEF Label
  <2>4. CASE pc' \notin {"acting", "asking"}
    BY <2>4
  <2> QED BY <2>1, <2>2, <2>3, <2>4, ActingSteps
<1> QED BY <1>2, <1>3 DEF Names

\* So, with whole listings and without crashes and lost answers, it holds in
\* every state.
LEMMA OnceInvAlways ==
  ASSUME "crash" \notin Faults, "lost" \notin Faults, WholeListings
  PROVE  Spec => []OnceInv
<1>1. Init => OnceInv
  BY DEF Init, OnceInv
<1>2. LoopInv /\ OwnInv /\ NoticeInv /\ OnceInv /\ [Next]_vars => OnceInv'
  BY OnceInvStep
<1> QED BY <1>1, <1>2, LoopInvAlways, OwnInvAlways, NoticeInvAlways, PTL DEF Spec

\* No row was let go by one of the two bounds.
NothingRetired == store.retired = {} /\ mem.retired = {}

\* As long as no row is retired, no run crashes, no answer to a write is lost
\* and no listing is cut short, a ruled close gets one notice: not a second one in a later run, not
\* when the ruling is buried, read again or cannot be read.
THEOREM OneNoticePerClose ==
  ASSUME "crash" \notin Faults, "lost" \notin Faults,
         "list" \notin Faults, ListMax >= MaxIssues
  PROVE  Spec /\ []NothingRetired => []OneNotice
<1>1. OnceInv /\ NothingRetired => OneNotice
  BY DEF OnceInv, NothingRetired, OneNotice, Ledger
<1>2. Spec => []OnceInv
  BY OnceInvAlways DEF WholeListings
<1> QED BY <1>1, <1>2, PTL

\* Under the same conditions a ruled close is re-tracked by one issue at most.
THEOREM OneRetrackPerClose ==
  ASSUME "crash" \notin Faults, "lost" \notin Faults,
         "list" \notin Faults, ListMax >= MaxIssues
  PROVE  Spec /\ []NothingRetired => []OneRetrack
<1>1. OnceInv /\ NothingRetired => OneRetrack
  <2> SUFFICES ASSUME OnceInv, NothingRetired, NEW m \in DOMAIN issues,
                      NEW n \in DOMAIN issues,
                      issues[m].prior = issues[n].prior, issues[m].prior # 0
               PROVE  m = n
    BY DEF OneRetrack
  <2>1. issues[issues[n].prior].slug \notin Ledger.retired
    BY DEF NothingRetired, Ledger
  <2> QED BY <2>1 DEF OnceInv
<1>2. Spec => []OnceInv
  BY OnceInvAlways DEF WholeListings
<1> QED BY <1>1, <1>2, PTL

\* Under the same conditions, and with no plan that resolves an item, a carried
\* item is put to the Decision Queue once, whatever people do to its label.
THEOREM OneAskPerItem ==
  ASSUME "crash" \notin Faults, "lost" \notin Faults,
         "list" \notin Faults, ListMax >= MaxIssues,
         \A entry \in PlanEntries :
           entry.first # "resolved" /\ entry.again # "resolved"
  PROVE  Spec /\ []NothingRetired => []OneAsk
<1>1. Init => AskInv
  BY DEF Init, AskInv
<1>2. LoopInv /\ OwnInv /\ OnceInv /\ AskInv /\ [Next]_vars => AskInv'
  BY AskInvStep
<1>3. AskInv /\ NothingRetired => OneAsk
  BY DEF AskInv, NothingRetired, OneAsk, Ledger
<1>4. Spec => []OwnInv /\ []OnceInv
  BY OwnInvAlways, OnceInvAlways, PTL DEF WholeListings
<1> QED BY <1>1, <1>2, <1>3, <1>4, LoopInvAlways, PTL DEF Spec

\* The condition on retirement is met when the age bound outlasts the calendar
\* and the size bound has room for every item.
THEOREM NothingIsRetiredInTime ==
  ASSUME StaleAfter >= MaxDay, Cardinality(Items) <= MaxActive
  PROVE  Spec => []NothingRetired
<1>1. Init => NothingRetired
  BY DEF Init, NothingRetired, EmptyLedger
<1>2. LoopInv /\ NothingRetired /\ [Next]_vars => NothingRetired'
  <2> SUFFICES ASSUME LoopInv, NothingRetired, [Next]_vars PROVE NothingRetired'
    OBVIOUS
  <2> USE DEF NothingRetired
  <2>1. CASE BuildPlan
    <3>1. PICK p \in [Items -> PlanEntries], v \in Verdicts :
            mem' \in Merges(store, p, today) /\ store' = store
      BY <2>1 DEF BuildPlan
    <3>2. /\ p \in Plan /\ IsLedger(store)
          /\ today \in Nat /\ today <= StaleAfter
          /\ StaleAfter \in Nat
      BY LoopAssumption, LedgerAssumption DEF Plan, LoopInv, TypeOK
    <3> DEFINE rows == Upserted(store.items, p, today)
    <3>3. /\ DOMAIN rows \subseteq Items
          /\ \A i \in DOMAIN rows : rows[i] \in Row
      BY <3>2, UpsertedProps
    <3>4. PICK kept \in ActiveSets(rows, today) :
            mem'.retired = store.retired \union (DOMAIN rows \ kept)
      BY <3>1 DEF Merges
    <3> HIDE DEF rows
    <3>5. Stale(rows, today) = {}
      BY <3>2, <3>3 DEF Stale, Row
    <3>6. Cardinality(DOMAIN rows) <= MaxActive
      <4>1. IsFiniteSet(Items) /\ MaxActive \in Nat
        BY LedgerAssumption
      <4>2. /\ Cardinality(DOMAIN rows) <= Cardinality(Items)
            /\ Cardinality(DOMAIN rows) \in Nat /\ Cardinality(Items) \in Nat
        BY <3>3, <4>1, FS_Subset, FS_CardinalityType
      <4> QED BY <4>1, <4>2
    <3>7. DOMAIN rows \ Stale(rows, today) = DOMAIN rows
      BY <3>5
    <3>8. kept = DOMAIN rows
      BY <3>4, <3>6, <3>7 DEF ActiveSets
    <3> QED BY <3>1, <3>4, <3>8
  <2>2. CASE GoesOn
    BY <2>2 DEF GoesOn, RowsStay
  <2>3. CASE Ends
    BY <2>3 DEF Ends, EndRun, EmptyLedger
  <2>4. CASE Waits
    BY <2>4 DEF Waits
  <2> QED BY <2>1, <2>2, <2>3, <2>4, RunSteps
<1> QED BY <1>1, <1>2, LoopInvAlways, PTL DEF Spec
=============================================================================
