---------------------------- MODULE DirectorLoop ----------------------------
(***************************************************************************)
(* The Director's weekly loop over two stores it cannot update together:   *)
(* the carry-over ledger (one S3 object) and the GitHub issues it files,   *)
(* reopens, comments on, re-tracks and escalates, while people close, rule *)
(* on and reopen the same issues.  One action per external read or write:  *)
(*   src/director/handler.py            _run, the order of a run           *)
(*   src/director/loop_verification.py  backfill and verify_and_correct    *)
(*   src/director/issue_filer.py        file_director_issues               *)
(***************************************************************************)
EXTENDS DirectorLedger, Sequences

CONSTANTS
  NoItem,       \* the slug of an issue whose text names no item
  MaxDay,       \* bound: the calendar stops here (runs may still repeat)
  MaxIssues,    \* bound: issues that can exist
  ListMax,      \* newest issues a listing reads: max_pages * per_page = 2000
  Threshold,    \* ESCALATION_CARRY_THRESHOLD
  PlanEntries,  \* the mentions of an id the plan call may return
  Readings,     \* what a row's cited evidence may read on this run's card
  Verdicts,     \* may the attestation verdict allow mutations: SUBSET BOOLEAN
  Holdable,     \* items a declared record may hold back from filing
  HumanActs,    \* what people do to issues
  Faults,       \* the faults that may happen
  MaxFaults     \* bound: faults in a behaviour

AllReadings == {"adverse", "recovered", "unverifiable", "not_valid"}

AllHumanActs == {"merge", "label", "not_planned", "comment", "reply",
                 "reopen", "ungate"}

\* "crash": an exception or a kill outside the best-effort blocks; "skip": no
\* token or no budget for a step; "get", "list", "comments": a failed read;
\* "refused": a write answered with an error status; "raised": a write whose
\* request raises before it takes effect; "lost": one that raises after.
WriteFaults == {"refused", "raised", "lost"}
AllFaults == {"crash", "skip", "get", "list", "comments"} \union WriteFaults

ASSUME LoopAssumption ==
  /\ NoItem \notin Items
  /\ MaxDay \in Nat /\ MaxIssues \in Nat /\ ListMax \in Nat /\ MaxFaults \in Nat
  /\ Threshold \in Nat
  /\ PlanEntries \subseteq [first : Statuses, again : Statuses]
  /\ Readings \subseteq AllReadings
  /\ Verdicts \subseteq BOOLEAN
  /\ Holdable \subseteq Items
  /\ HumanActs \subseteq AllHumanActs
  /\ Faults \subseteq AllFaults

VARIABLES
  today,   \* the calendar; the run_date of a run that is under way
  store,   \* the persisted ledger
  issues,  \* the proposal issues, in creation order: number = index
  pc,      \* where the run is; "idle" between runs
  mem,     \* the merged ledger the run holds in memory
  plan,    \* ids of this run's plan
  pass,    \* does the verdict leave mutations allowed
  todo,    \* rows verify_and_correct has not reached
  cur,     \* the row it is acting on and the action it decided
  toFile,  \* items file_director_issues has still to file
  priors,  \* slugs in the titles of the closed proposals it has fetched
  faults   \* faults left

filing == <<toFile, priors>>
runVars == <<pc, mem, plan, pass, todo, cur, toFile, priors>>
vars == <<today, store, issues, pc, mem, plan, pass, todo, cur, toFile, priors, faults>>

-----------------------------------------------------------------------------
(* Issues.  slug is the item the issue was filed for; cites are the slugs  *)
(* its text repeats from the titles of the closed proposals it names;      *)
(* prior = n is the "## Prior issue #n" section of a re-track.             *)
(* ruling says which sign of a human ruling the issue bears: the human     *)
(* label, state_reason not_planned, a decision comment newer than any but  *)
(* the comments that open with this module's marker, one ("asked") that    *)
(* only the Director's own Ask has come after, and one that a person's     *)
(* later comment has buried.                                               *)
(* notices and asks count the Director's comments, up to two of each.      *)

Rulings == {"none", "label", "not_planned", "comment", "asked", "buried"}

Issue == [slug : Items \union {NoItem}, cites : SUBSET Items,
          prior : 0..MaxIssues, state : {"open", "closed"}, ruling : Rulings,
          gated : BOOLEAN, notices : 0..2, asks : 0..2]

NewIssue(slug, prior, cites) ==
  [slug |-> slug, cites |-> cites, prior |-> prior, state |-> "open",
   ruling |-> "none", gated |-> FALSE, notices |-> 0, asks |-> 0]

\* Every id=<slug> in an issue's title and body, which no reader can tell apart.
Marks(issue) == {issue.slug} \union issue.cites

UpToTwo(n) == IF n < 2 THEN n + 1 ELSE 2

\* GitHub resets state_reason when an issue is reopened; labels and comments
\* stay.
Reopened(issue) ==
  [issue EXCEPT !.state = "open",
                !.ruling = IF @ = "not_planned" THEN "none" ELSE @]

Acts == {"none", "reopen", "notice", "retrack", "label"}
NoCur == [item |-> NoItem, act |-> "none"]
Steps == {"idle", "loop", "verify", "acting", "asking", "persist", "list", "filing"}

TypeOK ==
  /\ today \in 0..MaxDay
  /\ IsLedger(store)
  /\ issues \in Seq(Issue)
  /\ Len(issues) <= MaxIssues
  /\ pc \in Steps
  /\ IsLedger(mem)
  /\ plan \in SUBSET Items
  /\ pass \in BOOLEAN
  /\ todo \in SUBSET DOMAIN mem.items
  /\ cur \in [item : Items \union {NoItem}, act : Acts]
  /\ pc \in {"acting", "asking"} => cur.item \in DOMAIN mem.items
  /\ toFile \in SUBSET Items
  /\ priors \in SUBSET Items
  /\ faults \in 0..MaxFaults

Init ==
  /\ today = 0
  /\ store = EmptyLedger
  /\ issues = << >>
  /\ pc = "idle"
  /\ mem = EmptyLedger
  /\ plan = {}
  /\ pass = FALSE
  /\ todo = {}
  /\ cur = NoCur
  /\ toFile = {}
  /\ priors = {}
  /\ faults = MaxFaults

-----------------------------------------------------------------------------
(* Faults and the outcome of a write. *)

Fault(kind) == kind \in Faults /\ faults > 0 /\ faults' = faults - 1

Outcomes == {"ok"} \union WriteFaults
Applied(o) == o \in {"ok", "lost"}
Raises(o) == o \in {"raised", "lost"}

Outcome(o) == \/ o = "ok" /\ UNCHANGED faults
              \/ o \in WriteFaults /\ Fault(o)

\* The outcome of creating an issue: at the bound MaxIssues it is refused.
CreateOutcome(o) ==
  \/ Outcome(o) /\ (Applied(o) => Len(issues) < MaxIssues)
  \/ o = "refused" /\ Len(issues) = MaxIssues /\ UNCHANGED faults

\* The oldest issue number a paginated listing reaches.  A page that answers
\* with an error status ends the listing as an empty page does.
ListedFrom(lo) ==
  LET whole == IF Len(issues) > ListMax THEN Len(issues) - ListMax + 1 ELSE 1
  IN  \/ lo = whole /\ UNCHANGED faults
      \/ lo \in whole + 1 .. Len(issues) + 1 /\ Fault("list")

-----------------------------------------------------------------------------
(* The start of a run: card, verdict, ledger, plan, merge. *)

BuildPlan ==
  /\ pc = "idle"
  /\ \E p \in [Items -> PlanEntries], v \in Verdicts :
       /\ mem' \in Merges(store, p, today)
       /\ plan' = Proposed(p)
       /\ pass' = v
  /\ pc' = "loop"
  /\ UNCHANGED <<today, store, issues, todo, cur, filing, faults>>

\* Variant: the rows the pass has not reached outlive the run.
EndRunKeepingTodo ==
  /\ pc' = "idle" /\ mem' = EmptyLedger /\ plan' = {} /\ pass' = FALSE
  /\ cur' = NoCur /\ toFile' = {} /\ priors' = {}
  /\ UNCHANGED todo

\* The back to "idle" of every ending: nothing of the run survives it.
EndRun ==
  /\ pc' = "idle"
  /\ mem' = EmptyLedger
  /\ plan' = {}
  /\ pass' = FALSE
  /\ todo' = {}
  /\ cur' = NoCur
  /\ toFile' = {}
  /\ priors' = {}

SkipLoop ==
  /\ pc = "loop"
  /\ Fault("skip")
  /\ pc' = "persist"
  /\ UNCHANGED <<today, store, issues, mem, plan, pass, todo, cur, filing>>

\* Variant: the newest listed issue that names a slug.
NewestListed(i, lo) ==
  {n \in lo..Len(issues) : /\ i \in Marks(issues[n])
                           /\ \A m \in n+1..Len(issues) : i \notin Marks(issues[m])}

\* The listed issues that name a slug with no older one listed that does: at
\* most one.
FirstListed(i, lo) ==
  {n \in lo..Len(issues) : /\ i \in Marks(issues[n])
                           /\ \A m \in lo..n-1 : i \notin Marks(issues[m])}

\* Rows without an issue number get the oldest listed issue that names them.
Backfilled(items, lo) ==
  [i \in DOMAIN items |->
     IF items[i].issue # 0 \/ FirstListed(i, lo) = {}
     THEN items[i]
     ELSE [items[i] EXCEPT !.issue = CHOOSE n \in FirstListed(i, lo) : TRUE]]

\* The part of _verify_loop_best_effort before the pass.  An exception in the
\* listing is caught and reads as an empty listing.
BackfillUnder(fills, verifies) ==
  /\ pc = "loop"
  /\ \E lo \in 1..Len(issues) + 1 :
       /\ ListedFrom(lo)
       /\ mem' = IF fills
                 THEN [mem EXCEPT !.items = Backfilled(mem.items, lo)]
                 ELSE mem
  /\ IF verifies
     THEN pc' = "verify" /\ todo' = DOMAIN mem.items
     ELSE pc' = "persist" /\ UNCHANGED todo
  /\ UNCHANGED <<today, store, issues, plan, pass, cur, filing>>

\* Variant: the verdict gates the backfill with the pass.
BackfillGated == BackfillUnder(pass, pass)

\* Variant: the verdict gates neither.
BackfillThenVerify == BackfillUnder(TRUE, TRUE)

\* The backfill runs under every verdict; without a PASS the pass is withheld.
Backfill == BackfillUnder(TRUE, pass)

-----------------------------------------------------------------------------
(* verify_and_correct: one row at a time, in (first_seen, id) order.  The  *)
(* reads of a row are one step, the write they lead to another.            *)

\* Variant: the recorded ruling is not consulted.
RuledByIssueAlone(row, issue, readable) ==
  \/ issue.ruling \in {"label", "not_planned"}
  \/ issue.ruling = "comment" /\ readable

\* Variant: state_reason and the ledger only.
RuledWithoutComments(row, issue, readable) ==
  \/ row.notified \/ row.filed
  \/ issue.ruling \in {"label", "not_planned"}

\* _ledger_recorded_ruling or _is_human_ruled; a comment is seen only when
\* the comments could be read and nothing newer buries it.
JudgedRuled(row, issue, readable) ==
  \/ row.notified \/ row.filed
  \/ issue.ruling \in {"label", "not_planned"}
  \/ issue.ruling = "comment" /\ readable

\* Variant: the threshold is missed by one.
DueAfterThreshold(row, issue) ==
  row.carry > Threshold /\ ~row.escalated /\ ~issue.gated

DueForEscalation(row, issue) ==
  row.carry >= Threshold /\ ~row.escalated /\ ~issue.gated

\* Variant: a re-tracked ruling is re-tracked again.
RuledFollowUpAgain(row) == IF row.notified THEN "retrack" ELSE "notice"

\* Variant: a ruled close is re-tracked at once.
RuledFollowUpAtOnce(row) == IF row.filed THEN "none" ELSE "retrack"

\* Variant: the notice is repeated for ever.
RuledFollowUpNotice(row) == IF row.filed THEN "none" ELSE "notice"

RuledFollowUp(row) ==
  CASE row.filed                     -> "none"
    [] ~row.filed /\ row.notified    -> "retrack"
    [] ~row.filed /\ ~row.notified   -> "notice"

\* Variant: a close whose metric still reads adverse is left alone.
ActForQuietly(row, issue, reading, readable) ==
  CASE issue.state = "open" ->
         IF DueForEscalation(row, issue) THEN "label" ELSE "none"
    [] issue.state = "closed" /\ reading = "adverse"
                              /\ JudgedRuled(row, issue, readable) ->
         RuledFollowUp(row)
    [] OTHER -> "none"

ActFor(row, issue, reading, readable) ==
  CASE issue.state = "open" ->
         IF DueForEscalation(row, issue) THEN "label" ELSE "none"
    [] issue.state = "closed" /\ reading # "adverse" -> "none"
    [] OTHER -> IF JudgedRuled(row, issue, readable)
                THEN RuledFollowUp(row)
                ELSE "reopen"

\* The comments are fetched only for a closed issue that reads adverse.
CommentsRead(issue, reading, readable) ==
  \/ readable = TRUE /\ UNCHANGED faults
  \/ /\ readable = FALSE /\ Fault("comments")
     /\ issue.state = "closed" /\ reading = "adverse"

Decide(i, act) ==
  IF act = "none"
  THEN pc' = "verify" /\ UNCHANGED cur
  ELSE pc' = "acting" /\ cur' = [item |-> i, act |-> act]

Examine(i) ==
  /\ pc = "verify"
  /\ i \in todo
  /\ \A j \in todo : mem.items[i].first <= mem.items[j].first
  /\ todo' = todo \ {i}
  /\ LET row == mem.items[i] IN
     \/ row.issue = 0 /\ Decide(i, "none") /\ UNCHANGED faults
     \/ row.issue # 0 /\ Decide(i, "none") /\ Fault("get")
     \/ /\ row.issue # 0
        /\ \E reading \in Readings, readable \in BOOLEAN :
             /\ CommentsRead(issues[row.issue], reading, readable)
             /\ Decide(i, ActFor(row, issues[row.issue], reading, readable))
  /\ UNCHANGED <<today, store, issues, mem, plan, pass, filing>>

EndPass ==
  /\ pc = "verify"
  /\ todo = {}
  /\ pc' = "persist"
  /\ UNCHANGED <<today, store, issues, mem, plan, pass, todo, cur, filing, faults>>

\* Only the reads of the pass are guarded: a write that raises ends the pass
\* in the caller's except clause.
Proceed(o) ==
  /\ cur' = NoCur
  /\ IF Raises(o)
     THEN pc' = "persist" /\ todo' = {}
     ELSE pc' = "verify" /\ UNCHANGED todo

Tracked == mem.items[cur.item].issue

Reopen ==
  /\ pc = "acting" /\ cur.act = "reopen"
  /\ \E o \in Outcomes :
       /\ Outcome(o)
       /\ Proceed(o)
       /\ issues' = IF Applied(o)
                    THEN [issues EXCEPT ![Tracked] = Reopened(@)]
                    ELSE issues
  /\ UNCHANGED <<today, store, mem, plan, pass, filing>>

Notice ==
  /\ pc = "acting" /\ cur.act = "notice"
  /\ \E o \in Outcomes :
       /\ Outcome(o)
       /\ Proceed(o)
       /\ mem' = IF o = "ok"
                 THEN [mem EXCEPT !.items[cur.item].notified = TRUE]
                 ELSE mem
       /\ issues' = IF Applied(o)
                    THEN [issues EXCEPT ![Tracked].notices = UpToTwo(@)]
                    ELSE issues
  /\ UNCHANGED <<today, store, plan, pass, filing>>

Retrack ==
  /\ pc = "acting" /\ cur.act = "retrack"
  /\ \E o \in Outcomes :
       /\ CreateOutcome(o)
       /\ Proceed(o)
       /\ mem' = IF o = "ok"
                 THEN [mem EXCEPT !.items[cur.item].filed = TRUE]
                 ELSE mem
       /\ issues' = IF Applied(o)
                    THEN Append(issues, NewIssue(NoItem, Tracked, {}))
                    ELSE issues
  /\ UNCHANGED <<today, store, plan, pass, filing>>

\* _escalate_carryover, its first request: the gate:decision label.
Label ==
  /\ pc = "acting" /\ cur.act = "label"
  /\ \E o \in Outcomes :
       /\ Outcome(o)
       /\ issues' = IF Applied(o)
                    THEN [issues EXCEPT ![Tracked].gated = TRUE]
                    ELSE issues
       /\ IF o = "ok"
          THEN pc' = "asking" /\ UNCHANGED <<todo, cur>>
          ELSE Proceed(o)
  /\ UNCHANGED <<today, store, mem, plan, pass, filing>>

\* The Ask does not open with the marker, so it is taken for a foreign comment
\* and comes between a reader and a decision already there.
BehindAsk(ruling) == IF ruling = "comment" THEN "asked" ELSE ruling

\* Its second request: the Ask comment, whose status is not looked at.
Ask ==
  /\ pc = "asking"
  /\ \E o \in Outcomes :
       /\ Outcome(o)
       /\ Proceed(o)
       /\ mem' = IF o \in {"ok", "refused"}
                 THEN [mem EXCEPT !.items[cur.item].escalated = TRUE]
                 ELSE mem
       /\ issues' = IF Applied(o)
                    THEN [issues EXCEPT ![Tracked].asks = UpToTwo(@),
                                        ![Tracked].ruling = BehindAsk(@)]
                    ELSE issues
  /\ UNCHANGED <<today, store, plan, pass, filing>>

-----------------------------------------------------------------------------
(* The rest of the run: the ledger write, then the filing of new items.    *)

WriteLedger ==
  /\ pc = "persist"
  /\ store' = mem
  /\ pc' = "list"
  /\ UNCHANGED <<today, issues, mem, plan, pass, todo, cur, filing, faults>>

\* Withheld without a PASS; skipped without token or budget; ended by an
\* exception in one of its reads.
SkipFiling ==
  /\ pc = "list"
  /\ \/ ~pass /\ UNCHANGED faults
     \/ pass /\ Fault("skip")
     \/ pass /\ Fault("list")
  /\ EndRun
  /\ UNCHANGED <<today, store, issues>>

\* Variant: only open issues count as filed.
OpenSlugsFrom(lo) ==
  UNION {Marks(issues[n]) : n \in {m \in lo..Len(issues) : issues[m].state = "open"}}

SlugsFrom(lo) == UNION {Marks(issues[n]) : n \in lo..Len(issues)}

\* What the titles of the closed proposals name: a re-track's names no item.
ClosedSlugs ==
  {issues[n].slug : n \in {m \in DOMAIN issues : issues[m].state = "closed"}} \ {NoItem}

\* existing_proposal_slugs, select_new_items, the items a record holds, and
\* the closed proposals, fetched once if there is anything to file.
ListFiled ==
  /\ pc = "list"
  /\ pass
  /\ \E lo \in 1..Len(issues) + 1, held \in SUBSET Holdable :
       /\ ListedFrom(lo)
       /\ toFile' = (plan \ SlugsFrom(lo)) \ held
       /\ priors' = IF toFile' = {} THEN {} ELSE ClosedSlugs
  /\ pc' = "filing"
  /\ UNCHANGED <<today, store, issues, mem, plan, pass, todo, cur>>

\* The issue's text names the closed proposals it declares to re-do or shares
\* evidence with: any of those fetched.  An error status ends the batch: 401 and
\* 403 return, any other raises.
File(i) ==
  /\ pc = "filing"
  /\ i \in toFile
  /\ \E o \in Outcomes, cites \in SUBSET (priors \ {i}) :
       /\ CreateOutcome(o)
       /\ issues' = IF Applied(o)
                    THEN Append(issues, NewIssue(i, 0, cites))
                    ELSE issues
       /\ IF o = "ok"
          THEN /\ toFile' = toFile \ {i}
               /\ UNCHANGED <<pc, mem, plan, pass, todo, cur, priors>>
          ELSE EndRun
  /\ UNCHANGED <<today, store>>

EndFiling ==
  /\ pc = "filing"
  /\ toFile = {}
  /\ EndRun
  /\ UNCHANGED <<today, store, issues, faults>>

\* An S3 error, a failed plan call, a timeout or a kill, at any point.
Crash ==
  /\ pc # "idle"
  /\ Fault("crash")
  /\ EndRun
  /\ UNCHANGED <<today, store, issues>>

-----------------------------------------------------------------------------
(* The calendar and the people. *)

NextDay ==
  /\ pc = "idle"
  /\ today < MaxDay
  /\ today' = today + 1
  /\ UNCHANGED <<store, issues, runVars, faults>>

\* "merge": a pull request closes the issue; "label", "not_planned" and
\* "comment": a ruling closes it; "reply": a later comment buries a decision;
\* "ungate": the decision label is answered and removed.
HumanStep(n, act) ==
  LET issue == issues[n] IN
  /\ act \in HumanActs
  /\ \/ /\ act \in {"merge", "reopen", "label", "not_planned", "comment"}
        /\ (issue.state = "closed") = (act = "reopen")
     \/ act = "reply" /\ issue.ruling \in {"comment", "asked"}
     \/ act = "ungate" /\ issue.gated
  /\ issues' = [issues EXCEPT ![n] =
       CASE act = "merge"  -> [issue EXCEPT !.state = "closed"]
         [] act = "reopen" -> Reopened(issue)
         [] act = "reply"  -> [issue EXCEPT !.ruling = "buried"]
         [] act = "ungate" -> [issue EXCEPT !.gated = FALSE]
         [] OTHER          -> [issue EXCEPT !.state = "closed", !.ruling = act]]
  /\ UNCHANGED <<today, store, runVars, faults>>

-----------------------------------------------------------------------------
DirectorStep ==
  \/ BuildPlan
  \/ SkipLoop
  \/ Backfill
  \/ \E i \in Items : Examine(i)
  \/ EndPass
  \/ Reopen
  \/ Notice
  \/ Retrack
  \/ Label
  \/ Ask
  \/ WriteLedger
  \/ SkipFiling
  \/ ListFiled
  \/ \E i \in Items : File(i)
  \/ EndFiling

Next ==
  \/ DirectorStep
  \/ Crash
  \/ NextDay
  \/ \E n \in DOMAIN issues, act \in AllHumanActs : HumanStep(n, act)

Spec == Init /\ [][Next]_vars

\* The schedule starts a run every week and a started run goes on; faults are
\* finitely many.  Nothing is assumed of people or of the calendar.
FairSpec == Spec /\ WF_vars(DirectorStep)

-----------------------------------------------------------------------------
(* Safety. *)

\* The active set the prompt is built from stays within its size bound, in
\* memory and as persisted.
ActiveBounded ==
  /\ Cardinality(DOMAIN store.items) <= MaxActive
  /\ Cardinality(DOMAIN mem.items) <= MaxActive

\* An id that was ever persisted stays in the artifact, active or retired:
\* neither the bounds nor a crash between two writes loses a commitment.
LedgerNeverForgets == [][Known(store) \subseteq Known(store')]_vars

\* A row's issue number names an issue that was filed for that row's id,
\* never a re-track or an issue of another item whose text cites it.
TracksOwnIssue ==
  \A i \in DOMAIN store.items :
    store.items[i].issue # 0 =>
      /\ store.items[i].issue \in DOMAIN issues
      /\ issues[store.items[i].issue].slug = i

\* Weekly re-runs, same-week re-fires and runs resumed after a crash or a lost
\* answer never file a slug twice.
OneIssuePerSlug ==
  \A m, n \in DOMAIN issues :
    issues[m].slug = issues[n].slug /\ issues[m].slug # NoItem => m = n

\* A step of the Director, as opposed to one of people or of the calendar.
ByDirector == runVars' # runVars

Opened(n) == issues[n].state = "closed" /\ issues'[n].state = "open"

\* Once the ledger has recorded that the close of a row's issue was ruled,
\* no later run reopens it, whatever it can or cannot read by then.
NoReopenOfRecordedRuling ==
  [][\A n \in DOMAIN issues : ByDirector /\ Opened(n) =>
       \A i \in DOMAIN store.items :
         store.items[i].issue = n =>
           ~store.items[i].notified /\ ~store.items[i].filed]_vars

\* A run whose card is not attested PASS changes no issue.
WithheldRunMutatesNothing == [][ByDirector /\ ~pass => issues' = issues]_vars

\* Of the rows a run's retirement lets go, one the run proposed goes only when
\* every row kept was proposed on this date too: what the Director still
\* believes in is never displaced by what it has stopped proposing.
RenewedOutlivesOlder ==
  pc # "idle" =>
    \A i \in plan \ DOMAIN mem.items, j \in DOMAIN mem.items :
      mem.items[j].last = today

\* A ruled close gets its notice once.
OneNotice == \A n \in DOMAIN issues : issues[n].notices <= 1

\* A ruled close is re-tracked by one new issue at most.
OneRetrack ==
  \A m, n \in DOMAIN issues :
    issues[m].prior = issues[n].prior /\ issues[m].prior # 0 => m = n

\* A carried item that is never resolved is put to the Decision Queue once.
OneAsk == \A n \in DOMAIN issues : issues[n].asks <= 1

\* A re-track cites a close whose ruling had been answered with a notice.
RetrackFollowsNotice ==
  \A n \in DOMAIN issues :
    issues[n].prior # 0 => issues[issues[n].prior].notices > 0

\* The Director never reopens a close that shows a human ruling to those who
\* look past the comments that open with its marker.
HumanRuledStaysClosed ==
  [][\A n \in DOMAIN issues : ByDirector /\ Opened(n) =>
       issues[n].ruling \notin {"label", "not_planned", "comment"}]_vars

\* The Director never reopens a close whose decision comment nobody else has
\* written after: "the NEWEST comment on the issue that this module did not
\* post itself" (_is_human_ruled).
UnansweredDecisionStands ==
  [][\A n \in DOMAIN issues : ByDirector /\ Opened(n) =>
       issues[n].ruling \notin {"comment", "asked"}]_vars

-----------------------------------------------------------------------------
(* Liveness, under FairSpec. *)

\* Issue n was filed for an item that is an active row of the ledger, and the
\* row names no other issue.
RowOf(n) == store.items[issues[n].slug]

Follows(n) == /\ n \in DOMAIN issues
              /\ issues[n].slug \in DOMAIN store.items
              /\ RowOf(n).issue \in {0, n}

\* Runs attested PASS keep coming, with any number of others between them.
PassesRecur == []<>(pc = "verify")

\* While passes recur and the evidence reads adverse, an issue closed without
\* a ruling does not stay closed: whatever single reads and writes failed,
\* some run reopens it.
UnrecoveredCloseIsReopened ==
  PassesRecur =>
    \A n \in 1..MaxIssues :
      LET unrecovered == /\ Follows(n)
                         /\ issues[n].state = "closed"
                         /\ issues[n].ruling = "none"
                         /\ ~RowOf(n).notified /\ ~RowOf(n).filed
      IN  unrecovered ~> ~unrecovered

\* ... and an issue closed by a ruling is re-tracked by a new issue.
RuledCloseIsRetracked ==
  PassesRecur =>
    \A n \in 1..MaxIssues :
      LET ruled == /\ Follows(n)
                   /\ issues[n].state = "closed"
                   /\ issues[n].ruling = "label"
          retracked == \E m \in DOMAIN issues : issues[m].prior = n
      IN  ruled ~> (retracked \/ ~ruled)

Carried(n) == Follows(n) /\ issues[n].state = "open" /\ RowOf(n).carry >= Threshold

\* ... and an open issue whose row was carried up to the threshold gets the
\* decision label of the queue it is to be escalated to.
CarriedItemIsQueued ==
  PassesRecur =>
    \A n \in 1..MaxIssues :
      Carried(n) ~> (~Carried(n) \/ issues[n].gated)

\* An active row finds the issue filed for it even if no later run is attested
\* PASS: withholding the corrections does not withhold what they need.
BackfillEvenWhenWithheld ==
  \A n \in 1..MaxIssues : Follows(n) ~> (~Follows(n) \/ RowOf(n).issue # 0)

=============================================================================
