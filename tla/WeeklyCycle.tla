---------------------------- MODULE WeeklyCycle ----------------------------
(***************************************************************************)
(* The weekly cycle: grading runs (ReportCard) and the Director runs that  *)
(* read the frozen card of a date, advise on it and, if its verdict is a   *)
(* pass, act on other systems (src/director/handler.py).  What the acting  *)
(* steps do to issues and to the ledger is DirectorLoop; here they are the *)
(* exercise of mutating authority.                                         *)
(***************************************************************************)
EXTENDS ReportCard

CONSTANT Directors  \* Director runs; each happens once

ASSUME DirectorsAssumption == None \notin Directors

VARIABLES
  director,  \* the program counter and locals of every Director run
  desk,      \* the objects the Director writes
  acted      \* Director runs that changed another system

vars == <<today, run, store, director, desk, acted>>

directorVars == <<director, desk, acted>>

DirectorSteps == {"idle", "plan", "loop", "retro", "trend", "file", "done", "failed"}

\* card is the grading run whose card was read, prior the date of the plan
\* the retro grades.
Director ==
  [at : DirectorSteps, date : RunDates \union {None}, card : Held,
   prior : RunDates \union {None}]

Advisers == Directors \union {None}

\* Plans and retros by run date; the trend has one row for each graded plan,
\* the run date of the retro that graded it.
Desk ==
  [plans : [RunDates -> Advisers], retros : [RunDates -> Advisers],
   trend : [RunDates -> RunDates \union {None}]]

NoRows == [d \in RunDates |-> None]

DirectorInit ==
  /\ director = [g \in Directors |->
       [at |-> "idle", date |-> None, card |-> None, prior |-> None]]
  /\ desk = [plans |-> NoRows, retros |-> NoRows, trend |-> NoRows]
  /\ acted = {}

Init == CardInit /\ DirectorInit

-----------------------------------------------------------------------------
(* One Director run, step by step. *)

DirectorGoto(g, step) == director' = [director EXCEPT ![g].at = step]

InFlight(g) == director[g].at \notin {"idle", "done", "failed"}

\* A dry run probes and writes nothing; without a card the run raises.
AfterLoad(card, dry) == IF dry THEN "done" ELSE IF card = None THEN "failed" ELSE "plan"

\* Variant: the Director reads the standing surface.
LoadLatest(g) ==
  /\ director[g].at = "idle"
  /\ \A other \in Directors : ~InFlight(other)
  /\ \E d \in RunDates, dry \in BOOLEAN :
       /\ d <= today
       /\ director' = [director EXCEPT ![g] =
            [@ EXCEPT !.date = d, !.card = store.latest,
                      !.at = AfterLoad(store.latest, dry)]]
  /\ UNCHANGED <<cardVars, desk, acted>>

\* The dated card, never latest.  The state machine runs one Director at a
\* time.
LoadCard(g) ==
  /\ director[g].at = "idle"
  /\ \A other \in Directors : ~InFlight(other)
  /\ \E d \in RunDates, dry \in BOOLEAN :
       /\ d <= today
       /\ director' = [director EXCEPT ![g] =
            [@ EXCEPT !.date = d, !.card = store.dated[d],
                      !.at = AfterLoad(store.dated[d], dry)]]
  /\ UNCHANGED <<cardVars, desk, acted>>

\* The dated plan; its latest copy is read by no step of the cycle.
PutPlan(g) ==
  /\ director[g].at = "plan"
  /\ desk' = [desk EXCEPT !.plans[director[g].date] = g]
  /\ DirectorGoto(g, "loop")
  /\ UNCHANGED <<cardVars, acted>>

\* Mutating authority is withheld by the verdict on the card that was read.
MayAct(g) == ~ActionsWithheld(run[director[g].card].verdict)

ActedBy(g) == IF MayAct(g) THEN acted \union {g} ELSE acted

\* Loop verification; skipped for want of a token or of time.
VerifyLoop(g) ==
  /\ director[g].at = "loop"
  /\ acted' \in {acted, ActedBy(g)}
  /\ DirectorGoto(g, "retro")
  /\ UNCHANGED <<cardVars, desk>>

\* Variant: the plan of the day itself counts as a prior plan.
PlansUpTo(d) == {p \in RunDates : p <= d /\ desk.plans[p] # None}

PriorPlans(d) == {p \in RunDates : p < d /\ desk.plans[p] # None}

\* The newest plan older than this run's date.
IsPriorPlan(p, d) == p \in PriorPlans(d) /\ \A q \in PriorPlans(d) : q <= p

\* The judge may refuse, fail or be out of budget.
SkipRetro(g) ==
  /\ director[g].at = "retro"
  /\ DirectorGoto(g, "file")
  /\ UNCHANGED <<cardVars, desk, acted>>

GradePrior(g) ==
  LET d == director[g].date IN
  /\ director[g].at = "retro"
  /\ \E p \in RunDates :
       /\ IsPriorPlan(p, d)
       /\ director' = [director EXCEPT ![g].prior = p, ![g].at = "trend"]
  /\ desk' = [desk EXCEPT !.retros[d] = g]
  /\ UNCHANGED <<cardVars, acted>>

\* Variant: the row names the run instead of its date.
TrendNamesTheRun(g) ==
  /\ director[g].at = "trend"
  /\ desk' = [desk EXCEPT !.trend[director[g].prior] = g]
  /\ DirectorGoto(g, "file")
  /\ UNCHANGED <<cardVars, acted>>

\* Upsert by the prior plan's date.
PutTrend(g) ==
  /\ director[g].at = "trend"
  /\ desk' = [desk EXCEPT !.trend[director[g].prior] = director[g].date]
  /\ DirectorGoto(g, "file")
  /\ UNCHANGED <<cardVars, acted>>

\* An error in the retro's writes ends the retro, not the run.
RetroFails(g) ==
  /\ director[g].at = "trend"
  /\ DirectorGoto(g, "file")
  /\ UNCHANGED <<cardVars, desk, acted>>

FileIssues(g) ==
  /\ director[g].at = "file"
  /\ acted' \in {acted, ActedBy(g)}
  /\ DirectorGoto(g, "done")
  /\ UNCHANGED <<cardVars, desk>>

DirectorDies(g) ==
  /\ InFlight(g)
  /\ DirectorGoto(g, "failed")
  /\ UNCHANGED <<cardVars, desk, acted>>

DirectorStep(g) ==
  \/ LoadCard(g) \/ PutPlan(g) \/ VerifyLoop(g) \/ SkipRetro(g)
  \/ GradePrior(g) \/ PutTrend(g) \/ RetroFails(g)
  \/ FileIssues(g) \/ DirectorDies(g)

Next ==
  \/ NextDay /\ UNCHANGED directorVars
  \/ \E r \in Runs : GradingStep(r) /\ UNCHANGED directorVars
  \/ \E g \in Directors : DirectorStep(g)

Spec == Init /\ [][Next]_vars

-----------------------------------------------------------------------------
(* Properties of the cycle. *)

\* Types of the bucket, of the Director's desk and of both kinds of runs.
TypeOK ==
  /\ CardTypeOK
  /\ director \in [Directors -> Director]
  /\ desk \in Desk
  /\ acted \subseteq Directors

\* No mutation on numbers whose correctness was not established: whenever a
\* Director has changed another system, every check dispatched for the date
\* of its card had left a passing body of that very date
\* (build_run_attestation, read_card_verdict, actions_withheld).
MutationRestsOnEvidence ==
  \A g \in acted : run[director[g].card].sound

\* The moving surface never leaks into the advice: a Director past its read
\* holds a frozen card of its own date, never a refresh or a regrade, and
\* stays with it while the bucket moves on (_load_report_card).
AdvisesOnFrozenCard ==
  \A g \in Directors :
    director[g].at \notin {"idle", "done", "failed"} =>
      LET card == director[g].card IN
      /\ card # None
      /\ run[card].date = director[g].date
      /\ run[card].snapshot
      /\ ~run[card].regrade

\* A trend row grades a plan of an earlier date by the retro of a later date
\* that has a plan of its own (_load_prior_plan, _persist_retro).
TrendRowsGradeEarlierPlans ==
  \A p \in RunDates : desk.trend[p] # None =>
    /\ p < desk.trend[p]
    /\ desk.plans[p] # None
    /\ desk.plans[desk.trend[p]] # None

=============================================================================
