# A verification project for crucible-evaluator

crucible-evaluator grades a trading system once a week and lets an LLM
"Director" act on the grades. `grading/` reads the artifacts of the other
stages from S3 and writes the Report Card; `director/` reads the card, asks a
model for a plan of action items, keeps those items in a carry-over ledger,
files them as GitHub issues and, week after week, checks whether the issues
that were closed really cured the metric they cite.

This directory holds TLA+ models of that code, TLC configurations that check
them on small instances, and proofs that TLAPS checks for every instance.
`PROJECT.json` is the index: which definition models which lines, what each run
checks, which mutation of the model each property catches, which hazard of the
code each property is aimed at, and which theorems are proved.

    tlc -workers 2 -config MC_Protocol.cfg MC_DirectorLoop.tla  # a run
    tlc -workers 2 -config MC_Tiles.cfg Tiles.tla               # another
    tlapm WeeklyCycleProofs.tla                                 # one of the eight proof modules

## 1. The system

### 1.1 Components, state and operations

| component | state it keeps | operations | what makes it correct |
|---|---|---|---|
| carry-over ledger `director/carryover.py` | one S3 object: active rows by item id, retired rows | load, merge a plan (upsert), retire by age and by size, write | no commitment lost, active set bounded, sticky flags survive every merge |
| loop verification `director/loop_verification.py` | none of its own; flags on ledger rows, GitHub issues | backfill issue numbers, reopen an uncured close, notice then re-track a ruled close, escalate a carried item | a close whose ruling can be seen is never reopened, notice and re-track happen once, an uncured close is reopened in the end |
| issue filer `director/issue_filer.py` | the GitHub issues | list the slugs already filed, file the rest, hold items a record declares invalid | a slug is filed once, whatever failed or was repeated |
| Director run `director/handler.py` | none; orders the steps of a run | card, verdict, ledger, plan, merge, verify, persist, email, retro, file | the order in which two stores are written, and what a partial failure leaves |
| verdict gate `director/verdict.py` | none | normalise the card's attestation block, withhold actions | a run whose card is not attested PASS mutates nothing |
| item validity `director/item_validity.py`, `item_validity_gate.py` | stamps on rows | judge cited metrics against run scope and records | an item whose evidence is invalid is neither filed nor reopened |
| budget and hosts `director/budget.py`, `hosting.py`, `box_run.py` | a deadline | quote a step, clamp a box's wall clock, map to exit codes | the plan is never starved by an optional step; no step is started that cannot end |
| plan and retro calls `director/agent.py`, `retro.py`, `citations.py` | dated plans, retro trend | call the model with retries, select carry-over, grade the prior plan | retries fit the time left; the retro grades the newest earlier plan once |
| substatus `director/substatus.py` | none | fold the legs of a run into one status | a failed leg never reads as ok |
| Report Card writer `grading/aggregate.py`, `handler.py`, `history.py` | latest, dated and regrade cards, secondary artifacts | build, write, regrade, load history | a dated card is an as-of record; history and Director never read `latest` |
| rehearsal isolation `grading/rehearsal.py` | an S3 key overlay per invocation | re-key writes, serve reads from the namespace | a rehearsal writes no live key and leaks into no later invocation |
| attestation `grading/attestation.py`, `self_test.py` | none | fold the correctness verdicts of the halves into the card's one | PASS only if every half in scope passed |
| pipeline gates, run scope `grading/pipeline_gates.py`, `run_scope.py` | none | read the gate and scope blocks | absent or unreadable never reads as clean or as everything in scope |
| freshness preflight `grading/freshness_preflight.py` | none | refuse a build on missing or stale inputs | production raises; only a dry run or rehearsal degrades |
| module aggregation `grading/module_agg.py`, `metric_record.py` | none | worst-of with the critical gate | one RED critical component fails its module |
| coverage census, deploy drift `grading/coverage.py`, `deploy_drift.py` | none | count graded leaves; compare deployed and main SHA | the denominator covers every tile |
| threshold registry `grading/thresholds/*` | committed bands, a champion arm | resolve, score challengers, promote | unknown metrics raise; promotion needs its evidence |
| regime index `grading/regime_index.py` | an S3 cache of date -> regime | probe misses, merge, as-of join | the cache converges and never looks forward |
| tiles `grading/tiles/*` | none | turn the artifacts of one stage into metric records | what is missing, old or thin abstains and keeps its weight |
| scorecard `grading/scorecard.py` | none | grade components, renormalise absences, average under declared weights | a failure scores 0, it is never renormalised away |
| statistics `grading/power.py`, ... | none | numerics over data frames | an interval that spans the target and the red line is never a RED; the rest is left to the test-suite |
| email, metrics, evals, deploy scripts | none | formatting and shipping | left to the test-suite |

### 1.2 How they interact

A Step Function starts grading, then the Director, once a week and again on a
re-run. The card reaches the Director as the dated S3 object; its attestation
verdict decides whether the run may mutate GitHub. A Director run then works on
*two stores that it cannot update together*: the ledger, read at the start and
written once near the end, and the issues, changed one HTTP request at a time
in between and after. People act on the same issues at any moment: they merge
pull requests that close them, close them with a ruling, comment, remove the
decision label, reopen them. Nothing locks either store.

### 1.3 What is hard

* A request can take effect and its answer be lost; it can be refused; it can
  raise and end the pass or the batch it belongs to; the process can die
  between any two requests or before the ledger is written. The next run works
  from whatever both stores show.
* The rules are protocols over weeks (notice in one run, re-track in a later
  one, then nothing; escalate once per carry), remembered by flags on rows that
  are rebuilt by every merge, age, retire and come back.
* What a later run can read of a ruling decays: comments get buried, by people
  and by the Director's own Ask, a read fails. What the ledger recorded has to
  win.
* Issues cite each other's items in their texts, and the text is all that says
  which item an issue was filed for.
* The corrections are withheld on runs without PASS, and whatever they need
  must still be collected on those runs.
* Listings end silently on a failed page and are bounded.
* A run has one wall clock for two model calls and a dozen optional steps, and
  nothing stops a step that is under way; what went wrong in any of them reaches
  the Step Function as one number.
* A warm process serves rehearsals and production from one S3 session.
* A card is put together from some forty artifacts of other stages, any of which
  may be absent, old, empty, failed or unreadable; each of these must show in the
  grade, and none of them may raise it.

`PROJECT.json` lists these hazards at their lines.

## 2. The modules

| module | models |
|---|---|
| `DirectorLedger` | the ledger as a value: rows, the upsert of a plan, the two retirement bounds, the merge. No state, so it serves the loop and the proofs alike. |
| `DirectorLoop` | the weekly run over the ledger and the issues, with people, the calendar and faults around it; its properties. |
| `MC_DirectorLoop` | the instances TLC checks: which mentions of an id a plan may hold, the symmetry of items. |
| `DirectorLoopProofs` | the theorems about `DirectorLoop` and their proofs. |
| `RulingProofs` | the theorems about its protocols over weeks: notices, re-tracks, rulings, escalations, renewals. |
| `Attestation` | the correctness verdict of a card as a value: reading a half, the two grounds on which it leaves scope, the fold; and what the verdict is meant to promise (`Established`). |
| `ReportCard` | the runs of the grading Lambda, put by put, over the objects of one bucket. |
| `WeeklyCycle` | `ReportCard` with the Director runs that read its frozen cards; the properties that relate the two. |
| `MC_WeeklyCycle` | the symmetry of runs, for TLC. |
| `WeeklyCycleProofs` | the theorems about `Attestation`, `ReportCard` and `WeeklyCycle`. |
| `DirectorInvocation` | one Director invocation against its wall clock, on the Lambda or the box: quotes, retries, admitted and declined steps, the kill, the fold of the legs into an exit code. |
| `DirectorInvocationProofs` | the theorems about it. |
| `PrivateView` | what rehearsal isolation promises: a private version of some keys over the live objects. |
| `Rehearsal` | how `grading/rehearsal.py` does it, with hooks on the clients of a session; it implements `PrivateView`. |
| `RehearsalProofs` | the theorems about `Rehearsal`, the refinement among them. |
| `TileRecords` | artifacts as a tile finds them, metric records, and the status a tile's records come to. |
| `ResearchTile`, `BacktesterTile`, `PredictorTile`, `ExecutorTile`, `OutcomeTile`, `SubstrateTile`, `AgentTiles` | which artifacts each tile reads and which records it makes of them (`AgentTiles`: agent, behavioral, director quality, contribution lift). |
| `TileRecordsProofs` | what a tile's status says of its records, and what losing a record does to it. |
| `Tiles` | a tile over a run of bad weeks: producers that miss runs and land incomplete artifacts. |
| `TilesProofs` | the theorems about `Tiles`, tile by tile. |
| `Scorecard` | the composite: blocks per component, skip reasons, weighted means, coverage. |
| `CardBuild` | one build of the card, from the preflight to publication. |
| `MC_CardBuild` | the declaration of tiles, components and weights TLC builds a card for. |
| `CardBuildProofs` | the theorems about `CardBuild` and `Scorecard`, and the lemmas about sums over finite sets they need. |

The modules meet at narrow values. `CardBuild` says what is on one card,
`ReportCard` where cards go, `WeeklyCycle` who reads them, `DirectorLoop` what a
run does to ledger and issues, `DirectorInvocation` how long it may take and
what it reports. `DirectorLoop` takes the verdict of a card as an input and
follows the issues; `WeeklyCycle` follows the card and takes what the Director
does to issues as one fact, `acted`. `Tiles` grades one tile in full;
`CardBuild` takes what a component came to as given and follows all tiles at
once through `TileRecords`, which both share.

### 2.1 DirectorLoop and the code

| state | code |
|---|---|
| `store` | the ledger object in S3 (`write_ledger`, `load_ledger`) |
| `mem`, `plan`, `pass` | what `_run` holds in local variables: the merged ledger, the plan's ids, whether mutations are allowed |
| `issues` | the GitHub issues, number = position; `slug` is the item the issue was filed for, `cites` the slugs its text repeats from the titles of closed proposals, `prior` the "Prior issue" section of a re-track, `ruling` the sign of a human ruling, `gated` the `gate:decision` label, `notices` and `asks` the Director's comments |
| `pc`, `todo`, `cur`, `toFile`, `priors` | where the run is: rows the pass has left, the row it is acting on, items left to file, what the titles of the closed proposals it fetched name |
| `today`, `faults` | the calendar and the faults left |

Each action is one external read or write, with the local computation around it:
`BuildPlan` (load, plan, merge), `Backfill` (the listing and the stamps, then the
verdict gate), `Examine` (the two GETs on a row and the branch taken), `Reopen`,
`Notice`, `Retrack`, `Label` and `Ask` (one request each, with the row flag the
code sets after it), `WriteLedger`, `ListFiled` and `File`. `SkipLoop` and
`SkipFiling` are the best-effort blocks without token or budget, `Crash` an exception
or a kill anywhere else. `EndPass` and `EndFiling` are the ends of the two loops.

A write ends in one of four ways. `ok`: it took effect and answered 2xx.
`refused`: an error status, which the code returns to the caller. `raised` and
`lost`: the request raised before or after taking effect; `_gh_request` turns
only an HTTPError into a status, so this leaves the function and ends the pass
(`Proceed`) or the batch (`File`).

A reader of an issue sees only its text, and `findall` takes every `id=<slug>` in
it: the item's own and those in the titles that the shared-evidence note and the
prior lines of a re-confirm repeat. So an issue bears several marks (`Marks`);
`SlugsFrom` and `FirstListed` go by the marks, and only the properties know `slug`.
`File` lets an issue cite any of the closed proposals fetched for the batch.

`ruling` is what the guard of a reopen can tell of a close. `comment` is a decision
comment with nothing but marked comments after it. `asked` is one that only the
Director's Ask has come after: the Ask does not open with the marker, so the guard
takes it for somebody's comment (`BehindAsk`). `buried` is one that a person's
comment has come after.

### 2.2 Abstractions

* `run_date` is `today`. A run for an earlier date, and two runs at once, are not
  modelled: the schedule starts runs one after another.
* The GET of an issue and the GET of its comments are one step; people may act
  between it and the write it leads to.
* A plan maps an id to the statuses of up to two mentions; `proposed`,
  `carried_over` and `dropped` are one status, because only `resolved` is treated
  apart. Priority decides ties in the size cut and is left open there.
* `notices` and `asks` count to two, `carry` to `CarryCap`: no property and no
  guard tells larger numbers apart.
* A listing reads the newest `ListMax` issues; a failed page cuts it at any
  point.
* Nothing else in an issue's text names an item: the model's own words in a title
  or an evidence label are taken to hold no `id=` marker. The closed proposals are
  read in the step of the listing before them; a window or a page that leaves some
  out is covered, because `File` may cite fewer.
* The PATCH that reopens an issue and the comment that says so are one request.
* The row stamps a run rewrites, `current_issue_number`, the digests that feed
  the prompt, the dated plan, e-mail and retro are left out: no modelled guard
  reads them.

### 2.3 WeeklyCycle and the code

| state | code |
|---|---|
| `store.latest`, `.dated`, `.regrades` | the standing card, `evaluator/{date}/report_card.json`, and the `report_card.regrade-*` objects (`write_report_card`) |
| `store.attributionOf`, `.record` | the dated attribution; which key the experiment record of a date names as its card, and which run wrote it |
| `run[r]` | an invocation of the grading Lambda: its event (`date`, `snapshot`, `dry`, `write`), the attestation verdict of the card it built, and whether it writes a regrade |
| `run[r].sound` | not in the code: what `Established` says of the artifacts the card was built from |
| `director[g]`, `desk`, `acted` | a Director run; the plans, retros and trend rows in S3; the runs that changed another system |

A card *is* the run that built it. The puts of a grading run are separate
actions in the order of the code, `PutLatest`, `PutAttribution`, `PutCard`,
`PutRecord`, with the HEAD and the clock of the regrade decision before them
(`DecideRegrade`); another run, the calendar or the end of the run (`Die`) may
come between any two. The best-effort writes are skipped, done, or cut short.
`LoadCard` to `FileIssues` are the same for a Director run. Grading runs overlap;
Director runs follow one another, as the schedule has it.

* The verdict artifacts are the environment's: other processes write them at any
  time, so a read returns any object they may hold, absent, refused, stamped
  with another date, or with any verdict (`Gradings`). The four-half fold is
  evaluated on every combination.
* A half's `sound`ness is judged on the objects read, not on what a producer
  did later.
* Days are numbers; `RewriteWindow` stands for three.
* Objects that no modelled step reads back are left out: the self-test, the
  leaderboard, the latest copies of attribution, record and plan, the regime
  index. A run is not a rehearsal by name here; `Rehearsal` has those.

### 2.4 DirectorInvocation and the code

| state | code |
|---|---|
| `host` | the profile of the home (`hosting.py`), with the wall this invocation got: the box clamps its own to the SSM deadline (`box_run.py`) |
| `left` | `InvocationBudget.remaining`, as a countdown |
| `quote`, `attempt`, `planTries` | the open model call: what an attempt is charged, which one it is, how many the plan took |
| `pc`, `end`, `legs` | the step, how the invocation ended, the words of the sub-results (`substatus.py`) |
| `declined`, `overran`, `pastQuote`, `trouble` | history: what the properties are about, recorded when it happens and not when it is reported |

The actions are the steps of `_run` in order: `Boot`, `FetchDigest`, `QuotePlan`,
the three ends of a model attempt (`PlanArrives`, `PlanFailsTransiently`,
`PlanFails`; the judge likewise), `PutPlan`, `VerifyLoop`, `PutLedger`,
`SendDigest`, `LoadPriorPlan`, `QuoteJudge`, `FileIssues`, `RollUp`, `Fold`, with a
declined or skipped variant where the code has one. Every step takes a time from
a small set: hardly any, its estimate, or more (`Overruns`). A quote bounds what
the budget charges; the attempt itself is bounded by the static ceiling only, as
in `agent.py`. What a step does is in the other modules.

### 2.5 Rehearsal and the code

`active` is `_ACTIVE`, `overlay` the context's set of covered keys, `registered` the
hooks on the session, `kept` those of a client that outlived its invocation.
`Invoke`, `Finish` and `Die` are the invocations of one warm process; a write is
`Put`, `FailedPut`, `Copy`, `Delete` or `PutPrefixed` according to the branch the
hook takes; `Refuse` is an operation the hook does not know; `StaleInput` the
tolerance of the preflight. `OthersWrite` is everyone else, on live objects and
in namespaces. Objects are their writers. In `PrivateView` there are no hooks:
a run has a private version `mine` of some keys. The refinement mapping takes
`mine` to what the overlay serves, `[k \in overlay |-> space[run][k]]`.

### 2.6 Tiles, CardBuild, Scorecard and the code

* An artifact is a kind (what reading it gives: nothing, refused, unparsable, a
  body that lacks something, a full one) and an age where its key is dated.
  `world.cells` holds the artifacts of a tile, `world.says` the status each
  component's numbers would come to; `Miss`, `Land` and `Turn` change them, and
  `built` is the tile graded after each change. A record is its name,
  criticality, status and the note that matters to a vote (`stale`, `declared`,
  ...). Values, units, letters and reasons are left out; the number behind a
  status is arbitrary.
* `CardBuild` follows `build_report_card`: after `Week` has changed the world,
  `LoadSpecs`, `CheckInput` per gated artifact, `ReadInputs`, `ScoreSlot`, `Submit`,
  `BuildOne` per worker of the thread pool, in any order, `Resolve` (the join),
  `Grade` (scorecard, census, coverage record, overall status, scope).
* In `Scorecard` a component is a block: a grade or the class of its absence. The
  grade of a composite is an exact fraction. The normalisers and the weights
  inside a component are abstracted to levels; failure and timeout are one class;
  `insufficient_lift` counts as ok, as the code has it; `derive_status` and
  `get_json` live in other packages and are marked external.

## 3. What the runs check

| run | instance | properties | what it shows |
|---|---|---|---|
| `TwoItems` | two items whose issues may cite each other, an active set of one, decision comments, a crash, an unreadable thread, a raised or a lost write, three issues, 5.4 M states | `TracksOwnIssue`, `OneIssuePerSlug`, `ActiveBounded`, `RenewedOutlivesOlder`, `NoReopenOfRecordedRuling`, `LedgerNeverForgets` | rows and issues stay matched, a recorded ruling stands, retirement is bounded, right and lossless |
| `Protocol` | one item, no fault and no retirement, every order of runs and people | `OneNotice`, `OneRetrack`, `OneAsk`, `HumanRuledStaysClosed` | the weekly protocols say everything once |
| `Liveness` | one item, adverse evidence, one fault of any kind at any point, any verdicts, plans that omit, carry, resolve or repeat the id, 197 K states | `TypeOK`, `RetrackFollowsNotice`, `WithheldRunMutatesNothing`, `UnrecoveredCloseIsReopened`, `RuledCloseIsRetracked`, `CarriedItemIsQueued`, `BackfillEvenWhenWithheld` | single failures delay the corrections and never cancel them; no failure lets a step come before what it needs |
| `Cycle` | two grading and two Director runs over two dates of a three-day calendar with a window of one, 5.4 M states | `TypeOK`, `MutationRestsOnEvidence`, `AdvisesOnFrozenCard`, `RecordLeadsToACard`, `TrendRowsGradeEarlierPlans`, `AsOfRecordStands` | dated cards are as-of records, advice rests on them alone, mutations on established numbers |
| `Invocation` | the Lambda, and the box with a quarter of an hour and with an hour to its deadline; every step hardly any time, its estimate or 200 s | `TypeOK`, `KilledOnlyWhenOverrun`, `FundedWhenOnEstimate`, `TroubleReachesTheExitCode` | the quotes, reserves and retries add up; a run that ends is honest |
| `Rehearsal` | two keys, two rehearsals and production, two invocations of one process, other writers at any time | `TypeOK`, `IsPrivateView`, `DegradedStaysPrivate`, `ProductionLeavesNamespaces` | the overlay implements a private view, and leaks neither way |
| `Tiles` | all ten tiles, up to two artifacts or readings away from a good week | `StaleBodiesDoNotMatter`, `CriticalKeepsItsWeight`, `RedUnlessSpanning`, `NoPassByLosingAnInput` | what missing, old, short or unreadable input does to records, votes and status |
| `CardBuild` | four tiles with seven components, all scorecard artifacts, five gated inputs, up to two things wrong, 263 146 states | `GreenIsEarned`, `CoverageNeverRisesByLosing`, `CoverageIsOfThisCard`, `CardRestsOnJudgedInputs`, `ReportedFailureCounts` | a GREEN is earned, coverage is honest, failures count |

In `Cycle` the first date leaves its window on the last day and the second never
does; two grading runs are enough for a snapshot and its rerun, a card and its
regrade, or the cards of two dates, and two Director runs for a plan and the
retro that grades it. `Cycle`, `Invocation`, `Rehearsal`, `Tiles`, `CardBuild` and the
runs of section 3.1 stop when every run has happened or the bound is reached, so
they do not check for deadlock.

In `Invocation` a deadline of 900 s leaves the box less than its own wall and one
of 3600 s leaves it all of it; an overrun of 200 s is longer than any estimate;
retries make an attempt start with little time left. Two invocations are enough
for a client kept from a rehearsal to be used in production or in another
rehearsal, and two keys for a copy and for a listing cut short. Two things away
from a good week are enough for an input that is lost together with the reading
it carried or hid, and every rule of a tile or the card relates at most two
records to the rest; the four tiles of `MC_CardBuild` are the leading tile, a
cascading one, the one that carries the coverage record and an ordinary one.

`Retrack` needs a ruled close, a notice in one run and a second run; retirement
needs a calendar longer than `StaleAfter`; a duplicate slug, a second re-track or an
issue that cites a closed one needs one more issue than the items have. The bounds
(`MaxDay`, `MaxIssues`, `ListMax`, `CarryCap`, `MaxFaults`) leave room for exactly
that, and the mutants in `PROJECT.json` show that they do: each is a plausible bug
in a mapped definition and is caught under the same bounds. `NewestListed`, which
binds a row to the newest listed issue with its mark, is caught in `TwoItems` by a
row that takes an issue which only cites it. `ListMax` equals `MaxIssues`, so
listings are whole unless a page fails. `TwoItems` leaves out the failed listing,
which breaks `OneIssuePerSlug` and `TracksOwnIssue` (below); `Liveness` has it.

**Fairness.** `FairSpec` adds `WF_vars(DirectorStep)`: the schedule starts a run
every week and a run that is under way goes on until it ends, and only finitely
many things fail. Nothing is assumed of people or the calendar. Three of the four
liveness properties are about runs attested PASS and have `PassesRecur` as their premise;
`BackfillEvenWhenWithheld` has none, which is its point.

### 3.1 Where the documentation and the code part

Four runs are expected to fail, each on one property that the repository's own
words state (`PROJECT.json`, `findings`, quotes them):

| run | what happens |
|---|---|
| `RetrackTwice` | a row that retired and is proposed again is a new row: its ruled close gets a second notice and a second re-track |
| `AskHidesRuling` | the Ask of an escalation does not open with the module's marker: sent after a decision comment, it is the newest comment that counts, and the close it was sent to is reopened by a later run |
| `StaleResearchGraded` | the research tile computes `e2e_stale` and never uses it: an artifact older than the declared seven days is graded like a fresh one |
| `FailureRaises` | blocks of the scorecard that do not read their artifact's status turn a reported failure into an absence, which is renormalised away, and the letter rises |

More was read, not run, because a single step shows it or because it is outside
the models' bounds:

* a write that raises ends the loop pass for every row behind it, though
  `director/loop_verification.py:394-395` says "the rest of the pass continues";
* the pass runs before the ledger is written (`director/loop_verification.py:38-40`
  says the reverse);
* an id the plan renewed can be retired by the same call when more than the cap
  were renewed (`director/carryover.py:217-219`);
* `carry_count` counts runs and mentions, not weeks (`director/carryover.py:222-224`);
* two late runs that both find no dated card both write it: the check and the put
  of `write_report_card` are not one step, so `AsOfRecordStands` speaks of dates
  for which no run holds a licence any more (`Settled`);
* a late Director rerun reads the as-of card while the regrade lies beside it,
  and the self-test, leaderboard and experiment record of a date are rewritten
  by a late regrade although card and attribution are not;
* the dated attribution is put before the dated card, so a run that dies between
  the two leaves an attribution newer than its card.

Of the Director's loop and filer:

* one failed listing page ends the listing silently (`director/issue_filer.py:121`),
  and the slugs behind it are filed again; a row without a number (new, or retired and
  proposed again) whose own issue is on a later page then gets a newer issue that
  only cites it, and keeps it, so that its pass works on another item's issue; `director/loop_verification.py:328-330` says that "a fetch
  failure propagates to the handler". A listing reads at most 20 pages;
* escalation sets the label first (`director/loop_verification.py:622`): if the Ask
  then raises, the label stops every later attempt;
* comments that cannot be read hide a ruling made by a comment
  (`director/loop_verification.py:522`), and the close is reopened; only the first
  page of comments is ever read;
* a dry run with an explicit `write` and `snapshot` freezes a card whose three
  artifact halves are absent and out of scope; its verdict is PASS
  (`grading/attestation.py:828`) and the Director acts on it;
* a refresh rewrites the experiment record of its date to point at the standing
  card (`grading/handler.py:525`), which a later run of another date replaces.

Of an invocation:

* every model attempt is bounded by the static ceiling, not by its quote
  (`director/agent.py:1516-1531`), so an attempt quoted less can outlive the wall;
  `director/hosting.py:99-103` speaks of a shorter quote "rather than SIGKILLing a
  call mid-flight". This is why `KilledOnlyWhenOverrun` excepts `pastQuote`;
* a pass whose corrections are withheld reports `mutations_withheld` over a failed
  backfill of its own (`director/handler.py:383-393`), which is the exception in
  `TroubleReachesTheExitCode`;
* a retry of the judge is charged its static 120 s, and a retry of the plan does
  not reserve the judge's 240 s again: `FundedWhenOnEstimate` needs one plan attempt.

Of rehearsals:

* listings are not overlaid, only clients built inside the block are hooked, the
  namespace is listed once at entry, and a put that fails leaves its key covered;
  the flush of the cost sink runs outside the block and writes live;
* the Director's handler is not isolated at all;
* a dry run goes on past missing and stale inputs too, and one with an explicit
  `write` puts its card live (`grading/handler.py:355-356`): `StaleInput` lets it go
  on, and `DegradedStaysPrivate` is about the rehearsal's degradation only.

Of tiles, scorecard and card:

* losing a supporting RED turns a tile GREEN (`NoPassByLosingAnInput` excepts it by
  `HidesARed`); likewise a whole agent tile gone dark, or a Backtester tile gone from
  WATCH to RED, takes one of two WATCH votes away and the card turns GREEN, though
  `grading/module_agg.py:298-302` says an unmeasured tile is not a pass;
* the stale branches of the backtester, agent, behavioral and substrate tiles are
  unreachable, because the age they accept is the whole walk-back; the comment on
  the research tile's age says the same and its constant is seven;
* `predictor/latest` and the manifest have no age check; a rollup without a readable
  `generated_utc` is graded as fresh;
* the outcome tile without EOD data emits 9 components and `pbo` of 19 declared,
  though its comment says one record per component; without its artifact the
  contribution-lift tile makes a critical lift diagnostic;
* malformed groom, HEAD or contract artifacts raise and fail the card; the
  false-discovery branch of `module_status` is dead in production;
* the coverage record is put on a rebuilt tile whose status, letter, grade and
  `n_components` are copied but whose `n_graded` and `unreported` are not
  (`grading/coverage.py:528`); a census that fails over an unreported stub leaves a
  stub that does not vote;
* the preflight finds `signals.json` by HEAD, so an unparsable body passes it.

## 4. What is proved

### 4.1 DirectorLoopProofs

`DirectorLoopProofs` holds for every finite set of items, every bound, every
set of faults and human acts allowed by `LedgerAssumption` and `LoopAssumption`:

| theorem | states |
|---|---|
| `TypeCorrect` | `Spec => []TypeOK` |
| `RowsTrackTheirOwnIssue` | `Spec => []TracksOwnIssue`, if listings are whole |
| `ActiveSetStaysBounded` | `Spec => []ActiveBounded` |
| `NothingIsForgotten` | `Spec => LedgerNeverForgets` |
| `RecordedRulingStands` | `Spec => NoReopenOfRecordedRuling`, if listings are whole |
| `NoSlugIsFiledTwice` | `Spec => []OneIssuePerSlug`, if listings are whole |
| `WithheldRunsMutateNothing` | `Spec => WithheldRunMutatesNothing` |

Listings are *whole* if no page fails and a listing reaches every issue
(`"list" \notin Faults`, `ListMax >= MaxIssues`). Without that the three theorems are
false (section 3.1).

The argument. `TracksOwnIssue` and `NoReopenOfRecordedRuling` are not inductive:
a run acts on `mem`, not on `store`, and between the examination of a row and the
write it leads to the row could in principle have changed. `LoopInv` adds what
needs no premise: rows of either ledger name issues whose text bears their mark
(`Tracks`), the act under way was decided for a row that has the issue and the
flags the act needs (`ActsOnTracked`), and no rows are left to examine outside a
pass. That the issue is the row's *own* is `OwnInv`. A title that names a slug is
the slug's own, so whatever an issue cites, the item's own issue is older
(`CitesOlder`), also while a batch is being filed (`PriorsExist`); with whole
listings the oldest issue that bears a mark is therefore the one filed for it
(`FirstListedIsOwn`), whatever cites it, and the backfill gives that
(`BackfilledOwn`). `MergedInv` adds that `mem` knows every id `store` knows while a
run is under way, which is what the write of the ledger needs, and bounds both.
`UniqueInv` relates what a run is about to file to the slugs that exist.
`GateInv` says that a run without PASS is never in the steps that mutate. Every
proof has one step per action; the lemmas about `Upserted`, `ActiveSets` and
`Merges` are about the ledger alone.

### 4.2 RulingProofs

The protocols of the loop, for the same constants. A premise on `Faults`,
`HumanActs` or `PlanEntries` restricts what the environment does, and is there
because the property fails without it:

| theorem | states |
|---|---|
| `ProposedOutlivesStale` | `Spec => []RenewedOutlivesOlder` |
| `NoRetrackWithoutNotice` | `Spec => []RetrackFollowsNotice` |
| `RuledClosesStayClosed` | `Spec => HumanRuledStaysClosed`, if comments can be read and people do not reopen |
| `LabelledClosesStayClosed` | `Spec => LabelledCloseStands`, the same of rulings the issue itself bears, if people do not reopen |
| `OneNoticePerClose` | `Spec /\ []NothingRetired => []OneNotice`, without crashes and lost answers, if listings are whole |
| `OneRetrackPerClose` | `Spec /\ []NothingRetired => []OneRetrack`, under the same premises |
| `OneAskPerItem` | `Spec /\ []NothingRetired => []OneAsk`, under the same and if no plan resolves an item |
| `NothingIsRetiredInTime` | `Spec => []NothingRetired`, if the age bound outlasts the calendar and the size bound has room for every item |

The argument. Two of them need no premise. For `RenewedOutlivesOlder`, `LastInv`
adds that no row of either ledger was last seen after today, and that while a run
is under way its date is today: so a row of this plan is never older than one of
an earlier plan, and the size cut takes the other first. For `RetrackFollowsNotice`,
`NoticeInv` ties the two stores: a row that records a notice names an issue that
has one, and an act that re-tracks was decided on such a row; the flag is set
after the request answered, so a crash or a lost answer forgets a notice and
never invents one.

`RuledInv` says that the issue a run is about to reopen is closed and shows no
ruling, and that this lasts until the request: people rule on open issues, so a
closed one without a ruling can only lose its label while nobody reopens it. The
premises are what that needs. A failed read of the comments hides a ruling made in
one, so does the Director's Ask (run `AskHidesRuling`: the property counts such a
close as one that shows no ruling, and `LabelledClosesStayClosed` says what is left
without that distinction), and a person who reopens the issue and closes it with a ruling between the
read and the request comes too late for the code to see.

The three once-each theorems are about *memory*: a flag set on the merged ledger
after a write took effect is what stops the second write. `OnceInv` says of the
ledger that counts (`Ledger`: the merged one during a run, the stored one between
runs) that an issue has at most one notice and one re-track, and that the row that
names it says which of them was given; `AskInv` the same of escalations. A crash
before `WriteLedger` drops the flag while the issue keeps the notice, a lost
answer never sets it, a row that retired and is proposed again starts without
flags (run `RetrackTwice`), a resolved row drops its escalation, and a row that
took another item's issue after a failed page answers for it too: these are the
premises, and each is a way the code really repeats itself. `NothingIsRetiredInTime`
shows that the premise `[]NothingRetired` can be met, by the constants the run
`Protocol` has.

### 4.3 WeeklyCycleProofs

`WeeklyCycleProofs` holds for any number of grading and Director runs, any set of
dates, calendar and window (`ReportCardAssumption`, `DirectorsAssumption`):

| theorem | states |
|---|---|
| `PassIsEstablished` | outside a rehearsal, `RunAttestation(...) = "PASS"` implies `Established(...)` |
| `CycleTypeCorrect` | `Spec => []TypeOK` |
| `AdviceRestsOnFrozenCard` | `Spec => []AdvisesOnFrozenCard` |
| `MutationsRestOnEvidence` | `Spec => []MutationRestsOnEvidence`, if events carry no explicit `write` |
| `AsOfRecordsStand` | `Spec => AsOfRecordStands` |
| `TrendGradesEarlierPlans` | `Spec => []TrendRowsGradeEarlierPlans` |
| `RecordsLeadToCards` | `Spec => []RecordLeadsToACard` |

The argument. A Director's card is a run, and what the theorems say of the card
are that run's locals, so they have to be known not to move once the dated object
names the run: `Froze(r, d)` collects them, `FrozenInv` says that every dated card
is frozen so, and `DirectorInv` that every Director past its read, and every one
that acted, holds a frozen card, whatever later puts do to the dated object.
`RunInv` carries the rest along a grading run: a pass outside a rehearsal was
established when it was graded (`PassIsEstablished`, a fact about the fold alone),
and without the override only such runs persist; section 3.1 has the dry card
that needs this last premise. `AsOfRecordsStand` needs the types only: a settled date
stays settled, because the window never reopens and a run that decides late finds
the card. `TrendGradesEarlierPlans` strengthens the property
with the same of a retro under way (`TrendInv`); plans are never deleted, so it
stays true. `RecordsLeadToCards` follows a link over four puts
of overlapping runs: `PutsInv` says which objects a run past a put has left in the
bucket, and that nothing deletes them, `LinksInv` that each record's key was put
before the record.

### 4.4 DirectorInvocationProofs

For any deadlines, any durations of an overrun, any put time below the write
reserve (`TimesAssumption`):

| theorem | states |
|---|---|
| `InvocationTypeCorrect` | `Spec => []TypeOK` |
| `NoKillOnEstimate` | `Spec => []KilledOnlyWhenOverrun` |
| `OnEstimateNothingStarves` | `Spec => []FundedWhenOnEstimate` |
| `ExitCodeIsHonest` | `Spec => []TroubleReachesTheExitCode` |

The argument is arithmetic along the program: `Inv` bounds from below, for each
step, what is left when it starts while nothing has overrun: the step was
admitted against its estimate plus the reserve, and the reserve covers the puts
after it. For the box with its whole wall the bounds are those of a plan call at
its ceiling. The exit code needs a second invariant, `LegsInv`: only legs
behind the current step have reported, each once, and a troubled leg's word is
one the fold counts or the one that hides (`Told`).

### 4.5 RehearsalProofs

For any keys, rehearsals and number of invocations (`RehearsalAssumption`):

| theorem | states |
|---|---|
| `RehearsalTypeCorrect` | `Spec => []TypeOK` |
| `DegradedRunsStayPrivate` | `Spec => DegradedStaysPrivate` |
| `ProductionKeepsOut` | `Spec => ProductionLeavesNamespaces` |
| `IsolationImplementsPrivateView` | `Spec => IsPrivateView` |

The argument. Contexts are numbered, so a hook of an earlier invocation, even
of the same name, is never the active one: the type invariant has that and is inductive; `Routing` draws
from it that a client re-keys exactly if it was built in the rehearsal being
served. With it each kind of write maps to the operation of `PrivateView` on
`mine` or on `live`, other runs' writes into the namespace to a change of what
`mine` holds under covered keys, and every read returns what `Seen` says. What
has to be added is that outside a rehearsal nothing is covered (`Uncovered`) and
that only a rehearsal goes on degraded (`DegradedIsRehearsal`).

### 4.6 TileRecordsProofs and TilesProofs

For every set of the ten tiles and any number of inputs that went wrong:

| theorem | states |
|---|---|
| `TilesInvariant` | `Spec => []TilesInv`: the tile on the card is what its builder makes of the world |
| `OnlySpanningRedsAreLifted` | `Spec => []RedUnlessSpanning` |
| `WeightIsKept` | `Spec => []CriticalKeepsItsWeight` |
| `StaleBodiesSayNothing` | `Spec => []StaleBodiesDoNotMatter` |
| `LosingAnInputIsNoPass` | `Spec => NoPassByLosingAnInput` |

The argument. `TilesInv` is simple; the work is in the ten builders. Each gets
lemmas over its own records, one per question: which names and weights they bear
(`...Bears`), what becomes of them when an artifact is lost (`...Fades`), and
that they are the same when only a body too old to be read differs (`...Unread`).
What a tile makes of its records is then argued once, in `TileRecordsProofs`:
a GREEN excludes a RED or unmeasured critical record (`StatusExcludes`, `GreenSays`),
a RED has a critical RED record behind it (`RedHasACritical`), and if every record
stays or goes dark without losing weight (`AllFade`), GREEN appears only where a
supporting RED went dark (`FadingHides`). `RedUnlessSpanning` is about the
Portfolio Outcome tile, the one whose intervals are annotated. A RED there has four
forms: the point estimate is red and the target outside the interval or there is
none (`RED`), or inside (`RED-IN`); or only the interval's bad bound is past the red
line, the target inside (`RED-CI`) or outside (`RED-OUT`). `annotate_power` lifts
`RED-CI` alone (`PoweredStatus`), and the property says so in both directions;
`CriticalKeepsItsWeight` excepts the contribution lift, whose components the
artifact lists, and records that declare why they weigh less;
`StaleBodiesDoNotMatter` is about every tile but research, which reads a stale
artifact (run `StaleResearchGraded`).

### 4.7 CardBuildProofs

For any declaration of tiles, components, weights, levels, gated inputs and
cadences, and any number of things that went wrong (`CardAssumption`,
`WeightAssumption`):

| theorem | states |
|---|---|
| `CardsRestOnJudgedInputs` | `Spec => []CardRestsOnJudgedInputs` |
| `GreenCardsAreEarned` | `Spec => []GreenIsEarned` |
| `CoverageFallsWithRecords` | `Spec => []CoverageNeverRisesByLosing` |
| `CoverageSpeaksOfItsCard` | `Spec => []CoverageIsOfThisCard` |
| `FailuresCount` | `Spec => []ReportedFailureCounts` |

The argument. The world no longer changes once the build has started, so what the
preflight and each worker found is a function of it: `GateInv` says that every
recorded finding is the absorbed verdict on its input, `PoolInv` that every
resolved tile is what its builder makes of the world, whatever the order of the
workers. A GREEN tile status excludes a RED or unmeasured critical record
(`StatusExcludes`), a GREEN card a RED or dark cascading tile (`OverallGreen`). For
coverage, the denominator contains the declared roster whatever was lost and a
lost record leaves the numerator (`FractionFalls`).

`CoverageIsOfThisCard` is inductive next to `CardInv`: `Grade` takes the census of
the pool's tiles and then changes one of them, so the two censuses have to be
equal. `ReplacedSpeaks` shows that the replaced tile has the same counted records
and one coverage record; where an unreported stub gave way to a record that does
not vote, both statuses are dark (`UnreadAlike`).

`ReportedFailureCounts` compares two scorecards, that of the card and one that was
never built. `ScoreInv` says that the card's composite is `ComputeScorecard` of the
week's inputs, its levels natural numbers. Then: with one artifact turned into a
failure every block `Falls`, that is, stays in the denominator with no higher a
grade or enters it with no points (`FailedBlocks`; the model's own block does the
latter when a failed veto result stops standing in for it); a weighted mean falls with its
blocks (`CompositeFalls`), first per module and then over the modules as voters.
The mean is over a denominator that grows and over products of denominators, so
this needs sums and products over finite sets to be independent of the order of
their terms, split at any term, and compared term by term (`SumsCompare`). The
library's induction theorems cannot be instantiated, but well-founded orders on
sets can: what fails for some finite set fails for a smallest one
(`SmallestSubset`), and `SubsetInduction` is drawn from that with the subsets for
which a statement holds as a set.

### 4.8 Only model-checked

Every invariant and action property that a passing run checks is a theorem; those of
`DirectorLoopProofs` and `RulingProofs` under the premises their tables give.
Left to TLC are the four liveness properties of the run `Liveness`: the prover has no
fairness and no ENABLED. The numbers of a run's instance (the weights of `MCWeight`
among them) matter to the runs only.

## 5. Plan

Done: the ledger and the loop; the cycle of cards; the invocation; isolation and
its refinement; tiles, scorecard and card build; the proofs of all their safety
and action properties. Left, in the order of what they would add:

1. `RulingContract`: what one issue is promised (notice, then re-track, never a
   reopen after a recorded ruling), implemented by `DirectorLoop` under a
   refinement mapping, and proved from `NoticeInv` and `OnceInv`.
2. Item validity as a decision table in front of the loop: what an invalid item
   is held from, and when it is released.
3. Stage coverage, deploy drift and pipeline gates; the card history that grading
   reads back; the regime index under two writers; the promotion of a threshold
   candidate.

## 6. Not modelled

* The statistics compute real numbers over data frames; TLC has neither. They
  appear as levels and statuses.
* Item validity, the pipeline gates and the self-test battery are pure functions
  over texts, Step Function histories and numbers; their results enter as inputs.
* Stage coverage and the deploy-drift gate; the substrate tile's fold of a
  finished Step Function execution (`tiles/substrate.py`, about line 420); the
  fallback of the scorecard when its coverage block raises.
* The history of cards and the regime index: a read, numerics, and a cache write.
* The threshold registry: bands, the scoring of candidates and their promotion; a
  component's status enters the tiles as a reading.
* Two Director invocations at once: nothing in the code orders them but the Step
  Function.
* Prompts, model output, e-mail, metrics, console rendering, deployment and the
  evals are formatting or shipping. AWS, GitHub and the people are modelled only
  as far as the code in `src/` reads or changes them, and are marked external in
  the map.
