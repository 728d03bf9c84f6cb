----------------------------- MODULE ReportCard -----------------------------
(***************************************************************************)
(* The grading Lambda: runs that build a report card for a date and write  *)
(* it, with its companions, into one S3 bucket (src/grading/handler.py,    *)
(* src/grading/aggregate.py).  A run may be the weekly snapshot, a refresh *)
(* of the standing surface, a rerun, a late rebuild or a dry run; runs     *)
(* overlap, interleave between any two puts, and die anywhere.             *)
(*                                                                         *)
(* A card is named by the run that built it: an object of the bucket holds *)
(* a run or None.  Objects that no modelled step reads back are left out:  *)
(* the self-test, the leaderboard, the latest copies of the attribution    *)
(* and of the record.                                                      *)
(***************************************************************************)
EXTENDS Attestation

CONSTANTS
  Runs,          \* invocations of the grading Lambda; each happens once
  None,          \* an object that does not exist
  RunDates,      \* trading days a card is built for
  MaxDay,        \* bound: last day of the model's calendar
  RewriteWindow, \* DATED_CARD_REWRITE_WINDOW_DAYS
  EscapeHatch    \* whether events carry an explicit "write"

ASSUME ReportCardAssumption ==
  /\ None \notin Runs
  /\ RunDates \subseteq Nat
  /\ MaxDay \in Nat
  /\ RewriteWindow \in Nat
  /\ EscapeHatch \in BOOLEAN

VARIABLES
  today,   \* the UTC day
  run,     \* the program counter and locals of every run
  store    \* the objects the runs write

cardVars == <<today, run, store>>

Held == Runs \union {None}

\* Where the experiment record of a date says its report card is.
Links == [by : Runs, key : {"dated", "regrade", "latest"}]
NoLink == [by |-> None, key |-> "none"]

Store ==
  [latest : Held, dated : [RunDates -> Held], regrades : SUBSET Runs,
   attributionOf : [RunDates -> Held], record : [RunDates -> Links \union {NoLink}]]

Steps == {"idle", "build", "decide", "latest", "attribution", "card",
          "record", "done", "failed"}

\* verdict is the card's attestation; sound is not a field of the card but
\* what Established says of the objects it was built from.
Run ==
  [at : Steps, date : RunDates \union {None}, snapshot : BOOLEAN, dry : BOOLEAN,
   write : BOOLEAN, verdict : Verdicts, sound : BOOLEAN, regrade : BOOLEAN]

IdleRun ==
  [at |-> "idle", date |-> None, snapshot |-> FALSE, dry |-> FALSE,
   write |-> FALSE, verdict |-> "UNKNOWN", sound |-> FALSE, regrade |-> FALSE]

EmptyStore ==
  LET nothing == [d \in RunDates |-> None]
  IN  [latest |-> None, dated |-> nothing, regrades |-> {},
       attributionOf |-> nothing, record |-> [d \in RunDates |-> NoLink]]

CardInit ==
  /\ today = 0
  /\ run = [r \in Runs |-> IdleRun]
  /\ store = EmptyStore

-----------------------------------------------------------------------------
(* One run, step by step. *)

Goto(r, step) == run' = [run EXCEPT ![r].at = step]

\* The event.  Without an explicit "write" a run persists unless it is dry.
Invoke(r) ==
  /\ run[r].at = "idle"
  /\ \E d \in RunDates, snapshot \in BOOLEAN, dry \in BOOLEAN :
     \E write \in IF EscapeHatch THEN BOOLEAN ELSE {~dry} :
       /\ d <= today
       /\ run' = [run EXCEPT ![r] =
            [IdleRun EXCEPT !.at = "build", !.date = d, !.snapshot = snapshot,
                            !.dry = dry, !.write = write]]
  /\ UNCHANGED <<today, store>>

\* What reading the verdict artifacts of a date can come to: the verdict of
\* the card, and whether it was established.  Other processes write those
\* objects at any time, so a read returns anything they can hold.
Gradings ==
  {[date |-> day, scope |-> scope, dry |-> dry,
    verdict |-> RunAttestation(battery, objects, day, scope, dry),
    sound |-> Established(battery, objects, day, scope)] :
     day \in RunDates, scope \in Scopes, dry \in BOOLEAN,
     battery \in {"PASS", "FAIL", "UNKNOWN"}, objects \in [Halves -> Objects(RunDates)]}

\* The inputs are graded and the card is built.  The scope of the run comes
\* with its event or from the object of its date.
Build(r) ==
  /\ run[r].at = "build"
  /\ \E payload, artifact \in Scopes, grading \in Gradings :
       /\ grading.date = run[r].date
       /\ grading.dry = run[r].dry
       /\ grading.scope = RunScope(payload, artifact)
       /\ run' = [run EXCEPT ![r].verdict = grading.verdict, ![r].sound = grading.sound,
                             ![r].at = IF run[r].write THEN "decide" ELSE "done"]
  /\ UNCHANGED <<today, store>>

\* The clock is read once, on entry to write_report_card.
StaleRewrite(day, now) == now - day > RewriteWindow

\* A late snapshot of a date that already has its card becomes a regrade.
DecideRegrade(r) ==
  LET me == run[r] IN
  /\ me.at = "decide"
  /\ run' = [run EXCEPT
       ![r].regrade = me.snapshot /\ StaleRewrite(me.date, today)
                                  /\ store.dated[me.date] # None,
       ![r].at = "latest"]
  /\ UNCHANGED <<today, store>>

PutLatest(r) ==
  /\ run[r].at = "latest"
  /\ store' = [store EXCEPT !.latest = r]
  /\ Goto(r, "attribution")
  /\ UNCHANGED today

\* Whether this run writes the as-of objects of its date.
Freezes(r) == run[r].snapshot /\ ~run[r].regrade

\* Variant: a regrade refreshes the attribution of its date.
AttributionFollowsRegrade(r) ==
  /\ run[r].at = "attribution"
  /\ \/ UNCHANGED store
     \/ run[r].snapshot /\ store' = [store EXCEPT !.attributionOf[run[r].date] = r]
  /\ Goto(r, "card")
  /\ UNCHANGED today

\* Best effort; its put under the latest key comes first.
PutAttribution(r) ==
  /\ run[r].at = "attribution"
  /\ \/ UNCHANGED store
     \/ Freezes(r) /\ store' = [store EXCEPT !.attributionOf[run[r].date] = r]
  /\ Goto(r, "card")
  /\ UNCHANGED today

PutCard(r) ==
  /\ run[r].at = "card"
  /\ store' = IF run[r].regrade THEN [store EXCEPT !.regrades = @ \union {r}]
              ELSE IF run[r].snapshot THEN [store EXCEPT !.dated[run[r].date] = r]
              ELSE store
  /\ Goto(r, "record")
  /\ UNCHANGED today

\* Variant: a refresh is recorded under the key of a snapshot.
RefreshLinksDated(r) ==
  [by |-> r, key |-> IF run[r].regrade THEN "regrade" ELSE "dated"]

\* report_card_key = dated_key or regrade_key or latest_key.
CardLink(r) ==
  [by |-> r, key |-> IF run[r].regrade THEN "regrade"
                     ELSE IF run[r].snapshot THEN "dated" ELSE "latest"]

\* The experiment record: dated first, then a latest copy; best effort.
PutRecord(r) ==
  LET link == CardLink(r) IN
  /\ run[r].at = "record"
  /\ \/ UNCHANGED store
     \/ store' = [store EXCEPT !.record[run[r].date] = link]
  /\ Goto(r, "done")
  /\ UNCHANGED today

\* Inputs that the freshness gate refuses, before the build or before a
\* snapshot; a call that raises; a timeout; a container that is gone.
Die(r) ==
  /\ run[r].at \notin {"idle", "done", "failed"}
  /\ Goto(r, "failed")
  /\ UNCHANGED <<today, store>>

GradingStep(r) ==
  \/ Invoke(r) \/ Build(r) \/ DecideRegrade(r)
  \/ PutLatest(r) \/ PutAttribution(r) \/ PutCard(r)
  \/ PutRecord(r) \/ Die(r)

NextDay ==
  /\ today < MaxDay
  /\ today' = today + 1
  /\ UNCHANGED <<run, store>>

-----------------------------------------------------------------------------
(* Properties of the bucket. *)

CardTypeOK ==
  /\ today \in 0..MaxDay
  /\ run \in [Runs -> Run]
  /\ store \in Store

\* A run that may still write the as-of objects of date d.
Licensed(r, d) ==
  /\ run[r].at \in {"latest", "attribution", "card"}
  /\ run[r].date = d
  /\ Freezes(r)

\* The date has its card, its rewrite window is over, and no run that
\* decided earlier still holds a licence.
Settled(d) ==
  /\ store.dated[d] # None
  /\ StaleRewrite(d, today)
  /\ \A r \in Runs : ~Licensed(r, d)

\* Dated cards are as-of records: once settled, neither the card of a date
\* nor its attribution is ever rewritten, whatever reruns, refreshes and
\* rebuilds come, overlap or die (write_report_card).
AsOfRecordStands ==
  [][\A d \in RunDates : Settled(d) =>
       /\ Settled(d)'
       /\ store'.dated[d] = store.dated[d]
       /\ store'.attributionOf[d] = store.attributionOf[d]]_cardVars

\* The card an experiment record leads to.
LinkedCard(d) ==
  LET link == store.record[d] IN
  IF link.key = "dated" THEN store.dated[d]
  ELSE IF link.key = "regrade" THEN link.by
  ELSE store.latest

\* Whatever steps of whatever runs were lost, an experiment record leads to
\* an object that exists, and by a dated or a regrade key to a snapshot of
\* its own date (write_experiment_record after write_report_card).
RecordLeadsToACard ==
  \A d \in RunDates : store.record[d] # NoLink =>
    /\ LinkedCard(d) # None
    /\ store.record[d].key = "regrade" => LinkedCard(d) \in store.regrades
    /\ store.record[d].key # "latest" =>
         run[LinkedCard(d)].snapshot /\ run[LinkedCard(d)].date = d

=============================================================================
