------------------------- MODULE DirectorInvocation -------------------------
(***************************************************************************)
(* One invocation of the Director against its wall clock, on either of its *)
(* two homes (a Lambda, or the weekly spot box driven over SSM).           *)
(*                                                                         *)
(* The invocation makes two model calls, the plan and the retro judge, and *)
(* runs several best-effort steps around them.  Every call is quoted and   *)
(* every step is admitted against the time that is left when it starts;    *)
(* nothing stops a call that is under way except its own total bound, and  *)
(* the host kills the process at a hard deadline.  At the end the four     *)
(* named sub-results are folded into one status and one exit code, which   *)
(* is all that the Step Function sees.                                     *)
(*                                                                         *)
(* Time is in whole seconds.  A quotient is rounded down: every threshold  *)
(* it is compared with is a whole number of seconds, so no comparison      *)
(* changes.  What a step does is in the other modules; here it takes time  *)
(* and ends well, badly, or not at all.                                    *)
(***************************************************************************)
EXTENDS Integers

CONSTANTS
    Deadlines,     \* seconds from the box process's start to the SSM kill
    Overruns,      \* durations that a step may take beside its estimate
    PutSeconds     \* how long the writes between two steps may take

\* What the write reserve is held back for fits it.
ASSUME TimesAssumption ==
    /\ Deadlines \subseteq Nat
    /\ Overruns \subseteq Nat
    /\ PutSeconds \subseteq 0 .. 14

VARIABLES
    host,       \* the home's profile, with the wall this invocation was given
    pc,         \* the step under way, the last one when the invocation ended
    end,        \* how it ended: returned, raised, killed; "no" while it runs
    left,       \* seconds until the in-process wall (the budget's countdown)
    quote,      \* per-attempt cost the retry loop charges for the open call
    attempt,    \* attempt of the open model call
    planTries,  \* attempts the plan call took
    legs,       \* status strings of the named sub-results, as far as they ran
    declined,   \* history: steps refused because the budget could not fund them
    overran,    \* history: a step took longer than its registered estimate
    pastQuote,  \* history: a model attempt ran longer than it was charged for
    trouble     \* history: sub-results in which work asked for went wrong

call == <<quote, attempt, planTries>>
history == <<declined, overran, pastQuote, trouble>>
vars == <<host, pc, end, left, call, legs, history>>

At(step) == end = "no" /\ pc = step

Lesser(a, b) == IF a < b THEN a ELSE b
Greater(a, b) == IF a < b THEN b ELSE a

-----------------------------------------------------------------------------
(* The constants of director/budget.py, director/hosting.py, and the calls. *)

DEFAULT_RESERVE_S == 45
MIN_VIABLE_CALL_S == 30
RETRO_JUDGE_CEILING_S == 120
RETRO_JUDGE_RESERVE_S == 240
DEADLINE_MARGIN_S == 60
MaxRetries == 3

STEP_ESTIMATE_S ==
    [backlog_digest |-> 60, resolved_digest |-> 60, loop_verification |-> 120,
     digest_email |-> 30, issue_filing |-> 90, deploy_rollup |-> 60]

LambdaHome == [name |-> "lambda", wall |-> 900, grace |-> 0, ceiling |-> 600]
SpotHome == [name |-> "weekly-spot", wall |-> 2700, ceiling |-> 1800]

\* What the box may use of its wall when SSM kills it `deadline` seconds from
\* now, and how long after that wall the kill comes.
EffectiveWall(deadline) == Lesser(SpotHome.wall, deadline - DEADLINE_MARGIN_S)

OnBox(deadline) ==
    [name |-> SpotHome.name, wall |-> EffectiveWall(deadline),
     grace |-> deadline - EffectiveWall(deadline), ceiling |-> SpotHome.ceiling]

Homes == {LambdaHome} \cup {OnBox(d) : d \in {d \in Deadlines : d > DEADLINE_MARGIN_S}}

-----------------------------------------------------------------------------
(* The budget's arithmetic. *)

Remaining(l) == Greater(0, l - DEFAULT_RESERVE_S)

CanAfford(seconds) == Remaining(left) >= seconds

CallTimeout(ceiling, attempts, downstream) ==
    Lesser(ceiling, Greater(0, Remaining(left) - downstream) \div attempts)

\* Variant: the plan call is quoted without the judge's reservation.
PlanQuoteUnreserved == CallTimeout(host.ceiling, 1, 0)

PlanQuote == CallTimeout(host.ceiling, 1, RETRO_JUDGE_RESERVE_S)
JudgeQuote == CallTimeout(RETRO_JUDGE_CEILING_S, 2, 0)

\* min(2 ** attempt, 30), before the second and the third attempt.
Backoff == IF attempt = 1 THEN 2 ELSE 4

\* Variant: attempts are not counted.
RetryUncounted(now) == Remaining(now) >= quote + Backoff

\* May the call that just failed transiently, with `now` seconds left, be
\* attempted again?
RetryAffordable(now) ==
    /\ attempt < MaxRetries
    /\ Remaining(now) >= quote + Backoff

NextAttempt == attempt + 1

-----------------------------------------------------------------------------
(* The fold of the sub-results into a status and an exit code. *)

SUB_RESULT_KEYS == {"retro", "director_loop", "director_issues", "deploy_success"}

PASS_SUB_STATUSES ==
    {"ok", "skipped", "disabled", "nochange", "withheld", "mutations_withheld"}
ERROR_SUB_STATUSES == {"error", "partial", "skipped_unscoped"}
REFUSED_SUB_STATUSES == {"refused"}

Classify(status) ==
    CASE status \in PASS_SUB_STATUSES -> "pass"
      [] status \in REFUSED_SUB_STATUSES -> "refused"
      [] status \in ERROR_SUB_STATUSES -> "error"
      [] OTHER -> "unclassified"

Verdicts(wanted) == {k \in DOMAIN legs : Classify(legs[k]) \in wanted}

StageStatus ==
    IF Verdicts({"error", "unclassified"}) # {} THEN "degraded"
    ELSE IF Verdicts({"refused"}) # {} THEN "refused"
    ELSE "ok"

RetroRefused == "retro" \in Verdicts({"refused"})

\* Variant: a refused retro hides behind a degraded stage.
ExitCodeByStage ==
    CASE end = "raised" -> 1
      [] StageStatus = "degraded" -> 20
      [] StageStatus = "refused" -> 21
      [] OTHER -> 0

\* The exit code of a process that ended by itself.
ExitCode ==
    CASE end = "raised" -> 1
      [] end # "raised" /\ StageStatus = "degraded" /\ RetroRefused -> 22
      [] end # "raised" /\ StageStatus = "degraded" /\ ~RetroRefused -> 20
      [] end # "raised" /\ StageStatus # "degraded" /\ RetroRefused -> 21
      [] OTHER -> 0

\* The word the loop pass reports.  A pass whose corrections the verdict
\* withholds reports the withholding, whatever became of the rest of it.
LoopStatus(withheld, ownRepairFails, correctionsFail, lookupFails) ==
    CASE withheld -> "mutations_withheld"
      [] ~withheld /\ correctionsFail -> "error"
      [] ~withheld /\ ~correctionsFail /\ (ownRepairFails \/ lookupFails) -> "partial"
      [] OTHER -> "ok"

Leg(key, status) == [k \in DOMAIN legs \cup {key} |->
                        IF k = key THEN status ELSE legs[k]]

-----------------------------------------------------------------------------
(* Time passes only through these.                                          *)

\* d seconds pass and the program goes on at `next`, unless the host's
\* deadline comes first.
Survives(d) == left - d + host.grace > 0

Elapse(d, next) ==
    /\ left' = left - d
    /\ pc' = IF Survives(d) THEN next ELSE pc
    /\ end' = IF Survives(d) THEN "no" ELSE "killed"

\* d seconds pass and the error of the step that took them ends the run.
ElapseThenRaise(d) ==
    /\ left' = left - d
    /\ end' = IF Survives(d) THEN "raised" ELSE "killed"
    /\ UNCHANGED pc

Go(next) == pc' = next /\ UNCHANGED end

Raise == end' = "raised" /\ UNCHANGED pc

Return == end' = "returned" /\ UNCHANGED pc

\* Variant: a step is started whatever it is estimated to need.
AffordableAlways(step) == TRUE

Affordable(step) == CanAfford(STEP_ESTIMATE_S[step])

\* An admitted step runs to its end, however long that takes.
Spend(step, next) ==
    \E d \in {1, STEP_ESTIMATE_S[step]} \cup Overruns :
        /\ Elapse(d, next)
        /\ overran' = (overran \/ d > STEP_ESTIMATE_S[step])
        /\ UNCHANGED declined

\* A step the budget cannot fund is not started.
Decline(step, next) ==
    /\ ~Affordable(step)
    /\ declined' = declined \cup {step}
    /\ Go(next)
    /\ UNCHANGED <<left, overran>>

-----------------------------------------------------------------------------
(* Before the plan. *)

Init ==
    /\ host \in Homes
    /\ pc = "boot" /\ end = "no"
    /\ left = host.wall
    /\ quote = 0 /\ attempt = 0 /\ planTries = 0
    /\ legs = [k \in {} |-> ""]
    /\ declined = {} /\ overran = FALSE /\ pastQuote = FALSE /\ trouble = {}

\* The registry cannot be downloaded, or there is no card for the date.
BootFails ==
    /\ At("boot")
    /\ Raise
    /\ UNCHANGED <<host, left, call, legs, history>>

\* The flag is off, or the run is dry: a summary without sub-results.
NothingAsked ==
    /\ At("boot")
    /\ Return
    /\ UNCHANGED <<host, left, call, legs, history>>

\* The plan goes without the digests when there is no token, when filing is
\* switched off, and when the event brings a digest of its own.
Boot ==
    /\ At("boot")
    /\ \E next \in {"backlog_digest", "plan_quote"} : Go(next)
    /\ UNCHANGED <<host, left, call, legs, history>>

\* A failed fetch costs its time and nothing else.
FetchDigest(step, next) ==
    /\ At(step)
    /\ \/ Decline(step, next)
       \/ Affordable(step) /\ Spend(step, next)
    /\ UNCHANGED <<host, call, legs, pastQuote, trouble>>

-----------------------------------------------------------------------------
(* The model calls.  One attempt is bounded by the call's total timeout,   *)
(* the static ceiling; the quote bounds a single silent read only.         *)

\* How long an attempt may stream: hardly at all, as long as it was charged
\* for, or to its total bound, which is not retried.
Durations(bound) == {3, Lesser(quote, bound), bound}

Charge(d) == pastQuote' = (pastQuote \/ d > quote)

OpenCall(q) == quote' = q /\ attempt' = 1

CloseCall == quote' = 0 /\ attempt' = 0

\* The client cannot be built (no route through the proxy, no key), or the
\* call would be quoted below the floor, or it opens.
QuotePlan ==
    /\ At("plan_quote")
    /\ \/ Raise /\ UNCHANGED call
       \/ /\ PlanQuote >= MIN_VIABLE_CALL_S
          /\ Go("plan")
          /\ OpenCall(PlanQuote)
          /\ UNCHANGED planTries
    /\ UNCHANGED <<host, left, legs, history>>

\* The plan arrives; it is stamped and persisted before anything else.
PlanArrives ==
    /\ At("plan")
    /\ \E d \in Durations(host.ceiling) : Charge(d) /\ Elapse(d, "plan_put")
    /\ planTries' = attempt
    /\ CloseCall
    /\ UNCHANGED <<host, legs, declined, overran, trouble>>

\* A transient failure: the loop retries while it can pay for a whole
\* attempt and the pause before it.
PlanFailsTransiently ==
    /\ At("plan")
    /\ \E d \in Durations(host.ceiling - 1) :
          /\ Charge(d)
          /\ IF RetryAffordable(left - d)
             THEN /\ Elapse(d + Backoff, "plan")
                  /\ attempt' = NextAttempt
             ELSE /\ ElapseThenRaise(d)
                  /\ UNCHANGED attempt
    /\ UNCHANGED <<host, quote, planTries, legs, declined, overran, trouble>>

\* Anything else, the total timeout included, is raised at once.
PlanFails ==
    /\ At("plan")
    /\ \E d \in Durations(host.ceiling) : Charge(d) /\ ElapseThenRaise(d)
    /\ UNCHANGED <<host, call, legs, declined, overran, trouble>>

\* The dated plan, the standing plan and later the ledger are written
\* outside any try block: a failed put ends the run.
PutPlan ==
    /\ At("plan_put")
    /\ \/ \E d \in PutSeconds : Elapse(d, "loop_verification")
       \/ Raise /\ UNCHANGED left
    /\ UNCHANGED <<host, call, legs, history>>

-----------------------------------------------------------------------------
(* The sub-results.  `trouble` records what went wrong as it goes wrong,    *)
(* whatever word the leg then reports.                                     *)

Report(key, status, wrong) ==
    /\ legs' = Leg(key, status)
    /\ trouble' = IF wrong THEN trouble \cup {key} ELSE trouble

\* No token: skipped.  A half-run pass is worse than none, so the pass is
\* admitted or declined as a whole.
SkipLoop ==
    /\ At("loop_verification")
    /\ \/ Decline("loop_verification", "ledger_put")
       \/ Go("ledger_put") /\ UNCHANGED <<left, declined, overran>>
    /\ Report("director_loop", "skipped", FALSE)
    /\ UNCHANGED <<host, call, pastQuote>>

\* The backfill and the validity stamps run under every verdict; the
\* corrections run unless the verdict withholds them.
VerifyLoop ==
    /\ At("loop_verification")
    /\ Affordable("loop_verification")
    /\ Spend("loop_verification", "ledger_put")
    /\ \E withheld, ownRepairFails, correctionsFail, lookupFails \in BOOLEAN :
          Report("director_loop",
                 LoopStatus(withheld, ownRepairFails, correctionsFail, lookupFails),
                 \/ ownRepairFails
                 \/ ~withheld /\ (correctionsFail \/ lookupFails))
    /\ UNCHANGED <<host, call, pastQuote>>

PutLedger ==
    /\ At("ledger_put")
    /\ \/ \E d \in PutSeconds : Elapse(d, "digest_email")
       \/ Raise /\ UNCHANGED left
    /\ UNCHANGED <<host, call, legs, history>>

\* The digest is not a sub-result: its failure is logged.
SendDigest ==
    /\ At("digest_email")
    /\ \/ Decline("digest_email", "prior_plan")
       \/ Affordable("digest_email") /\ Spend("digest_email", "prior_plan")
    /\ UNCHANGED <<host, call, legs, pastQuote, trouble>>

\* The newest plan dated before the run is read outside the retro's try
\* block; without one there is nothing to grade.
LoadPriorPlan ==
    /\ At("prior_plan")
    /\ \/ Raise /\ UNCHANGED <<legs, trouble>>
       \/ /\ Go("issue_filing")
          /\ Report("retro", "skipped", FALSE)
       \/ Go("judge_quote") /\ UNCHANGED <<legs, trouble>>
    /\ UNCHANGED <<host, left, call, declined, overran, pastQuote>>

\* The judge's client cannot be built (its group is the generator's own, the
\* route is not the proxy, the key is missing), or its quote is below the
\* floor, or the call opens.
QuoteJudge ==
    /\ At("judge_quote")
    /\ \/ /\ Go("issue_filing")
          /\ Report("retro", "error", TRUE)
          /\ UNCHANGED <<call, declined>>
       \/ /\ JudgeQuote < MIN_VIABLE_CALL_S
          /\ Go("issue_filing")
          /\ Report("retro", "skipped", FALSE)
          /\ declined' = declined \cup {"retro"}
          /\ UNCHANGED call
       \/ /\ JudgeQuote >= MIN_VIABLE_CALL_S
          /\ Go("judge")
          /\ OpenCall(JudgeQuote)
          /\ UNCHANGED <<planTries, legs, declined, trouble>>
    /\ UNCHANGED <<host, left, overran, pastQuote>>

\* The retry loop charges the judge its static ceiling, not its quote.
JudgeRetryAffordable(now) ==
    /\ attempt < MaxRetries
    /\ Remaining(now) >= RETRO_JUDGE_CEILING_S + Backoff

\* A grade arrives.  A judge served by the model that made the plan is
\* refused before the grade is persisted; persisting it can fail.
GradeArrives ==
    /\ At("judge")
    /\ \E d \in Durations(RETRO_JUDGE_CEILING_S) : Charge(d) /\ Elapse(d, "issue_filing")
    /\ CloseCall
    /\ \/ Report("retro", "ok", FALSE)
       \/ Report("retro", "refused", FALSE)
       \/ Report("retro", "error", TRUE)
    /\ UNCHANGED <<host, planTries, declined, overran>>

JudgeFailsTransiently ==
    /\ At("judge")
    /\ \E d \in Durations(RETRO_JUDGE_CEILING_S - 1) :
          /\ Charge(d)
          /\ JudgeRetryAffordable(left - d)
          /\ Elapse(d + Backoff, "judge")
    /\ attempt' = NextAttempt
    /\ UNCHANGED <<host, quote, planTries, legs, declined, overran, trouble>>

JudgeFails ==
    /\ At("judge")
    /\ \E d \in Durations(RETRO_JUDGE_CEILING_S) : Charge(d) /\ Elapse(d, "issue_filing")
    /\ CloseCall
    /\ Report("retro", "error", TRUE)
    /\ UNCHANGED <<host, planTries, declined, overran>>

\* Withheld by the verdict, switched off, or no token.
SkipIssues ==
    /\ At("issue_filing")
    /\ \/ /\ Decline("issue_filing", "deploy_rollup")
          /\ Report("director_issues", "skipped", FALSE)
       \/ /\ Go("deploy_rollup")
          /\ \E status \in {"withheld", "disabled", "skipped"} :
                Report("director_issues", status, FALSE)
          /\ UNCHANGED <<left, declined, overran>>
    /\ UNCHANGED <<host, call, pastQuote>>

\* The filer reports ok, nothing to do, or that its token lost the scope; any
\* other error is raised out of it.
FileIssues ==
    /\ At("issue_filing")
    /\ Affordable("issue_filing")
    /\ Spend("issue_filing", "deploy_rollup")
    /\ \/ \E status \in {"ok", "nochange"} : Report("director_issues", status, FALSE)
       \/ \E status \in {"skipped_unscoped", "error"} :
             Report("director_issues", status, TRUE)
    /\ UNCHANGED <<host, call, pastQuote>>

SkipRollup ==
    /\ At("deploy_rollup")
    /\ \/ Decline("deploy_rollup", "fold")
       \/ Go("fold") /\ UNCHANGED <<left, declined, overran>>
    /\ Report("deploy_success", "skipped", FALSE)
    /\ UNCHANGED <<host, call, pastQuote>>

RollUp ==
    /\ At("deploy_rollup")
    /\ Affordable("deploy_rollup")
    /\ Spend("deploy_rollup", "fold")
    /\ \/ Report("deploy_success", "ok", FALSE)
       \/ Report("deploy_success", "error", TRUE)
    /\ UNCHANGED <<host, call, pastQuote>>

Fold ==
    /\ At("fold")
    /\ Return
    /\ UNCHANGED <<host, left, call, legs, history>>

-----------------------------------------------------------------------------

Next ==
    \/ BootFails \/ NothingAsked \/ Boot
    \/ FetchDigest("backlog_digest", "resolved_digest")
    \/ FetchDigest("resolved_digest", "plan_quote")
    \/ QuotePlan \/ PlanArrives \/ PlanFailsTransiently \/ PlanFails \/ PutPlan
    \/ SkipLoop \/ VerifyLoop \/ PutLedger
    \/ SendDigest
    \/ LoadPriorPlan \/ QuoteJudge \/ GradeArrives
    \/ JudgeFailsTransiently \/ JudgeFails
    \/ SkipIssues \/ FileIssues
    \/ SkipRollup \/ RollUp
    \/ Fold

Spec == Init /\ [][Next]_vars

-----------------------------------------------------------------------------
(* What the budget and the exit code promise. *)

Steps ==
    {"boot", "backlog_digest", "resolved_digest", "plan_quote", "plan", "plan_put",
     "loop_verification", "ledger_put", "digest_email", "prior_plan",
     "judge_quote", "judge", "issue_filing", "deploy_rollup", "fold"}

\* Types of the state: at most MaxRetries attempts per call, and only named
\* sub-results in the fold (agent._invoke_with_retry, substatus).
TypeOK ==
    /\ host \in Homes
    /\ pc \in Steps
    /\ end \in {"no", "returned", "raised", "killed"}
    /\ left \in Int
    /\ quote \in Nat /\ attempt \in 0 .. MaxRetries /\ planTries \in 0 .. MaxRetries
    /\ DOMAIN legs \subseteq SUB_RESULT_KEYS
    /\ declined \subseteq Steps \cup {"retro"}
    /\ overran \in BOOLEAN /\ pastQuote \in BOOLEAN
    /\ trouble \subseteq SUB_RESULT_KEYS

\* The quotes, the reservations, the retry loop and the write reserve add up:
\* the host kills a run only if a step outlasted its estimate or a model
\* call what the budget charged for it.
KilledOnlyWhenOverrun == end = "killed" => overran \/ pastQuote

\* While every step keeps its estimate and the plan needs one attempt, the
\* judge is never starved by what runs before it, on either home; and with
\* its whole wall the box declines nothing, not even behind a plan call that
\* used its whole ceiling.
FundedWhenOnEstimate ==
    ~overran /\ ~pastQuote /\ planTries <= 1 =>
        /\ "retro" \notin declined
        /\ host.wall = SpotHome.wall => declined = {}

\* Work that was asked for and went wrong reaches the exit code, and so does
\* a refused judge.  The exception is in the code: a pass whose corrections
\* are withheld reports that word over the failure of its own repairs.
TroubleReachesTheExitCode ==
    end = "returned" =>
        /\ trouble # {} =>
              \/ ExitCode \in {20, 22}
              \/ trouble = {"director_loop"} /\ legs["director_loop"] = "mutations_withheld"
        /\ (\E k \in DOMAIN legs : k = "retro" /\ legs[k] = "refused") <=> ExitCode \in {21, 22}

=============================================================================
