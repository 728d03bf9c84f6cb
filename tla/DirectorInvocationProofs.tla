---------------------- MODULE DirectorInvocationProofs ----------------------
(***************************************************************************)
(* Theorems about one invocation of the Director, for every deadline of    *)
(* the box, every overrun of a step and all writes that fit the reserve.   *)
(***************************************************************************)
EXTENDS DirectorInvocation, TLAPS

OnEstimate == ~overran /\ ~pastQuote

Admitted(seconds) == left >= DEFAULT_RESERVE_S + seconds

\* What has to be left, wherever the run is, for the next thing it does to
\* end in time.
TimeInv ==
    /\ end = "killed" => ~OnEstimate
    /\ end = "no" /\ pc \in {"plan", "judge"} => attempt >= 1
    /\ end = "no" /\ pc \in {"boot", "backlog_digest", "resolved_digest", "plan_quote", "plan"}
          => planTries = 0
    /\ end = "no" /\ OnEstimate =>
         /\ left > 0
         /\ pc = "plan" => Admitted(quote) /\ quote >= MIN_VIABLE_CALL_S
         /\ pc = "plan_put" => left >= 45
         /\ pc = "loop_verification" => left >= 31
         /\ pc = "ledger_put" => left >= 31
         /\ pc = "judge" => Admitted(quote) /\ quote \in MIN_VIABLE_CALL_S .. 120

\* A run whose plan needed no second attempt so far.
OneTry == planTries <= 1 /\ (pc = "plan" => attempt = 1)

\* The judge's reservation, spent step by step.
ReservedInv ==
    end = "no" /\ OnEstimate /\ OneTry =>
         /\ pc = "plan" => left >= 285 + quote
         /\ pc = "plan_put" => left >= 285
         /\ pc = "loop_verification" => left >= 271
         /\ pc = "ledger_put" => left >= 151
         /\ pc = "digest_email" => left >= 137
         /\ pc \in {"prior_plan", "judge_quote"} => left >= 107

\* The box's whole wall, spent step by step.
WallInv ==
    end = "no" /\ OnEstimate /\ OneTry /\ host.wall = 2700 =>
         /\ host.ceiling = 1800
         /\ pc \in {"boot", "backlog_digest"} => left >= 2700
         /\ pc = "resolved_digest" => left >= 2640
         /\ pc = "plan_quote" => left >= 2580
         /\ pc = "plan" => left >= 2580 /\ quote = 1800
         /\ pc = "plan_put" => left >= 780
         /\ pc = "loop_verification" => left >= 766
         /\ pc = "ledger_put" => left >= 646
         /\ pc = "digest_email" => left >= 632
         /\ pc \in {"prior_plan", "judge_quote"} => left >= 602
         /\ pc = "judge" => left >= 726 - 124 * attempt /\ quote = 120
         /\ pc = "issue_filing" => left >= 234
         /\ pc = "deploy_rollup" => left >= 144

\* Nothing was declined that had to be funded.
DeclinedInv ==
    OnEstimate /\ planTries <= 1 =>
        /\ "retro" \notin declined
        /\ host.wall = 2700 => declined = {}

Inv == TypeOK /\ TimeInv /\ ReservedInv /\ WallInv /\ DeclinedInv

-----------------------------------------------------------------------------

\* What the two homes have in common.
LEMMA HomeFacts ==
    ASSUME NEW h \in Homes
    PROVE  /\ h.wall \in Int /\ h.wall > 0
           /\ h.grace \in Int /\ h.grace >= 0
           /\ h.ceiling \in Int /\ h.ceiling \in {600, 1800}
           /\ h.wall = 2700 => h.ceiling = 1800
BY TimesAssumption
   DEF Homes, LambdaHome, OnBox, SpotHome, EffectiveWall, Lesser, DEADLINE_MARGIN_S

LEMMA InitInv == Init => Inv
<1> SUFFICES ASSUME Init PROVE Inv
    OBVIOUS
<1>1. host \in Homes /\ left \in Int /\ pc \in Steps
  BY HomeFacts DEF Init, Steps
<1>2. DOMAIN legs = {}
  BY DEF Init
<1>3. TypeOK
  <2>1. /\ end = "no" /\ quote = 0 /\ attempt = 0 /\ planTries = 0
        /\ declined = {} /\ overran = FALSE /\ pastQuote = FALSE /\ trouble = {}
    BY Zenon DEF Init
  <2>2. /\ quote \in Nat /\ attempt \in 0 .. MaxRetries /\ planTries \in 0 .. MaxRetries
        /\ declined \subseteq Steps \cup {"retro"} /\ trouble \subseteq SUB_RESULT_KEYS
        /\ DOMAIN legs \subseteq SUB_RESULT_KEYS
    BY <2>1, <1>2 DEF MaxRetries
  <2>3. overran \in BOOLEAN /\ pastQuote \in BOOLEAN
    BY <2>1, Zenon
  <2> QED BY <1>1, <2>1, <2>2, <2>3, Zenon DEF TypeOK
<1>4. TimeInv /\ ReservedInv /\ WallInv /\ DeclinedInv
  BY HomeFacts DEF Init, TimeInv, ReservedInv, WallInv, DeclinedInv, OnEstimate, OneTry
<1> QED BY <1>3, <1>4 DEF Inv

\* The budget's arithmetic: what a positive answer says of the time left.
LEMMA Funded ==
    ASSUME NEW l \in Int, NEW s \in Int, s > 0
    PROVE  Remaining(l) >= s <=> l >= DEFAULT_RESERVE_S + s
BY DEF Remaining, Greater, DEFAULT_RESERVE_S

LEMMA PlanQuoted ==
    ASSUME TypeOK, PlanQuote >= MIN_VIABLE_CALL_S
    PROVE  /\ PlanQuote \in Nat
           /\ PlanQuote <= host.ceiling
           /\ left >= 285 + PlanQuote
           /\ left >= 2085 /\ host.ceiling = 1800 => PlanQuote = 1800
BY HomeFacts
   DEF TypeOK, PlanQuote, CallTimeout, Remaining, Greater, Lesser, DEFAULT_RESERVE_S,
       RETRO_JUDGE_RESERVE_S, MIN_VIABLE_CALL_S

LEMMA JudgeQuoted ==
    ASSUME TypeOK
    PROVE  /\ JudgeQuote \in Int
           /\ left >= 105 => JudgeQuote >= MIN_VIABLE_CALL_S
           /\ left >= 285 => JudgeQuote = 120
           /\ JudgeQuote >= MIN_VIABLE_CALL_S => left >= 45 + JudgeQuote
           /\ JudgeQuote <= 120
BY DEF TypeOK, JudgeQuote, CallTimeout, Remaining, Greater, Lesser, DEFAULT_RESERVE_S,
       RETRO_JUDGE_CEILING_S, MIN_VIABLE_CALL_S

\* What a step that takes time may leave behind.
LEMMA Elapsed ==
    ASSUME TypeOK, NEW d \in Int, NEW next \in Steps, Elapse(d, next)
    PROVE  /\ left' = left - d /\ left' \in Int
           /\ pc' \in Steps /\ end' \in {"no", "killed"}
           /\ end' = "no" => pc' = next
           /\ left > d => end' = "no"
BY HomeFacts DEF Elapse, Survives, TypeOK

LEMMA Spent ==
    ASSUME TypeOK, NEW step \in DOMAIN STEP_ESTIMATE_S, NEW next \in Steps,
           Affordable(step), Spend(step, next)
    PROVE  /\ left' \in Int /\ pc' \in Steps /\ end' \in {"no", "killed"}
           /\ declined' = declined
           /\ overran' \in BOOLEAN /\ (~overran' => ~overran)
           /\ end' = "no" => pc' = next
           /\ ~overran' => /\ end' = "no"
                           /\ left' >= left - STEP_ESTIMATE_S[step]
                           /\ left' >= DEFAULT_RESERVE_S
<1> PICK d \in {1, STEP_ESTIMATE_S[step]} \cup Overruns :
        /\ Elapse(d, next)
        /\ overran' = (overran \/ d > STEP_ESTIMATE_S[step])
        /\ UNCHANGED declined
    BY DEF Spend
<1>1. STEP_ESTIMATE_S[step] \in Nat /\ STEP_ESTIMATE_S[step] > 1
  BY DEF STEP_ESTIMATE_S
<1>2. d \in Int
  BY <1>1, TimesAssumption
<1>3. left >= DEFAULT_RESERVE_S + STEP_ESTIMATE_S[step]
  BY <1>1, Funded DEF Affordable, CanAfford, TypeOK
<1>4. overran' \in BOOLEAN /\ (~overran' => ~overran) /\ (~overran' => ~(d > STEP_ESTIMATE_S[step]))
  BY Zenon DEF TypeOK
<1>5. ~overran' => d <= STEP_ESTIMATE_S[step]
  BY <1>1, <1>2, <1>4
<1>6. left' = left - d /\ left' \in Int /\ pc' \in Steps /\ end' \in {"no", "killed"}
      /\ (end' = "no" => pc' = next) /\ (left > d => end' = "no")
  BY <1>2, Elapsed
<1> QED BY <1>1, <1>2, <1>3, <1>4, <1>5, <1>6 DEF DEFAULT_RESERVE_S, TypeOK

LEMMA Reported ==
    ASSUME TypeOK, NEW key \in SUB_RESULT_KEYS, NEW status, NEW wrong \in BOOLEAN,
           Report(key, status, wrong)
    PROVE  DOMAIN legs' \subseteq SUB_RESULT_KEYS /\ trouble' \subseteq SUB_RESULT_KEYS
<1>1. DOMAIN legs' = DOMAIN legs \cup {key}
  BY DEF Report, Leg
<1>2. trouble' \subseteq trouble \cup {key}
  BY DEF Report
<1> QED BY <1>1, <1>2 DEF TypeOK

\* The parts of the invariant that are about time.
Timely == TimeInv /\ ReservedInv /\ WallInv /\ DeclinedInv

\* A step that is admitted or declined by the budget.
LEMMA Declined ==
    ASSUME TypeOK, NEW step \in DOMAIN STEP_ESTIMATE_S, NEW next \in Steps,
           Decline(step, next)
    PROVE  /\ left' = left /\ overran' = overran /\ pc' = next /\ end' = end
           /\ declined' = declined \cup {step} /\ declined' \subseteq Steps \cup {"retro"}
           /\ step # "retro"
           /\ left < DEFAULT_RESERVE_S + STEP_ESTIMATE_S[step]
<1>1. STEP_ESTIMATE_S[step] \in Nat /\ STEP_ESTIMATE_S[step] > 1 /\ step \in Steps /\ step # "retro"
  BY DEF STEP_ESTIMATE_S, Steps
<1>2. left < DEFAULT_RESERVE_S + STEP_ESTIMATE_S[step]
  BY <1>1, Funded DEF Decline, Affordable, CanAfford, TypeOK, DEFAULT_RESERVE_S
<1> QED BY <1>1, <1>2 DEF Decline, Go, TypeOK

LEMMA StepInv == Inv /\ [Next]_vars => Inv'
<1> SUFFICES ASSUME Inv, [Next]_vars PROVE TypeOK' /\ Timely'
    BY DEF Inv, Timely
<1> USE DEF Inv
<1>1. CASE BootFails \/ NothingAsked
  BY <1>1 DEF BootFails, NothingAsked, Raise, Return, At, call, history, TypeOK, Timely,
     TimeInv, ReservedInv, WallInv, DeclinedInv, OnEstimate, OneTry
<1>2. CASE Boot
  <2>1. PICK next \in {"backlog_digest", "plan_quote"} : Go(next)
    BY <1>2 DEF Boot
  <2>2. pc = "boot" /\ end = "no" /\ UNCHANGED <<host, left, call, legs, history>>
    BY <1>2 DEF Boot, At
  <2>3. TypeOK'
    BY <2>1, <2>2 DEF Go, call, history, TypeOK, Steps
  <2> QED BY <2>1, <2>2, <2>3 DEF Go, call, history, TypeOK, Timely,
     TimeInv, ReservedInv, WallInv, DeclinedInv, OnEstimate, OneTry
<1>3. CASE FetchDigest("backlog_digest", "resolved_digest")
  <2>1. /\ pc = "backlog_digest" /\ end = "no" /\ UNCHANGED <<host, call, legs, pastQuote, trouble>>
        /\ "backlog_digest" \in DOMAIN STEP_ESTIMATE_S /\ "resolved_digest" \in Steps
        /\ STEP_ESTIMATE_S["backlog_digest"] = 60
    BY <1>3 DEF FetchDigest, At, STEP_ESTIMATE_S, Steps
  <2>2. CASE Decline("backlog_digest", "resolved_digest")
    <3>1. TypeOK'
      BY <2>1, <2>2, Declined DEF TypeOK, call
    <3> QED BY <2>1, <2>2, <3>1, Declined DEF call, DEFAULT_RESERVE_S, TypeOK, Timely,
     TimeInv, ReservedInv, WallInv, DeclinedInv, OnEstimate, OneTry
  <2>3. CASE Affordable("backlog_digest") /\ Spend("backlog_digest", "resolved_digest")
    <3>1. TypeOK'
      BY <2>1, <2>3, Spent DEF TypeOK, call
    <3> QED BY <2>1, <2>3, <3>1, Spent DEF call, DEFAULT_RESERVE_S, TypeOK, Timely,
     TimeInv, ReservedInv, WallInv, DeclinedInv, OnEstimate, OneTry
  <2> QED BY <1>3, <2>2, <2>3 DEF FetchDigest
<1>4. CASE FetchDigest("resolved_digest", "plan_quote")
  <2>1. /\ pc = "resolved_digest" /\ end = "no" /\ UNCHANGED <<host, call, legs, pastQuote, trouble>>
        /\ "resolved_digest" \in DOMAIN STEP_ESTIMATE_S /\ "plan_quote" \in Steps
        /\ STEP_ESTIMATE_S["resolved_digest"] = 60
    BY <1>4 DEF FetchDigest, At, STEP_ESTIMATE_S, Steps
  <2>2. CASE Decline("resolved_digest", "plan_quote")
    <3>1. TypeOK'
      BY <2>1, <2>2, Declined DEF TypeOK, call
    <3> QED BY <2>1, <2>2, <3>1, Declined DEF call, DEFAULT_RESERVE_S, TypeOK, Timely,
     TimeInv, ReservedInv, WallInv, DeclinedInv, OnEstimate, OneTry
  <2>3. CASE Affordable("resolved_digest") /\ Spend("resolved_digest", "plan_quote")
    <3>1. TypeOK'
      BY <2>1, <2>3, Spent DEF TypeOK, call
    <3> QED BY <2>1, <2>3, <3>1, Spent DEF call, DEFAULT_RESERVE_S, TypeOK, Timely,
     TimeInv, ReservedInv, WallInv, DeclinedInv, OnEstimate, OneTry
  <2> QED BY <1>4, <2>2, <2>3 DEF FetchDigest
<1>5. CASE QuotePlan
  <2>1. pc = "plan_quote" /\ end = "no" /\ UNCHANGED <<host, left, legs, history>>
    BY <1>5 DEF QuotePlan, At
  <2>2. CASE Raise /\ UNCHANGED call
    BY <2>1, <2>2 DEF Raise, call, history, TypeOK, Timely,
     TimeInv, ReservedInv, WallInv, DeclinedInv, OnEstimate, OneTry
  <2>3. CASE /\ PlanQuote >= MIN_VIABLE_CALL_S /\ Go("plan")
             /\ OpenCall(PlanQuote) /\ UNCHANGED planTries
    <3>1. TypeOK'
      BY <2>1, <2>3, PlanQuoted DEF Go, OpenCall, history, TypeOK, Steps, MaxRetries
    <3> QED BY <2>1, <2>3, <3>1, PlanQuoted, HomeFacts
            DEF Go, OpenCall, history, Admitted, DEFAULT_RESERVE_S, TypeOK, Timely,
     TimeInv, ReservedInv, WallInv, DeclinedInv, OnEstimate, OneTry
  <2> QED BY <1>5, <2>2, <2>3 DEF QuotePlan
<1>6. CASE PlanArrives
  <2>0. At("plan") /\ UNCHANGED <<host, legs, declined, overran, trouble>>
    BY <1>6 DEF PlanArrives
  <2>1. PICK d \in Durations(host.ceiling) : Charge(d) /\ Elapse(d, "plan_put")
    BY <1>6 DEF PlanArrives
  <2>2. d \in Int /\ d >= 0
    BY <2>1, HomeFacts DEF Durations, Lesser, TypeOK, RETRO_JUDGE_CEILING_S
  <2>3. pastQuote' \in BOOLEAN /\ (~pastQuote' => ~pastQuote /\ ~(d > quote))
    BY <2>1, Zenon DEF Charge, TypeOK
  <2>4. ~pastQuote' => d <= quote
    BY <2>2, <2>3 DEF TypeOK
  <2>5. planTries' = attempt /\ quote' = 0 /\ attempt' = 0
    BY <1>6 DEF PlanArrives, CloseCall
  <2>6. "plan_put" \in Steps
    BY DEF Steps
  <2>7. TypeOK'
    BY <2>0, <2>2, <2>3, <2>5, <2>6, <2>1, Elapsed DEF TypeOK, MaxRetries
  <2>8. left' = left - d /\ (end' = "no" => pc' = "plan_put") /\ end' \in {"no", "killed"}
        /\ (left > d => end' = "no")
    BY <2>1, <2>2, <2>6, Elapsed
  <2>9. ~pastQuote' /\ OnEstimate => end' = "no"
    BY <2>0, <2>2, <2>4, <2>8 DEF At, Admitted, DEFAULT_RESERVE_S, TypeOK, TimeInv
  <2>10. TimeInv'
    BY <2>0, <2>2, <2>3, <2>4, <2>5, <2>8, <2>9
       DEF At, Admitted, DEFAULT_RESERVE_S, TypeOK, Timely, TimeInv, OnEstimate
  <2>11. ReservedInv'
    BY <2>0, <2>2, <2>3, <2>4, <2>5, <2>8
       DEF At, TypeOK, Timely, TimeInv, ReservedInv, OnEstimate, OneTry
  <2>12. WallInv'
    BY <2>0, <2>2, <2>3, <2>4, <2>5, <2>8
       DEF At, TypeOK, Timely, TimeInv, WallInv, OnEstimate, OneTry
  <2>13. DeclinedInv'
    BY <2>0, <2>3, <2>5 DEF At, TypeOK, TimeInv, DeclinedInv, OnEstimate
  <2> QED BY <2>7, <2>10, <2>11, <2>12, <2>13 DEF Timely
<1>7. CASE PlanFailsTransiently
  <2>0. At("plan") /\ UNCHANGED <<host, quote, planTries, legs, declined, overran, trouble>>
    BY <1>7 DEF PlanFailsTransiently
  <2>1. PICK d \in Durations(host.ceiling - 1) :
            /\ Charge(d)
            /\ IF RetryAffordable(left - d)
               THEN Elapse(d + Backoff, "plan") /\ attempt' = NextAttempt
               ELSE ElapseThenRaise(d) /\ UNCHANGED attempt
    BY <1>7 DEF PlanFailsTransiently
  <2>2. d \in Int /\ d >= 0 /\ Backoff \in {2, 4} /\ "plan" \in Steps
    BY <2>1, HomeFacts DEF Durations, Lesser, TypeOK, Backoff, Steps
  <2>3. pastQuote' \in BOOLEAN /\ (~pastQuote' => ~pastQuote /\ ~(d > quote))
    BY <2>1, Zenon DEF Charge, TypeOK
  <2>4. ~pastQuote' => d <= quote
    BY <2>2, <2>3 DEF TypeOK
  <2>5. CASE RetryAffordable(left - d)
    <3>1. Elapse(d + Backoff, "plan") /\ attempt' = attempt + 1 /\ attempt < 3
      BY <2>1, <2>5 DEF RetryAffordable, NextAttempt, MaxRetries
    <3>2. left - d >= DEFAULT_RESERVE_S + quote + Backoff
      BY <2>2, <2>5, Funded DEF RetryAffordable, TypeOK, DEFAULT_RESERVE_S
    <3>3. /\ left' = left - (d + Backoff) /\ left' \in Int
          /\ pc' = "plan" /\ end' = "no"
      BY <2>2, <2>0, <3>1, <3>2, Elapsed DEF TypeOK, At, DEFAULT_RESERVE_S
    <3>4. TypeOK'
      BY <2>0, <2>3, <2>2, <3>1, <3>3 DEF TypeOK, MaxRetries
    <3> QED BY <2>0, <2>2, <2>3, <2>4, <3>1, <3>2, <3>3, <3>4
            DEF At, Admitted, DEFAULT_RESERVE_S, TypeOK, Timely,
     TimeInv, ReservedInv, WallInv, DeclinedInv, OnEstimate, OneTry
  <2>6. CASE ~RetryAffordable(left - d)
    <3>1. ElapseThenRaise(d) /\ UNCHANGED attempt
      BY <2>1, <2>6
    <3>2. /\ left' = left - d /\ left' \in Int /\ pc' = pc /\ end' \in {"raised", "killed"}
          /\ left > d => end' = "raised"
      BY <2>2, <3>1, HomeFacts DEF ElapseThenRaise, Survives, TypeOK
    <3>3. TypeOK'
      BY <2>0, <2>3, <3>1, <3>2 DEF TypeOK
    <3> QED BY <2>0, <2>2, <2>3, <2>4, <3>1, <3>2, <3>3
            DEF At, Admitted, DEFAULT_RESERVE_S, TypeOK, Timely,
     TimeInv, ReservedInv, WallInv, DeclinedInv, OnEstimate, OneTry
  <2> QED BY <2>5, <2>6
<1>8. CASE PlanFails
  <2>0. At("plan") /\ UNCHANGED <<host, call, legs, declined, overran, trouble>>
    BY <1>8 DEF PlanFails
  <2>1. PICK d \in Durations(host.ceiling) : Charge(d) /\ ElapseThenRaise(d)
    BY <1>8 DEF PlanFails
  <2>2. d \in Int /\ d >= 0
    BY <2>1, HomeFacts DEF Durations, Lesser, TypeOK, RETRO_JUDGE_CEILING_S
  <2>3. pastQuote' \in BOOLEAN /\ (~pastQuote' => ~pastQuote /\ ~(d > quote))
    BY <2>1, Zenon DEF Charge, TypeOK
  <2>4. ~pastQuote' => d <= quote
    BY <2>2, <2>3 DEF TypeOK
  <2>5. /\ left' = left - d /\ left' \in Int /\ pc' = pc /\ end' \in {"raised", "killed"}
        /\ left > d => end' = "raised"
    BY <2>1, <2>2, HomeFacts DEF ElapseThenRaise, Survives, TypeOK
  <2>6. TypeOK'
    BY <2>0, <2>3, <2>5 DEF TypeOK, call
  <2> QED BY <2>0, <2>2, <2>3, <2>4, <2>5, <2>6
          DEF At, call, Admitted, DEFAULT_RESERVE_S, TypeOK, Timely,
     TimeInv, ReservedInv, WallInv, DeclinedInv, OnEstimate, OneTry
<1>9. CASE PutPlan
  <2>1. At("plan_put") /\ UNCHANGED <<host, call, legs, history>> /\ "loop_verification" \in Steps
    BY <1>9 DEF PutPlan, Steps
  <2>2. CASE Raise /\ UNCHANGED left
    BY <2>1, <2>2 DEF At, Raise, call, history, TypeOK, Timely,
     TimeInv, ReservedInv, WallInv, DeclinedInv, OnEstimate, OneTry
  <2>3. ASSUME NEW d \in PutSeconds, Elapse(d, "loop_verification") PROVE TypeOK' /\ Timely'
    <3>1. d \in 0 .. 14
      BY TimesAssumption
    <3>2. /\ left' = left - d /\ left' \in Int /\ pc' \in Steps /\ end' \in {"no", "killed"}
          /\ end' = "no" => pc' = "loop_verification"
          /\ left > d => end' = "no"
      BY <2>1, <2>3, <3>1, Elapsed
    <3>3. TypeOK'
      BY <2>1, <3>2 DEF TypeOK, call, history
    <3> QED BY <2>1, <3>1, <3>2, <3>3 DEF At, call, history, TypeOK, Timely,
     TimeInv, ReservedInv, WallInv, DeclinedInv, OnEstimate, OneTry
  <2> QED BY <1>9, <2>2, <2>3 DEF PutPlan
<1>10. CASE SkipLoop
  <2>1. /\ pc = "loop_verification" /\ end = "no" /\ UNCHANGED <<host, call, pastQuote>>
        /\ "loop_verification" \in DOMAIN STEP_ESTIMATE_S /\ "ledger_put" \in Steps
        /\ STEP_ESTIMATE_S["loop_verification"] = 120
        /\ DOMAIN legs' \subseteq SUB_RESULT_KEYS /\ trouble' \subseteq SUB_RESULT_KEYS
    BY <1>10, Reported DEF SkipLoop, At, STEP_ESTIMATE_S, Steps, SUB_RESULT_KEYS
  <2>2. CASE Decline("loop_verification", "ledger_put")
    <3>1. TypeOK'
      BY <2>1, <2>2, Declined DEF TypeOK, call
    <3> QED BY <2>1, <2>2, <3>1, Declined DEF call, DEFAULT_RESERVE_S, TypeOK, Timely,
     TimeInv, ReservedInv, WallInv, DeclinedInv, OnEstimate, OneTry
  <2>3. CASE Go("ledger_put") /\ UNCHANGED <<left, declined, overran>>
    <3>1. TypeOK'
      BY <2>1, <2>3 DEF TypeOK, call, Go
    <3> QED BY <2>1, <2>3, <3>1 DEF call, Go, TypeOK, Timely,
     TimeInv, ReservedInv, WallInv, DeclinedInv, OnEstimate, OneTry
  <2> QED BY <1>10, <2>2, <2>3 DEF SkipLoop
<1>11. CASE VerifyLoop
  <2>1. /\ pc = "loop_verification" /\ end = "no" /\ UNCHANGED <<host, call, pastQuote>>
        /\ "loop_verification" \in DOMAIN STEP_ESTIMATE_S /\ "ledger_put" \in Steps
        /\ STEP_ESTIMATE_S["loop_verification"] = 120
        /\ DOMAIN legs' \subseteq SUB_RESULT_KEYS /\ trouble' \subseteq SUB_RESULT_KEYS
        /\ Affordable("loop_verification") /\ Spend("loop_verification", "ledger_put")
    BY <1>11, Reported DEF VerifyLoop, At, STEP_ESTIMATE_S, Steps, SUB_RESULT_KEYS
  <2>2. TypeOK'
    BY <2>1, Spent DEF TypeOK, call
  <2> QED BY <2>1, <2>2, Spent DEF call, DEFAULT_RESERVE_S, TypeOK, Timely,
     TimeInv, ReservedInv, WallInv, DeclinedInv, OnEstimate, OneTry
<1>12. CASE PutLedger
  <2>1. At("ledger_put") /\ UNCHANGED <<host, call, legs, history>> /\ "digest_email" \in Steps
    BY <1>12 DEF PutLedger, Steps
  <2>2. CASE Raise /\ UNCHANGED left
    BY <2>1, <2>2 DEF At, Raise, call, history, TypeOK, Timely,
     TimeInv, ReservedInv, WallInv, DeclinedInv, OnEstimate, OneTry
  <2>3. ASSUME NEW d \in PutSeconds, Elapse(d, "digest_email") PROVE TypeOK' /\ Timely'
    <3>1. d \in 0 .. 14
      BY TimesAssumption
    <3>2. /\ left' = left - d /\ left' \in Int /\ pc' \in Steps /\ end' \in {"no", "killed"}
          /\ end' = "no" => pc' = "digest_email"
          /\ left > d => end' = "no"
      BY <2>1, <2>3, <3>1, Elapsed
    <3>3. TypeOK'
      BY <2>1, <3>2 DEF TypeOK, call, history
    <3> QED BY <2>1, <3>1, <3>2, <3>3 DEF At, call, history, TypeOK, Timely,
     TimeInv, ReservedInv, WallInv, DeclinedInv, OnEstimate, OneTry
  <2> QED BY <1>12, <2>2, <2>3 DEF PutLedger
<1>13. CASE SendDigest
  <2>1. /\ pc = "digest_email" /\ end = "no" /\ UNCHANGED <<host, call, legs, pastQuote, trouble>>
        /\ "digest_email" \in DOMAIN STEP_ESTIMATE_S /\ "prior_plan" \in Steps
        /\ STEP_ESTIMATE_S["digest_email"] = 30
    BY <1>13 DEF SendDigest, At, STEP_ESTIMATE_S, Steps
  <2>2. CASE Decline("digest_email", "prior_plan")
    <3>1. TypeOK'
      BY <2>1, <2>2, Declined DEF TypeOK, call
    <3> QED BY <2>1, <2>2, <3>1, Declined DEF call, DEFAULT_RESERVE_S, TypeOK, Timely,
     TimeInv, ReservedInv, WallInv, DeclinedInv, OnEstimate, OneTry
  <2>3. CASE Affordable("digest_email") /\ Spend("digest_email", "prior_plan")
    <3>1. TypeOK'
      BY <2>1, <2>3, Spent DEF TypeOK, call
    <3> QED BY <2>1, <2>3, <3>1, Spent DEF call, DEFAULT_RESERVE_S, TypeOK, Timely,
     TimeInv, ReservedInv, WallInv, DeclinedInv, OnEstimate, OneTry
  <2> QED BY <1>13, <2>2, <2>3 DEF SendDigest
<1>14. CASE LoadPriorPlan
  <2>1. /\ At("prior_plan") /\ UNCHANGED <<host, left, call, declined, overran, pastQuote>>
        /\ DOMAIN legs' \subseteq SUB_RESULT_KEYS /\ trouble' \subseteq SUB_RESULT_KEYS
        /\ Raise \/ Go("issue_filing") \/ Go("judge_quote")
    BY <1>14, Reported DEF LoadPriorPlan, SUB_RESULT_KEYS, TypeOK
  <2>2. TypeOK'
    BY <2>1 DEF TypeOK, call, Raise, Go, Steps
  <2> QED BY <2>1, <2>2 DEF At, Raise, Go, call, TypeOK, Timely,
     TimeInv, ReservedInv, WallInv, DeclinedInv, OnEstimate, OneTry
<1>15. CASE QuoteJudge
  <2>1. /\ At("judge_quote") /\ UNCHANGED <<host, left, overran, pastQuote, planTries>>
        /\ DOMAIN legs' \subseteq SUB_RESULT_KEYS /\ trouble' \subseteq SUB_RESULT_KEYS
    BY <1>15, Reported DEF QuoteJudge, SUB_RESULT_KEYS, TypeOK, call
  <2>2. CASE Go("issue_filing") /\ UNCHANGED <<call, declined>>
    <3>1. TypeOK'
      BY <2>1, <2>2 DEF TypeOK, call, Go, Steps
    <3> QED BY <2>1, <2>2, <3>1 DEF At, Go, call, TypeOK, Timely,
     TimeInv, ReservedInv, WallInv, DeclinedInv, OnEstimate, OneTry
  <2>3. CASE /\ JudgeQuote < MIN_VIABLE_CALL_S /\ Go("issue_filing")
             /\ declined' = declined \cup {"retro"} /\ UNCHANGED call
    <3>1. TypeOK'
      BY <2>1, <2>3 DEF TypeOK, call, Go, Steps
    <3>2. left < 107
      BY <2>3, JudgeQuoted DEF TypeOK, MIN_VIABLE_CALL_S
    <3> QED BY <2>1, <2>3, <3>1, <3>2 DEF At, Go, call, TypeOK, Timely,
     TimeInv, ReservedInv, WallInv, DeclinedInv, OnEstimate, OneTry
  <2>4. CASE /\ JudgeQuote >= MIN_VIABLE_CALL_S /\ Go("judge")
             /\ OpenCall(JudgeQuote) /\ UNCHANGED <<planTries, declined>>
    <3>1. TypeOK'
      BY <2>1, <2>4, JudgeQuoted DEF TypeOK, Go, OpenCall, Steps, MIN_VIABLE_CALL_S, MaxRetries
    <3> QED BY <2>1, <2>4, <3>1, JudgeQuoted
            DEF At, Go, OpenCall, Admitted, DEFAULT_RESERVE_S, MIN_VIABLE_CALL_S, TypeOK, Timely,
     TimeInv, ReservedInv, WallInv, DeclinedInv, OnEstimate, OneTry
  <2> QED BY <1>15, <2>2, <2>3, <2>4 DEF QuoteJudge
<1>16. CASE GradeArrives
  <2>0. At("judge") /\ UNCHANGED <<host, planTries, declined, overran>>
    BY <1>16 DEF GradeArrives
  <2>1. PICK d \in Durations(RETRO_JUDGE_CEILING_S) : Charge(d) /\ Elapse(d, "issue_filing")
    BY <1>16 DEF GradeArrives
  <2>2. d \in Int /\ d >= 0
    BY <2>1, HomeFacts DEF Durations, Lesser, TypeOK, RETRO_JUDGE_CEILING_S
  <2>3. pastQuote' \in BOOLEAN /\ (~pastQuote' => ~pastQuote /\ ~(d > quote))
    BY <2>1, Zenon DEF Charge, TypeOK
  <2>4. ~pastQuote' => d <= quote
    BY <2>2, <2>3 DEF TypeOK
  <2>5. /\ quote' = 0 /\ attempt' = 0 /\ "issue_filing" \in Steps
        /\ DOMAIN legs' \subseteq SUB_RESULT_KEYS /\ trouble' \subseteq SUB_RESULT_KEYS
    BY <1>16, Reported DEF GradeArrives, CloseCall, SUB_RESULT_KEYS, Steps
  <2>6. TypeOK'
    BY <2>0, <2>1, <2>2, <2>3, <2>5, Elapsed DEF TypeOK, MaxRetries
  <2> QED BY <2>0, <2>1, <2>2, <2>3, <2>4, <2>5, <2>6, Elapsed
          DEF At, Admitted, DEFAULT_RESERVE_S, MaxRetries, TypeOK, Timely,
     TimeInv, ReservedInv, WallInv, DeclinedInv, OnEstimate, OneTry
<1>17. CASE JudgeFailsTransiently
  <2>0. /\ At("judge") /\ UNCHANGED <<host, quote, planTries, legs, declined, overran, trouble>>
        /\ attempt' = attempt + 1
    BY <1>17 DEF JudgeFailsTransiently, NextAttempt
  <2>1. PICK d \in Durations(RETRO_JUDGE_CEILING_S - 1) :
            /\ Charge(d) /\ JudgeRetryAffordable(left - d) /\ Elapse(d + Backoff, "judge")
    BY <1>17 DEF JudgeFailsTransiently
  <2>2. d \in 0 .. 119 /\ Backoff \in {2, 4} /\ "judge" \in Steps /\ (attempt = 1 => Backoff = 2)
    BY <2>1 DEF Durations, Lesser, TypeOK, Backoff, Steps, RETRO_JUDGE_CEILING_S
  <2>3. pastQuote' \in BOOLEAN /\ (~pastQuote' => ~pastQuote /\ ~(d > quote))
    BY <2>1, Zenon DEF Charge, TypeOK
  <2>4. ~pastQuote' => d <= quote
    BY <2>2, <2>3 DEF TypeOK
  <2>5. left - d >= 165 + Backoff /\ attempt < 3
    BY <2>1, <2>2, Funded
       DEF JudgeRetryAffordable, TypeOK, DEFAULT_RESERVE_S, RETRO_JUDGE_CEILING_S, MaxRetries
  <2>6. left' = left - (d + Backoff) /\ left' \in Int /\ pc' = "judge" /\ end' = "no"
    BY <2>0, <2>1, <2>2, <2>5, Elapsed DEF TypeOK, At
  <2>7. TypeOK'
    <3>1. attempt' \in 0 .. MaxRetries
      BY <2>0, <2>5 DEF TypeOK, MaxRetries
    <3> QED BY <2>0, <2>3, <2>6, <3>1 DEF TypeOK, At
  <2>8. TimeInv'
    BY <2>0, <2>2, <2>3, <2>4, <2>5, <2>6
       DEF At, Admitted, DEFAULT_RESERVE_S, MIN_VIABLE_CALL_S, TypeOK, TimeInv, OnEstimate
  <2>9. ReservedInv'
    BY <2>6 DEF ReservedInv
  <2>10. WallInv'
    BY <2>0, <2>2, <2>3, <2>4, <2>5, <2>6
       DEF At, TypeOK, TimeInv, WallInv, OnEstimate, OneTry
  <2>11. DeclinedInv'
    BY <2>0, <2>3 DEF At, TypeOK, DeclinedInv, OnEstimate
  <2> QED BY <2>7, <2>8, <2>9, <2>10, <2>11 DEF Timely
<1>18. CASE JudgeFails
  <2>0. At("judge") /\ UNCHANGED <<host, planTries, declined, overran>>
    BY <1>18 DEF JudgeFails
  <2>1. PICK d \in Durations(RETRO_JUDGE_CEILING_S) : Charge(d) /\ Elapse(d, "issue_filing")
    BY <1>18 DEF JudgeFails
  <2>2. d \in Int /\ d >= 0
    BY <2>1, HomeFacts DEF Durations, Lesser, TypeOK, RETRO_JUDGE_CEILING_S
  <2>3. pastQuote' \in BOOLEAN /\ (~pastQuote' => ~pastQuote /\ ~(d > quote))
    BY <2>1, Zenon DEF Charge, TypeOK
  <2>4. ~pastQuote' => d <= quote
    BY <2>2, <2>3 DEF TypeOK
  <2>5. /\ quote' = 0 /\ attempt' = 0 /\ "issue_filing" \in Steps
        /\ DOMAIN legs' \subseteq SUB_RESULT_KEYS /\ trouble' \subseteq SUB_RESULT_KEYS
    BY <1>18, Reported DEF JudgeFails, CloseCall, SUB_RESULT_KEYS, Steps
  <2>6. TypeOK'
    BY <2>0, <2>1, <2>2, <2>3, <2>5, Elapsed DEF TypeOK, MaxRetries
  <2> QED BY <2>0, <2>1, <2>2, <2>3, <2>4, <2>5, <2>6, Elapsed
          DEF At, Admitted, DEFAULT_RESERVE_S, MaxRetries, TypeOK, Timely,
     TimeInv, ReservedInv, WallInv, DeclinedInv, OnEstimate, OneTry
<1>19. CASE SkipIssues
  <2>1. /\ pc = "issue_filing" /\ end = "no" /\ UNCHANGED <<host, call, pastQuote>>
        /\ "issue_filing" \in DOMAIN STEP_ESTIMATE_S /\ "deploy_rollup" \in Steps
        /\ STEP_ESTIMATE_S["issue_filing"] = 90
        /\ DOMAIN legs' \subseteq SUB_RESULT_KEYS /\ trouble' \subseteq SUB_RESULT_KEYS
    BY <1>19, Reported DEF SkipIssues, At, STEP_ESTIMATE_S, Steps, SUB_RESULT_KEYS
  <2>2. CASE Decline("issue_filing", "deploy_rollup")
    <3>1. TypeOK'
      BY <2>1, <2>2, Declined DEF TypeOK, call
    <3> QED BY <2>1, <2>2, <3>1, Declined DEF call, DEFAULT_RESERVE_S, TypeOK, Timely,
     TimeInv, ReservedInv, WallInv, DeclinedInv, OnEstimate, OneTry
  <2>3. CASE Go("deploy_rollup") /\ UNCHANGED <<left, declined, overran>>
    <3>1. TypeOK'
      BY <2>1, <2>3 DEF TypeOK, call, Go
    <3> QED BY <2>1, <2>3, <3>1 DEF call, Go, TypeOK, Timely,
     TimeInv, ReservedInv, WallInv, DeclinedInv, OnEstimate, OneTry
  <2> QED BY <1>19, <2>2, <2>3 DEF SkipIssues
<1>20. CASE FileIssues
  <2>1. /\ pc = "issue_filing" /\ end = "no" /\ UNCHANGED <<host, call, pastQuote>>
        /\ "issue_filing" \in DOMAIN STEP_ESTIMATE_S /\ "deploy_rollup" \in Steps
        /\ STEP_ESTIMATE_S["issue_filing"] = 90
        /\ DOMAIN legs' \subseteq SUB_RESULT_KEYS /\ trouble' \subseteq SUB_RESULT_KEYS
        /\ Affordable("issue_filing") /\ Spend("issue_filing", "deploy_rollup")
    BY <1>20, Reported DEF FileIssues, At, STEP_ESTIMATE_S, Steps, SUB_RESULT_KEYS
  <2>2. TypeOK'
    BY <2>1, Spent DEF TypeOK, call
  <2> QED BY <2>1, <2>2, Spent DEF call, DEFAULT_RESERVE_S, TypeOK, Timely,
     TimeInv, ReservedInv, WallInv, DeclinedInv, OnEstimate, OneTry
<1>21. CASE SkipRollup
  <2>1. /\ pc = "deploy_rollup" /\ end = "no" /\ UNCHANGED <<host, call, pastQuote>>
        /\ "deploy_rollup" \in DOMAIN STEP_ESTIMATE_S /\ "fold" \in Steps
        /\ STEP_ESTIMATE_S["deploy_rollup"] = 60
        /\ DOMAIN legs' \subseteq SUB_RESULT_KEYS /\ trouble' \subseteq SUB_RESULT_KEYS
    BY <1>21, Reported DEF SkipRollup, At, STEP_ESTIMATE_S, Steps, SUB_RESULT_KEYS
  <2>2. CASE Decline("deploy_rollup", "fold")
    <3>1. TypeOK'
      BY <2>1, <2>2, Declined DEF TypeOK, call
    <3> QED BY <2>1, <2>2, <3>1, Declined DEF call, DEFAULT_RESERVE_S, TypeOK, Timely,
     TimeInv, ReservedInv, WallInv, DeclinedInv, OnEstimate, OneTry
  <2>3. CASE Go("fold") /\ UNCHANGED <<left, declined, overran>>
    <3>1. TypeOK'
      BY <2>1, <2>3 DEF TypeOK, call, Go
    <3> QED BY <2>1, <2>3, <3>1 DEF call, Go, TypeOK, Timely,
     TimeInv, ReservedInv, WallInv, DeclinedInv, OnEstimate, OneTry
  <2> QED BY <1>21, <2>2, <2>3 DEF SkipRollup
<1>22. CASE RollUp
  <2>1. /\ pc = "deploy_rollup" /\ end = "no" /\ UNCHANGED <<host, call, pastQuote>>
        /\ "deploy_rollup" \in DOMAIN STEP_ESTIMATE_S /\ "fold" \in Steps
        /\ STEP_ESTIMATE_S["deploy_rollup"] = 60
        /\ DOMAIN legs' \subseteq SUB_RESULT_KEYS /\ trouble' \subseteq SUB_RESULT_KEYS
        /\ Affordable("deploy_rollup") /\ Spend("deploy_rollup", "fold")
    BY <1>22, Reported DEF RollUp, At, STEP_ESTIMATE_S, Steps, SUB_RESULT_KEYS
  <2>2. TypeOK'
    BY <2>1, Spent DEF TypeOK, call
  <2> QED BY <2>1, <2>2, Spent DEF call, DEFAULT_RESERVE_S, TypeOK, Timely,
     TimeInv, ReservedInv, WallInv, DeclinedInv, OnEstimate, OneTry
<1>23. CASE Fold
  BY <1>23 DEF Fold, Return, At, call, history, TypeOK, Timely,
     TimeInv, ReservedInv, WallInv, DeclinedInv, OnEstimate, OneTry
<1>24. CASE UNCHANGED vars
  <2>1. TypeOK'
    BY <1>24 DEF vars, call, history, TypeOK
  <2>0. /\ host' = host /\ pc' = pc /\ end' = end /\ left' = left /\ quote' = quote
        /\ attempt' = attempt /\ planTries' = planTries /\ declined' = declined
        /\ overran' = overran /\ pastQuote' = pastQuote
    BY <1>24 DEF vars, call, history
  <2>2. (OnEstimate' <=> OnEstimate) /\ (OneTry' <=> OneTry)
    BY <2>0, Zenon DEF OnEstimate, OneTry
  <2>3. TimeInv' /\ ReservedInv' /\ WallInv' /\ DeclinedInv'
    BY <2>0, <2>2 DEF TimeInv, ReservedInv, WallInv, DeclinedInv, Admitted
  <2> QED BY <2>1, <2>3 DEF Timely
<1> QED
  BY <1>1, <1>2, <1>3, <1>4, <1>5, <1>6, <1>7, <1>8, <1>9, <1>10, <1>11, <1>12, <1>13,
     <1>14, <1>15, <1>16, <1>17, <1>18, <1>19, <1>20, <1>21, <1>22, <1>23, <1>24 DEF Next

-----------------------------------------------------------------------------

\* Every invocation keeps its types and what its next step needs.
THEOREM InvocationInvariant == Spec => []Inv
<1>1. Init => Inv
  BY InitInv
<1>2. Inv /\ [Next]_vars => Inv'
  BY StepInv
<1> QED BY <1>1, <1>2, PTL DEF Spec

\* Type correctness (director/handler.py, budget.py, hosting.py).
THEOREM InvocationTypeCorrect == Spec => []TypeOK
<1>1. Inv => TypeOK
  BY DEF Inv
<1> QED BY <1>1, InvocationInvariant, PTL

\* The quotes, the judge's reservation, the retry loops and the write reserve
\* add up: whatever the deadline of the box, the host kills a run only if a
\* step outlasted its estimate or a model call its quote.
THEOREM NoKillOnEstimate == Spec => []KilledOnlyWhenOverrun
<1>1. Inv => KilledOnlyWhenOverrun
  BY Zenon DEF Inv, TimeInv, KilledOnlyWhenOverrun, OnEstimate
<1> QED BY <1>1, InvocationInvariant, PTL

\* On estimate, the judge is funded on both homes, and the box with its whole
\* wall declines nothing.
THEOREM OnEstimateNothingStarves == Spec => []FundedWhenOnEstimate
<1>1. Inv => FundedWhenOnEstimate
  BY DEF Inv, DeclinedInv, FundedWhenOnEstimate, OnEstimate, SpotHome
<1> QED BY <1>1, InvocationInvariant, PTL

-----------------------------------------------------------------------------
(* The sub-results. *)

\* The sub-results that can have been reported when the run is at `step`.
ReportedBefore(step) ==
    CASE step \in {"ledger_put", "digest_email", "prior_plan", "judge_quote", "judge"}
                -> {"director_loop"}
      [] step = "issue_filing" -> {"director_loop", "retro"}
      [] step = "deploy_rollup" -> {"director_loop", "retro", "director_issues"}
      [] step = "fold" -> SUB_RESULT_KEYS
      [] OTHER -> {}

\* Every failure is told by the word of its own sub-result, or hidden by the
\* one word that hides.
Told ==
    /\ trouble \subseteq DOMAIN legs
    /\ \A k \in trouble : \/ legs[k] \in ERROR_SUB_STATUSES
                          \/ k = "director_loop" /\ legs[k] = "mutations_withheld"
    /\ \A k \in DOMAIN legs : legs[k] = "refused" => k = "retro"

LegsInv == Told /\ (end = "no" => DOMAIN legs \subseteq ReportedBefore(pc))

\* What a first report of a sub-result leaves.
LEMMA ToldStep ==
    ASSUME Told, NEW key \in SUB_RESULT_KEYS, key \notin DOMAIN legs,
           NEW status, NEW wrong \in BOOLEAN, Report(key, status, wrong),
           wrong => \/ status \in ERROR_SUB_STATUSES
                    \/ key = "director_loop" /\ status = "mutations_withheld",
           status = "refused" => key = "retro"
    PROVE  Told' /\ DOMAIN legs' = DOMAIN legs \cup {key}
<1>1. legs' = [k \in DOMAIN legs \cup {key} |-> IF k = key THEN status ELSE legs[k]]
  BY DEF Report, Leg
<1>2. trouble' = IF wrong THEN trouble \cup {key} ELSE trouble
  BY DEF Report
<1> QED BY <1>1, <1>2 DEF Told

LEMMA LegsStep == Inv /\ LegsInv /\ [Next]_vars => LegsInv'
<1> SUFFICES ASSUME Inv, LegsInv, [Next]_vars PROVE LegsInv'
    OBVIOUS
<1>1. CASE BootFails \/ NothingAsked
  <2>1. legs' = legs /\ trouble' = trouble
    BY <1>1 DEF BootFails, NothingAsked, call, history
  <2>2. end' = "no" => end = "no" /\ ReportedBefore(pc) \subseteq ReportedBefore(pc')
    BY <1>1 DEF BootFails, NothingAsked, call, history, At, Raise, Return, Go, Elapse, ElapseThenRaise,
       Decline, Spend, ReportedBefore, vars, SUB_RESULT_KEYS
  <2> QED BY <2>1, <2>2 DEF LegsInv, Told
<1>2. CASE Boot
  <2>1. legs' = legs /\ trouble' = trouble
    BY <1>2 DEF Boot, call, history
  <2>2. end' = "no" => end = "no" /\ ReportedBefore(pc) \subseteq ReportedBefore(pc')
    BY <1>2 DEF Boot, call, history, At, Raise, Return, Go, Elapse, ElapseThenRaise,
       Decline, Spend, ReportedBefore, vars, SUB_RESULT_KEYS
  <2> QED BY <2>1, <2>2 DEF LegsInv, Told
<1>3. CASE FetchDigest("backlog_digest", "resolved_digest")
  <2>1. legs' = legs /\ trouble' = trouble
    BY <1>3 DEF FetchDigest, call, history
  <2>2. end' = "no" => end = "no" /\ ReportedBefore(pc) \subseteq ReportedBefore(pc')
    BY <1>3 DEF FetchDigest, call, history, At, Raise, Return, Go, Elapse, ElapseThenRaise,
       Decline, Spend, ReportedBefore, vars, SUB_RESULT_KEYS
  <2> QED BY <2>1, <2>2 DEF LegsInv, Told
<1>4. CASE FetchDigest("resolved_digest", "plan_quote")
  <2>1. legs' = legs /\ trouble' = trouble
    BY <1>4 DEF FetchDigest, call, history
  <2>2. end' = "no" => end = "no" /\ ReportedBefore(pc) \subseteq ReportedBefore(pc')
    BY <1>4 DEF FetchDigest, call, history, At, Raise, Return, Go, Elapse, ElapseThenRaise,
       Decline, Spend, ReportedBefore, vars, SUB_RESULT_KEYS
  <2> QED BY <2>1, <2>2 DEF LegsInv, Told
<1>5. CASE QuotePlan
  <2>1. legs' = legs /\ trouble' = trouble
    BY <1>5 DEF QuotePlan, call, history
  <2>2. end' = "no" => end = "no" /\ ReportedBefore(pc) \subseteq ReportedBefore(pc')
    BY <1>5 DEF QuotePlan, call, history, At, Raise, Return, Go, Elapse, ElapseThenRaise,
       Decline, Spend, ReportedBefore, vars, SUB_RESULT_KEYS
  <2> QED BY <2>1, <2>2 DEF LegsInv, Told
<1>6. CASE PlanArrives
  <2>1. legs' = legs /\ trouble' = trouble
    BY <1>6 DEF PlanArrives, call, history
  <2>2. end' = "no" => end = "no" /\ ReportedBefore(pc) \subseteq ReportedBefore(pc')
    BY <1>6 DEF PlanArrives, call, history, At, Raise, Return, Go, Elapse, ElapseThenRaise,
       Decline, Spend, ReportedBefore, vars, SUB_RESULT_KEYS
  <2> QED BY <2>1, <2>2 DEF LegsInv, Told
<1>7. CASE PlanFailsTransiently
  <2>1. legs' = legs /\ trouble' = trouble
    BY <1>7 DEF PlanFailsTransiently, call, history
  <2>2. end' = "no" => end = "no" /\ ReportedBefore(pc) \subseteq ReportedBefore(pc')
    BY <1>7 DEF PlanFailsTransiently, call, history, At, Raise, Return, Go, Elapse, ElapseThenRaise,
       Decline, Spend, ReportedBefore, vars, SUB_RESULT_KEYS
  <2> QED BY <2>1, <2>2 DEF LegsInv, Told
<1>8. CASE PlanFails
  <2>1. legs' = legs /\ trouble' = trouble
    BY <1>8 DEF PlanFails, call, history
  <2>2. end' = "no" => end = "no" /\ ReportedBefore(pc) \subseteq ReportedBefore(pc')
    BY <1>8 DEF PlanFails, call, history, At, Raise, Return, Go, Elapse, ElapseThenRaise,
       Decline, Spend, ReportedBefore, vars, SUB_RESULT_KEYS
  <2> QED BY <2>1, <2>2 DEF LegsInv, Told
<1>9. CASE PutPlan
  <2>1. legs' = legs /\ trouble' = trouble
    BY <1>9 DEF PutPlan, call, history
  <2>2. end' = "no" => end = "no" /\ ReportedBefore(pc) \subseteq ReportedBefore(pc')
    BY <1>9 DEF PutPlan, call, history, At, Raise, Return, Go, Elapse, ElapseThenRaise,
       Decline, Spend, ReportedBefore, vars, SUB_RESULT_KEYS
  <2> QED BY <2>1, <2>2 DEF LegsInv, Told
<1>10. CASE PutLedger
  <2>1. legs' = legs /\ trouble' = trouble
    BY <1>10 DEF PutLedger, call, history
  <2>2. end' = "no" => end = "no" /\ ReportedBefore(pc) \subseteq ReportedBefore(pc')
    BY <1>10 DEF PutLedger, call, history, At, Raise, Return, Go, Elapse, ElapseThenRaise,
       Decline, Spend, ReportedBefore, vars, SUB_RESULT_KEYS
  <2> QED BY <2>1, <2>2 DEF LegsInv, Told
<1>11. CASE SendDigest
  <2>1. legs' = legs /\ trouble' = trouble
    BY <1>11 DEF SendDigest, call, history
  <2>2. end' = "no" => end = "no" /\ ReportedBefore(pc) \subseteq ReportedBefore(pc')
    BY <1>11 DEF SendDigest, call, history, At, Raise, Return, Go, Elapse, ElapseThenRaise,
       Decline, Spend, ReportedBefore, vars, SUB_RESULT_KEYS
  <2> QED BY <2>1, <2>2 DEF LegsInv, Told
<1>12. CASE JudgeFailsTransiently
  <2>1. legs' = legs /\ trouble' = trouble
    BY <1>12 DEF JudgeFailsTransiently, call, history
  <2>2. end' = "no" => end = "no" /\ ReportedBefore(pc) \subseteq ReportedBefore(pc')
    BY <1>12 DEF JudgeFailsTransiently, call, history, At, Raise, Return, Go, Elapse, ElapseThenRaise,
       Decline, Spend, ReportedBefore, vars, SUB_RESULT_KEYS
  <2> QED BY <2>1, <2>2 DEF LegsInv, Told
<1>13. CASE Fold
  <2>1. legs' = legs /\ trouble' = trouble
    BY <1>13 DEF Fold, call, history
  <2>2. end' = "no" => end = "no" /\ ReportedBefore(pc) \subseteq ReportedBefore(pc')
    BY <1>13 DEF Fold, call, history, At, Raise, Return, Go, Elapse, ElapseThenRaise,
       Decline, Spend, ReportedBefore, vars, SUB_RESULT_KEYS
  <2> QED BY <2>1, <2>2 DEF LegsInv, Told
<1>14. CASE UNCHANGED vars
  <2>1. legs' = legs /\ trouble' = trouble
    BY <1>14 DEF vars, call, history
  <2>2. end' = "no" => end = "no" /\ ReportedBefore(pc) \subseteq ReportedBefore(pc')
    BY <1>14 DEF vars, call, history, At, Raise, Return, Go, Elapse, ElapseThenRaise,
       Decline, Spend, ReportedBefore, vars, SUB_RESULT_KEYS
  <2> QED BY <2>1, <2>2 DEF LegsInv, Told
<1>15. CASE SkipLoop
  <2>1. At("loop_verification") /\ "director_loop" \notin DOMAIN legs /\ "director_loop" \in SUB_RESULT_KEYS
    BY <1>15 DEF SkipLoop, At, LegsInv, ReportedBefore, SUB_RESULT_KEYS
  <2>2. Told' /\ DOMAIN legs' = DOMAIN legs \cup {"director_loop"}
    BY <1>15, <2>1, ToldStep DEF SkipLoop, LegsInv, LoopStatus, ERROR_SUB_STATUSES
  <2>3. end' = "no" => pc' = "ledger_put"
    BY <1>15, <2>1 DEF SkipLoop, Decline, Spend, Elapse, Go, At
  <2> QED BY <2>1, <2>2, <2>3 DEF LegsInv, ReportedBefore, At, SUB_RESULT_KEYS
<1>16. CASE VerifyLoop
  <2>1. At("loop_verification") /\ "director_loop" \notin DOMAIN legs /\ "director_loop" \in SUB_RESULT_KEYS
    BY <1>16 DEF VerifyLoop, At, LegsInv, ReportedBefore, SUB_RESULT_KEYS
  <2>2. Told' /\ DOMAIN legs' = DOMAIN legs \cup {"director_loop"}
    BY <1>16, <2>1, ToldStep DEF VerifyLoop, LegsInv, LoopStatus, ERROR_SUB_STATUSES
  <2>3. end' = "no" => pc' = "ledger_put"
    BY <1>16, <2>1 DEF VerifyLoop, Decline, Spend, Elapse, Go, At
  <2> QED BY <2>1, <2>2, <2>3 DEF LegsInv, ReportedBefore, At, SUB_RESULT_KEYS
<1>17. CASE GradeArrives
  <2>1. At("judge") /\ "retro" \notin DOMAIN legs /\ "retro" \in SUB_RESULT_KEYS
    BY <1>17 DEF GradeArrives, At, LegsInv, ReportedBefore, SUB_RESULT_KEYS
  <2>2. Told' /\ DOMAIN legs' = DOMAIN legs \cup {"retro"}
    BY <1>17, <2>1, ToldStep DEF GradeArrives, LegsInv, LoopStatus, ERROR_SUB_STATUSES
  <2>3. end' = "no" => pc' = "issue_filing"
    BY <1>17, <2>1 DEF GradeArrives, Decline, Spend, Elapse, Go, At
  <2> QED BY <2>1, <2>2, <2>3 DEF LegsInv, ReportedBefore, At, SUB_RESULT_KEYS
<1>18. CASE JudgeFails
  <2>1. At("judge") /\ "retro" \notin DOMAIN legs /\ "retro" \in SUB_RESULT_KEYS
    BY <1>18 DEF JudgeFails, At, LegsInv, ReportedBefore, SUB_RESULT_KEYS
  <2>2. Told' /\ DOMAIN legs' = DOMAIN legs \cup {"retro"}
    BY <1>18, <2>1, ToldStep DEF JudgeFails, LegsInv, LoopStatus, ERROR_SUB_STATUSES
  <2>3. end' = "no" => pc' = "issue_filing"
    BY <1>18, <2>1 DEF JudgeFails, Decline, Spend, Elapse, Go, At
  <2> QED BY <2>1, <2>2, <2>3 DEF LegsInv, ReportedBefore, At, SUB_RESULT_KEYS
<1>19. CASE SkipIssues
  <2>1. At("issue_filing") /\ "director_issues" \notin DOMAIN legs /\ "director_issues" \in SUB_RESULT_KEYS
    BY <1>19 DEF SkipIssues, At, LegsInv, ReportedBefore, SUB_RESULT_KEYS
  <2>2. Told' /\ DOMAIN legs' = DOMAIN legs \cup {"director_issues"}
    BY <1>19, <2>1, ToldStep DEF SkipIssues, LegsInv, LoopStatus, ERROR_SUB_STATUSES
  <2>3. end' = "no" => pc' = "deploy_rollup"
    BY <1>19, <2>1 DEF SkipIssues, Decline, Spend, Elapse, Go, At
  <2> QED BY <2>1, <2>2, <2>3 DEF LegsInv, ReportedBefore, At, SUB_RESULT_KEYS
<1>20. CASE FileIssues
  <2>1. At("issue_filing") /\ "director_issues" \notin DOMAIN legs /\ "director_issues" \in SUB_RESULT_KEYS
    BY <1>20 DEF FileIssues, At, LegsInv, ReportedBefore, SUB_RESULT_KEYS
  <2>2. Told' /\ DOMAIN legs' = DOMAIN legs \cup {"director_issues"}
    BY <1>20, <2>1, ToldStep DEF FileIssues, LegsInv, LoopStatus, ERROR_SUB_STATUSES
  <2>3. end' = "no" => pc' = "deploy_rollup"
    BY <1>20, <2>1 DEF FileIssues, Decline, Spend, Elapse, Go, At
  <2> QED BY <2>1, <2>2, <2>3 DEF LegsInv, ReportedBefore, At, SUB_RESULT_KEYS
<1>21. CASE SkipRollup
  <2>1. At("deploy_rollup") /\ "deploy_success" \notin DOMAIN legs /\ "deploy_success" \in SUB_RESULT_KEYS
    BY <1>21 DEF SkipRollup, At, LegsInv, ReportedBefore, SUB_RESULT_KEYS
  <2>2. Told' /\ DOMAIN legs' = DOMAIN legs \cup {"deploy_success"}
    BY <1>21, <2>1, ToldStep DEF SkipRollup, LegsInv, LoopStatus, ERROR_SUB_STATUSES
  <2>3. end' = "no" => pc' = "fold"
    BY <1>21, <2>1 DEF SkipRollup, Decline, Spend, Elapse, Go, At
  <2> QED BY <2>1, <2>2, <2>3 DEF LegsInv, ReportedBefore, At, SUB_RESULT_KEYS
<1>22. CASE RollUp
  <2>1. At("deploy_rollup") /\ "deploy_success" \notin DOMAIN legs /\ "deploy_success" \in SUB_RESULT_KEYS
    BY <1>22 DEF RollUp, At, LegsInv, ReportedBefore, SUB_RESULT_KEYS
  <2>2. Told' /\ DOMAIN legs' = DOMAIN legs \cup {"deploy_success"}
    BY <1>22, <2>1, ToldStep DEF RollUp, LegsInv, LoopStatus, ERROR_SUB_STATUSES
  <2>3. end' = "no" => pc' = "fold"
    BY <1>22, <2>1 DEF RollUp, Decline, Spend, Elapse, Go, At
  <2> QED BY <2>1, <2>2, <2>3 DEF LegsInv, ReportedBefore, At, SUB_RESULT_KEYS
<1>23. CASE LoadPriorPlan
  <2>1. At("prior_plan") /\ "retro" \notin DOMAIN legs /\ "retro" \in SUB_RESULT_KEYS
    BY <1>23 DEF LoadPriorPlan, At, LegsInv, ReportedBefore, SUB_RESULT_KEYS
  <2>2. CASE UNCHANGED <<legs, trouble>>
    <3>1. end' = "no" => ReportedBefore(pc) \subseteq ReportedBefore(pc')
      BY <1>23, <2>1 DEF LoadPriorPlan, At, Go, Raise, ReportedBefore
    <3> QED BY <2>1, <2>2, <3>1 DEF LegsInv, Told, At
  <2>3. CASE Go("issue_filing") /\ \E status \in {"skipped", "error"} :
                Report("retro", status, status = "error")
    <3>1. PICK status \in {"skipped", "error"} : Report("retro", status, status = "error")
      BY <2>3
    <3>2. Told' /\ DOMAIN legs' = DOMAIN legs \cup {"retro"}
      BY <2>1, <3>1, ToldStep DEF LegsInv, ERROR_SUB_STATUSES
    <3> QED BY <2>1, <2>3, <3>2 DEF LegsInv, ReportedBefore, At, Go
  <2> QED BY <1>23, <2>2, <2>3 DEF LoadPriorPlan, Report
<1>24. CASE QuoteJudge
  <2>1. At("judge_quote") /\ "retro" \notin DOMAIN legs /\ "retro" \in SUB_RESULT_KEYS
    BY <1>24 DEF QuoteJudge, At, LegsInv, ReportedBefore, SUB_RESULT_KEYS
  <2>2. CASE UNCHANGED <<legs, trouble>>
    <3>1. end' = "no" => ReportedBefore(pc) \subseteq ReportedBefore(pc')
      BY <1>24, <2>1 DEF QuoteJudge, At, Go, Raise, ReportedBefore
    <3> QED BY <2>1, <2>2, <3>1 DEF LegsInv, Told, At
  <2>3. CASE Go("issue_filing") /\ \E status \in {"skipped", "error"} :
                Report("retro", status, status = "error")
    <3>1. PICK status \in {"skipped", "error"} : Report("retro", status, status = "error")
      BY <2>3
    <3>2. Told' /\ DOMAIN legs' = DOMAIN legs \cup {"retro"}
      BY <2>1, <3>1, ToldStep DEF LegsInv, ERROR_SUB_STATUSES
    <3> QED BY <2>1, <2>3, <3>2 DEF LegsInv, ReportedBefore, At, Go
  <2> QED BY <1>24, <2>2, <2>3 DEF QuoteJudge, Report
<1> QED
  BY <1>1, <1>2, <1>3, <1>4, <1>5, <1>6, <1>7, <1>8, <1>9, <1>10, <1>11, <1>12, <1>13, <1>14, <1>15, <1>16, <1>17, <1>18, <1>19, <1>20, <1>21, <1>22, <1>23, <1>24 DEF Next

LEMMA ToldIsHonest == Told => TroubleReachesTheExitCode
<1> SUFFICES ASSUME Told, end = "returned" PROVE
        /\ trouble # {} =>
              \/ ExitCode \in {20, 22}
              \/ trouble = {"director_loop"} /\ legs["director_loop"] = "mutations_withheld"
        /\ (\E k \in DOMAIN legs : k = "retro" /\ legs[k] = "refused") <=> ExitCode \in {21, 22}
    BY DEF TroubleReachesTheExitCode
<1> DEFINE Loud == \E k \in DOMAIN legs : Classify(legs[k]) \in {"error", "unclassified"}
           Refused == \E k \in DOMAIN legs : k = "retro" /\ legs[k] = "refused"
<1>1. RetroRefused <=> Refused
  BY DEF RetroRefused, Verdicts, Classify, PASS_SUB_STATUSES, REFUSED_SUB_STATUSES, ERROR_SUB_STATUSES
<1>2. Verdicts({"refused"}) # {} <=> Refused
  BY DEF Told, Verdicts, Classify, PASS_SUB_STATUSES, REFUSED_SUB_STATUSES, ERROR_SUB_STATUSES
<1>3. StageStatus = "degraded" <=> Loud
  BY DEF StageStatus, Verdicts
<1>4. /\ Loud => ExitCode = IF Refused THEN 22 ELSE 20
      /\ ~Loud => ExitCode = IF Refused THEN 21 ELSE 0
  BY <1>1, <1>2, <1>3 DEF ExitCode
<1>5. ASSUME trouble # {}, ~Loud
      PROVE  trouble = {"director_loop"} /\ legs["director_loop"] = "mutations_withheld"
  <2>1. \A k \in trouble : k = "director_loop" /\ legs[k] = "mutations_withheld"
    BY <1>5 DEF Told, Classify, PASS_SUB_STATUSES, REFUSED_SUB_STATUSES, ERROR_SUB_STATUSES
  <2> QED BY <1>5, <2>1
<1> HIDE DEF Loud, Refused
<1>6. (ExitCode \in {20, 22} <=> Loud) /\ (ExitCode \in {21, 22} <=> Refused)
  BY <1>4
<1>7. Refused <=> \E k \in DOMAIN legs : k = "retro" /\ legs[k] = "refused"
  BY DEF Refused
<1> QED BY <1>5, <1>6, <1>7

\* The Step Function sees what went wrong: a failed sub-result degrades the
\* exit code and a refused judge is named in it, whatever else happened; only
\* the word mutations_withheld can hide a failure.
THEOREM ExitCodeIsHonest == Spec => []TroubleReachesTheExitCode
<1>1. Init => Inv /\ LegsInv
  <2>1. ASSUME Init PROVE LegsInv
    <3>1. DOMAIN legs = {} /\ trouble = {}
      BY <2>1 DEF Init
    <3> QED BY <3>1 DEF LegsInv, Told
  <2> QED BY <2>1, InitInv
<1>2. Inv /\ LegsInv /\ [Next]_vars => (Inv /\ LegsInv)'
  BY StepInv, LegsStep
<1>3. Inv /\ LegsInv => TroubleReachesTheExitCode
  BY ToldIsHonest DEF LegsInv
<1> QED BY <1>1, <1>2, <1>3, PTL DEF Spec

=============================================================================
