-------------------------- MODULE WeeklyCycleProofs --------------------------
(***************************************************************************)
(* What holds of the weekly cycle for any number of grading and Director   *)
(* runs, any calendar and any rewrite window.                              *)
(***************************************************************************)
EXTENDS WeeklyCycle, TLAPS

-----------------------------------------------------------------------------
(* The fold. *)

\* The fold answers within the closed vocabulary.
LEMMA WorstInScopeType ==
  ASSUME NEW seen
  PROVE  WorstInScope(seen) \in Verdicts
BY DEF WorstInScope, Worst, Verdicts, NotInScope

\* A pass of the fold was seen, and only passes and halves out of scope were.
LEMMA PassOfWorst ==
  ASSUME NEW seen, WorstInScope(seen) = "PASS"
  PROVE  seen \subseteq {"PASS", NotInScope}
<1>1. seen \ {NotInScope} # {}
  BY DEF WorstInScope
<1>2. Worst(seen \ {NotInScope}) = "PASS"
  BY <1>1 DEF WorstInScope
<1>3. seen \ {NotInScope} \subseteq Verdicts /\ "FAIL" \notin seen
      /\ "UNKNOWN" \notin seen /\ "PARTIAL" \notin seen
  BY <1>2 DEF Worst, NotInScope
<1> QED
  BY <1>3 DEF Verdicts

\* A half that counts as a pass was a passing body of the date.
LEMMA PassingHalf ==
  ASSUME NEW object \in Objects(RunDates), NEW day \in RunDates,
         ReadHalf(object, day).verdict = "PASS"
  PROVE  object = Body(day, "PASS")
<1>1. object.at = "body" /\ object.stamp = day /\ Normalize(object.raw) = "PASS"
  BY DEF ReadHalf
<1>2. object.raw = "PASS"
  BY <1>1 DEF Normalize, Verdicts
<1> QED
  BY <1>1, <1>2 DEF Objects, Absent, Refused, Body

\* A half that was read is never out of scope by itself.
LEMMA ReadHalfInScope ==
  ASSUME NEW object, NEW day
  PROVE  ReadHalf(object, day).verdict # NotInScope
BY DEF ReadHalf, Normalize, Verdicts, NotInScope

\* Outside a rehearsal a pass is established: every check dispatched for the
\* date left a passing body of that very date (build_run_attestation).
THEOREM PassIsEstablished ==
  ASSUME NEW battery \in {"PASS", "FAIL", "UNKNOWN"},
         NEW objects \in [Halves -> Objects(RunDates)],
         NEW day \in RunDates, NEW scope \in Scopes,
         RunAttestation(battery, objects, day, scope, FALSE) = "PASS"
  PROVE  Established(battery, objects, day, scope)
<1> DEFINE arithmetic == ArithmeticVerdict(battery, objects, day, FALSE)
           read == ReadHalf(objects["contamination"], day)
           half == Contamination(objects, day, scope, FALSE)
<1>1. {arithmetic, half.verdict} \subseteq {"PASS", NotInScope}
  BY PassOfWorst DEF RunAttestation
<1>2. arithmetic = "PASS"
  BY <1>1, WorstInScopeType DEF ArithmeticVerdict, Verdicts, NotInScope
<1>3. {battery} \union {Arithmetic(h, objects, day, FALSE).verdict : h \in ArithmeticHalves}
        \subseteq {"PASS", NotInScope}
  BY <1>2, PassOfWorst DEF ArithmeticVerdict
<1>4. battery = "PASS"
  BY <1>3 DEF NotInScope
<1>5. \A h \in ArithmeticHalves : objects[h] = Body(day, "PASS")
  <2> TAKE h \in ArithmeticHalves
  <2>1. objects[h] \in Objects(RunDates)
    BY DEF Halves
  <2>2. Arithmetic(h, objects, day, FALSE) = ReadHalf(objects[h], day)
    BY DEF Arithmetic, MarkRehearsal
  <2>3. ReadHalf(objects[h], day).verdict = "PASS"
    BY <1>3, <2>2, ReadHalfInScope
  <2> QED
    BY <2>1, <2>3, PassingHalf
<1>6. \/ objects["contamination"] = Body(day, "PASS")
      \/ scope = "skipped" /\ objects["contamination"] = Absent
  <2>1. objects["contamination"] \in Objects(RunDates)
    BY DEF Halves
  <2>2. half = MarkScope(read, ContaminationInScope(scope))
    BY DEF Contamination, MarkRehearsal
  <2>3. CASE half = read
    <3>1. read.verdict = "PASS"
      BY <1>1, <2>3, ReadHalfInScope
    <3> QED
      BY <2>1, <3>1, PassingHalf
  <2>4. CASE half # read
    <3>1. scope = "skipped" /\ Excused(read)
      BY <2>2, <2>4 DEF MarkScope, ContaminationInScope
    <3>2. objects["contamination"].at = "absent"
      BY <3>1 DEF Excused, ReadHalf
    <3> QED
      BY <2>1, <3>1, <3>2 DEF Objects, Absent, Refused, Body
  <2> QED
    BY <2>3, <2>4
<1> QED
  BY <1>4, <1>5, <1>6 DEF Established

-----------------------------------------------------------------------------
(* The inductive invariant. *)

\* A run that was invoked has a date, one that persists was told to, and a
\* pass of a run that is no rehearsal was established.
RunInv ==
  \A r \in Runs :
    /\ run[r].at # "idle" => run[r].date \in RunDates
    /\ run[r].at \in {"decide", "latest", "attribution", "card", "record"} => run[r].write
    /\ run[r].write /\ ~EscapeHatch => ~run[r].dry
    /\ run[r].verdict = "PASS" /\ ~run[r].dry => run[r].sound

\* r has frozen the card of d, and none of its locals moves again.
Froze(r, d) ==
  /\ r \in Runs
  /\ run[r].at \in {"record", "done", "failed"}
  /\ run[r].date = d
  /\ run[r].snapshot
  /\ ~run[r].regrade
  /\ run[r].write

FrozenInv == \A d \in RunDates : store.dated[d] # None => Froze(store.dated[d], d)

\* A Director that went past its read, or acted, did so on a frozen card of
\* its date, and acted on a pass only; a retro under way has a prior plan.
DirectorInv ==
  \A g \in Directors :
    /\ InFlight(g) \/ g \in acted =>
         /\ director[g].at # "idle"
         /\ director[g].date \in RunDates
         /\ Froze(director[g].card, director[g].date)
    /\ g \in acted => run[director[g].card].verdict = "PASS"
    /\ director[g].at = "trend" => director[g].prior \in RunDates

CycleInv == TypeOK /\ RunInv /\ FrozenInv /\ DirectorInv

\* What a graded card says is in the vocabulary, and a pass is established.
LEMMA GradingIsSound ==
  ASSUME NEW grading \in Gradings
  PROVE  /\ grading.verdict \in Verdicts
         /\ grading.sound \in BOOLEAN
         /\ grading.verdict = "PASS" /\ ~grading.dry => grading.sound
<1>1. PICK day \in RunDates, scope \in Scopes, dry \in BOOLEAN,
           battery \in {"PASS", "FAIL", "UNKNOWN"}, objects \in [Halves -> Objects(RunDates)] :
        grading = [date |-> day, scope |-> scope, dry |-> dry,
                   verdict |-> RunAttestation(battery, objects, day, scope, dry),
                   sound |-> Established(battery, objects, day, scope)]
  BY DEF Gradings
<1>2. grading.verdict \in Verdicts
  BY <1>1, WorstInScopeType DEF RunAttestation
<1>3. grading.sound \in BOOLEAN
  BY <1>1 DEF Established
<1>4. ASSUME grading.verdict = "PASS", ~grading.dry PROVE grading.sound
  <2>1. dry = FALSE
    BY <1>1, <1>4
  <2>2. Established(battery, objects, day, scope)
    BY <1>1, <1>4, <2>1, PassIsEstablished
  <2> QED
    BY <1>1, <2>2
<1> QED
  BY <1>2, <1>3, <1>4

\* A step of a grading run keeps the runs well formed, and a run that has
\* frozen a card keeps the locals the card was written from.
LEMMA RunsStayWellFormed ==
  ASSUME NEW r \in Runs, CardTypeOK, RunInv, GradingStep(r)
  PROVE  /\ run' \in [Runs -> Run]
         /\ RunInv'
         /\ \A q, d : Froze(q, d) =>
              /\ Froze(q, d)'
              /\ run'[q].verdict = run[q].verdict
              /\ run'[q].sound = run[q].sound
              /\ run'[q].dry = run[q].dry
<1> USE ReportCardAssumption DEF CardTypeOK, RunInv, Froze, Run, Steps
<1>1. CASE Invoke(r)
  <2>1. PICK d \in RunDates, snapshot \in BOOLEAN, dry \in BOOLEAN :
          \E write \in (IF EscapeHatch THEN BOOLEAN ELSE {~dry}) :
            run' = [run EXCEPT ![r] =
              [IdleRun EXCEPT !.at = "build", !.date = d, !.snapshot = snapshot,
                              !.dry = dry, !.write = write]]
    BY <1>1 DEF Invoke
  <2>2. PICK write \in BOOLEAN :
          /\ ~EscapeHatch => write = ~dry
          /\ run' = [run EXCEPT ![r] =
              [IdleRun EXCEPT !.at = "build", !.date = d, !.snapshot = snapshot,
                              !.dry = dry, !.write = write]]
    BY <2>1
  <2> QED
    BY <1>1, <2>2 DEF Invoke, IdleRun, Scopes, Verdicts
<1>2. CASE Build(r)
  <2>1. PICK grading \in Gradings :
          /\ grading.dry = run[r].dry
          /\ run' = [run EXCEPT ![r].verdict = grading.verdict, ![r].sound = grading.sound,
                                ![r].at = IF run[r].write THEN "decide" ELSE "done"]
    BY <1>2 DEF Build
  <2> QED
    BY <1>2, <2>1, GradingIsSound DEF Build
<1>3. CASE DecideRegrade(r)
  <2>1. StaleRewrite(run[r].date, today) \in BOOLEAN
    BY DEF StaleRewrite
  <2> QED
    BY <1>3, <2>1 DEF DecideRegrade
<1>4. CASE PutLatest(r)
  BY <1>4 DEF PutLatest, Goto
<1>5. CASE PutAttribution(r)
  BY <1>5 DEF PutAttribution, Goto
<1>6. CASE PutCard(r)
  BY <1>6 DEF PutCard, Goto
<1>7. CASE PutRecord(r)
  BY <1>7 DEF PutRecord, Goto
<1>8. CASE Die(r)
  BY <1>8 DEF Die, Goto
<1> QED
  BY <1>1, <1>2, <1>3, <1>4, <1>5, <1>6, <1>7, <1>8 DEF GradingStep

\* The objects keep their types, and a dated card stays frozen.
LEMMA StoreStaysWellFormed ==
  ASSUME NEW r \in Runs, CardTypeOK, RunInv, FrozenInv, GradingStep(r)
  PROVE  store' \in Store /\ FrozenInv'
<1>1. /\ run' \in [Runs -> Run]
      /\ \A q, d : Froze(q, d) => Froze(q, d)'
  BY RunsStayWellFormed
<1>2. run \in [Runs -> Run] /\ store \in Store
  BY DEF CardTypeOK
<1>3. ASSUME UNCHANGED store PROVE store' \in Store /\ FrozenInv'
  BY <1>1, <1>2, <1>3 DEF FrozenInv
<1>4. CASE Invoke(r) \/ Build(r) \/ DecideRegrade(r) \/ Die(r)
  BY <1>3, <1>4 DEF Invoke, Build, DecideRegrade, Die
<1>5. CASE PutLatest(r)
  <2>1. store' = [store EXCEPT !.latest = r]
    BY <1>5 DEF PutLatest
  <2>2. store' \in Store /\ store'.dated = store.dated
    BY <1>2, <2>1 DEF Store, Held
  <2> QED
    BY <1>1, <2>2 DEF FrozenInv
<1>6. CASE PutAttribution(r)
  <2>1. CASE store' = [store EXCEPT !.attributionOf[run[r].date] = r]
    <3>1. store' \in Store /\ store'.dated = store.dated
      BY <1>2, <2>1 DEF Store, Held
    <3> QED
      BY <1>1, <3>1 DEF FrozenInv
  <2> QED
    BY <1>3, <1>6, <2>1 DEF PutAttribution
<1>7. CASE PutCard(r)
  <2>1. CASE run[r].regrade
    <3>1. store' = [store EXCEPT !.regrades = @ \union {r}]
      BY <1>7, <2>1 DEF PutCard
    <3>2. store' \in Store /\ store'.dated = store.dated
      BY <1>2, <3>1 DEF Store
    <3> QED
      BY <1>1, <3>2 DEF FrozenInv
  <2>2. CASE ~run[r].regrade /\ run[r].snapshot
    <3>1. store' = [store EXCEPT !.dated[run[r].date] = r]
      BY <1>7, <2>2 DEF PutCard
    <3>2. run[r].date \in RunDates /\ run[r].write
      BY <1>7 DEF PutCard, RunInv
    <3>3. Froze(r, run[r].date)'
      BY <1>2, <1>7, <2>2, <3>2 DEF PutCard, Goto, Froze, Run
    <3>4. store' \in Store /\ store'.dated = [store.dated EXCEPT ![run[r].date] = r]
      BY <1>2, <3>1 DEF Store, Held
    <3>5. run'[r].date = run[r].date
      BY <1>2, <1>7 DEF PutCard, Goto, Run
    <3>6. \A d \in RunDates : store'.dated[d] =
                                IF d = run[r].date THEN r ELSE store.dated[d]
      BY <1>2, <3>2, <3>4 DEF Store
    <3>7. FrozenInv'
      BY <1>1, <3>3, <3>5, <3>6 DEF FrozenInv, Froze
    <3> QED
      BY <3>4, <3>7
  <2>3. CASE ~run[r].regrade /\ ~run[r].snapshot
    BY <1>3, <1>7, <2>3 DEF PutCard
  <2> QED
    BY <2>1, <2>2, <2>3
<1>8. CASE PutRecord(r)
  <2>1. CASE store' = [store EXCEPT !.record[run[r].date] = CardLink(r)]
    <3>1. CardLink(r) \in Links
      BY DEF CardLink, Links
    <3>2. store' \in Store /\ store'.dated = store.dated
      BY <1>2, <2>1, <3>1 DEF Store
    <3> QED
      BY <1>1, <3>2 DEF FrozenInv
  <2> QED
    BY <1>3, <1>8, <2>1 DEF PutRecord
<1> QED
  BY <1>4, <1>5, <1>6, <1>7, <1>8 DEF GradingStep

\* A grading step disturbs no Director.
LEMMA GradingKeepsInv ==
  ASSUME NEW r \in Runs, CycleInv, GradingStep(r), UNCHANGED directorVars
  PROVE  CycleInv'
<1>1. CardTypeOK /\ RunInv /\ FrozenInv
  BY DEF CycleInv, TypeOK
<1>2. /\ run' \in [Runs -> Run] /\ RunInv'
      /\ \A q, d : Froze(q, d) => Froze(q, d)' /\ run'[q].verdict = run[q].verdict
  BY <1>1, RunsStayWellFormed
<1>3. store' \in Store /\ FrozenInv'
  BY <1>1, StoreStaysWellFormed
<1>4. today' = today
  BY DEF GradingStep, Invoke, Build, DecideRegrade, PutLatest, PutAttribution,
         PutCard, PutRecord, Die
<1>5. TypeOK'
  BY <1>2, <1>3, <1>4 DEF CycleInv, TypeOK, CardTypeOK, directorVars
<1>6. DirectorInv'
  <2>1. DirectorInv
    BY DEF CycleInv
  <2>2. director' = director /\ acted' = acted
    BY DEF directorVars
  <2>3. ASSUME NEW g \in Directors PROVE InFlight(g)' = InFlight(g)
    BY <2>2 DEF InFlight
  <2> QED
    BY <1>2, <2>1, <2>2, <2>3 DEF DirectorInv
<1> QED
  BY <1>2, <1>3, <1>5, <1>6 DEF CycleInv

\* A Director step keeps the types, the card and the authority of every
\* Director; it changes nothing of the bucket.
LEMMA DirectorKeepsInv ==
  ASSUME NEW g \in Directors, CycleInv, DirectorStep(g)
  PROVE  CycleInv'
<1> USE DirectorsAssumption, ReportCardAssumption
<1>1. UNCHANGED cardVars
  BY DEF DirectorStep, LoadCard, PutPlan, VerifyLoop, SkipRetro, GradePrior,
         PutTrend, RetroFails, FileIssues, DirectorDies
<1>2. CardTypeOK' /\ RunInv' /\ FrozenInv' /\ \A q, d : Froze(q, d)' = Froze(q, d)
  BY <1>1 DEF CycleInv, TypeOK, CardTypeOK, RunInv, FrozenInv, Froze, cardVars
<1>3. /\ director \in [Directors -> Director] /\ desk \in Desk /\ acted \subseteq Directors
      /\ store \in Store /\ FrozenInv /\ DirectorInv
  BY DEF CycleInv, TypeOK, CardTypeOK
<1>4. /\ director' \in [Directors -> Director] /\ desk' \in Desk
      /\ acted' \subseteq Directors /\ DirectorInv'
  <2> USE DEF Director, DirectorSteps, Desk, Advisers
  <2>1. CASE LoadCard(g)
    <3>1. PICK d \in RunDates, dry \in BOOLEAN :
            director' = [director EXCEPT ![g] =
              [@ EXCEPT !.date = d, !.card = store.dated[d],
                        !.at = AfterLoad(store.dated[d], dry)]]
      BY <2>1 DEF LoadCard
    <3>2. store.dated[d] \in Held
      BY <1>3 DEF Store
    <3>3. director[g].at = "idle" /\ UNCHANGED <<desk, acted>>
      BY <2>1 DEF LoadCard
    <3>4. director' \in [Directors -> Director]
      <4>1. AfterLoad(store.dated[d], dry) \in DirectorSteps
        BY DEF AfterLoad
      <4> QED
        BY <1>3, <3>1, <3>2, <4>1
    <3>5. g \notin acted
      BY <1>3, <3>3 DEF DirectorInv
    <3>6. director'[g].at = "plan" => Froze(store.dated[d], d)
      BY <1>3, <3>1 DEF FrozenInv, AfterLoad
    <3>7. DirectorInv'
      BY <1>1, <1>2, <1>3, <3>1, <3>3, <3>5, <3>6 DEF DirectorInv, InFlight, AfterLoad, cardVars
    <3> QED
      BY <1>3, <3>3, <3>4, <3>7
  <2>2. CASE PutPlan(g)
    BY <1>1, <1>2, <1>3, <2>2 DEF PutPlan, DirectorGoto, DirectorInv, InFlight, cardVars
  <2>3. ASSUME acted' \in {acted, ActedBy(g)}, InFlight(g), UNCHANGED desk,
               NEW step \in {"retro", "done"}, DirectorGoto(g, step)
        PROVE  /\ director' \in [Directors -> Director] /\ desk' \in Desk
               /\ acted' \subseteq Directors /\ DirectorInv'
    <3>1. acted' \subseteq acted \union {g}
      BY <2>3 DEF ActedBy
    <3>2. g \in acted' => run[director[g].card].verdict = "PASS"
      BY <1>3, <2>3 DEF ActedBy, MayAct, ActionsWithheld, Normalize, DirectorInv
    <3> QED
      BY <1>1, <1>2, <1>3, <2>3, <3>1, <3>2 DEF DirectorGoto, DirectorInv, InFlight, cardVars
  <2>4. CASE VerifyLoop(g)
    BY <2>3, <2>4 DEF VerifyLoop, InFlight
  <2>5. CASE SkipRetro(g)
    BY <1>1, <1>2, <1>3, <2>5 DEF SkipRetro, DirectorGoto, DirectorInv, InFlight, cardVars
  <2>6. CASE GradePrior(g)
    <3>1. PICK p \in RunDates : director' = [director EXCEPT ![g].prior = p, ![g].at = "trend"]
      BY <2>6 DEF GradePrior
    <3> QED
      BY <1>1, <1>2, <1>3, <2>6, <3>1 DEF GradePrior, DirectorInv, InFlight, cardVars
  <2>7. CASE PutTrend(g)
    BY <1>1, <1>2, <1>3, <2>7 DEF PutTrend, DirectorGoto, DirectorInv, InFlight, cardVars
  <2>8. CASE RetroFails(g)
    BY <1>1, <1>2, <1>3, <2>8 DEF RetroFails, DirectorGoto, DirectorInv, InFlight, cardVars
  <2>9. CASE FileIssues(g)
    BY <2>3, <2>9 DEF FileIssues, InFlight
  <2>10. CASE DirectorDies(g)
    BY <1>1, <1>2, <1>3, <2>10 DEF DirectorDies, DirectorGoto, DirectorInv, InFlight, cardVars
  <2> QED
    BY <2>1, <2>2, <2>4, <2>5, <2>6, <2>7, <2>8, <2>9, <2>10 DEF DirectorStep
<1> QED
  BY <1>2, <1>4 DEF CycleInv, TypeOK

\* The invariant of the cycle.
THEOREM CycleInvariant == Spec => []CycleInv
<1>1. Init => CycleInv
  <2> SUFFICES ASSUME Init PROVE CycleInv
    OBVIOUS
  <2> USE ReportCardAssumption, DirectorsAssumption DEF Init, CardInit, DirectorInit
  <2>1. CardTypeOK
    BY DEF CardTypeOK, Run, IdleRun, Steps, Scopes, Verdicts, EmptyStore, Store, Held
  <2>2. TypeOK
    BY <2>1 DEF TypeOK, Director, DirectorSteps, Held, Desk, NoRows, Advisers
  <2>3. RunInv /\ FrozenInv /\ DirectorInv
    BY DEF RunInv, FrozenInv, DirectorInv, IdleRun, EmptyStore, InFlight
  <2> QED
    BY <2>2, <2>3 DEF CycleInv
<1>2. CycleInv /\ [Next]_vars => CycleInv'
  <2> SUFFICES ASSUME CycleInv, [Next]_vars PROVE CycleInv'
    OBVIOUS
  <2>1. CASE NextDay /\ UNCHANGED directorVars
    <3>1. today' \in 0..MaxDay /\ UNCHANGED <<run, store, director, desk, acted>>
      BY <2>1, ReportCardAssumption
      DEF NextDay, directorVars, CycleInv, TypeOK, CardTypeOK
    <3> QED
      BY <3>1 DEF CycleInv, TypeOK, CardTypeOK, RunInv, FrozenInv, Froze, DirectorInv, InFlight
  <2>2. CASE \E r \in Runs : GradingStep(r) /\ UNCHANGED directorVars
    BY <2>2, GradingKeepsInv
  <2>3. CASE \E g \in Directors : DirectorStep(g)
    BY <2>3, DirectorKeepsInv
  <2>4. CASE UNCHANGED vars
    BY <2>4 DEF vars, CycleInv, TypeOK, CardTypeOK, RunInv, FrozenInv, Froze,
                DirectorInv, InFlight
  <2> QED
    BY <2>1, <2>2, <2>3, <2>4 DEF Next
<1> QED
  BY <1>1, <1>2, PTL DEF Spec

-----------------------------------------------------------------------------
(* The theorems. *)

\* Types of the bucket, of the Director's desk and of both kinds of runs
\* (ReportCard, WeeklyCycle).
THEOREM CycleTypeCorrect == Spec => []TypeOK
<1>1. CycleInv => TypeOK
  BY DEF CycleInv
<1> QED
  BY <1>1, CycleInvariant, PTL

\* A Director past its read holds a frozen card of its own date and stays
\* with it, however many runs refresh, rerun and regrade (_load_report_card).
THEOREM AdviceRestsOnFrozenCard == Spec => []AdvisesOnFrozenCard
<1>1. CycleInv => AdvisesOnFrozenCard
  BY ReportCardAssumption DEF CycleInv, DirectorInv, InFlight, Froze, AdvisesOnFrozenCard
<1> QED
  BY <1>1, CycleInvariant, PTL

\* Without the "write" override, a Director changes another system only on
\* numbers whose correctness was established (actions_withheld).
THEOREM MutationsRestOnEvidence ==
  ASSUME ~EscapeHatch
  PROVE  Spec => []MutationRestsOnEvidence
<1>1. CycleInv => MutationRestsOnEvidence
  <2> SUFFICES ASSUME CycleInv, NEW g \in acted PROVE run[director[g].card].sound
    BY DEF MutationRestsOnEvidence
  <2>1. g \in Directors
    BY DEF CycleInv, TypeOK
  <2>2. /\ Froze(director[g].card, director[g].date)
        /\ run[director[g].card].verdict = "PASS"
    BY <2>1 DEF CycleInv, DirectorInv
  <2> QED
    BY <2>2 DEF Froze, CycleInv, RunInv
<1> QED
  BY <1>1, CycleInvariant, PTL

\* Once a date has its card, its window is over and no run still holds a
\* licence, its card and its attribution stand for ever (write_report_card).
THEOREM AsOfRecordsStand == Spec => AsOfRecordStands
<1> USE ReportCardAssumption
<1>1. ASSUME CycleInv, [Next]_vars, NEW d \in RunDates, Settled(d)
      PROVE  /\ Settled(d)'
             /\ store'.dated[d] = store.dated[d]
             /\ store'.attributionOf[d] = store.attributionOf[d]
  <2>1. run \in [Runs -> Run] /\ store \in Store /\ today \in Nat /\ RunInv
    BY <1>1 DEF CycleInv, TypeOK, CardTypeOK
  <2>2. CASE UNCHANGED <<run, store>> /\ today' \in {today, today + 1}
    <3>1. d \in Nat /\ today' \in Nat /\ today' >= today
      BY <2>1, <2>2
    <3>2. StaleRewrite(d, today')
      BY <1>1, <2>1, <3>1 DEF Settled, StaleRewrite
    <3>3. \A r \in Runs : ~Licensed(r, d)'
      BY <1>1, <2>2 DEF Settled, Licensed, Freezes
    <3> QED
      BY <1>1, <2>2, <3>2, <3>3 DEF Settled
  <2>3. ASSUME NEW r \in Runs, GradingStep(r)
        PROVE  /\ Settled(d)'
               /\ store'.dated[d] = store.dated[d]
               /\ store'.attributionOf[d] = store.attributionOf[d]
    <3>1. today' = today /\ \A q \in Runs \ {r} : run'[q] = run[q]
      BY <2>1, <2>3 DEF GradingStep, Invoke, Build, DecideRegrade, PutLatest,
                        PutAttribution, PutCard, PutRecord, Die, Goto
    <3>2. ~Licensed(r, d)
      BY <1>1, <2>3 DEF Settled
    <3>3. /\ store'.dated[d] = store.dated[d]
          /\ store'.attributionOf[d] = store.attributionOf[d]
      <4>1. CASE UNCHANGED store
        BY <4>1
      <4>2. CASE PutLatest(r)
        BY <2>1, <4>2 DEF PutLatest, Store
      <4>3. CASE PutAttribution(r)
        BY <2>1, <3>2, <4>3 DEF PutAttribution, Store, Licensed, Freezes
      <4>4. CASE PutCard(r)
        BY <2>1, <3>2, <4>4 DEF PutCard, Store, Licensed, Freezes
      <4>5. CASE PutRecord(r)
        BY <2>1, <4>5 DEF PutRecord, Store
      <4> QED
        BY <2>3, <4>1, <4>2, <4>3, <4>4, <4>5
        DEF GradingStep, Invoke, Build, DecideRegrade, Die
    <3>4. ~Licensed(r, d)'
      <4>1. CASE DecideRegrade(r)
        <5>1. run'[r].regrade = (run[r].snapshot /\ StaleRewrite(run[r].date, today)
                                   /\ store.dated[run[r].date] # None)
              /\ run'[r].date = run[r].date /\ run'[r].snapshot = run[r].snapshot
          BY <2>1, <4>1 DEF DecideRegrade, Run
        <5> QED
          BY <1>1, <5>1 DEF Settled, Licensed, Freezes
      <4>2. CASE Invoke(r)
        <5>1. run'[r].at = "build"
          BY <2>1, <4>2 DEF Invoke, IdleRun
        <5> QED
          BY <5>1 DEF Licensed
      <4>3. CASE Build(r)
        <5>1. run'[r].at \in {"decide", "done"}
          BY <2>1, <4>3 DEF Build, Run
        <5> QED
          BY <5>1 DEF Licensed
      <4>4. CASE PutLatest(r)
        BY <2>1, <3>2, <4>4 DEF PutLatest, Goto, Licensed, Freezes, Run
      <4>5. CASE PutAttribution(r)
        BY <2>1, <3>2, <4>5 DEF PutAttribution, Goto, Licensed, Freezes, Run
      <4>6. CASE PutCard(r) \/ PutRecord(r) \/ Die(r)
        BY <2>1, <4>6 DEF PutCard, PutRecord, Die, Goto, Licensed, Run
      <4> QED
        BY <2>3, <4>1, <4>2, <4>3, <4>4, <4>5, <4>6 DEF GradingStep
    <3>5. \A q \in Runs \ {r} : ~Licensed(q, d)'
      BY <1>1, <3>1 DEF Settled, Licensed, Freezes
    <3> QED
      BY <1>1, <3>1, <3>3, <3>4, <3>5 DEF Settled, StaleRewrite
  <2>4. CASE \E g \in Directors : DirectorStep(g)
    <3>1. UNCHANGED cardVars
      BY <2>4 DEF DirectorStep, LoadCard, PutPlan, VerifyLoop, SkipRetro, GradePrior,
                  PutTrend, RetroFails, FileIssues, DirectorDies
    <3> QED
      BY <2>2, <3>1 DEF cardVars
  <2>5. CASE NextDay
    BY <2>2, <2>5 DEF NextDay
  <2>6. CASE UNCHANGED vars
    BY <2>2, <2>6 DEF vars
  <2> QED
    BY <1>1, <2>3, <2>4, <2>5, <2>6 DEF Next
<1>2. CycleInv /\ [Next]_vars =>
        [\A d \in RunDates : Settled(d) =>
           /\ Settled(d)'
           /\ store'.dated[d] = store.dated[d]
           /\ store'.attributionOf[d] = store.attributionOf[d]]_cardVars
  BY <1>1
<1> QED
  BY <1>2, CycleInvariant, PTL DEF Spec, AsOfRecordStands

-----------------------------------------------------------------------------
(* The trend. *)

\* A retro under way grades a plan older than its own, both written; so did
\* every retro that left a row.
TrendInv ==
  /\ \A g \in Directors :
       /\ director[g].at \in {"loop", "retro", "trend"} => desk.plans[director[g].date] # None
       /\ director[g].at = "trend" =>
            /\ director[g].prior < director[g].date
            /\ desk.plans[director[g].prior] # None
  /\ TrendRowsGradeEarlierPlans

\* No step takes a plan back, and a row is written for a retro under way.
LEMMA DirectorKeepsTrend ==
  ASSUME NEW g \in Directors, CycleInv, TrendInv, DirectorStep(g)
  PROVE  TrendInv'
<1> USE DirectorsAssumption, ReportCardAssumption
<1>1. director \in [Directors -> Director] /\ desk \in Desk
  BY DEF CycleInv, TypeOK
<1>2. InFlight(g) => director[g].date \in RunDates
  BY DEF CycleInv, DirectorInv
<1>3. director[g].at = "trend" => director[g].prior \in RunDates
  BY DEF CycleInv, DirectorInv
<1> USE DEF TrendInv, TrendRowsGradeEarlierPlans, Director
<1>4. CASE LoadCard(g)
  <2>1. UNCHANGED desk
    BY <1>4 DEF LoadCard
  <2>2. /\ \A other \in Directors \ {g} : director'[other] = director[other]
        /\ director'[g].at \in {"done", "failed", "plan"}
    BY <1>1, <1>4 DEF LoadCard, AfterLoad
  <2> QED
    BY <2>1, <2>2
<1>5. CASE PutPlan(g)
  <2>1. desk' = [desk EXCEPT !.plans[director[g].date] = g]
    BY <1>5 DEF PutPlan
  <2>2. director[g].date \in RunDates /\ g # None
    BY <1>2, <1>5 DEF PutPlan, InFlight
  <2>3. /\ desk'.trend = desk.trend
        /\ desk'.plans[director[g].date] = g
        /\ \A d \in RunDates : desk.plans[d] # None => desk'.plans[d] # None
    BY <1>1, <2>1, <2>2 DEF Desk
  <2>4. /\ \A other \in Directors \ {g} : director'[other] = director[other]
        /\ director'[g].at = "loop" /\ director'[g].date = director[g].date
    BY <1>1, <1>5 DEF PutPlan, DirectorGoto
  <2>5. \A other \in Directors : InFlight(other) => director[other].date \in RunDates
    BY DEF CycleInv, DirectorInv
  <2>6. \A other \in Directors : director[other].at = "trend" => director[other].prior \in RunDates
    BY DEF CycleInv, DirectorInv
  <2>7. \A p \in RunDates : desk.trend[p] # None => desk.trend[p] \in RunDates
    BY <1>1 DEF Desk
  <2> QED
    BY <2>2, <2>3, <2>4, <2>5, <2>6, <2>7 DEF InFlight
<1>6. ASSUME UNCHANGED desk, NEW step \in {"retro", "file", "done", "failed"},
             DirectorGoto(g, step), step = "retro" => director[g].at = "loop"
      PROVE  TrendInv'
  <2>1. /\ \A other \in Directors \ {g} : director'[other] = director[other]
        /\ director'[g].at = step /\ director'[g].date = director[g].date
    BY <1>1, <1>6 DEF DirectorGoto
  <2> QED
    BY <1>6, <2>1
<1>7. CASE VerifyLoop(g) \/ SkipRetro(g) \/ RetroFails(g) \/ FileIssues(g) \/ DirectorDies(g)
  BY <1>6, <1>7 DEF VerifyLoop, SkipRetro, RetroFails, FileIssues, DirectorDies
<1>8. CASE GradePrior(g)
  <2>1. PICK p \in RunDates :
          /\ IsPriorPlan(p, director[g].date)
          /\ director' = [director EXCEPT ![g].prior = p, ![g].at = "trend"]
    BY <1>8 DEF GradePrior
  <2>2. desk'.plans = desk.plans /\ desk'.trend = desk.trend
    BY <1>1, <1>8 DEF GradePrior, Desk
  <2>3. /\ \A other \in Directors \ {g} : director'[other] = director[other]
        /\ director'[g].at = "trend" /\ director'[g].date = director[g].date
        /\ director'[g].prior = p
    BY <1>1, <2>1
  <2>4. p < director[g].date /\ desk.plans[p] # None /\ desk.plans[director[g].date] # None
    BY <1>8, <2>1 DEF IsPriorPlan, PriorPlans, GradePrior
  <2> QED
    BY <2>2, <2>3, <2>4
<1>9. CASE PutTrend(g)
  <2>1. /\ director[g].at = "trend" /\ director[g].prior \in RunDates
        /\ director[g].date \in RunDates
    BY <1>2, <1>3, <1>9 DEF PutTrend, InFlight
  <2>2. /\ desk'.plans = desk.plans
        /\ \A p \in RunDates : desk'.trend[p] =
             IF p = director[g].prior THEN director[g].date ELSE desk.trend[p]
    BY <1>1, <1>9, <2>1 DEF PutTrend, Desk
  <2>3. /\ \A other \in Directors \ {g} : director'[other] = director[other]
        /\ director'[g].at = "file"
    BY <1>1, <1>9 DEF PutTrend, DirectorGoto
  <2> QED
    BY <2>1, <2>2, <2>3
<1> QED
  BY <1>4, <1>5, <1>7, <1>8, <1>9 DEF DirectorStep

\* However runs repeat, overlap and die, a trend row grades the plan of an
\* earlier date by the retro of a later date that has a plan of its own
\* (_load_prior_plan, _persist_retro).
THEOREM TrendGradesEarlierPlans == Spec => []TrendRowsGradeEarlierPlans
<1>1. Init => TrendInv
  BY DEF Init, DirectorInit, NoRows, TrendInv, TrendRowsGradeEarlierPlans
<1>2. CycleInv /\ TrendInv /\ [Next]_vars => TrendInv'
  <2> SUFFICES ASSUME CycleInv, TrendInv, [Next]_vars PROVE TrendInv'
    OBVIOUS
  <2>1. CASE \E g \in Directors : DirectorStep(g)
    BY <2>1, DirectorKeepsTrend
  <2>2. CASE UNCHANGED directorVars
    BY <2>2 DEF directorVars, TrendInv, TrendRowsGradeEarlierPlans
  <2> QED
    BY <2>1, <2>2 DEF Next, vars, directorVars
<1>3. TrendInv => TrendRowsGradeEarlierPlans
  BY DEF TrendInv
<1> QED
  BY <1>1, <1>2, <1>3, CycleInvariant, PTL DEF Spec

-----------------------------------------------------------------------------
(* The experiment record. *)

\* r has written a snapshot of d, dated or regraded, and its locals stay.
Snapshot(r, d) ==
  /\ r \in Runs
  /\ run[r].at \in {"record", "done", "failed"}
  /\ run[r].date = d
  /\ run[r].snapshot

\* What a run about to write its record has put in the bucket.
PutsInv ==
  \A r \in Runs :
    /\ run[r].regrade => run[r].snapshot
    /\ run[r].at \in {"attribution", "card", "record"} => store.latest # None
    /\ run[r].at = "record" /\ run[r].regrade => r \in store.regrades
    /\ run[r].at = "record" /\ Freezes(r) => store.dated[run[r].date] # None

\* What the link of a record names is in the bucket.
LinkHolds(link, d) ==
  /\ link \in Links
  /\ store.latest # None
  /\ link.key = "dated" => store.dated[d] # None
  /\ link.key = "regrade" => link.by \in store.regrades /\ Snapshot(link.by, d)

LinksInv == \A d \in RunDates : store.record[d] = NoLink \/ LinkHolds(store.record[d], d)

\* No object is ever taken out of the bucket.
LEMMA NothingIsDeleted ==
  ASSUME NEW r \in Runs, CycleInv, GradingStep(r)
  PROVE  /\ store.latest # None => store'.latest # None
         /\ \A d \in RunDates : store.dated[d] # None => store'.dated[d] # None
         /\ store.regrades \subseteq store'.regrades
<1> USE ReportCardAssumption
<1>1. store \in Store
  BY DEF CycleInv, TypeOK, CardTypeOK
<1>2. CASE UNCHANGED store
  BY <1>2
<1>3. CASE PutLatest(r)
  BY <1>1, <1>3 DEF PutLatest, Store
<1>4. CASE PutAttribution(r)
  BY <1>1, <1>4 DEF PutAttribution, Store
<1>5. CASE PutCard(r)
  BY <1>1, <1>5 DEF PutCard, Store
<1>6. CASE PutRecord(r)
  BY <1>1, <1>6 DEF PutRecord, Store
<1> QED
  BY <1>2, <1>3, <1>4, <1>5, <1>6 DEF GradingStep, Invoke, Build, DecideRegrade, Die

\* A step of one run leaves the locals of the others.
LEMMA OthersStay ==
  ASSUME NEW r \in Runs, CycleInv, GradingStep(r)
  PROVE  \A q \in Runs \ {r} : run'[q] = run[q]
BY DEF CycleInv, TypeOK, CardTypeOK, GradingStep, Invoke, Build, DecideRegrade,
       PutLatest, PutAttribution, PutCard, PutRecord, Die, Goto

\* Each put comes before the step that relies on it.
LEMMA PutsPrecede ==
  ASSUME NEW r \in Runs, CycleInv, PutsInv, GradingStep(r)
  PROVE  PutsInv'
<1> USE ReportCardAssumption
<1>1. run \in [Runs -> Run] /\ store \in Store /\ RunInv
  BY DEF CycleInv, TypeOK, CardTypeOK
<1>2. \A q \in Runs \ {r} : run'[q] = run[q]
  BY OthersStay
<1>3. /\ store.latest # None => store'.latest # None
      /\ \A d \in RunDates : store.dated[d] # None => store'.dated[d] # None
      /\ store.regrades \subseteq store'.regrades
  BY NothingIsDeleted
<1>4. SUFFICES /\ run'[r].regrade => run'[r].snapshot
               /\ run'[r].at \in {"attribution", "card", "record"} => store'.latest # None
               /\ run'[r].at = "record" /\ run'[r].regrade => r \in store'.regrades
               /\ run'[r].at = "record" /\ run'[r].snapshot /\ ~run'[r].regrade
                    => store'.dated[run'[r].date] # None
  <2>1. \A q \in Runs : run[q].at = "record" => run[q].date \in RunDates
    BY <1>1 DEF RunInv
  <2> QED
    BY <1>2, <1>3, <2>1 DEF PutsInv, Freezes
<1> USE DEF PutsInv, Freezes, Run
<1>5. CASE Invoke(r)
  BY <1>1, <1>5 DEF Invoke, IdleRun
<1>6. CASE Build(r)
  <2>1. run'[r].at \in {"decide", "done"} /\ run'[r].regrade = run[r].regrade
        /\ run'[r].snapshot = run[r].snapshot
    BY <1>1, <1>6 DEF Build
  <2> QED
    BY <2>1
<1>7. CASE DecideRegrade(r)
  <2>1. /\ run'[r].at = "latest" /\ run'[r].snapshot = run[r].snapshot
        /\ run'[r].regrade => run[r].snapshot
    BY <1>1, <1>7 DEF DecideRegrade
  <2> QED
    BY <2>1
<1>8. CASE PutLatest(r)
  <2>1. store'.latest = r
    BY <1>1, <1>8 DEF PutLatest, Store
  <2>2. run'[r].at = "attribution" /\ run'[r].regrade = run[r].regrade
        /\ run'[r].snapshot = run[r].snapshot
    BY <1>1, <1>8 DEF PutLatest, Goto
  <2> QED
    BY <2>1, <2>2
<1>9. CASE PutAttribution(r)
  <2>1. run'[r].at = "card" /\ run'[r].regrade = run[r].regrade
        /\ run'[r].snapshot = run[r].snapshot
    BY <1>1, <1>9 DEF PutAttribution, Goto
  <2> QED
    BY <1>3, <1>9, <2>1 DEF PutAttribution
<1>10. CASE PutCard(r)
  <2>1. run'[r].at = "record" /\ run'[r].regrade = run[r].regrade
        /\ run'[r].snapshot = run[r].snapshot /\ run'[r].date = run[r].date
    BY <1>1, <1>10 DEF PutCard, Goto
  <2>2. run[r].date \in RunDates /\ store.latest # None
    BY <1>1, <1>10 DEF PutCard, RunInv
  <2>3. run[r].regrade => r \in store'.regrades
    BY <1>1, <1>10 DEF PutCard, Store
  <2>4. run[r].snapshot /\ ~run[r].regrade => store'.dated[run[r].date] = r
    BY <1>1, <1>10, <2>2 DEF PutCard, Store
  <2> QED
    BY <1>3, <2>1, <2>2, <2>3, <2>4
<1>11. CASE PutRecord(r) \/ Die(r)
  <2>1. run'[r].at \in {"done", "failed"} /\ run'[r].regrade = run[r].regrade
        /\ run'[r].snapshot = run[r].snapshot
    BY <1>1, <1>11 DEF PutRecord, Die, Goto
  <2> QED
    BY <2>1
<1> QED
  BY <1>5, <1>6, <1>7, <1>8, <1>9, <1>10, <1>11 DEF GradingStep

\* A record keeps what it names, and is written for a run with its puts done.
LEMMA LinksHold ==
  ASSUME NEW r \in Runs, CycleInv, PutsInv, LinksInv, GradingStep(r)
  PROVE  LinksInv'
<1> USE ReportCardAssumption
<1>1. run \in [Runs -> Run] /\ store \in Store /\ RunInv
  BY DEF CycleInv, TypeOK, CardTypeOK
<1>2. /\ store.latest # None => store'.latest # None
      /\ \A d \in RunDates : store.dated[d] # None => store'.dated[d] # None
      /\ store.regrades \subseteq store'.regrades
  BY NothingIsDeleted
<1>3. \A q, d : Snapshot(q, d) => Snapshot(q, d)'
  <2> SUFFICES ASSUME NEW q, NEW d, Snapshot(q, d) PROVE Snapshot(q, d)'
    OBVIOUS
  <2>1. CASE q # r
    BY <2>1, OthersStay DEF Snapshot
  <2>2. CASE q = r
    <3>1. PutRecord(r) \/ Die(r)
      BY <2>2 DEF Snapshot, GradingStep, Invoke, Build, DecideRegrade, PutLatest,
                  PutAttribution, PutCard
    <3> QED
      BY <1>1, <2>2, <3>1 DEF Snapshot, PutRecord, Die, Goto, Run
  <2> QED
    BY <2>1, <2>2
<1>4. ASSUME NEW link, NEW d \in RunDates, LinkHolds(link, d) PROVE LinkHolds(link, d)'
  BY <1>2, <1>3, <1>4 DEF LinkHolds
<1>5. CASE store'.record = store.record
  BY <1>4, <1>5 DEF LinksInv
<1>6. CASE PutRecord(r) /\ store' = [store EXCEPT !.record[run[r].date] = CardLink(r)]
  <2>1. PICK day \in RunDates : day = run[r].date
    BY <1>1, <1>6 DEF PutRecord, RunInv
  <2>2. PICK link \in Links : link = CardLink(r) /\ link.by = r
    <3>1. CardLink(r) \in Links /\ CardLink(r).by = r
      BY DEF CardLink, Links
    <3> QED
      BY <3>1
  <2>3. \A d \in RunDates : store'.record[d] = IF d = day THEN link ELSE store.record[d]
    BY <1>1, <1>6, <2>1, <2>2 DEF Store
  <2>4. store.latest # None
    BY <1>6 DEF PutRecord, PutsInv
  <2>5. link.key = "dated" => store.dated[day] # None
    BY <1>6, <2>1, <2>2 DEF PutRecord, PutsInv, CardLink, Freezes
  <2>6. link.key = "regrade" => r \in store.regrades /\ Snapshot(r, day)
    BY <1>6, <2>1, <2>2 DEF PutRecord, PutsInv, CardLink, Snapshot
  <2>7. LinkHolds(link, day)
    BY <2>2, <2>4, <2>5, <2>6 DEF LinkHolds
  <2> QED
    BY <1>4, <2>3, <2>7 DEF LinksInv
<1>7. \/ store'.record = store.record
      \/ PutRecord(r) /\ store' = [store EXCEPT !.record[run[r].date] = CardLink(r)]
  <2>1. CASE UNCHANGED store
    BY <2>1
  <2>2. CASE PutLatest(r)
    BY <1>1, <2>2 DEF PutLatest, Store
  <2>3. CASE PutAttribution(r)
    BY <1>1, <2>3 DEF PutAttribution, Store
  <2>4. CASE PutCard(r)
    BY <1>1, <2>4 DEF PutCard, Store
  <2>5. CASE PutRecord(r)
    BY <2>1, <2>5 DEF PutRecord
  <2> QED
    BY <2>1, <2>2, <2>3, <2>4, <2>5 DEF GradingStep, Invoke, Build, DecideRegrade, Die
<1> QED
  BY <1>5, <1>6, <1>7

\* Whatever steps of whatever runs are lost, an experiment record leads to a
\* card in the bucket, by a dated or a regrade key to a snapshot of its date
\* (write_experiment_record after write_report_card).
THEOREM RecordsLeadToCards == Spec => []RecordLeadsToACard
<1> USE ReportCardAssumption
<1>1. Init => PutsInv /\ LinksInv
  BY DEF Init, CardInit, IdleRun, EmptyStore, PutsInv, LinksInv
<1>2. CycleInv /\ PutsInv /\ LinksInv /\ [Next]_vars => PutsInv' /\ LinksInv'
  <2> SUFFICES ASSUME CycleInv, PutsInv, LinksInv, [Next]_vars PROVE PutsInv' /\ LinksInv'
    OBVIOUS
  <2>1. CASE \E r \in Runs : GradingStep(r)
    BY <2>1, PutsPrecede, LinksHold
  <2>2. CASE UNCHANGED <<run, store>>
    BY <2>2 DEF PutsInv, LinksInv, LinkHolds, Freezes, Snapshot
  <2>3. ASSUME NEW g \in Directors, DirectorStep(g) PROVE UNCHANGED <<run, store>>
    BY <2>3 DEF DirectorStep, LoadCard, PutPlan, VerifyLoop, SkipRetro, GradePrior,
                PutTrend, RetroFails, FileIssues, DirectorDies, cardVars
  <2> QED
    BY <2>1, <2>2, <2>3 DEF Next, NextDay, vars
<1>3. CycleInv /\ LinksInv => RecordLeadsToACard
  <2> SUFFICES ASSUME CycleInv, LinksInv, NEW d \in RunDates, store.record[d] # NoLink
               PROVE  /\ LinkedCard(d) # None
                      /\ store.record[d].key = "regrade" => LinkedCard(d) \in store.regrades
                      /\ store.record[d].key # "latest" =>
                           run[LinkedCard(d)].snapshot /\ run[LinkedCard(d)].date = d
    BY DEF RecordLeadsToACard
  <2>1. store.record[d].by \in Runs /\ store.record[d].key \in {"dated", "regrade", "latest"}
    BY DEF LinksInv, LinkHolds, Links
  <2>2. store.dated[d] # None => Froze(store.dated[d], d)
    BY DEF CycleInv, FrozenInv
  <2> QED
    BY <2>1, <2>2 DEF LinksInv, LinkHolds, LinkedCard, Froze, Snapshot
<1> QED
  BY <1>1, <1>2, <1>3, CycleInvariant, PTL DEF Spec

=============================================================================
