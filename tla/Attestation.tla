---------------------------- MODULE Attestation ----------------------------
(***************************************************************************)
(* The report card's correctness verdict (src/grading/attestation.py): the *)
(* reading of the verdict artifacts of a run date, the two grounds on      *)
(* which a half leaves scope, the fold into one verdict, and the reading   *)
(* of that verdict by the Director (src/director/verdict.py).              *)
(*                                                                         *)
(* A verdict artifact is an S3 object: absent, refused (it could not be    *)
(* read), or a body with the run date it is stamped with and its verdict   *)
(* field.  A body that does not parse is one whose verdict is "other".     *)
(***************************************************************************)
EXTENDS Integers

Verdicts == {"PASS", "FAIL", "PARTIAL", "UNKNOWN"}

NotInScope == "NOT_IN_SCOPE"

ArithmeticHalves == {"backtester", "evaluator_stage"}

\* REHEARSAL_OUT_OF_SCOPE_HALVES: every half a spot box writes.  The fourth
\* half, the evaluator's own battery, runs in process.
Halves == ArithmeticHalves \union {"contamination"}

-----------------------------------------------------------------------------
(* Reading one half. *)

Absent == [at |-> "absent", stamp |-> 0, raw |-> "other"]
Refused == [at |-> "refused", stamp |-> 0, raw |-> "other"]
Body(day, raw) == [at |-> "body", stamp |-> day, raw |-> raw]

Objects(days) ==
  {Absent, Refused} \union {Body(d, v) : d \in days, v \in Verdicts \union {"other"}}

Normalize(raw) == IF raw \in Verdicts THEN raw ELSE "UNKNOWN"

ReadHalf(object, day) ==
  [verdict |-> IF object.at = "body" /\ object.stamp = day
               THEN Normalize(object.raw) ELSE "UNKNOWN",
   absent |-> object.at = "absent"]

-----------------------------------------------------------------------------
(* Scope.  What is known of the run's dispatch: nothing, that the producer *)
(* of the scope could not derive it, or whether the contamination check    *)
(* was dispatched.                                                         *)

Scopes == {"none", "unmeasured", "dispatched", "skipped"}

\* The payload of the run wins over the object of the date.
RunScope(payload, artifact) == IF payload = "none" THEN artifact ELSE payload

ContaminationInScope(scope) == scope # "skipped"

\* Both grounds excuse silence only, never a body that was read.
Excused(half) == half.verdict = "UNKNOWN" /\ half.absent

\* Variant: what the scope says overrides what was read (before I8811).
ScopeOverEvidence(half, inScope) ==
  IF ~inScope THEN [half EXCEPT !.verdict = NotInScope] ELSE half

MarkScope(half, inScope) ==
  IF ~inScope /\ Excused(half) THEN [half EXCEPT !.verdict = NotInScope] ELSE half

MarkRehearsal(half, dry) ==
  IF dry /\ Excused(half) THEN [half EXCEPT !.verdict = NotInScope] ELSE half

-----------------------------------------------------------------------------
(* The fold. *)

Worst(seen) ==
  IF "FAIL" \in seen THEN "FAIL"
  ELSE IF "UNKNOWN" \in seen \/ ~(seen \subseteq Verdicts) THEN "UNKNOWN"
  ELSE IF "PARTIAL" \in seen THEN "PARTIAL"
  ELSE "PASS"

WorstInScope(seen) ==
  LET inScope == seen \ {NotInScope}
  IN  IF inScope = {} THEN "UNKNOWN" ELSE Worst(inScope)

\* The contamination half, then the other two, as the block is built.
Contamination(objects, day, scope, dry) ==
  MarkRehearsal(MarkScope(ReadHalf(objects["contamination"], day),
                          ContaminationInScope(scope)), dry)

Arithmetic(half, objects, day, dry) == MarkRehearsal(ReadHalf(objects[half], day), dry)

ArithmeticVerdict(battery, objects, day, dry) ==
  WorstInScope({battery} \union
               {Arithmetic(h, objects, day, dry).verdict : h \in ArithmeticHalves})

\* battery is the verdict of the evaluator's own known-answer checks.
RunAttestation(battery, objects, day, scope, dry) ==
  WorstInScope({ArithmeticVerdict(battery, objects, day, dry),
                Contamination(objects, day, scope, dry).verdict})

\* What the Director makes of the verdict it finds on a card.
ActionsWithheld(verdict) == Normalize(verdict) # "PASS"

-----------------------------------------------------------------------------
(* The promise, independent of the fold: the numbers of a date are         *)
(* established when every check that was dispatched for it left a passing  *)
(* body of that very date.  Only a contamination check that was switched   *)
(* off may have left nothing.                                              *)

Established(battery, objects, day, scope) ==
  /\ battery = "PASS"
  /\ \A h \in ArithmeticHalves : objects[h] = Body(day, "PASS")
  /\ \/ objects["contamination"] = Body(day, "PASS")
     \/ scope = "skipped" /\ objects["contamination"] = Absent

=============================================================================
