----------------------------- MODULE TileRecords -----------------------------
(***************************************************************************)
(* The vocabulary of a report-card tile (grading/metric_record.py,         *)
(* grading/module_agg.py, grading/artifacts.py).  A tile reads artifacts   *)
(* other programs left in S3, writes one record per component, and is      *)
(* graded by its worst critical record against a declared roster.          *)
(*                                                                         *)
(* A world w is what a tile finds: w.cells[a] is the newest instance of    *)
(* artifact a, its age in days and the kind of body it has; w.says[n] is   *)
(* what derive_status makes of component n's numbers when n is graded.     *)
(* The kinds every artifact shares are                                     *)
(*   "absent"  no instance, or one that does not parse                     *)
(*   "notok"   its own status field is not ok                              *)
(*   "bare"    ok, without the value the component reads                   *)
(*   "full"    ok, with it                                                 *)
(* Ages are days before the run date.  The records' values, intervals,     *)
(* trends and wording are abstracted to their status.                      *)
(***************************************************************************)
EXTENDS Naturals, FiniteSets

(* ------------------------------ artifacts ------------------------------ *)

Ages == {0, 5, 9, 11}

\* get_json_windowed walks back this many days from the run date.
Lookback == 10

Windowed(kinds) == {[age |-> 0, kind |-> "absent"]} \cup [age: Ages, kind: kinds]
Exact(kinds) == [age: {0}, kind: kinds \cup {"absent"}]
Fresh(kind) == [age |-> 0, kind |-> kind]

\* The body a windowed read hands the tile.
Body(w, a) == IF w.cells[a].age > Lookback THEN "absent" ELSE w.cells[a].kind

\* artifact_is_stale on the age of the instance the tile resolved.
Stale(w, a, maxAge) == Body(w, a) # "absent" /\ w.cells[a].age > maxAge

(* ------------------------------- records ------------------------------- *)

\* A RED of a component with an interval has three more forms.  RED-IN: the
\* point estimate is red, the target inside the interval.  RED-CI: only the bad
\* bound is past the red line, the target inside.  RED-OUT: only the bad bound,
\* the target outside.
Readings == {"GREEN", "WATCH", "RED", "N/A-LOW-N"}
IntervalReds == {"RED-IN", "RED-CI", "RED-OUT"}
WideReadings == Readings \cup IntervalReds

Record(n, crit, status, note) == [name |-> n, criticality |-> crit, status |-> status, note |-> note]

Measured(w, n, crit) ==
  IF w.says[n] \in IntervalReds THEN Record(n, crit, "RED", w.says[n])
  ELSE Record(n, crit, w.says[n], "")
Stated(n, crit, status) == Record(n, crit, status, "")
Missing(n, crit) == Record(n, crit, "N/A-MISSING-INPUT", "")
MissingStale(n, crit) == Record(n, crit, "N/A-MISSING-INPUT", "stale")
NotRun(n, crit) == Record(n, crit, "N/A-NOT-RUN", "")
NotImpl(n, crit) == Record(n, crit, "N/A-NOT-IMPL", "")
LowN(n, crit) == Record(n, crit, "N/A-LOW-N", "")
\* permanent_na_reason: a metric deliberately not built.
Accepted(n, crit) == Record(n, crit, "N/A-NOT-IMPL", "declared")

\* Variant: the age of an artifact is not read.
FromArtifactOfAnyAge(w, n, crit, a, maxAge) ==
  IF Body(w, a) = "full" THEN Measured(w, n, crit) ELSE Missing(n, crit)

\* The shape most components share: graded when the artifact is ok, has the
\* value and is young enough, else a missing input that may say it is stale.
FromArtifact(w, n, crit, a, maxAge) ==
  CASE Stale(w, a, maxAge) -> MissingStale(n, crit)
    [] ~Stale(w, a, maxAge) /\ Body(w, a) = "full" -> Measured(w, n, crit)
    [] OTHER -> Missing(n, crit)

\* An artifact whose own status field the tile does not read.
FromReport(w, n, crit, a, maxAge) ==
  IF ~Stale(w, a, maxAge) /\ Body(w, a) = "notok" THEN Measured(w, n, crit)
  ELSE FromArtifact(w, n, crit, a, maxAge)

(* ----------------------------- a tile's grade ---------------------------- *)

NotGraded == {"N/A-MISSING-INPUT", "N/A-NOT-IMPL", "N/A-LOW-N", "N/A-NOT-RUN"}
TileStatuses == {"GREEN", "WATCH", "RED", "N/A-UNREPORTED"} \cup NotGraded

\* Nothing was measured, of a component or of a whole tile.
Dark(status) == status \in NotGraded \cup {"N/A-UNREPORTED"}
IsNA(r) == Dark(r.status)

\* A roster member without a record counts as an unmeasured critical.
Unreported(n) == Record(n, "critical", "N/A-UNREPORTED", "")

\* Variant: only what the builder emitted is graded.
GradedAsEmitted(roster, records) == records

GradedAgainst(roster, records) ==
  records \cup {Unreported(n) : n \in roster \ {r.name : r \in records}}

Precedence == <<"N/A-MISSING-INPUT", "N/A-NOT-IMPL", "N/A-LOW-N", "N/A-NOT-RUN">>

\* Plurality of the N/A classes the records declare, in order of precedence.
UnmeasuredStatus(records) ==
  LET declared == {r \in records : r.status # "N/A-UNREPORTED"}
      Votes(s) == Cardinality({r \in declared : r.status = s})
      Leads(k) == \A j \in 1..4 : \/ Votes(Precedence[j]) < Votes(Precedence[k])
                                  \/ Votes(Precedence[j]) = Votes(Precedence[k]) /\ k <= j
  IN  IF declared = {} THEN "N/A-UNREPORTED" ELSE Precedence[CHOOSE k \in 1..4 : Leads(k)]

Has(records, crit, status) == \E r \in records : r.criticality = crit /\ r.status = status

\* Variant: a critical without a reading is left out of the roll-up.
ModuleStatusOfMeasured(records) ==
  CASE records = {} -> "N/A-NOT-RUN"
    [] records # {} /\ \A r \in records : IsNA(r) -> UnmeasuredStatus(records)
    [] OTHER ->
         CASE Has(records, "critical", "RED") -> "RED"
           [] ~Has(records, "critical", "RED")
              /\ (Has(records, "critical", "WATCH") \/ Has(records, "supporting", "RED")) -> "WATCH"
           [] OTHER -> "GREEN"

ModuleStatus(records) ==
  CASE records = {} -> "N/A-NOT-RUN"
    [] records # {} /\ \A r \in records : IsNA(r) -> UnmeasuredStatus(records)
    [] OTHER ->
         CASE Has(records, "critical", "RED") -> "RED"
           [] ~Has(records, "critical", "RED")
              /\ \/ Has(records, "critical", "WATCH")
                 \/ Has(records, "supporting", "RED")
                 \/ \E r \in records : r.criticality = "critical" /\ IsNA(r) -> "WATCH"
           [] OTHER -> "GREEN"

BuildTile(roster, records) ==
  LET graded == GradedAgainst(roster, records)
  IN  [components |-> graded,
       status |-> ModuleStatus(graded),
       n_components |-> Cardinality(graded),
       n_graded |-> Cardinality({r \in graded : ~IsNA(r)}),
       unreported |-> {r.name : r \in {x \in graded : x.status = "N/A-UNREPORTED"}}]
=============================================================================
