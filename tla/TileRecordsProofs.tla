------------------------- MODULE TileRecordsProofs -------------------------
(***************************************************************************)
(* Facts about the vocabulary of a tile: what its records bear, what its   *)
(* status says of them, and what losing an input can do to it.             *)
(***************************************************************************)
EXTENDS TileRecords, FiniteSetTheorems, TLAPS

-----------------------------------------------------------------------------
(* A tile's grade. *)

\* One of four counts leads.
LEMMA Leader ==
  ASSUME NEW v \in [1..4 -> Nat]
  PROVE  \E k \in 1..4 : \A j \in 1..4 : v[j] < v[k] \/ (v[j] = v[k] /\ k <= j)
<1>1. v[1] \in Nat /\ v[2] \in Nat /\ v[3] \in Nat /\ v[4] \in Nat
  OBVIOUS
<1>2. \A j \in 1..4 : j = 1 \/ j = 2 \/ j = 3 \/ j = 4
  OBVIOUS
<1> QED
  BY <1>1, <1>2

\* A tile without one measured record is dark, whatever its records say why.
LEMMA UnmeasuredIsDark ==
  ASSUME NEW records, IsFiniteSet(records)
  PROVE  Dark(UnmeasuredStatus(records))
<1> DEFINE declared == {r \in records : r.status # "N/A-UNREPORTED"}
           Votes(s) == Cardinality({r \in declared : r.status = s})
           Leads(k) == \A j \in 1..4 : \/ Votes(Precedence[j]) < Votes(Precedence[k])
                                       \/ Votes(Precedence[j]) = Votes(Precedence[k]) /\ k <= j
           v == [k \in 1..4 |-> Votes(Precedence[k])]
<1>1. CASE declared = {}
  BY <1>1 DEF UnmeasuredStatus, Dark
<1>2. CASE declared # {}
  <2>1. \A s : {r \in declared : r.status = s} \in SUBSET records
    OBVIOUS
  <2>2. \A s : Votes(s) \in Nat
    BY <2>1, FS_Subset, FS_CardinalityType
  <2>3. v \in [1..4 -> Nat]
    BY <2>2
  <2>4. \E k \in 1..4 : Leads(k)
    <3> HIDE DEF Votes
    <3> QED
      BY <2>3, Leader
  <2>5. (CHOOSE k \in 1..4 : Leads(k)) \in 1..4
    <3> HIDE DEF Leads
    <3> QED
      BY <2>4
  <2>6. UnmeasuredStatus(records) = Precedence[CHOOSE k \in 1..4 : Leads(k)]
    BY <1>2 DEF UnmeasuredStatus
  <2>7. \A k \in 1..4 : Precedence[k] \in NotGraded
    BY DEF Precedence, NotGraded
  <2> QED
    BY <2>5, <2>6, <2>7 DEF Dark
<1> QED
  BY <1>1, <1>2

\* What a tile's status excludes: a tile that is not dark has a measured
\* record, one that is neither dark nor RED has no critical RED, and a GREEN
\* one no critical record that is anything but GREEN.
LEMMA StatusExcludes ==
  ASSUME NEW records, IsFiniteSet(records), ~Dark(ModuleStatus(records))
  PROVE  /\ \E r \in records : ~IsNA(r)
         /\ ModuleStatus(records) # "RED" =>
              \A r \in records : r.criticality = "critical" => r.status # "RED"
         /\ ModuleStatus(records) \notin {"RED", "WATCH"} =>
              \A r \in records : r.criticality = "critical" => r.status # "WATCH" /\ ~IsNA(r)
<1>1. records # {}
  BY DEF ModuleStatus, Dark, NotGraded
<1>2. \E r \in records : ~IsNA(r)
  <2> SUFFICES ASSUME \A r \in records : IsNA(r) PROVE FALSE
    OBVIOUS
  <2>1. ModuleStatus(records) = UnmeasuredStatus(records)
    BY <1>1 DEF ModuleStatus
  <2> QED
    BY <2>1, UnmeasuredIsDark
<1>3. ModuleStatus(records) =
        CASE Has(records, "critical", "RED") -> "RED"
          [] ~Has(records, "critical", "RED")
             /\ \/ Has(records, "critical", "WATCH")
                \/ Has(records, "supporting", "RED")
                \/ \E r \in records : r.criticality = "critical" /\ IsNA(r) -> "WATCH"
          [] OTHER -> "GREEN"
  BY <1>1, <1>2 DEF ModuleStatus
<1> QED
  BY <1>2, <1>3 DEF Has

\* Two sets of records that differ only in a critical one without a reading
\* grade alike, or neither has a reading at all.
LEMMA UnreadAlike ==
  ASSUME NEW others, NEW a, NEW b, IsFiniteSet(others),
         IsNA(a) /\ IsNA(b), a.criticality = "critical", b.criticality = "critical"
  PROVE  \/ ModuleStatus(others \cup {a}) = ModuleStatus(others \cup {b})
         \/ Dark(ModuleStatus(others \cup {a})) /\ Dark(ModuleStatus(others \cup {b}))
<1> DEFINE worst == IF Has(others, "critical", "RED") THEN "RED" ELSE "WATCH"
<1>1. CASE \A r \in others : IsNA(r)
  <2>1. ASSUME NEW x, IsNA(x) PROVE Dark(ModuleStatus(others \cup {x}))
    <3>1. IsFiniteSet(others \cup {x})
      BY FS_Singleton, FS_Union
    <3>2. ModuleStatus(others \cup {x}) = UnmeasuredStatus(others \cup {x})
      BY <1>1, <2>1 DEF ModuleStatus
    <3> QED
      BY <3>1, <3>2, UnmeasuredIsDark
  <2> QED
    BY <2>1
<1>2. CASE \E r \in others : ~IsNA(r)
  <2>1. ASSUME NEW x, IsNA(x), x.criticality = "critical"
        PROVE  ModuleStatus(others \cup {x}) = worst
    <3> DEFINE s == others \cup {x}
    <3>1. Has(s, "critical", "RED") <=> Has(others, "critical", "RED")
      BY <2>1 DEF Has, IsNA, Dark, NotGraded
    <3>2. \E r \in s : r.criticality = "critical" /\ IsNA(r)
      BY <2>1
    <3>3. ModuleStatus(s) =
            CASE Has(s, "critical", "RED") -> "RED"
              [] ~Has(s, "critical", "RED")
                 /\ \/ Has(s, "critical", "WATCH")
                    \/ Has(s, "supporting", "RED")
                    \/ \E r \in s : r.criticality = "critical" /\ IsNA(r) -> "WATCH"
              [] OTHER -> "GREEN"
      BY <1>2 DEF ModuleStatus
    <3>4. ModuleStatus(s) = worst
      <4> HIDE DEF s
      <4> QED
        BY <3>1, <3>2, <3>3
    <3> QED
      BY <3>4
  <2> QED
    BY <2>1
<1> QED
  BY <1>1, <1>2

LEMMA FiniteImage ==
  ASSUME NEW S, IsFiniteSet(S), NEW f, DOMAIN f = S
  PROVE  IsFiniteSet({f[x] : x \in S})
<1> DEFINE g == [x \in S |-> f[x]]
           T == {f[x] : x \in S}
<1>1. g \in Surjection(S, T)
  BY DEF Surjection
<1> QED
  BY <1>1, FS_Surjection

\* Five at a time: the component lists are enumerations.
LEMMA FewAreFinite ==
  \A a, b, c, d, e : IsFiniteSet({a, b, c, d, e})
<1> SUFFICES ASSUME NEW a, NEW b, NEW c, NEW d, NEW e
             PROVE  IsFiniteSet({a, b, c, d, e})
  OBVIOUS
<1>1. IsFiniteSet({a}) /\ IsFiniteSet({a} \cup {b})
  BY FS_Singleton, FS_Union
<1>2. IsFiniteSet({a} \cup {b} \cup {c}) /\ IsFiniteSet({d} \cup {e})
  BY <1>1, FS_Singleton, FS_Union
<1>3. IsFiniteSet(({a} \cup {b} \cup {c}) \cup ({d} \cup {e}))
  BY <1>2, FS_Union
<1>4. {a, b, c, d, e} = ({a} \cup {b} \cup {c}) \cup ({d} \cup {e})
  OBVIOUS
<1> QED
  BY <1>3, <1>4

LEMMA FourAreFinite ==
  \A a, b, c, d : IsFiniteSet({a, b, c, d})
<1> SUFFICES ASSUME NEW a, NEW b, NEW c, NEW d PROVE IsFiniteSet({a, b, c, d})
  OBVIOUS
<1>1. {a, b, c, d} = {a, b, c, d, d}
  OBVIOUS
<1> QED
  BY <1>1, FewAreFinite

\* A tile graded against a finite roster has finitely many records.
LEMMA GradedIsFinite ==
  ASSUME NEW roster, NEW records, IsFiniteSet(roster), IsFiniteSet(records)
  PROVE  IsFiniteSet(GradedAgainst(roster, records))
<1> DEFINE silent == roster \ {r.name : r \in records}
           stub == [n \in silent |-> Unreported(n)]
<1>1. IsFiniteSet(silent)
  <2>1. silent \in SUBSET roster
    OBVIOUS
  <2> QED
    BY <2>1, FS_Subset
<1>2. IsFiniteSet({stub[n] : n \in silent})
  <2>1. DOMAIN stub = silent
    OBVIOUS
  <2> HIDE DEF stub, silent
  <2> QED
    BY <1>1, <2>1, FiniteImage
<1>3. GradedAgainst(roster, records) = records \cup {stub[n] : n \in silent}
  BY DEF GradedAgainst
<1> HIDE DEF silent, stub
<1> QED
  BY <1>2, <1>3, FS_Union

\* What a status says of the records: RED has a critical one, and GREEN is
\* every critical measured and good, and no supporting one RED.
LEMMA RedHasACritical ==
  ASSUME NEW records, IsFiniteSet(records), ModuleStatus(records) = "RED"
  PROVE  Has(records, "critical", "RED")
<1>1. ~Dark(ModuleStatus(records))
  BY DEF Dark, NotGraded
<1>2. records # {} /\ \E r \in records : ~IsNA(r)
  BY <1>1, StatusExcludes DEF ModuleStatus, Dark, NotGraded
<1> QED
  BY <1>2 DEF ModuleStatus

LEMMA GreenSays ==
  ASSUME NEW records, IsFiniteSet(records)
  PROVE  ModuleStatus(records) = "GREEN" <=>
           /\ \E r \in records : ~IsNA(r)
           /\ \A r \in records : r.criticality = "critical" =>
                r.status # "RED" /\ r.status # "WATCH" /\ ~IsNA(r)
           /\ ~Has(records, "supporting", "RED")
<1>1. CASE \E r \in records : ~IsNA(r)
  <2>1. ModuleStatus(records) =
          CASE Has(records, "critical", "RED") -> "RED"
            [] ~Has(records, "critical", "RED")
               /\ \/ Has(records, "critical", "WATCH")
                  \/ Has(records, "supporting", "RED")
                  \/ \E r \in records : r.criticality = "critical" /\ IsNA(r) -> "WATCH"
            [] OTHER -> "GREEN"
    BY <1>1 DEF ModuleStatus
  <2> QED
    BY <1>1, <2>1 DEF Has
<1>2. CASE \A r \in records : IsNA(r)
  <2>1. Dark(ModuleStatus(records))
    <3>1. CASE records = {}
      BY <3>1 DEF ModuleStatus, Dark, NotGraded
    <3>2. CASE records # {}
      BY <1>2, <3>2, UnmeasuredIsDark DEF ModuleStatus
    <3> QED
      BY <3>1, <3>2
  <2> QED
    BY <1>2, <2>1 DEF Dark, NotGraded
<1> QED
  BY <1>1, <1>2

-----------------------------------------------------------------------------
(* The records of components. *)

\* Every way of writing a record bears the component's name and the
\* criticality it is written under; what is missing has no reading.
LEMMA Bears ==
  ASSUME NEW n, NEW crit, NEW w, NEW s
  PROVE  /\ Measured(w, n, crit).name = n /\ Measured(w, n, crit).criticality = crit
         /\ Stated(n, crit, s).name = n /\ Stated(n, crit, s).criticality = crit
         /\ Stated(n, crit, s).status = s
         /\ Missing(n, crit).name = n /\ Missing(n, crit).criticality = crit
         /\ MissingStale(n, crit).name = n /\ MissingStale(n, crit).criticality = crit
         /\ NotRun(n, crit).name = n /\ NotRun(n, crit).criticality = crit
         /\ NotImpl(n, crit).name = n /\ NotImpl(n, crit).criticality = crit
         /\ LowN(n, crit).name = n /\ LowN(n, crit).criticality = crit
         /\ Accepted(n, crit).name = n /\ Accepted(n, crit).criticality = crit
         /\ Unreported(n).name = n /\ Unreported(n).criticality = "critical"
         /\ Accepted(n, crit).note = "declared"
BY DEF Measured, Stated, Missing, MissingStale, NotRun, NotImpl, LowN, Accepted, Unreported, Record

LEMMA NothingRead ==
  ASSUME NEW n, NEW crit
  PROVE  /\ IsNA(Missing(n, crit)) /\ IsNA(MissingStale(n, crit)) /\ IsNA(NotRun(n, crit))
         /\ IsNA(NotImpl(n, crit)) /\ IsNA(LowN(n, crit)) /\ IsNA(Accepted(n, crit))
         /\ IsNA(Unreported(n))
BY DEF Missing, MissingStale, NotRun, NotImpl, LowN, Accepted, Unreported, Record, IsNA, Dark, NotGraded

LEMMA FromArtifactBears ==
  ASSUME NEW w, NEW n, NEW crit, NEW a, NEW maxAge
  PROVE  /\ FromArtifact(w, n, crit, a, maxAge).name = n
         /\ FromArtifact(w, n, crit, a, maxAge).criticality = crit
         /\ FromReport(w, n, crit, a, maxAge).name = n
         /\ FromReport(w, n, crit, a, maxAge).criticality = crit
<1>1. /\ FromArtifact(w, n, crit, a, maxAge).name = n
      /\ FromArtifact(w, n, crit, a, maxAge).criticality = crit
  <2> DEFINE full == ~Stale(w, a, maxAge) /\ Body(w, a) = "full"
  <2>1. FromArtifact(w, n, crit, a, maxAge)
          \in {MissingStale(n, crit), Measured(w, n, crit), Missing(n, crit)}
    <3>1. CASE Stale(w, a, maxAge)
      BY <3>1 DEF FromArtifact
    <3>2. CASE full
      BY <3>2 DEF FromArtifact
    <3>3. CASE ~Stale(w, a, maxAge) /\ ~full
      BY <3>3 DEF FromArtifact
    <3> QED
      BY <3>1, <3>2, <3>3
  <2> QED
    BY <2>1, Bears
<1>2. FromReport(w, n, crit, a, maxAge)
        \in {Measured(w, n, crit), FromArtifact(w, n, crit, a, maxAge)}
  BY DEF FromReport
<1>3. Measured(w, n, crit).name = n /\ Measured(w, n, crit).criticality = crit
  BY Bears
<1> QED
  BY <1>1, <1>2, <1>3

-----------------------------------------------------------------------------
(* Losing an input. *)

\* The record y of a component that has lost an input is the record x it had,
\* or has no reading and weighs no less if x was critical.
Fades(x, y) ==
  y = x \/ (y.name = x.name /\ IsNA(y) /\ (x.criticality = "critical" => y.criticality = "critical"))

\* The same of the records of a tile.
AllFade(old, new) ==
  /\ \A y \in new : IsNA(y) \/ y \in old
  /\ \A x \in old : \E y \in new : Fades(x, y)

\* A tile whose records fade turns GREEN only by hiding a supporting RED.
LEMMA FadingHides ==
  ASSUME NEW old, NEW new, IsFiniteSet(old), IsFiniteSet(new), AllFade(old, new),
         ModuleStatus(old) # "GREEN", ModuleStatus(new) = "GREEN"
  PROVE  \E r \in old : /\ r.criticality = "supporting" /\ r.status = "RED"
                        /\ \E s \in new : s.name = r.name /\ IsNA(s)
<1>1. /\ \E r \in new : ~IsNA(r)
      /\ \A r \in new : r.criticality = "critical" =>
           r.status # "RED" /\ r.status # "WATCH" /\ ~IsNA(r)
      /\ ~Has(new, "supporting", "RED")
  BY GreenSays
<1>2. \E r \in old : ~IsNA(r)
  BY <1>1 DEF AllFade
<1>3. \A x \in old : x.criticality = "critical" =>
        x.status # "RED" /\ x.status # "WATCH" /\ ~IsNA(x)
  BY <1>1 DEF AllFade, Fades
<1>4. Has(old, "supporting", "RED")
  BY <1>2, <1>3, GreenSays
<1> QED
  BY <1>1, <1>4 DEF AllFade, Fades, Has

\* Grading against the roster keeps it so, when only components that were
\* there before are there after: one that is not there is a critical stub.
LEMMA GradedFade ==
  ASSUME NEW roster, NEW old, NEW new,
         \A y \in new : y \in old \/ (IsNA(y) /\ \E x \in old : x.name = y.name),
         \A x \in old : \/ \E y \in new : Fades(x, y)
                        \/ x.name \in roster /\ \A y \in new : y.name # x.name
  PROVE  AllFade(GradedAgainst(roster, old), GradedAgainst(roster, new))
<1> DEFINE gold == GradedAgainst(roster, old)
           gnew == GradedAgainst(roster, new)
<1>1. \A n : IsNA(Unreported(n)) /\ Unreported(n).name = n /\ Unreported(n).criticality = "critical"
  BY Bears, NothingRead
<1>2. ASSUME NEW y \in gnew PROVE IsNA(y) \/ y \in gold
  BY <1>1 DEF GradedAgainst
<1>3. ASSUME NEW x \in gold PROVE \E y \in gnew : Fades(x, y)
  <2>1. CASE x \in old
    <3>1. CASE \E y \in new : Fades(x, y)
      BY <3>1 DEF GradedAgainst
    <3>2. CASE x.name \in roster /\ \A y \in new : y.name # x.name
      <4>1. Unreported(x.name) \in gnew
        BY <3>2 DEF GradedAgainst
      <4> QED
        BY <1>1, <4>1 DEF Fades
    <3> QED
      BY <2>1, <3>1, <3>2
  <2>2. CASE x \notin old
    <3>1. PICK n \in roster : x = Unreported(n) /\ \A r \in old : r.name # n
      BY <2>2 DEF GradedAgainst
    <3>2. \A y \in new : y.name # n
      BY <3>1
    <3>3. x \in gnew
      BY <3>1, <3>2 DEF GradedAgainst
    <3> QED
      BY <3>3 DEF Fades
  <2> QED
    BY <2>1, <2>2
<1> QED
  BY <1>2, <1>3 DEF AllFade

\* Kinds of an artifact nothing can be read from.
Nothing == {"absent", "denied", "unreadable", "unmeasured"}

\* The artifact d is what c was, or older, or nothing of it is left.
Fainter(c, d) == d = c \/ (d.kind = c.kind /\ c.age < d.age) \/ d.kind \in Nothing

\* The world v is w after losing inputs.
Loses(w, v) ==
  /\ v.says = w.says
  /\ \A a \in DOMAIN w.cells : /\ w.cells[a].age \in Nat /\ v.cells[a].age \in Nat
                               /\ Fainter(w.cells[a], v.cells[a])

\* What a windowed read sees of it is the same body, not younger, or nothing.
LEMMA BodyFades ==
  ASSUME NEW w, NEW v, Loses(w, v), NEW a \in DOMAIN w.cells, NEW maxAge \in Nat
  PROVE  \/ Body(v, a) = Body(w, a) /\ (Stale(w, a, maxAge) => Stale(v, a, maxAge))
         \/ Body(v, a) \in Nothing
BY DEF Loses, Fainter, Body, Stale, Lookback, Nothing

\* A record written from an artifact fades with it.
LEMMA FromArtifactFades ==
  ASSUME NEW w, NEW v, Loses(w, v), NEW n, NEW crit, NEW a \in DOMAIN w.cells, NEW maxAge \in Nat
  PROVE  /\ Fades(FromArtifact(w, n, crit, a, maxAge), FromArtifact(v, n, crit, a, maxAge))
         /\ Fades(FromReport(w, n, crit, a, maxAge), FromReport(v, n, crit, a, maxAge))
<1> DEFINE x == FromArtifact(w, n, crit, a, maxAge)
           y == FromArtifact(v, n, crit, a, maxAge)
           p == FromReport(w, n, crit, a, maxAge)
           q == FromReport(v, n, crit, a, maxAge)
<1>1. x.name = n /\ x.criticality = crit /\ y.name = n /\ y.criticality = crit
  BY FromArtifactBears
<1>2. p.name = n /\ p.criticality = crit /\ q.name = n /\ q.criticality = crit
  BY FromArtifactBears
<1>3. Measured(v, n, crit) = Measured(w, n, crit)
  BY DEF Measured, Loses
<1>4. CASE Stale(v, a, maxAge)
  <2>1. y = MissingStale(n, crit) /\ q = y
    BY <1>4 DEF FromArtifact, FromReport
  <2>2. Fades(x, y) /\ Fades(p, q)
    <3> HIDE DEF x, y, p, q
    <3> QED
      BY <1>1, <1>2, <2>1, NothingRead DEF Fades
  <2> QED
    BY <2>2
<1>5. CASE ~Stale(v, a, maxAge) /\ Body(v, a) \in Nothing
  <2>1. y = Missing(n, crit) /\ q = y
    BY <1>5 DEF FromArtifact, FromReport, Nothing
  <2>2. Fades(x, y) /\ Fades(p, q)
    <3> HIDE DEF x, y, p, q
    <3> QED
      BY <1>1, <1>2, <2>1, NothingRead DEF Fades
  <2> QED
    BY <2>2
<1>6. CASE ~Stale(v, a, maxAge) /\ Body(v, a) \notin Nothing
  <2>1. Body(v, a) = Body(w, a) /\ ~Stale(w, a, maxAge)
    BY <1>6, BodyFades
  <2>2. y = x /\ q = p
    BY <1>3, <1>6, <2>1 DEF FromArtifact, FromReport
  <2> QED
    BY <2>2 DEF Fades
<1> QED
  BY <1>4, <1>5, <1>6

=============================================================================
