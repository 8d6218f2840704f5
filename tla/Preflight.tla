------------------------------ MODULE Preflight ------------------------------
(***************************************************************************)
(* The structure preflight: schema-preflight.ts computes findings and the  *)
(* coverage of each rule from a snapshot; SchemaPreflightPanel.tsx shows   *)
(* them, and preflight-reviews.ts keeps why the user ignored a finding,    *)
(* per source and fingerprint, on a device that may refuse to write.       *)
(***************************************************************************)
EXTENDS Naturals, Sequences, FiniteSets, TLC, Functions, FiniteSetsExt

CONSTANTS Snapshot,   \* records of source, fingerprint, dialect and tables
          Malformed,  \* a stored record that cannot be read
          None,
          Version,    \* editions of the rules, which word their evidence
          MaxSteps

VARIABLES shown,    \* the snapshot of the panel
          names,    \* the optional naming rule
          run,      \* the last report and what it was computed for, or None
          edited,   \* notes of this session, or None
          loaded,   \* notes read when the panel was opened
          disk,     \* notes stored for a source and a fingerprint
          version, steps,
          given, restored  \* what the user ever ignored, with its evidence, and ever restored

vars == <<shown, names, run, edited, loaded, disk, version, steps, given, restored>>

-----------------------------------------------------------------------------
(* The rules                                                               *)

\* comparePostgres: one type, one family of types, or two families.
ComparePostgres(a, b) ==
  CASE ~(a.builtin /\ b.builtin) \/ None \in {a.family, b.family} -> "insufficient"
    [] a.name = b.name -> "agrees"
    [] a.family = b.family -> "insufficient"
    [] OTHER -> "suspected"

\* compareMysql: integers and decimals whose size and sign are known.
CompareMysql(a, b) ==
  CASE ~(a.builtin /\ b.builtin) \/ a.family # b.family \/ a.family \notin {"integer", "decimal"} -> "insufficient"
    [] ~(a.exact /\ b.exact) -> "insufficient"
    [] a.name = b.name /\ a.signed = b.signed -> "agrees"
    [] OTHER -> "suspected"

Compare(s, a, b) == IF s.dialect = "postgreSql" THEN ComparePostgres(a, b) ELSE CompareMysql(a, b)

Distinct(list) == \A i, j \in DOMAIN list : list[i] = list[j] => i = j
Within(table, list) == Range(list) \subseteq DOMAIN table.columns

Keyed(s) == {t \in s.tables : t.key # None}
References(s) == UNION {{<<t, f>> : f \in t.foreign} : t \in s.tables}
Target(s, f) == {t \in s.tables : t.name = f.to}

\* A table whose columns SQLite could not tell.
Unread(s, k) == k[1].unread \/ \E t \in Target(s, k[2]) : t.unread

Sound(s, k) ==
  /\ Len(k[2].columns) > 0 /\ Len(k[2].columns) = Len(k[2].refers)
  /\ Distinct(k[2].columns) /\ Distinct(k[2].refers)
  /\ Within(k[1], k[2].columns) /\ \A t \in Target(s, k[2]) : Within(t, k[2].refers)

Typed(s, k) == s.dialect # "sqlite" /\ ~Unread(s, k)
Comparable(s, k) == Sound(s, k) /\ Target(s, k[2]) # {}
Pairs(s, k) ==
  {[key |-> k, at |-> i,
    outcome |-> LET t == CHOOSE t \in Target(s, k[2]) : TRUE
                IN Compare(s, k[1].columns[k[2].columns[i]], t.columns[k[2].refers[i]])] :
     i \in DOMAIN k[2].columns}
Compared(s) == UNION {Pairs(s, k) : k \in {k \in References(s) : Typed(s, k) /\ Comparable(s, k)}}

Finding(rule, t, object, detail, outcome) ==
  [rule |-> rule, table |-> t.name, object |-> object, detail |-> detail, outcome |-> outcome]

Findings(s, hints) ==
  {Finding("table-primary-key", t, None, "missing", "design") : t \in {t \in s.tables \ Keyed(s) : t.kind # "foreign"}}
  \cup {Finding("key-references", t, "key", "pk-columns", "suspected") :
          t \in {t \in Keyed(s) : t.key = <<>> \/ ~Distinct(t.key) \/ ~Within(t, t.key)}}
  \cup {Finding("key-references", k[1], k[2].name, "columns-unavailable", "insufficient") :
          k \in {k \in References(s) : Unread(s, k)}}
  \cup {Finding("key-references", k[1], k[2].name, "fk-columns", "suspected") :
          k \in {k \in References(s) : ~Unread(s, k) /\ ~Sound(s, k)}}
  \cup {Finding("key-references", k[1], k[2].name, "target-unavailable", "insufficient") :
          k \in {k \in References(s) : ~Unread(s, k) /\ Target(s, k[2]) = {}}}
  \cup {Finding("fk-types", p.key[1], p.key[2].name, p.at, p.outcome) : p \in {p \in Compared(s) : p.outcome # "agrees"}}
  \cup (IF hints THEN {Finding("name-spaces", t, None, "table", "style") : t \in {t \in s.tables : t.spaced}} ELSE {})

\* What each rule looked at: tables, keys, pairs of columns, names.  "fk-types" is the rule of the
\* dialect; the one of the other dialect skips every key.
Coverage(s, hints) ==
  LET refs == References(s)
      lost == {k \in refs : Unread(s, k) \/ Target(s, k[2]) = {}}
      vain == {k \in refs : Typed(s, k) /\ ~Comparable(s, k)}
      dim  == {p \in Compared(s) : p.outcome = "insufficient"}
  IN [rule \in {"table-primary-key", "key-references", "fk-types", "name-spaces"} |->
        CASE rule = "table-primary-key" ->
               [checked |-> Cardinality({t \in s.tables : t.kind # "foreign"}), incomplete |-> 0,
                skipped |-> Cardinality({t \in s.tables : t.kind = "foreign"})]
          [] rule = "key-references" ->
               [checked |-> Cardinality(Keyed(s)) + Cardinality(refs \ lost), incomplete |-> Cardinality(lost), skipped |-> 0]
          [] rule = "fk-types" ->
               [checked |-> Cardinality(Compared(s) \ dim), incomplete |-> Cardinality(dim) + Cardinality(vain),
                skipped |-> IF s.dialect = "sqlite" THEN Cardinality(refs) ELSE 0]
          [] OTHER ->
               [checked |-> IF hints THEN MapThenSumSet(LAMBDA t : 1 + Cardinality(DOMAIN t.columns), s.tables) ELSE 0,
                incomplete |-> 0, skipped |-> 0]]

\* mutant
StatusOfChecked(c) == IF c.checked > 0 THEN "checked" ELSE IF c.incomplete > 0 THEN "partial" ELSE "skipped"
StatusOf(c) == IF c.incomplete > 0 THEN "partial" ELSE IF c.checked > 0 THEN "checked" ELSE "skipped"

\* runSchemaPreflight
Report(s, hints) == [findings |-> Findings(s, hints), coverage |-> Coverage(s, hints)]
-----------------------------------------------------------------------------
(* The panel                                                               *)

Scope(s) == <<s.source, s.fingerprint>>
NoNotes == [id \in {} |-> None]

\* What identifies a finding, and what it rests on.
Id(f) == [f EXCEPT !.outcome = None]
Evidence(f) == <<f.outcome, version>>

\* mutant
FindingReviewed(f, notes) == Id(f) \in DOMAIN notes
\* findingReview
FindingReview(f, notes) == Id(f) \in DOMAIN notes /\ notes[Id(f)] = Evidence(f)

\* loadPreflightReviews: a record that cannot be read counts as none.
Load(s) == IF disk[Scope(s)] = Malformed THEN NoNotes ELSE disk[Scope(s)]

Reviews == IF edited # None THEN edited ELSE loaded
CurrentRun == run # None /\ run.of = <<shown, names, version>>
Ignored == IF CurrentRun THEN {f \in run.report.findings : FindingReview(f, Reviews)} ELSE {}
User == steps < MaxSteps /\ steps' = steps + 1

Init ==
  /\ shown \in Snapshot /\ names = FALSE /\ run = None /\ edited = None
  /\ disk \in [{Scope(s) : s \in Snapshot} -> {NoNotes, Malformed}]
  /\ version \in Version
  /\ loaded = NoNotes /\ steps = 0 /\ given = {} /\ restored = {}

\* Another snapshot: the panel starts anew and reads the notes of its own scope.
Show ==
  /\ \E s \in Snapshot : shown' = s /\ loaded' = Load(s) /\ s # shown
  /\ User /\ names' = FALSE /\ run' = None /\ edited' = None
  /\ UNCHANGED <<disk, version, given, restored>>

\* The application starts again, with rules that word their evidence otherwise.
Upgrade ==
  /\ \E v \in Version \ {version} : version' = v
  /\ User /\ names' = FALSE /\ run' = None /\ edited' = None /\ loaded' = Load(shown)
  /\ UNCHANGED <<shown, disk, given, restored>>

Toggle ==
  /\ User /\ names' = ~names
  /\ UNCHANGED <<shown, run, edited, loaded, disk, version, given, restored>>
RunAgain ==
  /\ CurrentRun /\ User /\ run' = None
  /\ UNCHANGED <<shown, names, edited, loaded, disk, version, given, restored>>

\* The next frame; the frames asked for before were cancelled.
Frame ==
  /\ ~CurrentRun
  /\ run' = [of |-> <<shown, names, version>>, report |-> Report(shown, names)]
  /\ UNCHANGED <<shown, names, edited, loaded, disk, version, steps, given, restored>>

\* persistReviews: the session keeps what the device refuses.
Persist(notes, ok) ==
  /\ edited' = notes
  /\ disk' = IF ok THEN [disk EXCEPT ![Scope(shown)] = notes] ELSE disk

\* mutant
NotesBeside(f) == (Id(f) :> Evidence(f)) @@ loaded
NotesWith(f) == (Id(f) :> Evidence(f)) @@ Reviews

\* updateReview: a reason was given, or the finding is restored.
Ignore ==
  /\ CurrentRun /\ User
  /\ \E f \in run.report.findings \ Ignored, ok \in BOOLEAN :
       Persist(NotesWith(f), ok) /\ given' = given \cup {<<Scope(shown), Id(f), Evidence(f)>>}
  /\ UNCHANGED <<shown, names, run, loaded, version, restored>>

Restore ==
  /\ CurrentRun /\ User
  /\ \E f \in Ignored, ok \in BOOLEAN :
       Persist(Restrict(Reviews, DOMAIN Reviews \ {Id(f)}), ok) /\ restored' = restored \cup {<<Scope(shown), Id(f)>>}
  /\ UNCHANGED <<shown, names, run, loaded, version, given>>

\* Retry: of a save that failed; of a load otherwise.
Retry ==
  /\ User
  /\ \/ edited # None /\ \E ok \in BOOLEAN : Persist(edited, ok) /\ UNCHANGED loaded
     \/ edited = None /\ loaded' = Load(shown) /\ UNCHANGED <<edited, disk>>
  /\ UNCHANGED <<shown, names, run, version, given, restored>>

Next == Show \/ Upgrade \/ Toggle \/ RunAgain \/ Frame \/ Ignore \/ Restore \/ Retry

Spec == Init /\ [][Next]_vars

-----------------------------------------------------------------------------
Notes == {n \in {NoNotes} \cup {disk[k] : k \in DOMAIN disk} \cup {Reviews} : n # Malformed}

TypeOK ==
  /\ shown \in Snapshot /\ names \in BOOLEAN /\ version \in Version /\ steps \in 0..MaxSteps
  /\ run # None => run.report = Report(run.of[1], run.of[2]) /\ run.of[1] = shown
  /\ \A n \in Notes : \A id \in DOMAIN n : id.outcome = None /\ n[id][2] \in Version

\* Nothing is reported as checked that could not be checked: a rule with a finding for lack of
\* information says that it is partial, and every key that was captured is counted once.
CoverageIsHonest ==
  CurrentRun =>
    LET c == run.report.coverage
    IN /\ \A f \in run.report.findings : f.outcome = "insufficient" => StatusOf(c[f.rule]) = "partial"
       /\ c["key-references"].checked + c["key-references"].incomplete =
            Cardinality(Keyed(shown)) + Cardinality(References(shown))
       /\ c["table-primary-key"].checked + c["table-primary-key"].skipped = Cardinality(shown.tables)

\* A finding is hidden only by a reason given to it, for its source, its structure and its evidence.
HiddenForReason == \A f \in Ignored : <<Scope(shown), Id(f), Evidence(f)>> \in given

\* A stored reason goes only when its own finding was restored.
NotesAreKept ==
  [][\A k \in DOMAIN disk : disk[k] # Malformed =>
       \A id \in DOMAIN disk[k] \ DOMAIN disk'[k] : <<k, id>> \in restored']_vars
=============================================================================
