------------------------- MODULE TelemetryImport --------------------------
(***************************************************************************)
(* Telemetry intake: seed_assets, import_fixture and source_health of      *)
(* telemetry.py.  Imports are command-line processes that nothing keeps    *)
(* from running side by side; source_health runs in a request thread.      *)
(*                                                                         *)
(* An import reads with autocommitted SELECTs until its first write.  The  *)
(* INSERT of its batch row takes SQLite's write lock, so the identities    *)
(* are read and everything is written inside one transaction.  What was    *)
(* read before the lock is the batch (to recognise a replay) and the two   *)
(* Asset objects: the session's identity map keeps their last_observed_at, *)
(* and db.get(Asset, ...) under the lock returns that old value.           *)
(*                                                                         *)
(* A replayed file, a file out of bounds and a database without exactly    *)
(* two assets change nothing: they are the guards of the read steps.       *)
(***************************************************************************)
EXTENDS Integers, Sequences, FiniteSets, Functions, FiniteSetsExt

CONSTANTS
  Fixtures,    \* files, by content digest
  SourceOf,    \* SourceOf[f]: the source type f is imported as
  Lines,       \* Lines[f]: the lines of f
  Assets,      \* the two seeded lab assets
  Importers,   \* command-line processes
  StaleAfter,  \* settings.source_stale_hours
  Nows,        \* the times at which source_health is asked
  MaxStamps,   \* bound: how many batch rows are stamped with imported_at
  None

Sources == {"LINUX_AUTH", "SURICATA_EVE"}

ASSUME SourceOfAssumption == SourceOf \in [Fixtures -> Sources]
ASSUME LinesAssumption == \A f \in Fixtures :
  /\ Lines[f] \in Seq(Range(Lines[f]))
  /\ \A k \in DOMAIN Lines[f] : Lines[f][k].wall \in Int /\ Lines[f][k].offset \in Int
ASSUME NoneAssumption == None \notin Assets \cup Fixtures /\ None \notin Int
ASSUME NumbersAssumption == StaleAfter \in Nat /\ Nows \subseteq Nat /\ MaxStamps \in Nat

VARIABLES
  observed,  \* table assets: last_observed_at by asset; no asset before seeding
  batches,   \* table source_batches, by fixture
  events,    \* table events, by stable identity
  errors,    \* errors[f]: the parser_errors rows of f's batch
  audit,     \* the telemetry.import rows of audit_events, oldest first
  clock,     \* the imported_at of the batch row stamped last
  job,       \* job[w]: what the command run by w holds
  page,      \* what source_health has read for one source
  raced      \* the files committed by an import that another one's commit overtook

vars == <<observed, batches, events, errors, audit, clock, job, page, raced>>

-----------------------------------------------------------------------------
(* Parsing one line.  A line tells its source and destination host, the    *)
(* wall-clock time and its UTC offset, what happened and to whom, further  *)
(* detail, and the flaws that make a parser refuse it.                     *)

\* the order in which the parsers test a line: the first flaw is reported
Checks == [LINUX_AUTH |-> <<"MALFORMED_LINUX", "INVALID_TIMESTAMP",
             "TIMESTAMP_REQUIRES_OFFSET", "ASSET_NOT_FOUND", "MISSING_FIELDS">>,
           SURICATA_EVE |-> <<"MALFORMED_JSON", "INVALID_EVE_SHAPE",
             "MISSING_EVE_FIELDS", "UNSUPPORTED_EVE_TYPE", "INVALID_TIMESTAMP",
             "TIMESTAMP_REQUIRES_OFFSET", "ASSET_NOT_FOUND",
             "MISSING_ALERT_FIELDS", "INVALID_ALERT_SEVERITY">>]

\* dest_ip first, then src_ip; a Linux line names one host, its "dest"
AssetOf(l) == IF l.dest \in Assets THEN l.dest ELSE l.src

FlawsOf(l) == l.flaws \cup IF AssetOf(l) \in Assets THEN {} ELSE {"ASSET_NOT_FOUND"}

IsEvent(l) == FlawsOf(l) = {}

ErrorCode(f, l) ==
  LET checks == Checks[SourceOf[f]]
  IN  checks[Min({k \in DOMAIN checks : checks[k] \in FlawsOf(l)})]

\* normalize_timestamp: the same instant whatever the offset it is written in
TimestampUtc(l) == l.wall - l.offset

\* parse_eve_line: a Suricata alert of severity 1 or 2 is HIGH
IsHigh(l) == l.what = "NETWORK_ALERT" /\ l.severity <= 2

\* _stable_identity: severity and normalized_data (the sudo command, the
\* protocol) are not part of it
Identity(f, l) == [source |-> SourceOf[f], asset |-> AssetOf(l), time |-> TimestampUtc(l),
                   what |-> l.what, who |-> l.who]

EventLines(f) == {k \in DOMAIN Lines[f] : IsEvent(Lines[f][k])}
ErrorLines(f) == DOMAIN Lines[f] \ EventLines(f)
IdentityAt(f, k) == Identity(f, Lines[f][k])

\* the lines that become rows: identities neither stored nor pending
NewLines(f) == {k \in EventLines(f) :
  /\ IdentityAt(f, k) \notin DOMAIN events
  /\ \A j \in EventLines(f) : j < k => IdentityAt(f, j) # IdentityAt(f, k)}

-----------------------------------------------------------------------------
(* State.                                                                  *)

Identities == UNION {{IdentityAt(f, k) : k \in EventLines(f)} : f \in Fixtures}

\* None is NULL
NullOr(S) == S \cup {None}

\* table source_batches; "at" is imported_at
Batch == [at: Nat, status: {"SUCCESS", "ERROR"}, total: Nat, accepted: Nat,
          duplicate: Nat, error: Nat]
EventRow == [batch: Fixtures, high: BOOLEAN]

\* "seen" are the Asset objects of the session, "late" whether another import
\* committed since they were loaded.
Job == [pc: {"idle", "seeding", "finding", "parsed", "inserting"},
        fixture: NullOr(Fixtures), seen: [Assets -> NullOr(Int)], at: Nat, late: BOOLEAN]
Unseen == [a \in Assets |-> None]
Idle == [pc |-> "idle", fixture |-> None, seen |-> Unseen, at |-> 0, late |-> FALSE]

\* A slip: the batches are read after what they stored.
PartsBatchesLast == <<"newest", "events", "errors", "high", "latest", "successful">>

Parts == <<"latest", "successful", "newest", "events", "errors", "high">>
Unread == [p \in Range(Parts) |-> None]
NoPage == [step |-> 0, source |-> "LINUX_AUTH", now |-> 0, shown |-> Unread,
           overtaken |-> FALSE]

TypeOK ==
  /\ observed = <<>> \/ observed \in [Assets -> NullOr(Int)]
  /\ DOMAIN batches \subseteq Fixtures
  /\ \A f \in DOMAIN batches : batches[f] \in Batch /\ batches[f].at \in 1..clock
  /\ DOMAIN events \subseteq Identities
  /\ \A i \in DOMAIN events : events[i] \in EventRow /\ events[i].batch \in DOMAIN batches
  /\ DOMAIN errors = DOMAIN batches
  /\ clock \in 0..MaxStamps
  /\ job \in [Importers -> Job]
  /\ page.step \in 0..(Len(Parts) + 1)
  /\ raced \subseteq DOMAIN batches

Init ==
  /\ observed = <<>>
  /\ batches = <<>>
  /\ events = <<>>
  /\ errors = <<>>
  /\ audit = <<>>
  /\ clock = 0
  /\ job = [w \in Importers |-> Idle]
  /\ page = NoPage
  /\ raced = {}

Finish(w) == job' = [job EXCEPT ![w] = Idle]

tables == <<observed, batches, events, errors, audit>>

BatchRow(f, at) ==
  [at |-> at, status |-> IF ErrorLines(f) = {} THEN "SUCCESS" ELSE "ERROR",
   total |-> Len(Lines[f]), accepted |-> Cardinality(NewLines(f)),
   duplicate |-> Cardinality(EventLines(f) \ NewLines(f)),
   error |-> Cardinality(ErrorLines(f))]

WithBatch(f, row) == [g \in DOMAIN batches \cup {f} |-> IF g = f THEN row ELSE batches[g]]

WithEvents(f) ==
  LET line == [i \in {IdentityAt(f, k) : k \in NewLines(f)} |->
                 Lines[f][CHOOSE k \in NewLines(f) : IdentityAt(f, k) = i]]
  IN  [i \in DOMAIN events \cup DOMAIN line |->
         IF i \in DOMAIN line THEN [batch |-> f, high |-> IsHigh(line[i])] ELSE events[i]]

WithErrors(f) ==
  [g \in DOMAIN errors \cup {f} |->
     IF g = f THEN {<<k, ErrorCode(f, Lines[f][k])>> : k \in ErrorLines(f)} ELSE errors[g]]

\* Other imports under way now hold Asset objects older than the table.
Overtake(w) ==
  /\ job' = [v \in Importers |->
               IF v = w THEN Idle
               ELSE [job[v] EXCEPT !.late = @ \/ job[v].pc \in {"parsed", "inserting"}]]
  /\ page' = [page EXCEPT !.overtaken = page.step > 0]
  /\ raced' = raced \cup (IF job[w].late THEN {job[w].fixture} ELSE {})

-----------------------------------------------------------------------------
(* Slips: what a plausible bug would turn a definition below into.         *)

\* a COMMIT where import_fixture flushes: the batch row survives a failure
\* of the rest
ImportCommitInTwo(w) ==
  LET f == job[w].fixture IN
  /\ job[w].pc = "inserting"
  /\ f \notin DOMAIN batches
  /\ batches' = WithBatch(f, [BatchRow(f, job[w].at) EXCEPT !.accepted = 0, !.duplicate = 0])
  /\ errors' = WithErrors(f)
  /\ audit' = Append(audit, f)
  /\ Overtake(w)
  /\ UNCHANGED <<observed, events, clock>>

\* the events of the file are written before its batch row
ImportEventsFirst(w) ==
  LET f == job[w].fixture IN
  /\ job[w].pc = "inserting"
  /\ events' = WithEvents(f)
  /\ Finish(w)
  /\ UNCHANGED <<observed, batches, errors, audit, clock, page, raced>>

\* last_observed_at taken from the file, later or not
ObservationOfFile(f, seen, a) ==
  LET times == {TimestampUtc(Lines[f][k]) : k \in {j \in NewLines(f) : AssetOf(Lines[f][j]) = a}}
  IN  IF times # {} THEN Max(times) ELSE None

\* the batch imported first where the last is meant
LastImportedFirst(S) ==
  IF S = {} THEN None ELSE CHOOSE f \in S : \A g \in S : batches[g].at >= batches[f].at

-----------------------------------------------------------------------------
(* seed_assets and import_fixture.                                         *)

ReadNoAssets(w) ==
  /\ job[w].pc = "idle"
  /\ observed = <<>>
  /\ job' = [job EXCEPT ![w].pc = "seeding"]
  /\ UNCHANGED <<tables, clock, page, raced>>

\* Both assets at once; a second seeding fails on the primary key.
SeedAssets(w) ==
  /\ job[w].pc = "seeding"
  /\ observed = <<>>
  /\ observed' = [a \in Assets |-> None]
  /\ Finish(w)
  /\ UNCHANGED <<batches, events, errors, audit, clock, page, raced>>

\* Line 344: no batch of this content yet, so this is not a replay.
FindNoBatch(w, f) ==
  /\ job[w].pc = "idle"
  /\ f \notin DOMAIN batches
  /\ job' = [job EXCEPT ![w].pc = "finding", ![w].fixture = f]
  /\ UNCHANGED <<tables, clock, page, raced>>

\* _asset_maps, then the lines are parsed.
LoadAssets(w) ==
  /\ job[w].pc = "finding"
  /\ observed # <<>>
  /\ job' = [job EXCEPT ![w].pc = "parsed", ![w].seen = observed]
  /\ UNCHANGED <<tables, clock, page, raced>>

\* The default of imported_at is evaluated before the INSERT gets the lock.
StampBatch(w) ==
  /\ job[w].pc = "parsed"
  /\ clock < MaxStamps
  /\ clock' = clock + 1
  /\ job' = [job EXCEPT ![w].pc = "inserting", ![w].at = clock + 1]
  /\ UNCHANGED <<tables, page, raced>>

\* What an import of f makes of last_observed_at, given what it saw: the
\* newest of its own new events, if that is later.
Observation(f, seen, a) ==
  LET times == {TimestampUtc(Lines[f][k]) : k \in {j \in NewLines(f) : AssetOf(Lines[f][j]) = a}}
  IN  IF times # {} /\ (seen[a] = None \/ Max(times) > seen[a]) THEN Max(times) ELSE None

\* From the INSERT of the batch to the COMMIT.  UNIQUE(source_type,
\* content_digest) lets the batch in once.
ImportCommit(w) ==
  LET f == job[w].fixture IN
  /\ job[w].pc = "inserting"
  /\ f \notin DOMAIN batches
  /\ batches' = WithBatch(f, BatchRow(f, job[w].at))
  /\ events' = WithEvents(f)
  /\ errors' = WithErrors(f)
  /\ observed' = [a \in DOMAIN observed |->
                    IF Observation(f, job[w].seen, a) = None THEN observed[a]
                    ELSE Observation(f, job[w].seen, a)]
  /\ audit' = Append(audit, f)
  /\ Overtake(w)
  /\ UNCHANGED clock

\* The process dies, the database stays locked for too long, the assets are
\* not there, or another process inserted the same rows first: rollback.
Abort(w) ==
  /\ job[w].pc # "idle"
  /\ Finish(w)
  /\ UNCHANGED <<tables, clock, page, raced>>

-----------------------------------------------------------------------------
(* source_health: six autocommitted reads, each of its own moment.  The    *)
(* sources of one page follow one another; a page here is one of them.     *)

BatchesOf(s) == {f \in DOMAIN batches : SourceOf[f] = s}
EventsOf(s) == {i \in DOMAIN events : i.source = s}

LastImported(S) ==
  IF S = {} THEN None ELSE CHOOSE f \in S : \A g \in S : batches[g].at <= batches[f].at

Newest(I) == IF I = {} THEN None ELSE Max({i.time : i \in I})

PartOf(s) ==
  [latest |-> LastImported(BatchesOf(s)),
   successful |-> LastImported({f \in BatchesOf(s) : batches[f].status = "SUCCESS"}),
   newest |-> Newest(EventsOf(s)),
   events |-> Cardinality(EventsOf(s)),
   errors |-> Cardinality(UNION {{f} \X errors[f] : f \in BatchesOf(s)}),
   high |-> Newest({i \in EventsOf(s) : events[i].high})]

AskHealth ==
  /\ page.step = 0
  /\ \E s \in Sources, now \in Nows :
       page' = [NoPage EXCEPT !.step = 1, !.source = s, !.now = now]
  /\ UNCHANGED <<tables, clock, job, raced>>

\* "latest" is a row of its own, read with its status.
ReadPart ==
  /\ page.step \in 1..Len(Parts)
  /\ page' = [page EXCEPT !.step = @ + 1,
                          !.shown[Parts[page.step]] = PartOf(page.source)[Parts[page.step]]]
  /\ UNCHANGED <<tables, clock, job, raced>>

\* the state shown for the source, from the parts read
StateShown ==
  LET parts == page.shown IN
  IF parts.latest # None /\ batches[parts.latest].status = "ERROR" THEN "ERROR"
  ELSE IF parts.newest = None \/ page.now - parts.newest > StaleAfter THEN "STALE"
  ELSE "FRESH"

ClosePage ==
  /\ page.step > Len(Parts)
  /\ page' = NoPage
  /\ UNCHANGED <<tables, clock, job, raced>>

Next ==
  \/ \E w \in Importers :
       \/ ReadNoAssets(w) \/ SeedAssets(w)
       \/ \E f \in Fixtures : FindNoBatch(w, f)
       \/ LoadAssets(w) \/ StampBatch(w) \/ ImportCommit(w)
       \/ Abort(w)
  \/ AskHealth \/ ReadPart \/ ClosePage

Spec == Init /\ [][Next]_vars

-----------------------------------------------------------------------------
(* Properties.                                                             *)

\* The counters of a batch row (models.py SourceBatch) keep agreeing with the
\* tables while other imports supply the same events again: every line of the
\* file is an accepted event that is stored under this batch, a duplicate that
\* is stored under some batch, or an error with its row.
CountsAddUp ==
  \A f \in DOMAIN batches :
    /\ batches[f].total = batches[f].accepted + batches[f].duplicate + batches[f].error
    /\ batches[f].accepted = Cardinality({i \in DOMAIN events : events[i].batch = f})
    /\ batches[f].error = Cardinality(errors[f])
    /\ \A k \in EventLines(f) : IdentityAt(f, k) \in DOMAIN events
    /\ (batches[f].status = "ERROR") <=> (errors[f] # {})

\* An asset was last observed at the time of one of its events, and of the newest
\* as long as none of them came with a file whose import held Asset objects
\* loaded before another import's commit (telemetry.py lines 444-449): whatever
\* such imports do to one asset, the other one stays right, and so does every
\* asset they supply nothing new about.
ObservedIsNewest ==
  \A a \in DOMAIN observed :
    LET rows == {i \in DOMAIN events : i.asset = a}
        times == {i.time : i \in rows}
    IN  /\ (observed[a] = None) <=> (times = {})
        /\ times # {} => observed[a] \in times
        /\ times # {} /\ (\A i \in rows : events[i].batch \notin raced) => observed[a] = Max(times)

\* A counter summed up over the imports of source s, oldest first.
SumOver(imports, s, counter) ==
  LET sum[n \in 0..Len(imports)] ==
        IF n = 0 THEN 0
        ELSE sum[n - 1] + IF SourceOf[imports[n]] = s THEN counter[imports[n]] ELSE 0
  IN  sum[Len(imports)]

Accepted == [f \in DOMAIN batches |-> batches[f].accepted]
Refused == [f \in DOMAIN batches |-> batches[f].error]

\* What a health page tells of a source when no import committed while it was
\* read (telemetry.py lines 483-530): the counters of the batches summed up; as
\* the last import the one that committed last, save for overtaken ones, which
\* were stamped before a commit that they follow; and the state from the errors
\* of the import shown and from the newest event of all files taken in.
PageTellsLastImport ==
  LET s == page.source
      latest == page.shown.latest
      imports == {n \in DOMAIN audit : SourceOf[audit[n]] = s}
      fresh == \E n \in imports : \E k \in EventLines(audit[n]) :
                 page.now - TimestampUtc(Lines[audit[n]][k]) <= StaleAfter
  IN  page.step > Len(Parts) /\ ~ page.overtaken =>
        /\ page.shown.events = SumOver(audit, s, Accepted)
        /\ page.shown.errors = SumOver(audit, s, Refused)
        /\ IF imports = {} THEN latest = None
           ELSE \E n \in imports : /\ latest = audit[n]
                                   /\ \A m \in imports : m > n => audit[m] \in raced
        /\ StateShown = IF latest # None /\ ErrorLines(latest) # {} THEN "ERROR"
                        ELSE IF fresh THEN "FRESH" ELSE "STALE"

\* A health page read while imports commit may mix two moments, but it is never
\* behind the imports it names (telemetry.py lines 483-530 read the batches
\* first): it counts at least their events and their errors, and no event of
\* theirs is newer than the newest it shows.
PageCoversImports ==
  page.step > Len(Parts) =>
    \A f \in {page.shown.latest, page.shown.successful} \ {None} :
      /\ page.shown.events >= Cardinality({IdentityAt(f, k) : k \in EventLines(f)})
      /\ page.shown.errors >= Cardinality(ErrorLines(f))
      /\ \A k \in EventLines(f) : /\ page.shown.newest # None
                                  /\ page.shown.newest >= TimestampUtc(Lines[f][k])
      /\ \A i \in DOMAIN events :
           events[i].batch = f /\ events[i].high =>
             page.shown.high # None /\ page.shown.high >= i.time

Intake == INSTANCE TelemetryIntake WITH
  Supplies <- [f \in Fixtures |-> {IdentityAt(f, k) : k \in EventLines(f)}],
  taken <- audit,
  origin <- [i \in DOMAIN events |-> events[i].batch]

\* Racing, repeated and failing imports take each file in as a whole and once,
\* and keep every event with the file that supplied it first (TelemetryIntake).
ImplementsIntake == Intake!IntakeSpec
=============================================================================
