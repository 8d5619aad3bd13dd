---------------------------- MODULE DriftReaders ----------------------------
(* What reads the monitoring database: the Markdown and HTML report, the    *)
(* dashboard, the workbook, the plots, the DuckDB mirror, the notification, *)
(* the command line's listings and the Drift Explorer page.  Each reads one *)
(* seam after the other on connections of their own, so imports may commit  *)
(* in between.                                                              *)
EXTENDS DriftHistory

CONSTANTS
    Readers,            \* processes
    MaxOffenders,       \* MAX_OFFENDERS
    TopColumns          \* how many columns the top-drifted tables show

VARIABLES
    reader,     \* reader -> what it was asked and has read
    output      \* the output files that exist

readerVars == <<driftVars, reader, output>>

Charts == {"drift-rate", "psi-by-column", "top-drifted"}

---------------------------------------------------------------------------
(* What each consumer reads, and in which order *)

Scoped(call) == call.ds # NoDataset \/ call.limit # Unlimited

ReportPlan(call) ==
    <<"summary", "runs">> \o (IF call.columns THEN <<"columns">> ELSE <<>>)
                          \o (IF call.bins THEN <<"bins">> ELSE <<>>)

DashboardPlan(call) ==
    <<"summary", "runs", "columns">> \o (IF call.bins THEN <<"bins">> ELSE <<>>)

WorkbookPlan(call) ==
    <<"runs", "summary">> \o (IF call.columns THEN <<"columns">> ELSE <<>>)
                          \o (IF call.bins THEN <<"bins">> ELSE <<>>)

ResolveCharts(chart) == IF chart = "all" THEN Charts ELSE {chart} \cap Charts

\* Only the seams the charts need; the runs also for their scope.
PlotsPlan(call) ==
    LET needRuns == "drift-rate" \in ResolveCharts(call.chart)
        needColumns == ResolveCharts(call.chart) \cap {"psi-by-column", "top-drifted"} # {}
    IN (IF needRuns \/ (needColumns /\ Scoped(call)) THEN <<"runs">> ELSE <<>>)
       \o (IF needRuns THEN <<"summary">> ELSE <<>>)
       \o (IF needColumns THEN <<"columns">> ELSE <<>>)

MirrorPlan == <<"runs", "columns", "bins">>

NotificationPlan(call) ==
    <<"summary">> \o (IF call.maxPsi # Unlimited THEN <<"columns">> ELSE <<>>)

\* The page: an overview, then the detail of the run chosen in it.
ExplorerPlan == <<"summary", "runs", "detail", "columns", "bins">>

Plan(call) ==
    CASE call.kind = "report"    -> ReportPlan(call)
      [] call.kind = "dashboard" -> DashboardPlan(call)
      [] call.kind = "workbook"  -> WorkbookPlan(call)
      [] call.kind = "plots"     -> PlotsPlan(call)
      [] call.kind = "mirror"    -> MirrorPlan
      [] call.kind = "notify"    -> NotificationPlan(call)
      [] call.kind = "explorer"  -> ExplorerPlan
      [] call.kind = "list"      -> <<"runs">>
      [] call.kind = "trend"     -> <<"summary">>
      [] call.kind = "columns"   -> <<"columns">>

\* The files a call writes; the others print or render.
Targets(call) ==
    CASE call.kind = "workbook" -> {"workbook"}
      [] call.kind = "plots"    -> ResolveCharts(call.chart)
      [] call.kind = "mirror"   -> {"mirror"}
      [] OTHER -> {}

---------------------------------------------------------------------------
(* Steps *)

Answered(call) == call.answer # {}

NothingAsked == [kind |-> "idle", plan |-> <<>>, answer |-> {NoPath}]

NothingRead(call) ==
    LET fresh == [plan |-> Plan(call), summary |-> {}, runs |-> <<>>, detail |-> {},
                  columnRows |-> {}, binRows |-> {}, selected |-> NoPath, answer |-> {}]
    IN [f \in DOMAIN call \cup DOMAIN fresh |-> IF f \in DOMAIN fresh THEN fresh[f] ELSE call[f]]

\* An output that exists is refused unless the caller overwrites; the mirror
\* alone is removed before its source is opened.
BeginRead(r, call, overwrite) ==
    /\ Answered(reader[r])
    /\ \/ Targets(call) \cap output = {}
       \/ overwrite
    /\ reader' = [reader EXCEPT ![r] = NothingRead(call)]
    /\ output' = IF call.kind = "mirror" THEN output \ {"mirror"} ELSE output
    /\ UNCHANGED driftVars

ScopeOf(call) ==
    IF call.kind = "explorer" THEN {call.selected}
    ELSE IF Scoped(call) /\ call.kind \notin {"mirror", "notify", "columns"}
    THEN {call.runs[k].run_id : k \in DOMAIN call.runs}
    ELSE Unscoped

AfterSeam(call) == [call EXCEPT !.plan = Tail(@)]

ReadSummary(r) ==
    /\ reader[r].plan # <<>> /\ Head(reader[r].plan) = "summary"
    /\ reader' = [reader EXCEPT ![r] =
         [AfterSeam(@) EXCEPT
            !.summary = {SummarizeDriftTrends(reader[r].ds, reader[r].limit)}]]
    /\ UNCHANGED <<driftVars, output>>

\* The page goes on with a run of the list, or ends when there is none.
ReadRuns(r) ==
    /\ reader[r].plan # <<>> /\ Head(reader[r].plan) = "runs"
    /\ LET rows == ReadDriftRuns(reader[r].ds, reader[r].limit)
           read == [AfterSeam(reader[r]) EXCEPT !.runs = rows]
       IN IF reader[r].kind # "explorer" THEN reader' = [reader EXCEPT ![r] = read]
          ELSE IF rows = <<>> THEN reader' = [reader EXCEPT ![r] = [read EXCEPT !.plan = <<>>]]
          ELSE \E k \in DOMAIN rows :
                 reader' = [reader EXCEPT ![r] = [read EXCEPT !.selected = rows[k].run_id]]
    /\ UNCHANGED <<driftVars, output>>

\* The row of the chosen run among all runs; a bare one if it were absent.
ReadDetail(r) ==
    /\ reader[r].plan # <<>> /\ Head(reader[r].plan) = "detail"
    /\ reader' = [reader EXCEPT ![r] =
         [AfterSeam(@) EXCEPT !.detail =
            {s \in driftRuns : s.run_id = reader[r].selected}]]
    /\ UNCHANGED <<driftVars, output>>

ReadColumns(r) ==
    /\ reader[r].plan # <<>> /\ Head(reader[r].plan) = "columns"
    /\ LET rows == ReadDriftColumns(ScopeOf(reader[r]))
           read == [AfterSeam(reader[r]) EXCEPT !.columnRows = rows]
       IN reader' = [reader EXCEPT ![r] =
            IF reader[r].kind = "explorer" /\ rows = {} THEN [read EXCEPT !.plan = <<>>]
            ELSE read]
    /\ UNCHANGED <<driftVars, output>>

ReadBins(r) ==
    /\ reader[r].plan # <<>> /\ Head(reader[r].plan) = "bins"
    /\ reader' = [reader EXCEPT ![r] =
         [AfterSeam(@) EXCEPT !.binRows = ReadDriftDistributions(ScopeOf(reader[r]))]]
    /\ UNCHANGED <<driftVars, output>>

---------------------------------------------------------------------------
(* Thresholds and answers *)

\* Strictly greater; no run, no breach.
EvaluateDriftRateThreshold(summary, max) ==
    max # Unlimited /\ 100 * summary.drifted_runs > max * summary.total_runs

PsiOffenders(rows, max) ==
    {row \in rows : max # Unlimited /\ row.column.psi # Unmeasured /\ row.column.psi > max}

FirstOf(set, n) == SubSeq(SetToSeq(set), 1, IF Cardinality(set) < n THEN Cardinality(set) ELSE n)

NotificationPayload(call) ==
    LET summary == CHOOSE s \in call.summary : TRUE
        offenders == PsiOffenders(call.columnRows, call.maxPsi)
    IN [breached |-> EvaluateDriftRateThreshold(summary, call.maxRate) \/ offenders # {},
        summary |-> summary, columns_breached |-> FirstOf(offenders, MaxOffenders)]

\* A POST is one attempt, and only one that was asked for, allowed by the
\* environment and sent to an address that passed the check; a redirect, a
\* status outside 2xx, a timeout or a refusal raises.
PostOutcomes(call, network, address) ==
    IF ~call.send THEN {"dry-run"}
    ELSE IF ~network \/ ~address THEN {"refused"}
    ELSE {"sent", "failed"}

NotifyExitCode(payload, outcome) ==
    CASE outcome \in {"refused", "failed"} -> 1
      [] outcome \notin {"refused", "failed"} /\ payload.breached -> 2
      [] OTHER -> 0

ListingExitCode(breached) == IF breached THEN 2 ELSE 0

\* The card on the latest run takes its status from the summary and its
\* counts from the first row of the list.
StoryLensCards(call) ==
    LET summary == CHOOSE s \in call.summary : TRUE
    IN <<IF summary.total_runs < 2 THEN "insufficient history"
         ELSE IF summary.latest_drift_detected THEN "drift present" ELSE "no drift">>
       \o (IF call.maxRate = Unlimited THEN <<>>
           ELSE IF EvaluateDriftRateThreshold(summary, call.maxRate)
           THEN <<"breach">> ELSE <<"within threshold">>)

\* The rows the page shows for its filters ("(all)" is Unlimited).
ShownColumns(rows, column, drift, kind) ==
    {row \in rows : /\ column \in {Unlimited, row.column.column}
                    /\ drift \in {Unlimited, row.column.drift}
                    /\ kind \in {Unlimited, row.column.kind}}

\* The mean of the recorded PSI of a column over the runs shown, and how often
\* it drifted: sums and counts.
PsiByColumn(rows, column) ==
    LET of == {row \in rows : row.column.column = column /\ row.column.psi # Unmeasured}
    IN [sum |-> MapThenSumSet(LAMBDA row : row.column.psi, of), count |-> Cardinality(of)]

TimesDrifted(rows, column) ==
    Cardinality({row \in rows : row.column.column = column /\ row.column.drift = "yes"})

TopDrifted(rows) ==
    LET names == {row.column.column : row \in {x \in rows : x.column.drift = "yes"}}
    IN FirstOf(names, TopColumns)

AnswersOf(call) ==
    CASE call.kind = "notify" ->
           {[outcome |-> outcome, exit |-> NotifyExitCode(NotificationPayload(call), outcome)] :
              outcome \in UNION {PostOutcomes(call, network, address) :
                                   network \in BOOLEAN, address \in BOOLEAN}}
      [] call.kind = "trend" ->
           {[outcome |-> "printed", exit |-> ListingExitCode(
               \E s \in call.summary : EvaluateDriftRateThreshold(s, call.maxRate))]}
      [] call.kind = "columns" ->
           {[outcome |-> "printed",
             exit |-> ListingExitCode(PsiOffenders(call.columnRows, call.maxPsi) # {})]}
      [] call.kind = "explorer" ->
           {[outcome |-> <<StoryLensCards(call), ShownColumns(call.columnRows, Unlimited, "yes", Unlimited)>>,
             exit |-> 0]}
      [] call.kind = "plots" ->
           {[outcome |-> [c \in {row.column.column : row \in call.columnRows} |->
                            <<PsiByColumn(call.columnRows, c), TimesDrifted(call.columnRows, c)>>],
             exit |-> 0]}
      [] call.kind = "dashboard" -> {[outcome |-> TopDrifted(call.columnRows), exit |-> 0]}
      [] OTHER -> {[outcome |-> "written", exit |-> 0]}

\* The last step renders what was read, writes the outputs and answers.
Answer(r) ==
    /\ reader[r].plan = <<>> /\ ~Answered(reader[r])
    /\ \E answer \in AnswersOf(reader[r]) :
         reader' = [reader EXCEPT ![r] = [NothingAsked EXCEPT !.answer = {answer}]]
    /\ output' = output \cup Targets(reader[r])
    /\ UNCHANGED driftVars

\* A read or a write that fails leaves the outputs as they are.
ReadFails(r) ==
    /\ ~Answered(reader[r])
    /\ reader' = [reader EXCEPT ![r] = NothingAsked]
    /\ UNCHANGED <<driftVars, output>>

ReadersInit ==
    /\ DriftInit
    /\ reader = [r \in Readers |-> NothingAsked]
    /\ output = {}

ReadersNext(calls) ==
    \/ DriftNext /\ UNCHANGED <<reader, output>>
    \/ \E r \in Readers :
         \/ \E call \in calls, overwrite \in BOOLEAN : BeginRead(r, call, overwrite)
         \/ ReadSummary(r)
         \/ ReadRuns(r)
         \/ ReadDetail(r)
         \/ ReadColumns(r)
         \/ ReadBins(r)
         \/ Answer(r)
         \/ ReadFails(r)

ReadersSpec(calls) == ReadersInit /\ [][ReadersNext(calls)]_readerVars

---------------------------------------------------------------------------
\* DetailIsOfListedRuns: the column rows and the bins of a filtered report,
\* dashboard, workbook, plot or page belong to the runs its list shows, however
\* many runs are imported between the reading of the list and that of the
\* rows; a filter that matches no run shows no row rather than those of the
\* whole database; and the run chosen in a list is found again by the reads
\* that follow.
DetailIsOfListedRuns ==
    \A r \in Readers : ~Answered(reader[r]) =>
      LET call == reader[r]
          listed == {call.runs[k].run_id : k \in DOMAIN call.runs}
      IN /\ ScopeOf(call) # Unscoped =>
              \A row \in call.columnRows \cup call.binRows : row.run_id \in listed
         /\ call.kind = "explorer" /\ call.plan # <<>> /\ Head(call.plan) = "columns" =>
              call.detail # {}
=============================================================================
