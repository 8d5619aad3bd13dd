------------------------------ MODULE DimTime ------------------------------
(***************************************************************************)
(* The time dimension (time/dim_time_generator.py): one row for every day  *)
(* of a range, with the week and the fiscal year a user asks for, as the   *)
(* Dim Time page shows it and as the commands write it to dim_time.csv.    *)
(* A day is a number of days since 1970-01-01; the calendar and the day of *)
(* the week are pandas'.  ISO weeks and names are left out.                *)
(***************************************************************************)
EXTENDS Integers, Sequences, FiniteSets, SequencesExt

CONSTANTS
    TimeInputs,   \* what a user may ask for: [from, to, week, fiscal]
    PageInputs    \* what a user may enter on the page

ASSUME TimeAssumption == PageInputs \subseteq [from : Int, to : Int, week : Int, fiscal : Int]

VARIABLES
    shownTime,    \* the page: the rows it shows, or that it shows none
    timeCsv       \* the dim_time.csv that gen-dim-time wrote, by its name

timeVars == <<shownTime, timeCsv>>

NoFiscal == -1    \* no fiscal year is asked for
NotADay == -1     \* a text that is no date

\* The civil date of a day, counted in eras of 400 years from a March 1.
CivilDate(n) ==
    LET z    == n + 719468
        era  == z \div 146097
        doe  == z % 146097
        yoe  == (doe - (doe \div 1460) + (doe \div 36524) - (doe \div 146096)) \div 365
        doy  == doe - (365 * yoe + (yoe \div 4) - (yoe \div 100))
        mp   == (5 * doy + 2) \div 153
        month == IF mp < 10 THEN mp + 3 ELSE mp - 9
    IN  [year |-> yoe + era * 400 + (IF month <= 2 THEN 1 ELSE 0), month |-> month,
         day |-> doy - ((153 * mp + 2) \div 5) + 1]

DayOfWeek(n) == (n + 3) % 7   \* Monday is 0

-----------------------------------------------------------------------------
ValidParams(p) ==
    /\ p.week \in 1 .. 7
    /\ p.fiscal = NoFiscal \/ p.fiscal \in 1 .. 12
    /\ p.from /= NotADay /\ p.to /= NotADay /\ p.from <= p.to

CustomDow(n, week) == ((DayOfWeek(n) - (week - 1)) % 7) + 1

WeekStartDate(n, week) == n - ((DayOfWeek(n) - (week - 1)) % 7)

\* Seeded fault: the first month still belongs to the year before.
FiscalYearLate(date, start) == IF date.month > start THEN date.year ELSE date.year - 1

FiscalYear(date, start) == IF date.month >= start THEN date.year ELSE date.year - 1

FiscalQuarter(date, start) == (((date.month - start) % 12) \div 3) + 1

TimeId(n) == LET d == CivilDate(n) IN d.year * 10000 + d.month * 100 + d.day

DimTimeRow(n, p) ==
    LET date == CivilDate(n)
        fiscal == p.fiscal /= NoFiscal
    IN  [time_id |-> TimeId(n), date |-> n, year |-> date.year, month |-> date.month, day |-> date.day,
         quarter |-> ((date.month - 1) \div 3) + 1, is_weekend |-> DayOfWeek(n) >= 5,
         dow |-> CustomDow(n, p.week), week_start_date |-> WeekStartDate(n, p.week),
         fiscal_year |-> IF fiscal THEN FiscalYear(date, p.fiscal) ELSE 0,
         fiscal_quarter |-> IF fiscal THEN FiscalQuarter(date, p.fiscal) ELSE 0]

GenerateDimTime(p) == [i \in 1 .. p.to - p.from + 1 |-> DimTimeRow(p.from + i - 1, p)]

NotShown == [at |-> "nothing", asked |-> [from |-> NotADay, to |-> NotADay, week |-> 1, fiscal |-> NoFiscal], rows |-> <<>>]

\* What a refused range raises is an answer to the page.
GenerateDimTimeCsv(p) ==
    IF ValidParams(p) THEN [at |-> "rows", asked |-> p, rows |-> GenerateDimTime(p)] ELSE [NotShown EXCEPT !.at = "error"]

\* The columns of the file and what identifies its days; other cells are not looked at.
DimTimeFile(p) ==
    LET rows == GenerateDimTime(p)
        columns == {"time_id", "date", "year", "month", "day", "quarter", "is_weekend", "dow", "week_start_date"}
                   \cup (IF p.fiscal = NoFiscal THEN {} ELSE {"fiscal_year", "fiscal_quarter"})
    IN  [c \in columns |-> IF c \in {"time_id", "date"} THEN {rows[i][c] : i \in DOMAIN rows} ELSE {}]

-----------------------------------------------------------------------------
\* The page computes the rows again on every run; the number boxes keep their ranges.
RenderDimTime(p) ==
    /\ p.week \in 1 .. 7 /\ p.fiscal \in {NoFiscal} \cup 1 .. 12
    /\ shownTime' = GenerateDimTimeCsv(p)
    /\ UNCHANGED timeCsv

GenerateDimTimeWorkflow(p) ==
    /\ ValidParams(p)
    /\ timeCsv' = [t \in {"dim_time"} |-> DimTimeFile(p)]

\* A refused range leaves what there is.
CmdGenDimTime(p) ==
    /\ GenerateDimTimeWorkflow(p)
    /\ UNCHANGED shownTime

TimeInit ==
    /\ shownTime = NotShown
    /\ timeCsv = <<>>

TimeNext == \E p \in PageInputs : RenderDimTime(p)

TimeSpec == TimeInit /\ [][TimeNext]_timeVars

-----------------------------------------------------------------------------
\* Over consecutive rows of the page: no day is missing or twice and its time_id
\* grows with it; the week begins at its own start date, on its day 1, and every
\* day of it names that start; a fiscal year begins with its first quarter and in
\* the month asked for, and years and quarters never go back. The rows are made
\* from three computations of the same week and two of the same fiscal year.
CalendarIsAligned ==
    LET rows == shownTime.rows
        fiscal == shownTime.asked.fiscal
    IN  /\ \A i \in DOMAIN rows :
               /\ (rows[i].dow = 1) <=> (rows[i].week_start_date = rows[i].date)
               /\ rows[i].date - rows[i].week_start_date = rows[i].dow - 1
        /\ \A i \in 1 .. Len(rows) - 1 :
               LET a == rows[i]
                   b == rows[i + 1]
               IN  /\ b.date = a.date + 1 /\ b.time_id > a.time_id
                   /\ b.week_start_date = IF b.dow = 1 THEN b.date ELSE a.week_start_date
                   /\ 4 * (b.fiscal_year - a.fiscal_year) + b.fiscal_quarter - a.fiscal_quarter \in
                          (IF b.day = 1 THEN {0, 1} ELSE {0})
                   /\ (b.fiscal_year > a.fiscal_year) <=> (b.day = 1 /\ b.month = fiscal)
=============================================================================
