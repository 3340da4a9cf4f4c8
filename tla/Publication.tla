----------------------------- MODULE Publication -----------------------------
(***************************************************************************)
(* From a run directory to the published site: `roml-bench summarize`      *)
(* (summarize.write_summary) and `roml-bench site` (generate.generate_site)*)
(* beside the run of module RunProfile, which may still be going on, may   *)
(* have been killed, or be done.  A command may be killed at any step, and *)
(* may find files that are missing, torn or old.                           *)
(*                                                                         *)
(* The content of a derived file is the number of records of raw.jsonl it  *)
(* was made from.  One command runs at a time.  environment.json, which is *)
(* written once, and validation.json, the subject of module                *)
(* ValidationGate, are left out.                                           *)
(***************************************************************************)
EXTENDS RunSummary

CONSTANTS Formulation,    \* FORMULATION_ORDER: the arms of the nonzeros charts
          MaxSummaries    \* bound on the summarize commands

ASSUME PublicationAssumption ==
    /\ Formulation \subseteq Impls /\ MaxSummaries \in Nat
    /\ \A p, q \in 1..Len(Plan) :   \* SIZES: each workload's ladder ascends
          p < q /\ Plan[p].workload = Plan[q].workload => Plan[p].size < Plan[q].size

VARIABLES
    summaryJson, summaryCsv,   \* files of the run directory
    halfway,    \* history: summary.json was begun and summary.csv not finished
    job,        \* the command that is running, and what it has read
    site,       \* out_dir: the data files, and what its pages were made from
    summaries   \* how many summarize commands there were

files    == <<summaryJson, summaryCsv, halfway>>
siteVars == <<files, job, site, summaries>>
allVars  == <<vars, siteVars>>

Absent == -1
Torn   == -2   \* truncated, and never filled
Whole(file) == file >= 0
RunJson     == IF torn THEN Torn ELSE filed

Job(where, s, r) == [at |-> where, summary |-> s, run |-> r]
Idle    == Job("idle", 0, 0)
Missing == [state |-> "missing"]   \* no site yet
Broken  == [state |-> "broken"]    \* removed, or without some data file or page

SiteInit ==
    /\ Init
    /\ summaryJson = Absent /\ summaryCsv = Absent
    /\ halfway = FALSE
    /\ job = Idle
    /\ site = Missing
    /\ summaries = 0

-----------------------------------------------------------------------------
(***************************************************************************)
(* summarize: the two files are written one after the other.  Opening one  *)
(* truncates it, so a kill leaves the old file or a torn one.              *)
(***************************************************************************)
\* summarize_run reads run.json, and fails if it is torn; then raw.jsonl
ReadRecords ==
    /\ job.at = "idle"
    /\ summaries < MaxSummaries
    /\ ~ torn
    /\ job' = Job("summary.json", Len(raw), 0)
    /\ summaries' = summaries + 1
    /\ UNCHANGED <<files, site>>

WriteJson ==
    /\ job.at = "summary.json"
    /\ summaryJson' = job.summary
    /\ halfway' = TRUE
    /\ job' = [job EXCEPT !.at = "summary.csv"]
    /\ UNCHANGED <<summaryCsv, site, summaries>>

KillJson ==
    /\ job.at = "summary.json"
    /\ summaryJson' = Torn
    /\ halfway' = TRUE
    /\ job' = Idle
    /\ UNCHANGED <<summaryCsv, site, summaries>>

\* Fault: the rows are those of the records that have come in meanwhile.
WriteCsvAnew ==
    /\ job.at = "summary.csv"
    /\ summaryCsv' = Len(raw)
    /\ halfway' = FALSE
    /\ job' = Idle
    /\ UNCHANGED <<summaryJson, site, summaries>>

WriteCsv ==
    /\ job.at = "summary.csv"
    /\ summaryCsv' = job.summary
    /\ halfway' = FALSE
    /\ job' = Idle
    /\ UNCHANGED <<summaryJson, site, summaries>>

KillCsv ==
    /\ job.at = "summary.csv"
    /\ summaryCsv' \in {summaryCsv, Torn}
    /\ job' = Idle
    /\ UNCHANGED <<summaryJson, halfway, site, summaries>>

-----------------------------------------------------------------------------
(***************************************************************************)
(* site: what is parsed is parsed before the old site is removed, but      *)
(* nothing checks that the new one can be finished.                        *)
(***************************************************************************)
\* _load_run fails on a file that is missing or torn: the old site stays
LoadRun ==
    /\ job.at = "idle"
    /\ Whole(summaryJson) /\ ~ torn
    /\ job' = Job("data", summaryJson, filed)
    /\ UNCHANGED <<files, site, summaries>>

\* The old site goes and the data files are copied as they are.  Without a
\* summary.csv, which a killed summarize leaves, this raises halfway.
CopyData ==
    /\ job.at = "data"
    /\ IF summaryCsv = Absent
         THEN site' = Broken /\ job' = Idle
         ELSE /\ site' = [state |-> "no pages", raw |-> Len(raw), json |-> summaryJson,
                          csv |-> summaryCsv, halfway |-> halfway]
              /\ job' = [job EXCEPT !.at = "pages"]
    /\ UNCHANGED <<files, summaries>>

\* The charts are drawn before the first page is written: time_vs_nnz raises at
\* a size that is in no ladder.
WritePages ==
    /\ job.at = "pages"
    /\ LET records == SubSeq(raw, 1, job.summary)
       IN  site' = IF \A w \in DOMAIN NnzSizes : Summary!NnzKnown(records, w, Formulation)
                     THEN [state |-> "published", summary |-> job.summary, run |-> job.run,
                           raw |-> site.raw, json |-> site.json, csv |-> site.csv,
                           halfway |-> site.halfway]
                     ELSE Broken
    /\ job' = Idle
    /\ UNCHANGED <<files, summaries>>

KillSite ==
    /\ job.at \in {"data", "pages"}
    /\ site' \in {site, Broken}
    /\ job.at = "pages" => site' = Broken
    /\ job' = Idle
    /\ UNCHANGED <<files, summaries>>

Publish ==
    \/ ReadRecords \/ WriteJson \/ WriteCsv \/ LoadRun \/ CopyData \/ WritePages
    \/ KillJson \/ KillCsv \/ KillSite

\* The run goes on until there are pages, which then is the end: to the
\* commands a run that was killed or aborted looks like one that is slow.
Published == site.state = "published"

SiteNext ==
    \/ ~ Published /\ Progress /\ UNCHANGED siteVars
    \/ ~ Published /\ Publish /\ UNCHANGED vars
    \/ (Published \/ pc = "done") /\ UNCHANGED allVars

SiteSpec == SiteInit /\ [][SiteNext]_allVars

-----------------------------------------------------------------------------
(***************************************************************************)
(* Properties.                                                             *)
(***************************************************************************)
Shown     == SubSeq(raw, 1, site.summary)   \* the records behind the pages
Known     == SubSeq(raw, 1, site.run)       \* the stop events on the pages

\* "Every figure on this site derives from the immutable raw records below"
\* (the data page): the published summary.json is the one the pages show, the
\* published raw.jsonl holds every record it was made from, and summary.csv
\* tells the same unless the last summarize was killed.
DataBacksPages ==
    Published =>
        /\ site.json = site.summary
        /\ site.raw >= site.summary
        /\ site.csv = site.json \/ site.halfway

\* Records that no write of run.json comes between: those of one batch or, once
\* the variants are measured, of the variants of one size.
OfOneWrite(r, q) ==
    /\ r.workload = q.workload /\ r.size = q.size
    /\ r.asked = "canonical" => q.asked = "canonical" /\ r.replicate = q.replicate

\* "No censored or failed point is hidden": every failed replicate behind the
\* pages shows, as a group that is not ok or as a stop event.  The events come
\* from run.json, which may lag: what is hidden is of one batch, or of the
\* variants of one size, and never of a run that is done.
FailuresAreShown ==
    Published =>
        LET events == {<<r.impl, r.workload, r.size>> : r \in {Known[n] : n \in {n \in DOMAIN Known : Failed(Known[n])}}}
            hidden == {n \in DOMAIN Shown :
                          LET r == Shown[n]
                          IN  /\ Failed(r)
                              /\ Summary!GroupStatus(Shown, Summary!GroupKey(r)) = "ok"
                              /\ <<r.impl, r.workload, r.size>> \notin events}
        IN  /\ hidden # {} => ~ (pc = "done" /\ site.run = Len(raw))
            /\ \A a, b \in hidden : OfOneWrite(raw[a], raw[b])

Ladder(w) == {p.size : p \in {Plan[n] : n \in {n \in DOMAIN Plan : Plan[n].workload = w}}}
Drawn(i, w) ==
    LET curve == Summary!TimeVsSize(Shown, w, {i})
    IN  IF i \in DOMAIN curve THEN DOMAIN curve[i] ELSE {}

\* "Missing points are gaps", though charts.py draws a line from one point it has
\* to the next: no gap is inside a curve.  A curve covers the ladder below the
\* size its arm was stopped at and nothing above it, and all of it if the arm
\* never was; the finding's paired size is where the first curve ends.
CurvesStopWhereArmsStopped ==
    Published =>
        \A w \in {w \in DOMAIN NnzSizes : Supported(w) # {}} :
            LET arms == Supported(w)
                stops(i) == {r.size : r \in {Shown[n] : n \in {n \in DOMAIN Shown :
                                /\ Shown[n].impl = i /\ Shown[n].workload = w
                                /\ Shown[n].asked = "canonical"
                                /\ Failed(Shown[n]) \/ Capped(Shown[n])}}}
            IN  /\ \A i \in arms :
                      /\ \A s \in Drawn(i, w), t \in Ladder(w) : t < s => t \in Drawn(i, w)
                      /\ \A x \in stops(i), t \in Ladder(w) :
                            /\ t < x => t \in Drawn(i, w)
                            /\ t > x => t \notin Drawn(i, w)
                      /\ stops(i) = {} /\ pc = "done" /\ site.summary = Len(raw) =>
                            Drawn(i, w) = Ladder(w)
                /\ \A p \in Summary!LargestPaired(Shown, w, arms) :
                      /\ \A i \in arms : p.size \in Drawn(i, w)
                      /\ \E i \in arms : \A s \in Drawn(i, w) : s <= p.size

(***************************************************************************)
(* The inductive invariant behind DataBacksPages and FailuresAreShown      *)
(* (proved in RunProfileProofs); it rests on RunProfile's IInv.            *)
(***************************************************************************)
Jobs == [at : {"idle", "summary.json", "summary.csv", "data", "pages"}, summary : Int, run : Int]

\* A summary and a run.json may be shown together: what only the former knows
\* of is of one write.
Close(summary, run) ==
    /\ summary \in 0..Len(raw) /\ run \in 0..Len(raw)
    /\ \A a, b \in (run + 1)..summary : OfOneWrite(raw[a], raw[b])

\* The two files differ only after a summarize that was not finished.
FilesInv ==
    /\ summaryJson \in {Absent, Torn} \union 0..Len(raw)
    /\ summaryCsv = summaryJson \/ halfway
    /\ halfway \in BOOLEAN

\* What a command has read is still what the files hold, as no other command
\* is running; the run meanwhile only appends.
JobInv ==
    /\ job \in Jobs
    /\ job.at \in {"summary.json", "summary.csv"} => job.summary \in 0..Len(raw)
    /\ job.at = "summary.csv" => summaryJson = job.summary /\ halfway
    /\ job.at \in {"data", "pages"} => summaryJson = job.summary /\ Close(job.summary, job.run)
    /\ job.at = "pages" => /\ site.json = job.summary /\ site.raw >= job.summary
                           /\ site.csv = site.json \/ site.halfway

SiteInv == DataBacksPages /\ (Published => Close(site.summary, site.run))

SiteIInv == IInv /\ FilesInv /\ JobInv /\ SiteInv
=============================================================================
