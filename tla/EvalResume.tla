------------------------------- MODULE EvalResume -------------------------------
(***************************************************************************)
(* One evaluation stage of run_experiment_until_complete.py: a supervisor  *)
(* that inspects, waits for the GPUs and launches run_four_gpu_eval.py     *)
(* again and again; the launcher with its model servers and its manifest;  *)
(* the evaluator, whose requests are answered in any order and appended to *)
(* one JSONL file that every launch resumes.  Requests fail, every process *)
(* dies alone or with the others, a row is cut while it is written, to the *)
(* output or to an archive.                                                *)
(***************************************************************************)
EXTENDS Naturals, FiniteSets, Sequences, SequencesExt

CONSTANTS
    Keys,               \* the expected <task>:<sample> keys
    Concurrency,        \* --concurrency
    MaxErrors,          \* --max-errors
    RetryReact,         \* --retry-react-errors
    MaxFaults           \* bound: failed requests and dead processes

ASSUME EvalShape ==
    /\ IsFiniteSet(Keys) /\ Keys # {}
    /\ Concurrency \in Nat \ {0} /\ MaxErrors \in Nat \ {0}
    /\ RetryReact \in BOOLEAN /\ MaxFaults \in Nat

VARIABLES
    out,                \* the lines of outputs/<dataset>.jsonl
    unterminated,       \* its last line has no newline
    archive,            \* whole lines of .request_errors.jsonl and .turn_limit_retries.jsonl
    cut,                \* the archives whose last line has no newline, by what they take
    manifest,           \* four_gpu_manifest.json
    servers,            \* the model servers hold the GPUs
    launcher, evaluator, sup,
    todo, busy,         \* jobs not asked, and requests in flight
    errors,             \* error_count
    tries,              \* how often each key was asked, which tells its rows apart
    faults

files == <<out, unterminated, archive, cut>>
jobs == <<todo, busy, errors, tries>>
vars == <<files, manifest, servers, launcher, evaluator, sup, jobs, faults>>

Kinds == {"ok", "react", "error", "torn"}
Lines == Range(out)
Rows == {r \in Lines : r.kind # "torn"}
Succeeded(r) == r.kind = "ok" \/ (r.kind = "react" /\ ~RetryReact)
Retried == {r \in Rows : ~Succeeded(r)}
Torn(r) == [r EXCEPT !.kind = "torn"]

\* inspect_eval_completion, and validate_results with the set of keys.
Complete ==
    /\ Len(out) = Cardinality(Keys)
    /\ {r.key : r \in {x \in Rows : x.kind # "error"}} = Keys

\* The lines prepare_resume_output keeps: the last successful row of a key.
Kept ==
    {i \in 1 .. Len(out) :
        /\ Succeeded(out[i])
        /\ \A x \in Rows : (Succeeded(x) /\ x.key = out[i].key) => x.try <= out[i].try}
\* The file as it leaves it: line n is the kept line that n kept ones reach up to.
Resumed ==
    [n \in 1 .. Cardinality(Kept) |->
        out[CHOOSE i \in Kept : Cardinality(Kept \cap (1 .. i)) = n]]

Init ==
    /\ out = <<>> /\ unterminated = FALSE /\ archive = {} /\ cut = {}
    /\ manifest = "none"
    /\ servers = FALSE /\ launcher = "off" /\ evaluator = "off" /\ sup = "down"
    /\ todo = {} /\ busy = {} /\ errors = 0 /\ tries = [k \in Keys |-> 0]
    /\ faults = 0
-----------------------------------------------------------------------------
(* The evaluator. *)

EvaluatorStep(from, to) ==
    /\ evaluator = from /\ evaluator' = to
    /\ UNCHANGED <<manifest, servers, launcher, sup, faults>>

\* A mutant of Moved: every row that is no request error goes to the other archive.
MovedRest(kind) ==
    {i \in 1 .. Len(out) : out[i] \in Rows /\ (out[i].kind = "error") = (kind = "error")}
\* The lines of the rows that one of the archives takes.
Moved(kind) == {i \in 1 .. Len(out) : out[i] \in Retried /\ out[i].kind = kind}
\* The lines that the first rows of them, those up to n, make in the archive: a line
\* that a death cut is joined to the first one.
Archived(kind, n) ==
    {IF kind \in cut /\ \A j \in Moved(kind) : i <= j THEN Torn(out[i]) ELSE out[i] :
        i \in {i \in Moved(kind) : i <= n}}
ArchiveRows(kind, n) ==
    /\ archive' = archive \cup Archived(kind, n)
    /\ cut' = IF Archived(kind, n) = {} THEN cut ELSE cut \ {kind}

\* A mutant of ArchiveErrors: the errors are not archived when a line is torn.
ArchiveErrorsUnlessTorn ==
    /\ EvaluatorStep("archive", "retries")
    /\ ArchiveRows("error", IF Rows = Lines THEN Len(out) ELSE 0)
    /\ UNCHANGED <<out, unterminated, jobs>>
ArchiveErrors ==
    /\ EvaluatorStep("archive", "retries")
    /\ ArchiveRows("error", Len(out))
    /\ UNCHANGED <<out, unterminated, jobs>>
ArchiveRetries ==
    /\ EvaluatorStep("retries", "rewrite")
    /\ ArchiveRows("react", Len(out))
    /\ UNCHANGED <<out, unterminated, jobs>>

\* A mutant of Rewrite: torn lines alone do not make it rewrite the file.
RewriteErrorsOnly ==
    /\ EvaluatorStep("rewrite", "run")
    /\ IF Retried # {} THEN out' = Resumed /\ unterminated' = FALSE
                       ELSE UNCHANGED <<out, unterminated>>
    /\ todo' = Keys \ {r.key : r \in {x \in Rows : Succeeded(x)}}
    /\ busy' = {} /\ errors' = 0
    /\ UNCHANGED <<archive, cut, tries>>
\* The file is replaced in one rename, and only if a line goes.
Rewrite ==
    /\ EvaluatorStep("rewrite", "run")
    /\ IF Resumed # out THEN out' = Resumed /\ unterminated' = FALSE
                        ELSE UNCHANGED <<out, unterminated>>
    /\ todo' = Keys \ {r.key : r \in {x \in Rows : Succeeded(x)}}
    /\ busy' = {} /\ errors' = 0
    /\ UNCHANGED <<archive, cut, tries>>

Aborted == errors >= MaxErrors

\* A mutant of Ask: the abort is not looked at again under the semaphore.
AskAfterAbort(k) ==
    /\ EvaluatorStep("run", "run") /\ k \in todo
    /\ Cardinality(busy) < Concurrency
    /\ todo' = todo \ {k} /\ busy' = busy \cup {k}
    /\ tries' = [tries EXCEPT ![k] = @ + 1]
    /\ UNCHANGED <<files, errors>>
Ask(k) ==
    /\ EvaluatorStep("run", "run") /\ k \in todo
    /\ ~Aborted /\ Cardinality(busy) < Concurrency
    /\ todo' = todo \ {k} /\ busy' = busy \cup {k}
    /\ tries' = [tries EXCEPT ![k] = @ + 1]
    /\ UNCHANGED <<files, errors>>

\* A row appended to a line without a newline makes one line of two that no
\* reader parses.
Appended(row) ==
    IF unterminated THEN Append(Front(out), [Last(out) EXCEPT !.kind = "torn"])
                    ELSE Append(out, row)
Row(k, kind) == [key |-> k, try |-> tries[k], kind |-> kind]

\* The answer is written without another task in between.
Answer(k, kind) ==
    /\ evaluator = "run" /\ k \in busy
    /\ kind = "error" => faults < MaxFaults
    /\ faults' = faults + (IF kind = "error" THEN 1 ELSE 0)
    /\ errors' = errors + (IF kind = "error" THEN 1 ELSE 0)
    /\ busy' = busy \ {k}
    /\ out' = Appended(Row(k, kind)) /\ unterminated' = FALSE
    /\ UNCHANGED <<archive, cut, manifest, servers, launcher, evaluator, sup, todo, tries>>

\* It writes the summary, if it can read every line, and exits.
EvaluatorDone ==
    /\ busy = {} /\ (todo = {} \/ Aborted)
    /\ EvaluatorStep("run", "off")
    /\ todo' = {}
    /\ UNCHANGED <<files, busy, errors, tries>>

\* What a dying evaluator leaves of the row it was writing: nothing, a part of
\* it, or all but the newline.
CutRow ==
    \/ UNCHANGED <<out, unterminated>>
    \/ \E k \in busy, kind \in Kinds :
          /\ evaluator = "run"
          /\ out' = Appended(Row(k, kind)) /\ unterminated' = TRUE
\* And of the rows it was archiving: some of the first, and perhaps a part of the next.
CutArchive ==
    \/ UNCHANGED <<archive, cut>>
    \/ \E n \in 0 .. Len(out), kind \in {"error", "react"} :
          /\ evaluator = (IF kind = "error" THEN "archive" ELSE "retries")
          /\ archive' = archive \cup Archived(kind, n)
          /\ \/ cut' = (IF Archived(kind, n) = {} THEN cut ELSE cut \ {kind})
             \/ (\E i \in Moved(kind) : n < i) /\ cut' = cut \cup {kind}
NoJobs == todo' = {} /\ busy' = {} /\ UNCHANGED <<errors, tries>>

EvaluatorDies ==
    /\ evaluator # "off" /\ faults < MaxFaults
    /\ faults' = faults + 1 /\ evaluator' = "off"
    /\ CutRow /\ CutArchive /\ NoJobs
    /\ UNCHANGED <<manifest, servers, launcher, sup>>
-----------------------------------------------------------------------------
(* The launcher. *)

LauncherStep(from, to) ==
    /\ launcher = from /\ launcher' = to
    /\ UNCHANGED <<files, sup, jobs, faults>>

\* The fingerprint check fails on half a manifest; complete results need no work.
CheckExits ==
    /\ manifest = "torn" \/ Complete
    /\ LauncherStep("check", "off")
    /\ UNCHANGED <<manifest, servers, evaluator>>
StartServers ==
    /\ manifest # "torn" /\ ~Complete
    /\ LauncherStep("check", "serve")
    /\ servers' = TRUE
    /\ UNCHANGED <<manifest, evaluator>>
\* The servers are up and the preflight passed; or not, and all are terminated.
WriteManifest ==
    /\ LauncherStep("serve", "run")
    /\ manifest' = "good" /\ evaluator' = "archive"
    /\ UNCHANGED servers
ServersFail ==
    /\ faults < MaxFaults /\ faults' = faults + 1
    /\ launcher = "serve" /\ launcher' = "off" /\ servers' = FALSE
    /\ UNCHANGED <<files, manifest, evaluator, sup, jobs>>
\* However the evaluator ended, the servers are terminated.
LauncherDone ==
    /\ evaluator = "off" /\ LauncherStep("run", "off")
    /\ servers' = FALSE
    /\ UNCHANGED <<manifest, evaluator>>

\* A killed launcher leaves its servers and its evaluator, and half a manifest
\* if it was writing it.
LauncherKilled ==
    /\ launcher # "off" /\ faults < MaxFaults
    /\ faults' = faults + 1 /\ launcher' = "off"
    /\ manifest' \in (IF launcher = "serve" THEN {manifest, "torn"} ELSE {manifest})
    /\ UNCHANGED <<files, servers, evaluator, sup, jobs>>
-----------------------------------------------------------------------------
(* The supervisor: _complete_eval_stage. *)

SupervisorStep(from, to) ==
    /\ sup = from /\ sup' = to
    /\ UNCHANGED <<files, manifest, servers, evaluator, jobs, faults>>

Start == SupervisorStep("down", "inspect") /\ UNCHANGED launcher
Inspect ==
    /\ SupervisorStep("inspect", IF Complete THEN "accepted" ELSE "wait")
    /\ UNCHANGED launcher
\* A mutant of Launch: it does not wait for the GPUs.
LaunchAtOnce ==
    /\ ~Complete /\ launcher = "off"
    /\ SupervisorStep("wait", "child") /\ launcher' = "check"
Launch ==
    /\ ~servers /\ ~Complete
    /\ SupervisorStep("wait", "child") /\ launcher' = "check"
\* Another evaluator completed the results while it waited.
FoundComplete ==
    /\ ~servers /\ Complete
    /\ SupervisorStep("wait", "inspect") /\ UNCHANGED launcher
Reap == launcher = "off" /\ SupervisorStep("child", "inspect") /\ UNCHANGED launcher

\* The supervisor alone dies, in the hours its child holds the GPUs ...
SupervisorDies ==
    /\ sup \in {"wait", "child"} /\ (sup = "child" => servers)
    /\ faults < MaxFaults /\ faults' = faults + 1
    /\ sup' = "down"
    /\ UNCHANGED <<files, manifest, servers, launcher, evaluator, jobs>>
\* ... or with everything else (Ctrl-C, a reboot).
StopAll ==
    /\ sup = "child" /\ faults < MaxFaults
    /\ faults' = faults + 1
    /\ sup' = "down" /\ launcher' = "off" /\ evaluator' = "off" /\ servers' = FALSE
    /\ manifest' \in (IF launcher = "serve" THEN {manifest, "torn"} ELSE {manifest})
    /\ CutRow /\ CutArchive /\ NoJobs

\* Nobody frees the GPUs of a killed launcher's servers.
Leaked == servers /\ launcher = "off"
Stopped == evaluator = "off" /\ (sup = "accepted" \/ (sup = "wait" /\ Leaked)) /\ UNCHANGED vars

EvaluatorNext ==
    \/ ArchiveErrors \/ ArchiveRetries \/ Rewrite \/ EvaluatorDone
    \/ \E k \in Keys : Ask(k) \/ \E kind \in Kinds \ {"torn"} : Answer(k, kind)
LauncherNext == CheckExits \/ StartServers \/ WriteManifest \/ LauncherDone
SupervisorNext == Start \/ Inspect \/ Launch \/ FoundComplete \/ Reap
Next ==
    \/ EvaluatorNext \/ LauncherNext \/ SupervisorNext
    \/ EvaluatorDies \/ ServersFail \/ LauncherKilled \/ SupervisorDies \/ StopAll
    \/ Stopped

Spec == Init /\ [][Next]_vars
\* Processes run, requests are answered, and the caller starts the supervisor again.
FairSpec == Spec /\ WF_vars(EvaluatorNext) /\ WF_vars(LauncherNext) /\ WF_vars(SupervisorNext)
-----------------------------------------------------------------------------
TypeOK ==
    /\ out \in Seq([key : Keys, try : Nat, kind : Kinds])
    /\ unterminated \in BOOLEAN
    /\ archive \subseteq [key : Keys, try : Nat, kind : Kinds \ {"ok"}]
    /\ cut \subseteq {"error", "react"}
    /\ manifest \in {"none", "good", "torn"} /\ servers \in BOOLEAN
    /\ launcher \in {"off", "check", "serve", "run"}
    /\ evaluator \in {"off", "archive", "retries", "rewrite", "run"}
    /\ sup \in {"down", "inspect", "wait", "child", "accepted"}
    /\ todo \subseteq Keys /\ busy \subseteq Keys
    /\ errors \in Nat /\ tries \in [Keys -> Nat] /\ faults \in 0 .. MaxFaults

\* However often the stage was killed and resumed, no key that is asked for, or
\* still will be, has a successful row, and no key has two; and no launcher is
\* near the file that an evaluator without a launcher is still writing; so results
\* once accepted stay complete, although such an evaluator may still be running.
NotRedone ==
    /\ \A i, j \in 1 .. Len(out) :
          (Succeeded(out[i]) /\ Succeeded(out[j]) /\ out[i].key = out[j].key) => i = j
    /\ evaluator = "run" =>
          \A r \in Rows : Succeeded(r) => r.key \notin todo \cup busy
    /\ launcher \in {"check", "serve"} => evaluator = "off"
    /\ sup = "accepted" => Complete

\* A run of the evaluator has at most --concurrency requests in flight, and
\* records at most --max-errors failed ones and those in flight beside the last.
RequestsBounded ==
    /\ Cardinality(busy) <= Concurrency
    /\ Aborted => errors + Cardinality(busy) < MaxErrors + Concurrency

\* Rows joined to a part of another, and parts that will be joined to one.
Losses == Cardinality({r \in archive : r.kind = "torn"}) + Cardinality(cut)
\* Every row stays in the output or goes to an archive, except one that a dying
\* evaluator left without a newline, and one whose line in the archive is joined to
\* the part of a row that a death left there: of these no more than there were faults.
NothingLost ==
    /\ [][\A r \in Rows : \/ r \in Rows' \cup archive' \/ Torn(r) \in archive'
                          \/ (unterminated /\ r = Last(out))]_vars
    /\ [](Losses <= faults)

\* The stage ends accepted, unless half a manifest stops every launch or the
\* servers of a killed launcher hold the GPUs for ever.
Settles == <>[](sup = "accepted" \/ manifest = "torn" \/ Leaked)
=============================================================================
