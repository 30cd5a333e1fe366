------------------------------- MODULE SamplingRun -------------------------------
(***************************************************************************)
(* AHD's sampling runs: EOH._run_sampling draws samples batch by batch and *)
(* appends them to samples.jsonl until there are sample_total of them.  A  *)
(* run that died or ended is launched again on the same directory, with    *)
(* --sample-resume-path to append or without it to start clean, possibly   *)
(* with another total or batch size.  A sample is its sample_index.  Names *)
(* that EvaluatorPool has too carry a prefix: AhdProofs extends both.      *)
(***************************************************************************)
EXTENDS Naturals, Sequences

CONSTANTS
    Totals,             \* the values of --sample-total in use
    BatchSizes,         \* the values of --sample-batch-size in use
    MaxLaunches         \* bound: how often the command is started

ASSUME SamplingShape ==
    Totals \subseteq Nat \ {0} /\ BatchSizes \subseteq Nat \ {0} /\ MaxLaunches \in Nat

VARIABLES
    samples,            \* the samples in samples.jsonl, in file order
    tail,               \* how the file ends: "clean", or in a line without its
                        \* newline ("open") or without all of its text ("torn")
    unreadable,         \* a line of the file is not valid JSON
    history,            \* [n -> the samples in sample_generation_n.json]
    loop,               \* where the process is: "down" when there is none
    total, batch,       \* its arguments
    generation,         \* the loop's index
    written,            \* samples_written
    pending,            \* what is left to write of this generation's batch
    uniform,            \* every resume so far kept the batch size and started
                        \* at a multiple of it
    launches

disk == <<samples, tail, unreadable, history>>
process == <<loop, total, batch, generation, written, pending>>
samplingVars == <<disk, process, uniform, launches>>

CeilDiv(a, b) == (a + b - 1) \div b
BatchOf(from, n) == [k \in 1 .. n |-> from + k]

\* A mutant of Generations: the last, short batch has no generation.
WholeGenerations == total \div batch
Generations == CeilDiv(total, batch)

\* Mutants of CurrentBatchSize: the last batch is not cut, or takes all the rest.
FullBatchSize == batch
RestOfTotal == total - written
CurrentBatchSize == IF batch < total - written THEN batch ELSE total - written

SamplingInit ==
    /\ samples = <<>> /\ tail = "clean" /\ unreadable = FALSE /\ history = <<>>
    /\ loop = "down" /\ total \in Totals /\ batch \in BatchSizes
    /\ generation = 0 /\ written = 0 /\ pending = <<>>
    /\ uniform = TRUE /\ launches = 0
-----------------------------------------------------------------------------
SamplingLaunch(t, b, n, g) ==
    /\ loop \in {"down", "done"} /\ launches < MaxLaunches
    /\ launches' = launches + 1 /\ loop' = "sample"
    /\ total' = t /\ batch' = b /\ written' = n /\ generation' = g
    /\ pending' = <<>> /\ UNCHANGED history

\* Without --sample-resume-path the file starts empty; the generation files of
\* an earlier run under the same id stay until they are overwritten.
LaunchClean(t, b) ==
    /\ SamplingLaunch(t, b, 0, 0)
    /\ samples' = <<>> /\ tail' = "clean" /\ unreadable' = FALSE /\ uniform' = TRUE

Readable == launches > 0 /\ ~unreadable /\ tail # "torn"

LaunchResume(t, b) ==
    /\ Readable /\ Len(samples) <= t
    /\ SamplingLaunch(t, b, Len(samples), CeilDiv(Len(samples), b))
    /\ uniform' = (uniform /\ b = batch /\ Len(samples) % b = 0)
    /\ UNCHANGED <<samples, tail, unreadable>>

\* A line that is not JSON, or more samples than the new total: ValueError.
LaunchRefused(t) ==
    /\ loop \in {"down", "done"} /\ launches \in 1 .. MaxLaunches - 1
    /\ ~Readable \/ Len(samples) > t
    /\ launches' = launches + 1 /\ loop' = "down"
    /\ UNCHANGED <<disk, total, batch, generation, written, pending, uniform>>

\* get_algorithm, filled up with failed attempts or cut to the batch's size.
\* The batch is then written to its generation file.
Sample ==
    /\ loop = "sample" /\ generation < Generations
    /\ pending' = BatchOf(written, CurrentBatchSize)
    /\ loop' = "dump"
    /\ UNCHANGED <<disk, total, batch, generation, written, uniform, launches>>

Dump ==
    /\ loop = "dump"
    /\ history' = [n \in DOMAIN history \cup {generation + 1} |->
                      IF n = generation + 1 THEN pending ELSE history[n]]
    /\ loop' = "append"
    /\ UNCHANGED <<samples, tail, unreadable, total, batch, generation, written,
                   pending, uniform, launches>>

\* One line reaches the file.  After a line without its newline, the two are
\* one line that no later resume can read.
AppendLine ==
    /\ loop = "append" /\ pending # <<>>
    /\ samples' = Append(samples, Head(pending)) /\ pending' = Tail(pending)
    /\ unreadable' = (unreadable \/ tail = "open") /\ tail' = "clean"
    /\ UNCHANGED <<history, loop, total, batch, generation, written, uniform, launches>>

Appended ==
    /\ loop = "append" /\ pending = <<>>
    /\ written' = written + CurrentBatchSize
    /\ generation' = generation + 1 /\ loop' = "sample"
    /\ UNCHANGED <<disk, total, batch, pending, uniform, launches>>

Finish ==
    /\ loop = "sample" /\ generation >= Generations
    /\ loop' = "done"
    /\ UNCHANGED <<disk, total, batch, generation, written, pending, uniform, launches>>

\* The process is killed.  In the middle of the appends, the buffer may have
\* been cut anywhere in a line.
Crash ==
    /\ loop \notin {"down", "done"}
    /\ loop' = "down"
    /\ \/ UNCHANGED <<samples, tail, unreadable>>
       \/ /\ loop = "append" /\ pending # <<>>
          /\ tail' = "torn" /\ UNCHANGED <<samples, unreadable>>
       \/ /\ loop = "append" /\ pending # <<>>
          /\ samples' = Append(samples, Head(pending))
          /\ unreadable' = (unreadable \/ tail = "open") /\ tail' = "open"
    /\ UNCHANGED <<history, total, batch, generation, written, pending, uniform, launches>>

Stopped == loop \in {"down", "done"} /\ launches = MaxLaunches /\ UNCHANGED samplingVars

SamplingNext ==
    \/ \E t \in Totals, b \in BatchSizes :
           LaunchClean(t, b) \/ LaunchResume(t, b)
    \/ \E t \in Totals : LaunchRefused(t)
    \/ Sample \/ Dump \/ AppendLine \/ Appended \/ Finish \/ Crash \/ Stopped

SamplingSpec == SamplingInit /\ [][SamplingNext]_samplingVars
-----------------------------------------------------------------------------
SamplingTypeOK ==
    /\ samples \in Seq(Nat) /\ tail \in {"clean", "open", "torn"}
    /\ unreadable \in BOOLEAN
    /\ loop \in {"down", "sample", "dump", "append", "done"}
    /\ total \in Totals /\ batch \in BatchSizes
    /\ generation \in Nat /\ written \in Nat /\ uniform \in BOOLEAN
    /\ pending \in Seq(Nat) /\ Len(pending) <= batch
    /\ launches \in 0 .. MaxLaunches

\* However often a run is cut off and continued, with whatever totals and batch
\* sizes, samples.jsonl holds samples 1, 2, 3, ... once each and in order, and a
\* process never writes more of them than its total.
IndexIsPosition ==
    /\ \A k \in DOMAIN samples : samples[k] = k
    /\ loop # "down" => Len(samples) <= total

\* A finished process leaves fewer samples missing than one batch.  When every
\* resume started on a batch boundary it leaves none, and no generation file of
\* the run is overwritten: every sample in samples.jsonl is in one of them.  (A
\* resume off the boundary or with another batch size may reuse the number of a
\* generation already saved.)
MissesLessThanABatch ==
    /\ loop = "done" => Len(samples) > total - batch
    /\ (loop = "done" /\ uniform) => Len(samples) = total
    /\ uniform =>
          \A k \in DOMAIN samples :
              \E n \in DOMAIN history : \E j \in DOMAIN history[n] :
                  history[n][j] = samples[k]
=============================================================================
