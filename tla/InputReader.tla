----------------------------- MODULE InputReader -----------------------------
(***************************************************************************)
(* Input::read_input_csv of the training examples: the calling thread      *)
(* reads the lines of the file into a queue, reader threads                *)
(* (read_csv_thread) take them in groups, split them into a label and its  *)
(* features and append both to two vectors that must stay in step.         *)
(*                                                                         *)
(* The flag terminate is a plain bool that the caller sets while readers   *)
(* look at it: a reader sees the old or the new value.                     *)
(***************************************************************************)
EXTENDS Integers, Sequences, FiniteSets, SequencesExt

CONSTANTS
    Readers,         \* the nthreads threads
    File,            \* the lines of the file, each a sequence of fields
    limit_cols,      \* fields taken from a line, 0 for all
    read_at_a_time   \* lines a reader takes at once

ASSUME InputAssumption ==
    /\ IsFiniteSet(Readers) /\ Readers # {}
    /\ File \in Seq(Seq(Nat)) /\ File # <<>>
    /\ \A i \in DOMAIN File : Len(File[i]) > 0
    /\ limit_cols \in Nat
    /\ read_at_a_time \in Nat \ {0}
    /\ "free" \notin Readers

VARIABLES
    taken,           \* lines of the file read so far
    lines,           \* the queue of raw lines
    samples, labels, \* the two result vectors
    terminate,
    input_mutex, output_mutex,   \* the holder, or "free"
    main,            \* where the caller is
    reader           \* where each reader is, and its local vectors

vars == <<taken, lines, samples, labels, terminate, input_mutex, output_mutex, main, reader>>

-----------------------------------------------------------------------------
(* A line: the first column is the label, limit_cols counts it.            *)

Fields(line) ==
    IF limit_cols > 0 /\ limit_cols < Len(line) THEN SubSeq(line, 1, limit_cols) ELSE line

Label(line) == Head(Fields(line))

Sample(line) == Tail(Fields(line))

-----------------------------------------------------------------------------
(* read_csv_thread.                                                        *)

At(t, pc) == reader[t].pc = pc

Goto(t, pc) == reader' = [reader EXCEPT ![t].pc = pc]

CheckTerminate(t) ==
    /\ At(t, "top")
    /\ Goto(t, IF terminate THEN "exit" ELSE "lock_input")
    /\ UNCHANGED <<taken, lines, samples, labels, terminate, input_mutex, output_mutex, main>>

LockInput(t) ==
    /\ At(t, "lock_input")
    /\ input_mutex = "free"
    /\ input_mutex' = t
    /\ Goto(t, "pop")
    /\ UNCHANGED <<taken, lines, samples, labels, terminate, output_mutex, main>>

MayPop(t) == lines # <<>> /\ Len(reader[t].thread_lines) < read_at_a_time

PopLine(t) ==
    /\ At(t, "pop")
    /\ MayPop(t)
    /\ reader' = [reader EXCEPT ![t].thread_lines = Append(@, Head(lines))]
    /\ lines' = Tail(lines)
    /\ UNCHANGED <<taken, samples, labels, terminate, input_mutex, output_mutex, main>>

UnlockInput(t) ==
    /\ At(t, "pop")
    /\ ~MayPop(t)
    /\ input_mutex' = "free"
    /\ Goto(t, IF reader[t].thread_lines = <<>> THEN "top" ELSE "parse")
    /\ UNCHANGED <<taken, lines, samples, labels, terminate, output_mutex, main>>

\* Mutant: the flag is looked at again before the results are handed over.
Parse_ChecksFlag(t) ==
    /\ At(t, "parse")
    /\ reader' = [reader EXCEPT ![t] =
                     [pc |-> IF terminate THEN "exit" ELSE "lock_output", thread_lines |-> <<>>,
                      thread_samples |-> [i \in DOMAIN @.thread_lines |-> Sample(Reverse(@.thread_lines)[i])],
                      thread_labels |-> [i \in DOMAIN @.thread_lines |-> Label(Reverse(@.thread_lines)[i])]]]
    /\ UNCHANGED <<taken, lines, samples, labels, terminate, input_mutex, output_mutex, main>>

\* The lines are taken from the back.
Parse(t) ==
    LET todo == Reverse(reader[t].thread_lines)
    IN  /\ At(t, "parse")
        /\ reader' = [reader EXCEPT ![t] =
                         [pc |-> "lock_output", thread_lines |-> <<>>,
                          thread_samples |-> [i \in DOMAIN todo |-> Sample(todo[i])],
                          thread_labels |-> [i \in DOMAIN todo |-> Label(todo[i])]]]
        /\ UNCHANGED <<taken, lines, samples, labels, terminate, input_mutex, output_mutex, main>>

\* Mutant: the output vectors are not locked.
LockOutput_Skipped(t) ==
    /\ At(t, "lock_output")
    /\ Goto(t, "push_sample")
    /\ UNCHANGED <<taken, lines, samples, labels, terminate, input_mutex, output_mutex, main>>

LockOutput(t) ==
    /\ At(t, "lock_output")
    /\ output_mutex = "free"
    /\ output_mutex' = t
    /\ Goto(t, "push_sample")
    /\ UNCHANGED <<taken, lines, samples, labels, terminate, input_mutex, main>>

PushSample(t) ==
    /\ At(t, "push_sample")
    /\ reader[t].thread_samples # <<>>
    /\ samples' = Append(samples, Last(reader[t].thread_samples))
    /\ Goto(t, "push_label")
    /\ UNCHANGED <<taken, lines, labels, terminate, input_mutex, output_mutex, main>>

\* The label, and the two pop_backs.
PushLabel(t) ==
    /\ At(t, "push_label")
    /\ labels' = Append(labels, Last(reader[t].thread_labels))
    /\ reader' = [reader EXCEPT ![t].pc = "push_sample",
                                ![t].thread_samples = Front(@),
                                ![t].thread_labels = Front(@)]
    /\ UNCHANGED <<taken, lines, samples, terminate, input_mutex, output_mutex, main>>

UnlockOutput(t) ==
    /\ At(t, "push_sample")
    /\ reader[t].thread_samples = <<>>
    /\ output_mutex' = "free"
    /\ Goto(t, "top")
    /\ UNCHANGED <<taken, lines, samples, labels, terminate, input_mutex, main>>

read_csv_thread(t) ==
    \/ CheckTerminate(t) \/ LockInput(t) \/ PopLine(t) \/ UnlockInput(t) \/ Parse(t)
    \/ LockOutput(t) \/ PushSample(t) \/ PushLabel(t) \/ UnlockOutput(t)

-----------------------------------------------------------------------------
(* read_input_csv.                                                         *)

PushLine ==
    /\ main = "getline"
    /\ taken < Len(File)
    /\ input_mutex = "free"
    /\ taken' = taken + 1
    /\ lines' = Append(lines, File[taken + 1])
    /\ UNCHANGED <<samples, labels, terminate, input_mutex, output_mutex, main, reader>>

EndOfFile ==
    /\ main = "getline"
    /\ taken = Len(File)
    /\ main' = "drain"
    /\ UNCHANGED <<taken, lines, samples, labels, terminate, input_mutex, output_mutex, reader>>

\* The loop that looks every 100us whether the queue is empty, under the lock.
Drained ==
    /\ main = "drain"
    /\ input_mutex = "free"
    /\ lines = <<>>
    /\ main' = "terminate"
    /\ UNCHANGED <<taken, lines, samples, labels, terminate, input_mutex, output_mutex, reader>>

\* Mutant: the readers are joined without having been told to stop.
SetTerminate_Forgotten ==
    /\ main = "terminate"
    /\ main' = "join"
    /\ UNCHANGED <<taken, lines, samples, labels, terminate, input_mutex, output_mutex, reader>>

SetTerminate ==
    /\ main = "terminate"
    /\ terminate' = TRUE
    /\ main' = "join"
    /\ UNCHANGED <<taken, lines, samples, labels, input_mutex, output_mutex, reader>>

Join ==
    /\ main = "join"
    /\ \A t \in Readers : At(t, "exit")
    /\ main' = "shuffle"
    /\ UNCHANGED <<taken, lines, samples, labels, terminate, input_mutex, output_mutex, reader>>

\* random_shuffle draws from rand: a permutation that the seed and the length
\* determine, and the seed is set to 42 before either shuffle.
Shuffle ==
    /\ main = "shuffle"
    /\ \E p \in SetToSeqs(DOMAIN samples), q \in SetToSeqs(DOMAIN labels) :
          /\ Len(samples) = Len(labels) => p = q
          /\ samples' = [i \in DOMAIN samples |-> samples[p[i]]]
          /\ labels' = [i \in DOMAIN labels |-> labels[q[i]]]
    /\ main' = "done"
    /\ UNCHANGED <<taken, lines, terminate, input_mutex, output_mutex, reader>>

read_input_csv == PushLine \/ EndOfFile \/ Drained \/ SetTerminate \/ Join \/ Shuffle

Init ==
    /\ taken = 0
    /\ lines = <<>>
    /\ samples = <<>>
    /\ labels = <<>>
    /\ terminate = FALSE
    /\ input_mutex = "free"
    /\ output_mutex = "free"
    /\ main = "getline"
    /\ reader = [t \in Readers |-> [pc |-> "top", thread_lines |-> <<>>,
                                    thread_samples |-> <<>>, thread_labels |-> <<>>]]

Next == read_input_csv \/ \E t \in Readers : read_csv_thread(t)

Spec == Init /\ [][Next]_vars

\* Every thread is scheduled, and one that keeps asking for a mutex that is
\* released again and again gets it some time.
FairSpec == Spec /\ SF_vars(read_input_csv) /\ \A t \in Readers : SF_vars(read_csv_thread(t))

-----------------------------------------------------------------------------
(* Properties.                                                             *)

\* What the file says: the label and the features of each line.
Parsed == [i \in DOMAIN File |-> <<Label(File[i]), Sample(File[i])>>]

\* The vectors never disagree: at every index at which both have an element,
\* the label is that of the sample's own line, whichever readers appended in
\* what order and wherever a reader stands between its two push_backs.
Paired ==
    \A i \in DOMAIN labels : i \in DOMAIN samples /\ <<labels[i], samples[i]>> \in ToSet(Parsed)

\* read_input_csv returns every line of the file, once: no line that a reader
\* had taken off the queue when the caller found it empty is dropped, although
\* terminate is set while the reader still works on it.
EveryLineOnce ==
    main = "done" =>
        /\ Len(samples) = Len(File)
        /\ Len(labels) = Len(File)
        /\ \A x \in ToSet(Parsed) :
              Cardinality({i \in DOMAIN samples : <<labels[i], samples[i]>> = x})
              = Cardinality({i \in DOMAIN Parsed : Parsed[i] = x})

\* The call returns: the readers spin on an empty queue, and the caller's wait
\* for the queue and its joins end.
ReadReturns == <>(main = "done")
=============================================================================
