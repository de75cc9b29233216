-------------------------- MODULE InputReaderProofs --------------------------
(***************************************************************************)
(* For every file, number of reader threads and size of a group: the two   *)
(* vectors that read_input_csv fills never disagree, and when it returns   *)
(* they hold the sample and the label of every line, once.                 *)
(***************************************************************************)
EXTENDS InputReader, FiniteSetTheorems, TLAPS

-----------------------------------------------------------------------------
(* The inductive invariant.  A reader between its two push_backs is the    *)
(* only one there (it holds output_mutex), and what it has pushed is the   *)
(* sample of the label it will push next; otherwise the two vectors are of *)
(* one length.                                                             *)

Lines == ToSet(File)
SampleSet == {Sample(l) : l \in Lines}
LabelSet == {Label(l) : l \in Lines}

OfOneLine(label, sample) == \E l \in Lines : label = Label(l) /\ sample = Sample(l)

ReaderPC == {"top", "lock_input", "pop", "parse", "lock_output", "push_sample", "push_label", "exit"}

ReaderType == [pc : ReaderPC, thread_lines : Seq(Lines), thread_samples : Seq(SampleSet),
               thread_labels : Seq(LabelSet)]

Typed ==
    /\ taken \in Nat
    /\ lines \in Seq(Lines)
    /\ samples \in Seq(SampleSet)
    /\ labels \in Seq(LabelSet)
    /\ reader \in [Readers -> ReaderType]

\* What a reader has parsed and not yet handed over.
Parsing(r) ==
    /\ Len(r.thread_samples) = Len(r.thread_labels)
    /\ \A i \in 1 .. Len(r.thread_labels) : OfOneLine(r.thread_labels[i], r.thread_samples[i])
    /\ r.pc = "push_label" => Len(r.thread_samples) > 0

Pushing(r) == r.pc \in {"push_sample", "push_label"}

Exclusive == \A t \in Readers : Pushing(reader[t]) => output_mutex = t

InStep ==
    /\ \A t \in Readers : reader[t].pc = "push_label" =>
          /\ Len(samples) = Len(labels) + 1
          /\ samples[Len(samples)] = reader[t].thread_samples[Len(reader[t].thread_samples)]
    /\ (\A t \in Readers : reader[t].pc # "push_label") => Len(samples) = Len(labels)
    /\ Len(labels) <= Len(samples)
    /\ \A i \in 1 .. Len(labels) : OfOneLine(labels[i], samples[i])

Joined == main \in {"shuffle", "done"} => \A t \in Readers : reader[t].pc = "exit"

IInv == Typed /\ (\A t \in Readers : Parsing(reader[t])) /\ Exclusive /\ InStep /\ Joined

-----------------------------------------------------------------------------

\* Before read_input has read a line all the vectors are empty.
LEMMA InitInv == Init => IInv
<1> SUFFICES ASSUME Init PROVE IInv
  BY Zenon
<1> DEFINE r == [pc |-> "top", thread_lines |-> <<>>, thread_samples |-> <<>>, thread_labels |-> <<>>]
<1>1. r \in ReaderType
  BY DEF ReaderType, ReaderPC
<1>2. \A t \in Readers : reader[t] = r
  BY Zenon DEF Init
<1>3. Typed
  BY <1>1 DEF Init, Typed
<1>4. Parsing(r) /\ ~Pushing(r) /\ r.pc # "push_label"
  BY DEF Parsing, Pushing
<1>5. (\A t \in Readers : Parsing(reader[t])) /\ Exclusive
  BY <1>2, <1>4, Zenon DEF Exclusive
<1>6. InStep
  BY <1>2, <1>4 DEF Init, InStep
<1>7. Joined
  BY Zenon DEF Init, Joined
<1> QED
  BY <1>3, <1>5, <1>6, <1>7, Zenon DEF IInv

\* A reader that is not between the two push_backs goes elsewhere, or takes or
\* gives back a mutex.
LEMMA MoveStep ==
    ASSUME IInv, NEW t \in Readers, NEW pc \in ReaderPC \ {"push_label"},
           reader' = [reader EXCEPT ![t].pc = pc], reader[t].pc \notin {"push_label", "exit"},
           UNCHANGED <<taken, lines, samples, labels, main>>,
           pc = "push_sample" => output_mutex' = t,
           \A u \in Readers \ {t} : Pushing(reader[u]) => output_mutex' = u
    PROVE  IInv'
<1> DEFINE r == [reader[t] EXCEPT !.pc = pc]
<1>1. reader \in [Readers -> ReaderType] /\ reader[t] \in ReaderType
  BY Zenon DEF IInv, Typed
<1>2. /\ r \in ReaderType
      /\ r.pc = pc
      /\ r.thread_samples = reader[t].thread_samples
      /\ r.thread_labels = reader[t].thread_labels
  BY <1>1, Zenon DEF ReaderType
<1>3. reader' = [reader EXCEPT ![t] = r]
  BY Zenon
<1> HIDE DEF r
<1>4. \A u \in Readers : reader'[u] = IF u = t THEN r ELSE reader[u]
  BY <1>1, <1>3, Zenon
<1>5. Typed'
  BY <1>1, <1>2, <1>3, Zenon DEF IInv, Typed
<1>6. \A u \in Readers : Parsing(reader[u])'
  BY <1>2, <1>4 DEF IInv, Parsing
<1>7. Exclusive'
  BY <1>2, <1>4, Zenon DEF Exclusive, Pushing
<1>8. InStep'
  BY <1>2, <1>4, Zenon DEF IInv, InStep
<1>9. Joined'
  BY Zenon DEF IInv, Joined
<1> QED
  BY <1>5, <1>6, <1>7, <1>8, <1>9, Zenon DEF IInv

\* A step of the caller that touches neither the readers nor their results.
LEMMA CallerStep ==
    ASSUME IInv, UNCHANGED <<samples, labels, output_mutex, reader>>,
           taken' \in Nat, lines' \in Seq(Lines),
           main' \in {"shuffle", "done"} => \A t \in Readers : reader[t].pc = "exit"
    PROVE  IInv'
  BY Zenon DEF IInv, Typed, Parsing, Exclusive, Pushing, InStep, Joined

\* A reader that is neither pushing nor done replaces its local vectors.
LEMMA LocalStep ==
    ASSUME IInv, NEW t \in Readers, NEW r \in ReaderType, Parsing(r),
           r.pc \notin {"push_sample", "push_label"},
           reader' = [reader EXCEPT ![t] = r], reader[t].pc \notin {"push_label", "exit"},
           lines' \in Seq(Lines), UNCHANGED <<taken, samples, labels, output_mutex, main>>
    PROVE  IInv'
<1>1. reader \in [Readers -> ReaderType]
  BY Zenon DEF IInv, Typed
<1>2. \A u \in Readers : reader'[u] = IF u = t THEN r ELSE reader[u]
  BY <1>1, Zenon
<1>3. Typed'
  BY <1>1, Zenon DEF IInv, Typed
<1>4. \A u \in Readers : Parsing(reader[u])'
  BY <1>2, Zenon DEF IInv, Parsing
<1>5. Exclusive'
  BY <1>2, Zenon DEF IInv, Exclusive, Pushing
<1>6. InStep'
  BY <1>2 DEF IInv, InStep
<1>7. Joined'
  BY Zenon DEF IInv, Joined
<1> QED
  BY <1>3, <1>4, <1>5, <1>6, <1>7, Zenon DEF IInv

\* A thread takes the next line from the queue.
LEMMA PopLineInv ==
    ASSUME IInv, NEW t \in Readers, PopLine(t)
    PROVE  IInv'
<1> DEFINE s == Append(reader[t].thread_lines, Head(lines))
           r == [reader[t] EXCEPT !.thread_lines = s]
<1>1. reader[t] \in ReaderType /\ Parsing(reader[t]) /\ reader[t].pc = "pop" /\ lines \in Seq(Lines) /\ lines # <<>>
  BY Zenon DEF IInv, Typed, PopLine, At, MayPop
<1>2. Tail(lines) \in Seq(Lines) /\ Head(lines) \in Lines
  BY <1>1
<1>3. s \in Seq(Lines)
  BY <1>1, <1>2 DEF ReaderType
<1> HIDE DEF s
<1>4. /\ r \in ReaderType
      /\ r.pc = "pop"
      /\ r.thread_samples = reader[t].thread_samples
      /\ r.thread_labels = reader[t].thread_labels
  BY <1>1, <1>3, Zenon DEF ReaderType
<1>5. Parsing(r)
  BY <1>1, <1>4, Zenon DEF Parsing
<1>6. reader' = [reader EXCEPT ![t] = r]
  BY Zenon DEF PopLine, s
<1> QED
  BY <1>1, <1>2, <1>4, <1>5, <1>6, LocalStep, Zenon DEF PopLine

\* A thread has parsed its lines: a sample and a label of each.
LEMMA ParseInv ==
    ASSUME IInv, NEW t \in Readers, Parse(t)
    PROVE  IInv'
<1> DEFINE s == reader[t].thread_lines
           todo == Reverse(s)
           ss == [i \in DOMAIN todo |-> Sample(todo[i])]
           ls == [i \in DOMAIN todo |-> Label(todo[i])]
           r == [pc |-> "lock_output", thread_lines |-> <<>>, thread_samples |-> ss, thread_labels |-> ls]
<1>1. reader[t].pc = "parse" /\ s \in Seq(Lines)
  BY Zenon DEF IInv, Typed, ReaderType, Parse, At
<1>2. todo \in Seq(Lines) /\ DOMAIN todo = 1 .. Len(s)
  BY <1>1 DEF Reverse
<1> HIDE DEF todo
<1>3. ss \in Seq(SampleSet) /\ Len(ss) = Len(s)
  BY <1>1, <1>2 DEF SampleSet
<1>4. ls \in Seq(LabelSet) /\ Len(ls) = Len(s)
  BY <1>1, <1>2 DEF LabelSet
<1>5. \A i \in 1 .. Len(ls) : OfOneLine(ls[i], ss[i])
  BY <1>1, <1>2, <1>4 DEF OfOneLine
<1>6. reader' = [reader EXCEPT ![t] = r]
  BY Zenon DEF Parse, todo
<1> HIDE DEF ss, ls
<1>7. r \in ReaderType
  BY <1>3, <1>4 DEF ReaderType, ReaderPC
<1>8. Parsing(r)
  BY <1>3, <1>4, <1>5, Zenon DEF Parsing
<1>9. r.pc = "lock_output" /\ lines' \in Seq(Lines)
  BY Zenon DEF Parse, IInv, Typed
<1> QED
  BY <1>1, <1>6, <1>7, <1>8, <1>9, LocalStep, Zenon DEF Parse

\* The mutex keeps every other reader away from both vectors.
LEMMA OthersWait ==
    ASSUME IInv, NEW t \in Readers, Pushing(reader[t])
    PROVE  \A u \in Readers \ {t} : ~Pushing(reader[u])
  BY Zenon DEF IInv, Exclusive

\* A thread appends a sample to the shared vector, under the lock.
LEMMA PushSampleInv ==
    ASSUME IInv, NEW t \in Readers, PushSample(t)
    PROVE  IInv'
<1> DEFINE ts == reader[t].thread_samples
           r == [reader[t] EXCEPT !.pc = "push_label"]
           e == ts[Len(ts)]
<1>1. reader[t] \in ReaderType /\ reader \in [Readers -> ReaderType] /\ Parsing(reader[t])
  BY Zenon DEF IInv, Typed
<1>2. reader[t].pc = "push_sample" /\ ts # <<>> /\ Pushing(reader[t])
  BY Zenon DEF PushSample, At, Pushing
<1>3. ts \in Seq(SampleSet) /\ Len(ts) > 0 /\ e \in SampleSet
  BY <1>1, <1>2 DEF ReaderType
<1>4. /\ r \in ReaderType
      /\ r.pc = "push_label"
      /\ r.thread_samples = ts
      /\ r.thread_labels = reader[t].thread_labels
  BY <1>1, Zenon DEF ReaderType, ReaderPC
<1>5. \A u \in Readers \ {t} : ~Pushing(reader[u])
  BY <1>2, OthersWait, Zenon
<1>6. samples' = Append(samples, e) /\ reader' = [reader EXCEPT ![t] = r]
  BY Zenon DEF PushSample, Goto, Last
<1>7. UNCHANGED <<taken, lines, labels, output_mutex, main>>
  BY Zenon DEF PushSample
<1> HIDE DEF r, e
<1>8. \A u \in Readers : reader'[u] = IF u = t THEN r ELSE reader[u]
  BY <1>1, <1>6, Zenon
<1>9. samples \in Seq(SampleSet) /\ labels \in Seq(LabelSet) /\ Len(samples) = Len(labels)
  BY <1>2, <1>5, Zenon DEF IInv, Typed, InStep, Pushing
<1>10. /\ samples' \in Seq(SampleSet)
       /\ Len(samples') = Len(samples) + 1
       /\ samples'[Len(samples')] = e
       /\ \A i \in 1 .. Len(samples) : samples'[i] = samples[i]
  BY <1>3, <1>6, <1>9 DEF e
<1>11. Typed'
  BY <1>1, <1>4, <1>6, <1>7, <1>10, Zenon DEF IInv, Typed
<1>12. \A u \in Readers : Parsing(reader[u])'
  BY <1>1, <1>3, <1>4, <1>8, Zenon DEF IInv, Parsing
<1>13. Exclusive'
  BY <1>2, <1>7, <1>8, Zenon DEF IInv, Exclusive, Pushing
<1>14. InStep'
  <2>1. \A u \in Readers : reader'[u].pc = "push_label" => u = t
    BY <1>5, <1>8, Zenon DEF Pushing
  <2>2. \A i \in 1 .. Len(labels) : OfOneLine(labels[i], samples'[i])
    BY <1>9, <1>10, Zenon DEF IInv, InStep
  <2>3. reader'[t].pc = "push_label" /\ reader'[t].thread_samples = ts
    BY <1>4, <1>8, Zenon
  <2> QED
    BY <1>7, <1>9, <1>10, <2>1, <2>2, <2>3 DEF InStep, e
<1>15. Joined'
  BY <1>2, <1>7, Zenon DEF IInv, Joined
<1> QED
  BY <1>11, <1>12, <1>13, <1>14, <1>15, Zenon DEF IInv

\* A sequence without its last element, which pop_back leaves.
LEMMA FrontOf ==
    ASSUME NEW S, NEW s \in Seq(S), Len(s) > 0
    PROVE  /\ Front(s) \in Seq(S)
           /\ Len(Front(s)) = Len(s) - 1
           /\ \A i \in 1 .. Len(s) - 1 : Front(s)[i] = s[i]
<1> DEFINE n == Len(s) - 1
<1>1. n \in Nat /\ \A i \in 1 .. n : s[i] \in S
  OBVIOUS
<1>2. /\ SubSeq(s, 1, n) \in Seq(S)
      /\ Len(SubSeq(s, 1, n)) = n
      /\ \A i \in 1 .. n : SubSeq(s, 1, n)[i] = s[i]
  <2> HIDE DEF n
  <2> QED
    BY <1>1
<1> QED
  BY <1>2, Zenon DEF Front

\* The label follows its sample under the same lock.
LEMMA PushLabelInv ==
    ASSUME IInv, NEW t \in Readers, PushLabel(t)
    PROVE  IInv'
<1> DEFINE ts == reader[t].thread_samples
           tl == reader[t].thread_labels
           r == [reader[t] EXCEPT !.pc = "push_sample", !.thread_samples = Front(ts),
                                  !.thread_labels = Front(tl)]
           e == tl[Len(tl)]
<1>1. reader[t] \in ReaderType /\ reader \in [Readers -> ReaderType] /\ Parsing(reader[t])
  BY Zenon DEF IInv, Typed
<1>2. reader[t].pc = "push_label" /\ Pushing(reader[t])
  BY Zenon DEF PushLabel, At, Pushing
<1>3. /\ ts \in Seq(SampleSet)
      /\ tl \in Seq(LabelSet)
      /\ Len(ts) = Len(tl)
      /\ Len(ts) > 0
      /\ e \in LabelSet
      /\ OfOneLine(e, ts[Len(ts)])
  BY <1>1, <1>2 DEF ReaderType, Parsing
<1>4. /\ Front(ts) \in Seq(SampleSet)
      /\ Front(tl) \in Seq(LabelSet)
      /\ Len(Front(ts)) = Len(ts) - 1
      /\ Len(Front(tl)) = Len(tl) - 1
      /\ \A i \in 1 .. Len(ts) - 1 : Front(ts)[i] = ts[i] /\ Front(tl)[i] = tl[i]
  BY <1>3, FrontOf, Zenon
<1>5. /\ r \in ReaderType
      /\ r.pc = "push_sample"
      /\ r.thread_samples = Front(ts)
      /\ r.thread_labels = Front(tl)
  BY <1>1, <1>4, Zenon DEF ReaderType, ReaderPC
<1>6. Parsing(r)
  <2>1. \A i \in 1 .. Len(Front(tl)) : OfOneLine(Front(tl)[i], Front(ts)[i])
    BY <1>1, <1>3, <1>4 DEF Parsing
  <2> QED
    BY <1>3, <1>4, <1>5, <2>1, Zenon DEF Parsing
<1>7. labels' = Append(labels, e) /\ reader' = [reader EXCEPT ![t] = r]
  BY Zenon DEF PushLabel, Last
<1>8. UNCHANGED <<taken, lines, samples, output_mutex, main>>
  BY Zenon DEF PushLabel
<1> HIDE DEF r, e
<1>9. \A u \in Readers : reader'[u] = IF u = t THEN r ELSE reader[u]
  BY <1>1, <1>7, Zenon
<1>10. \A u \in Readers \ {t} : ~Pushing(reader[u])
  BY <1>2, OthersWait, Zenon
<1>11. /\ samples \in Seq(SampleSet)
       /\ labels \in Seq(LabelSet)
       /\ Len(samples) = Len(labels) + 1
       /\ samples[Len(samples)] = ts[Len(ts)]
  BY <1>2, Zenon DEF IInv, Typed, InStep
<1>12. /\ labels' \in Seq(LabelSet)
       /\ Len(labels') = Len(labels) + 1
       /\ labels'[Len(labels')] = e
       /\ \A i \in 1 .. Len(labels) : labels'[i] = labels[i]
  BY <1>3, <1>7, <1>11 DEF e
<1>13. Typed'
  BY <1>1, <1>5, <1>7, <1>8, <1>12, Zenon DEF IInv, Typed
<1>14. \A u \in Readers : Parsing(reader[u])'
  BY <1>6, <1>9, Zenon DEF IInv, Parsing
<1>15. Exclusive'
  BY <1>2, <1>8, <1>9, Zenon DEF IInv, Exclusive, Pushing
<1>16. InStep'
  <2>1. \A u \in Readers : reader'[u].pc # "push_label"
    BY <1>5, <1>9, <1>10, Zenon DEF Pushing
  <2>2. \A i \in 1 .. Len(labels) : OfOneLine(labels'[i], samples[i])
    BY <1>12, Zenon DEF IInv, InStep
  <2>3. OfOneLine(labels'[Len(labels')], samples[Len(labels')])
    BY <1>3, <1>11, <1>12, Zenon
  <2>4. \A i \in 1 .. Len(labels') : OfOneLine(labels'[i], samples[i])
    BY <1>11, <1>12, <2>2, <2>3
  <2> QED
    BY <1>8, <1>11, <1>12, <2>1, <2>4 DEF InStep
<1>17. Joined'
  BY <1>2, <1>8, Zenon DEF IInv, Joined
<1> QED
  BY <1>13, <1>14, <1>15, <1>16, <1>17, Zenon DEF IInv

\* The readers have finished, so the vectors are of one length and the two
\* shuffles are one permutation.
LEMMA ShuffleInv ==
    ASSUME IInv, Shuffle
    PROVE  IInv'
<1>1. /\ \A t \in Readers : reader[t].pc = "exit"
      /\ samples \in Seq(SampleSet)
      /\ labels \in Seq(LabelSet)
  BY Zenon DEF Shuffle, IInv, Joined, Typed
<1>2. Len(samples) = Len(labels)
  BY <1>1, Zenon DEF IInv, InStep
<1> DEFINE n == Len(samples)
<1>3. n \in Nat /\ DOMAIN samples = 1 .. n /\ DOMAIN labels = 1 .. n
  BY <1>1, <1>2
<1>4. PICK p \in SetToSeqs(DOMAIN samples) :
         /\ samples' = [i \in DOMAIN samples |-> samples[p[i]]]
         /\ labels' = [i \in DOMAIN labels |-> labels[p[i]]]
  BY <1>2, Zenon DEF Shuffle
<1>5. Cardinality(1 .. n) = n
  <2> HIDE DEF n
  <2>1. n \in Int /\ 1 \in Int /\ n - 1 + 1 = n /\ (1 > n => n = 0)
    BY <1>3
  <2>2. Cardinality(1 .. n) = IF 1 > n THEN 0 ELSE n - 1 + 1
    BY <2>1, FS_Interval, Zenon
  <2> QED
    BY <2>1, <2>2, Zenon
<1>6. p \in [1 .. n -> 1 .. n]
  BY <1>3, <1>5, Zenon DEF SetToSeqs
<1> HIDE DEF n
<1>7. /\ samples' \in Seq(SampleSet)
      /\ Len(samples') = n
      /\ \A i \in 1 .. n : samples'[i] = samples[p[i]]
  BY <1>1, <1>3, <1>4, <1>6
<1>8. /\ labels' \in Seq(LabelSet)
      /\ Len(labels') = n
      /\ \A i \in 1 .. n : labels'[i] = labels[p[i]]
  BY <1>1, <1>3, <1>4, <1>6
<1>9. \A i \in 1 .. n : OfOneLine(labels'[i], samples'[i])
  <2>1. \A i \in 1 .. n : OfOneLine(labels[i], samples[i])
    BY <1>2, Zenon DEF IInv, InStep, n
  <2> QED
    BY <1>6, <1>7, <1>8, <2>1
<1>10. Typed'
  BY <1>7, <1>8, Zenon DEF IInv, Typed, Shuffle
<1>11. (\A t \in Readers : Parsing(reader[t]))' /\ Exclusive'
  BY Zenon DEF IInv, Shuffle, Parsing, Exclusive, Pushing
<1>12. InStep'
  BY <1>1, <1>3, <1>7, <1>8, <1>9 DEF InStep, Shuffle
<1>13. Joined'
  BY <1>1, Zenon DEF Joined, Shuffle
<1> QED
  BY <1>10, <1>11, <1>12, <1>13, Zenon DEF IInv

\* Every step keeps the invariant.
LEMMA StepInv == IInv /\ [Next]_vars => IInv'
<1> SUFFICES ASSUME IInv, [Next]_vars PROVE IInv'
  BY Zenon
<1>1. ASSUME NEW t \in Readers, read_csv_thread(t) PROVE IInv'
  <2>1. ASSUME NEW pc \in {"top", "lock_input", "pop", "parse", "exit"},
               reader' = [reader EXCEPT ![t].pc = pc], reader[t].pc \notin {"push_label", "exit"},
               UNCHANGED <<taken, lines, samples, labels, output_mutex, main>>
        PROVE  IInv'
    <3>1. pc \in ReaderPC \ {"push_label"} /\ pc # "push_sample"
      BY <2>1, Zenon DEF ReaderPC
    <3>2. \A u \in Readers \ {t} : Pushing(reader[u]) => output_mutex' = u
      BY <2>1, Zenon DEF IInv, Exclusive
    <3> QED
      BY <2>1, <3>1, <3>2, MoveStep, Zenon
  <2>2. CASE CheckTerminate(t)
    <3>1. (IF terminate THEN "exit" ELSE "lock_input") \in {"top", "lock_input", "pop", "parse", "exit"}
      BY Zenon
    <3> QED
      BY <2>1, <2>2, <3>1, Zenon DEF CheckTerminate, At, Goto
  <2>3. CASE LockInput(t)
    BY <2>1, <2>3, Zenon DEF LockInput, At, Goto
  <2>4. CASE UnlockInput(t)
    <3>1. (IF reader[t].thread_lines = <<>> THEN "top" ELSE "parse")
             \in {"top", "lock_input", "pop", "parse", "exit"}
      BY Zenon
    <3> QED
      BY <2>1, <2>4, <3>1, Zenon DEF UnlockInput, At, Goto
  <2>5. CASE LockOutput(t)
    <3>1. \A u \in Readers : ~Pushing(reader[u])
      BY <2>5, InputAssumption, Zenon DEF LockOutput, IInv, Exclusive
    <3>2. "push_sample" \in ReaderPC \ {"push_label"}
      BY Zenon DEF ReaderPC
    <3>3. /\ reader' = [reader EXCEPT ![t].pc = "push_sample"]
          /\ reader[t].pc \notin {"push_label", "exit"}
          /\ UNCHANGED <<taken, lines, samples, labels, main>>
          /\ output_mutex' = t
      BY <2>5, Zenon DEF LockOutput, At, Goto
    <3> QED
      BY <3>1, <3>2, <3>3, MoveStep, Zenon
  <2>6. CASE UnlockOutput(t)
    <3>1. \A u \in Readers \ {t} : ~Pushing(reader[u])
      BY <2>6, OthersWait, Zenon DEF UnlockOutput, At, Pushing
    <3>2. "top" \in ReaderPC \ {"push_label"}
      BY Zenon DEF ReaderPC
    <3>3. /\ reader' = [reader EXCEPT ![t].pc = "top"]
          /\ reader[t].pc \notin {"push_label", "exit"}
          /\ UNCHANGED <<taken, lines, samples, labels, main>>
      BY <2>6, Zenon DEF UnlockOutput, At, Goto
    <3> QED
      BY <3>1, <3>2, <3>3, MoveStep, Zenon
  <2> QED
    BY <1>1, <2>2, <2>3, <2>4, <2>5, <2>6, PopLineInv, ParseInv, PushSampleInv, PushLabelInv
       DEF read_csv_thread
<1>2. CASE PushLine
  <2>1. File[taken + 1] \in Lines
    BY <1>2, InputAssumption DEF PushLine, IInv, Typed, Lines, ToSet
  <2>2. lines' \in Seq(Lines) /\ taken' \in Nat
    BY <1>2, <2>1 DEF PushLine, IInv, Typed
  <2> QED
    BY <1>2, <2>2, CallerStep, Zenon DEF PushLine, IInv, Joined
<1>3. CASE EndOfFile \/ Drained \/ SetTerminate \/ Join
  <2>1. /\ UNCHANGED <<taken, lines, samples, labels, output_mutex, reader>>
        /\ main' \in {"shuffle", "done"} => \A t \in Readers : reader[t].pc = "exit"
    BY <1>3, Zenon DEF EndOfFile, Drained, SetTerminate, Join, At
  <2> QED
    BY <2>1, CallerStep, Zenon DEF IInv, Typed
<1>4. CASE Shuffle
  BY <1>4, ShuffleInv, Zenon
<1>5. CASE UNCHANGED vars
  BY <1>5, CallerStep, Zenon DEF vars, IInv, Typed, Joined
<1> QED
  BY <1>1, <1>2, <1>3, <1>4, <1>5 DEF Next, read_input_csv

-----------------------------------------------------------------------------
(* Theorem.                                                                *)

\* Whatever the readers do to the two shared vectors, in whatever order, and
\* after both have been shuffled with the same seed: a label that read_input_csv
\* has stored has the sample of its own line at the same index.
THEOREM LabelsMatchSamples == Spec => []Paired
<1>1. IInv => Paired
  <2> SUFFICES ASSUME IInv, NEW i \in DOMAIN labels
               PROVE  i \in DOMAIN samples /\ <<labels[i], samples[i]>> \in ToSet(Parsed)
    BY Zenon DEF Paired
  <2>1. i \in 1 .. Len(labels) /\ i \in DOMAIN samples
    BY DEF IInv, Typed, InStep
  <2>2. PICK l \in Lines : labels[i] = Label(l) /\ samples[i] = Sample(l)
    BY <2>1, Zenon DEF IInv, InStep, OfOneLine
  <2>3. PICK k \in DOMAIN File : l = File[k]
    BY Zenon DEF Lines, ToSet
  <2>4. k \in DOMAIN Parsed /\ Parsed[k] = <<labels[i], samples[i]>>
    BY <2>2, <2>3, Zenon DEF Parsed
  <2> QED
    BY <2>1, <2>4, Zenon DEF ToSet
<1> QED
  BY <1>1, InitInv, StepInv, PTL DEF Spec

-----------------------------------------------------------------------------
(* Every line is somewhere, once.  The lines taken from the file and the   *)
(* places where a line can be (the queue, a reader's raw lines, a reader's *)
(* parsed lines, the two result vectors) are in a one-to-one               *)
(* correspondence: Held says what is in each place, and Accounted that     *)
(* some function tells for each slot of it which line of the file it came  *)
(* from.                                                                   *)

Queue == <<"queue", "free">>
Out == <<"out", "free">>
Local(t) == <<"local", t>>
Own(t) == <<"own", t>>

Places == {Queue, Out} \cup {Local(t) : t \in Readers} \cup {Own(t) : t \in Readers}

PairsOf(s) == [i \in 1 .. Len(s) |-> <<Label(s[i]), Sample(s[i])>>]

Both(ls, ss) == [i \in 1 .. Len(ls) |-> <<ls[i], ss[i]>>]

Held(l, ls, ss, r) ==
    [p \in Places |->
        IF p = Queue THEN PairsOf(l)
        ELSE IF p = Out THEN Both(ls, ss)
        ELSE IF p[1] = "local" THEN PairsOf(r[p[2]].thread_lines)
        ELSE Both(r[p[2]].thread_labels, r[p[2]].thread_samples)]

Slots(V) == {s \in Places \X Nat : s[2] \in 1 .. Len(V[s[1]])}

\* f tells for each slot which of the first n lines is in it.
Traces(f, V, n) ==
    /\ f \in [Slots(V) -> 1 .. n]
    /\ \A s, u \in Slots(V) : f[s] = f[u] => s = u
    /\ \A k \in 1 .. n : \E s \in Slots(V) : f[s] = k
    /\ \A s \in Slots(V) : Parsed[f[s]] = V[s[1]][s[2]]

Accounted(V, n) == \E f \in [Slots(V) -> 1 .. n] : Traces(f, V, n)

\* What a reader's local vectors hold at each point of its loop.
Emptied(r) ==
    /\ r.pc \in {"top", "lock_input", "lock_output", "push_sample", "push_label", "exit"} => r.thread_lines = <<>>
    /\ r.pc \in {"top", "lock_input", "pop", "parse", "exit"} => r.thread_labels = <<>>

\* How far the caller is.
Progress ==
    /\ taken \in 0 .. Len(File)
    /\ main \in {"getline", "drain", "terminate", "join", "shuffle", "done"}
    /\ main # "getline" => taken = Len(File)
    /\ main \in {"terminate", "join", "shuffle", "done"} => lines = <<>>

LinesAccounted == Accounted(Held(lines, labels, samples, reader), taken)

LineInv == IInv /\ (\A t \in Readers : Emptied(reader[t])) /\ Progress /\ LinesAccounted

\* The places are different places.
LEMMA PlacesDiffer ==
    /\ Queue \in Places /\ Out \in Places /\ Queue # Out
    /\ \A t \in Readers : /\ Local(t) \in Places /\ Own(t) \in Places
                          /\ Local(t) # Queue /\ Local(t) # Out /\ Own(t) # Queue /\ Own(t) # Out
    /\ \A t, u \in Readers : /\ Local(t) # Own(u)
                             /\ t # u => Local(t) # Local(u) /\ Own(t) # Own(u)
  BY Zenon DEF Places, Queue, Out, Local, Own

\* What is in each place.
LEMMA HeldIs ==
    ASSUME NEW l, NEW ls, NEW ss, NEW r
    PROVE  /\ Held(l, ls, ss, r)[Queue] = PairsOf(l)
           /\ Held(l, ls, ss, r)[Out] = Both(ls, ss)
           /\ \A t \in Readers :
                 /\ Held(l, ls, ss, r)[Local(t)] = PairsOf(r[t].thread_lines)
                 /\ Held(l, ls, ss, r)[Own(t)] = Both(r[t].thread_labels, r[t].thread_samples)
<1>1. Held(l, ls, ss, r)[Queue] = PairsOf(l) /\ Held(l, ls, ss, r)[Out] = Both(ls, ss)
  BY PlacesDiffer, Zenon DEF Held
<1>2. ASSUME NEW t \in Readers
      PROVE  Held(l, ls, ss, r)[Local(t)] = PairsOf(r[t].thread_lines)
  <2>1. Local(t)[1] = "local" /\ Local(t)[2] = t
    BY Zenon DEF Local
  <2> QED
    BY <2>1, PlacesDiffer, Zenon DEF Held
<1>3. ASSUME NEW t \in Readers
      PROVE  Held(l, ls, ss, r)[Own(t)] = Both(r[t].thread_labels, r[t].thread_samples)
  <2>1. Own(t)[1] # "local" /\ Own(t)[2] = t
    BY Zenon DEF Own
  <2> QED
    BY <2>1, PlacesDiffer, Zenon DEF Held
<1> QED
  BY <1>1, <1>2, <1>3, Zenon

\* A place is the queue, the result, or one of a reader.
LEMMA PlaceCases ==
    ASSUME NEW p \in Places
    PROVE  p = Queue \/ p = Out \/ \E t \in Readers : p = Local(t) \/ p = Own(t)
  BY Zenon DEF Places

\* b tells for each slot of W the slot of V its line was in before.
Back(b, W, V) ==
    /\ b \in [Slots(W) -> Slots(V)]
    /\ \A s, u \in Slots(W) : b[s] = b[u] => s = u
    /\ \A s \in Slots(V) : \E u \in Slots(W) : b[u] = s
    /\ \A s \in Slots(W) : W[s[1]][s[2]] = V[b[s][1]][b[s][2]]

\* Lines that only change their places stay accounted for.
LEMMA Relocate ==
    ASSUME NEW V, NEW W, NEW n, Accounted(V, n), NEW b, Back(b, W, V)
    PROVE  Accounted(W, n)
<1>1. PICK f \in [Slots(V) -> 1 .. n] : Traces(f, V, n)
  BY Zenon DEF Accounted
<1> DEFINE S == Slots(V)
           U == Slots(W)
           g == [s \in U |-> f[b[s]]]
<1>2. /\ b \in [U -> S]
      /\ \A s, u \in U : b[s] = b[u] => s = u
      /\ \A s \in S : \E u \in U : b[u] = s
      /\ \A s \in U : W[s[1]][s[2]] = V[b[s][1]][b[s][2]]
  BY Zenon DEF Back
<1>3. /\ f \in [S -> 1 .. n]
      /\ \A s, u \in S : f[s] = f[u] => s = u
      /\ \A k \in 1 .. n : \E s \in S : f[s] = k
      /\ \A s \in S : Parsed[f[s]] = V[s[1]][s[2]]
  BY <1>1, Zenon DEF Traces
<1> HIDE DEF S, U
<1>4. g \in [U -> 1 .. n] /\ \A s \in U : g[s] = f[b[s]] /\ b[s] \in S
  BY <1>2, <1>3, Zenon
<1> HIDE DEF g
<1>5. \A s, u \in U : g[s] = g[u] => s = u
  BY <1>2, <1>3, <1>4
<1>6. \A k \in 1 .. n : \E s \in U : g[s] = k
  <2> SUFFICES ASSUME NEW k \in 1 .. n PROVE \E s \in U : g[s] = k
    BY Zenon
  <2>1. PICK s \in S : f[s] = k
    BY <1>3, Zenon
  <2>2. PICK u \in U : b[u] = s
    BY <1>2, Zenon
  <2> QED
    BY <1>4, <2>1, <2>2, Zenon
<1>7. \A s \in U : Parsed[g[s]] = W[s[1]][s[2]]
  BY <1>2, <1>3, <1>4
<1>8. Traces(g, W, n)
  BY <1>4, <1>5, <1>6, <1>7, Zenon DEF Traces, U
<1> QED
  BY <1>4, <1>8, Zenon DEF Accounted, U

\* Vectors with lengths.
Vectors(V) == \A p \in Places : Len(V[p]) \in Nat

Elsewhere(V, W, P) == \A r \in Places \ P : W[r] = V[r]

\* A slot is a place and an index in it.
LEMMA SlotIs ==
    ASSUME NEW V, Vectors(V)
    PROVE  /\ \A s \in Slots(V) : /\ s = <<s[1], s[2]>> /\ s[1] \in Places
                                  /\ s[2] \in Nat /\ 1 <= s[2] /\ s[2] <= Len(V[s[1]])
           /\ \A p \in Places, i \in Nat : 1 <= i /\ i <= Len(V[p]) => <<p, i>> \in Slots(V)
  BY DEF Slots, Vectors

\* pop_front here, push_back there.
LEMMA FirstMoves ==
    ASSUME NEW V, NEW W, NEW n, Vectors(V), Vectors(W), Accounted(V, n),
           NEW p \in Places, NEW q \in Places, p # q, Elsewhere(V, W, {p, q}),
           Len(V[p]) = Len(W[p]) + 1, Len(W[q]) = Len(V[q]) + 1,
           \A i \in 1 .. Len(W[p]) : W[p][i] = V[p][i + 1],
           \A i \in 1 .. Len(V[q]) : W[q][i] = V[q][i],
           W[q][Len(W[q])] = V[p][1]
    PROVE  Accounted(W, n)
<1> DEFINE S == Slots(V)
           U == Slots(W)
           m(s) == IF s[1] = p THEN <<p, s[2] + 1>>
                   ELSE IF s = <<q, Len(W[q])>> THEN <<p, 1>> ELSE s
           b == [s \in U |-> m(s)]
<1>1. /\ \A s \in U : /\ s = <<s[1], s[2]>> /\ s[1] \in Places
                      /\ s[2] \in Nat /\ 1 <= s[2] /\ s[2] <= Len(W[s[1]])
      /\ \A r \in Places, i \in Nat : 1 <= i /\ i <= Len(W[r]) => <<r, i>> \in U
  BY SlotIs, Zenon
<1>2. /\ \A s \in S : /\ s = <<s[1], s[2]>> /\ s[1] \in Places
                      /\ s[2] \in Nat /\ 1 <= s[2] /\ s[2] <= Len(V[s[1]])
      /\ \A r \in Places, i \in Nat : 1 <= i /\ i <= Len(V[r]) => <<r, i>> \in S
  BY SlotIs, Zenon
<1>3. \A r \in Places : r # p /\ r # q => W[r] = V[r]
  BY Zenon DEF Elsewhere
<1>4. Len(V[p]) \in Nat /\ Len(V[q]) \in Nat /\ Len(W[p]) \in Nat /\ Len(W[q]) \in Nat
  BY Zenon DEF Vectors
<1> HIDE DEF S, U
<1>5. ASSUME NEW s \in U
      PROVE  m(s) \in S /\ W[s[1]][s[2]] = V[m(s)[1]][m(s)[2]]
  <2>1. CASE s[1] = p
    BY <1>1, <1>2, <1>4, <2>1
  <2>2. CASE s[1] # p /\ s = <<q, Len(W[q])>>
    BY <1>1, <1>2, <1>4, <2>2
  <2>3. CASE s[1] # p /\ s[1] = q /\ s # <<q, Len(W[q])>>
    <3>1. s[2] # Len(W[q]) /\ m(s) = s
      BY <1>1, <2>3
    <3>2. s[2] \in 1 .. Len(V[q])
      BY <1>1, <1>4, <2>3, <3>1
    <3> QED
      BY <1>1, <1>2, <1>4, <2>3, <3>1, <3>2
  <2>4. CASE s[1] # p /\ s[1] # q
    <3>1. m(s) = s /\ W[s[1]] = V[s[1]]
      BY <1>1, <1>3, <2>4
    <3> QED
      BY <1>1, <1>2, <3>1
  <2> QED
    BY <2>1, <2>2, <2>3, <2>4, Zenon
<1>6. ASSUME NEW s \in U, NEW u \in U, m(s) = m(u)
      PROVE  s = u
  BY <1>1, <1>4, <1>6
<1>7. ASSUME NEW s \in S
      PROVE  \E u \in U : m(u) = s
  <2>1. CASE s[1] = p /\ s[2] = 1
    <3>1. <<q, Len(W[q])>> \in U
      BY <1>1, <1>4
    <3>2. m(<<q, Len(W[q])>>) = <<p, 1>>
      OBVIOUS
    <3> QED
      BY <1>2, <2>1, <3>1, <3>2
  <2>2. CASE s[1] = p /\ s[2] # 1
    <3>1. <<p, s[2] - 1>> \in U
      BY <1>1, <1>2, <1>4, <2>2
    <3>2. m(<<p, s[2] - 1>>) = s
      BY <1>2, <2>2
    <3> QED
      BY <3>1, <3>2
  <2>3. CASE s[1] = q
    <3>1. s[2] # Len(W[q]) /\ s \in U
      BY <1>1, <1>2, <1>4, <2>3
    <3> QED
      BY <1>2, <2>3, <3>1
  <2>4. CASE s[1] # p /\ s[1] # q
    BY <1>1, <1>2, <1>3, <2>4
  <2> QED
    BY <2>1, <2>2, <2>3, <2>4
<1>8. \A s \in U : b[s] = m(s)
  BY Zenon
<1>9. b \in [U -> S]
  BY <1>5, Zenon
<1> HIDE DEF b, m
<1>10. Back(b, W, V)
  <2>1. \A s, u \in U : b[s] = b[u] => s = u
    BY <1>6, <1>8
  <2>2. \A s \in S : \E u \in U : b[u] = s
    BY <1>7, <1>8
  <2>3. \A s \in U : W[s[1]][s[2]] = V[b[s][1]][b[s][2]]
    BY <1>5, <1>8
  <2> QED
    BY <1>9, <2>1, <2>2, <2>3 DEF Back, S, U
<1> QED
  BY <1>10, Relocate, Zenon

\* pop_back here, push_back there.
LEMMA LastMoves ==
    ASSUME NEW V, NEW W, NEW n, Vectors(V), Vectors(W), Accounted(V, n),
           NEW p \in Places, NEW q \in Places, p # q, Elsewhere(V, W, {p, q}),
           Len(V[p]) = Len(W[p]) + 1, Len(W[q]) = Len(V[q]) + 1,
           \A i \in 1 .. Len(W[p]) : W[p][i] = V[p][i],
           \A i \in 1 .. Len(V[q]) : W[q][i] = V[q][i],
           W[q][Len(W[q])] = V[p][Len(V[p])]
    PROVE  Accounted(W, n)
<1> DEFINE S == Slots(V)
           U == Slots(W)
           m(s) == IF s = <<q, Len(W[q])>> THEN <<p, Len(V[p])>> ELSE s
           b == [s \in U |-> m(s)]
<1>1. /\ \A s \in U : /\ s = <<s[1], s[2]>> /\ s[1] \in Places
                      /\ s[2] \in Nat /\ 1 <= s[2] /\ s[2] <= Len(W[s[1]])
      /\ \A r \in Places, i \in Nat : 1 <= i /\ i <= Len(W[r]) => <<r, i>> \in U
  BY SlotIs
<1>2. /\ \A s \in S : /\ s = <<s[1], s[2]>> /\ s[1] \in Places
                      /\ s[2] \in Nat /\ 1 <= s[2] /\ s[2] <= Len(V[s[1]])
      /\ \A r \in Places, i \in Nat : 1 <= i /\ i <= Len(V[r]) => <<r, i>> \in S
  BY SlotIs
<1>3. \A r \in Places : r # p /\ r # q => W[r] = V[r]
  BY Zenon DEF Elsewhere
<1>4. Len(V[p]) \in Nat /\ Len(V[q]) \in Nat /\ Len(W[p]) \in Nat /\ Len(W[q]) \in Nat
  BY DEF Vectors
<1> HIDE DEF S, U
<1>5. ASSUME NEW s \in U
      PROVE  m(s) \in S /\ W[s[1]][s[2]] = V[m(s)[1]][m(s)[2]]
  <2>1. CASE s[1] = p
    <3>1. m(s) = s /\ s[2] \in 1 .. Len(W[p])
      BY <1>1, <1>4, <2>1
    <3> QED
      BY <1>1, <1>2, <1>4, <2>1, <3>1
  <2>2. CASE s = <<q, Len(W[q])>>
    BY <1>1, <1>2, <1>4, <2>2
  <2>3. CASE s[1] = q /\ s # <<q, Len(W[q])>>
    <3>1. s[2] # Len(W[q]) /\ m(s) = s
      BY <1>1, <2>3
    <3>2. s[2] \in 1 .. Len(V[q])
      BY <1>1, <1>4, <2>3, <3>1
    <3> QED
      BY <1>1, <1>2, <1>4, <2>3, <3>1, <3>2
  <2>4. CASE s[1] # p /\ s[1] # q
    <3>1. m(s) = s /\ W[s[1]] = V[s[1]]
      BY <1>1, <1>3, <2>4
    <3> QED
      BY <1>1, <1>2, <3>1
  <2> QED
    BY <2>1, <2>2, <2>3, <2>4
<1>6. ASSUME NEW s \in U, NEW u \in U, m(s) = m(u)
      PROVE  s = u
  BY <1>1, <1>4, <1>6
<1>7. ASSUME NEW s \in S
      PROVE  \E u \in U : m(u) = s
  <2>1. CASE s[1] = p /\ s[2] = Len(V[p])
    <3>1. <<q, Len(W[q])>> \in U
      BY <1>1, <1>4
    <3> QED
      BY <1>2, <2>1, <3>1
  <2>2. CASE s[1] = p /\ s[2] # Len(V[p])
    <3>1. s \in U /\ m(s) = s
      BY <1>1, <1>2, <1>4, <2>2
    <3> QED
      BY <3>1, Zenon
  <2>3. CASE s[1] = q
    <3>1. s[2] # Len(W[q]) /\ s \in U
      BY <1>1, <1>2, <1>4, <2>3
    <3> QED
      BY <1>2, <2>3, <3>1
  <2>4. CASE s[1] # p /\ s[1] # q
    <3>1. s \in U /\ m(s) = s
      BY <1>1, <1>2, <1>3, <2>4
    <3> QED
      BY <3>1, Zenon
  <2> QED
    BY <2>1, <2>2, <2>3, <2>4
<1>8. \A s \in U : b[s] = m(s)
  BY Zenon
<1>9. b \in [U -> S]
  BY <1>5, Zenon
<1> HIDE DEF b, m
<1>10. Back(b, W, V)
  <2>1. \A s, u \in U : b[s] = b[u] => s = u
    BY <1>6, <1>8
  <2>2. \A s \in S : \E u \in U : b[u] = s
    BY <1>7, <1>8
  <2>3. \A s \in U : W[s[1]][s[2]] = V[b[s][1]][b[s][2]]
    BY <1>5, <1>8
  <2> QED
    BY <1>9, <2>1, <2>2, <2>3 DEF Back, S, U
<1> QED
  BY <1>10, Relocate

\* A whole vector is taken from the back into one that was empty.
LEMMA AllMove ==
    ASSUME NEW V, NEW W, NEW n, Vectors(V), Vectors(W), Accounted(V, n),
           NEW p \in Places, NEW q \in Places, p # q, Elsewhere(V, W, {p, q}),
           Len(V[q]) = 0, Len(W[p]) = 0, Len(W[q]) = Len(V[p]),
           \A i \in 1 .. Len(V[p]) : W[q][i] = V[p][Len(V[p]) + 1 - i]
    PROVE  Accounted(W, n)
<1> DEFINE S == Slots(V)
           U == Slots(W)
           m(s) == IF s[1] = q THEN <<p, Len(V[p]) + 1 - s[2]>> ELSE s
           b == [s \in U |-> m(s)]
<1>1. /\ \A s \in U : /\ s = <<s[1], s[2]>> /\ s[1] \in Places
                      /\ s[2] \in Nat /\ 1 <= s[2] /\ s[2] <= Len(W[s[1]])
      /\ \A r \in Places, i \in Nat : 1 <= i /\ i <= Len(W[r]) => <<r, i>> \in U
  BY SlotIs
<1>2. /\ \A s \in S : /\ s = <<s[1], s[2]>> /\ s[1] \in Places
                      /\ s[2] \in Nat /\ 1 <= s[2] /\ s[2] <= Len(V[s[1]])
      /\ \A r \in Places, i \in Nat : 1 <= i /\ i <= Len(V[r]) => <<r, i>> \in S
  BY SlotIs
<1>3. \A r \in Places : r # p /\ r # q => W[r] = V[r]
  BY Zenon DEF Elsewhere
<1>4. Len(V[p]) \in Nat
  BY Zenon DEF Vectors
<1> HIDE DEF S, U
<1>5. ASSUME NEW s \in U
      PROVE  m(s) \in S /\ W[s[1]][s[2]] = V[m(s)[1]][m(s)[2]]
  <2>1. CASE s[1] = q
    BY <1>1, <1>2, <1>4, <2>1
  <2>2. CASE s[1] # q
    <3>1. s[1] # p /\ m(s) = s
      BY <1>1, <1>4, <2>2
    <3>2. W[s[1]] = V[s[1]]
      BY <1>1, <1>3, <2>2, <3>1, Zenon
    <3> QED
      BY <1>1, <1>2, <3>1, <3>2
  <2> QED
    BY <2>1, <2>2
<1>6. ASSUME NEW s \in U, NEW u \in U, m(s) = m(u)
      PROVE  s = u
  <2>1. s[1] # p /\ u[1] # p
    BY <1>1
  <2>2. CASE s[1] = q
    <3>1. u[1] = q
      BY <1>1, <1>6, <2>1, <2>2
    <3>2. s[2] = u[2]
      <4>1. /\ m(s) = <<p, Len(V[p]) + 1 - s[2]>>
            /\ m(u) = <<p, Len(V[p]) + 1 - u[2]>>
        BY <2>2, <3>1, Zenon
      <4>2. Len(V[p]) + 1 - s[2] = Len(V[p]) + 1 - u[2]
        BY <1>6, <4>1
      <4> QED
        BY <1>1, <1>4, <4>2
    <3> QED
      BY <1>1, <2>2, <3>1, <3>2
  <2>3. CASE s[1] # q
    BY <1>1, <1>6, <2>1, <2>3, Zenon
  <2> QED
    BY <2>2, <2>3
<1>7. ASSUME NEW s \in S
      PROVE  \E u \in U : m(u) = s
  <2>1. CASE s[1] = p
    <3> DEFINE u == <<q, Len(V[p]) + 1 - s[2]>>
    <3>1. u \in U /\ u[1] = q /\ u[2] = Len(V[p]) + 1 - s[2]
      BY <1>1, <1>2, <1>4, <2>1
    <3>2. m(u) = s
      BY <1>2, <1>4, <2>1, <3>1
    <3> QED
      BY <3>1, <3>2, Zenon
  <2>2. CASE s[1] # p
    <3>1. s[1] # q
      BY <1>2
    <3>2. s \in U /\ m(s) = s
      BY <1>1, <1>2, <1>3, <2>2, <3>1, Zenon
    <3> QED
      BY <3>2, Zenon
  <2> QED
    BY <2>1, <2>2, Zenon
<1>8. \A s \in U : b[s] = m(s)
  BY Zenon
<1>9. b \in [U -> S]
  BY <1>5, Zenon
<1> HIDE DEF b, m
<1>10. Back(b, W, V)
  <2>1. \A s, u \in U : b[s] = b[u] => s = u
    BY <1>6, <1>8
  <2>2. \A s \in S : \E u \in U : b[u] = s
    BY <1>7, <1>8, Zenon
  <2>3. \A s \in U : W[s[1]][s[2]] = V[b[s][1]][b[s][2]]
    BY <1>5, <1>8
  <2> QED
    BY <1>9, <2>1, <2>2, <2>3 DEF Back, S, U
<1> QED
  BY <1>10, Relocate

Permutes(g, N) ==
    /\ g \in [1 .. N -> 1 .. N]
    /\ \A i, j \in 1 .. N : g[i] = g[j] => i = j
    /\ \A j \in 1 .. N : \E i \in 1 .. N : g[i] = j

\* A permutation takes nothing twice.
LEMMA TakenOnce ==
    ASSUME NEW N, NEW g, Permutes(g, N), NEW i \in 1 .. N, NEW j \in 1 .. N, g[i] = g[j]
    PROVE  i = j
  BY Zenon DEF Permutes

\* A vector is put into another order.
LEMMA OrderChanges ==
    ASSUME NEW V, NEW W, NEW n, Vectors(V), Vectors(W), Accounted(V, n),
           NEW p \in Places, Elsewhere(V, W, {p}),
           NEW N \in Nat, Len(V[p]) = N, Len(W[p]) = N, NEW g, Permutes(g, N),
           \A i \in 1 .. N : W[p][i] = V[p][g[i]]
    PROVE  Accounted(W, n)
<1> DEFINE S == Slots(V)
           U == Slots(W)
           m(s) == IF s[1] = p THEN <<p, g[s[2]]>> ELSE s
           b == [s \in U |-> m(s)]
<1>1. /\ \A s \in U : /\ s = <<s[1], s[2]>> /\ s[1] \in Places
                      /\ s[2] \in Nat /\ 1 <= s[2] /\ s[2] <= Len(W[s[1]])
      /\ \A r \in Places, i \in Nat : 1 <= i /\ i <= Len(W[r]) => <<r, i>> \in U
  BY SlotIs
<1>2. /\ \A s \in S : /\ s = <<s[1], s[2]>> /\ s[1] \in Places
                      /\ s[2] \in Nat /\ 1 <= s[2] /\ s[2] <= Len(V[s[1]])
      /\ \A r \in Places, i \in Nat : 1 <= i /\ i <= Len(V[r]) => <<r, i>> \in S
  BY SlotIs
<1>3. \A r \in Places : r # p => W[r] = V[r]
  BY Zenon DEF Elsewhere
<1> HIDE DEF S, U
<1>5. ASSUME NEW s \in U
      PROVE  m(s) \in S /\ W[s[1]][s[2]] = V[m(s)[1]][m(s)[2]]
  <2>1. CASE s[1] = p
    <3>1. s[2] \in 1 .. N /\ g[s[2]] \in 1 .. N
      BY <1>1, <2>1 DEF Permutes
    <3>2. m(s) = <<p, g[s[2]]>> /\ m(s)[1] = p /\ m(s)[2] = g[s[2]]
      BY <2>1, Zenon
    <3>3. <<p, g[s[2]]>> \in S
      BY <1>2, <3>1
    <3>4. W[p][s[2]] = V[p][g[s[2]]]
      BY <3>1, Zenon
    <3> QED
      BY <2>1, <3>2, <3>3, <3>4
  <2>2. CASE s[1] # p
    <3>1. m(s) = s /\ W[s[1]] = V[s[1]]
      BY <1>1, <1>3, <2>2
    <3> QED
      BY <1>1, <1>2, <3>1
  <2> QED
    BY <2>1, <2>2
<1>6. ASSUME NEW s \in U, NEW u \in U, m(s) = m(u)
      PROVE  s = u
  <2>1. CASE s[1] = p
    <3>1. u[1] = p
      BY <1>1, <1>6, <2>1
    <3>2. s[2] \in 1 .. N /\ u[2] \in 1 .. N /\ g[s[2]] = g[u[2]]
      BY <1>1, <1>6, <2>1, <3>1
    <3>3. s[2] = u[2]
      BY <3>2, TakenOnce
    <3>4. s = <<s[1], s[2]>> /\ u = <<u[1], u[2]>>
      BY <1>1, Zenon
    <3> QED
      BY <2>1, <3>1, <3>3, <3>4
  <2>2. CASE s[1] # p
    BY <1>1, <1>6, <2>2
  <2> QED
    BY <2>1, <2>2, Zenon
<1>7. ASSUME NEW s \in S
      PROVE  \E u \in U : m(u) = s
  <2>1. CASE s[1] = p
    <3>1. s[2] \in 1 .. N
      BY <1>2, <2>1
    <3>2. PICK i \in 1 .. N : g[i] = s[2]
      BY <3>1, Zenon DEF Permutes
    <3>3. <<p, i>> \in U /\ m(<<p, i>>) = s
      BY <1>1, <1>2, <2>1, <3>2
    <3> QED
      BY <3>3
  <2>2. CASE s[1] # p
    <3>1. s \in U /\ m(s) = s
      BY <1>1, <1>2, <1>3, <2>2
    <3> QED
      BY <3>1
  <2> QED
    BY <2>1, <2>2
<1>8. \A s \in U : b[s] = m(s)
  BY Zenon
<1>9. b \in [U -> S]
  BY <1>5, Zenon
<1> HIDE DEF b, m
<1>10. Back(b, W, V)
  <2>1. \A s, u \in U : b[s] = b[u] => s = u
    BY <1>6, <1>8
  <2>2. \A s \in S : \E u \in U : b[u] = s
    BY <1>7, <1>8, Zenon
  <2>3. \A s \in U : W[s[1]][s[2]] = V[b[s][1]][b[s][2]]
    BY <1>5, <1>8, Zenon
  <2> QED
    BY <1>9, <2>1, <2>2, <2>3 DEF Back, S, U
<1> QED
  BY <1>10, Relocate

\* One more line of the file joins a vector at its end.
LEMMA LineEnters ==
    ASSUME NEW V, NEW W, NEW n \in Nat, Vectors(V), Vectors(W), Accounted(V, n),
           NEW p \in Places, Elsewhere(V, W, {p}), Len(W[p]) = Len(V[p]) + 1,
           \A i \in 1 .. Len(V[p]) : W[p][i] = V[p][i],
           W[p][Len(W[p])] = Parsed[n + 1]
    PROVE  Accounted(W, n + 1)
<1>0. PICK f \in [Slots(V) -> 1 .. n] : Traces(f, V, n)
  BY Zenon DEF Accounted
<1> DEFINE S == Slots(V)
           U == Slots(W)
           z == <<p, Len(W[p])>>
           g == [s \in U |-> IF s = z THEN n + 1 ELSE f[s]]
<1>1. /\ \A s \in U : /\ s = <<s[1], s[2]>> /\ s[1] \in Places
                      /\ s[2] \in Nat /\ 1 <= s[2] /\ s[2] <= Len(W[s[1]])
      /\ \A r \in Places, i \in Nat : 1 <= i /\ i <= Len(W[r]) => <<r, i>> \in U
  BY SlotIs, Zenon
<1>2. /\ \A s \in S : /\ s = <<s[1], s[2]>> /\ s[1] \in Places
                      /\ s[2] \in Nat /\ 1 <= s[2] /\ s[2] <= Len(V[s[1]])
      /\ \A r \in Places, i \in Nat : 1 <= i /\ i <= Len(V[r]) => <<r, i>> \in S
  BY SlotIs, Zenon
<1>3. \A r \in Places : r # p => W[r] = V[r]
  BY Zenon DEF Elsewhere
<1>4. Len(V[p]) \in Nat /\ Len(W[p]) \in Nat
  BY Zenon DEF Vectors
<1>5. /\ f \in [S -> 1 .. n]
      /\ \A s, u \in S : f[s] = f[u] => s = u
      /\ \A k \in 1 .. n : \E s \in S : f[s] = k
      /\ \A s \in S : Parsed[f[s]] = V[s[1]][s[2]]
  BY <1>0, Zenon DEF Traces
<1> HIDE DEF S, U
<1>6. z \in U /\ z \notin S /\ z[1] = p /\ z[2] = Len(W[p])
  BY <1>1, <1>2, <1>4
<1>7. ASSUME NEW s \in U, s # z
      PROVE  s \in S /\ W[s[1]][s[2]] = V[s[1]][s[2]]
  <2>1. CASE s[1] = p
    <3>1. s[2] # Len(W[p])
      BY <1>1, <1>7, <2>1, Zenon
    <3>2. s[2] \in 1 .. Len(V[p])
      BY <1>1, <1>4, <2>1, <3>1
    <3> QED
      BY <1>1, <1>2, <2>1, <3>2
  <2>2. CASE s[1] # p
    BY <1>1, <1>2, <1>3, <2>2, Zenon
  <2> QED
    BY <2>1, <2>2, Zenon
<1>8. \A s \in S : s \in U /\ s # z
  <2> SUFFICES ASSUME NEW s \in S PROVE s \in U
    BY <1>6, Zenon
  <2>1. CASE s[1] = p
    BY <1>1, <1>2, <1>4, <2>1
  <2>2. CASE s[1] # p
    BY <1>1, <1>2, <1>3, <2>2
  <2> QED
    BY <2>1, <2>2, Zenon
<1> HIDE DEF z
<1>9. g \in [U -> 1 .. n + 1] /\ g[z] = n + 1 /\ \A s \in U : s # z => g[s] = f[s] /\ f[s] \in 1 .. n
  BY <1>5, <1>6, <1>7
<1> HIDE DEF g
<1>10. \A s, u \in U : g[s] = g[u] => s = u
  <2> SUFFICES ASSUME NEW s \in U, NEW u \in U, g[s] = g[u] PROVE s = u
    BY Zenon
  <2>1. CASE s = z \/ u = z
    BY <1>9, <2>1
  <2>2. CASE s # z /\ u # z
    BY <1>5, <1>7, <1>9, <2>2
  <2> QED
    BY <2>1, <2>2, Zenon
<1>11. \A k \in 1 .. n + 1 : \E s \in U : g[s] = k
  <2> SUFFICES ASSUME NEW k \in 1 .. n + 1 PROVE \E s \in U : g[s] = k
    BY Zenon
  <2>1. CASE k = n + 1
    BY <1>6, <1>9, <2>1
  <2>2. CASE k # n + 1
    <3>1. k \in 1 .. n
      BY <2>2
    <3>2. PICK s \in S : f[s] = k
      BY <1>5, <3>1, Zenon
    <3> QED
      BY <1>8, <1>9, <3>2
  <2> QED
    BY <2>1, <2>2
<1>12. \A s \in U : Parsed[g[s]] = W[s[1]][s[2]]
  <2> SUFFICES ASSUME NEW s \in U PROVE Parsed[g[s]] = W[s[1]][s[2]]
    BY Zenon
  <2>1. CASE s = z
    BY <1>6, <1>9, <2>1, Zenon
  <2>2. CASE s # z
    BY <1>5, <1>7, <1>9, <2>2, Zenon
  <2> QED
    BY <2>1, <2>2, Zenon
<1>13. Traces(g, W, n + 1)
  BY <1>9, <1>10, <1>11, <1>12 DEF Traces, U
<1> QED
  BY <1>9, <1>13, Zenon DEF Accounted, U

-----------------------------------------------------------------------------
(* Each step moves lines, or leaves them where they are.                   *)

\* A vector of lines, as the pairs that it stands for.
LEMMA PairsAre ==
    ASSUME NEW s \in Seq(Lines)
    PROVE  /\ Len(PairsOf(s)) = Len(s) /\ Len(s) \in Nat
           /\ \A i \in 1 .. Len(s) : PairsOf(s)[i] = <<Label(s[i]), Sample(s[i])>>
  BY DEF PairsOf

\* Two vectors side by side.
LEMMA BothAre ==
    ASSUME NEW ls \in Seq(LabelSet), NEW ss
    PROVE  /\ Len(Both(ls, ss)) = Len(ls) /\ Len(ls) \in Nat
           /\ \A i \in 1 .. Len(ls) : Both(ls, ss)[i] = <<ls[i], ss[i]>>
  BY DEF Both

\* What is held are vectors.
LEMMA HeldVectors ==
    ASSUME NEW l \in Seq(Lines), NEW ls \in Seq(LabelSet), NEW ss, NEW r \in [Readers -> ReaderType]
    PROVE  Vectors(Held(l, ls, ss, r))
<1> SUFFICES ASSUME NEW p \in Places PROVE Len(Held(l, ls, ss, r)[p]) \in Nat
  BY Zenon DEF Vectors
<1>1. CASE p = Queue
  BY <1>1, HeldIs, PairsAre
<1>2. CASE p = Out
  BY <1>2, HeldIs, BothAre
<1>3. ASSUME NEW t \in Readers, p = Local(t) PROVE Len(Held(l, ls, ss, r)[p]) \in Nat
  <2>1. r[t].thread_lines \in Seq(Lines)
    BY Zenon DEF ReaderType
  <2> QED
    BY <1>3, <2>1, HeldIs, PairsAre
<1>4. ASSUME NEW t \in Readers, p = Own(t) PROVE Len(Held(l, ls, ss, r)[p]) \in Nat
  <2>1. r[t].thread_labels \in Seq(LabelSet)
    BY Zenon DEF ReaderType
  <2> QED
    BY <1>4, <2>1, HeldIs, BothAre
<1> QED
  BY <1>1, <1>2, <1>3, <1>4, PlaceCases, Zenon

\* The same in two states wherever the vectors of a place are the same.
LEMMA HeldAlike ==
    ASSUME NEW l, NEW ls, NEW ss, NEW r, NEW l2, NEW ls2, NEW ss2, NEW r2, NEW P,
           Queue \notin P => l2 = l,
           Out \notin P => Both(ls2, ss2) = Both(ls, ss),
           \A t \in Readers : Local(t) \notin P => r2[t].thread_lines = r[t].thread_lines,
           \A t \in Readers : Own(t) \notin P =>
              r2[t].thread_labels = r[t].thread_labels /\ r2[t].thread_samples = r[t].thread_samples
    PROVE  Elsewhere(Held(l, ls, ss, r), Held(l2, ls2, ss2, r2), P)
<1> DEFINE V == Held(l, ls, ss, r)
           W == Held(l2, ls2, ss2, r2)
<1> SUFFICES ASSUME NEW p \in Places, p \notin P PROVE W[p] = V[p]
  BY Zenon DEF Elsewhere
<1>1. /\ V[Queue] = PairsOf(l) /\ W[Queue] = PairsOf(l2)
      /\ V[Out] = Both(ls, ss) /\ W[Out] = Both(ls2, ss2)
      /\ \A t \in Readers : /\ V[Local(t)] = PairsOf(r[t].thread_lines)
                            /\ W[Local(t)] = PairsOf(r2[t].thread_lines)
                            /\ V[Own(t)] = Both(r[t].thread_labels, r[t].thread_samples)
                            /\ W[Own(t)] = Both(r2[t].thread_labels, r2[t].thread_samples)
  BY HeldIs
<1> HIDE DEF V, W
<1>2. CASE p = Queue
  BY <1>1, <1>2, Zenon
<1>3. CASE p = Out
  BY <1>1, <1>3, Zenon
<1>4. ASSUME NEW t \in Readers, p = Local(t) PROVE W[p] = V[p]
  BY <1>1, <1>4, Zenon
<1>5. ASSUME NEW t \in Readers, p = Own(t) PROVE W[p] = V[p]
  BY <1>1, <1>5, Zenon
<1> QED
  BY <1>2, <1>3, <1>4, <1>5, PlaceCases

\* A step that moves no line.
LEMMA LinesStay ==
    ASSUME LinesAccounted, taken' = taken, lines' = lines,
           Both(labels, samples)' = Both(labels, samples),
           \A t \in Readers : /\ reader'[t].thread_lines = reader[t].thread_lines
                              /\ reader'[t].thread_labels = reader[t].thread_labels
                              /\ reader'[t].thread_samples = reader[t].thread_samples
    PROVE  LinesAccounted'
<1> DEFINE V == Held(lines, labels, samples, reader)
           W == Held(lines', labels', samples', reader')
<1>1. Elsewhere(V, W, {})
  BY HeldAlike, Zenon
<1>2. V = [p \in Places |-> V[p]] /\ W = [p \in Places |-> W[p]]
  BY Zenon DEF Held
<1> HIDE DEF V, W
<1>3. V = W
  BY <1>1, <1>2, Zenon DEF Elsewhere
<1> QED
  BY <1>3, Zenon DEF LinesAccounted, V, W

\* PopLine moves the first line of the queue to the end of the reader's own.
LEMMA PopMoves ==
    ASSUME IInv, IInv', LinesAccounted, NEW t \in Readers, PopLine(t)
    PROVE  LinesAccounted'
<1> DEFINE V == Held(lines, labels, samples, reader)
           W == Held(lines', labels', samples', reader')
           s == reader[t].thread_lines
           s2 == Append(s, Head(lines))
           p == Queue
           q == Local(t)
<1>1. /\ lines \in Seq(Lines) /\ lines # <<>> /\ lines' = Tail(lines) /\ lines' \in Seq(Lines)
      /\ labels \in Seq(LabelSet) /\ UNCHANGED <<taken, samples, labels>>
      /\ reader \in [Readers -> ReaderType] /\ reader' \in [Readers -> ReaderType]
  BY Zenon DEF PopLine, MayPop, IInv, Typed
<1>2. s \in Seq(Lines)
  BY <1>1, Zenon DEF ReaderType
<1>3. reader' = [reader EXCEPT ![t] = [reader[t] EXCEPT !.thread_lines = s2]]
  BY Zenon DEF PopLine
<1>4. /\ reader'[t].thread_lines = s2
      /\ reader'[t].thread_labels = reader[t].thread_labels
      /\ reader'[t].thread_samples = reader[t].thread_samples
      /\ \A u \in Readers : u # t => reader'[u] = reader[u]
  BY <1>1, <1>3, Zenon DEF ReaderType
<1>5. /\ Len(lines) \in Nat \ {0} /\ Len(lines') = Len(lines) - 1 /\ Head(lines) = lines[1]
      /\ \A i \in 1 .. Len(lines') : lines'[i] = lines[i + 1]
  BY <1>1
<1>6. /\ s2 \in Seq(Lines) /\ Len(s2) = Len(s) + 1 /\ s2[Len(s2)] = Head(lines)
      /\ \A i \in 1 .. Len(s) : s2[i] = s[i]
  BY <1>1, <1>2, <1>5
<1> HIDE DEF s, s2
<1>7. /\ p \in Places /\ q \in Places /\ p # q /\ q # Out
      /\ \A u \in Readers : u # t => Local(u) # q
  BY PlacesDiffer, Zenon
<1>8. Vectors(V) /\ Vectors(W)
  BY <1>1, HeldVectors, Zenon
<1>9. Elsewhere(V, W, {p, q})
  <2>1. \A u \in Readers : Local(u) \notin {p, q} => reader'[u].thread_lines = reader[u].thread_lines
    BY <1>4, Zenon
  <2>2. \A u \in Readers : /\ reader'[u].thread_labels = reader[u].thread_labels
                           /\ reader'[u].thread_samples = reader[u].thread_samples
    BY <1>4, Zenon
  <2>3. Both(labels', samples') = Both(labels, samples)
    BY <1>1, Zenon
  <2> QED
    BY <2>1, <2>2, <2>3, HeldAlike
<1>10. /\ V[p] = PairsOf(lines) /\ W[p] = PairsOf(lines')
       /\ V[q] = PairsOf(s) /\ W[q] = PairsOf(s2)
  BY <1>4, HeldIs DEF s
<1> HIDE DEF V, W, p, q
<1>11. /\ Len(V[p]) = Len(lines) /\ Len(W[p]) = Len(lines')
       /\ Len(V[q]) = Len(s) /\ Len(W[q]) = Len(s2)
       /\ \A i \in 1 .. Len(lines) : V[p][i] = <<Label(lines[i]), Sample(lines[i])>>
       /\ \A i \in 1 .. Len(lines') : W[p][i] = <<Label(lines'[i]), Sample(lines'[i])>>
       /\ \A i \in 1 .. Len(s) : V[q][i] = <<Label(s[i]), Sample(s[i])>>
       /\ \A i \in 1 .. Len(s2) : W[q][i] = <<Label(s2[i]), Sample(s2[i])>>
  BY <1>1, <1>2, <1>6, <1>10, PairsAre, Zenon
<1>12. /\ Len(V[p]) = Len(W[p]) + 1 /\ Len(W[q]) = Len(V[q]) + 1
  BY <1>5, <1>6, <1>11
<1>13. ASSUME NEW i \in 1 .. Len(W[p]) PROVE W[p][i] = V[p][i + 1]
  <2>1. i \in 1 .. Len(lines') /\ i + 1 \in 1 .. Len(lines) /\ lines'[i] = lines[i + 1]
    BY <1>5, <1>11
  <2>2. /\ W[p][i] = <<Label(lines'[i]), Sample(lines'[i])>>
        /\ V[p][i + 1] = <<Label(lines[i + 1]), Sample(lines[i + 1])>>
    BY <1>11, <2>1, Zenon
  <2> QED
    BY <2>1, <2>2, Zenon
<1>14. ASSUME NEW i \in 1 .. Len(V[q]) PROVE W[q][i] = V[q][i]
  <2>1. i \in 1 .. Len(s) /\ i \in 1 .. Len(s2) /\ s2[i] = s[i]
    BY <1>2, <1>6, <1>11
  <2>2. W[q][i] = <<Label(s2[i]), Sample(s2[i])>> /\ V[q][i] = <<Label(s[i]), Sample(s[i])>>
    BY <1>11, <2>1, Zenon
  <2> QED
    BY <2>1, <2>2, Zenon
<1>15. W[q][Len(W[q])] = V[p][1]
  <2>1. /\ 1 \in 1 .. Len(lines) /\ Len(s2) \in 1 .. Len(s2)
        /\ s2[Len(s2)] = lines[1] /\ Len(W[q]) = Len(s2)
    BY <1>2, <1>5, <1>6, <1>11
  <2>2. /\ W[q][Len(s2)] = <<Label(s2[Len(s2)]), Sample(s2[Len(s2)])>>
        /\ V[p][1] = <<Label(lines[1]), Sample(lines[1])>>
    BY <1>11, <2>1, Zenon
  <2> QED
    BY <2>1, <2>2
<1>16. Accounted(V, taken)
  BY Zenon DEF LinesAccounted, V
<1>17. Accounted(W, taken)
  BY <1>7, <1>8, <1>9, <1>12, <1>13, <1>14, <1>15, <1>16, FirstMoves, Zenon
<1> QED
  BY <1>1, <1>17, Zenon DEF LinesAccounted, W

\* Parse moves a reader's lines, from the back, to its parsed ones.
LEMMA ParseMoves ==
    ASSUME IInv, IInv', LinesAccounted, NEW t \in Readers, Parse(t), Emptied(reader[t])
    PROVE  LinesAccounted'
<1> DEFINE V == Held(lines, labels, samples, reader)
           W == Held(lines', labels', samples', reader')
           s == reader[t].thread_lines
           todo == Reverse(s)
           ss == [i \in DOMAIN todo |-> Sample(todo[i])]
           ls == [i \in DOMAIN todo |-> Label(todo[i])]
           p == Local(t)
           q == Own(t)
<1>1. /\ lines \in Seq(Lines) /\ labels \in Seq(LabelSet)
      /\ UNCHANGED <<taken, lines, samples, labels>>
      /\ reader \in [Readers -> ReaderType] /\ reader' \in [Readers -> ReaderType]
  BY Zenon DEF Parse, IInv, Typed
<1>2. s \in Seq(Lines) /\ reader[t].thread_labels = <<>>
  BY <1>1, Zenon DEF ReaderType, Parse, At, Emptied
<1>3. /\ reader'[t].thread_lines = <<>>
      /\ reader'[t].thread_labels = ls
      /\ reader'[t].thread_samples = ss
      /\ \A u \in Readers : u # t => reader'[u] = reader[u]
  BY <1>1, Zenon DEF Parse
<1>4. Len(s) \in Nat /\ DOMAIN todo = 1 .. Len(s) /\ \A i \in 1 .. Len(s) : todo[i] = s[Len(s) + 1 - i]
  BY <1>2 DEF Reverse
<1>5. ls \in Seq(LabelSet)
  BY <1>1, <1>3 DEF ReaderType
<1>6. DOMAIN ls = 1 .. Len(s)
  BY <1>4, Zenon
<1>7. Len(ls) = Len(s)
  <2> HIDE DEF ls
  <2> QED
    BY <1>4, <1>5, <1>6
<1>8. \A i \in 1 .. Len(s) : <<ls[i], ss[i]>> = <<Label(s[Len(s) + 1 - i]), Sample(s[Len(s) + 1 - i])>>
  BY <1>4, Zenon
<1> HIDE DEF s, todo, ls, ss
<1>9. /\ p \in Places /\ q \in Places /\ p # q
      /\ \A u \in Readers : u # t => Local(u) # p /\ Own(u) # q
  BY PlacesDiffer, Zenon
<1>10. Vectors(V) /\ Vectors(W)
  BY <1>1, HeldVectors, Zenon
<1>11. Elsewhere(V, W, {p, q})
  <2>1. \A u \in Readers : Local(u) \notin {p, q} => reader'[u].thread_lines = reader[u].thread_lines
    BY <1>3, Zenon
  <2>2. \A u \in Readers : Own(u) \notin {p, q} =>
           /\ reader'[u].thread_labels = reader[u].thread_labels
           /\ reader'[u].thread_samples = reader[u].thread_samples
    BY <1>3, Zenon
  <2>3. Both(labels', samples') = Both(labels, samples)
    BY <1>1, Zenon
  <2> QED
    BY <1>1, <2>1, <2>2, <2>3, HeldAlike, Zenon
<1>12. /\ V[p] = PairsOf(s) /\ W[p] = PairsOf(<<>>)
       /\ V[q] = Both(<<>>, reader[t].thread_samples) /\ W[q] = Both(ls, ss)
  BY <1>2, <1>3, HeldIs DEF s
<1> HIDE DEF V, W, p, q
<1>13. /\ Len(V[p]) = Len(s) /\ \A i \in 1 .. Len(s) : V[p][i] = <<Label(s[i]), Sample(s[i])>>
  BY <1>2, <1>12, PairsAre, Zenon
<1>14. Len(W[p]) = 0
  <2>1. <<>> \in Seq(Lines) /\ Len(<<>>) = 0
    OBVIOUS
  <2>2. Len(PairsOf(<<>>)) = Len(<<>>)
    BY <2>1, PairsAre, Zenon
  <2> QED
    BY <1>12, <2>1, <2>2, Zenon
<1>15. Len(V[q]) = 0
  <2>1. <<>> \in Seq(LabelSet) /\ Len(<<>>) = 0
    OBVIOUS
  <2>2. Len(Both(<<>>, reader[t].thread_samples)) = Len(<<>>)
    BY <2>1, BothAre, Zenon
  <2> QED
    BY <1>12, <2>1, <2>2
<1>16. Len(W[q]) = Len(V[p]) /\ \A i \in 1 .. Len(s) : W[q][i] = <<ls[i], ss[i]>>
  BY <1>5, <1>7, <1>12, <1>13, BothAre
<1>17. ASSUME NEW i \in 1 .. Len(V[p]) PROVE W[q][i] = V[p][Len(V[p]) + 1 - i]
  <2> DEFINE k == Len(s) + 1 - i
  <2>1. i \in 1 .. Len(s) /\ k \in 1 .. Len(s) /\ k = Len(V[p]) + 1 - i
    BY <1>4, <1>13
  <2>2. <<ls[i], ss[i]>> = <<Label(s[k]), Sample(s[k])>>
    BY <1>8, <2>1, Zenon
  <2> HIDE DEF k
  <2>3. W[q][i] = <<ls[i], ss[i]>> /\ V[p][k] = <<Label(s[k]), Sample(s[k])>>
    BY <1>13, <1>16, <2>1, Zenon
  <2> QED
    BY <2>1, <2>2, <2>3, Zenon
<1>18. Accounted(V, taken)
  BY Zenon DEF LinesAccounted, V
<1>19. Accounted(W, taken)
  BY <1>9, <1>10, <1>11, <1>14, <1>15, <1>16, <1>17, <1>18, AllMove
<1> QED
  BY <1>1, <1>19 DEF LinesAccounted, W

\* PushSample adds a sample that has no label yet: no pair is complete.
LEMMA SamplePushed ==
    ASSUME IInv, LinesAccounted, NEW t \in Readers, PushSample(t)
    PROVE  LinesAccounted'
<1> DEFINE e == Last(reader[t].thread_samples)
<1>1. /\ samples' = Append(samples, e)
      /\ UNCHANGED <<taken, lines, labels>> /\ reader \in [Readers -> ReaderType]
      /\ reader' = [reader EXCEPT ![t] = [reader[t] EXCEPT !.pc = "push_label"]]
      /\ samples \in Seq(SampleSet) /\ labels \in Seq(LabelSet) /\ Len(labels) <= Len(samples)
  BY Zenon DEF PushSample, Goto, IInv, Typed, InStep
<1> HIDE DEF e
<1>2. \A i \in 1 .. Len(labels) : samples'[i] = samples[i]
  <2>1. \A i \in 1 .. Len(samples) : samples'[i] = samples[i]
    BY <1>1
  <2> QED
    BY <1>1, <2>1
<1>3. Both(labels, samples)' = Both(labels, samples)
  BY <1>1, <1>2, Zenon DEF Both
<1>4. \A u \in Readers : /\ reader'[u].thread_lines = reader[u].thread_lines
                         /\ reader'[u].thread_labels = reader[u].thread_labels
                         /\ reader'[u].thread_samples = reader[u].thread_samples
  BY <1>1, Zenon DEF ReaderType
<1> QED
  BY <1>1, <1>3, <1>4, LinesStay, Zenon

\* PushLabel moves the last of the reader's parsed lines to the end of the result.
LEMMA LabelMoves ==
    ASSUME IInv, IInv', LinesAccounted, NEW t \in Readers, PushLabel(t)
    PROVE  LinesAccounted'
<1> DEFINE V == Held(lines, labels, samples, reader)
           W == Held(lines', labels', samples', reader')
           ts == reader[t].thread_samples
           tl == reader[t].thread_labels
           p == Own(t)
           q == Out
<1>1. /\ UNCHANGED <<taken, lines, samples>> /\ labels' = Append(labels, Last(tl))
      /\ lines \in Seq(Lines) /\ samples \in Seq(SampleSet)
      /\ labels \in Seq(LabelSet) /\ labels' \in Seq(LabelSet)
      /\ reader \in [Readers -> ReaderType] /\ reader' \in [Readers -> ReaderType]
  BY Zenon DEF PushLabel, IInv, Typed
<1>2. /\ ts \in Seq(SampleSet) /\ tl \in Seq(LabelSet)
      /\ Len(ts) = Len(tl) /\ Len(tl) > 0 /\ Len(samples) = Len(labels) + 1
      /\ samples[Len(samples)] = ts[Len(ts)]
  BY <1>1, Zenon DEF ReaderType, PushLabel, At, IInv, Parsing, InStep
<1>3. reader' = [reader EXCEPT ![t] = [reader[t] EXCEPT !.pc = "push_sample", !.thread_samples = Front(ts),
                                                       !.thread_labels = Front(tl)]]
  BY Zenon DEF PushLabel
<1>4. /\ reader'[t].thread_lines = reader[t].thread_lines
      /\ reader'[t].thread_labels = Front(tl)
      /\ reader'[t].thread_samples = Front(ts)
      /\ \A u \in Readers : u # t => reader'[u] = reader[u]
  BY <1>1, <1>3, Zenon DEF ReaderType
<1>5. /\ Front(tl) \in Seq(LabelSet)
      /\ Len(Front(tl)) = Len(tl) - 1
      /\ \A i \in 1 .. Len(tl) - 1 : Front(ts)[i] = ts[i] /\ Front(tl)[i] = tl[i]
  BY <1>2, FrontOf, Zenon
<1>6. /\ Len(labels') = Len(labels) + 1 /\ labels'[Len(labels')] = tl[Len(tl)]
      /\ \A i \in 1 .. Len(labels) : labels'[i] = labels[i]
  BY <1>1 DEF Last
<1>7. Len(labels) \in Nat /\ Len(tl) \in Nat
  BY <1>1, <1>2
<1> HIDE DEF ts, tl
<1>8. /\ p \in Places /\ q \in Places /\ p # q
      /\ \A u \in Readers : u # t => Own(u) # p
  BY PlacesDiffer, Zenon
<1>9. Vectors(V) /\ Vectors(W)
  BY <1>1, HeldVectors, Zenon
<1>10. Elsewhere(V, W, {p, q})
  <2>1. \A u \in Readers : reader'[u].thread_lines = reader[u].thread_lines
    BY <1>4, Zenon
  <2>2. \A u \in Readers : Own(u) \notin {p, q} =>
           /\ reader'[u].thread_labels = reader[u].thread_labels
           /\ reader'[u].thread_samples = reader[u].thread_samples
    BY <1>4, Zenon
  <2> QED
    BY <1>1, <2>1, <2>2, HeldAlike, Zenon
<1>11. /\ V[p] = Both(tl, ts) /\ W[p] = Both(Front(tl), Front(ts))
       /\ V[q] = Both(labels, samples) /\ W[q] = Both(labels', samples)
  BY <1>1, <1>4, HeldIs DEF ts, tl
<1> HIDE DEF V, W, p, q
<1>12. /\ Len(V[p]) = Len(tl) /\ \A i \in 1 .. Len(tl) : V[p][i] = <<tl[i], ts[i]>>
  BY <1>2, <1>11, BothAre
<1>13. /\ Len(W[p]) = Len(tl) - 1
       /\ \A i \in 1 .. Len(tl) - 1 : W[p][i] = <<Front(tl)[i], Front(ts)[i]>>
  BY <1>5, <1>11, BothAre
<1>14. /\ Len(V[q]) = Len(labels) /\ \A i \in 1 .. Len(labels) : V[q][i] = <<labels[i], samples[i]>>
  BY <1>1, <1>11, BothAre
<1>15. /\ Len(W[q]) = Len(labels')
       /\ \A i \in 1 .. Len(labels') : W[q][i] = <<labels'[i], samples[i]>>
  <2>1. labels' \in Seq(LabelSet)
    BY <1>1, Zenon
  <2> QED
    BY <1>11, <2>1, BothAre, Zenon
<1>16. Len(V[p]) = Len(W[p]) + 1 /\ Len(W[q]) = Len(V[q]) + 1
  BY <1>6, <1>7, <1>12, <1>13, <1>14, <1>15
<1>17. ASSUME NEW i \in 1 .. Len(W[p]) PROVE W[p][i] = V[p][i]
  <2>1. i \in 1 .. Len(tl) - 1 /\ i \in 1 .. Len(tl)
    BY <1>7, <1>13
  <2> QED
    BY <1>5, <1>12, <1>13, <2>1, Zenon
<1>18. ASSUME NEW i \in 1 .. Len(V[q]) PROVE W[q][i] = V[q][i]
  <2>1. i \in 1 .. Len(labels) /\ i \in 1 .. Len(labels')
    BY <1>6, <1>7, <1>14
  <2> QED
    BY <1>6, <1>14, <1>15, <2>1, Zenon
<1>19. W[q][Len(W[q])] = V[p][Len(V[p])]
  <2>1. Len(labels') \in 1 .. Len(labels') /\ Len(labels') = Len(samples) /\ Len(tl) \in 1 .. Len(tl)
    BY <1>2, <1>6, <1>7
  <2>2. W[q][Len(labels')] = <<tl[Len(tl)], ts[Len(ts)]>>
    BY <1>2, <1>6, <1>15, <2>1, Zenon
  <2> QED
    BY <1>2, <1>12, <1>15, <2>1, <2>2, Zenon
<1>20. Accounted(V, taken)
  BY Zenon DEF LinesAccounted, V
<1>21. Accounted(W, taken)
  BY <1>8, <1>9, <1>10, <1>16, <1>17, <1>18, <1>19, <1>20, LastMoves, Zenon
<1> QED
  BY <1>1, <1>21, Zenon DEF LinesAccounted, W

\* The shuffle's order is a permutation of the indices.
LEMMA ShuffleOrder ==
    ASSUME NEW n \in Nat, NEW g \in SetToSeqs(1 .. n)
    PROVE  Permutes(g, n)
<1> DEFINE D == 1 .. n
<1>1. IsFiniteSet(D) /\ Cardinality(D) = n
  <2>1. n \in Int /\ 1 \in Int /\ n - 1 + 1 = n /\ (1 > n => n = 0)
    OBVIOUS
  <2>2. IsFiniteSet(1 .. n) /\ Cardinality(1 .. n) = IF 1 > n THEN 0 ELSE n - 1 + 1
    BY <2>1, FS_Interval, Zenon
  <2> QED
    BY <2>1, <2>2, Zenon
<1>2. g \in [D -> D] /\ \A i, j \in D : i # j => g[i] # g[j]
  BY <1>1, Zenon DEF SetToSeqs
<1> HIDE DEF D
<1>3. g \in Injection(D, D)
  BY <1>2, Zenon DEF Injection, IsInjective
<1>4. g \in Surjection(D, D)
  BY <1>1, <1>3, FS_Injection, Zenon
<1>5. \A j \in D : \E i \in D : g[i] = j
  BY <1>4, Zenon DEF Surjection
<1> QED
  BY <1>2, <1>5, Zenon DEF Permutes, D

\* The two shuffles keep the pairs together.
LEMMA ShuffleMoves ==
    ASSUME IInv, IInv', LinesAccounted, Shuffle
    PROVE  LinesAccounted'
<1> DEFINE V == Held(lines, labels, samples, reader)
           W == Held(lines', labels', samples', reader')
           n == Len(samples)
           p == Out
<1>1. /\ \A t \in Readers : reader[t].pc = "exit"
      /\ samples \in Seq(SampleSet) /\ labels \in Seq(LabelSet) /\ labels' \in Seq(LabelSet)
      /\ UNCHANGED <<taken, lines, reader>> /\ lines \in Seq(Lines) /\ reader \in [Readers -> ReaderType]
  BY Zenon DEF Shuffle, IInv, Joined, Typed
<1>2. Len(samples) = Len(labels)
  BY <1>1, Zenon DEF IInv, InStep
<1>3. n \in Nat /\ DOMAIN samples = 1 .. n /\ DOMAIN labels = 1 .. n
  BY <1>1, <1>2
<1>4. PICK g \in SetToSeqs(DOMAIN samples) :
         /\ samples' = [i \in DOMAIN samples |-> samples[g[i]]]
         /\ labels' = [i \in DOMAIN labels |-> labels[g[i]]]
  BY <1>2, Zenon DEF Shuffle
<1>5. Permutes(g, n)
  BY <1>3, <1>4, ShuffleOrder, Zenon
<1>6. \A i \in 1 .. n : g[i] \in 1 .. n
  BY <1>5, Zenon DEF Permutes
<1>7. \A i \in 1 .. n : samples'[i] = samples[g[i]] /\ labels'[i] = labels[g[i]]
  BY <1>3, <1>4, Zenon
<1>8. Len(labels') = n
  <2>1. DOMAIN labels' = 1 .. n
    BY <1>3, <1>4, Zenon
  <2>2. labels' \in Seq(LabelSet)
    BY <1>1, Zenon
  <2> QED
    BY <1>3, <2>1, <2>2
<1>9. Vectors(V) /\ Vectors(W)
  BY <1>1, HeldVectors, Zenon
<1>10. Elsewhere(V, W, {p})
  BY <1>1, HeldAlike, Zenon
<1>11. V[p] = Both(labels, samples) /\ W[p] = Both(labels', samples')
  BY HeldIs
<1>12. Accounted(V, taken)
  BY Zenon DEF LinesAccounted
<1> HIDE DEF V, W, n, p
<1>13. Len(V[p]) = n /\ \A i \in 1 .. n : V[p][i] = <<labels[i], samples[i]>>
  BY <1>1, <1>2, <1>11, BothAre DEF n
<1>14. Len(W[p]) = n /\ \A i \in 1 .. n : W[p][i] = <<labels'[i], samples'[i]>>
  <2>1. labels' \in Seq(LabelSet)
    BY <1>1, Zenon
  <2> QED
    BY <1>8, <1>11, <2>1, BothAre
<1>15. \A i \in 1 .. n : W[p][i] = V[p][g[i]]
  BY <1>6, <1>7, <1>13, <1>14, Zenon
<1>16. p \in Places
  BY PlacesDiffer, Zenon DEF p
<1>17. Accounted(W, taken)
  BY <1>3, <1>5, <1>9, <1>10, <1>12, <1>13, <1>14, <1>15, <1>16, OrderChanges
<1> QED
  BY <1>1, <1>17, Zenon DEF LinesAccounted, W

\* The caller queues the next line of the file.
LEMMA PushEnters ==
    ASSUME IInv, IInv', LinesAccounted, PushLine
    PROVE  LinesAccounted'
<1> DEFINE V == Held(lines, labels, samples, reader)
           W == Held(lines', labels', samples', reader')
           x == File[taken + 1]
           p == Queue
<1>1. /\ lines \in Seq(Lines) /\ labels \in Seq(LabelSet) /\ lines' \in Seq(Lines)
      /\ UNCHANGED <<labels, samples, reader>> /\ reader \in [Readers -> ReaderType]
      /\ taken \in Nat /\ taken' = taken + 1 /\ lines' = Append(lines, x)
  BY Zenon DEF PushLine, IInv, Typed
<1>2. Parsed[taken + 1] = <<Label(x), Sample(x)>>
  <2>1. taken + 1 \in DOMAIN File
    BY <1>1, InputAssumption DEF PushLine
  <2> QED
    BY <2>1, Zenon DEF Parsed
<1> HIDE DEF x
<1>3. /\ Len(lines) \in Nat /\ Len(lines') = Len(lines) + 1 /\ lines'[Len(lines')] = x
      /\ \A i \in 1 .. Len(lines) : lines'[i] = lines[i]
  BY <1>1
<1>4. Vectors(V) /\ Vectors(W)
  BY <1>1, HeldVectors, Zenon
<1>5. Elsewhere(V, W, {p})
  BY <1>1, HeldAlike, Zenon
<1>6. V[p] = PairsOf(lines) /\ W[p] = PairsOf(lines')
  BY HeldIs
<1>7. Accounted(V, taken)
  BY Zenon DEF LinesAccounted
<1> HIDE DEF V, W, p
<1>8. Len(V[p]) = Len(lines) /\ \A i \in 1 .. Len(lines) : V[p][i] = <<Label(lines[i]), Sample(lines[i])>>
  BY <1>1, <1>6, PairsAre, Zenon
<1>9. /\ Len(W[p]) = Len(lines')
      /\ \A i \in 1 .. Len(lines') : W[p][i] = <<Label(lines'[i]), Sample(lines'[i])>>
  <2>1. lines' \in Seq(Lines)
    BY <1>1, Zenon
  <2> QED
    BY <1>6, <2>1, PairsAre, Zenon
<1>10. ASSUME NEW i \in 1 .. Len(V[p]) PROVE W[p][i] = V[p][i]
  <2>1. i \in 1 .. Len(lines) /\ i \in 1 .. Len(lines')
    BY <1>3, <1>8
  <2> QED
    BY <1>3, <1>8, <1>9, <2>1, Zenon
<1>11. W[p][Len(W[p])] = Parsed[taken + 1]
  <2>1. Len(lines') \in 1 .. Len(lines')
    BY <1>3
  <2> QED
    BY <1>2, <1>3, <1>9, <2>1
<1>12. p \in Places /\ Len(W[p]) = Len(V[p]) + 1
  BY <1>3, <1>8, <1>9, PlacesDiffer, Zenon DEF p
<1>13. Accounted(W, taken + 1)
  BY <1>1, <1>4, <1>5, <1>7, <1>10, <1>11, <1>12, LineEnters, Zenon
<1> QED
  BY <1>1, <1>13, Zenon DEF LinesAccounted, W

-----------------------------------------------------------------------------
(* The readers' loops and the caller's progress.                           *)

\* A reader's step, seen by what its own vectors hold afterwards.
LEMMA EmptiedStep ==
    ASSUME IInv, \A t \in Readers : Emptied(reader[t]), NEW u \in Readers, read_csv_thread(u)
    PROVE  \A t \in Readers : Emptied(reader'[t])
<1>1. reader \in [Readers -> ReaderType] /\ reader[u] \in ReaderType /\ Parsing(reader[u]) /\ Emptied(reader[u])
  BY Zenon DEF IInv, Typed
<1> SUFFICES /\ \A t \in Readers : t # u => reader'[t] = reader[t]
             /\ Emptied(reader'[u])
  BY Zenon
<1>2. ASSUME NEW pc, reader' = [reader EXCEPT ![u].pc = pc]
      PROVE  /\ \A t \in Readers : t # u => reader'[t] = reader[t]
             /\ reader'[u].pc = pc
             /\ reader'[u].thread_lines = reader[u].thread_lines
             /\ reader'[u].thread_labels = reader[u].thread_labels
  BY <1>1, <1>2, Zenon DEF ReaderType
<1>3. CASE CheckTerminate(u)
  BY <1>1, <1>2, <1>3, Zenon DEF CheckTerminate, At, Goto, Emptied
<1>4. CASE LockInput(u)
  BY <1>1, <1>2, <1>4, Zenon DEF LockInput, At, Goto, Emptied
<1>5. CASE PopLine(u)
  <2> DEFINE s == Append(reader[u].thread_lines, Head(lines))
  <2>1. reader[u].pc = "pop" /\ reader' = [reader EXCEPT ![u] = [reader[u] EXCEPT !.thread_lines = s]]
    BY <1>5, Zenon DEF PopLine, At
  <2> HIDE DEF s
  <2>2. /\ \A t \in Readers : t # u => reader'[t] = reader[t]
        /\ reader'[u].pc = "pop" /\ reader'[u].thread_labels = reader[u].thread_labels
    BY <1>1, <2>1, Zenon DEF ReaderType
  <2> QED
    BY <1>1, <2>1, <2>2, Zenon DEF Emptied
<1>6. CASE UnlockInput(u)
  BY <1>1, <1>2, <1>6 DEF UnlockInput, At, Goto, Emptied
<1>7. CASE Parse(u)
  <2>1. /\ \A t \in Readers : t # u => reader'[t] = reader[t]
        /\ reader'[u].pc = "lock_output" /\ reader'[u].thread_lines = <<>>
    BY <1>1, <1>7, Zenon DEF Parse
  <2> QED
    BY <2>1, Zenon DEF Emptied
<1>8. CASE LockOutput(u)
  BY <1>1, <1>2, <1>8, Zenon DEF LockOutput, At, Goto, Emptied
<1>9. CASE PushSample(u)
  BY <1>1, <1>2, <1>9 DEF PushSample, At, Goto, Emptied
<1>10. CASE PushLabel(u)
  <2> DEFINE ss == Front(reader[u].thread_samples)
             ls == Front(reader[u].thread_labels)
  <2>1. /\ reader[u].pc = "push_label"
        /\ reader' = [reader EXCEPT ![u] = [reader[u] EXCEPT !.pc = "push_sample",
                                               !.thread_samples = ss, !.thread_labels = ls]]
    BY <1>10, Zenon DEF PushLabel, At
  <2> HIDE DEF ss, ls
  <2>2. /\ \A t \in Readers : t # u => reader'[t] = reader[t]
        /\ reader'[u].pc = "push_sample" /\ reader'[u].thread_lines = reader[u].thread_lines
    BY <1>1, <2>1, Zenon DEF ReaderType
  <2> QED
    BY <1>1, <2>1, <2>2, Zenon DEF Emptied
<1>11. CASE UnlockOutput(u)
  <2>1. reader[u].thread_labels = <<>>
    <3>1. /\ reader[u].thread_samples = <<>> /\ reader[u].thread_labels \in Seq(LabelSet)
          /\ Len(reader[u].thread_samples) = Len(reader[u].thread_labels)
      BY <1>1, <1>11, Zenon DEF UnlockOutput, ReaderType, Parsing
    <3> QED
      BY <3>1
  <2> QED
    BY <1>1, <1>2, <1>11, <2>1, Zenon DEF UnlockOutput, At, Goto, Emptied
<1> QED
  BY <1>3, <1>4, <1>5, <1>6, <1>7, <1>8, <1>9, <1>10, <1>11 DEF read_csv_thread

\* A reader only takes lines off the queue.
LEMMA ReaderProgress ==
    ASSUME IInv, Progress, NEW t \in Readers, read_csv_thread(t)
    PROVE  Progress'
<1>1. UNCHANGED <<taken, main>> /\ (lines' = lines \/ lines # <<>>)
  BY Zenon DEF read_csv_thread, CheckTerminate, LockInput, PopLine, MayPop, UnlockInput, Parse, LockOutput, PushSample,
         PushLabel, UnlockOutput
<1> QED
  BY <1>1, Zenon DEF Progress

\* The caller stops reading at the end of the file, and goes on when the queue
\* is empty.
LEMMA CallerProgress ==
    ASSUME Progress, read_input_csv
    PROVE  Progress'
<1>1. Len(File) \in Nat
  BY InputAssumption
<1> QED
  BY <1>1 DEF Progress, read_input_csv, PushLine, EndOfFile, Drained, SetTerminate, Join, Shuffle

\* Nothing has been taken, and nothing is anywhere.
LEMMA LinesInit == Init => LineInv
<1> SUFFICES ASSUME Init PROVE LineInv
  BY Zenon
<1> DEFINE V == Held(lines, labels, samples, reader)
           S == Slots(V)
           r == [pc |-> "top", thread_lines |-> <<>>, thread_samples |-> <<>>, thread_labels |-> <<>>]
<1>1. IInv
  BY InitInv, Zenon
<1>2. lines = <<>> /\ labels = <<>> /\ taken = 0 /\ main = "getline" /\ \A t \in Readers : reader[t] = r
  BY Zenon DEF Init
<1>3. \A t \in Readers : Emptied(reader[t]) /\ reader[t].thread_lines = <<>> /\ reader[t].thread_labels = <<>>
  BY <1>2 DEF Emptied
<1>4. Progress
  BY <1>2, InputAssumption DEF Progress
<1>5. Vectors(V)
  BY <1>1, HeldVectors, Zenon DEF IInv, Typed
<1>6. Len(PairsOf(<<>>)) = 0
  BY DEF PairsOf
<1>7. ASSUME NEW ss PROVE Len(Both(<<>>, ss)) = 0
  BY DEF Both
<1>8. ASSUME NEW p \in Places PROVE Len(V[p]) = 0
  <2>1. CASE p = Queue
    BY <1>2, <1>6, <2>1, HeldIs
  <2>2. CASE p = Out
    BY <1>2, <1>7, <2>2, HeldIs
  <2>3. ASSUME NEW t \in Readers, p = Local(t) PROVE Len(V[p]) = 0
    BY <1>3, <1>6, <2>3, HeldIs
  <2>4. ASSUME NEW t \in Readers, p = Own(t) PROVE Len(V[p]) = 0
    BY <1>3, <1>7, <2>4, HeldIs
  <2> QED
    BY <2>1, <2>2, <2>3, <2>4, PlaceCases, Zenon
<1> HIDE DEF V
<1>9. S = {}
  BY <1>8 DEF Slots
<1> HIDE DEF S
<1>10. 1 .. 0 = {}
  OBVIOUS
<1> DEFINE f == [s \in S |-> 0]
<1>11. f \in [S -> 1 .. 0] /\ Traces(f, V, 0)
  BY <1>9, <1>10, Zenon DEF Traces, S
<1>12. Accounted(V, 0)
  BY <1>11, Zenon DEF Accounted, S
<1> QED
  BY <1>1, <1>2, <1>3, <1>4, <1>12, Zenon DEF LineInv, LinesAccounted, V

\* Every step keeps every line somewhere, once.
LEMMA LinesStep == LineInv /\ [Next]_vars => LineInv'
<1> SUFFICES ASSUME LineInv, [Next]_vars PROVE LineInv'
  BY Zenon
<1>1. IInv /\ (\A t \in Readers : Emptied(reader[t])) /\ Progress /\ LinesAccounted
  BY Zenon DEF LineInv
<1>2. IInv'
  BY <1>1, StepInv, Zenon
<1>3. CASE UNCHANGED vars
  <2>1. LinesAccounted'
    BY <1>1, <1>3, LinesStay, Zenon DEF vars
  <2> QED
    BY <1>1, <1>2, <1>3, <2>1 DEF LineInv, vars, Emptied, Progress
<1>4. CASE read_input_csv
  <2>1. Progress'
    BY <1>1, <1>4, CallerProgress, Zenon
  <2>2. reader' = reader
    BY <1>4, Zenon DEF read_input_csv, PushLine, EndOfFile, Drained, SetTerminate, Join, Shuffle
  <2>3. ASSUME PushLine PROVE LinesAccounted'
    BY <1>1, <1>2, <2>3, PushEnters, Zenon
  <2>4. ASSUME Shuffle PROVE LinesAccounted'
    BY <1>1, <1>2, <2>4, ShuffleMoves, Zenon
  <2>5. ASSUME EndOfFile \/ Drained \/ SetTerminate \/ Join PROVE LinesAccounted'
    <3>1. UNCHANGED <<taken, lines, labels, samples, reader>>
      BY <2>5, Zenon DEF EndOfFile, Drained, SetTerminate, Join
    <3> QED
      BY <1>1, <3>1, LinesStay, Zenon
  <2>6. LinesAccounted'
    BY <1>4, <2>3, <2>4, <2>5, Zenon DEF read_input_csv
  <2> QED
    BY <1>1, <1>2, <2>1, <2>2, <2>6 DEF LineInv
<1>5. ASSUME NEW t \in Readers, read_csv_thread(t) PROVE LineInv'
  <2>1. Progress' /\ \A u \in Readers : Emptied(reader'[u])
    BY <1>1, <1>5, ReaderProgress, EmptiedStep, Zenon
  <2>2. ASSUME PopLine(t) PROVE LinesAccounted'
    BY <1>1, <1>2, <2>2, PopMoves, Zenon
  <2>3. ASSUME Parse(t) PROVE LinesAccounted'
    BY <1>1, <1>2, <2>3, ParseMoves, Zenon
  <2>4. ASSUME PushSample(t) PROVE LinesAccounted'
    BY <1>1, <2>4, SamplePushed
  <2>5. ASSUME PushLabel(t) PROVE LinesAccounted'
    BY <1>1, <1>2, <2>5, LabelMoves, Zenon
  <2>6. ASSUME CheckTerminate(t) \/ LockInput(t) \/ UnlockInput(t) \/ LockOutput(t) \/ UnlockOutput(t) PROVE LinesAccounted'
    <3>1. PICK pc : reader' = [reader EXCEPT ![t].pc = pc]
      BY <2>6, Zenon DEF CheckTerminate, LockInput, UnlockInput, LockOutput, UnlockOutput, Goto
    <3>2. UNCHANGED <<taken, lines, labels, samples>>
      BY <2>6, Zenon DEF CheckTerminate, LockInput, UnlockInput, LockOutput, UnlockOutput
    <3>3. reader \in [Readers -> ReaderType]
      BY <1>1, Zenon DEF IInv, Typed
    <3>4. \A u \in Readers : /\ reader'[u].thread_lines = reader[u].thread_lines
                             /\ reader'[u].thread_labels = reader[u].thread_labels
                             /\ reader'[u].thread_samples = reader[u].thread_samples
      BY <3>1, <3>3, Zenon DEF ReaderType
    <3> QED
      BY <1>1, <3>2, <3>4, LinesStay, Zenon
  <2>7. LinesAccounted'
    BY <1>5, <2>2, <2>3, <2>4, <2>5, <2>6, Zenon DEF read_csv_thread
  <2> QED
    BY <1>2, <2>1, <2>7, Zenon DEF LineInv
<1> QED
  BY <1>3, <1>4, <1>5 DEF Next

\* A one-to-one correspondence keeps count.
LEMMA CountKept ==
    ASSUME NEW A, NEW B, IsFiniteSet(A), NEW g \in [A -> B],
           \A i, j \in A : g[i] = g[j] => i = j,
           \A k \in B : \E i \in A : g[i] = k
    PROVE  Cardinality(A) = Cardinality(B)
<1>1. g \in Bijection(A, B)
  BY Zenon DEF Bijection, Injection, Surjection, IsInjective
<1>2. ExistsBijection(A, B)
  BY <1>1, Zenon DEF ExistsBijection
<1> QED
  BY <1>2, FS_Bijection, Zenon

\* An interval from one has as many elements as its end says.
LEMMA CountTo ==
    ASSUME NEW n \in Nat
    PROVE  IsFiniteSet(1 .. n) /\ Cardinality(1 .. n) = n
<1>1. n \in Int /\ 1 \in Int /\ n - 1 + 1 = n /\ (1 > n => n = 0)
  OBVIOUS
<1>2. IsFiniteSet(1 .. n) /\ Cardinality(1 .. n) = IF 1 > n THEN 0 ELSE n - 1 + 1
  BY <1>1, FS_Interval, Zenon
<1> QED
  BY <1>1, <1>2, Zenon

\* Once the call is over all lines are in the two vectors: g tells which.
LEMMA AllOut ==
    ASSUME LineInv, main = "done"
    PROVE  /\ Len(samples) = Len(labels) /\ Len(labels) \in Nat
           /\ \E g \in [1 .. Len(labels) -> 1 .. Len(File)] :
                 /\ \A i, j \in 1 .. Len(labels) : g[i] = g[j] => i = j
                 /\ \A k \in 1 .. Len(File) : \E i \in 1 .. Len(labels) : g[i] = k
                 /\ \A i \in 1 .. Len(labels) : Parsed[g[i]] = <<labels[i], samples[i]>>
<1> DEFINE V == Held(lines, labels, samples, reader)
           S == Slots(V)
           m == Len(labels)
           n == Len(File)
<1>1. /\ \A t \in Readers : reader[t].pc = "exit"
      /\ labels \in Seq(LabelSet) /\ lines = <<>> /\ taken = n
  BY Zenon DEF LineInv, IInv, Typed, Joined, Progress
<1>2. Len(samples) = m /\ m \in Nat
  BY <1>1 DEF LineInv, IInv, InStep
<1>3. \A t \in Readers : reader[t].thread_lines = <<>> /\ reader[t].thread_labels = <<>>
  BY <1>1, Zenon DEF LineInv, Emptied
<1>4. Vectors(V)
  BY HeldVectors, Zenon DEF LineInv, IInv, Typed
<1>5. Len(PairsOf(<<>>)) = 0
  BY DEF PairsOf
<1>6. ASSUME NEW ss PROVE Len(Both(<<>>, ss)) = 0
  BY DEF Both
<1>7. ASSUME NEW p \in Places, p # Out PROVE Len(V[p]) = 0
  <2>1. CASE p = Queue
    BY <1>1, <1>5, <2>1, HeldIs
  <2>2. ASSUME NEW t \in Readers, p = Local(t) PROVE Len(V[p]) = 0
    BY <1>3, <1>5, <2>2, HeldIs
  <2>3. ASSUME NEW t \in Readers, p = Own(t) PROVE Len(V[p]) = 0
    BY <1>3, <1>6, <2>3, HeldIs
  <2> QED
    BY <1>7, <2>1, <2>2, <2>3, PlaceCases, Zenon
<1>8. Len(V[Out]) = m /\ \A i \in 1 .. m : V[Out][i] = <<labels[i], samples[i]>>
  BY <1>1, HeldIs, BothAre
<1>9. PICK f \in [S -> 1 .. n] : Traces(f, V, n)
  BY <1>1, Zenon DEF LineInv, LinesAccounted, Accounted
<1>10. /\ \A s \in S : /\ s = <<s[1], s[2]>> /\ s[1] \in Places
                       /\ s[2] \in Nat /\ 1 <= s[2] /\ s[2] <= Len(V[s[1]])
       /\ \A p \in Places, i \in Nat : 1 <= i /\ i <= Len(V[p]) => <<p, i>> \in S
  BY <1>4, SlotIs, Zenon
<1>11. /\ \A s, u \in S : f[s] = f[u] => s = u
       /\ \A k \in 1 .. n : \E s \in S : f[s] = k
       /\ \A s \in S : Parsed[f[s]] = V[s[1]][s[2]]
  BY <1>9, Zenon DEF Traces
<1> HIDE DEF V, S, m, n
<1>12. \A i \in 1 .. m : <<Out, i>> \in S
  BY <1>2, <1>8, <1>10, PlacesDiffer
<1>13. ASSUME NEW s \in S PROVE s = <<Out, s[2]>> /\ s[2] \in 1 .. m
  <2>1. s[1] = Out
    BY <1>7, <1>10
  <2> QED
    BY <1>2, <1>8, <1>10, <2>1
<1> DEFINE g == [i \in 1 .. m |-> f[<<Out, i>>]]
<1>14. g \in [1 .. m -> 1 .. n] /\ \A i \in 1 .. m : g[i] = f[<<Out, i>>]
  BY <1>12, Zenon
<1> HIDE DEF g
<1>15. ASSUME NEW i \in 1 .. m, NEW j \in 1 .. m, g[i] = g[j] PROVE i = j
  <2> DEFINE a == <<Out, i>>
             b == <<Out, j>>
  <2>1. a \in S /\ b \in S /\ f[a] = f[b]
    BY <1>12, <1>14, <1>15
  <2>2. a = b => i = j
    BY Zenon
  <2> HIDE DEF a, b
  <2> QED
    BY <1>11, <2>1, <2>2, Zenon
<1>16. ASSUME NEW k \in 1 .. n PROVE \E i \in 1 .. m : g[i] = k
  <2>1. PICK s \in S : f[s] = k
    BY <1>11, Zenon
  <2>2. s = <<Out, s[2]>> /\ s[2] \in 1 .. m
    BY <1>13, Zenon
  <2>3. g[s[2]] = k
    BY <1>14, <2>1, <2>2, Zenon
  <2> QED
    BY <2>2, <2>3, Zenon
<1>17. ASSUME NEW i \in 1 .. m PROVE Parsed[g[i]] = <<labels[i], samples[i]>>
  <2>1. <<Out, i>>[1] = Out /\ <<Out, i>>[2] = i
    BY Zenon
  <2>2. Parsed[f[<<Out, i>>]] = V[Out][i]
    BY <1>11, <1>12, <2>1
  <2> QED
    BY <1>8, <1>14, <2>2, Zenon
<1> QED
  BY <1>2, <1>14, <1>15, <1>16, <1>17, Zenon DEF m, n

\* For every file, number of readers and size of a group: when read_input_csv
\* returns, each line of the file is in the two vectors, and as often as it is in
\* the file, although terminate is set while readers still hold lines.
THEOREM ReadsEveryLine == Spec => []EveryLineOnce
<1>1. LineInv => EveryLineOnce
  <2> SUFFICES ASSUME LineInv, main = "done"
               PROVE  /\ Len(samples) = Len(File)
                      /\ Len(labels) = Len(File)
                      /\ \A x \in ToSet(Parsed) :
                            Cardinality({i \in DOMAIN samples : <<labels[i], samples[i]>> = x})
                            = Cardinality({i \in DOMAIN Parsed : Parsed[i] = x})
    BY Zenon DEF EveryLineOnce
  <2> DEFINE m == Len(labels)
             n == Len(File)
             M == 1 .. m
             N == 1 .. n
  <2>1. m \in Nat /\ n \in Nat /\ Len(samples) = m /\ DOMAIN samples = M /\ DOMAIN Parsed = N
    BY AllOut, InputAssumption DEF LineInv, IInv, Typed, Parsed
  <2>2. PICK g \in [M -> N] :
           /\ \A i, j \in M : g[i] = g[j] => i = j
           /\ \A k \in N : \E i \in M : g[i] = k
           /\ \A i \in M : Parsed[g[i]] = <<labels[i], samples[i]>>
    BY AllOut, Zenon
  <2>3. IsFiniteSet(M) /\ Cardinality(M) = m /\ Cardinality(N) = n
    BY <2>1, CountTo, Zenon
  <2> HIDE DEF M, N, m, n
  <2>4. m = n
    BY <2>2, <2>3, CountKept, Zenon
  <2>5. ASSUME NEW x
        PROVE  Cardinality({i \in M : <<labels[i], samples[i]>> = x}) = Cardinality({i \in N : Parsed[i] = x})
    <3> DEFINE A == {i \in M : <<labels[i], samples[i]>> = x}
               B == {i \in N : Parsed[i] = x}
               h == [i \in A |-> g[i]]
    <3>1. IsFiniteSet(A)
      BY <2>3, FS_Subset, Zenon
    <3>2. h \in [A -> B] /\ \A i \in A : h[i] = g[i] /\ i \in M
      BY <2>2, Zenon
    <3>3. \A k \in B : \E i \in A : h[i] = k
      <4> SUFFICES ASSUME NEW k \in B PROVE \E i \in A : h[i] = k
        BY Zenon
      <4>1. PICK i \in M : g[i] = k
        BY <2>2, Zenon
      <4>2. i \in A
        BY <2>2, <4>1, Zenon
      <4> QED
        BY <3>2, <4>1, <4>2, Zenon
    <3>4. \A i, j \in A : h[i] = h[j] => i = j
      BY <2>2, <3>2, Zenon
    <3> HIDE DEF A, B, h
    <3>5. Cardinality(A) = Cardinality(B)
      BY <3>1, <3>2, <3>3, <3>4, CountKept, Zenon
    <3> QED
      BY <3>5, Zenon DEF A, B
  <2> QED
    BY <2>1, <2>4, <2>5, Zenon DEF m, n
<1> QED
  BY <1>1, LinesInit, LinesStep, PTL DEF Spec
=============================================================================
