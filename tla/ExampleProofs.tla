----------------------------- MODULE ExampleProofs -----------------------------
(***************************************************************************)
(* The example programs.                                                   *)
(*                                                                         *)
(* Training: for every number of workers, of minibatches, every width of   *)
(* the version field and every setup, the parameter server uses no         *)
(* gradient twice, and a worker computes no gradient from the samples of   *)
(* one minibatch and the labels of another.                                *)
(*                                                                         *)
(* page_rank, for every graph, every size of the cache, read-ahead and     *)
(* number of rounds: no share of a vertex is lost or added twice.  wcc,    *)
(* for every undirected graph that fits in the cache: the labels are the   *)
(* components.                                                             *)
(***************************************************************************)
EXTENDS Training, GraphJobs, FiniteSetTheorems, WellFoundedInduction, TLAPS

-----------------------------------------------------------------------------
(* The inductive invariant.  That the versions the server remembers are    *)
(* enough to recognise a used gradient needs three facts: a gradient in    *)
(* the store, and one that was used, is older than the next one of its     *)
(* worker; and if the one in the store was used, its version is the one    *)
(* remembered.                                                             *)

TaskPC == {"model", "samples", "labels", "put", "exit", "crashed", "dead"}

TaskType == [pc : TaskPC, first_time : BOOLEAN, version : Nat, samples_id : Batches,
             labels_id : Batches, todo : Seq(Int), data : Seq(Batches)]

PSType == [pc : {"init", "check", "publish"}, worker : Workers, gradientVersions : [Workers -> Nat],
           model : SUBSET (Workers \X Nat), updates : Nat]

Entry == {"none", "data", "NoSuchID", "null"}

CacheType == [samples : [Batches -> Entry], labels : [Batches -> Entry]]

GradientType == [version : Nat, n : Nat]

Typed ==
    /\ task \in [Workers -> TaskType]
    /\ cache \in [Workers -> CacheType]
    /\ ps \in PSType
    /\ DOMAIN gradient \subseteq Workers
    /\ \A w \in DOMAIN gradient : gradient[w] \in GradientType

UsesCounted == IsFiniteSet(ps.model) /\ ps.updates = Cardinality(ps.model)

Numbered ==
    /\ \A w \in Workers, n \in Nat : <<w, n>> \in ps.model => n < task[w].version
    /\ \A w \in DOMAIN gradient :
          /\ gradient[w].n < task[w].version
          /\ <<w, gradient[w].n>> \in ps.model => ps.gradientVersions[w] = gradient[w].version

\* What a worker has read so far is what its two iterators point at.
ReadSoFar(t) ==
    /\ t.samples_id = t.labels_id
    /\ t.pc \in {"model", "samples"} => t.data = <<>>
    /\ t.pc = "labels" => Len(t.data) = 1 /\ t.data[1] = t.samples_id
    /\ t.pc = "put" => Len(t.data) = 2 /\ t.data[1] = t.data[2]

TrainInv == Typed /\ UsesCounted /\ Numbered /\ \A w \in Workers : ReadSoFar(task[w])

-----------------------------------------------------------------------------
(* Lemmas.                                                                 *)

\* The worker after a worker is a worker.
LEMMA NextWorkerType == \A w \in Workers : NextWorker(w) \in Workers
  BY TrainingAssumption DEF NextWorker, Workers

\* Nothing is read ahead at first.
LEMMA NothingRead == <<>> \in Seq(Int) /\ <<>> \in Seq(Batches)
  OBVIOUS

\* What is read ahead of a batch are ids.
LEMMA ReadAheadType == \A id \in Batches : ReadAheadOf(id) \in Seq(Int)
<1> SUFFICES ASSUME NEW id \in Batches PROVE ReadAheadOf(id) \in Seq(Int)
  OBVIOUS
<1> DEFINE n == IF READ_AHEAD < num_batches THEN READ_AHEAD ELSE num_batches - 1
<1>1. n \in Nat
  BY TrainingAssumption
<1>2. \A k \in 1 .. n : (id + k) % num_batches \in Int
  BY <1>1, TrainingAssumption DEF Batches
<1> HIDE DEF n
<1>3. [k \in 1 .. n |-> (id + k) % num_batches] \in Seq(Int)
  BY <1>1, <1>2
<1> QED
  BY <1>3 DEF ReadAheadOf, n

\* The steps a worker takes on its own record.
LEMMA TaskSteps ==
    ASSUME NEW t \in TaskType
    PROVE  /\ NoSuchID(t) \in TaskType
           /\ BeginRead(t, "samples") \in TaskType
           /\ BeginRead(t, "labels") \in TaskType
           /\ \A id \in Batches : BatchRead(t, id) \in TaskType
<1>1. Position(t, "samples") \in Batches /\ Position(t, "labels") \in Batches
  BY DEF TaskType, Position
<1>2. ReadAheadOf(Position(t, "samples")) \in Seq(Int) /\ ReadAheadOf(Position(t, "labels")) \in Seq(Int)
  BY <1>1, ReadAheadType
<1>3. NoSuchID(t) \in TaskType
  <2>1. \A p \in TaskPC, s \in Seq(Batches) : [t EXCEPT !.pc = p, !.data = s] \in TaskType
    BY Zenon DEF TaskType
  <2>2. (IF t.first_time THEN "model" ELSE "exit") \in TaskPC
    BY DEF TaskPC
  <2> QED
    BY <2>1, <2>2, NothingRead, Zenon DEF NoSuchID
<1>4. BeginRead(t, "samples") \in TaskType /\ BeginRead(t, "labels") \in TaskType
  <2>1. \A p \in TaskPC, s \in Seq(Int) : [t EXCEPT !.pc = p, !.todo = s] \in TaskType
    BY Zenon DEF TaskType
  <2>2. "samples" \in TaskPC /\ "labels" \in TaskPC
    BY DEF TaskPC
  <2>3. \A s \in Seq(Int) : (IF setup.job = "logistic" THEN s ELSE <<>>) \in Seq(Int)
    BY NothingRead
  <2> QED
    BY <1>2, <2>1, <2>2, <2>3, Zenon DEF BeginRead
<1>5. \A id \in Batches : BatchRead(t, id) \in TaskType
  <2>1. \A s \in Seq(Batches) : [t EXCEPT !.data = s] \in TaskType
    BY Zenon DEF TaskType
  <2>2. \A id \in Batches : Append(t.data, id) \in Seq(Batches)
    BY DEF TaskType
  <2> QED
    BY <2>1, <2>2 DEF BatchRead
<1> QED
  BY <1>3, <1>4, <1>5

\* Before the tasks start nothing has been computed.
LEMMA TrainInvInit == InitTraining => TrainInv
<1> SUFFICES ASSUME InitTraining PROVE TrainInv
  OBVIOUS
<1>1. 0 \in Workers /\ 0 \in Batches
  BY TrainingAssumption DEF Workers, Batches
<1>2. Typed
  <2>1. Start \in TaskType
    BY <1>1, NothingRead DEF Start, TaskType, TaskPC
  <2>2. task \in [Workers -> TaskType]
    BY <2>1 DEF InitTraining
  <2>3. cache \in [Workers -> CacheType]
    BY DEF InitTraining, CacheType, Entry
  <2>4. ps \in PSType
    BY <1>1 DEF InitTraining, PSType
  <2>5. DOMAIN gradient = {}
    BY DEF InitTraining
  <2> QED
    BY <2>2, <2>3, <2>4, <2>5 DEF Typed
<1>3. UsesCounted
  BY FS_EmptySet DEF InitTraining, UsesCounted
<1>4. Numbered
  BY DEF InitTraining, Numbered
<1>5. \A w \in Workers : ReadSoFar(task[w])
  BY DEF InitTraining, ReadSoFar, Start
<1> QED
  BY <1>2, <1>3, <1>4, <1>5 DEF TrainInv

\* A step in which a worker changes its own record and cache only, and makes
\* no gradient.
LEMMA OwnStep ==
    ASSUME TrainInv, NEW w \in Workers, NEW t \in TaskType,
           task' = [task EXCEPT ![w] = t], t.version = task[w].version, ReadSoFar(t),
           cache' \in [Workers -> CacheType], UNCHANGED <<ps, gradient>>
    PROVE  TrainInv'
<1>1. task' \in [Workers -> TaskType] /\ task \in [Workers -> TaskType]
  BY DEF TrainInv, Typed
<1>2. \A v \in Workers : task'[v] = IF v = w THEN t ELSE task[v]
  BY <1>1
<1>3. \A v \in Workers : task'[v].version = task[v].version
  BY <1>2
<1>4. Typed'
  BY <1>1 DEF TrainInv, Typed
<1>5. UsesCounted'
  BY DEF TrainInv, UsesCounted
<1>6. Numbered'
  BY <1>3 DEF TrainInv, Typed, Numbered
<1>7. \A v \in Workers : ReadSoFar(task[v])'
  BY <1>2 DEF TrainInv, ReadSoFar
<1> QED
  BY <1>4, <1>5, <1>6, <1>7 DEF TrainInv

\* A step of the loader or of ErrorTask, or one in which nothing happens.
LEMMA OtherStep ==
    ASSUME TrainInv, UNCHANGED <<gradient, ps, task, cache>>
    PROVE  TrainInv'
  BY DEF TrainInv, Typed, UsesCounted, Numbered, ReadSoFar

\* A worker reads the model.
LEMMA GetModelInv ==
    ASSUME TrainInv, NEW w \in Workers, GetModel(w)
    PROVE  TrainInv'
<1> DEFINE t == task[w]
           u == IF model = {} THEN NoSuchID(t) ELSE BeginRead(t, "samples")
<1>1. t \in TaskType /\ ReadSoFar(t)
  BY DEF TrainInv, Typed
<1>2. u \in TaskType
  BY <1>1, TaskSteps
<1>3. u.version = t.version /\ ReadSoFar(u)
  BY <1>1 DEF GetModel, NoSuchID, BeginRead, ReadSoFar, TaskType
<1>4. /\ task' = [task EXCEPT ![w] = u]
      /\ UNCHANGED <<ps, gradient>> 
      /\ cache' \in [Workers -> CacheType]
  BY DEF GetModel, storeVars, TrainInv, Typed
<1> QED
  BY <1>2, <1>3, <1>4, OwnStep

\* A worker asks for the batches ahead of it.
LEMMA PrefetchBatchInv ==
    ASSUME TrainInv, NEW w \in Workers, PrefetchBatch(w)
    PROVE  TrainInv'
<1> DEFINE t == task[w]
           u == [t EXCEPT !.todo = Tail(@)]
<1>1. t \in TaskType /\ ReadSoFar(t) /\ t.todo # <<>> /\ t.pc \in {"samples", "labels"}
  BY DEF TrainInv, Typed, PrefetchBatch
<1>2. u \in TaskType
  <2>1. Tail(t.todo) \in Seq(Int)
    BY <1>1 DEF TaskType
  <2> QED
    BY <1>1, <2>1, Zenon DEF TaskType
<1>3. u.version = t.version /\ ReadSoFar(u)
  BY <1>1 DEF ReadSoFar, TaskType
<1>4. cache' \in [Workers -> CacheType]
  <2> DEFINE id == Head(t.todo)
             e == IF InStore(t.pc, id) THEN "data" ELSE "NoSuchID"
  <2>1. cache \in [Workers -> CacheType] /\ e \in Entry
    BY DEF TrainInv, Typed, Entry
  <2> HIDE DEF e
  <2>2. [cache EXCEPT ![w][t.pc][id] = e] \in [Workers -> CacheType]
    BY <1>1, <2>1 DEF CacheType
  <2> QED
    BY <2>1, <2>2 DEF PrefetchBatch, e
<1>5. task' = [task EXCEPT ![w] = u] /\ UNCHANGED <<ps, gradient>>
  BY DEF PrefetchBatch, storeVars
<1> QED
  BY <1>2, <1>3, <1>4, <1>5, OwnStep, Zenon

\* A worker exits on an error of its own, or is killed.
LEMMA DieInv ==
    ASSUME TrainInv, NEW w \in Workers, Die(w)
    PROVE  TrainInv'
<1> DEFINE t == task[w]
           u == [t EXCEPT !.pc = "dead"]
<1>1. t \in TaskType /\ ReadSoFar(t)
  BY DEF TrainInv, Typed
<1>2. u \in TaskType
  BY <1>1, SMTT(30) DEF TaskType, TaskPC
<1>3. u.version = t.version /\ ReadSoFar(u)
  BY <1>1 DEF ReadSoFar, TaskType
<1>4. task' = [task EXCEPT ![w] = u] /\ UNCHANGED <<ps, gradient>> /\ cache' \in [Workers -> CacheType]
  BY DEF Die, storeVars, TrainInv, Typed
<1> QED
  BY <1>2, <1>3, <1>4, OwnStep, Zenon

\* A worker reads the samples and the labels of its batch.
LEMMA GetBatchInv ==
    ASSUME TrainInv, NEW w \in Workers, GetBatch(w)
    PROVE  TrainInv'
<1> DEFINE t == task[w]
           id == Position(t, t.pc)
           entry == IF setup.job = "logistic" THEN cache[w][t.pc][id] ELSE "none"
           got == ReadResult(t.pc, id, entry)
<1>1. t \in TaskType /\ ReadSoFar(t) /\ t.pc \in {"samples", "labels"}
  BY DEF TrainInv, Typed, GetBatch
<1>2. id \in Batches /\ id = t.samples_id
  BY <1>1 DEF Position, TaskType, ReadSoFar
<1>3. cache \in [Workers -> CacheType] /\ entry \in Entry
  <2>1. cache \in [Workers -> CacheType]
    BY DEF TrainInv, Typed
  <2>2. cache[w][t.pc][id] \in Entry
    BY <1>1, <1>2, <2>1 DEF CacheType
  <2> QED
    BY <2>1, <2>2 DEF Entry
<1>4. got \in {"data", "NoSuchID", "null"}
  BY <1>3, SMTT(30) DEF ReadResult, Entry
<1>5. cache' \in [Workers -> CacheType]
  <2>1. CachedEntry(t.pc, id, entry) \in Entry
    BY <1>3 DEF CachedEntry, Entry
  <2> HIDE DEF entry
  <2>2. [cache EXCEPT ![w][t.pc][id] = CachedEntry(t.pc, id, entry)] \in [Workers -> CacheType]
    BY <1>1, <1>3, <2>1, Zenon DEF CacheType
  <2> QED
    BY <1>3, <2>2 DEF GetBatch, entry
<1> HIDE DEF entry, got
<1>6. UNCHANGED <<ps, gradient>>
  BY DEF GetBatch, storeVars
<1>7. CASE got = "NoSuchID"
  <2>1. task' = [task EXCEPT ![w] = NoSuchID(t)]
    BY <1>7, Zenon DEF GetBatch, got, entry
  <2>2. NoSuchID(t) \in TaskType
    BY <1>1, TaskSteps
  <2>3. NoSuchID(t).version = t.version /\ ReadSoFar(NoSuchID(t))
    BY <1>1 DEF NoSuchID, ReadSoFar, TaskType
  <2> QED
    BY <1>5, <1>6, <2>1, <2>2, <2>3, OwnStep, Zenon
<1>8. CASE got = "null"
  <2> DEFINE u == [t EXCEPT !.pc = "crashed"]
  <2>1. task' = [task EXCEPT ![w] = u]
    BY <1>8, Zenon DEF GetBatch, got, entry
  <2>2. u \in TaskType
    BY <1>1 DEF TaskType, TaskPC
  <2>3. u.version = t.version /\ ReadSoFar(u)
    BY <1>1 DEF ReadSoFar, TaskType
  <2> QED
    BY <1>5, <1>6, <2>1, <2>2, <2>3, OwnStep, Zenon
<1>9. CASE got = "data" /\ t.pc = "samples"
  <2> DEFINE u == BeginRead(BatchRead(t, id), "labels")
  <2>1. task' = [task EXCEPT ![w] = u]
    BY <1>9 DEF GetBatch, got, entry
  <2>2. BatchRead(t, id) \in TaskType
    BY <1>1, <1>2, TaskSteps, Zenon
  <2>3. u \in TaskType
    BY <2>2, TaskSteps
  <2>4. Len(BatchRead(t, id).data) = 1 /\ BatchRead(t, id).data[1] = t.samples_id
    BY <1>1, <1>2, <1>9 DEF BatchRead, TaskType, ReadSoFar
  <2>5. /\ BatchRead(t, id).version = t.version
        /\ BatchRead(t, id).samples_id = t.samples_id
        /\ BatchRead(t, id).labels_id = t.labels_id
    BY <1>1 DEF BatchRead, TaskType
  <2>6. /\ u.pc = "labels"
        /\ u.version = t.version
        /\ u.samples_id = t.samples_id
        /\ u.labels_id = t.labels_id
        /\ u.data = BatchRead(t, id).data
    BY <2>2, <2>5 DEF BeginRead, TaskType
  <2>7. ReadSoFar(u)
    BY <1>1, <2>4, <2>6 DEF ReadSoFar
  <2> QED
    BY <1>5, <1>6, <2>1, <2>3, <2>6, <2>7, OwnStep, Zenon
<1>10. CASE got = "data" /\ t.pc = "labels"
  <2> DEFINE b == BatchRead(t, id)
             u == [b EXCEPT !.pc = "put", !.first_time = FALSE]
  <2>1. task' = [task EXCEPT ![w] = u]
    BY <1>10 DEF GetBatch, got, entry
  <2>2. b \in TaskType
    BY <1>1, <1>2, TaskSteps, Zenon
  <2>3. Len(b.data) = 2 /\ b.data[1] = t.samples_id /\ b.data[2] = t.samples_id
    BY <1>1, <1>2, <1>10 DEF BatchRead, TaskType, ReadSoFar
  <2>4. b.version = t.version /\ b.samples_id = t.samples_id /\ b.labels_id = t.labels_id
    BY <1>1 DEF BatchRead, TaskType
  <2> HIDE DEF b
  <2>5. u \in TaskType
    BY <2>2, Zenon DEF TaskType, TaskPC
  <2>6. /\ u.pc = "put"
        /\ u.version = t.version
        /\ u.samples_id = t.samples_id
        /\ u.labels_id = t.labels_id
        /\ u.data = b.data
    BY <2>2, <2>4 DEF TaskType
  <2>7. ReadSoFar(u)
    BY <1>1, <2>3, <2>6 DEF ReadSoFar
  <2> QED
    BY <1>5, <1>6, <2>1, <2>5, <2>6, <2>7, OwnStep, Zenon
<1> QED
  BY <1>1, <1>4, <1>7, <1>8, <1>9, <1>10

\* A new gradient has a number of its own: no earlier one of its worker is in
\* the model under it.
LEMMA PutGradientInv ==
    ASSUME TrainInv, NEW w \in Workers, PutGradient(w)
    PROVE  TrainInv'
<1> DEFINE t == task[w]
           next(id) == IF t.samples_id + 1 = num_batches THEN 0 ELSE id + 1
           u == [t EXCEPT !.pc = "model", !.version = @ + 1, !.data = <<>>,
                          !.samples_id = next(@), !.labels_id = next(@)]
<1>1. t \in TaskType /\ ReadSoFar(t) /\ task \in [Workers -> TaskType]
  BY DEF TrainInv, Typed
<1>2. next(t.samples_id) \in Batches /\ next(t.labels_id) = next(t.samples_id)
  BY <1>1, TrainingAssumption DEF Batches, TaskType, ReadSoFar
<1>3. u \in TaskType
  <2>1. \A p \in TaskPC, n \in Nat, s \in Seq(Batches), k, j \in Batches :
           [t EXCEPT !.pc = p, !.version = n, !.data = s, !.samples_id = k, !.labels_id = j]
               \in TaskType
    BY <1>1, Zenon DEF TaskType
  <2>2. "model" \in TaskPC /\ t.version + 1 \in Nat
    BY <1>1 DEF TaskPC, TaskType
  <2> QED
    BY <1>2, <2>1, <2>2, NothingRead, Zenon
<1>4. u.version = t.version + 1 /\ t.version \in Nat
  BY <1>1 DEF TaskType
<1>5. ReadSoFar(u)
  <2>1. u.pc = "model" /\ u.data = <<>>
    BY <1>1 DEF TaskType
  <2>2. u.samples_id = next(t.samples_id) /\ u.labels_id = next(t.labels_id)
    BY <1>1 DEF TaskType
  <2> QED
    BY <1>2, <2>1, <2>2 DEF ReadSoFar
<1>6. task' = [task EXCEPT ![w] = u] /\ UNCHANGED <<ps, cache>>
  BY DEF PutGradient
<1> HIDE DEF u
<1>7. \A v \in Workers : task'[v] = IF v = w THEN u ELSE task[v]
  BY <1>1, <1>6
<1>8. Stored(t.version) \in GradientType /\ Stored(t.version).n = t.version
  BY <1>4, TrainingAssumption DEF Stored, GradientType
<1>9. /\ DOMAIN gradient' = DOMAIN gradient \cup {w}
      /\ \A v \in DOMAIN gradient' : gradient'[v] = IF v = w THEN Stored(t.version) ELSE gradient[v]
  BY DEF PutGradient
<1>10. Typed'
  BY <1>1, <1>3, <1>6, <1>8, <1>9 DEF TrainInv, Typed
<1>11. UsesCounted'
  BY <1>6 DEF TrainInv, UsesCounted
<1>12. Numbered'
  <2>1. \A v \in Workers, n \in Nat : <<v, n>> \in ps.model => n < task'[v].version
    <3> SUFFICES ASSUME NEW v \in Workers, NEW n \in Nat, <<v, n>> \in ps.model
                 PROVE  n < task'[v].version
      OBVIOUS
    <3>1. n < task[v].version
      BY DEF TrainInv, Numbered
    <3> QED
      BY <1>4, <1>7, <3>1
  <2>2. \A v \in DOMAIN gradient' : gradient'[v].n < task'[v].version
    <3> SUFFICES ASSUME NEW v \in DOMAIN gradient' PROVE gradient'[v].n < task'[v].version
      OBVIOUS
    <3>1. CASE v = w
      BY <1>4, <1>7, <1>8, <1>9, <3>1
    <3>2. CASE v # w
      BY <1>7, <1>9, <3>2, Zenon DEF TrainInv, Typed, Numbered
    <3> QED
      BY <3>1, <3>2
  <2>3. <<w, t.version>> \notin ps.model
    BY <1>4 DEF TrainInv, Numbered
  <2>4. \A v \in DOMAIN gradient' :
           <<v, gradient'[v].n>> \in ps.model => ps.gradientVersions[v] = gradient'[v].version
    BY <1>8, <1>9, <2>3 DEF TrainInv, Numbered
  <2> QED
    BY <1>6, <2>1, <2>2, <2>4 DEF Numbered
<1>13. \A v \in Workers : ReadSoFar(task[v])'
  BY <1>5, <1>7 DEF TrainInv, ReadSoFar
<1> QED
  BY <1>10, <1>11, <1>12, <1>13 DEF TrainInv

\* The server moves on, or publishes.
LEMMA ServerMoves ==
    ASSUME TrainInv, ps' \in PSType, UNCHANGED <<gradient, task, cache>>,
           ps'.model = ps.model, ps'.updates = ps.updates,
           ps'.gradientVersions = ps.gradientVersions
    PROVE  TrainInv'
  BY DEF TrainInv, Typed, UsesCounted, Numbered, ReadSoFar

\* If the gradient passes for a new one, it is: had it been used, its version
\* would be the one remembered.
LEMMA CheckGradientInv ==
    ASSUME TrainInv, CheckGradient
    PROVE  TrainInv'
<1> DEFINE w == ps.worker
           g == gradient[w]
<1>1. /\ ps \in PSType
      /\ w \in Workers
      /\ w \in DOMAIN gradient
      /\ g \in GradientType
      /\ UNCHANGED <<gradient, task, cache>>
  BY DEF TrainInv, Typed, PSType, CheckGradient, storeVars
<1>2. CASE ~IsNew(g, w)
  <2>1. ps' = [ps EXCEPT !.worker = NextWorker(w)]
    BY <1>2 DEF CheckGradient
  <2>2. NextWorker(w) \in Workers
    BY <1>1, NextWorkerType
  <2>3. /\ ps' \in PSType
        /\ ps'.model = ps.model
        /\ ps'.updates = ps.updates
        /\ ps'.gradientVersions = ps.gradientVersions
    BY <1>1, <2>1, <2>2 DEF PSType
  <2> QED
    BY <1>1, <2>3, ServerMoves
<1>3. CASE IsNew(g, w)
  <2>1. ps' = [ps EXCEPT !.pc = "publish", !.gradientVersions[w] = g.version,
                         !.model = @ \cup {<<w, g.n>>}, !.updates = @ + 1]
    BY <1>3 DEF CheckGradient
  <2>2. g.n \in Nat /\ g.version \in Nat /\ ps.gradientVersions[w] \in Nat
    BY <1>1 DEF GradientType, PSType
  <2>3. <<w, g.n>> \notin ps.model
    BY <1>1, <1>3, <2>2 DEF TrainInv, Numbered, IsNew
  <2>4. /\ ps'.model = ps.model \cup {<<w, g.n>>}
        /\ ps'.updates = ps.updates + 1
        /\ ps'.gradientVersions = [ps.gradientVersions EXCEPT ![w] = g.version]
    BY <1>1, <2>1 DEF PSType
  <2>5. ps' \in PSType
    <3>1. /\ ps.model \cup {<<w, g.n>>} \in SUBSET (Workers \X Nat)
          /\ [ps.gradientVersions EXCEPT ![w] = g.version] \in [Workers -> Nat]
          /\ ps.updates + 1 \in Nat
      BY <1>1, <2>2 DEF PSType
    <3>2. \A v \in [Workers -> Nat], m \in SUBSET (Workers \X Nat), k \in Nat :
             [ps EXCEPT !.pc = "publish", !.gradientVersions = v, !.model = m, !.updates = k] \in PSType
      BY <1>1, Zenon DEF PSType
    <3>3. ps' = [ps EXCEPT !.pc = "publish",
                           !.gradientVersions = [ps.gradientVersions EXCEPT ![w] = g.version],
                           !.model = ps.model \cup {<<w, g.n>>}, !.updates = ps.updates + 1]
      BY <2>1
    <3> QED
      BY <3>1, <3>2, <3>3, Zenon
  <2>6. Typed'
    BY <1>1, <2>5 DEF TrainInv, Typed
  <2>7. UsesCounted'
    <3> DEFINE M == ps.model
               x == <<w, g.n>>
    <3>1. IsFiniteSet(M) /\ ps.updates = Cardinality(M)
      BY DEF TrainInv, UsesCounted
    <3>2. x \notin M /\ ps'.model = M \cup {x}
      BY <2>3, <2>4
    <3> HIDE DEF M, x
    <3>3. IsFiniteSet(M \cup {x}) /\ Cardinality(M \cup {x}) = Cardinality(M) + 1
      BY <3>1, <3>2, FS_AddElement
    <3> QED
      BY <2>4, <3>1, <3>2, <3>3, Zenon DEF UsesCounted
  <2>8. Numbered'
    <3>1. \A v \in Workers, n \in Nat : <<v, n>> \in ps'.model => n < task[v].version
      BY <1>1, <2>4 DEF TrainInv, Numbered
    <3>2. \A v \in DOMAIN gradient : gradient[v].n < task[v].version
      BY Zenon DEF TrainInv, Numbered
    <3>3. \A v \in DOMAIN gradient :
             <<v, gradient[v].n>> \in ps'.model => ps'.gradientVersions[v] = gradient[v].version
      <4> SUFFICES ASSUME NEW v \in DOMAIN gradient, <<v, gradient[v].n>> \in ps'.model
                   PROVE  ps'.gradientVersions[v] = gradient[v].version
        OBVIOUS
      <4>1. ps.gradientVersions \in [Workers -> Nat] /\ v \in Workers
        BY <1>1 DEF PSType, TrainInv, Typed
      <4>2. CASE v = w
        BY <2>4, <4>1, <4>2
      <4>3. CASE v # w
        BY <2>4, <4>1, <4>3 DEF TrainInv, Numbered
      <4> QED
        BY <4>2, <4>3
    <3> QED
      BY <1>1, <3>1, <3>2, <3>3 DEF Numbered
  <2>9. \A v \in Workers : ReadSoFar(task[v])'
    BY <1>1 DEF TrainInv, ReadSoFar
  <2> QED
    BY <2>6, <2>7, <2>8, <2>9 DEF TrainInv
<1> QED
  BY <1>2, <1>3

\* Every step of the tasks keeps the invariant.
LEMMA TrainInvStep == TrainInv /\ [NextTraining]_trainingVars => TrainInv'
<1> SUFFICES ASSUME TrainInv, [NextTraining]_trainingVars PROVE TrainInv'
  OBVIOUS
<1>1. CASE LoadingTask
  BY <1>1, OtherStep DEF LoadingTask, PutSample, PutLabel
<1>2. ASSUME NEW w \in Workers, Work(w) PROVE TrainInv'
  BY <1>2, GetModelInv, PrefetchBatchInv, GetBatchInv, PutGradientInv DEF Work
<1>3. ASSUME NEW w \in Workers, Die(w) PROVE TrainInv'
  BY <1>3, DieInv
<1>4. CASE PublishFirst
  <2>1. /\ ps' \in PSType
        /\ ps'.model = ps.model
        /\ ps'.updates = ps.updates
        /\ ps'.gradientVersions = ps.gradientVersions
    BY <1>4 DEF PublishFirst, PSType, TrainInv, Typed
  <2> QED
    BY <1>4, <2>1, ServerMoves DEF PublishFirst
<1>5. CASE CheckGradient
  BY <1>5, CheckGradientInv
<1>6. CASE Publish
  <2>1. ps \in PSType /\ NextWorker(ps.worker) \in Workers
    BY NextWorkerType DEF TrainInv, Typed, PSType
  <2>2. /\ ps' \in PSType
        /\ ps'.model = ps.model
        /\ ps'.updates = ps.updates
        /\ ps'.gradientVersions = ps.gradientVersions
    BY <1>6, <2>1, Zenon DEF Publish, PSType
  <2> QED
    BY <1>6, <2>2, ServerMoves DEF Publish
<1>7. CASE ErrorTask
  BY <1>7, OtherStep DEF ErrorTask, ErrorGetModel, ErrorBatch, Report, storeVars
<1>8. CASE UNCHANGED trainingVars
  BY <1>8, OtherStep DEF trainingVars
<1> QED
  BY <1>1, <1>2, <1>3, <1>4, <1>5, <1>6, <1>7, <1>8 DEF NextTraining, PSTask

-----------------------------------------------------------------------------
(* The error task.  It stops at the first minibatch of which one of the    *)
(* two parts is missing; the labels are never ahead of the samples, so it  *)
(* stops no earlier than at the labels in the store, and those only grow.  *)

LoadSound ==
    /\ samples \in Nat /\ labels \in Nat
    /\ samples = IF loader = "labels" THEN labels + 1 ELSE labels

ErrorSound ==
    /\ error \in [pc : {"model", "batch", "report"}, took : BOOLEAN, i : Nat, since : Nat]
    /\ error.pc = "model" => ~error.took
    /\ error.pc = "batch" => error.since <= labels
    /\ LossCoversLoaded

\* Before the error task has read anything there is no loss.
LEMMA LossInit == InitTraining => LoadSound /\ ErrorSound
BY DEF InitTraining, LoadSound, ErrorSound, NoError, LossCoversLoaded

\* Every step of the tasks keeps the loss to what was loaded.
LEMMA LossStep == LoadSound /\ ErrorSound /\ [NextTraining]_trainingVars => (LoadSound /\ ErrorSound)'
<1> SUFFICES ASSUME LoadSound, ErrorSound, [NextTraining]_trainingVars
             PROVE  (LoadSound /\ ErrorSound)'
  OBVIOUS
<1> USE DEF LoadSound, ErrorSound, LossCoversLoaded
<1>1. CASE LoadingTask
  BY <1>1 DEF LoadingTask, PutSample, PutLabel
<1>2. CASE ErrorGetModel
  <2>1. CASE model = {}
    <3>1. error' = [error EXCEPT !.pc = "report"]
      BY <1>2, <2>1 DEF ErrorGetModel
    <3>2. ~error.took
      BY <1>2 DEF ErrorGetModel
    <3>3. error'.pc = "report" /\ ~error'.took
      BY <3>1, <3>2
    <3> QED
      BY <1>2, <3>1, <3>3 DEF ErrorGetModel, storeVars
  <2>2. CASE model # {}
    <3>1. error' = [error EXCEPT !.pc = "batch", !.took = TRUE, !.since = labels]
      BY <1>2, <2>2 DEF ErrorGetModel
    <3>2. /\ error' \in [pc : {"model", "batch", "report"}, took : BOOLEAN, i : Nat, since : Nat]
          /\ error'.pc = "batch" /\ error'.since = labels
      BY <3>1, Zenon
    <3> QED
      BY <1>2, <3>2 DEF ErrorGetModel, storeVars
  <2> QED
    BY <2>1, <2>2
<1>3. CASE ErrorBatch
  BY <1>3 DEF ErrorBatch, AtEnd, InStore, NoError, storeVars
<1>4. CASE Report
  BY <1>4 DEF Report, NoError, storeVars
<1>5. CASE (\E w \in Workers : Work(w) \/ Die(w)) \/ PSTask \/ UNCHANGED trainingVars
  <2>1. UNCHANGED <<samples, labels, loader, error>>
    BY <1>5, Zenon DEF Work, Die, GetModel, PrefetchBatch, GetBatch, PutGradient, PSTask,
                PublishFirst, CheckGradient, Publish, storeVars, trainingVars
  <2> QED
    BY <2>1
<1> QED
  BY <1>1, <1>2, <1>3, <1>4, <1>5 DEF NextTraining, ErrorTask

-----------------------------------------------------------------------------
(* Theorems.                                                               *)

\* PSTask's loop compares 32-bit versions of whatever gradient each worker's
\* object holds at the moment, while workers put new ones, die, or never put
\* any: it folds no gradient into the model twice, for every number of workers
\* and every width of the version, wrapped around or not.
THEOREM GradientsAppliedOnce == TrainingSpec => []AppliedOnce
<1>1. TrainInv => AppliedOnce
  BY DEF TrainInv, UsesCounted, AppliedOnce
<1> QED
  BY <1>1, TrainInvInit, TrainInvStep, PTL DEF TrainingSpec

\* LogisticTask's two iterators stay in step: whichever of the two reads finds
\* nothing, however often, and wherever the range wraps around, a gradient is
\* made of the samples and the labels of one minibatch.
THEOREM SamplesMatchLabels == TrainingSpec => []BatchesMatch
<1>1. TrainInv => BatchesMatch
  BY DEF TrainInv, ReadSoFar, BatchesMatch
<1> QED
  BY <1>1, TrainInvInit, TrainInvStep, PTL DEF TrainingSpec

\* ErrorTask reads minibatches until one is missing while LoadingTask is still
\* putting them: the loss it prints for a model covers at least one minibatch
\* and all that were in the store when it took the model.
THEOREM LossIsOfLoaded == TrainingSpec => []LossCoversLoaded
<1>1. ErrorSound => LossCoversLoaded
  BY DEF ErrorSound
<1> QED
  BY <1>1, LossInit, LossStep, PTL DEF TrainingSpec

-----------------------------------------------------------------------------
(* PageRank.                                                               *)

\* The hypothesis: the number of vertices is an unsigned int and edges lead to
\* vertices.
RankFilesFit ==
    \A file \in Files("page_rank") :
        \E n \in 0 .. UIntSpace : file \in [0 .. n - 1 -> SUBSET (0 .. n - 1)]

\* What readGraph gives.
IsGraph(vs, n) ==
    /\ n \in Nat /\ DOMAIN vs = 0 .. n - 1
    /\ \A v \in 0 .. n - 1 : vs[v] = Vertex(vs[v].neighbors) /\ vs[v].neighbors \subseteq 0 .. n - 1

IsCM(c) == c = [cache |-> c.cache, order |-> c.order, ids |-> c.ids, store |-> c.store]

IsEntry(e) == e = [cached |-> e.cached, obj |-> e.obj, future |-> e.future] /\ e.cached \in BOOLEAN

Fetch(c, oid) == IF oid \in DOMAIN c.store THEN <<page_rank_deserializer(c.store[oid])>> ELSE <<>>

\* Every copy in the cache is the stored one, and so is the answer to every
\* prefetch that has not been got.
Coherent(c) ==
    \A o \in DOMAIN c.cache :
        /\ IsEntry(c.cache[o])
        /\ c.cache[o].cached => <<c.cache[o].obj>> = Fetch(c, o)
        /\ ~c.cache[o].cached => c.cache[o].future = Fetch(c, o)

\* AddedTo, of a phase p, a counter x and the neighbours t still to handle.
Added(vs, p, x, t, v) ==
    {u \in DOMAIN vs :
        /\ v \in vs[u].neighbors
        /\ \/ p = "update" /\ v >= x
           \/ p = "spread" /\ u < x - 1
           \/ p = "spread" /\ u = x - 1 /\ v \notin t}

\* What is stored for v in round k.
RankOf(d, nbs, A, k, r) ==
    /\ d = [neighbors |-> d.neighbors, p_curr |-> d.p_curr, p_next |-> d.p_next]
    /\ d.neighbors = nbs
    /\ d.p_curr = r
    /\ d.p_next \in Seq(Int \X Int)
    /\ Range(d.p_next) = A \X {k}
    /\ Len(d.p_next) = Cardinality(A)

Ranked(vs, st, p, x, t, k) ==
    \A v \in DOMAIN vs :
        RankOf(st[v], vs[v].neighbors, Added(vs, p, x, t, v), k, IF p = "update" /\ v < x THEN k + 1 ELSE k)

RankLoad(n) ==
    /\ i \in 0 .. n /\ it = 0 /\ todo = {}
    /\ DOMAIN cm.store = 0 .. i - 1 /\ DOMAIN cm.cache \subseteq 0 .. i - 1
    /\ \A v \in 0 .. i - 1 : cm.store[v] = page_rank_serialize(vertices[v])

RankRound(n) ==
    /\ i \in Nat /\ it \in Nat /\ DOMAIN cm.store = 0 .. n - 1
    /\ Ranked(vertices, cm.store, pc, i, todo, it)
    /\ pc = "spread" => /\ i <= n
                        /\ todo # {} => i > 0 /\ todo \subseteq vertices[i - 1].neighbors /\ curr.p_curr = it
    /\ pc # "spread" => todo = {}
    /\ pc = "update" => n > 0 /\ i <= n

RankState(n) ==
    /\ num_vertices = n /\ IsGraph(vertices, n)
    /\ IsCM(cm) /\ Coherent(cm)
    /\ pc = "load" => RankLoad(n)
    /\ pc \in {"spread", "update", "print", "done"} => RankRound(n)

RankPC == {"load", "spread", "update", "print", "done", "threw", "crashed"}

RankInv ==
    program = "page_rank" => pc \in RankPC /\ \E n \in 0 .. UIntSpace : RankState(n)

\* The parts of a deserialized vertex.
LEMMA RankParts ==
    ASSUME NEW d
    PROVE  page_rank_deserializer(d) =
              [neighbors |-> d.neighbors, seen |-> FALSE, p_curr |-> d.p_curr, p_next |-> d.p_next]
  <1>1. PICK w : w = Vertex(d.neighbors)
    BY Zenon
  <1>2. PICK r : r = [w EXCEPT !.p_curr = d.p_curr, !.p_next = d.p_next]
    BY Zenon
  <1>3. page_rank_deserializer(d) = r
    BY <1>1, <1>2, Zenon DEF page_rank_deserializer
  <1>4. w = [neighbors |-> d.neighbors, seen |-> FALSE, p_curr |-> 0, p_next |-> <<>>]
    BY <1>1, Zenon DEF Vertex
  <1>5. r.neighbors = d.neighbors /\ r.seen = FALSE /\ r.p_curr = d.p_curr /\ r.p_next = d.p_next
    BY <1>2, <1>4, Zenon
  <1>6. r = [neighbors |-> r.neighbors, seen |-> r.seen, p_curr |-> r.p_curr, p_next |-> r.p_next]
    BY <1>2, <1>4, Zenon
  <1> QED BY <1>3, <1>5, <1>6, Zenon

\* A vertex comes back from page_rank's format as it was stored.
LEMMA RankFormat ==
    ASSUME NEW v, v = [neighbors |-> v.neighbors, seen |-> FALSE, p_curr |-> v.p_curr, p_next |-> v.p_next]
    PROVE  page_rank_deserializer(page_rank_serialize(v)) = v
  <1>1. PICK d : d = page_rank_serialize(v)
    BY Zenon
  <1>2. d.neighbors = v.neighbors /\ d.p_curr = v.p_curr /\ d.p_next = v.p_next
    BY <1>1, Zenon DEF page_rank_serialize
  <1> QED BY <1>1, <1>2, RankParts, Zenon

\* The policy only drops entries.
LEMMA AdmitDrops ==
    ASSUME NEW c, IsCM(c), NEW oid, NEW a, a = Admit(c, oid)
    PROVE  /\ IsCM(a) /\ a.store = c.store /\ DOMAIN a.cache \subseteq DOMAIN c.cache
           /\ \A o \in DOMAIN a.cache : a.cache[o] = c.cache[o]
  <1> DEFINE p == LRAdded_process_oid(c.order, c.ids, oid)
  <1>1. a = [c EXCEPT !.order = p.order, !.ids = p.ids,
                      !.cache = [o \in DOMAIN @ \ p.evicted |-> @[o]]]
    BY Zenon DEF Admit
  <1> HIDE DEF p
  <1>2. /\ a.order = p.order /\ a.ids = p.ids /\ a.store = c.store
        /\ a.cache = [o \in DOMAIN c.cache \ p.evicted |-> c.cache[o]]
        /\ a = [cache |-> a.cache, order |-> a.order, ids |-> a.ids, store |-> a.store]
    BY <1>1, Zenon DEF IsCM
  <1> QED BY <1>2, Zenon DEF IsCM

\* An eviction keeps the copies coherent.
LEMMA AdmitCoherent ==
    ASSUME NEW c, IsCM(c), Coherent(c), NEW oid, NEW a, a = Admit(c, oid)
    PROVE  /\ IsCM(a) /\ a.store = c.store /\ Coherent(a)
           /\ DOMAIN a.cache \subseteq DOMAIN c.cache
           /\ \A o : Fetch(a, o) = Fetch(c, o)
  <1>1. /\ IsCM(a) /\ a.store = c.store /\ DOMAIN a.cache \subseteq DOMAIN c.cache
        /\ \A o \in DOMAIN a.cache : a.cache[o] = c.cache[o]
    BY AdmitDrops
  <1>2. \A o : Fetch(a, o) = Fetch(c, o)
    BY <1>1, Zenon DEF Fetch
  <1>3. Coherent(a)
    BY <1>1, <1>2, Zenon DEF Coherent
  <1> QED BY <1>1, <1>2, <1>3, Zenon

\* Whatever is cached, evicted or prefetched, get finds what is stored.
LEMMA FindsStored ==
    ASSUME program = "page_rank", NEW c, IsCM(c), Coherent(c), NEW oid
    PROVE  Found(Admit(c, oid), oid) = Fetch(c, oid)
  <1>1. PICK a : a = Admit(c, oid)
    BY Zenon
  <1>2. Coherent(a) /\ Fetch(a, oid) = Fetch(c, oid)
    BY <1>1, AdmitCoherent, ZenonT(30)
  <1>3. Read(a, oid) = Fetch(a, oid)
    BY Zenon DEF Read, Fetch, deserializer
  <1>4. Found(a, oid) = Fetch(a, oid)
    BY <1>2, <1>3, Zenon DEF Found, Coherent
  <1> QED BY <1>1, <1>2, <1>4, Zenon

\* get of a stored id.
LEMMA GetStored ==
    ASSUME program = "page_rank", NEW c, IsCM(c), Coherent(c), NEW oid, oid \in DOMAIN c.store,
           NEW g, g = get(c, oid)
    PROVE  /\ g.obj = page_rank_deserializer(c.store[oid])
           /\ IsCM(g.cm) /\ g.cm.store = c.store /\ Coherent(g.cm)
           /\ oid \in DOMAIN g.cm.cache /\ g.cm.cache[oid].cached
           /\ DOMAIN g.cm.cache \subseteq DOMAIN c.cache \cup {oid}
  <1>1. PICK a : a = Admit(c, oid)
    BY Zenon
  <1>2. /\ IsCM(a) /\ a.store = c.store /\ Coherent(a) /\ DOMAIN a.cache \subseteq DOMAIN c.cache
        /\ \A o : Fetch(a, o) = Fetch(c, o)
    BY <1>1, AdmitCoherent, Zenon
  <1>3. PICK v : v = page_rank_deserializer(c.store[oid])
    BY Zenon
  <1>4. Found(a, oid) = <<v>> /\ Fetch(c, oid) = <<v>>
    BY <1>1, <1>3, FindsStored, Zenon DEF Fetch
  <1>5. g = [cm |-> [a EXCEPT !.cache = Bind(@, oid, Cached(v))], obj |-> v]
    BY <1>1, <1>4 DEF get
  <1> DEFINE b == Bind(a.cache, oid, Cached(v))
  <1>6. /\ DOMAIN b = DOMAIN a.cache \cup {oid} /\ b[oid] = Cached(v)
        /\ \A o \in DOMAIN b : o # oid => o \in DOMAIN a.cache /\ b[o] = a.cache[o]
    BY Zenon DEF Bind
  <1> HIDE DEF b
  <1>7. g.obj = v /\ IsCM(g.cm) /\ g.cm.store = a.store /\ g.cm.cache = b
    BY <1>2, <1>5 DEF IsCM, b
  <1>8. \A o : Fetch(g.cm, o) = Fetch(c, o)
    BY <1>2, <1>7, Zenon DEF Fetch
  <1>9. b[oid].cached = TRUE /\ b[oid].obj = v /\ IsEntry(b[oid])
    BY <1>6 DEF Cached, IsEntry
  <1>10. Coherent(g.cm)
    BY <1>2, <1>4, <1>6, <1>7, <1>8, <1>9 DEF Coherent
  <1> QED BY <1>2, <1>3, <1>6, <1>7, <1>9, <1>10, Zenon

\* put of an id whose entry, if there is one, has been got.
LEMMA PutStores ==
    ASSUME program = "page_rank", NEW c, IsCM(c), Coherent(c), NEW oid,
           oid \in DOMAIN c.cache => c.cache[oid].cached,
           NEW v, v = [neighbors |-> v.neighbors, seen |-> FALSE, p_curr |-> v.p_curr, p_next |-> v.p_next],
           NEW q, q = put(c, oid, v)
    PROVE  /\ IsCM(q) /\ q.store = Bind(c.store, oid, page_rank_serialize(v)) /\ Coherent(q)
           /\ DOMAIN q.cache \subseteq DOMAIN c.cache \cup {oid}
  <1>1. PICK a : a = Admit(c, oid)
    BY Zenon
  <1>2. /\ IsCM(a) /\ a.store = c.store /\ Coherent(a) /\ DOMAIN a.cache \subseteq DOMAIN c.cache
        /\ \A o \in DOMAIN a.cache : a.cache[o] = c.cache[o]
    BY <1>1, AdmitCoherent, AdmitDrops
  <1>3. PICK e : e = IF oid \in DOMAIN a.cache THEN [a.cache[oid] EXCEPT !.obj = v] ELSE Cached(v)
    BY Zenon
  <1>4. q = [a EXCEPT !.cache = Bind(@, oid, e), !.store = Bind(@, oid, page_rank_serialize(v))]
    BY <1>1, <1>3, Zenon DEF put, serialize
  <1> DEFINE b == Bind(a.cache, oid, e)
             s == Bind(a.store, oid, page_rank_serialize(v))
  <1>5. /\ DOMAIN b = DOMAIN a.cache \cup {oid} /\ b[oid] = e
        /\ \A o \in DOMAIN b : o # oid => o \in DOMAIN a.cache /\ b[o] = a.cache[o]
    BY Zenon DEF Bind
  <1>6. /\ DOMAIN s = DOMAIN a.store \cup {oid} /\ s[oid] = page_rank_serialize(v)
        /\ \A o \in DOMAIN s : o # oid => s[o] = a.store[o]
    BY Zenon DEF Bind
  <1> HIDE DEF b, s
  <1>7. IsCM(q) /\ q.store = s /\ q.cache = b
    BY <1>2, <1>4, Zenon DEF IsCM, b, s
  <1>8. e.cached = TRUE /\ e.obj = v /\ IsEntry(e)
    <2>1. CASE oid \in DOMAIN a.cache
      <3>1. IsEntry(a.cache[oid]) /\ a.cache[oid].cached
        BY <1>2, <2>1, Zenon DEF Coherent
      <3> QED BY <1>3, <2>1, <3>1, Zenon DEF IsEntry
    <2>2. CASE oid \notin DOMAIN a.cache
      BY <1>3, <2>2, Zenon DEF Cached, IsEntry
    <2> QED BY <2>1, <2>2, Zenon
  <1>9. Fetch(q, oid) = <<v>> /\ \A o : o # oid => Fetch(q, o) = Fetch(a, o)
    BY <1>6, <1>7, RankFormat, Zenon DEF Fetch
  <1>10. Coherent(q)
    BY <1>2, <1>5, <1>7, <1>8, <1>9 DEF Coherent
  <1> QED BY <1>2, <1>5, <1>7, <1>10, Zenon DEF s

\* A prefetch reads what is stored.
LEMMA PrefetchReads ==
    ASSUME program = "page_rank", NEW c, IsCM(c), Coherent(c), NEW oid, NEW q, q = prefetch(c, oid)
    PROVE  IsCM(q) /\ q.store = c.store /\ Coherent(q)
  <1>1. PICK a : a = Admit(c, oid)
    BY Zenon
  <1>2. /\ IsCM(a) /\ a.store = c.store /\ Coherent(a)
        /\ \A o : Fetch(a, o) = Fetch(c, o)
    BY <1>1, AdmitCoherent, Zenon
  <1>3. CASE oid \in DOMAIN a.cache
    BY <1>1, <1>2, <1>3, Zenon DEF prefetch
  <1>4. CASE oid \notin DOMAIN a.cache
    <2>1. PICK e : e = [cached |-> FALSE, obj |-> Vertex({}), future |-> Read(a, oid)]
      BY Zenon
    <2>2. q = [a EXCEPT !.cache = Bind(@, oid, e)]
      BY <1>1, <1>4, <2>1, Zenon DEF prefetch
    <2> DEFINE b == Bind(a.cache, oid, e)
    <2>3. /\ DOMAIN b = DOMAIN a.cache \cup {oid} /\ b[oid] = e
          /\ \A o \in DOMAIN b : o # oid => o \in DOMAIN a.cache /\ b[o] = a.cache[o]
      BY Zenon DEF Bind
    <2> HIDE DEF b
    <2>4. IsCM(q) /\ q.store = a.store /\ q.cache = b
      BY <1>2, <2>2, Zenon DEF IsCM, b
    <2>5. \A o : Fetch(q, o) = Fetch(a, o)
      BY <2>4, Zenon DEF Fetch
    <2>6. Read(a, oid) = Fetch(a, oid)
      BY Zenon DEF Read, Fetch, deserializer
    <2>7. e.cached = FALSE /\ e.future = Fetch(a, oid) /\ IsEntry(e)
      BY <2>1, <2>6, Zenon DEF IsEntry
    <2>8. Coherent(q)
      BY <1>2, <2>3, <2>4, <2>5, <2>7, Zenon DEF Coherent
    <2> QED BY <1>2, <2>4, <2>8, Zenon
  <1> QED BY <1>3, <1>4, Zenon

-----------------------------------------------------------------------------
(* The rounds, on what is stored.                                          *)

\* A share is added to the probability of a vertex.
LEMMA ShareAdded ==
    ASSUME NEW d, NEW nbs, NEW A, NEW k \in Int, NEW r, RankOf(d, nbs, A, k, r), IsFiniteSet(A),
           NEW u \in Int, u \notin A, NEW w, w = Plus(page_rank_deserializer(d), u, k)
    PROVE  /\ w = [neighbors |-> w.neighbors, seen |-> FALSE, p_curr |-> w.p_curr, p_next |-> w.p_next]
           /\ RankOf(page_rank_serialize(w), nbs, A \cup {u}, k, r)
  <1> DEFINE e == <<u, k>>
             s == d.p_next
             t == Append(s, e)
             P == Int \X Int
  <1>1. PICK v : v = page_rank_deserializer(d)
    BY Zenon
  <1>2. v = [neighbors |-> d.neighbors, seen |-> FALSE, p_curr |-> d.p_curr, p_next |-> s]
    BY <1>1, RankParts, Zenon
  <1>3. w = [v EXCEPT !.p_next = t]
    BY <1>1, <1>2 DEF Plus
  <1>4. s \in Seq(P) /\ e \in P
    BY Zenon DEF RankOf
  <1> HIDE DEF P, e, s
  <1>5. t \in Seq(P) /\ Len(t) = Len(s) + 1 /\ DOMAIN t = 1 .. Len(s) + 1 /\ DOMAIN s = 1 .. Len(s)
        /\ Len(s) \in Nat /\ (\A j \in 1 .. Len(s) : t[j] = s[j]) /\ t[Len(s) + 1] = e
    BY <1>4
  <1>6. Range(t) = Range(s) \cup {e}
    <2> DEFINE n == Len(s)
    <2> HIDE DEF t, n
    <2>1. \A j \in 1 .. n + 1 : j \in 1 .. n \/ j = n + 1
      BY <1>5 DEF n
    <2>2. 1 .. n \subseteq 1 .. n + 1 /\ n + 1 \in 1 .. n + 1
      BY <1>5 DEF n
    <2> QED BY <1>5, <2>1, <2>2, Zenon DEF Range, n
  <1> HIDE DEF t
  <1>7. w.neighbors = d.neighbors /\ w.seen = FALSE /\ w.p_curr = d.p_curr /\ w.p_next = t
        /\ w = [neighbors |-> w.neighbors, seen |-> w.seen, p_curr |-> w.p_curr, p_next |-> w.p_next]
    BY <1>2, <1>3, Zenon
  <1>8. Range(t) = (A \cup {u}) \X {k}
    <2>1. Range(s) = A \X {k}
      BY Zenon DEF RankOf, s
    <2>2. (A \cup {u}) \X {k} = (A \X {k}) \cup {<<u, k>>}
      OBVIOUS
    <2> QED BY <1>6, <2>1, <2>2, Zenon DEF e
  <1>9. Len(t) = Cardinality(A \cup {u})
    <2>1. Len(s) = Cardinality(A)
      BY Zenon DEF RankOf, s
    <2>2. Cardinality(A \cup {u}) = Cardinality(A) + 1
      BY FS_AddElement, Zenon
    <2> QED BY <1>5, <2>1, <2>2, Zenon
  <1>10. PICK f : f = page_rank_serialize(w)
    BY Zenon
  <1>11. /\ f = [neighbors |-> f.neighbors, p_curr |-> f.p_curr, p_next |-> f.p_next]
         /\ f.neighbors = d.neighbors /\ f.p_curr = d.p_curr /\ f.p_next = t
    BY <1>7, <1>10, Zenon DEF page_rank_serialize
  <1>12. d.neighbors = nbs /\ d.p_curr = r
    BY Zenon DEF RankOf
  <1>13. RankOf(f, nbs, A \cup {u}, k, r)
    BY <1>5, <1>8, <1>9, <1>11, <1>12, Zenon DEF RankOf, P
  <1> QED BY <1>7, <1>10, <1>13, Zenon

\* A vertex starts its next round.
LEMMA RoundStarts ==
    ASSUME NEW d, NEW nbs, NEW A, NEW k, NEW r \in Int, RankOf(d, nbs, A, k, r),
           NEW w, w = NextRound(page_rank_deserializer(d))
    PROVE  /\ w = [neighbors |-> w.neighbors, seen |-> FALSE, p_curr |-> w.p_curr, p_next |-> w.p_next]
           /\ RankOf(page_rank_serialize(w), nbs, {}, k, r + 1)
  <1>1. PICK v : v = page_rank_deserializer(d)
    BY Zenon
  <1>2. v = [neighbors |-> d.neighbors, seen |-> FALSE, p_curr |-> d.p_curr, p_next |-> d.p_next]
    BY <1>1, RankParts, Zenon
  <1>3. d.neighbors = nbs /\ d.p_curr = r
    BY Zenon DEF RankOf
  <1>4. w = [v EXCEPT !.p_curr = r + 1, !.p_next = <<>>]
    BY <1>1, <1>2, <1>3 DEF NextRound
  <1>5. w.neighbors = nbs /\ w.seen = FALSE /\ w.p_curr = r + 1 /\ w.p_next = <<>>
        /\ w = [neighbors |-> w.neighbors, seen |-> w.seen, p_curr |-> w.p_curr, p_next |-> w.p_next]
    BY <1>2, <1>3, <1>4, Zenon
  <1>6. PICK f : f = page_rank_serialize(w)
    BY Zenon
  <1>7. /\ f = [neighbors |-> f.neighbors, p_curr |-> f.p_curr, p_next |-> f.p_next]
        /\ f.neighbors = nbs /\ f.p_curr = r + 1 /\ f.p_next = <<>>
    BY <1>5, <1>6, Zenon DEF page_rank_serialize
  <1>8. f.p_next \in Seq(Int \X Int) /\ Len(f.p_next) = 0 /\ Range(f.p_next) = {}
    BY <1>7 DEF Range
  <1>9. Cardinality({}) = 0 /\ {} \X {k} = {}
    BY FS_EmptySet, Zenon
  <1>10. RankOf(f, nbs, {}, k, r + 1)
    BY <1>7, <1>8, <1>9, Zenon DEF RankOf
  <1> QED BY <1>5, <1>6, <1>10, Zenon

\* The vertices that have added a share are finitely many.
LEMMA AddedFinite ==
    ASSUME NEW vs, NEW n, IsGraph(vs, n), NEW p, NEW x, NEW t, NEW v
    PROVE  IsFiniteSet(Added(vs, p, x, t, v))
  <1>1. IsFiniteSet(0 .. n - 1)
    <2>1. 0 \in Int /\ n - 1 \in Int
      BY DEF IsGraph
    <2> QED BY <2>1, FS_Interval, Zenon
  <1>2. Added(vs, p, x, t, v) \subseteq 0 .. n - 1
    BY Zenon DEF Added, IsGraph
  <1> QED BY <1>1, <1>2, FS_Subset, Zenon

\* Only the sets of vertices that have added a share count.
LEMMA RankedAlike ==
    ASSUME NEW vs, NEW st, NEW p, NEW x, NEW t, NEW k, Ranked(vs, st, p, x, t, k),
           NEW q, NEW y, NEW w, NEW l,
           \A v \in DOMAIN vs : Added(vs, q, y, w, v) = Added(vs, p, x, t, v) /\ (l # k => Added(vs, p, x, t, v) = {}),
           \A v \in DOMAIN vs : (IF q = "update" /\ v < y THEN l + 1 ELSE l)
                                = (IF p = "update" /\ v < x THEN k + 1 ELSE k)
    PROVE  Ranked(vs, st, q, y, w, l)
  <1> SUFFICES ASSUME NEW v \in DOMAIN vs
               PROVE  RankOf(st[v], vs[v].neighbors, Added(vs, q, y, w, v), l,
                             IF q = "update" /\ v < y THEN l + 1 ELSE l)
    BY Zenon DEF Ranked
  <1> DEFINE A == Added(vs, p, x, t, v)
             r == IF p = "update" /\ v < x THEN k + 1 ELSE k
  <1>1. RankOf(st[v], vs[v].neighbors, A, k, r)
    BY Zenon DEF Ranked
  <1>2. Added(vs, q, y, w, v) = A /\ (IF q = "update" /\ v < y THEN l + 1 ELSE l) = r
    BY Zenon
  <1>3. A \X {l} = A \X {k}
    <2>1. l # k => A = {}
      BY Zenon
    <2> HIDE DEF A
    <2> QED BY <2>1, Zenon
  <1> HIDE DEF A, r
  <1>4. RankOf(st[v], vs[v].neighbors, A, l, r)
    BY <1>1, <1>3, Zenon DEF RankOf
  <1> QED BY <1>2, <1>4, Zenon

\* The first round begins: nothing has been added.
LEMMA RankedStart ==
    ASSUME NEW vs, NEW n, IsGraph(vs, n), NEW st, NEW p, p \in {"spread", "print"},
           \A v \in 0 .. n - 1 : st[v] = page_rank_serialize(vs[v])
    PROVE  Ranked(vs, st, p, 0, {}, 0)
  <1> SUFFICES ASSUME NEW v \in DOMAIN vs
               PROVE  RankOf(st[v], vs[v].neighbors, Added(vs, p, 0, {}, v), 0, 0)
    BY Zenon DEF Ranked
  <1>1. v \in 0 .. n - 1 /\ vs[v] = Vertex(vs[v].neighbors)
    BY Zenon DEF IsGraph
  <1>2. PICK d : d = st[v]
    BY Zenon
  <1>3. /\ d = [neighbors |-> d.neighbors, p_curr |-> d.p_curr, p_next |-> d.p_next]
        /\ d.neighbors = vs[v].neighbors /\ d.p_curr = 0 /\ d.p_next = <<>>
    <2>1. d = page_rank_serialize(vs[v])
      BY <1>1, <1>2, Zenon
    <2>2. PICK w : w = vs[v]
      BY Zenon
    <2>3. w = [neighbors |-> w.neighbors, seen |-> FALSE, p_curr |-> 0, p_next |-> <<>>]
      BY <1>1, <2>2, Zenon DEF Vertex
    <2>4. d = [neighbors |-> w.neighbors, p_curr |-> w.p_curr, p_next |-> w.p_next]
      BY <2>1, <2>2, Zenon DEF page_rank_serialize
    <2> QED BY <2>2, <2>3, <2>4
  <1>4. Added(vs, p, 0, {}, v) = {}
    BY DEF Added, IsGraph
  <1>5. d.p_next \in Seq(Int \X Int) /\ Len(d.p_next) = 0 /\ Range(d.p_next) = {}
    BY <1>3 DEF Range
  <1>6. Cardinality({}) = 0 /\ {} \X {0} = {}
    BY FS_EmptySet, Zenon
  <1> QED BY <1>2, <1>3, <1>4, <1>5, <1>6, Zenon DEF RankOf

\* The loop takes its next element.
LEMMA RankedElement ==
    ASSUME NEW vs, NEW n, IsGraph(vs, n), NEW st, NEW x \in Nat, NEW k, Ranked(vs, st, "spread", x, {}, k),
           x < n
    PROVE  Ranked(vs, st, "spread", x + 1, vs[x].neighbors, k)
  <1>1. ASSUME NEW v \in DOMAIN vs
        PROVE  Added(vs, "spread", x + 1, vs[x].neighbors, v) = Added(vs, "spread", x, {}, v)
    <2>1. \A u \in DOMAIN vs : u \in Int
      BY DEF IsGraph
    <2>2. \A u \in DOMAIN vs : u < x + 1 - 1 <=> (u < x - 1 \/ u = x - 1)
      BY <2>1
    <2>3. x + 1 - 1 = x
      OBVIOUS
    <2> QED BY <2>2, <2>3 DEF Added
  <1> QED BY <1>1, RankedAlike

\* x - 1 adds its share, w is what m becomes.
Sharing(vs, n, st, x, t, k, m, w) ==
    /\ IsGraph(vs, n) /\ x \in Nat /\ k \in Nat /\ Ranked(vs, st, "spread", x, t, k) /\ 0 < x /\ x <= n
    /\ m \in t /\ t \subseteq vs[x - 1].neighbors /\ DOMAIN st = 0 .. n - 1
    /\ w = Plus(page_rank_deserializer(st[m]), x - 1, k)

\* A share goes to one neighbour.
LEMMA RankedShare ==
    ASSUME NEW vs, NEW n, NEW st, NEW x, NEW t, NEW k, NEW m, NEW w, Sharing(vs, n, st, x, t, k, m, w)
    PROVE  /\ w = [neighbors |-> w.neighbors, seen |-> FALSE, p_curr |-> w.p_curr, p_next |-> w.p_next]
           /\ Ranked(vs, Bind(st, m, page_rank_serialize(w)), "spread", x, t \ {m}, k)
           /\ m \in 0 .. n - 1
  <1> USE DEF Sharing
  <1>1. x - 1 \in 0 .. n - 1 /\ DOMAIN vs = 0 .. n - 1
    BY DEF IsGraph
  <1>2. m \in 0 .. n - 1 /\ m \in vs[x - 1].neighbors
    BY <1>1, Zenon DEF IsGraph
  <1> DEFINE A(v) == Added(vs, "spread", x, t, v)
             B(v) == Added(vs, "spread", x, t \ {m}, v)
             s == Bind(st, m, page_rank_serialize(w))
  <1>3. \A v \in DOMAIN vs : RankOf(st[v], vs[v].neighbors, A(v), k, k)
    BY Zenon DEF Ranked
  <1>4. IsFiniteSet(A(m))
    BY AddedFinite, Zenon
  <1>5. \A u \in DOMAIN vs : u \in Int
    BY <1>1
  <1>6. x - 1 \notin A(m) /\ B(m) = A(m) \cup {x - 1}
    BY <1>1, <1>2, <1>5 DEF Added
  <1>7. \A v \in DOMAIN vs : v # m => B(v) = A(v)
    BY Zenon DEF Added
  <1> HIDE DEF A, B
  <1>8. /\ w = [neighbors |-> w.neighbors, seen |-> FALSE, p_curr |-> w.p_curr, p_next |-> w.p_next]
        /\ RankOf(page_rank_serialize(w), vs[m].neighbors, B(m), k, k)
    <2>1. RankOf(st[m], vs[m].neighbors, A(m), k, k) /\ k \in Int /\ x - 1 \in Int
      BY <1>1, <1>2, <1>3
    <2>2. PICK d, S, u : d = st[m] /\ S = A(m) /\ u = x - 1
      BY Zenon
    <2>3. RankOf(d, vs[m].neighbors, S, k, k) /\ IsFiniteSet(S) /\ u \in Int /\ u \notin S
      BY <1>4, <1>6, <2>1, <2>2, Zenon
    <2>4. w = Plus(page_rank_deserializer(d), u, k)
      BY <2>2, Zenon
    <2>5. /\ w = [neighbors |-> w.neighbors, seen |-> FALSE, p_curr |-> w.p_curr, p_next |-> w.p_next]
          /\ RankOf(page_rank_serialize(w), vs[m].neighbors, S \cup {u}, k, k)
      BY <2>1, <2>3, <2>4, ShareAdded, Zenon
    <2> QED BY <1>6, <2>2, <2>5, Zenon
  <1>9. s[m] = page_rank_serialize(w) /\ \A v \in DOMAIN vs : v # m => s[v] = st[v]
    BY <1>1, Zenon DEF Bind
  <1> HIDE DEF s
  <1>10. \A v \in DOMAIN vs : RankOf(s[v], vs[v].neighbors, B(v), k, k)
    BY <1>3, <1>7, <1>8, <1>9, Zenon
  <1>11. Ranked(vs, s, "spread", x, t \ {m}, k)
    BY <1>10, Zenon DEF Ranked, B
  <1> QED BY <1>2, <1>8, <1>11, Zenon DEF s

\* All shares have been added.
LEMMA RankedSpread ==
    ASSUME NEW vs, NEW n, IsGraph(vs, n), NEW st, NEW k, Ranked(vs, st, "spread", n, {}, k)
    PROVE  Ranked(vs, st, "update", 0, {}, k)
  <1>1. ASSUME NEW v \in DOMAIN vs
        PROVE  Added(vs, "update", 0, {}, v) = Added(vs, "spread", n, {}, v) /\ ~(v < 0)
    <2>1. v \in Int /\ v >= 0 /\ \A u \in DOMAIN vs : u < n - 1 \/ u = n - 1
      BY DEF IsGraph
    <2> QED BY <2>1 DEF Added
  <1> QED BY <1>1, RankedAlike

\* x goes on to the next round, w is what it becomes.
Updating(vs, n, st, x, k, w) ==
    /\ IsGraph(vs, n) /\ x \in Nat /\ x < n /\ k \in Nat /\ Ranked(vs, st, "update", x, {}, k)
    /\ DOMAIN st = 0 .. n - 1
    /\ w = NextRound(page_rank_deserializer(st[x]))

\* A vertex goes on to the next round.
LEMMA RankedUpdate ==
    ASSUME NEW vs, NEW n, NEW st, NEW x, NEW k, NEW w, Updating(vs, n, st, x, k, w)
    PROVE  /\ w = [neighbors |-> w.neighbors, seen |-> FALSE, p_curr |-> w.p_curr, p_next |-> w.p_next]
           /\ Ranked(vs, Bind(st, x, page_rank_serialize(w)), "update", x + 1, {}, k)
  <1> USE DEF Updating
  <1>1. n \in Nat /\ DOMAIN vs = 0 .. n - 1
    BY Zenon DEF IsGraph
  <1>2. x \in DOMAIN vs /\ x \in DOMAIN st
    BY <1>1
  <1> DEFINE A(v) == Added(vs, "update", x, {}, v)
             B(v) == Added(vs, "update", x + 1, {}, v)
             R(v) == IF v < x THEN k + 1 ELSE k
             Q(v) == IF v < x + 1 THEN k + 1 ELSE k
             s == Bind(st, x, page_rank_serialize(w))
  <1>3. \A v \in DOMAIN vs : RankOf(st[v], vs[v].neighbors, A(v), k, R(v))
    BY Zenon DEF Ranked
  <1>4. B(x) = {} /\ \A v \in DOMAIN vs : v # x => B(v) = A(v)
    BY <1>1 DEF Added
  <1>5. R(x) = k /\ Q(x) = k + 1 /\ k \in Int /\ \A v \in DOMAIN vs : v # x => R(v) = Q(v)
    BY <1>1
  <1> HIDE DEF A, B, R, Q
  <1>6. /\ w = [neighbors |-> w.neighbors, seen |-> FALSE, p_curr |-> w.p_curr, p_next |-> w.p_next]
        /\ RankOf(page_rank_serialize(w), vs[x].neighbors, B(x), k, Q(x))
    <2>1. RankOf(st[x], vs[x].neighbors, A(x), k, k)
      BY <1>2, <1>3, <1>5, Zenon
    <2>2. PICK d : d = st[x]
      BY Zenon
    <2>3. RankOf(d, vs[x].neighbors, A(x), k, k) /\ w = NextRound(page_rank_deserializer(d))
      BY <2>1, <2>2, Zenon
    <2>4. /\ w = [neighbors |-> w.neighbors, seen |-> FALSE, p_curr |-> w.p_curr, p_next |-> w.p_next]
          /\ RankOf(page_rank_serialize(w), vs[x].neighbors, {}, k, k + 1)
      BY <1>5, <2>3, RoundStarts, Zenon
    <2> QED BY <1>4, <1>5, <2>4, Zenon
  <1>7. s[x] = page_rank_serialize(w) /\ \A v \in DOMAIN vs : v # x => s[v] = st[v]
    BY <1>1, <1>2, Zenon DEF Bind
  <1> HIDE DEF s
  <1>8. \A v \in DOMAIN vs : RankOf(s[v], vs[v].neighbors, B(v), k, Q(v))
    BY <1>3, <1>4, <1>5, <1>6, <1>7, Zenon
  <1>9. Ranked(vs, s, "update", x + 1, {}, k)
    BY <1>8, Zenon DEF Ranked, B, Q
  <1> QED BY <1>6, <1>9, Zenon DEF s

\* A round ends.
LEMMA RankedRound ==
    ASSUME NEW vs, NEW n, IsGraph(vs, n), NEW st, NEW x, x = n, NEW k \in Nat, Ranked(vs, st, "update", x, {}, k),
           NEW p, p \in {"spread", "print"}
    PROVE  Ranked(vs, st, p, 0, {}, k + 1)
  <1>1. ASSUME NEW v \in DOMAIN vs
        PROVE  Added(vs, "update", x, {}, v) = {} /\ Added(vs, p, 0, {}, v) = {} /\ v < x
    <2>1. v < x /\ v \in Int /\ x \in Int /\ \A u \in DOMAIN vs : u >= 0 /\ u \in Int
      BY DEF IsGraph
    <2>2. ~(v >= x) /\ \A u \in DOMAIN vs : ~(u < 0 - 1) /\ u # 0 - 1
      BY <2>1
    <2> QED BY <2>1, <2>2, Zenon DEF Added
  <1>2. \A v \in DOMAIN vs : /\ Added(vs, p, 0, {}, v) = Added(vs, "update", x, {}, v)
                             /\ k + 1 # k => Added(vs, "update", x, {}, v) = {}
    BY <1>1, Zenon
  <1>3. \A v \in DOMAIN vs : (IF p = "update" /\ v < 0 THEN k + 1 + 1 ELSE k + 1)
                             = (IF "update" = "update" /\ v < x THEN k + 1 ELSE k)
    BY <1>1, Zenon
  <1>4. PICK l : l = k + 1
    BY Zenon
  <1>5. Ranked(vs, st, p, 0, {}, l)
    BY <1>2, <1>3, <1>4, RankedAlike
  <1> QED BY <1>4, <1>5, Zenon

\* Nothing changes while the vertices are printed.
LEMMA RankedPrint ==
    ASSUME NEW vs, NEW st, NEW x, NEW k, Ranked(vs, st, "print", x, {}, k), NEW p, p \in {"print", "done"},
           NEW y
    PROVE  Ranked(vs, st, p, y, {}, k)
  <1>1. ASSUME NEW v \in DOMAIN vs
        PROVE  Added(vs, p, y, {}, v) = Added(vs, "print", x, {}, v)
    BY Zenon DEF Added
  <1> QED BY <1>1, RankedAlike

-----------------------------------------------------------------------------
(* The steps of page_rank.                                                 *)

\* The smallest neighbour left is one of them.
LEMMA MinIsIn ==
    ASSUME NEW S, S \subseteq Nat, S # {}
    PROVE  Min(S) \in S
  <1> DEFINE R == {ss \in Nat \X Nat : ss[1] < ss[2]}
  <1>1. IsWellFoundedOn(R, Nat)
    BY NatLessThanWellFounded, Zenon DEF OpToRel
  <1>2. \A x, y \in Nat : <<y, x>> \notin R => x <= y
    OBVIOUS
  <1> HIDE DEF R
  <1>3. \E x \in S : \A y \in S : <<y, x>> \notin R
    BY <1>1, WFMin, Zenon
  <1>4. \E x \in S : \A y \in S : x <= y
    BY <1>2, <1>3, ZenonT(30)
  <1> QED BY <1>4, Zenon DEF Min

\* A vertex is put while the graph is loaded.
LEMMA RankLoads ==
    ASSUME program = "page_rank", NEW n \in Nat, RankState(n), Load
    PROVE  RankState(n)' /\ pc' \in RankPC
  <1>1. /\ pc = "load" /\ pc' = "load" /\ i < n /\ i' = i + 1 /\ cm' = put(cm, i, vertices[i])
        /\ vertices' = vertices /\ todo' = todo /\ it' = it
    BY Zenon DEF Load, RankState
  <1>2. /\ IsGraph(vertices, n) /\ IsCM(cm) /\ Coherent(cm) /\ RankLoad(n)
    BY <1>1, Zenon DEF RankState
  <1>3. i \in 0 .. n - 1 /\ i \notin DOMAIN cm.cache
    BY <1>1, <1>2 DEF RankLoad
  <1>4. PICK v : v = vertices[i]
    BY Zenon
  <1>5. v = [neighbors |-> v.neighbors, seen |-> FALSE, p_curr |-> v.p_curr, p_next |-> v.p_next]
    <2>1. v = Vertex(v.neighbors)
      BY <1>2, <1>3, <1>4, Zenon DEF IsGraph
    <2> QED BY <2>1 DEF Vertex
  <1>6. PICK q : q = put(cm, i, v)
    BY Zenon
  <1>7. /\ IsCM(q) /\ q.store = Bind(cm.store, i, page_rank_serialize(v)) /\ Coherent(q)
        /\ DOMAIN q.cache \subseteq DOMAIN cm.cache \cup {i}
    BY <1>2, <1>3, <1>5, <1>6, PutStores
  <1>8. cm' = q
    BY <1>1, <1>4, <1>6, ZenonT(30)
  <1>9. 0 .. i' - 1 = (0 .. i - 1) \cup {i} /\ i' \in 0 .. n
    BY <1>1, <1>2 DEF RankLoad
  <1>10. DOMAIN q.store = 0 .. i' - 1 /\ DOMAIN q.cache \subseteq 0 .. i' - 1
    BY <1>2, <1>7, <1>9, Zenon DEF RankLoad, Bind
  <1>11. \A u \in 0 .. i' - 1 : q.store[u] = page_rank_serialize(vertices[u])
    BY <1>2, <1>4, <1>7, <1>9, Zenon DEF RankLoad, Bind
  <1>12. RankLoad(n)'
    BY <1>1, <1>2, <1>8, <1>9, <1>10, <1>11 DEF RankLoad
  <1>13. num_vertices' = n
    BY <1>1, Zenon DEF num_vertices, RankState
  <1> QED BY <1>1, <1>2, <1>7, <1>8, <1>12, <1>13 DEF RankState, RankPC

\* The rounds begin.
LEMMA RankLoadDone ==
    ASSUME program = "page_rank", NEW n \in Nat, RankState(n), Loaded
    PROVE  RankState(n)' /\ pc' \in RankPC
  <1>1. /\ pc = "load" /\ pc' \in {"spread", "print"} /\ i = n /\ i' = 0 /\ cm' = cm
        /\ vertices' = vertices /\ todo' = todo /\ it' = it /\ curr' = curr
    BY Zenon DEF Loaded, RankState
  <1>2. /\ IsGraph(vertices, n) /\ IsCM(cm) /\ Coherent(cm) /\ RankLoad(n)
    BY <1>1, Zenon DEF RankState
  <1>3. /\ todo = {} /\ it = 0 /\ DOMAIN cm.store = 0 .. n - 1
        /\ \A v \in 0 .. n - 1 : cm.store[v] = page_rank_serialize(vertices[v])
    BY <1>1, <1>2, Zenon DEF RankLoad
  <1>4. PICK p : p = pc'
    BY Zenon
  <1>5. Ranked(vertices, cm.store, p, 0, {}, 0)
    BY <1>1, <1>2, <1>3, <1>4, RankedStart, Zenon
  <1>6. RankRound(n)'
    BY <1>1, <1>3, <1>4, <1>5 DEF RankRound
  <1>7. num_vertices' = n
    BY <1>1, Zenon DEF num_vertices, RankState
  <1> QED BY <1>1, <1>2, <1>6, <1>7, Zenon DEF RankState, RankPC

\* The read-ahead changes nothing that is stored.
LEMMA RankPrefetch ==
    ASSUME program = "page_rank", NEW n \in Nat, RankState(n), PrefetchAhead
    PROVE  RankState(n)' /\ pc' \in RankPC
  <1>1. PICK o : cm' = prefetch(cm, o)
    BY Zenon DEF PrefetchAhead
  <1>2. /\ pc \in {"spread", "update"} /\ pc' = pc /\ i' = i /\ vertices' = vertices /\ todo' = todo
        /\ it' = it /\ curr' = curr
    BY Zenon DEF PrefetchAhead
  <1>3. IsGraph(vertices, n) /\ IsCM(cm) /\ Coherent(cm) /\ RankRound(n)
    BY <1>2, Zenon DEF RankState
  <1>4. PICK q : q = prefetch(cm, o)
    BY Zenon
  <1>5. IsCM(q) /\ q.store = cm.store /\ Coherent(q) /\ cm' = q
    BY <1>1, <1>3, <1>4, PrefetchReads, Zenon
  <1>6. RankRound(n)'
    BY <1>2, <1>3, <1>5, Zenon DEF RankRound
  <1>7. num_vertices' = n
    BY <1>2, Zenon DEF num_vertices, RankState
  <1> QED BY <1>2, <1>3, <1>5, <1>6, <1>7, Zenon DEF RankState, RankPC

\* The first loop takes an element; the get throws only if it is not stored.
LEMMA RankSpreadElement ==
    ASSUME program = "page_rank", NEW n \in Nat, RankState(n), spread_Element
    PROVE  RankState(n)' /\ pc' \in RankPC
  <1>1. /\ pc = "spread" /\ todo = {} /\ i' = i + 1 /\ vertices' = vertices /\ it' = it
    BY Zenon DEF spread_Element, Dereference
  <1>2. IsGraph(vertices, n) /\ IsCM(cm) /\ Coherent(cm) /\ RankRound(n)
    BY <1>1, Zenon DEF RankState
  <1>3. num_vertices' = n
    BY <1>1, Zenon DEF num_vertices, RankState
  <1>4. CASE Throws(cm, i)
    <2>1. pc' = "threw" /\ cm' = cm
      BY <1>4, Zenon DEF spread_Element
    <2> QED BY <1>1, <1>2, <1>3, <2>1, Zenon DEF RankState, RankPC
  <1>5. CASE ~Throws(cm, i)
    <2>1. PICK g : g = get(cm, i)
      BY Zenon
    <2>2. cm' = g.cm /\ curr' = g.obj /\ todo' = g.obj.neighbors /\ pc' = pc
      BY <1>5, <2>1, Zenon DEF spread_Element
    <2>3. /\ i \in Nat /\ it \in Nat /\ DOMAIN cm.store = 0 .. n - 1
          /\ Ranked(vertices, cm.store, "spread", i, {}, it)
      BY <1>1, <1>2, Zenon DEF RankRound
    <2>4. i \in DOMAIN cm.store
      <3>1. Fetch(cm, i) # <<>>
        BY <1>2, <1>5, FindsStored, Zenon DEF Throws
      <3> QED BY <3>1, Zenon DEF Fetch
    <2>5. /\ g.obj = page_rank_deserializer(cm.store[i])
          /\ IsCM(g.cm) /\ g.cm.store = cm.store /\ Coherent(g.cm)
      BY <1>2, <2>1, <2>4, GetStored
    <2>6. i < n
      BY <2>3, <2>4
    <2>7. i \in DOMAIN vertices /\ n \in Nat
      BY <1>2, <2>3, <2>4, Zenon DEF IsGraph
    <2>8. cm.store[i].neighbors = vertices[i].neighbors /\ cm.store[i].p_curr = it
      BY <2>3, <2>7, Zenon DEF Ranked, RankOf
    <2>9. g.obj.neighbors = vertices[i].neighbors /\ g.obj.p_curr = it
      BY <2>5, <2>8, RankParts
    <2>10. Ranked(vertices, cm.store, "spread", i + 1, vertices[i].neighbors, it)
      BY <1>2, <2>3, <2>6, RankedElement, Zenon
    <2>11. i + 1 - 1 = i /\ i + 1 \in Nat /\ i + 1 <= n /\ i + 1 > 0
      BY <2>3, <2>6, SMTT(30)
    <2>12. RankRound(n)'
      BY <1>1, <2>2, <2>3, <2>5, <2>9, <2>10, <2>11 DEF RankRound
    <2> QED BY <1>1, <1>2, <1>3, <2>2, <2>5, <2>12 DEF RankState, RankPC
  <1> QED BY <1>4, <1>5, Zenon

\* A neighbour is got, its share added, and put.
LEMMA RankSpreadNeighbor ==
    ASSUME program = "page_rank", NEW n \in Nat, RankState(n), spread_Neighbor
    PROVE  RankState(n)' /\ pc' \in RankPC
  <1>1. PICK m, g : m = Min(todo) /\ g = get(cm, m)
    BY Zenon
  <1>2. /\ pc = "spread" /\ todo # {} /\ todo' = todo \ {m} /\ pc' = pc /\ i' = i
        /\ vertices' = vertices /\ it' = it /\ curr' = curr
        /\ cm' = put(g.cm, m, Plus(g.obj, i - 1, curr.p_curr))
    BY <1>1, Zenon DEF spread_Neighbor
  <1>3. IsGraph(vertices, n) /\ IsCM(cm) /\ Coherent(cm) /\ RankRound(n)
    BY <1>2, Zenon DEF RankState
  <1>4. /\ i \in Nat /\ it \in Nat /\ DOMAIN cm.store = 0 .. n - 1
        /\ Ranked(vertices, cm.store, "spread", i, todo, it)
        /\ i <= n /\ i > 0 /\ todo \subseteq vertices[i - 1].neighbors /\ curr.p_curr = it
    BY <1>2, <1>3, Zenon DEF RankRound
  <1>5. todo \subseteq Nat
    <2>1. i - 1 \in 0 .. n - 1
      BY <1>4
    <2>2. vertices[i - 1].neighbors \subseteq 0 .. n - 1
      BY <1>3, <2>1, Zenon DEF IsGraph
    <2> QED BY <1>4, <2>2
  <1>6. m \in todo
    BY <1>1, <1>2, <1>5, MinIsIn, Zenon
  <1>7. PICK w : w = Plus(page_rank_deserializer(cm.store[m]), i - 1, it)
    BY Zenon
  <1>8. PICK st, t, x, k : st = cm.store /\ t = todo /\ x = i /\ k = it
    BY Zenon
  <1>9. /\ w = [neighbors |-> w.neighbors, seen |-> FALSE, p_curr |-> w.p_curr, p_next |-> w.p_next]
        /\ Ranked(vertices, Bind(st, m, page_rank_serialize(w)), "spread", x, t \ {m}, k)
        /\ m \in 0 .. n - 1
    <2>1. Sharing(vertices, n, st, x, t, k, m, w)
      BY <1>3, <1>4, <1>6, <1>7, <1>8, Zenon DEF Sharing
    <2> QED BY <2>1, RankedShare, Zenon
  <1>10. /\ g.obj = page_rank_deserializer(cm.store[m])
         /\ IsCM(g.cm) /\ g.cm.store = cm.store /\ Coherent(g.cm)
         /\ m \in DOMAIN g.cm.cache /\ g.cm.cache[m].cached
    BY <1>1, <1>3, <1>4, <1>9, GetStored
  <1>11. PICK c, q : c = g.cm /\ q = put(c, m, w)
    BY Zenon
  <1>12. IsCM(q) /\ q.store = Bind(c.store, m, page_rank_serialize(w)) /\ Coherent(q)
    BY <1>9, <1>10, <1>11, PutStores
  <1>13. cm' = q
    BY <1>2, <1>4, <1>7, <1>10, <1>11, Zenon
  <1>14. DOMAIN q.store = 0 .. n - 1
    BY <1>4, <1>9, <1>10, <1>11, <1>12, Zenon DEF Bind
  <1>15. Ranked(vertices, q.store, "spread", i, todo \ {m}, it)
    BY <1>8, <1>9, <1>10, <1>11, <1>12, Zenon
  <1>16. RankRound(n)'
    BY <1>2, <1>4, <1>13, <1>14, <1>15, Zenon DEF RankRound
  <1>17. num_vertices' = n
    BY <1>2, Zenon DEF num_vertices, RankState
  <1> QED BY <1>2, <1>3, <1>12, <1>13, <1>16, <1>17 DEF RankState, RankPC

\* The counter's end: with no vertices it is never reached.
LEMMA RankLast ==
    ASSUME NEW n \in 0 .. UIntSpace, num_vertices = n
    PROVE  (n > 0 => last = n - 1) /\ (n = 0 => last >= 0)
  BY GraphAssumption DEF last

\* The second loop begins.
LEMMA RankSpreadDone ==
    ASSUME program = "page_rank", NEW n \in 0 .. UIntSpace, RankState(n), spread_Done
    PROVE  RankState(n)' /\ pc' \in RankPC
  <1>1. /\ pc = "spread" /\ todo = {} /\ i > last /\ pc' \in {"update", "crashed"} /\ i' = 0 /\ cm' = cm
        /\ vertices' = vertices /\ it' = it /\ todo' = todo
    BY Zenon DEF spread_Done
  <1>2. IsGraph(vertices, n) /\ IsCM(cm) /\ Coherent(cm) /\ RankRound(n) /\ num_vertices = n
    BY <1>1, Zenon DEF RankState
  <1>3. /\ i \in Nat /\ it \in Nat /\ DOMAIN cm.store = 0 .. n - 1 /\ i <= n
        /\ Ranked(vertices, cm.store, "spread", i, {}, it)
    BY <1>1, <1>2, Zenon DEF RankRound
  <1>4. n > 0 /\ i = n
    <2>1. (n > 0 => last = n - 1) /\ (n = 0 => last >= 0)
      BY <1>2, RankLast, Zenon
    <2>2. n \in Nat
      BY GraphAssumption
    <2>3. last \in Int
      BY <2>1, <2>2, GraphAssumption, <1>2 DEF last
    <2> QED BY <1>1, <1>3, <2>1, <2>2, <2>3
  <1>5. Ranked(vertices, cm.store, "update", 0, {}, it)
    BY <1>2, <1>3, <1>4, RankedSpread, Zenon
  <1>6. pc' = "update" => RankRound(n)'
    BY <1>1, <1>3, <1>4, <1>5 DEF RankRound
  <1>7. num_vertices' = n
    BY <1>1, <1>2, Zenon DEF num_vertices
  <1> QED BY <1>1, <1>2, <1>6, <1>7, Zenon DEF RankState, RankPC

\* A vertex is got, taken to the next round, and put.
LEMMA RankUpdateElement ==
    ASSUME program = "page_rank", NEW n \in 0 .. UIntSpace, RankState(n), update_Element
    PROVE  RankState(n)' /\ pc' \in RankPC
  <1>1. PICK x, g : x = i /\ g = get(cm, x)
    BY Zenon
  <1>2. /\ pc = "update" /\ i <= last /\ pc' = pc /\ i' = i + 1 /\ todo' = todo /\ vertices' = vertices
        /\ it' = it /\ cm' = put(g.cm, x, NextRound(g.obj))
    BY <1>1, Zenon DEF update_Element, Dereference
  <1>3. IsGraph(vertices, n) /\ IsCM(cm) /\ Coherent(cm) /\ RankRound(n) /\ num_vertices = n
    BY <1>2, Zenon DEF RankState
  <1>4. /\ i \in Nat /\ it \in Nat /\ DOMAIN cm.store = 0 .. n - 1 /\ todo = {} /\ n > 0
        /\ Ranked(vertices, cm.store, "update", i, {}, it)
    BY <1>2, <1>3, Zenon DEF RankRound
  <1>5. i < n
    BY <1>2, <1>3, <1>4, RankLast
  <1>6. PICK w : w = NextRound(page_rank_deserializer(cm.store[x]))
    BY Zenon
  <1>7. PICK st, k : st = cm.store /\ k = it
    BY Zenon
  <1>8. /\ w = [neighbors |-> w.neighbors, seen |-> FALSE, p_curr |-> w.p_curr, p_next |-> w.p_next]
        /\ Ranked(vertices, Bind(st, x, page_rank_serialize(w)), "update", x + 1, {}, k)
    <2>1. Updating(vertices, n, st, x, k, w)
      BY <1>1, <1>3, <1>4, <1>5, <1>6, <1>7, Zenon DEF Updating
    <2> QED BY <2>1, RankedUpdate, Zenon
  <1>9. x \in DOMAIN cm.store
    BY <1>1, <1>4, <1>5
  <1>10. /\ g.obj = page_rank_deserializer(cm.store[x])
         /\ IsCM(g.cm) /\ g.cm.store = cm.store /\ Coherent(g.cm)
         /\ x \in DOMAIN g.cm.cache /\ g.cm.cache[x].cached
    BY <1>1, <1>3, <1>9, GetStored
  <1>11. PICK c, q : c = g.cm /\ q = put(c, x, w)
    BY Zenon
  <1>12. IsCM(q) /\ q.store = Bind(c.store, x, page_rank_serialize(w)) /\ Coherent(q)
    BY <1>8, <1>10, <1>11, PutStores
  <1>13. cm' = q
    BY <1>2, <1>6, <1>10, <1>11, Zenon
  <1>14. DOMAIN q.store = 0 .. n - 1
    BY <1>4, <1>9, <1>10, <1>11, <1>12, Zenon DEF Bind
  <1>15. Ranked(vertices, q.store, "update", i + 1, {}, it)
    BY <1>1, <1>7, <1>8, <1>10, <1>11, <1>12
  <1>16. i + 1 \in Nat /\ i + 1 <= n
    BY <1>4, <1>5, SMTT(30)
  <1>17. RankRound(n)'
    BY <1>2, <1>4, <1>13, <1>14, <1>15, <1>16 DEF RankRound
  <1>18. num_vertices' = n
    BY <1>2, <1>3, Zenon DEF num_vertices
  <1> QED BY <1>2, <1>3, <1>12, <1>13, <1>17, <1>18 DEF RankState, RankPC

\* A round ends.
LEMMA RankUpdateDone ==
    ASSUME program = "page_rank", NEW n \in 0 .. UIntSpace, RankState(n), update_Done
    PROVE  RankState(n)' /\ pc' \in RankPC
  <1>1. /\ pc = "update" /\ i > last /\ pc' \in {"spread", "print"} /\ i' = 0 /\ cm' = cm
        /\ vertices' = vertices /\ it' = it + 1 /\ todo' = todo
    BY Zenon DEF update_Done
  <1>2. IsGraph(vertices, n) /\ IsCM(cm) /\ Coherent(cm) /\ RankRound(n) /\ num_vertices = n
    BY <1>1, Zenon DEF RankState
  <1>3. /\ i \in Nat /\ it \in Nat /\ DOMAIN cm.store = 0 .. n - 1 /\ i <= n /\ n > 0 /\ todo = {}
        /\ Ranked(vertices, cm.store, "update", i, {}, it)
    BY <1>1, <1>2, Zenon DEF RankRound
  <1>4. i = n
    BY <1>1, <1>2, <1>3, RankLast
  <1>5. PICK p : p = pc'
    BY Zenon
  <1>6. Ranked(vertices, cm.store, p, 0, {}, it + 1)
    BY <1>1, <1>2, <1>3, <1>4, <1>5, RankedRound
  <1>7. it + 1 \in Nat /\ 0 <= n
    BY <1>3
  <1>8. RankRound(n)'
    BY <1>1, <1>3, <1>5, <1>6, <1>7, Zenon DEF RankRound
  <1>9. num_vertices' = n
    BY <1>1, <1>2, Zenon DEF num_vertices
  <1> QED BY <1>1, <1>2, <1>8, <1>9, Zenon DEF RankState, RankPC

\* The vertices are got once more and printed.
LEMMA RankPrints ==
    ASSUME program = "page_rank", NEW n \in 0 .. UIntSpace, RankState(n), page_rank_Print \/ page_rank_Done
    PROVE  RankState(n)' /\ pc' \in RankPC
  <1>1. /\ pc = "print" /\ pc' \in {"print", "done"} /\ vertices' = vertices /\ it' = it /\ todo' = todo
        /\ i' = i \/ i' = i + 1
    BY Zenon DEF page_rank_Print, page_rank_Done
  <1>2. IsGraph(vertices, n) /\ IsCM(cm) /\ Coherent(cm) /\ RankRound(n) /\ num_vertices = n
    BY <1>1, Zenon DEF RankState
  <1>3. /\ i \in Nat /\ it \in Nat /\ DOMAIN cm.store = 0 .. n - 1 /\ todo = {}
        /\ Ranked(vertices, cm.store, "print", i, {}, it)
    BY <1>1, <1>2, Zenon DEF RankRound
  <1>4. IsCM(cm') /\ Coherent(cm') /\ cm'.store = cm.store
    <2>1. CASE page_rank_Done
      BY <1>2, <2>1, Zenon DEF page_rank_Done
    <2>2. CASE page_rank_Print
      <3>1. PICK g : g = get(cm, i)
        BY Zenon
      <3>2. cm' = g.cm /\ i < n
        BY <1>2, <2>2, <3>1, Zenon DEF page_rank_Print
      <3>3. i \in DOMAIN cm.store
        BY <1>3, <3>2
      <3> QED BY <1>2, <3>1, <3>2, <3>3, GetStored
    <2> QED BY <2>1, <2>2, Zenon
  <1>5. PICK p, y : p = pc' /\ y = i'
    BY Zenon
  <1>6. Ranked(vertices, cm.store, p, y, {}, it)
    BY <1>1, <1>3, <1>5, RankedPrint, Zenon
  <1>7. i' \in Nat
    BY <1>1, <1>3
  <1>8. RankRound(n)'
    BY <1>1, <1>3, <1>4, <1>5, <1>6, <1>7 DEF RankRound
  <1>9. num_vertices' = n
    BY <1>1, <1>2, Zenon DEF num_vertices
  <1> QED BY <1>1, <1>2, <1>4, <1>8, <1>9, Zenon DEF RankState, RankPC

\* Every step keeps the invariant.
LEMMA RankStep == RankInv /\ [Next]_vars => RankInv'
  <1> SUFFICES ASSUME RankInv, [Next]_vars, program' = "page_rank"
               PROVE  pc' \in RankPC /\ \E n \in 0 .. UIntSpace : RankState(n)'
    BY Zenon DEF RankInv
  <1>1. program = "page_rank"
    BY Zenon DEF Next, wcc_main, pageRank, vars, Load, Loaded, weakly_cc, bfs, bfs_Neighbor, bfs_Return,
           wcc_Done, PrefetchAhead, spread_Element, spread_Neighbor, spread_Done, update_Element,
           update_Done, page_rank_Print, page_rank_Done
  <1>2. pc \in RankPC
    BY <1>1, Zenon DEF RankInv
  <1>3. PICK n \in 0 .. UIntSpace : RankState(n)
    BY <1>1, Zenon DEF RankInv
  <1>4. n \in Nat
    BY GraphAssumption
  <1> SUFFICES pc' \in RankPC /\ RankState(n)'
    BY Zenon
  <1>5. CASE wcc_main
    BY <1>2, <1>5, Zenon DEF RankPC, wcc_main, weakly_cc, bfs, bfs_Neighbor, bfs_Return, wcc_Done
  <1>6. CASE UNCHANGED vars
    BY <1>2, <1>3, <1>6, Zenon DEF vars, RankState, RankLoad, RankRound, num_vertices
  <1> QED BY <1>1, <1>3, <1>4, <1>5, <1>6, RankLoads, RankLoadDone, RankPrefetch, RankSpreadElement,
             RankSpreadNeighbor, RankSpreadDone, RankUpdateElement, RankUpdateDone, RankPrints, SMTT(30)
          DEF Next, pageRank

\* The graph as it is read.
LEMMA RankInit ==
    ASSUME RankFilesFit
    PROVE  Init => RankInv
  <1> SUFFICES ASSUME Init, program = "page_rank" PROVE RankInv
    BY Zenon DEF RankInv
  <1>1. PICK file \in Files("page_rank") : vertices = page_rank_readGraph(file)
    BY Zenon DEF Init
  <1>2. PICK n \in 0 .. UIntSpace : file \in [0 .. n - 1 -> SUBSET (0 .. n - 1)]
    BY <1>1, Zenon DEF RankFilesFit
  <1>3. n \in Nat /\ DOMAIN vertices = 0 .. n - 1
    BY <1>1, <1>2, GraphAssumption DEF page_rank_readGraph
  <1>4. IsGraph(vertices, n)
    <2>1. \A v \in 0 .. n - 1 : vertices[v] = Vertex(file[v]) /\ file[v] \subseteq 0 .. n - 1
      BY <1>1, <1>2, Zenon DEF page_rank_readGraph
    <2>2. \A v \in 0 .. n - 1 : vertices[v].neighbors = file[v]
      <3>1. \A nbs : Vertex(nbs).neighbors = nbs
        BY Zenon DEF Vertex
      <3> QED BY <2>1, <3>1, Zenon
    <2> QED BY <1>3, <2>1, <2>2, Zenon DEF IsGraph
  <1>5. num_vertices = n
    <2>1. 0 \in Int /\ n - 1 \in Int /\ (n = 0 => 0 > n - 1) /\ (n # 0 => ~(0 > n - 1))
      BY <1>3
    <2>2. Cardinality(0 .. n - 1) = IF 0 > n - 1 THEN 0 ELSE (n - 1) - 0 + 1
      BY <2>1, FS_Interval, Zenon
    <2> QED BY <1>3, <2>1, <2>2 DEF num_vertices
  <1>6. /\ cm = [cache |-> <<>>, order |-> <<>>, ids |-> {}, store |-> <<>>]
        /\ pc = "load" /\ i = 0 /\ it = 0 /\ todo = {}
    BY Zenon DEF Init
  <1>7. IsCM(cm) /\ Coherent(cm) /\ DOMAIN cm.store = {} /\ DOMAIN cm.cache = {}
    BY <1>6 DEF IsCM, Coherent
  <1>8. RankLoad(n)
    BY <1>3, <1>6, <1>7 DEF RankLoad
  <1> QED BY <1>4, <1>5, <1>6, <1>7, <1>8, Zenon DEF RankInv, RankState, RankPC

\* For every graph whose number of vertices is an unsigned int, every size of
\* the cache, every read-ahead and every number of rounds: at every moment the
\* probabilities page_rank would read hold one share of every neighbour handled
\* so far and no other, all of the same round.
THEOREM PageRankExact ==
    ASSUME RankFilesFit
    PROVE  Spec => []RanksExact
  <1>1. ASSUME RankInv PROVE RanksExact
    <2> SUFFICES ASSUME program = "page_rank", pc \in {"spread", "update", "print", "done"},
                        NEW v \in DOMAIN vertices
                 PROVE  /\ ValueOf(v).p_curr = IF pc = "update" /\ v < i THEN it + 1 ELSE it
                        /\ Range(ValueOf(v).p_next) = AddedTo(v) \X {it}
                        /\ Len(ValueOf(v).p_next) = Cardinality(AddedTo(v))
      BY Zenon DEF RanksExact
    <2>1. PICK n \in 0 .. UIntSpace : RankState(n)
      BY <1>1, Zenon DEF RankInv
    <2>2. IsGraph(vertices, n) /\ IsCM(cm) /\ Coherent(cm) /\ RankRound(n)
      BY <2>1, Zenon DEF RankState
    <2>3. Ranked(vertices, cm.store, pc, i, todo, it) /\ v \in DOMAIN cm.store
      BY <2>2, Zenon DEF RankRound, IsGraph
    <2>4. PICK d : d = cm.store[v]
      BY Zenon
    <2>5. RankOf(d, vertices[v].neighbors, Added(vertices, pc, i, todo, v), it,
                 IF pc = "update" /\ v < i THEN it + 1 ELSE it)
      BY <2>3, <2>4, Zenon DEF Ranked
    <2>6. Found(Admit(cm, v), v) = <<page_rank_deserializer(d)>>
      BY <2>2, <2>3, <2>4, FindsStored, Zenon DEF Fetch
    <2>7. ValueOf(v) = page_rank_deserializer(d)
      BY <2>6 DEF ValueOf
    <2>8. ValueOf(v).p_curr = d.p_curr /\ ValueOf(v).p_next = d.p_next
      BY <2>7, RankParts
    <2>9. AddedTo(v) = Added(vertices, pc, i, todo, v)
      BY Zenon DEF AddedTo, Added
    <2> QED BY <2>5, <2>8, <2>9, Zenon DEF RankOf
  <1> QED BY <1>1, RankInit, RankStep, PTL DEF Spec

-----------------------------------------------------------------------------
(* Weakly connected components.                                            *)

\* The hypothesis: the graph fits in the cache.
WccFilesFit ==
    \A file \in Files("wcc") :
        \E n \in 0 .. PolicySize : file \in [0 .. n - 1 -> SUBSET (0 .. n - 1)]

Marked(nbs, b) == [neighbors |-> nbs, seen |-> b, p_curr |-> 0, p_next |-> <<>>]

Copy(vs, sn, v) == IF v \in sn THEN Marked(vs[v].neighbors, TRUE) ELSE Marked(vs[v].neighbors, FALSE)

Shown(vs, m, sn) == [v \in 0 .. m - 1 |-> Cached(Copy(vs, sn, v))]

\* The cache holds the first m vertices, those of sn flagged.
Holding(c, vs, m, sn) ==
    /\ IsCM(c) /\ c.ids = 0 .. m - 1 /\ c.order \in Seq(Nat) /\ Len(c.order) = m
    /\ c.cache = Shown(vs, m, sn)

\* No edge leaves S.
Closed(vs, S) == S \subseteq DOMAIN vs /\ \A v \in S : vs[v].neighbors \subseteq S

\* Reached and Root, of the graph vs.
ReachedFrom(vs, u) ==
    LET closed == {S \in SUBSET DOMAIN vs : \A v \in S : vs[v].neighbors \subseteq S}
    IN  {v \in DOMAIN vs : \A S \in closed : u \in S => v \in S}

RootOf(vs, v) == Min({u \in DOMAIN vs : v \in ReachedFrom(vs, u)})

\* What the roots in sn reach makes up sn and has the labels 1 to k - 1.
Labelled(vs, lab, sn, k) ==
    /\ k \in Nat \ {0} /\ Closed(vs, sn)
    /\ \A u \in sn : RootOf(vs, u) \in sn
    /\ \A u, v \in sn : lab[u] = lab[v] <=> RootOf(vs, u) = RootOf(vs, v)
    /\ {lab[u] : u \in sn} = 1 .. k - 1

\* bfs from r: old has been labelled before, new is what this bfs has labelled.
Searching(vs, lab, old, new, q, t, r, k) ==
    /\ Labelled(vs, lab, old, k) /\ r \in DOMAIN vs \ old /\ q \in Seq(Nat)
    /\ \A v \in new : lab[v] = k
    /\ new \cup Range(q) \cup t \subseteq ReachedFrom(vs, r)
    /\ (new \cup Range(q)) \cap old = {}
    /\ \A v \in new : vs[v].neighbors \subseteq old \cup new \cup Range(q) \cup t
    /\ r \in new \cup Range(q)

WccLoad(n) == i \in 0 .. n /\ cc = 1 /\ Holding(cm, vertices, i, {})

WccScan(n) ==
    \E sn \in SUBSET (0 .. n - 1) :
        /\ Holding(cm, vertices, n, sn) /\ Labelled(vertices, ccs, sn, cc)
        /\ i \in 0 .. n /\ 0 .. i - 1 \subseteq sn

WccSearch(n) ==
    \E old, new \in SUBSET (0 .. n - 1) :
        /\ Holding(cm, vertices, n, old \cup new)
        /\ Searching(vertices, ccs, old, new, fringe, todo, i, cc)
        /\ i \in 0 .. n - 1 /\ 0 .. i - 1 \subseteq old

WccState(n) ==
    /\ num_vertices = n /\ IsGraph(vertices, n) /\ DOMAIN ccs = 0 .. n - 1
    /\ pc # "bfs" => todo = {} /\ fringe = <<>>
    /\ pc = "load" => WccLoad(n)
    /\ pc = "wcc" => WccScan(n)
    /\ pc = "bfs" => WccSearch(n)
    /\ pc = "done" => Labelled(vertices, ccs, 0 .. n - 1, cc)

WccInv ==
    program = "wcc" => pc \in {"load", "wcc", "bfs", "done"} /\ \E n \in 0 .. PolicySize : WccState(n)

\* Root is a matter of the graph alone.
LEMMA RootIs ==
    /\ \A u : Reached(u) = ReachedFrom(vertices, u)
    /\ \A v : Root(v) = RootOf(vertices, v)
  <1>1. \A u : Reached(u) = ReachedFrom(vertices, u)
    BY Zenon DEF Reached, ReachedFrom
  <1>2. ASSUME NEW v PROVE Root(v) = RootOf(vertices, v)
    <2>1. {u \in DOMAIN vertices : v \in Reached(u)}
          = {u \in DOMAIN vertices : v \in ReachedFrom(vertices, u)}
      BY <1>1, Zenon
    <2> QED BY <2>1, Zenon DEF Root, RootOf
  <1> QED BY <1>1, <1>2, Zenon

\* A closed set holds all that its vertices reach.
LEMMA ReachedLeast ==
    ASSUME NEW vs, NEW S, Closed(vs, S), NEW u \in S
    PROVE  ReachedFrom(vs, u) \subseteq S
  BY Zenon DEF Closed, ReachedFrom

\* What is reached from a vertex is closed and has the vertex.
LEMMA ReachedClosed ==
    ASSUME NEW vs, NEW n, IsGraph(vs, n), NEW u \in DOMAIN vs
    PROVE  /\ u \in ReachedFrom(vs, u) /\ ReachedFrom(vs, u) \subseteq DOMAIN vs
           /\ Closed(vs, ReachedFrom(vs, u))
  <1>1. u \in ReachedFrom(vs, u) /\ ReachedFrom(vs, u) \subseteq DOMAIN vs
    BY Zenon DEF ReachedFrom
  <1>2. \A v \in DOMAIN vs : vs[v].neighbors \subseteq DOMAIN vs
    BY Zenon DEF IsGraph
  <1>3. ASSUME NEW v \in ReachedFrom(vs, u), NEW w \in vs[v].neighbors
        PROVE  w \in ReachedFrom(vs, u)
    <2>1. w \in DOMAIN vs /\ v \in DOMAIN vs
      BY <1>1, <1>2, <1>3, Zenon
    <2> QED BY <1>3, <2>1, Zenon DEF ReachedFrom
  <1> QED BY <1>1, <1>3, Zenon DEF Closed

\* The root of a vertex reaches it.
LEMMA RootReaches ==
    ASSUME NEW vs, NEW n, IsGraph(vs, n), NEW v \in DOMAIN vs
    PROVE  RootOf(vs, v) \in DOMAIN vs /\ v \in ReachedFrom(vs, RootOf(vs, v))
  <1> DEFINE U == {u \in DOMAIN vs : v \in ReachedFrom(vs, u)}
  <1>1. DOMAIN vs \subseteq Nat
    <2>1. DOMAIN vs = 0 .. n - 1 /\ n \in Nat
      BY Zenon DEF IsGraph
    <2> QED BY <2>1
  <1>2. v \in U
    BY ReachedClosed, Zenon
  <1>3. U \subseteq Nat /\ U # {}
    BY <1>1, <1>2, Zenon
  <1>4. Min(U) \in U
    BY <1>3, MinIsIn, Zenon
  <1> QED BY <1>4, Zenon DEF RootOf

\* What a vertex reaches and no smaller one does has it as root.
LEMMA RootAt ==
    ASSUME NEW vs, NEW n, IsGraph(vs, n), NEW r \in DOMAIN vs, NEW v \in ReachedFrom(vs, r),
           \A w \in 0 .. r - 1 : v \notin ReachedFrom(vs, w)
    PROVE  RootOf(vs, v) = r
  <1>1. RootOf(vs, v) \in DOMAIN vs /\ v \in ReachedFrom(vs, RootOf(vs, v))
    BY RootReaches, ReachedClosed, Zenon
  <1> DEFINE U == {u \in DOMAIN vs : v \in ReachedFrom(vs, u)}
  <1>2. \A u \in U : r <= u
    <2>1. DOMAIN vs = 0 .. n - 1 /\ n \in Nat
      BY Zenon DEF IsGraph
    <2>2. \A u \in DOMAIN vs : u \notin 0 .. r - 1 => r <= u
      BY <2>1
    <2> QED BY <2>2, Zenon
  <1>3. r \in U
    BY Zenon
  <1>4. \A u \in U : Min(U) <= u
    BY <1>2, <1>3, Zenon DEF Min
  <1>5. Min(U) <= r /\ r <= RootOf(vs, v) /\ Min(U) = RootOf(vs, v)
    BY <1>1, <1>2, <1>3, <1>4, Zenon DEF RootOf
  <1>6. RootOf(vs, v) \in Int /\ r \in Int
    <2>1. DOMAIN vs = 0 .. n - 1 /\ n \in Nat
      BY Zenon DEF IsGraph
    <2> QED BY <1>1, <2>1
  <1> HIDE DEF U
  <1> QED BY <1>5, <1>6

\* A bfs that has nothing left to visit has labelled all that has its root.
LEMMA SearchEnds ==
    ASSUME NEW vs, NEW n, IsGraph(vs, n), NEW lab, NEW old, NEW new, NEW r, NEW k,
           Searching(vs, lab, old, new, <<>>, {}, r, k), 0 .. r - 1 \subseteq old
    PROVE  Labelled(vs, lab, old \cup new, k + 1) /\ r \in new
  <1>1. Range(<<>>) = {}
    BY DEF Range
  <1>2. /\ Labelled(vs, lab, old, k) /\ r \in DOMAIN vs \ old /\ new \subseteq ReachedFrom(vs, r)
        /\ \A v \in new : lab[v] = k /\ vs[v].neighbors \subseteq old \cup new /\ v \notin old
        /\ r \in new
    BY <1>1, Zenon DEF Searching
  <1>3. /\ k \in Nat \ {0} /\ Closed(vs, old) /\ {lab[u] : u \in old} = 1 .. k - 1
        /\ \A u \in old : RootOf(vs, u) \in old
        /\ \A u, v \in old : lab[u] = lab[v] <=> RootOf(vs, u) = RootOf(vs, v)
    BY <1>2, Zenon DEF Labelled
  <1>4. Closed(vs, old \cup new)
    <2>1. new \subseteq DOMAIN vs
      BY <1>2, ReachedClosed, Zenon
    <2> QED BY <1>2, <1>3, <2>1, Zenon DEF Closed
  <1>5. \A u \in new : RootOf(vs, u) = r
    <2>1. TAKE u \in new
    <2>2. u \in ReachedFrom(vs, r) /\ u \notin old
      BY <1>2, Zenon
    <2>3. \A w \in 0 .. r - 1 : u \notin ReachedFrom(vs, w)
      BY <1>3, <2>2, ReachedLeast, Zenon
    <2> QED BY <1>2, <2>2, <2>3, RootAt, Zenon
  <1>6. \A u \in old : lab[u] \in 1 .. k - 1 /\ RootOf(vs, u) # r
    BY <1>2, <1>3, Zenon
  <1>7. k \notin 1 .. k - 1 /\ 1 .. k - 1 \cup {k} = 1 .. (k + 1) - 1
    BY <1>3
  <1>8. \A u, v \in old \cup new : lab[u] = lab[v] <=> RootOf(vs, u) = RootOf(vs, v)
    <2>1. TAKE u, v \in old \cup new
    <2>2. CASE u \in old /\ v \in old
      BY <1>3, <2>2, Zenon
    <2>3. CASE u \in old /\ v \in new
      <3>1. lab[u] \in 1 .. k - 1 /\ lab[v] = k /\ RootOf(vs, u) # r /\ RootOf(vs, v) = r
        BY <1>2, <1>5, <1>6, <2>3, Zenon
      <3> QED BY <1>7, <3>1, Zenon
    <2>4. CASE u \in new /\ v \in old
      <3>1. lab[u] = k /\ lab[v] \in 1 .. k - 1 /\ RootOf(vs, u) = r /\ RootOf(vs, v) # r
        BY <1>2, <1>5, <1>6, <2>4, Zenon
      <3> QED BY <1>7, <3>1, Zenon
    <2>5. CASE u \in new /\ v \in new
      BY <1>2, <1>5, <2>5, Zenon
    <2> QED BY <2>1, <2>2, <2>3, <2>4, <2>5, Zenon
  <1>9. {lab[u] : u \in old \cup new} = 1 .. (k + 1) - 1
    <2>1. {lab[u] : u \in old \cup new} = {lab[u] : u \in old} \cup {k}
      BY <1>2, Zenon
    <2> QED BY <1>3, <1>7, <2>1, Zenon
  <1>10. k + 1 \in Nat \ {0} /\ \A u \in old \cup new : RootOf(vs, u) \in old \cup new
    <2>1. k + 1 \in Nat \ {0}
      BY <1>3
    <2> QED BY <1>2, <1>3, <1>5, <2>1, Zenon
  <1>11. Labelled(vs, lab, old \cup new, k + 1)
    BY <1>4, <1>8, <1>9, <1>10, Zenon DEF Labelled
  <1> QED BY <1>2, <1>11, Zenon

\* There are as many roots as labels.
LEMMA LabelsCount ==
    ASSUME NEW vs, NEW n, IsGraph(vs, n), NEW lab, NEW k, Labelled(vs, lab, DOMAIN vs, k)
    PROVE  Cardinality({RootOf(vs, u) : u \in DOMAIN vs}) = k - 1
  <1> DEFINE C == {RootOf(vs, u) : u \in DOMAIN vs}
             f == [l \in 1 .. k - 1 |-> RootOf(vs, CHOOSE u \in DOMAIN vs : lab[u] = l)]
  <1>1. /\ k \in Nat \ {0} /\ {lab[u] : u \in DOMAIN vs} = 1 .. k - 1
        /\ \A u, v \in DOMAIN vs : lab[u] = lab[v] <=> RootOf(vs, u) = RootOf(vs, v)
    BY Zenon DEF Labelled
  <1>2. \A l \in 1 .. k - 1 : \E u \in DOMAIN vs : lab[u] = l /\ f[l] = RootOf(vs, u)
    BY <1>1, Zenon
  <1>3. \A u, v \in DOMAIN vs : RootOf(vs, u) = RootOf(vs, v) <=> lab[u] = lab[v]
    BY <1>1, Zenon
  <1>4. f \in [1 .. k - 1 -> C]
    <2>1. \A l \in 1 .. k - 1 : f[l] \in C
      BY <1>2, Zenon
    <2> QED BY <2>1, Zenon
  <1> HIDE DEF f
  <1>5. f \in Bijection(1 .. k - 1, C)
    <2>1. \A a, b \in 1 .. k - 1 : f[a] = f[b] => a = b
      <3>1. TAKE a, b \in 1 .. k - 1
      <3>2. PICK u \in DOMAIN vs : lab[u] = a /\ f[a] = RootOf(vs, u)
        BY <1>2, Zenon
      <3>3. PICK v \in DOMAIN vs : lab[v] = b /\ f[b] = RootOf(vs, v)
        BY <1>2, Zenon
      <3> QED BY <1>3, <3>2, <3>3, Zenon
    <2>2. \A u \in DOMAIN vs : \E l \in 1 .. k - 1 : f[l] = RootOf(vs, u)
      <3>1. TAKE u \in DOMAIN vs
      <3>2. lab[u] \in 1 .. k - 1
        BY <1>1, Zenon
      <3>3. PICK v \in DOMAIN vs : lab[v] = lab[u] /\ f[lab[u]] = RootOf(vs, v)
        BY <1>2, <3>2, Zenon
      <3> QED BY <1>3, <3>2, <3>3, Zenon
    <2>3. \A c \in C : \E l \in 1 .. k - 1 : f[l] = c
      BY <2>2, Zenon
    <2> QED BY <1>4, <2>1, <2>3, Zenon DEF Bijection, Injection, Surjection, IsInjective
  <1>6. k - 1 \in Nat /\ ExistsBijection(1 .. k - 1, C)
    <2>1. k - 1 \in Nat
      BY <1>1
    <2> QED BY <1>5, <2>1, Zenon DEF ExistsBijection
  <1> QED BY <1>6, FS_CountingElements, Zenon

\* The parts of a vertex with its flag, and the vertex with another flag.
LEMMA MarkedParts ==
    ASSUME NEW N, NEW b, NEW t
    PROVE  /\ Marked(N, b).neighbors = N /\ Marked(N, b).seen = b
           /\ [Marked(N, b) EXCEPT !.seen = t] = Marked(N, t)
  BY DEF Marked

\* The policy has nothing to do for an id it knows.
LEMMA AdmitKnown ==
    ASSUME NEW c, NEW vs, NEW m, NEW sn, Holding(c, vs, m, sn), NEW oid \in 0 .. m - 1
    PROVE  Admit(c, oid) = c
  <1>1. PICK p : p = LRAdded_process_oid(c.order, c.ids, oid)
    BY Zenon
  <1>2. p.order = c.order /\ p.ids = c.ids /\ p.evicted = {}
    BY <1>1, Zenon DEF Holding, LRAdded_process_oid, Unchanged, Bookkeeping
  <1>3. PICK a : a = Admit(c, oid)
    BY Zenon
  <1>4. a = [c EXCEPT !.order = p.order, !.ids = p.ids, !.cache = [o \in DOMAIN @ \ p.evicted |-> @[o]]]
    BY <1>1, <1>3, Zenon DEF Admit
  <1>5. PICK f : f = [o \in DOMAIN c.cache \ p.evicted |-> c.cache[o]]
    BY Zenon
  <1>6. f = c.cache
    BY <1>2, <1>5, Zenon DEF Holding, Shown
  <1>7. a.order = c.order /\ a.ids = c.ids /\ a.cache = c.cache /\ a.store = c.store
        /\ a = [cache |-> a.cache, order |-> a.order, ids |-> a.ids, store |-> a.store]
    BY <1>2, <1>4, <1>5, <1>6, Zenon DEF Holding, IsCM
  <1>8. c = [cache |-> c.cache, order |-> c.order, ids |-> c.ids, store |-> c.store]
    BY Zenon DEF Holding, IsCM
  <1> QED BY <1>3, <1>7, <1>8, Zenon

\* get of a vertex in the cache changes nothing, and gives the vertex with its flag.
LEMMA GetHeld ==
    ASSUME NEW c, NEW vs, NEW m, NEW sn, Holding(c, vs, m, sn), NEW oid \in 0 .. m - 1,
           NEW g, g = get(c, oid)
    PROVE  g.cm = c /\ g.obj = Copy(vs, sn, oid)
  <1>1. Admit(c, oid) = c
    BY AdmitKnown, Zenon
  <1>2. PICK w : w = Copy(vs, sn, oid)
    BY Zenon
  <1>3. oid \in DOMAIN c.cache /\ c.cache[oid] = Cached(w)
    BY <1>2, Zenon DEF Holding, Shown
  <1>4. Found(c, oid) = <<w>>
    BY <1>3 DEF Found, Cached
  <1>5. Found(c, oid)[1] = w
    BY <1>4
  <1>6. g = [cm |-> [c EXCEPT !.cache = Bind(@, oid, Cached(w))], obj |-> w]
    BY <1>1, <1>5, Zenon DEF get
  <1>7. PICK b : b = Bind(c.cache, oid, Cached(w))
    BY Zenon
  <1>8. b = c.cache
    <2>1. c.cache = [v \in DOMAIN c.cache |-> c.cache[v]]
      BY Zenon DEF Holding, Shown
    <2>2. b = [x \in DOMAIN c.cache \cup {oid} |-> IF x = oid THEN Cached(w) ELSE c.cache[x]]
      BY <1>7, Zenon DEF Bind
    <2>3. DOMAIN b = DOMAIN c.cache /\ \A x \in DOMAIN c.cache : b[x] = c.cache[x]
      BY <1>3, <2>2, Zenon
    <2> QED BY <2>1, <2>2, <2>3, Zenon
  <1>9. PICK d : d = [c EXCEPT !.cache = b]
    BY Zenon
  <1>10. d = c
    BY <1>8, <1>9, Zenon DEF Holding, IsCM
  <1>11. g = [cm |-> d, obj |-> w]
    BY <1>6, <1>7, <1>9, Zenon
  <1> QED BY <1>2, <1>10, <1>11

\* g is what get gives of a vertex that the cache c holds: its flag tells whether a bfs
\* has reached it.
Gives(g, c, vs, sn, oid) ==
    /\ g.cm = c /\ g.obj.neighbors = vs[oid].neighbors
    /\ (oid \in sn => g.obj.seen) /\ (oid \notin sn => ~g.obj.seen)
    /\ [g.obj EXCEPT !.seen = TRUE] = Marked(vs[oid].neighbors, TRUE)

\* get of a vertex that the cache holds.
LEMMA GetCopy ==
    ASSUME NEW c, NEW vs, NEW m, NEW sn, Holding(c, vs, m, sn), NEW oid \in 0 .. m - 1,
           NEW g, g = get(c, oid)
    PROVE  Gives(g, c, vs, sn, oid)
  <1>1. g.cm = c /\ g.obj = Copy(vs, sn, oid)
    BY GetHeld
  <1>2. PICK w : w = g.obj
    BY Zenon
  <1>3. w = Copy(vs, sn, oid)
    BY <1>1, <1>2, Zenon
  <1>4. /\ w.neighbors = vs[oid].neighbors
        /\ (oid \in sn => w.seen) /\ (oid \notin sn => ~w.seen)
        /\ [w EXCEPT !.seen = TRUE] = Marked(vs[oid].neighbors, TRUE)
    BY <1>3, MarkedParts, Zenon DEF Copy
  <1>5. /\ g.obj.neighbors = vs[oid].neighbors
        /\ (oid \in sn => g.obj.seen) /\ (oid \notin sn => ~g.obj.seen)
    BY <1>2, <1>4, Zenon
  <1>6. [g.obj EXCEPT !.seen = TRUE] = Marked(vs[oid].neighbors, TRUE)
    BY <1>2, <1>4, Zenon
  <1> QED BY <1>1, <1>5, <1>6, Zenon DEF Gives

\* put of a vertex of the cache with its flag set.
LEMMA PutHeld ==
    ASSUME NEW c, NEW vs, NEW m, NEW sn, Holding(c, vs, m, sn), NEW oid \in 0 .. m - 1,
           NEW w, w = Marked(vs[oid].neighbors, TRUE)
    PROVE  Holding(put(c, oid, w), vs, m, sn \cup {oid})
  <1>1. Admit(c, oid) = c
    BY AdmitKnown, Zenon
  <1>2. PICK e : e = [c.cache[oid] EXCEPT !.obj = w]
    BY Zenon
  <1>3. oid \in DOMAIN c.cache /\ DOMAIN c.cache = 0 .. m - 1
    BY Zenon DEF Holding, Shown
  <1>4. e = Cached(w)
    <2>1. PICK u : c.cache[oid] = Cached(u)
      BY Zenon DEF Holding, Shown
    <2>2. PICK r : r = [cached |-> TRUE, obj |-> u, future |-> <<>>]
      BY Zenon
    <2>3. e = [r EXCEPT !.obj = w]
      BY <1>2, <2>1, <2>2, Zenon DEF Cached
    <2>4. e = [cached |-> TRUE, obj |-> w, future |-> <<>>]
      BY <2>2, <2>3, Zenon
    <2> QED BY <2>4, Zenon DEF Cached
  <1>5. PICK d : d = put(c, oid, w)
    BY Zenon
  <1>6. d = [c EXCEPT !.cache = Bind(@, oid, e), !.store = Bind(@, oid, serialize(w))]
    BY <1>1, <1>2, <1>3, <1>5, Zenon DEF put
  <1>7. IsCM(d) /\ d.cache = Bind(c.cache, oid, e) /\ d.order = c.order /\ d.ids = c.ids
    BY <1>6, Zenon DEF Holding, IsCM
  <1>8. d.cache = Shown(vs, m, sn \cup {oid})
    <2>1. PICK h : h = Shown(vs, m, sn \cup {oid})
      BY Zenon
    <2>2. DOMAIN h = 0 .. m - 1 /\ h = [x \in DOMAIN h |-> h[x]]
      BY <2>1, Zenon DEF Shown
    <2>3. d.cache = [x \in DOMAIN c.cache \cup {oid} |-> IF x = oid THEN e ELSE c.cache[x]]
      BY <1>7, Zenon DEF Bind
    <2>4. h[oid] = e
      BY <1>4, <2>1, Zenon DEF Shown, Copy
    <2>5. \A x \in 0 .. m - 1 : x # oid => h[x] = c.cache[x]
      <3>1. TAKE x \in 0 .. m - 1
      <3>2. HAVE x # oid
      <3>3. h[x] = Cached(Copy(vs, sn \cup {oid}, x))
        BY <2>1, Zenon DEF Shown
      <3>4. c.cache[x] = Cached(Copy(vs, sn, x))
        BY Zenon DEF Holding, Shown
      <3>5. Copy(vs, sn \cup {oid}, x) = Copy(vs, sn, x)
        BY <3>2, Zenon DEF Copy
      <3> QED BY <3>3, <3>4, <3>5, Zenon
    <2>6. DOMAIN d.cache = 0 .. m - 1 /\ \A x \in 0 .. m - 1 : d.cache[x] = h[x]
      BY <1>3, <2>3, <2>4, <2>5
    <2> QED BY <2>1, <2>2, <2>3, <2>6, Zenon
  <1> QED BY <1>5, <1>7, <1>8, Zenon DEF Holding

\* put of the next vertex of a graph that fits: nothing is evicted.
LEMMA PutNext ==
    ASSUME NEW c, NEW vs, NEW n, IsGraph(vs, n), n <= PolicySize, NEW m \in 0 .. n - 1,
           Holding(c, vs, m, {})
    PROVE  Holding(put(c, m, vs[m]), vs, m + 1, {})
  <1>0. n \in Nat /\ m \in Nat /\ m + 1 <= PolicySize /\ m \notin 0 .. m - 1 /\ PolicySize \in Nat
        /\ (m + 1) - 1 = m /\ 0 .. m - 1 \cup {m} = 0 .. m
    BY PolicyAssumption DEF IsGraph
  <1>1. PICK q : q = Append(c.order, m)
    BY Zenon
  <1>2. q \in Seq(Nat) /\ Len(q) = m + 1
    BY <1>0, <1>1 DEF Holding
  <1>3. PICK p : p = LRAdded_process_oid(c.order, c.ids, m)
    BY Zenon
  <1>4. p.order = q /\ p.ids = 0 .. m /\ p.evicted = {}
    <2>1. c.ids = 0 .. m - 1 /\ ~(Len(q) > PolicySize)
      BY <1>0, <1>2 DEF Holding
    <2>2. p = Bookkeeping(q, c.ids \cup {m}, {})
      BY <1>0, <1>1, <1>3, <2>1, Zenon DEF LRAdded_process_oid, Unchanged
    <2> QED BY <1>0, <2>1, <2>2, Zenon DEF Bookkeeping
  <1>5. PICK a : a = Admit(c, m)
    BY Zenon
  <1>6. a = [c EXCEPT !.order = p.order, !.ids = p.ids, !.cache = [o \in DOMAIN @ \ p.evicted |-> @[o]]]
    BY <1>3, <1>5, Zenon DEF Admit
  <1>7. PICK f : f = [o \in DOMAIN c.cache \ p.evicted |-> c.cache[o]]
    BY Zenon
  <1>8. f = c.cache
    BY <1>4, <1>7, Zenon DEF Holding, Shown
  <1>9. IsCM(a) /\ a.order = q /\ a.ids = 0 .. m /\ a.cache = c.cache /\ DOMAIN a.cache = 0 .. m - 1
    <2>1. DOMAIN c.cache = 0 .. m - 1
      BY Zenon DEF Holding, Shown
    <2> QED BY <1>4, <1>6, <1>7, <1>8, <2>1, Zenon DEF Holding, IsCM
  <1>10. PICK d : d = put(c, m, vs[m])
    BY Zenon
  <1>11. d = [a EXCEPT !.cache = Bind(@, m, Cached(vs[m])), !.store = Bind(@, m, serialize(vs[m]))]
    BY <1>0, <1>5, <1>9, <1>10, Zenon DEF put
  <1>12. IsCM(d) /\ d.cache = Bind(a.cache, m, Cached(vs[m])) /\ d.order = q /\ d.ids = 0 .. m
    BY <1>9, <1>11, Zenon DEF IsCM
  <1>13. d.cache = Shown(vs, m + 1, {})
    <2>1. PICK h : h = Shown(vs, m + 1, {})
      BY Zenon
    <2>2. DOMAIN h = 0 .. m /\ h = [x \in DOMAIN h |-> h[x]]
      BY <1>0, <2>1, Zenon DEF Shown
    <2>3. d.cache = [x \in 0 .. m |-> IF x = m THEN Cached(vs[m]) ELSE c.cache[x]]
      BY <1>0, <1>9, <1>12, Zenon DEF Bind
    <2>4. vs[m] = Marked(vs[m].neighbors, FALSE)
      BY Zenon DEF IsGraph, Vertex, Marked
    <2>5. \A x \in 0 .. m : h[x] = Cached(Marked(vs[x].neighbors, FALSE))
      BY <1>0, <2>1, Zenon DEF Shown, Copy
    <2>6. \A x \in 0 .. m - 1 : c.cache[x] = Cached(Marked(vs[x].neighbors, FALSE))
      BY Zenon DEF Holding, Shown, Copy
    <2>7. \A x \in 0 .. m : d.cache[x] = h[x]
      <3>1. TAKE x \in 0 .. m
      <3>2. CASE x = m
        BY <2>3, <2>4, <2>5, <3>2, Zenon
      <3>3. CASE x # m
        BY <1>0, <2>3, <2>5, <2>6, <3>3, Zenon
      <3> QED BY <3>2, <3>3, Zenon
    <2> QED BY <2>1, <2>2, <2>3, <2>7
  <1> QED BY <1>0, <1>2, <1>10, <1>12, <1>13, Zenon DEF Holding

\* A bfs begins at a vertex that no earlier one has reached.
LEMMA SearchBegins ==
    ASSUME NEW vs, NEW n, IsGraph(vs, n), NEW lab, NEW old, NEW r \in DOMAIN vs \ old, NEW k,
           Labelled(vs, lab, old, k), r \in Nat
    PROVE  Searching(vs, lab, old, {}, <<r>>, {}, r, k)
  <1>1. Range(<<r>>) = {r} /\ <<r>> \in Seq(Nat)
    BY DEF Range
  <1>2. r \in ReachedFrom(vs, r)
    BY ReachedClosed, Zenon
  <1> QED BY <1>1, <1>2, Zenon DEF Searching

\* The elements of a queue whose first is taken.
LEMMA TakeFirst ==
    ASSUME NEW q \in Seq(Nat), q # <<>>
    PROVE  /\ Head(q) \in Nat /\ Tail(q) \in Seq(Nat)
           /\ Range(q) = Range(Tail(q)) \cup {Head(q)}
  <1>1. /\ Head(q) = q[1] /\ Len(q) \in Nat \ {0} /\ DOMAIN q = 1 .. Len(q)
        /\ Tail(q) \in Seq(Nat) /\ DOMAIN Tail(q) = 1 .. Len(q) - 1
        /\ \A j \in 1 .. Len(q) - 1 : Tail(q)[j] = q[j + 1] /\ j + 1 \in 1 .. Len(q)
        /\ \A j \in 1 .. Len(q) : q[j] \in Nat /\ (j = 1 \/ j - 1 \in 1 .. Len(q) - 1)
        /\ \A j \in 1 .. Len(q) : j # 1 => Tail(q)[j - 1] = q[j]
        /\ 1 \in 1 .. Len(q)
    OBVIOUS
  <1> DEFINE w == Tail(q)
  <1> HIDE DEF w
  <1>2. Range(q) \subseteq Range(w) \cup {Head(q)}
    <2>1. \A j \in DOMAIN q : q[j] = Head(q) \/ \E l \in DOMAIN w : q[j] = w[l]
      BY <1>1, Zenon DEF w
    <2> QED BY <2>1, Zenon DEF Range
  <1>3. Range(w) \cup {Head(q)} \subseteq Range(q)
    <2>1. \A l \in DOMAIN w : \E j \in DOMAIN q : q[j] = w[l]
      BY <1>1, Zenon DEF w
    <2>2. Head(q) \in Range(q)
      BY <1>1, Zenon DEF Range
    <2>3. Range(w) \subseteq Range(q)
      BY <2>1, Zenon DEF Range
    <2> QED BY <2>2, <2>3, Zenon
  <1>4. Head(q) \in Nat
    BY <1>1, Zenon
  <1> QED BY <1>1, <1>2, <1>3, <1>4, Zenon DEF w

\* bfs labels the first of the fringe.
LEMMA SearchTakes ==
    ASSUME NEW vs, NEW n, IsGraph(vs, n), NEW lab, NEW old, NEW new, NEW q, NEW r, NEW k,
           Searching(vs, lab, old, new, q, {}, r, k), q # <<>>, DOMAIN lab = DOMAIN vs,
           NEW id, id = Head(q)
    PROVE  /\ id \in DOMAIN vs
           /\ Searching(vs, [lab EXCEPT ![id] = k], old, new \cup {id}, Tail(q), vs[id].neighbors, r, k)
  <1>1. /\ Labelled(vs, lab, old, k) /\ r \in DOMAIN vs \ old /\ q \in Seq(Nat)
        /\ \A v \in new : lab[v] = k
        /\ new \cup Range(q) \subseteq ReachedFrom(vs, r) /\ (new \cup Range(q)) \cap old = {}
        /\ \A v \in new : vs[v].neighbors \subseteq old \cup new \cup Range(q)
        /\ r \in new \cup Range(q)
    BY Zenon DEF Searching
  <1>2. Tail(q) \in Seq(Nat) /\ Range(q) = Range(Tail(q)) \cup {id}
    BY <1>1, TakeFirst, Zenon
  <1>3. Closed(vs, old)
    BY <1>1, Zenon DEF Labelled
  <1>4. /\ id \in ReachedFrom(vs, r) /\ id \notin old /\ Closed(vs, ReachedFrom(vs, r))
        /\ ReachedFrom(vs, r) \subseteq DOMAIN vs
    BY <1>1, <1>2, ReachedClosed, Zenon
  <1>5. id \in DOMAIN vs /\ id \notin old /\ vs[id].neighbors \subseteq ReachedFrom(vs, r)
    BY <1>4, Zenon DEF Closed
  <1>6. PICK nl : nl = [lab EXCEPT ![id] = k]
    BY Zenon
  <1>7. nl[id] = k /\ \A v \in DOMAIN vs : v # id => nl[v] = lab[v]
    BY <1>5, <1>6, Zenon
  <1>8. \A v \in old : nl[v] = lab[v]
    BY <1>3, <1>5, <1>7, Zenon DEF Closed
  <1>9. Labelled(vs, nl, old, k)
    <2>1. {nl[u] : u \in old} = {lab[u] : u \in old}
      BY <1>8, Zenon
    <2> QED BY <1>1, <1>8, <2>1, Zenon DEF Labelled
  <1>10. \A v \in new \cup {id} : nl[v] = k
    BY <1>1, <1>4, <1>7, Zenon
  <1>11. \A v \in new \cup {id} :
            vs[v].neighbors \subseteq old \cup (new \cup {id}) \cup Range(Tail(q)) \cup vs[id].neighbors
    BY <1>1, <1>2, Zenon
  <1>12. /\ (new \cup {id}) \cup Range(Tail(q)) \cup vs[id].neighbors \subseteq ReachedFrom(vs, r)
         /\ ((new \cup {id}) \cup Range(Tail(q))) \cap old = {}
    BY <1>1, <1>2, <1>5, Zenon
  <1>13. r \in (new \cup {id}) \cup Range(Tail(q))
    BY <1>1, <1>2, Zenon
  <1>14. Searching(vs, nl, old, new \cup {id}, Tail(q), vs[id].neighbors, r, k)
    BY <1>1, <1>2, <1>9, <1>10, <1>11, <1>12, <1>13, Zenon DEF Searching
  <1> QED BY <1>5, <1>6, <1>14, Zenon

\* The elements of a queue with one more.
LEMMA AddLast ==
    ASSUME NEW q \in Seq(Nat), NEW m \in Nat
    PROVE  Append(q, m) \in Seq(Nat) /\ Range(Append(q, m)) = Range(q) \cup {m}
  <1> DEFINE a == Append(q, m)
  <1>1. /\ a \in Seq(Nat) /\ Len(q) \in Nat /\ DOMAIN q = 1 .. Len(q) /\ DOMAIN a = 1 .. Len(q) + 1
        /\ a[Len(q) + 1] = m /\ Len(q) + 1 \in 1 .. Len(q) + 1
        /\ \A j \in 1 .. Len(q) : a[j] = q[j] /\ j \in 1 .. Len(q) + 1
        /\ \A j \in 1 .. Len(q) + 1 : j \in 1 .. Len(q) \/ j = Len(q) + 1
    OBVIOUS
  <1> HIDE DEF a
  <1>2. Range(a) = Range(q) \cup {m}
    BY <1>1, Zenon DEF Range
  <1> QED BY <1>1, <1>2, Zenon DEF a

\* bfs handles a neighbour: one that is not flagged goes to the fringe.
LEMMA SearchSees ==
    ASSUME NEW vs, NEW n, IsGraph(vs, n), NEW lab, NEW old, NEW new, NEW q, NEW t, NEW r, NEW k,
           Searching(vs, lab, old, new, q, t, r, k), NEW v \in t, v \in Nat,
           NEW p, p = IF v \in old \cup new THEN q ELSE Append(q, v)
    PROVE  Searching(vs, lab, old, new, p, t \ {v}, r, k)
  <1>1. /\ Labelled(vs, lab, old, k) /\ r \in DOMAIN vs \ old /\ q \in Seq(Nat)
        /\ \A u \in new : lab[u] = k
        /\ new \cup Range(q) \cup t \subseteq ReachedFrom(vs, r) /\ (new \cup Range(q)) \cap old = {}
        /\ \A u \in new : vs[u].neighbors \subseteq old \cup new \cup Range(q) \cup t
        /\ r \in new \cup Range(q)
    BY Zenon DEF Searching
  <1>2. v \in old => Range(p) = Range(q)
    BY Zenon
  <1>4. /\ p \in Seq(Nat) /\ Range(q) \subseteq Range(p) /\ v \in old \cup new \cup Range(p)
        /\ Range(p) \subseteq Range(q) \cup {v}
    <2>1. CASE v \in old \cup new
      BY <1>1, <2>1, Zenon
    <2>2. CASE v \notin old \cup new
      BY <1>1, <2>2, AddLast, ZenonT(30)
    <2> QED BY <2>1, <2>2, Zenon
  <1>5. /\ new \cup Range(p) \cup (t \ {v}) \subseteq ReachedFrom(vs, r)
        /\ (new \cup Range(p)) \cap old = {}
    BY <1>1, <1>2, <1>4, Zenon
  <1>6. \A u \in new : vs[u].neighbors \subseteq old \cup new \cup Range(p) \cup (t \ {v})
    BY <1>1, <1>4, Zenon
  <1>7. r \in new \cup Range(p)
    BY <1>1, <1>4, Zenon
  <1> QED BY <1>1, <1>4, <1>5, <1>6, <1>7, Zenon DEF Searching

\* main puts one vertex.
LEMMA WccLoads ==
    ASSUME NEW n \in 0 .. PolicySize, WccState(n), Load
    PROVE  WccState(n)'
  <1>1. /\ num_vertices = n /\ IsGraph(vertices, n) /\ DOMAIN ccs = 0 .. n - 1
        /\ todo = {} /\ fringe = <<>> /\ WccLoad(n) /\ pc = "load"
    BY Zenon DEF WccState, Load
  <1>2. /\ i < n /\ cm' = put(cm, i, vertices[i]) /\ i' = i + 1
        /\ vertices' = vertices /\ pc' = pc /\ ccs' = ccs /\ cc' = cc /\ todo' = todo /\ fringe' = fringe
    BY <1>1, Zenon DEF Load
  <1>3. i \in 0 .. n - 1 /\ n <= PolicySize /\ i + 1 \in 0 .. n
    BY <1>1, <1>2, PolicyAssumption DEF WccLoad
  <1>4. Holding(cm', vertices, i + 1, {})
    <2>1. IsGraph(vertices, n) /\ Holding(cm, vertices, i, {})
      BY <1>1, Zenon DEF IsGraph, WccLoad
    <2>2. Holding(put(cm, i, vertices[i]), vertices, i + 1, {})
      BY <1>3, <2>1, PutNext, Zenon
    <2> QED BY <1>2, <2>2, Zenon
  <1>5. WccLoad(n)'
    BY <1>1, <1>2, <1>3, <1>4, Zenon DEF WccLoad
  <1>6. num_vertices' = n
    BY <1>1, <1>2, Zenon DEF num_vertices
  <1>7. pc' = "load" /\ pc' # "wcc" /\ pc' # "bfs" /\ pc' # "done"
    BY <1>1, <1>2, Zenon
  <1> QED BY <1>1, <1>2, <1>5, <1>6, <1>7, Zenon DEF WccState

\* Nothing is labelled before weakly_cc.
LEMMA WccLoadDone ==
    ASSUME program = "wcc", NEW n \in 0 .. PolicySize, WccState(n), Loaded
    PROVE  WccState(n)' /\ pc' = "wcc"
  <1>1. /\ num_vertices = n /\ IsGraph(vertices, n) /\ DOMAIN ccs = 0 .. n - 1
        /\ todo = {} /\ fringe = <<>> /\ WccLoad(n)
    BY Zenon DEF WccState, Loaded
  <1>2. /\ i = n /\ cm' = cm /\ i' = 0 /\ pc' = "wcc"
        /\ vertices' = vertices /\ ccs' = ccs /\ cc' = cc /\ todo' = todo /\ fringe' = fringe
    BY <1>1, Zenon DEF Loaded
  <1>3. Labelled(vertices, ccs, {}, cc)
    <2>1. cc \in Nat \ {0} /\ 1 .. cc - 1 = {}
      BY <1>1 DEF WccLoad
    <2>2. Closed(vertices, {})
      BY Zenon DEF Closed
    <2>3. {ccs[u] : u \in {}} = {}
      BY Zenon
    <2> QED BY <2>1, <2>2, <2>3, Zenon DEF Labelled
  <1>4. Holding(cm, vertices, n, {}) /\ 0 \in 0 .. n /\ 0 .. 0 - 1 \subseteq {} /\ {} \in SUBSET (0 .. n - 1)
    BY <1>1, <1>2 DEF WccLoad
  <1>5. WccScan(n)'
    BY <1>2, <1>3, <1>4, Zenon DEF WccScan
  <1>6. num_vertices' = n
    BY <1>1, <1>2, Zenon DEF num_vertices
  <1>7. pc' # "load" /\ pc' # "bfs" /\ pc' # "done"
    BY <1>2, Zenon
  <1> QED BY <1>1, <1>2, <1>5, <1>6, <1>7, Zenon DEF WccState

\* weakly_cc passes a vertex that is labelled, and starts a bfs from one that is not.
LEMMA WccScans ==
    ASSUME NEW n \in 0 .. PolicySize, WccState(n), weakly_cc
    PROVE  WccState(n)' /\ pc' \in {"wcc", "bfs"}
  <1>1. /\ num_vertices = n /\ IsGraph(vertices, n) /\ DOMAIN ccs = 0 .. n - 1
        /\ todo = {} /\ fringe = <<>> /\ WccScan(n)
    BY Zenon DEF WccState, weakly_cc
  <1>2. PICK sn \in SUBSET (0 .. n - 1) :
            /\ Holding(cm, vertices, n, sn) /\ Labelled(vertices, ccs, sn, cc)
            /\ i \in 0 .. n /\ 0 .. i - 1 \subseteq sn
    BY <1>1, Zenon DEF WccScan
  <1>3. PICK g : g = get(cm, i)
    BY Zenon
  <1>4. /\ i < n /\ cm' = g.cm /\ pc = "wcc"
        /\ IF g.obj.seen THEN i' = i + 1 /\ fringe' = fringe /\ pc' = pc
                         ELSE fringe' = <<i>> /\ pc' = "bfs" /\ i' = i
        /\ vertices' = vertices /\ ccs' = ccs /\ cc' = cc /\ todo' = todo
    BY <1>1, <1>3, Zenon DEF weakly_cc
  <1>5. /\ i \in 0 .. n - 1 /\ i \in Nat /\ i + 1 \in 0 .. n /\ n \in Nat
        /\ 0 .. (i + 1) - 1 = 0 .. i - 1 \cup {i}
    BY <1>2, <1>4, PolicyAssumption
  <1>6. g.cm = cm /\ (g.obj.seen <=> i \in sn)
    <2>1. PICK c : c = cm
      BY Zenon
    <2>2. PICK vs : vs = vertices
      BY Zenon
    <2>3. PICK x : x = i
      BY Zenon
    <2>4. Holding(c, vs, n, sn) /\ x \in 0 .. n - 1 /\ g = get(c, x)
      BY <1>2, <1>3, <1>5, <2>1, <2>2, <2>3, Zenon
    <2>5. Gives(g, c, vs, sn, x)
      BY <2>4, GetCopy, Zenon
    <2>6. g.cm = c /\ (x \in sn => g.obj.seen) /\ (x \notin sn => ~g.obj.seen)
      BY <2>5, Zenon DEF Gives
    <2> QED BY <2>1, <2>3, <2>6, Zenon
  <1>7. num_vertices' = n
    BY <1>1, <1>4, Zenon DEF num_vertices
  <1>8. CASE i \in sn
    <2>1. i' = i + 1 /\ fringe' = fringe /\ pc' = "wcc" /\ cm' = cm
      BY <1>4, <1>6, <1>8, Zenon
    <2>2. 0 .. i' - 1 \subseteq sn
      BY <1>2, <1>5, <1>8, <2>1, Zenon
    <2>3. WccScan(n)'
      BY <1>2, <1>4, <1>5, <2>1, <2>2, Zenon DEF WccScan
    <2>4. pc' # "load" /\ pc' # "bfs" /\ pc' # "done"
      BY <2>1, Zenon
    <2> QED BY <1>1, <1>4, <1>7, <2>1, <2>3, <2>4, Zenon DEF WccState
  <1>9. CASE i \notin sn
    <2>1. i' = i /\ fringe' = <<i>> /\ pc' = "bfs" /\ cm' = cm
      BY <1>4, <1>6, <1>9, Zenon
    <2>2. i \in DOMAIN vertices \ sn
      BY <1>1, <1>5, <1>9, Zenon DEF IsGraph
    <2>3. Searching(vertices, ccs, sn, {}, <<i>>, {}, i, cc)
      BY <1>1, <1>2, <1>5, <2>2, SearchBegins, Zenon
    <2>4. sn \cup {} = sn /\ {} \in SUBSET (0 .. n - 1)
      BY Zenon
    <2>5. WccSearch(n)'
      BY <1>1, <1>2, <1>4, <1>5, <2>1, <2>3, <2>4, ZenonT(30) DEF WccSearch
    <2>6. pc' # "load" /\ pc' # "wcc" /\ pc' # "done"
      BY <2>1, Zenon
    <2> QED BY <1>1, <1>4, <1>7, <2>1, <2>5, <2>6, Zenon DEF WccState
  <1> QED BY <1>8, <1>9, Zenon

\* bfs takes a vertex from the fringe, flags it and labels it.
LEMMA WccTakes ==
    ASSUME NEW n \in 0 .. PolicySize, WccState(n), bfs
    PROVE  WccState(n)' /\ pc' = "bfs"
  <1>1. /\ num_vertices = n /\ IsGraph(vertices, n) /\ DOMAIN ccs = 0 .. n - 1 /\ WccSearch(n)
    BY Zenon DEF WccState, bfs
  <1>2. PICK old \in SUBSET (0 .. n - 1), new \in SUBSET (0 .. n - 1) :
            /\ Holding(cm, vertices, n, old \cup new)
            /\ Searching(vertices, ccs, old, new, fringe, todo, i, cc)
            /\ i \in 0 .. n - 1 /\ 0 .. i - 1 \subseteq old
    BY <1>1, Zenon DEF WccSearch
  <1>3. PICK c : c = cm
    BY Zenon
  <1>4. PICK vs : vs = vertices
    BY Zenon
  <1>5. PICK id : id = Head(fringe)
    BY Zenon
  <1>6. PICK g : g = get(c, id)
    BY Zenon
  <1>7. /\ todo = {} /\ fringe # <<>> /\ pc' = "bfs"
        /\ cm' = put(g.cm, id, [g.obj EXCEPT !.seen = TRUE])
        /\ ccs' = [ccs EXCEPT ![id] = cc] /\ todo' = g.obj.neighbors /\ fringe' = Tail(fringe)
        /\ vertices' = vertices /\ i' = i /\ cc' = cc
    BY <1>3, <1>5, <1>6, Zenon DEF bfs
  <1>8. DOMAIN vs = 0 .. n - 1 /\ IsGraph(vs, n)
    BY <1>1, <1>4, Zenon DEF IsGraph
  <1>9. /\ id \in 0 .. n - 1
        /\ Searching(vs, ccs', old, new \cup {id}, fringe', vs[id].neighbors, i, cc)
    <2>1. PICK q : q = fringe
      BY Zenon
    <2>2. PICK lab : lab = ccs
      BY Zenon
    <2>3. PICK r : r = i
      BY Zenon
    <2>4. PICK k : k = cc
      BY Zenon
    <2>5. Searching(vs, lab, old, new, q, {}, r, k) /\ q # <<>> /\ DOMAIN lab = DOMAIN vs /\ id = Head(q)
      BY <1>1, <1>2, <1>4, <1>5, <1>7, <1>8, <2>1, <2>2, <2>3, <2>4, Zenon
    <2>6. /\ id \in DOMAIN vs
          /\ Searching(vs, [lab EXCEPT ![id] = k], old, new \cup {id}, Tail(q), vs[id].neighbors, r, k)
      BY <1>8, <2>5, SearchTakes, Zenon
    <2> QED BY <1>7, <1>8, <2>1, <2>2, <2>3, <2>4, <2>6, Zenon
  <1>10. Holding(c, vs, n, old \cup new)
    BY <1>2, <1>3, <1>4, Zenon
  <1>11. /\ g.cm = c /\ g.obj.neighbors = vs[id].neighbors
         /\ [g.obj EXCEPT !.seen = TRUE] = Marked(vs[id].neighbors, TRUE)
    <2>1. Gives(g, c, vs, old \cup new, id)
      BY <1>6, <1>9, <1>10, GetCopy
    <2> QED BY <2>1, Zenon DEF Gives
  <1>12. Holding(cm', vs, n, old \cup (new \cup {id}))
    <2>1. PICK w : w = Marked(vs[id].neighbors, TRUE)
      BY Zenon
    <2>2. Holding(put(c, id, w), vs, n, (old \cup new) \cup {id})
      BY <1>9, <1>10, <2>1, PutHeld, Zenon
    <2>3. (old \cup new) \cup {id} = old \cup (new \cup {id}) /\ cm' = put(c, id, w)
      BY <1>7, <1>11, <2>1, Zenon
    <2> QED BY <2>2, <2>3, Zenon
  <1>13. WccSearch(n)'
    <2>1. new \cup {id} \in SUBSET (0 .. n - 1)
      BY <1>9, Zenon
    <2>2. /\ Holding(cm', vertices', n, old \cup (new \cup {id}))
          /\ Searching(vertices', ccs', old, new \cup {id}, fringe', todo', i', cc')
          /\ i' \in 0 .. n - 1 /\ 0 .. i' - 1 \subseteq old
      BY <1>2, <1>4, <1>7, <1>9, <1>11, <1>12, Zenon
    <2> QED BY <2>1, <2>2, Zenon DEF WccSearch
  <1>14. num_vertices' = n
    BY <1>1, <1>7, Zenon DEF num_vertices
  <1>15. DOMAIN ccs' = 0 .. n - 1
    BY <1>1, <1>7, Zenon
  <1>16. pc' # "load" /\ pc' # "wcc" /\ pc' # "done"
    BY <1>7, Zenon
  <1> QED BY <1>1, <1>7, <1>13, <1>14, <1>15, <1>16, Zenon DEF WccState

\* bfs handles one neighbour.
LEMMA WccSees ==
    ASSUME NEW n \in 0 .. PolicySize, WccState(n), bfs_Neighbor
    PROVE  WccState(n)' /\ pc' = "bfs"
  <1>1. /\ num_vertices = n /\ IsGraph(vertices, n) /\ DOMAIN ccs = 0 .. n - 1 /\ WccSearch(n)
    BY Zenon DEF WccState, bfs_Neighbor
  <1>2. PICK old \in SUBSET (0 .. n - 1), new \in SUBSET (0 .. n - 1) :
            /\ Holding(cm, vertices, n, old \cup new)
            /\ Searching(vertices, ccs, old, new, fringe, todo, i, cc)
            /\ i \in 0 .. n - 1 /\ 0 .. i - 1 \subseteq old
    BY <1>1, Zenon DEF WccSearch
  <1>3. PICK c : c = cm
    BY Zenon
  <1>4. PICK vs : vs = vertices
    BY Zenon
  <1>5. PICK v : v = Min(todo)
    BY Zenon
  <1>6. PICK g : g = get(c, v)
    BY Zenon
  <1>7. /\ todo # {} /\ pc' = "bfs" /\ cm' = g.cm
        /\ fringe' = IF g.obj.seen THEN fringe ELSE Append(fringe, v)
        /\ todo' = todo \ {v} /\ vertices' = vertices /\ i' = i /\ cc' = cc /\ ccs' = ccs
    BY <1>3, <1>5, <1>6, Zenon DEF bfs_Neighbor
  <1>8. DOMAIN vs = 0 .. n - 1 /\ IsGraph(vs, n) /\ DOMAIN vs \subseteq Nat
    <2>1. DOMAIN vs = 0 .. n - 1 /\ IsGraph(vs, n)
      BY <1>1, <1>4, Zenon DEF IsGraph
    <2>2. 0 .. n - 1 \subseteq Nat
      OBVIOUS
    <2> QED BY <2>1, <2>2, Zenon
  <1>9. PICK t : t = todo
    BY Zenon
  <1>10. v \in t /\ v \in 0 .. n - 1 /\ v \in Nat
    <2>1. t \subseteq ReachedFrom(vs, i) /\ i \in DOMAIN vs
      BY <1>2, <1>4, <1>9, Zenon DEF Searching
    <2>2. t \subseteq 0 .. n - 1
      BY <1>8, <2>1, ReachedClosed, Zenon
    <2>3. t \subseteq Nat /\ t # {}
      BY <1>7, <1>8, <1>9, <2>2, Zenon
    <2> QED BY <1>5, <1>8, <1>9, <2>2, <2>3, MinIsIn, Zenon
  <1>11. Holding(c, vs, n, old \cup new)
    BY <1>2, <1>3, <1>4, Zenon
  <1>12. g.cm = c /\ (v \in old \cup new => g.obj.seen) /\ (v \notin old \cup new => ~g.obj.seen)
    <2>1. Gives(g, c, vs, old \cup new, v)
      BY <1>6, <1>10, <1>11, GetCopy
    <2> QED BY <2>1, Zenon DEF Gives
  <1>13. fringe' = IF v \in old \cup new THEN fringe ELSE Append(fringe, v)
    BY <1>7, <1>12, Zenon
  <1>14. Searching(vs, ccs, old, new, fringe', t \ {v}, i, cc)
    <2>1. PICK q : q = fringe
      BY Zenon
    <2>2. PICK lab : lab = ccs
      BY Zenon
    <2>3. PICK r : r = i
      BY Zenon
    <2>4. PICK k : k = cc
      BY Zenon
    <2>5. PICK p : p = fringe'
      BY Zenon
    <2>6. Searching(vs, lab, old, new, q, t, r, k) /\ p = IF v \in old \cup new THEN q ELSE Append(q, v)
      BY <1>2, <1>4, <1>9, <1>13, <2>1, <2>2, <2>3, <2>4, <2>5, Zenon
    <2>7. Searching(vs, lab, old, new, p, t \ {v}, r, k)
      BY <1>8, <1>10, <2>6, SearchSees, Zenon
    <2> QED BY <2>2, <2>3, <2>4, <2>5, <2>7, Zenon
  <1>15. WccSearch(n)'
    <2>1. /\ Holding(cm', vertices', n, old \cup new)
          /\ Searching(vertices', ccs', old, new, fringe', todo', i', cc')
          /\ i' \in 0 .. n - 1 /\ 0 .. i' - 1 \subseteq old
      BY <1>2, <1>4, <1>7, <1>9, <1>11, <1>12, <1>14, Zenon
    <2> QED BY <2>1, Zenon DEF WccSearch
  <1>16. num_vertices' = n
    BY <1>1, <1>7, Zenon DEF num_vertices
  <1>17. pc' # "load" /\ pc' # "wcc" /\ pc' # "done"
    BY <1>7, Zenon
  <1> QED BY <1>1, <1>7, <1>15, <1>16, <1>17, Zenon DEF WccState

\* A bfs is over: the vertices of its component have its label.
LEMMA WccReturns ==
    ASSUME NEW n \in 0 .. PolicySize, WccState(n), bfs_Return
    PROVE  WccState(n)' /\ pc' = "wcc"
  <1>1. /\ num_vertices = n /\ IsGraph(vertices, n) /\ DOMAIN ccs = 0 .. n - 1 /\ WccSearch(n)
        /\ todo = {} /\ fringe = <<>> /\ pc' = "wcc" /\ i' = i + 1 /\ cc' = cc + 1
        /\ vertices' = vertices /\ cm' = cm /\ todo' = todo /\ fringe' = fringe /\ ccs' = ccs
    BY Zenon DEF WccState, bfs_Return
  <1>2. PICK old \in SUBSET (0 .. n - 1), new \in SUBSET (0 .. n - 1) :
            /\ Holding(cm, vertices, n, old \cup new)
            /\ Searching(vertices, ccs, old, new, fringe, todo, i, cc)
            /\ i \in 0 .. n - 1 /\ 0 .. i - 1 \subseteq old
    BY <1>1, Zenon DEF WccSearch
  <1>3. Labelled(vertices, ccs, old \cup new, cc + 1) /\ i \in new
    BY <1>1, <1>2, SearchEnds, Zenon
  <1>4. i + 1 \in 0 .. n /\ 0 .. (i + 1) - 1 = 0 .. i - 1 \cup {i}
    BY <1>2, PolicyAssumption
  <1>5. 0 .. (i + 1) - 1 \subseteq old \cup new /\ old \cup new \in SUBSET (0 .. n - 1)
    BY <1>2, <1>3, <1>4, Zenon
  <1>6. WccScan(n)'
    BY <1>1, <1>2, <1>3, <1>4, <1>5, Zenon DEF WccScan
  <1>7. num_vertices' = n
    BY <1>1, Zenon DEF num_vertices
  <1>8. pc' # "load" /\ pc' # "bfs" /\ pc' # "done"
    BY <1>1, Zenon
  <1> QED BY <1>1, <1>6, <1>7, <1>8, Zenon DEF WccState

\* The last vertex has been looked at: all are labelled.
LEMMA WccEnds ==
    ASSUME NEW n \in 0 .. PolicySize, WccState(n), wcc_Done
    PROVE  WccState(n)' /\ pc' = "done"
  <1>1. /\ num_vertices = n /\ IsGraph(vertices, n) /\ DOMAIN ccs = 0 .. n - 1 /\ WccScan(n)
        /\ i = num_vertices /\ pc' = "done" /\ todo = {} /\ fringe = <<>>
        /\ vertices' = vertices /\ todo' = todo /\ fringe' = fringe /\ ccs' = ccs /\ cc' = cc
    BY Zenon DEF WccState, wcc_Done
  <1>2. PICK sn \in SUBSET (0 .. n - 1) : Labelled(vertices, ccs, sn, cc) /\ 0 .. i - 1 \subseteq sn
    BY <1>1, Zenon DEF WccScan
  <1>3. sn = 0 .. n - 1
    BY <1>1, <1>2, Zenon
  <1>4. num_vertices' = n /\ Labelled(vertices', ccs', 0 .. n - 1, cc')
    BY <1>1, <1>2, <1>3, Zenon DEF num_vertices
  <1>5. pc' # "load" /\ pc' # "wcc" /\ pc' # "bfs"
    BY <1>1, Zenon
  <1> QED BY <1>1, <1>4, <1>5, Zenon DEF WccState

\* Every step keeps the invariant.
LEMMA WccStep == WccInv /\ [Next]_vars => WccInv'
  <1> SUFFICES ASSUME WccInv, [Next]_vars, program' = "wcc"
               PROVE  /\ pc' \in {"load", "wcc", "bfs", "done"}
                      /\ \E n \in 0 .. PolicySize : WccState(n)'
    BY Zenon DEF WccInv
  <1>1. program = "wcc"
    BY Zenon DEF Next, wcc_main, pageRank, vars, Load, Loaded, weakly_cc, bfs, bfs_Neighbor, bfs_Return,
           wcc_Done, PrefetchAhead, spread_Element, spread_Neighbor, spread_Done, update_Element,
           update_Done, page_rank_Print, page_rank_Done
  <1>2. pc \in {"load", "wcc", "bfs", "done"}
    BY <1>1, Zenon DEF WccInv
  <1>3. PICK n \in 0 .. PolicySize : WccState(n)
    BY <1>1, Zenon DEF WccInv
  <1> SUFFICES pc' \in {"load", "wcc", "bfs", "done"} /\ WccState(n)'
    BY Zenon
  <1>4. CASE Load
    <2>1. pc' = pc
      BY <1>4, Zenon DEF Load
    <2> QED BY <1>2, <1>3, <1>4, <2>1, WccLoads, Zenon
  <1>5. CASE Loaded
    BY <1>1, <1>3, <1>5, WccLoadDone, Zenon
  <1>6. CASE wcc_main
    <2>1. CASE weakly_cc
      BY <1>3, <2>1, WccScans, Zenon
    <2>2. CASE bfs
      BY <1>3, <2>2, WccTakes, Zenon
    <2>3. CASE bfs_Neighbor
      BY <1>3, <2>3, WccSees, Zenon
    <2>4. CASE bfs_Return
      BY <1>3, <2>4, WccReturns, Zenon
    <2>5. CASE wcc_Done
      BY <1>3, <2>5, WccEnds, Zenon
    <2> QED BY <1>6, <2>1, <2>2, <2>3, <2>4, <2>5, Zenon DEF wcc_main
  <1>7. CASE pageRank
    BY <1>2, <1>7, Zenon DEF pageRank, PrefetchAhead, spread_Element, spread_Neighbor, spread_Done,
       update_Element, update_Done, page_rank_Print, page_rank_Done
  <1>8. CASE UNCHANGED vars
    <2>1. /\ vertices' = vertices /\ cm' = cm /\ pc' = pc /\ i' = i /\ todo' = todo
          /\ fringe' = fringe /\ cc' = cc /\ ccs' = ccs
      BY <1>8, Zenon DEF vars
    <2>2. /\ num_vertices' = num_vertices /\ (WccLoad(n) => WccLoad(n)')
          /\ (WccScan(n) => WccScan(n)') /\ (WccSearch(n) => WccSearch(n)')
      BY <2>1, Zenon DEF num_vertices, WccLoad, WccScan, WccSearch
    <2> QED BY <1>2, <1>3, <2>1, <2>2, Zenon DEF WccState
  <1> QED BY <1>4, <1>5, <1>6, <1>7, <1>8, Zenon DEF Next

\* The graph as it is read.
LEMMA WccInit ==
    ASSUME WccFilesFit
    PROVE  Init => WccInv
  <1> SUFFICES ASSUME Init, program = "wcc" PROVE WccInv
    BY Zenon DEF WccInv
  <1>1. PICK file \in Files("wcc") :
            vertices = wcc_readGraph(file) /\ ccs = [j \in DOMAIN file |-> -1]
    BY Zenon DEF Init, make_undirected
  <1>2. PICK n \in 0 .. PolicySize :
            file \in [0 .. n - 1 -> SUBSET (0 .. n - 1)]
    BY <1>1, Zenon DEF WccFilesFit
  <1>3. n \in Nat /\ DOMAIN vertices = 0 .. n - 1 /\ DOMAIN ccs = 0 .. n - 1
    BY <1>1, <1>2, PolicyAssumption DEF wcc_readGraph
  <1>4. \A v \in 0 .. n - 1 : vertices[v].neighbors = file[v] /\ file[v] \subseteq 0 .. n - 1
    <2>1. \A v \in 0 .. n - 1 : vertices[v] = Vertex(file[v]) /\ file[v] \subseteq 0 .. n - 1
      BY <1>1, <1>2, Zenon DEF wcc_readGraph
    <2>2. \A nbs : Vertex(nbs).neighbors = nbs
      BY Zenon DEF Vertex
    <2> QED BY <2>1, <2>2, Zenon
  <1>5. IsGraph(vertices, n)
    <2>1. \A v \in 0 .. n - 1 : vertices[v] = Vertex(file[v])
      BY <1>1, <1>2, Zenon DEF wcc_readGraph
    <2> QED BY <1>2, <1>3, <1>4, <2>1, Zenon DEF IsGraph
  <1>6. num_vertices = n
    <2>1. 0 \in Int /\ n - 1 \in Int /\ (n = 0 => 0 > n - 1) /\ (n # 0 => ~(0 > n - 1))
      BY <1>3
    <2>2. Cardinality(0 .. n - 1) = IF 0 > n - 1 THEN 0 ELSE (n - 1) - 0 + 1
      BY <2>1, FS_Interval, Zenon
    <2> QED BY <1>3, <2>1, <2>2 DEF num_vertices
  <1>7. /\ cm = [cache |-> <<>>, order |-> <<>>, ids |-> {}, store |-> <<>>]
        /\ pc = "load" /\ i = 0 /\ cc = 1 /\ todo = {} /\ fringe = <<>>
    BY Zenon DEF Init
  <1>8. IsCM(cm) /\ cm.ids = 0 .. i - 1 /\ cm.order \in Seq(Nat) /\ Len(cm.order) = i
    BY <1>7 DEF IsCM
  <1>9. cm.cache = Shown(vertices, i, {})
    BY <1>7 DEF Shown
  <1>10. WccLoad(n)
    BY <1>3, <1>7, <1>8, <1>9 DEF WccLoad, Holding
  <1>11. WccState(n) /\ pc \in {"load", "wcc", "bfs", "done"}
    BY <1>3, <1>5, <1>6, <1>7, <1>10, Zenon DEF WccState
  <1> QED BY <1>11, Zenon DEF WccInv

\* With every edge both ways no edge enters a closed set.
LEMMA ClosedRest ==
    ASSUME NEW n, IsGraph(vertices, n), BothWays, NEW S, Closed(vertices, S)
    PROVE  Closed(vertices, DOMAIN vertices \ S)
  <1>1. DOMAIN vertices = 0 .. n - 1 /\ S \subseteq DOMAIN vertices
    BY Zenon DEF Closed, IsGraph
  <1>2. ASSUME NEW v \in DOMAIN vertices \ S, NEW w \in vertices[v].neighbors
        PROVE  w \in DOMAIN vertices \ S
    <2>1. w \in DOMAIN vertices /\ v \in vertices[w].neighbors
      BY <1>1, <1>2, Zenon DEF BothWays, IsGraph
    <2> QED BY <1>2, <2>1, Zenon DEF Closed
  <1> QED BY <1>2, Zenon DEF Closed

\* With every edge both ways what one vertex reaches, all it reaches do.
LEMMA ReachedSame ==
    ASSUME NEW n, IsGraph(vertices, n), BothWays, NEW u \in DOMAIN vertices,
           NEW v \in ReachedFrom(vertices, u)
    PROVE  v \in DOMAIN vertices /\ ReachedFrom(vertices, v) = ReachedFrom(vertices, u)
  <1>1. Closed(vertices, ReachedFrom(vertices, u)) /\ v \in DOMAIN vertices
    BY ReachedClosed, Zenon
  <1>2. ReachedFrom(vertices, v) \subseteq ReachedFrom(vertices, u)
    BY <1>1, ReachedLeast, Zenon
  <1>3. Closed(vertices, ReachedFrom(vertices, v)) /\ v \in ReachedFrom(vertices, v)
    BY <1>1, ReachedClosed, Zenon
  <1>4. u \in ReachedFrom(vertices, v)
    <2>1. SUFFICES ASSUME u \notin ReachedFrom(vertices, v) PROVE FALSE
      BY Zenon
    <2>2. PICK S : S = DOMAIN vertices \ ReachedFrom(vertices, v)
      BY Zenon
    <2>3. Closed(vertices, S) /\ u \in S
      BY <1>3, <2>1, <2>2, ClosedRest, Zenon
    <2>4. ReachedFrom(vertices, u) \subseteq S
      BY <2>3, ReachedLeast, Zenon
    <2> QED BY <1>3, <2>2, <2>4, Zenon
  <1>5. ReachedFrom(vertices, u) \subseteq ReachedFrom(vertices, v)
    BY <1>3, <1>4, ReachedLeast, Zenon
  <1> QED BY <1>1, <1>2, <1>5, Zenon

\* With every edge both ways the component of a vertex is what it reaches.
LEMMA ComponentIs ==
    ASSUME NEW n, IsGraph(vertices, n), BothWays, NEW u
    PROVE  Component(u) = ReachedFrom(vertices, u)
  <1> DEFINE linked == {S \in SUBSET DOMAIN vertices :
                          \A v \in S, w \in DOMAIN vertices : Linked(v, w) => w \in S}
             closed == {S \in SUBSET DOMAIN vertices :
                          \A v \in S : vertices[v].neighbors \subseteq S}
  <1>1. \A v \in DOMAIN vertices : vertices[v].neighbors \subseteq DOMAIN vertices
    BY Zenon DEF IsGraph
  <1>2. linked = closed
    BY <1>1, Zenon DEF BothWays, Linked
  <1> QED BY <1>2, Zenon DEF Component, ReachedFrom

\* With every edge both ways two vertices have one root exactly if they are joined.
LEMMA RootOfComponent ==
    ASSUME NEW n, IsGraph(vertices, n), BothWays, NEW u \in DOMAIN vertices, NEW v \in DOMAIN vertices
    PROVE  RootOf(vertices, u) = RootOf(vertices, v) <=> v \in ReachedFrom(vertices, u)
  <1>1. ASSUME RootOf(vertices, u) = RootOf(vertices, v) PROVE v \in ReachedFrom(vertices, u)
    <2>1. PICK r \in DOMAIN vertices : u \in ReachedFrom(vertices, r) /\ v \in ReachedFrom(vertices, r)
      BY <1>1, RootReaches, Zenon
    <2> QED BY <2>1, ReachedSame, Zenon
  <1>2. ASSUME v \in ReachedFrom(vertices, u) PROVE RootOf(vertices, u) = RootOf(vertices, v)
    <2>1. ReachedFrom(vertices, u) = ReachedFrom(vertices, v) /\ u \in ReachedFrom(vertices, u)
      BY <1>2, ReachedSame, ReachedClosed, Zenon
    <2>2. ASSUME NEW w \in DOMAIN vertices
          PROVE  u \in ReachedFrom(vertices, w) <=> v \in ReachedFrom(vertices, w)
      BY <1>2, <2>1, ReachedSame, Zenon
    <2>3. {w \in DOMAIN vertices : u \in ReachedFrom(vertices, w)}
          = {w \in DOMAIN vertices : v \in ReachedFrom(vertices, w)}
      BY <2>2, Zenon
    <2> QED BY <2>3, Zenon DEF RootOf
  <1> QED BY <1>1, <1>2, Zenon

\* For every graph and every cache that holds all of it: when wcc is done two
\* vertices have the same label exactly if the same bfs reaches them first, the
\* labels are 1 to the number of these searches, and in a graph with every edge
\* both ways the groups are the connected components.
THEOREM ComponentsFound ==
    ASSUME WccFilesFit
    PROVE  Spec => []ComponentsExact
  <1>1. ASSUME WccInv PROVE ComponentsExact
    <2> SUFFICES ASSUME program = "wcc", pc = "done"
                 PROVE  /\ \A u, v \in DOMAIN vertices : ccs[u] = ccs[v] <=> Root(u) = Root(v)
                        /\ {ccs[u] : u \in DOMAIN vertices}
                           = 1 .. Cardinality({Root(u) : u \in DOMAIN vertices})
                        /\ BothWays => WeaklyConnected
      BY Zenon DEF ComponentsExact
    <2>1. PICK n \in 0 .. PolicySize : WccState(n)
      BY <1>1, Zenon DEF WccInv
    <2>2. IsGraph(vertices, n) /\ Labelled(vertices, ccs, DOMAIN vertices, cc)
      BY <2>1, Zenon DEF WccState, IsGraph
    <2>3. /\ \A u, v \in DOMAIN vertices :
                 ccs[u] = ccs[v] <=> RootOf(vertices, u) = RootOf(vertices, v)
          /\ {ccs[u] : u \in DOMAIN vertices} = 1 .. cc - 1
      BY <2>2, Zenon DEF Labelled
    <2>4. Cardinality({RootOf(vertices, u) : u \in DOMAIN vertices}) = cc - 1
      BY <2>2, LabelsCount, Zenon
    <2>5. {Root(u) : u \in DOMAIN vertices} = {RootOf(vertices, u) : u \in DOMAIN vertices}
      BY RootIs, Zenon
    <2>6. \A u, v \in DOMAIN vertices : ccs[u] = ccs[v] <=> Root(u) = Root(v)
      BY <2>3, RootIs, Zenon
    <2>7. ASSUME BothWays PROVE WeaklyConnected
      <3>1. ASSUME NEW u \in DOMAIN vertices, NEW v \in DOMAIN vertices
            PROVE  ccs[u] = ccs[v] <=> v \in Component(u)
        <4>1. RootOf(vertices, u) = RootOf(vertices, v) <=> v \in ReachedFrom(vertices, u)
          BY <2>2, <2>7, RootOfComponent, Zenon
        <4>2. Component(u) = ReachedFrom(vertices, u)
          BY <2>2, <2>7, ComponentIs, Zenon
        <4> QED BY <2>3, <4>1, <4>2, Zenon
      <3> QED BY <3>1, Zenon DEF WeaklyConnected
    <2> QED BY <2>3, <2>4, <2>5, <2>6, <2>7, Zenon
  <1> QED BY <1>1, WccInit, WccStep, PTL DEF Spec
================================================================================
