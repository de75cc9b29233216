------------------------------ MODULE Training ------------------------------
(***************************************************************************)
(* The parameter-server training jobs (examples/ml): processes that meet   *)
(* only in the object store.  LoadingTask puts minibatches, PSTask         *)
(* publishes the model and folds gradients into it, the workers            *)
(* (LogisticTask) turn model and minibatch into gradients, ErrorTask       *)
(* reports the loss.  The logistic job reads minibatches through iterators *)
(* over two caches, the softmax job straight from the store.               *)
(*                                                                         *)
(* Every get and put of the store is one step (TCPClient and TCPServer are *)
(* modelled elsewhere).  A prefetch is carried out when it is issued: it   *)
(* precedes every later request of its client, and what the client does in *)
(* between touches nothing shared.  Numbers are left out: a model is the   *)
(* set of the gradients folded into it.                                    *)
(***************************************************************************)
EXTENDS Integers, Sequences, FiniteSets, FiniteSetsExt

CONSTANTS
    nworkers,      \* number of workers
    num_batches,   \* minibatches the configuration promises the workers
    LoadedBatches, \* minibatches the loader finds in its input
    READ_AHEAD,    \* prefetching distance of the iterators
    VersionSpace,  \* 2^32: a gradient's version is stored in 32 bits
    MaxVersion,    \* bound: gradients a worker makes
    Setups         \* the jobs, their timing and whether workers may die

Workers == 0 .. nworkers - 1

Batches == 0 .. num_batches - 1

ASSUME TrainingAssumption ==
    /\ nworkers \in 1 .. 10                    \* gradientVersions.resize(10)
    /\ {num_batches, LoadedBatches} \subseteq Nat \ {0}
    /\ READ_AHEAD \in Nat
    /\ {VersionSpace, MaxVersion} \subseteq Nat \ {0}
    /\ Setups \subseteq [job : {"logistic", "softmax"}, early : BOOLEAN, deaths : BOOLEAN]

VARIABLES
    setup,               \* which job runs, and how (never changes)
    samples, labels,     \* minibatches in the store: 0 .. samples - 1
    model,               \* the models in the store: none, or the one published
    gradient,            \* worker -> its gradient in the store
    ps, task, cache,     \* the parameter server; the workers and their caches
    loader, error        \* the other two tasks

storeVars == <<samples, labels, model, gradient>>
trainingVars == <<setup, samples, labels, model, gradient, ps, task, cache, loader, error>>

Start ==
    [pc |-> "model", first_time |-> TRUE, version |-> 0, samples_id |-> 0, labels_id |-> 0,
     todo |-> <<>>, data |-> <<>>]

\* sleep(10) before a worker's task, sleep(3) before the loader's: unless the
\* setup is early, the data is there before the workers start.
Awake == setup.early \/ loader = "done"

-----------------------------------------------------------------------------
(* LoadingTask: a minibatch's samples, then its labels.                    *)

PutSample ==
    /\ loader = "samples"
    /\ samples < LoadedBatches
    /\ samples' = samples + 1
    /\ loader' = "labels"
    /\ UNCHANGED <<setup, labels, model, gradient, ps, task, cache, error>>

PutLabel ==
    /\ loader = "labels"
    /\ labels' = labels + 1
    /\ loader' = IF samples = LoadedBatches THEN "done" ELSE "samples"
    /\ UNCHANGED <<setup, samples, model, gradient, ps, task, cache, error>>

LoadingTask == PutSample \/ PutLabel

-----------------------------------------------------------------------------
(* LogisticTask: a worker.                                                 *)

InStore(kind, id) == id < (IF kind = "samples" THEN samples ELSE labels)

Position(t, kind) == IF kind = "samples" THEN t.samples_id ELSE t.labels_id

\* CirrusIterable::Iterator::operator*: prefetch the next ids of the range.
ReadAheadOf(id) ==
    [i \in 1 .. (IF READ_AHEAD < num_batches THEN READ_AHEAD ELSE num_batches - 1) |->
        (id + i) % num_batches]

BeginRead(t, kind) ==
    [t EXCEPT !.pc = kind,
              !.todo = IF setup.job = "logistic" THEN ReadAheadOf(Position(t, kind)) ELSE <<>>]

\* Mutant: a failed read has already moved the iterator of the samples.
NoSuchID_Moved(t) ==
    [t EXCEPT !.pc = IF t.first_time THEN "model" ELSE "exit", !.data = <<>>,
              !.samples_id = IF t.pc = "labels" THEN (@ + 1) % num_batches ELSE @]

\* Mutant: a worker that finds nothing gives up.
NoSuchID_GivesUp(t) == [t EXCEPT !.pc = "exit", !.data = <<>>]

\* catch (NoSuchIDException): at first nothing may be there yet, later the end
\* of the data has been reached.
NoSuchID(t) == [t EXCEPT !.pc = IF t.first_time THEN "model" ELSE "exit", !.data = <<>>]

GetModel(w) ==
    LET t == task[w]
    IN  /\ t.pc = "model"
        /\ Awake
        /\ t.version < MaxVersion
        /\ task' = [task EXCEPT ![w] = IF model = {} THEN NoSuchID(t)
                                                    ELSE BeginRead(t, "samples")]
        /\ UNCHANGED <<setup, storeVars, ps, cache, loader, error>>

\* CacheManager::prefetch; a future that delivers NoSuchID stays in the cache.
PrefetchBatch(w) ==
    LET t == task[w]
        id == Head(t.todo)
    IN  /\ t.pc \in {"samples", "labels"}
        /\ t.todo # <<>>
        /\ task' = [task EXCEPT ![w].todo = Tail(@)]
        /\ cache' = IF cache[w][t.pc][id] # "none" THEN cache
                    ELSE [cache EXCEPT ![w][t.pc][id] =
                             IF InStore(t.pc, id) THEN "data" ELSE "NoSuchID"]
        /\ UNCHANGED <<setup, storeVars, ps, loader, error>>

\* What CacheManager::get finds in the cache afterwards: a get that fails
\* leaves a value-initialised pointer there, a failed prefetch stays.
CachedEntry(kind, id, entry) ==
    IF entry # "none" THEN entry ELSE IF InStore(kind, id) THEN "data" ELSE "null"

\* What a read of the minibatch delivers.
ReadResult(kind, id, entry) ==
    CASE entry \in {"data", "NoSuchID", "null"} -> entry
      [] entry = "none" -> IF InStore(kind, id) THEN "data" ELSE "NoSuchID"

\* The minibatch has arrived: on to the labels, then to the gradient.
BatchRead(t, id) == [t EXCEPT !.data = Append(@, id)]

\* *samples_iter, then *labels_iter (or the two gets).  A null pointer is
\* read through by the copy of the labels or by minibatch_grad.
GetBatch(w) ==
    LET t == task[w]
        id == Position(t, t.pc)
        entry == IF setup.job = "logistic" THEN cache[w][t.pc][id] ELSE "none"
        got == ReadResult(t.pc, id, entry)
    IN  /\ t.pc \in {"samples", "labels"}
        /\ t.todo = <<>>
        /\ cache' = IF setup.job = "softmax" THEN cache
                    ELSE [cache EXCEPT ![w][t.pc][id] = CachedEntry(t.pc, id, entry)]
        /\ task' = [task EXCEPT ![w] =
                       CASE got = "NoSuchID" -> NoSuchID(t)
                         [] got = "null" -> [t EXCEPT !.pc = "crashed"]
                         [] got = "data" /\ t.pc = "samples" -> BeginRead(BatchRead(t, id), "labels")
                         [] got = "data" /\ t.pc = "labels" ->
                               [BatchRead(t, id) EXCEPT !.pc = "put", !.first_time = FALSE]]
        /\ UNCHANGED <<setup, storeVars, ps, loader, error>>

\* serialize and loadSerialized: the 64-bit version travels in 32 bits; n is
\* the number itself.
Stored(version) == [version |-> version % VersionSpace, n |-> version]

\* The gradient is computed, numbered (version++) and put, and the worker
\* moves to the next minibatch.
PutGradient(w) ==
    LET t == task[w]
        next(id) == IF t.samples_id + 1 = num_batches THEN 0 ELSE id + 1
    IN  /\ t.pc = "put"
        /\ gradient' = [v \in DOMAIN gradient \cup {w} |->
                           IF v = w THEN Stored(t.version) ELSE gradient[v]]
        /\ task' = [task EXCEPT ![w] = [t EXCEPT !.pc = "model", !.version = @ + 1, !.data = <<>>,
                                                 !.samples_id = next(@),
                                                 !.labels_id = next(@)]]
        /\ UNCHANGED <<setup, samples, labels, model, ps, cache, loader, error>>

\* exit(-1) on an error of minibatch_grad or put, or the process is killed.
Die(w) ==
    /\ setup.deaths
    /\ Awake
    /\ task[w].pc \notin {"exit", "crashed", "dead"}
    /\ task' = [task EXCEPT ![w].pc = "dead"]
    /\ UNCHANGED <<setup, storeVars, ps, cache, loader, error>>

Work(w) == GetModel(w) \/ PrefetchBatch(w) \/ GetBatch(w) \/ PutGradient(w)

-----------------------------------------------------------------------------
(* PSTask.                                                                 *)

PublishFirst ==
    /\ ps.pc = "init"
    /\ model' = {{}}
    /\ ps' = [ps EXCEPT !.pc = "check"]
    /\ UNCHANGED <<setup, samples, labels, gradient, task, cache, loader, error>>

\* Mutant: the loop stops before the last worker.
NextWorker_Short(w) == (w + 1) % (nworkers - 1)

NextWorker(w) == (w + 1) % nworkers

\* Mutant: a gradient is new unless it is older than the last one.
IsNew_OrEqual(g, w) == g.version >= ps.gradientVersions[w]

IsNew(g, w) == g.version > ps.gradientVersions[w]

\* One turn of the loop over the workers that finds a gradient.  A worker that
\* has none yet is asked again at once (worker--; continue).
CheckGradient ==
    LET w == ps.worker
        g == gradient[w]
    IN  /\ ps.pc = "check"
        /\ w \in DOMAIN gradient
        /\ ps' = IF IsNew(g, w)
                 THEN [ps EXCEPT !.pc = "publish", !.gradientVersions[w] = g.version,
                                 !.model = @ \cup {<<w, g.n>>}, !.updates = @ + 1]
                 ELSE [ps EXCEPT !.worker = NextWorker(w)]
        /\ UNCHANGED <<setup, storeVars, task, cache, loader, error>>

Publish ==
    /\ ps.pc = "publish"
    /\ model' = {ps.model}
    /\ ps' = [ps EXCEPT !.pc = "check", !.worker = NextWorker(@)]
    /\ UNCHANGED <<setup, samples, labels, gradient, task, cache, loader, error>>

PSTask == PublishFirst \/ CheckGradient \/ Publish

-----------------------------------------------------------------------------
(* ErrorTask: since is what was loaded when it took the model, if it did.  *)

NoError == [pc |-> "model", took |-> FALSE, i |-> 0, since |-> 0]

\* Without a model the loop's catch is reached and a loss of 0 printed.
ErrorGetModel ==
    /\ error.pc = "model"
    /\ error' = IF model = {} THEN [error EXCEPT !.pc = "report"]
                ELSE [error EXCEPT !.pc = "batch", !.took = TRUE, !.since = labels]
    /\ UNCHANGED <<setup, storeVars, ps, task, cache, loader>>

\* Mutant: the last minibatch is taken for the end of the data.
AtEnd_Early(i) == ~InStore("samples", i + 1)

\* Samples and labels are read one after the other; the loader puts them in
\* that order, so the pair is missing at the first or at the second read.
AtEnd(i) == ~InStore("samples", i) \/ ~InStore("labels", i)

ErrorBatch ==
    /\ error.pc = "batch"
    /\ error' = IF ~AtEnd(error.i) THEN [error EXCEPT !.i = @ + 1]
                ELSE IF error.i = 0 THEN NoError
                ELSE [error EXCEPT !.pc = "report"]
    /\ UNCHANGED <<setup, storeVars, ps, task, cache, loader>>

Report ==
    /\ error.pc = "report"
    /\ error' = NoError
    /\ UNCHANGED <<setup, storeVars, ps, task, cache, loader>>

ErrorTask == ErrorGetModel \/ ErrorBatch \/ Report

-----------------------------------------------------------------------------

InitTraining ==
    /\ setup \in Setups
    /\ samples = 0
    /\ labels = 0
    /\ model = {}
    /\ gradient = <<>>
    /\ ps = [pc |-> "init", worker |-> 0, gradientVersions |-> [w \in Workers |-> 0],
             model |-> {}, updates |-> 0]
    /\ task = [w \in Workers |-> Start]
    /\ cache = [w \in Workers |-> [samples |-> [id \in Batches |-> "none"],
                                   labels |-> [id \in Batches |-> "none"]]]
    /\ loader = "samples"
    /\ error = NoError

NextTraining ==
    \/ LoadingTask
    \/ \E w \in Workers : Work(w) \/ Die(w)
    \/ PSTask
    \/ ErrorTask

TrainingSpec == InitTraining /\ [][NextTraining]_trainingVars

\* Each task is a process of its own.
FairTraining ==
    /\ TrainingSpec
    /\ WF_trainingVars(LoadingTask)
    /\ \A w \in Workers : WF_trainingVars(Work(w))
    /\ WF_trainingVars(PSTask)

-----------------------------------------------------------------------------
(* Properties.                                                             *)

\* Every sgd_update uses a gradient that no earlier one has used: polling the
\* same id again and again while the worker replaces the object there never
\* folds one gradient in twice.
AppliedOnce == ps.updates = Cardinality(ps.model)

\* A gradient is computed from the samples and the labels of one minibatch,
\* also when one of the two reads failed before and the worker tried again.
BatchesMatch == \A w \in Workers : task[w].pc = "put" => task[w].data[1] = task[w].data[2]

\* The data was there before the workers asked for it, or they do not keep
\* failed reads in a cache.
SafeSetup == setup.job = "softmax" \/ ~setup.early

\* The loss that is reported for a model covers every minibatch that was in the
\* store when the model was taken, and at least one.
LossCoversLoaded == error.pc = "report" /\ error.took => error.i > 0 /\ error.i >= error.since

\* PSTask "is responsible for ... receiving the gradient updates from the
\* workers": once all workers have put one, whatever gradient is in the store
\* is used, or a later one of the same worker.  The very first one, number 0,
\* is not (FirstGradientUsed).
GradientsUsed ==
    \A w \in Workers, n \in 1 .. MaxVersion :
        (DOMAIN gradient = Workers /\ gradient[w].n = n)
            ~> (\E m \in n .. MaxVersion : <<w, m>> \in ps.model)

\* A worker that lives gets the model and its first minibatch some time, although it may
\* have started before either was in the store.
WorkersStart == \A w \in Workers :
    SafeSetup ~> (~SafeSetup \/ task[w].version > 0 \/ task[w].pc = "dead")

\* "check if this is a gradient we haven't used before": a gradient that has
\* not been used is used when the parameter server sees it.
FirstGradientUsed ==
    [][CheckGradient =>
          <<ps.worker, gradient[ps.worker].n>> \in ps.model \cup ps'.model]_trainingVars

\* "for every worker, check for a new gradient computed": also when another
\* worker never puts one.
OthersUsed ==
    \A w \in Workers : (w \in DOMAIN gradient /\ gradient[w].n > 0) ~> (\E n \in 1 .. MaxVersion : <<w, n>> \in ps.model)

\* "we looked at all minibatches": what the loss is computed over.
LossCoversAll == error.pc = "report" /\ error.took => error.i = LoadedBatches

\* "this happens because the ps task has not uploaded the model yet": a worker
\* that starts early tries again until everything is there.
EarlyWorkersStart == \A w \in Workers : <>(task[w].version > 0)
=============================================================================
