--------------------- MODULE FullBladeObjectStoreProofs ---------------------
(***************************************************************************)
(* For any number of threads, objects and outstanding requests: what the   *)
(* reading methods of the store return was in it during the call, and a    *)
(* call that changes the store and returns has made all its changes, with  *)
(* no request of the thread still to come.                                 *)
(***************************************************************************)
EXTENDS FullBladeObjectStore, WellFoundedInduction, TLAPS

-----------------------------------------------------------------------------
(* The inductive invariant: first the client's futures, ...                *)

\* The futures in a thread's queue are its own, each is there once, and none has
\* an outcome yet.
QueueSound(u) ==
    /\ todo[u] \in Seq(Futures)
    /\ \A k \in 1 .. Len(todo[u]) :
          /\ todo[u][k] \in DOMAIN request \ DOMAIN done
          /\ todo[u][k][1] = u
    /\ \A j, k \in 1 .. Len(todo[u]) : todo[u][j] = todo[u][k] => j = k

ClientSound ==
    /\ DOMAIN todo = Users
    /\ todo = [u \in Users |-> todo[u]]
    /\ DOMAIN done \subseteq DOMAIN request
    /\ \A u \in Users : QueueSound(u)

-----------------------------------------------------------------------------
(* ... then the call of a thread: the shape of its state, ...              *)

Reads == {"get", "get_bulk", "get_bulk_fast"}
Phases == {"idle", "issue", "wait", "over"}

IsCall(c) ==
    /\ c = [args |-> c.args, phase |-> c.phase, i |-> c.i, futures |-> c.futures,
            res |-> c.res, error |-> c.error]
    /\ c.phase \in Phases
    /\ c.i \in Nat
    /\ c.futures \in Seq(Futures)
    /\ c.phase \in {"issue", "wait"} => c.error = "kOk"

IsArgs(a) ==
    /\ IsRange(a) => a.first \in Nat /\ a.last \in Nat
    /\ a.op = "get_bulk_fast" => a.oids \in Seq(ObjectID)

\* How far the loops of the methods are.
Counted(c) ==
    IF c.args.op \in {"get_bulk", "put_bulk"}
    THEN /\ c.phase = "issue" => Len(c.futures) = c.i /\ c.i < numObjects(c.args)
         /\ c.phase = "wait" => Len(c.futures) = numObjects(c.args) /\ c.i < Len(c.futures)
    ELSE /\ c.phase = "issue" => c.futures = <<>>
         /\ c.phase = "wait" => Len(c.futures) = 1
         /\ c.args.op # "removeBulk" /\ c.phase \in {"issue", "wait"} => c.i = 0

-----------------------------------------------------------------------------
(* ... the requests it still has to wait for, and what it has read.        *)

Waits(c, j) ==
    \/ c.phase = "issue"
    \/ c.phase = "wait" /\ (c.args.op = "removeBulk" \/ j > c.i)

Pending(c) == {j \in 1 .. Len(c.futures) : Waits(c, j)}

\* The j-th request of a call that reads.
AsksFor(a, j, req) ==
    /\ a.op = "get_bulk" => req = [op |-> "Read", oid |-> a.first + j - 1]
    /\ a.op = "get" => req = [op |-> "Read", oid |-> a.oid]
    /\ a.op = "get_bulk_fast" => req = [op |-> "ReadBulk", oids |-> a.oids]

\* A set H of contents of the store accounts for the outcome of that request.
Truthful(a, j, H, out) ==
    a.op \in Reads =>
        /\ out.error = "kOk" /\ a.op = "get_bulk" =>
              \E d \in H : Has(d, a.first + j - 1, out.data[1])
        /\ out.error = "kOk" /\ a.op # "get_bulk" =>
              /\ DOMAIN out.data = DOMAIN Oids(a)
              /\ \E d \in H : \A k \in DOMAIN Oids(a) : Has(d, Oids(a)[k], out.data[k])
        /\ out.error = "kNoSuchID" => \E d \in H, k \in DOMAIN Oids(a) : Oids(a)[k] \notin DOMAIN d

Outstanding(u) ==
    \A j \in Pending(call[u]) : LET f == call[u].futures[j]
    IN  /\ f \in DOMAIN request
        /\ f \notin left[u]
        /\ f[1] = u
        /\ AsksFor(call[u].args, j, request[f])
        /\ f \in DOMAIN done => Truthful(call[u].args, j, held[u], done[f])

Distinct(c) ==
    \A j, k \in Pending(c) : c.futures[j] = c.futures[k] => j = k

LeftBehind(u) == \A f \in left[u] : f \in DOMAIN request /\ f[1] = u

\* What get_bulk has put in the caller's array.
Filled(u) ==
    LET c == call[u]
    IN  c.args.op = "get_bulk" /\ c.phase = "wait" =>
            \A j \in 1 .. c.i : \E d \in held[u] : Has(d, c.args.first + j - 1, c.res[j])

\* ReadsHeld, of one thread.
ReadHeld(u) ==
    LET a == call[u].args
        oids == Oids(a)
        res == call[u].res
    IN  call[u].phase = "over" /\ a.op \in Reads =>
            /\ call[u].error = "kOk" => DOMAIN res = DOMAIN oids
            /\ call[u].error = "kOk" /\ a.op = "get_bulk" =>
                  \A i \in DOMAIN oids : \E d \in held[u] : Has(d, oids[i], res[i])
            /\ call[u].error = "kOk" /\ a.op # "get_bulk" =>
                  \E d \in held[u] : \A i \in DOMAIN oids : Has(d, oids[i], res[i])
            /\ call[u].error = "kNoSuchID" =>
                  \E d \in held[u], i \in DOMAIN oids : oids[i] \notin DOMAIN d

CallSound(u) ==
    /\ IsCall(call[u]) /\ IsArgs(call[u].args) /\ Counted(call[u])
    /\ call[u].phase # "idle" => dict \in held[u]
    /\ Outstanding(u) /\ Distinct(call[u]) /\ LeftBehind(u)
    /\ Filled(u) /\ ReadHeld(u)

IInv ==
    /\ ClientSound
    /\ DOMAIN call = Users /\ DOMAIN left = Users /\ DOMAIN held = Users
    /\ \A u \in Users : CallSound(u)

-----------------------------------------------------------------------------
(* The client's part.                                                      *)

\* A request more of a thread goes to the end of its queue.
LEMMA ClientIssue ==
    ASSUME ClientSound, NEW u \in Users, NEW f \in Futures, f[1] = u, NEW req,
           client!Issue(u, f, req)
    PROVE  ClientSound'
<1>1. /\ DOMAIN request' = DOMAIN request \cup {f} /\ f \notin DOMAIN request
      /\ done' = done /\ todo' = [todo EXCEPT ![u] = Append(@, f)]
  BY Zenon DEF client!Issue, client!Set
<1>2. ASSUME NEW w \in Users PROVE QueueSound(w)'
  <2>1. QueueSound(w) /\ QueueSound(u)
    BY Zenon DEF ClientSound
  <2>2. CASE w # u
    <3>1. todo'[w] = todo[w]
      BY <1>1, <2>2, Zenon DEF ClientSound
    <3> QED
      BY <2>1, <3>1, <1>1 DEF QueueSound
  <2>3. CASE w = u
    <3>1. todo'[u] = Append(todo[u], f)
      BY <1>1, Zenon DEF ClientSound
    <3>2. \A k \in 1 .. Len(todo[u]) : todo[u][k] # f
      BY <2>1, <1>1 DEF QueueSound
    <3>3. f \notin DOMAIN done
      BY <1>1, Zenon DEF ClientSound
    <3> QED
      BY <2>1, <2>3, <3>1, <3>2, <3>3, <1>1 DEF QueueSound
  <2> QED
    BY <2>2, <2>3, Zenon
<1>3. DOMAIN todo' = Users /\ todo' = [w \in Users |-> todo'[w]]
  BY <1>1, Zenon DEF ClientSound
<1> QED
  BY <1>1, <1>2, <1>3, Zenon DEF ClientSound

\* A future that has its outcome is in nobody's queue, so that it may go.
LEMMA ClientDeliver ==
    ASSUME ClientSound, NEW f, client!Deliver(f)
    PROVE  ClientSound'
<1>1. /\ f \in DOMAIN done
      /\ DOMAIN request' = DOMAIN request \ {f} /\ DOMAIN done' = DOMAIN done \ {f}
      /\ todo' = todo
  BY Zenon DEF client!Deliver, client!Drop
<1>2. ASSUME NEW w \in Users PROVE QueueSound(w)'
  <2>1. QueueSound(w)
    BY Zenon DEF ClientSound
  <2> QED
    BY <2>1, <1>1 DEF QueueSound
<1> QED
  BY <1>1, <1>2, Zenon DEF ClientSound

\* The server carries out the first request in the queue of a thread.
LEMMA ClientEffect ==
    ASSUME ClientSound, NEW u \in Users, client!Effect(u)
    PROVE  /\ ClientSound'
           /\ Head(todo[u]) \in DOMAIN request \ DOMAIN done
           /\ Head(todo[u]) \in Futures
           /\ Head(todo[u])[1] = u
<1> DEFINE f == Head(todo[u])
<1>1. QueueSound(u) /\ todo[u] # <<>>
  BY Zenon DEF ClientSound, client!Effect
<1>2. f = todo[u][1] /\ Len(todo[u]) > 0 /\ f \in Futures
  BY <1>1 DEF QueueSound
<1>3. f \in DOMAIN request \ DOMAIN done /\ f[1] = u
  BY <1>1, <1>2 DEF QueueSound
<1>4. /\ DOMAIN done' = DOMAIN done \cup {f} /\ request' = request
      /\ todo' = [todo EXCEPT ![u] = Tail(@)]
  BY Zenon DEF client!Effect, client!Set
<1> HIDE DEF f
<1>5. ASSUME NEW w \in Users PROVE QueueSound(w)'
  <2>1. QueueSound(w)
    BY Zenon DEF ClientSound
  <2>2. CASE w # u
    <3>1. todo'[w] = todo[w]
      BY <1>4, <2>2, Zenon DEF ClientSound
    <3>2. \A k \in 1 .. Len(todo[w]) : todo[w][k] # f
      BY <2>1, <2>2, <1>3, Zenon DEF QueueSound
    <3> QED
      BY <2>1, <3>1, <3>2, <1>4 DEF QueueSound
  <2>3. CASE w = u
    <3>1. todo'[u] = Tail(todo[u])
      BY <1>4, Zenon DEF ClientSound
    <3>2. /\ Len(todo'[u]) = Len(todo[u]) - 1
          /\ todo'[u] \in Seq(Futures)
          /\ \A k \in 1 .. Len(todo'[u]) : todo'[u][k] = todo[u][k + 1]
      BY <3>1, <1>1, <1>2 DEF QueueSound
    <3>3. Len(todo[u]) \in Nat
      BY <1>1 DEF QueueSound
    <3>4. \A k \in 1 .. Len(todo'[u]) : k + 1 \in 1 .. Len(todo[u]) /\ todo[u][k + 1] # f
      BY <1>1, <1>2, <3>2, <3>3 DEF QueueSound
    <3> QED
      BY <2>3, <1>1, <3>2, <3>3, <3>4, <1>4 DEF QueueSound
  <2> QED
    BY <2>2, <2>3, Zenon
<1>6. DOMAIN todo' = Users /\ todo' = [w \in Users |-> todo'[w]]
  BY <1>4, Zenon DEF ClientSound
<1>7. DOMAIN done' \subseteq DOMAIN request'
  BY <1>3, <1>4, Zenon DEF ClientSound
<1> QED
  BY <1>2, <1>3, <1>5, <1>6, <1>7, Zenon DEF ClientSound, f

-----------------------------------------------------------------------------
(* The calls.                                                              *)

\* A step of another thread leaves a call alone.
LEMMA Frame ==
    ASSUME NEW u \in Users, CallSound(u),
           call'[u] = call[u], left'[u] = left[u], held'[u] = held[u], dict' = dict,
           \A f : f[1] = u => /\ f \in DOMAIN request => f \in DOMAIN request' /\ request'[f] = request[f]
                              /\ f \in DOMAIN done' => f \in DOMAIN done /\ done'[f] = done[f]
    PROVE  CallSound(u)'
<1>1. Outstanding(u)'
  BY DEF CallSound, Outstanding
<1>2. LeftBehind(u)'
  BY Zenon DEF CallSound, LeftBehind
<1>3. Filled(u)' /\ ReadHeld(u)'
  BY Zenon DEF CallSound, Filled, ReadHeld
<1> QED
  BY <1>1, <1>2, <1>3, Zenon DEF CallSound

\* The server answers a read with what the store holds at that moment.
LEMMA Answered ==
    ASSUME NEW a, NEW j \in Nat, NEW req, NEW n, IsArgs(a), a.op \in Reads, AsksFor(a, j, req),
           a.op = "get_bulk" => j \in DOMAIN Oids(a)
    PROVE  Truthful(a, j, {dict}, client!Outcome(req, n))
<1> DEFINE out == client!Outcome(req, n)
<1>1. CASE a.op = "get_bulk"
  <2>1. out = client!Found(<<a.first + j - 1>>)
    BY <1>1 DEF AsksFor, client!Outcome
  <2>2. out.error = "kOk" => Has(dict, a.first + j - 1, out.data[1])
    BY <2>1 DEF client!Found, client!Answer, Has
  <2>3. out.error = "kNoSuchID" => a.first + j - 1 \notin DOMAIN dict
    BY <2>1 DEF client!Found, client!Answer
  <2>4. Oids(a)[j] = a.first + j - 1
    BY <1>1, Zenon DEF Oids, IsRange
  <2> QED
    BY <1>1, <2>2, <2>3, <2>4, Zenon DEF Truthful
<1>2. CASE a.op # "get_bulk"
  <2>1. out = client!Found(Oids(a))
    BY <1>2 DEF AsksFor, client!Outcome, Oids, IsRange, Reads
  <2>2. out.error = "kOk" => /\ DOMAIN out.data = DOMAIN Oids(a)
                             /\ \A k \in DOMAIN Oids(a) : Has(dict, Oids(a)[k], out.data[k])
    BY <2>1 DEF client!Found, client!Answer, Has
  <2>3. out.error = "kNoSuchID" => \E k \in DOMAIN Oids(a) : Oids(a)[k] \notin DOMAIN dict
    BY <2>1 DEF client!Found, client!Answer
  <2> HIDE DEF out
  <2> QED
    BY <1>2, <2>2, <2>3, Zenon DEF Truthful, out
<1> QED
  BY <1>1, <1>2, Zenon

\* What the store held once since the call began it has held ever after.
LEMMA TruthGrows ==
    ASSUME NEW a, NEW j, NEW H, NEW G, H \subseteq G, NEW out, Truthful(a, j, H, out)
    PROVE  Truthful(a, j, G, out)
  BY Zenon DEF Truthful

\* The server carries out a request of thread v.
LEMMA EffectStep ==
    ASSUME IInv, NEW v \in Users, Effect(v)
    PROVE  IInv'
<1> DEFINE g == Head(todo[v])
<1>1. PICK n : done' = client!Set(done, g, client!Outcome(request[g], n))
  BY Zenon DEF Effect, client!Effect
<1>2. request' = request /\ call' = call /\ left' = left
  BY Zenon DEF Effect, client!Effect
<1>3. DOMAIN done' = DOMAIN done \cup {g} /\ done'[g] = client!Outcome(request[g], n)
      /\ \A f \in DOMAIN done : f # g => done'[f] = done[f]
  BY <1>1, Zenon DEF client!Set
<1> HIDE DEF g
<1>4. ClientSound'
  BY ClientEffect, Zenon DEF IInv, Effect
<1>5. ASSUME NEW u \in Users PROVE CallSound(u)'
  <2>1. CallSound(u)
    BY Zenon DEF IInv
  <2>2. /\ held[u] \subseteq held'[u]
        /\ call[u].phase # "idle" => dict' \in held'[u]
    BY Zenon DEF Effect, IInv
  <2>3. Outstanding(u)'
    <3> SUFFICES ASSUME NEW j \in Pending(call[u]), call[u].futures[j] \in DOMAIN done'
                 PROVE  Truthful(call[u].args, j, held'[u], done'[call[u].futures[j]])
      BY <1>2, <2>1, Zenon DEF CallSound, Outstanding
    <3> DEFINE f == call[u].futures[j]
               a == call[u].args
    <3>1. CASE f # g
      <4>1. f \in DOMAIN done /\ done'[f] = done[f]
        BY <1>3, <3>1, Zenon
      <4>2. Truthful(a, j, held[u], done[f])
        BY <2>1, <4>1, Zenon DEF CallSound, Outstanding
      <4> QED
        BY <4>1, <4>2, <2>2, TruthGrows, Zenon
    <3>2. CASE f = g /\ a.op \in Reads
      <4>1. done'[f] = client!Outcome(request[f], n) /\ AsksFor(a, j, request[f])
        BY <1>3, <3>2, <2>1, Zenon DEF CallSound, Outstanding
      <4>2. j \in Nat /\ j >= 1 /\ j <= Len(call[u].futures) /\ Len(call[u].futures) \in Nat
            /\ call[u].phase \in {"issue", "wait"}
        BY <2>1 DEF CallSound, IsCall, Pending, Waits
      <4>3. a.op = "get_bulk" => j \in DOMAIN Oids(a)
        <5> SUFFICES ASSUME a.op = "get_bulk" PROVE j \in DOMAIN Oids(a)
          BY Zenon
        <5>1. IsRange(a) /\ numObjects(a) \in Int
          BY <2>1 DEF CallSound, IsArgs, IsRange, numObjects
        <5>2. j <= numObjects(a)
          BY <2>1, <4>2, <5>1 DEF CallSound, Counted, IsCall
        <5> QED
          BY <5>1, <5>2, <4>2 DEF Oids
      <4>4. Truthful(a, j, {dict}, done'[f])
        BY <4>1, <4>2, <4>3, <3>2, <2>1, Answered, Zenon DEF CallSound
      <4>5. {dict} \subseteq held'[u]
        BY <4>2, <2>1, <2>2, Zenon DEF CallSound
      <4> QED
        BY <4>4, <4>5, TruthGrows, Zenon
    <3>3. CASE a.op \notin Reads
      BY <3>3, Zenon DEF Truthful
    <3> QED
      BY <3>1, <3>2, <3>3, Zenon
  <2>4. Filled(u)' /\ ReadHeld(u)'
    BY <1>2, <2>1, <2>2, Zenon DEF CallSound, Filled, ReadHeld
  <2>5. LeftBehind(u)'
    BY <1>2, <2>1, Zenon DEF CallSound, LeftBehind
  <2> QED
    BY <1>2, <2>1, <2>2, <2>3, <2>4, <2>5, Zenon DEF CallSound
<1>6. DOMAIN held' = Users
  BY Zenon DEF Effect
<1> QED
  BY <1>2, <1>4, <1>5, <1>6, Zenon DEF IInv

\* A request more.
LEMMA IssueStep ==
    ASSUME IInv, NEW u \in Users, NEW req, NEW phase \in {"issue", "wait"}, NEW i \in Nat,
           Issue(u, req, phase, i),
           phase = "wait" => i = 0 \/ call[u].args.op = "removeBulk",
           Counted([call[u] EXCEPT !.futures = Append(@, <<u, 1>>), !.phase = phase, !.i = i]),
           AsksFor(call[u].args, Len(call[u].futures) + 1, req)
    PROVE  IInv'
<1> DEFINE k == CHOOSE k \in FreeFutures(u) : TRUE
           f == <<u, k>>
           c == call[u]
           s == Append(c.futures, f)
<1>1. k \in 1 .. Depth /\ f \in Futures /\ f[1] = u
  <2>1. FreeFutures(u) # {}
    BY Zenon DEF Issue
  <2>2. k \in FreeFutures(u)
    BY <2>1, Zenon
  <2> HIDE DEF k
  <2> QED
    BY <2>2, Zenon DEF FreeFutures, Futures
<1>2. /\ c.phase = "issue"
      /\ client!Issue(u, f, req)
      /\ call' = [call EXCEPT ![u].futures = Append(@, f), ![u].phase = phase, ![u].i = i]
      /\ left' = left /\ held' = held
  BY Zenon DEF Issue
<1> HIDE DEF k, f
<1>3. ClientSound'
  BY <1>1, <1>2, ClientIssue, Zenon DEF IInv
<1>4. /\ f \notin DOMAIN request /\ f \notin DOMAIN done
      /\ DOMAIN request' = DOMAIN request \cup {f}
      /\ request'[f] = req /\ \A h \in DOMAIN request : request'[h] = request[h]
      /\ done' = done /\ dict' = dict
  BY <1>2, Zenon DEF client!Issue, client!Set, IInv, ClientSound
<1>5. ASSUME NEW w \in Users, w # u PROVE CallSound(w)'
  <2>1. CallSound(w) /\ call'[w] = call[w]
    BY <1>2, <1>5, Zenon DEF IInv
  <2> QED
    BY <1>2, <1>4, <2>1, Frame, Zenon
<1>6. CallSound(u)
  BY Zenon DEF IInv
<1>7. /\ IsCall(c)
      /\ call'[u] = [args |-> c.args, phase |-> phase, i |-> i, futures |-> s,
                     res |-> c.res, error |-> c.error]
  BY <1>2, <1>6, Zenon DEF CallSound, IsCall, IInv
<1>8. /\ s \in Seq(Futures) /\ Len(s) = Len(c.futures) + 1 /\ Len(c.futures) \in Nat
      /\ s[Len(s)] = f /\ \A j \in 1 .. Len(c.futures) : s[j] = c.futures[j]
  BY <1>1, <1>7 DEF IsCall
<1> HIDE DEF s
<1>9. IsCall(call'[u]) /\ IsArgs(call'[u].args)
  <2>1. /\ call'[u].args = c.args /\ call'[u].phase = phase /\ call'[u].i = i
        /\ call'[u].futures = s /\ call'[u].res = c.res /\ call'[u].error = c.error
    BY <1>7
  <2>2. c.error = "kOk" /\ IsArgs(c.args)
    BY <1>2, <1>6, <1>7, Zenon DEF CallSound, IsCall
  <2> QED
    BY <1>7, <1>8, <2>1, <2>2, Zenon DEF IsCall, Phases
<1>10. Counted(call'[u])
  <2> DEFINE t == [c EXCEPT !.futures = Append(@, <<u, 1>>), !.phase = phase, !.i = i]
  <2>1. Len(Append(c.futures, <<u, 1>>)) = Len(s)
    <3>1. <<u, 1>> \in Futures
      BY StoreAssumption DEF Futures
    <3> QED
      BY <3>1, <1>7, <1>8 DEF IsCall
  <2>2. t.args = c.args /\ t.phase = phase /\ t.i = i /\ t.futures = Append(c.futures, <<u, 1>>)
    BY <1>7, Zenon DEF IsCall
  <2>3. t.futures # <<>> /\ s # <<>>
    BY <2>1, <2>2, <1>8
  <2>4. Counted(t)
    BY Zenon
  <2>5. /\ call'[u].args = c.args /\ call'[u].phase = phase /\ call'[u].i = i
        /\ call'[u].futures = s
    BY <1>7
  <2> HIDE DEF t
  <2> QED
    BY <2>1, <2>2, <2>3, <2>4, <2>5, Zenon DEF Counted
<1>11. \A j \in Pending(call'[u]) : j = Len(s) \/ (j \in Pending(c) /\ j \in 1 .. Len(c.futures))
  BY <1>2, <1>7, <1>8 DEF Pending, Waits
<1>12. Outstanding(u)'
  <2> SUFFICES ASSUME NEW j \in Pending(call'[u])
               PROVE  LET h == call'[u].futures[j]
                      IN  /\ h \in DOMAIN request' /\ h \notin left'[u] /\ h[1] = u
                          /\ AsksFor(call'[u].args, j, request'[h])
                          /\ h \in DOMAIN done' => Truthful(call'[u].args, j, held'[u], done'[h])
    BY Zenon DEF Outstanding
  <2>1. CASE j = Len(s)
    <3>1. call'[u].futures[j] = f /\ call'[u].args = c.args /\ j = Len(c.futures) + 1
      BY <1>7, <1>8, <2>1
    <3>2. f \notin left[u]
      BY <1>4, <1>6, Zenon DEF CallSound, LeftBehind
    <3> QED
      BY <1>1, <1>2, <1>4, <3>1, <3>2, Zenon
  <2>2. CASE j \in Pending(c) /\ j \in 1 .. Len(c.futures)
    <3>1. call'[u].futures[j] = c.futures[j] /\ call'[u].args = c.args
      BY <1>7, <1>8, <2>2
    <3> QED
      BY <1>2, <1>4, <1>6, <2>2, <3>1 DEF CallSound, Outstanding
  <2> QED
    BY <1>11, <2>1, <2>2, Zenon
<1>13. Distinct(call'[u])
  <2>1. \A j \in Pending(c) : c.futures[j] # f
    BY <1>4, <1>6, Zenon DEF CallSound, Outstanding
  <2>2. call'[u].futures = s
    BY <1>7
  <2> QED
    BY <1>6, <1>8, <1>11, <2>1, <2>2 DEF CallSound, Distinct
<1>14. LeftBehind(u)'
  BY <1>2, <1>4, <1>6, Zenon DEF CallSound, LeftBehind
<1>15. Filled(u)' /\ ReadHeld(u)'
  BY <1>7 DEF Filled, ReadHeld
<1>16. dict' \in held'[u]
  BY <1>2, <1>4, <1>6, Zenon DEF CallSound
<1>17. CallSound(u)'
  BY <1>9, <1>10, <1>12, <1>13, <1>14, <1>15, <1>16, Zenon DEF CallSound
<1>18. DOMAIN call' = Users
  BY <1>2, Zenon DEF IInv
<1> QED
  BY <1>2, <1>3, <1>5, <1>17, <1>18, Zenon DEF IInv

\* What the delivery of a future changes, and that it disturbs no other thread.
LEMMA Delivered ==
    ASSUME IInv, NEW u \in Users, NEW f, f[1] = u, client!Deliver(f),
           DOMAIN call' = Users, DOMAIN left' = Users, held' = held,
           \A w \in Users : w # u => call'[w] = call[w] /\ left'[w] = left[w]
    PROVE  /\ ClientSound'
           /\ \A w \in Users : w # u => CallSound(w)'
           /\ DOMAIN held' = Users
           /\ f \in DOMAIN done /\ dict' = dict
           /\ \A h : h # f => /\ h \in DOMAIN request => h \in DOMAIN request' /\ request'[h] = request[h]
                              /\ h \in DOMAIN done' => h \in DOMAIN done /\ done'[h] = done[h]
<1>1. ClientSound'
  BY ClientDeliver, Zenon DEF IInv
<1>2. /\ f \in DOMAIN done /\ dict' = dict
      /\ \A h : h # f => /\ h \in DOMAIN request => h \in DOMAIN request' /\ request'[h] = request[h]
                         /\ h \in DOMAIN done' => h \in DOMAIN done /\ done'[h] = done[h]
  BY Zenon DEF client!Deliver, client!Drop
<1>3. ASSUME NEW w \in Users, w # u PROVE CallSound(w)'
  <2>1. CallSound(w) /\ call'[w] = call[w] /\ left'[w] = left[w]
    BY <1>3, Zenon DEF IInv
  <2>2. \A h : h[1] = w => h # f
    BY <1>3, Zenon
  <2> QED
    BY <1>2, <2>1, <2>2, Frame, Zenon
<1> QED
  BY <1>1, <1>2, <1>3, Zenon DEF IInv

\* The next future of a call has its result, or its exception.
LEMMA FutureGetStep ==
    ASSUME IInv, NEW u \in Users, call[u].args.op # "removeBulk", future_get(u)
    PROVE  IInv'
<1> DEFINE c == call[u]
           a == c.args
           n == c.i + 1
           f == c.futures[n]
           out == done[f]
<1>1. /\ c.phase = "wait" /\ f \in DOMAIN done /\ client!Deliver(f) /\ held' = held
  BY Zenon DEF future_get, Ready
<1>2. CallSound(u) /\ IsCall(c) /\ Counted(c)
  BY Zenon DEF IInv, CallSound
<1>3. c.i \in Nat /\ Len(c.futures) \in Nat /\ n <= Len(c.futures)
  BY <1>1, <1>2 DEF IsCall, Counted
<1>4. Pending(c) = n .. Len(c.futures)
  BY <1>1, <1>3 DEF Pending, Waits
<1>5. n \in Pending(c)
  BY <1>3, <1>4
<1>6. f[1] = u /\ Truthful(a, n, held[u], out)
  BY <1>1, <1>2, <1>5, Zenon DEF CallSound, Outstanding
<1>7. \A j \in n + 1 .. Len(c.futures) : j \in Pending(c) /\ c.futures[j] # f
  BY <1>2, <1>3, <1>4, <1>5 DEF CallSound, Distinct
<1> HIDE DEF f, out, n
<1>8. CASE out.error = "kOk"
  <2> DEFINE phase == IF n = Len(c.futures) THEN "over" ELSE "wait"
  <2>1. /\ call' = [call EXCEPT ![u].res = Result(c, out), ![u].i = @ + 1, ![u].phase = phase]
        /\ left' = left
    BY <1>8, Zenon DEF future_get, f, out, n
  <2>2. call'[u] = [args |-> a, phase |-> phase, i |-> n, futures |-> c.futures,
                    res |-> Result(c, out), error |-> c.error]
    BY <2>1, <1>2, Zenon DEF IInv, IsCall, n
  <2>3. DOMAIN call' = Users /\ DOMAIN left' = Users
        /\ \A w \in Users : w # u => call'[w] = call[w] /\ left'[w] = left[w]
    BY <2>1, Zenon DEF IInv
  <2>4. /\ ClientSound' /\ \A w \in Users : w # u => CallSound(w)'
        /\ DOMAIN held' = Users /\ dict' = dict
        /\ \A h : h # f => /\ h \in DOMAIN request => h \in DOMAIN request' /\ request'[h] = request[h]
                           /\ h \in DOMAIN done' => h \in DOMAIN done /\ done'[h] = done[h]
    BY <1>1, <1>6, <2>3, Delivered
  <2>5. /\ call'[u].args = a /\ call'[u].phase = phase /\ call'[u].i = n
        /\ call'[u].futures = c.futures /\ call'[u].res = Result(c, out)
        /\ call'[u].error = c.error
    BY <2>2
  <2>6. IsCall(call'[u]) /\ IsArgs(call'[u].args)
    BY <2>2, <1>1, <1>2, <1>3 DEF CallSound, IsCall, Phases, n
  <2>7. Counted(call'[u])
    <3>1. CASE a.op \in {"get_bulk", "put_bulk"}
      <4>1. Len(c.futures) = numObjects(a)
        BY <3>1, <1>1, <1>2, Zenon DEF Counted
      <4>2. phase = "wait" => n < Len(c.futures)
        BY <1>3 DEF n
      <4> HIDE DEF phase
      <4>3. phase # "issue"
        BY Zenon DEF phase
      <4> QED
        BY <3>1, <4>1, <4>2, <4>3, <2>5, Zenon DEF Counted
    <3>2. CASE a.op \notin {"get_bulk", "put_bulk"}
      <4>1. phase = "over"
        <5>1. Counted(c) /\ c.phase = "wait" /\ a.op # "removeBulk"
          BY <1>1, <1>2, Zenon
        <5>2. Len(c.futures) = 1 /\ c.i = 0
          BY <3>2, <5>1, Zenon DEF Counted
        <5> QED
          BY <5>2 DEF n
      <4> QED
        BY <3>2, <4>1, <2>5, Zenon DEF Counted
    <3> QED
      BY <3>1, <3>2, Zenon
  <2>8. \A j \in Pending(call'[u]) : j \in n + 1 .. Len(c.futures)
    BY <2>5, <1>3 DEF Pending, Waits, n
  <2>9. Outstanding(u)'
    <3> SUFFICES ASSUME NEW j \in Pending(call'[u])
                 PROVE  LET h == c.futures[j]
                        IN  /\ h \in DOMAIN request' /\ h \notin left'[u] /\ h[1] = u
                            /\ AsksFor(a, j, request'[h])
                            /\ h \in DOMAIN done' => Truthful(a, j, held'[u], done'[h])
      BY <2>5, Zenon DEF Outstanding
    <3>1. j \in Pending(c) /\ c.futures[j] # f
      BY <2>8, <1>7, Zenon
    <3> QED
      BY <3>1, <1>1, <1>2, <2>1, <2>4 DEF CallSound, Outstanding
  <2>10. Distinct(call'[u])
    BY <2>5, <2>8, <1>7, <1>2, Zenon DEF CallSound, Distinct
  <2>11. LeftBehind(u)'
    <3>1. f \notin left[u]
      BY <1>2, <1>5, Zenon DEF CallSound, Outstanding, f
    <3> QED
      BY <3>1, <2>1, <2>4, <1>2, Zenon DEF CallSound, LeftBehind
  <2>12. ASSUME a.op = "get_bulk" PROVE Filled(u)' /\ ReadHeld(u)'
    <3>1. /\ DOMAIN Result(c, out) = 1 .. n /\ Result(c, out)[n] = out.data[1]
          /\ \A j \in 1 .. c.i : Result(c, out)[j] = c.res[j]
      BY <2>12, <1>3 DEF Result, n
    <3>2. \E d \in held[u] : Has(d, a.first + n - 1, out.data[1])
      BY <2>12, <1>6, <1>8, Zenon DEF Truthful, Reads
    <3>3. \A j \in 1 .. c.i : \E d \in held[u] : Has(d, a.first + j - 1, c.res[j])
      BY <2>12, <1>1, <1>2, Zenon DEF CallSound, Filled
    <3>4. \A j \in 1 .. n : \E d \in held[u] : Has(d, a.first + j - 1, Result(c, out)[j])
      <4>1. \A j \in 1 .. n : j = n \/ j \in 1 .. c.i
        BY <1>3 DEF n
      <4> QED
        BY <4>1, <3>1, <3>2, <3>3, Zenon
    <3>5. n = Len(c.futures) => Oids(a) = [j \in 1 .. n |-> a.first + j - 1]
      BY <2>12, <1>1, <1>2, Zenon DEF Counted, Oids, IsRange
    <3>6. Filled(u)'
      BY <2>5, <3>4, <1>1, Zenon DEF Filled
    <3>7. ReadHeld(u)'
      <4>1. SUFFICES ASSUME n = Len(c.futures), call'[u].phase = "over" PROVE ReadHeld(u)'
        BY <2>5, Zenon DEF ReadHeld
      <4>2. DOMAIN Oids(a) = 1 .. n /\ \A j \in 1 .. n : Oids(a)[j] = a.first + j - 1
        BY <3>5, <4>1, Zenon
      <4>3. c.error = "kOk"
        BY <1>1, <1>2, Zenon DEF CallSound, IsCall
      <4> QED
        BY <4>2, <4>3, <2>5, <2>12, <3>1, <3>4, <1>1 DEF ReadHeld
    <3> QED
      BY <3>6, <3>7, Zenon
  <2>13. ASSUME a.op # "get_bulk" PROVE Filled(u)' /\ ReadHeld(u)'
    <3>1. Filled(u)'
      BY <2>13, <2>5, Zenon DEF Filled
    <3>2. CASE a.op \in Reads
      <4>1. Result(c, out) = out.data
        BY <2>13, Zenon DEF Result
      <4>2. /\ DOMAIN out.data = DOMAIN Oids(a)
            /\ \E d \in held[u] : \A k \in DOMAIN Oids(a) : Has(d, Oids(a)[k], out.data[k])
        BY <2>13, <3>2, <1>6, <1>8, Zenon DEF Truthful
      <4>3. c.error = "kOk"
        BY <1>1, <1>2, Zenon DEF IsCall
      <4> QED
        BY <2>13, <2>5, <4>1, <4>2, <4>3, <3>1, <1>1, Zenon DEF ReadHeld
    <3>3. CASE a.op \notin Reads
      BY <2>5, <3>1, <3>3, Zenon DEF ReadHeld
    <3> QED
      BY <3>2, <3>3, Zenon
  <2>14. dict' \in held'[u]
    BY <1>1, <1>2, <2>4, Zenon DEF CallSound
  <2>15. CallSound(u)'
    BY <2>6, <2>7, <2>9, <2>10, <2>11, <2>12, <2>13, <2>14, Zenon DEF CallSound
  <2> QED
    BY <2>3, <2>4, <2>15, Zenon DEF IInv
<1>9. CASE out.error # "kOk"
  <2> DEFINE rest == {c.futures[j] : j \in c.i + 2 .. Len(c.futures)}
  <2>1. /\ call' = [call EXCEPT ![u].error = out.error, ![u].phase = "over"]
        /\ left' = [left EXCEPT ![u] = @ \cup rest]
    BY <1>9, Zenon DEF future_get, f, out, n
  <2>2. call'[u] = [args |-> a, phase |-> "over", i |-> c.i, futures |-> c.futures,
                    res |-> c.res, error |-> out.error]
    BY <2>1, <1>2, Zenon DEF IInv, IsCall
  <2>3. DOMAIN call' = Users /\ DOMAIN left' = Users /\ left'[u] = left[u] \cup rest
        /\ \A w \in Users : w # u => call'[w] = call[w] /\ left'[w] = left[w]
    BY <2>1, Zenon DEF IInv
  <2> HIDE DEF rest
  <2>4. /\ ClientSound' /\ \A w \in Users : w # u => CallSound(w)'
        /\ DOMAIN held' = Users /\ dict' = dict
        /\ \A h : h # f => /\ h \in DOMAIN request => h \in DOMAIN request' /\ request'[h] = request[h]
                           /\ h \in DOMAIN done' => h \in DOMAIN done /\ done'[h] = done[h]
    BY <1>1, <1>6, <2>3, Delivered
  <2>5. /\ call'[u].args = a /\ call'[u].phase = "over" /\ call'[u].error = out.error
    BY <2>2
  <2>6. IsCall(call'[u]) /\ IsArgs(call'[u].args) /\ Counted(call'[u])
    <3>1. /\ call'[u].i = c.i /\ call'[u].futures = c.futures /\ call'[u].res = c.res
      BY <2>2
    <3>2. IsCall(call'[u])
      BY <2>2, <2>5, <3>1, <1>2, Zenon DEF IsCall, Phases
    <3>3. IsArgs(call'[u].args)
      BY <2>5, <1>2, Zenon DEF CallSound
    <3>4. Counted(call'[u])
      BY <2>5, Zenon DEF Counted
    <3> QED
      BY <3>2, <3>3, <3>4, Zenon
  <2>7. Pending(call'[u]) = {}
    BY <2>5, Zenon DEF Pending, Waits
  <2>8. LeftBehind(u)'
    <3>1. \A h \in left[u] : h # f /\ h \in DOMAIN request /\ h[1] = u
      BY <1>2, <1>5, Zenon DEF CallSound, Outstanding, LeftBehind, f
    <3>2. \A h \in rest : h # f /\ h \in DOMAIN request /\ h[1] = u
      <4> SUFFICES ASSUME NEW j \in c.i + 2 .. Len(c.futures)
                   PROVE  LET h == c.futures[j] IN h # f /\ h \in DOMAIN request /\ h[1] = u
        BY Zenon DEF rest
      <4>1. j \in Pending(c) /\ c.futures[j] # f
        BY <1>3, <1>7 DEF n
      <4> QED
        BY <4>1, <1>2, Zenon DEF CallSound, Outstanding
    <3> QED
      BY <3>1, <3>2, <2>3, <2>4, Zenon DEF LeftBehind
  <2>9. Outstanding(u)' /\ Distinct(call'[u]) /\ Filled(u)'
    BY <2>5, <2>7, Zenon DEF Outstanding, Distinct, Filled
  <2>10. ReadHeld(u)'
    BY <2>5, <1>1, <1>6, <1>9, Zenon DEF ReadHeld, Truthful
  <2>11. dict' \in held'[u]
    BY <1>1, <1>2, <2>4, Zenon DEF CallSound
  <2>12. CallSound(u)'
    BY <2>6, <2>8, <2>9, <2>10, <2>11, Zenon DEF CallSound
  <2> QED
    BY <2>3, <2>4, <2>12, Zenon DEF IInv
<1> QED
  BY <1>8, <1>9, Zenon

\* The removal of one of several objects is over.
LEMMA RemoveStep ==
    ASSUME IInv, NEW u \in Users, removeBulk_Next(u)
    PROVE  IInv'
<1> DEFINE c == call[u]
           f == c.futures[1]
<1>1. /\ c.args.op = "removeBulk" /\ c.phase = "wait" /\ client!Deliver(f)
      /\ call' = [call EXCEPT ![u].phase = "issue", ![u].futures = <<>>,
                              ![u].i = (@ + 1) % IdSpace]
      /\ left' = left /\ held' = held
  BY Zenon DEF removeBulk_Next, Method, Ready
<1>2. CallSound(u) /\ IsCall(c)
  BY Zenon DEF IInv, CallSound
<1>3. call'[u] = [args |-> c.args, phase |-> "issue", i |-> (c.i + 1) % IdSpace,
                  futures |-> <<>>, res |-> c.res, error |-> c.error]
  BY <1>1, <1>2, Zenon DEF IInv, IsCall
<1>4. 1 \in Pending(c)
  BY <1>1, <1>2 DEF CallSound, Counted, Pending, Waits
<1>5. f[1] = u /\ f \notin left[u]
  BY <1>2, <1>4, Zenon DEF CallSound, Outstanding
<1>6. DOMAIN call' = Users /\ DOMAIN left' = Users
      /\ \A w \in Users : w # u => call'[w] = call[w] /\ left'[w] = left[w]
  BY <1>1, Zenon DEF IInv
<1> HIDE DEF f
<1>7. /\ ClientSound' /\ \A w \in Users : w # u => CallSound(w)'
      /\ DOMAIN held' = Users /\ dict' = dict
      /\ \A h : h # f /\ h \in DOMAIN request => h \in DOMAIN request'
  BY <1>1, <1>5, <1>6, Delivered
<1>8. (c.i + 1) % IdSpace \in Nat
  BY <1>2, StoreAssumption DEF IsCall
<1>9. IsCall(call'[u])
  <2>1. /\ call'[u].args = c.args /\ call'[u].phase = "issue" /\ call'[u].i = (c.i + 1) % IdSpace
        /\ call'[u].futures = <<>> /\ call'[u].res = c.res /\ call'[u].error = c.error
    BY <1>3
  <2>2. c.error = "kOk" /\ <<>> \in Seq(Futures)
    BY <1>1, <1>2 DEF IsCall
  <2> QED
    BY <1>3, <1>8, <2>1, <2>2, Zenon DEF IsCall, Phases
<1>10. /\ call'[u].args = c.args /\ call'[u].phase = "issue" /\ call'[u].futures = <<>>
  BY <1>3
<1>11. Counted(call'[u]) /\ IsArgs(call'[u].args)
  BY <1>1, <1>2, <1>10, Zenon DEF CallSound, Counted
<1>12. Pending(call'[u]) = {}
  BY <1>10 DEF Pending
<1>13. Outstanding(u)' /\ Distinct(call'[u]) /\ Filled(u)' /\ ReadHeld(u)'
  BY <1>1, <1>10, <1>12, Zenon DEF Outstanding, Distinct, Filled, ReadHeld
<1>14. LeftBehind(u)'
  BY <1>1, <1>2, <1>5, <1>7, Zenon DEF CallSound, LeftBehind
<1>15. dict' \in held'[u]
  BY <1>1, <1>2, <1>7, Zenon DEF CallSound
<1>16. CallSound(u)'
  BY <1>9, <1>11, <1>13, <1>14, <1>15, Zenon DEF CallSound
<1> QED
  BY <1>6, <1>7, <1>16, Zenon DEF IInv

\* A future that was left behind goes.
LEMMA DiscardStep ==
    ASSUME IInv, NEW u \in Users, Discard(u)
    PROVE  IInv'
<1>1. PICK f \in left[u] : client!Deliver(f) /\ left' = [left EXCEPT ![u] = @ \ {f}]
                           /\ call' = call /\ held' = held
  BY Zenon DEF Discard
<1>2. CallSound(u) /\ f[1] = u
  BY Zenon DEF IInv, CallSound, LeftBehind
<1>3. DOMAIN call' = Users /\ DOMAIN left' = Users /\ left'[u] = left[u] \ {f}
      /\ \A w \in Users : w # u => call'[w] = call[w] /\ left'[w] = left[w]
  BY <1>1, Zenon DEF IInv
<1>4. /\ ClientSound' /\ \A w \in Users : w # u => CallSound(w)'
      /\ DOMAIN held' = Users /\ dict' = dict
      /\ \A h : h # f => /\ h \in DOMAIN request => h \in DOMAIN request' /\ request'[h] = request[h]
                         /\ h \in DOMAIN done' => h \in DOMAIN done /\ done'[h] = done[h]
  BY <1>1, <1>2, <1>3, Delivered
<1>5. Outstanding(u)'
  <2>1. \A j \in Pending(call[u]) : call[u].futures[j] # f
    BY <1>2, Zenon DEF CallSound, Outstanding
  <2> SUFFICES ASSUME NEW j \in Pending(call[u])
               PROVE  LET h == call[u].futures[j]
                      IN  /\ h \in DOMAIN request' /\ h \notin left'[u] /\ h[1] = u
                          /\ AsksFor(call[u].args, j, request'[h])
                          /\ h \in DOMAIN done' => Truthful(call[u].args, j, held[u], done'[h])
    BY <1>1, Zenon DEF Outstanding
  <2> DEFINE h == call[u].futures[j]
  <2>2. /\ h \in DOMAIN request /\ h \notin left[u] /\ h[1] = u
        /\ AsksFor(call[u].args, j, request[h])
        /\ h \in DOMAIN done => Truthful(call[u].args, j, held[u], done[h])
    BY <1>2, Zenon DEF CallSound, Outstanding
  <2> HIDE DEF h
  <2>3. h # f
    BY <2>1, Zenon DEF h
  <2> QED
    BY <1>3, <1>4, <2>2, <2>3, Zenon DEF h
<1>6. LeftBehind(u)'
  BY <1>2, <1>3, <1>4, Zenon DEF CallSound, LeftBehind
<1>7. Filled(u)' /\ ReadHeld(u)'
  BY <1>1, <1>2 DEF CallSound, Filled, ReadHeld
<1>8. CallSound(u)'
  BY <1>1, <1>2, <1>4, <1>5, <1>6, <1>7, Zenon DEF CallSound
<1> QED
  BY <1>3, <1>4, <1>8, Zenon DEF IInv

\* A call begins or ends: the client is left alone, and no request is pending.
LEMMA BoundaryStep ==
    ASSUME IInv, NEW u \in Users, NEW c, NEW H,
           DOMAIN call' = Users, DOMAIN held' = Users, call'[u] = c, held'[u] = H,
           \A w \in Users : w # u => call'[w] = call[w] /\ held'[w] = held[w],
           UNCHANGED <<clientVars, left>>,
           IsCall(c), IsArgs(c.args), Counted(c), Pending(c) = {},
           c.phase # "idle" => dict \in H,
           Filled(u)', ReadHeld(u)'
    PROVE  IInv'
<1>1. dict' = dict /\ todo' = todo /\ done' = done /\ request' = request /\ left' = left
  BY Zenon DEF clientVars
<1>2. ClientSound'
  BY <1>1, Zenon DEF IInv, ClientSound, QueueSound
<1>3. Outstanding(u)'
  BY Zenon DEF Outstanding
<1>4. Distinct(call'[u])
  BY Zenon DEF Distinct
<1>5. LeftBehind(u)'
  BY <1>1, Zenon DEF IInv, CallSound, LeftBehind
<1>6. CallSound(u)'
  BY <1>1, <1>3, <1>4, <1>5, Zenon DEF CallSound
<1>7. ASSUME NEW w \in Users, w # u PROVE CallSound(w)'
  <2>1. CallSound(w) /\ call'[w] = call[w] /\ held'[w] = held[w]
    BY <1>7, Zenon DEF IInv
  <2> QED
    BY <1>1, <2>1, Frame, Zenon
<1> QED
  BY <1>1, <1>2, <1>6, <1>7, Zenon DEF IInv

\* A thread calls a method.
LEMMA InvokeStep ==
    ASSUME IInv, NEW u \in Users, NEW a \in Calls[u], Invoke(u, a)
    PROVE  IInv'
<1> DEFINE bad == IsRange(a) /\ a.last < a.first
           c == [args |-> a, phase |-> IF bad THEN "over" ELSE "issue", i |-> 0,
                 futures |-> <<>>, res |-> <<>>, error |-> IF bad THEN "kException" ELSE "kOk"]
<1>1. call'[u] = c
  <2>1. CASE bad
    BY <2>1, Zenon DEF IInv, Invoke, Idle
  <2>2. CASE ~bad
    BY <2>2, Zenon DEF IInv, Invoke, Idle
  <2> QED
    BY <2>1, <2>2, Zenon
<1>2. held'[u] = {dict} /\ UNCHANGED <<clientVars, left>>
      /\ DOMAIN call' = Users /\ DOMAIN held' = Users
      /\ \A w \in Users : w # u => call'[w] = call[w] /\ held'[w] = held[w]
  BY Zenon DEF IInv, Invoke
<1>3. a \in RangeCalls \cup OtherCalls
  BY StoreAssumption, Zenon
<1>4. IsArgs(a)
  <2>1. IsRange(a) => a.first \in Nat /\ a.last \in Nat
    <3>1. ObjectID \subseteq Nat
      BY StoreAssumption
    <3>2. IsRange(a) => a \in RangeCalls
      BY <1>3, Zenon DEF IsRange, OtherCalls
    <3> QED
      BY <3>1, <3>2, Zenon DEF RangeCalls
  <2>2. a.op = "get_bulk_fast" => a.oids \in Seq(ObjectID)
    BY <1>3, Zenon DEF RangeCalls, OtherCalls
  <2> QED
    BY <2>1, <2>2, Zenon DEF IsArgs
<1>5. /\ c.args = a /\ c.phase = (IF bad THEN "over" ELSE "issue") /\ c.i = 0
      /\ c.futures = <<>> /\ c.error = IF bad THEN "kException" ELSE "kOk"
  BY Zenon
<1>6. IsCall(c)
  <2>1. <<>> \in Seq(Futures)
    OBVIOUS
  <2> QED
    BY <2>1, Zenon DEF IsCall, Phases
<1>7. call'[u] = c /\ Len(c.futures) = 0
  BY <1>1, <1>5, Zenon
<1> HIDE DEF c
<1>8. Counted(c)
  <2>1. CASE bad
    BY <2>1, <1>5, Zenon DEF Counted
  <2>2. CASE ~bad
    <3>1. a.op \in {"get_bulk", "put_bulk"} => numObjects(a) > 0
      BY <1>4, <2>2 DEF IsArgs, IsRange, numObjects
    <3> QED
      BY <2>2, <3>1, <1>5, <1>7, Zenon DEF Counted
  <2> QED
    BY <2>1, <2>2, Zenon
<1>9. Pending(c) = {}
  BY <1>7 DEF Pending
<1>10. Filled(u)'
  BY <1>5, <1>7, Zenon DEF Filled
<1>11. ReadHeld(u)'
  BY <1>5, <1>7, Zenon DEF ReadHeld
<1> QED
  BY <1>1, <1>2, <1>4, <1>5, <1>6, <1>8, <1>9, <1>10, <1>11, BoundaryStep

\* A call returns.
LEMMA ReturnStep ==
    ASSUME IInv, NEW u \in Users, Return(u)
    PROVE  IInv'
<1>1. held'[u] = {} /\ UNCHANGED <<clientVars, left>>
      /\ DOMAIN call' = Users /\ DOMAIN held' = Users
      /\ \A w \in Users : w # u => call'[w] = call[w] /\ held'[w] = held[w]
  BY Zenon DEF IInv, Return
<1>2. call'[u] = Idle
  BY Zenon DEF IInv, Return
<1>3. /\ Idle.args = [op |-> "none"] /\ Idle.args.op = "none" /\ Idle.phase = "idle"
      /\ Idle.futures = <<>> /\ Len(Idle.futures) = 0
  BY Zenon DEF Idle
<1>4. IsCall(Idle)
  <2>1. <<>> \in Seq(Futures)
    OBVIOUS
  <2> QED
    BY <2>1, Zenon DEF IsCall, Idle, Phases
<1>5. IsArgs(Idle.args) /\ Counted(Idle) /\ Pending(Idle) = {}
  BY <1>3 DEF IsArgs, IsRange, Counted, Pending
<1>6. Filled(u)' /\ ReadHeld(u)'
  BY <1>2, <1>3, Zenon DEF Filled, ReadHeld
<1> QED
  BY <1>1, <1>2, <1>3, <1>4, <1>5, <1>6, BoundaryStep, Zenon

\* removeBulk has come to the end of its range.
LEMMA RemovedStep ==
    ASSUME IInv, NEW u \in Users, removeBulk_Done(u)
    PROVE  IInv'
<1> DEFINE c == [args |-> call[u].args, phase |-> "over", i |-> call[u].i,
                 futures |-> call[u].futures, res |-> call[u].res, error |-> call[u].error]
<1>1. CallSound(u) /\ IsCall(call[u]) /\ call[u].args.op = "removeBulk"
  BY Zenon DEF IInv, CallSound, removeBulk_Done, Method
<1>2. call' = [call EXCEPT ![u].phase = "over"] /\ held' = held /\ UNCHANGED <<clientVars, left>>
      /\ call[u].phase = "issue"
  BY Zenon DEF removeBulk_Done
<1>3. call'[u] = c /\ DOMAIN call' = Users /\ DOMAIN held' = Users
      /\ \A w \in Users : w # u => call'[w] = call[w] /\ held'[w] = held[w]
  BY <1>1, <1>2, Zenon DEF IInv, IsCall
<1>4. IsCall(c) /\ IsArgs(c.args)
  BY <1>1, Zenon DEF CallSound, IsCall, Phases
<1>5. c.phase = "over" /\ c.args.op = "removeBulk" /\ call'[u] = c
  BY <1>1, <1>3, Zenon
<1> HIDE DEF c
<1>6. Counted(c) /\ Pending(c) = {}
  BY <1>5, Zenon DEF Counted, Pending, Waits
<1>7. Filled(u)' /\ ReadHeld(u)'
  BY <1>5, Zenon DEF Filled, ReadHeld, Reads
<1>8. dict \in held[u]
  BY <1>1, <1>2, Zenon DEF CallSound
<1> QED
  BY <1>2, <1>3, <1>4, <1>6, <1>7, <1>8, BoundaryStep

-----------------------------------------------------------------------------
(* The methods' requests are instances of IssueStep.                       *)

\* The loops of get_bulk and put_bulk.
LEMMA LoopStep ==
    ASSUME IInv, NEW u \in Users, NEW req, IssueNext(u, req),
           call[u].args.op \in {"get_bulk", "put_bulk"},
           AsksFor(call[u].args, call[u].i + 1, req)
    PROVE  IInv'
<1> DEFINE c == call[u]
           t(phase, i) == [c EXCEPT !.futures = Append(@, <<u, 1>>), !.phase = phase, !.i = i]
<1>1. CallSound(u) /\ IsCall(c) /\ Counted(c) /\ IsArgs(c.args)
  BY Zenon DEF IInv, CallSound
<1>2. c.phase = "issue"
  BY Zenon DEF IssueNext, Issue
<1>3. Len(c.futures) = c.i /\ c.i < numObjects(c.args) /\ c.i \in Nat
  BY <1>1, <1>2, Zenon DEF Counted, IsCall
<1>4. numObjects(c.args) \in Int
  BY <1>1 DEF IsArgs, IsRange, numObjects
<1>5. Len(Append(c.futures, <<u, 1>>)) = c.i + 1
  <2>1. <<u, 1>> \in Futures
    BY StoreAssumption DEF Futures
  <2> QED
    BY <1>1, <1>3, <2>1 DEF IsCall
<1>6. ASSUME NEW phase, NEW i
      PROVE  /\ t(phase, i).args = c.args /\ t(phase, i).phase = phase /\ t(phase, i).i = i
             /\ t(phase, i).futures = Append(c.futures, <<u, 1>>)
  BY <1>1, Zenon DEF IsCall
<1> HIDE DEF t
<1>7. CASE c.i + 1 = numObjects(c.args)
  <2>1. Issue(u, req, "wait", 0)
    BY <1>7, Zenon DEF IssueNext
  <2>2. Counted(t("wait", 0))
    BY <1>3, <1>4, <1>5, <1>6, <1>7 DEF Counted
  <2> QED
    BY <1>3, <2>1, <2>2, IssueStep, Zenon DEF t
<1>8. CASE c.i + 1 # numObjects(c.args)
  <2>1. Issue(u, req, "issue", c.i + 1)
    BY <1>8, Zenon DEF IssueNext
  <2>2. Counted(t("issue", c.i + 1))
    BY <1>3, <1>4, <1>5, <1>6, <1>8 DEF Counted
  <2>3. c.i + 1 \in Nat
    BY <1>3
  <2> QED
    BY <1>3, <2>1, <2>2, <2>3, IssueStep, Zenon DEF t
<1> QED
  BY <1>7, <1>8, Zenon

\* The methods that wait for each request before they make another.
LEMMA OneStep ==
    ASSUME IInv, NEW u \in Users, NEW req, NEW i \in Nat, Issue(u, req, "wait", i),
           call[u].args.op \notin {"get_bulk", "put_bulk"},
           i = 0 \/ call[u].args.op = "removeBulk",
           AsksFor(call[u].args, 1, req)
    PROVE  IInv'
<1> DEFINE c == call[u]
           t == [c EXCEPT !.futures = Append(@, <<u, 1>>), !.phase = "wait", !.i = i]
<1>1. CallSound(u) /\ IsCall(c) /\ Counted(c)
  BY Zenon DEF IInv, CallSound
<1>2. c.phase = "issue"
  BY Zenon DEF Issue
<1>3. c.futures = <<>>
  BY <1>1, <1>2, Zenon DEF Counted
<1>4. Len(c.futures) = 0 /\ Len(Append(c.futures, <<u, 1>>)) = 1
  BY <1>3
<1>5. t.args = c.args /\ t.phase = "wait" /\ t.i = i /\ t.futures = Append(c.futures, <<u, 1>>)
  BY <1>1, Zenon DEF IsCall
<1> HIDE DEF t
<1>6. Counted(t)
  BY <1>4, <1>5, Zenon DEF Counted
<1>7. Len(c.futures) + 1 = 1
  BY <1>4
<1>8. AsksFor(c.args, Len(c.futures) + 1, req)
  BY <1>7, Zenon
<1> QED
  BY <1>6, <1>8, IssueStep, Zenon DEF t

\* Every step of a method keeps the invariant.
LEMMA StepInv ==
    ASSUME IInv, NEW u \in Users, Step(u)
    PROVE  IInv'
<1> DEFINE c == call[u]
<1>1. IsArgs(c.args) /\ c.i \in Nat
  BY Zenon DEF IInv, CallSound, IsCall
<1>2. CASE get_async(u)
  <2>1. c.args.op = "get_bulk" /\ IssueNext(u, [op |-> "Read", oid |-> c.args.first + c.i])
    BY <1>2, Zenon DEF get_async, Method
  <2>2. c.args.first + (c.i + 1) - 1 = c.args.first + c.i
    BY <2>1, <1>1 DEF IsArgs, IsRange
  <2>3. AsksFor(c.args, c.i + 1, [op |-> "Read", oid |-> c.args.first + c.i])
    BY <2>1, <2>2, Zenon DEF AsksFor
  <2> QED
    BY <2>1, <2>3, LoopStep, Zenon
<1>3. CASE put_async(u)
  <2>1. PICK req : c.args.op = "put_bulk" /\ IssueNext(u, req)
    BY <1>3, Zenon DEF put_async, Method
  <2>2. AsksFor(c.args, c.i + 1, req)
    BY <2>1, Zenon DEF AsksFor
  <2> QED
    BY <2>1, <2>2, LoopStep, Zenon
<1>4. CASE read_sync(u) \/ get_bulk_fast(u)
  <2>1. PICK req : /\ c.args.op \in {"get", "get_bulk_fast"} /\ Issue(u, req, "wait", 0)
                   /\ AsksFor(c.args, 1, req)
    BY <1>4, Zenon DEF read_sync, get_bulk_fast, Method, AsksFor
  <2> QED
    BY <2>1, OneStep, Zenon
<1>5. CASE write_sync(u) \/ remove(u) \/ put_bulk_fast(u)
  <2>1. PICK req : c.args.op \in {"put", "remove", "put_bulk_fast"} /\ Issue(u, req, "wait", 0)
    BY <1>5 DEF write_sync, remove, put_bulk_fast, Method
  <2>2. AsksFor(c.args, 1, req)
    BY <2>1, Zenon DEF AsksFor
  <2> QED
    BY <2>1, <2>2, OneStep, Zenon
<1>6. CASE removeBulk(u)
  <2>1. PICK req : c.args.op = "removeBulk" /\ Issue(u, req, "wait", c.i)
    BY <1>6, Zenon DEF removeBulk, Method
  <2>2. AsksFor(c.args, 1, req)
    BY <2>1, Zenon DEF AsksFor
  <2> QED
    BY <2>1, <2>2, <1>1, OneStep, Zenon
<1>7. CASE get_bulk(u) \/ put_bulk(u) \/ SingleRequest(u)
  <2>1. c.args.op # "removeBulk" /\ future_get(u)
    BY <1>7, Zenon DEF get_bulk, put_bulk, SingleRequest, Method
  <2> QED
    BY <2>1, FutureGetStep, Zenon
<1>8. CASE removeBulk_Next(u)
  BY <1>8, RemoveStep, Zenon
<1>9. CASE removeBulk_Done(u)
  BY <1>9, RemovedStep, Zenon
<1>10. CASE Return(u)
  BY <1>10, ReturnStep, Zenon
<1> QED
  BY <1>2, <1>3, <1>4, <1>5, <1>6, <1>7, <1>8, <1>9, <1>10 DEF Step

\* Before the first call there is no request and no future.
LEMMA InitInv == Init => IInv
<1> SUFFICES ASSUME Init PROVE IInv
  BY Zenon
<1>1. ClientSound
  <2>1. todo = [u \in Users |-> <<>>] /\ done = <<>> /\ request = <<>>
    BY Zenon DEF Init, client!Init
  <2>2. \A u \in Users : todo[u] = <<>> /\ Len(todo[u]) = 0 /\ todo[u] \in Seq(Futures)
    BY <2>1
  <2> QED
    BY <2>1, <2>2 DEF ClientSound, QueueSound
<1>2. ASSUME NEW u \in Users PROVE CallSound(u)
  <2>1. call[u] = Idle /\ left[u] = {}
    BY Zenon DEF Init
  <2>2. /\ Idle.args.op = "none" /\ Idle.phase = "idle" /\ Idle.futures = <<>>
    BY Zenon DEF Idle
  <2>3. IsCall(Idle)
    <3>1. <<>> \in Seq(Futures)
      OBVIOUS
    <3> QED
      BY <3>1, Zenon DEF IsCall, Idle, Phases
  <2>4. IsArgs(Idle.args) /\ Counted(Idle) /\ Pending(Idle) = {}
    BY <2>2, Zenon DEF IsArgs, IsRange, Counted, Pending, Waits
  <2> QED
    BY <2>1, <2>2, <2>3, <2>4, Zenon DEF CallSound, Outstanding, Distinct, LeftBehind, Filled, ReadHeld
<1>3. DOMAIN call = Users /\ DOMAIN left = Users /\ DOMAIN held = Users
  BY Zenon DEF Init
<1> QED
  BY <1>1, <1>2, <1>3, Zenon DEF IInv

\* Every step of the threads, the client and the server keeps the invariant.
LEMMA NextInv == IInv /\ [Next]_vars => IInv'
<1> SUFFICES ASSUME IInv, [Next]_vars PROVE IInv'
  BY Zenon
<1>1. CASE Next
  <2>1. PICK u \in Users : \/ \E c \in Calls[u] : Invoke(u, c)
                           \/ Step(u) \/ Discard(u) \/ Effect(u)
    BY <1>1, Zenon DEF Next
  <2> QED
    BY <2>1, InvokeStep, StepInv, DiscardStep, EffectStep
<1>2. CASE UNCHANGED vars
  <2>1. /\ dict' = dict /\ todo' = todo /\ done' = done /\ request' = request
        /\ call' = call /\ left' = left /\ held' = held
    BY <1>2, Zenon DEF vars
  <2>2. ClientSound'
    BY <2>1 DEF IInv, ClientSound, QueueSound
  <2>3. ASSUME NEW u \in Users PROVE CallSound(u)'
    <3>1. CallSound(u)
      BY Zenon DEF IInv
    <3> QED
      BY <2>1, <3>1, Frame, Zenon
  <2> QED
    BY <2>1, <2>2, <2>3, Zenon DEF IInv
<1> QED
  BY <1>1, <1>2, Zenon

\* Whatever the number of threads and objects, the depth to which they pipeline
\* their requests and the calls they make: a read returns what the store held
\* during the call, get and get_bulk_fast what it held at one moment of it, and
\* throws only if an object was missing, although the futures of earlier calls that
\* threw are still about.
THEOREM ReadsReturnHeld == Spec => []ReadsHeld
<1>1. IInv => ReadsHeld
  BY Zenon DEF IInv, CallSound, ReadHeld, Reads, ReadsHeld
<1> QED
  BY <1>1, InitInv, NextInv, PTL DEF Spec

-----------------------------------------------------------------------------
(* The methods that change the store: what their requests ask for, what    *)
(* the store is like once one has been carried out, and that the requests  *)
(* of a thread are carried out in order, so that the last one the thread   *)
(* waits for is the last of all it ever made.                              *)

Changes == {"put", "put_bulk", "put_bulk_fast", "remove", "removeBulk"}

\* The caller passes one object for each id.
OneObjectEach ==
    \A u \in Users : \A c \in Calls[u] :
        /\ c.op = "put_bulk" /\ c.first <= c.last => Len(c.data) = numObjects(c)
        /\ c.op = "put_bulk_fast" => Len(c.data) = Len(c.oids)

GoodArgs(u, c) ==
    c.phase # "idle" =>
        /\ c.args \in Calls[u]
        /\ IsRange(c.args) /\ c.error # "kException" => c.args.first <= c.args.last

\* The j-th request of a call that changes the store.
Asks(c, j, req) ==
    LET a == c.args
    IN  /\ a.op = "put" => req = [op |-> "Write", oid |-> a.oid, val |-> a.obj]
        /\ a.op = "put_bulk" => req = [op |-> "Write", oid |-> a.first + j - 1, val |-> a.data[j]]
        /\ a.op = "put_bulk_fast" => req = [op |-> "WriteBulk", units |-> units(a)]
        /\ a.op = "remove" => req = [op |-> "Remove", oid |-> a.oid]
        /\ a.op = "removeBulk" => req = [op |-> "Remove", oid |-> (a.first + c.i) % IdSpace]

\* The store d is one in which that request has been carried out.
Changed(c, j, d) ==
    LET a == c.args
    IN  /\ a.op = "put" => Has(d, a.oid, a.obj)
        /\ a.op = "put_bulk" => Has(d, a.first + j - 1, a.data[j])
        /\ a.op = "put_bulk_fast" => \A k \in DOMAIN a.oids : Has(d, a.oids[k], Object(a, k))
        /\ a.op = "remove" => a.oid \notin DOMAIN d
        /\ a.op = "removeBulk" => (a.first + c.i) % IdSpace \notin DOMAIN d

Shown(c, j, H) == \E d \in H : Changed(c, j, d)

\* What the outcome of the request says.
Confirms(c, j, H, out) ==
    c.args.op \in Changes /\ (out.error = "kOk" \/ c.args.op \in {"remove", "removeBulk"}) => Shown(c, j, H)

Requested(u) ==
    \A j \in Pending(call[u]) : LET f == call[u].futures[j]
    IN  /\ Asks(call[u], j, request[f])
        /\ f \in DOMAIN done => Confirms(call[u], j, held[u], done[f])

\* What the loops of put_bulk and removeBulk have done.
SoFar(c, H) ==
    /\ c.args.op = "put_bulk" /\ c.phase = "wait" => \A j \in 1 .. c.i : Shown(c, j, H)
    /\ c.args.op = "removeBulk" /\ c.phase \in {"issue", "wait"} =>
          /\ c.i < IdSpace
          /\ \A x \in c.args.first .. c.args.last : x < c.args.first + c.i => \E d \in H : x \notin DOMAIN d

\* The last request of a thread is the last of its call.
InOrder(c, q) ==
    /\ c.phase \in {"issue", "wait"} /\ c.futures # <<>> /\ q # <<>> => q[Len(q)] = c.futures[Len(c.futures)]
    /\ c.args.op = "removeBulk" /\ c.phase = "issue" /\ c.i # 0 => q = <<>>

\* CallsTakeEffect, of one thread.
Took(c, H, q) ==
    LET a == c.args
        oids == Oids(a)
    IN  c.phase = "over" /\ c.error = "kOk" =>
            /\ a.op \in {"put", "put_bulk"} =>
                  \A i \in DOMAIN oids : \E d \in H : Has(d, oids[i], Object(a, i))
            /\ a.op = "put_bulk_fast" =>
                  \E d \in H : \A i \in DOMAIN oids : Has(d, oids[i], Object(a, i))
            /\ a.op \in {"remove", "removeBulk"} =>
                  \A i \in DOMAIN oids : \E d \in H : oids[i] \notin DOMAIN d
            /\ q = <<>>

WriteSound(u) ==
    /\ GoodArgs(u, call[u]) /\ Requested(u) /\ SoFar(call[u], held[u])
    /\ InOrder(call[u], todo[u]) /\ Took(call[u], held[u], todo[u])

WriteInv == IInv /\ \A u \in Users : WriteSound(u)

\* Every nonempty set of indices has a largest.
LEMMA Largest ==
    ASSUME NEW n \in Nat, NEW S \in SUBSET (1 .. n), S # {}
    PROVE  \E m \in S : \A k \in S : k <= m
<1> DEFINE T == {t \in 0 .. n : n - t \in S}
<1>1. ASSUME NEW k \in S PROVE k \in 1 .. n /\ n - k \in T
  <2>1. k \in 1 .. n /\ n - k \in 0 .. n /\ n - (n - k) = k
    OBVIOUS
  <2> QED
    BY <2>1, Zenon
<1>2. T \in SUBSET Nat /\ T # {}
  <2>1. PICK k \in S : TRUE
    BY Zenon
  <2>2. n - k \in T
    BY <1>1, Zenon
  <2>3. T \in SUBSET Nat
    OBVIOUS
  <2> QED
    BY <2>2, <2>3, Zenon
<1>3. \A t \in T : t \in Nat /\ n - t \in S
  OBVIOUS
<1> HIDE DEF T
<1>4. PICK t \in T : \A s \in T : ~(<<s, t>> \in OpToRel(<, Nat))
  BY <1>2, NatLessThanWellFounded, WFMin, Zenon
<1>5. ASSUME NEW k \in S PROVE k <= n - t
  <2>1. n - k \in T /\ n - k \in Nat /\ t \in Nat /\ k \in Nat
    BY <1>1, <1>3
  <2>2. ~(n - k < t)
    BY <1>4, <2>1, Zenon DEF OpToRel
  <2> QED
    BY <2>1, <2>2
<1> QED
  BY <1>3, <1>5, Zenon

\* The last of several indices, as the server's loop and as Max find it.
LEMMA LastOf ==
    ASSUME NEW n \in Nat, NEW S \in SUBSET (1 .. n), S # {}
    PROVE  /\ (CHOOSE i \in S : \A j \in S : j <= i) = Max(S)
           /\ Max(S) \in S
<1>1. PICK m \in S : \A k \in S : k <= m
  BY Largest, Zenon
<1>2. \A i \in S : (\A j \in S : j <= i) => i = m
  BY <1>1
<1>3. (CHOOSE i \in S : \A j \in S : j <= i) = m
  BY <1>1, <1>2, Zenon
<1>4. \A i \in S : (\A j \in S : i >= j) => i = m
  BY <1>1
<1>5. \A j \in S : m >= j
  BY <1>1, Zenon
<1>6. (CHOOSE i \in S : \A j \in S : i >= j) = m
  BY <1>4, <1>5, Zenon
<1> QED
  BY <1>3, <1>6, Zenon DEF Max

\* What the arguments of a call are.
LEMMA ArgsAre ==
    ASSUME NEW u \in Users, NEW a \in Calls[u]
    PROVE  /\ IsRange(a) => /\ a.first \in Nat /\ a.last \in Nat
                            /\ a.first < IdSpace /\ a.last < IdSpace
                            /\ a.first \in ObjectID /\ a.last \in ObjectID
           /\ a.op = "put_bulk" => a.data \in Seq(Values)
           /\ a.op = "put_bulk_fast" => a.data \in Seq(Values) /\ a.oids \in Seq(ObjectID)
<1>1. a \in RangeCalls \cup OtherCalls
  BY StoreAssumption, Zenon
<1>2. \A x \in ObjectID : x \in Nat /\ x < IdSpace
  BY StoreAssumption
<1>3. IsRange(a) => a \in RangeCalls
  BY <1>1, Zenon DEF IsRange, OtherCalls
<1>4. IsRange(a) => a.first \in ObjectID /\ a.last \in ObjectID
  BY <1>3, Zenon DEF RangeCalls
<1>5. a.op = "put_bulk" => a.data \in Seq(Values)
  BY <1>1, Zenon DEF RangeCalls, OtherCalls
<1>6. a.op = "put_bulk_fast" => a.data \in Seq(Values) /\ a.oids \in Seq(ObjectID)
  BY <1>1, Zenon DEF RangeCalls, OtherCalls
<1> QED
  BY <1>2, <1>4, <1>5, <1>6

\* The ids of a range are different, so each keeps its own object.
LEMMA ObjectOf ==
    ASSUME OneObjectEach, NEW u \in Users, NEW a \in Calls[u], a.op = "put_bulk", a.first <= a.last,
           NEW i \in DOMAIN Oids(a)
    PROVE  Oids(a)[i] = a.first + i - 1 /\ Object(a, i) = a.data[i]
<1> DEFINE n == numObjects(a)
<1>1. a.first \in Nat /\ a.last \in Nat /\ a.data \in Seq(Values) /\ IsRange(a)
  BY ArgsAre, Zenon DEF IsRange
<1>2. n \in Nat /\ Len(a.data) = n
  BY <1>1 DEF OneObjectEach, numObjects
<1>3. Oids(a) = [k \in 1 .. n |-> a.first + k - 1]
  BY <1>1, Zenon DEF Oids
<1> HIDE DEF n
<1>4. DOMAIN a.data = 1 .. n /\ i \in 1 .. n
  BY <1>1, <1>2, <1>3
<1>5. {j \in DOMAIN a.data : Oids(a)[j] = Oids(a)[i]} = {i}
  BY <1>1, <1>2, <1>3, <1>4
<1>6. Max({i}) \in {i}
  BY <1>2, <1>4, LastOf, Zenon
<1> QED
  BY <1>3, <1>4, <1>5, <1>6, Zenon DEF Object

\* The server has carried out a request and confirms it.
LEMMA RequestTakesEffect ==
    ASSUME OneObjectEach, NEW u \in Users, NEW c, c.args \in Calls[u], NEW j, NEW req,
           c.args.op \in Changes, Asks(c, j, req), NEW n \in 0 .. Len(client!Units(req)),
           client!Outcome(req, n).error = "kOk" \/ c.args.op \in {"remove", "removeBulk"}
    PROVE  Changed(c, j, client!Updated(req, n))
<1> DEFINE a == c.args
           d == client!Updated(req, n)
<1>1. CASE a.op \in {"put", "put_bulk"}
  <2> DEFINE oid == IF a.op = "put" THEN a.oid ELSE a.first + j - 1
             val == IF a.op = "put" THEN a.obj ELSE a.data[j]
  <2>1. req = [op |-> "Write", oid |-> oid, val |-> val]
    BY <1>1, Zenon DEF Asks
  <2> HIDE DEF oid, val
  <2>2. client!Units(req) = <<<<oid, val>>>>
    BY <2>1, Zenon DEF client!Units
  <2>3. n = 1
    <3>1. Len(<<<<oid, val>>>>) = 1
      BY Zenon
    <3>2. client!Outcome(req, n) = client!Answer(IF n = Len(client!Units(req)) THEN "kOk" ELSE "kServerMemoryError", <<>>)
      BY <2>1, Zenon DEF client!Outcome
    <3> QED
      BY <1>1, <2>2, <3>1, <3>2 DEF client!Answer
  <2> DEFINE w == <<<<oid, val>>>>
  <2>4. SubSeq(w, 1, 1) = w
    <3> DEFINE y == <<oid, val>>
    <3>1. w \in Seq({y}) /\ Len(w) = 1
      OBVIOUS
    <3> HIDE DEF w, y
    <3> QED
      BY <3>1
  <2>5. d = client!Stored(w)
    BY <2>1, <2>2, <2>3, <2>4, Zenon DEF client!Updated
  <2>6. DOMAIN w = {1} /\ w[1] = <<oid, val>>
    OBVIOUS
  <2> HIDE DEF w, d
  <2>7. {i \in DOMAIN w : w[i][1] = oid} = {1}
    BY <2>6
  <2>8. (CHOOSE i \in {1} : \A k \in {1} : k <= i) = 1
    OBVIOUS
  <2>9. oid \in DOMAIN d /\ d[oid] = w[1][2]
    BY <2>5, <2>6, <2>7, <2>8, Zenon DEF client!Stored
  <2>10. Has(d, oid, val)
    BY <2>6, <2>9 DEF Has
  <2> QED
    BY <1>1, <2>10, Zenon DEF Changed, oid, val, d
<1>2. CASE a.op = "put_bulk_fast"
  <2> DEFINE w == units(a)
             N == Len(a.oids)
  <2>1. req = [op |-> "WriteBulk", units |-> w]
    BY <1>2, Zenon DEF Asks
  <2>2. a.data \in Seq(Values) /\ a.oids \in Seq(ObjectID) /\ Len(a.data) = N
    BY <1>2, ArgsAre, Zenon DEF OneObjectEach
  <2>3. w \in Seq(ObjectID \X Values) /\ Len(w) = N /\ N \in Nat
    BY <2>2 DEF units
  <2>4. DOMAIN w = 1 .. N /\ DOMAIN a.oids = 1 .. N /\ DOMAIN a.data = 1 .. N
        /\ \A i \in 1 .. N : w[i][1] = a.oids[i] /\ w[i][2] = a.data[i]
    BY <2>2 DEF units
  <2> HIDE DEF w, N
  <2>5. client!Units(req) = w
    BY <2>1, Zenon DEF client!Units
  <2>6. n = N
    <3>1. client!Outcome(req, n) = client!Answer(IF n = Len(client!Units(req)) THEN "kOk" ELSE "kServerMemoryError", <<>>)
      BY <2>1, Zenon DEF client!Outcome
    <3> QED
      BY <1>2, <2>3, <2>5, <3>1 DEF client!Answer
  <2>7. SubSeq(w, 1, N) = w
    BY <2>3
  <2>8. d = client!Stored(w)
    BY <2>1, <2>5, <2>6, <2>7, Zenon DEF client!Updated
  <2> HIDE DEF d
  <2>9. ASSUME NEW k \in 1 .. N
        PROVE  Has(d, a.oids[k], Object(a, k))
    <3> DEFINE S == {i \in 1 .. N : a.oids[i] = a.oids[k]}
               x == a.oids[k]
    <3>1. S \in SUBSET (1 .. N) /\ S # {} /\ k \in S
      BY Zenon
    <3>2. {i \in DOMAIN w : w[i][1] = x} = S
      BY <2>4, Zenon
    <3>3. (CHOOSE i \in S : \A m \in S : m <= i) = Max(S) /\ Max(S) \in S
      BY <2>3, <3>1, LastOf, Zenon
    <3>4. Object(a, k) = a.data[Max(S)]
      BY <1>2, <2>4 DEF Object, Oids, IsRange
    <3>5. x \in {w[i][1] : i \in DOMAIN w}
      BY <2>4, Zenon
    <3>6. Max(S) \in 1 .. N
      BY <3>3, Zenon
    <3> HIDE DEF S, x
    <3>7. x \in DOMAIN d /\ d[x] = w[Max(S)][2]
      BY <2>8, <3>1, <3>2, <3>3, <3>5, Zenon DEF client!Stored
    <3> QED
      BY <2>4, <3>4, <3>6, <3>7 DEF Has, x
  <2> QED
    BY <1>2, <2>4, <2>9, Zenon DEF Changed, d
<1>3. CASE a.op \in {"remove", "removeBulk"}
  <2> DEFINE oid == IF a.op = "remove" THEN a.oid ELSE (a.first + c.i) % IdSpace
  <2>1. req = [op |-> "Remove", oid |-> oid]
    BY <1>3, Zenon DEF Asks
  <2> HIDE DEF oid
  <2>2. d = client!Drop(dict, oid)
    BY <2>1, Zenon DEF client!Updated
  <2>3. oid \notin DOMAIN d
    BY <2>2, Zenon DEF client!Drop
  <2> QED
    BY <1>3, <2>3, Zenon DEF Changed, oid
<1> QED
  BY <1>1, <1>2, <1>3, Zenon DEF Changes

-----------------------------------------------------------------------------
(* The steps.                                                              *)

\* The contents of the store since the call began only become more.
LEMMA MoreShown ==
    ASSUME NEW c, NEW H, NEW G, H \subseteq G
    PROVE  /\ \A j : Shown(c, j, H) => Shown(c, j, G)
           /\ \A j, out : Confirms(c, j, H, out) => Confirms(c, j, G, out)
           /\ SoFar(c, H) => SoFar(c, G)
           /\ \A q : Took(c, H, q) => Took(c, G, q)
<1>1. \A j : Shown(c, j, H) => Shown(c, j, G)
  BY Zenon DEF Shown
<1>2. \A j, out : Confirms(c, j, H, out) => Confirms(c, j, G, out)
  BY <1>1, Zenon DEF Confirms
<1>3. SoFar(c, H) => SoFar(c, G)
  BY <1>1, Zenon DEF SoFar
<1>4. \A q : Took(c, H, q) => Took(c, G, q)
  BY Zenon DEF Took
<1> QED
  BY <1>1, <1>2, <1>3, <1>4, Zenon

\* A step of another thread leaves a call alone.
LEMMA WriteFrame ==
    ASSUME NEW u \in Users, CallSound(u), WriteSound(u),
           call'[u] = call[u], held'[u] = held[u], todo'[u] = todo[u],
           \A f : f[1] = u => /\ f \in DOMAIN request => f \in DOMAIN request' /\ request'[f] = request[f]
                              /\ f \in DOMAIN done' => f \in DOMAIN done /\ done'[f] = done[f]
    PROVE  WriteSound(u)'
<1>1. Requested(u)'
  <2> SUFFICES ASSUME NEW j \in Pending(call[u])
               PROVE  LET f == call[u].futures[j]
                      IN  /\ Asks(call[u], j, request'[f])
                          /\ f \in DOMAIN done' => Confirms(call[u], j, held[u], done'[f])
    BY Zenon DEF Requested
  <2> DEFINE f == call[u].futures[j]
  <2>1. f[1] = u /\ f \in DOMAIN request
    BY Zenon DEF CallSound, Outstanding
  <2>2. Asks(call[u], j, request[f]) /\ (f \in DOMAIN done => Confirms(call[u], j, held[u], done[f]))
    BY Zenon DEF WriteSound, Requested
  <2> QED
    BY <2>1, <2>2, Zenon
<1> QED
  BY <1>1, Zenon DEF WriteSound

\* The server carries out a request of thread v.
LEMMA WriteEffect ==
    ASSUME OneObjectEach, WriteInv, NEW v \in Users, Effect(v), NEW u \in Users
    PROVE  WriteSound(u)'
<1> DEFINE g == Head(todo[v])
           c == call[u]
<1>1. PICK n \in 0 .. Len(client!Units(request[g])) :
         /\ done' = client!Set(done, g, client!Outcome(request[g], n))
         /\ dict' = client!Updated(request[g], n)
  BY Zenon DEF Effect, client!Effect
<1>2. request' = request /\ call' = call /\ todo' = [todo EXCEPT ![v] = Tail(@)] /\ todo[v] # <<>>
  BY Zenon DEF Effect, client!Effect
<1>3. DOMAIN done' = DOMAIN done \cup {g} /\ done'[g] = client!Outcome(request[g], n)
      /\ \A f \in DOMAIN done : f # g => done'[f] = done[f]
  BY <1>1, Zenon DEF client!Set
<1>4. ClientSound /\ CallSound(u) /\ WriteSound(u)
  BY Zenon DEF WriteInv, IInv
<1>5. /\ held[u] \subseteq held'[u]
      /\ c.phase # "idle" => dict' \in held'[u]
  BY Zenon DEF Effect, WriteInv, IInv
<1> HIDE DEF g
<1>6. todo'[u] = todo[u] \/ (u = v /\ todo'[u] = Tail(todo[u]))
  BY <1>2, <1>4, Zenon DEF ClientSound
<1>7. InOrder(c, todo'[u])
  <2>1. CASE todo'[u] = todo[u]
    BY <1>4, <2>1, Zenon DEF WriteSound
  <2>2. CASE u = v /\ todo'[u] = Tail(todo[u])
    <3>1. todo[u] \in Seq(Futures) /\ todo[u] # <<>>
      BY <1>2, <1>4, <2>2, Zenon DEF ClientSound, QueueSound
    <3>2. Tail(todo[u]) # <<>> => Tail(todo[u])[Len(Tail(todo[u]))] = todo[u][Len(todo[u])]
      BY <3>1
    <3> QED
      BY <1>4, <2>2, <3>1, <3>2 DEF WriteSound, InOrder
  <2> QED
    BY <1>6, <2>1, <2>2, Zenon
<1>8. Took(c, held'[u], todo'[u])
  <2>1. Took(c, held'[u], todo[u])
    BY <1>4, <1>5, MoreShown, Zenon DEF WriteSound
  <2>2. CASE todo'[u] = todo[u]
    BY <2>1, <2>2, Zenon
  <2>3. CASE u = v
    BY <1>2, <2>1, <2>3, Zenon DEF Took
  <2> QED
    BY <1>6, <2>2, <2>3, Zenon
<1>9. Requested(u)'
  <2> SUFFICES ASSUME NEW j \in Pending(c)
               PROVE  LET f == c.futures[j]
                      IN  /\ Asks(c, j, request[f])
                          /\ f \in DOMAIN done' => Confirms(c, j, held'[u], done'[f])
    BY <1>2, Zenon DEF Requested
  <2> DEFINE f == c.futures[j]
  <2>1. Asks(c, j, request[f]) /\ (f \in DOMAIN done => Confirms(c, j, held[u], done[f]))
    BY <1>4, Zenon DEF WriteSound, Requested
  <2> HIDE DEF f
  <2>2. CASE f # g
    <3>1. f \in DOMAIN done' => f \in DOMAIN done /\ done'[f] = done[f]
      BY <1>3, <2>2, Zenon
    <3>2. f \in DOMAIN done => Confirms(c, j, held'[u], done[f])
      BY <1>5, <2>1, MoreShown, Zenon
    <3>3. f \in DOMAIN done' => Confirms(c, j, held'[u], done'[f])
      BY <3>1, <3>2, Zenon
    <3> QED
      BY <2>1, <3>3, Zenon DEF f
  <2>3. CASE f = g
    <3> DEFINE out == client!Outcome(request[g], n)
    <3>1. SUFFICES ASSUME c.args.op \in Changes, out.error = "kOk" \/ c.args.op \in {"remove", "removeBulk"}
                   PROVE  Shown(c, j, held'[u])
      BY <1>3, <2>1, <2>3, Zenon DEF Confirms, f
    <3>2. c.phase # "idle" /\ c.args \in Calls[u]
      BY <1>4, Zenon DEF Pending, Waits, WriteSound, GoodArgs
    <3>3. Changed(c, j, dict')
      BY <1>1, <2>1, <2>3, <3>1, <3>2, RequestTakesEffect
    <3> QED
      BY <1>5, <3>2, <3>3, Zenon DEF Shown
  <2> QED
    BY <2>2, <2>3, Zenon
<1>10. SoFar(c, held'[u])
  BY <1>4, <1>5, MoreShown, Zenon DEF WriteSound
<1> QED
  BY <1>2, <1>4, <1>7, <1>8, <1>9, <1>10 DEF WriteSound

\* A call begins or ends.
LEMMA WriteBoundary ==
    ASSUME WriteInv, NEW u \in Users, Pending(call[u])' = {}, GoodArgs(u, call[u])', SoFar(call[u], held[u])',
           InOrder(call[u], todo[u])', Took(call[u], held[u], todo[u])', clientVars' = clientVars,
           \A w \in Users : w # u => call'[w] = call[w] /\ held'[w] = held[w],
           NEW w \in Users
    PROVE  WriteSound(w)'
<1>1. CASE w = u
  <2>1. Requested(u)'
    BY Zenon DEF Requested
  <2> QED
    BY <1>1, <2>1, Zenon DEF WriteSound
<1>2. CASE w # u
  <2>1. CallSound(w) /\ WriteSound(w)
    BY Zenon DEF WriteInv, IInv
  <2> QED
    BY <1>2, <2>1, WriteFrame, Zenon DEF clientVars
<1> QED
  BY <1>1, <1>2, Zenon

\* Of the call's counter only removeBulk's requests depend.
LEMMA SameCall ==
    ASSUME NEW c, NEW b, c.args = b.args, c.args.op = "removeBulk" => c.i = b.i
    PROVE  /\ \A j, req : Asks(c, j, req) => Asks(b, j, req)
           /\ \A j, H : Shown(c, j, H) => Shown(b, j, H)
           /\ \A j, H, out : Confirms(c, j, H, out) => Confirms(b, j, H, out)
<1>1. \A j, req : Asks(c, j, req) => Asks(b, j, req)
  BY DEF Asks
<1>2. \A j, d : Changed(c, j, d) => Changed(b, j, d)
  BY DEF Changed
<1>3. \A j, H : Shown(c, j, H) => Shown(b, j, H)
  BY <1>2, Zenon DEF Shown
<1>4. \A j, H, out : Confirms(c, j, H, out) => Confirms(b, j, H, out)
  BY <1>3, Zenon DEF Confirms
<1> QED
  BY <1>1, <1>3, <1>4, Zenon

\* A request more of a call that has not yet waited for any, or, in removeBulk, has
\* waited for all before it.
LEMMA WriteIssue ==
    ASSUME WriteInv, NEW u \in Users, NEW req, NEW phase \in {"issue", "wait"}, NEW i,
           Issue(u, req, phase, i),
           Asks(call[u], Len(call[u].futures) + 1, req),
           call[u].args.op = "removeBulk" => phase = "wait" /\ i = call[u].i,
           call[u].args.op # "removeBulk" /\ phase = "wait" => i = 0,
           NEW w \in Users
    PROVE  WriteSound(w)'
<1> DEFINE k == CHOOSE k \in FreeFutures(u) : TRUE
           f == <<u, k>>
           c == call[u]
           s == Append(c.futures, f)
<1>1. f \in Futures /\ f[1] = u
  <2>1. k \in FreeFutures(u)
    BY Zenon DEF Issue
  <2> HIDE DEF k
  <2> QED
    BY <2>1, Zenon DEF FreeFutures, Futures
<1>2. /\ c.phase = "issue"
      /\ client!Issue(u, f, req)
      /\ call' = [call EXCEPT ![u].futures = Append(@, f), ![u].phase = phase, ![u].i = i]
      /\ held' = held
  BY Zenon DEF Issue
<1> HIDE DEF k, f
<1>3. /\ f \notin DOMAIN done
      /\ request'[f] = req
      /\ \A h \in DOMAIN request : h \in DOMAIN request' /\ request'[h] = request[h]
      /\ done' = done /\ todo' = [todo EXCEPT ![u] = Append(@, f)]
  BY <1>2, Zenon DEF client!Issue, client!Set, WriteInv, IInv, ClientSound
<1>4. CASE w # u
  <2>1. CallSound(w) /\ WriteSound(w) /\ call'[w] = call[w] /\ todo'[w] = todo[w]
    BY <1>2, <1>3, <1>4, Zenon DEF WriteInv, IInv, ClientSound
  <2> QED
    BY <1>2, <1>3, <2>1, WriteFrame, Zenon
<1>5. CASE w = u
  <2>1. CallSound(u) /\ WriteSound(u) /\ QueueSound(u) /\ IsCall(c)
    BY Zenon DEF WriteInv, IInv, CallSound, ClientSound
  <2>2. /\ call'[u] = [args |-> c.args, phase |-> phase, i |-> i, futures |-> s,
                       res |-> c.res, error |-> c.error]
    BY <1>2, <2>1, Zenon DEF IsCall, WriteInv, IInv
  <2>3. /\ s \in Seq(Futures) /\ Len(s) = Len(c.futures) + 1 /\ Len(c.futures) \in Nat
        /\ s[Len(s)] = f /\ \A j \in 1 .. Len(c.futures) : s[j] = c.futures[j]
    BY <1>1, <2>1 DEF IsCall
  <2> HIDE DEF s
  <2> DEFINE b == call'[u]
  <2>4. b.args = c.args /\ b.phase = phase /\ b.i = i /\ b.futures = s /\ b.error = c.error
    BY <2>2
  <2> HIDE DEF b
  <2>5. b.args.op = "removeBulk" => c.i = b.i
    BY <2>4, Zenon
  <2>6. GoodArgs(u, b)
    BY <1>2, <2>1, <2>4, Zenon DEF WriteSound, GoodArgs
  <2>7. Requested(u)'
    <3> SUFFICES ASSUME NEW j \in Pending(b)
                 PROVE  LET h == b.futures[j]
                        IN  /\ Asks(b, j, request'[h])
                            /\ h \in DOMAIN done' => Confirms(b, j, held'[u], done'[h])
      BY Zenon DEF Requested, b
    <3>1. j = Len(s) \/ (j \in Pending(c) /\ j \in 1 .. Len(c.futures))
      BY <1>2, <2>3, <2>4 DEF Pending, Waits
    <3>2. CASE j = Len(s)
      <4>1. b.futures[j] = f /\ j = Len(c.futures) + 1
        BY <2>3, <2>4, <3>2, Zenon
      <4>2. Asks(b, j, req)
        BY <2>4, <2>5, <4>1, SameCall, Zenon
      <4> QED
        BY <1>3, <4>1, <4>2, Zenon
    <3>3. CASE j \in Pending(c) /\ j \in 1 .. Len(c.futures)
      <4> DEFINE h == c.futures[j]
      <4>1. b.futures[j] = h
        BY <2>3, <2>4, <3>3, Zenon
      <4>2. h \in DOMAIN request
        BY <2>1, <3>3, Zenon DEF CallSound, Outstanding
      <4>3. Asks(c, j, request[h]) /\ (h \in DOMAIN done => Confirms(c, j, held[u], done[h]))
        BY <2>1, <3>3, Zenon DEF WriteSound, Requested
      <4> HIDE DEF h
      <4>4. Asks(b, j, request[h]) /\ (h \in DOMAIN done => Confirms(b, j, held[u], done[h]))
        BY <2>4, <2>5, <4>3, SameCall, Zenon
      <4> QED
        BY <1>2, <1>3, <4>1, <4>2, <4>4, Zenon
    <3> QED
      BY <3>1, <3>2, <3>3, Zenon
  <2>8. SoFar(b, held'[u])
    <3>1. b.args.op = "put_bulk" /\ b.phase = "wait" => 1 .. b.i = {}
      BY <2>4
    <3>2. SoFar(c, held[u])
      BY <2>1, Zenon DEF WriteSound
    <3> QED
      BY <1>2, <2>4, <2>5, <3>1, <3>2, Zenon DEF SoFar
  <2>9. InOrder(b, todo'[u])
    <3>1. todo'[u] = Append(todo[u], f) /\ todo[u] \in Seq(Futures)
      BY <1>3, <2>1, Zenon DEF QueueSound, WriteInv, IInv, ClientSound
    <3>2. todo'[u][Len(todo'[u])] = f
      BY <1>1, <3>1
    <3> QED
      BY <2>3, <2>4, <3>2, Zenon DEF InOrder
  <2>10. Took(b, held'[u], todo'[u])
    BY <2>4, Zenon DEF Took
  <2> QED
    BY <1>5, <2>6, <2>7, <2>8, <2>9, <2>10 DEF WriteSound, b
<1> QED
  BY <1>4, <1>5, Zenon

\* Once the last request of a call has been carried out, nothing of the thread is
\* to come.
LEMMA NothingToCome ==
    ASSUME WriteInv, NEW u \in Users, call[u].phase \in {"issue", "wait"}, call[u].futures # <<>>,
           call[u].futures[Len(call[u].futures)] \in DOMAIN done
    PROVE  todo[u] = <<>>
<1>1. QueueSound(u) /\ InOrder(call[u], todo[u])
  BY Zenon DEF WriteInv, IInv, ClientSound, WriteSound
<1>2. todo[u] # <<>> => Len(todo[u]) \in 1 .. Len(todo[u])
  BY <1>1 DEF QueueSound
<1>3. todo[u] # <<>> => todo[u][Len(todo[u])] \notin DOMAIN done
  BY <1>1, <1>2, Zenon DEF QueueSound
<1> QED
  BY <1>1, <1>3, Zenon DEF InOrder

\* What the delivery of a future of thread u leaves to the others.
LEMMA WriteDelivered ==
    ASSUME WriteInv, NEW u \in Users, NEW f, f[1] = u, client!Deliver(f), held' = held,
           \A w \in Users : w # u => call'[w] = call[w]
    PROVE  /\ \A w \in Users : w # u => WriteSound(w)'
           /\ todo' = todo
           /\ \A h : h # f => /\ h \in DOMAIN request => h \in DOMAIN request' /\ request'[h] = request[h]
                              /\ h \in DOMAIN done' => h \in DOMAIN done /\ done'[h] = done[h]
<1>1. /\ todo' = todo
      /\ \A h : h # f => /\ h \in DOMAIN request => h \in DOMAIN request' /\ request'[h] = request[h]
                         /\ h \in DOMAIN done' => h \in DOMAIN done /\ done'[h] = done[h]
  BY Zenon DEF client!Deliver, client!Drop
<1>2. ASSUME NEW w \in Users, w # u PROVE WriteSound(w)'
  <2>1. CallSound(w) /\ WriteSound(w) /\ call'[w] = call[w]
    BY <1>2, Zenon DEF WriteInv, IInv
  <2>2. \A h : h[1] = w => h # f
    BY <1>2, Zenon
  <2> QED
    BY <1>1, <2>1, <2>2, WriteFrame, Zenon
<1> QED
  BY <1>1, <1>2, Zenon

\* What the call still waits for, when a future that it does not wait for any more
\* has been delivered.
LEMMA StillRequested ==
    ASSUME NEW u \in Users, CallSound(u), WriteSound(u), NEW f, held' = held,
           call'[u].args = call[u].args, call'[u].futures = call[u].futures,
           call[u].args.op = "removeBulk" => call[u].i = call'[u].i,
           \A j \in Pending(call'[u]) : j \in Pending(call[u]) /\ call[u].futures[j] # f,
           \A h : h # f => /\ h \in DOMAIN request => h \in DOMAIN request' /\ request'[h] = request[h]
                           /\ h \in DOMAIN done' => h \in DOMAIN done /\ done'[h] = done[h]
    PROVE  Requested(u)'
<1> DEFINE c == call[u]
           b == call'[u]
<1> SUFFICES ASSUME NEW j \in Pending(b)
             PROVE  LET h == c.futures[j]
                    IN  /\ Asks(b, j, request'[h])
                        /\ h \in DOMAIN done' => Confirms(b, j, held[u], done'[h])
  BY Zenon DEF Requested
<1> DEFINE h == c.futures[j]
<1>1. j \in Pending(c) /\ h # f
  BY Zenon
<1>2. h \in DOMAIN request
  BY <1>1, Zenon DEF CallSound, Outstanding
<1>3. Asks(c, j, request[h]) /\ (h \in DOMAIN done => Confirms(c, j, held[u], done[h]))
  BY <1>1, Zenon DEF WriteSound, Requested
<1>4. b.args = c.args /\ (c.args.op = "removeBulk" => c.i = b.i)
  BY Zenon
<1>5. request'[h] = request[h] /\ (h \in DOMAIN done' => h \in DOMAIN done /\ done'[h] = done[h])
  BY <1>1, <1>2, Zenon
<1> HIDE DEF h, b, c
<1>6. Asks(b, j, request[h]) /\ (h \in DOMAIN done => Confirms(b, j, held[u], done[h]))
  BY <1>3, <1>4, SameCall, Zenon
<1> QED
  BY <1>5, <1>6, Zenon DEF h

\* A future that was left behind goes.
LEMMA WriteDiscard ==
    ASSUME WriteInv, NEW u \in Users, Discard(u), NEW w \in Users
    PROVE  WriteSound(w)'
<1>1. PICK f \in left[u] : client!Deliver(f) /\ call' = call /\ held' = held
  BY Zenon DEF Discard
<1>2. CallSound(u) /\ WriteSound(u) /\ f[1] = u
  BY Zenon DEF WriteInv, IInv, CallSound, LeftBehind
<1>3. /\ \A v \in Users : v # u => WriteSound(v)'
      /\ todo' = todo
      /\ \A h : h # f => /\ h \in DOMAIN request => h \in DOMAIN request' /\ request'[h] = request[h]
                         /\ h \in DOMAIN done' => h \in DOMAIN done /\ done'[h] = done[h]
  BY <1>1, <1>2, WriteDelivered, Zenon
<1>4. \A j \in Pending(call[u]) : call[u].futures[j] # f
  BY <1>2, Zenon DEF CallSound, Outstanding
<1>5. Requested(u)'
  BY <1>1, <1>2, <1>3, <1>4, StillRequested, Zenon
<1>6. WriteSound(u)'
  BY <1>1, <1>2, <1>3, <1>5, Zenon DEF WriteSound
<1> QED
  BY <1>3, <1>6, Zenon

\* All the futures of a call that changes the store have delivered "kOk".
LEMMA CallTook ==
    ASSUME OneObjectEach, NEW u \in Users, NEW c, NEW H, c.args \in Calls[u],
           c.args.op # "removeBulk", IsRange(c.args) => c.args.first <= c.args.last,
           c.args.op = "put_bulk" => \A j \in 1 .. numObjects(c.args) : Shown(c, j, H),
           c.args.op \in Changes \ {"put_bulk"} => Shown(c, 1, H)
    PROVE  Took(c, H, <<>>)
<1> DEFINE a == c.args
           oids == Oids(a)
<1>1. ASSUME a.op = "put_bulk", NEW k \in DOMAIN oids
      PROVE  \E d \in H : Has(d, oids[k], Object(a, k))
  <2>1. oids[k] = a.first + k - 1 /\ Object(a, k) = a.data[k]
    BY <1>1, ObjectOf, Zenon DEF IsRange
  <2>2. k \in 1 .. numObjects(a)
    BY <1>1, Zenon DEF Oids, IsRange
  <2>3. PICK d \in H : Changed(c, k, d)
    BY <1>1, <2>2, Zenon DEF Shown
  <2> QED
    BY <1>1, <2>1, <2>3, Zenon DEF Changed
<1>2. ASSUME a.op = "put", NEW k \in DOMAIN oids
      PROVE  \E d \in H : Has(d, oids[k], Object(a, k))
  <2>1. oids[k] = a.oid /\ Object(a, k) = a.obj
    BY <1>2 DEF Oids, IsRange, Object
  <2>2. PICK d \in H : Changed(c, 1, d)
    BY <1>2, Zenon DEF Shown, Changes
  <2> QED
    BY <1>2, <2>1, <2>2, Zenon DEF Changed
<1>3. ASSUME a.op = "put_bulk_fast"
      PROVE  \E d \in H : \A k \in DOMAIN oids : Has(d, oids[k], Object(a, k))
  <2>1. oids = a.oids
    BY <1>3, Zenon DEF Oids, IsRange
  <2>2. PICK d \in H : Changed(c, 1, d)
    BY <1>3, Zenon DEF Shown, Changes
  <2> QED
    BY <1>3, <2>1, <2>2, Zenon DEF Changed
<1>4. ASSUME a.op = "remove", NEW k \in DOMAIN oids
      PROVE  \E d \in H : oids[k] \notin DOMAIN d
  <2>1. oids[k] = a.oid
    BY <1>4 DEF Oids, IsRange
  <2>2. PICK d \in H : Changed(c, 1, d)
    BY <1>4, Zenon DEF Shown, Changes
  <2> QED
    BY <1>4, <2>1, <2>2, Zenon DEF Changed
<1> HIDE DEF oids
<1> QED
  BY <1>1, <1>2, <1>3, <1>4, Zenon DEF Took, oids

\* The next future of a call has its result, or its exception.
LEMMA WriteFutureGet ==
    ASSUME OneObjectEach, WriteInv, NEW u \in Users, call[u].args.op # "removeBulk", future_get(u),
           NEW w \in Users
    PROVE  WriteSound(w)'
<1> DEFINE c == call[u]
           a == c.args
           b == call'[u]
           n == c.i + 1
           f == c.futures[n]
           out == done[f]
<1>1. /\ c.phase = "wait" /\ f \in DOMAIN done /\ client!Deliver(f) /\ held' = held
  BY Zenon DEF future_get, Ready
<1>2. CallSound(u) /\ WriteSound(u) /\ IsCall(c) /\ Counted(c) /\ c.error = "kOk"
  BY <1>1, Zenon DEF WriteInv, IInv, CallSound, IsCall
<1>3. c.i \in Nat /\ Len(c.futures) \in Nat /\ n <= Len(c.futures)
  BY <1>1, <1>2 DEF IsCall, Counted
<1>4. Pending(c) = n .. Len(c.futures) /\ n \in Pending(c)
  BY <1>1, <1>3 DEF Pending, Waits
<1>5. f[1] = u /\ Confirms(c, n, held[u], out)
  BY <1>1, <1>2, <1>4, Zenon DEF CallSound, Outstanding, WriteSound, Requested
<1>6. \A j \in n + 1 .. Len(c.futures) : j \in Pending(c) /\ c.futures[j] # f
  <2>1. \A j \in n + 1 .. Len(c.futures) : j \in n .. Len(c.futures) /\ j # n
    BY <1>3
  <2>2. \A j \in n + 1 .. Len(c.futures) : j \in Pending(c) /\ j # n
    BY <1>4, <2>1, Zenon
  <2>3. Distinct(c)
    BY <1>2, Zenon DEF CallSound
  <2> QED
    BY <1>4, <2>2, <2>3, Zenon DEF Distinct
<1>7. a \in Calls[u] /\ (IsRange(a) => a.first <= a.last)
  BY <1>1, <1>2, Zenon DEF WriteSound, GoodArgs
<1>8. n = Len(c.futures) => todo[u] = <<>>
  <2>1. n = Len(c.futures) => c.futures # <<>>
    BY <1>3
  <2> QED
    BY <1>1, <2>1, NothingToCome, Zenon
<1> HIDE DEF f, out, n
<1>9. \A v \in Users : v # u => call'[v] = call[v]
  BY Zenon DEF future_get, WriteInv, IInv
<1>10. /\ \A v \in Users : v # u => WriteSound(v)'
       /\ todo' = todo
       /\ \A h : h # f => /\ h \in DOMAIN request => h \in DOMAIN request' /\ request'[h] = request[h]
                          /\ h \in DOMAIN done' => h \in DOMAIN done /\ done'[h] = done[h]
  BY <1>1, <1>5, <1>9, WriteDelivered
<1>11. ASSUME out.error = "kOk" PROVE WriteSound(u)'
  <2> DEFINE phase == IF n = Len(c.futures) THEN "over" ELSE "wait"
  <2>1. call' = [call EXCEPT ![u].res = Result(c, out), ![u].i = @ + 1, ![u].phase = phase]
    BY <1>11, Zenon DEF future_get, f, out, n
  <2>2. b = [args |-> a, phase |-> phase, i |-> n, futures |-> c.futures,
             res |-> Result(c, out), error |-> c.error]
    BY <2>1, <1>2, Zenon DEF WriteInv, IInv, IsCall, n
  <2>3. b.args = a /\ b.phase = phase /\ b.i = n /\ b.futures = c.futures /\ b.error = "kOk"
    BY <1>2, <2>2
  <2> HIDE DEF b
  <2>4. GoodArgs(u, b)
    BY <1>7, <2>3, Zenon DEF GoodArgs
  <2>5. Requested(u)'
    <3>1. \A j \in Pending(b) : j \in n + 1 .. Len(c.futures)
      BY <2>3, <1>3 DEF Pending, Waits, n
    <3> QED
      BY <1>1, <1>2, <1>6, <1>10, <2>3, <3>1, StillRequested, Zenon DEF b
  <2>6. a.op \in Changes => Shown(b, n, held[u])
    <3>1. a.op \in Changes => Shown(c, n, held[u])
      BY <1>5, <1>11, Zenon DEF Confirms
    <3> QED
      BY <2>3, <3>1, SameCall, Zenon
  <2>7. ASSUME a.op = "put_bulk", NEW j \in 1 .. n PROVE Shown(b, j, held[u])
    <3>1. j = n \/ j \in 1 .. c.i
      BY <1>3 DEF n
    <3>2. j \in 1 .. c.i => Shown(c, j, held[u])
      BY <1>1, <1>2, <2>7, Zenon DEF WriteSound, SoFar
    <3>3. j \in 1 .. c.i => Shown(b, j, held[u])
      BY <2>3, <3>2, SameCall, Zenon
    <3> QED
      BY <2>6, <2>7, <3>1, <3>3, Zenon DEF Changes
  <2>8. SoFar(b, held[u])
    BY <2>3, <2>7, Zenon DEF SoFar
  <2>9. InOrder(b, todo[u])
    BY <1>1, <1>2, <2>3, Zenon DEF WriteSound, InOrder
  <2>10. Took(b, held[u], todo[u])
    <3>1. CASE n = Len(c.futures)
      <4>1. a.op = "put_bulk" => n = numObjects(a)
        BY <1>1, <1>2, <3>1, Zenon DEF Counted
      <4>2. a.op \in Changes \ {"put_bulk"} => n = 1
        BY <1>1, <1>2, <3>1, Zenon DEF Counted, Changes
      <4> QED
        BY <1>7, <1>8, <2>3, <2>6, <2>7, <3>1, <4>1, <4>2, CallTook, Zenon
    <3>2. CASE n # Len(c.futures)
      BY <2>3, <3>2, Zenon DEF Took
    <3> QED
      BY <3>1, <3>2, Zenon
  <2> QED
    BY <1>1, <1>10, <2>4, <2>5, <2>8, <2>9, <2>10, Zenon DEF WriteSound, b
<1>12. ASSUME out.error # "kOk" PROVE WriteSound(u)'
  <2>1. call' = [call EXCEPT ![u].error = out.error, ![u].phase = "over"]
    BY <1>12, Zenon DEF future_get, f, out, n
  <2>2. b = [args |-> a, phase |-> "over", i |-> c.i, futures |-> c.futures,
             res |-> c.res, error |-> out.error]
    BY <2>1, <1>2, Zenon DEF WriteInv, IInv, IsCall
  <2>3. b.args = a /\ b.phase = "over" /\ b.error # "kOk"
    BY <1>12, <2>2
  <2> HIDE DEF b
  <2>4. GoodArgs(u, b) /\ SoFar(b, held[u]) /\ InOrder(b, todo[u]) /\ Took(b, held[u], todo[u])
    BY <1>7, <2>3, Zenon DEF GoodArgs, SoFar, InOrder, Took
  <2>5. Requested(u)'
    BY <2>3, Zenon DEF Requested, Pending, Waits, b
  <2> QED
    BY <1>1, <1>10, <2>4, <2>5, Zenon DEF WriteSound, b
<1> QED
  BY <1>10, <1>11, <1>12, Zenon

\* An id below the largest is not wrapped.
LEMMA NoWrap == \A x \in Nat : x < IdSpace => x % IdSpace = x
  BY StoreAssumption

\* The removal of one of several objects is over.
LEMMA WriteRemoved ==
    ASSUME WriteInv, NEW u \in Users, removeBulk_Next(u), NEW w \in Users
    PROVE  WriteSound(w)'
<1> DEFINE c == call[u]
           a == c.args
           b == call'[u]
           f == c.futures[1]
           next == (c.i + 1) % IdSpace
<1>1. /\ a.op = "removeBulk" /\ c.phase = "wait" /\ f \in DOMAIN done /\ client!Deliver(f)
      /\ call' = [call EXCEPT ![u].phase = "issue", ![u].futures = <<>>,
                              ![u].i = (@ + 1) % IdSpace]
      /\ held' = held
  BY Zenon DEF removeBulk_Next, Method, Ready
<1>2. CallSound(u) /\ WriteSound(u) /\ IsCall(c) /\ Counted(c) /\ c.i \in Nat /\ c.error = "kOk"
  BY <1>1, Zenon DEF WriteInv, IInv, CallSound, IsCall
<1>3. Len(c.futures) = 1 /\ c.futures # <<>>
  BY <1>1, <1>2 DEF Counted
<1>4. 1 \in Pending(c)
  BY <1>1, <1>3 DEF Pending, Waits
<1>5. f[1] = u /\ Confirms(c, 1, held[u], done[f])
  BY <1>1, <1>2, <1>4, Zenon DEF CallSound, Outstanding, WriteSound, Requested
<1>6. a \in Calls[u] /\ a.first <= a.last
  BY <1>1, <1>2, Zenon DEF WriteSound, GoodArgs, IsRange
<1>7. a.first \in Nat /\ a.last \in Nat /\ a.last < IdSpace
  BY <1>1, <1>6, ArgsAre, Zenon DEF IsRange
<1>8. todo[u] = <<>>
  BY <1>1, <1>3, NothingToCome, Zenon
<1>9. b = [args |-> a, phase |-> "issue", i |-> next, futures |-> <<>>,
           res |-> c.res, error |-> c.error]
  BY <1>1, <1>2, Zenon DEF WriteInv, IInv, IsCall
<1>10. b.args = a /\ b.phase = "issue" /\ b.i = next /\ b.futures = <<>> /\ Len(b.futures) = 0
  BY <1>9
<1> HIDE DEF f
<1>11. \A v \in Users : v # u => call'[v] = call[v]
  BY <1>1, Zenon DEF WriteInv, IInv
<1>12. (\A v \in Users : v # u => WriteSound(v)') /\ todo' = todo
  BY <1>1, <1>5, <1>11, WriteDelivered, Zenon
<1> HIDE DEF b
<1>13. GoodArgs(u, b) /\ InOrder(b, todo[u]) /\ Took(b, held[u], todo[u])
  BY <1>6, <1>8, <1>10, Zenon DEF GoodArgs, InOrder, Took
<1>14. Requested(u)'
  BY <1>10 DEF Requested, Pending, b
<1>15. next \in Nat /\ next < IdSpace /\ (next = c.i + 1 \/ next = 0)
  <2>1. c.i < IdSpace
    BY <1>1, <1>2, Zenon DEF WriteSound, SoFar
  <2>2. CASE c.i + 1 < IdSpace
    BY <1>2, <2>2, NoWrap
  <2>3. CASE c.i + 1 = IdSpace
    BY <2>3, StoreAssumption
  <2> QED
    BY <1>2, <2>1, <2>2, <2>3, StoreAssumption
<1> HIDE DEF next
<1>16. ASSUME NEW x \in a.first .. a.last, x < a.first + next
       PROVE  \E d \in held[u] : x \notin DOMAIN d
  <2>1. x \in Nat /\ x < IdSpace /\ next = c.i + 1
    BY <1>7, <1>15, <1>16, StoreAssumption
  <2>2. CASE x < a.first + c.i
    BY <1>1, <1>2, <2>2, Zenon DEF WriteSound, SoFar
  <2>3. CASE x = a.first + c.i
    <3>1. (a.first + c.i) % IdSpace = x
      BY <2>1, <2>3, NoWrap, Zenon
    <3>2. PICK d \in held[u] : Changed(c, 1, d)
      BY <1>1, <1>5, Zenon DEF Confirms, Shown, Changes
    <3> QED
      BY <1>1, <3>1, <3>2, Zenon DEF Changed
  <2> QED
    BY <1>2, <1>7, <1>16, <2>1, <2>2, <2>3
<1>17. SoFar(b, held[u])
  BY <1>1, <1>10, <1>15, <1>16, Zenon DEF SoFar
<1>18. WriteSound(u)'
  BY <1>1, <1>12, <1>13, <1>14, <1>17, Zenon DEF WriteSound, b
<1> QED
  BY <1>12, <1>18, Zenon

\* All the objects of a range are removed.
LEMMA WriteAllRemoved ==
    ASSUME WriteInv, NEW u \in Users, removeBulk_Done(u), NEW w \in Users
    PROVE  WriteSound(w)'
<1> DEFINE c == call[u]
           a == c.args
           b == call'[u]
           oids == Oids(a)
<1>1. /\ a.op = "removeBulk" /\ c.phase = "issue"
      /\ (a.first + c.i) % IdSpace > a.last
      /\ call' = [call EXCEPT ![u].phase = "over"]
      /\ held' = held /\ clientVars' = clientVars /\ todo' = todo
  BY Zenon DEF removeBulk_Done, Method, clientVars
<1>2. CallSound(u) /\ WriteSound(u) /\ IsCall(c) /\ c.i \in Nat /\ c.error = "kOk"
  BY <1>1, Zenon DEF WriteInv, IInv, CallSound, IsCall
<1>3. a \in Calls[u] /\ a.first <= a.last
  BY <1>1, <1>2, Zenon DEF WriteSound, GoodArgs, IsRange
<1>4. a.first \in Nat /\ a.last \in Nat /\ a.last < IdSpace
  BY <1>1, <1>3, ArgsAre, Zenon DEF IsRange
<1>5. a.first + c.i > a.last
  <2>1. SUFFICES ASSUME a.first + c.i <= a.last PROVE FALSE
    BY <1>2, <1>4
  <2>2. (a.first + c.i) % IdSpace = a.first + c.i
    BY <1>2, <1>4, <2>1, NoWrap, StoreAssumption
  <2> QED
    BY <1>1, <1>2, <1>4, <2>1, <2>2
<1>6. todo[u] = <<>>
  <2>1. c.i # 0
    BY <1>2, <1>3, <1>4, <1>5
  <2> QED
    BY <1>1, <1>2, <2>1, Zenon DEF WriteSound, InOrder
<1>7. b = [args |-> a, phase |-> "over", i |-> c.i, futures |-> c.futures,
           res |-> c.res, error |-> c.error]
  BY <1>1, <1>2, Zenon DEF WriteInv, IInv, IsCall
<1>8. b.args = a /\ b.phase = "over"
  BY <1>7
<1>9. ASSUME NEW k \in DOMAIN oids PROVE \E d \in held[u] : oids[k] \notin DOMAIN d
  <2>1. k \in 1 .. a.last - a.first + 1 /\ oids[k] = a.first + k - 1
    BY <1>1, Zenon DEF Oids, IsRange, numObjects
  <2>2. oids[k] \in a.first .. a.last /\ oids[k] < a.first + c.i
    BY <1>2, <1>4, <1>5, <2>1
  <2> QED
    BY <1>1, <1>2, <2>2, Zenon DEF WriteSound, SoFar
<1> HIDE DEF b, oids
<1>10. Took(b, held[u], todo[u])
  BY <1>1, <1>6, <1>8, <1>9, Zenon DEF Took, oids
<1>11. GoodArgs(u, b) /\ SoFar(b, held[u]) /\ InOrder(b, todo[u]) /\ Pending(b) = {}
  BY <1>1, <1>3, <1>8, Zenon DEF GoodArgs, SoFar, InOrder, Pending, Waits
<1>12. \A v \in Users : v # u => call'[v] = call[v] /\ held'[v] = held[v]
  BY <1>1, Zenon DEF WriteInv, IInv
<1> QED
  BY <1>1, <1>10, <1>11, <1>12, WriteBoundary, Zenon DEF b

\* A thread calls a method.
LEMMA WriteInvoke ==
    ASSUME WriteInv, NEW u \in Users, NEW a \in Calls[u], Invoke(u, a), NEW w \in Users
    PROVE  WriteSound(w)'
<1> DEFINE bad == IsRange(a) /\ a.last < a.first
           b == call'[u]
<1>1. b = [args |-> a, phase |-> IF bad THEN "over" ELSE "issue", i |-> 0,
           futures |-> <<>>, res |-> <<>>, error |-> IF bad THEN "kException" ELSE "kOk"]
  <2>1. CASE bad
    BY <2>1, Zenon DEF WriteInv, IInv, Invoke, Idle
  <2>2. CASE ~bad
    BY <2>2, Zenon DEF WriteInv, IInv, Invoke, Idle
  <2> QED
    BY <2>1, <2>2, Zenon
<1>2. /\ b.args = a /\ b.phase = (IF bad THEN "over" ELSE "issue") /\ b.i = 0
      /\ b.futures = <<>> /\ Len(b.futures) = 0 /\ b.error = IF bad THEN "kException" ELSE "kOk"
  BY <1>1
<1>3. clientVars' = clientVars
      /\ \A v \in Users : v # u => call'[v] = call[v] /\ held'[v] = held[v]
  BY Zenon DEF WriteInv, IInv, Invoke
<1> HIDE DEF b
<1>4. IsRange(a) => a.first \in Nat /\ a.last \in Nat
  BY ArgsAre, Zenon
<1>5. GoodArgs(u, b)
  BY <1>2, <1>4 DEF GoodArgs
<1>6. Pending(b) = {}
  BY <1>2 DEF Pending
<1>7. SoFar(b, held'[u])
  <2>1. a.op = "removeBulk" => \A x \in a.first .. a.last : ~(x < a.first + 0)
    BY <1>4 DEF IsRange
  <2> QED
    BY <1>2, <2>1, StoreAssumption DEF SoFar
<1>8. InOrder(b, todo'[u]) /\ Took(b, held'[u], todo'[u])
  BY <1>2, Zenon DEF InOrder, Took
<1> QED
  BY <1>3, <1>5, <1>6, <1>7, <1>8, WriteBoundary DEF b

\* A call returns.
LEMMA WriteReturn ==
    ASSUME WriteInv, NEW u \in Users, Return(u), NEW w \in Users
    PROVE  WriteSound(w)'
<1>1. clientVars' = clientVars /\ call'[u] = Idle
      /\ \A v \in Users : v # u => call'[v] = call[v] /\ held'[v] = held[v]
  BY Zenon DEF WriteInv, IInv, Return
<1>2. Idle.args.op = "none" /\ Idle.phase = "idle" /\ Idle.futures = <<>> /\ Len(Idle.futures) = 0
  BY Zenon DEF Idle
<1>3. /\ GoodArgs(u, Idle) /\ SoFar(Idle, held'[u]) /\ InOrder(Idle, todo'[u])
      /\ Took(Idle, held'[u], todo'[u]) /\ Pending(Idle) = {}
  BY <1>2 DEF GoodArgs, SoFar, InOrder, Took, Pending
<1> QED
  BY <1>1, <1>3, WriteBoundary, Zenon

\* The methods' steps.
LEMMA WriteStep ==
    ASSUME OneObjectEach, WriteInv, NEW u \in Users, Step(u), NEW w \in Users
    PROVE  WriteSound(w)'
<1> DEFINE c == call[u]
           a == c.args
<1>1. IsArgs(a) /\ Counted(c) /\ c.i \in Nat
  BY Zenon DEF WriteInv, IInv, CallSound, IsCall
<1>2. c.phase = "issue" /\ a.op \notin {"get_bulk", "put_bulk"} => Len(c.futures) + 1 = 1
  BY <1>1 DEF Counted
<1>3. CASE get_async(u)
  <2> DEFINE req == [op |-> "Read", oid |-> a.first + c.i]
  <2>1. a.op = "get_bulk" /\ IssueNext(u, req)
    BY <1>3, Zenon DEF get_async, Method
  <2> HIDE DEF req
  <2>2. PICK phase, i : /\ phase \in {"issue", "wait"} /\ Issue(u, req, phase, i)
                        /\ phase = "wait" => i = 0
    BY <2>1 DEF IssueNext
  <2>3. Asks(c, Len(c.futures) + 1, req)
    BY <2>1, Zenon DEF Asks
  <2> QED
    BY <2>1, <2>2, <2>3, WriteIssue, Zenon
<1>4. CASE put_async(u)
  <2> DEFINE req == [op |-> "Write", oid |-> a.first + c.i, val |-> a.data[c.i + 1]]
  <2>1. a.op = "put_bulk" /\ IssueNext(u, req)
    BY <1>4, Zenon DEF put_async, Method
  <2> HIDE DEF req
  <2>2. PICK phase, i : /\ phase \in {"issue", "wait"} /\ Issue(u, req, phase, i)
                        /\ phase = "wait" => i = 0
    BY <2>1 DEF IssueNext
  <2>3. Len(c.futures) + 1 = c.i + 1
    BY <1>1, <2>1, <2>2, Zenon DEF Counted, Issue
  <2>4. a.first + (c.i + 1) - 1 = a.first + c.i
    BY <1>1, <2>1 DEF IsArgs, IsRange
  <2>5. Asks(c, c.i + 1, req)
    BY <2>1, <2>4, Zenon DEF Asks, req
  <2> QED
    BY <2>1, <2>2, <2>3, <2>5, WriteIssue, Zenon
<1>5. CASE read_sync(u) \/ get_bulk_fast(u) \/ write_sync(u) \/ remove(u) \/ put_bulk_fast(u)
  <2>1. PICK req : /\ a.op \notin {"get_bulk", "put_bulk", "removeBulk"}
                   /\ Issue(u, req, "wait", 0) /\ Asks(c, 1, req)
    BY <1>5, Zenon DEF read_sync, get_bulk_fast, write_sync, remove, put_bulk_fast, Method, Asks
  <2>2. Asks(c, Len(c.futures) + 1, req)
    BY <1>2, <2>1, Zenon DEF Issue
  <2> QED
    BY <2>1, <2>2, WriteIssue, Zenon
<1>6. CASE removeBulk(u)
  <2>1. PICK req : a.op = "removeBulk" /\ Issue(u, req, "wait", c.i) /\ Asks(c, 1, req)
    BY <1>6, Zenon DEF removeBulk, Method, Asks
  <2>2. Asks(c, Len(c.futures) + 1, req)
    BY <1>2, <2>1, Zenon DEF Issue
  <2> QED
    BY <2>1, <2>2, WriteIssue, Zenon
<1>7. CASE get_bulk(u) \/ put_bulk(u) \/ SingleRequest(u)
  <2>1. a.op # "removeBulk" /\ future_get(u)
    BY <1>7, Zenon DEF get_bulk, put_bulk, SingleRequest, Method
  <2> QED
    BY <2>1, WriteFutureGet, Zenon
<1> QED
  BY <1>3, <1>4, <1>5, <1>6, <1>7, WriteRemoved, WriteAllRemoved, WriteReturn DEF Step

\* Before the first call.
LEMMA WriteInit == Init => WriteInv
<1> SUFFICES ASSUME Init PROVE WriteInv
  BY Zenon
<1>1. IInv
  BY InitInv, Zenon
<1>2. ASSUME NEW u \in Users PROVE WriteSound(u)
  <2>1. call[u] = Idle
    BY Zenon DEF Init
  <2>2. Idle.args.op = "none" /\ Idle.phase = "idle" /\ Idle.futures = <<>> /\ Len(Idle.futures) = 0
    BY Zenon DEF Idle
  <2> QED
    <3>1. GoodArgs(u, call[u]) /\ Took(call[u], held[u], todo[u])
      BY <2>1, <2>2, Zenon DEF GoodArgs, Took
    <3>2. Requested(u)
      BY <2>1, <2>2 DEF Requested, Pending
    <3>3. SoFar(call[u], held[u])
      BY <2>1, <2>2, Zenon DEF SoFar
    <3>4. InOrder(call[u], todo[u])
      BY <2>1, <2>2, Zenon DEF InOrder
    <3> QED
      BY <3>1, <3>2, <3>3, <3>4, Zenon DEF WriteSound
<1> QED
  BY <1>1, <1>2, Zenon DEF WriteInv

\* Every step keeps the invariant.
LEMMA WriteNext == ASSUME OneObjectEach PROVE WriteInv /\ [Next]_vars => WriteInv'
<1> SUFFICES ASSUME WriteInv, [Next]_vars PROVE WriteInv'
  BY Zenon
<1>1. IInv'
  BY NextInv, Zenon DEF WriteInv
<1>2. ASSUME NEW w \in Users PROVE WriteSound(w)'
  <2>1. CASE Next
    <3>1. PICK u \in Users : \/ \E c \in Calls[u] : Invoke(u, c)
                             \/ Step(u) \/ Discard(u) \/ Effect(u)
      BY <2>1, Zenon DEF Next
    <3> QED
      BY <3>1, WriteInvoke, WriteStep, WriteDiscard, WriteEffect, Zenon
  <2>2. CASE UNCHANGED vars
    <3>1. CallSound(w) /\ WriteSound(w)
      BY Zenon DEF WriteInv, IInv
    <3> QED
      BY <2>2, <3>1, WriteFrame, Zenon DEF vars
  <2> QED
    BY <2>1, <2>2, Zenon
<1> QED
  BY <1>1, <1>2, Zenon DEF WriteInv

\* Whatever the number of threads and objects and however their calls overlap,
\* if the caller passes one object for each id: a call that returns without an
\* exception has done all its work.  Every object that put or put_bulk names has
\* been in the store during the call, those of put_bulk_fast all at once, every
\* object that remove or removeBulk names has been out of it, and no request of the
\* thread is still to come, not even one of an earlier call that threw half way.
THEOREM CallsHaveEffect == ASSUME OneObjectEach PROVE Spec => []CallsTakeEffect
<1>1. WriteInv => CallsTakeEffect
  <2> SUFFICES ASSUME WriteInv, NEW u \in Users PROVE Took(call[u], held[u], todo[u])
    BY Zenon DEF CallsTakeEffect, Succeeded, Took
  <2> QED
    BY Zenon DEF WriteInv, WriteSound
<1> QED
  BY <1>1, WriteInit, WriteNext, PTL DEF Spec
=============================================================================
