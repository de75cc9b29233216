------------------------------ MODULE RDMAStore ------------------------------
(***************************************************************************)
(* The RDMA transport: RDMAClient (src/src/client/RDMAClient.cpp) talking  *)
(* to a BladeAllocServer (src/src/server/BladeAllocServer.cpp on top of    *)
(* RDMAServer.cpp).  The server only hands out memory: a client keeps the  *)
(* address of each of its objects in objects_ and reads and writes the     *)
(* server's pool by one-sided RDMA.                                        *)
(*                                                                         *)
(* Actors: the user threads of each client, the poller thread of each      *)
(* client, the server's event loop, the server's poller thread, and the    *)
(* network cards.  The cards are external: a reliable connected queue pair *)
(* executes the requests of a client in order at the server, a SEND waits  *)
(* for a posted receive (the sender retries), a request is acknowledged    *)
(* some time after it was executed, and requests complete in order.        *)
(* Message buffers are read and written by the cards when a request is     *)
(* executed, not when it is posted.                                        *)
(*                                                                         *)
(* Objects have the size of one cell of the pool; the pool's allocator     *)
(* (boost managed_external_buffer) returns any free cell.                  *)
(***************************************************************************)
EXTENDS Naturals, Sequences, FiniteSets

CONSTANTS
    Clients,        \* client processes
    NThreads,       \* user threads sharing one RDMAClient
    ObjectID,       \* the ids each client uses
    ValuesOf,       \* per client: the values it writes
    Junk,           \* what memory nobody wrote holds
    Addrs,          \* the cells of the server's pool (big_pool_size_)
    NullAddr,       \* address 0
    MAX_SEND_WR,    \* send requests a queue pair holds (500 in the code)
    Depth,          \* asynchronous requests a thread keeps unwaited
    Careful,        \* threads allocate and deallocate only well below the limit
    CleanExit,      \* clients exit only when nothing of theirs is in flight
    Zeroed          \* clients are made by make_unique, not as local variables

ASSUME RDMAAssumption ==
    /\ NThreads \in Nat \ {0}
    /\ NullAddr \notin Addrs
    /\ MAX_SEND_WR \in Nat \ {0}
    /\ Depth \in Nat
    /\ \A c \in Clients : Junk \notin ValuesOf[c]
    /\ Careful \in BOOLEAN /\ CleanExit \in BOOLEAN /\ Zeroed \in BOOLEAN

Threads == Clients \X (1 .. NThreads)
Sync == 0               \* "no future": the caller of write_sync keeps none
InitialReceives == 4    \* receives posted by handle_established

VARIABLES
    conn,       \* per client: the connection, as the client sees it
    sconn,      \* per client: the connection, as the server sees it
    objects_,   \* per client: the address of each object it created
    send_msg,   \* per client: the one buffer for outgoing messages
    recv_msg,   \* per client: the one buffer for incoming messages
    recv_sem,   \* per client: TRUE when signalled (a SpinLock: it does not count)
    recvs,      \* per client: receives posted and not consumed
    outstanding_send_wr,
    sq,         \* per client: posted requests the server's card has not executed
    unacked,    \* per client: executed requests not yet acknowledged
    cq,         \* per client: the completion queue
    poller,     \* per client: the completion its poller is handling (<<>> or <<wc>>)
    thr,        \* per thread: the call in progress
    fut,        \* per thread: its futures
    written,    \* per client: value of the last write posted for each object (history)
    srecvs,     \* per client: receives posted by the server
    srecv_msg,  \* per client: the server's one buffer for its messages
    scq,        \* the server's completion queue: clients whose message arrived
    spoller,    \* the completion the server's poller is handling
    replies,    \* per client: replies the server has posted
    allocated,  \* the cells of the pool handed out
    memory,     \* what the cells hold
    abandoned   \* cells of objects whose client has exited (history)

clientVars == <<conn, objects_, send_msg, recv_msg, recv_sem, recvs,
                outstanding_send_wr, poller, thr, fut, written>>
wireVars == <<sq, unacked, cq>>
serverVars == <<sconn, srecvs, srecv_msg, scq, spoller, replies, allocated>>
vars == <<clientVars, wireVars, serverVars, memory, abandoned>>

NoMsg == [op |-> "none", addr |-> NullAddr]
Alloc == [op |-> "Alloc", addr |-> NullAddr]
Dealloc(a) == [op |-> "Dealloc", addr |-> a]
AllocAck(a) == [op |-> "AllocAck", addr |-> a]
DeallocAck == [op |-> "DeallocAck", addr |-> NullAddr]

\* A work request: an RDMA write or read of an address, or the SEND of send_msg.
WriteWR(t, a, v, f) ==
    [op |-> "write", by |-> t, addr |-> a, val |-> v, fut |-> f]
ReadWR(t, a, f) ==
    [op |-> "read", by |-> t, addr |-> a, val |-> Junk, fut |-> f]
SendWR(t) ==
    [op |-> "send", by |-> t, addr |-> NullAddr, val |-> Junk, fut |-> Sync]
RecvWC(c) ==
    [op |-> "recv", by |-> <<c, 1>>, addr |-> NullAddr, val |-> Junk, fut |-> Sync]

NoFuture == [busy |-> FALSE, done |-> FALSE, read |-> FALSE, val |-> Junk, expect |-> Junk]

AtRest == [pc |-> "idle", call |-> "none", oid |-> "none", val |-> Junk,
           fut |-> Sync, wr |-> <<>>, freed |-> FALSE]

\* No constructor sets outstanding_send_wr. make_unique zeroes the object; a
\* local variable holds anything (MAX_SEND_WR + 1 stands for all above the limit).
InitialCounts == IF Zeroed THEN {0} ELSE 0 .. MAX_SEND_WR + 1

Init ==
    /\ conn = [c \in Clients |-> "start"]
    /\ sconn = [c \in Clients |-> "none"]
    /\ objects_ = [c \in Clients |-> [o \in {} |-> NullAddr]]
    /\ send_msg = [c \in Clients |-> NoMsg]
    /\ recv_msg = [c \in Clients |-> NoMsg]
    /\ recv_sem = [c \in Clients |-> FALSE]
    /\ recvs = [c \in Clients |-> 0]
    /\ outstanding_send_wr \in [Clients -> InitialCounts]
    /\ sq = [c \in Clients |-> <<>>]
    /\ unacked = [c \in Clients |-> <<>>]
    /\ cq = [c \in Clients |-> <<>>]
    /\ poller = [c \in Clients |-> <<>>]
    /\ thr = [t \in Threads |-> AtRest]
    /\ fut = [t \in Threads |-> [i \in 1 .. Depth |-> NoFuture]]
    /\ written = [c \in Clients |-> [o \in {} |-> Junk]]
    /\ srecvs = [c \in Clients |-> 0]
    /\ srecv_msg = [c \in Clients |-> NoMsg]
    /\ scq = <<>>
    /\ spoller = <<>>
    /\ replies = [c \in Clients |-> <<>>]
    /\ allocated = {}
    /\ memory = [a \in Addrs |-> Junk]
    /\ abandoned = {}

-----------------------------------------------------------------------------
(* Connecting: the client's connect_rdma_cm and the server's loop.         *)

restVars == <<objects_, send_msg, recv_msg, recv_sem, recvs, outstanding_send_wr,
              poller, thr, fut, written, wireVars, memory, abandoned>>

\* RDMA_CM_EVENT_ADDR_RESOLVED: build_connection makes the queue pair and, in
\* build_context, the completion queue, and starts the poller thread...
build_connection(c) ==
    /\ conn[c] = "start"
    /\ conn' = [conn EXCEPT ![c] = "built"]
    /\ UNCHANGED <<restVars, serverVars>>

\* ... setup_memory registers the two message buffers, and the route is asked for.
setup_memory(c) ==
    /\ conn[c] = "built"
    /\ conn' = [conn EXCEPT ![c] = "resolving"]
    /\ UNCHANGED <<restVars, serverVars>>

\* RDMA_CM_EVENT_ROUTE_RESOLVED: rdma_connect.
RouteResolved(c) ==
    /\ conn[c] = "resolving"
    /\ conn' = [conn EXCEPT ![c] = "connecting"]
    /\ UNCHANGED <<restVars, serverVars>>

\* The server makes two buffers for each connection.
create_connection_context(c) == srecv_msg' = [srecv_msg EXCEPT ![c] = NoMsg]

\* RDMA_CM_EVENT_CONNECT_REQUEST at the server: build_connection,
\* create_connection_context, rdma_accept.
ConnectRequest(c) ==
    /\ conn[c] = "connecting" /\ sconn[c] = "none"
    /\ create_connection_context(c)
    /\ sconn' = [sconn EXCEPT ![c] = "accepted"]
    /\ UNCHANGED <<conn, restVars, srecvs, scq, spoller, replies, allocated>>

\* RDMA_CM_EVENT_ESTABLISHED at the client: connect returns.
Established(c) ==
    /\ conn[c] = "connecting" /\ sconn[c] # "none"
    /\ conn' = [conn EXCEPT ![c] = "established"]
    /\ UNCHANGED <<restVars, serverVars>>

\* Mutant: no receive is posted for the client's first message.
handle_established_NoReceives(c) ==
    /\ sconn[c] = "accepted"
    /\ conn[c] \in {"established", "exited"}
    /\ sconn' = [sconn EXCEPT ![c] = "established"]
    /\ UNCHANGED <<clientVars, wireVars, srecvs, srecv_msg, scq, spoller, replies,
                   allocated, memory, abandoned>>

post_msg_receive(c, n) == srecvs' = [srecvs EXCEPT ![c] = @ + n]

\* RDMA_CM_EVENT_ESTABLISHED at the server: only now are receives posted, all
\* of them for the one buffer of this client.
handle_established(c) ==
    /\ sconn[c] = "accepted"
    /\ conn[c] \in {"established", "exited"}
    /\ sconn' = [sconn EXCEPT ![c] = "established"]
    /\ post_msg_receive(c, InitialReceives)
    /\ UNCHANGED <<clientVars, wireVars, srecv_msg, scq, spoller, replies, allocated,
                   memory, abandoned>>

-----------------------------------------------------------------------------
(* The user threads: the calls of the BladeClient interface.               *)

Known(c, oid) == oid \in DOMAIN objects_[c]
Ready(t) == conn[t[1]] = "established" /\ thr[t].pc = "idle"

\* Careful threads leave room for the n send requests of a call that sends a message.
RoomForRpc(c, n) == Careful => outstanding_send_wr[c] + n <= MAX_SEND_WR

FreeFutures(t) == {i \in 1 .. Depth : ~fut[t][i].busy}

Without(f, x) == [y \in DOMAIN f \ {x} |-> f[y]]
With(f, x, v) == [y \in DOMAIN f \cup {x} |-> IF y = x THEN v ELSE f[y]]

Begin(t, pc, call, oid, v, f, wr) ==
    thr' = [thr EXCEPT ![t] = [pc |-> pc, call |-> call, oid |-> oid, val |-> v,
                               fut |-> f, wr |-> wr, freed |-> FALSE]]

Claim(t, f, isRead) ==
    fut' = [fut EXCEPT ![t][f] = [NoFuture EXCEPT !.busy = TRUE, !.read = isRead]]

\* rdma_write_sync, rdma_write_async: a write of the object's cell.
WriteAt(t, oid, v, f) ==
    Begin(t, "check", "write", oid, v, f, <<WriteWR(t, objects_[t[1]][oid], v, f)>>)

\* A known object is written where it is, an unknown one is allocated first: a SEND
\* and a write.
Write(t, oid, v, f) ==
    /\ Ready(t)
    /\ IF Known(t[1], oid) THEN WriteAt(t, oid, v, f)
       ELSE RoomForRpc(t[1], 2) /\ Begin(t, "copy", "write", oid, v, f, <<SendWR(t)>>)
    /\ UNCHANGED <<conn, objects_, send_msg, recv_msg, recv_sem, recvs,
                   outstanding_send_wr, poller, written, wireVars, serverVars, memory,
                   abandoned>>

write_sync(t, oid, v) == Write(t, oid, v, Sync) /\ UNCHANGED fut

write_async(t, oid, v, f) ==
    /\ f \in FreeFutures(t)
    /\ Write(t, oid, v, f)
    /\ Claim(t, f, FALSE)

\* read_async (read_sync is read_async and a wait): NoSuchID unless this client
\* created the object.
read_async(t, oid, f) ==
    LET c == t[1] IN
    /\ Ready(t)
    /\ f \in FreeFutures(t)
    /\ Known(c, oid)
    /\ Begin(t, "check", "read", oid, Junk, f, <<ReadWR(t, objects_[c][oid], f)>>)
    /\ Claim(t, f, TRUE)
    /\ UNCHANGED <<conn, objects_, send_msg, recv_msg, recv_sem, recvs,
                   outstanding_send_wr, poller, written, wireVars, serverVars, memory,
                   abandoned>>

\* Mutant: the location is erased and the memory kept.
remove_Forgets(t, oid) ==
    LET c == t[1] IN
    /\ Ready(t)
    /\ Known(c, oid)
    /\ objects_' = [objects_ EXCEPT ![c] = Without(@, oid)]
    /\ written' = [written EXCEPT ![c] = Without(@, oid)]
    /\ UNCHANGED <<conn, send_msg, recv_msg, recv_sem, recvs, outstanding_send_wr,
                   poller, thr, fut, wireVars, serverVars, memory, abandoned>>

\* Mutant: the memory is given back and the location kept.
remove_KeepsLocation(t, oid) ==
    LET c == t[1] IN
    /\ Ready(t)
    /\ Known(c, oid)
    /\ RoomForRpc(c, 1)
    /\ Begin(t, "copy", "remove", oid, Junk, Sync,
             <<[SendWR(t) EXCEPT !.addr = objects_[c][oid]]>>)
    /\ UNCHANGED <<conn, objects_, send_msg, recv_msg, recv_sem, recvs,
                   outstanding_send_wr, poller, fut, written, wireVars, serverVars,
                   memory, abandoned>>

\* remove: the location is erased, then the memory given back.
remove(t, oid) ==
    LET c == t[1] IN
    /\ Ready(t)
    /\ Known(c, oid)
    /\ RoomForRpc(c, 1)
    /\ Begin(t, "copy", "remove", oid, Junk, Sync,
             <<[SendWR(t) EXCEPT !.addr = objects_[c][oid]]>>)
    /\ objects_' = [objects_ EXCEPT ![c] = Without(@, oid)]
    /\ written' = [written EXCEPT ![c] = Without(@, oid)]
    /\ UNCHANGED <<conn, send_msg, recv_msg, recv_sem, recvs, outstanding_send_wr,
                   poller, fut, wireVars, serverVars, memory, abandoned>>

\* ClientFuture::getDataPair / get: returns once the result is available.
wait(t, f) ==
    /\ Ready(t)
    /\ f \in 1 .. Depth /\ fut[t][f].busy /\ fut[t][f].done
    /\ fut' = [fut EXCEPT ![t][f] = NoFuture]
    /\ UNCHANGED <<conn, objects_, send_msg, recv_msg, recv_sem, recvs,
                   outstanding_send_wr, poller, thr, written, wireVars, serverVars,
                   memory, abandoned>>

-----------------------------------------------------------------------------
(* The steps of a call: allocate, deallocate, send_receive_message_sync,   *)
(* post_send.                                                              *)

At(t, pc) == thr[t].pc = pc /\ conn[t[1]] = "established"
Goto(t, pc) == thr' = [thr EXCEPT ![t].pc = pc]
Return(t) == thr' = [thr EXCEPT ![t] = AtRest]
Request(t) == thr[t].wr[1]

\* A call that throws leaves its future behind.
Throw(t) ==
    /\ Return(t)
    /\ fut' = IF thr[t].fut = Sync THEN fut
              ELSE [fut EXCEPT ![t][thr[t].fut] = NoFuture]

\* allocate, deallocate: the message is built in con_ctx_.send_msg.
CopyMessage(t) ==
    /\ At(t, "copy")
    /\ send_msg' = [send_msg EXCEPT ![t[1]] =
                      IF thr[t].call = "write" THEN Alloc ELSE Dealloc(Request(t).addr)]
    /\ Goto(t, "receive")
    /\ UNCHANGED <<conn, objects_, recv_msg, recv_sem, recvs, outstanding_send_wr,
                   poller, fut, written, wireVars, serverVars, memory, abandoned>>

\* send_receive_message_sync posts the receive for the reply first.
post_receive(t) ==
    /\ At(t, "receive")
    /\ recvs' = [recvs EXCEPT ![t[1]] = @ + 1]
    /\ Goto(t, "check")
    /\ UNCHANGED <<conn, objects_, send_msg, recv_msg, recv_sem, outstanding_send_wr,
                   poller, fut, written, wireVars, serverVars, memory, abandoned>>

\* post_send compares the count with the limit...
AtLimit(c) == outstanding_send_wr[c] = MAX_SEND_WR

CheckLimit(t) ==
    /\ At(t, "check")
    /\ ~AtLimit(t[1])
    /\ Goto(t, "queue")
    /\ UNCHANGED <<conn, objects_, send_msg, recv_msg, recv_sem, recvs,
                   outstanding_send_wr, poller, fut, written, wireVars, serverVars,
                   memory, abandoned>>

\* ... and fails at the limit: a read or a write throws, but allocate and
\* deallocate do not look at what send_receive_message_sync returned.
Refused(t) ==
    /\ At(t, "check")
    /\ AtLimit(t[1])
    /\ IF Request(t).op = "send" THEN Goto(t, "result") /\ UNCHANGED fut
       ELSE Throw(t)
    /\ UNCHANGED <<conn, objects_, send_msg, recv_msg, recv_sem, recvs,
                   outstanding_send_wr, poller, written, wireVars, serverVars, memory,
                   abandoned>>

\* The request is counted and handed to the card.  An asynchronous call returns.
post_send(t) ==
    LET c == t[1]
        wr == Request(t)
        waits == wr.op # "read" /\ (wr.op = "send" \/ wr.fut = Sync)
    IN
    /\ At(t, "queue")
    /\ outstanding_send_wr' = [outstanding_send_wr EXCEPT ![c] = @ + 1]
    /\ sq' = [sq EXCEPT ![c] = Append(@, wr)]
    /\ written' = IF wr.op = "write" /\ Known(c, thr[t].oid)
                  THEN [written EXCEPT ![c] = With(@, thr[t].oid, wr.val)] ELSE written
    /\ fut' = IF wr.op = "read" /\ thr[t].oid \in DOMAIN written[c]
              THEN [fut EXCEPT ![t][wr.fut].expect = written[c][thr[t].oid]] ELSE fut
    /\ IF waits THEN Goto(t, "sent") ELSE Return(t)
    /\ UNCHANGED <<conn, objects_, send_msg, recv_msg, recv_sem, recvs, poller, unacked,
                   cq, serverVars, memory, abandoned>>

\* op_info->fd->sem->wait(): a FutureData's SpinLock starts unlocked, so this
\* wait never blocks.  write_sync is over; an exchange waits for the reply.
WaitSent(t) ==
    /\ At(t, "sent")
    /\ IF Request(t).op = "send" THEN Goto(t, "reply") ELSE Return(t)
    /\ UNCHANGED <<conn, objects_, send_msg, recv_msg, recv_sem, recvs,
                   outstanding_send_wr, poller, fut, written, wireVars, serverVars,
                   memory, abandoned>>

\* con_ctx_.recv_sem->wait().
WaitReply(t) ==
    /\ At(t, "reply")
    /\ recv_sem[t[1]]
    /\ recv_sem' = [recv_sem EXCEPT ![t[1]] = FALSE]
    /\ Goto(t, "result")
    /\ UNCHANGED <<conn, objects_, send_msg, recv_msg, recvs, outstanding_send_wr,
                   poller, fut, written, wireVars, serverVars, memory, abandoned>>

insertObjectLocation(c, oid, a) ==
    /\ objects_' = [objects_ EXCEPT ![c] = With(@, oid, a)]
    /\ written' = [written EXCEPT ![c] = With(@, oid, Junk)]

\* Mutant: a new object is located and not written.
Allocated_NoWrite(t) ==
    LET a == recv_msg[t[1]].addr IN
    /\ At(t, "result") /\ thr[t].call = "write"
    /\ Throw(t)
    /\ IF a = NullAddr THEN UNCHANGED <<objects_, written>>
       ELSE insertObjectLocation(t[1], thr[t].oid, a)
    /\ UNCHANGED <<conn, send_msg, recv_msg, recv_sem, recvs, outstanding_send_wr,
                   poller, wireVars, serverVars, memory, abandoned>>

\* allocate reads recv_msg as an AllocAck: address 0 is
\* ServerMemoryErrorException, any other becomes the object's location and is
\* written to.  Reading another message as an AllocAck follows a null pointer:
\* there is no such step, and the call never returns (CallsReturn).
Allocated(t) ==
    LET c == t[1]
        a == recv_msg[c].addr
    IN
    /\ At(t, "result") /\ thr[t].call = "write"
    /\ recv_msg[c].op = "AllocAck"
    /\ IF a = NullAddr THEN Throw(t) /\ UNCHANGED <<objects_, written>>
       ELSE /\ insertObjectLocation(c, thr[t].oid, a)
            /\ thr' = [thr EXCEPT ![t].pc = "check",
                                  ![t].wr = <<WriteWR(t, a, thr[t].val, thr[t].fut)>>]
            /\ UNCHANGED fut
    /\ UNCHANGED <<conn, send_msg, recv_msg, recv_sem, recvs, outstanding_send_wr,
                   poller, wireVars, serverVars, memory, abandoned>>

\* deallocate: the server always answers true.
Deallocated(t) ==
    /\ At(t, "result") /\ thr[t].call = "remove"
    /\ recv_msg[t[1]].op = "DeallocAck"
    /\ Return(t)
    /\ UNCHANGED <<conn, objects_, send_msg, recv_msg, recv_sem, recvs,
                   outstanding_send_wr, poller, fut, written, wireVars, serverVars,
                   memory, abandoned>>

-----------------------------------------------------------------------------
(* The network cards (external).                                           *)

\* The server's card executes the oldest request of a client.
Execute(c) ==
    LET wr == Head(sq[c]) IN
    /\ sq[c] # <<>>
    /\ conn[c] # "exited"
    /\ wr.op = "send" => srecvs[c] > 0
    /\ sq' = [sq EXCEPT ![c] = Tail(@)]
    /\ unacked' = [unacked EXCEPT ![c] = Append(@,
                     IF wr.op = "read" THEN [wr EXCEPT !.val = memory[wr.addr]] ELSE wr)]
    /\ memory' = IF wr.op = "write" THEN [memory EXCEPT ![wr.addr] = wr.val] ELSE memory
    /\ IF wr.op = "send"
       THEN /\ srecvs' = [srecvs EXCEPT ![c] = @ - 1]
            /\ srecv_msg' = [srecv_msg EXCEPT ![c] = send_msg[c]]
            /\ scq' = Append(scq, c)
       ELSE UNCHANGED <<srecvs, srecv_msg, scq>>
    /\ UNCHANGED <<clientVars, cq, sconn, spoller, replies, allocated, abandoned>>

\* The acknowledgement (for a read, the data) reaches the client's card.
Acknowledge(c) ==
    /\ unacked[c] # <<>>
    /\ conn[c] # "exited"
    /\ cq' = [cq EXCEPT ![c] = Append(@, Head(unacked[c]))]
    /\ unacked' = [unacked EXCEPT ![c] = Tail(@)]
    /\ UNCHANGED <<clientVars, sq, serverVars, memory, abandoned>>

\* A reply reaches the client's one receive buffer.
DeliverReply(c) ==
    /\ replies[c] # <<>>
    /\ conn[c] # "exited"
    /\ recvs[c] > 0
    /\ recvs' = [recvs EXCEPT ![c] = @ - 1]
    /\ recv_msg' = [recv_msg EXCEPT ![c] = Head(replies[c])]
    /\ replies' = [replies EXCEPT ![c] = Tail(@)]
    /\ cq' = [cq EXCEPT ![c] = Append(@, RecvWC(c))]
    /\ UNCHANGED <<conn, objects_, send_msg, recv_sem, outstanding_send_wr, poller, thr,
                   fut, written, sq, unacked, sconn, srecvs, srecv_msg, scq, spoller,
                   allocated, memory, abandoned>>

-----------------------------------------------------------------------------
(* The client's poller thread: poll_cq and on_completion.                  *)

\* The completion is taken and RDMAOpInfo::apply makes the result available.
poll_cq(c) ==
    LET wc == Head(cq[c]) IN
    /\ conn[c] = "established"
    /\ poller[c] = <<>> /\ cq[c] # <<>>
    /\ cq' = [cq EXCEPT ![c] = Tail(@)]
    /\ poller' = [poller EXCEPT ![c] = <<wc>>]
    /\ fut' = IF wc.fut = Sync THEN fut
              ELSE [fut EXCEPT ![wc.by][wc.fut].done = TRUE,
                               ![wc.by][wc.fut].val = wc.val]
    /\ UNCHANGED <<conn, objects_, send_msg, recv_msg, recv_sem, recvs,
                   outstanding_send_wr, thr, written, sq, unacked, serverVars, memory,
                   abandoned>>

\* A thread that still has to wait through the operation's op_info.
Waiter(wc) ==
    /\ thr[wc.by].pc = "sent" /\ thr[wc.by].wr = <<wc>>
    /\ \A q \in {sq, unacked, cq} : \A i \in 1 .. Len(q[wc.by[1]]) : q[wc.by[1]][i] # wc

\* Mutant: the completion of a SEND is not counted off.
on_completion_SendUncounted(c) ==
    LET wc == poller[c][1] IN
    /\ conn[c] = "established"
    /\ poller[c] # <<>>
    /\ poller' = [poller EXCEPT ![c] = <<>>]
    /\ recv_sem' = [recv_sem EXCEPT ![c] = @ \/ wc.op = "recv"]
    /\ outstanding_send_wr' = [outstanding_send_wr EXCEPT ![c] =
                                 IF wc.op \in {"read", "write"} THEN @ - 1 ELSE @]
    /\ UNCHANGED <<conn, objects_, send_msg, recv_msg, recvs, thr, fut, written,
                   wireVars, serverVars, memory, abandoned>>

\* RECV signals recv_sem; any other completion is counted off.  op_info is
\* deleted either way.
on_completion(c) ==
    LET wc == poller[c][1] IN
    /\ conn[c] = "established"
    /\ poller[c] # <<>>
    /\ poller' = [poller EXCEPT ![c] = <<>>]
    /\ IF wc.op = "recv"
       THEN /\ recv_sem' = [recv_sem EXCEPT ![c] = TRUE]
            /\ UNCHANGED outstanding_send_wr
       ELSE /\ outstanding_send_wr' = [outstanding_send_wr EXCEPT ![c] = @ - 1]
            /\ UNCHANGED recv_sem
    /\ thr' = IF Waiter(wc) THEN [thr EXCEPT ![wc.by].freed = TRUE] ELSE thr
    /\ UNCHANGED <<conn, objects_, send_msg, recv_msg, recvs, fut, written, wireVars,
                   serverVars, memory, abandoned>>

-----------------------------------------------------------------------------
(* The server: its poller thread and BladeAllocServer::process_message.    *)

ServerPoll ==
    /\ spoller = <<>> /\ scq # <<>>
    /\ spoller' = <<Head(scq)>>
    /\ scq' = Tail(scq)
    /\ UNCHANGED <<clientVars, wireVars, sconn, srecvs, srecv_msg, replies, allocated,
                   memory, abandoned>>

Free == Addrs \ allocated

send_message(c, msg) == replies' = [replies EXCEPT ![c] = Append(@, msg)]

\* The allocator's bad_alloc is caught and answered with a null address.
process_alloc(c) ==
    \/ /\ Free = {}
       /\ send_message(c, AllocAck(NullAddr))
       /\ UNCHANGED allocated
    \/ \E a \in Free :
         /\ allocated' = allocated \cup {a}
         /\ send_message(c, AllocAck(a))

process_dealloc(c, a) ==
    /\ allocated' = allocated \ {a}
    /\ send_message(c, DeallocAck)

\* on_completion at the server: another receive is posted, then the buffer is
\* read and the message processed.
ServerCompletion ==
    LET c == spoller[1]
        msg == srecv_msg[c]
    IN
    /\ spoller # <<>>
    /\ sconn[c] = "established"
    /\ spoller' = <<>>
    /\ post_msg_receive(c, 1)
    /\ \/ msg.op = "Alloc" /\ process_alloc(c)
       \/ msg.op = "Dealloc" /\ process_dealloc(c, msg.addr)
    /\ UNCHANGED <<clientVars, wireVars, sconn, srecv_msg, scq, memory, abandoned>>

-----------------------------------------------------------------------------
(* A client process ends.  Nothing tells the server which memory was its.  *)

Busy(c) ==
    \/ \E t \in Threads : t[1] = c /\ thr[t].pc # "idle"
    \/ sq[c] # <<>> \/ replies[c] # <<>>
    \/ spoller = <<c>> \/ \E i \in 1 .. Len(scq) : scq[i] = c

Exit(c) ==
    /\ conn[c] = "established"
    /\ CleanExit => ~Busy(c)
    /\ conn' = [conn EXCEPT ![c] = "exited"]
    /\ abandoned' = abandoned \cup {objects_[c][o] : o \in DOMAIN objects_[c]}
    /\ objects_' = [objects_ EXCEPT ![c] = [o \in {} |-> NullAddr]]
    /\ written' = [written EXCEPT ![c] = [o \in {} |-> Junk]]
    /\ thr' = [t \in Threads |-> IF t[1] = c THEN AtRest ELSE thr[t]]
    /\ fut' = [t \in Threads |-> IF t[1] = c THEN [i \in 1 .. Depth |-> NoFuture] ELSE fut[t]]
    /\ sq' = [sq EXCEPT ![c] = <<>>]
    /\ unacked' = [unacked EXCEPT ![c] = <<>>]
    /\ cq' = [cq EXCEPT ![c] = <<>>]
    /\ poller' = [poller EXCEPT ![c] = <<>>]
    /\ outstanding_send_wr' = [outstanding_send_wr EXCEPT ![c] = 0]
    /\ UNCHANGED <<send_msg, recv_msg, recv_sem, recvs, serverVars, memory>>

\* RDMA_CM_EVENT_DISCONNECTED: the queue pair, the buffers and the id of the
\* connection are destroyed, completions it left in the queue with them.  The
\* pool is not touched.
handle_disconnected(c) ==
    /\ conn[c] = "exited" /\ sconn[c] = "established"
    /\ sconn' = [sconn EXCEPT ![c] = "destroyed"]
    /\ scq' = IF \E i \in 1 .. Len(scq) : scq[i] = c THEN SelectSeq(scq, LAMBDA d : d # c) ELSE scq
    /\ replies' = [replies EXCEPT ![c] = <<>>]
    /\ UNCHANGED <<clientVars, wireVars, srecvs, srecv_msg, spoller, allocated, memory,
                   abandoned>>

-----------------------------------------------------------------------------
ThreadStep(t) ==
    \/ CopyMessage(t)
    \/ post_receive(t)
    \/ CheckLimit(t)
    \/ Refused(t)
    \/ post_send(t)
    \/ WaitSent(t)
    \/ WaitReply(t)
    \/ Allocated(t)
    \/ Deallocated(t)

UserCall(t) ==
    \/ \E oid \in ObjectID, v \in ValuesOf[t[1]] : write_sync(t, oid, v)
    \/ \E oid \in ObjectID, v \in ValuesOf[t[1]], f \in 1 .. Depth : write_async(t, oid, v, f)
    \/ \E oid \in ObjectID, f \in 1 .. Depth : read_async(t, oid, f)
    \/ \E oid \in ObjectID : remove(t, oid)
    \/ \E f \in 1 .. Depth : wait(t, f)

connect_rdma_cm(c) ==
    \/ build_connection(c)
    \/ setup_memory(c)
    \/ RouteResolved(c)
    \/ Established(c)

ServerLoop(c) ==
    \/ ConnectRequest(c)
    \/ handle_established(c)
    \/ handle_disconnected(c)

Card(c) ==
    \/ Execute(c)
    \/ Acknowledge(c)
    \/ DeliverReply(c)

Next ==
    \/ \E t \in Threads : UserCall(t) \/ ThreadStep(t)
    \/ \E c \in Clients : connect_rdma_cm(c) \/ ServerLoop(c) \/ Card(c) \/ Exit(c)
    \/ \E c \in Clients : poll_cq(c) \/ on_completion(c)
    \/ ServerPoll
    \/ ServerCompletion

Spec == Init /\ [][Next]_vars

(* Every thread the code starts is scheduled by the operating system, the  *)
(* pollers and the loops never sleep for good, and the cards retransmit.   *)
(* Whether a user makes another call or exits is up to the user.           *)
Fairness ==
    /\ \A t \in Threads : WF_vars(ThreadStep(t))
    /\ \A c \in Clients : WF_vars(ServerLoop(c))
    /\ \A c \in Clients :
         WF_vars(Execute(c)) /\ WF_vars(Acknowledge(c)) /\ WF_vars(DeliverReply(c))
    /\ \A c \in Clients : WF_vars(poll_cq(c) \/ on_completion(c))
    /\ WF_vars(ServerPoll \/ ServerCompletion)

FairSpec == Spec /\ Fairness

-----------------------------------------------------------------------------
(* Properties.                                                             *)

Located(c) == {objects_[c][o] : o \in DOMAIN objects_[c]}

\* No two objects, of one client or of two, are kept in the same memory, and
\* the server regards all of it as handed out (allocate, remove and
\* process_message agree on who owns a cell although the client learns of an
\* address only through its shared reply buffer).
DisjointObjects ==
    LET all == {p \in Clients \X ObjectID : p[2] \in DOMAIN objects_[p[1]]}
        addr(p) == objects_[p[1]][p[2]]
    IN  /\ \A p, q \in all : p # q => addr(p) # addr(q)
        /\ \A p \in all : addr(p) \in allocated

\* Between calls the server's pool holds exactly the objects the clients know,
\* and those of clients that exited, which are never given back: no allocation
\* and no deallocation is lost or done twice.
MemoryAccounted ==
    (\A c \in Clients : ~Busy(c)) =>
        allocated = abandoned \cup UNION {Located(c) : c \in Clients}

\* A read delivers the value of the last write its client posted for the object
\* before it, although write_sync does not wait for its write, the cell may have
\* belonged to another object before, and the object may be removed and the cell
\* reused while the read is in flight.
ReadsFresh ==
    \A t \in Threads : \A f \in 1 .. Depth :
        LET r == fut[t][f] IN
        r.busy /\ r.done /\ r.read => r.val = r.expect /\ r.val # Junk

Sends(q) == Cardinality({i \in 1 .. Len(q) : q[i].op # "recv"})

\* outstanding_send_wr counts the send requests posted and not completed, so
\* on_completion's assertion never fails and the queue never overflows; every
\* reply the server posts finds a receive the client posted for it.
CountExact ==
    \A c \in Clients : conn[c] # "exited" =>
        /\ outstanding_send_wr[c] =
              Sends(sq[c]) + Sends(unacked[c]) + Sends(cq[c]) + Sends(poller[c])
        /\ outstanding_send_wr[c] <= MAX_SEND_WR
        /\ Len(replies[c]) <= recvs[c]
        /\ recvs[c] <= NThreads

\* Every call returns, and every future of a client that stays completes: the
\* message sent before the server has posted its receives, the reply and the
\* signal of recv_sem all arrive.
CallsReturn ==
    \A t \in Threads :
        /\ thr[t].pc # "idle" ~> thr[t].pc = "idle"
        /\ \A f \in 1 .. Depth : fut[t][f].busy ~> (fut[t][f].done \/ ~fut[t][f].busy)

\* write_rdma_sync: "It will not return until the message is sent."
WriteSyncWaits ==
    [][\A t \in Threads :
         thr[t].pc = "sent" /\ thr'[t].pc = "idle" /\ conn'[t[1]] = "established"
             => thr[t].freed]_vars

\* "This will be freed in poll_cq": the op_info of a request is not used after
\* on_completion deleted it.
OpInfoAlive == \A t \in Threads : thr[t].pc = "sent" => ~thr[t].freed

\* The server's poller never handles a message of a connection the event loop
\* has destroyed.
ServerIdAlive == \A i \in 1 .. Len(spoller) : sconn[spoller[i]] # "destroyed"
=============================================================================
