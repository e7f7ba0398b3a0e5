------------------------------ MODULE PoolConn ------------------------------
(***************************************************************************)
(* A pool thread of glbd at work (glb_pool.c): it takes over connections,  *)
(* waits for events on their two ends, moves data from either end to the   *)
(* other through a buffer of limited size, fails over when an asynchronous *)
(* connect fails, and drops connections.                                   *)
(*                                                                         *)
(* The thread shares nothing of this with other threads, so one event      *)
(* handled is one step; between the steps of a batch of events the state   *)
(* changes, but the batch does not. What the kernel answers to a call is   *)
(* chosen freely. This is the epoll variant, the default on Linux.         *)
(***************************************************************************)
EXTENDS Integers, Sequences, FiniteSets, FiniteSetsExt

CONSTANTS
    Conns,      \* connections: the memory of one, both ends included
    FDs,        \* file descriptors; no order, so that any may be the lowest
    NoFD,       \* the socket of an end that has none: -1
    Addrs,      \* addresses of destinations
    NoAddr,     \* not an address
    BufSize,    \* pool_buf_size
    MaxBytes,   \* bytes that move in a connection, both ways together (bound)
    MaxBatch,   \* descriptors epoll_wait() reports at a time (bound)
    Modes,      \* is the destination of a new connection connected? {TRUE} for
                \* synchronous connects, {FALSE} for asynchronous ones
    Early       \* may data move over a connection the thread has not yet been
                \* told is established?

ASSUME PoolConnAssumption ==
    /\ IsFiniteSet(Conns) /\ IsFiniteSet(FDs)
    /\ NoFD \notin FDs /\ NoAddr \notin Addrs
    /\ BufSize \in Nat \ {0}
    /\ MaxBytes \in Nat /\ MaxBatch \in Nat
    /\ Modes \subseteq BOOLEAN /\ Early \in BOOLEAN

VARIABLES
    pool,       \* struct pool, and what the kernel and the router keep of it
    batch,      \* the events of the last epoll_wait() that are not yet handled
    current,    \* the descriptor whose read is handled and whose write is next
    ctl,        \* there is a command among the events of the batch
    crashed,    \* the thread has followed a NULL pointer
    shutdown    \* pool->shutdown

vars == <<pool, batch, current, ctl, crashed, shutdown>>

-----------------------------------------------------------------------------
(* Types                                                                   *)

Sides == {"inc", "dst"}
Other(s) == CHOOSE t \in Sides : t # s

\* Events of a descriptor: POOL_FD_READ, POOL_FD_WRITE; Off when epoll does not
\* have the descriptor.
RW == {"R", "W"}
Off == {"off"}

\* pool_conn_end_t. buf is what is in the buffer up to total: the bytes to be
\* sent on this end, numbered as they came.
EndType == [sock : FDs \cup {NoFD}, events : SUBSET RW, buf : Seq(Nat), sent : Nat]

\* A connection: on its way to the pool thread, or served by it. complete is
\* POOL_END_COMPLETE of the destination's end. rcvd and dlvd count the bytes
\* received for an end and sent on it.
ConnType == [stage : {"free", "piped", "served"}, complete : BOOLEAN,
             addr : Addrs \cup {NoAddr}, end : [Sides -> EndType],
             rcvd : [Sides -> Nat], dlvd : [Sides -> Nat]]

NoEnd == [sock |-> NoFD, events |-> {}, buf |-> <<>>, sent |-> 0]

NoConn == [stage |-> "free", complete |-> FALSE, addr |-> NoAddr,
           end |-> [s \in Sides |-> NoEnd],
           rcvd |-> [s \in Sides |-> 0], dlvd |-> [s \in Sides |-> 0]]

\* route_map: the other end of the connection of a descriptor, <<>> for NULL.
\* open: the open sockets; established: those known to be connected; broken:
\* those on which send() has failed for good. taken: connections given to the
\* pool less those given back, by address.
PoolType == [conn : [Conns -> ConnType], route_map : [FDs -> (Conns \X Sides) \cup {<<>>}],
             epoll : [FDs -> (SUBSET RW) \cup {Off}], n_conns : Nat, fd_max : Nat,
             open : SUBSET FDs, established : SUBSET FDs, broken : SUBSET FDs,
             taken : [Addrs -> Int]]

NoEvents == [f \in FDs |-> {}]

Init ==
    /\ pool = [conn |-> [c \in Conns |-> NoConn], route_map |-> [f \in FDs |-> <<>>],
               epoll |-> [f \in FDs |-> Off], n_conns |-> 0, fd_max |-> 1,
               open |-> {}, established |-> {}, broken |-> {},
               taken |-> [a \in Addrs |-> 0]]
    /\ batch = NoEvents /\ current = NoFD /\ ctl = FALSE
    /\ crashed = FALSE /\ shutdown = FALSE

-----------------------------------------------------------------------------
(* Descriptors and connections                                             *)

\* end->events = events, and epoll learns of it.
pool_fds_set_events(p, c, s, events) ==
    [p EXCEPT !.conn[c].end[s].events = events,
              !.epoll[p.conn[c].end[s].sock] = events]

\* A faulty variant: the end is mapped to itself.
pool_set_conn_end_ToItself(p, c, s) ==
    LET fd == p.conn[c].end[s].sock
        event == IF s = "dst" /\ ~p.conn[c].complete THEN {"W"} ELSE {"R"}
    IN  [p EXCEPT !.conn[c].end[s].events = event,
                  !.epoll[fd] = event, !.fd_max = @ + 1,
                  !.route_map[fd] = <<c, s>>]

\* An incomplete destination is waited for to be connected, others to be read.
pool_set_conn_end(p, c, s) ==
    LET fd == p.conn[c].end[s].sock
        event == IF s = "dst" /\ ~p.conn[c].complete THEN {"W"} ELSE {"R"}
    IN  [p EXCEPT !.conn[c].end[s].events = event,
                  !.epoll[fd] = event, !.fd_max = @ + 1,
                  !.route_map[fd] = <<c, Other(s)>>]

\* close(fd), as the kernel sees it.
Close(p, fd) ==
    [p EXCEPT !.open = @ \ {fd}, !.established = @ \ {fd}, !.broken = @ \ {fd}]

pool_reset_conn_end(p, c, s, cl) ==
    LET fd == p.conn[c].end[s].sock
        q == [p EXCEPT !.epoll[fd] = Off, !.fd_max = @ - 1, !.route_map[fd] = <<>>]
    IN  IF cl THEN Close(q, fd) ELSE q

\* A faulty variant: the socket that failed stays open.
pool_remove_conn_Leaks(p, fd, notify_router) ==
    LET c == p.route_map[fd][1]
        full == p.route_map[fd][2] = "dst" \/ p.conn[c].complete
        q == [pool_reset_conn_end(p, c, "dst", full) EXCEPT !.n_conns = @ - 1]
        r == pool_reset_conn_end(q, c, "inc", full)
    IN  IF full
        THEN [r EXCEPT !.conn[c] = NoConn,
                       !.taken[p.conn[c].addr] = IF notify_router THEN @ - 1 ELSE @]
        ELSE r

\* fd may be either end. An incomplete connection whose destination fails keeps
\* its client's socket, its memory and what the client has sent.
pool_remove_conn(p, fd, notify_router) ==
    LET c == p.route_map[fd][1]
        full == p.route_map[fd][2] = "dst" \/ p.conn[c].complete
        q == [pool_reset_conn_end(p, c, "dst", TRUE) EXCEPT !.n_conns = @ - 1]
        r == pool_reset_conn_end(q, c, "inc", full)
    IN  IF full
        THEN [r EXCEPT !.conn[c] = NoConn,
                       !.taken[p.conn[c].addr] = IF notify_router THEN @ - 1 ELSE @]
        ELSE r

\* The descriptors socket() or accept() may return.
Free(p) == FDs \ p.open

\* A new socket for the destination, with a connect() in progress.
pool_handle_async_conn(p, c) ==
    {[p EXCEPT !.conn[c].end["dst"].sock = fd, !.open = @ \cup {fd}] : fd \in Free(p)}

\* Both ends become known to epoll and to route_map.
Serve(p, c) ==
    LET q == pool_set_conn_end(pool_set_conn_end(p, c, "inc"), c, "dst")
    IN  [q EXCEPT !.n_conns = @ + 1, !.conn[c].stage = "served"]

\* A faulty variant: a connection that was never added is taken off the count.
GiveUp_Counts(p, c) ==
    LET q == [p EXCEPT !.taken[p.conn[c].addr] = @ - 1, !.n_conns = @ - 1]
    IN  [Close(q, p.conn[c].end["inc"].sock) EXCEPT !.conn[c] = NoConn]

\* The socket cannot be made or the connect() fails at once: the router learns
\* that the destination has failed, and the client is let go.
GiveUp(p, c) ==
    LET q == [p EXCEPT !.taken[p.conn[c].addr] = @ - 1]
    IN  [Close(q, p.conn[c].end["inc"].sock) EXCEPT !.conn[c] = NoConn]

\* The states in which it may leave the pool.
pool_handle_add_conn(p, c) ==
    IF p.conn[c].end["dst"].sock = NoFD
    THEN {Serve(q, c) : q \in pool_handle_async_conn(p, c)} \cup {GiveUp(p, c)}
    ELSE {Serve(p, c)}

-----------------------------------------------------------------------------
(* Data                                                                    *)

\* Data can move on this end of a connection: its socket is connected, and the
\* thread knows or the kernel is ahead of it.
Usable(p, c, s) == p.conn[c].end[s].sock \in p.established \/ Early

\* A faulty variant: the source is not listened to again.
Reestablish_Not(p, c, s) == p

\* There is room in the buffer again: read from its source once more.
Reestablish(p, c, s) ==
    LET src == p.conn[c].end[Other(s)]
    IN  IF "R" \notin src.events /\ Len(p.conn[c].end[s].buf) < BufSize
        THEN pool_fds_set_events(p, c, Other(s), src.events \cup {"R"})
        ELSE p

\* A faulty variant: the buffer is reset as soon as something has been sent.
Sent_Resets(p, c, s, k) ==
    LET conn == p.conn[c]
        left == [conn.end[s] EXCEPT !.sent = 0, !.buf = <<>>]
    IN  [p EXCEPT !.conn[c] = [conn EXCEPT !.dlvd[s] = @ + k, !.end[s] = left]]

\* send() has taken k bytes; when all are gone the pointers are reset.
Sent(p, c, s, k) ==
    LET conn == p.conn[c]
        e == conn.end[s]
        left == IF e.sent + k = Len(e.buf) THEN [e EXCEPT !.sent = 0, !.buf = <<>>]
                ELSE [e EXCEPT !.sent = @ + k]
    IN  [p EXCEPT !.conn[c] = [conn EXCEPT !.dlvd[s] = @ + k, !.end[s] = left]]

\* The write flag of an end with these bytes left, told to epoll if it changes.
SetWrite(p, c, s, wanted) ==
    LET events == p.conn[c].end[s].events
        flag == IF wanted THEN events \cup {"W"} ELSE events \ {"W"}
    IN  IF flag = events THEN p ELSE pool_fds_set_events(p, c, s, flag)

\* What may come of an attempt to send the bytes of end s; src: whether the
\* caller has the other end. EAGAIN and the like, EPIPE, and other errors.
pool_send_data(p, c, s, src) ==
    LET e == p.conn[c].end[s]
        n == Len(e.buf) - e.sent
        ok(k) == LET q == Sent(p, c, s, k)
                     r == IF src THEN Reestablish(q, c, s) ELSE q
                 IN  SetWrite(r, c, s, k < n)
    IN  {[pool |-> ok(k), ret |-> "ok"] : k \in IF Usable(p, c, s) THEN 1..n ELSE {}}
        \cup {[pool |-> SetWrite(p, c, s, TRUE), ret |-> "ok"]}
        \cup {IF s = "dst" /\ ~p.conn[c].complete
              THEN [pool |-> p, ret |-> "ok"]
              ELSE [pool |-> pool_remove_conn(p, e.sock, TRUE), ret |-> "EPIPE"]}
        \cup {[pool |-> [p EXCEPT !.broken = @ \cup {e.sock}], ret |-> "error"]}

\* recv() has put k bytes behind those in the buffer of end s.
Received(p, c, s, k) ==
    LET conn == p.conn[c]
        more == [i \in 1..k |-> conn.rcvd[s] + i]
    IN  [p EXCEPT !.conn[c] = [conn EXCEPT !.rcvd[s] = @ + k, !.end[s].buf = @ \o more]]

\* No space for the next read: stop listening to the source.
StopIfFull(p, c, s) ==
    IF Len(p.conn[c].end[s].buf) = BufSize
    THEN pool_fds_set_events(p, c, Other(s), p.conn[c].end[Other(s)].events \ {"R"})
    ELSE p

\* Bytes, the end of the stream, or an error from src_fd. ret is "ok" where the
\* code returns a count, and "fail" where it returns an error, upon which the
\* rest of the batch is abandoned.
pool_handle_read(p, src_fd) ==
    LET c == p.route_map[src_fd][1]
        s == p.route_map[src_fd][2]
        room == Min({BufSize - Len(p.conn[c].end[s].buf),
                     MaxBytes - p.conn[c].rcvd["inc"] - p.conn[c].rcvd["dst"]})
        data(k) == {IF r.ret = "EPIPE" THEN [pool |-> r.pool, ret |-> "fail"]
                    ELSE [pool |-> StopIfFull(r.pool, c, s), ret |-> "ok"] :
                        r \in pool_send_data(Received(p, c, s, k), c, s, FALSE)}
    IN  IF Len(p.conn[c].end[s].buf) = BufSize THEN {[pool |-> p, ret |-> "ok"]}
        ELSE {[pool |-> p, ret |-> "fail"]}
             \cup (IF Usable(p, c, Other(s))
                   THEN {[pool |-> pool_remove_conn(p, src_fd, TRUE), ret |-> "fail"]}
                        \cup UNION {data(k) : k \in 1..room}
                   ELSE {})

\* A faulty variant: the old address is not given back.
ChooseAgain_KeepsOld(p, c, a) ==
    [p EXCEPT !.taken[a] = @ + 1, !.conn[c].addr = a]

\* The router's answer to glb_router_choose_dst_again(): the connection to the
\* old address is given back, and one to another address may be given.
ChooseAgain(p, c, a) ==
    LET q == [p EXCEPT !.taken[p.conn[c].addr] = @ - 1]
    IN  [q EXCEPT !.taken[a] = @ + 1, !.conn[c].addr = a]

\* The failed socket goes, and the connection is added anew.
Reconnect(p, c) ==
    LET q == pool_remove_conn(p, p.conn[c].end["dst"].sock, FALSE)
    IN  pool_handle_add_conn([q EXCEPT !.conn[c].end["dst"].sock = NoFD], c)

\* The router has no other destination: complete cleanup.
NoDestination(p, c) ==
    LET q == [p EXCEPT !.taken[p.conn[c].addr] = @ - 1, !.conn[c].complete = TRUE]
    IN  pool_remove_conn(q, p.conn[c].end["dst"].sock, FALSE)

\* A faulty variant: the destination's end is not marked as complete.
pool_handle_conn_complete_NotMarked(p, c) ==
    LET done == [p EXCEPT !.established = @ \cup {p.conn[c].end["dst"].sock}]
    IN  {[pool |-> pool_fds_set_events(done, c, "dst", {"R"}), ret |-> "ok"]}
        \cup {[pool |-> q, ret |-> "fail"] :
                q \in UNION {Reconnect(ChooseAgain(p, c, a), c) : a \in Addrs}}
        \cup {[pool |-> NoDestination(p, c), ret |-> "fail"]}

\* The asynchronous connect is over; getsockopt() tells how.
pool_handle_conn_complete(p, c) ==
    LET done == [p EXCEPT !.conn[c].complete = TRUE,
                          !.established = @ \cup {p.conn[c].end["dst"].sock}]
    IN  {[pool |-> pool_fds_set_events(done, c, "dst", {"R"}), ret |-> "ok"]}
        \cup {[pool |-> q, ret |-> "fail"] :
                q \in UNION {Reconnect(ChooseAgain(p, c, a), c) : a \in Addrs}}
        \cup {[pool |-> NoDestination(p, c), ret |-> "fail"]}

\* The states in which it may leave the pool: it always returns 0.
pool_handle_write(p, dst_fd) ==
    LET c == p.route_map[dst_fd][1]
        s == Other(p.route_map[dst_fd][2])
        send(q) == IF q.conn[c].end[s].buf = <<>> THEN {q}
                   ELSE {r.pool : r \in pool_send_data(q, c, s, TRUE)}
    IN  IF s = "dst" /\ ~p.conn[c].complete
        THEN UNION {IF r.ret = "fail" THEN {r.pool} ELSE send(r.pool) :
                        r \in pool_handle_conn_complete(p, c)}
        ELSE send(p)

-----------------------------------------------------------------------------
(* Commands                                                                *)

\* The address at which pool_handle_drop_dst() looks for a connection's
\* destination, one sockaddr before the memory of the connection: the
\* allocator's, which is never equal to an address (a size stands where an
\* address has zeroes).
pool_conn_end_dstaddr(p, c) == NoAddr

Served(p) == {c \in Conns : p.conn[c].stage = "served"}

\* The descriptors at which a walk over route_map meets the connections cs: one
\* end of each. In the code it is the one with the lower descriptor; descriptors
\* have no order here, so that it can be either.
Walks(p, cs) ==
    {fds \in [1..Cardinality(cs) -> FDs] :
        /\ \A i \in DOMAIN fds : \E c \in cs, s \in Sides : p.route_map[fds[i]] = <<c, s>>
        /\ \A i, j \in DOMAIN fds :
               p.route_map[fds[i]][1] = p.route_map[fds[j]][1] => i = j}

\* Remove what is met, without a word to the router.
RemoveAll(p, fds) ==
    LET after[n \in 0..Len(fds)] ==
            IF n = 0 THEN p ELSE pool_remove_conn(after[n - 1], fds[n], FALSE)
    IN  after[Len(fds)]

pool_handle_drop_dst(p, dst) ==
    LET cs == {c \in Served(p) : pool_conn_end_dstaddr(p, c) = dst}
    IN  {RemoveAll(p, fds) : fds \in Walks(p, cs)}

pool_handle_shutdown(p) == {RemoveAll(p, fds) : fds \in Walks(p, Served(p))}

-----------------------------------------------------------------------------
(* Steps                                                                   *)

Running == ~crashed /\ ~shutdown

NothingPending == batch = NoEvents /\ ~ctl

\* A connection on its way to the pool thread.
NewConn(complete, a, inc, dst) ==
    LET sock == [s \in Sides |-> IF s = "inc" THEN inc ELSE dst]
    IN  [NoConn EXCEPT !.stage = "piped", !.complete = complete, !.addr = a,
                       !.end = [s \in Sides |-> [NoEnd EXCEPT !.sock = sock[s]]]]

\* The listener accepts a client, has the router choose and, with synchronous
\* connects, connect to a destination, and sends the connection to the pool.
AddConn(c) ==
    /\ Running /\ pool.conn[c].stage = "free"
    /\ \E complete \in Modes, a \in Addrs, inc \in Free(pool) :
       \E dst \in IF complete THEN Free(pool) \ {inc} ELSE {NoFD} :
          pool' = [pool EXCEPT
              !.conn[c] = NewConn(complete, a, inc, dst),
              !.open = @ \cup ({inc, dst} \ {NoFD}),
              !.established = @ \cup ({inc, dst} \ {NoFD}),
              !.taken[a] = @ + 1]
    /\ UNCHANGED <<batch, current, ctl, crashed, shutdown>>

\* pool_fds_wait(): any of the events asked for, and errors, which are reported
\* unasked and count as write events.
pool_fds_wait ==
    /\ Running /\ NothingPending
    /\ batch' \in {b \in [FDs -> SUBSET RW] : \A f \in FDs :
                      b[f] \subseteq IF pool.epoll[f] = Off THEN {}
                                     ELSE pool.epoll[f] \cup {"W"}}
    /\ ctl' \in BOOLEAN
    /\ batch' # NoEvents \/ ctl'
    /\ Cardinality({f \in FDs : batch'[f] # {}}) <= MaxBatch
    /\ UNCHANGED <<pool, current, crashed, shutdown>>

\* route_map has nothing for the descriptor: the connection is gone.
Crash ==
    /\ crashed' = TRUE
    /\ batch' = NoEvents /\ current' = NoFD /\ ctl' = FALSE
    /\ UNCHANGED <<pool, shutdown>>

\* pool_handle_events(), a read event of a connection.
HandleRead(fd) ==
    /\ Running /\ current = NoFD /\ "R" \in batch[fd]
    /\ \/ pool.route_map[fd] = <<>> /\ Crash
       \/ /\ pool.route_map[fd] # <<>>
          /\ \E r \in pool_handle_read(pool, fd) :
             /\ pool' = r.pool
             /\ IF r.ret = "fail"
                THEN batch' = NoEvents /\ current' = NoFD /\ ctl' = FALSE
                ELSE /\ batch' = [batch EXCEPT ![fd] = @ \ {"R"}]
                     /\ current' = IF "W" \in batch[fd] THEN fd ELSE NoFD
                     /\ UNCHANGED ctl
          /\ UNCHANGED <<crashed, shutdown>>

\* A write event, or an error.
HandleWrite(fd) ==
    /\ Running /\ current \in {NoFD, fd} /\ batch[fd] = {"W"}
    /\ \/ pool.route_map[fd] = <<>> /\ Crash
       \/ /\ pool.route_map[fd] # <<>>
          /\ pool' \in pool_handle_write(pool, fd)
          /\ batch' = [batch EXCEPT ![fd] = {}]
          /\ current' = NoFD
          /\ UNCHANGED <<ctl, crashed, shutdown>>

\* pool_handle_ctl(), after which the batch is abandoned.
Command(results) ==
    /\ Running /\ current = NoFD /\ ctl
    /\ pool' \in results
    /\ batch' = NoEvents /\ ctl' = FALSE
    /\ UNCHANGED <<current, crashed>>

HandleAddConn(c) ==
    /\ pool.conn[c].stage = "piped"
    /\ Command(pool_handle_add_conn(pool, c)) /\ UNCHANGED shutdown

HandleDropDst(a) ==
    Command(pool_handle_drop_dst(pool, a)) /\ UNCHANGED shutdown

\* The statistics themselves are left out.
HandleStats == Command({pool}) /\ UNCHANGED shutdown

HandleShutdown == Command(pool_handle_shutdown(pool)) /\ shutdown' = TRUE

Next ==
    \/ \E c \in Conns : AddConn(c)
    \/ pool_fds_wait
    \/ \E fd \in FDs : HandleRead(fd)
    \/ \E fd \in FDs : HandleWrite(fd)
    \/ \E c \in Conns : HandleAddConn(c)
    \/ \E a \in Addrs : HandleDropDst(a)
    \/ HandleStats
    \/ HandleShutdown

Spec == Init /\ [][Next]_vars

-----------------------------------------------------------------------------
(* Properties                                                              *)

\* Every variable has its type.
TypeOK ==
    /\ pool \in PoolType
    /\ batch \in [FDs -> SUBSET RW] /\ current \in FDs \cup {NoFD}
    /\ ctl \in BOOLEAN /\ crashed \in BOOLEAN /\ shutdown \in BOOLEAN

\* The connections that are the pool's or on their way to it.
Live == {c \in Conns : pool.conn[c].stage # "free"}

Sock(c, s) == pool.conn[c].end[s].sock

\* route_map leads from each end of a connection that is served to its other
\* end, and from no other descriptor anywhere; the counters by which the loops
\* over route_map end and the listener chooses a pool agree with it.
MapMatches ==
    ~shutdown =>
        /\ \A c \in Served(pool), s \in Sides :
               pool.route_map[Sock(c, s)] = <<c, Other(s)>>
        /\ \A f \in FDs : pool.route_map[f] # <<>> <=>
               \E c \in Served(pool), s \in Sides : f = Sock(c, s)
        /\ \A f \in FDs : pool.epoll[f] = Off <=> pool.route_map[f] = <<>>
        /\ pool.n_conns = Cardinality(Served(pool))
        /\ pool.fd_max = 1 + 2 * pool.n_conns

\* No socket is leaked and none is closed twice, however a connection ends:
\* those that are open are the ends of the connections there are.
SocketsAccounted ==
    ~shutdown =>
        /\ pool.open = {Sock(c, s) : c \in Live, s \in Sides} \ {NoFD}
        /\ \A c, d \in Live, s, t \in Sides :
               Sock(c, s) = Sock(d, t) /\ Sock(c, s) # NoFD => c = d /\ s = t

\* Each connection the router counts is given back once, under the address it
\* is counted for: by glb_router_disconnect() or glb_router_choose_dst_again().
RouterBalanced ==
    ~shutdown =>
        \A a \in Addrs : pool.taken[a] = Cardinality({c \in Live : pool.conn[c].addr = a})

\* The bytes waiting in a buffer are those received and not yet sent on, in
\* order: none is lost, repeated or overtaken, whatever send() takes at a time
\* and also when the destination changes before it is connected.
StreamIntact ==
    \A c \in Live, s \in Sides :
        LET k == pool.conn[c]
        IN  SubSeq(k.end[s].buf, k.end[s].sent + 1, Len(k.end[s].buf))
                = [i \in 1..(k.rcvd[s] - k.dlvd[s]) |-> k.dlvd[s] + i]

\* No connection stalls: an end with bytes to send waits until it can send them,
\* and a source is not read only while the buffer it would fill is full.
FlowControl ==
    ~shutdown =>
        \A c \in Served(pool), s \in Sides :
            LET k == pool.conn[c]
            IN  /\ k.end[s].buf # <<>> /\ Sock(c, s) \notin pool.broken =>
                       "W" \in pool.epoll[Sock(c, s)]
                /\ "R" \notin pool.epoll[Sock(c, s)] =>
                       \/ Len(k.end[Other(s)].buf) = BufSize
                       \/ s = "dst" /\ ~k.complete

\* A client is moved to another destination only while none has had any byte of
\* it, so that the one it ends up with sees its stream from the start.
MovedFromStart == \A c \in Live : ~pool.conn[c].complete => pool.conn[c].dlvd["dst"] = 0

\* "POOL_FD_WRITE is already set there, just wait for it" (line 577 of
\* glb_pool.c), on an end whose connect is not complete.
IncompleteWaitsForWrite ==
    ~shutdown =>
        \A c \in Served(pool) : ~pool.conn[c].complete => "W" \in pool.epoll[Sock(c, "dst")]

\* "returns on error or after handling ctl - the latter may cause changes in
\* file descriptors" (line 751): no event is handled of a connection that has
\* been removed since epoll_wait().
NoStaleEvent == ~crashed

\* "Closes all connecitons to a given destination" (glb_pool.h).
DropCloses ==
    [][\A a \in Addrs : HandleDropDst(a) =>
          \A c \in Served(pool) : pool.conn[c].addr = a => pool'.conn[c].stage = "free"]_vars
=============================================================================
