--------------------------- MODULE PoolConnProofs ---------------------------
(***************************************************************************)
(* The handlers of PoolConn and its steps keep the data in order, and what *)
(* follows from both invariants: the theorems. They assume that data moves *)
(* only over connections the thread has been told are established (~Early) *)
(* and hold through a shutdown, which removes one connection after another *)
(* in whatever order the descriptors come (an induction over that walk).   *)
(***************************************************************************)
EXTENDS PoolConnSteps, FiniteSetTheorems, WellFoundedInduction

-----------------------------------------------------------------------------
(* Connects and the data                                                   *)

\* A connection that is served is listened to, and has no bytes to send but those
\* which wait for its connect.
LEMMA ServeData ==
    ASSUME NEW p, NEW q, NEW S, NEW c \in Conns, Good(p, S), c \notin S, IsLive(p, c),
           Sk(p, c, "dst") \in FDs, DataOK(p, S), ServeIs(p, q, c)
    PROVE  DataOK(q, S \cup {c})
<1>0. /\ p \in PoolType /\ Sk(p, c, "inc") \in FDs /\ "inc" \in Sides /\ "dst" \in Sides
      /\ SameData(p, q, c) /\ Sides = {"inc", "dst"}
  BY DEF Good, Sides, ServeIs
<1>1. Ordered(p, c) /\ Fresh(p, c) /\ Quiet(p, c)
  BY Zenon DEF DataOK, ConnData
<1>2. Ordered(q, c) /\ Fresh(q, c)
  BY Zenon, <1>0, <1>1, SameDataKeeps
<1>3. /\ p.conn[c].end["inc"].buf = <<>>
      /\ p.conn[c].complete => p.conn[c].end["dst"].buf = <<>>
  <2>1. p.conn[c].rcvd["inc"] = 0
    BY <1>0, <1>1 DEF Fresh, Quiet
  <2>2. p.conn[c].complete => p.conn[c].rcvd["dst"] = 0
    BY <1>0, <1>1 DEF Quiet
  <2> QED BY Zenon, <1>0, <1>1, <2>1, <2>2, EmptyUnserved
<1>4. /\ q.conn[c].complete = p.conn[c].complete
      /\ q.conn[c].end["inc"].buf = <<>>
      /\ q.conn[c].end["dst"].buf = p.conn[c].end["dst"].buf
  BY <1>0, <1>3 DEF SameData
<1>5. /\ q.conn[c].end["inc"].events = {"R"}
      /\ q.conn[c].end["dst"].events = IF p.conn[c].complete THEN {"R"} ELSE {"W"}
      /\ Told(q, c)
  <2>1. \A t \in Sides : /\ Sk(q, c, t) = Sk(p, c, t)
                         /\ q.conn[c].end[t].events = Asked(p, c, t)
                         /\ q.epoll[Sk(p, c, t)] = Asked(p, c, t)
    BY Zenon DEF ServeIs
  <2>2. Told(q, c)
    BY Zenon, <2>1 DEF Told
  <2>3. Asked(p, c, "inc") = {"R"}
        /\ Asked(p, c, "dst") = IF p.conn[c].complete THEN {"R"} ELSE {"W"}
    BY DEF Asked
  <2> QED BY Zenon, <1>0, <2>1, <2>2, <2>3
<1>6. Waits(q, c)
  BY <1>4, <1>5 DEF Waits
<1>7. CanSend(q, c, "inc") /\ CanSend(q, c, "dst")
  BY <1>3, <1>4, <1>5 DEF CanSend
<1>8. CanRead(q, c, "inc") /\ CanRead(q, c, "dst")
  BY <1>4, <1>5 DEF CanRead
<1>9. Sound(q, c)
  BY Zenon, <1>0, <1>2, <1>5, <1>6, <1>7, <1>8 DEF Sound
<1>10. Others(p, q, c)
  <2>1. {Sk(p, c, "inc"), Sk(p, c, "dst")} \subseteq Ends(p, c)
    BY <1>0, PoolConnAssumption DEF Ends
  <2>2. /\ \A f \in FDs : f \notin {Sk(p, c, "inc"), Sk(p, c, "dst")} => q.epoll[f] = p.epoll[f]
        /\ q.broken = p.broken /\ \A d \in Conns : d # c => q.conn[d] = p.conn[d]
    BY Zenon DEF ServeIs
  <2> QED BY <2>1, <2>2 DEF Others
<1> DEFINE T == S \cup {c}
<1>11. ConnData(q, T, c) /\ \A d \in Conns : d # c => (d \in S <=> d \in T)
  BY <1>9 DEF ConnData
<1> HIDE DEF T
<1>12. DataOK(q, T)
  BY <1>10, <1>11, OffOne, OneData
<1> QED BY <1>12 DEF T

\* pool_handle_add_conn() keeps the data in order.
LEMMA AddData ==
    ASSUME NEW p, NEW c \in Conns, Good(p, Served(p) \ {c}), IsLive(p, c),
           DataOK(p, Served(p) \ {c}), NEW q \in pool_handle_add_conn(p, c)
    PROVE  DataKept(q)
<1> DEFINE S == Served(p) \ {c}
<1>1. ASSUME NEW m, Good(m, S), IsLive(m, c), Sk(m, c, "dst") \in FDs, q = Serve(m, c),
             \A d \in Conns : m.conn[d].stage = p.conn[d].stage, DataOK(m, S)
      PROVE  DataKept(q)
  <2>1. m \in PoolType /\ Sk(m, c, "inc") \in FDs /\ Sk(m, c, "inc") # Sk(m, c, "dst")
    BY <1>1 DEF Good, Sockets
  <2>2. ServeIs(m, q, c)
    BY <1>1, <2>1, ServeFields
  <2>3. DataOK(q, S \cup {c})
    BY <1>1, <2>2, ServeData
  <2>4. Served(q) = S \cup {c}
    <3>1. q.conn[c].stage = "served" /\ \A d \in Conns : d # c => q.conn[d] = m.conn[d]
      BY Zenon, <2>2 DEF ServeIs
    <3>2. \A d \in Conns : d # c => q.conn[d].stage = p.conn[d].stage
      BY Zenon, <1>1, <3>1
    <3> QED BY <3>1, <3>2 DEF Served
  <2> QED BY <2>3, <2>4 DEF DataKept
<1>2. DataOff(p, S, c) /\ Ordered(p, c) /\ Fresh(p, c) /\ Quiet(p, c) /\ c \notin S
  <2>1. c \notin S
    OBVIOUS
  <2> QED BY Zenon, <2>1, OffOne DEF DataOK, ConnData
<1>3. CASE Sk(p, c, "dst") = NoFD
  <2>1. \/ \E m \in pool_handle_async_conn(p, c) : q = Serve(m, c)
        \/ q = GiveUp(p, c)
    BY Zenon, <1>3 DEF pool_handle_add_conn, Sk
  <2>2. CASE q = GiveUp(p, c)
    <3>1. q.conn[c] = NoConn /\ Others(p, q, c)
      BY <1>3, <2>2, GiveUpGood
    <3>2. Served(q) = S /\ ~IsLive(q, c)
      BY <3>1, NoConnHas DEF Served, NoConnFields, Others, IsLive
    <3> HIDE DEF S
    <3>3. DataOK(q, S)
      BY Zenon, <1>2, <3>1, <3>2, OneData DEF ConnData, S
    <3> QED BY <3>2, <3>3 DEF DataKept
  <2>3. ASSUME NEW m \in pool_handle_async_conn(p, c), q = Serve(m, c) PROVE DataKept(q)
    <3> HIDE DEF S
    <3>1. /\ Good(m, S) /\ IsLive(m, c) /\ Sk(m, c, "dst") \in FDs
          /\ \A d \in Conns : m.conn[d].stage = p.conn[d].stage
          /\ SameData(p, m, c) /\ Others(p, m, c)
      BY Zenon, <1>2, <1>3, AsyncGood DEF S
    <3>2. ConnData(m, S, c)
      BY Zenon, <1>2, <3>1, SameDataKeeps DEF ConnData
    <3>3. DataOK(m, S)
      BY Zenon, <1>2, <3>1, <3>2, OneData DEF S
    <3> QED BY Zenon, <1>1, <2>3, <3>1, <3>3
  <2> QED BY <2>1, <2>2, <2>3
<1>4. CASE Sk(p, c, "dst") # NoFD
  <2>1. q = Serve(p, c)
    BY Zenon, <1>4 DEF pool_handle_add_conn, Sk
  <2>2. Sk(p, c, "dst") \in FDs
    BY <1>4, PoolFields DEF Good, Sides
  <2> QED BY <1>1, <2>1, <2>2
<1> QED BY <1>3, <1>4

\* So does failing over: what the client has sent stays, and no destination has had
\* any of it.
LEMMA ReconnectData ==
    ASSUME NEW p, NEW c \in Served(p), Kept(p), DataKept(p), ~p.conn[c].complete,
           NEW a \in Addrs, NEW q \in Reconnect(ChooseAgain(p, c, a), c)
    PROVE  DataKept(q)
<1>1. PICK m : Parted(p, m, c) /\ q \in pool_handle_add_conn(m, c)
  BY Zenon, ReconnectVia
<1>2. c \in Conns /\ Sound(p, c) /\ AllBut(p, c)
  BY ServedAt
<1> DEFINE S == Served(p)
           T == S \ {c}
<1>3. /\ Good(m, T) /\ Served(m) = S /\ IsLive(m, c)
      /\ SameData(p, m, c) /\ Others(p, m, c)
  BY Zenon, <1>1 DEF Parted
<1>4. Ordered(m, c) /\ Fresh(m, c)
  BY Zenon, <1>2, <1>3, SameDataKeeps DEF Sound
<1>5. Quiet(m, c)
  BY <1>3 DEF SameData, Quiet
<1>6. ConnData(m, T, c) /\ \A d \in Conns : d # c => (d \in S <=> d \in T)
  BY <1>4, <1>5 DEF ConnData
<1>7. Good(p, S) /\ DataOff(p, S, c)
  BY <1>2 DEF Kept, AllBut
<1> HIDE DEF S, T
<1>8. DataOK(m, T)
  BY Zenon, <1>2, <1>3, <1>6, <1>7, OneData
<1>9. T = Served(m) \ {c}
  BY <1>3 DEF T
<1> QED BY <1>1, <1>2, <1>3, <1>8, <1>9, AddData

\* The connect is done: what has come from the client meanwhile can be sent.
LEMMA DoneSends ==
    ASSUME NEW p, NEW c \in Served(p), Kept(p), DataKept(p), ~p.conn[c].complete
    PROVE  LET p1 == DoneSet(p, c)
               m == pool_fds_set_events(p1, c, "dst", {"R"})
           IN  /\ Kept(p1) /\ c \in Served(p1) /\ AllBut(p1, c) /\ Inside(p1, m, c)
               /\ Sending(m, c, "dst") /\ CanRead(m, c, Other("dst"))
<1> DEFINE p1 == DoneSet(p, c)
           m == pool_fds_set_events(p1, c, "dst", {"R"})
<1>1. /\ c \in Conns /\ At(p, c) /\ Sound(p, c) /\ AllBut(p, c) /\ p \in PoolType
      /\ p.conn[c] \in ConnType
  BY ServedAt, PoolFields DEF At, Ready
<1>2. "inc" \in Sides /\ "dst" \in Sides /\ Other("dst") = "inc" /\ Other("inc") = "dst"
      /\ {"R"} \in SUBSET RW /\ Sides = {"inc", "dst"}
  BY OtherSides DEF Sides, RW
<1>3. Kept(p1) /\ c \in Served(p1)
  BY DoneKept
<1>4. /\ \A b \in Conns : b # c => p1.conn[b] = p.conn[b]
      /\ p1.conn[c] = [p.conn[c] EXCEPT !.complete = TRUE] /\ p1.epoll = p.epoll
      /\ p1.broken = p.broken
  BY <1>1, DoneFields DEF DoneIs, At
<1> HIDE DEF p1
<1>5. /\ p1.conn[c].complete = TRUE /\ p1.conn[c].end = p.conn[c].end
      /\ p1.conn[c].rcvd = p.conn[c].rcvd /\ p1.conn[c].dlvd = p.conn[c].dlvd
      /\ p1.conn[c].stage = p.conn[c].stage
  BY Zenon, <1>1, <1>4 DEF ConnType
<1>6. AllBut(p1, c)
  <2>1. Others(p, p1, c)
    BY <1>4 DEF Others
  <2>2. Served(p1) = Served(p)
    BY Zenon, <1>4, <1>5 DEF Served
  <2>3. Good(p, Served(p)) /\ DataOff(p, Served(p), c)
    BY <1>1 DEF Kept, AllBut
  <2>4. DataOff(p1, Served(p), c)
    BY Zenon, <1>1, <2>1, <2>3, OthersOff
  <2> QED BY <2>2, <2>4 DEF AllBut
<1>7. At(p1, c)
  BY <1>3, ServedAt
<1>8. Told(p1, c) /\ Ordered(p1, c) /\ Fresh(p1, c)
  <2>1. Told(p1, c)
    BY Zenon, <1>1, <1>4, <1>5 DEF Sound, Told, Sk
  <2>2. Ordered(p1, c)
    BY Zenon, <1>1, <1>5 DEF Sound, Ordered
  <2> QED BY <1>5, <2>1, <2>2 DEF Fresh
<1>9. EventsSet(p1, m, c, "dst", {"R"})
  BY Zenon, <1>1, <1>2, <1>7, <1>8, SetEventsSet
<1> HIDE DEF m
<1>10. EventsData(p1, m, c)
  BY Zenon, <1>1, <1>8, <1>9, EventsKeepData
<1>11. /\ m.conn[c].end["dst"].events = {"R"}
       /\ m.conn[c].end["inc"].events = p.conn[c].end["inc"].events
       /\ m.conn[c].end["dst"].buf = p.conn[c].end["dst"].buf
       /\ m.conn[c].end["inc"].buf = p.conn[c].end["inc"].buf
       /\ m.conn[c].complete
  BY Zenon, <1>2, <1>5, <1>9, <1>10 DEF EventsSet, EventsData
<1>12. m.conn[c].end["inc"].buf = <<>>
  <2>1. p.conn[c].rcvd["inc"] = 0 /\ Ordered(p, c)
    BY <1>1 DEF Sound, Fresh
  <2> QED BY <1>1, <1>2, <1>11, <2>1, EmptyUnserved
<1>13. CanSend(m, c, "inc") /\ CanRead(m, c, "dst") /\ Waits(m, c)
  BY <1>11, <1>12 DEF CanSend, CanRead, Waits
<1>14. CanRead(m, c, "inc")
  <2>1. CanRead(p, c, "inc")
    BY <1>1, <1>2 DEF Sound
  <2> QED BY <1>2, <1>11, <2>1 DEF CanRead
<1>15. Sending(m, c, "dst") /\ Inside(p1, m, c)
  BY Zenon, <1>2, <1>10, <1>13 DEF Sending, EventsData
<1> QED BY <1>2, <1>3, <1>6, <1>14, <1>15 DEF p1, m

\* pool_handle_write() keeps the data in order.
LEMMA WriteData ==
    ASSUME ~Early, NEW p, Kept(p), DataKept(p), NEW fd \in FDs, p.route_map[fd] # <<>>,
           NEW q \in pool_handle_write(p, fd)
    PROVE  DataKept(q)
<1>1. PICK c \in Served(p), s \in Sides : fd = Sk(p, c, s) /\ p.route_map[fd] = <<c, Other(s)>>
  BY MappedEnd
<1>2. p.route_map[fd][1] = c /\ Other(p.route_map[fd][2]) = s
  <2>1. Other(Other(s)) = s
    BY OtherSides DEF Sides
  <2> QED BY <1>1, <2>1
<1>3. pool_handle_write(p, fd) = WriteEnd(p, p.route_map[fd][1], Other(p.route_map[fd][2]))
  BY Zenon DEF pool_handle_write, WriteEnd, SendEnd
<1>4. q \in WriteEnd(p, c, s)
  BY <1>2, <1>3
<1>5. CASE s = "dst" /\ ~p.conn[c].complete
  <2>1. PICK r \in pool_handle_conn_complete(p, c) :
          q \in IF r.ret = "fail" THEN {r.pool} ELSE SendEnd(r.pool, c, s)
    BY Zenon, <1>4, <1>5 DEF WriteEnd
  <2>2. \/ r = [pool |-> pool_fds_set_events(DoneSet(p, c), c, "dst", {"R"}), ret |-> "ok"]
        \/ \E a \in Addrs : \E x \in Reconnect(ChooseAgain(p, c, a), c) :
              r = [pool |-> x, ret |-> "fail"]
        \/ r = [pool |-> NoDestination(p, c), ret |-> "fail"]
    BY Zenon, <2>1 DEF pool_handle_conn_complete, DoneSet
  <2>3. CASE r = [pool |-> pool_fds_set_events(DoneSet(p, c), c, "dst", {"R"}), ret |-> "ok"]
    <3> DEFINE p1 == DoneSet(p, c)
               m == pool_fds_set_events(p1, c, "dst", {"R"})
    <3>1. /\ Kept(p1) /\ c \in Served(p1) /\ AllBut(p1, c) /\ Inside(p1, m, c)
          /\ Sending(m, c, "dst") /\ CanRead(m, c, Other("dst"))
      BY Zenon, <1>5, DoneSends
    <3>2. r.ret # "fail" /\ r.pool = m
      BY <2>3
    <3>3. q \in SendEnd(m, c, "dst")
      BY Zenon, <1>5, <2>1, <3>2
    <3> HIDE DEF p1, m
    <3>4. "dst" \in Sides
      BY DEF Sides
    <3> QED BY Zenon, <3>1, <3>3, <3>4, SendEndData
  <2>4. ASSUME NEW a \in Addrs, NEW x \in Reconnect(ChooseAgain(p, c, a), c),
               r = [pool |-> x, ret |-> "fail"]
        PROVE  DataKept(q)
    <3>1. q = x
      BY <2>1, <2>4
    <3> QED BY <1>5, <2>4, <3>1, ReconnectData
  <2>5. CASE r = [pool |-> NoDestination(p, c), ret |-> "fail"]
    <3>1. q = NoDestination(p, c)
      BY <2>1, <2>5
    <3>2. RemovedIs(p, q, c, TRUE)
      BY Zenon, <3>1, NoDestinationIs
    <3>3. At(p, c) /\ AllBut(p, c) /\ p \in PoolType
      BY ServedAt DEF At, Ready
    <3>4. Inside(p, p, c)
      BY <3>3, InsideSame
    <3> QED BY Zenon, <3>2, <3>3, <3>4, GoneData
  <2> QED BY Zenon, <2>2, <2>3, <2>4, <2>5
<1>6. CASE ~(s = "dst" /\ ~p.conn[c].complete)
  <2>1. q \in SendEnd(p, c, s)
    BY Zenon, <1>4, <1>6 DEF WriteEnd
  <2>2. At(p, c) /\ AllBut(p, c) /\ p \in PoolType /\ Sound(p, c) /\ Other(s) \in Sides
    BY ServedAt, BothSides DEF At, Ready
  <2>3. Inside(p, p, c)
    BY <2>2, InsideSame
  <2>4. Sending(p, c, s) /\ CanRead(p, c, Other(s))
    BY Zenon, <2>2 DEF Sending, Sound
  <2> QED BY Zenon, <2>1, <2>2, <2>3, <2>4, SendEndData
<1> QED BY <1>5, <1>6

\* So does the listener's step,
LEMMA AddConnData ==
    ASSUME Kept(pool), DataKept(pool), NEW c \in Conns, AddConn(c)
    PROVE  DataKept(pool')
<1> DEFINE q == pool'
           S == Served(pool)
<1>1. /\ Others(pool, q, c) /\ Unused(q, c) /\ c \notin S /\ Served(q) = S
      /\ Good(pool, S) /\ DataOff(pool, S, c)
  BY AddConnKept, OffOne DEF Kept, DataKept
<1> HIDE DEF q, S
<1>2. Ordered(q, c)
  <2>1. InOrder(<<>>, 0, 0, 0)
    BY PoolConnAssumption DEF InOrder
  <2> QED BY Zenon, <1>1, <2>1 DEF Unused, Ordered
<1>3. Fresh(q, c) /\ Quiet(q, c)
  BY <1>1 DEF Unused, Fresh, Quiet, Sides
<1>4. ConnData(q, S, c)
  BY Zenon, <1>1, <1>2, <1>3 DEF ConnData
<1>5. DataOK(q, S)
  BY Zenon, <1>1, <1>4, OneData
<1> QED BY <1>1, <1>5 DEF DataKept, q

\* and the pool thread's when it takes the connection over.
LEMMA AddedData ==
    ASSUME Kept(pool), DataKept(pool), NEW c \in Conns, pool.conn[c].stage = "piped",
           NEW q \in pool_handle_add_conn(pool, c)
    PROVE  DataKept(q)
<1>1. Served(pool) \ {c} = Served(pool) /\ IsLive(pool, c)
  BY DEF Served, IsLive
<1> QED BY <1>1, AddData DEF Kept, DataKept

\* The inductive invariant of the data.
DataInv == ~shutdown => DataKept(pool)

\* Every step keeps it, but a shutdown.
LEMMA NextData ==
    ASSUME ~Early, KeptInv, DataInv, [Next]_vars
    PROVE  DataInv'
<1> SUFFICES ASSUME ~shutdown' PROVE DataKept(pool')
  BY Zenon DEF DataInv, DataKept, DataOK, ConnData, Served, IsLive, Sound, Told, Ordered, Fresh,
               Quiet, Waits, CanSend, CanRead, Sk
<1>1. CASE UNCHANGED vars
  <2>1. ~shutdown /\ pool' = pool
    BY <1>1 DEF vars
  <2> QED BY <2>1 DEF DataInv
<1>2. CASE Next
  <2>0. ~shutdown /\ Kept(pool) /\ DataKept(pool)
    <3>1. ~shutdown
      BY Zenon, <1>2 DEF Next, AddConn, pool_fds_wait, HandleRead, HandleWrite, HandleAddConn,
                HandleDropDst, HandleStats, HandleShutdown, Command, Running
    <3> QED BY <3>1 DEF KeptInv, DataInv
  <2>1. ASSUME NEW c \in Conns, AddConn(c) PROVE DataKept(pool')
    BY Zenon, <2>0, <2>1, AddConnData
  <2>2. CASE pool_fds_wait \/ HandleStats
    <3>1. pool' = pool
      BY <2>2, Zenon DEF pool_fds_wait, HandleStats, Command
    <3> QED BY <2>0, <3>1
  <2>3. ASSUME NEW fd \in FDs, HandleRead(fd) PROVE DataKept(pool')
    <3>1. \/ pool' = pool
          \/ pool.route_map[fd] # <<>> /\ \E r \in pool_handle_read(pool, fd) : pool' = r.pool
      BY <2>3, Zenon DEF HandleRead, Crash
    <3>2. CASE pool' = pool
      BY <2>0, <3>2
    <3>3. ASSUME pool.route_map[fd] # <<>>, NEW r \in pool_handle_read(pool, fd), pool' = r.pool
          PROVE  DataKept(pool')
      <4>1. DataKept(r.pool)
        BY Zenon, <2>0, <3>3, ReadKeepsData
      <4> QED BY <3>3, <4>1
    <3> QED BY Zenon, <3>1, <3>2, <3>3
  <2>4. ASSUME NEW fd \in FDs, HandleWrite(fd) PROVE DataKept(pool')
    <3>1. \/ pool' = pool
          \/ pool.route_map[fd] # <<>> /\ pool' \in pool_handle_write(pool, fd)
      BY <2>4, Zenon DEF HandleWrite, Crash
    <3> QED BY <2>0, <3>1, WriteData
  <2>5. ASSUME NEW c \in Conns, HandleAddConn(c) PROVE DataKept(pool')
    <3>1. pool.conn[c].stage = "piped" /\ pool' \in pool_handle_add_conn(pool, c)
      BY <2>5, Zenon DEF HandleAddConn, Command
    <3> QED BY <2>0, <3>1, AddedData
  <2>6. ASSUME NEW a \in Addrs, HandleDropDst(a) PROVE DataKept(pool')
    <3>1. pool' \in pool_handle_drop_dst(pool, a)
      BY <2>6, Zenon DEF HandleDropDst, Command
    <3>2. pool' = pool
      BY <3>1, DropKept
    <3> QED BY <2>0, <3>2
  <2>7. ~HandleShutdown
    BY DEF HandleShutdown
  <2> QED BY Zenon, <1>2, <2>1, <2>2, <2>3, <2>4, <2>5, <2>6, <2>7 DEF Next
<1> QED BY <1>1, <1>2

-----------------------------------------------------------------------------
(* Counting connections, and what the invariants say                      *)

\* How the cardinality of a set of connections changes with one of them.
LEMMA ConnsCount == Counting
<1> SUFFICES ASSUME NEW A \in SUBSET Conns, NEW B \in SUBSET Conns, NEW c \in Conns,
                    \A d \in Conns : d # c => (d \in A <=> d \in B)
             PROVE  /\ Cardinality(A) \in Nat
                    /\ Cardinality(B) = Cardinality(A) + N(c \in B) - N(c \in A)
  BY Zenon DEF Counting
<1>1. IsFiniteSet(A) /\ IsFiniteSet(B)
  BY PoolConnAssumption, FS_Subset
<1>2. Cardinality(A) \in Nat /\ Cardinality(B) \in Nat
  BY <1>1, FS_CardinalityType
<1>3. CASE (c \in A) <=> (c \in B)
  <2>1. A = B
    BY <1>3
  <2> QED BY <1>2, <1>3, <2>1 DEF N
<1>4. CASE c \in A /\ c \notin B
  <2>1. B = A \ {c}
    BY <1>4
  <2>2. Cardinality(B) = Cardinality(A) - 1
    BY <1>1, <1>4, <2>1, FS_RemoveElement
  <2> QED BY <1>2, <1>4, <2>2 DEF N
<1>5. CASE c \notin A /\ c \in B
  <2>1. B = A \cup {c}
    BY <1>5
  <2>2. Cardinality(B) = Cardinality(A) + 1
    BY <1>1, <1>5, <2>1, FS_AddElement
  <2> QED BY <1>2, <1>5, <2>2 DEF N
<1> QED BY <1>3, <1>4, <1>5

\* The empty pool is in order.
LEMMA InitKept == Init => Kept(pool)
<1> SUFFICES ASSUME Init PROVE Kept(pool)
  OBVIOUS
<1>1. NoConnFields
  BY NoConnHas
<1>2. /\ pool \in PoolType /\ \A c \in Conns : pool.conn[c] = NoConn
      /\ \A f \in FDs : pool.route_map[f] = <<>> /\ pool.epoll[f] = Off
      /\ pool.n_conns = 0 /\ pool.fd_max = 1 /\ pool.open = {} /\ pool.established = {}
      /\ \A a \in Addrs : pool.taken[a] = 0
  <2>1. NoConn \in ConnType
    BY <1>1 DEF NoConnFields
  <2>2. [c \in Conns |-> NoConn] \in [Conns -> ConnType]
    BY Zenon, <2>1
  <2>3. pool \in PoolType
    <3>1. /\ [f \in FDs |-> <<>>] \in [FDs -> (Conns \X Sides) \cup {<<>>}]
          /\ [f \in FDs |-> Off] \in [FDs -> (SUBSET RW) \cup {Off}]
      BY Zenon
    <3>2. /\ [a \in Addrs |-> 0] \in [Addrs -> Int] /\ 0 \in Nat /\ 1 \in Nat
          /\ {} \in SUBSET FDs
      OBVIOUS
    <3> QED BY Zenon, <2>2, <3>1, <3>2 DEF Init, PoolType
  <2>4. \A c \in Conns : pool.conn[c] = NoConn
    BY Zenon DEF Init
  <2>5. \A f \in FDs : pool.route_map[f] = <<>> /\ pool.epoll[f] = Off
    BY Zenon DEF Init
  <2>6. /\ pool.n_conns = 0 /\ pool.fd_max = 1 /\ pool.open = {} /\ pool.established = {}
        /\ \A a \in Addrs : pool.taken[a] = 0
    BY Zenon DEF Init
  <2> QED BY Zenon, <2>3, <2>4, <2>5, <2>6
<1>3. /\ \A c \in Conns : ~IsLive(pool, c) /\ Ends(pool, c) = {}
      /\ Served(pool) = {}
  BY <1>1, <1>2 DEF IsLive, Ends, Served, NoConnFields
<1>4. Cardinality({}) = 0
  BY FS_EmptySet
<1>5. Balanced(pool)
  <2> SUFFICES ASSUME NEW a \in Addrs
               PROVE  pool.taken[a] = Cardinality({c \in Conns : Holds(pool, c, a)})
    BY DEF Balanced
  <2>1. {c \in Conns : Holds(pool, c, a)} = {}
    BY <1>3 DEF Holds
  <2> QED BY Zenon, <1>2, <1>4, <2>1
<1>6. Mapped(pool, {})
  BY <1>2, <1>4 DEF Mapped
<1>7. Sockets(pool) /\ Known(pool)
  BY <1>2, <1>3 DEF Sockets, Known
<1>8. Good(pool, {})
  BY <1>2, <1>3, <1>5, <1>6, <1>7, ConnsCount DEF Good
<1> QED BY <1>3, <1>8 DEF Kept

\* It holds at first.
LEMMA InitData == Init => DataInv
<1> SUFFICES ASSUME Init PROVE DataKept(pool)
  BY DEF DataInv
<1>1. \A c \in Conns : ~IsLive(pool, c)
  BY NoConnHas DEF Init, IsLive, NoConnFields
<1> QED BY Zenon, <1>1 DEF DataKept, DataOK, ConnData

-----------------------------------------------------------------------------
(* Shutdown                                                                *)

\* A set of naturals has a least element.
LEMMA Least ==
    ASSUME NEW S, S \subseteq Nat, S # {}
    PROVE  \E x \in S : \A y \in S : x <= y
<1>1. PICK x \in S : \A y \in S : <<y, x>> \notin OpToRel(<, Nat)
  BY Zenon, WFMin, NatLessThanWellFounded
<1>2. ASSUME NEW y \in S PROVE x <= y
  <2>1. x \in Nat /\ y \in Nat
    OBVIOUS
  <2>2. ~(y < x)
    BY Zenon, <1>1, <2>1 DEF OpToRel
  <2> QED
    BY <2>1, <2>2
<1> QED
  BY <1>2

\* Induction up to n, for what is said by membership in a set.
LEMMA Induction ==
    ASSUME NEW n \in Nat, NEW S, 0 \in S, \A k \in 0..n - 1 : k \in S => k + 1 \in S
    PROVE  \A k \in 0..n : k \in S
<1> DEFINE T == {k \in 0..n : k \notin S}
<1> SUFFICES ASSUME T # {} PROVE FALSE
  OBVIOUS
<1>1. PICK x \in T : \A y \in T : x <= y
  <2>1. T \subseteq Nat
    OBVIOUS
  <2> HIDE DEF T
  <2> QED BY Zenon, <2>1, Least
<1>2. x \in 1..n /\ x - 1 \in 0..n - 1 /\ x - 1 \notin T
  BY <1>1
<1>3. x - 1 \in S /\ (x - 1) + 1 = x
  BY <1>2
<1> QED
  BY <1>2, <1>3

\* There is such a walk of any length.
LEMMA WalkExists ==
    ASSUME NEW p, NEW fds, NEW n \in Nat
    PROVE  \E g : Walked(p, fds, n, g)
<1> DEFINE S == {m \in 0..n : \E g : Walked(p, fds, m, g)}
<1>1. 0 \in S
  <2>1. 0 \in 0..n /\ \E g : Walked(p, fds, 0, g)
    BY WalkStarts
  <2> QED BY Zenon, <2>1
<1>2. ASSUME NEW m \in 0..n - 1, m \in S PROVE m + 1 \in S
  <2>0. PICK f : Walked(p, fds, m, f)
    BY <1>2
  <2>1. \A k \in 0..m : f[k] = IF k = 0 THEN p ELSE pool_remove_conn(f[k - 1], fds[k], FALSE)
    BY Zenon, <2>0 DEF Walked
  <2> DEFINE x == pool_remove_conn(f[m], fds[m + 1], FALSE)
             g == [k \in 0..m + 1 |-> IF k = m + 1 THEN x ELSE f[k]]
  <2>2. ASSUME NEW k \in 0..m + 1
        PROVE  g[k] = IF k = 0 THEN p ELSE pool_remove_conn(g[k - 1], fds[k], FALSE)
    <3>1. CASE k = m + 1
      <4>1. k - 1 = m /\ k # 0 /\ m \in 0..m + 1 /\ m # m + 1
        BY <3>1
      <4>2. g[k] = x /\ g[k - 1] = f[m]
        BY Zenon, <3>1, <4>1
      <4> QED BY Zenon, <3>1, <4>1, <4>2
    <3>2. CASE k # m + 1
      <4>1. k \in 0..m
        BY <3>2
      <4>2. k # 0 => k - 1 \in 0..m + 1 /\ k - 1 # m + 1
        BY <4>1
      <4>3. g[k] = f[k] /\ (k # 0 => g[k - 1] = f[k - 1])
        BY Zenon, <3>2, <4>2
      <4> QED BY Zenon, <2>1, <4>1, <4>3
    <3> QED BY Zenon, <3>1, <3>2
  <2>3. Walked(p, fds, m + 1, g)
    BY Zenon, <2>2 DEF Walked
  <2>4. \E h : Walked(p, fds, m + 1, h)
    BY Zenon, <2>3
  <2> QED BY <2>4
<1>3. n \in S
  <2> HIDE DEF S
  <2> QED BY <1>1, <1>2, Induction
<1> QED BY <1>3

\* RemoveAll() is the end of one.
LEMMA RemoveAllWalks ==
    ASSUME NEW p, NEW fds, NEW n \in Nat, Len(fds) = n
    PROVE  \E g : Walked(p, fds, n, g) /\ RemoveAll(p, fds) = g[n]
<1>1. \E g : Walked(p, fds, n, g)
  BY WalkExists
<1>2. RemoveAll(p, fds) = (CHOOSE g : Walked(p, fds, n, g))[n]
  BY Zenon DEF RemoveAll, Walked
<1>3. Walked(p, fds, n, CHOOSE g : Walked(p, fds, n, g))
  BY Zenon, <1>1
<1> QED BY Zenon, <1>2, <1>3

\* The connection a walk meets at its step i.
Met(p, fds, i) == p.route_map[fds[i]][1]

\* The pool when k connections have been removed: those that are still to be met are
\* as they were, and none has changed but by going.
WalkInv(p, fds, n, k, q) ==
    /\ q \in PoolType /\ q.n_conns = p.n_conns - k /\ q.fd_max = p.fd_max - 2 * k
    /\ \A c \in Conns : q.conn[c] = p.conn[c] \/ q.conn[c] = NoConn
    /\ \A i \in k + 1..n : /\ q.conn[Met(p, fds, i)] = p.conn[Met(p, fds, i)]
                           /\ q.route_map[fds[i]] = p.route_map[fds[i]]
                           /\ \A s \in Sides : q.epoll[Sk(p, Met(p, fds, i), s)]
                                                 = p.epoll[Sk(p, Met(p, fds, i), s)]

\* What a walk meets are connections that are served, each of them once.
LEMMA WalkMeets ==
    ASSUME NEW p, Kept(p), NEW cs \in SUBSET Served(p), NEW fds \in Walks(p, cs)
    PROVE  /\ Cardinality(cs) \in Nat /\ Cardinality(cs) <= p.n_conns
           /\ p.n_conns \in Nat /\ p.fd_max = 1 + 2 * p.n_conns
           /\ fds \in [1..Cardinality(cs) -> FDs]
           /\ \A i \in 1..Cardinality(cs) :
                 /\ Met(p, fds, i) \in Served(p)
                 /\ \E s \in Sides : p.route_map[fds[i]] = <<Met(p, fds, i), s>>
           /\ \A i, j \in 1..Cardinality(cs) : Met(p, fds, i) = Met(p, fds, j) => i = j
<1>1. p \in PoolType /\ p.n_conns = Cardinality(Served(p)) /\ p.fd_max = 1 + 2 * p.n_conns
  BY DEF Kept, Good, Mapped
<1>2. IsFiniteSet(Served(p)) /\ cs \subseteq Served(p)
  <2>1. Served(p) \subseteq Conns
    BY DEF Served
  <2> QED BY <2>1, FS_Subset, PoolConnAssumption
<1>3. Cardinality(cs) \in Nat /\ Cardinality(cs) <= p.n_conns /\ p.n_conns \in Nat
  BY <1>1, <1>2, FS_Subset, FS_CardinalityType
<1>4. /\ fds \in [1..Cardinality(cs) -> FDs] /\ DOMAIN fds = 1..Cardinality(cs)
      /\ \A i \in DOMAIN fds : \E c \in cs, s \in Sides : p.route_map[fds[i]] = <<c, s>>
      /\ \A i, j \in DOMAIN fds : p.route_map[fds[i]][1] = p.route_map[fds[j]][1] => i = j
  BY DEF Walks
<1>5. ASSUME NEW i \in 1..Cardinality(cs)
      PROVE  /\ Met(p, fds, i) \in Served(p)
             /\ \E s \in Sides : p.route_map[fds[i]] = <<Met(p, fds, i), s>>
  <2>1. PICK c \in cs, s \in Sides : p.route_map[fds[i]] = <<c, s>>
    BY Zenon, <1>4
  <2>2. Met(p, fds, i) = c
    BY <2>1 DEF Met
  <2> QED BY <2>1, <2>2, <1>2
<1>6. ASSUME NEW i \in 1..Cardinality(cs), NEW j \in 1..Cardinality(cs),
             Met(p, fds, i) = Met(p, fds, j)
      PROVE  i = j
  BY Zenon, <1>4, <1>6 DEF Met
<1> QED BY Zenon, <1>1, <1>3, <1>4, <1>5, <1>6

\* Each step of a walk removes one more.
LEMMA WalkStep ==
    ASSUME NEW p, Kept(p), NEW cs \in SUBSET Served(p), NEW fds \in Walks(p, cs),
           NEW k \in 0..Cardinality(cs) - 1, NEW q, WalkInv(p, fds, Cardinality(cs), k, q)
    PROVE  WalkInv(p, fds, Cardinality(cs), k + 1, pool_remove_conn(q, fds[k + 1], FALSE))
<1> DEFINE n == Cardinality(cs)
           c == Met(p, fds, k + 1)
           r == pool_remove_conn(q, fds[k + 1], FALSE)
<1>0. n \in Nat /\ n <= p.n_conns /\ p.n_conns \in Nat /\ p.fd_max = 1 + 2 * p.n_conns
  BY WalkMeets
<1>13. /\ \A i \in 1..n : /\ Met(p, fds, i) \in Served(p) /\ fds[i] \in FDs
                        /\ \E s \in Sides : p.route_map[fds[i]] = <<Met(p, fds, i), s>>
      /\ \A i, j \in 1..n : Met(p, fds, i) = Met(p, fds, j) => i = j
  BY WalkMeets
<1> HIDE DEF n
<1>1. k + 1 \in 1..n /\ k + 1 \in k + 1..n /\ k \in Nat
  BY <1>0 DEF n
<1>2. c \in Served(p) /\ \E s \in Sides : p.route_map[fds[k + 1]] = <<c, s>>
  BY Zenon, <1>1, <1>13 DEF c
<1>3. PICK s \in Sides : p.route_map[fds[k + 1]] = <<c, s>>
  BY <1>2
<1> HIDE DEF c
<1>4. /\ Ready(p, c) /\ c \in Conns
      /\ \A d \in Served(p), t \in Sides :
            p.route_map[Sk(p, d, t)] = <<d, Other(t)>> /\ Sk(p, d, t) \in FDs
  BY <1>2, ServedReady DEF Kept, Ready
<1>5. p.conn[c].addr \in Addrs
  BY <1>2, <1>4 DEF Kept, Good
<1>6. /\ q \in PoolType /\ q.n_conns = p.n_conns - k /\ q.fd_max = p.fd_max - 2 * k
      /\ \A d \in Conns : q.conn[d] = p.conn[d] \/ q.conn[d] = NoConn
      /\ q.conn[c] = p.conn[c] /\ q.route_map[fds[k + 1]] = <<c, s>>
      /\ \A t \in Sides : q.epoll[Sk(p, c, t)] = p.epoll[Sk(p, c, t)]
  BY Zenon, <1>1, <1>3 DEF WalkInv, c, n
<1>7. Ready(q, c) /\ q.n_conns > 0 /\ q.fd_max > 2 /\ q.conn[c].addr \in Addrs
      /\ \A t \in Sides : Sk(q, c, t) = Sk(p, c, t)
  <2>1. \A t \in Sides : Sk(q, c, t) = Sk(p, c, t)
    BY Zenon, <1>6 DEF Sk
  <2>2. Ready(q, c)
    BY Zenon, <1>4, <1>6, <2>1 DEF Ready
  <2>3. q.n_conns > 0 /\ q.fd_max > 2
    BY <1>0, <1>1, <1>6
  <2> QED BY <1>5, <1>6, <2>1, <2>2, <2>3
<1>8. Less(q, r, c)
  BY Zenon, <1>4, <1>6, <1>7, RemoveLess
<1> HIDE DEF r
<1>9. r \in PoolType /\ r.n_conns = p.n_conns - (k + 1) /\ r.fd_max = p.fd_max - 2 * (k + 1)
  <2>1. r \in PoolType /\ r.n_conns = q.n_conns - 1 /\ r.fd_max = q.fd_max - 2
    BY Zenon, <1>8 DEF Less
  <2> QED BY <1>0, <1>1, <1>6, <2>1
<1>10. ASSUME NEW d \in Conns PROVE r.conn[d] = p.conn[d] \/ r.conn[d] = NoConn
  BY Zenon, <1>6, <1>8 DEF Less
<1>11. ASSUME NEW i \in (k + 1) + 1..n
       PROVE  /\ r.conn[Met(p, fds, i)] = p.conn[Met(p, fds, i)]
              /\ r.route_map[fds[i]] = p.route_map[fds[i]]
              /\ \A t \in Sides : r.epoll[Sk(p, Met(p, fds, i), t)]
                                    = p.epoll[Sk(p, Met(p, fds, i), t)]
  <2> DEFINE d == Met(p, fds, i)
  <2>1. i \in 1..n /\ i \in k + 1..n /\ i # k + 1
    BY <1>0, <1>1
  <2>2. d \in Served(p) /\ (\E t \in Sides : p.route_map[fds[i]] = <<d, t>>) /\ fds[i] \in FDs /\ d # c
    BY Zenon, <1>1, <1>13, <2>1 DEF c
  <2>3. /\ q.conn[d] = p.conn[d] /\ q.route_map[fds[i]] = p.route_map[fds[i]]
        /\ \A t \in Sides : q.epoll[Sk(p, d, t)] = p.epoll[Sk(p, d, t)]
    BY Zenon, <2>1 DEF WalkInv, n
  <2> HIDE DEF d
  <2>4. d \in Conns
    BY <2>2 DEF Served
  <2>5. /\ p.route_map[Sk(p, c, "inc")] = <<c, Other("inc")>>
        /\ p.route_map[Sk(p, c, "dst")] = <<c, Other("dst")>>
    BY <1>2, <1>4 DEF Sides
  <2>6. fds[i] \notin {Sk(q, c, "inc"), Sk(q, c, "dst")}
    <3>1. Sk(q, c, "inc") = Sk(p, c, "inc") /\ Sk(q, c, "dst") = Sk(p, c, "dst")
      BY <1>7 DEF Sides
    <3> QED BY <2>2, <2>5, <3>1
  <2>7. ASSUME NEW t \in Sides
        PROVE  Sk(p, d, t) \in FDs /\ Sk(p, d, t) \notin {Sk(q, c, "inc"), Sk(q, c, "dst")}
    <3>1. Sk(q, c, "inc") = Sk(p, c, "inc") /\ Sk(q, c, "dst") = Sk(p, c, "dst")
      BY <1>7 DEF Sides
    <3>2. p.route_map[Sk(p, d, t)] = <<d, Other(t)>> /\ Sk(p, d, t) \in FDs
      BY <1>4, <2>2
    <3> QED BY <2>2, <2>5, <3>1, <3>2
  <2>8. /\ r.conn[d] = p.conn[d] /\ r.route_map[fds[i]] = p.route_map[fds[i]]
        /\ \A t \in Sides : r.epoll[Sk(p, d, t)] = p.epoll[Sk(p, d, t)]
    BY Zenon, <1>8, <2>2, <2>3, <2>4, <2>6, <2>7 DEF Less
  <2> QED BY Zenon, <2>8 DEF d
<1>12. WalkInv(p, fds, n, k + 1, r)
  BY Zenon, <1>9, <1>10, <1>11 DEF WalkInv
<1> QED BY Zenon, <1>12 DEF n, r

\* What removing connections leaves: pools of the type, whose connections are those
\* there were, or gone.
LEMMA RemoveAllLeaves ==
    ASSUME NEW p, Kept(p), NEW cs \in SUBSET Served(p), NEW fds \in Walks(p, cs)
    PROVE  /\ RemoveAll(p, fds) \in PoolType
           /\ \A c \in Conns : \/ RemoveAll(p, fds).conn[c] = p.conn[c]
                               \/ RemoveAll(p, fds).conn[c] = NoConn
<1> DEFINE n == Cardinality(cs)
<1>0. n \in Nat /\ fds \in [1..n -> FDs]
  BY WalkMeets
<1> HIDE DEF n
<1>1. Len(fds) = n
  BY <1>0
<1>2. PICK g : Walked(p, fds, n, g) /\ RemoveAll(p, fds) = g[n]
  BY <1>0, <1>1, RemoveAllWalks
<1>3. \A k \in 0..n : g[k] = IF k = 0 THEN p ELSE pool_remove_conn(g[k - 1], fds[k], FALSE)
  BY Zenon, <1>2 DEF Walked
<1> DEFINE S == {k \in 0..n : WalkInv(p, fds, n, k, g[k])}
<1>4. 0 \in S
  <2>0. 0 \in 0..n
    BY <1>0
  <2>1. 0 \in 0..n /\ g[0] = p
    BY Zenon, <1>3, <2>0
  <2>2. p \in PoolType /\ p.n_conns \in Nat /\ p.fd_max \in Nat
    BY PoolNumbers DEF Kept, Good
  <2>3. p.n_conns = p.n_conns - 0 /\ p.fd_max = p.fd_max - 2 * 0
    BY <2>2
  <2>4. WalkInv(p, fds, n, 0, p)
    BY Zenon, <2>2, <2>3 DEF WalkInv
  <2> QED BY Zenon, <2>1, <2>4
<1>5. ASSUME NEW k \in 0..n - 1, k \in S PROVE k + 1 \in S
  <2>1. k + 1 \in 0..n /\ k + 1 # 0 /\ (k + 1) - 1 = k
    BY <1>0
  <2>2. g[k + 1] = pool_remove_conn(g[k], fds[k + 1], FALSE)
    BY Zenon, <1>3, <2>1
  <2>3. WalkInv(p, fds, n, k, g[k])
    BY Zenon, <1>5
  <2>4. WalkInv(p, fds, n, k + 1, g[k + 1])
    BY Zenon, <2>2, <2>3, WalkStep DEF n
  <2> QED BY Zenon, <2>1, <2>4
<1>6. n \in S
  <2> HIDE DEF S
  <2>1. n \in Nat /\ n \in 0..n
    BY <1>0
  <2> QED BY <1>4, <1>5, <2>1, Induction
<1> QED BY Zenon, <1>2, <1>6 DEF WalkInv

\* What holds after a shutdown as well: the pool has its type, and the bytes of the
\* connections that are left are in order.
LastInv ==
    /\ pool \in PoolType
    /\ \A c \in Conns : IsLive(pool, c) => Ordered(pool, c) /\ Fresh(pool, c)

\* Before a shutdown it is part of the invariant.
LEMMA KeptLast ==
    ASSUME ~shutdown, KeptInv, DataInv
    PROVE  LastInv
<1>1. pool \in PoolType /\ DataKept(pool)
  BY DEF KeptInv, DataInv, Kept, Good
<1>2. \A c \in Conns : IsLive(pool, c) => Ordered(pool, c) /\ Fresh(pool, c)
  BY <1>1 DEF DataKept, DataOK, ConnData, Sound
<1> QED BY <1>1, <1>2 DEF LastInv

\* pool_handle_shutdown() leaves it, and nothing happens afterwards.
LEMMA NextLast ==
    ASSUME KeptInv, DataInv, LastInv, [Next]_vars, KeptInv', DataInv'
    PROVE  LastInv'
<1>1. CASE ~shutdown'
  BY <1>1, KeptLast, PTL
<1>2. CASE shutdown'
  <2>1. \/ pool' = pool
        \/ ~shutdown /\ pool' \in pool_handle_shutdown(pool)
    <3>1. CASE UNCHANGED vars
      <4>1. pool' = pool
        BY <3>1 DEF vars
      <4> QED BY Zenon, <4>1
    <3>2. CASE Next
      <4>1. ~shutdown
        BY Zenon, <3>2 DEF Next, AddConn, pool_fds_wait, HandleRead, HandleWrite, HandleAddConn,
                  HandleDropDst, HandleStats, HandleShutdown, Command, Running
      <4>2. HandleShutdown \/ shutdown' = shutdown
        <5>1. \A fd \in FDs : HandleRead(fd) \/ HandleWrite(fd) => shutdown' = shutdown
          BY Zenon DEF HandleRead, HandleWrite, Crash
        <5> QED BY Zenon, <3>2, <5>1 DEF Next, AddConn, pool_fds_wait, HandleAddConn,
                       HandleDropDst, HandleStats
      <4>3. HandleShutdown
        BY Zenon, <1>2, <4>1, <4>2
      <4> QED BY Zenon, <4>1, <4>3 DEF HandleShutdown, Command
    <3> QED BY Zenon, <3>1, <3>2
  <2>2. CASE pool' = pool
    BY Zenon, <2>2 DEF LastInv, IsLive, Ordered, Fresh
  <2>3. CASE ~shutdown /\ pool' \in pool_handle_shutdown(pool)
    <3>1. PICK fds \in Walks(pool, Served(pool)) : pool' = RemoveAll(pool, fds)
      BY Zenon, <2>3 DEF pool_handle_shutdown
    <3>2. Kept(pool)
      BY Zenon, <2>3 DEF KeptInv
    <3>3. /\ RemoveAll(pool, fds) \in PoolType
          /\ \A c \in Conns : \/ RemoveAll(pool, fds).conn[c] = pool.conn[c]
                              \/ RemoveAll(pool, fds).conn[c] = NoConn
      BY <3>2, RemoveAllLeaves
    <3>4. pool' \in PoolType /\ \A c \in Conns : pool'.conn[c] \in {pool.conn[c], NoConn}
      BY Zenon, <3>1, <3>3
    <3>5. ASSUME NEW c \in Conns, IsLive(pool, c)'
          PROVE  Ordered(pool, c)' /\ Fresh(pool, c)'
      <4>1. pool'.conn[c] # NoConn
        BY Zenon, <3>5, NoConnHas DEF IsLive, NoConnFields
      <4>2. pool'.conn[c] = pool.conn[c]
        BY Zenon, <3>4, <4>1
      <4>3. IsLive(pool, c)
        BY Zenon, <3>5, <4>2 DEF IsLive
      <4> QED BY Zenon, <4>2, <4>3 DEF LastInv, Ordered, Fresh
    <3> QED BY Zenon, <3>4, <3>5 DEF LastInv
  <2> QED BY <2>1, <2>2, <2>3
<1> QED BY <1>1, <1>2
-----------------------------------------------------------------------------
(* What the invariant says                                                 *)

\* What the invariant says of the bytes,
LEMMA DataStream == LastInv => StreamIntact
<1> SUFFICES ASSUME LastInv, NEW c \in Live, NEW s \in Sides
             PROVE  LET k == pool.conn[c]
                    IN  SubSeq(k.end[s].buf, k.end[s].sent + 1, Len(k.end[s].buf))
                          = [i \in 1..(k.rcvd[s] - k.dlvd[s]) |-> k.dlvd[s] + i]
  BY Zenon DEF StreamIntact
<1>1. c \in Conns /\ IsLive(pool, c) /\ pool \in PoolType
  BY DEF Live, IsLive, LastInv
<1>2. Ordered(pool, c)
  BY <1>1 DEF LastInv
<1>3. InOrder(pool.conn[c].end[s].buf, pool.conn[c].end[s].sent,
              pool.conn[c].rcvd[s], pool.conn[c].dlvd[s])
  BY <1>2 DEF Ordered
<1>4. /\ pool.conn[c].end[s].buf \in Seq(Nat) /\ pool.conn[c].end[s].sent \in Nat
      /\ pool.conn[c].rcvd[s] \in Nat /\ pool.conn[c].dlvd[s] \in Nat
  BY <1>1, DataFields
<1> DEFINE b == pool.conn[c].end[s].buf
           n == pool.conn[c].end[s].sent
           x == pool.conn[c].rcvd[s]
           y == pool.conn[c].dlvd[s]
<1>5. b \in Seq(Nat) /\ n \in Nat /\ x \in Nat /\ y \in Nat /\ InOrder(b, n, x, y)
  BY Zenon, <1>3, <1>4
<1> HIDE DEF b, n, x, y
<1>6. SubSeq(b, n + 1, Len(b)) = [i \in 1..(x - y) |-> y + i]
  BY <1>5, InOrderRest
<1> QED BY Zenon, <1>6 DEF b, n, x, y

\* of the destinations a client is moved to,
LEMMA DataMoved == LastInv => MovedFromStart
<1> SUFFICES ASSUME LastInv, NEW c \in Live, ~pool.conn[c].complete
             PROVE  pool.conn[c].dlvd["dst"] = 0
  BY DEF MovedFromStart
<1>1. c \in Conns /\ IsLive(pool, c)
  BY DEF Live, IsLive
<1>2. Fresh(pool, c)
  BY <1>1 DEF LastInv
<1> QED BY <1>2 DEF Fresh

\* of the events that are asked for,
LEMMA DataFlow == KeptInv /\ DataInv => FlowControl
<1> SUFFICES ASSUME ~shutdown, Kept(pool), DataKept(pool), NEW c \in Served(pool), NEW s \in Sides
             PROVE  LET k == pool.conn[c]
                    IN  /\ k.end[s].buf # <<>> /\ Sock(c, s) \notin pool.broken =>
                               "W" \in pool.epoll[Sock(c, s)]
                        /\ "R" \notin pool.epoll[Sock(c, s)] =>
                               \/ Len(k.end[Other(s)].buf) = BufSize
                               \/ s = "dst" /\ ~k.complete
  BY DEF KeptInv, DataInv, FlowControl
<1>1. Sound(pool, c)
  BY ServedAt
<1>2. /\ pool.epoll[Sock(c, s)] = pool.conn[c].end[s].events /\ Sock(c, s) = Sk(pool, c, s)
      /\ CanSend(pool, c, s) /\ CanRead(pool, c, s)
  BY Zenon, <1>1 DEF Sound, Told, Sk, Sock
<1> QED BY Zenon, <1>2 DEF CanSend, CanRead

\* and of a connect in progress.
LEMMA DataWaits == KeptInv /\ DataInv => IncompleteWaitsForWrite
<1> SUFFICES ASSUME ~shutdown, Kept(pool), DataKept(pool), NEW c \in Served(pool),
                    ~pool.conn[c].complete
             PROVE  "W" \in pool.epoll[Sock(c, "dst")]
  BY DEF KeptInv, DataInv, IncompleteWaitsForWrite
<1>1. Sound(pool, c) /\ "dst" \in Sides
  BY ServedAt DEF Sides
<1>2. pool.epoll[Sock(c, "dst")] = pool.conn[c].end["dst"].events /\ Waits(pool, c)
  BY Zenon, <1>1 DEF Sound, Told, Sk, Sock
<1> QED BY <1>2 DEF Waits

\* What it says of types.
LEMMA LastTypes == LastInv /\ EventsOK => TypeOK
BY DEF LastInv, EventsOK, TypeOK

-----------------------------------------------------------------------------
(* The theorems                                                            *)

\* The whole invariant is inductive, if data moves only over connections the thread
\* knows to be established.
LEMMA DataAlways == ~Early /\ Spec => [](KeptInv /\ DataInv /\ LastInv /\ EventsOK)
<1> DEFINE I == KeptInv /\ DataInv /\ LastInv /\ EventsOK
<1> SUFFICES ASSUME ~Early PROVE Spec => []I
  OBVIOUS
<1>1. Init => I
  <2>1. Init => ~shutdown /\ KeptInv /\ DataInv /\ EventsOK
    BY Zenon, InitKept, InitData, InitEvents DEF KeptInv, Init
  <2> QED BY <2>1, KeptLast
<1>2. I /\ [Next]_vars => I'
  <2> SUFFICES ASSUME I, [Next]_vars PROVE I'
    OBVIOUS
  <2>1. KeptInv' /\ DataInv' /\ EventsOK'
    BY NextKept, NextData, NextEvents
  <2> QED BY <2>1, NextLast
<1> QED BY <1>1, <1>2, PTL DEF Spec

\* However connections come, fail over and end, route_map has both ends of each that
\* is served and nothing else, epoll has the same descriptors, and n_conns and
\* fd_max agree: for any number of connections and descriptors and any batch
\* of events, until the thread shuts down.
THEOREM MapAlways == ~Early => (Spec => []MapMatches)
BY DataAlways, KeptMap, PTL

\* No socket is leaked by pool_remove_conn() or a failed connect, and none closed
\* that is another connection's.
THEOREM SocketsAlways == ~Early => (Spec => []SocketsAccounted)
BY DataAlways, KeptSockets, PTL

\* Every way a connection ends gives it back to the router once, under the address
\* it is counted for.
THEOREM BalanceAlways == ~Early => (Spec => []RouterBalanced)
BY DataAlways, KeptBalance, PTL

\* No byte is lost, repeated or overtaken between recv() and send(), for buffers of
\* any size, whatever the kernel takes at a time and wherever a connect fails.
THEOREM StreamAlways == ~Early => (Spec => []StreamIntact)
BY DataAlways, DataStream, PTL

\* A client is moved by glb_router_choose_dst_again() only while no destination has
\* had any byte of it.
THEOREM MovedAlways == ~Early => (Spec => []MovedFromStart)
BY DataAlways, DataMoved, PTL

\* No connection stalls: pool_send_data() and pool_handle_read() leave the events by
\* which the next byte can move.
THEOREM FlowAlways == ~Early => (Spec => []FlowControl)
BY DataAlways, DataFlow, PTL

\* Where no data moves over it early, an end whose connect is in progress keeps
\* waiting for the write event that completes it, as the comment in
\* pool_send_data() has it.
THEOREM WaitsAlways == ~Early => (Spec => []IncompleteWaitsForWrite)
BY DataAlways, DataWaits, PTL

\* Every variable has its type: the counters never go below zero, and no descriptor
\* is looked up that there is not, also while pool_handle_shutdown() removes one
\* connection after the other.
THEOREM TypesAlways == ~Early => (Spec => []TypeOK)
BY DataAlways, LastTypes, PTL
=============================================================================
