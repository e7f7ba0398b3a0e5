------------------------------ MODULE Control ------------------------------
(***************************************************************************)
(* The control thread (glb_control.c): the table of descriptors it polls,  *)
(* which has room for CTRL_MAX of them, the clients that come and go, and  *)
(* how main() (glb_main.c) starts and stops it. What a request does to the *)
(* router or to the watchdog is in Router and in Wdog; here it is read and *)
(* answered. Names that the other components have too begin with Control,  *)
(* so that ControlProofs can extend this module and PoolCtl together.      *)
(***************************************************************************)
EXTENDS Naturals, Sequences

CONSTANTS
    Clients,        \* programs that connect to the control socket
    CTRL_MAX,       \* GLB_MAX_CTRL_CONN
    Layouts         \* what there is: "fifo", "both", or "inet" (libglb)

\* The descriptor of the FIFO, that of the control socket, and a cleared one.
\* A client's connection is named after the client.
CONSTANTS FIFO, INET, None

ASSUME ControlAssumption ==
    /\ CTRL_MAX \in Nat /\ CTRL_MAX >= 3
    /\ Layouts \subseteq {"fifo", "both", "inet"}
    /\ FIFO # INET /\ FIFO # None /\ INET # None /\ {FIFO, INET, None} \cap Clients = {}

VARIABLES
    layout,
    fds,        \* ctrl->fds: its descriptors
    listening,  \* the control socket is polled: its events are POLLIN
    fd_max,     \* ctrl->fd_max
    step,       \* the thread: in "poll", in the "loop" over the table, "done"
    ready,      \* the descriptors whose revents have POLLIN in that loop
    idx,        \* its index
    backlog,    \* the clients that wait to be accepted
    open,       \* the clients that have been
    data,       \* the clients whose request has not been read, and FIFO if it
                \* holds one
    gone,       \* the clients that have closed their end
    terminate,  \* glb_terminate
    main        \* "starting", "serving" (libglb: always), "joining" the thread,
                \* "exited"

thread == <<fds, listening, fd_max, step, ready, idx>>
peers == <<backlog, open, data, gone>>
controlVars == <<layout, thread, peers, terminate, main>>

Slots == 0..CTRL_MAX - 1

\* What glb_ctrl_create() puts into the table, and how many.
Fixed ==
    (IF layout = "inet" THEN {} ELSE {FIFO}) \cup (IF layout = "fifo" THEN {} ELSE {INET})

NFixed == IF layout = "both" THEN 2 ELSE 1

\* ctrl->inet_fd; with a FIFO only there is none.
inet_fd == IF layout = "both" THEN 1 ELSE 0

HasInet == layout # "fifo"

\* glb_ctrl_create()
ControlInit ==
    /\ layout \in Layouts
    /\ fds = [k \in Slots |->
                IF k = 0 /\ layout # "inet" THEN FIFO
                ELSE IF k = inet_fd /\ HasInet THEN INET ELSE None]
    /\ listening = HasInet
    /\ fd_max = NFixed
    /\ step = "poll" /\ ready = {} /\ idx = 0
    /\ backlog = <<>> /\ open = {} /\ data = {} /\ gone = {}
    /\ terminate = FALSE
    /\ main = IF layout = "inet" THEN "serving" ELSE "starting"

-----------------------------------------------------------------------------
(* The clients and the operator                                            *)

Queued == {backlog[k] : k \in DOMAIN backlog}

Connect(c) ==
    /\ HasInet /\ c \notin open \cup Queued
    /\ backlog' = Append(backlog, c)
    /\ UNCHANGED <<layout, thread, open, data, gone, terminate, main>>

\* A client can send before it is accepted.
Send(c) ==
    /\ c \in open \cup Queued /\ c \notin gone
    /\ data' = data \cup {c}
    /\ UNCHANGED <<layout, thread, backlog, open, gone, terminate, main>>

HangUp(c) ==
    /\ c \in open \cup Queued
    /\ gone' = gone \cup {c}
    /\ UNCHANGED <<layout, thread, backlog, open, data, terminate, main>>

\* echo ... > fifo
Echo ==
    /\ FIFO \in Fixed
    /\ data' = data \cup {FIFO}
    /\ UNCHANGED <<layout, thread, backlog, open, gone, terminate, main>>

-----------------------------------------------------------------------------
(* The thread                                                              *)

\* A faulty variant: the control socket is polled also when the table is full.
AddClient_NoLimit(c) ==
    /\ fds' = [fds EXCEPT ![fd_max] = c]
    /\ fd_max' = fd_max + 1
    /\ UNCHANGED listening

\* ctrl_add_client()
AddClient(c) ==
    /\ fds' = [fds EXCEPT ![fd_max] = c]
    /\ fd_max' = fd_max + 1
    /\ listening' = (listening /\ fd_max + 1 # CTRL_MAX)

\* A faulty variant: the last descriptor is cleared before it is moved.
DelClient_Clears(c) ==
    /\ fds' = [k \in Slots |-> IF k = fd_max - 1 \/ fds[k] = c THEN None ELSE fds[k]]
    /\ fd_max' = fd_max - 1
    /\ listening' = TRUE

\* A faulty variant: the control socket is not polled again.
DelClient_StaysFull(c) ==
    /\ fds' = [k \in Slots |->
                IF k = fd_max - 1 THEN None
                ELSE IF fds[k] = c THEN fds[fd_max - 1] ELSE fds[k]]
    /\ fd_max' = fd_max - 1
    /\ UNCHANGED listening

\* ctrl_del_client(): the last descriptor takes the place of the client's.
DelClient(c) ==
    /\ fds' = [k \in Slots |->
                IF k = fd_max - 1 THEN None
                ELSE IF fds[k] = c THEN fds[fd_max - 1] ELSE fds[k]]
    /\ fd_max' = fd_max - 1
    /\ listening' = TRUE

\* What poll() finds.
Readable ==
    LET polled == {fds[k] : k \in {j \in Slots : j < fd_max}} IN
    (polled \cap (data \cup gone))
        \cup IF listening /\ backlog # <<>> THEN {INET} ELSE {}

\* ctrl_thread(): a new client goes before everything else, and is only put into
\* the table.
Accept ==
    /\ step = "poll" /\ ~terminate /\ INET \in Readable
    /\ AddClient(Head(backlog))
    /\ open' = open \cup {Head(backlog)} /\ backlog' = Tail(backlog)
    /\ UNCHANGED <<layout, step, ready, idx, data, gone, terminate, main>>

\* accept() fails: the client is not there any more.
AcceptFails ==
    /\ step = "poll" /\ ~terminate /\ INET \in Readable
    /\ LET c == Head(backlog) IN
        c \in gone /\ gone' = gone \ {c} /\ data' = data \ {c}
    /\ backlog' = Tail(backlog)
    /\ UNCHANGED <<layout, thread, open, terminate, main>>

\* Without a new client the thread goes through the table with what poll() found.
Poll ==
    /\ step = "poll" /\ ~terminate /\ Readable # {} /\ INET \notin Readable
    /\ step' = "loop" /\ idx' = 0 /\ ready' = Readable
    /\ UNCHANGED <<layout, fds, listening, fd_max, peers, terminate, main>>

\* ctrl_fd_isset() for an index k of the loop, which goes to fd_max: there the
\* table has a cleared entry, or it ends and cleared padding follows.
IsSet(k) == k <= fd_max /\ fds[k] \in ready

\* The next entry that is ready.
NextSet(k) == k >= idx /\ IsSet(k) /\ \A j \in Slots : j >= idx /\ j < k => ~IsSet(j)

\* A faulty variant: one request for every poll().
Request_One(k) ==
    /\ step = "loop" /\ NextSet(k) /\ fds[k] \in data
    /\ data' = data \ {fds[k]}
    /\ step' = "poll" /\ idx' = 0 /\ ready' = {}
    /\ UNCHANGED <<layout, fds, listening, fd_max, backlog, open, gone, terminate, main>>

\* ctrl_handle_request() reads a request, and answers a client.
Request(k) ==
    /\ step = "loop" /\ NextSet(k) /\ fds[k] \in data
    /\ data' = data \ {fds[k]}
    /\ idx' = k + 1
    /\ UNCHANGED <<layout, fds, listening, fd_max, step, ready, backlog, open, gone>>
    /\ UNCHANGED <<terminate, main>>

\* The client's connection is closed and forgotten.
Forget(c) ==
    /\ DelClient(c)
    /\ open' = open \ {c} /\ data' = data \ {c} /\ gone' = gone \ {c}
    /\ UNCHANGED <<layout, backlog, terminate, main>>

\* It reads the end of the connection, and the loop goes on.
Closed(k) ==
    /\ step = "loop" /\ NextSet(k) /\ fds[k] \in gone \ data
    /\ Forget(fds[k])
    /\ idx' = k + 1 /\ ready' = ready \ {fds[k]} /\ UNCHANGED step

\* It finds the connection reset, and the loop is left.
Reset(k) ==
    /\ step = "loop" /\ NextSet(k) /\ fds[k] \in gone
    /\ Forget(fds[k])
    /\ step' = "poll" /\ idx' = 0 /\ ready' = {}

\* The loop is over. Nobody looks at revents before poll() has set it again.
LoopEnds ==
    /\ step = "loop" /\ \A k \in Slots : ~NextSet(k)
    /\ step' = "poll" /\ idx' = 0 /\ ready' = {}
    /\ UNCHANGED <<layout, fds, listening, fd_max, peers, terminate, main>>

\* A faulty variant: poll() has no timeout.
Leave_NoTimeout ==
    /\ step = "poll" /\ terminate /\ Readable # {}
    /\ step' = "done"
    /\ UNCHANGED <<layout, fds, listening, fd_max, ready, idx, peers, terminate, main>>

\* poll() returns every second, if only for this. libglb has no such condition.
Leave ==
    /\ step = "poll" /\ terminate
    /\ step' = "done"
    /\ UNCHANGED <<layout, fds, listening, fd_max, ready, idx, peers, terminate, main>>

-----------------------------------------------------------------------------
(* main()                                                                  *)

\* signal_handler(): glbd is told to terminate.
Terminate ==
    /\ layout # "inet" /\ ~terminate
    /\ terminate' = TRUE
    /\ UNCHANGED <<layout, thread, peers, main>>

\* The listener is created after the control thread, or fails to be.
StartListener ==
    /\ main = "starting"
    /\ main' \in {"serving", "joining"}
    /\ UNCHANGED <<layout, thread, peers, terminate>>

\* The loop of main() ends and the listener is destroyed.
MainEnds ==
    /\ main = "serving" /\ terminate
    /\ main' = "joining"
    /\ UNCHANGED <<layout, thread, peers, terminate>>

\* glb_ctrl_destroy() returns; the rest of the clean-up follows.
Joined ==
    /\ main = "joining" /\ step = "done"
    /\ main' = "exited"
    /\ UNCHANGED <<layout, thread, peers, terminate>>

Thread ==
    \/ Accept \/ AcceptFails \/ Poll \/ LoopEnds \/ Leave
    \/ \E k \in Slots : Request(k) \/ Closed(k) \/ Reset(k)

ControlNext ==
    \/ Thread
    \/ \E c \in Clients : Connect(c) \/ Send(c) \/ HangUp(c)
    \/ Echo \/ Terminate \/ StartListener \/ MainEnds \/ Joined

ControlSpec == ControlInit /\ [][ControlNext]_controlVars

\* The thread and main() go on. Nothing is assumed of clients.
ControlFairSpec ==
    /\ ControlSpec
    /\ WF_controlVars(Thread) /\ WF_controlVars(StartListener \/ MainEnds \/ Joined)

-----------------------------------------------------------------------------
(* Properties                                                              *)

\* Every variable has its type: fd_max and the index of ctrl_thread()'s loop stay
\* within the table, and only clients and the FIFO are asked for requests.
ControlTypeOK ==
    /\ layout \in Layouts
    /\ fds \in [Slots -> Clients \cup {FIFO, INET, None}]
    /\ listening \in BOOLEAN
    /\ fd_max \in 1..CTRL_MAX
    /\ step \in {"poll", "loop", "done"}
    /\ ready \subseteq Clients \cup {FIFO}
    /\ idx \in 0..CTRL_MAX
    /\ backlog \in Seq(Clients)
    /\ open \subseteq Clients /\ gone \subseteq Clients
    /\ data \subseteq Clients \cup {FIFO}
    /\ terminate \in BOOLEAN
    /\ main \in {"starting", "serving", "joining", "exited"}

\* Through all accepts and removals, in the middle of the loop over it too, the
\* table holds the FIFO, the control socket and every accepted client, each of
\* them once and at its beginning, and the rest of it is clear: no connection is
\* lost and none is polled after it was closed.
TableSound ==
    /\ {fds[k] : k \in {j \in Slots : j < fd_max}} = Fixed \cup open
    /\ \A j, k \in Slots : j < fd_max /\ k < fd_max /\ fds[j] = fds[k] => j = k
    /\ \A k \in Slots : k >= fd_max => fds[k] = None

\* The control socket is polled exactly when the table has room, so that the
\* assertion of ctrl_add_client() holds and a full table does not stay closed
\* when a client has left.
ListensIfRoom == HasInet => (listening <=> fd_max < CTRL_MAX)

\* A request is read although new clients always go first and a removal moves
\* the last descriptor to a place that the loop has passed: unless glbd is told
\* to terminate, or connections fail again and again (each that is reset ends the
\* loop before those behind it).
RequestServed ==
    \/ []<><<AcceptFails \/ \E k \in Slots : Reset(k)>>_controlVars
    \/ \A c \in Clients :
        c \in open \cap data ~> c \notin open \cap data \/ terminate

\* When it is told to terminate glbd exits, at whatever point of its start or of
\* the work of the control thread this happens.
Stops == terminate ~> main = "exited"

\* "Failed to create connection listener. Exiting."
FailedStartExits == main = "joining" ~> main = "exited"
=============================================================================
