------------------------------ MODULE WsClient ------------------------------
(***************************************************************************)
(* The WebSocket client of the LeoMoe API (wshandle/client.go): one        *)
(* WsConn from its construction to the return of Close.                    *)
(*                                                                         *)
(* Goroutines: keepAlive, which redials when the connection is down; the   *)
(* dialer a connection created asynchronously starts with; a receiver per  *)
(* connection established; the sender and the writer; and whoever calls    *)
(* Close.  They share the flags Connected and Connecting, the connection   *)
(* and the Done channel, each access under stateMu: a step is one such     *)
(* access, with the reads that lead to it.  Fetching the address and the   *)
(* token are part of dialing: they fail, or the dial goes on.              *)
(*                                                                         *)
(* Messages are counted, not told apart.  A connection is a number, 0 is   *)
(* nil; the Done channel made for connection n is n too.                   *)
(***************************************************************************)
EXTENDS Integers, FiniteSets

CONSTANTS
  MaxConns,    \* bound of the model: connections the server accepts
  QueueCap,    \* capacity of MsgSendCh, MsgReceiveCh and writeCh
  Breaks,      \* what the network may take from a connection: "read", "write"
  MayClose,    \* can somebody call Close?
  MayCancel    \* can baseCtx be cancelled?

ASSUME WsClientAssumption ==
  /\ MaxConns \in Nat \ {0}
  /\ QueueCap \in Nat \ {0}
  /\ Breaks \subseteq {"read", "write"}
  /\ {MayClose, MayCancel} \subseteq BOOLEAN

Conns == 1 .. MaxConns
Ops   == {"read", "write"}

\* keepAlive, and the goroutine reconnectNow starts.
Dialers == {"keep", "boot"}

VARIABLES
  st,          \* Connected, Connecting, Conn and Done
  dials,       \* connections made so far
  open,        \* connections not closed by this side
  lost,        \* connections on which reads, or writes, fail
  dialer,      \* where each dialer is, and the connection it has made
  receivers,   \* the goroutines of messageReceiveHandler
  sender,      \* messageSendHandler, and the Done channel it watches
  writer,      \* writeLoop, and the connection it writes to
  queue,       \* messages in writeCh and MsgReceiveCh
  doneClosed,  \* Done channels that are closed
  closing,     \* how far Close has come
  canceled     \* baseCtx is cancelled; forgotten when closeCh is closed, as whoever
               \* looks at the one looks at the other

vars == <<st, dials, open, lost, dialer, receivers, sender, writer, queue,
          doneClosed, closing, canceled>>

Receiver(n, pc) == [id |-> n, pc |-> pc, done |-> 0, conn |-> 0]

\* The three constructors: createWsConn with and without success, and
\* createWsConnAsync, whose first dial is still to be started.
Init ==
  \E how \in {"up", "down", "async"} :
    LET n == IF how = "up" THEN 1 ELSE 0
    IN  /\ st = [connected |-> how = "up", connecting |-> FALSE, conn |-> n, done |-> n]
        /\ dials = n
        /\ open = 1 .. n
        /\ lost = [op \in Ops |-> {}]
        /\ dialer = [r \in Dialers |->
             [pc |-> IF r = "keep" THEN "idle" ELSE IF how = "async" THEN "new" ELSE "gone",
              conn |-> 0]]
        /\ receivers = {Receiver(k, "start") : k \in 1 .. n}
        /\ sender = [pc |-> "idle", done |-> n]
        /\ writer = [pc |-> "idle", conn |-> 0]
        /\ queue = [write |-> 0, recv |-> 0]
        /\ doneClosed = {}
        /\ closing = "open"
        /\ canceled = FALSE

\* closeCh and writeStop are closed.
Closed == closing \in {"signalled", "closingConn", "waiting", "over"}

-----------------------------------------------------------------------------
(* Reconnecting.                                                           *)

\* conn.Close() of the connections in S.
Shut(S) ==
  /\ open' = open \ S
  /\ lost' = [op \in Ops |-> lost[op] \ S]

Down == [st EXCEPT !.connected = FALSE, !.connecting = FALSE]

At(r, pc) == dialer[r].pc = pc

Go(r, pc) == dialer' = [dialer EXCEPT ![r].pc = pc]

\* The end of recreateWsConn: keepAlive goes on, the other dialer is done.
Back(r) ==
  dialer' = [dialer EXCEPT ![r] = [pc |-> IF r = "keep" THEN "idle" ELSE "gone", conn |-> 0]]

\* Mutant: a dial under way is not looked at.
StartReconnecting_NoGuard(r) ==
  /\ At(r, "idle") \/ At(r, "new")
  /\ ~ Closed /\ ~ canceled
  /\ ~ st.connected
  /\ st' = [st EXCEPT !.connecting = TRUE]
  /\ Go(r, IF r = "keep" THEN "begin" ELSE "granted")
  /\ UNCHANGED <<dials, open, lost, receivers, sender, writer, queue, doneClosed,
                 closing, canceled>>

\* startReconnecting, called by keepAlive's ticker or by reconnectNow.
StartReconnecting(r) ==
  /\ At(r, "idle") \/ At(r, "new")
  /\ ~ Closed /\ ~ canceled
  /\ ~ st.connected /\ ~ st.connecting
  /\ st' = [st EXCEPT !.connecting = TRUE]
  /\ Go(r, IF r = "keep" THEN "begin" ELSE "granted")
  /\ UNCHANGED <<dials, open, lost, receivers, sender, writer, queue, doneClosed,
                 closing, canceled>>

\* reconnectNow finds nothing to do: closed, cancelled or already dialing.
BootRefused ==
  /\ At("boot", "new")
  /\ Closed \/ canceled \/ st.connected \/ st.connecting
  /\ st' = IF canceled /\ ~ Closed THEN Down ELSE st
  /\ Go("boot", "gone")
  /\ UNCHANGED <<dials, open, lost, receivers, sender, writer, queue, doneClosed,
                 closing, canceled>>

\* startLoop: only now does Close wait for this goroutine.
BootStarts ==
  /\ At("boot", "granted")
  /\ Go("boot", "begin")
  /\ UNCHANGED <<st, dials, open, lost, receivers, sender, writer, queue, doneClosed,
                 closing, canceled>>

\* recreateWsConn up to its first request.
BeginDial(r) ==
  /\ At(r, "begin")
  /\ IF Closed
     THEN Back(r) /\ UNCHANGED st
     ELSE IF canceled
     THEN Back(r) /\ st' = Down
     ELSE Go(r, "dialing") /\ st' = [st EXCEPT !.connected = FALSE]
  /\ UNCHANGED <<dials, open, lost, receivers, sender, writer, queue, doneClosed,
                 closing, canceled>>

\* The address, the token or the dial fails; a failed dial does not touch the
\* state of a closed client.
DialFails(r) ==
  /\ At(r, "dialing")
  /\ st' \in {Down} \cup (IF Closed THEN {st} ELSE {})
  /\ Back(r)
  /\ UNCHANGED <<dials, open, lost, receivers, sender, writer, queue, doneClosed,
                 closing, canceled>>

DialSucceeds(r) ==
  /\ At(r, "dialing")
  /\ dials < MaxConns
  /\ dials' = dials + 1
  /\ open' = open \cup {dials + 1}
  /\ dialer' = [dialer EXCEPT ![r] = [pc |-> "dialed", conn |-> dials + 1]]
  /\ UNCHANGED <<st, lost, receivers, sender, writer, queue, doneClosed,
                 closing, canceled>>

\* The last look at closeCh.
CheckDial(r) ==
  /\ At(r, "dialed")
  /\ IF Closed
     THEN Shut({dialer[r].conn}) /\ Back(r)
     ELSE Go(r, "install") /\ UNCHANGED <<open, lost>>
  /\ UNCHANGED <<st, dials, receivers, sender, writer, queue, doneClosed,
                 closing, canceled>>

ReplaceConn(r) ==
  /\ At(r, "install")
  /\ st' = [st EXCEPT !.conn = dialer[r].conn]
  /\ Shut({st.conn} \ {dialer[r].conn})
  /\ Go(r, "installed")
  /\ UNCHANGED <<dials, receivers, sender, writer, queue, doneClosed,
                 closing, canceled>>

SetUp(r) ==
  /\ At(r, "installed")
  /\ st' = [st EXCEPT !.connected = TRUE, !.connecting = FALSE]
  /\ Go(r, "up")
  /\ UNCHANGED <<dials, open, lost, receivers, sender, writer, queue, doneClosed,
                 closing, canceled>>

\* setDoneChan and the start of the connection's receiver.
StartReceiver(r) ==
  /\ At(r, "up")
  /\ st' = [st EXCEPT !.done = dialer[r].conn]
  /\ receivers' = receivers \cup {Receiver(dialer[r].conn, "start")}
  /\ Back(r)
  /\ UNCHANGED <<dials, open, lost, sender, writer, queue, doneClosed,
                 closing, canceled>>

\* keepAlive returns.
KeepGone ==
  /\ At("keep", "idle")
  /\ \/ Closed /\ st' \in {st, Down}
     \/ canceled /\ st' = Down
  /\ Go("keep", "gone")
  /\ UNCHANGED <<dials, open, lost, receivers, sender, writer, queue, doneClosed,
                 closing, canceled>>

-----------------------------------------------------------------------------
(* Sending.                                                                *)

\* enqueueWrite succeeds.
EnqueueWrite == closing = "open" /\ queue.write < QueueCap

\* The ping of keepAlive; a failure marks the connection as down.
Ping ==
  /\ At("keep", "idle")
  /\ st.connected
  /\ IF EnqueueWrite
     THEN queue' = [queue EXCEPT !.write = @ + 1] /\ UNCHANGED st
     ELSE st' = [st EXCEPT !.connected = FALSE] /\ UNCHANGED queue
  /\ UNCHANGED <<dials, open, lost, dialer, receivers, sender, writer, doneClosed,
                 closing, canceled>>

\* trySendReceiveMessage: the error message is dropped when there is no room.
TrySendReceive(q) == IF q.recv < QueueCap THEN [q EXCEPT !.recv = @ + 1] ELSE q

\* sendQueuedMessage, for a request that waits in MsgSendCh.
SendQueued ==
  /\ sender.pc = "idle"
  /\ IF ~ st.connected
     THEN queue' = TrySendReceive(queue) /\ UNCHANGED st
     ELSE IF EnqueueWrite
     THEN queue' = [queue EXCEPT !.write = @ + 1] /\ UNCHANGED st
     ELSE queue' = TrySendReceive(queue) /\ st' = [st EXCEPT !.connected = FALSE]
  /\ UNCHANGED <<dials, open, lost, dialer, receivers, sender, writer, doneClosed,
                 closing, canceled>>

\* The Done channel it watches is closed: wait for the next connection.
SenderSeesDone ==
  /\ sender.pc = "idle"
  /\ sender.done \in doneClosed
  /\ sender' = [sender EXCEPT !.pc = "waiting"]
  /\ UNCHANGED <<st, dials, open, lost, dialer, receivers, writer, queue, doneClosed,
                 closing, canceled>>

\* waitForNextDoneChan returns, or the loop finds a newer channel by itself.
SenderGoesOn ==
  /\ sender.pc \in {"idle", "waiting"}
  /\ st.done # sender.done
  /\ sender' = [pc |-> "idle", done |-> st.done]
  /\ UNCHANGED <<st, dials, open, lost, dialer, receivers, writer, queue, doneClosed,
                 closing, canceled>>

\* Ctrl-C: a close message is queued, and the handler leaves within a second.
SenderInterrupted ==
  /\ sender.pc = "idle"
  /\ queue' = IF EnqueueWrite THEN [queue EXCEPT !.write = @ + 1] ELSE queue
  /\ sender' = [pc |-> "gone", done |-> 0]
  /\ UNCHANGED <<st, dials, open, lost, dialer, receivers, writer, doneClosed,
                 closing, canceled>>

SenderGone ==
  /\ sender.pc \in {"idle", "waiting"}
  /\ Closed \/ canceled
  /\ sender' = [pc |-> "gone", done |-> 0]
  /\ UNCHANGED <<st, dials, open, lost, dialer, receivers, writer, queue, doneClosed,
                 closing, canceled>>

WriterTakes ==
  /\ writer.pc = "idle"
  /\ queue.write > 0
  /\ queue' = [queue EXCEPT !.write = @ - 1]
  /\ IF st.conn = 0
     THEN st' = [st EXCEPT !.connected = FALSE] /\ UNCHANGED writer
     ELSE writer' = [pc |-> "writing", conn |-> st.conn] /\ UNCHANGED st
  /\ UNCHANGED <<dials, open, lost, dialer, receivers, sender, doneClosed,
                 closing, canceled>>

\* WriteMessage returns, by its deadline at the latest.
WriterWrites ==
  /\ writer.pc = "writing"
  /\ writer' = [pc |-> "idle", conn |-> 0]
  /\ st' = IF writer.conn \in open \ lost["write"]
           THEN st ELSE [st EXCEPT !.connected = FALSE]
  /\ UNCHANGED <<dials, open, lost, dialer, receivers, sender, queue, doneClosed,
                 closing, canceled>>

WriterGone ==
  /\ writer.pc = "idle"
  /\ Closed
  /\ writer' = [writer EXCEPT !.pc = "gone"]
  /\ UNCHANGED <<st, dials, open, lost, dialer, receivers, sender, queue, doneClosed,
                 closing, canceled>>

-----------------------------------------------------------------------------
(* Receiving.                                                              *)

Replace(r, n) == receivers' = (receivers \ {r}) \cup {n}

ReceiverStarts(r) ==
  /\ r.pc = "start"
  /\ Replace(r, [r EXCEPT !.pc = "check", !.done = st.done])
  /\ UNCHANGED <<st, dials, open, lost, dialer, sender, writer, queue, doneClosed,
                 closing, canceled>>

\* The top of its loop: neither closeCh nor the context tells it to leave.
ReceiverPasses(r) ==
  /\ r.pc = "check"
  /\ ~ Closed /\ ~ canceled
  /\ Replace(r, [r EXCEPT !.pc = "passed"])
  /\ UNCHANGED <<st, dials, open, lost, dialer, sender, writer, queue, doneClosed,
                 closing, canceled>>

\* IsConnected; otherwise it sleeps, and looks at closeCh again.
ReceiverChecks(r) ==
  /\ r.pc = "passed"
  /\ Replace(r, [r EXCEPT !.pc = IF st.connected THEN "connected" ELSE "check"])
  /\ UNCHANGED <<st, dials, open, lost, dialer, sender, writer, queue, doneClosed,
                 closing, canceled>>

\* getConn: it reads from whatever the connection is now.
ReceiverTakesConn(r) ==
  /\ r.pc = "connected"
  /\ IF st.conn = 0
     THEN st' = [st EXCEPT !.connected = FALSE] /\ Replace(r, [r EXCEPT !.pc = "check"])
     ELSE Replace(r, [r EXCEPT !.pc = "read", !.conn = st.conn]) /\ UNCHANGED st
  /\ UNCHANGED <<dials, open, lost, dialer, sender, writer, queue, doneClosed,
                 closing, canceled>>

\* A message arrives; a pong is not delivered.
ReceiverReads(r) ==
  /\ r.pc = "read"
  /\ r.conn \in open \ lost["read"]
  /\ \E pc \in {"check", "deliver"} : Replace(r, [r EXCEPT !.pc = pc, !.conn = 0])
  /\ UNCHANGED <<st, dials, open, lost, dialer, sender, writer, queue, doneClosed,
                 closing, canceled>>

ReceiverDelivers(r) ==
  /\ r.pc = "deliver"
  /\ queue.recv < QueueCap
  /\ queue' = [queue EXCEPT !.recv = @ + 1]
  /\ Replace(r, [r EXCEPT !.pc = "check"])
  /\ UNCHANGED <<st, dials, open, lost, dialer, sender, writer, doneClosed,
                 closing, canceled>>

\* ReadMessage fails: the handler marks the connection as down and leaves.
ReceiverFails(r) ==
  /\ r.pc = "read"
  /\ r.conn \notin open \/ r.conn \in lost["read"]
  /\ st' = [st EXCEPT !.connected = FALSE]
  /\ receivers' = receivers \ {r}
  /\ doneClosed' = doneClosed \cup {r.done}
  /\ UNCHANGED <<dials, open, lost, dialer, sender, writer, queue,
                 closing, canceled>>

\* Mutant: a delivery waits for room only.
ReceiverGone_NotDelivering(r) ==
  /\ r.pc = "check" /\ (Closed \/ canceled)
  /\ receivers' = receivers \ {r}
  /\ doneClosed' = doneClosed \cup {r.done}
  /\ UNCHANGED <<st, dials, open, lost, dialer, sender, writer, queue,
                 closing, canceled>>

\* It leaves because the client is closed; a delivery watches closeCh only.
ReceiverGone(r) ==
  /\ \/ r.pc = "check" /\ (Closed \/ canceled)
     \/ r.pc = "deliver" /\ Closed
  /\ receivers' = receivers \ {r}
  /\ doneClosed' = doneClosed \cup {r.done}
  /\ UNCHANGED <<st, dials, open, lost, dialer, sender, writer, queue,
                 closing, canceled>>

-----------------------------------------------------------------------------
(* Close, step by step.                                                    *)

\* The body of closeOnce starts, called by a user of the client, by
\* replaceGlobalWsConn or by the watcher of the context.
CloseFlag ==
  /\ MayClose \/ canceled
  /\ closing = "open"
  /\ closing' = "flagged"
  /\ UNCHANGED <<st, dials, open, lost, dialer, receivers, sender, writer, queue,
                 doneClosed, canceled>>

CloseState ==
  /\ closing = "flagged"
  /\ closing' = "down"
  /\ st' = Down
  /\ UNCHANGED <<dials, open, lost, dialer, receivers, sender, writer, queue,
                 doneClosed, canceled>>

CloseSignals ==
  /\ closing = "down"
  /\ closing' = "signalled"
  /\ doneClosed' = doneClosed \cup {st.done}
  /\ canceled' = FALSE
  /\ UNCHANGED <<st, dials, open, lost, dialer, receivers, sender, writer, queue>>

\* closeConn: the connection it finds is closed ...
CloseConn ==
  /\ closing = "signalled"
  /\ closing' = IF st.conn = 0 THEN "waiting" ELSE "closingConn"
  /\ Shut({st.conn})
  /\ UNCHANGED <<st, dials, dialer, receivers, sender, writer, queue,
                 doneClosed, canceled>>

\* ... and then the field is cleared, whatever it holds by then.
CloseClears ==
  /\ closing = "closingConn"
  /\ closing' = "waiting"
  /\ st' = [st EXCEPT !.conn = 0]
  /\ UNCHANGED <<dials, open, lost, dialer, receivers, sender, writer, queue,
                 doneClosed, canceled>>

\* The goroutines started with startLoop are over, the receivers apart ...
OthersGone ==
  /\ At("keep", "gone")
  /\ dialer["boot"].pc \in {"new", "granted", "gone"}
  /\ sender.pc = "gone"
  /\ writer.pc = "gone"

\* ... and these too.
LoopsGone == OthersGone /\ receivers = {}

\* Mutant: MsgReceiveCh is closed without waiting for the loops.
CloseOver_NoWait ==
  /\ closing = "waiting"
  /\ closing' = "over"
  /\ UNCHANGED <<st, dials, open, lost, dialer, receivers, sender, writer, queue,
                 doneClosed, canceled>>

\* loopWG.Wait() returns and MsgReceiveCh is closed.
CloseOver ==
  /\ closing = "waiting"
  /\ LoopsGone
  /\ closing' = "over"
  /\ UNCHANGED <<st, dials, open, lost, dialer, receivers, sender, writer, queue,
                 doneClosed, canceled>>

-----------------------------------------------------------------------------
(* The environment.                                                        *)

Cancel ==
  /\ MayCancel
  /\ ~ canceled /\ ~ Closed
  /\ canceled' = TRUE
  /\ UNCHANGED <<st, dials, open, lost, dialer, receivers, sender, writer, queue,
                 doneClosed, closing>>

\* The network takes one direction of a connection away.
Break(c, op) ==
  /\ c \in open \ lost[op]
  /\ lost' = [lost EXCEPT ![op] = @ \cup {c}]
  /\ UNCHANGED <<st, dials, open, dialer, receivers, sender, writer, queue,
                 doneClosed, closing, canceled>>

\* A lookup takes an answer.
Consume ==
  /\ queue.recv > 0
  /\ queue' = [queue EXCEPT !.recv = @ - 1]
  /\ UNCHANGED <<st, dials, open, lost, dialer, receivers, sender, writer,
                 doneClosed, closing, canceled>>

DialerStep(r) ==
  \/ StartReconnecting(r)
  \/ BeginDial(r)
  \/ DialFails(r)
  \/ DialSucceeds(r)
  \/ CheckDial(r)
  \/ ReplaceConn(r)
  \/ SetUp(r)
  \/ StartReceiver(r)

CloseStep == CloseState \/ CloseSignals \/ CloseConn \/ CloseClears \/ CloseOver

Next ==
  \/ \E r \in Dialers : DialerStep(r)
  \/ BootRefused
  \/ BootStarts
  \/ KeepGone
  \/ Ping
  \/ SendQueued
  \/ SenderSeesDone
  \/ SenderGoesOn
  \/ SenderInterrupted
  \/ SenderGone
  \/ WriterTakes
  \/ WriterWrites
  \/ WriterGone
  \/ \E r \in receivers : ReceiverStarts(r)
  \/ \E r \in receivers : ReceiverPasses(r)
  \/ \E r \in receivers : ReceiverChecks(r)
  \/ \E r \in receivers : ReceiverTakesConn(r)
  \/ \E r \in receivers : ReceiverReads(r)
  \/ \E r \in receivers : ReceiverDelivers(r)
  \/ \E r \in receivers : ReceiverFails(r)
  \/ \E r \in receivers : ReceiverGone(r)
  \/ CloseFlag
  \/ CloseStep
  \/ Cancel
  \/ \E c \in Conns, op \in Breaks : Break(c, op)
  \/ Consume

Spec == Init /\ [][Next]_vars

\* What happens without the help of the server or of a caller: dialing and writing
\* have deadlines, a cancelled context reaches its watcher, and every goroutine
\* that can go on does.  Reading has no deadline: a message need never come.
Driven ==
  \/ \E r \in Dialers : DialerStep(r)
  \/ BootRefused \/ BootStarts \/ KeepGone
  \/ SenderGone \/ WriterWrites \/ WriterGone
  \/ \E r \in receivers :
       \/ ReceiverStarts(r) \/ ReceiverPasses(r) \/ ReceiverChecks(r)
       \/ ReceiverTakesConn(r) \/ ReceiverFails(r) \/ ReceiverGone(r)
  \/ CloseStep
  \/ canceled /\ CloseFlag

-----------------------------------------------------------------------------
(* Properties.                                                             *)

Open == closing = "open" /\ ~ canceled

ReceiverPCs == {"start", "check", "passed", "connected", "read", "deliver"}

\* Every variable has its type and no queue exceeds its capacity.
TypeOK ==
  /\ st \in [connected : BOOLEAN, connecting : BOOLEAN,
             conn : 0 .. MaxConns, done : 0 .. MaxConns]
  /\ dials \in 0 .. MaxConns
  /\ open \subseteq Conns
  /\ lost \in [Ops -> SUBSET Conns]
  /\ dialer \in [Dialers -> [pc : {"new", "granted", "idle", "begin", "dialing", "dialed",
                                   "install", "installed", "up", "gone"},
                             conn : 0 .. MaxConns]]
  /\ receivers \subseteq [id : Conns, pc : ReceiverPCs,
                          done : 0 .. MaxConns, conn : 0 .. MaxConns]
  /\ sender \in [pc : {"idle", "waiting", "gone"}, done : 0 .. MaxConns]
  /\ writer \in [pc : {"idle", "writing", "gone"}, conn : 0 .. MaxConns]
  /\ queue \in [write : 0 .. QueueCap, recv : 0 .. QueueCap]
  /\ doneClosed \subseteq 0 .. MaxConns
  /\ closing \in {"open", "flagged", "down", "signalled", "closingConn", "waiting", "over"}
  /\ canceled \in BOOLEAN

Busy(r) == dialer[r].pc \notin {"new", "idle", "gone", "up"}

\* While the client is open, Connecting is set exactly while a dialer is at
\* work, and there is one at most: a flag left behind would end all
\* reconnecting, a missing one would let two dials race.
ConnectingHasDialer ==
  Open => /\ Cardinality({r \in Dialers : Busy(r)}) <= 1
          /\ st.connecting <=> \E r \in Dialers : Busy(r)

\* An open client keeps one connection: every other one it made is closed,
\* but for the one its dialer is about to install.
NoConnectionLeak ==
  Open => open \subseteq {st.conn} \cup {dialer[r].conn : r \in Dialers}

\* The state of an open client accounts for its dialer and its connections.
ConnectionsAccounted == ConnectingHasDialer /\ NoConnectionLeak

\* When MsgReceiveCh is closed nobody is left to send on it: neither a
\* receiver nor the sender's error messages can panic, and the dialer of
\* reconnectNow, which Close may not wait for, starts no receiver any more.
NoSendOnClosed ==
  closing = "over" =>
    /\ receivers = {}
    /\ sender.pc = "gone"
    /\ dialer["boot"].pc \in {"new", "granted", "begin", "gone"}

\* Close has begun, or is about to as the context is cancelled, and is not over.
Ending == closing \notin {"open", "over"} \/ (canceled /\ closing = "open")

\* Close waits for the outside in one case only: a dialer past its last look at
\* closeCh has installed its connection behind closeConn, and receivers past theirs
\* read from it (messageReceiveHandler, recreateWsConn).  Every other loop is gone
\* by then, and no receiver is anywhere else, whatever the server does.  The case is
\* real: without it (that is, with Ending => ENABLED Driven) TLC finds a Close that hangs.
CloseWaitsForLateReadersOnly ==
  Ending /\ ~ ENABLED Driven =>
    /\ closing = "waiting" /\ OthersGone
    /\ \A r \in receivers : r.pc = "read" /\ open = {r.conn}
=============================================================================
