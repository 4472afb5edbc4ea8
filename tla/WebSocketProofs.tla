-------------------------- MODULE WebSocketProofs --------------------------
(***************************************************************************)
(* Proofs about the two ends of a WebSocket: the client of the LeoMoe API  *)
(* (WsClient) and a session of the web server (WsSession).                 *)
(***************************************************************************)
EXTENDS WsClient, WsSession, FiniteSetTheorems, SequenceTheorems, TLAPS

(***************************************************************************)
(* Proofs about WsClient, for any number of connections and any capacity   *)
(* of the queues.                                                          *)
(*                                                                         *)
(* The argument.  An open client has one dialer at work at most, because   *)
(* the step that starts one finds Connecting unset and sets it; a dialer   *)
(* that has installed its connection holds either the client's own or one  *)
(* that was closed when it was replaced.  A client that is being closed    *)
(* never opens again, so nothing has to be known of the races after that   *)
(* but that the loops are gone when Close returns.                         *)
(***************************************************************************)

Holding == {"dialed", "install", "installed", "up"}

\* Connections are numbered as they are made; a dialer holds one from its dial on.
DialInv ==
  /\ open \subseteq 1 .. dials
  /\ \A r \in Dialers :
       /\ dialer[r].conn <= dials
       /\ dialer[r].conn # 0 <=> dialer[r].pc \in Holding

\* A connection once installed is the client's, or was replaced and closed.
InstalledInv ==
  Open => \A r \in Dialers :
            dialer[r].pc \in {"installed", "up"} =>
              dialer[r].conn = st.conn \/ dialer[r].conn \notin open

\* One dialer at most is at work, and Connecting says so.
BusyInv ==
  Open => /\ \A r, s \in Dialers : Busy(r) /\ Busy(s) => r = s
          /\ st.connecting <=> \E r \in Dialers : Busy(r)

OverInv ==
  closing = "over" =>
    /\ dialer["keep"].pc = "gone"
    /\ dialer["boot"].pc \in {"new", "granted", "begin", "gone"}
    /\ receivers = {} /\ sender.pc = "gone"

ClientInv ==
  /\ TypeOK
  /\ DialInv
  /\ InstalledInv
  /\ BusyInv
  /\ NoConnectionLeak
  /\ OverInv

(***************************************************************************)
(* Types                                                                   *)
(***************************************************************************)
PCs == {"new", "granted", "idle", "begin", "dialing", "dialed", "install", "installed", "up",
        "gone"}

\* A dialer that moves on keeps the connection it holds.
LEMMA GoDialer ==
  ASSUME TypeOK, NEW r \in Dialers, NEW pc \in PCs, Go(r, pc)
  PROVE  /\ dialer' \in [Dialers -> [pc : PCs, conn : 0 .. MaxConns]]
         /\ dialer'[r].pc = pc /\ dialer'[r].conn = dialer[r].conn
         /\ \A s \in Dialers : s # r => dialer'[s] = dialer[s]
<1>1. dialer \in [Dialers -> [pc : PCs, conn : 0 .. MaxConns]]
  BY DEF TypeOK, PCs
<1> QED
  BY <1>1 DEF Go

\* A dialer that is done holds nothing.
LEMMA BackDialer ==
  ASSUME TypeOK, NEW r \in Dialers, Back(r)
  PROVE  /\ dialer' \in [Dialers -> [pc : PCs, conn : 0 .. MaxConns]]
         /\ dialer'[r].pc \in {"idle", "gone"} /\ dialer'[r].conn = 0
         /\ dialer'[r].pc = "idle" => r = "keep"
         /\ \A s \in Dialers : s # r => dialer'[s] = dialer[s]
<1>1. dialer \in [Dialers -> [pc : PCs, conn : 0 .. MaxConns]]
  BY DEF TypeOK, PCs
<1>2. 0 \in 0 .. MaxConns
  BY WsClientAssumption
<1> QED
  BY <1>1, <1>2 DEF Back, PCs

\* What changes of the flags keeps their type.
LEMMA DownType ==
  ASSUME TypeOK
  PROVE  /\ Down \in [connected : BOOLEAN, connecting : BOOLEAN,
                      conn : 0 .. MaxConns, done : 0 .. MaxConns]
         /\ Down.conn = st.conn /\ Down.done = st.done /\ ~ Down.connecting /\ ~ Down.connected
         /\ [st EXCEPT !.connected = FALSE] \in
                     [connected : BOOLEAN, connecting : BOOLEAN,
                      conn : 0 .. MaxConns, done : 0 .. MaxConns]
  BY DEF TypeOK, Down

LEMMA ShutType ==
  ASSUME TypeOK, NEW S, Shut(S)
  PROVE  open' \subseteq Conns /\ lost' \in [Ops -> SUBSET Conns]
  BY DEF TypeOK, Shut

(***************************************************************************)
(* Steps of everybody but the dialers and Close                            *)
(***************************************************************************)
\* Such a step touches neither dialers nor connections, and of the flags Connected
\* at most.
LEMMA TrafficKeeps ==
  ASSUME ClientInv, TypeOK', UNCHANGED <<dials, dialer, open>>,
         st'.conn = st.conn, st'.connecting = st.connecting,
         Open' => Open,
         closing' = "over" => closing = "over",
         receivers = {} => receivers' = {},
         sender.pc = "gone" => sender'.pc = "gone"
  PROVE  ClientInv'
<1> USE DEF ClientInv
<1>1. DialInv' /\ InstalledInv' /\ NoConnectionLeak'
  BY DEF DialInv, InstalledInv, NoConnectionLeak
<1>2. BusyInv'
  BY DEF BusyInv, Busy
<1>3. OverInv'
  BY DEF OverInv
<1> QED
  BY <1>1, <1>2, <1>3

\* Sending: the sender, the writer and keepAlive's ping.
LEMMA SendStep ==
  ASSUME ClientInv,
         \/ Ping \/ SendQueued \/ SenderSeesDone \/ SenderGoesOn \/ SenderInterrupted
         \/ SenderGone \/ WriterTakes \/ WriterWrites \/ WriterGone \/ Consume
  PROVE  ClientInv'
<1> USE DEF ClientInv
<1>1. /\ UNCHANGED <<dials, open, lost, dialer, receivers, doneClosed, closing, canceled>>
      /\ st' \in {st, [st EXCEPT !.connected = FALSE]}
      /\ sender.pc = "gone" => sender'.pc = "gone"
  BY DEF Ping, SendQueued, SenderSeesDone, SenderGoesOn, SenderInterrupted, SenderGone,
         WriterTakes, WriterWrites, WriterGone, Consume, TypeOK
<1>2. /\ st' \in [connected : BOOLEAN, connecting : BOOLEAN,
                  conn : 0 .. MaxConns, done : 0 .. MaxConns]
      /\ st'.conn = st.conn /\ st'.connecting = st.connecting
  BY <1>1, DownType DEF TypeOK
<1>3. queue' \in [write : 0 .. QueueCap, recv : 0 .. QueueCap]
  BY WsClientAssumption DEF Ping, SendQueued, SenderSeesDone, SenderGoesOn, SenderInterrupted,
         SenderGone, WriterTakes, WriterWrites, WriterGone, Consume, TypeOK, TrySendReceive,
         EnqueueWrite
<1>4. sender' \in [pc : {"idle", "waiting", "gone"}, done : 0 .. MaxConns]
  BY WsClientAssumption DEF Ping, SendQueued, SenderSeesDone, SenderGoesOn, SenderInterrupted,
         SenderGone, WriterTakes, WriterWrites, WriterGone, Consume, TypeOK
<1>5. writer' \in [pc : {"idle", "writing", "gone"}, conn : 0 .. MaxConns]
  BY WsClientAssumption DEF Ping, SendQueued, SenderSeesDone, SenderGoesOn, SenderInterrupted,
         SenderGone, WriterTakes, WriterWrites, WriterGone, Consume, TypeOK
<1>6. TypeOK'
  BY <1>1, <1>2, <1>3, <1>4, <1>5 DEF TypeOK
<1> QED
  BY <1>1, <1>2, <1>6, TrafficKeeps DEF Open

\* Receiving: nobody but a dialer starts a receiver.
LEMMA ReceiveStep ==
  ASSUME ClientInv, NEW r \in receivers,
         \/ ReceiverStarts(r) \/ ReceiverPasses(r) \/ ReceiverChecks(r)
         \/ ReceiverTakesConn(r) \/ ReceiverReads(r) \/ ReceiverDelivers(r)
         \/ ReceiverFails(r) \/ ReceiverGone(r)
  PROVE  ClientInv'
<1> USE DEF ClientInv
<1> DEFINE R == [id : Conns, pc : ReceiverPCs,
                 done : 0 .. MaxConns, conn : 0 .. MaxConns]
<1>1. /\ UNCHANGED <<dials, open, lost, dialer, sender, writer, closing, canceled>>
      /\ st' \in {st, [st EXCEPT !.connected = FALSE]}
  BY DEF ReceiverStarts, ReceiverPasses, ReceiverChecks, ReceiverTakesConn, ReceiverReads,
         ReceiverDelivers, ReceiverFails, ReceiverGone
<1>2. /\ st' \in [connected : BOOLEAN, connecting : BOOLEAN,
                  conn : 0 .. MaxConns, done : 0 .. MaxConns]
      /\ st'.conn = st.conn /\ st'.connecting = st.connecting
  BY <1>1, DownType DEF TypeOK
<1>3. r \in R /\ receivers \subseteq R
  BY DEF TypeOK
<1>4. queue' \in [write : 0 .. QueueCap, recv : 0 .. QueueCap]
  BY WsClientAssumption DEF ReceiverStarts, ReceiverPasses, ReceiverChecks,
         ReceiverTakesConn, ReceiverReads, ReceiverDelivers, ReceiverFails, ReceiverGone, TypeOK
<1>5. receivers' \subseteq R
  <2>0. st.done \in 0 .. MaxConns /\ st.conn \in 0 .. MaxConns /\ 0 \in 0 .. MaxConns
    BY WsClientAssumption DEF TypeOK
  <2>1. /\ [r EXCEPT !.pc = "check", !.done = st.done] \in R
        /\ [r EXCEPT !.pc = "read", !.conn = st.conn] \in R
        /\ \A pc \in {"check", "deliver"} : [r EXCEPT !.pc = pc, !.conn = 0] \in R
        /\ \A pc \in ReceiverPCs : [r EXCEPT !.pc = pc] \in R
    BY <1>3, <2>0 DEF ReceiverPCs
  <2>2. PICK n \in R : receivers' \subseteq (receivers \ {r}) \cup {n}
    <3>1. CASE ReceiverPasses(r) \/ ReceiverChecks(r) \/ ReceiverDelivers(r)
      BY <2>1, <3>1 DEF ReceiverPasses, ReceiverChecks, ReceiverDelivers, Replace, ReceiverPCs
    <3>2. CASE ReceiverStarts(r) \/ ReceiverReads(r)
      BY <2>1, <3>2 DEF ReceiverStarts, ReceiverReads, Replace
    <3>3. CASE ReceiverTakesConn(r)
      <4>1. \/ Replace(r, [r EXCEPT !.pc = "check"])
            \/ Replace(r, [r EXCEPT !.pc = "read", !.conn = st.conn])
        BY <3>3 DEF ReceiverTakesConn
      <4>2. "check" \in ReceiverPCs
        BY DEF ReceiverPCs
      <4> QED
        BY <2>1, <4>1, <4>2 DEF Replace
    <3>4. CASE ReceiverFails(r) \/ ReceiverGone(r)
      BY <1>3, <3>4 DEF ReceiverFails, ReceiverGone
    <3> QED
      BY <3>1, <3>2, <3>3, <3>4
  <2> QED
    BY <1>3, <2>2
<1>6. doneClosed' \subseteq 0 .. MaxConns
  BY <1>3 DEF ReceiverStarts, ReceiverPasses, ReceiverChecks, ReceiverTakesConn, ReceiverReads,
         ReceiverDelivers, ReceiverFails, ReceiverGone, TypeOK
<1>7. TypeOK'
  BY <1>1, <1>2, <1>4, <1>5, <1>6 DEF TypeOK
<1> QED
  BY <1>1, <1>2, <1>7, TrafficKeeps DEF Open

\* Somebody begins to close the client, or the world interferes.
LEMMA OutsideStep ==
  ASSUME ClientInv,
         \/ CloseFlag \/ Cancel
         \/ \E c \in Conns, op \in Breaks : Break(c, op)
         \/ UNCHANGED vars
  PROVE  ClientInv'
<1> USE DEF ClientInv, vars
<1>1. /\ UNCHANGED <<st, dials, open, dialer, receivers, sender, writer, queue, doneClosed>>
      /\ closing' \in {closing, "flagged"} /\ canceled' \in BOOLEAN /\ (Open' => Open)
  BY DEF CloseFlag, Cancel, Break, Open, TypeOK
<1>2. lost' \in [Ops -> SUBSET Conns]
  BY WsClientAssumption DEF CloseFlag, Cancel, Break, TypeOK, Ops
<1>3. TypeOK'
  BY <1>1, <1>2 DEF TypeOK
<1> QED
  BY <1>1, <1>3, TrafficKeeps

(***************************************************************************)
(* Steps of the dialers                                                    *)
(***************************************************************************)
\* A dialer is granted its dial, or refused; startLoop.
LEMMA GrantStep ==
  ASSUME ClientInv,
         \/ \E r \in Dialers : StartReconnecting(r)
         \/ BootRefused \/ BootStarts \/ KeepGone
  PROVE  ClientInv'
<1> USE DEF ClientInv, At
<1>1. UNCHANGED <<dials, open, lost, receivers, sender, writer, queue, doneClosed, closing,
                  canceled>>
  BY DEF StartReconnecting, BootRefused, BootStarts, KeepGone
<1> DEFINE Grant(r, to) ==
        /\ Go(r, to)
        /\ dialer[r].pc \notin Holding
        /\ to = "begin" => ~ Closed \/ (r = "boot" /\ dialer[r].pc = "granted")
        /\ to = "granted" => ~ Closed
        /\ to \in {"begin", "granted"} =>
             \/ dialer[r].pc = "granted" /\ UNCHANGED st
             \/ ~ Busy(r) /\ ~ st.connecting /\ st' = [st EXCEPT !.connecting = TRUE]
        /\ to = "gone" => ~ Busy(r) /\ (st' = st \/ (st' = Down /\ ~ Open))
<1>2. PICK r \in Dialers, to \in {"begin", "granted", "gone"} : Grant(r, to)
  <2>1. ASSUME NEW r \in Dialers, StartReconnecting(r)
        PROVE  Grant(r, IF r = "keep" THEN "begin" ELSE "granted")
    BY <2>1 DEF StartReconnecting, Busy, Holding, Dialers
  <2>2. BootRefused => Grant("boot", "gone")
    BY DEF BootRefused, Busy, Holding, Open
  <2>3. BootStarts => Grant("boot", "begin")
    BY DEF BootStarts, Busy, Holding
  <2>4. KeepGone => Grant("keep", "gone")
    BY DEF KeepGone, Busy, Holding, Open, Closed
  <2> HIDE DEF Grant
  <2> QED
    BY <2>1, <2>2, <2>3, <2>4 DEF Dialers
<1>3. /\ dialer' \in [Dialers -> [pc : PCs, conn : 0 .. MaxConns]]
      /\ dialer'[r].pc = to /\ dialer'[r].conn = dialer[r].conn
      /\ \A s \in Dialers : s # r => dialer'[s] = dialer[s]
  BY <1>2, GoDialer DEF PCs
<1>4. /\ st' \in [connected : BOOLEAN, connecting : BOOLEAN,
                  conn : 0 .. MaxConns, done : 0 .. MaxConns]
      /\ st'.conn = st.conn
      /\ Open /\ to = "gone" => st'.connecting = st.connecting
      /\ Open /\ to \in {"begin", "granted"} => st'.connecting
  BY <1>2, DownType DEF TypeOK, BusyInv, Busy
<1>5. TypeOK'
  BY <1>1, <1>3, <1>4 DEF TypeOK, PCs
<1>6. DialInv' /\ InstalledInv'
  BY <1>1, <1>2, <1>3, <1>4 DEF DialInv, InstalledInv, Open, Holding
<1>7. BusyInv'
  <2> SUFFICES ASSUME Open' PROVE BusyInv'
    BY DEF BusyInv
  <2>1. Open
    BY <1>1 DEF Open
  <2>2. \A s \in Dialers : s # r => (Busy(s)' <=> Busy(s))
    BY <1>3 DEF Busy
  <2>3. Busy(r)' <=> to \in {"begin", "granted"}
    BY <1>2, <1>3 DEF Busy
  <2> QED
    BY <1>2, <1>4, <2>1, <2>2, <2>3 DEF BusyInv, Busy
<1>8. NoConnectionLeak'
  <2>1. \A s \in Dialers : dialer'[s].conn = dialer[s].conn
    BY <1>3
  <2> QED
    BY <1>1, <1>4, <2>1 DEF NoConnectionLeak, Open
<1>9. OverInv'
  BY <1>1, <1>2, <1>3 DEF OverInv, Dialers, Closed
<1> QED
  BY <1>5, <1>6, <1>7, <1>8, <1>9

\* A dial ends without a connection, or with one that is not wanted any more.
LEMMA DialEnds ==
  ASSUME ClientInv, NEW r \in Dialers, Back(r),
         \/ BeginDial(r) \/ DialFails(r) \/ CheckDial(r)
  PROVE  ClientInv'
<1> USE DEF ClientInv, At
<1>1. /\ dialer' \in [Dialers -> [pc : PCs, conn : 0 .. MaxConns]]
      /\ dialer'[r].pc \in {"idle", "gone"} /\ dialer'[r].conn = 0
      /\ dialer'[r].pc = "idle" => r = "keep"
      /\ \A s \in Dialers : s # r => dialer'[s] = dialer[s]
  BY BackDialer
<1>2. /\ UNCHANGED <<dials, receivers, sender, writer, queue, doneClosed, closing, canceled>>
      /\ dialer[r].pc \in {"begin", "dialing", "dialed"}
      /\ dialer[r].pc = "dialing" \/ ~ Open
      /\ st' = st \/ st' = Down
      /\ st' = Down \/ ~ Open
      /\ open' \subseteq open
  BY <1>1 DEF BeginDial, DialFails, CheckDial, Go, Shut, Open, Closed
<1>3. /\ st' \in [connected : BOOLEAN, connecting : BOOLEAN,
                  conn : 0 .. MaxConns, done : 0 .. MaxConns]
      /\ st'.conn = st.conn /\ (Open => ~ st'.connecting)
  BY <1>2, DownType DEF TypeOK
<1>4. TypeOK'
  <2>1. lost' \in [Ops -> SUBSET Conns]
    BY ShutType DEF BeginDial, DialFails, CheckDial, TypeOK
  <2> QED
    BY <1>1, <1>2, <1>3, <2>1 DEF TypeOK, PCs
<1>5. DialInv' /\ InstalledInv'
  BY <1>1, <1>2, <1>3, WsClientAssumption DEF DialInv, InstalledInv, Open, Holding, TypeOK
<1>6. BusyInv'
  <2> SUFFICES ASSUME Open' PROVE BusyInv'
    BY DEF BusyInv
  <2>1. Open /\ Busy(r) /\ ~ Busy(r)'
    BY <1>1, <1>2 DEF Open, Busy
  <2>2. \A s \in Dialers : s # r => (Busy(s)' <=> Busy(s))
    BY <1>1 DEF Busy
  <2> QED
    BY <1>3, <2>1, <2>2 DEF BusyInv
<1>7. NoConnectionLeak'
  <2> SUFFICES ASSUME Open', NEW c \in open'
               PROVE  c \in {st'.conn} \cup {dialer'[s].conn : s \in Dialers}
    BY DEF NoConnectionLeak
  <2>1. c \in open /\ Open /\ dialer[r].conn = 0 /\ c # 0
    BY <1>2 DEF Open, DialInv, Holding, TypeOK, Conns
  <2> QED
    BY <1>1, <1>3, <2>1 DEF NoConnectionLeak
<1>8. OverInv'
  BY <1>1, <1>2 DEF OverInv, Dialers
<1> QED
  BY <1>4, <1>5, <1>6, <1>7, <1>8

\* A dial goes on.  Only ReplaceConn touches what others hold: it closes the
\* connection the client had.
LEMMA DialGoesOn ==
  ASSUME ClientInv, NEW r \in Dialers, ~ Back(r),
         \/ BeginDial(r) \/ CheckDial(r) \/ ReplaceConn(r) \/ SetUp(r)
  PROVE  ClientInv'
<1> USE DEF ClientInv, At
<1>1. PICK to \in {"dialing", "install", "installed", "up"} :
        /\ Go(r, to)
        /\ to = "dialing" => dialer[r].pc = "begin" /\ ~ Closed
                             /\ st' = [st EXCEPT !.connected = FALSE]
        /\ to = "install" => dialer[r].pc = "dialed" /\ st' = st
        /\ to = "installed" => ReplaceConn(r)
        /\ to = "up" => SetUp(r)
        /\ to # "installed" => open' = open
  BY DEF BeginDial, CheckDial, ReplaceConn, SetUp
<1>2. /\ dialer' \in [Dialers -> [pc : PCs, conn : 0 .. MaxConns]]
      /\ dialer'[r].pc = to /\ dialer'[r].conn = dialer[r].conn
      /\ \A s \in Dialers : s # r => dialer'[s] = dialer[s]
  BY <1>1, GoDialer DEF PCs
<1>3. /\ UNCHANGED <<dials, receivers, sender, writer, queue, doneClosed, closing, canceled>>
      /\ dialer[r].pc \in {"begin", "dialed", "install", "installed"}
      /\ open' \subseteq open
  BY DEF BeginDial, CheckDial, ReplaceConn, SetUp, Shut
<1>4. /\ st' \in [connected : BOOLEAN, connecting : BOOLEAN,
                  conn : 0 .. MaxConns, done : 0 .. MaxConns]
      /\ to # "installed" => st'.conn = st.conn
      /\ to = "installed" => st'.conn = dialer[r].conn
      /\ to # "up" => st'.connecting = st.connecting
      /\ to = "up" => ~ st'.connecting
  BY <1>1, DownType DEF TypeOK, ReplaceConn, SetUp
<1>5. TypeOK'
  <2>1. lost' \in [Ops -> SUBSET Conns]
    BY ShutType DEF BeginDial, CheckDial, ReplaceConn, SetUp, TypeOK
  <2> QED
    BY <1>2, <1>3, <1>4, <2>1 DEF TypeOK, PCs
<1>6. DialInv'
  BY <1>1, <1>2, <1>3 DEF DialInv, Holding, ReplaceConn, SetUp
<1>7. InstalledInv'
  <2> SUFFICES ASSUME Open', NEW s \in Dialers, dialer'[s].pc \in {"installed", "up"}
               PROVE  dialer'[s].conn = st'.conn \/ dialer'[s].conn \notin open'
    BY DEF InstalledInv
  <2>1. Open
    BY <1>3 DEF Open
  <2>2. CASE s # r
    BY <1>1, <1>2, <1>3, <1>4, <2>1, <2>2 DEF InstalledInv, ReplaceConn, Shut
  <2>3. CASE s = r
    BY <1>1, <1>2, <1>3, <1>4, <2>1, <2>3 DEF InstalledInv, SetUp
  <2> QED
    BY <2>2, <2>3
<1>8. BusyInv'
  <2> SUFFICES ASSUME Open' PROVE BusyInv'
    BY DEF BusyInv
  <2>1. Open /\ Busy(r) /\ (Busy(r)' <=> to # "up")
    BY <1>1, <1>2, <1>3 DEF Open, Busy
  <2>2. \A s \in Dialers : s # r => (Busy(s)' <=> Busy(s))
    BY <1>2 DEF Busy
  <2> QED
    BY <1>4, <2>1, <2>2 DEF BusyInv
<1>9. NoConnectionLeak'
  <2> SUFFICES ASSUME Open', NEW c \in open'
               PROVE  c \in {st'.conn} \cup {dialer'[s].conn : s \in Dialers}
    BY DEF NoConnectionLeak
  <2>1. \A s \in Dialers : dialer'[s].conn = dialer[s].conn
    BY <1>2
  <2>2. c \in open /\ Open
    BY <1>3 DEF Open
  <2> QED
    BY <1>1, <1>4, <2>1, <2>2 DEF NoConnectionLeak, ReplaceConn, Shut
<1>10. OverInv'
  <2>1. CASE dialer[r].pc = "begin"
    <3>1. to = "dialing"
      BY <1>1, <2>1 DEF ReplaceConn, SetUp
    <3> QED
      BY <1>1, <1>3, <3>1 DEF OverInv, Closed
  <2>2. CASE dialer[r].pc # "begin"
    BY <1>3, <2>2 DEF OverInv, Dialers
  <2> QED
    BY <2>1, <2>2
<1> QED
  BY <1>5, <1>6, <1>7, <1>8, <1>9, <1>10

\* The server accepts: a new connection, held by the dialer alone.
LEMMA DialSucceedsStep ==
  ASSUME ClientInv, NEW r \in Dialers, DialSucceeds(r)
  PROVE  ClientInv'
<1> USE DEF ClientInv, At
<1>1. /\ UNCHANGED <<st, lost, receivers, sender, writer, queue, doneClosed, closing, canceled>>
      /\ dials \in Nat /\ dials' = dials + 1 /\ dials' \in 0 .. MaxConns
      /\ open' = open \cup {dials'} /\ dials' \in Conns
      /\ dialer[r].pc = "dialing"
  BY WsClientAssumption DEF DialSucceeds, TypeOK, Conns
<1>2. /\ dialer' \in [Dialers -> [pc : PCs, conn : 0 .. MaxConns]]
      /\ dialer'[r].pc = "dialed" /\ dialer'[r].conn = dials'
      /\ \A s \in Dialers : s # r => dialer'[s] = dialer[s]
  <2>1. dialer \in [Dialers -> [pc : PCs, conn : 0 .. MaxConns]]
    BY DEF TypeOK, PCs
  <2> QED
    BY <1>1, <2>1 DEF DialSucceeds, PCs
<1>3. TypeOK'
  BY <1>1, <1>2 DEF TypeOK, PCs
<1>4. DialInv'
  BY <1>1, <1>2 DEF DialInv, Holding, TypeOK
<1>5. InstalledInv'
  BY <1>1, <1>2 DEF InstalledInv, DialInv, Open, TypeOK
<1>6. BusyInv'
  BY <1>1, <1>2 DEF BusyInv, Busy, Open
<1>7. NoConnectionLeak'
  <2> SUFFICES ASSUME Open', NEW c \in open'
               PROVE  c \in {st'.conn} \cup {dialer'[s].conn : s \in Dialers}
    BY DEF NoConnectionLeak
  <2>1. CASE c = dials'
    BY <1>2, <2>1
  <2>2. CASE c \in open
    <3>1. Open /\ dialer[r].conn = 0 /\ c # 0
      BY <1>1, <2>2 DEF Open, DialInv, Holding, TypeOK, Conns
    <3> QED
      BY <1>1, <1>2, <2>2, <3>1 DEF NoConnectionLeak
  <2> QED
    BY <1>1, <2>1, <2>2
<1>8. OverInv'
  BY <1>1, <1>2 DEF OverInv, Dialers
<1> QED
  BY <1>3, <1>4, <1>5, <1>6, <1>7, <1>8

\* The connection has its receiver, and the dialer lets go of it.
LEMMA StartReceiverStep ==
  ASSUME ClientInv, NEW r \in Dialers, StartReceiver(r)
  PROVE  ClientInv'
<1> USE DEF ClientInv, At
<1>1. /\ UNCHANGED <<dials, open, lost, sender, writer, queue, doneClosed, closing, canceled>>
      /\ dialer[r].pc = "up" /\ dialer[r].conn \in Conns
      /\ Back(r)
  BY DEF StartReceiver, DialInv, Holding, TypeOK, Conns
<1>2. /\ dialer' \in [Dialers -> [pc : PCs, conn : 0 .. MaxConns]]
      /\ dialer'[r].pc \in {"idle", "gone"} /\ dialer'[r].conn = 0
      /\ \A s \in Dialers : s # r => dialer'[s] = dialer[s]
  BY <1>1, BackDialer
<1>3. /\ st' \in [connected : BOOLEAN, connecting : BOOLEAN,
                  conn : 0 .. MaxConns, done : 0 .. MaxConns]
      /\ st'.conn = st.conn /\ st'.connecting = st.connecting
  BY <1>1 DEF StartReceiver, TypeOK
<1>4. TypeOK'
  <2>1. Receiver(dialer[r].conn, "start") \in
          [id : Conns, pc : ReceiverPCs, done : 0 .. MaxConns, conn : 0 .. MaxConns]
    BY <1>1, WsClientAssumption DEF Receiver, ReceiverPCs
  <2>2. receivers' \subseteq [id : Conns, pc : ReceiverPCs,
                              done : 0 .. MaxConns, conn : 0 .. MaxConns]
    BY <2>1 DEF StartReceiver, TypeOK
  <2> QED
    BY <1>1, <1>2, <1>3, <2>2 DEF TypeOK, PCs
<1>5. DialInv' /\ InstalledInv'
  BY <1>1, <1>2, <1>3 DEF DialInv, InstalledInv, Open, Holding, TypeOK
<1>6. BusyInv'
  BY <1>1, <1>2, <1>3 DEF BusyInv, Busy, Open
<1>7. NoConnectionLeak'
  <2> SUFFICES ASSUME Open', NEW c \in open'
               PROVE  c \in {st'.conn} \cup {dialer'[s].conn : s \in Dialers}
    BY DEF NoConnectionLeak
  <2>1. c \in open /\ Open /\ (c = dialer[r].conn => c = st.conn)
    BY <1>1 DEF Open, InstalledInv
  <2> QED
    BY <1>2, <1>3, <2>1 DEF NoConnectionLeak
<1>8. OverInv'
  BY <1>1 DEF OverInv, Dialers
<1> QED
  BY <1>4, <1>5, <1>6, <1>7, <1>8

(***************************************************************************)
(* Close                                                                   *)
(***************************************************************************)
\* From its second step on the client is not open, and when it is over the loops
\* are gone.
LEMMA CloseSteps ==
  ASSUME ClientInv, CloseStep
  PROVE  ClientInv'
<1> USE DEF ClientInv
<1>1. /\ UNCHANGED <<dials, dialer, receivers, sender, writer, queue>>
      /\ closing' \in {"down", "signalled", "closingConn", "waiting", "over"}
      /\ ~ Open' /\ open' \subseteq open
      /\ closing' = "over" => LoopsGone
      /\ canceled' \in BOOLEAN
  BY DEF CloseStep, CloseState, CloseSignals, CloseConn, CloseClears, CloseOver, Open, Shut,
         TypeOK
<1>2. st' \in [connected : BOOLEAN, connecting : BOOLEAN,
               conn : 0 .. MaxConns, done : 0 .. MaxConns]
  BY DownType, WsClientAssumption DEF CloseStep, CloseState, CloseSignals, CloseConn,
         CloseClears, CloseOver, TypeOK
<1>3. lost' \in [Ops -> SUBSET Conns] /\ doneClosed' \subseteq 0 .. MaxConns
  BY ShutType DEF CloseStep, CloseState, CloseSignals, CloseConn, CloseClears, CloseOver, TypeOK
<1>4. TypeOK'
  BY <1>1, <1>2, <1>3 DEF TypeOK
<1>5. DialInv' /\ InstalledInv' /\ BusyInv' /\ NoConnectionLeak'
  BY <1>1 DEF DialInv, InstalledInv, BusyInv, NoConnectionLeak
<1>6. OverInv'
  BY <1>1 DEF OverInv, LoopsGone, OthersGone, At
<1> QED
  BY <1>4, <1>5, <1>6

(***************************************************************************)
(* The theorems                                                            *)
(***************************************************************************)
LEMMA ClientInitInv == Init => ClientInv
<1> SUFFICES ASSUME NEW how \in {"up", "down", "async"}, NEW n, n = IF how = "up" THEN 1 ELSE 0,
               st = [connected |-> how = "up", connecting |-> FALSE, conn |-> n, done |-> n],
               dials = n, open = 1 .. n, lost = [op \in Ops |-> {}],
               dialer = [r \in Dialers |->
                 [pc |-> IF r = "keep" THEN "idle" ELSE IF how = "async" THEN "new" ELSE "gone",
                  conn |-> 0]],
               receivers = {Receiver(k, "start") : k \in 1 .. n},
               sender = [pc |-> "idle", done |-> n], writer = [pc |-> "idle", conn |-> 0],
               queue = [write |-> 0, recv |-> 0], doneClosed = {}, closing = "open",
               canceled = FALSE
             PROVE  ClientInv
  BY DEF Init
<1>1. n \in 0 .. 1 /\ n \in 0 .. MaxConns /\ 0 \in 0 .. MaxConns /\ 0 \in 0 .. QueueCap
      /\ open \subseteq Conns
  BY WsClientAssumption DEF Conns
<1>2. receivers \subseteq [id : Conns, pc : ReceiverPCs,
                          done : 0 .. MaxConns, conn : 0 .. MaxConns]
  BY <1>1 DEF Receiver, ReceiverPCs
<1>3. \A r \in Dialers : dialer[r].conn = 0 /\ dialer[r].pc \in {"idle", "new", "gone"}
  OBVIOUS
<1>4. st \in [connected : BOOLEAN, connecting : BOOLEAN,
              conn : 0 .. MaxConns, done : 0 .. MaxConns] /\ ~ st.connecting /\ st.conn = n
  BY <1>1
<1>5. TypeOK
  BY <1>1, <1>2, <1>4 DEF TypeOK
<1>6. DialInv
  BY <1>1, <1>3 DEF DialInv, Holding
<1>7. InstalledInv /\ OverInv
  BY <1>3 DEF InstalledInv, OverInv
<1>8. BusyInv
  <2>1. \A r \in Dialers : ~ Busy(r)
    BY <1>3 DEF Busy
  <2> QED
    BY <1>4, <2>1 DEF BusyInv
<1>9. NoConnectionLeak
  BY <1>1, <1>4 DEF NoConnectionLeak
<1> QED
  BY <1>5, <1>6, <1>7, <1>8, <1>9 DEF ClientInv

LEMMA ClientStepInv == ClientInv /\ [Next]_vars => ClientInv'
<1> SUFFICES ASSUME ClientInv, [Next]_vars PROVE ClientInv'
  OBVIOUS
<1>1. ASSUME NEW r \in Dialers, DialerStep(r) PROVE ClientInv'
  <2>1. CASE StartReconnecting(r)
    BY <2>1, GrantStep
  <2>2. CASE BeginDial(r) \/ CheckDial(r)
    BY <2>2, DialEnds, DialGoesOn
  <2>3. CASE DialFails(r)
    <3>1. Back(r)
      BY <2>3 DEF DialFails
    <3> QED
      BY <2>3, <3>1, DialEnds
  <2>4. CASE ReplaceConn(r) \/ SetUp(r)
    <3>1. ~ Back(r)
      <4>1. dialer'[r].pc \in {"installed", "up"}
        BY <2>4, GoDialer DEF ReplaceConn, SetUp, ClientInv, PCs
      <4> QED
        BY <4>1, BackDialer DEF ClientInv
    <3> QED
      BY <2>4, <3>1, DialGoesOn
  <2> QED
    BY <1>1, <2>1, <2>2, <2>3, <2>4, DialSucceedsStep, StartReceiverStep DEF DialerStep
<1> QED
  BY <1>1, SendStep, ReceiveStep, OutsideStep, GrantStep, CloseSteps DEF Next

\* Counting the dialers at work.
LEMMA InvAccounted == ClientInv => ConnectionsAccounted
<1> SUFFICES ASSUME ClientInv, Open
             PROVE  Cardinality({r \in Dialers : Busy(r)}) <= 1
  BY DEF ClientInv, BusyInv, ConnectionsAccounted, ConnectingHasDialer, NoConnectionLeak
<1>1. CASE {r \in Dialers : Busy(r)} = {}
  BY <1>1, FS_EmptySet
<1>2. CASE {r \in Dialers : Busy(r)} # {}
  <2>1. PICK s \in Dialers : {r \in Dialers : Busy(r)} = {s}
    BY <1>2 DEF ClientInv, BusyInv
  <2>2. Cardinality({s}) = 1
    BY FS_Singleton, Zenon
  <2> QED
    BY <2>1, <2>2
<1> QED
  BY <1>1, <1>2

\* The client's state keeps its type and the queues their capacity.
THEOREM ClientTyped == Spec => []TypeOK
<1>1. ClientInv => TypeOK
  BY DEF ClientInv
<1> QED
  BY ClientInitInv, ClientStepInv, <1>1, PTL DEF Spec

\* While the client is open Connecting tells exactly whether one dialer is at work,
\* there is never a second, and no connection but the client's own and the dialer's
\* stays open (startReconnecting, recreateWsConn and replaceConn).
THEOREM ClientAccounted == Spec => []ConnectionsAccounted
  BY ClientInitInv, ClientStepInv, InvAccounted, PTL DEF Spec

\* Once Close has closed MsgReceiveCh nobody is left who could send on it, not even
\* the dialer Close may not wait for (Close, reconnectNow and recreateWsConn).
THEOREM ClientClosedSilent == Spec => []NoSendOnClosed
<1>1. ClientInv => NoSendOnClosed
  BY DEF ClientInv, OverInv, NoSendOnClosed
<1> QED
  BY ClientInitInv, ClientStepInv, <1>1, PTL DEF Spec

(***************************************************************************)
(* Proofs about WsSession: for every size of the queue and every number of *)
(* messages, a session that nobody broke off tells its client everything   *)
(* it accepted, and a handler that has returned leaves nothing behind.     *)
(*                                                                         *)
(* The argument.  A session is broken off once its client has gone, a      *)
(* close frame has a reason, or the writer or the handler has begun to     *)
(* close it.  Whatever makes the handler stop early (closed, ctxDone)      *)
(* implies that; and until it happens the messages accepted are those      *)
(* delivered, the one being written and those in the queue, in this order. *)
(***************************************************************************)

\* The handler is behind the swap of closed in finish.
Finished == hpc \in {"wait", "close", "deferred", "returned"}

Sending == hpc \in {"send", "enqueue", "slow"}

\* Where the handler, the writer and the reader can be at the same time.
PlacesInv ==
  /\ msg = "none" <=> ~ Sending
  /\ wpc = "none" => hpc \in {"prepare", "new", "deferred", "returned"} /\ ~ ref
  /\ hpc \in {"prepare", "new"} => wpc = "none"
  /\ hpc \in {"prepare", "new", "ref"} => ~ ref
  /\ hpc \notin {"prepare", "new", "ref"} /\ wpc # "none" => ref
  /\ hpc \in {"close", "deferred", "returned"} => wpc \in {"none", "ended"}
  /\ hpc = "close" => wpc # "none"
  /\ writing # "none" <=> wpc = "write"
  /\ cpc["handler"] # "idle" <=> hpc = "slow"
  /\ cpc["writer"] # "idle" <=> wpc = "fail"
  /\ cpc["reader"] # "idle" <=> rpc = "close"
  /\ rpc = "close" => ref
  /\ chClosed => Finished
  /\ hpc = "ref" => wpc = "select"
  /\ ~ ref => sendCh = << >> /\ ~ stopCh /\ closeOnce = "no"

\* The trace lock is held in the part of the handler that traces.
LockInv ==
  traceMu = "mine" =>
    \/ hpc = "setup"
    \/ mode = "single" /\ (hpc = "tracing" \/ (Sending /\ msg = "record"))

\* The body of closeOnce runs in one goroutine at most, and leaves a reason.
OnceInv ==
  /\ \A c \in Closers : cpc[c] \in {"stop", "control", "conn"} => closeOnce = "running"
  /\ \A c, d \in Closers :
       cpc[c] \in {"stop", "control", "conn"} /\ cpc[d] \in {"stop", "control", "conn"} => c = d
  /\ \A c \in Closers : cpc[c] = "conn" => code # "none"
  /\ \A c \in Closers : cpc[c] = "ret" => closeOnce = "done"
  /\ closeOnce = "done" => code # "none" \/ hpc \in {"deferred", "returned"}
  /\ stopCh => closeOnce = "running" \/ code # "none"
  /\ hpc \in {"deferred", "returned"} => closeOnce = "done" \/ ~ ref
  /\ hpc = "returned" => connClosed

\* The session is broken off.
Broken == \/ client = "gone" \/ code # "none"
          \/ wpc = "fail" \/ hpc = "slow"

\* Nothing else stops the handler early.
BrokenInv ==
  /\ closed => Broken \/ Finished
  /\ connClosed => Broken \/ hpc \in {"deferred", "returned"}
  /\ rpc # "reading" => Broken \/ hpc \in {"deferred", "returned"}
  /\ ctxDone => Broken \/ hpc \in {"deferred", "returned"}
  /\ (hpc = "finish" \/ Finished) /\ ref =>
       Broken \/ (accepted # << >> /\ Last(accepted) \in {"complete", "error"})

\* What is still to be written.
Pending == (IF wpc = "write" THEN <<writing>> ELSE << >>) \o sendCh

\* What the client has been told, and what it will never be told.
FlowInv ==
  /\ \/ delivered \o Pending = accepted
     \/ /\ IsPrefix(delivered, accepted)
        /\ \/ client = "gone" \/ wpc = "fail"
           \/ wpc = "ended" /\ code # "none"
  /\ wpc = "ended" => code # "none" \/ stopCh \/ (sendCh = << >> /\ chClosed)

SessionInv ==
  /\ SessionTypeOK
  /\ PlacesInv
  /\ LockInv
  /\ OnceInv
  /\ BrokenInv
  /\ FlowInv

(***************************************************************************)
(* The steps that move no message                                          *)
(***************************************************************************)
\* A step that leaves the queue, the writer and both ends of the flow alone keeps
\* FlowInv: a client that is gone stays gone, and what stopped the writer stands.
LEMMA FlowKept ==
  ASSUME FlowInv, UNCHANGED <<sendCh, wpc, writing, accepted, delivered>>,
         client = "gone" => client' = "gone",
         code # "none" => code' # "none",
         stopCh => stopCh', chClosed => chClosed'
  PROVE  FlowInv'
  BY DEF FlowInv, Pending

\* closeWithCode, whoever calls it.
LEMMA ClosingStep ==
  ASSUME SessionInv, NEW c \in Closers, Closing(c)
  PROVE  SessionInv'
<1> USE DEF SessionInv
<1>1. PICK from, to \in {"store", "once", "stop", "control", "conn", "ret"} :
        /\ cpc[c] = from /\ cpc' = [cpc EXCEPT ![c] = to]
        /\ \A d \in Closers : cpc'[d] = IF d = c THEN to ELSE cpc[d]
        /\ from \in {"stop", "control", "conn"} => closeOnce = "running"
        /\ UNCHANGED otherVars
  BY DEF Closing, CloseStore, CloseEnter, CloseSkip, CloseStop, CloseControl, CloseUnderlying,
         CloserAt, SessionTypeOK, OnceInv
<1>2. /\ code' = code \/ code' \in {"try_again", "internal", "normal"}
      /\ CloseControl(c) => code' # "none"
  BY DEF Closing, CloseStore, CloseEnter, CloseSkip, CloseStop, CloseControl, CloseUnderlying,
         sessVars, Reason, Closers
<1>3. SessionTypeOK'
  <2>1. cpc' \in [Closers -> {"idle", "store", "once", "stop", "control", "conn", "ret"}]
    BY <1>1 DEF SessionTypeOK
  <2>2. /\ closed' \in BOOLEAN /\ stopCh' \in BOOLEAN /\ connClosed' \in BOOLEAN
        /\ closeOnce' \in {"no", "running", "done"}
        /\ code' \in {"none", "try_again", "internal", "normal"}
    BY <1>2 DEF SessionTypeOK, Closing, CloseStore, CloseEnter, CloseSkip, CloseStop, CloseControl,
           CloseUnderlying, sessVars
  <2> QED
    BY <1>1, <2>1, <2>2 DEF SessionTypeOK, otherVars
<1>4. PlacesInv' /\ LockInv'
  BY <1>1 DEF PlacesInv, LockInv, Sending, Finished, otherVars, Closers
<1>5. ref
  BY <1>1 DEF PlacesInv, Closers
<1>6. OnceInv'
  <2>1. CASE CloseStore(c) \/ CloseSkip(c) \/ CloseEnter(c)
    BY <1>1, <1>5, <2>1 DEF OnceInv, CloseStore, CloseSkip, CloseEnter, CloserAt, otherVars,
                            sessVars
  <2>2. CASE CloseStop(c) \/ CloseControl(c)
    BY <1>1, <1>2, <1>5, <2>2 DEF OnceInv, CloseStop, CloseControl, CloserAt, otherVars, sessVars
  <2>3. CASE CloseUnderlying(c)
    <3>1. /\ cpc[c] = "conn" /\ code # "none" /\ closeOnce = "running"
          /\ \A d \in Closers : d # c => cpc[d] \notin {"stop", "control", "conn"}
      BY <2>3 DEF OnceInv, CloseUnderlying, CloserAt
    <3>2. \A d \in Closers : cpc'[d] \notin {"stop", "control", "conn"}
      BY <1>1, <3>1, <2>3 DEF CloseUnderlying, CloserAt, SessionTypeOK
    <3> QED
      BY <3>1, <3>2, <1>1, <2>3 DEF OnceInv, CloseUnderlying, otherVars
  <2> QED
    BY <2>1, <2>2, <2>3 DEF Closing
<1>7. Broken \/ Finished \/ c = "reader"
  BY <1>1 DEF PlacesInv, Broken, Closers
<1>8. BrokenInv'
  BY <1>1, <1>2, <1>7 DEF BrokenInv, Broken, OnceInv, PlacesInv, Finished, Closing, CloseStore,
         CloseEnter, CloseSkip, CloseStop, CloseControl, CloseUnderlying, CloserAt, otherVars,
         sessVars
<1>9. FlowInv'
  BY <1>1, <1>2, FlowKept DEF Closing, CloseStore, CloseEnter, CloseSkip, CloseStop, CloseControl,
         CloseUnderlying, otherVars, sessVars, SessionTypeOK
<1> QED
  BY <1>3, <1>4, <1>6, <1>8, <1>9

\* The handler before and around the trace, where it sends nothing.
LEMMA HandlerMoves ==
  ASSUME SessionInv,
         \/ Prepared \/ PrepareFails \/ NewSession \/ StoreRef \/ SendOpen
         \/ Check \/ LockTrace \/ SetupTrace \/ Record
  PROVE  SessionInv'
<1> USE DEF SessionInv, handlerFrame, sessVars, Goto
<1>1. /\ UNCHANGED <<mode, client, connClosed, ctxDone, sessVars, writing, rpc, cpc,
                     accepted, delivered>>
      /\ wpc' = wpc \/ (wpc = "none" /\ wpc' = "select")
  BY DEF Prepared, PrepareFails, NewSession, StoreRef, SendOpen, Check, LockTrace, SetupTrace,
         Record, UnlockTrace, PlacesInv
<1>2. ASSUME SetupTrace
      PROVE  /\ hpc = "setup" /\ UNCHANGED <<wpc, left, msg, ref>>
             /\ \/ hpc' = "tracing" /\ traceMu' = "free"
                \/ hpc' = "finish" /\ closed /\ traceMu' = "free"
                \/ hpc' = "tracing" /\ mode = "single" /\ traceMu' = traceMu
  <2>1. CASE mode = "mtr"
    BY <1>2, <2>1, Zenon DEF SetupTrace, UnlockTrace
  <2>2. CASE mode = "single" /\ closed
    BY <1>2, <2>2, Zenon DEF SetupTrace, UnlockTrace
  <2>3. CASE mode # "mtr" /\ ~ (mode = "single" /\ closed)
    <3>1. mode = "single"
      BY <2>3, SessionAssumption DEF SessionTypeOK
    <3> QED
      BY <1>2, <2>3, <3>1, Zenon DEF SetupTrace
  <2> QED
    BY <2>1, <2>2, <2>3
<1>3. SessionTypeOK'
  <2>1. left' \in 0 .. Records
    BY <1>2, SessionAssumption DEF SessionTypeOK, Prepared, PrepareFails, NewSession, StoreRef,
           SendOpen, Check, LockTrace, Record
  <2>2. /\ hpc' \in {"new", "deferred", "ref", "send", "enqueue", "finish", "lock", "setup",
                     "tracing"}
        /\ traceMu' \in {"free", "mine", "other"} /\ ref' \in BOOLEAN
        /\ msg' \in Messages \cup {"none"}
    BY <1>2 DEF SessionTypeOK, Messages, Prepared, PrepareFails, NewSession, StoreRef,
           SendOpen, Check, LockTrace, Record
  <2> QED
    BY <1>1, <2>1, <2>2 DEF SessionTypeOK
<1>4. PlacesInv'
  BY <1>1, <1>2 DEF SessionTypeOK, PlacesInv, Sending, Finished, Prepared, PrepareFails,
         NewSession, StoreRef, SendOpen, Check, LockTrace, Record
<1>5. LockInv'
  BY <1>1, <1>2 DEF SessionTypeOK, PlacesInv, LockInv, Sending, Prepared, PrepareFails,
         NewSession, StoreRef, SendOpen, Check, LockTrace, Record
<1>6. OnceInv'
  BY <1>1, <1>2 DEF SessionTypeOK, OnceInv, PlacesInv, Prepared, PrepareFails, NewSession,
         StoreRef, SendOpen, Check, LockTrace, Record
<1>7. BrokenInv'
  BY <1>1, <1>2 DEF SessionTypeOK, BrokenInv, Broken, PlacesInv, Finished, Prepared,
         PrepareFails, NewSession, StoreRef, SendOpen, Check, LockTrace, Record
<1>8. FlowInv'
  BY <1>1 DEF FlowInv, Pending
<1> QED
  BY <1>3, <1>4, <1>5, <1>6, <1>7, <1>8

\* A message that is not sent: the session is broken off, so no promise is left.
LEMMA SendFails ==
  ASSUME SessionInv, SendClosed \/ SlowClosed
  PROVE  SessionInv'
<1> USE DEF SessionInv, handlerFrame, sessVars, CloserAt
<1>1. /\ UNCHANGED <<mode, client, connClosed, sessVars, writing, rpc, wpc, left, traceMu, ref,
                     accepted, delivered>>
      /\ hpc \in {"send", "slow"} /\ AfterSend(FALSE)
  BY DEF SendClosed, SlowClosed
<1>2. /\ msg' = "none" /\ hpc' \in {"tracing", "finish"}
      /\ hpc' = "tracing" <=> msg = "record"
      /\ ctxDone' \in BOOLEAN
  BY <1>1 DEF AfterSend, SessionTypeOK
<1>3. /\ cpc' \in [Closers -> {"idle", "store", "once", "stop", "control", "conn", "ret"}]
      /\ \A c \in Closers : c # "handler" => cpc'[c] = cpc[c]
      /\ cpc'["handler"] = "idle"
      /\ hpc = "slow" => cpc["handler"] = "ret" /\ code # "none"
  BY ZenonT(40) DEF SessionTypeOK, SendClosed, SlowClosed, PlacesInv, OnceInv, Closers
<1>4. client = "gone" \/ code # "none" \/ wpc = "fail"
  BY <1>1, <1>3 DEF SendClosed, SlowClosed, BrokenInv, Broken, Finished
<1>5. SessionTypeOK'
  BY <1>1, <1>2, <1>3 DEF SessionTypeOK
<1>6. PlacesInv' /\ LockInv'
  BY <1>1, <1>2, <1>3 DEF SessionTypeOK, PlacesInv, LockInv, Sending, Finished, Closers
<1>7. OnceInv'
  BY <1>1, <1>2, <1>3 DEF OnceInv, Closers
<1>8. BrokenInv'
  BY <1>1, <1>2, <1>4 DEF BrokenInv, Broken
<1>9. FlowInv'
  BY <1>1, FlowKept
<1> QED
  BY <1>5, <1>6, <1>7, <1>8, <1>9

\* The queue is full: the handler begins to close the session.
LEMMA QueueFullStep ==
  ASSUME SessionInv, QueueFull
  PROVE  SessionInv'
<1> USE DEF SessionInv, sessVars, CloserAt, Goto
<1>1. /\ cpc' \in [Closers -> {"idle", "store", "once", "stop", "control", "conn", "ret"}]
      /\ \A c \in Closers : c # "handler" => cpc'[c] = cpc[c]
      /\ cpc'["handler"] = "store"
  BY DEF SessionTypeOK, QueueFull, Closers
<1>2. SessionTypeOK'
  BY <1>1 DEF SessionTypeOK, QueueFull
<1>3. PlacesInv' /\ LockInv'
  BY <1>1 DEF SessionTypeOK, PlacesInv, LockInv, Sending, Finished, Closers, QueueFull
<1>4. OnceInv' /\ BrokenInv'
  BY <1>1 DEF OnceInv, BrokenInv, Broken, Closers, Finished, QueueFull
<1>5. FlowInv'
  BY FlowKept DEF QueueFull
<1> QED
  BY <1>2, <1>3, <1>4, <1>5

\* The trace is over.  It is silent only if the session is broken off.
LEMMA TraceOver ==
  ASSUME SessionInv, Completed \/ Failed
  PROVE  SessionInv'
<1> USE DEF SessionInv, handlerFrame, sessVars, Goto
<1>1. /\ UNCHANGED <<mode, client, connClosed, ctxDone, sessVars, writing, rpc, wpc, cpc,
                     left, ref, accepted, delivered>>
      /\ hpc = "tracing" /\ msg = "none"
      /\ traceMu' = traceMu \/ traceMu' = "free"
      /\ mode = "single" => traceMu' = "free"
      /\ hpc' \in {"send", "finish"}
      /\ hpc' = "send" => msg' \in {"complete", "error"}
      /\ hpc' = "finish" => msg' = "none" /\ (closed \/ ctxDone)
  BY DEF Completed, Failed, TraceReturns, UnlockTrace, PlacesInv, Sending, SessionTypeOK
<1>2. SessionTypeOK'
  BY <1>1 DEF SessionTypeOK, Messages
<1>3. PlacesInv'
  BY <1>1 DEF SessionTypeOK, PlacesInv, Sending, Finished
<1>4. OnceInv' /\ BrokenInv'
  BY <1>1 DEF OnceInv, BrokenInv, Broken, Finished
<1>5. FlowInv'
  BY <1>1, FlowKept
<1>6. LockInv'
  BY <1>1 DEF LockInv, SessionTypeOK
<1> QED
  BY <1>2, <1>3, <1>4, <1>5, <1>6

\* The rest of the handler: finish and the deferred calls.
LEMMA FinishStep ==
  ASSUME SessionInv, FinishSwap \/ FinishWait \/ FinishClose \/ Deferred
  PROVE  SessionInv'
<1> USE DEF SessionInv, handlerFrame, sessVars, Goto
<1>1. UNCHANGED <<mode, client, msg, left, traceMu, ref, sendCh, stopCh, code, wpc, writing,
                  rpc, cpc, accepted, delivered>>
  BY DEF FinishSwap, FinishWait, FinishClose, Deferred
<1>2. SessionTypeOK'
  <2>1. /\ closed' \in BOOLEAN /\ chClosed' \in BOOLEAN
        /\ connClosed' \in BOOLEAN /\ ctxDone' \in BOOLEAN
    BY Zenon DEF SessionTypeOK, FinishSwap, FinishWait, FinishClose, Deferred
  <2>2. /\ hpc' \in {"wait", "close", "deferred", "returned"}
        /\ closeOnce' \in {"no", "running", "done"}
    BY DEF SessionTypeOK, FinishSwap, FinishWait, FinishClose, Deferred
  <2> QED
    BY <1>1, <2>1, <2>2 DEF SessionTypeOK
<1>3. PlacesInv' /\ LockInv'
  BY <1>1 DEF SessionTypeOK, PlacesInv, LockInv, Sending, Finished, FinishSwap, FinishWait,
              FinishClose, Deferred
<1>4. OnceInv'
  BY <1>1 DEF SessionTypeOK, OnceInv, PlacesInv, FinishSwap, FinishWait, FinishClose, Deferred
<1>5. BrokenInv'
  BY <1>1 DEF BrokenInv, Broken, Finished, FinishSwap, FinishWait, FinishClose, Deferred
<1>6. FlowInv'
  <2>1. chClosed => chClosed'
    BY DEF FinishSwap, FinishWait, FinishClose, Deferred
  <2> QED
    BY <1>1, <2>1, FlowKept
<1> QED
  BY <1>2, <1>3, <1>4, <1>5, <1>6

\* The reader: what it does to the context and the session follows a client that
\* has gone or a connection that was closed.
LEMMA ReaderSteps ==
  ASSUME SessionInv, ReaderStep
  PROVE  SessionInv'
<1> USE DEF SessionInv, readerFrame, sessVars, CloserAt
<1>1. /\ UNCHANGED <<mode, client, connClosed, hpc, msg, left, traceMu, ref, sessVars, wpc,
                     writing, accepted, delivered>>
      /\ cpc' \in [Closers -> {"idle", "store", "once", "stop", "control", "conn", "ret"}]
      /\ \A c \in Closers : c # "reader" => cpc'[c] = cpc[c]
      /\ cpc'["reader"] \in {"idle", "store"}
      /\ cpc'["reader"] # "idle" <=> rpc' = "close"
      /\ rpc' = "close" => ref
      /\ rpc' \in {"load", "close", "ended"}
  BY DEF SessionTypeOK, PlacesInv, ReaderStep, ReadFails, ReadClose, ReaderEnds, Closers
<1>2. SessionTypeOK'
  <2>1. ctxDone' \in BOOLEAN
    BY DEF SessionTypeOK, ReaderStep, ReadFails, ReadClose, ReaderEnds
  <2> QED
    BY <1>1, <2>1 DEF SessionTypeOK
<1>3. PlacesInv' /\ LockInv'
  BY <1>1 DEF PlacesInv, LockInv, Sending, Finished, Closers
<1>4. OnceInv'
  BY <1>1 DEF OnceInv, Closers
<1>5. BrokenInv'
  BY <1>1 DEF BrokenInv, Broken, Finished, ReaderStep, ReadFails, ReadClose, ReaderEnds
<1>6. FlowInv'
  BY <1>1, FlowKept
<1> QED
  BY <1>2, <1>3, <1>4, <1>5, <1>6

\* The client and the other sessions.  Only a client that resumes could mend a
\* broken session, and a stalled client does not break one.
LEMMA EnvStep ==
  ASSUME SessionInv,
         \/ ClientLeaves \/ ClientStalls \/ ClientResumes \/ OtherLocks \/ OtherUnlocks
         \/ UNCHANGED sessionVars
  PROVE  SessionInv'
<1> USE DEF SessionInv, envFrame, sessVars, sessionVars
<1>1. /\ UNCHANGED envFrame
      /\ client' \in {"up", "stalled", "gone"} /\ traceMu' \in {"free", "mine", "other"}
      /\ client = "gone" => client' = "gone"
      /\ traceMu' = "mine" => traceMu = "mine"
  BY DEF SessionTypeOK, ClientLeaves, ClientStalls, ClientResumes, OtherLocks, OtherUnlocks
<1>2. SessionTypeOK' /\ PlacesInv' /\ LockInv' /\ OnceInv'
  BY <1>1 DEF SessionTypeOK, PlacesInv, LockInv, OnceInv, Sending, Finished
<1>3. BrokenInv'
  BY <1>1 DEF BrokenInv, Broken, Finished
<1>4. FlowInv'
  BY <1>1, FlowKept
<1> QED
  BY <1>2, <1>3, <1>4

(***************************************************************************)
(* The steps that move messages                                            *)
(***************************************************************************)
\* A prefix, and a sequence that continues it.
LEMMA AppendLast ==
  ASSUME NEW S, NEW s \in Seq(S), NEW t \in Seq(S), NEW e \in S
  PROVE  s \o Append(t, e) = Append(s \o t, e)
<1>1. <<e>> \in Seq(S) /\ s \o t \in Seq(S)
  BY ConcatProperties
<1>2. Append(t, e) = t \o <<e>> /\ Append(s \o t, e) = (s \o t) \o <<e>>
  BY <1>1, AppendIsConcat
<1>3. (s \o t) \o <<e>> = s \o (t \o <<e>>)
  BY <1>1, ConcatAssociative
<1> QED
  BY <1>2, <1>3

LEMMA PrefixConcat ==
  ASSUME NEW S, NEW s \in Seq(S), NEW t \in Seq(S)
  PROVE  IsPrefix(s, s \o t)
<1>1. /\ s \o t \in Seq(S) /\ Len(s \o t) = Len(s) + Len(t)
      /\ \A i \in 1 .. Len(s) : (s \o t)[i] = s[i]
  BY ConcatProperties, LenProperties
<1>2. SubSeq(s, 1, Len(s)) = SubSeq(s \o t, 1, Len(s))
  BY <1>1, LenProperties, SMT
<1> QED
  BY <1>1, <1>2, LenProperties DEF IsPrefix

\* A prefix of a sequence is one of a longer sequence.
LEMMA PrefixAppend ==
  ASSUME NEW S, NEW s \in Seq(S), NEW t \in Seq(S), NEW m \in S, IsPrefix(s, t)
  PROVE  IsPrefix(s, Append(t, m))
<1>1. Len(s) <= Len(t) /\ SubSeq(s, 1, Len(s)) = SubSeq(t, 1, Len(s))
  BY DEF IsPrefix
<1>2. /\ Append(t, m) \in Seq(S) /\ Len(Append(t, m)) = Len(t) + 1
      /\ \A i \in 1 .. Len(t) : Append(t, m)[i] = t[i]
  BY AppendProperties, LenProperties
<1>3. SubSeq(t, 1, Len(s)) = SubSeq(Append(t, m), 1, Len(s))
  BY <1>1, <1>2, LenProperties, SMT
<1> QED
  BY <1>1, <1>2, <1>3, LenProperties DEF IsPrefix

\* A message goes to the end of the queue and of what was accepted.
LEMMA EnqueueStep ==
  ASSUME SessionInv, Enqueue
  PROVE  SessionInv'
<1> USE DEF SessionInv, handlerFrame
<1>1. /\ UNCHANGED <<mode, client, connClosed, left, traceMu, ref, closed, chClosed, stopCh,
                     closeOnce, code, wpc, writing, rpc, cpc, delivered>>
      /\ hpc = "enqueue" /\ AfterSend(TRUE)
      /\ sendCh' = Append(sendCh, msg) /\ accepted' = Append(accepted, msg)
      /\ Len(sendCh) < QueueSize
  BY DEF Enqueue
<1>2. /\ msg \in Messages /\ ref
      /\ msg' = "none" /\ hpc' \in {"check", "tracing", "finish"}
      /\ hpc' = "tracing" <=> msg = "record"
      /\ hpc' = "finish" => msg \in {"complete", "error"}
      /\ ctxDone' = ctxDone
  <2>1. msg \in Messages /\ ref
    BY <1>1 DEF SessionTypeOK, PlacesInv, Sending
  <2>2. msg' = "none" /\ ctxDone' = ctxDone
    BY <1>1 DEF AfterSend, SessionTypeOK
  <2>3. /\ hpc' \in {"check", "tracing", "finish"}
        /\ hpc' = "tracing" <=> msg = "record"
        /\ hpc' = "finish" => msg \in {"complete", "error"}
    BY <1>1, <2>1 DEF AfterSend, Messages
  <2> QED
    BY <2>1, <2>2, <2>3
<1>3. /\ sendCh' \in Seq(Messages) /\ Len(sendCh') = Len(sendCh) + 1 /\ sendCh' # << >>
      /\ accepted' \in Seq(Messages) /\ accepted' # << >> /\ Last(accepted') = msg
  BY <1>1, <1>2, AppendProperties DEF SessionTypeOK, Last
<1>4. SessionTypeOK'
  <2>1. Len(sendCh') <= QueueSize
    BY <1>1, <1>3, SessionAssumption, LenProperties DEF SessionTypeOK
  <2> QED
    BY <1>1, <1>2, <1>3, <2>1 DEF SessionTypeOK
<1>5. PlacesInv' /\ LockInv'
  BY <1>1, <1>2 DEF SessionTypeOK, PlacesInv, LockInv, Sending, Finished
<1>6. OnceInv'
  BY <1>1, <1>2 DEF OnceInv
<1>7. BrokenInv'
  BY <1>1, <1>2, <1>3 DEF BrokenInv, Broken, Finished
<1>8. FlowInv'
  <2>1. wpc = "ended" => code # "none" \/ stopCh
    BY <1>1 DEF FlowInv, PlacesInv, Finished
  <2>2. CASE delivered \o Pending = accepted
    <3> DEFINE w == IF wpc = "write" THEN <<writing>> ELSE << >>
    <3>1. w \in Seq(Messages)
      BY DEF SessionTypeOK, PlacesInv
    <3>2. /\ delivered \in Seq(Messages) /\ sendCh \in Seq(Messages) /\ msg \in Messages
          /\ Pending = w \o sendCh /\ Pending' = w \o Append(sendCh, msg)
      BY <1>1, <1>2 DEF Pending, SessionTypeOK
    <3> HIDE DEF w
    <3>3. w \o sendCh \in Seq(Messages)
      BY <3>1, <3>2, ConcatProperties
    <3>4. w \o Append(sendCh, msg) = Append(w \o sendCh, msg)
      BY <3>1, <3>2, AppendLast
    <3>5. delivered \o Append(w \o sendCh, msg) = Append(delivered \o (w \o sendCh), msg)
      <4>1. PICK ws \in Seq(Messages) : ws = w \o sendCh
        BY <3>3
      <4>2. delivered \o Append(ws, msg) = Append(delivered \o ws, msg)
        BY <3>2, AppendLast
      <4> QED
        BY <4>1, <4>2
    <3>6. delivered' \o Pending' = accepted'
      BY <1>1, <2>2, <3>2, <3>4, <3>5
    <3> QED
      BY <1>1, <2>1, <3>6 DEF FlowInv
  <2>3. CASE delivered \o Pending # accepted
    <3>1. IsPrefix(delivered, accepted')
      BY <1>1, <1>2, <2>3, PrefixAppend DEF SessionTypeOK, FlowInv
    <3> QED
      BY <1>1, <2>1, <2>3, <3>1 DEF FlowInv
  <2> QED
    BY <2>2, <2>3
<1> QED
  BY <1>4, <1>5, <1>6, <1>7, <1>8

\* The writer.  It moves a message from the queue to the client, and gives up only
\* with the client gone, a failure of its own, or a close frame.
LEMMA WriterSteps ==
  ASSUME SessionInv, WriterStep
  PROVE  SessionInv'
<1> USE DEF SessionInv, writerFrame, CloserAt
<1>1. /\ UNCHANGED <<mode, client, connClosed, ctxDone, hpc, msg, left, traceMu, ref, rpc,
                     closed, chClosed, stopCh, closeOnce, code, accepted>>
      /\ cpc' \in [Closers -> {"idle", "store", "once", "stop", "control", "conn", "ret"}]
      /\ \A c \in Closers : c # "writer" => cpc'[c] = cpc[c]
      /\ cpc'["writer"] \in {"idle", "store"}
      /\ cpc'["writer"] # "idle" <=> wpc' = "fail"
      /\ wpc \in {"select", "write", "fail"}
      /\ wpc' \in {"select", "write", "fail", "ended"}
  BY DEF SessionTypeOK, PlacesInv, WriterStep, WriterStops, WriterReceives, Writes, WriteFails,
         WriterFailed, Closers
<1>2. wpc = "fail" => code # "none" /\ wpc' = "ended"
  BY DEF WriterStep, WriterStops, WriterReceives, Writes, WriteFails, WriterFailed, OnceInv,
         PlacesInv, Closers
<1>3. /\ writing' \in Messages \cup {"none"} /\ (writing' # "none" <=> wpc' = "write")
      /\ sendCh' \in Seq(Messages) /\ Len(sendCh') <= QueueSize
      /\ sendCh = << >> => sendCh' = << >>
      /\ delivered' \in Seq(Messages)
  <2>1. CASE WriterStops
    BY <2>1 DEF WriterStops, SessionTypeOK, PlacesInv
  <2>2. CASE WriterReceives
    <3>1. /\ Head(sendCh) \in Messages /\ Tail(sendCh) \in Seq(Messages)
          /\ Len(Tail(sendCh)) = Len(sendCh) - 1
      BY <2>2, HeadTailProperties DEF WriterReceives, SessionTypeOK
    <3>2. Len(Tail(sendCh)) <= QueueSize
      BY <3>1, SessionAssumption, LenProperties DEF SessionTypeOK
    <3> QED
      BY <2>2, <3>1, <3>2 DEF WriterReceives, SessionTypeOK, Messages
  <2>3. CASE Writes
    BY <2>3, AppendProperties DEF Writes, SessionTypeOK, PlacesInv, Messages
  <2>4. CASE WriteFails \/ WriterFailed
    BY <2>4 DEF WriteFails, WriterFailed, SessionTypeOK, PlacesInv
  <2> QED
    BY <2>1, <2>2, <2>3, <2>4 DEF WriterStep
<1>4. SessionTypeOK'
  BY <1>1, <1>3 DEF SessionTypeOK
<1>5. PlacesInv' /\ LockInv'
  <2>1. ref
    BY <1>1 DEF WriterStep, WriterStops, WriterReceives, Writes, WriteFails, WriterFailed,
         PlacesInv,
                Finished
  <2> QED
    BY <1>1, <1>3, <2>1 DEF PlacesInv, LockInv, Sending, Finished, Closers
<1>6. OnceInv'
  BY <1>1 DEF OnceInv, Closers
<1>7. BrokenInv'
  BY <1>1, <1>2 DEF BrokenInv, Broken, Finished
<1>8. FlowInv'
  <2>1. CASE WriterStops
    BY <2>1, <1>1 DEF WriterStops, FlowInv, Pending
  <2>2. CASE WriterReceives
    <3>1. /\ <<Head(sendCh)>> \o Tail(sendCh) = sendCh
          /\ << >> \o sendCh = sendCh
      BY <2>2, ConcatEmptySeq DEF WriterReceives, SessionTypeOK
    <3>2. Pending' = Pending
      BY <2>2, <3>1 DEF WriterReceives, Pending
    <3> QED
      BY <2>2, <3>2 DEF WriterReceives, FlowInv
  <2>3. CASE Writes
    <3>1. /\ writing \in Messages /\ <<writing>> \in Seq(Messages)
          /\ Pending = <<writing>> \o sendCh
          /\ Pending' = sendCh
      BY <2>3, <1>3, ConcatEmptySeq DEF Writes, Pending, SessionTypeOK, PlacesInv
    <3>2. CASE client = "up"
      <4>1. delivered' = delivered \o <<writing>>
        BY <2>3, <3>1, <3>2, AppendIsConcat DEF Writes, SessionTypeOK
      <4>2. delivered' \o Pending' = delivered \o Pending
        BY <3>1, <4>1, ConcatAssociative DEF SessionTypeOK
      <4> QED
        BY <2>3, <3>2, <4>2 DEF Writes, FlowInv
    <3>3. CASE client # "up"
      <4>1. client = "gone" /\ delivered' = delivered
        BY <2>3, <3>3 DEF Writes, SessionTypeOK
      <4>2. IsPrefix(delivered, accepted)
        BY <3>1, PrefixConcat, ConcatProperties, ZenonT(40) DEF FlowInv, SessionTypeOK
      <4> QED
        BY <2>3, <4>1, <4>2 DEF Writes, FlowInv
    <3> QED
      BY <3>2, <3>3
  <2>4. CASE WriteFails
    <3>1. /\ <<writing>> \in Seq(Messages)
          /\ Pending = <<writing>> \o sendCh
      BY <2>4 DEF WriteFails, Pending, SessionTypeOK, PlacesInv
    <3>2. IsPrefix(delivered, accepted)
      BY <3>1, PrefixConcat, ConcatProperties, ZenonT(40) DEF FlowInv, SessionTypeOK
    <3> QED
      BY <2>4, <3>2 DEF WriteFails, FlowInv
  <2>5. CASE WriterFailed
    <3>1. Pending = sendCh
      BY <2>5, ConcatEmptySeq DEF Pending, SessionTypeOK, WriterFailed
    <3>2. IsPrefix(delivered, accepted) /\ code # "none"
      BY <1>2, <2>5, <3>1, PrefixConcat DEF FlowInv, SessionTypeOK, WriterFailed
    <3> QED
      BY <2>5, <3>2 DEF WriterFailed, FlowInv
  <2> QED
    BY <2>1, <2>2, <2>3, <2>4, <2>5 DEF WriterStep
<1> QED
  BY <1>4, <1>5, <1>6, <1>7, <1>8

(***************************************************************************)
(* The theorems                                                            *)
(***************************************************************************)
LEMMA SessionInitInv == SessionInit => SessionInv
<1> SUFFICES ASSUME SessionInit PROVE SessionInv
  OBVIOUS
<1> USE DEF SessionInit
<1>1. SessionTypeOK
  <2>1. << >> \in Seq(Messages) /\ Len(sendCh) <= QueueSize
    BY EmptySeq, SessionAssumption
  <2>2. left \in 0 .. Records
    BY SessionAssumption
  <2>3. cpc \in [Closers -> {"idle", "store", "once", "stop", "control", "conn", "ret"}]
    OBVIOUS
  <2> QED
    BY <2>1, <2>2, <2>3 DEF SessionTypeOK
<1>2. PlacesInv /\ LockInv /\ OnceInv /\ BrokenInv
  BY DEF PlacesInv, LockInv, OnceInv, BrokenInv, Broken, Finished, Sending, Closers
<1>3. FlowInv
  BY ConcatEmptySeq, EmptySeq DEF FlowInv, Pending
<1> QED
  BY <1>1, <1>2, <1>3 DEF SessionInv

LEMMA SessionStepInv == SessionInv /\ [SessionNext]_sessionVars => SessionInv'
  BY ClosingStep, HandlerMoves, SendFails, QueueFullStep, TraceOver, FinishStep, ReaderSteps,
     EnvStep, EnqueueStep, WriterSteps
  DEF SessionNext, HandlerStep

\* What the client of a returned handler has been told, and what is left behind.
LEMMA InvSound == SessionInv => SessionSound
<1> SUFFICES ASSUME SessionInv PROVE SessionSound
  OBVIOUS
<1> USE DEF SessionInv
<1>1. IsPrefix(delivered, accepted)
  <2>1. Pending \in Seq(Messages)
    BY ConcatProperties DEF Pending, SessionTypeOK, PlacesInv
  <2> QED
    BY <2>1, PrefixConcat DEF FlowInv, SessionTypeOK
<1>2. ASSUME hpc = "returned", ref, client = "up", code = "none"
      PROVE  delivered = accepted /\ Last(accepted) \in {"complete", "error"}
  <2>1. wpc = "ended" /\ closeOnce = "done" /\ ~ Broken
    BY <1>2 DEF PlacesInv, OnceInv, Broken
  <2>2. sendCh = << >> /\ Pending = << >>
    BY <1>2, <2>1, ConcatEmptySeq, EmptySeq DEF FlowInv, OnceInv, Pending
  <2>3. delivered \o Pending = accepted
    BY <1>2, <2>1 DEF FlowInv
  <2> QED
    BY <1>2, <2>1, <2>2, <2>3, ConcatEmptySeq DEF BrokenInv, Finished, SessionTypeOK
<1>3. ReturnsClean
  BY DEF ReturnsClean, PlacesInv, OnceInv, LockInv, Sending
<1> QED
  BY <1>1, <1>2, <1>3 DEF SessionSound, NothingLost

\* The session's state keeps its type, the queue its size (wsTraceSession).
THEOREM SessionTyped == SessionSpec => []SessionTypeOK
<1>1. SessionInv => SessionTypeOK
  BY DEF SessionInv
<1> QED
  BY SessionInitInv, SessionStepInv, <1>1, PTL DEF SessionSpec

\* For every queue size: the client is told, in order, a beginning of what the
\* session accepted, and all of it with the outcome last if nobody broke the session
\* off; a handler that has returned leaves no writer, no lock and no half-run
\* closeOnce behind (send, writerLoop, closeWithCode and finish in ws_handler.go).
THEOREM SessionSafe == SessionSpec => []SessionSound
  BY SessionInitInv, SessionStepInv, InvSound, PTL DEF SessionSpec
=============================================================================
