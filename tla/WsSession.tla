----------------------------- MODULE WsSession -----------------------------
(***************************************************************************)
(* One websocket session of the web server (server/ws_handler.go): the     *)
(* handler prepares and runs a trace and sends what it finds; a writer     *)
(* takes the messages from a bounded queue; a reader waits for the client  *)
(* to go away.  Each of the three may close the session.  The hops of a    *)
(* single trace are sent by the tracer's printing goroutine, which runs    *)
(* only while the handler waits for the trace, so both are one process and *)
(* sendMu, which only they take, is never contended.                       *)
(* All other sessions appear as holders of traceMu.                        *)
(***************************************************************************)
EXTENDS Integers, Sequences, SequencesExt

CONSTANTS
  QueueSize,   \* wsSendQueueSize
  Records,     \* messages a trace produces, at most
  Modes        \* subset of {"single", "mtr"}

ASSUME SessionAssumption ==
  /\ QueueSize \in Nat \ {0} /\ Records \in Nat
  /\ Modes \subseteq {"single", "mtr"}

Closers == {"handler", "writer", "reader"}

VARIABLES
  mode,        \* setup.Req.Mode
  client,      \* the other end: "up", "stalled" or "gone"
  connClosed,  \* conn.Close() was called
  ctxDone,     \* sessionCtx or its child is cancelled
  hpc, msg,    \* the handler, and the message it sends
  left,        \* messages the trace may still produce
  traceMu,     \* "free", "mine" or "other"
  ref,         \* sessionRef
  closed, sendCh, chClosed, stopCh, closeOnce,
  code,        \* reason in the close frame
  wpc, writing,
  rpc,
  cpc,         \* where each goroutine is in closeWithCode
  accepted, delivered

sessVars == <<closed, sendCh, chClosed, stopCh, closeOnce, code>>
sessionVars == <<mode, client, connClosed, ctxDone, hpc, msg, left, traceMu, ref, sessVars,
          wpc, writing, rpc, cpc, accepted, delivered>>

SessionInit ==
  /\ mode \in Modes
  /\ client = "up" /\ connClosed = FALSE /\ ctxDone = FALSE
  /\ hpc = "prepare" /\ msg = "none" /\ left = Records
  /\ traceMu = "free" /\ ref = FALSE
  /\ closed = FALSE /\ sendCh = << >> /\ chClosed = FALSE /\ stopCh = FALSE
  /\ closeOnce = "no" /\ code = "none"
  /\ wpc = "none" /\ writing = "none" /\ rpc = "reading"
  /\ cpc = [c \in Closers |-> "idle"]
  /\ accepted = << >> /\ delivered = << >>

(***************************************************************************)
(* closeWithCode                                                           *)
(***************************************************************************)
Reason(c) == CASE c = "handler" -> "try_again"
               [] c = "writer"  -> "internal"
               [] c = "reader"  -> "normal"

CloserAt(c, from, to) == cpc[c] = from /\ cpc' = [cpc EXCEPT ![c] = to]

otherVars == <<mode, client, ctxDone, hpc, msg, left, traceMu, ref, sendCh, chClosed,
               wpc, writing, rpc, accepted, delivered>>

CloseStore(c) ==
  /\ CloserAt(c, "store", "once")
  /\ closed' = TRUE
  /\ UNCHANGED <<otherVars, connClosed, stopCh, closeOnce, code>>

\* sync.Once: the first runs the body, the others wait until it has returned.
CloseEnter(c) ==
  /\ closeOnce = "no" /\ CloserAt(c, "once", "stop")
  /\ closeOnce' = "running"
  /\ UNCHANGED <<otherVars, connClosed, closed, stopCh, code>>

CloseSkip(c) ==
  /\ closeOnce = "done" /\ CloserAt(c, "once", "ret")
  /\ UNCHANGED <<otherVars, connClosed, sessVars>>

CloseStop(c) ==
  /\ CloserAt(c, "stop", "control")
  /\ stopCh' = TRUE
  /\ UNCHANGED <<otherVars, connClosed, closed, closeOnce, code>>

\* The frame is written, or given up after wsWriteTimeout.
CloseControl(c) ==
  /\ CloserAt(c, "control", "conn")
  /\ code' = Reason(c)
  /\ UNCHANGED <<otherVars, connClosed, closed, stopCh, closeOnce>>

CloseUnderlying(c) ==
  /\ CloserAt(c, "conn", "ret")
  /\ connClosed' = TRUE /\ closeOnce' = "done"
  /\ UNCHANGED <<otherVars, closed, stopCh, code>>

Closing(c) == \/ CloseStore(c) \/ CloseEnter(c) \/ CloseSkip(c)
              \/ CloseStop(c) \/ CloseControl(c) \/ CloseUnderlying(c)

(***************************************************************************)
(* The handler up to the trace                                             *)
(***************************************************************************)
Goto(pc) == hpc' = pc
handlerFrame == <<mode, client, left, wpc, writing, rpc, cpc, delivered>>

\* Possibly with a cancelled context: an address needs no lookup.
Prepared ==
  /\ hpc = "prepare" /\ Goto("new")
  /\ UNCHANGED <<handlerFrame, connClosed, ctxDone, msg, traceMu, ref, sessVars, accepted>>

\* A bad request or a cancelled lookup; no session yet, the answer is written directly.
PrepareFails ==
  /\ hpc = "prepare" /\ Goto("deferred")
  /\ UNCHANGED <<handlerFrame, connClosed, ctxDone, msg, traceMu, ref, sessVars, accepted>>

NewSession ==
  /\ hpc = "new" /\ Goto("ref")
  /\ wpc' = "select"
  /\ UNCHANGED <<mode, client, left, writing, rpc, cpc, delivered, connClosed, ctxDone,
                 msg, traceMu, ref, sessVars, accepted>>

StoreRef ==
  /\ hpc = "ref" /\ Goto("send")
  /\ ref' = TRUE /\ msg' = "start"
  /\ UNCHANGED <<handlerFrame, connClosed, ctxDone, traceMu, sessVars, accepted>>

(***************************************************************************)
(* send                                                                    *)
(***************************************************************************)
\* What the caller does with send's result.
AfterSend(ok) ==
  /\ msg' = "none"
  /\ hpc' = CASE msg = "start" -> IF ok THEN "check" ELSE "finish"
              [] msg = "record" -> "tracing"
              [] OTHER -> "finish"
  /\ ctxDone' = (ctxDone \/ (msg = "record" /\ mode = "mtr" /\ ~ ok))

SendClosed ==
  /\ hpc = "send" /\ closed
  /\ AfterSend(FALSE)
  /\ UNCHANGED <<handlerFrame, connClosed, traceMu, ref, sessVars, accepted>>

SendOpen ==
  /\ hpc = "send" /\ ~ closed /\ Goto("enqueue")
  /\ UNCHANGED <<handlerFrame, connClosed, ctxDone, msg, traceMu, ref, sessVars, accepted>>

Enqueue ==
  /\ hpc = "enqueue" /\ Len(sendCh) < QueueSize
  /\ sendCh' = Append(sendCh, msg) /\ accepted' = Append(accepted, msg)
  /\ AfterSend(TRUE)
  /\ UNCHANGED <<handlerFrame, connClosed, traceMu, ref, closed, chClosed, stopCh,
                 closeOnce, code>>

QueueFull ==
  /\ hpc = "enqueue" /\ Len(sendCh) >= QueueSize /\ Goto("slow")
  /\ CloserAt("handler", "idle", "store")
  /\ UNCHANGED <<mode, client, left, wpc, writing, rpc, delivered, connClosed, ctxDone,
                 msg, traceMu, ref, sessVars, accepted>>

SlowClosed ==
  /\ hpc = "slow" /\ CloserAt("handler", "ret", "idle")
  /\ AfterSend(FALSE)
  /\ UNCHANGED <<mode, client, left, wpc, writing, rpc, delivered, connClosed, traceMu,
                 ref, sessVars, accepted>>

(***************************************************************************)
(* The trace                                                               *)
(***************************************************************************)
\* executeMTRRaw looks first; executeTrace takes the lock first.
Check ==
  /\ hpc = "check"
  /\ Goto(IF mode = "mtr" /\ closed THEN "finish" ELSE "lock")
  /\ UNCHANGED <<handlerFrame, connClosed, ctxDone, msg, traceMu, ref, sessVars, accepted>>

LockTrace ==
  /\ hpc = "lock" /\ traceMu = "free" /\ Goto("setup")
  /\ traceMu' = "mine"
  /\ UNCHANGED <<handlerFrame, connClosed, ctxDone, msg, ref, sessVars, accepted>>

UnlockTrace == traceMu' = "free"

\* Inside the lock: a single trace looks whether it is still wanted and keeps the
\* lock; an mtr trace sets up its connections and gives it back.
SetupTrace ==
  /\ hpc = "setup"
  /\ CASE mode = "mtr" -> Goto("tracing") /\ UnlockTrace
       [] mode = "single" /\ closed -> Goto("finish") /\ UnlockTrace
       [] OTHER -> Goto("tracing") /\ UNCHANGED traceMu
  /\ UNCHANGED <<handlerFrame, connClosed, ctxDone, msg, ref, sessVars, accepted>>

Record ==
  /\ hpc = "tracing" /\ left > 0 /\ Goto("send")
  /\ left' = left - 1 /\ msg' = "record"
  /\ UNCHANGED <<mode, client, wpc, writing, rpc, cpc, delivered, connClosed, ctxDone,
                 traceMu, ref, sessVars, accepted>>

TraceReturns ==
  /\ hpc = "tracing"
  /\ IF mode = "single" THEN UnlockTrace ELSE UNCHANGED traceMu

\* By itself or because the context is done.  A single trace that was cancelled
\* sends nothing; an mtr trace sends its completion in both cases.
Completed ==
  /\ TraceReturns
  /\ \/ (closed \/ (mode = "single" /\ ctxDone)) /\ Goto("finish") /\ UNCHANGED msg
     \/ ~ closed /\ Goto("send") /\ msg' = "complete"
  /\ UNCHANGED <<handlerFrame, connClosed, ctxDone, ref, sessVars, accepted>>

Failed ==
  /\ TraceReturns
  /\ Goto("send") /\ msg' = "error"
  /\ UNCHANGED <<handlerFrame, connClosed, ctxDone, ref, sessVars, accepted>>

(***************************************************************************)
(* finish and the handler's other deferred calls                           *)
(***************************************************************************)
\* Mutant: stopCh is closed as well, so that the writer stops at once.
FinishSwap_Stop ==
  /\ hpc = "finish" /\ Goto("wait")
  /\ closed' = TRUE /\ chClosed' = (chClosed \/ ~ closed) /\ stopCh' = TRUE
  /\ UNCHANGED <<handlerFrame, connClosed, ctxDone, msg, traceMu, ref, sendCh,
                 closeOnce, code, accepted>>

FinishSwap ==
  /\ hpc = "finish" /\ Goto("wait")
  /\ closed' = TRUE /\ chClosed' = (chClosed \/ ~ closed)
  /\ UNCHANGED <<handlerFrame, connClosed, ctxDone, msg, traceMu, ref, sendCh, stopCh,
                 closeOnce, code, accepted>>

FinishWait ==
  /\ hpc = "wait" /\ wpc = "ended" /\ Goto("close")
  /\ UNCHANGED <<handlerFrame, connClosed, ctxDone, msg, traceMu, ref, sessVars, accepted>>

FinishClose ==
  /\ hpc = "close" /\ closeOnce # "running" /\ Goto("deferred")
  /\ connClosed' = TRUE /\ closeOnce' = "done"
  /\ UNCHANGED <<handlerFrame, ctxDone, msg, traceMu, ref, closed, sendCh, chClosed,
                 stopCh, code, accepted>>

Deferred ==
  /\ hpc = "deferred" /\ Goto("returned")
  /\ ctxDone' = TRUE /\ connClosed' = TRUE
  /\ UNCHANGED <<handlerFrame, msg, traceMu, ref, sessVars, accepted>>

HandlerStep ==
  \/ Prepared \/ PrepareFails \/ NewSession \/ StoreRef
  \/ SendClosed \/ SendOpen \/ Enqueue \/ QueueFull \/ SlowClosed
  \/ Check \/ LockTrace \/ SetupTrace \/ FinishSwap \/ FinishWait \/ FinishClose \/ Deferred

(***************************************************************************)
(* The writer                                                              *)
(***************************************************************************)
writerFrame == <<mode, client, connClosed, ctxDone, hpc, msg, left, traceMu, ref, rpc,
                 closed, chClosed, stopCh, closeOnce, code, accepted>>

\* Of several ready cases select takes any.
WriterStops ==
  /\ wpc = "select" /\ (stopCh \/ (sendCh = << >> /\ chClosed))
  /\ wpc' = "ended"
  /\ UNCHANGED <<writerFrame, sendCh, writing, cpc, delivered>>

WriterReceives ==
  /\ wpc = "select" /\ sendCh # << >>
  /\ writing' = Head(sendCh) /\ sendCh' = Tail(sendCh) /\ wpc' = "write"
  /\ UNCHANGED <<writerFrame, cpc, delivered>>

\* A write to a client that has just gone may succeed all the same.
Writes ==
  /\ wpc = "write" /\ ~ connClosed /\ client # "stalled"
  /\ delivered' = IF client = "up" THEN Append(delivered, writing) ELSE delivered
  /\ writing' = "none" /\ wpc' = "select"
  /\ UNCHANGED <<writerFrame, sendCh, cpc>>

\* Also the deadline of a client that does not read.
WriteFails ==
  /\ wpc = "write" /\ (connClosed \/ client # "up")
  /\ writing' = "none" /\ wpc' = "fail"
  /\ CloserAt("writer", "idle", "store")
  /\ UNCHANGED <<writerFrame, sendCh, delivered>>

WriterFailed ==
  /\ wpc = "fail" /\ CloserAt("writer", "ret", "idle")
  /\ wpc' = "ended"
  /\ UNCHANGED <<writerFrame, sendCh, writing, delivered>>

WriterStep == WriterStops \/ WriterReceives \/ Writes \/ WriteFails \/ WriterFailed

(***************************************************************************)
(* The reader                                                              *)
(***************************************************************************)
readerFrame == <<mode, client, connClosed, hpc, msg, left, traceMu, ref, sessVars, wpc,
                 writing, accepted, delivered>>

\* Mutant: the context lives on.
ReadFails_NoCancel ==
  /\ rpc = "reading" /\ (client = "gone" \/ connClosed)
  /\ rpc' = "load"
  /\ UNCHANGED <<readerFrame, ctxDone, cpc>>

\* NextReader returns an error; what the client sends before is dropped.
ReadFails ==
  /\ rpc = "reading" /\ (client = "gone" \/ connClosed)
  /\ ctxDone' = TRUE /\ rpc' = "load"
  /\ UNCHANGED <<readerFrame, cpc>>

ReadClose ==
  /\ rpc = "load"
  /\ IF ref THEN rpc' = "close" /\ CloserAt("reader", "idle", "store")
     ELSE rpc' = "ended" /\ UNCHANGED cpc
  /\ UNCHANGED <<readerFrame, ctxDone>>

ReaderEnds ==
  /\ rpc = "close" /\ CloserAt("reader", "ret", "idle")
  /\ rpc' = "ended"
  /\ UNCHANGED <<readerFrame, ctxDone>>

ReaderStep == ReadFails \/ ReadClose \/ ReaderEnds

(***************************************************************************)
(* The client and the other sessions                                       *)
(***************************************************************************)
envFrame == <<mode, connClosed, ctxDone, hpc, msg, left, ref, sessVars, wpc, writing,
              rpc, cpc, accepted, delivered>>

ClientLeaves == client # "gone" /\ client' = "gone" /\ UNCHANGED <<envFrame, traceMu>>
ClientStalls == client = "up" /\ client' = "stalled" /\ UNCHANGED <<envFrame, traceMu>>
ClientResumes == client = "stalled" /\ client' = "up" /\ UNCHANGED <<envFrame, traceMu>>

OtherLocks == traceMu = "free" /\ traceMu' = "other" /\ UNCHANGED <<envFrame, client>>
OtherUnlocks == traceMu = "other" /\ traceMu' = "free" /\ UNCHANGED <<envFrame, client>>

SessionNext ==
  \/ HandlerStep \/ Record \/ Completed \/ Failed
  \/ WriterStep \/ ReaderStep
  \/ \E c \in Closers : Closing(c)
  \/ ClientLeaves \/ ClientStalls \/ ClientResumes \/ OtherLocks \/ OtherUnlocks

SessionSpec == SessionInit /\ [][SessionNext]_sessionVars

\* Goroutines run; writes and close frames have deadlines, a lookup ends; traceMu
\* is given back and, being a mutex that favours long waiters, granted.  A trace
\* ends by itself in single mode, and in both modes when its context is done.
SessionFairness ==
  /\ WF_sessionVars(HandlerStep) /\ SF_sessionVars(LockTrace)
  /\ WF_sessionVars((mode = "single" \/ ctxDone) /\ Completed)
  /\ WF_sessionVars(WriterStep) /\ WF_sessionVars(ReaderStep)
  /\ \A c \in Closers : WF_sessionVars(Closing(c))
  /\ WF_sessionVars(OtherUnlocks)

SessionFairSpec == SessionSpec /\ SessionFairness

(***************************************************************************)
(* Properties                                                              *)
(***************************************************************************)
Messages == {"start", "record", "complete", "error"}

SessionTypeOK ==
  /\ mode \in Modes
  /\ client \in {"up", "stalled", "gone"}
  /\ connClosed \in BOOLEAN /\ ctxDone \in BOOLEAN /\ ref \in BOOLEAN
  /\ hpc \in {"prepare", "new", "ref", "send", "enqueue", "slow", "check", "lock",
              "setup", "tracing", "finish", "wait", "close", "deferred", "returned"}
  /\ msg \in Messages \cup {"none"} /\ writing \in Messages \cup {"none"}
  /\ left \in 0 .. Records
  /\ traceMu \in {"free", "mine", "other"}
  /\ closed \in BOOLEAN /\ chClosed \in BOOLEAN /\ stopCh \in BOOLEAN
  /\ sendCh \in Seq(Messages) /\ Len(sendCh) <= QueueSize
  /\ closeOnce \in {"no", "running", "done"}
  /\ code \in {"none", "try_again", "internal", "normal"}
  /\ wpc \in {"none", "select", "write", "fail", "ended"}
  /\ rpc \in {"reading", "load", "close", "ended"}
  /\ cpc \in [Closers -> {"idle", "store", "once", "stop", "control", "conn", "ret"}]
  /\ accepted \in Seq(Messages) /\ delivered \in Seq(Messages)

\* A session that nobody broke off has told its client everything it accepted,
\* in order, and the outcome last, before it closed the connection
\* (finish waits for the writer, the writer drains a closed channel).
NothingLost ==
  /\ IsPrefix(delivered, accepted)
  /\ hpc = "returned" /\ ref /\ client = "up" /\ code = "none"
     => delivered = accepted /\ Last(accepted) \in {"complete", "error"}

\* When the handler has returned nobody uses the connection or the lock: the
\* writer has ended and nobody waits in closeOnce (finish).
ReturnsClean ==
  hpc = "returned" =>
    /\ connClosed /\ traceMu # "mine"
    /\ wpc \in {"none", "ended"}
    /\ closeOnce # "running"

\* A session delivers what it accepted and leaves nothing behind.
SessionSound == NothingLost /\ ReturnsClean

\* A client that has gone ends its session: trace, goroutines and connection, also when
\* it goes before there is a session to close (the reader's cancel and sessionRef); and
\* a session closed for any reason, a client too slow or a failed write included, ends
\* the trace that feeds it.
SessionEnds ==
  /\ client = "gone" ~> /\ hpc = "returned" /\ connClosed
                        /\ rpc = "ended" /\ wpc \in {"none", "ended"}
  /\ closed ~> hpc = "returned"

=============================================================================
