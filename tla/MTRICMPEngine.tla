--------------------------- MODULE MTRICMPEngine ---------------------------
(***************************************************************************)
(* The persistent ICMP engine under the MTR scheduler: concurrent calls of *)
(* ProbeTTL, the listener's callback onICMP, Reset, and the rotation of    *)
(* socket and echo identifier when the 16-bit sequence number would wrap   *)
(* (trace/mtr_runner.go).                                                  *)
(*                                                                         *)
(* sendMu serialises the allocation of sequence numbers and the rotation;  *)
(* mu protects the maps sentAt, replied and probeNotify; e.spec and        *)
(* e.echoID are read by sendProbe under neither.  Every region between two *)
(* lock operations, and every unprotected read, is a step of its own.      *)
(*                                                                         *)
(* Data: a call stands for its TTL, its channel done and its packet; the   *)
(* answer to a packet names the call that sent it.  Time is left out: a    *)
(* timer may fire whenever it runs, and the RTT of an answer is in range   *)
(* or not.                                                                 *)
(***************************************************************************)
EXTENDS Integers, FiniteSets, Functions

CONSTANTS
  Calls,        \* calls of ProbeTTL, each made once
  MaxSeq,       \* 0xFFFF, the largest sequence number
  MaxRotations, \* bound of the model
  MaxResets     \* bound of the model

ASSUME EngineAssumption ==
  /\ IsFiniteSet(Calls) /\ Calls \cap {"none", "error", "timeout"} = {}
  /\ MaxSeq \in Nat \ {0}
  /\ {MaxRotations, MaxResets} \subseteq Nat

None == "none"
Nil == -1
Specs == 0 .. MaxRotations
EchoIDs == 0 .. MaxRotations
Seqs == 1 .. MaxSeq

VARIABLES
  call,        \* per call: where it is and its local variables
  sendMu,      \* the call that holds sendMu
  seqCounter,
  spec,        \* the number of the current socket, or Nil
  closed,      \* the sockets that have been closed
  ids,         \* per socket, the identifier its listener accepts
  echoID,
  roundID,
  sentAt,      \* seq -> the call registered and its round
  replied,     \* seq -> the answer, named by the call whose packet it answers
  probeNotify, \* seq -> the call whose channel done is registered
  done,        \* the calls whose channel done is closed
  air,         \* packets on the way: a call may be answered any number of times
  held,        \* per socket, the answer its listener has decoded, if any
  reset,       \* Reset of the scheduler's loop: idle, or between its two steps
  cancelled,   \* ctx is done
  panicked,    \* a method of a nil spec has been called
  passed       \* history: calls that had not sent when a rotation began

engineVars == <<sendMu, seqCounter, spec, closed, ids, echoID>>
mapVars == <<sentAt, replied, probeNotify, done>>
vars == <<call, engineVars, roundID, mapVars, air, held, reset, cancelled, panicked, passed>>

(***************************************************************************)
(* Calls                                                                   *)
(***************************************************************************)
IdleCall == [pc |-> "idle", seq |-> 0, round |-> 0, id |-> Nil, result |-> None]

Init ==
  /\ call = [c \in Calls |-> IdleCall]
  /\ sendMu = None
  /\ seqCounter = 0
  /\ spec = 0 /\ closed = {}
  /\ ids = [s \in Specs |-> IF s = 0 THEN 0 ELSE Nil]
  /\ echoID = 0
  /\ roundID = 0
  /\ sentAt = << >> /\ replied = << >> /\ probeNotify = << >>
  /\ done = {}
  /\ air = {}
  /\ held = [s \in Specs |-> {}]
  /\ reset = "idle"
  /\ cancelled = FALSE /\ panicked = FALSE /\ passed = {}

Active == {c \in Calls : call[c].pc \notin {"idle", "lock", "returned"}}
Unsent == {c \in Calls : call[c].pc \in {"load", "register", "header", "send"}}

At(c, pc) == call[c].pc = pc /\ ~ panicked

Without(f, seq) == Restrict(f, DOMAIN f \ {seq})
With(f, seq, v) == [s \in DOMAIN f \cup {seq} |-> IF s = seq THEN v ELSE f[s]]

Return(c, result) ==
  call' = [call EXCEPT ![c].pc = "returned", ![c].result = result]

\* The scheduler's loop starts a goroutine; it is not in Reset meanwhile.
Launch(c) ==
  /\ At(c, "idle") /\ reset = "idle" /\ ~ cancelled
  /\ call' = [call EXCEPT ![c].pc = "lock"]
  /\ UNCHANGED <<engineVars, roundID, mapVars, air, held, reset, cancelled, panicked, passed>>

seqWillWrap(counter, probeCount) ==
  (counter % (MaxSeq + 1)) + probeCount > MaxSeq

\* No goroutine of this process sleeps while MaxSeq others probe: a number is
\* handed out again only when the call that had it has returned and the old
\* listeners have dealt with its answer.  The network is not held to that.
NotLapped(seq) ==
  /\ \A c \in Active : call[c].seq # seq
  /\ \A s \in closed : \A p \in held[s] : p.seq # seq

Alloc(c, counter) ==
  LET seq == (counter + 1) % (MaxSeq + 1)
  IN /\ NotLapped(seq)
     /\ seqCounter' = counter + 1
     /\ call' = [call EXCEPT ![c].pc = "load", ![c].seq = seq]

\* sendMu is taken, no rotation is due, and it is released.
Allocate(c) ==
  /\ At(c, "lock") /\ sendMu = None
  /\ ~ seqWillWrap(seqCounter, 1)
  /\ Alloc(c, seqCounter)
  /\ UNCHANGED <<sendMu, spec, closed, ids, echoID, roundID, mapVars, air, held,
                 reset, cancelled, panicked, passed>>

(***************************************************************************)
(* rotateEngine, under sendMu                                              *)
(***************************************************************************)
\* e.spec.Close() of a nil spec panics.  Calls with one of the last numbers may
\* be passed before they have sent.
RotateClose(c) ==
  /\ At(c, "lock") /\ sendMu = None
  /\ seqWillWrap(seqCounter, 1)
  /\ Cardinality(closed) < MaxRotations
  /\ \A q \in Unsent : call[q].seq > MaxSeq \div 2
  /\ passed' = passed \cup Unsent
  /\ sendMu' = c
  /\ IF spec = Nil
     THEN panicked' = TRUE /\ UNCHANGED <<call, closed>>
     ELSE /\ closed' = closed \cup {spec}
          /\ call' = [call EXCEPT ![c].pc = "rotateID"]
          /\ UNCHANGED panicked
  /\ UNCHANGED <<seqCounter, spec, ids, echoID, roundID, mapVars, air, held, reset,
                 cancelled>>

\* The identifier is drawn at random; it need not differ from the old one.
RotateID(c) ==
  /\ At(c, "rotateID")
  /\ \E id \in EchoIDs :
       echoID' = id
  /\ call' = [call EXCEPT ![c].pc = "rotateSpec"]
  /\ UNCHANGED <<sendMu, seqCounter, spec, closed, ids, roundID, mapVars, air, held,
                 reset, cancelled, panicked, passed>>

RotateSpec(c) ==
  /\ At(c, "rotateSpec")
  /\ seqCounter' = 0
  /\ spec' = spec + 1
  /\ call' = [call EXCEPT ![c].pc = "rotateMaps"]
  /\ UNCHANGED <<sendMu, closed, ids, echoID, roundID, mapVars, air, held, reset,
                 cancelled, panicked, passed>>

\* Mutant: the waiting calls are forgotten without a word.
ClearMaps_Silent ==
  /\ sentAt' = << >> /\ replied' = << >> /\ probeNotify' = << >>
  /\ UNCHANGED done

\* Close every channel registered and start over with empty maps.
ClearMaps ==
  /\ done' = done \cup Range(probeNotify)
  /\ sentAt' = << >> /\ replied' = << >> /\ probeNotify' = << >>

\* The listener of the new socket starts afterwards.
RotateMaps(c) ==
  /\ At(c, "rotateMaps")
  /\ ClearMaps
  /\ ids' = [ids EXCEPT ![spec] = echoID]
  /\ call' = [call EXCEPT ![c].pc = "rotateWait"]
  /\ UNCHANGED <<sendMu, seqCounter, spec, closed, echoID, roundID, air, held, reset, cancelled, panicked, passed>>

\* The listener is ready; the call goes on to take its number.
RotateReady(c) ==
  /\ At(c, "rotateWait")
  /\ Alloc(c, seqCounter)
  /\ sendMu' = None
  /\ UNCHANGED <<spec, closed, ids, echoID, roundID, mapVars, air, held, reset,
                 cancelled, panicked, passed>>

\* ctx is done or five seconds are over: e.close() and an error.
RotateFails(c) ==
  /\ At(c, "rotateWait")
  /\ closed' = closed \cup {spec}
  /\ spec' = Nil
  /\ sendMu' = None
  /\ Return(c, "error")
  /\ UNCHANGED <<seqCounter, ids, echoID, roundID, mapVars, air, held, reset,
                 cancelled, panicked, passed>>

(***************************************************************************)
(* The rest of ProbeTTL                                                    *)
(***************************************************************************)
LoadRound(c) ==
  /\ At(c, "load")
  /\ call' = [call EXCEPT ![c].pc = "register", ![c].round = roundID]
  /\ UNCHANGED <<engineVars, roundID, mapVars, air, held, reset, cancelled, panicked, passed>>

Register(c) ==
  LET seq == call[c].seq
  IN /\ At(c, "register")
     /\ sentAt' = With(sentAt, seq, [call |-> c, round |-> call[c].round])
     /\ probeNotify' = With(probeNotify, seq, c)
     /\ call' = [call EXCEPT ![c].pc = "header"]
     /\ UNCHANGED <<engineVars, roundID, replied, done, air, held, reset, cancelled,
                    panicked, passed>>

\* sendProbe builds the header with e.echoID ...
Header(c) ==
  /\ At(c, "header")
  /\ call' = [call EXCEPT ![c].pc = "send", ![c].id = echoID]
  /\ UNCHANGED <<engineVars, roundID, mapVars, air, held, reset, cancelled, panicked, passed>>

\* ... and then sends it with e.spec.  SendICMP looks at ctx first, then at the
\* fields of the spec.
Send(c) ==
  /\ At(c, "send") /\ ~ cancelled /\ spec # Nil /\ spec \notin closed
  /\ air' = air \cup {[call |-> c, id |-> call[c].id, seq |-> call[c].seq]}
  /\ call' = [call EXCEPT ![c].pc = "wait"]
  /\ UNCHANGED <<engineVars, roundID, mapVars, held, reset, cancelled, panicked, passed>>

\* The context, a closed socket or the system refuses.
SendFails(c) ==
  /\ At(c, "send")
  /\ cancelled \/ spec # Nil
  /\ call' = [call EXCEPT ![c].pc = "rollback"]
  /\ UNCHANGED <<engineVars, roundID, mapVars, air, held, reset, cancelled, panicked, passed>>

SendPanics(c) ==
  /\ At(c, "send") /\ ~ cancelled /\ spec = Nil
  /\ panicked' = TRUE
  /\ UNCHANGED <<call, engineVars, roundID, mapVars, air, held, reset, cancelled, passed>>

closeProbeNotifyLocked(seq) ==
  /\ done' = done \cup (IF seq \in DOMAIN probeNotify THEN {probeNotify[seq]} ELSE {})
  /\ probeNotify' = Without(probeNotify, seq)

Rollback(c) ==
  LET seq == call[c].seq
  IN /\ At(c, "rollback")
     /\ sentAt' = Without(sentAt, seq)
     /\ closeProbeNotifyLocked(seq)
     /\ Return(c, IF cancelled THEN "error" ELSE "timeout")
     /\ UNCHANGED <<engineVars, roundID, replied, air, held, reset, cancelled, panicked, passed>>

\* done is closed: take the answer, if there is one.
Take(c) ==
  LET seq == call[c].seq
  IN /\ At(c, "wait") /\ c \in done
     /\ replied' = Without(replied, seq)
     /\ Return(c, IF seq \in DOMAIN replied THEN replied[seq] ELSE "timeout")
     /\ UNCHANGED <<engineVars, roundID, sentAt, probeNotify, done, air, held, reset,
                    cancelled, panicked, passed>>

\* The timer, or ctx: select may choose either although done is closed too.
\* replied[seq] stays.
Expire(c) ==
  LET seq == call[c].seq
  IN /\ At(c, "wait")
     /\ sentAt' = Without(sentAt, seq)
     /\ probeNotify' = Without(probeNotify, seq)
     /\ \/ Return(c, "timeout")
        \/ cancelled /\ Return(c, "error")
     /\ UNCHANGED <<engineVars, roundID, replied, done, air, held, reset, cancelled,
                    panicked, passed>>

(***************************************************************************)
(* The listeners                                                           *)
(***************************************************************************)
\* Mutant: the identifier is not compared.
Receive_AnyID(s) ==
  /\ s \in Specs \ closed /\ ids[s] # Nil /\ held[s] = {} /\ ~ panicked
  /\ \E p \in air : held' = [held EXCEPT ![s] = {p}]
  /\ UNCHANGED <<call, engineVars, roundID, mapVars, air, reset, cancelled, panicked, passed>>

\* A listener reads an answer that carries its identifier.  What it has read
\* it handles, also after its socket is closed.
Receive(s) ==
  /\ s \in Specs \ closed /\ ids[s] # Nil /\ held[s] = {} /\ ~ panicked
  /\ \E p \in air : p.id = ids[s] /\ held' = [held EXCEPT ![s] = {p}]
  /\ UNCHANGED <<call, engineVars, roundID, mapVars, air, reset, cancelled, panicked, passed>>

\* Mutant: the round is not compared.
shouldDiscardProbeReplyLocked_AnyRound(meta, inRange) == ~ inRange
shouldDiscardProbeReplyLocked(meta, inRange) == meta.round # roundID \/ ~ inRange

\* inRange: the RTT is positive and not over the timeout.
onICMP(s, inRange) ==
  \E p \in held[s] :
    /\ ~ panicked
    /\ held' = [held EXCEPT ![s] = {}]
    /\ IF p.seq \notin DOMAIN sentAt THEN UNCHANGED mapVars
       ELSE /\ replied' = IF shouldDiscardProbeReplyLocked(sentAt[p.seq], inRange)
                          THEN replied ELSE With(replied, p.seq, p.call)
            /\ sentAt' = Without(sentAt, p.seq)
            /\ closeProbeNotifyLocked(p.seq)
    /\ UNCHANGED <<call, engineVars, roundID, air, reset, cancelled, panicked, passed>>

(***************************************************************************)
(* Reset and the end                                                       *)
(***************************************************************************)
\* knownFinalTTL, which Reset clears too, is read by probeRound only.
ResetBump ==
  /\ reset = "idle" /\ roundID < MaxResets /\ ~ cancelled /\ ~ panicked
  /\ roundID' = roundID + 1
  /\ reset' = "bumped"
  /\ UNCHANGED <<call, engineVars, mapVars, air, held, cancelled, panicked, passed>>

ResetClear ==
  /\ reset = "bumped" /\ ~ panicked
  /\ ClearMaps
  /\ reset' = "idle"
  /\ UNCHANGED <<call, engineVars, roundID, air, held, cancelled, panicked, passed>>

Cancel ==
  /\ ~ cancelled /\ ~ panicked
  /\ cancelled' = TRUE
  /\ UNCHANGED <<call, engineVars, roundID, mapVars, air, held, reset, panicked, passed>>

Step(c) ==
  \/ Allocate(c) \/ RotateClose(c) \/ RotateID(c) \/ RotateSpec(c)
  \/ RotateMaps(c) \/ RotateReady(c) \/ RotateFails(c)
  \/ LoadRound(c) \/ Register(c) \/ Header(c) \/ Send(c) \/ SendFails(c)
  \/ SendPanics(c) \/ Rollback(c) \/ Take(c) \/ Expire(c)

Next ==
  \/ \E c \in Calls : Launch(c)
  \/ \E c \in Calls : Step(c)
  \/ \E s \in Specs : Receive(s)
  \/ \E s \in Specs, inRange \in BOOLEAN : onICMP(s, inRange)
  \/ ResetBump
  \/ ResetClear
  \/ Cancel

Spec == Init /\ [][Next]_vars

(***************************************************************************)
(* Properties                                                              *)
(***************************************************************************)
PCs == {"idle", "lock", "rotateID", "rotateSpec", "rotateMaps", "rotateWait",
        "load", "register", "header", "send", "rollback", "wait", "returned"}

Results == {None, "error", "timeout"} \cup Calls

\* Types; the number 0 is never put on the wire.
TypeOK ==
  /\ \A c \in Calls : /\ call[c].pc \in PCs /\ call[c].result \in Results
                      /\ call[c].seq \in Seqs \cup {0}
  /\ sendMu \in Calls \cup {None}
  /\ seqCounter \in Nat
  /\ spec \in Specs \cup {Nil} /\ closed \subseteq Specs
  /\ DOMAIN sentAt \subseteq Seqs /\ DOMAIN replied \subseteq Seqs
  /\ probeNotify \in [DOMAIN probeNotify -> Calls]
  /\ \A p \in air : p.seq \in Seqs
  /\ roundID \in 0 .. MaxResets

\* No two sockets of this process have had the same identifier.
FreshIDs == \A s, t \in Specs : ids[s] = ids[t] /\ ids[s] # Nil => s = t

\* The answer a call returns is the answer to its own packet, although numbers
\* are used again after a rotation and answers may be delayed without limit
\* (rotateEngine: the new listener accepts only the new identifier): as long as
\* the identifiers drawn differ and no rotation has passed a call that had its
\* number and had not sent.  Both exceptions are real.
RightReply ==
  FreshIDs /\ passed = {} =>
    \A c \in Calls : call[c].result \in Calls => call[c].result = c

\* A call that waits can be woken: its channel is closed, or onICMP and Reset
\* both find it under its number.  No rotation, reset, rollback or expiry of
\* another call takes its entries away without closing the channel.
WaiterReachable ==
  \A c \in Calls : call[c].pc = "wait" /\ c \notin done =>
    LET seq == call[c].seq
    IN /\ seq \in DOMAIN sentAt /\ sentAt[seq].call = c
       /\ seq \in DOMAIN probeNotify /\ probeNotify[seq] = c

\* Once Reset has cleared the maps, no call that was registered with an older
\* round takes an answer (shouldDiscardProbeReplyLocked for those that
\* registered late).
StaleRoundFails ==
  [][\A c \in Calls :
       call[c].result = None /\ call'[c].result \in Calls =>
         call[c].round = roundID \/ reset = "bumped"]_vars

\* The comment of ProbeTTL: it ends with an answer, a timeout or the context's
\* error.  It does not crash on a nil spec.
NeverPanics == ~ panicked

\* Nobody waits for nobody: when no call can take a step, each one has returned
\* or was not made, however rotations failed and whatever was cancelled
\* (sendMu is released on every way out of ProbeTTL).
NoCallStuck ==
  \/ panicked
  \/ ENABLED \E c \in Calls : Step(c)
  \/ \A c \in Calls : call[c].pc \in {"idle", "returned"}

\* Whoever waits is woken and somebody can always go on.
WaitersServed == WaiterReachable /\ NoCallStuck
=============================================================================
