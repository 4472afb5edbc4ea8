------------------------- MODULE MTUDiscoveryProofs -------------------------
(***************************************************************************)
(* Proofs about MTUDiscovery for paths of any length, any link sizes, any  *)
(* number of ports, queries and hops.  The inductive invariant follows a   *)
(* size from the link that caused it to the result: sizes in answers are   *)
(* sizes of links below the largest probe, the path MTU never falls below  *)
(* a link it was learned from, probes are never smaller than the path MTU, *)
(* and whoever reached the destination fits every link.                    *)
(***************************************************************************)
EXTENDS MTUDiscovery, SequenceTheorems, TLAPS

(***************************************************************************)
(* The inductive invariant                                                 *)
(***************************************************************************)
AttemptsLeft == pc = "probe" => attempt < Queries

\* The probe never grows.
ProbeBound == probeMTU <= ProbeSize

\* An error that names a size names a link the largest probe does not fit.
Honest(a) ==
  a.event = "frag_needed" /\ a.pmtu > 0 =>
    \E h \in 1 .. dist : a.pmtu = link[h] /\ link[h] < ProbeSize

\* A probe of the present size would reach the destination.
FitsAll == \A h \in 1 .. dist : PacketSize <= link[h]

LateHonest ==
  \A l \in late : /\ Honest(l.answer)
                  /\ l.answer.event = "destination" => FitsAll

DestinationFits == Reached \/ cur.hop.event = "destination" => FitsAll

PathMTUFromLink ==
  /\ pathMTU <= startMTU
  /\ pathMTU = startMTU \/ \E h \in 1 .. dist : link[h] <= pathMTU

ProbeCoversPath ==
  \/ probeMTU = ProbeSize /\ pathMTU = startMTU
  \/ pathMTU <= probeMTU

IInv ==
  /\ TypeOK
  /\ AttemptsLeft
  /\ ProbeBound
  /\ LateHonest
  /\ DestinationFits
  /\ PathMTUFromLink
  /\ ProbeCoversPath
  /\ FatalJustified

(***************************************************************************)
(* Sizes and answers                                                       *)
(***************************************************************************)
\* candidatePathMTU: of two known sizes the smaller, and an unknown discovery
\* changes nothing.
LEMMA CandidateMin ==
  ASSUME NEW c \in Nat, NEW d \in Nat
  PROVE  /\ candidatePathMTU(c, d) \in Nat
         /\ d = 0 => candidatePathMTU(c, d) = c
         /\ c > 0 /\ d > 0 => /\ candidatePathMTU(c, d) \in {c, d}
                              /\ candidatePathMTU(c, d) <= c
                              /\ candidatePathMTU(c, d) <= d
BY DEF candidatePathMTU

\* What the type invariant says about the sizes.
LEMMA SizesAreNumbers ==
  ASSUME TypeOK
  PROVE  /\ dist \in Nat \ {0} /\ ttl \in Nat
         /\ \A h \in 1 .. dist : link[h] \in Nat \ {0}
         /\ startMTU \in Nat \ {0} /\ pathMTU \in Nat \ {0} /\ probeMTU \in Nat \ {0}
         /\ PacketSize \in Nat \ {0} /\ probeMTU <= PacketSize
         /\ ProbeBound => PacketSize <= ProbeSize
<1>1. dist \in Nat \ {0} /\ ttl \in Nat
  BY MTUAssumption DEF TypeOK
<1>2. \A h \in 1 .. dist : link[h] \in Sizes
  BY DEF TypeOK
<1>3. \A h \in 1 .. dist : link[h] \in Nat \ {0}
  BY <1>2, MTUAssumption
<1>4. startMTU \in Nat \ {0} /\ pathMTU \in Nat \ {0} /\ probeMTU \in Nat \ {0}
  BY MTUAssumption DEF TypeOK
<1>5. PacketSize \in Nat \ {0} /\ probeMTU <= PacketSize
  BY <1>4, MTUAssumption DEF PacketSize
<1>6. ProbeBound => PacketSize <= ProbeSize
  BY <1>4, MTUAssumption DEF PacketSize, ProbeBound
<1> QED
  BY <1>1, <1>3, <1>4, <1>5, <1>6

\* The network's answers have the shape of a hop, are honest about sizes and
\* come from the destination only for packets that fit every link.
LEMMA AnswersHonest ==
  ASSUME TypeOK, ProbeBound, NEW a \in Answers(PacketSize, ttl)
  PROVE  /\ a \in Hops
         /\ Honest(a)
         /\ a.event = "destination" => FitsAll
<1>1. /\ PacketSize \in Nat \ {0} /\ PacketSize <= ProbeSize
      /\ \A h \in 1 .. dist : link[h] \in Nat \ {0}
      /\ dist \in Nat /\ ttl \in Nat
  BY SizesAreNumbers
<1>2. CASE \E h \in {g \in 2 .. dist : g <= ttl /\ Fits(PacketSize, g - 1) /\ link[g] < PacketSize},
              told \in BOOLEAN : a = Hop("frag_needed", h - 1, IF told THEN link[h] ELSE 0)
  BY <1>1, <1>2, MTUAssumption DEF Hop, Hops, Events, Honest
<1>3. CASE ttl < dist /\ a = Hop("time_exceeded", ttl, 0)
  BY <1>1, <1>3 DEF Hop, Hops, Events, Honest
<1>4. CASE Fits(PacketSize, dist) /\ a = Hop("destination", dist, 0)
  BY <1>1, <1>4 DEF Hop, Hops, Events, Honest, Fits, FitsAll
<1> QED
  BY <1>2, <1>3, <1>4 DEF Answers

\* While the path stays and the probe does not grow, what fitted still fits and
\* what was honest stays honest.
LEMMA FitsStays ==
  ASSUME TypeOK, UNCHANGED <<dist, link>>,
         probeMTU' \in Nat, probeMTU' <= probeMTU
  PROVE  /\ FitsAll => FitsAll'
         /\ \A a : Honest(a) => Honest(a)'
<1>1. PacketSize' \in Nat /\ PacketSize' <= PacketSize
  BY SizesAreNumbers, MTUAssumption DEF PacketSize
<1>2. FitsAll => FitsAll'
  BY <1>1, SizesAreNumbers DEF FitsAll
<1> QED
  BY <1>2 DEF Honest

\* The same for the answers on the way, to which one may have been added.
LEMMA LateStays ==
  ASSUME TypeOK, ProbeBound, LateHonest, UNCHANGED <<dist, link>>,
         probeMTU' \in Nat, probeMTU' <= probeMTU,
         late' = late \/ MayComeLater
  PROVE  /\ late' \subseteq [port : Nat, answer : Hops]
         /\ LateHonest'
<1>1. /\ FitsAll => FitsAll'
      /\ \A a : Honest(a) => Honest(a)'
  BY FitsStays
<1>2. CASE late' = late
  BY <1>1, <1>2 DEF LateHonest, TypeOK
<1>3. CASE MayComeLater /\ late' # late
  <2>1. PICK a \in Answers(PacketSize, ttl) :
          late' = late \cup {[port |-> probeDstPort(token), answer |-> a]}
    BY <1>3 DEF MayComeLater
  <2>2. probeDstPort(token) \in Nat
    BY MTUAssumption DEF TypeOK, probeDstPort
  <2>3. a \in Hops /\ Honest(a) /\ (a.event = "destination" => FitsAll)
    BY AnswersHonest
  <2>4. late' \subseteq [port : Nat, answer : Hops]
    BY <2>1, <2>2, <2>3 DEF TypeOK
  <2>5. LateHonest'
    BY <2>1, <2>3, <1>1 DEF LateHonest
  <2> QED
    BY <2>4, <2>5
<1> QED
  BY <1>2, <1>3

(***************************************************************************)
(* The steps                                                               *)
(***************************************************************************)
\* The next token, a uint32, stays in its range.
LEMMA TokenInRange ==
  ASSUME TypeOK, NextToken
  PROVE  token' \in 0 .. Tokens
<1>1. token + 1 \in Int /\ Tokens \in Nat \ {0}
  BY MTUAssumption DEF TypeOK
<1>2. (token + 1) % Tokens \in 0 .. Tokens - 1
  BY <1>1
<1> QED
  BY <1>1, <1>2 DEF NextToken

\* A refused packet shrinks the probe to a size that is the path MTU, the local
\* link's, or not below the local link's.
LEMMA RefusedShrinks ==
  ASSUME IInv, NEW r \in Reported, LocalMTUError(r)
  PROVE  /\ probeMTU' \in Nat \ {0} /\ probeMTU' < probeMTU
         /\ pathMTU' \in Nat \ {0} /\ pathMTU' <= pathMTU /\ pathMTU' <= probeMTU'
         /\ pathMTU' = pathMTU \/ link[1] <= pathMTU'
<1> DEFINE known == IF r <= 0 THEN pathMTU ELSE r
           next  == nextLocalProbeMTU(probeMTU, known)
<1>1. /\ link[1] \in Nat \ {0} /\ pathMTU \in Nat \ {0} /\ probeMTU \in Nat \ {0}
      /\ r \in Nat
  BY SizesAreNumbers DEF IInv, Reported
<1>2. /\ PacketSize > link[1]
      /\ ~ CannotShrink(probeMTU, known)
      /\ probeMTU' = next
      /\ pathMTU' = candidatePathMTU(pathMTU, next)
  BY DEF LocalMTUError
<1>3. known \in Nat \ {0} /\ known \in {pathMTU, link[1], probeMTU}
  BY <1>1 DEF Reported
<1>4. CASE known < probeMTU
  <2>1. next = known
    BY <1>1, <1>3, <1>4 DEF nextLocalProbeMTU, candidatePathMTU
  <2> QED
    BY <2>1, <1>1, <1>2, <1>3, <1>4 DEF candidatePathMTU
<1>5. CASE known >= probeMTU
  <2>1. next = probeMTU - 1 /\ probeMTU > MinMTU
    BY <1>1, <1>2, <1>3, <1>5, MTUAssumption
    DEF nextLocalProbeMTU, candidatePathMTU, CannotShrink
  <2>2. link[1] <= next
    BY <2>1, <1>1, <1>2, MTUAssumption DEF PacketSize
  <2> QED
    BY <2>1, <2>2, <1>1, <1>2, MTUAssumption DEF candidatePathMTU
<1> QED
  BY <1>1, <1>3, <1>4, <1>5

\* So it keeps the invariant (runStreamWithProber, a localMTUError).
LEMMA RefusedStep ==
  ASSUME IInv, NEW r \in Reported, LocalMTUError(r)
  PROVE  IInv'
<1> USE DEF IInv
<1>1. UNCHANGED <<dist, link, startMTU, ttl, attempt, hops, late, pc>>
  BY DEF LocalMTUError
<1>2. /\ probeMTU' \in Nat \ {0} /\ probeMTU' < probeMTU
      /\ pathMTU' \in Nat \ {0} /\ pathMTU' <= pathMTU /\ pathMTU' <= probeMTU'
      /\ pathMTU' = pathMTU \/ link[1] <= pathMTU'
  BY RefusedShrinks
<1>3. /\ dist \in Nat \ {0} /\ probeMTU \in Nat \ {0} /\ pathMTU \in Nat \ {0}
      /\ startMTU \in Nat \ {0}
      /\ \A h \in 1 .. dist : link[h] \in Nat \ {0}
  BY SizesAreNumbers
<1>4. cur' \in [hop : Hops, gotHop : BOOLEAN, ttlPMTU : Nat, ttlSawRemote : BOOLEAN]
      /\ cur'.hop = cur.hop
  <2>1. cur' = cur \/ cur' = [cur EXCEPT !.ttlPMTU = candidatePathMTU(@, probeMTU')]
    BY DEF LocalMTUError
  <2>2. candidatePathMTU(cur.ttlPMTU, probeMTU') \in Nat
    BY <1>2, CandidateMin DEF TypeOK
  <2> QED
    BY <2>1, <2>2 DEF TypeOK
<1>5. token' \in 0 .. Tokens
  BY TokenInRange DEF LocalMTUError
<1>6. probeMTU' <= probeMTU /\ probeMTU' \in Nat
  BY <1>2, <1>3
<1>7. LateHonest'
  BY <1>1, <1>6, LateStays
<1>8. DestinationFits'
  BY <1>1, <1>4, <1>6, FitsStays DEF DestinationFits, Reached
<1>9. TypeOK'
  BY <1>1, <1>2, <1>4, <1>5 DEF TypeOK
<1>10. AttemptsLeft' /\ FatalJustified'
  BY <1>1 DEF AttemptsLeft, FatalJustified
<1>11. PathMTUFromLink' /\ ProbeCoversPath' /\ ProbeBound'
  BY <1>1, <1>2, <1>3, MTUAssumption DEF PathMTUFromLink, ProbeCoversPath, ProbeBound
<1> QED
  BY <1>7, <1>8, <1>9, <1>10, <1>11

\* An answer keeps the invariant, whichever probe it belongs to, as long as it
\* is honest; what is on the way is the caller's part.
LEMMA HandleStep ==
  ASSUME IInv, pc = "probe", NEW a \in Hops, Honest(a),
         a.event = "destination" => FitsAll, Handle(a)
  PROVE  /\ UNCHANGED <<dist, link>> /\ probeMTU' \in Nat /\ probeMTU' <= probeMTU
         /\ LateHonest' /\ late' \subseteq [port : Nat, answer : Hops] => IInv'
<1> USE DEF IInv
<1> DEFINE Curs == [hop : Hops, gotHop : BOOLEAN, ttlPMTU : Nat, ttlSawRemote : BOOLEAN]
<1>1. /\ UNCHANGED <<dist, link, startMTU, ttl, hops>>
      /\ attempt' = attempt + 1 /\ NextToken
      /\ TooBig(a) \/ Answered(a)
  BY DEF Handle
<1>2. /\ dist \in Nat \ {0} /\ probeMTU \in Nat \ {0} /\ pathMTU \in Nat \ {0}
      /\ startMTU \in Nat \ {0} /\ a.pmtu \in Nat
      /\ \A h \in 1 .. dist : link[h] \in Nat \ {0}
  BY SizesAreNumbers DEF Hops
<1>3. /\ attempt' \in 0 .. Queries
      /\ pc' \in {"probe", "ttl_end"}
      /\ AttemptsLeft'
  <2>1. attempt \in Nat /\ attempt < Queries /\ Queries \in Nat
    BY MTUAssumption DEF AttemptsLeft, TypeOK
  <2>2. pc' = "ttl_end" \/ LoopTest
    BY <1>1 DEF TooBig, Answered
  <2> QED
    BY <2>1, <2>2, <1>1 DEF LoopTest, AttemptsLeft
<1>4. /\ probeMTU' \in Nat \ {0} /\ probeMTU' <= probeMTU
      /\ pathMTU' \in Nat \ {0} /\ pathMTU' <= pathMTU
      /\ PathMTUFromLink' /\ ProbeCoversPath' /\ ProbeBound'
  <2>1. CASE UNCHANGED <<probeMTU, pathMTU>>
    BY <2>1, <1>1, <1>2 DEF PathMTUFromLink, ProbeCoversPath, ProbeBound
  <2>2. CASE /\ a.event = "frag_needed" /\ a.pmtu > 0
             /\ probeMTU' = candidatePathMTU(probeMTU, a.pmtu)
             /\ pathMTU' = candidatePathMTU(pathMTU, a.pmtu)
    <3>1. PICK h \in 1 .. dist : a.pmtu = link[h] /\ link[h] < ProbeSize
      BY <2>2 DEF Honest
    <3>2. /\ probeMTU' = IF a.pmtu < probeMTU THEN a.pmtu ELSE probeMTU
          /\ pathMTU' = IF a.pmtu < pathMTU THEN a.pmtu ELSE pathMTU
      BY <2>2, <1>2 DEF candidatePathMTU
    <3> QED
      BY <3>1, <3>2, <2>2, <1>1, <1>2, MTUAssumption
      DEF PathMTUFromLink, ProbeCoversPath, ProbeBound
  <2>3. CASE TooBig(a) /\ a.pmtu = 0
    <3>1. UNCHANGED <<probeMTU, pathMTU>>
      BY <2>3, <1>2, CandidateMin DEF TooBig
    <3> QED
      BY <3>1, <2>1
  <2> QED
    BY <2>1, <2>2, <2>3, <1>1, <1>2 DEF TooBig, Answered
<1>5. cur' \in Curs /\ cur'.hop.event = a.event
  <2>1. CASE TooBig(a)
    <3>1. candidatePathMTU(cur.ttlPMTU, a.pmtu) \in Nat
      BY <1>2, CandidateMin DEF TypeOK
    <3> QED
      BY <3>1, <2>1 DEF TooBig, Hops
  <2>2. CASE Answered(a)
    <3>1. PICK m \in Nat : cur' = [cur EXCEPT !.gotHop = TRUE, !.hop = [a EXCEPT !.pmtu = m]]
      <4>1. \A m \in {cur.ttlPMTU, startMTU, a.pmtu} : m \in Nat
        BY <1>2 DEF TypeOK
      <4> QED
        BY <4>1, <2>2 DEF Answered
    <3>2. [a EXCEPT !.pmtu = m] \in Hops /\ [a EXCEPT !.pmtu = m].event = a.event
      BY DEF Hops
    <3> QED
      BY <3>1, <3>2 DEF TypeOK
  <2> QED
    BY <2>1, <2>2, <1>1
<1>6. /\ FitsAll => FitsAll'
      /\ DestinationFits'
  BY <1>1, <1>4, <1>5, FitsStays DEF DestinationFits, Reached
<1>7. late' \subseteq [port : Nat, answer : Hops] => TypeOK'
  BY <1>1, <1>3, <1>4, <1>5, TokenInRange DEF TypeOK
<1>8. FatalJustified'
  BY <1>3 DEF FatalJustified
<1> QED
  BY <1>1, <1>3, <1>4, <1>6, <1>7, <1>8

\* The end of a TTL adds the hop and leaves the sizes, apart from the final
\* comparison, which changes nothing.
LEMMA EndTTLStep ==
  ASSUME IInv, EndTTL
  PROVE  IInv'
<1> USE DEF IInv
<1>1. /\ pc = "ttl_end" /\ hops' = Append(hops, FinalHop)
      /\ UNCHANGED <<dist, link, startMTU, probeMTU, token, late>>
  BY DEF EndTTL
<1>2. /\ probeMTU \in Nat \ {0} /\ pathMTU \in Nat \ {0} /\ startMTU \in Nat \ {0}
      /\ \A h \in 1 .. dist : link[h] \in Nat \ {0}
  BY SizesAreNumbers
<1>3. FinalHop \in Hops /\ FinalHop.event = cur.hop.event
  BY DEF FinalHop, TypeOK, Hops
<1>4. pathMTU' = pathMTU
  BY <1>2 DEF EndTTL, candidatePathMTU, PathMTUFromLink
<1>5. hops' \in Seq(Hops)
  BY <1>1, <1>3 DEF TypeOK
<1>6. NewTTL \in [hop : Hops, gotHop : BOOLEAN, ttlPMTU : Nat, ttlSawRemote : BOOLEAN]
      /\ NewTTL.hop.event = "timeout"
  BY DEF NewTTL, Hop, Hops, Events
<1>7. /\ ttl' \in BeginHop .. MaxHops /\ attempt' \in 0 .. Queries
      /\ pc' \in {"probe", "done"} /\ AttemptsLeft'
      /\ cur' \in {cur, NewTTL}
  BY MTUAssumption DEF EndTTL, AttemptsLeft, TypeOK
<1>8. TypeOK'
  BY <1>1, <1>4, <1>5, <1>6, <1>7 DEF TypeOK
<1>9. LateHonest'
  BY <1>1, <1>2, LateStays
<1>10. DestinationFits'
  <2>1. FitsAll => FitsAll'
    BY <1>1, <1>2, FitsStays
  <2>2. Reached' => Reached \/ FinalHop.event = "destination"
    <3>1. hops \in Seq(Hops) /\ Len(hops) \in Nat
      BY DEF TypeOK
    <3>2. \A i \in DOMAIN hops' : \/ i \in DOMAIN hops /\ hops'[i] = hops[i]
                                  \/ hops'[i] = FinalHop
      BY <3>1, <1>1, <1>3
    <3> QED
      BY <3>2 DEF Reached
  <2> QED
    BY <2>1, <2>2, <1>3, <1>6, <1>7 DEF DestinationFits
<1>11. PathMTUFromLink' /\ ProbeCoversPath' /\ ProbeBound' /\ FatalJustified'
  BY <1>1, <1>2, <1>4, <1>7 DEF PathMTUFromLink, ProbeCoversPath, ProbeBound, FatalJustified
<1> QED
  BY <1>7, <1>8, <1>9, <1>10, <1>11

\* A query without an answer, and the two ways to end early.
LEMMA OtherSteps ==
  ASSUME IInv,
         Timeout \/ Cancel \/ \E r \in Reported : LocalMTUFatal(r)
  PROVE  IInv'
<1> USE DEF IInv
<1>1. UNCHANGED <<dist, link, resVars, ttl, cur, hops>>
  BY DEF Timeout, Cancel, LocalMTUFatal
<1>2. probeMTU' \in Nat /\ probeMTU' <= probeMTU
  BY <1>1, SizesAreNumbers DEF resVars
<1>3. late' = late \/ MayComeLater
  BY DEF Timeout, Cancel, LocalMTUFatal
<1>4. LateHonest' /\ late' \subseteq [port : Nat, answer : Hops]
  BY <1>1, <1>2, <1>3, LateStays
<1>5. DestinationFits'
  BY <1>1, <1>2, FitsStays DEF DestinationFits, Reached
<1>6. token' \in 0 .. Tokens
  BY TokenInRange DEF Timeout, Cancel, LocalMTUFatal, TypeOK
<1>7. /\ attempt' \in 0 .. Queries /\ AttemptsLeft'
      /\ pc' \in {"probe", "ttl_end", "done", "too_small", "cancelled"}
  <2>1. attempt \in 0 .. Queries /\ Queries \in Nat
        /\ (pc = "probe" => attempt < Queries)
    BY MTUAssumption DEF AttemptsLeft, TypeOK
  <2>2. CASE Timeout
    BY <2>1, <2>2 DEF Timeout, Probing, LoopTest, AttemptsLeft
  <2>3. CASE Cancel \/ \E r \in Reported : LocalMTUFatal(r)
    BY <2>1, <2>3 DEF Cancel, LocalMTUFatal, AttemptsLeft
  <2> QED
    BY <2>2, <2>3
<1>8. TypeOK'
  BY <1>1, <1>4, <1>6, <1>7 DEF TypeOK, resVars
<1>9. FatalJustified'
  <2>1. CASE \E r \in Reported : LocalMTUFatal(r)
    <3>1. PacketSize > link[1] /\ probeMTU <= MinMTU
      BY <2>1 DEF LocalMTUFatal, CannotShrink
    <3> QED
      BY <3>1, <1>1, SizesAreNumbers, MTUAssumption DEF PacketSize, FatalJustified
  <2>2. CASE Timeout \/ Cancel
    BY <2>2 DEF Timeout, Cancel, LoopTest, FatalJustified
  <2> QED
    BY <2>1, <2>2
<1>10. PathMTUFromLink' /\ ProbeCoversPath' /\ ProbeBound'
  BY <1>1 DEF PathMTUFromLink, ProbeCoversPath, ProbeBound, resVars
<1> QED
  BY <1>4, <1>5, <1>7, <1>8, <1>9, <1>10

\* The probe's own answer, or one of an earlier probe with its port.
LEMMA AnswerStep ==
  ASSUME IInv, OwnAnswer \/ LateAnswer
  PROVE  IInv'
<1> USE DEF IInv
<1>1. PICK a \in Hops : /\ Honest(a) /\ Handle(a)
                        /\ a.event = "destination" => FitsAll
  <2>1. CASE OwnAnswer
    BY <2>1, AnswersHonest DEF OwnAnswer
  <2>2. CASE LateAnswer
    BY <2>2 DEF LateAnswer, LateHonest, TypeOK
  <2> QED
    BY <2>1, <2>2
<1>2. pc = "probe" /\ (late' = late \/ MayComeLater)
  BY DEF OwnAnswer, LateAnswer, Probing
<1>3. /\ UNCHANGED <<dist, link>> /\ probeMTU' \in Nat /\ probeMTU' <= probeMTU
      /\ LateHonest' /\ late' \subseteq [port : Nat, answer : Hops] => IInv'
  BY <1>1, <1>2, HandleStep
<1>4. LateHonest' /\ late' \subseteq [port : Nat, answer : Hops]
  BY <1>2, <1>3, LateStays
<1> QED
  BY <1>3, <1>4

\* The invariant holds when discovery starts.
LEMMA InitInv == Init => IInv
<1> SUFFICES ASSUME Init PROVE IInv
  OBVIOUS
<1>1. TypeOK
  BY MTUAssumption DEF Init, TypeOK, NewTTL, Hop, Hops, Events
<1>2. DestinationFits
  BY DEF Init, DestinationFits, Reached, NewTTL, Hop
<1> QED
  BY <1>1, <1>2, SizesAreNumbers, MTUAssumption
  DEF Init, IInv, AttemptsLeft, ProbeBound, LateHonest, PathMTUFromLink,
      ProbeCoversPath, FatalJustified

\* Every step keeps it.
LEMMA StepInv == IInv /\ [Next]_vars => IInv'
<1> SUFFICES ASSUME IInv, [Next]_vars PROVE IInv'
  OBVIOUS
<1>1. CASE \E r \in Reported : LocalMTUError(r)
  BY <1>1, RefusedStep
<1>2. CASE Timeout \/ Cancel \/ \E r \in Reported : LocalMTUFatal(r)
  BY <1>2, OtherSteps
<1>3. CASE OwnAnswer \/ LateAnswer
  BY <1>3, AnswerStep
<1>4. CASE EndTTL
  BY <1>4, EndTTLStep
<1>5. CASE UNCHANGED vars
  BY <1>5 DEF vars, resVars, IInv, TypeOK, AttemptsLeft, ProbeBound, LateHonest, Honest,
              FitsAll, PacketSize, DestinationFits, Reached, PathMTUFromLink,
              ProbeCoversPath, FatalJustified
<1> QED
  BY <1>1, <1>2, <1>3, <1>4, <1>5 DEF Next, Step

\* The invariant implies the properties: a run that reached the destination has
\* a probe that fits every link, so the path MTU, which the probe covers, fits
\* too, and the link it came from is as small.
LEMMA InvImplies == IInv => PathMTUExact /\ NeverTooSmall
<1> SUFFICES ASSUME IInv PROVE PathMTUExact /\ NeverTooSmall
  OBVIOUS
<1> USE DEF IInv
<1>1. /\ \A h \in 1 .. dist : link[h] \in Nat
      /\ startMTU \in Nat /\ pathMTU \in Nat /\ probeMTU \in Nat
      /\ PacketSize \in Nat /\ probeMTU <= PacketSize
  BY SizesAreNumbers
<1>2. NeverTooSmall
  BY <1>1 DEF NeverTooSmall, PathMTUFromLink
<1>3. ASSUME Reached
      PROVE  \/ \A h \in 1 .. dist : ProbeSize <= link[h] /\ pathMTU = startMTU
             \/ /\ \A h \in 1 .. dist : pathMTU <= link[h]
                /\ pathMTU <= startMTU
                /\ \/ pathMTU = startMTU
                   \/ \E h \in 1 .. dist : pathMTU = link[h]
  <2>1. \A h \in 1 .. dist : probeMTU <= link[h]
    BY <1>1, <1>3 DEF DestinationFits, FitsAll
  <2>2. CASE probeMTU = ProbeSize /\ pathMTU = startMTU
    BY <2>1, <2>2
  <2>3. CASE pathMTU <= probeMTU
    <3>1. \A h \in 1 .. dist : pathMTU <= link[h]
      BY <2>1, <2>3, <1>1
    <3> QED
      BY <3>1, <1>1 DEF PathMTUFromLink
  <2> QED
    BY <2>2, <2>3 DEF ProbeCoversPath
<1> QED
  BY <1>2, <1>3 DEF PathMTUExact

(***************************************************************************)
(* The theorems                                                            *)
(***************************************************************************)
\* The state of discovery has its types (runStreamWithProber).
THEOREM TypeCorrect == Spec => []TypeOK
<1>1. IInv => TypeOK
  BY DEF IInv
<1> QED
  BY <1>1, InitInv, StepInv, PTL DEF Spec

\* A run that reaches the destination reports the MTU of the path, for every
\* path and whatever is lost, late or withheld (runStreamWithProber).
THEOREM ResultExact == Spec => []PathMTUExact
BY InitInv, StepInv, InvImplies, PTL DEF Spec

\* No intermediate result is below what the path carries (candidatePathMTU).
THEOREM ResultNeverTooSmall == Spec => []NeverTooSmall
BY InitInv, StepInv, InvImplies, PTL DEF Spec

\* A run gives up for its size only below the smallest probe
\* (nextLocalProbeMTU).
THEOREM GivesUpJustified == Spec => []FatalJustified
<1>1. IInv => FatalJustified
  BY DEF IInv
<1> QED
  BY <1>1, InitInv, StepInv, PTL DEF Spec

(***************************************************************************)
(* Answers and TTLs                                                        *)
(***************************************************************************)
\* The tokens used so far: one for every size given up and one for every query.
TokensUsed ==
  EnoughTokens =>
    /\ token \in 1 .. Tokens - 1
    /\ token <= 1 + (ProbeSize - probeMTU) + Queries * (ttl - BeginHop) + attempt

\* As long as no port was used twice.
PortsFresh == EnoughTokens /\ token <= Ports

\* An answer on the way bears the port of an earlier token.
LatePorts == PortsFresh => \A l \in late : l.port < token - 1

\* The hop being made shows its own router, and stands next in the result.
CurrentHop ==
  /\ PortsFresh /\ cur.hop.event = "time_exceeded" => cur.hop.from = ttl
  /\ pc \in {"probe", "ttl_end"} => Len(hops) = ttl - BeginHop

HopsInv == TokensUsed /\ LatePorts /\ CurrentHop /\ HopOfItsTTL

\* A step that takes a token: either the probe shrank or a query was used up, so
\* there is another one.
LEMMA TokenTaken ==
  ASSUME IInv, TypeOK', TokensUsed, EnoughTokens, NextToken, ttl' = ttl, pc = "probe",
         \/ attempt' = attempt /\ probeMTU' < probeMTU
         \/ attempt' = attempt + 1 /\ probeMTU' <= probeMTU
  PROVE  /\ token' = token + 1 /\ token \in Nat \ {0}
         /\ TokensUsed'
<1> DEFINE q == Queries * (ttl - BeginHop)
           all == Queries * (MaxHops - BeginHop + 1)
<1>1. /\ token \in Nat \ {0} /\ attempt \in Nat /\ attempt < Queries /\ Queries \in Nat
      /\ probeMTU \in Nat \ {0} /\ probeMTU' \in Nat \ {0} /\ ProbeSize \in Nat
      /\ Tokens \in Nat /\ ttl - BeginHop \in Nat /\ MaxHops - BeginHop + 1 \in Nat
      /\ ttl - BeginHop + 1 <= MaxHops - BeginHop + 1
      /\ ProbeSize + all < Tokens
  BY MTUAssumption DEF IInv, TypeOK, TokensUsed, EnoughTokens, AttemptsLeft
<1>2. \A a, b, c \in Nat : b + 1 <= c => a * b + a <= a * c
  OBVIOUS
<1>3. q \in Nat /\ all \in Nat /\ q + Queries <= all
  BY <1>1, <1>2
<1>4. token <= 1 + (ProbeSize - probeMTU) + q + attempt
  BY DEF TokensUsed
<1> HIDE DEF q, all
<1>5. /\ token + 1 <= 1 + (ProbeSize - probeMTU') + q + attempt'
      /\ token + 1 < Tokens
  BY <1>1, <1>3, <1>4
<1>6. token' = token + 1
  <2>1. (token + 1) % Tokens = token + 1
    BY <1>1, <1>5
  <2> QED
    BY <2>1 DEF NextToken
<1> QED
  BY <1>1, <1>5, <1>6 DEF TokensUsed, q

\* A probe's own answer of a router names the router of its TTL.
LEMMA OwnRouter ==
  ASSUME NEW a \in Answers(PacketSize, ttl), a.event = "time_exceeded"
  PROVE  a.from = ttl
BY DEF Answers, Hop

\* The port of a token that has not come round.
LEMMA PortOfToken ==
  ASSUME token \in Nat \ {0}, token <= Ports
  PROVE  probeDstPort(token) = token - 1
<1>1. (token - 1) % Ports = token - 1
  BY MTUAssumption
<1> QED
  BY <1>1 DEF probeDstPort

\* What is on the way after a probe.
LEMMA LaterPorts ==
  ASSUME TypeOK, LatePorts, token \in Nat \ {0}, token' = token + 1,
         late' = late \/ MayComeLater
  PROVE  LatePorts'
<1> SUFFICES ASSUME PortsFresh', NEW l \in late'
             PROVE  l.port < token' - 1
  BY DEF LatePorts
<1>1. PortsFresh
  BY MTUAssumption DEF PortsFresh
<1>2. CASE l \in late
  BY <1>1, <1>2 DEF LatePorts, TypeOK
<1>3. CASE l \notin late
  <2>1. l.port = probeDstPort(token)
    BY <1>3 DEF MayComeLater
  <2> QED
    BY <1>1, <2>1, PortOfToken DEF PortsFresh
<1> QED
  BY <1>2, <1>3

\* A probe that is refused, lost, or answered late.
LEMMA NoAnswerHops ==
  ASSUME IInv, IInv', HopsInv, Timeout \/ \E r \in Reported : LocalMTUError(r)
  PROVE  HopsInv'
<1> USE DEF HopsInv
<1>1. /\ UNCHANGED <<ttl, hops>> /\ NextToken /\ pc = "probe" /\ cur'.hop = cur.hop
      /\ pc' \in {"probe", "ttl_end"} /\ (late' = late \/ MayComeLater)
      /\ \/ attempt' = attempt /\ probeMTU' < probeMTU
         \/ attempt' = attempt + 1 /\ probeMTU' <= probeMTU
  <2>1. CASE Timeout
    BY <2>1, SizesAreNumbers DEF Timeout, Probing, LoopTest, resVars, IInv
  <2>2. CASE \E r \in Reported : LocalMTUError(r)
    <3>1. PICK r \in Reported : LocalMTUError(r)
      BY <2>2
    <3>2. probeMTU' < probeMTU
      BY <3>1, RefusedShrinks DEF IInv
    <3>3. cur'.hop = cur.hop
      BY <3>1 DEF LocalMTUError, IInv, TypeOK
    <3> QED
      BY <3>1, <3>2, <3>3 DEF LocalMTUError, Probing
  <2> QED
    BY <2>1, <2>2
<1>2. CASE EnoughTokens
  <2>1. token' = token + 1 /\ token \in Nat \ {0} /\ TokensUsed'
    BY <1>1, <1>2, TokenTaken DEF IInv
  <2>2. LatePorts'
    BY <1>1, <2>1, LaterPorts DEF IInv
  <2>3. PortsFresh' => PortsFresh
    BY <2>1, MTUAssumption DEF PortsFresh
  <2> QED
    BY <1>1, <2>1, <2>2, <2>3 DEF CurrentHop, HopOfItsTTL, PortsFresh
<1>3. CASE ~ EnoughTokens
  BY <1>1, <1>3 DEF TokensUsed, LatePorts, CurrentHop, HopOfItsTTL, PortsFresh
<1> QED
  BY <1>2, <1>3

\* An answer: the probe's own names its router, and a late one is not taken while the
\* ports are fresh.
LEMMA AnswerHops ==
  ASSUME IInv, IInv', HopsInv, OwnAnswer \/ LateAnswer
  PROVE  HopsInv'
<1> USE DEF HopsInv
<1>1. PICK a \in Hops :
        /\ Handle(a) /\ (late' = late \/ MayComeLater)
        /\ \/ a \in Answers(PacketSize, ttl)
           \/ \E l \in late : l.port = probeDstPort(token)
  <2>1. CASE OwnAnswer
    BY <2>1, AnswersHonest DEF OwnAnswer, IInv
  <2>2. CASE LateAnswer
    <3>1. PICK l \in late : l.port = probeDstPort(token) /\ Handle(l.answer) /\ MayComeLater
      BY <2>2 DEF LateAnswer
    <3>2. l.answer \in Hops
      BY DEF IInv, TypeOK
    <3> QED
      BY <3>1, <3>2
  <2> QED
    BY <2>1, <2>2
<1>2. /\ UNCHANGED <<ttl, hops>> /\ NextToken /\ pc = "probe" /\ attempt' = attempt + 1
      /\ pc' \in {"probe", "ttl_end"}
  BY <1>1 DEF Handle, OwnAnswer, LateAnswer, Probing, TooBig, Answered, LoopTest
<1>3. probeMTU' <= probeMTU
  <2>1. probeMTU \in Nat \ {0} /\ a.pmtu \in Nat
    BY SizesAreNumbers DEF IInv, Hops
  <2> QED
    BY <1>1, <2>1 DEF Handle, TooBig, Answered, candidatePathMTU
<1>4. cur'.hop.event = a.event /\ cur'.hop.from = a.from
  <2>1. CASE TooBig(a)
    BY <2>1 DEF TooBig, Hops
  <2>2. CASE Answered(a)
    <3>1. PICK m : cur' = [cur EXCEPT !.gotHop = TRUE, !.hop = [a EXCEPT !.pmtu = m]]
      BY <2>2 DEF Answered
    <3>2. [a EXCEPT !.pmtu = m].event = a.event /\ [a EXCEPT !.pmtu = m].from = a.from
      BY DEF Hops
    <3> QED
      BY <3>1, <3>2 DEF IInv, TypeOK
  <2> QED
    BY <1>1, <2>1, <2>2 DEF Handle
<1>5. CASE EnoughTokens
  <2>1. token' = token + 1 /\ token \in Nat \ {0} /\ TokensUsed'
    BY <1>2, <1>3, <1>5, TokenTaken DEF IInv
  <2>2. LatePorts'
    BY <1>1, <2>1, LaterPorts DEF IInv
  <2>3. PortsFresh' => PortsFresh
    BY <2>1, MTUAssumption DEF PortsFresh
  <2>4. ASSUME PortsFresh PROVE a \in Answers(PacketSize, ttl)
    <3>1. probeDstPort(token) = token - 1
      BY <2>1, <2>4, PortOfToken DEF PortsFresh
    <3> QED
      BY <1>1, <2>1, <2>4, <3>1 DEF LatePorts
  <2>5. CurrentHop'
    BY <1>2, <1>4, <2>3, <2>4, OwnRouter DEF CurrentHop
  <2> QED
    BY <1>2, <2>1, <2>2, <2>3, <2>5 DEF HopOfItsTTL, PortsFresh
<1>6. CASE ~ EnoughTokens
  BY <1>2, <1>6 DEF TokensUsed, LatePorts, CurrentHop, HopOfItsTTL, PortsFresh
<1> QED
  BY <1>5, <1>6

\* The hop of a TTL becomes the next one of the result.
LEMMA EndTTLHops ==
  ASSUME IInv, IInv', HopsInv, EndTTL
  PROVE  HopsInv'
<1> USE DEF HopsInv
<1>1. /\ pc = "ttl_end" /\ hops' = Append(hops, FinalHop)
      /\ UNCHANGED <<dist, link, startMTU, probeMTU, token, late>>
      /\ \/ pc' = "done" /\ UNCHANGED <<ttl, attempt, cur>>
         \/ pc' = "probe" /\ ttl' = ttl + 1 /\ attempt' = 0 /\ cur' = NewTTL
  BY DEF EndTTL
<1>2. /\ FinalHop.event = cur.hop.event /\ FinalHop.from = cur.hop.from /\ FinalHop \in Hops
  BY DEF FinalHop, IInv, TypeOK, Hops
<1>3. /\ Len(hops) = ttl - BeginHop /\ Len(hops) \in Nat /\ ttl \in Nat /\ BeginHop \in Nat
      /\ Len(hops') = Len(hops) + 1 /\ DOMAIN hops = 1 .. Len(hops)
      /\ DOMAIN hops' = 1 .. Len(hops) + 1
      /\ \A i \in 1 .. Len(hops) : hops'[i] = hops[i]
      /\ hops'[Len(hops) + 1] = FinalHop
  <2>1. hops \in Seq(Hops) /\ ttl \in Nat /\ BeginHop \in Nat
    BY MTUAssumption DEF IInv, TypeOK
  <2> QED
    BY <1>1, <1>2, <2>1, AppendProperties, LenProperties DEF CurrentHop
<1>4. HopOfItsTTL'
  BY <1>1, <1>2, <1>3 DEF HopOfItsTTL, CurrentHop, PortsFresh
<1>5. CurrentHop'
  BY <1>1, <1>3 DEF CurrentHop, NewTTL, Hop, PortsFresh
<1>6. TokensUsed' /\ LatePorts'
  <2>1. /\ attempt \in Nat /\ attempt <= Queries /\ Queries \in Nat /\ ttl - BeginHop \in Nat
        /\ probeMTU \in Nat /\ ProbeSize \in Nat /\ Tokens \in Nat /\ token \in Nat
    BY MTUAssumption, <1>3 DEF IInv, TypeOK
  <2>2. Queries * ((ttl + 1) - BeginHop) = Queries * (ttl - BeginHop) + Queries
    BY <1>3, <2>1
  <2>3. Queries * (ttl - BeginHop) \in Nat
    BY <2>1
  <2>4. Queries * (ttl - BeginHop) + attempt <= Queries * (ttl' - BeginHop) + attempt'
    <3>1. CASE UNCHANGED <<ttl, attempt>>
      BY <2>1, <2>3, <3>1
    <3>2. CASE ttl' = ttl + 1 /\ attempt' = 0
      BY <2>1, <2>2, <2>3, <3>2
    <3> QED
      BY <1>1, <3>1, <3>2
  <2>5. Queries * (ttl' - BeginHop) \in Int /\ attempt' \in Int
    BY <1>3, <2>1, <1>1
  <2>6. TokensUsed'
    <3>1. \A t, s, q, r, a, b \in Int : t <= s + q + a /\ q + a <= r + b => t <= s + r + b
      OBVIOUS
    <3>2. EnoughTokens => /\ token \in 1 .. Tokens - 1
                          /\ token <= 1 + (ProbeSize - probeMTU) + Queries * (ttl - BeginHop) + attempt
      BY DEF TokensUsed
    <3>3. 1 + (ProbeSize - probeMTU) \in Int /\ token \in Int /\ attempt \in Int
      BY <2>1
    <3>4. Queries * (ttl - BeginHop) \in Int
      BY <2>3
    <3>5. EnoughTokens =>
            token <= 1 + (ProbeSize - probeMTU) + Queries * (ttl' - BeginHop) + attempt'
      BY <2>4, <2>5, <3>1, <3>2, <3>3, <3>4, Zenon
    <3> QED
      BY <1>1, <3>2, <3>5 DEF TokensUsed
  <2> QED
    BY <1>1, <2>6 DEF LatePorts, PortsFresh
<1> QED
  BY <1>4, <1>5, <1>6

\* A hop that shows a time exceeded shows the router of its own TTL, for every path and
\* however late answers come, as long as no port was used twice (probeDstPort and the
\* prober's comparison of ports).
THEOREM HopsOwn == Spec => []HopOfItsTTL
<1>1. Init => HopsInv
  <2> SUFFICES ASSUME Init PROVE HopsInv
    OBVIOUS
  <2>1. EnoughTokens => 1 < Tokens
    <3>1. Queries * (MaxHops - BeginHop + 1) \in Nat
      BY MTUAssumption
    <3> QED
      BY <3>1, MTUAssumption DEF EnoughTokens
  <2>2. Queries * (BeginHop - BeginHop) = 0
    BY MTUAssumption
  <2> QED
    BY <2>1, <2>2, MTUAssumption, EmptySeq
    DEF Init, HopsInv, TokensUsed, LatePorts, CurrentHop, HopOfItsTTL, NewTTL, Hop
<1>2. IInv /\ IInv' /\ HopsInv /\ [Next]_vars => HopsInv'
  <2> SUFFICES ASSUME IInv, IInv', HopsInv, [Next]_vars PROVE HopsInv'
    OBVIOUS
  <2>1. CASE Cancel \/ (\E r \in Reported : LocalMTUFatal(r)) \/ UNCHANGED vars
    BY <2>1 DEF Cancel, LocalMTUFatal, vars, resVars, HopsInv, TokensUsed, LatePorts, PortsFresh,
                CurrentHop, HopOfItsTTL
  <2> QED
    BY <2>1, NoAnswerHops, AnswerHops, EndTTLHops DEF Next, Step
<1>3. HopsInv => HopOfItsTTL
  BY DEF HopsInv
<1> QED
  BY <1>1, <1>2, <1>3, InitInv, StepInv, PTL DEF Spec

=============================================================================
