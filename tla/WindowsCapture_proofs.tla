------------------------ MODULE WindowsCapture_proofs ------------------------
(***************************************************************************)
(* The Windows adapter, for any sizes of packets, blocks, waits and gaps:  *)
(* a thread that has ended gives back all it acquired, nothing follows an  *)
(* error, and the rebuilt timeline never runs further ahead of the         *)
(* endpoint than the idle gaps it filled explain.                          *)
(*                                                                         *)
(* The last needs to know where the packets nobody has read yet can lie:   *)
(* PositionInv orders them, and ReadInv keeps the expected position        *)
(* between the packet read last and the one to be read next, give or take  *)
(* what was filled since.                                                  *)
(***************************************************************************)
EXTENDS WindowsCapture, SequenceTheorems, TLAPS

(* The sizes the adapter is built from are positive. *)
LEMMA Sizes ==
  /\ PacketUnits \in Nat \ {0} /\ EndpointSlots \in Nat \ {0} /\ WaitUnits \in Nat \ {0}
  /\ BlockLen \in Nat \ {0} /\ MaxGapFill \in Nat \ {0}
  /\ PollUnits \in Nat /\ MaxNow \in Nat /\ MaxSwitches \in Nat
  BY WindowsAssumption

(* The numbers of a state are natural numbers. *)
LEMMA Numbers ==
  ASSUME TypeOK
  PROVE  /\ now \in Nat /\ playing \in Nat /\ playing < PacketUnits
         /\ lastPoll \in Nat /\ waitFrom \in Nat /\ expected \in Nat
         /\ writePos \in Nat /\ accepted \in Nat /\ fillSince \in Nat /\ overlaps \in Nat
         /\ counters \in Counters
<1>1. /\ now \in Nat /\ playing \in 0 .. PacketUnits - 1
      /\ lastPoll \in Nat /\ waitFrom \in Nat /\ expected \in Nat
      /\ writePos \in 0 .. BlockLen - 1
      /\ accepted \in Nat /\ fillSince \in Nat /\ overlaps \in Nat
      /\ counters \in Counters
  BY Zenon DEF TypeOK
<1> QED
  BY <1>1, Sizes

(* A session is started once. *)
Unstarted == owner = "idle" => thread = "none"
LEMMA StartsOnce == Spec => []Unstarted
<1>1. Init => Unstarted
  BY DEF Init, Unstarted
<1>2. Unstarted /\ [Next]_vars => Unstarted'
  <2> SUFFICES ASSUME Unstarted, [Next]_vars
               PROVE  Unstarted'
    OBVIOUS
  <2> USE DEF Unstarted, ownerVars, loopVars
  <2>1. CASE Clock \/ RouteChanges
    BY <2>1 DEF Clock, Rest, Play, RouteChanges
  <2>2. CASE InitStep \/ Report \/ EnterLoop \/ SeeStop \/ Poll \/ BeginWait
    BY <2>2 DEF InitStep, Report, EnterLoop, SeeStop, Poll, BeginWait
  <2>3. CASE WaitTimedOut \/ WaitSignaled \/ Drained \/ TakePacket \/ Release \/ Teardown
    BY <2>3 DEF WaitTimedOut, WaitSignaled, Drained, TakePacket, Release, Teardown
  <2>4. CASE Failures
    BY <2>4 DEF Failures, InitFails, WaitFails, PacketFails
  <2>5. CASE Caller
    BY <2>5 DEF Caller, StartRefused, Start, RequestStop, Joined, StopGivesUp, StopAgain
  <2>6. CASE UNCHANGED vars
    BY <2>6 DEF vars
  <2> QED
    BY <2>1, <2>2, <2>3, <2>4, <2>5, <2>6 DEF Next, CaptureThread
<1> QED
  BY <1>1, <1>2, PTL DEF Spec

-----------------------------------------------------------------------------
(* The counters *)

(* Refused blocks change one counter. *)
LEMMA DropsCounted ==
  ASSUME NEW c \in Counters, NEW d \in Nat
  PROVE  /\ [c EXCEPT !.dropped = @ + d] \in Counters
         /\ [c EXCEPT !.dropped = @ + d].captured = c.captured
         /\ [c EXCEPT !.dropped = @ + d].synthesized = c.synthesized
         /\ [c EXCEPT !.dropped = @ + d].truncated = c.truncated
         /\ [c EXCEPT !.dropped = @ + d].discontinuity = c.discontinuity
<1>1. c.dropped + d \in Nat
  BY DEF Counters
<1> QED
  BY <1>1 DEF Counters

(* An idle wait changes two. *)
WithFill(c, fill, cut) == [c EXCEPT !.synthesized = @ + fill, !.truncated = @ + cut]
LEMMA FillCounted ==
  ASSUME NEW c \in Counters, NEW fill \in Nat, NEW cut \in Nat
  PROVE  /\ WithFill(c, fill, cut) \in Counters
         /\ WithFill(c, fill, cut).captured = c.captured
         /\ WithFill(c, fill, cut).synthesized = c.synthesized + fill
         /\ WithFill(c, fill, cut).truncated = c.truncated + cut
         /\ WithFill(c, fill, cut).discontinuity = c.discontinuity
<1>1. c.synthesized + fill \in Nat /\ c.truncated + cut \in Nat
  BY DEF Counters
<1> QED
  BY <1>1 DEF Counters, WithFill

(* A packet changes all but the drops. *)
WithPacket(c, fill, cut, lost, n) ==
  [c EXCEPT !.synthesized = @ + fill, !.truncated = @ + cut,
            !.discontinuity = @ + lost, !.captured = @ + n]
LEMMA PacketCounted ==
  ASSUME NEW c \in Counters, NEW fill \in Nat, NEW cut \in Nat, NEW lost \in Nat, NEW n \in Nat
  PROVE  /\ WithPacket(c, fill, cut, lost, n) \in Counters
         /\ WithPacket(c, fill, cut, lost, n).captured = c.captured + n
         /\ WithPacket(c, fill, cut, lost, n).synthesized = c.synthesized + fill
         /\ WithPacket(c, fill, cut, lost, n).truncated = c.truncated + cut
         /\ WithPacket(c, fill, cut, lost, n).discontinuity = c.discontinuity + lost
<1>1. /\ c.synthesized + fill \in Nat /\ c.truncated + cut \in Nat
      /\ c.discontinuity + lost \in Nat /\ c.captured + n \in Nat
  BY DEF Counters
<1> QED
  BY <1>1 DEF Counters, WithPacket

(* What is delivered moves the write position and takes blocks, or counts  *)
(* them as dropped; the other counters are as they were given.             *)
LEMMA DeliverCounted ==
  ASSUME TypeOK, NEW n \in Nat, NEW change \in Counters, Deliver(n, change)
  PROVE  /\ writePos' \in 0 .. BlockLen - 1 /\ accepted' \in Nat /\ counters' \in Counters
         /\ counters'.captured = change.captured
         /\ counters'.synthesized = change.synthesized
         /\ counters'.truncated = change.truncated
         /\ counters'.discontinuity = change.discontinuity
<1>1. Completed(n) \in Nat /\ FedTo(n) \in 0 .. BlockLen - 1
  <2>1. writePos + n \in Nat
    BY Numbers
  <2>2. \A a \in Nat, b \in Nat \ {0} : a \div b \in Nat /\ a % b \in 0 .. b - 1
    OBVIOUS
  <2> QED
    BY <2>1, <2>2, Sizes DEF Completed, FedTo
<1>2. PICK d \in {0, Completed(n)} :
        /\ writePos' = FedTo(n)
        /\ accepted' = accepted + Completed(n) - d
        /\ counters' = [change EXCEPT !.dropped = @ + d]
  BY DEF Deliver
<1>3. accepted' \in Nat
  BY <1>1, <1>2, Numbers
<1> QED
  BY <1>1, <1>2, <1>3, DropsCounted

-----------------------------------------------------------------------------
(* The steps of the timeline *)

(* What an idle wait does to the timeline. *)
LEMMA TimedOut ==
  ASSUME TypeOK, WaitTimedOut
  PROVE  /\ writePos' \in 0 .. BlockLen - 1 /\ accepted' \in Nat /\ counters' \in Counters
         /\ Capped(WaitUnits) \in 0 .. WaitUnits
         /\ expected' = expected + Capped(WaitUnits)
         /\ fillSince' = fillSince + Capped(WaitUnits)
         /\ counters'.captured = counters.captured
         /\ counters'.synthesized = counters.synthesized + Capped(WaitUnits)
         /\ counters'.truncated >= counters.truncated
         /\ counters'.discontinuity = counters.discontinuity
<1>1. Capped(WaitUnits) \in 0 .. WaitUnits /\ Truncates(WaitUnits) \in Nat
  BY Sizes DEF Capped, Truncates
<1>2. counters \in Counters
  BY Numbers
<1>3. Deliver(Capped(WaitUnits), WithFill(counters, Capped(WaitUnits), Truncates(WaitUnits)))
  BY DEF WaitTimedOut, WithFill
<1>4. WithFill(counters, Capped(WaitUnits), Truncates(WaitUnits)) \in Counters
  BY <1>1, <1>2, FillCounted
<1>5. /\ writePos' \in 0 .. BlockLen - 1 /\ accepted' \in Nat /\ counters' \in Counters
      /\ counters'.captured = counters.captured
      /\ counters'.synthesized = counters.synthesized + Capped(WaitUnits)
      /\ counters'.truncated = counters.truncated + Truncates(WaitUnits)
      /\ counters'.discontinuity = counters.discontinuity
  <2> DEFINE fill == Capped(WaitUnits)
             cut  == Truncates(WaitUnits)
             seen == WithFill(counters, fill, cut)
  <2>1. fill \in Nat /\ cut \in Nat
    BY <1>1
  <2>2. Deliver(fill, seen) /\ seen \in Counters
    BY <1>3, <1>4
  <2> HIDE DEF fill, cut
  <2>3. /\ seen.captured = counters.captured
        /\ seen.synthesized = counters.synthesized + fill
        /\ seen.truncated = counters.truncated + cut
        /\ seen.discontinuity = counters.discontinuity
    BY <1>2, <2>1, FillCounted
  <2> HIDE DEF seen
  <2>4. /\ writePos' \in 0 .. BlockLen - 1 /\ accepted' \in Nat /\ counters' \in Counters
        /\ counters'.captured = seen.captured
        /\ counters'.synthesized = seen.synthesized
        /\ counters'.truncated = seen.truncated
        /\ counters'.discontinuity = seen.discontinuity
    BY <2>1, <2>2, DeliverCounted
  <2> QED
    BY <2>3, <2>4 DEF fill, cut
<1>6. counters'.truncated >= counters.truncated
  BY <1>1, <1>2, <1>5 DEF Counters
<1> QED
  BY <1>1, <1>5, <1>6 DEF WaitTimedOut

(* The packet at the front of the endpoint. *)
LEMMA FrontPacket ==
  ASSUME TypeOK, endpoint # <<>>
  PROVE  /\ Head(endpoint) \in Packets /\ Head(endpoint) = endpoint[1]
         /\ 1 \in DOMAIN endpoint
         /\ Tail(endpoint) \in Seq(Packets) /\ Len(Tail(endpoint)) = Len(endpoint) - 1
         /\ \A i \in 1 .. Len(Tail(endpoint)) : Tail(endpoint)[i] = endpoint[i + 1]
<1>1. endpoint \in Seq(Packets)
  BY DEF TypeOK
<1> QED
  BY <1>1, HeadTailProperties

(* What the packet at the front does to the timeline. *)
Lost(p) == IF p.discontinuity THEN 1 ELSE 0
LEMMA PacketTaken ==
  ASSUME TypeOK, TakePacket
  PROVE  /\ Head(endpoint) \in Packets
         /\ writePos' \in 0 .. BlockLen - 1 /\ accepted' \in Nat /\ counters' \in Counters
         /\ expected' = Head(endpoint).position + PacketUnits
         /\ fillSince' = 0
         /\ overlaps' = overlaps + (IF fillSince > 0 THEN 1 ELSE 0)
         /\ counters'.captured = counters.captured + PacketUnits
         /\ counters'.synthesized = counters.synthesized + Capped(Gap(Head(endpoint)))
         /\ counters'.truncated = counters.truncated + Truncates(Gap(Head(endpoint)))
         /\ counters'.discontinuity = counters.discontinuity + Lost(Head(endpoint))
<1> DEFINE p    == Head(endpoint)
           fill == Capped(Gap(p))
           cut  == Truncates(Gap(p))
           lost == Lost(p)
           seen == WithPacket(counters, fill, cut, lost, PacketUnits)
<1>1. p \in Packets
  BY FrontPacket DEF TakePacket
<1>2. Gap(p) \in Nat
  BY <1>1, Numbers DEF Gap, Packets
<1>3. fill \in Nat /\ cut \in Nat /\ lost \in Nat /\ PacketUnits \in Nat
  BY <1>2, Sizes DEF Capped, Truncates, Lost
<1>4. counters \in Counters
  BY Numbers
<1>5. Deliver(fill + PacketUnits, seen)
  BY DEF TakePacket, WithPacket, Lost
<1>6. fill + PacketUnits \in Nat
  BY <1>3
<1> HIDE DEF p, fill, cut, lost
<1>7. /\ seen \in Counters
      /\ seen.captured = counters.captured + PacketUnits
      /\ seen.synthesized = counters.synthesized + fill
      /\ seen.truncated = counters.truncated + cut
      /\ seen.discontinuity = counters.discontinuity + lost
  BY <1>3, <1>4, PacketCounted
<1>8. /\ expected' = p.position + PacketUnits /\ fillSince' = 0
      /\ overlaps' = overlaps + (IF fillSince > 0 THEN 1 ELSE 0)
  BY DEF TakePacket, p
<1> HIDE DEF seen
<1>9. /\ writePos' \in 0 .. BlockLen - 1 /\ accepted' \in Nat /\ counters' \in Counters
      /\ counters'.captured = seen.captured
      /\ counters'.synthesized = seen.synthesized
      /\ counters'.truncated = seen.truncated
      /\ counters'.discontinuity = seen.discontinuity
  BY <1>5, <1>6, <1>7, DeliverCounted
<1> QED
  BY <1>1, <1>7, <1>8, <1>9 DEF p, fill, cut, lost

-----------------------------------------------------------------------------
(* Types *)

(* A packet being rendered began after the clock, and one being released   *)
(* is there.                                                               *)
Grounded ==
  /\ playing <= now
  /\ thread = "release" => endpoint # <<>>

(* A packet ends when all its frames have been rendered. *)
LEMMA PacketEnds ==
  ASSUME TypeOK, Grounded, Play, playing' = 0
  PROVE  playing + 1 = PacketUnits /\ now' = now + 1 /\ now' - PacketUnits \in Nat
<1>1. (playing + 1) % PacketUnits = 0 /\ now' = now + 1
  BY DEF Play
<1>2. ASSUME playing + 1 < PacketUnits PROVE FALSE
  <2>1. \A a \in Nat, b \in Nat \ {0} : a < b => a % b = a
    OBVIOUS
  <2>2. playing + 1 \in Nat /\ playing + 1 # 0
    BY Numbers
  <2> QED
    BY <1>1, <1>2, <2>1, <2>2, Sizes
<1> QED
  BY <1>1, <1>2, Numbers, Sizes DEF Grounded

(* The endpoint keeps a packet, or loses it. *)
LEMMA PlayKeepsEndpoint ==
  ASSUME TypeOK, Grounded, Play
  PROVE  /\ endpoint' \in Seq(Packets) /\ Len(endpoint') <= EndpointSlots
         /\ lossy' \in BOOLEAN /\ signaled' \in BOOLEAN
<1>1. /\ endpoint \in Seq(Packets) /\ Len(endpoint) <= EndpointSlots
      /\ lossy \in BOOLEAN /\ signaled \in BOOLEAN
  BY DEF TypeOK
<1>2. CASE UNCHANGED <<endpoint, lossy, signaled>> \/ (lossy' = TRUE /\ UNCHANGED <<endpoint, signaled>>)
  BY <1>1, <1>2
<1>3. CASE /\ playing' = 0 /\ Len(endpoint) < EndpointSlots
           /\ endpoint' = Append(endpoint, [position |-> now' - PacketUnits,
                                            discontinuity |-> lossy])
           /\ lossy' = FALSE /\ signaled' = TRUE
  <2>1. now' - PacketUnits \in Nat
    BY <1>3, PacketEnds
  <2>2. [position |-> now' - PacketUnits, discontinuity |-> lossy] \in Packets
    BY <1>1, <2>1 DEF Packets
  <2> DEFINE packet == [position |-> now' - PacketUnits, discontinuity |-> lossy]
  <2>3. packet \in Packets /\ endpoint' = Append(endpoint, packet)
    BY <1>3, <2>2
  <2> HIDE DEF packet
  <2>4. endpoint' \in Seq(Packets) /\ Len(endpoint') = Len(endpoint) + 1
    BY <1>1, <2>3, AppendProperties
  <2>5. Len(endpoint) \in Nat
    BY <1>1, LenProperties
  <2>6. Len(endpoint') <= EndpointSlots
    <3>1. Len(endpoint) < EndpointSlots
      BY <1>3
    <3> QED
      BY <3>1, <2>4, <2>5, Sizes
  <2>7. lossy' \in BOOLEAN /\ signaled' \in BOOLEAN
    BY <1>3
  <2> QED
    BY <2>4, <2>6, <2>7
<1> QED
  BY <1>2, <1>3 DEF Play

(* One more kind of error. *)
LEMMA ErrorAppended ==
  ASSUME TypeOK, NEW kind \in {"EndpointChanged", "NoRenderEndpoint", "stream", "Internal"},
         EndWith(kind)
  PROVE  errors' \in Seq({"EndpointChanged", "NoRenderEndpoint", "stream", "Internal"})
  BY AppendProperties DEF TypeOK, EndWith

(* Every step keeps the types. *)
LEMMA TypePreserved ==
  ASSUME TypeOK, Grounded, [Next]_vars
  PROVE  TypeOK'
<1> USE DEF deviceVars, ownerVars, loopVars, timelineVars
<1>1. CASE Rest
  <2>1. now' \in Nat /\ playing' \in 0 .. PacketUnits - 1
    BY <1>1, Numbers, Sizes DEF Rest
  <2> QED
    BY <1>1, <2>1 DEF Rest, TypeOK
<1>2. CASE Play
  <2>1. now' \in Nat /\ playing' \in 0 .. PacketUnits - 1
    <3>1. \A a \in Nat, b \in Nat \ {0} : a % b \in 0 .. b - 1
      OBVIOUS
    <3>2. playing + 1 \in Nat /\ now + 1 \in Nat
      BY Numbers
    <3>3. (playing + 1) % PacketUnits \in 0 .. PacketUnits - 1
      BY <3>1, <3>2, Sizes
    <3> QED
      BY <1>2, <3>2, <3>3 DEF Play
  <2>2. /\ endpoint' \in Seq(Packets) /\ Len(endpoint') <= EndpointSlots
        /\ lossy' \in BOOLEAN /\ signaled' \in BOOLEAN
    BY <1>2, PlayKeepsEndpoint
  <2>3. UNCHANGED <<route, switches, ownerVars, loopVars, timelineVars, errors>>
    BY <1>2 DEF Play
  <2> QED
    BY <2>1, <2>2, <2>3 DEF TypeOK
<1>3. CASE RouteChanges
  <2>1. switches' \in 0 .. MaxSwitches
    BY <1>3, Sizes DEF RouteChanges, TypeOK
  <2> QED
    BY <1>3, <2>1 DEF RouteChanges, TypeOK
<1>4. CASE StartRefused \/ Start
  BY <1>4 DEF StartRefused, Start, TypeOK
<1>5. CASE InitStep
  <2>1. step' \in 1 .. Len(InitSteps) + 1
    <3>1. Len(InitSteps) \in Nat
      BY DEF InitSteps
    <3> QED
      BY <1>5, <3>1 DEF InitStep, TypeOK
  <2>2. held' \subseteq Resources
    BY <1>5 DEF InitStep, TypeOK, Acquires
  <2>3. opened' \in Routes \union {NoRoute}
    BY <1>5 DEF InitStep, TypeOK
  <2> QED
    BY <1>5, <2>1, <2>2, <2>3 DEF InitStep, TypeOK
<1>6. CASE InitFails
  BY <1>6 DEF InitFails, TypeOK
<1>7. CASE Report
  BY <1>7 DEF Report, TypeOK
<1>8. CASE EnterLoop
  BY <1>8 DEF EnterLoop, TypeOK
<1>9. CASE SeeStop \/ BeginWait \/ WaitSignaled \/ Drained
  <2>1. CASE SeeStop
    BY <2>1 DEF SeeStop, Leave, TypeOK
  <2>2. CASE BeginWait
    BY <2>2 DEF BeginWait, TypeOK
  <2>3. CASE WaitSignaled
    BY <2>3 DEF WaitSignaled, TypeOK
  <2>4. CASE Drained
    BY <2>4 DEF Drained, TypeOK
  <2> QED
    BY <1>9, <2>1, <2>2, <2>3, <2>4
<1>10. CASE Poll
  <2>1. errors' \in Seq({"EndpointChanged", "NoRenderEndpoint", "stream", "Internal"})
    BY <1>10, ErrorAppended DEF Poll, TypeOK
  <2>2. thread' \in {"wait", "teardown"} /\ waitFrom' \in Nat /\ lastPoll' \in Nat
    BY <1>10 DEF Poll, EndWith, Leave, TypeOK
  <2>3. UNCHANGED <<deviceVars, ownerVars, step, held, raw, opened, watched, timelineVars>>
    BY <1>10 DEF Poll
  <2> QED
    BY <2>1, <2>2, <2>3 DEF TypeOK
<1>11. CASE WaitTimedOut
  <2>1. expected' \in Nat /\ fillSince' \in Nat
    BY <1>11, TimedOut, Numbers
  <2>2. /\ thread' = "top" /\ waitFrom' = 0
        /\ UNCHANGED <<deviceVars, ownerVars, step, held, raw, opened, watched, lastPoll,
                       overlaps, errors>>
    BY <1>11 DEF WaitTimedOut
  <2>3. writePos' \in 0 .. BlockLen - 1 /\ accepted' \in Nat /\ counters' \in Counters
    BY <1>11, TimedOut
  <2> QED
    BY <2>1, <2>2, <2>3 DEF TypeOK
<1>12. CASE WaitFails \/ PacketFails
  <2>1. errors' \in Seq({"EndpointChanged", "NoRenderEndpoint", "stream", "Internal"})
    BY <1>12, ErrorAppended DEF WaitFails, PacketFails
  <2> QED
    <3>1. CASE WaitFails
      BY <2>1, <3>1 DEF WaitFails, EndWith, Leave, TypeOK
    <3>2. CASE PacketFails
      BY <2>1, <3>2 DEF PacketFails, EndWith, Leave, TypeOK
    <3> QED
      BY <1>12, <3>1, <3>2
<1>13. CASE TakePacket
  <2>1. expected' \in Nat /\ fillSince' \in Nat /\ overlaps' \in Nat
    BY <1>13, PacketTaken, Numbers, Sizes DEF Packets
  <2>2. /\ thread' = "release"
        /\ UNCHANGED <<deviceVars, ownerVars, step, held, raw, opened, watched, lastPoll,
                       waitFrom, errors>>
    BY <1>13 DEF TakePacket
  <2>3. writePos' \in 0 .. BlockLen - 1 /\ accepted' \in Nat /\ counters' \in Counters
    BY <1>13, PacketTaken
  <2> QED
    BY <2>1, <2>2, <2>3 DEF TypeOK
<1>14. CASE Release
  <2>1. endpoint' \in Seq(Packets) /\ Len(endpoint') <= EndpointSlots
    <3>1. endpoint # <<>>
      BY <1>14 DEF Release, Grounded
    <3>2. endpoint' = Tail(endpoint) /\ Len(endpoint) <= EndpointSlots /\ Len(endpoint) \in Nat
      BY <1>14, LenProperties DEF Release, TypeOK
    <3> QED
      BY <3>1, <3>2, FrontPacket, Sizes
  <2> QED
    BY <1>14, <2>1 DEF Release, TypeOK
<1>15. CASE Teardown
  <2>1. /\ <<>> \in Seq(Packets) /\ Len(<<>>) <= EndpointSlots
        /\ 0 \in 0 .. PacketUnits - 1 /\ 0 \in 0 .. BlockLen - 1
    BY Sizes
  <2> QED
    BY <1>15, <2>1 DEF Teardown, TypeOK
<1>16. CASE RequestStop \/ Joined \/ StopGivesUp \/ StopAgain
  BY <1>16 DEF RequestStop, Joined, StopGivesUp, StopAgain, TypeOK
<1>17. CASE UNCHANGED vars
  BY <1>17 DEF vars, TypeOK
<1> QED
  BY <1>1, <1>2, <1>3, <1>4, <1>5, <1>6, <1>7, <1>8, <1>9, <1>10, <1>11, <1>12, <1>13,
     <1>14, <1>15, <1>16, <1>17
     DEF Next, Clock, CaptureThread, Failures, Caller

-----------------------------------------------------------------------------
(* Where unread packets can lie *)

End(p) == p.position + PacketUnits

(* The endpoint holds packets that have ended, in the order they began. *)
PositionInv ==
  /\ \A i \in 1 .. Len(endpoint) : End(endpoint[i]) + playing <= now
  /\ \A i, j \in 1 .. Len(endpoint) : i < j => End(endpoint[i]) <= endpoint[j].position

(* The packet being released has been read; those behind it have not.      *)
Unread(i) == thread = "release" => i > 1

(* Up to the end of the loop the expected position is where the packet     *)
(* read last ended, plus what was filled since; the next packet reaches    *)
(* past it, and a wait begins no earlier and with nothing left unread.     *)
ReadInv ==
  /\ expected + playing <= now + fillSince /\ expected <= now
  /\ thread = "wait" => expected <= waitFrom /\ waitFrom <= now
  /\ \A i \in 1 .. Len(endpoint) :
       Unread(i) => expected <= endpoint[i].position + fillSince /\ expected < End(endpoint[i])
  /\ thread = "release" => End(endpoint[1]) = expected /\ fillSince = 0
  /\ endpoint # <<>> /\ thread \notin {"drain", "release"} => signaled

Over == thread \in {"teardown", "done"}

TimeInv ==
  /\ TypeOK /\ Grounded /\ PositionInv
  /\ Over \/ ReadInv

(* What is in the endpoint are packets. *)
LEMMA PacketAt ==
  ASSUME TypeOK
  PROVE  /\ Len(endpoint) \in Nat
         /\ \A i \in 1 .. Len(endpoint) : endpoint[i].position \in Nat /\ End(endpoint[i]) \in Nat
<1>1. endpoint \in Seq(Packets)
  BY DEF TypeOK
<1>2. Len(endpoint) \in Nat /\ \A i \in 1 .. Len(endpoint) : endpoint[i] \in Packets
  BY <1>1, LenProperties, ElementOfSeq
<1>3. \A p \in Packets : p.position \in Nat
  BY DEF Packets
<1> QED
  BY <1>2, <1>3, Sizes DEF End

(* Only the clock moves the time, by a frame; of a packet at most one more *)
(* frame is rendered.                                                      *)
LEMMA ClockMoves ==
  ASSUME TypeOK, Grounded, Rest \/ Play
  PROVE  now' = now + 1 /\ playing' \in Nat /\ playing' <= playing + 1
<1>1. CASE Rest
  BY <1>1, Numbers DEF Rest
<1>2. CASE Play
  <2>1. now' = now + 1 /\ playing' = (playing + 1) % PacketUnits
    BY <1>2 DEF Play
  <2>2. \A a \in Nat, b \in Nat \ {0} : a % b \in Nat /\ a % b <= a
    <3>1. \A a \in Nat, b \in Nat \ {0} : a % b \in 0 .. b - 1
      OBVIOUS
    <3>2. \A a \in Nat, b \in Nat \ {0} : a < b => a % b = a
      OBVIOUS
    <3> QED
      BY <3>1, <3>2
  <2>3. playing + 1 \in Nat
    BY Numbers
  <2> QED
    BY <2>1, <2>2, <2>3, Sizes
<1> QED
  BY <1>1, <1>2

(* Time passes and no packet is added. *)
LEMMA IdleClock ==
  ASSUME TimeInv, TypeOK', Rest \/ Play, UNCHANGED <<endpoint, signaled>>
  PROVE  TimeInv'
<1>1. /\ now' = now + 1 /\ playing' \in Nat /\ playing' <= playing + 1
      /\ UNCHANGED <<endpoint, signaled, thread, expected, fillSince, waitFrom>>
  BY ClockMoves DEF TimeInv, Rest, Play, loopVars, timelineVars
<1>2. /\ now \in Nat /\ playing \in Nat /\ expected \in Nat /\ fillSince \in Nat
      /\ waitFrom \in Nat
  BY Numbers DEF TimeInv
<1>3. Len(endpoint) \in Nat
      /\ \A i \in 1 .. Len(endpoint) : endpoint[i].position \in Nat /\ End(endpoint[i]) \in Nat
  BY PacketAt DEF TimeInv
<1>4. Grounded'
  BY <1>1, <1>2 DEF TimeInv, Grounded
<1>5. PositionInv'
  <2>1. \A i \in 1 .. Len(endpoint) : End(endpoint[i]) + playing' <= now'
    <3>1. \A i \in 1 .. Len(endpoint) : End(endpoint[i]) + playing <= now
      BY DEF TimeInv, PositionInv
    <3> QED
      BY <1>1, <1>2, <1>3, <3>1
  <2> QED
    BY <1>1, <2>1 DEF TimeInv, PositionInv, End
<1>6. Over' \/ ReadInv'
  <2>1. CASE Over
    BY <1>1, <2>1 DEF Over
  <2>2. CASE ReadInv
    <3>1. expected' + playing' <= now' + fillSince' /\ expected' <= now'
      BY <1>1, <1>2, <2>2 DEF ReadInv
    <3>2. thread' = "wait" => expected' <= waitFrom' /\ waitFrom' <= now'
      BY <1>1, <1>2, <2>2 DEF ReadInv
    <3> QED
      BY <1>1, <2>2, <3>1, <3>2 DEF ReadInv, Unread, End
  <2> QED
    BY <2>1, <2>2 DEF TimeInv
<1> QED
  BY <1>4, <1>5, <1>6 DEF TimeInv

(* A packet ends and is kept. *)
LEMMA PacketKept ==
  ASSUME TimeInv, TypeOK', Play, NEW q,
         q = [position |-> now' - PacketUnits, discontinuity |-> lossy],
         playing' = 0, endpoint' = Append(endpoint, q), signaled' = TRUE
  PROVE  TimeInv'
<1>1. /\ now' = now + 1 /\ playing + 1 = PacketUnits
      /\ UNCHANGED <<thread, expected, fillSince, waitFrom>>
  BY PacketEnds DEF TimeInv, Play, loopVars, timelineVars
<1>2. /\ now \in Nat /\ playing \in Nat /\ expected \in Nat /\ fillSince \in Nat
      /\ waitFrom \in Nat
  BY Numbers DEF TimeInv
<1>3. Len(endpoint) \in Nat
      /\ \A i \in 1 .. Len(endpoint) : endpoint[i].position \in Nat /\ End(endpoint[i]) \in Nat
  BY PacketAt DEF TimeInv
<1>4. q.position = now - playing /\ End(q) = now + 1
  BY <1>1, <1>2, Sizes DEF End
<1>5. /\ Len(endpoint') = Len(endpoint) + 1
      /\ \A i \in 1 .. Len(endpoint) : endpoint'[i] = endpoint[i]
      /\ endpoint'[Len(endpoint) + 1] = q
  <2>1. endpoint \in Seq(Packets)
    BY DEF TimeInv, TypeOK
  <2> QED
    BY <2>1, AppendProperties, LenProperties
<1>6. Grounded'
  <2>1. playing' <= now'
    BY <1>1, <1>2
  <2>2. endpoint' # <<>>
    BY <1>3, <1>5
  <2> QED
    BY <2>1, <2>2 DEF Grounded
<1>7. PositionInv'
  <2>1. ASSUME NEW i \in 1 .. Len(endpoint') PROVE End(endpoint'[i]) + playing' <= now'
    <3>1. CASE i \in 1 .. Len(endpoint)
      BY <1>1, <1>2, <1>3, <1>5, <3>1 DEF TimeInv, PositionInv
    <3>2. CASE i = Len(endpoint) + 1
      BY <1>1, <1>2, <1>4, <1>5, <3>2
    <3> QED
      BY <1>3, <1>5, <3>1, <3>2
  <2>2. ASSUME NEW i \in 1 .. Len(endpoint'), NEW j \in 1 .. Len(endpoint'), i < j
        PROVE  End(endpoint'[i]) <= endpoint'[j].position
    <3>1. i \in 1 .. Len(endpoint) /\ endpoint'[i] = endpoint[i]
      BY <1>3, <1>5, <2>2
    <3>2. CASE j \in 1 .. Len(endpoint)
      BY <1>5, <2>2, <3>1, <3>2 DEF TimeInv, PositionInv
    <3>3. CASE j = Len(endpoint) + 1
      <4>1. End(endpoint[i]) + playing <= now
        BY <3>1 DEF TimeInv, PositionInv
      <4>2. endpoint'[j].position = now - playing
        BY <1>4, <1>5, <3>3
      <4>3. End(endpoint[i]) \in Nat
        BY <1>3, <3>1
      <4>4. End(endpoint[i]) <= now - playing
        BY <1>2, <4>1, <4>3
      <4> QED
        BY <3>1, <4>2, <4>4
    <3> QED
      BY <1>3, <1>5, <3>2, <3>3
  <2> QED
    BY <2>1, <2>2 DEF PositionInv, End
<1>8. Over' \/ ReadInv'
  <2>1. CASE Over
    BY <1>1, <2>1 DEF Over
  <2>2. CASE ReadInv
    <3>1. expected' + playing' <= now' + fillSince' /\ expected' <= now'
      BY <1>1, <1>2, <2>2 DEF ReadInv
    <3>2. thread' = "wait" => expected' <= waitFrom' /\ waitFrom' <= now'
      BY <1>1, <1>2, <2>2 DEF ReadInv
    <3>3. ASSUME NEW i \in 1 .. Len(endpoint'), Unread(i)'
          PROVE  expected' <= endpoint'[i].position + fillSince' /\ expected' < End(endpoint'[i])
      <4>1. CASE i \in 1 .. Len(endpoint)
        BY <1>1, <1>5, <2>2, <3>3, <4>1 DEF ReadInv, Unread
      <4>2. CASE i = Len(endpoint) + 1
        <5>1. expected <= (now - playing) + fillSince /\ expected < now + 1
          BY <1>2, <2>2 DEF ReadInv
        <5> QED
          BY <1>1, <1>4, <1>5, <4>2, <5>1
      <4> QED
        BY <1>3, <1>5, <4>1, <4>2
    <3>4. thread' = "release" => End(endpoint'[1]) = expected' /\ fillSince' = 0
      <4>1. SUFFICES ASSUME thread = "release"
                     PROVE  End(endpoint'[1]) = expected' /\ fillSince' = 0
        BY <1>1
      <4>2. endpoint # <<>>
        BY <4>1 DEF TimeInv, Grounded
      <4>3. 1 \in 1 .. Len(endpoint)
        BY <1>3, <4>2, FrontPacket DEF TimeInv
      <4> QED
        BY <1>1, <1>5, <2>2, <4>1, <4>3 DEF ReadInv
    <3>5. \A i \in 1 .. Len(endpoint') :
            Unread(i)' => expected' <= endpoint'[i].position + fillSince' /\ expected' < End(endpoint'[i])
      BY <3>3
    <3> QED
      BY <3>1, <3>2, <3>4, <3>5 DEF ReadInv, End, Unread
  <2> QED
    BY <2>1, <2>2 DEF TimeInv
<1> QED
  BY <1>6, <1>7, <1>8 DEF TimeInv

(* The thread moves on and leaves time and packets alone. *)
LEMMA ThreadMoves ==
  ASSUME TimeInv, TypeOK', UNCHANGED <<now, playing, endpoint, expected, fillSince>>,
         \/ Over'
         \/ UNCHANGED <<thread, waitFrom, signaled>>
         \/ /\ ~Over /\ thread # "release" /\ thread' # "release"
            /\ thread' = "wait" => expected <= waitFrom' /\ waitFrom' <= now
            /\ endpoint # <<>> /\ thread' # "drain" => signaled'
  PROVE  TimeInv'
<1> USE DEF TimeInv
<1>1. PositionInv'
  BY DEF PositionInv, End
<1>2. CASE Over'
  BY <1>1, <1>2 DEF Over, Grounded
<1>3. CASE UNCHANGED <<thread, waitFrom, signaled>>
  <2>1. Grounded'
    BY <1>3 DEF Grounded
  <2>2. Over' \/ ReadInv'
    BY <1>3 DEF Over, ReadInv, Unread, End
  <2> QED
    BY <1>1, <2>1, <2>2
<1>4. CASE /\ ~Over /\ thread # "release" /\ thread' # "release"
           /\ thread' = "wait" => expected <= waitFrom' /\ waitFrom' <= now
           /\ endpoint # <<>> /\ thread' # "drain" => signaled'
  <2>1. Grounded'
    BY <1>4 DEF Grounded
  <2>2. ReadInv'
    BY <1>4 DEF ReadInv, Unread, End
  <2> QED
    BY <1>1, <2>1, <2>2
<1> QED
  BY <1>2, <1>3, <1>4

(* An idle wait fills no more than the time it took. *)
LEMMA WaitPreserved ==
  ASSUME TimeInv, TypeOK', WaitTimedOut
  PROVE  TimeInv'
<1>1. /\ Capped(WaitUnits) \in 0 .. WaitUnits
      /\ expected' = expected + Capped(WaitUnits)
      /\ fillSince' = fillSince + Capped(WaitUnits)
  BY TimedOut DEF TimeInv
<1>2. /\ thread = "wait" /\ ~signaled /\ now >= waitFrom + WaitUnits
      /\ thread' = "top" /\ UNCHANGED <<now, playing, endpoint, signaled>>
  BY DEF WaitTimedOut, deviceVars
<1>3. /\ now \in Nat /\ playing \in Nat /\ expected \in Nat /\ fillSince \in Nat
      /\ waitFrom \in Nat
  BY Numbers DEF TimeInv
<1>4. ReadInv
  BY <1>2 DEF TimeInv, Over
<1>5. endpoint = <<>>
  BY <1>2, <1>4 DEF ReadInv
<1>6. 1 .. Len(endpoint) = {}
  BY <1>5
<1>7. Grounded' /\ PositionInv'
  BY <1>2, <1>6 DEF TimeInv, Grounded, PositionInv, End
<1>8. ReadInv'
  <2>1. expected' + playing' <= now' + fillSince' /\ expected' <= now'
    <3>1. expected + playing <= now + fillSince /\ expected <= waitFrom
      BY <1>2, <1>4 DEF ReadInv
    <3> QED
      BY <1>1, <1>2, <1>3, <3>1, Sizes
  <2> QED
    BY <1>2, <1>5, <1>6, <2>1 DEF ReadInv, Unread, End
<1> QED
  BY <1>7, <1>8 DEF TimeInv

(* A packet that is taken becomes the packet being released. *)
LEMMA TakePreserved ==
  ASSUME TimeInv, TypeOK', TakePacket
  PROVE  TimeInv'
<1>1. /\ thread = "drain" /\ endpoint # <<>> /\ thread' = "release"
      /\ UNCHANGED <<now, playing, endpoint, signaled>>
  BY DEF TakePacket, deviceVars
<1>2. expected' = endpoint[1].position + PacketUnits /\ fillSince' = 0
  BY <1>1, FrontPacket, PacketTaken DEF TimeInv
<1>3. /\ now \in Nat /\ playing \in Nat
      /\ Len(endpoint) \in Nat /\ 1 \in 1 .. Len(endpoint)
      /\ \A i \in 1 .. Len(endpoint) : endpoint[i].position \in Nat /\ End(endpoint[i]) \in Nat
  BY <1>1, Numbers, PacketAt, FrontPacket DEF TimeInv
<1>4. expected' = End(endpoint[1]) /\ expected' \in Nat
  BY <1>2, <1>3 DEF End
<1>5. Grounded' /\ PositionInv'
  BY <1>1 DEF TimeInv, Grounded, PositionInv, End
<1>6. expected' + playing' <= now' + fillSince' /\ expected' <= now'
  <2>1. End(endpoint[1]) + playing <= now
    BY <1>3 DEF TimeInv, PositionInv
  <2> QED
    BY <1>1, <1>2, <1>3, <1>4, <2>1
<1>7. ASSUME NEW i \in 1 .. Len(endpoint), i > 1
      PROVE  expected' <= endpoint[i].position /\ expected' < End(endpoint[i])
  <2>1. expected' <= endpoint[i].position
    BY <1>3, <1>4, <1>7 DEF TimeInv, PositionInv
  <2>2. endpoint[i].position \in Nat /\ End(endpoint[i]) = endpoint[i].position + PacketUnits
    BY <1>3 DEF End
  <2> QED
    BY <1>4, <2>1, <2>2, Sizes
<1>8. ReadInv'
  <2>1. \A i \in 1 .. Len(endpoint) : endpoint[i].position + fillSince' = endpoint[i].position
    BY <1>2, <1>3
  <2> QED
    BY <1>1, <1>2, <1>4, <1>6, <1>7, <2>1 DEF ReadInv, Unread, End
<1> QED
  BY <1>5, <1>8 DEF TimeInv

(* The packet that has been read leaves the endpoint. *)
LEMMA ReleasePreserved ==
  ASSUME TimeInv, TypeOK', Release
  PROVE  TimeInv'
<1>1. /\ thread = "release" /\ endpoint # <<>> /\ thread' = "drain"
      /\ endpoint' = Tail(endpoint)
      /\ UNCHANGED <<now, playing, expected, fillSince>>
  BY DEF TimeInv, Grounded, Release, timelineVars
<1>2. /\ Len(endpoint) \in Nat /\ Len(endpoint') = Len(endpoint) - 1
      /\ \A i \in 1 .. Len(endpoint') :
           endpoint'[i] = endpoint[i + 1] /\ i + 1 \in 1 .. Len(endpoint)
  <2>1. Len(Tail(endpoint)) = Len(endpoint) - 1
        /\ \A i \in 1 .. Len(Tail(endpoint)) : Tail(endpoint)[i] = endpoint[i + 1]
    BY <1>1, FrontPacket DEF TimeInv
  <2>2. Len(endpoint) \in Nat
    BY PacketAt DEF TimeInv
  <2> QED
    BY <1>1, <2>1, <2>2
<1>3. ReadInv
  BY <1>1 DEF TimeInv, Over
<1>4. Grounded'
  BY <1>1 DEF TimeInv, Grounded
<1>5. PositionInv'
  <2>1. \A i \in 1 .. Len(endpoint') : End(endpoint'[i]) + playing' <= now'
    BY <1>1, <1>2 DEF TimeInv, PositionInv
  <2>2. ASSUME NEW i \in 1 .. Len(endpoint'), NEW j \in 1 .. Len(endpoint'), i < j
        PROVE  End(endpoint'[i]) <= endpoint'[j].position
    <3>1. i + 1 < j + 1
      BY <1>2, <2>2
    <3>2. End(endpoint[i + 1]) <= endpoint[j + 1].position
      BY <1>2, <3>1 DEF TimeInv, PositionInv
    <3> QED
      BY <1>2, <3>2
  <2> QED
    BY <2>1, <2>2 DEF PositionInv, End
<1>6. ReadInv'
  <2>1. ASSUME NEW i \in 1 .. Len(endpoint')
        PROVE  expected <= endpoint'[i].position + fillSince /\ expected < End(endpoint'[i])
    <3>1. i + 1 \in 1 .. Len(endpoint) /\ i + 1 > 1 /\ endpoint'[i] = endpoint[i + 1]
      BY <1>2
    <3> QED
      BY <1>3, <3>1 DEF ReadInv, Unread
  <2> QED
    BY <1>1, <1>3, <2>1 DEF ReadInv, Unread, End
<1> QED
  BY <1>4, <1>5, <1>6 DEF TimeInv

(* Every step keeps the order. *)
LEMMA TimePreserved ==
  ASSUME TimeInv, Unstarted, [Next]_vars
  PROVE  TimeInv'
<1> USE DEF deviceVars, ownerVars, loopVars, timelineVars
<1>0. TypeOK'
  BY TypePreserved DEF TimeInv
<1>1. CASE Rest
  BY <1>0, <1>1, IdleClock DEF Rest
<1>2. CASE Play
  <2>1. CASE UNCHANGED <<endpoint, signaled>>
    BY <1>0, <1>2, <2>1, IdleClock
  <2>2. CASE /\ playing' = 0 /\ signaled' = TRUE
             /\ endpoint' = Append(endpoint, [position |-> now' - PacketUnits,
                                              discontinuity |-> lossy])
    BY <1>0, <1>2, <2>2, PacketKept
  <2> QED
    BY <1>2, <2>1, <2>2 DEF Play
<1>3. CASE RouteChanges
  BY <1>0, <1>3, ThreadMoves DEF RouteChanges
<1>4. CASE StartRefused \/ RequestStop \/ Joined \/ StopGivesUp \/ StopAgain
  BY <1>0, <1>4, ThreadMoves DEF StartRefused, RequestStop, Joined, StopGivesUp, StopAgain
<1>5. CASE Start
  <2>1. /\ thread = "none" /\ thread' = "init"
        /\ UNCHANGED <<now, playing, endpoint, expected, fillSince, signaled>>
    BY <1>5 DEF Start, Unstarted
  <2>2. endpoint # <<>> => signaled
    BY <2>1 DEF TimeInv, ReadInv, Over
  <2> QED
    BY <1>0, <2>1, <2>2, ThreadMoves DEF Over
<1>6. CASE InitStep
  BY <1>0, <1>6, ThreadMoves DEF InitStep
<1>7. CASE InitFails
  BY <1>0, <1>7, ThreadMoves DEF InitFails, Over
<1>8. CASE Report \/ EnterLoop
  <2>1. /\ ~Over /\ thread \in {"init", "entry"} /\ thread' \in {"entry", "top"}
        /\ UNCHANGED <<now, playing, endpoint, expected, fillSince, signaled>>
    BY <1>8 DEF Report, EnterLoop, Over
  <2>2. endpoint # <<>> => signaled
    BY <2>1 DEF TimeInv, ReadInv
  <2> QED
    BY <1>0, <2>1, <2>2, ThreadMoves
<1>9. CASE SeeStop \/ WaitFails \/ PacketFails
  BY <1>0, <1>9, ThreadMoves DEF SeeStop, WaitFails, PacketFails, EndWith, Leave, Over
<1>10. CASE BeginWait \/ Poll
  <2>1. /\ thread = "top"
        /\ UNCHANGED <<now, playing, endpoint, expected, fillSince, signaled>>
        /\ thread' = "teardown" \/ (thread' = "wait" /\ waitFrom' = now)
    BY <1>10 DEF BeginWait, Poll, EndWith, Leave
  <2>2. ReadInv
    BY <2>1 DEF TimeInv, Over
  <2>3. (endpoint # <<>> => signaled) /\ expected <= now /\ now <= now
    BY <2>1, <2>2, Numbers DEF ReadInv, TimeInv
  <2> QED
    BY <1>0, <2>1, <2>3, ThreadMoves DEF Over
<1>11. CASE WaitTimedOut
  BY <1>0, <1>11, WaitPreserved
<1>12. CASE WaitSignaled \/ Drained
  BY <1>0, <1>12, ThreadMoves DEF WaitSignaled, Drained, Over
<1>13. CASE TakePacket
  BY <1>0, <1>13, TakePreserved
<1>14. CASE Release
  BY <1>0, <1>14, ReleasePreserved
<1>15. CASE Teardown
  <2>1. Over' /\ playing' = 0 /\ endpoint' = <<>> /\ now' = now /\ thread' = "done"
    BY <1>15 DEF Teardown, Over
  <2>2. Grounded' /\ PositionInv'
    BY <2>1, Numbers DEF TimeInv, Grounded, PositionInv
  <2> QED
    BY <1>0, <2>1, <2>2 DEF TimeInv
<1>17. CASE UNCHANGED vars
  BY <1>0, <1>17, ThreadMoves DEF vars
<1> QED
  BY <1>1, <1>2, <1>3, <1>4, <1>5, <1>6, <1>7, <1>8, <1>9, <1>10, <1>11, <1>12, <1>13,
     <1>14, <1>15, <1>17
     DEF Next, Clock, CaptureThread, Failures, Caller

(* Nothing has been captured at first. *)
LEMMA TimeInitially == Init => TimeInv
<1> SUFFICES ASSUME Init
             PROVE  TimeInv
  OBVIOUS
<1>1. TypeOK
  <2>1. /\ 0 \in 0 .. PacketUnits - 1 /\ 0 \in 0 .. MaxSwitches /\ 0 \in 0 .. BlockLen - 1
        /\ Len(<<>>) <= EndpointSlots
    BY Sizes
  <2>2. 1 \in 1 .. Len(InitSteps) + 1
    <3>1. Len(InitSteps) \in Nat
      BY DEF InitSteps
    <3> QED
      BY <3>1
  <2>3. /\ endpoint \in Seq(Packets)
        /\ errors \in Seq({"EndpointChanged", "NoRenderEndpoint", "stream", "Internal"})
    BY EmptySeq DEF Init
  <2>4. counters \in Counters
    BY DEF Init, Counters
  <2>5. route \in Routes \union {NoRoute} /\ opened \in Routes \union {NoRoute}
        /\ watched \in Routes \union {NoRoute} /\ held \subseteq Resources
    BY DEF Init, Routes
  <2> QED
    BY <2>1, <2>2, <2>3, <2>4, <2>5 DEF Init, TypeOK
<1>2. Grounded /\ PositionInv
  BY DEF Init, Grounded, PositionInv
<1>3. ReadInv
  BY DEF Init, ReadInv
<1> QED
  BY <1>1, <1>2, <1>3 DEF TimeInv

(* Type correctness, and the order of what the endpoint holds. *)
THEOREM TimeInvariant == Spec => []TimeInv
  BY TimeInitially, TimePreserved, StartsOnce, PTL DEF Spec

-----------------------------------------------------------------------------
(* The timeline runs ahead by no more than the idle gaps explain *)

(* One more gap adds at most a packet less a frame. *)
LEMMA OneMoreGap ==
  ASSUME NEW n \in Nat, NEW o \in Nat
  PROVE  n * (o + 1) = n * o + n /\ n * o \in Nat
  OBVIOUS

(* An idle wait feeds what it adds to the expected position. *)
LEMMA LeadKeptByWait ==
  ASSUME TimeInv, LeadBounded, WaitTimedOut
  PROVE  LeadBounded'
<1>1. counters \in Counters /\ expected \in Nat /\ overlaps \in Nat /\ PacketUnits \in Nat
  BY Numbers, Sizes DEF TimeInv
<1>2. /\ counters.truncated \in Nat /\ counters.captured \in Nat
      /\ counters.synthesized \in Nat /\ counters.discontinuity \in Nat
  BY <1>1 DEF Counters
<1>3. /\ counters' \in Counters
      /\ Capped(WaitUnits) \in 0 .. WaitUnits
      /\ expected' = expected + Capped(WaitUnits)
      /\ counters'.captured = counters.captured
      /\ counters'.synthesized = counters.synthesized + Capped(WaitUnits)
      /\ counters'.truncated >= counters.truncated
      /\ counters'.discontinuity = counters.discontinuity
      /\ overlaps' = overlaps
  BY TimedOut DEF TimeInv, WaitTimedOut
<1>4. Fed \in Nat /\ Fed' = Fed + Capped(WaitUnits)
  BY <1>2, <1>3, Sizes DEF Fed
<1> SUFFICES ASSUME counters'.truncated = 0, counters'.discontinuity = 0
             PROVE  expected' <= Fed' /\ Fed' <= expected' + (PacketUnits - 1) * overlaps'
  BY DEF LeadBounded
<1>5. counters.truncated = 0 /\ counters.discontinuity = 0
  BY <1>2, <1>3
<1>6. expected <= Fed /\ Fed <= expected + (PacketUnits - 1) * overlaps
  BY <1>5 DEF LeadBounded
<1> DEFINE lead == (PacketUnits - 1) * overlaps
<1>7. lead \in Int /\ lead' = lead
  BY <1>1, <1>3
<1>8. Capped(WaitUnits) \in Nat
  BY <1>3, Sizes
<1> HIDE DEF lead
<1>9. expected' <= Fed' /\ Fed' <= expected' + lead
  BY <1>1, <1>3, <1>4, <1>6, <1>7, <1>8 DEF lead
<1> QED
  BY <1>3, <1>9 DEF lead

(* A packet feeds its gap, and the fill before it may cover a part of it. *)
LEMMA LeadKeptByPacket ==
  ASSUME TimeInv, LeadBounded, TakePacket
  PROVE  LeadBounded'
<1> DEFINE p == Head(endpoint)
           n == PacketUnits - 1
<1>1. /\ counters \in Counters /\ expected \in Nat /\ overlaps \in Nat /\ fillSince \in Nat
      /\ PacketUnits \in Nat \ {0} /\ n \in Nat
  BY Numbers, Sizes DEF TimeInv
<1>2. /\ counters.truncated \in Nat /\ counters.captured \in Nat
      /\ counters.synthesized \in Nat /\ counters.discontinuity \in Nat
  BY <1>1 DEF Counters
<1>3. p \in Packets /\ p.position \in Nat /\ p = endpoint[1] /\ 1 \in 1 .. Len(endpoint)
  <2>1. endpoint # <<>>
    BY DEF TakePacket
  <2>2. p \in Packets /\ p = endpoint[1] /\ 1 \in 1 .. Len(endpoint)
    BY <2>1, FrontPacket DEF TimeInv
  <2> QED
    BY <2>2 DEF Packets
<1>4. /\ counters' \in Counters
      /\ expected' = p.position + PacketUnits
      /\ overlaps' = overlaps + (IF fillSince > 0 THEN 1 ELSE 0)
      /\ counters'.captured = counters.captured + PacketUnits
      /\ counters'.synthesized = counters.synthesized + Capped(Gap(p))
      /\ counters'.truncated = counters.truncated + Truncates(Gap(p))
      /\ counters'.discontinuity = counters.discontinuity + Lost(p)
  BY PacketTaken DEF TimeInv
<1> SUFFICES ASSUME counters'.truncated = 0, counters'.discontinuity = 0
             PROVE  expected' <= Fed' /\ Fed' <= expected' + (PacketUnits - 1) * overlaps'
  BY DEF LeadBounded
<1>5. Gap(p) \in Nat
  BY <1>1, <1>3 DEF Gap
<1>6. Truncates(Gap(p)) \in Nat /\ Lost(p) \in Nat
  BY DEF Truncates, Lost
<1>7. /\ counters.truncated = 0 /\ counters.discontinuity = 0
      /\ Truncates(Gap(p)) = 0 /\ Lost(p) = 0
  BY <1>2, <1>4, <1>6
<1>8. Capped(Gap(p)) = Gap(p) /\ ~p.discontinuity
  BY <1>5, <1>7, Sizes DEF Truncates, Capped, Lost
<1>9. expected <= Fed /\ Fed <= expected + n * overlaps
  BY <1>7 DEF LeadBounded
<1>10. Fed \in Nat /\ Fed' = Fed + PacketUnits + Gap(p)
  BY <1>1, <1>2, <1>4, <1>5, <1>8 DEF Fed
<1>11. expected <= p.position + fillSince /\ expected < p.position + PacketUnits
  <2>1. ReadInv /\ thread = "drain"
    BY DEF TimeInv, Over, TakePacket
  <2> QED
    BY <1>3, <2>1 DEF ReadInv, Unread, End
<1>12. n * overlaps \in Nat /\ n * (overlaps + 1) = n * overlaps + n
  BY <1>1, OneMoreGap
<1> DEFINE lead == n * overlaps
           led  == n * overlaps'
<1>13. lead \in Nat /\ led \in {lead, lead + n} /\ (fillSince > 0 => led = lead + n)
  BY <1>1, <1>4, <1>12
<1> HIDE DEF p, n, lead, led
<1>14. n = PacketUnits - 1
  BY DEF n
<1>15. Fed <= expected + lead
  BY <1>9 DEF lead
<1>16. CASE p.position < expected
  <2>1. Gap(p) = 0
    BY <1>16 DEF Gap
  <2>2. fillSince > 0
    BY <1>1, <1>3, <1>11, <1>16
  <2>3. led = lead + n
    BY <1>13, <2>2
  <2>4. expected' <= Fed'
    BY <1>1, <1>3, <1>4, <1>9, <1>10, <1>16, <2>1
  <2>5. Fed' <= expected' + led
    BY <1>1, <1>3, <1>4, <1>10, <1>11, <1>13, <1>14, <1>15, <2>1, <2>3
  <2> QED
    BY <2>4, <2>5 DEF led, n
<1>17. CASE ~(p.position < expected)
  <2>1. Gap(p) = p.position - expected
    BY <1>8, <1>17 DEF Gap
  <2>2. expected' <= Fed'
    BY <1>1, <1>3, <1>4, <1>9, <1>10, <2>1
  <2>3. lead <= led
    BY <1>1, <1>13
  <2>4. Fed' <= expected' + led
    BY <1>1, <1>3, <1>4, <1>10, <1>13, <1>15, <2>1, <2>3
  <2> QED
    BY <2>2, <2>4 DEF led, n
<1> QED
  BY <1>16, <1>17

(* Idle waits and packets are the only steps of the timeline. *)
LEMMA TimelineSteps ==
  ASSUME [Next]_vars
  PROVE  WaitTimedOut \/ TakePacket \/ UNCHANGED <<expected, counters, overlaps>>
<1> USE DEF timelineVars
<1>1. CASE Clock \/ RouteChanges
  BY <1>1 DEF Clock, Rest, Play, RouteChanges
<1>2. CASE InitStep \/ Report \/ EnterLoop \/ SeeStop \/ Poll \/ BeginWait
  BY <1>2 DEF InitStep, Report, EnterLoop, SeeStop, Poll, BeginWait
<1>3. CASE WaitSignaled \/ Drained \/ Release \/ Teardown
  BY <1>3 DEF WaitSignaled, Drained, Release, Teardown
<1>4. CASE Failures
  BY <1>4 DEF Failures, InitFails, WaitFails, PacketFails
<1>5. CASE Caller
  BY <1>5 DEF Caller, StartRefused, Start, RequestStop, Joined, StopGivesUp, StopAgain
<1>6. CASE UNCHANGED vars
  BY <1>6 DEF vars
<1> QED
  BY <1>1, <1>2, <1>3, <1>4, <1>5, <1>6 DEF Next, CaptureThread

(* The audio fed never falls behind the endpoint, and runs ahead of it by  *)
(* less than a packet for every idle gap (observe_packet, note_idle_wait). *)
THEOREM LeadStaysBounded == Spec => []LeadBounded
<1>1. Init => LeadBounded
  BY Sizes DEF Init, LeadBounded, Fed
<1>2. TimeInv /\ LeadBounded /\ [Next]_vars => LeadBounded'
  <2> SUFFICES ASSUME TimeInv, LeadBounded, [Next]_vars
               PROVE  LeadBounded'
    OBVIOUS
  <2>1. CASE UNCHANGED <<expected, counters, overlaps>>
    BY <2>1 DEF LeadBounded, Fed
  <2> QED
    BY <2>1, TimelineSteps, LeadKeptByWait, LeadKeptByPacket
<1> QED
  BY <1>1, <1>2, TimeInvariant, PTL DEF Spec

-----------------------------------------------------------------------------
(* What is acquired is given back *)

(* Only what a step before the present one acquires can be held, and only  *)
(* the last step starts the stream.                                        *)
HeldInv ==
  /\ step \in 1 .. Len(InitSteps) + 1 /\ held \subseteq Resources
  /\ thread = "none" => held = {} /\ step = 1
  /\ "format" \in held => step \in {6, 7}
  /\ "event" \in held => step > 8
  /\ "stream" \in held => step > 11
  /\ thread \notin {"none", "init"} => "format" \notin held
  /\ NothingHeld

(* The order in which things are acquired. *)
LEMMA AcquiredAt ==
  /\ Len(InitSteps) = 11
  /\ Resources = {"com", "client", "format", "event", "service", "stream"}
  /\ \A k \in 1 .. 11 : "format" \in Acquires(k) => k = 5
  /\ \A k \in 1 .. 11 : "event" \in Acquires(k) => k = 8
  /\ \A k \in 1 .. 11 : "stream" \in Acquires(k) => k = 11
  /\ Read(7) = {"format"}
<1>1. Len(InitSteps) = 11
  BY DEF InitSteps
<1>2. Resources = {"com", "client", "format", "event", "service", "stream"}
  BY DEF Resources, AcquiredBy
<1>3. \A k \in 1 .. 11 : InitSteps[k] = "CreateEvent" => k = 8
  BY DEF InitSteps
<1>4. \A k \in 1 .. 11 : InitSteps[k] = "Start" => k = 11
  BY DEF InitSteps
<1>5. \A k \in 1 .. 11 : InitSteps[k] = "GetMixFormat" => k = 5
  BY DEF InitSteps
<1>6. /\ AcquiredBy["event"] = "CreateEvent" /\ AcquiredBy["stream"] = "Start"
      /\ AcquiredBy["format"] = "GetMixFormat"
  BY DEF AcquiredBy
<1>7. Read(7) = {"format"}
  BY DEF Read, InitSteps
<1> QED
  BY <1>1, <1>2, <1>3, <1>4, <1>5, <1>6, <1>7 DEF Acquires

(* Every exit of the capture thread, a failed start after any step         *)
(* included, gives back what was acquired (initialize_session).            *)
THEOREM EverythingGivenBack == Spec => []NothingHeld
<1>1. Init => HeldInv
  BY AcquiredAt DEF Init, HeldInv, NothingHeld
<1>2. HeldInv /\ [Next]_vars => HeldInv'
  <2> SUFFICES ASSUME HeldInv, [Next]_vars
               PROVE  HeldInv'
    OBVIOUS
  <2> USE DEF HeldInv, NothingHeld, deviceVars, ownerVars, loopVars, timelineVars
  <2>0. ASSUME UNCHANGED <<held, step>>, thread # "done", thread' \notin {"none", "done"},
               thread' = "init" \/ thread \notin {"none", "init"}
        PROVE  HeldInv'
    BY <2>0
  <2>1. CASE UNCHANGED <<held, step, thread>>
    BY <2>1
  <2>2. CASE Clock \/ RouteChanges
    BY <2>1, <2>2 DEF Clock, Rest, Play, RouteChanges
  <2>3. CASE Start \/ Report \/ EnterLoop
    <3>1. CASE Report
      <4>1. step > 11
        BY <3>1, AcquiredAt DEF Report
      <4>2. "format" \notin held
        BY <4>1
      <4> QED
        BY <3>1, <4>2 DEF Report
    <3>2. CASE Start \/ EnterLoop
      BY <2>0, <3>2 DEF Start, EnterLoop
    <3> QED
      BY <2>3, <3>1, <3>2
  <2>4. CASE InitStep
    <3>1. /\ step \in 1 .. 11 /\ step' = step + 1
          /\ held' = (held \union Acquires(step)) \ Read(step) /\ thread' = "init"
      BY <2>4, AcquiredAt DEF InitStep
    <3>2. Acquires(step) \subseteq Resources
      BY DEF Acquires
    <3>3. step' \in 1 .. Len(InitSteps) + 1 /\ held' \subseteq Resources
      <4>1. held' \subseteq Resources
        BY <3>1, <3>2
      <4>2. Len(InitSteps) + 1 = 12
        BY AcquiredAt
      <4>3. step' \in 1 .. 12
        BY <3>1
      <4> QED
        BY <4>1, <4>2, <4>3
    <3>4. "event" \in held' => step' > 8
      <4>1. "event" \in held' => step > 8 \/ step = 8
        BY <3>1, AcquiredAt
      <4> QED
        BY <3>1, <4>1
    <3>5. "format" \in held' => step' \in {6, 7}
      <4>1. "format" \in held' => step \in {5, 6, 7}
        BY <3>1, AcquiredAt
      <4>2. step = 7 => "format" \notin held'
        BY <3>1, AcquiredAt
      <4> QED
        BY <3>1, <4>1, <4>2
    <3>6. "stream" \in held' => step' > 11
      <4>1. "stream" \in held' => step > 11 \/ step = 11
        BY <3>1, AcquiredAt
      <4> QED
        BY <3>1, <4>1
    <3> QED
      BY <3>1, <3>3, <3>4, <3>5, <3>6
  <2>5. CASE InitFails
    <3>1. step \in 1 .. 11 /\ held' = held \ Given(step) /\ UNCHANGED step /\ thread' = "done"
      BY <2>5, AcquiredAt DEF InitFails
    <3>2. "stream" \notin held
      BY <3>1
    <3>3. held' = {}
      <4>1. /\ ("event" \in held) => ("event" \in Given(step))
            /\ ("format" \in held) => ("format" \in Given(step))
        BY <3>1 DEF Given
      <4>2. {"com", "client", "service"} \subseteq Given(step)
        BY DEF Given
      <4> QED
        BY <3>1, <3>2, <4>1, <4>2, AcquiredAt
    <3> QED
      BY <3>1, <3>3
  <2>6. CASE SeeStop \/ Poll \/ BeginWait
    BY <2>0, <2>6 DEF SeeStop, Poll, BeginWait, EndWith, Leave
  <2>7. CASE WaitTimedOut \/ WaitSignaled \/ Drained \/ TakePacket \/ Release
    BY <2>0, <2>7 DEF WaitTimedOut, WaitSignaled, Drained, TakePacket, Release
  <2>8. CASE WaitFails \/ PacketFails
    BY <2>0, <2>8 DEF WaitFails, PacketFails, EndWith, Leave
  <2>9. CASE Teardown
    <3>1. /\ held' = held \ {"stream", "event", "service", "client", "com"}
          /\ "format" \notin held /\ UNCHANGED step /\ thread' = "done"
      BY <2>9 DEF Teardown
    <3>2. held' = {}
      BY <3>1, AcquiredAt
    <3> QED
      BY <3>1, <3>2
  <2>10. CASE StartRefused \/ RequestStop \/ Joined \/ StopGivesUp \/ StopAgain
    BY <2>1, <2>10 DEF StartRefused, RequestStop, Joined, StopGivesUp, StopAgain
  <2>11. CASE UNCHANGED vars
    BY <2>1, <2>11 DEF vars
  <2> QED
    BY <2>2, <2>3, <2>4, <2>5, <2>6, <2>7, <2>8, <2>9, <2>10, <2>11
       DEF Next, CaptureThread, Failures, Caller
<1>3. HeldInv => NothingHeld
  BY DEF HeldInv
<1> QED
  BY <1>1, <1>2, <1>3, PTL DEF Spec

-----------------------------------------------------------------------------
(* Nothing follows an error *)

ErrorInv == errors # <<>> => Over

(* Every step after an error leaves what was delivered alone. *)
LEMMA ErrorPreserved ==
  ASSUME ErrorInv, Unstarted, [Next]_vars
  PROVE  /\ ErrorInv'
         /\ errors # <<>> => UNCHANGED <<errors, accepted, counters>>
<1> USE DEF ErrorInv, Over, deviceVars, ownerVars, loopVars, timelineVars
<1>1. CASE Clock \/ RouteChanges
  BY <1>1 DEF Clock, Rest, Play, RouteChanges
<1>2. CASE InitStep \/ Report \/ EnterLoop \/ InitFails
  BY <1>2 DEF InitStep, Report, EnterLoop, InitFails
<1>3. CASE SeeStop \/ BeginWait \/ WaitSignaled \/ Drained \/ Release \/ Teardown
  BY <1>3 DEF SeeStop, BeginWait, WaitSignaled, Drained, Release, Teardown, Leave
<1>4. CASE Poll \/ WaitFails \/ PacketFails
  BY <1>4 DEF Poll, WaitFails, PacketFails, EndWith, Leave
<1>5. CASE WaitTimedOut \/ TakePacket
  BY <1>5 DEF WaitTimedOut, TakePacket
<1>6. CASE Start
  BY <1>6 DEF Start, Unstarted
<1>7. CASE StartRefused \/ RequestStop \/ Joined \/ StopGivesUp \/ StopAgain
  BY <1>7 DEF StartRefused, RequestStop, Joined, StopGivesUp, StopAgain
<1>8. CASE UNCHANGED vars
  BY <1>8 DEF vars
<1> QED
  BY <1>1, <1>2, <1>3, <1>4, <1>5, <1>6, <1>7, <1>8
     DEF Next, CaptureThread, Failures, Caller

(* The adapter reports one error at most and delivers nothing after it     *)
(* (capture_loop).                                                         *)
THEOREM NothingAfterError == Spec => SilentAfterError
<1>1. Init => ErrorInv
  BY DEF Init, ErrorInv
<1>2. ErrorInv /\ Unstarted /\ [Next]_vars => ErrorInv'
  BY ErrorPreserved
<1>3. ErrorInv /\ Unstarted /\ [Next]_vars
      => [errors # <<>> => UNCHANGED <<errors, accepted, counters>>]_vars
  BY ErrorPreserved
<1> QED
  BY <1>1, <1>2, <1>3, StartsOnce, PTL DEF Spec, SilentAfterError

=============================================================================
