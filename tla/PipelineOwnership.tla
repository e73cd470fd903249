-------------------------- MODULE PipelineOwnership --------------------------
(***************************************************************************)
(* What the lifecycle manager promises of the pipelines it opens, without  *)
(* its mutexes, threads and generations.  A pipeline is one device session *)
(* with its monitor thread and ASR worker; a start call or a recovery      *)
(* attempt opens it.  It is handed over as a whole: from whoever opened it *)
(* to the session, from the session to whoever closes it, and it is        *)
(* released once.  The session holds one pipeline of a source.             *)
(*                                                                         *)
(* RuntimeManager implements this: see RefinesOwnership there.             *)
(***************************************************************************)
EXTENDS Naturals

CONSTANTS Openers, Sources

Pipelines == Openers \X Sources
Stages == {"none", "opening", "installed", "closing", "released"}

VARIABLE stage   \* of each pipeline

TypeOK == stage \in [Pipelines -> Stages]

Init == stage = [p \in Pipelines |-> "none"]

Stays(p) == stage'[p] = stage[p]
Goes(p, from, to) == stage[p] = from /\ stage'[p] = to

Open(p) ==
  /\ Goes(p, "none", "opening")
  /\ \A q \in Pipelines \ {p} : Stays(q)

(* A superseded attempt leaves its pipeline to a thread that joins it.     *)
GiveUp(p) ==
  /\ Goes(p, "opening", "closing")
  /\ \A q \in Pipelines \ {p} : Stays(q)

(* An opener that fails or was superseded closes what it opened itself,    *)
(* and a device it was given too late before anyone else sees it.          *)
Refuse(o) ==
  \A p \in Pipelines :
    \/ Stays(p)
    \/ p[1] = o /\ (Goes(p, "none", "released") \/ Goes(p, "opening", "released"))

(* What the opener has open becomes the session's; what was there, of the  *)
(* same sources at least, is closed.                                       *)
Install(o) ==
  /\ \A p \in Pipelines :
       \/ Stays(p)
       \/ p[1] = o /\ Goes(p, "opening", "installed")
       \/ Goes(p, "installed", "closing")
  /\ \A p, q \in Pipelines :
       Goes(p, "opening", "installed") /\ p # q /\ p[2] = q[2] =>
         stage'[q] # "installed"

(* A stop, a shutdown or a fault takes pipelines out of the session.       *)
Close == \A p \in Pipelines : Stays(p) \/ Goes(p, "installed", "closing")

Join == \A p \in Pipelines : Stays(p) \/ Goes(p, "closing", "released")

Next ==
  /\ stage' \in [Pipelines -> Stages]
  /\ \/ Close
     \/ Join
     \/ \E p \in Pipelines : Open(p) \/ GiveUp(p)
     \/ \E o \in Openers : Refuse(o) \/ Install(o)

Spec == Init /\ [][Next]_stage
=============================================================================
