----------------------- MODULE MCRemoteProgController -----------------------
(***************************************************************************)
(* Two small instances of the Remote Programming session for TLC, told     *)
(* apart by their scope: the whole session with images of one chunk, and   *)
(* uploads of longer images, which start from the reachable states in      *)
(* which both mode steps have succeeded and the port is bound or about to  *)
(* be, and keep the events that touch an upload.                           *)
(***************************************************************************)
EXTENDS RemoteProgController

VARIABLE scope   \* "session" or "uploads"

scopeVars == <<scope, vars>>

(* Bounds of the whole session.                                            *)
SessionChunks == 1
SessionAnnounces == 1

GateOpenInit ==
  /\ link \in {"starting", "up"}
  /\ awaiting = "none"
  /\ op = "none"
  /\ step1Done = TRUE
  /\ step2Done = TRUE
  /\ gotAny = TRUE
  /\ iapReplied = {}
  /\ timer = "off"
  /\ phase = "none"
  /\ current = NoChunk
  /\ chunkCount = 0
  /\ ackMatrix = NoAcks
  /\ target = Broadcast
  /\ announces = 0
  /\ tab = [gate |-> TRUE, step1 |-> TRUE, programmed |-> FALSE, active |-> FALSE]
  /\ sent = <<>>
  /\ outcome = "ok"
  /\ step1Target = Broadcast
  /\ step2Target = Broadcast

UploadNext ==
  \/ \E n \in 1..MaxChunks : start_upload(n)
  \/ cancel
  \/ ShortFrame
  \/ \E slots \in [QTRM -> Slots] : UploadFrame(slots)
  \/ close_upload_pass
  \/ announce_settled
  \/ connect \/ listening \/ bind_failed

ScopedInit ==
  \/ scope = "session" /\ Init
  \/ scope = "uploads" /\ GateOpenInit

ScopedNext ==
  /\ UNCHANGED scope
  /\ \/ /\ scope = "session" /\ Next
        /\ chunkCount' <= SessionChunks /\ announces' <= SessionAnnounces
     \/ scope = "uploads" /\ UploadNext

ScopedSpec == ScopedInit /\ [][ScopedNext]_scopeVars /\ Fairness
=============================================================================
