-------------------------- MODULE MCWorkerThreads --------------------------
(***************************************************************************)
(* The worker threads for TLC: the interactive link with its data log, and *)
(* the burn test, for which the link gives up its port.  They share only   *)
(* the counter of message numbers, which either module lets the other side *)
(* move at any time, so a behaviour exercises one of them, its focus.  To  *)
(* stay small a focus begins where a part of the bounds is used up:        *)
(*   link   no log, one frame;                                             *)
(*   log    the first of the connections is over, the log comes and goes;  *)
(*   burn   the first of the burn tests is over;                           *)
(*   burns  all message numbers but one are taken.                         *)
(***************************************************************************)
EXTENDS UdpLink, BurnTestWorker

ASSUME WorkerThreadsAssumption == MaxSends > 0

VARIABLE focus   \* the part that is exercised

threadsVars == <<focus, linkLogVars, burnVars>>

Init ==
  /\ focus \in {"link", "log", "burn", "burns"}
  /\ LinkInit(IF focus = "log" THEN {1} ELSE {},
              IF focus = "link" THEN MaxSends - 1 ELSE 0)
  /\ BurnInit(IF focus = "burn" THEN {1} ELSE {},
              IF focus = "burns" THEN MaxSends - 1 ELSE 0)

Next ==
  /\ UNCHANGED focus
  /\ \/ focus = "link" /\ UdpNext /\ UNCHANGED logVars /\ UNCHANGED burnVars
     \/ focus = "log" /\ LinkNext /\ UNCHANGED burnVars
     \/ focus \in {"burn", "burns"} /\ BurnNext /\ UNCHANGED linkLogVars

Spec == Init /\ [][Next]_threadsVars /\ LinkFairness
============================================================================
