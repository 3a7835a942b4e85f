----------------------- MODULE CommandDispatch_proofs -----------------------
(***************************************************************************)
(* Machine-checked proofs about the command dispatch, for any table of     *)
(* commands, any set of QTRMs and any number of frames in the event queue. *)
(***************************************************************************)
EXTENDS CommandDispatch, SequenceTheorems, TLAPS

(* Only the outermost dialog can be a suspended click: the ones opened     *)
(* while it is open come from signals.                                     *)
DialogShape ==
  \A i \in 1..Len(dialogs) : i > 1 => dialogs[i] \in {"burn_error", "log_error"}

(* While the operator is asked to confirm a burn test nothing but a resend *)
(* tick can take the lock, and no burn test runs.                          *)
ConfirmShape ==
  dialogs # <<>> /\ dialogs[1] = "burn_confirm"
    => burn = "off" /\ ~session /\ awaiting \in AutoKinds \cup {None}

(* A running burn test has posted nothing yet that would close its log. *)
RunShape == burn \in {"binding", "running"} => burnPosted = {} /\ burnLog # "closed"

LockInv == WatchdogMatches /\ TargetLatched /\ SessionHoldsLock /\ VerdictIsEarned

IInv == TypeOK /\ LockInv /\ DialogShape /\ ConfirmShape /\ RunShape

(* The window opens in the invariant. *)
LEMMA InitIInv == Init => IInv
<1> SUFFICES ASSUME Init PROVE IInv
  OBVIOUS
<1> USE KindsAssumption DEF Init
<1>1. TypeOK
  <2>1. target \in [TargetKinds -> QTRM \cup {None}] /\ posted \in 0..MaxPosted
    OBVIOUS
  <2>2. dialogs \in Seq(Suspended)
    OBVIOUS
  <2> QED BY <2>1, <2>2 DEF TypeOK
<1>2. LockInv
  BY DEF LockInv, WatchdogMatches, TargetLatched, SessionHoldsLock, VerdictIsEarned
<1>3. DialogShape /\ ConfirmShape /\ RunShape
  BY DEF DialogShape, ConfirmShape, RunShape
<1> QED BY <1>1, <1>2, <1>3 DEF IInv

(* All but the last element of a sequence. *)
LEMMA FrontFacts ==
  ASSUME NEW S, NEW s \in Seq(S), s # <<>>
  PROVE  /\ SubSeq(s, 1, Len(s) - 1) \in Seq(S)
         /\ Len(SubSeq(s, 1, Len(s) - 1)) = Len(s) - 1
         /\ \A i \in 1..(Len(s) - 1) : SubSeq(s, 1, Len(s) - 1)[i] = s[i]
<1>1. Len(s) \in Nat \ {0}
  OBVIOUS
<1> DEFINE n == Len(s) - 1
<1>2. n \in Nat /\ 1 \in Int /\ n \in Int
  BY <1>1
<1>3. \A i \in 1..n : s[i] \in S
  BY <1>1
<1> HIDE DEF n
<1>4. /\ SubSeq(s, 1, n) \in Seq(S)
      /\ Len(SubSeq(s, 1, n)) = IF 1 <= n THEN n - 1 + 1 ELSE 0
      /\ \A i \in 1..(n - 1 + 1) : SubSeq(s, 1, n)[i] = s[1 + i - 1]
  BY <1>2, <1>3, SubSeqProperties
<1>5. n - 1 + 1 = n /\ \A i \in 1..n : 1 + i - 1 = i
  BY <1>2
<1>6. Len(SubSeq(s, 1, n)) = n
  BY <1>2, <1>4
<1> QED BY <1>4, <1>5, <1>6 DEF n

(* A slot that opens a dialog from a signal leaves the suspended slots     *)
(* below it in place.                                                      *)
LEMMA SignalDialog ==
  ASSUME TypeOK, DialogShape,
         NEW d \in {"burn_error", "log_error"}, dialogs' = Append(dialogs, d)
  PROVE  /\ dialogs' \in Seq(Suspended)
         /\ DialogShape'
         /\ dialogs' # <<>> /\ dialogs'[1] = "burn_confirm"
              => dialogs # <<>> /\ dialogs[1] = "burn_confirm"
<1>1. dialogs \in Seq(Suspended) /\ d \in Suspended
  BY DEF TypeOK, Suspended
<1> QED BY <1>1 DEF DialogShape

(* A click that opens a dialog opens the outermost one. *)
LEMMA ClickDialog ==
  ASSUME Clickable, NEW d \in Suspended, dialogs' = Append(dialogs, d)
  PROVE  dialogs' \in Seq(Suspended) /\ DialogShape' /\ dialogs'[1] = d
<1>1. dialogs' = <<d>>
  BY DEF Clickable
<1> QED BY <1>1 DEF DialogShape

(* Closing the innermost dialog leaves the slots below it as they were, a  *)
(* burn confirmation was the only dialog, and so was a toggle's.           *)
LEMMA CloseTop ==
  ASSUME TypeOK, DialogShape, ~Clickable, CloseDialog
  PROVE  /\ dialogs' \in Seq(Suspended)
         /\ DialogShape'
         /\ dialogs' # <<>> /\ dialogs'[1] = "burn_confirm"
              => dialogs # <<>> /\ dialogs[1] = "burn_confirm"
         /\ Top \notin {"burn_error", "log_error"} => dialogs' = <<>> /\ Top = dialogs[1]
<1> DEFINE n == Len(dialogs)
<1>1. dialogs \in Seq(Suspended) /\ n \in Nat /\ n >= 1
  BY DEF TypeOK, Clickable
<1>2. dialogs # <<>>
  BY DEF Clickable
<1>3. dialogs' = SubSeq(dialogs, 1, Len(dialogs) - 1)
  BY DEF CloseDialog
<1>4. /\ dialogs' \in Seq(Suspended)
      /\ Len(dialogs') = n - 1
      /\ \A i \in 1..(n - 1) : dialogs'[i] = dialogs[i]
  BY <1>1, <1>2, <1>3, FrontFacts
<1>5. DialogShape'
  BY <1>1, <1>4 DEF DialogShape
<1>6. dialogs' # <<>> => n > 1
  BY <1>1, <1>4
<1>7. Top \notin {"burn_error", "log_error"} => n = 1
  <2>1. n \in 1..n /\ Top = dialogs[n]
    BY <1>1 DEF Top
  <2>2. n > 1 => dialogs[n] \in {"burn_error", "log_error"}
    BY <1>1 DEF DialogShape
  <2> HIDE DEF n
  <2>3. n > 1 \/ n = 1
    BY <1>1
  <2> QED BY <2>1, <2>2, <2>3
<1>8. n = 1 => dialogs' = <<>> /\ Top = dialogs[1]
  BY <1>1, <1>4, <1>6 DEF Top
<1> QED BY <1>1, <1>2, <1>4, <1>5, <1>6, <1>7, <1>8


(* The lock's invariants only look at the lock, its history and session. *)
LEMMA LockUntouched ==
  ASSUME LockInv, UNCHANGED <<lockVars, histVars, session>>
  PROVE  LockInv'
BY DEF LockInv, WatchdogMatches, TargetLatched, SessionHoldsLock, VerdictIsEarned, lockVars,
   histVars

(* A command that takes a free lock, or a resend tick its own. *)
LEMMA WaitBegins ==
  ASSUME TypeOK, LockInv, NEW k \in Kinds, begin_wait(k), UNCHANGED session,
         \/ awaiting = None
         \/ awaiting = k
         \/ k \in AutoKinds /\ awaiting \in AutoKinds,
         \/ k \in TargetKinds /\ \E t \in QTRM : target' = [target EXCEPT ![k] = t]
         \/ k \notin TargetKinds /\ UNCHANGED target
  PROVE  LockInv'
<1> USE KindsAssumption DEF begin_wait
<1>1. WatchdogMatches' /\ VerdictIsEarned'
  BY DEF WatchdogMatches, VerdictIsEarned
<1>2. SessionHoldsLock'
  BY DEF LockInv, SessionHoldsLock
<1>3. TargetLatched'
  BY DEF LockInv, TargetLatched, TypeOK
<1> QED BY <1>1, <1>2, <1>3 DEF LockInv

(* A frame that is taken for the answer of the command in flight. *)
LEMMA WaitAnswered ==
  ASSUME TypeOK, LockInv, awaiting # "remote_programming",
         NEW bare \in BOOLEAN, NEW displayed \in BOOLEAN, NEW parses \in BOOLEAN,
         CommandFrame(bare, displayed, parses)
  PROVE  /\ LockInv'
         /\ awaiting' = None /\ watchdog' = None
         /\ target' \in [TargetKinds -> QTRM \cup {None}]
         /\ shown' \in {"none", "pending", "result", "silent", "mismatch"}
         /\ heard' \in {"nothing", "frame", "unseen"}
         /\ UNCHANGED session
<1> USE KindsAssumption DEF CommandFrame
<1>1. WatchdogMatches' /\ SessionHoldsLock'
  BY DEF LockInv, WatchdogMatches, SessionHoldsLock
<1>2. target' \in [TargetKinds -> QTRM \cup {None}]
  BY DEF TypeOK, TakeTarget
<1>3. TargetLatched'
  BY DEF LockInv, TargetLatched, TypeOK, TakeTarget
<1>4. CASE awaiting \in Kinds
  <2>1. shown = "pending" /\ heard' = "frame"
    BY <1>4 DEF LockInv, VerdictIsEarned
  <2>2. shown' \in {"result", "mismatch", "pending"}
    BY <1>4, <2>1 DEF Verdict
  <2>3. VerdictIsEarned'
    BY <2>1, <2>2 DEF VerdictIsEarned
  <2> QED BY <1>1, <1>2, <1>3, <2>1, <2>2, <2>3 DEF LockInv
<1>5. CASE awaiting \notin Kinds
  <2>1. VerdictIsEarned' /\ UNCHANGED histVars
    BY <1>5 DEF LockInv, VerdictIsEarned, histVars
  <2> QED BY <1>1, <1>2, <1>3, <2>1 DEF LockInv, TypeOK, histVars
<1> QED BY <1>4, <1>5

(* A session that ends, by itself or for a lost connection, releases its   *)
(* own lock; with it the lock of a burn test may go.                       *)
LEMMA SessionEnds ==
  ASSUME TypeOK, LockInv, session' = FALSE,
         \/ awaiting' = SessionReleased
         \/ awaiting' = None /\ awaiting = "burn_test",
         UNCHANGED <<watchdog, target, histVars>>
  PROVE  LockInv' /\ awaiting' \in Owners \cup {None}
<1> USE KindsAssumption DEF SessionReleased
<1>1. awaiting' = awaiting \/ (awaiting' = None /\ awaiting \notin Kinds)
  OBVIOUS
<1>2. WatchdogMatches' /\ VerdictIsEarned'
  BY <1>1 DEF LockInv, WatchdogMatches, VerdictIsEarned, histVars
<1>3. SessionHoldsLock'
  BY DEF LockInv, SessionHoldsLock
<1>4. TargetLatched'
  BY <1>1 DEF LockInv, TargetLatched, TypeOK
<1> QED BY <1>1, <1>2, <1>3, <1>4 DEF LockInv, TypeOK

(* The burn test's cleanup without the session's. *)
LEMMA BurnStops ==
  ASSUME TypeOK, LockInv, burn_test_stop(awaiting),
         UNCHANGED <<watchdog, target, histVars, session>>
  PROVE  LockInv' /\ awaiting' \in Owners \cup {None}
<1> USE KindsAssumption DEF burn_test_stop
<1>1. awaiting' = awaiting \/ (awaiting' = None /\ awaiting = "burn_test")
  OBVIOUS
<1>2. WatchdogMatches' /\ VerdictIsEarned' /\ SessionHoldsLock'
  BY <1>1 DEF LockInv, WatchdogMatches, VerdictIsEarned, SessionHoldsLock, histVars
<1>3. TargetLatched'
  BY <1>1 DEF LockInv, TargetLatched, TypeOK
<1> QED BY <1>1, <1>2, <1>3 DEF LockInv, TypeOK

(* Every event keeps the invariant. *)
LEMMA StepIInv == IInv /\ [Next]_vars => IInv'
<1> SUFFICES ASSUME IInv, [Next]_vars PROVE IInv'
  OBVIOUS
<1> USE KindsAssumption
<1>0. TypeOK /\ LockInv /\ DialogShape /\ ConfirmShape /\ RunShape
  BY DEF IInv
<1>1. ASSUME UNCHANGED <<lockVars, burnVars, histVars, session, dialogs>>, TypeOK'
      PROVE  IInv'
  <2>1. LockInv'
    BY <1>0, <1>1, LockUntouched
  <2>2. (DialogShape /\ ConfirmShape /\ RunShape)'
    BY <1>0, <1>1 DEF DialogShape, ConfirmShape, RunShape, lockVars, burnVars
  <2> QED BY <1>1, <2>1, <2>2 DEF IInv
<1>2. ASSUME NEW k \in Kinds, NEW t \in QTRM, Send(k, t) PROVE IInv'
  <2> USE <1>2 DEF Send, CanSend
  <2>1. LockInv'
    BY <1>0, WaitBegins
  <2>2. TypeOK'
    BY <1>0 DEF TypeOK, burnVars, begin_wait, Owners
  <2>3. (DialogShape /\ ConfirmShape /\ RunShape)'
    BY <1>0 DEF DialogShape, ConfirmShape, RunShape, burnVars, Clickable
  <2> QED BY <2>1, <2>2, <2>3 DEF IInv
<1>3. ASSUME NEW k \in AutoKinds, stop_auto_resend(k) PROVE IInv'
  <2>1. TypeOK'
    BY <1>0, <1>3 DEF TypeOK, stop_auto_resend, lockVars, burnVars, histVars
  <2> QED BY <1>1, <1>3, <2>1 DEF stop_auto_resend
<1>4. ASSUME NEW k \in AutoKinds, NEW resend \in BOOLEAN, SendAll(k, resend) PROVE IInv'
  <2> USE <1>4 DEF SendAll, CanSend
  <2>1. LockInv'
    BY <1>0, WaitBegins
  <2>2. TypeOK'
    BY <1>0 DEF TypeOK, burnVars, begin_wait, Owners
  <2>3. (DialogShape /\ ConfirmShape /\ RunShape)'
    BY <1>0 DEF DialogShape, ConfirmShape, RunShape, burnVars, Clickable
  <2> QED BY <2>1, <2>2, <2>3 DEF IInv
<1>5. ASSUME NEW k \in AutoKinds, SendAllRefused(k) PROVE IInv'
  <2> USE <1>5 DEF SendAllRefused
  <2>1. LockInv'
    BY <1>0, LockUntouched
  <2>2. UNCHANGED dialogs \/ dialogs' = Append(dialogs, k)
    OBVIOUS
  <2>3. /\ dialogs' \in Seq(Suspended) /\ DialogShape'
        /\ dialogs' = <<>> \/ dialogs'[1] = k
    <3>1. k \in Suspended
      BY DEF Suspended
    <3>2. CASE UNCHANGED dialogs
      BY <1>0, <3>2 DEF TypeOK, DialogShape, Clickable
    <3>3. CASE dialogs' = Append(dialogs, k)
      BY <3>1, <3>3, ClickDialog
    <3> QED BY <2>2, <3>2, <3>3
  <2>4. TypeOK'
    BY <1>0, <2>3 DEF TypeOK, lockVars, burnVars, histVars
  <2>5. ConfirmShape' /\ RunShape'
    BY <1>0, <2>3 DEF ConfirmShape, RunShape, burnVars
  <2> QED BY <2>1, <2>3, <2>4, <2>5 DEF IInv
<1>6. ASSUME NEW k \in AutoKinds, SendAllLogFails(k) PROVE IInv'
  <2> USE <1>6 DEF SendAllLogFails, CanSend
  <2>1. LockInv'
    BY <1>0, WaitBegins
  <2>2. dialogs' \in Seq(Suspended) /\ DialogShape' /\ dialogs'[1] = k
    <3>1. k \in Suspended
      BY DEF Suspended
    <3> QED BY <3>1, ClickDialog
  <2>3. TypeOK'
    BY <1>0, <2>2 DEF TypeOK, burnVars, begin_wait, Owners
  <2>4. ConfirmShape' /\ RunShape'
    BY <1>0, <2>2 DEF ConfirmShape, RunShape, burnVars
  <2> QED BY <2>1, <2>2, <2>3, <2>4 DEF IInv
<1>7. ASSUME toggle_resumed PROVE IInv'
  <2> USE <1>7 DEF toggle_resumed
  <2>1. LockInv'
    BY <1>0, LockUntouched
  <2>2. dialogs' \in Seq(Suspended) /\ DialogShape' /\ dialogs' = <<>>
    BY <1>0, CloseTop
  <2>3. TypeOK'
    BY <1>0, <2>2 DEF TypeOK, lockVars, burnVars, histVars
  <2>4. ConfirmShape' /\ RunShape'
    BY <1>0, <2>2 DEF ConfirmShape, RunShape, burnVars
  <2> QED BY <2>1, <2>2, <2>3, <2>4 DEF IInv
<1>8. ASSUME NEW k \in AutoKinds, resend_tick(k) PROVE IInv'
  <2> USE <1>8 DEF resend_tick
  <2>1. LockInv'
    BY <1>0, WaitBegins
  <2>2. TypeOK'
    BY <1>0 DEF TypeOK, burnVars, begin_wait, Owners
  <2>3. (DialogShape /\ ConfirmShape /\ RunShape)'
    BY <1>0 DEF DialogShape, ConfirmShape, RunShape, burnVars, begin_wait
  <2> QED BY <2>1, <2>2, <2>3 DEF IInv
<1>9. ASSUME NEW k \in Kinds, response_timeout(k) PROVE IInv'
  <2> USE <1>9 DEF response_timeout
  <2>1. awaiting' = None \/ (UNCHANGED <<awaiting, shown, target>> /\ awaiting # k)
    OBVIOUS
  <2>2. TypeOK'
    BY <1>0 DEF TypeOK, burnVars, TakeTarget
  <2>3. WatchdogMatches'
    BY <1>0, <2>1 DEF LockInv, WatchdogMatches
  <2>4. TargetLatched'
    BY <1>0 DEF LockInv, TargetLatched, TypeOK, TakeTarget
  <2>5. SessionHoldsLock' /\ VerdictIsEarned'
    BY <1>0 DEF LockInv, SessionHoldsLock, VerdictIsEarned
  <2>6. (DialogShape /\ ConfirmShape /\ RunShape)'
    BY <1>0, <2>1 DEF DialogShape, ConfirmShape, RunShape, burnVars
  <2> QED BY <2>2, <2>3, <2>4, <2>5, <2>6 DEF IInv, LockInv
<1>10. ASSUME rp_start PROVE IInv'
  <2> USE <1>10 DEF rp_start, CanSend
  <2>1. LockInv'
    BY <1>0 DEF LockInv, WatchdogMatches, TargetLatched, SessionHoldsLock, VerdictIsEarned,
       histVars
  <2>2. TypeOK'
    BY <1>0 DEF TypeOK, burnVars, histVars, Owners
  <2>3. (DialogShape /\ ConfirmShape /\ RunShape)'
    BY <1>0 DEF DialogShape, ConfirmShape, RunShape, burnVars, Clickable
  <2> QED BY <2>1, <2>2, <2>3 DEF IInv
<1>11. ASSUME rp_session_finished PROVE IInv'
  <2> USE <1>11 DEF rp_session_finished
  <2>1. LockInv' /\ awaiting' \in Owners \cup {None}
    BY <1>0, SessionEnds
  <2>2. TypeOK'
    BY <1>0, <2>1 DEF TypeOK, burnVars, histVars
  <2>3. (DialogShape /\ ConfirmShape /\ RunShape)'
    BY <1>0 DEF DialogShape, ConfirmShape, RunShape, burnVars
  <2> QED BY <2>1, <2>2, <2>3 DEF IInv
<1>12. ASSUME worker # "off", disconnect,
              UNCHANGED <<watchdog, target, histVars, posted, logging, dialogs>>
       PROVE  IInv'
  <2> USE <1>12 DEF disconnect, burn_test_stop
  <2>1. LockInv' /\ awaiting' \in Owners \cup {None}
    <3>1. \/ awaiting' = SessionReleased
          \/ awaiting' = None /\ awaiting = "burn_test"
      BY <1>0 DEF SessionReleased, LockInv, SessionHoldsLock
    <3> QED BY <1>0, <3>1, SessionEnds
  <2>2. TypeOK'
    BY <1>0, <2>1 DEF TypeOK, histVars
  <2>3. (DialogShape /\ ConfirmShape /\ RunShape)'
    BY <1>0 DEF DialogShape, ConfirmShape, RunShape, SessionReleased
  <2> QED BY <2>1, <2>2, <2>3 DEF IInv
<1>13. ASSUME Connection PROVE IInv'
  <2>1. CASE disconnect_clicked \/ worker_died
    BY <1>12, <2>1 DEF disconnect_clicked, worker_died
  <2>2. CASE connect \/ listening \/ bind_failed
    <3>1. /\ UNCHANGED <<lockVars, burnVars, histVars, posted, auto, session, logging, dialogs>>
          /\ worker' \in {"off", "starting", "up"}
      BY <2>2 DEF connect, listening, bind_failed
    <3>2. TypeOK'
      BY <1>0, <3>1 DEF TypeOK, lockVars, burnVars, histVars
    <3> QED BY <1>1, <2>2, <3>1, <3>2
  <2> QED BY <1>13, <2>1, <2>2 DEF Connection
<1>14. ASSUME burn_test_start PROVE IInv'
  <2> USE <1>14 DEF burn_test_start, CanSend
  <2>1. LockInv'
    BY <1>0, LockUntouched
  <2>2. dialogs' \in Seq(Suspended) /\ DialogShape'
    <3>1. "burn_confirm" \in Suspended
      BY DEF Suspended
    <3> QED BY <3>1, ClickDialog
  <2>3. TypeOK'
    BY <1>0, <2>2 DEF TypeOK, lockVars, burnVars, histVars
  <2>4. ConfirmShape' /\ RunShape'
    BY <1>0 DEF ConfirmShape, RunShape, burnVars, lockVars, LockInv, SessionHoldsLock
  <2> QED BY <2>1, <2>2, <2>3, <2>4 DEF IInv
<1>15. ASSUME burn_refused PROVE IInv'
  <2> USE <1>15 DEF burn_refused
  <2>1. LockInv'
    BY <1>0, LockUntouched
  <2>2. dialogs' \in Seq(Suspended) /\ DialogShape' /\ dialogs' = <<>>
    BY <1>0, CloseTop
  <2>3. TypeOK'
    BY <1>0, <2>2 DEF TypeOK, lockVars, burnVars, histVars
  <2>4. ConfirmShape' /\ RunShape'
    BY <1>0, <2>2 DEF ConfirmShape, RunShape, burnVars
  <2> QED BY <2>1, <2>2, <2>3, <2>4 DEF IInv
<1>16. ASSUME ~Clickable, Top = "burn_confirm", CloseDialog
       PROVE  /\ dialogs' = <<>> /\ dialogs' \in Seq(Suspended) /\ DialogShape'
              /\ burn = "off" /\ ~session /\ awaiting \in AutoKinds \cup {None}
  <2>1. /\ dialogs' = <<>> /\ dialogs' \in Seq(Suspended) /\ DialogShape'
        /\ Top = dialogs[1]
    BY <1>0, <1>16, CloseTop
  <2> QED BY <1>0, <1>16, <2>1 DEF ConfirmShape, Clickable
<1>17. ASSUME burn_log_refused PROVE IInv'
  <2> USE <1>17 DEF burn_log_refused
  <2>1. LockInv'
    BY <1>0, LockUntouched
  <2>2. dialogs' = <<>> /\ dialogs' \in Seq(Suspended) /\ DialogShape' /\ burn = "off"
    BY <1>16
  <2>3. TypeOK'
    BY <1>0, <2>2 DEF TypeOK, lockVars, histVars
  <2>4. ConfirmShape' /\ RunShape'
    BY <2>2 DEF ConfirmShape, RunShape
  <2> QED BY <2>1, <2>2, <2>3, <2>4 DEF IInv
<1>18. ASSUME NEW log \in BOOLEAN, burn_confirmed(log) PROVE IInv'
  <2> USE <1>18 DEF burn_confirmed
  <2>1. /\ dialogs' = <<>> /\ dialogs' \in Seq(Suspended) /\ DialogShape'
        /\ burn = "off" /\ ~session /\ awaiting \in AutoKinds \cup {None}
    BY <1>16
  <2>2. awaiting' = awaiting \/ awaiting' = "burn_test"
    OBVIOUS
  <2>3. LockInv'
    BY <1>0, <2>1, <2>2 DEF LockInv, WatchdogMatches, TargetLatched, SessionHoldsLock,
       VerdictIsEarned, histVars
  <2>4. TypeOK'
    BY <1>0, <2>1 DEF TypeOK, Owners, histVars
  <2>5. ConfirmShape' /\ RunShape'
    BY <1>0, <2>1 DEF ConfirmShape, RunShape
  <2> QED BY <2>1, <2>3, <2>4, <2>5 DEF IInv
<1>19. ASSUME burn_log_failed \/ burn_bound \/ burn_bind_failed PROVE IInv'
  <2> USE <1>19 DEF burn_log_failed, burn_bound, burn_bind_failed
  <2>1. LockInv'
    BY <1>0, LockUntouched
  <2>2. /\ UNCHANGED <<lockVars, histVars, worker, posted, auto, session, logging, dialogs>>
        /\ burn' \in {burn, "running", "dead"} /\ burnPosted' \in {burnPosted, {"error", "stopped"}}
        /\ burnLog' \in {burnLog, "failed"}
    BY DEF burnVars
  <2>3. TypeOK'
    BY <1>0, <2>2 DEF TypeOK, lockVars, histVars
  <2>4. (DialogShape /\ ConfirmShape /\ RunShape)'
    BY <1>0 DEF DialogShape, ConfirmShape, RunShape, lockVars
  <2> QED BY <2>1, <2>3, <2>4 DEF IInv
<1>20. ASSUME burn_test_stop_clicked PROVE IInv'
  <2> USE <1>20 DEF burn_test_stop_clicked, StopAndReconnect
  <2>1. LockInv' /\ awaiting' \in Owners \cup {None}
    BY <1>0, BurnStops
  <2>2. TypeOK'
    BY <1>0, <2>1 DEF TypeOK, histVars, burn_test_stop
  <2>3. (DialogShape /\ ConfirmShape /\ RunShape)'
    BY <1>0 DEF DialogShape, ConfirmShape, RunShape, burn_test_stop
  <2> QED BY <2>1, <2>2, <2>3 DEF IInv
<1>21. ASSUME burn_test_error PROVE IInv'
  <2> USE <1>21 DEF burn_test_error
  <2>1. LockInv'
    BY <1>0, LockUntouched
  <2>2. /\ dialogs' \in Seq(Suspended) /\ DialogShape'
        /\ dialogs' # <<>> /\ dialogs'[1] = "burn_confirm"
             => dialogs # <<>> /\ dialogs[1] = "burn_confirm"
    BY <1>0, SignalDialog
  <2>3. TypeOK'
    BY <1>0, <2>2 DEF TypeOK, lockVars, histVars
  <2>4. ConfirmShape' /\ RunShape'
    BY <1>0, <2>2 DEF ConfirmShape, RunShape, lockVars
  <2> QED BY <2>1, <2>2, <2>3, <2>4 DEF IInv
<1>22. ASSUME burn_error_closed PROVE IInv'
  <2> USE <1>22 DEF burn_error_closed, StopAndReconnect
  <2>1. LockInv' /\ awaiting' \in Owners \cup {None}
    BY <1>0, BurnStops
  <2>2. /\ dialogs' \in Seq(Suspended) /\ DialogShape'
        /\ dialogs' # <<>> /\ dialogs'[1] = "burn_confirm"
             => dialogs # <<>> /\ dialogs[1] = "burn_confirm"
    BY <1>0, CloseTop
  <2>3. TypeOK'
    BY <1>0, <2>1, <2>2 DEF TypeOK, histVars, burn_test_stop
  <2>4. ConfirmShape' /\ RunShape'
    BY <1>0, <2>2 DEF ConfirmShape, RunShape, burn_test_stop
  <2> QED BY <2>1, <2>2, <2>3, <2>4 DEF IInv
<1>23. ASSUME burn_test_stopped PROVE IInv'
  <2> USE <1>23 DEF burn_test_stopped
  <2>1. LockInv'
    BY <1>0, LockUntouched
  <2>2. TypeOK'
    BY <1>0 DEF TypeOK, lockVars, histVars
  <2>3. (DialogShape /\ ConfirmShape /\ RunShape)'
    BY <1>0 DEF DialogShape, ConfirmShape, RunShape, lockVars
  <2> QED BY <2>1, <2>2, <2>3 DEF IInv
<1>24. ASSUME post_frame \/ log_toggled \/ log_failed PROVE IInv'
  <2>1. /\ UNCHANGED <<lockVars, burnVars, histVars, worker, auto, session, dialogs>>
        /\ posted' = posted \/ (posted < MaxPosted /\ posted' = posted + 1)
        /\ logging' \in {logging, ~logging, FALSE}
    BY <1>24 DEF post_frame, log_toggled, log_failed
  <2>2. posted' \in 0..MaxPosted
    BY <1>0, <2>1, KindsAssumption DEF TypeOK
  <2>3. logging' \in BOOLEAN
    BY <1>0, <2>1 DEF TypeOK
  <2>4. TypeOK'
    BY <1>0, <2>1, <2>2, <2>3 DEF TypeOK, lockVars, burnVars, histVars
  <2> QED BY <1>1, <2>1, <2>4
<1>25. ASSUME BareFrameRaises
       PROVE  LockInv' /\ UNCHANGED <<lockVars, session, shown>>
              /\ heard' \in {"nothing", "frame", "unseen"}
  BY <1>0, <1>25 DEF BareFrameRaises, LockInv, WatchdogMatches, TargetLatched,
     SessionHoldsLock, VerdictIsEarned, lockVars, TypeOK
<1>26. ASSUME awaiting = "remote_programming", SessionFrame
       PROVE  LockInv' /\ session' \in BOOLEAN /\ awaiting' \in {awaiting, None}
              /\ UNCHANGED <<watchdog, target, histVars>>
  <2>1. CASE session'
    BY <1>0, <1>26, <2>1, LockUntouched DEF SessionFrame, TypeOK, lockVars
  <2>2. CASE ~session'
    <3>1. session /\ session' = FALSE /\ awaiting' = SessionReleased
      BY <1>0, <1>26, <2>2 DEF SessionFrame, LockInv, SessionHoldsLock, TypeOK
    <3> QED BY <1>0, <1>26, <3>1, SessionEnds DEF SessionFrame, SessionReleased
  <2> QED BY <2>1, <2>2
<1>27. ASSUME NEW bare \in BOOLEAN, NEW displayed \in BOOLEAN, NEW parses \in BOOLEAN,
              on_frame_received(bare, displayed, parses)
       PROVE  IInv'
  <2> USE <1>27 DEF on_frame_received
  <2>1. posted' \in 0..MaxPosted
    BY <1>0 DEF TypeOK
  <2>2. CASE logging /\ bare
    <3>1. TypeOK'
      BY <1>0, <1>25, <2>1, <2>2 DEF TypeOK, burnVars, lockVars
    <3>2. (DialogShape /\ ConfirmShape /\ RunShape)'
      BY <1>0, <1>25, <2>2 DEF DialogShape, ConfirmShape, RunShape, burnVars, lockVars
    <3> QED BY <1>25, <2>2, <3>1, <3>2 DEF IInv
  <2>3. CASE ~(logging /\ bare) /\ awaiting = "remote_programming"
    <3>1. TypeOK'
      BY <1>0, <1>26, <2>1, <2>3 DEF TypeOK, burnVars, histVars
    <3>2. (DialogShape /\ ConfirmShape /\ RunShape)'
      BY <1>0, <1>26, <2>3 DEF DialogShape, ConfirmShape, RunShape, burnVars
    <3> QED BY <1>26, <2>3, <3>1, <3>2 DEF IInv
  <2>4. CASE ~(logging /\ bare) /\ awaiting # "remote_programming"
    <3>1. /\ LockInv' /\ awaiting' = None /\ watchdog' = None
          /\ target' \in [TargetKinds -> QTRM \cup {None}]
          /\ shown' \in {"none", "pending", "result", "silent", "mismatch"}
          /\ heard' \in {"nothing", "frame", "unseen"} /\ UNCHANGED session
      BY <1>0, <2>4, WaitAnswered
    <3>2. TypeOK'
      BY <1>0, <2>1, <2>4, <3>1 DEF TypeOK, burnVars
    <3>3. (DialogShape /\ ConfirmShape /\ RunShape)'
      BY <1>0, <2>4, <3>1 DEF DialogShape, ConfirmShape, RunShape, burnVars
    <3> QED BY <3>1, <3>2, <3>3 DEF IInv
  <2> QED BY <2>2, <2>3, <2>4
<1>28. ASSUME frame_log_failed PROVE IInv'
  <2> USE <1>28 DEF frame_log_failed
  <2>1. LockInv'
    BY <1>0 DEF LockInv, WatchdogMatches, TargetLatched, SessionHoldsLock, VerdictIsEarned,
       lockVars
  <2>2. /\ dialogs' \in Seq(Suspended) /\ DialogShape'
        /\ dialogs' # <<>> /\ dialogs'[1] = "burn_confirm"
             => dialogs # <<>> /\ dialogs[1] = "burn_confirm"
    BY <1>0, SignalDialog
  <2>3. posted' \in 0..MaxPosted
    BY <1>0 DEF TypeOK
  <2>4. heard' \in {"nothing", "frame", "unseen"}
    BY <1>0 DEF TypeOK
  <2>5. TypeOK'
    BY <1>0, <2>2, <2>3, <2>4 DEF TypeOK, lockVars, burnVars
  <2>6. ConfirmShape' /\ RunShape'
    BY <1>0, <2>2 DEF ConfirmShape, RunShape, lockVars, burnVars
  <2> QED BY <2>1, <2>2, <2>5, <2>6 DEF IInv
<1>29. ASSUME NEW displayed \in BOOLEAN, NEW parses \in BOOLEAN,
              log_error_closed(displayed, parses)
       PROVE  IInv'
  <2> USE <1>29 DEF log_error_closed
  <2>1. /\ dialogs' \in Seq(Suspended) /\ DialogShape'
        /\ dialogs' # <<>> /\ dialogs'[1] = "burn_confirm"
             => dialogs # <<>> /\ dialogs[1] = "burn_confirm"
    BY <1>0, CloseTop
  <2>2. CASE awaiting = "remote_programming"
    <3>1. TypeOK'
      BY <1>0, <1>26, <2>1, <2>2 DEF TypeOK, burnVars, histVars
    <3>2. ConfirmShape' /\ RunShape'
      BY <1>0, <1>26, <2>1, <2>2 DEF ConfirmShape, RunShape, burnVars, LockInv,
         SessionHoldsLock
    <3> QED BY <1>26, <2>1, <2>2, <3>1, <3>2 DEF IInv
  <2>3. CASE awaiting # "remote_programming"
    <3>1. /\ LockInv' /\ awaiting' = None /\ watchdog' = None
          /\ target' \in [TargetKinds -> QTRM \cup {None}]
          /\ shown' \in {"none", "pending", "result", "silent", "mismatch"}
          /\ heard' \in {"nothing", "frame", "unseen"} /\ UNCHANGED session
      BY <1>0, <2>3, WaitAnswered
    <3>2. TypeOK'
      BY <1>0, <2>1, <2>3, <3>1 DEF TypeOK, burnVars
    <3>3. ConfirmShape' /\ RunShape'
      BY <1>0, <2>1, <2>3, <3>1 DEF ConfirmShape, RunShape, burnVars
    <3> QED BY <2>1, <3>1, <3>2, <3>3 DEF IInv
  <2> QED BY <2>2, <2>3
<1>30. CASE UNCHANGED vars
  <2>1. TypeOK'
    BY <1>0, <1>30 DEF TypeOK, vars, lockVars, burnVars, histVars
  <2> QED BY <1>1, <1>30, <2>1 DEF vars
<1>31. CASE Commands
  BY <1>2, <1>3, <1>4, <1>5, <1>6, <1>7, <1>8, <1>9, <1>31 DEF Commands
<1>32. CASE BurnTest
  BY <1>14, <1>15, <1>17, <1>18, <1>19, <1>20, <1>21, <1>22, <1>23, <1>32 DEF BurnTest
<1>33. CASE Frames
  BY <1>24, <1>27, <1>28, <1>29, <1>33 DEF Frames
<1>34. CASE Sessions
  BY <1>10, <1>11, <1>34 DEF Sessions
<1> QED BY <1>13, <1>30, <1>31, <1>32, <1>33, <1>34 DEF Next

(* Every reachable state of the dispatch satisfies the inductive invariant. *)
THEOREM Invariant == Spec => []IInv
<1>1. Init => IInv
  BY InitIInv
<1>2. IInv /\ [Next]_vars => IInv'
  BY StepIInv
<1> QED BY <1>1, <1>2, PTL DEF Spec

(* Every state of the window has the type the code gives it. *)
THEOREM TypeCorrect == Spec => []TypeOK
<1>1. IInv => TypeOK
  BY DEF IInv
<1> QED BY <1>1, Invariant, PTL

(* _begin_wait's comment holds: a latched command and the armed watchdog   *)
(* never disagree.                                                         *)
THEOREM WatchdogAgrees == Spec => []WatchdogMatches
<1>1. IInv => WatchdogMatches
  BY DEF IInv, LockInv
<1> QED BY <1>1, Invariant, PTL

(* A single-QTRM command has its target exactly while it holds the lock.   *)
THEOREM TargetsFollowLock == Spec => []TargetLatched
<1>1. IInv => TargetLatched
  BY DEF IInv, LockInv
<1> QED BY <1>1, Invariant, PTL

(* A Remote Programming session runs exactly while the lock is its own.    *)
THEOREM SessionOwnsLock == Spec => []SessionHoldsLock
<1>1. IInv => SessionHoldsLock
  BY DEF IInv, LockInv
<1> QED BY <1>1, Invariant, PTL

(* What a tab shows of its command is what became of it.                   *)
THEOREM VerdictsAreEarned == Spec => []VerdictIsEarned
<1>1. IInv => VerdictIsEarned
  BY DEF IInv, LockInv
<1> QED BY <1>1, Invariant, PTL

(* A burn test never runs with its log closed under it.                    *)
THEOREM LogStaysOpen == Spec => []LogFollowsRun
<1>1. IInv => LogFollowsRun
  BY DEF IInv, RunShape, LogFollowsRun
<1> QED BY <1>1, Invariant, PTL

(* Nothing but a confirmed burn test, which can overtake a resend tick,    *)
(* takes the lock from an owner that has not given it back.                *)
THEOREM LockIsNotStolen == Spec => NoStealing
<1> DEFINE Kept == awaiting # None /\ awaiting' # awaiting
                     => awaiting' = None \/ (awaiting \in AutoKinds /\ awaiting' = "burn_test")
<1>1. IInv /\ [Next]_vars => [Kept]_vars
  <2> SUFFICES ASSUME IInv, Next, awaiting # None, awaiting' # awaiting
               PROVE  awaiting' = None \/ (awaiting \in AutoKinds /\ awaiting' = "burn_test")
    OBVIOUS
  <2>1. CASE Commands
    BY <2>1 DEF Commands, Send, CanSend, stop_auto_resend, SendAll, SendAllRefused,
       SendAllLogFails, toggle_resumed, resend_tick, response_timeout, begin_wait, lockVars
  <2>2. CASE Sessions
    BY <2>2 DEF Sessions, rp_start, rp_session_finished, CanSend, SessionReleased
  <2>3. CASE Connection
    BY <2>3 DEF Connection, connect, listening, bind_failed, disconnect_clicked,
       worker_died, disconnect, burn_test_stop, SessionReleased, lockVars
  <2>4. CASE \E log \in BOOLEAN : burn_confirmed(log)
    <3>1. ~Clickable /\ Top = "burn_confirm" /\ CloseDialog
          /\ (awaiting' = "burn_test" \/ awaiting' = awaiting)
      BY <2>4 DEF burn_confirmed
    <3>2. dialogs[1] = "burn_confirm" /\ dialogs # <<>>
      BY <3>1, CloseTop DEF IInv, Clickable
    <3>3. awaiting \in AutoKinds \cup {None}
      BY <3>2 DEF IInv, ConfirmShape
    <3> QED BY <3>1, <3>3
  <2>5. CASE BurnTest /\ ~(\E log \in BOOLEAN : burn_confirmed(log))
    BY <2>5 DEF BurnTest, burn_test_start, burn_refused, burn_log_refused, burn_log_failed,
       burn_bound, burn_bind_failed, burn_test_stop_clicked, burn_test_error,
       burn_error_closed, burn_test_stopped, StopAndReconnect, burn_test_stop, lockVars
  <2>6. CASE Frames
    BY <2>6 DEF Frames, post_frame, on_frame_received, frame_log_failed, log_error_closed,
       log_toggled, log_failed, BareFrameRaises, SessionFrame, CommandFrame,
       SessionReleased, lockVars
  <2> QED BY <2>1, <2>2, <2>3, <2>4, <2>5, <2>6 DEF Next
<1> QED BY <1>1, Invariant, PTL DEF Spec, NoStealing

=============================================================================
