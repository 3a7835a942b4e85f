----------------------------- MODULE FrameLogger -----------------------------
(***************************************************************************)
(* core/frame_logger.py: the CSV file of the interactive link, one row per *)
(* query.  One query may be pending; it gets its row from the reply, from  *)
(* the next query, from a timer of its own or from the end of the log.     *)
(* Everything here runs on the GUI thread, called from the slots of the    *)
(* UDP worker's signals; each operator is one method with all it calls.    *)
(* `fails' says that the write of a row raises OSError.  Columns, counters *)
(* and flushes to disk are left out.                                       *)
(***************************************************************************)
EXTENDS UdpFrames

VARIABLES
  file,        \* _file: "open", "closed" or "failed" (a write error closed it)
  pending,     \* the message number in _pending
  flushTimer,  \* _flush_timer runs
  \* history
  asked,       \* queries logged since the file was opened
  rows         \* the row of each query; None without one, Twice with more

logVars == <<file, pending, flushTimer, asked, rows>>

(* A row: its result, the number in the reply, and the send its delay was  *)
(* measured from (None: an empty cell).                                    *)
Row(result, reply, since) == [result |-> result, reply |-> reply, since |-> since]
Timeout == Row("TIMEOUT", None, None)
Twice == Row("twice", None, None)

Results == {"OK", "CRC_FAIL", "MSG_NUM_MISMATCH", "TIMEOUT", "twice"}

ASSUME FrameLoggerAssumption ==
  None \notin [result : Results, reply : Nat \cup {None}, since : Nat \cup {None}]

LogInit ==
  /\ file = "closed" /\ pending = None /\ flushTimer = FALSE
  /\ asked = {} /\ rows = [n \in Sends |-> None]

(* As elsewhere an operator Bug_... is a plausible defect of the next      *)
(* definition, for the mutants only.                                       *)

Written(n, row) == [rows EXCEPT ![n] = IF @ = None THEN row ELSE Twice]

(* _write_row for query n, in a file that is open.                         *)
write_row(n, row, fails) ==
  /\ file' = IF fails THEN "failed" ELSE file
  /\ rows' = IF fails THEN rows ELSE Written(n, row)

Bug_log_tx_no_timer(n, fails) ==
  IF file # "open" THEN ~fails /\ UNCHANGED logVars
  ELSE /\ IF pending # None THEN write_row(pending, Timeout, fails)
                            ELSE ~fails /\ UNCHANGED <<file, rows>>
       /\ pending' = n
       /\ asked' = asked \cup {n}
       /\ UNCHANGED flushTimer

(* After a failed write log_tx goes on and leaves a pending query behind.  *)
log_tx(n, fails) ==
  IF file # "open" THEN ~fails /\ UNCHANGED logVars
  ELSE /\ IF pending # None THEN write_row(pending, Timeout, fails)
                            ELSE ~fails /\ UNCHANGED <<file, rows>>
       /\ pending' = n /\ flushTimer' = TRUE
       /\ asked' = asked \cup {n}

Result(n, good) ==
  IF ~good THEN "CRC_FAIL" ELSE IF n # pending THEN "MSG_NUM_MISMATCH" ELSE "OK"

Bug_log_rx_by_arrival(n, since, good, fails) ==
  IF file # "open" THEN ~fails /\ UNCHANGED logVars
  ELSE IF pending = None
       THEN /\ file' = IF fails THEN "failed" ELSE file
            /\ flushTimer' = (flushTimer /\ ~fails)
            /\ UNCHANGED <<pending, asked, rows>>
       ELSE /\ write_row(pending, Row(IF good THEN "OK" ELSE "CRC_FAIL", n, since), fails)
            /\ pending' = None /\ flushTimer' = FALSE
            /\ UNCHANGED asked

(* log_rx of the reply with number n.  Without a pending query it gets a   *)
(* row of its own, UNSOLICITED.                                            *)
log_rx(n, since, good, fails) ==
  IF file # "open" THEN ~fails /\ UNCHANGED logVars
  ELSE IF pending = None
       THEN /\ file' = IF fails THEN "failed" ELSE file
            /\ flushTimer' = (flushTimer /\ ~fails)
            /\ UNCHANGED <<pending, asked, rows>>
       ELSE /\ write_row(pending, Row(Result(n, good), n, since), fails)
            /\ pending' = None /\ flushTimer' = FALSE
            /\ UNCHANGED asked

(* _on_pending_expired; the timer is single-shot.                          *)
pending_expired(fails) ==
  /\ flushTimer
  /\ flushTimer' = FALSE
  /\ IF file = "open" /\ pending # None
     THEN write_row(pending, Timeout, fails) /\ pending' = None
     ELSE ~fails /\ UNCHANGED <<file, rows, pending>>
  /\ UNCHANGED asked

(* start: the menu entry calls it only while no log is active, so the stop *)
(* it begins with does nothing and a timer that runs goes on.              *)
log_start ==
  /\ file # "open"
  /\ file' = "open" /\ pending' = None
  /\ asked' = {} /\ rows' = [n \in Sends |-> None]
  /\ UNCHANGED flushTimer

(* stop.                                                                   *)
log_stop(fails) ==
  /\ file = "open"
  /\ IF pending # None
     THEN /\ rows' = IF fails THEN rows ELSE Written(pending, Timeout)
          /\ file' = IF fails THEN "failed" ELSE "closed"
     ELSE ~fails /\ file' = "closed" /\ UNCHANGED rows
  /\ pending' = None /\ flushTimer' = FALSE
  /\ UNCHANGED asked

----------------------------------------------------------------------------

(* Whatever comes first - reply, next query, timer or the end of the log - *)
(* a query that was sent gets one row and only one: each query has either  *)
(* its row or is the pending one, as long as no write failed.              *)
RowPerQuery ==
  file # "failed" =>
    \A n \in asked : rows[n] # Twice /\ (rows[n] = None <=> n = pending)

(* While a log is open every query gets its row in the end: the timer of   *)
(* the pending one cannot be lost, however logs are stopped, broken off by *)
(* a write error and started again (PENDING_FLUSH_MS).                     *)
QueriesEnd == \A n \in Sends : (file = "open" /\ pending = n) ~> (pending # n)
=============================================================================
