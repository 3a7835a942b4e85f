--------------------------- MODULE BurnTestWorker ---------------------------
(***************************************************************************)
(* core/burn_test_worker.py, core/burn_test_logger.py and the slots of     *)
(* main_window.py that start, stop and log a burn test: a thread sends     *)
(* frames at a fixed pace, pairs replies with them by message number,      *)
(* gives up on old ones and hands batches of CSV rows to the GUI thread.   *)
(* The counter of message numbers (core/rc_settings.py) is shared with the *)
(* GUI thread.                                                             *)
(*                                                                         *)
(* Pace, staleness and the 10 Hz tick are time: they may come at any turn  *)
(* of the loop, staleness oldest first (perf_counter does not go back).    *)
(* Rates and error counts, LED rows and frames for the header panel are    *)
(* only displayed and left out.                                            *)
(***************************************************************************)
EXTENDS UdpFrames, SequencesExt

CONSTANTS
  MaxRuns,  \* bound on the burn tests started
  MaxRows   \* bound on the rows of all runs

ASSUME BurnTestAssumption == MaxRuns \in Nat /\ MaxRows \in Nat

Runs == 1 .. MaxRuns

VARIABLES
  burn,        \* _burn_test_worker of the main window
  waiting,     \* the GUI thread is in its stop
  at,          \* where each run's thread is
  going,       \* _running
  key,         \* msg_number: the number peeked for the next frame
  table,       \* pending: the keys outstanding, oldest first
  inHand,      \* rows: not handed over yet
  count,       \* sent, ok, timeouts
  burnPosted,  \* signals posted, oldest first
  log,         \* _burn_test_logger: "closed", "open" or "failed"
  csv,         \* the rows in its file
  counter,     \* rc_settings._message_number
  burnAir,     \* numbers of queries or their replies on the network
  \* history
  logged,      \* the run was started with a log file
  made,        \* the rows each run has made
  carried,     \* for each key the number its frame carried
  survivors    \* runs whose stop gave up waiting

burnThreadVars == <<at, going, key, table, inHand, count, made, carried>>
burnGuiVars    == <<burn, waiting, log, csv, logged, survivors>>
burnVars       == <<burnThreadVars, burnGuiVars, burnPosted, counter, burnAir>>

BurnRow(n, result) == [n |-> n, result |-> result]
BurnSignal(kind, r, batch) == [kind |-> kind, r |-> r, batch |-> batch]

(* No burn test; the runs in `ended' and `taken' numbers were before.      *)
BurnInit(ended, taken) ==
  /\ burn = None /\ waiting = FALSE
  /\ at = [r \in Runs |-> IF r \in ended THEN "over" ELSE "unborn"]
  /\ going = [r \in Runs |-> FALSE]
  /\ key = [r \in Runs |-> None]
  /\ table = [r \in Runs |-> <<>>]
  /\ inHand = [r \in Runs |-> <<>>]
  /\ count = [r \in Runs |-> [sent |-> 0, ok |-> 0, timeouts |-> 0]]
  /\ burnPosted = <<>>
  /\ log = "closed" /\ csv = <<>>
  /\ counter = taken /\ burnAir = {}
  /\ logged = {} /\ survivors = {}
  /\ made = [r \in Runs |-> <<>>]
  /\ carried = [r \in Runs |-> [n \in Sends |-> None]]

----------------------------------------------------------------------------
(* The thread: run.                                                        *)

(* As elsewhere an operator Bug_... is a plausible defect of the next      *)
(* definition, for the mutants only.                                       *)

Steps(r, from, to) == at[r] = from /\ at' = [at EXCEPT ![r] = to]

(* New rows are made; `left' are then in hand.                             *)
Makes(r, new, left) ==
  /\ Len(FlattenSeq(made)) + Len(new) <= MaxRows
  /\ inHand' = [inHand EXCEPT ![r] = left]
  /\ made' = [made EXCEPT ![r] = @ \o new]

Bind(r) ==
  /\ \/ Steps(r, "binding", "ready") /\ UNCHANGED burnPosted
     \/ /\ Steps(r, "binding", "over")
        /\ burnPosted' = burnPosted \o <<BurnSignal("error", r, <<>>),
                                        BurnSignal("stopped", r, <<>>)>>
  /\ UNCHANGED <<burnGuiVars, going, key, table, inHand, count, made, carried,
                 counter, burnAir>>

BurnBegins(r) ==
  /\ Steps(r, "ready", "loop")
  /\ going' = [going EXCEPT ![r] = TRUE]
  /\ UNCHANGED <<burnGuiVars, key, table, inHand, count, made, carried,
                 burnPosted, counter, burnAir>>

BurnLoopTest(r) ==
  /\ Steps(r, "loop", IF going[r] THEN "drain" ELSE "flush")
  /\ UNCHANGED <<burnGuiVars, going, key, table, inHand, count, made, carried,
                 burnPosted, counter, burnAir>>

(* pending.pop(n, None); a number is in it once.                           *)
pop(t, n) ==
  IF Contains(t, n) THEN RemoveAt(t, CHOOSE i \in 1 .. Len(t) : t[i] = n) ELSE t

Bug_handle_response_keeps(r, n, good) ==
  LET known == Contains(table[r], n)
      result == IF ~known THEN "UNSOLICITED" ELSE IF good THEN "OK" ELSE "CRC_FAIL"
  IN /\ Makes(r, <<BurnRow(n, result)>>, Append(inHand[r], BurnRow(n, result)))
     /\ count' = IF result = "OK" THEN [count EXCEPT ![r].ok = @ + 1] ELSE count
     /\ UNCHANGED table

(* _handle_response.                                                       *)
handle_response(r, n, good) ==
  LET known == Contains(table[r], n)
      result == IF ~known THEN "UNSOLICITED" ELSE IF good THEN "OK" ELSE "CRC_FAIL"
  IN /\ Makes(r, <<BurnRow(n, result)>>, Append(inHand[r], BurnRow(n, result)))
     /\ table' = [table EXCEPT ![r] = pop(@, n)]
     /\ count' = IF result = "OK" THEN [count EXCEPT ![r].ok = @ + 1] ELSE count

(* 1. A reply is waiting: of any age, perhaps for a second time (again).   *)
Drain(r, n, good, again) ==
  /\ at[r] = "drain" /\ n \in burnAir
  /\ handle_response(r, n, good)
  /\ burnAir' = IF again THEN burnAir ELSE burnAir \ {n}
  /\ UNCHANGED <<burnGuiVars, at, going, key, burnPosted, counter, carried>>

(* Within the bound every frame whose number was looked at can be built.   *)
NumbersLeft == counter + Cardinality({r \in Runs : at[r] = "peeked"}) < MaxSends

(* No reply is left, or the socket reports an error, and no frame is due.  *)
Drained(r) ==
  /\ Steps(r, "drain", "evict")
  /\ UNCHANGED <<burnGuiVars, going, key, table, inHand, count, made, carried,
                 burnPosted, counter, burnAir>>

(* 2. The next frame is due: its number is looked at ...                   *)
Peek(r) ==
  /\ NumbersLeft
  /\ Steps(r, "drain", "peeked")
  /\ key' = [key EXCEPT ![r] = counter + 1]
  /\ UNCHANGED <<burnGuiVars, going, table, inHand, count, made, carried,
                 burnPosted, counter, burnAir>>

(* ... and then taken by build_header, which counts on.  A send that fails *)
(* has used up its number.                                                 *)
Send(r) ==
  /\ Steps(r, "peeked", "evict")
  /\ counter' = counter + 1
  /\ key' = [key EXCEPT ![r] = None]
  /\ \/ /\ burnAir' = burnAir \cup {counter'}
        /\ table' = [table EXCEPT ![r] = Append(@, key[r])]
        /\ carried' = [carried EXCEPT ![r][key[r]] = counter']
        /\ count' = [count EXCEPT ![r].sent = @ + 1]
     \/ UNCHANGED <<burnAir, table, carried, count>>
  /\ UNCHANGED <<burnGuiVars, going, inHand, made, burnPosted>>

TimeoutRows(ns) == [i \in 1 .. Len(ns) |-> BurnRow(ns[i], "TIMEOUT")]

(* 3 to 5. The k oldest frames have waited too long; at a tick the rows    *)
(* are handed over; then the loop sleeps and turns.                        *)
Turn(r, k, due) ==
  LET stale == SubSeq(table[r], 1, k)
      batch == inHand[r] \o TimeoutRows(stale)
      ticks == due /\ batch # <<>>
  IN /\ Steps(r, "evict", "loop")
     /\ Makes(r, TimeoutRows(stale), IF ticks THEN <<>> ELSE batch)
     /\ table' = [table EXCEPT ![r] = SubSeq(@, k + 1, Len(@))]
     /\ count' = [count EXCEPT ![r].timeouts = @ + k]
     /\ IF ticks
        THEN /\ Len(burnPosted) < MaxPosted
             /\ burnPosted' = Append(burnPosted, BurnSignal("rows", r, batch))
        ELSE UNCHANGED burnPosted
     /\ UNCHANGED <<burnGuiVars, going, key, carried, counter, burnAir>>

(* The end of run: what is outstanding becomes TIMEOUT rows, the last      *)
(* batch is handed over, and only then the end is announced.               *)
Flush(r) ==
  LET rest == TimeoutRows(table[r])
      batch == inHand[r] \o rest
  IN /\ Steps(r, "flush", "over")
     /\ made' = [made EXCEPT ![r] = @ \o rest]
     /\ inHand' = [inHand EXCEPT ![r] = <<>>]
     /\ table' = [table EXCEPT ![r] = <<>>]
     /\ count' = [count EXCEPT ![r].timeouts = @ + Len(rest)]
     /\ burnPosted' = burnPosted
          \o (IF batch = <<>> THEN <<>> ELSE <<BurnSignal("rows", r, batch)>>)
          \o <<BurnSignal("stopped", r, <<>>)>>
     /\ UNCHANGED <<burnGuiVars, going, key, carried, counter, burnAir>>

BurnRun(r) ==
  \/ Bind(r) \/ BurnBegins(r) \/ BurnLoopTest(r)
  \/ Drained(r) \/ Peek(r) \/ Send(r) \/ Flush(r)
  \/ \E n \in burnAir, good, again \in BOOLEAN : Drain(r, n, good, again)
  \/ \E k \in 0 .. Len(table[r]), due \in BOOLEAN : Turn(r, k, due)

----------------------------------------------------------------------------
(* The GUI thread.                                                         *)

(* Qt delivers what was posted while a slot ran before the next click: the *)
(* operator cannot overtake the end of a run that was stopped.             *)
Clickable ==
  /\ ~waiting
  /\ burn = None => \A i \in 1 .. Len(burnPosted) : burnPosted[i].kind # "stopped"

(* _on_burn_test_start, after the confirmation.  Opening the log closes    *)
(* the one that is open.                                                   *)
Start(r, withLog) ==
  /\ Clickable /\ burn = None
  /\ at[r] = "unborn" /\ \A s \in Runs : s < r => at[s] # "unborn"
  /\ burn' = r
  /\ at' = [at EXCEPT ![r] = "binding"]
  /\ IF withLog THEN log' = "open" /\ csv' = <<>> /\ logged' = logged \cup {r}
                ELSE UNCHANGED <<log, csv, logged>>
  /\ UNCHANGED <<going, key, table, inHand, count, made, carried,
                 burnPosted, counter, burnAir, waiting, survivors>>

(* _on_burn_test_stop: with a worker it stops it, without one it closes    *)
(* the log.                                                                *)
Stop ==
  /\ Clickable
  /\ IF burn # None
     THEN /\ going' = [going EXCEPT ![burn] = FALSE]
          /\ waiting' = TRUE
          /\ UNCHANGED log
     ELSE /\ log' = IF log = "open" THEN "closed" ELSE log
          /\ UNCHANGED <<going, waiting>>
  /\ UNCHANGED <<burn, at, key, table, inHand, count, made, carried,
                 burnPosted, counter, burnAir, csv, logged, survivors>>

Bug_BurnStopReturns_closes_log ==
  /\ waiting
  /\ at[burn] = "over" \/ going[burn]
  /\ survivors' = IF at[burn] = "over" THEN survivors ELSE survivors \cup {burn}
  /\ burn' = None /\ waiting' = FALSE
  /\ log' = IF log = "open" THEN "closed" ELSE log
  /\ UNCHANGED <<burnThreadVars, burnPosted, counter, burnAir, csv, logged>>

(* wait returns: the thread is over, or two seconds are (it had not set    *)
(* _running yet and never saw the stop).                                   *)
BurnStopReturns ==
  /\ waiting
  /\ at[burn] = "over" \/ going[burn]
  /\ survivors' = IF at[burn] = "over" THEN survivors ELSE survivors \cup {burn}
  /\ burn' = None /\ waiting' = FALSE
  /\ UNCHANGED <<burnThreadVars, burnPosted, counter, burnAir, log, csv, logged>>

BurnDelivers(kind) ==
  /\ ~waiting /\ burnPosted # <<>> /\ Head(burnPosted).kind = kind
  /\ burnPosted' = Tail(burnPosted)

(* append_rows; the write may fail, which closes the log.                  *)
append_rows ==
  /\ BurnDelivers("rows")
  /\ \/ /\ csv' = IF log = "open" THEN csv \o Head(burnPosted).batch ELSE csv
        /\ UNCHANGED log
     \/ log = "open" /\ log' = "failed" /\ UNCHANGED csv
  /\ UNCHANGED <<burnThreadVars, counter, burnAir, burn, waiting, logged, survivors>>

(* _on_burn_test_worker_status("Burn Test stopped").                       *)
on_burn_stopped ==
  /\ BurnDelivers("stopped")
  /\ log' = IF log = "open" THEN "closed" ELSE log
  /\ UNCHANGED <<burnThreadVars, counter, burnAir, burn, waiting, csv, logged, survivors>>

(* _on_burn_test_error for a failed bind: a dialog, in which what follows  *)
(* is delivered, then _on_burn_test_stop_clicked of a thread that is over. *)
on_burn_error ==
  /\ BurnDelivers("error")
  /\ going' = IF burn = None THEN going ELSE [going EXCEPT ![burn] = FALSE]
  /\ waiting' = (burn # None)
  /\ log' = IF burn = None /\ log = "open" THEN "closed" ELSE log
  /\ UNCHANGED <<at, key, table, inHand, count, made, carried, counter, burnAir,
                 burn, csv, logged, survivors>>

(* Another command of the window takes a number for its own frame.  The    *)
(* window can send during a run when a mock was opened (which connects)    *)
(* and a late frame cleared the lock (CommandDispatch), or when it has     *)
(* given up waiting for the run to stop and has connected again.           *)
TakeNumber ==
  /\ ~waiting /\ NumbersLeft
  /\ counter' = counter + 1
  /\ burnAir' = burnAir \cup {counter'}
  /\ UNCHANGED <<burnThreadVars, burnGuiVars, burnPosted>>

BurnLose(n) ==
  /\ n \in burnAir
  /\ burnAir' = burnAir \ {n}
  /\ UNCHANGED <<burnThreadVars, burnGuiVars, burnPosted, counter>>

BurnSlots == BurnStopReturns \/ append_rows \/ on_burn_stopped \/ on_burn_error

BurnNext ==
  \/ BurnSlots \/ Stop \/ TakeNumber
  \/ \E r \in Runs : BurnRun(r)
  \/ \E r \in Runs, withLog \in BOOLEAN : Start(r, withLog)
  \/ \E n \in burnAir : BurnLose(n)

BurnSpec == BurnInit({}, 0) /\ [][BurnNext]_burnVars

----------------------------------------------------------------------------

RowsWith(r, results) == {i \in DOMAIN made[r] : made[r][i].result \in results}
RowsOf(r, n) ==
  {i \in RowsWith(r, {"OK", "CRC_FAIL", "TIMEOUT"}) : made[r][i].n = n}
FramesOf(r) == {n \in Sends : carried[r][n] # None}

(* Every frame sent is accounted for once, whatever becomes of its reply   *)
(* (lost, late, twice, damaged, or taken by another frame's number): it is *)
(* outstanding or has one row OK, CRC_FAIL or TIMEOUT, and the tab's       *)
(* counters say the same: what was sent is the sum.                        *)
FramesAccounted ==
  \A r \in Runs :
    /\ \A n \in FramesOf(r) :
         Cardinality(RowsOf(r, n)) = IF Contains(table[r], n) THEN 0 ELSE 1
    /\ count[r].sent = Cardinality(FramesOf(r))
    /\ count[r].sent = Len(table[r]) + count[r].timeouts
         + Cardinality(RowsWith(r, {"OK", "CRC_FAIL"}))

Latest(r) == at[r] # "unborn" /\ \A s \in Runs : s > r => at[s] = "unborn"

(* main_window.py:1869: no row is lost between the thread and the file.    *)
(* The file of the latest run always holds its first rows, in order.  When *)
(* no batch is under way, file and hand are all the rows made; when the    *)
(* log has been closed, the file alone is, however the run ended.  (A log  *)
(* that failed, and a run that survived its stop, are excepted.)           *)
LogIsComplete ==
  survivors = {} => \A r \in logged :
    Latest(r) =>
      /\ log = "open" => csv = SubSeq(made[r], 1, Len(csv))
      /\ log = "open" /\ (\A i \in 1 .. Len(burnPosted) : burnPosted[i].r # r) =>
           csv \o inHand[r] = made[r]
      /\ log = "closed" => csv = made[r]
=============================================================================
