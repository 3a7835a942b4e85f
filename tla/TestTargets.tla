----------------------------- MODULE TestTargets -----------------------------
(***************************************************************************)
(* main_window.py: the Connection bar and the two mock QCCs the Tools menu *)
(* opens, the Status Responder and the Remote Programming Tester.  Opening *)
(* one points the bar at this machine (QCC IP 127.0.0.1, QCC Port moved to *)
(* a port that can be bound) and remembers what was there; closing it puts *)
(* that back.  Every change of the bar drops the connection and, unless an *)
(* override is in force, is saved for the next start.                      *)
(*                                                                         *)
(* An action is one slot of the GUI thread.  Qt's textChanged/valueChanged *)
(* are synchronous, so what the handlers of a programmatic change do       *)
(* belongs to the slot that makes it; setting an equal value emits         *)
(* nothing.                                                                *)
(***************************************************************************)

CONSTANTS
  Addresses,  \* what the operator can type as QCC IP
  Loopback,   \* "127.0.0.1"
  Ports,      \* QCC Port and the mocks' Listen Port
  Locals,     \* GUI Listen Port and GUI Source Port, together
  None

Windows == {"responder", "tester"}
Remembered == [ip : Addresses \cup {Loopback}, port : Ports]

ASSUME TargetsAssumption == None \notin Windows \cup Ports \cup Remembered

VARIABLES
  fields,   \* the Connection bar: ip, port, local
  saved,    \* connection_settings, on disk after every change
  worker,   \* what self.worker was created with, or None
  before,   \* per mock: the ip and port to restore, None while it is closed
            \* (its two _overridden flags are set and cleared by one slot)
  mock,     \* per mock: its Listen Port field and its listener's port, or None
  \* history
  real,     \* the ip and port the operator set last while no mock was open
  first,    \* the open mock that was opened first
  crossed   \* it has been closed while the other one was open

windowVars == <<before, mock>>
histVars == <<real, first, crossed>>
vars == <<fields, saved, worker, windowVars, histVars>>

Overridden == \E w \in Windows : before[w] # None
OtherOpen(w) == \E v \in Windows \ {w} : before[v] # None
Target(f) == [ip |-> f.ip, port |-> f.port]

----------------------------------------------------------------------------
(* set_listen_port and start_listening of the mocks.  A mock whose field   *)
(* already shows the port is left alone, whatever port it listens on.      *)
(* Operators named Bug_ are plausible defects, for the mutants only.       *)
Bug_set_listen_port_no_restart(m, port) == [m EXCEPT !.field = port]

set_listen_port(m, port) ==
  IF m.field = port THEN m
  ELSE [field |-> port, listener |-> IF m.listener = None THEN None ELSE port]

start_listening(m) ==
  IF m.listener = None THEN [m EXCEPT !.listener = m.field] ELSE m

(* _on_qcc_port_changed: only the responder follows the QCC Port. *)
Followed(port) ==
  IF port = fields.port THEN mock
  ELSE [mock EXCEPT !["responder"] = set_listen_port(@, port)]

(* _on_connection_field_changed drops a connection that no longer matches  *)
(* the bar.                                                                *)
Bug_Dropped(new) == IF new.port # fields.port THEN None ELSE worker

Dropped(new) == IF new # fields THEN None ELSE worker

(* The operator edits the bar. *)
edit(new) ==
  /\ new # fields
  /\ fields' = new
  /\ worker' = Dropped(new)
  /\ mock' = Followed(new.port)
  /\ IF Overridden
       THEN UNCHANGED <<saved, real>>
       ELSE saved' = new /\ real' = Target(new)
  /\ UNCHANGED <<before, first, crossed>>

edit_ip(a) == edit([fields EXCEPT !.ip = a])
edit_port(p) == edit([fields EXCEPT !.port = p])
edit_local(l) == edit([fields EXCEPT !.local = l])

(* Connect, and the ways a connection ends that leave the bar alone. *)
connect ==
  /\ worker = None
  /\ worker' = fields
  /\ UNCHANGED <<fields, saved, windowVars, histVars>>

disconnect ==
  /\ worker # None
  /\ worker' = None
  /\ UNCHANGED <<fields, saved, windowVars, histVars>>

(* The mocks' own Listen Port field and Start/Stop button. *)
edit_listen_port(w, p) ==
  /\ before[w] # None
  /\ mock' = [mock EXCEPT ![w].field = p]
  /\ UNCHANGED <<fields, saved, worker, before, histVars>>

listen_clicked(w) ==
  /\ before[w] # None
  /\ mock' = IF mock[w].listener = None
               THEN [mock EXCEPT ![w] = start_listening(@)]
               ELSE [mock EXCEPT ![w].listener = None]
  /\ UNCHANGED <<fields, saved, worker, before, histVars>>

----------------------------------------------------------------------------
(* _on_open_responder_clicked, _on_open_rp_tester_clicked.  The port that  *)
(* _find_available_udp_port finds depends on every process of the machine. *)
(* The override flags are up before the bar changes, so nothing is saved.  *)
Bug_Overriding_remembers_again(w, free) ==
  /\ fields' = [fields EXCEPT !.ip = Loopback, !.port = free]
  /\ before' = [before EXCEPT ![w] = Target(fields)]
  /\ first' = IF Overridden THEN first ELSE w

Bug_Overriding_remembers_bar(w, free) ==
  IF before[w] = None
    THEN /\ fields' = [fields EXCEPT !.ip = Loopback, !.port = free]
         /\ before' = [before EXCEPT ![w] = fields]
         /\ first' = IF Overridden THEN first ELSE w
    ELSE UNCHANGED <<fields, before, first>>

Overriding(w, free) ==
  IF before[w] = None
    THEN /\ fields' = [fields EXCEPT !.ip = Loopback, !.port = free]
         /\ before' = [before EXCEPT ![w] = Target(fields)]
         /\ first' = IF Overridden THEN first ELSE w
    ELSE UNCHANGED <<fields, before, first>>

open_clicked(w, free) ==
  /\ Overriding(w, free)
  /\ mock' = [Followed(fields'.port) EXCEPT
                ![w] = start_listening(set_listen_port(@, fields'.port))]
  /\ worker' = IF Dropped(fields') = None THEN fields' ELSE worker
  /\ UNCHANGED <<saved, real, crossed>>

(* closeEvent of a mock and _on_responder_window_closed or                 *)
(* _on_rp_tester_window_closed.  While the address is put back the port's  *)
(* flag is still up, so only a port that really changes is followed by a   *)
(* save, and only when the other mock holds no override.                   *)
window_closed(w) ==
  /\ before[w] # None
  /\ fields' = [fields EXCEPT !.ip = before[w].ip, !.port = before[w].port]
  /\ worker' = Dropped(fields')
  /\ mock' = [Followed(before[w].port) EXCEPT ![w].listener = None]
  /\ saved' = IF before[w].port # fields.port /\ ~OtherOpen(w) THEN fields' ELSE saved
  /\ before' = [before EXCEPT ![w] = None]
  /\ first' = IF OtherOpen(w) THEN first ELSE None
  /\ crossed' = (crossed \/ (w = first /\ OtherOpen(w)))
  /\ UNCHANGED real

(* The program ends and starts again.  closeEvent of the main window first *)
(* closes the responder, then the tester: two steps of window_closed; a    *)
(* crash closes nothing.                                                   *)
restart ==
  /\ fields' = saved
  /\ worker' = None
  /\ before' = [w \in Windows |-> None]
  /\ mock' = [w \in Windows |-> [field |-> mock[w].field, listener |-> None]]
  /\ first' = None
  /\ UNCHANGED <<saved, real, crossed>>

----------------------------------------------------------------------------
Bar == [ip : Addresses \cup {Loopback}, port : Ports, local : Locals]

Init ==
  /\ saved \in [ip : Addresses, port : Ports, local : Locals]
  /\ fields = saved
  /\ worker = None
  /\ before = [w \in Windows |-> None]
  /\ \E p \in Ports : mock = [w \in Windows |-> [field |-> p, listener |-> None]]
  /\ real = Target(saved)
  /\ first = None
  /\ crossed = FALSE

Next ==
  \/ \E a \in Addresses : edit_ip(a)
  \/ \E p \in Ports : edit_port(p)
  \/ \E l \in Locals : edit_local(l)
  \/ connect \/ disconnect
  \/ \E w \in Windows, p \in Ports : edit_listen_port(w, p) \/ open_clicked(w, p)
  \/ \E w \in Windows : listen_clicked(w) \/ window_closed(w)
  \/ restart

Spec == Init /\ [][Next]_vars

----------------------------------------------------------------------------
(* The bar, the settings and the mocks hold addresses and ports.           *)
TypeOK ==
  /\ fields \in Bar
  /\ saved \in Bar
  /\ worker \in Bar \cup {None}
  /\ before \in [Windows -> Remembered \cup {None}]
  /\ mock \in [Windows -> [field : Ports, listener : Ports \cup {None}]]
  /\ real \in Remembered
  /\ first \in Windows \cup {None}
  /\ crossed \in BOOLEAN

(* _on_connection_field_changed: a connection "no longer reflects what's   *)
(* configured, so drop it".  Whatever opens, closes, edits or restarts, a  *)
(* connection talks to the address the bar shows.                          *)
ConnectionIsCurrent == worker # None => worker = fields

(* closeEvent: connection_settings "already holds the last real (non-      *)
(* overridden) ... QCC IP/QCC Port the user set".                          *)
SavedIsReal == Target(saved) = real

(* That holds, and the bar shows the operator's own target again when both *)
(* mocks are closed, as long as the one opened first is closed last.       *)
NestedUseRestores ==
  ~crossed => SavedIsReal /\ (~Overridden => Target(fields) = real)

(* _on_qcc_port_changed: the responder's port follows the QCC Port live.   *)
(* Whichever slot moves the QCC Port, a responder that listens where its   *)
(* own field says listens on the new port afterwards.                      *)
ResponderFollowsPort ==
  [][/\ fields'.port # fields.port
     /\ mock["responder"].listener = mock["responder"].field
     => mock'["responder"].listener \in {None, fields'.port}]_vars
=============================================================================
