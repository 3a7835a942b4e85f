------------------------- MODULE TestTargets_proofs -------------------------
(***************************************************************************)
(* Machine-checked proofs about the Connection bar and the mock QCCs, for  *)
(* any addresses, ports and local settings.                                *)
(***************************************************************************)
EXTENDS TestTargets, TLAPS

(* Until the order of closing was crossed the mock opened first is open    *)
(* while any is, and what it remembers is the operator's own target.       *)
FirstShape ==
  /\ first = None => ~Overridden
  /\ first # None /\ ~crossed => before[first] # None /\ before[first] = real

IInv == TypeOK /\ ConnectionIsCurrent /\ NestedUseRestores /\ FirstShape

(* The program starts in the invariant.                                    *)
LEMMA InitIInv == Init => IInv
<1> SUFFICES ASSUME Init PROVE IInv
  OBVIOUS
<1>1. saved \in Bar /\ fields = saved /\ real = Target(saved)
  BY DEF Init, Bar
<1>2. real \in Remembered
  BY <1>1 DEF Bar, Target, Remembered
<1>3. mock \in [Windows -> [field : Ports, listener : Ports \cup {None}]]
  BY DEF Init
<1>4. TypeOK
  BY <1>1, <1>2, <1>3 DEF Init, TypeOK
<1>5. ConnectionIsCurrent /\ NestedUseRestores /\ FirstShape
  BY <1>1 DEF Init, ConnectionIsCurrent, NestedUseRestores, SavedIsReal, FirstShape, Overridden
<1> QED BY <1>4, <1>5 DEF IInv

(* A mock keeps a port and a listener however the bar moves it.            *)
LEMMA MockTypes ==
  ASSUME TypeOK, NEW port \in Ports
  PROVE  /\ Followed(port) \in [Windows -> [field : Ports, listener : Ports \cup {None}]]
         /\ \A w \in Windows :
              /\ set_listen_port(mock[w], port) \in [field : Ports, listener : Ports \cup {None}]
              /\ start_listening(set_listen_port(Followed(port)[w], port))
                   \in [field : Ports, listener : Ports \cup {None}]
<1> DEFINE Mock == [field : Ports, listener : Ports \cup {None}]
<1>1. \A m \in Mock : set_listen_port(m, port) \in Mock
  BY DEF set_listen_port
<1>2. \A m \in Mock : start_listening(m) \in Mock
  BY DEF start_listening
<1>3. mock \in [Windows -> Mock]
  BY DEF TypeOK
<1> HIDE DEF Mock
<1>4. Followed(port) \in [Windows -> Mock]
  BY <1>1, <1>3 DEF Followed, Windows
<1> QED BY <1>1, <1>2, <1>3, <1>4 DEF Mock

(* Every step keeps the invariant.                                         *)
LEMMA StepIInv == IInv /\ [Next]_vars => IInv'
<1> SUFFICES ASSUME IInv, [Next]_vars PROVE IInv'
  OBVIOUS
<1> USE TargetsAssumption
<1>0. TypeOK /\ ConnectionIsCurrent /\ NestedUseRestores /\ FirstShape
  BY DEF IInv
<1>1. ASSUME NEW new \in Bar, edit(new) PROVE IInv'
  <2>1. /\ fields' = new /\ worker' = Dropped(new) /\ mock' = Followed(new.port)
        /\ UNCHANGED <<before, first, crossed>>
        /\ Overridden => UNCHANGED <<saved, real>>
        /\ ~Overridden => saved' = new /\ real' = Target(new)
    BY <1>1 DEF edit
  <2>2. Followed(new.port) \in [Windows -> [field : Ports, listener : Ports \cup {None}]]
    BY <1>0, MockTypes DEF Bar
  <2>3. Target(new) \in Remembered
    BY DEF Bar, Target, Remembered
  <2>4. TypeOK'
    BY <1>0, <2>1, <2>2, <2>3 DEF TypeOK, Dropped
  <2>5. ConnectionIsCurrent'
    BY <1>1 DEF edit, ConnectionIsCurrent, Dropped
  <2>6. Overridden' <=> Overridden
    BY <2>1 DEF Overridden
  <2>7. CASE Overridden
    <3>1. NestedUseRestores'
      BY <1>0, <2>1, <2>6, <2>7 DEF NestedUseRestores, SavedIsReal
    <3>2. FirstShape'
      BY <1>0, <2>1, <2>6, <2>7 DEF FirstShape
    <3> QED BY <2>4, <2>5, <3>1, <3>2 DEF IInv
  <2>8. CASE ~Overridden
    <3>1. NestedUseRestores'
      BY <2>1, <2>8 DEF NestedUseRestores, SavedIsReal
    <3>2. first # None => crossed
      BY <1>0, <2>8 DEF FirstShape, Overridden, TypeOK
    <3>3. FirstShape'
      BY <2>1, <2>6, <2>8, <3>2 DEF FirstShape
    <3> QED BY <2>4, <2>5, <3>1, <3>3 DEF IInv
  <2> QED BY <2>7, <2>8
<1>2. ASSUME NEW a \in Addresses, edit_ip(a) PROVE IInv'
  <2>1. [fields EXCEPT !.ip = a] \in Bar
    BY <1>0 DEF TypeOK, Bar
  <2> QED BY <1>1, <1>2, <2>1 DEF edit_ip
<1>3. ASSUME NEW p \in Ports, edit_port(p) PROVE IInv'
  <2>1. [fields EXCEPT !.port = p] \in Bar
    BY <1>0 DEF TypeOK, Bar
  <2> QED BY <1>1, <1>3, <2>1 DEF edit_port
<1>4. ASSUME NEW l \in Locals, edit_local(l) PROVE IInv'
  <2>1. [fields EXCEPT !.local = l] \in Bar
    BY <1>0 DEF TypeOK, Bar
  <2> QED BY <1>1, <1>4, <2>1 DEF edit_local
<1>5. CASE connect \/ disconnect
  <2>1. /\ UNCHANGED <<fields, saved, windowVars, histVars>>
        /\ worker' \in {None, fields}
    BY <1>5 DEF connect, disconnect
  <2>2. TypeOK'
    BY <1>0, <2>1 DEF TypeOK, windowVars, histVars
  <2>3. ConnectionIsCurrent' /\ NestedUseRestores' /\ FirstShape'
    BY <1>0, <2>1 DEF ConnectionIsCurrent, NestedUseRestores, SavedIsReal, FirstShape,
       Overridden, windowVars, histVars
  <2> QED BY <2>2, <2>3 DEF IInv
<1>6. ASSUME NEW w \in Windows,
             listen_clicked(w) \/ \E p \in Ports : edit_listen_port(w, p)
      PROVE  IInv'
  <2>1. UNCHANGED <<fields, saved, worker, before, histVars>>
    BY <1>6 DEF edit_listen_port, listen_clicked
  <2>2. mock' \in [Windows -> [field : Ports, listener : Ports \cup {None}]]
    <3>1. mock \in [Windows -> [field : Ports, listener : Ports \cup {None}]]
      BY <1>0 DEF TypeOK
    <3> QED BY <1>6, <3>1 DEF edit_listen_port, listen_clicked, start_listening
  <2>3. TypeOK'
    BY <1>0, <2>1, <2>2 DEF TypeOK, histVars
  <2>4. ConnectionIsCurrent' /\ NestedUseRestores' /\ FirstShape'
    BY <1>0, <2>1 DEF ConnectionIsCurrent, NestedUseRestores, SavedIsReal, FirstShape,
       Overridden, histVars
  <2> QED BY <2>3, <2>4 DEF IInv
<1>7. ASSUME NEW w \in Windows, NEW p \in Ports, open_clicked(w, p) PROVE IInv'
  <2> USE <1>7 DEF open_clicked
  <2>1. fields' \in Bar /\ fields' \in {fields, [fields EXCEPT !.ip = Loopback, !.port = p]}
    BY <1>0 DEF Overriding, TypeOK, Bar
  <2>2. Target(fields) \in Remembered
    BY <1>0 DEF TypeOK, Bar, Target, Remembered
  <2>3. mock' \in [Windows -> [field : Ports, listener : Ports \cup {None}]]
    <3>1. fields'.port \in Ports
      BY <2>1 DEF Bar
    <3>2. /\ Followed(fields'.port) \in [Windows -> [field : Ports, listener : Ports \cup {None}]]
          /\ start_listening(set_listen_port(Followed(fields'.port)[w], fields'.port))
               \in [field : Ports, listener : Ports \cup {None}]
      BY <1>0, <3>1, MockTypes
    <3> QED BY <3>2
  <2>4. worker' \in {None, fields'} \cup {worker} /\ (worker' = worker => fields' = fields \/ worker' = fields')
    BY DEF Dropped
  <2>5. before' \in [Windows -> Remembered \cup {None}] /\ first' \in Windows \cup {None}
    BY <1>0, <2>2 DEF Overriding, TypeOK
  <2>6. TypeOK'
    BY <1>0, <2>1, <2>3, <2>4, <2>5 DEF TypeOK
  <2>7. ConnectionIsCurrent'
    BY <1>0, <2>4 DEF ConnectionIsCurrent
  <2>8. CASE before[w] # None
    <3>1. UNCHANGED <<fields, before, first, saved, real, crossed>>
      BY <2>8 DEF Overriding
    <3>2. NestedUseRestores' /\ FirstShape'
      BY <1>0, <3>1 DEF NestedUseRestores, SavedIsReal, FirstShape, Overridden
    <3> QED BY <2>6, <2>7, <3>2 DEF IInv
  <2>9. CASE before[w] = None
    <3>1. /\ before' = [before EXCEPT ![w] = Target(fields)]
          /\ first' = IF Overridden THEN first ELSE w
      BY <2>9 DEF Overriding
    <3>2. Target(fields) # None /\ before'[w] = Target(fields) /\ Overridden'
      BY <1>0, <2>2, <3>1 DEF TypeOK, Overridden
    <3>3. NestedUseRestores'
      BY <1>0, <3>2 DEF NestedUseRestores, SavedIsReal
    <3>4. CASE Overridden
      <4>1. /\ first' = first /\ first # None /\ first \in Windows
            /\ ~crossed => before[first] # None
        BY <1>0, <3>1, <3>4 DEF FirstShape, TypeOK
      <4>2. ~crossed => before'[first] = before[first]
        BY <1>0, <2>9, <3>1, <4>1 DEF TypeOK
      <4> QED BY <1>0, <3>3, <4>1, <4>2, <2>6, <2>7 DEF FirstShape, IInv
    <3>5. CASE ~Overridden
      <4>1. first' = w /\ (~crossed => Target(fields) = real)
        BY <1>0, <3>1, <3>5 DEF NestedUseRestores
      <4>2. FirstShape'
        BY <3>2, <4>1 DEF FirstShape
      <4> QED BY <3>3, <4>2, <2>6, <2>7 DEF IInv
    <3> QED BY <3>4, <3>5
  <2> QED BY <2>6, <2>7, <2>8, <2>9 DEF IInv
<1>8. ASSUME NEW w \in Windows, window_closed(w) PROVE IInv'
  <2> USE <1>8 DEF window_closed
  <2>1. before[w] \in Remembered /\ before[w] # None
    BY <1>0 DEF TypeOK
  <2>2. fields' \in Bar /\ Target(fields') = before[w]
    BY <1>0, <2>1 DEF TypeOK, Bar, Remembered, Target
  <2>3. mock' \in [Windows -> [field : Ports, listener : Ports \cup {None}]]
    <3>1. Followed(before[w].port) \in [Windows -> [field : Ports, listener : Ports \cup {None}]]
      BY <1>0, <2>1, MockTypes DEF Remembered
    <3> QED BY <3>1
  <2>4. TypeOK'
    BY <1>0, <2>2, <2>3 DEF TypeOK, Dropped
  <2>5. ConnectionIsCurrent'
    BY <1>0 DEF ConnectionIsCurrent, Dropped
  <2>6. Overridden' <=> OtherOpen(w)
    BY <1>0 DEF Overridden, OtherOpen, TypeOK
  <2>7. CASE OtherOpen(w)
    <3>1. UNCHANGED <<saved, first, real>> /\ crossed' = (crossed \/ w = first)
      BY <2>7
    <3>2. first # None
      BY <1>0, <2>1 DEF FirstShape, Overridden
    <3>3. first # w => before'[first] = before[first]
      BY <1>0, <3>2 DEF TypeOK
    <3>4. ~crossed' => ~crossed /\ first # w
      BY <3>1
    <3>5. NestedUseRestores'
      BY <1>0, <2>6, <2>7, <3>1, <3>4 DEF NestedUseRestores, SavedIsReal
    <3>6. FirstShape'
      <4>1. first' # None
        BY <3>1, <3>2
      <4>2. CASE first # w
        BY <1>0, <3>1, <3>2, <3>3, <3>4, <4>1, <4>2 DEF FirstShape
      <4>3. CASE first = w
        BY <3>4, <4>1, <4>3 DEF FirstShape
      <4> QED BY <4>2, <4>3
    <3> QED BY <2>4, <2>5, <3>5, <3>6 DEF IInv
  <2>8. CASE ~OtherOpen(w)
    <3>1. first' = None /\ crossed' = crossed /\ saved' \in {saved, fields'} /\ real' = real
      BY <1>0, <2>8 DEF TypeOK
    <3>2. ~crossed => first = w
      BY <1>0, <2>1, <2>8 DEF FirstShape, Overridden, OtherOpen, TypeOK
    <3>3. ~crossed => Target(fields') = real
      BY <1>0, <2>1, <2>2, <3>2 DEF FirstShape
    <3>4. NestedUseRestores'
      BY <1>0, <3>1, <3>3 DEF NestedUseRestores, SavedIsReal, Target
    <3>5. FirstShape'
      BY <2>6, <2>8, <3>1 DEF FirstShape
    <3> QED BY <2>4, <2>5, <3>4, <3>5 DEF IInv
  <2> QED BY <2>7, <2>8
<1>9. CASE restart
  <2> USE <1>9 DEF restart
  <2>1. mock' \in [Windows -> [field : Ports, listener : Ports \cup {None}]]
    <3>1. \A w \in Windows : mock[w].field \in Ports
      BY <1>0 DEF TypeOK
    <3> QED BY <3>1
  <2>2. TypeOK'
    BY <1>0, <2>1 DEF TypeOK
  <2>3. ConnectionIsCurrent' /\ NestedUseRestores' /\ FirstShape'
    BY <1>0 DEF ConnectionIsCurrent, NestedUseRestores, SavedIsReal, FirstShape, Overridden
  <2> QED BY <2>2, <2>3 DEF IInv
<1>10. CASE UNCHANGED vars
  <2>1. TypeOK'
    BY <1>0, <1>10 DEF TypeOK, vars, windowVars, histVars
  <2>2. ConnectionIsCurrent' /\ NestedUseRestores' /\ FirstShape'
    BY <1>0, <1>10 DEF ConnectionIsCurrent, NestedUseRestores, SavedIsReal, FirstShape,
       Overridden, vars, windowVars, histVars
  <2> QED BY <2>1, <2>2 DEF IInv
<1> QED BY <1>2, <1>3, <1>4, <1>5, <1>6, <1>7, <1>8, <1>9, <1>10 DEF Next

(* Every reachable state satisfies the inductive invariant.                *)
THEOREM Invariant == Spec => []IInv
<1>1. Init => IInv
  BY InitIInv
<1>2. IInv /\ [Next]_vars => IInv'
  BY StepIInv
<1> QED BY <1>1, <1>2, PTL DEF Spec

(* The bar, the mocks and what they remember have the shapes the widgets   *)
(* and the settings file give them.                                        *)
THEOREM TypeCorrect == Spec => []TypeOK
<1>1. IInv => TypeOK
  BY DEF IInv
<1> QED BY <1>1, Invariant, PTL

(* A connection always talks to the address the Connection bar shows.      *)
THEOREM ConnectionCurrent == Spec => []ConnectionIsCurrent
<1>1. IInv => ConnectionIsCurrent
  BY DEF IInv
<1> QED BY <1>1, Invariant, PTL

(* The operator's own target survives the mocks, in the bar and on disk,   *)
(* as long as the mock that was opened first is closed last.               *)
THEOREM TargetRestored == Spec => []NestedUseRestores
<1>1. IInv => NestedUseRestores
  BY DEF IInv
<1> QED BY <1>1, Invariant, PTL

(* What _on_qcc_port_changed makes of a responder that listens.            *)
LEMMA FollowedListens ==
  ASSUME TypeOK, NEW p \in Ports, p # fields.port,
         mock["responder"].listener = mock["responder"].field
  PROVE  LET m == Followed(p)["responder"]
         IN  m.field = p /\ m.listener = p
<1>1. /\ mock \in [Windows -> [field : Ports, listener : Ports \cup {None}]]
      /\ "responder" \in Windows /\ None \notin Ports
  BY TargetsAssumption DEF TypeOK, Windows
<1>2. Followed(p)["responder"] = set_listen_port(mock["responder"], p)
  BY <1>1 DEF Followed
<1>3. mock["responder"].field \in Ports /\ mock["responder"].listener # None
  BY <1>1
<1> QED BY <1>2, <1>3 DEF set_listen_port

(* Whichever slot moves the QCC Port, a responder that listens where its   *)
(* own field says listens on the new port afterwards.                      *)
THEOREM PortFollowed == Spec => ResponderFollowsPort
<1>1. ASSUME TypeOK, Next, fields'.port # fields.port,
             mock["responder"].listener = mock["responder"].field
      PROVE  mock'["responder"].listener \in {None, fields'.port}
  <2>1. /\ mock \in [Windows -> [field : Ports, listener : Ports \cup {None}]]
        /\ fields \in Bar /\ before \in [Windows -> Remembered \cup {None}]
        /\ "responder" \in Windows
    BY <1>1 DEF TypeOK, Windows
  <2>2. ASSUME NEW new \in Bar, edit(new)
        PROVE  mock'["responder"].listener \in {None, fields'.port}
    <3>1. fields' = new /\ mock' = Followed(new.port) /\ new.port \in Ports
      BY <2>2 DEF edit, Bar
    <3> QED BY <1>1, <3>1, FollowedListens
  <2>3. CASE \/ \E a \in Addresses : edit_ip(a)
             \/ \E p \in Ports : edit_port(p)
             \/ \E l \in Locals : edit_local(l)
    BY <2>1, <2>2, <2>3 DEF edit_ip, edit_port, edit_local, Bar
  <2>4. CASE \/ connect \/ disconnect
             \/ \E w \in Windows, p \in Ports : edit_listen_port(w, p)
             \/ \E w \in Windows : listen_clicked(w)
    BY <1>1, <2>4 DEF connect, disconnect, edit_listen_port, listen_clicked
  <2>5. ASSUME NEW w \in Windows, NEW p \in Ports, open_clicked(w, p)
        PROVE  mock'["responder"].listener \in {None, fields'.port}
    <3>1. fields'.port = p
      BY <1>1, <2>1, <2>5 DEF open_clicked, Overriding, Bar
    <3> DEFINE F == Followed(p)
    <3>2. F["responder"].field = p /\ F["responder"].listener = p
      BY <1>1, <3>1, FollowedListens
    <3>3. F \in [Windows -> [field : Ports, listener : Ports \cup {None}]]
      BY <1>1, MockTypes
    <3>4. mock' = [F EXCEPT ![w] = start_listening(set_listen_port(@, p))]
      BY <2>5, <3>1 DEF open_clicked
    <3> HIDE DEF F
    <3>5. \A m : m.field = p /\ m.listener = p => start_listening(set_listen_port(m, p)).listener \in {None, p}
      BY DEF start_listening, set_listen_port
    <3>6. mock'["responder"].listener \in {None, p}
      <4>1. CASE w = "responder"
        BY <2>1, <3>2, <3>3, <3>4, <3>5, <4>1
      <4>2. CASE w # "responder"
        BY <2>1, <3>2, <3>3, <3>4, <4>2
      <4> QED BY <4>1, <4>2
    <3> QED BY <3>1, <3>6
  <2>6. ASSUME NEW w \in Windows, window_closed(w)
        PROVE  mock'["responder"].listener \in {None, fields'.port}
    <3> DEFINE p == before[w].port
               F == Followed(p)
    <3>1. fields'.port = p /\ p \in Ports /\ mock' = [F EXCEPT ![w].listener = None]
      BY <2>1, <2>6 DEF window_closed, Bar, Remembered
    <3>2. F["responder"].listener = p
      BY <1>1, <3>1, FollowedListens
    <3>3. F \in [Windows -> [field : Ports, listener : Ports \cup {None}]]
      BY <1>1, <3>1, MockTypes
    <3> HIDE DEF F, p
    <3>4. mock'["responder"].listener \in {None, p}
      BY <2>1, <3>1, <3>2, <3>3
    <3> QED BY <3>1, <3>4
  <2>7. CASE restart
    BY <2>1, <2>7 DEF restart
  <2> QED BY <1>1, <2>3, <2>4, <2>5, <2>6, <2>7 DEF Next
<1>2. TypeOK /\ [Next]_vars =>
        [/\ fields'.port # fields.port
         /\ mock["responder"].listener = mock["responder"].field
         => mock'["responder"].listener \in {None, fields'.port}]_vars
  BY <1>1
<1> QED BY <1>2, TypeCorrect, PTL DEF Spec, ResponderFollowsPort

===============================================================================
