------------------------- MODULE AlertBuilderProofs -------------------------
(***************************************************************************)
(* Proofs about AlertBuilder, for any number of alerts and any calls that  *)
(* put them together, any table sizes and chunk size, with callbacks and   *)
(* connections that may fail and a fault between any two steps:            *)
(*   - the port has one socket if its context refers to one, and publishes *)
(*     only in a session the broker accepted;                              *)
(*   - entries carry nothing of another alert;                             *)
(*   - an id names one alert, and a boot has one session id.               *)
(*                                                                         *)
(* The last two rest on Inv: Owned says whose the alert object is at every *)
(* place of the builder, Named what the entries handed on have in common.  *)
(***************************************************************************)
EXTENDS AlertBuilder, TLAPS

-----------------------------------------------------------------------------
(* The MQTT port.                                                          *)

PortInv == MqttTypeOK /\ SocketMatchesContext /\ PublishesInSession

\* Opening a session with no socket open leaves one exactly when the
\* context refers to it.
LEMMA InitializeKeepsPort ==
  ASSUME PortInv, NEW ok \in BOOLEAN, xDfmCloudPortInitialize(0, ok)
  PROVE  /\ context' \in {"zero", "init", "connected"}
         /\ link' \in Links \cup {"none"}
         /\ accepted' \in BOOLEAN /\ expired' \in BOOLEAN
         /\ sockets' \in Nat
         /\ SocketMatchesContext'
         /\ PublishesInSession'
  <1>1. expired' \in BOOLEAN
    BY Zenon DEF xDfmCloudPortInitialize
  <1>2. CASE context' = "zero" /\ link' = "none" /\ accepted' = FALSE /\ sockets' = 0
    <2>1. accepted' \in BOOLEAN
      BY <1>2, Zenon
    <2>2. PublishesInSession'
      BY <1>2 DEF PublishesInSession
    <2>3. SocketMatchesContext' /\ sockets' \in Nat /\ link' \in Links \cup {"none"}
      BY <1>2 DEF SocketMatchesContext, Links
    <2> QED
      BY <1>1, <1>2, <2>1, <2>2, <2>3, Zenon
  <1>3. CASE context' = "init" /\ link' \in Links /\ accepted' = FALSE /\ sockets' = 0 + 1
    <2>1. accepted' \in BOOLEAN
      BY <1>3, Zenon
    <2>2. PublishesInSession'
      BY <1>3 DEF PublishesInSession
    <2>3. SocketMatchesContext' /\ sockets' \in Nat /\ link' \in Links \cup {"none"}
      BY <1>3 DEF SocketMatchesContext, Links
    <2> QED
      BY <1>1, <1>3, <2>1, <2>2, <2>3, Zenon
  <1>4. CASE context' = "connected" /\ link' = "up" /\ accepted' = TRUE /\ sockets' = 0 + 1
    <2>1. accepted' \in BOOLEAN
      BY <1>4, Zenon
    <2>2. PublishesInSession'
      BY <1>4, Zenon DEF PublishesInSession
    <2>3. SocketMatchesContext' /\ sockets' \in Nat /\ link' \in Links \cup {"none"}
      BY <1>4 DEF SocketMatchesContext, Links
    <2> QED
      BY <1>1, <1>4, <2>1, <2>2, <2>3, Zenon
  <1>5. \/ context' = "zero" /\ link' = "none" /\ accepted' = FALSE /\ sockets' = 0
        \/ context' = "init" /\ link' \in Links /\ accepted' = FALSE /\ sockets' = 0 + 1
        \/ context' = "connected" /\ link' = "up" /\ accepted' = TRUE /\ sockets' = 0 + 1
    BY DEF xDfmCloudPortInitialize
  <1> QED
    BY <1>2, <1>3, <1>4, <1>5, Zenon

\* A send keeps the port's invariant: when it reconnects there was exactly
\* one socket, because the disconnect only succeeds with a context.
LEMMA SendKeepsPort ==
  ASSUME PortInv, xDfmCloudPortSend
  PROVE  PortInv'
  <1>1. CASE ~prvCheckConnection
    <2>1. link \in Links
      BY <1>1 DEF PortInv, MqttTypeOK, SocketMatchesContext, prvCheckConnection
    <2>2. Publish
      BY <1>1 DEF xDfmCloudPortSend
    <2>3. outcome' \in Outcomes
      BY <2>1, <2>2 DEF Publish, Links, Outcomes
    <2> QED
      BY <1>1, <2>3 DEF xDfmCloudPortSend, PortInv, MqttTypeOK, SocketMatchesContext,
                        PublishesInSession
  <1>2. CASE prvCheckConnection /\ DisconnectFails
    BY <1>2 DEF xDfmCloudPortSend, PortInv, MqttTypeOK, Outcomes, SocketMatchesContext,
                PublishesInSession
  <1>3. CASE prvCheckConnection /\ ~DisconnectFails
    <2>1. Reconnect
      BY <1>3 DEF xDfmCloudPortSend
    <2>2. context # "zero" /\ sockets = 1 /\ sockets - 1 = 0
      BY <1>3 DEF DisconnectFails, PortInv, SocketMatchesContext
    <2>3. CASE InitializeAndPublish(sockets - 1)
      <3>1. PICK ok \in BOOLEAN :
              /\ xDfmCloudPortInitialize(0, ok)
              /\ outcome' \in IF ~ok THEN {"failed"}
                             ELSE IF NetworkFaults THEN Outcomes ELSE {"delivered"}
        BY <2>2, <2>3 DEF InitializeAndPublish
      <3>2. outcome' \in Outcomes
        BY <3>1 DEF Outcomes
      <3> QED
        BY <3>1, <3>2, InitializeKeepsPort, Zenon DEF PortInv, MqttTypeOK
    <2>4. CASE ~InitializeAndPublish(sockets - 1)
      <3>1. /\ context' = "zero" /\ link' = "none" /\ accepted' = FALSE
            /\ sockets' = sockets - 1 /\ outcome' = "failed" /\ expired' = expired
        BY <2>1, <2>4 DEF Reconnect
      <3>2. accepted' \in BOOLEAN /\ expired' \in BOOLEAN
        BY <3>1, Zenon DEF PortInv, MqttTypeOK
      <3>3. SocketMatchesContext' /\ sockets' \in Nat
        BY <2>2, <3>1 DEF SocketMatchesContext
      <3>4. PublishesInSession'
        BY <3>1 DEF PublishesInSession
      <3> QED
        BY <3>1, <3>2, <3>3, <3>4, Zenon DEF PortInv, MqttTypeOK, Outcomes
    <2> QED
      BY <2>3, <2>4
  <1> QED
    BY <1>1, <1>2, <1>3

\* What happens outside never touches the context or the socket's count.
LEMMA OutsideKeepsPort ==
  ASSUME PortInv, Outside
  PROVE  PortInv'
  <1>1. /\ UNCHANGED <<context, sockets, accepted, outcome>>
        /\ expired' \in {expired, TRUE}
        /\ link' # link => link \in Links /\ link' \in Links
    BY DEF Links, Outside, Expire, BrokerCloses, LinkBreaks
  <1>2. link' \in Links \cup {"none"} /\ (link = "none" <=> link' = "none")
    BY <1>1 DEF PortInv, MqttTypeOK, Links
  <1>3. expired' \in BOOLEAN
    BY <1>1, Zenon DEF PortInv, MqttTypeOK
  <1> QED
    <2>1. MqttTypeOK'
      BY <1>1, <1>2, <1>3, Zenon DEF PortInv, MqttTypeOK
    <2>2. SocketMatchesContext'
      BY <1>1, <1>2 DEF PortInv, SocketMatchesContext
    <2>3. PublishesInSession'
      BY <1>1, Zenon DEF PortInv, PublishesInSession
    <2> QED
      BY <2>1, <2>2, <2>3 DEF PortInv

\* Every step of the builder is a send, something outside, or leaves the
\* port alone.
LEMMA PortSteps ==
  ASSUME [Next]_vars
  PROVE  xDfmCloudPortSend \/ Outside \/ UNCHANGED mqttVars
  BY DEF Next, Build, Process, vars, BeginAlert, NumberAlert, FillSlot, CountSlot,
         AddFails, EndAlert, SetupEntry, SendEntry, StoreEntry, Fault, OutsideDevice

\* The port's invariant is inductive.
LEMMA PortInvInductive == Spec => []PortInv
  <1>1. Init => PortInv
    <2> SUFFICES ASSUME MqttInit PROVE PortInv
      BY DEF Init
    <2>1. MqttTypeOK
      <3>1. accepted \in BOOLEAN /\ expired \in BOOLEAN
        BY Zenon DEF MqttInit
      <3> QED
        BY <3>1 DEF MqttInit, MqttTypeOK, Links, Outcomes
    <2>2. SocketMatchesContext
      BY DEF MqttInit, SocketMatchesContext
    <2>3. PublishesInSession
      BY Zenon DEF MqttInit, PublishesInSession
    <2> QED
      BY <2>1, <2>2, <2>3 DEF PortInv
  <1>2. PortInv /\ [Next]_vars => PortInv'
    <2> SUFFICES ASSUME PortInv, [Next]_vars PROVE PortInv'
      OBVIOUS
    <2>1. CASE UNCHANGED mqttVars
      BY <2>1 DEF mqttVars, PortInv, MqttTypeOK, SocketMatchesContext, PublishesInSession
    <2> QED
      BY <2>1, PortSteps, SendKeepsPort, OutsideKeepsPort
  <1> QED
    BY <1>1, <1>2, PTL DEF Spec

\* For every history of sends, broken connections and refused sessions the
\* port has a socket exactly when its context refers to one ...
THEOREM PortConsistent == Spec => []SocketMatchesContext
  <1>1. PortInv => SocketMatchesContext
    BY DEF PortInv
  <1> QED
    BY <1>1, PortInvInductive, PTL

\* ... and publishes only in a session the broker has accepted: a send that
\* reconnects does not go on when the CONNECT is refused.
THEOREM PublishesAccepted == Spec => []PublishesInSession
  <1>1. PortInv => PublishesInSession
    BY DEF PortInv
  <1> QED
    BY <1>1, PortInvInductive, PTL

-----------------------------------------------------------------------------
(* Whose alert it is, and what its entries are called.                     *)

Busy == {"building", "counting", "setup", "callback"}

\* A job, whatever it says of chunks.
IsJob(j) ==
  \E V, C, O : j \in [via : V, payload : Nat, chunk : C, offset : O]

AlertShape ==
  /\ alert \in [of : Nat, symptoms : [1 .. MaxSymptoms -> Nat], count : Nat]
  /\ payloads = [slots |-> payloads.slots, count |-> payloads.count]
  /\ payloads.slots = [k \in 1 .. MaxPayloads |-> payloads.slots[k]]
  /\ payloads.count \in 0 .. MaxPayloads

Clean ==
  /\ alert.of = 0
  /\ \A k \in 1 .. MaxSymptoms : alert.symptoms[k] = 0
  /\ payloads.count = 0

Filled ==
  /\ \A k \in 1 .. MaxSymptoms : alert.symptoms[k] \in {0, begun}
  /\ \A k \in 1 .. payloads.count : payloads.slots[k].of = begun

Counters ==
  /\ begun \in Nat /\ ulAlertCounter \in Nat
  /\ sessionId \in Nat /\ callbacks \in Nat
  /\ IsJob(job)

Owned ==
  /\ pc # "idle" => begun > 0
  /\ pc = "begun" => Clean
  /\ pc \in Busy => alert.of = begun /\ Filled
  /\ pc = "counting" /\ Head(script).op # "symptom" =>
       payloads.count < MaxPayloads /\ payloads.slots[payloads.count + 1].of = begun
  /\ pc \in {"setup", "callback"} => job.payload <= payloads.count
  /\ pc = "callback" =>
       /\ entry.carries = {begun}
       /\ entry.id = ulAlertCounter
       /\ entry.session = sessionId /\ sessionId # 0

Named ==
  /\ \A o \in out :
       /\ o.session = sessionId /\ sessionId # 0
       /\ o.id \in Nat /\ o.id <= ulAlertCounter
       /\ pc \in Busy /\ o.id = ulAlertCounter => o.of = begun
  /\ \A o, q \in out : o.id = q.id => o.of = q.of

Inv == AlertShape /\ Counters /\ Owned /\ Named

\* A reset leaves an empty alert object.
LEMMA ResetCleans ==
  ASSUME prvDfmAlertReset
  PROVE  AlertShape' /\ Clean'
  <1>1. alert' = [of |-> 0, symptoms |-> [k \in 1 .. MaxSymptoms |-> 0], count |-> 0]
    BY DEF prvDfmAlertReset
  <1>2. payloads' = [slots |-> [k \in 1 .. MaxPayloads |-> EmptySlot], count |-> 0]
    BY DEF prvDfmAlertReset
  <1> QED
    BY <1>1, <1>2, BuilderAssumption DEF AlertShape, Clean

\* A way of ending the alert either goes on with another entry of it ...
Continues ==
  /\ UNCHANGED alertVars
  /\ pc' = "setup"
  /\ IsJob(job') /\ job'.payload <= payloads.count

\* ... or is over.
Ends ==
  /\ prvDfmAlertReset
  /\ pc' \in {"idle", "reset"}
  /\ IsJob(job')

\* A way that starts is at the alert entry.
LEMMA StartIsJob ==
  ASSUME NEW via
  PROVE  IsJob(Start(via)) /\ Start(via).payload = 0 /\ IsJob(NoJob)
  BY DEF Start, NoJob, IsJob

\* Finishing ends the alert.
LEMMA FinishEnds ==
  ASSUME Finish
  PROVE  Ends
  BY StartIsJob DEF Finish, Ends

\* What follows an entry, when there is a next one.
LEMMA GoOnCases ==
  ASSUME NEW next, IsJob(next), GoOn(next)
  PROVE  Continues \/ Ends
  BY FinishEnds DEF GoOn, Continues

\* What follows a failure of the alert entry.
LEMMA NextWayCases ==
  ASSUME AlertShape, NextWay
  PROVE  Continues \/ Ends
  BY FinishEnds, StartIsJob DEF NextWay, Continues, AlertShape

\* The entries to go on to are jobs.
LEMMA NextIsJob ==
  ASSUME IsJob(job), NEW moved
  PROVE  IsJob(NextPayload) /\ IsJob(NextChunk(moved))
  <1>1. PICK V, C, O : job \in [via : V, payload : Nat, chunk : C, offset : O]
    BY DEF IsJob
  <1>2. NextPayload \in [via : V, payload : Nat, chunk : C \cup {0}, offset : O \cup {0}]
    <2> DEFINE p == job.payload + 1
    <2>1. p \in Nat
      BY <1>1
    <2>2. NextPayload = [job EXCEPT !.payload = p, !.chunk = 0, !.offset = 0]
      BY DEF NextPayload
    <2> HIDE DEF p
    <2> QED
      BY <1>1, <2>1, <2>2
  <1>3. IsJob(NextPayload)
    BY <1>2 DEF IsJob
  <1> DEFINE c == job.chunk + 1
             o == job.offset + moved
             n == [job EXCEPT !.chunk = c, !.offset = o]
  <1>4. n \in [via : V, payload : Nat, chunk : C \cup {c}, offset : O \cup {o}]
    BY <1>1
  <1>5. IsJob(n)
    BY <1>4 DEF IsJob
  <1>6. NextChunk(moved) \in {NextPayload, n}
    BY DEF NextChunk
  <1> QED
    BY <1>3, <1>5, <1>6

\* A way goes on or ends: the alert stays whose it was, or is nobody's.
LEMMA OnwardKeepsOwned ==
  ASSUME AlertShape, Counters, Owned, pc \in {"setup", "callback"},
         Continues \/ Ends, UNCHANGED begun
  PROVE  AlertShape' /\ IsJob(job)' /\ Owned' /\ pc' \notin {"building", "counting", "callback"}
  <1>1. CASE Continues
    BY <1>1 DEF Continues, AlertShape, Owned, Filled, Busy, alertVars
  <1>2. CASE Ends
    BY <1>2, ResetCleans DEF Ends, Owned, Busy
  <1> QED
    BY <1>1, <1>2

-----------------------------------------------------------------------------
(* The builder's steps, one by one.                                        *)

\* A new alert: the object is empty and every id handed on is another's.
LEMMA BeginKeepsInv ==
  ASSUME Inv, BeginAlert
  PROVE  Inv'
  <1>1. pc' = "begun" /\ begun' = begun + 1 /\ prvDfmAlertReset
    BY DEF BeginAlert
  <1>2. AlertShape' /\ Clean'
    BY <1>1, ResetCleans
  <1>3. Counters'
    BY <1>1 DEF Inv, Counters, BeginAlert, sessionVars
  <1>4. Owned'
    BY <1>1, <1>2 DEF Inv, Counters, Owned, Busy
  <1>5. Named'
    BY <1>1 DEF Inv, Named, BeginAlert, sessionVars, Busy
  <1> QED
    BY <1>2, <1>3, <1>4, <1>5 DEF Inv

\* Numbering it makes an id no entry has, and the object the alert's.
LEMMA NumberKeepsInv ==
  ASSUME Inv, NumberAlert
  PROVE  Inv'
  <1>1. /\ pc = "begun" /\ pc' = "building"
        /\ ulAlertCounter' = ulAlertCounter + 1
        /\ alert' = [alert EXCEPT !.of = begun]
        /\ UNCHANGED <<payloads, sessionId, callbacks, job, begun, out, script>>
    BY DEF NumberAlert, xDfmSessionGenerateNewAlertId
  <1>2. AlertShape'
    BY <1>1 DEF Inv, AlertShape, Counters
  <1>3. Counters'
    BY <1>1 DEF Inv, Counters
  <1>4. alert'.of = begun /\ alert'.symptoms = alert.symptoms
    BY <1>1 DEF Inv, AlertShape
  <1>5. Owned'
    BY <1>1, <1>4 DEF Inv, Owned, Clean, Filled, Busy
  <1>6. Named'
    BY <1>1 DEF Inv, Named, Counters
  <1> QED
    BY <1>2, <1>3, <1>5, <1>6 DEF Inv

\* A slot that is filled carries the alert's number.
LEMMA FillKeepsInv ==
  ASSUME Inv, FillSlot
  PROVE  Inv'
  <1>1. /\ pc = "building" /\ pc' = "counting" /\ HasRoom(Head(script))
        /\ UNCHANGED <<ulAlertCounter, sessionId, callbacks, job, begun, out, script>>
    BY DEF FillSlot, sessionVars
  <1>2. Counters' /\ Named'
    BY <1>1 DEF Inv, Counters, Named, Busy
  <1>3. CASE Head(script).op = "symptom"
    <2>1. UNCHANGED payloads /\ alert' = [alert EXCEPT !.symptoms[alert.count + 1] = begun]
      BY <1>3 DEF FillSlot
    <2>2. AlertShape' /\ alert'.of = alert.of
      BY <2>1 DEF Inv, AlertShape, Counters
    <2>3. \A k \in 1 .. MaxSymptoms : alert'.symptoms[k] \in {alert.symptoms[k], begun}
      BY <2>1 DEF Inv, AlertShape
    <2>4. Owned'
      BY <1>1, <1>3, <2>1, <2>2, <2>3 DEF Inv, Owned, Filled, Busy
    <2> QED
      BY <1>2, <2>2, <2>4 DEF Inv
  <1>4. CASE Head(script).op # "symptom"
    <2> DEFINE slot == [of |-> begun, size |-> Head(script).size]
               next == payloads.count + 1
    <2>1. UNCHANGED alert /\ payloads' = [payloads EXCEPT !.slots[next] = slot]
      BY <1>4 DEF FillSlot
    <2>2. payloads.count < MaxPayloads /\ next \in 1 .. MaxPayloads
      BY <1>1, <1>4, BuilderAssumption DEF HasRoom, Inv, AlertShape
    <2>3. /\ payloads' = [slots |-> payloads'.slots, count |-> payloads'.count]
          /\ payloads'.slots = [payloads.slots EXCEPT ![next] = slot]
          /\ payloads'.count = payloads.count
      BY <2>1 DEF Inv, AlertShape
    <2>4. /\ payloads'.slots = [k \in 1 .. MaxPayloads |-> payloads'.slots[k]]
          /\ payloads'.slots[next] = slot
          /\ \A k \in 1 .. payloads.count : payloads'.slots[k] = payloads.slots[k]
      <3> HIDE DEF slot
      <3>1. PICK S : payloads.slots \in [1 .. MaxPayloads -> S]
        <4>1. payloads.slots \in [1 .. MaxPayloads -> {payloads.slots[k] : k \in 1 .. MaxPayloads}]
          BY DEF Inv, AlertShape
        <4> QED
          BY <4>1
      <3>2. payloads'.slots \in [1 .. MaxPayloads -> S \cup {slot}]
        BY <2>2, <2>3, <3>1
      <3>3. payloads'.slots = [k \in 1 .. MaxPayloads |-> payloads'.slots[k]]
        BY <3>2
      <3>4. payloads'.slots[next] = slot
        BY <2>2, <2>3, <3>1
      <3>5. \A k \in 1 .. payloads.count : k \in 1 .. MaxPayloads /\ k # next
        BY BuilderAssumption DEF Inv, AlertShape
      <3>6. \A k \in 1 .. payloads.count : payloads'.slots[k] = payloads.slots[k]
        BY <2>3, <3>1, <3>5
      <3> QED
        BY <3>3, <3>4, <3>6
    <2>5. AlertShape'
      BY <2>1, <2>3, <2>4 DEF Inv, AlertShape
    <2>6. Owned'
      BY <1>1, <2>1, <2>2, <2>3, <2>4 DEF Inv, Owned, Filled, Busy
    <2> QED
      BY <1>2, <2>5, <2>6 DEF Inv
  <1> QED
    BY <1>3, <1>4

\* Counting it makes it one of the alert's.
LEMMA CountKeepsInv ==
  ASSUME Inv, CountSlot
  PROVE  Inv'
  <1>1. /\ pc = "counting" /\ pc' = "building"
        /\ UNCHANGED <<ulAlertCounter, sessionId, callbacks, job, begun, out>>
    BY DEF CountSlot, sessionVars
  <1>2. Counters' /\ Named'
    BY <1>1 DEF Inv, Counters, Named, Busy
  <1>3. CASE Head(script).op = "symptom"
    <2>1. UNCHANGED payloads /\ alert' = [alert EXCEPT !.count = @ + 1]
      BY <1>3 DEF CountSlot
    <2>2. AlertShape' /\ alert'.of = alert.of /\ alert'.symptoms = alert.symptoms
      BY <2>1 DEF Inv, AlertShape
    <2>3. Owned'
      BY <1>1, <2>1, <2>2 DEF Inv, Owned, Filled, Busy
    <2> QED
      BY <1>2, <2>2, <2>3 DEF Inv
  <1>4. CASE Head(script).op # "symptom"
    <2>1. UNCHANGED alert /\ payloads' = [payloads EXCEPT !.count = @ + 1]
      BY <1>4 DEF CountSlot
    <2>2. /\ payloads' = [slots |-> payloads'.slots, count |-> payloads'.count]
          /\ payloads'.slots = payloads.slots
          /\ payloads'.count = payloads.count + 1
      BY <2>1 DEF Inv, AlertShape
    <2>3. payloads.count < MaxPayloads /\ payloads.slots[payloads.count + 1].of = begun
      BY <1>1, <1>4 DEF Inv, Owned
    <2>4. AlertShape'
      BY <2>1, <2>2, <2>3, BuilderAssumption DEF Inv, AlertShape
    <2>5. \A k \in 1 .. payloads'.count : k \in 1 .. payloads.count \/ k = payloads.count + 1
      BY <2>2 DEF Inv, AlertShape
    <2>6. Owned'
      BY <1>1, <2>1, <2>2, <2>3, <2>5 DEF Inv, Owned, Filled, Busy
    <2> QED
      BY <1>2, <2>4, <2>6 DEF Inv
  <1> QED
    BY <1>3, <1>4

\* A call that fails changes nothing, and ending an alert starts a way.
LEMMA AddFailsAndEndKeepInv ==
  ASSUME Inv, AddFails \/ EndAlert
  PROVE  Inv'
  <1>1. CASE AddFails
    BY <1>1 DEF AddFails, Inv, AlertShape, Counters, Owned, Named, Filled, Clean, Busy,
                alertVars, sessionVars
  <1>2. CASE EndAlert
    <2>1. /\ pc = "building" /\ pc' = "setup"
          /\ UNCHANGED <<alert, payloads, ulAlertCounter, sessionId, callbacks, begun, out>>
          /\ IsJob(job') /\ job'.payload = 0
      BY <1>2, StartIsJob DEF EndAlert, alertVars, sessionVars
    <2>2. AlertShape' /\ Counters' /\ Named'
      BY <2>1 DEF Inv, AlertShape, Counters, Named, Busy
    <2>3. Owned'
      <3>1. begun > 0 /\ alert.of = begun /\ Filled
        BY <2>1 DEF Inv, Owned, Busy
      <3>2. Filled'
        BY <2>1, <3>1 DEF Filled
      <3>3. job'.payload <= payloads'.count
        BY <2>1 DEF Inv, AlertShape
      <3> QED
        BY <2>1, <3>1, <3>2, <3>3 DEF Owned, Busy
    <2> QED
      BY <2>2, <2>3 DEF Inv
  <1> QED
    BY <1>1, <1>2

\* A session id stays what it is, and one that is obtained is not empty.
LEMMA SessionKept ==
  ASSUME Counters, NEW ok \in BOOLEAN, GetSession(ok)
  PROVE  /\ sessionId' \in Nat /\ callbacks' \in Nat
         /\ sessionId # 0 => sessionId' = sessionId
         /\ ok => sessionId' # 0
  <1>1. SessionIdObtained \in Nat /\ SessionIdObtained # 0
    BY DEF SessionIdObtained, Counters
  <1>2. sessionId # 0 => SessionIdObtained = sessionId
    BY DEF SessionIdObtained
  <1>3. /\ callbacks' \in {callbacks, callbacks + 1}
        /\ \/ sessionId' = SessionIdObtained
           \/ ~ok /\ sessionId = 0 /\ sessionId' \in {0, callbacks + 1}
    BY DEF GetSession
  <1> QED
    BY <1>1, <1>2, <1>3 DEF Counters

\* What is handed on keeps its name and session while the id counter and
\* the session id stay, whatever the builder turns to.
LEMMA NamedElsewhere ==
  ASSUME Named, UNCHANGED <<out, ulAlertCounter, begun>>,
         sessionId # 0 => sessionId' = sessionId,
         pc' \in Busy => pc \in Busy
  PROVE  Named'
  BY DEF Named

\* The entry that is made carries the alert it is made for.
LEMMA EntryIsOwned ==
  ASSUME Inv, pc = "setup", NEW session
  PROVE  /\ EntryFor(session).carries = {begun}
         /\ EntryFor(session).id = ulAlertCounter
         /\ EntryFor(session).session = session
  <1>1. begun \in Nat /\ begun > 0 /\ alert.of = begun /\ Filled
    BY DEF Inv, Owned, Counters, Busy
  <1>2. job.payload \in Nat /\ job.payload <= payloads.count
    BY DEF Inv, Owned, Counters, IsJob
  <1>3. ({alert.of} \cup {alert.symptoms[k] : k \in 1 .. MaxSymptoms}) \ {0} = {begun}
    BY <1>1 DEF Filled
  <1>4. job.payload # 0 => Slot.of = begun
    BY <1>1, <1>2 DEF Slot, Filled, Inv, AlertShape
  <1> QED
    BY <1>3, <1>4 DEF EntryFor, NoEntry

\* Making an entry, or passing over it.
LEMMA SetupKeepsInv ==
  ASSUME Inv, SetupEntry
  PROVE  Inv'
  <1>1. PICK ok \in BOOLEAN :
          /\ GetSession(ok)
          /\ IF ok
             THEN /\ entry' = EntryFor(sessionId')
                  /\ pc' = "callback"
                  /\ UNCHANGED <<job, alertVars>>
             ELSE /\ IF job.payload = 0
                     THEN NextWay
                     ELSE GoOn(IF job.chunk = 0 THEN NextPayload ELSE NextChunk(0))
                  /\ UNCHANGED entry
    BY DEF SetupEntry
  <1>2. pc = "setup" /\ UNCHANGED <<ulAlertCounter, begun, out, script>>
    BY DEF SetupEntry
  <1>3. /\ sessionId' \in Nat /\ callbacks' \in Nat
        /\ sessionId # 0 => sessionId' = sessionId
        /\ ok => sessionId' # 0
    BY <1>1, SessionKept DEF Inv
  <1>4. Named'
    BY <1>2, <1>3, NamedElsewhere DEF Inv, Busy
  <1>5. CASE ok
    <2>1. entry' = EntryFor(sessionId') /\ pc' = "callback" /\ UNCHANGED <<job, alert, payloads>>
      BY <1>1, <1>5 DEF alertVars
    <2>2. /\ entry'.carries = {begun}
          /\ entry'.id = ulAlertCounter /\ entry'.session = sessionId'
      BY <1>2, <2>1, EntryIsOwned
    <2>3. AlertShape' /\ Counters'
      BY <1>2, <1>3, <2>1 DEF Inv, AlertShape, Counters
    <2>4. Owned'
      BY <1>2, <1>3, <1>5, <2>1, <2>2 DEF Inv, Owned, Filled, Busy
    <2> QED
      BY <1>4, <2>3, <2>4 DEF Inv
  <1>6. CASE ~ok
    <2>1. Continues \/ Ends
      BY <1>1, <1>6, NextWayCases, GoOnCases, NextIsJob DEF Inv, Counters
    <2>2. AlertShape' /\ IsJob(job)' /\ Owned'
      BY <1>2, <2>1, OnwardKeepsOwned DEF Inv
    <2>3. Counters'
      BY <1>2, <1>3, <2>2 DEF Inv, Counters
    <2> QED
      BY <1>4, <2>2, <2>3 DEF Inv
  <1> QED
    BY <1>5, <1>6

\* An entry handed on has the alert's number, its id and the session's.
LEMMA HandOnKeepsInv ==
  ASSUME Inv, SendEntry \/ StoreEntry
  PROVE  Inv'
  <1>1. /\ pc = "callback" /\ Observe
        /\ UNCHANGED <<ulAlertCounter, sessionId, callbacks, begun>>
        /\ \E ok \in BOOLEAN : AfterCallback(ok)
    BY DEF SendEntry, StoreEntry, sessionVars
  <1>2. Continues \/ Ends
    BY <1>1, NextWayCases, GoOnCases, NextIsJob DEF AfterCallback, Inv, Counters
  <1>3. AlertShape' /\ IsJob(job)' /\ Owned'
    BY <1>1, <1>2, OnwardKeepsOwned DEF Inv
  <1>4. Counters'
    BY <1>1, <1>3 DEF Inv, Counters
  <1>5. /\ entry.carries = {begun} /\ entry.id = ulAlertCounter
        /\ entry.session = sessionId /\ sessionId # 0
    BY <1>1 DEF Inv, Owned
  <1> DEFINE o == [session |-> sessionId, id |-> ulAlertCounter, of |-> begun]
  <1>6. out' = out \cup {o}
    BY <1>1, <1>5 DEF Observe
  <1>7. \A p \in out : p.id = o.id => p.of = o.of
    BY <1>1 DEF Inv, Named, Busy
  <1>8. Named'
    <2>1. \A p \in out' :
            /\ p.session = sessionId /\ sessionId # 0
            /\ p.id \in Nat /\ p.id <= ulAlertCounter
            /\ p.id = ulAlertCounter => p.of = begun
      BY <1>5, <1>6, <1>7 DEF Inv, Named, Counters
    <2>2. \A p, q \in out' : p.id = q.id => p.of = q.of
      BY <1>6, <1>7 DEF Inv, Named
    <2> QED
      BY <1>1, <2>1, <2>2 DEF Named
  <1> QED
    BY <1>3, <1>4, <1>8 DEF Inv

\* A fault leaves the interrupted alert where it is; what was handed on
\* has a session id, which the fault does not change.
LEMMA FaultKeepsInv ==
  ASSUME Inv, Fault
  PROVE  Inv'
  <1>1. /\ pc' = "idle" /\ job' = NoJob
        /\ UNCHANGED <<alert, payloads, ulAlertCounter, begun, out>>
        /\ sessionId' \in {sessionId, 0, callbacks + 1}
        /\ callbacks' \in {callbacks, callbacks + 1}
        /\ sessionId # 0 => sessionId' = sessionId
    BY DEF Fault, alertVars
  <1>2. AlertShape' /\ Counters'
    BY <1>1, StartIsJob DEF Inv, AlertShape, Counters
  <1>3. Owned'
    BY <1>1 DEF Owned, Busy
  <1>4. Named'
    BY <1>1, NamedElsewhere DEF Inv, Busy
  <1> QED
    BY <1>2, <1>3, <1>4 DEF Inv

\* Nothing of it changes: the connection does, or nothing at all.
LEMMA RestKeepsInv ==
  ASSUME Inv, OutsideDevice \/ UNCHANGED vars
  PROVE  Inv'
  <1>1. UNCHANGED <<alert, payloads, ulAlertCounter, sessionId, callbacks, job,
                    begun, out, pc, script, entry>>
    BY DEF OutsideDevice, vars, alertVars, sessionVars, runVars
  <1> QED
    BY <1>1 DEF Inv, AlertShape, Counters, Owned, Named, Filled, Clean, Busy

\* Inv is inductive.
LEMMA InvInductive == Spec => []Inv
  <1>1. Init => Inv
    <2> SUFFICES ASSUME Init PROVE Inv
      OBVIOUS
    <2>1. AlertShape
      BY BuilderAssumption DEF Init, AlertShape
    <2>2. Counters
      BY StartIsJob DEF Init, Counters
    <2>3. Owned /\ Named
      BY DEF Init, Owned, Named, Busy
    <2> QED
      BY <2>1, <2>2, <2>3 DEF Inv
  <1>2. Inv /\ [Next]_vars => Inv'
    BY BeginKeepsInv, NumberKeepsInv, FillKeepsInv, CountKeepsInv, AddFailsAndEndKeepInv,
       SetupKeepsInv, HandOnKeepsInv, FaultKeepsInv, RestKeepsInv
       DEF Next, Build, Process
  <1> QED
    BY <1>1, <1>2, PTL DEF Spec

\* Wherever the fault strikes and whatever fails, an entry handed on
\* carries nothing but what its own alert was given.
THEOREM AlertsStayApart == Spec => []NothingOfAnotherAlert
  <1>1. Inv => NothingOfAnotherAlert
    BY DEF Inv, Owned, NothingOfAnotherAlert
  <1> QED
    BY <1>1, InvInductive, PTL

\* An id names one alert of the boot, also for the fault handler that cuts
\* a begin in two and takes the id that was meant for the task's alert.
THEOREM IdsNameAlerts == Spec => []SameIdSameAlert
  <1>1. Inv => SameIdSameAlert
    BY DEF Inv, Named, SameIdSameAlert
  <1> QED
    BY <1>1, InvInductive, PTL

\* All entries of a boot carry the same session id, whatever callbacks do.
THEOREM SessionIdIsKept == Spec => []OneSession
  <1>1. Inv => OneSession
    BY DEF Inv, Named, OneSession
  <1> QED
    BY <1>1, InvInductive, PTL
=============================================================================
