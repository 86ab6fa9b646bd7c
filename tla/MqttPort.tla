------------------------------ MODULE MqttPort ------------------------------
(***************************************************************************)
(* The AWS MQTT cloud port of DFM (AWS_MQTT/dfmCloudPort.c): one TLS        *)
(* socket and one MQTT session, opened by xDfmCloudPortInitialize and used *)
(* by every xDfmCloudPortSend. Nothing runs the MQTT library between two   *)
(* sends, so no PINGREQ keeps the session alive: a send that finds the     *)
(* keep-alive time passed opens a new session first. Entries are published *)
(* with QoS 0, nobody learns whether they arrive.                          *)
(*                                                                         *)
(* The connection is described by what the calls of coreMQTT and of the    *)
(* secure sockets can meet: a link that is up, one that swallows what is   *)
(* sent (the peer is gone, nothing has told us), or one that is reset and  *)
(* fails every send. The port starts as a successful xDfmInitialize leaves *)
(* it: without that DFM ignores every alert.                               *)
(***************************************************************************)
EXTENDS Naturals

CONSTANT NetworkFaults   (* Whether connections break or cannot be made.     *)

ASSUME NetworkAssumption == NetworkFaults \in BOOLEAN

VARIABLES
  context,    (* xMQTTContext: "zero" after memset, "init" (MQTTNotConnected *)
              (* with a buffer and a transport), "connected".                *)
  link,       (* The socket of secureSocketsTransportParams, see above, or   *)
              (* "none" when it is closed.                                   *)
  sockets,    (* Sockets open.                                               *)
  accepted,   (* The broker has accepted a CONNECT on the socket.            *)
  expired,    (* prvGetTimeMs() is beyond KEEP_ALIVE_TIMEOUT_SECONDS.        *)
  outcome     (* Observed: what became of the last entry.                    *)

mqttVars == <<context, link, sockets, accepted, expired, outcome>>

Links == {"up", "silent", "reset"}

(* What can become of an entry. A send that returns DFM_SUCCESS may have   *)
(* been swallowed.                                                         *)
Outcomes == {"delivered", "lost", "failed"}

MqttInit ==
  /\ context = "connected"
  /\ link = "up"
  /\ sockets = 1
  /\ accepted = TRUE
  /\ expired = FALSE
  /\ outcome = "delivered"

-----------------------------------------------------------------------------
(* prvCheckConnection: a new session is needed.                            *)
prvCheckConnection == context # "connected" \/ expired

(* What a PUBLISH meets. Its failure changes nothing in the context.       *)
Publish ==
  outcome' = CASE link = "up"     -> "delivered"
               [] link = "silent" -> "lost"
               [] link = "reset"  -> "failed"

(* MQTT_Disconnect needs a buffer to build the packet in, and a socket     *)
(* that takes it.                                                          *)
DisconnectFails == context = "zero" \/ link = "reset"

(* Mutant: the context counts as connected whatever the broker answered.   *)
InitializeIgnoringConnack(open, ok) ==
  /\ ok
  /\ expired' = FALSE
  /\ context' = "connected" /\ link' = "up" /\ accepted' \in BOOLEAN
  /\ sockets' = open + 1

(* xDfmCloudPortInitialize after the socket was closed: no connection in   *)
(* three tries; a connection on which the broker does not accept CONNECT;  *)
(* or a session. The time is counted from here in any case.                *)
xDfmCloudPortInitialize(open, ok) ==
  /\ expired' = FALSE
  /\ \/ /\ NetworkFaults
        /\ ~ok
        /\ context' = "zero" /\ link' = "none" /\ accepted' = FALSE
        /\ sockets' = open
     \/ /\ NetworkFaults
        /\ ~ok
        /\ context' = "init" /\ link' \in Links /\ accepted' = FALSE
        /\ sockets' = open + 1
     \/ /\ ok
        /\ context' = "connected" /\ link' = "up" /\ accepted' = TRUE
        /\ sockets' = open + 1

(* A new session, and the entry on it.                                     *)
InitializeAndPublish(open) ==
  \E ok \in BOOLEAN :
    /\ xDfmCloudPortInitialize(open, ok)
    /\ outcome' \in IF ~ok THEN {"failed"}
                   ELSE IF NetworkFaults THEN Outcomes ELSE {"delivered"}

(* Mutant: the socket of the old session stays open.                       *)
ReconnectWithoutClosing == InitializeAndPublish(sockets)

(* The context is cleared; SecureSocketsTransport_Disconnect closes the    *)
(* socket but fails when its shutdown does; only then a new session.       *)
Reconnect ==
  \/ /\ NetworkFaults
     /\ context' = "zero"
     /\ link' = "none" /\ accepted' = FALSE
     /\ sockets' = sockets - 1
     /\ outcome' = "failed"
     /\ UNCHANGED expired
  \/ InitializeAndPublish(sockets - 1)

(* xDfmCloudPortSend                                                       *)
xDfmCloudPortSend ==
  \/ /\ ~prvCheckConnection
     /\ Publish
     /\ UNCHANGED <<context, link, sockets, accepted, expired>>
  \/ /\ prvCheckConnection
     /\ DisconnectFails
     /\ outcome' = "failed"
     /\ UNCHANGED <<context, link, sockets, accepted, expired>>
  \/ /\ prvCheckConnection
     /\ ~DisconnectFails
     /\ Reconnect

-----------------------------------------------------------------------------
(* What happens outside.                                                   *)

(* KEEP_ALIVE_TIMEOUT_SECONDS pass.                                        *)
Expire ==
  /\ ~expired
  /\ expired' = TRUE
  /\ UNCHANGED <<context, link, sockets, accepted, outcome>>

(* The broker closes a session from which it has not heard for one and a   *)
(* half times the keep-alive time, or which it never accepted.             *)
BrokerCloses ==
  /\ link = "up"
  /\ expired \/ NetworkFaults
  /\ link' = "reset"
  /\ UNCHANGED <<context, sockets, accepted, expired, outcome>>

(* The network fails; later a reset arrives.                               *)
LinkBreaks ==
  /\ NetworkFaults
  /\ \/ link = "up" /\ link' = "silent"
     \/ link = "silent" /\ link' = "reset"
  /\ UNCHANGED <<context, sockets, accepted, expired, outcome>>

Outside == Expire \/ BrokerCloses \/ LinkBreaks

MqttNext == xDfmCloudPortSend \/ Outside

MqttSpec == MqttInit /\ [][MqttNext]_mqttVars

-----------------------------------------------------------------------------
MqttTypeOK ==
  /\ context \in {"zero", "init", "connected"}
  /\ link \in Links \cup {"none"}
  /\ sockets \in Nat
  /\ accepted \in BOOLEAN
  /\ expired \in BOOLEAN
  /\ outcome \in Outcomes

(* Over failed disconnects, failed shutdowns, connections that cannot be   *)
(* made and brokers that do not answer, the port has one socket open when  *)
(* its context refers to one, and none otherwise: no socket is leaked and  *)
(* none is used or closed after it was closed.                             *)
SocketMatchesContext ==
  /\ sockets = IF context = "zero" THEN 0 ELSE 1
  /\ link = "none" <=> sockets = 0

(* An entry is published only on a connection whose CONNECT the broker has *)
(* accepted: the context never says connected of any other.                *)
PublishesInSession == context = "connected" => accepted
=============================================================================
