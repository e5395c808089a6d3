--------------------------- MODULE KafkaProducer ---------------------------
(***************************************************************************)
(* KafkaProducerService: the isConnected flag it keeps, and the kafkajs     *)
(* producer and the broker behind it.  kafkajs refuses to send unless its   *)
(* own status is "connected"; it reconnects its sockets by itself when a    *)
(* broker comes back, so a broker outage changes neither its status nor     *)
(* the flag of the service.                                                 *)
(***************************************************************************)

VARIABLES
    isConnected,    \* the private flag of KafkaProducerService
    linked,         \* kafkajs: the producer's own status is "connected"
    disconnecting,  \* disconnect() awaits producer.disconnect()
    brokerUp        \* the broker answers

kafkaVars == <<isConnected, linked, disconnecting, brokerUp>>

KafkaTypeOK ==
    /\ isConnected \in BOOLEAN
    /\ linked \in BOOLEAN
    /\ disconnecting \in BOOLEAN
    /\ brokerUp \in BOOLEAN

KafkaInit ==
    /\ isConnected = FALSE
    /\ linked = FALSE
    /\ disconnecting = FALSE
    /\ brokerUp = TRUE

\* connect(): the flag is set only once the client is connected.
ConnectSucceeds ==
    /\ brokerUp
    /\ linked' = TRUE
    /\ isConnected' = TRUE
    /\ UNCHANGED <<disconnecting, brokerUp>>

\* connect() rethrows the client's error and changes nothing.
ConnectFails ==
    /\ ~brokerUp
    /\ UNCHANGED kafkaVars

\* disconnect() up to its await: nothing is done for a producer that is not
\* connected; otherwise the client refuses to send from here on.
BeginDisconnect ==
    /\ linked' = (linked /\ ~isConnected)
    /\ disconnecting' = isConnected
    /\ UNCHANGED <<isConnected, brokerUp>>

\* disconnect() after its await: the flag is cleared, unless the client threw.
DisconnectReturns ==
    /\ disconnecting
    /\ disconnecting' = FALSE
    /\ \/ linked' = FALSE /\ isConnected' = FALSE
       \/ UNCHANGED <<linked, isConnected>>
    /\ UNCHANGED brokerUp

\* The conditions under which a send the client accepts reaches the topic.
CanSend == linked /\ brokerUp

\* A new process starts with a new, unconnected producer.
KafkaReset ==
    /\ isConnected' = FALSE
    /\ linked' = FALSE
    /\ disconnecting' = FALSE
    /\ UNCHANGED brokerUp

\* The broker itself.
BrokerFails == brokerUp /\ brokerUp' = FALSE /\ UNCHANGED <<isConnected, linked, disconnecting>>
BrokerRecovers == ~brokerUp /\ brokerUp' = TRUE /\ UNCHANGED <<isConnected, linked, disconnecting>>

\* healthCheck(), which KafkaHealthIndicator reports.
healthCheck == isConnected

============================================================================
