------------------------------ MODULE Publisher ------------------------------
(* What becomes of a reading: calls of MultiPublisher.PublishData, one per    *)
(* answer of the device, normalise it, drop it if its value has not changed,  *)
(* and write the rest to the database, in one transaction, and to the MQTT    *)
(* broker, point by point.  RegisterDevice announces a device to both.        *)
(* The last values and the announced devices are kept in memory only.         *)
EXTENDS Integers

CONSTANTS
    NumSensors,          \* sensors of a device, in the order of a batch
    Text, Scaled,        \* sensors that are in model.TextSensors; that come in kvar or kVA
    Number,              \* numbers the device reports
    Nil, Dash, Junk,     \* no value; "--", or some text; a value that is no number
    Call,                \* calls of PublishData that may be in progress
    Device,
    MaxBoot,             \* bound: starts of the process
    World,               \* what is assumed of the surroundings, see serial ... restarts
    None

Sensor == 1..NumSensors
Raw(s) == IF s \in Text THEN {Nil, Dash} ELSE {Nil, Dash, Junk} \cup Number
Point == Number \cup {1000 * n : n \in Number} \cup {0, Dash}

ASSUME PublisherAssumption ==
    /\ NumSensors \in Nat \ {0} /\ MaxBoot \in Nat \ {0}
    /\ Text \subseteq Sensor /\ Scaled \subseteq Sensor
    /\ World \subseteq BOOLEAN \X BOOLEAN \X {"no", "slow", "error"} \X BOOLEAN
    /\ Number \subseteq Int /\ Nil \notin Point
    /\ None \notin Point \cup (Point \X (1..MaxBoot))

VARIABLES
    sensors,    \* sensors[s]: the value last taken for published, in memory
    db,         \* db[s]: the last row of s, its value and the boot that wrote it
    broker,     \* broker[s]: the last value the broker was given
    at, ix,     \* at[c], ix[c]: where call c is, and at which sensor
    new,        \* new[c]: the value that call c is about to store
    data,       \* data[c]: its batch, None for a sensor that is not in it
    reg,        \* reg[d]: where RegisterDevice is
    devices,    \* devices in the database
    retained,   \* devices whose announcement the broker keeps
    configured, \* configuredDevices, in memory
    boot,       \* starts of the process
    serial,     \* calls take turns, as those of one poll loop do if no answer is late
    dbFails,    \* the database may fail
    mqttFails,  \* what the broker may do: "no", "slow" (no reply), "error" too
    restarts    \* the process may end and be started again

store == <<sensors, db, broker>>
calls == <<at, ix, new, data>>
announce == <<reg, devices, retained, configured>>
world == <<boot, serial, dbFails, mqttFails, restarts>>
vars == <<store, calls, announce, world>>

Empty == [s \in Sensor |-> None]

Init ==
    /\ sensors = Empty /\ db = Empty /\ broker = Empty
    /\ at = [c \in Call |-> "idle"] /\ ix = [c \in Call |-> 1]
    /\ new = [c \in Call |-> None] /\ data = [c \in Call |-> Empty]
    /\ reg = [d \in Device |-> "idle"] /\ devices = {} /\ retained = {} /\ configured = {}
    /\ boot = 1
    /\ \E w \in World : serial = w[1] /\ dbFails = w[2] /\ mqttFails = w[3] /\ restarts = w[4]

(* Normalize: the value published for a reading; Nil if it is skipped.        *)
Normalize(s, raw) ==
    IF s \in Text THEN raw
    ELSE IF raw \in {Nil, Dash} THEN 0
    ELSE IF s \in Scaled THEN 1000 * raw ELSE raw

(* A numeric sensor with a value that SetString rejects: the process is gone. *)
Rejected(s, raw) == raw = Junk /\ s \notin Text

Goto(c, pc, i) == at' = [at EXCEPT ![c] = pc] /\ ix' = [ix EXCEPT ![c] = i]

Idle == \A c \in Call : at[c] = "idle"

Finish(c) == Goto(c, "idle", 1) /\ data' = [data EXCEPT ![c] = Empty]
-----------------------------------------------------------------------------
(* PublishData.                                                               *)

Start(c) ==
    /\ at[c] = "idle"
    /\ serial => Idle
    /\ \A d \in Device : reg[d] = "idle"
    /\ Goto(c, "load", 1)
    /\ UNCHANGED <<store, new, data, announce, world>>

(* The batch has no reading of this sensor, or Normalize skips it.            *)
Skip(c) ==
    /\ at[c] = "load" /\ ix[c] <= NumSensors
    /\ Goto(c, "load", ix[c] + 1)
    /\ UNCHANGED <<store, new, data, announce, world>>

(* Not the code: every reading is new.                                        *)
Load_Always(c, raw) ==
    /\ at[c] = "load" /\ ix[c] <= NumSensors
    /\ ~Rejected(ix[c], raw) /\ Normalize(ix[c], raw) # Nil
    /\ Goto(c, "store", ix[c]) /\ new' = [new EXCEPT ![c] = Normalize(ix[c], raw)]
    /\ UNCHANGED <<store, data, announce, world>>

(* shouldUpdate looks the value up in the map, ...                            *)
Load(c, raw) ==
    /\ at[c] = "load" /\ ix[c] <= NumSensors
    /\ ~Rejected(ix[c], raw) /\ Normalize(ix[c], raw) # Nil
    /\ LET v == Normalize(ix[c], raw) IN
       \/ sensors[ix[c]] = v /\ Goto(c, "load", ix[c] + 1) /\ UNCHANGED new
       \/ sensors[ix[c]] # v /\ Goto(c, "store", ix[c]) /\ new' = [new EXCEPT ![c] = v]
    /\ UNCHANGED <<store, data, announce, world>>

(* ... and stores it there in another step.                                   *)
Store(c) ==
    /\ at[c] = "store"
    /\ sensors' = [sensors EXCEPT ![ix[c]] = new[c]]
    /\ data' = [data EXCEPT ![c][ix[c]] = new[c]]
    /\ new' = [new EXCEPT ![c] = None]
    /\ Goto(c, "load", ix[c] + 1)
    /\ UNCHANGED <<db, broker, announce, world>>

(* Not the code: a batch in which any value is unchanged is not written.      *)
Collected_AllOrNothing(c) ==
    /\ at[c] = "load" /\ ix[c] > NumSensors
    /\ IF \E s \in Sensor : data[c][s] = None THEN Finish(c)
                                              ELSE Goto(c, "insert", 1) /\ UNCHANGED data
    /\ UNCHANGED <<store, new, announce, world>>

Collected(c) ==
    /\ at[c] = "load" /\ ix[c] > NumSensors
    /\ Goto(c, "insert", 1)
    /\ UNCHANGED <<store, new, data, announce, world>>

(* Write of the database: a row for each point, seen by nobody before Commit. *)
Insert(c) ==
    /\ at[c] = "insert" /\ ix[c] <= NumSensors
    /\ Goto(c, "insert", ix[c] + 1)
    /\ UNCHANGED <<store, new, data, announce, world>>

Rows(c) == [s \in Sensor |-> IF data[c][s] = None THEN db[s] ELSE <<data[c][s], boot>>]

Commit(c) ==
    /\ at[c] = "insert" /\ ix[c] > NumSensors
    /\ db' = Rows(c)
    /\ Goto(c, "mqtt", 1)
    /\ UNCHANGED <<sensors, broker, new, data, announce, world>>

(* Not the code: PublishData returns the first error.                         *)
DbError_Returns(c) ==
    /\ at[c] = "insert" /\ dbFails
    /\ Finish(c)
    /\ UNCHANGED <<store, new, announce, world>>

(* Any step of the transaction fails, or its 5 s are over: it is rolled back, *)
(* the error logged, and the next backend has its turn.                       *)
DbError(c) ==
    /\ at[c] = "insert" /\ dbFails
    /\ Goto(c, "mqtt", 1)
    /\ UNCHANGED <<store, new, data, announce, world>>

(* publishDataPoint, one sensor.                                              *)
Publish(c) ==
    /\ at[c] = "mqtt" /\ ix[c] <= NumSensors
    /\ broker' = [broker EXCEPT ![ix[c]] = IF data[c][ix[c]] = None THEN @ ELSE data[c][ix[c]]]
    /\ Goto(c, "mqtt", ix[c] + 1)
    /\ UNCHANGED <<sensors, db, new, data, announce, world>>

(* The token completes with an error, which is not looked at, or not within   *)
(* 10 s: the next point is tried.                                             *)
PublishLost(c) ==
    /\ at[c] = "mqtt" /\ ix[c] <= NumSensors /\ mqttFails # "no"
    /\ Goto(c, "mqtt", ix[c] + 1)
    /\ UNCHANGED <<store, new, data, announce, world>>

(* Not within 10 s, and with an error by then: the rest is dropped.           *)
PublishStops(c) ==
    /\ at[c] = "mqtt" /\ ix[c] <= NumSensors /\ mqttFails = "error"
    /\ Finish(c)
    /\ UNCHANGED <<store, new, announce, world>>

Return(c) ==
    /\ at[c] = "mqtt" /\ ix[c] > NumSensors
    /\ Finish(c)
    /\ UNCHANGED <<store, new, announce, world>>
-----------------------------------------------------------------------------
(* RegisterDevice, called by the poll loop in every cycle.  It shares no      *)
(* state with PublishData, so it is left out where those calls overlap.       *)

RegTo(d, pc) == reg' = [reg EXCEPT ![d] = pc]

Upsert(d) ==
    /\ reg[d] = "idle" /\ serial /\ Idle
    /\ \/ devices' = devices \cup {d}
       \/ dbFails /\ UNCHANGED devices
    /\ RegTo(d, IF d \in configured THEN "idle" ELSE "publish")
    /\ UNCHANGED <<store, calls, retained, configured, world>>

Announce(d) ==
    /\ reg[d] = "publish"
    /\ \/ retained' = retained \cup {d} /\ RegTo(d, "wait")
       \/ mqttFails # "no" /\ RegTo(d, "unsent") /\ UNCHANGED retained
    /\ UNCHANGED <<store, calls, devices, configured, world>>

(* Not the code: the device goes for announced after a timeout too.           *)
Unannounced_Marked(d) ==
    /\ reg[d] = "unsent"
    /\ configured' = configured \cup {d}
    /\ RegTo(d, "idle")
    /\ UNCHANGED <<store, calls, devices, retained, world>>

(* The token fails at once or does not complete within 5 s; it may also       *)
(* complete with an error, which goes for success.                            *)
Unannounced(d) ==
    /\ reg[d] = "unsent"
    /\ \/ mqttFails = "error" /\ configured' = configured \cup {d}
       \/ UNCHANGED configured
    /\ RegTo(d, "idle")
    /\ UNCHANGED <<store, calls, devices, retained, world>>

Announced(d) ==
    /\ reg[d] = "wait"
    /\ configured' = configured \cup {d}
    /\ RegTo(d, "idle")
    /\ UNCHANGED <<store, calls, devices, retained, world>>
-----------------------------------------------------------------------------
(* The process ends, by a panic if a numeric sensor had a value that is no    *)
(* number.  What it had in memory is lost, and a transaction is rolled back.  *)
Restart ==
    /\ restarts /\ boot < MaxBoot
    /\ boot' = boot + 1
    /\ sensors' = Empty /\ configured' = {}
    /\ at' = [c \in Call |-> "idle"] /\ ix' = [c \in Call |-> 1]
    /\ new' = [c \in Call |-> None] /\ data' = [c \in Call |-> Empty]
    /\ reg' = [d \in Device |-> "idle"]
    /\ UNCHANGED <<db, broker, devices, retained, serial, dbFails, mqttFails, restarts>>

Working(c) ==
    \/ Skip(c) \/ (\E raw \in Raw(ix[c]) : Load(c, raw)) \/ Store(c) \/ Collected(c)
    \/ Insert(c) \/ Commit(c) \/ DbError(c)
    \/ Publish(c) \/ PublishLost(c) \/ PublishStops(c) \/ Return(c)

Registering(d) == Upsert(d) \/ Announce(d) \/ Unannounced(d) \/ Announced(d)

Next ==
    \/ \E c \in Call : Start(c) \/ Working(c)
    \/ \E d \in Device : Registering(d)
    \/ Restart

Spec == Init /\ [][Next]_vars
-----------------------------------------------------------------------------
TypeOK ==
    /\ sensors \in [Sensor -> Point \cup {None}]
    /\ db \in [Sensor -> (Point \X (1..MaxBoot)) \cup {None}]
    /\ broker \in [Sensor -> Point \cup {None}]
    /\ at \in [Call -> {"idle", "load", "store", "insert", "mqtt"}]
    /\ ix \in [Call -> 1..(NumSensors + 1)]
    /\ new \in [Call -> Point \cup {None}]
    /\ data \in [Call -> [Sensor -> Point \cup {None}]]
    /\ reg \in [Device -> {"idle", "publish", "unsent", "wait"}]
    /\ devices \subseteq Device /\ retained \subseteq Device /\ configured \subseteq Device
    /\ boot \in 1..MaxBoot
    /\ <<serial, dbFails, mqttFails, restarts>> \in World

(* A value that is dropped as already published is in the database, whatever  *)
(* the broker does and wherever the process was restarted, if the database    *)
(* does not fail and calls take turns (publisher.go:84, store Write).         *)
DatabaseFollows ==
    serial /\ ~dbFails /\ Idle =>
        \A s \in Sensor : sensors[s] # None => db[s] # None /\ db[s][1] = sensors[s]

(* The same of the broker, whatever the database does.                        *)
BrokerFollows ==
    serial /\ mqttFails = "no" /\ Idle =>
        \A s \in Sensor : sensors[s] # None => broker[s] = sensors[s]

(* A device is passed over as announced only if its announcement is retained  *)
(* by the broker, after timeouts and restarts too, unless the broker replies  *)
(* with errors, which go for success (mqtt/write.go:42).                      *)
PassedOverIsAnnounced == mqttFails # "error" => configured \subseteq retained

(* A row is only written if the value has changed since the last row that     *)
(* this process wrote of the sensor (docs/developer/developer.md:309), if     *)
(* calls take turns and the database does not fail.                           *)
OnlyChangesWritten ==
    [][serial /\ ~dbFails => \A c \in Call : at[c] = "insert" /\ at'[c] = "mqtt" =>
          \A s \in Sensor : data[c][s] # None => db[s] # <<data[c][s], boot>>]_vars
=============================================================================
