-------------------------- MODULE Publisher_proofs --------------------------
(* Theorems about publishing, for any sensors, values, calls and restarts.    *)
EXTENDS Publisher, TLAPS

(* Calls take turns; a call has a batch only while it is in progress, and the *)
(* batch holds what it has stored so far.                                     *)
CallInv ==
    /\ serial => \A c, d \in Call : at[c] # "idle" /\ at[d] # "idle" => c = d
    /\ \A c \in Call : at[c] = "idle" => data[c] = Empty
    /\ \A c \in Call : at[c] = "store" => ix[c] \in Sensor /\ new[c] # None
    /\ serial => \A c \in Call, s \in Sensor : data[c][s] # None => data[c][s] = sensors[s]

BeforeDb(c) == at[c] \in {"load", "store", "insert"}
BeforeBroker(c, s) == BeforeDb(c) \/ (at[c] = "mqtt" /\ ix[c] <= s)

(* A value taken for published is in the database or on its way.              *)
DbInv ==
    serial /\ ~dbFails =>
        \A s \in Sensor : sensors[s] # None =>
            \/ db[s] # None /\ db[s][1] = sensors[s]
            \/ \E c \in Call : BeforeDb(c) /\ data[c][s] = sensors[s]

(* The same of the broker, which gets the points one by one.                  *)
BrokerInv ==
    serial /\ mqttFails = "no" =>
        \A s \in Sensor : sensors[s] # None =>
            \/ broker[s] = sensors[s]
            \/ \E c \in Call : BeforeBroker(c, s) /\ data[c][s] = sensors[s]

PubInv == TypeOK /\ CallInv /\ DbInv /\ BrokerInv

LEMMA EmptyIsNone == \A s \in Sensor : Empty[s] = None
BY DEF Empty

LEMMA NormalizeType ==
    ASSUME NEW s \in Sensor, NEW raw \in Raw(s), ~Rejected(s, raw), Normalize(s, raw) # Nil
    PROVE  Normalize(s, raw) \in Point /\ Normalize(s, raw) # None
<1>1. CASE s \in Text
  BY <1>1, PublisherAssumption DEF Raw, Normalize, Point
<1>2. CASE s \notin Text /\ raw \in {Nil, Dash}
  BY <1>2, PublisherAssumption DEF Raw, Normalize, Point
<1>3. CASE s \notin Text /\ raw \notin {Nil, Dash}
  <2>1. raw \in Number
    BY <1>3 DEF Raw, Rejected
  <2> QED BY <1>3, <2>1, PublisherAssumption DEF Normalize, Point
<1> QED BY <1>1, <1>2, <1>3

LEMMA LoadedIsPoint ==
    ASSUME NEW c \in Call, ix[c] \in Int, NEW raw \in Raw(ix[c]), Load(c, raw), ix[c] >= 1
    PROVE  /\ ix[c] \in Sensor
           /\ Normalize(ix[c], raw) \in Point /\ Normalize(ix[c], raw) # None
<1>1. ix[c] \in Sensor
  BY PublisherAssumption DEF Load, Sensor
<1> QED BY <1>1, NormalizeType DEF Load

LEMMA EmptyType == Empty \in [Sensor -> Point \cup {None}]
BY DEF Empty

LEMMA Params == NumSensors \in Nat /\ NumSensors >= 1 /\ MaxBoot \in Nat /\ 1 \in 1..MaxBoot
BY PublisherAssumption

LEMMA InitPubInv == Init => PubInv
<1> SUFFICES ASSUME Init PROVE PubInv
  OBVIOUS
<1>1. TypeOK
  BY PublisherAssumption DEF Init, TypeOK, Empty
<1>2. CallInv /\ DbInv /\ BrokerInv
  BY EmptyIsNone DEF Init, CallInv, DbInv, BrokerInv, Idle
<1> QED BY <1>1, <1>2 DEF PubInv

-----------------------------------------------------------------------------
(* Types.                                                                     *)
LEMMA StepTypes ==
    ASSUME PubInv, [Next]_vars
    PROVE  TypeOK'
<1> USE Params
    DEF PubInv, TypeOK, Goto, Finish, store, calls, announce, world
<1>1. ASSUME NEW c \in Call, Start(c) \/ Skip(c) \/ Collected(c) PROVE TypeOK'
  <2>1. CASE Start(c)
    BY <2>1 DEF Start
  <2>2. CASE Skip(c)
    BY <2>2 DEF Skip
  <2>3. CASE Collected(c)
    BY <2>3 DEF Collected
  <2> QED BY <1>1, <2>1, <2>2, <2>3
<1>2. ASSUME NEW c \in Call, NEW raw \in Raw(ix[c]), Load(c, raw) PROVE TypeOK'
  <2>1. ix[c] \in Sensor
    BY <1>2 DEF Load, Sensor
  <2>2. Normalize(ix[c], raw) \in Point
    BY <1>2, <2>1, NormalizeType DEF Load
  <2>3. new' = new \/ new' = [new EXCEPT ![c] = Normalize(ix[c], raw)]
    BY <1>2 DEF Load
  <2>4. /\ at' \in [Call -> {"idle", "load", "store", "insert", "mqtt"}]
        /\ ix' \in [Call -> 1..(NumSensors + 1)]
    <3>1. CASE Goto(c, "load", ix[c] + 1) /\ ix[c] <= NumSensors
      BY <3>1
    <3>2. CASE Goto(c, "store", ix[c])
      BY <3>2
    <3> QED BY <1>2, <3>1, <3>2 DEF Load
  <2>5. UNCHANGED <<store, data, announce, world>>
    BY <1>2 DEF Load
  <2>6. new' \in [Call -> Point \cup {None}]
    BY <2>2, <2>3
  <2> QED BY <2>4, <2>5, <2>6
<1>3. ASSUME NEW c \in Call, Store(c) PROVE TypeOK'
  BY <1>3 DEF Store, CallInv, Sensor
<1>4. ASSUME NEW c \in Call, Insert(c) \/ DbError(c) \/ PublishLost(c) PROVE TypeOK'
  <2>1. CASE Insert(c)
    BY <2>1 DEF Insert
  <2>2. CASE DbError(c)
    BY <2>2 DEF DbError
  <2>3. CASE PublishLost(c)
    BY <2>3 DEF PublishLost
  <2> QED BY <1>4, <2>1, <2>2, <2>3
<1>5. ASSUME NEW c \in Call, Commit(c) PROVE TypeOK'
  <2>1. Rows(c) \in [Sensor -> (Point \X (1..MaxBoot)) \cup {None}]
    BY DEF Rows
  <2> QED BY <1>5, <2>1 DEF Commit
<1>6. ASSUME NEW c \in Call, Publish(c) PROVE TypeOK'
  BY <1>6 DEF Publish, Sensor
<1>7. ASSUME NEW c \in Call, PublishStops(c) \/ Return(c) PROVE TypeOK'
  <2>1. data' \in [Call -> [Sensor -> Point \cup {None}]]
    <3>1. data' = [data EXCEPT ![c] = Empty]
      BY <1>7 DEF PublishStops, Return
    <3> QED BY <3>1, EmptyType
  <2>2. /\ at' \in [Call -> {"idle", "load", "store", "insert", "mqtt"}]
        /\ ix' \in [Call -> 1..(NumSensors + 1)]
    <3>1. Goto(c, "idle", 1)
      BY <1>7 DEF PublishStops, Return
    <3> QED BY <3>1
  <2>3. UNCHANGED <<store, new, announce, world>>
    BY <1>7 DEF PublishStops, Return
  <2> QED BY <2>1, <2>2, <2>3
<1>8. ASSUME NEW d \in Device, Registering(d) PROVE TypeOK'
  BY <1>8 DEF Registering, Upsert, Announce, Unannounced, Announced, RegTo
<1>9. CASE Restart
  BY <1>9, EmptyType DEF Restart
<1>10. CASE UNCHANGED vars
  BY <1>10 DEF vars
<1> QED
  BY <1>1, <1>2, <1>3, <1>4, <1>5, <1>6, <1>7, <1>8, <1>9, <1>10 DEF Next, Working

(* What the steps have in common: the maps they read are functions.           *)
Maps ==
    /\ at = [c \in Call |-> at[c]] /\ ix = [c \in Call |-> ix[c]]
    /\ new = [c \in Call |-> new[c]]
    /\ data = [c \in Call |-> data[c]]
    /\ \A c \in Call : data[c] = [s \in Sensor |-> data[c][s]]
    /\ sensors = [s \in Sensor |-> sensors[s]]
    /\ broker = [s \in Sensor |-> broker[s]]
    /\ \A c \in Call : ix[c] \in Int /\ ix[c] >= 1

LEMMA TypesAreMaps == TypeOK => Maps
BY PublisherAssumption DEF TypeOK, Maps

(* What a call in progress leaves alone.                                      *)
LEMMA StepCalls ==
    ASSUME Maps, CallInv, [Next]_vars
    PROVE  CallInv'
<1> USE EmptyIsNone DEF Maps, CallInv, Goto, Finish, store, calls, announce, world
<1>1. ASSUME NEW c \in Call, Start(c) PROVE CallInv'
  BY <1>1 DEF Start, Idle
<1>2. ASSUME NEW c \in Call, Skip(c) \/ Collected(c) \/ Insert(c) \/ DbError(c) \/ Commit(c)
      PROVE  CallInv'
  <2>1. /\ at' = [at EXCEPT ![c] = at'[c]] /\ UNCHANGED <<sensors, new, data, serial>>
        /\ at[c] # "idle" /\ at'[c] \notin {"idle", "store"}
    BY <1>2 DEF Skip, Collected, Insert, DbError, Commit
  <2>2. \A d \in Call : d # c => at'[d] = at[d] /\ ix'[d] = ix[d]
    BY <1>2 DEF Skip, Collected, Insert, DbError, Commit
  <2>3. \A d \in Call : /\ (at'[d] = "idle") <=> (at[d] = "idle")
                        /\ at'[d] = "store" => at[d] = "store" /\ ix'[d] = ix[d]
    <3> TAKE d \in Call
    <3>1. CASE d = c
      BY <2>1, <3>1
    <3>2. CASE d # c
      BY <2>2, <3>2
    <3> QED
      BY <3>1, <3>2
  <2>4. /\ serial' => \A d, e \in Call : at'[d] # "idle" /\ at'[e] # "idle" => d = e
        /\ \A d \in Call : at'[d] = "idle" => data'[d] = Empty
    BY <2>1, <2>3
  <2>5. \A d \in Call : at'[d] = "store" => ix'[d] \in Sensor /\ new'[d] # None
    BY <2>1, <2>3
  <2>6. serial' => \A d \in Call, s \in Sensor : data'[d][s] # None => data'[d][s] = sensors'[s]
    BY <2>1
  <2> QED BY <2>4, <2>5, <2>6
<1>3. ASSUME NEW c \in Call, NEW raw \in Raw(ix[c]), Load(c, raw) PROVE CallInv'
  <2>1. ix[c] \in Int /\ at[c] = "load"
    BY <1>3 DEF Load
  <2>2. CASE sensors[ix[c]] = Normalize(ix[c], raw)
    <3>1. UNCHANGED <<sensors, new, data, serial>> /\ at' = [at EXCEPT ![c] = "load"]
      BY <1>3, <2>2 DEF Load
    <3>2. \A d \in Call : d # c => ix'[d] = ix[d]
      BY <1>3, <2>2 DEF Load
    <3> QED BY <2>1, <3>1, <3>2
  <2>3. CASE sensors[ix[c]] # Normalize(ix[c], raw)
    <3>1. at' = [at EXCEPT ![c] = "store"] /\ ix' = [ix EXCEPT ![c] = ix[c]]
          /\ new' = [new EXCEPT ![c] = Normalize(ix[c], raw)]
      BY <1>3, <2>3 DEF Load
    <3>2. UNCHANGED <<sensors, data, serial>>
      BY <1>3 DEF Load
    <3>3. Normalize(ix[c], raw) # None /\ ix[c] \in Sensor
      BY <1>3, LoadedIsPoint
    <3> QED BY <2>1, <3>1, <3>2, <3>3
  <2> QED BY <2>2, <2>3
<1>4. ASSUME NEW c \in Call, Store(c) PROVE CallInv'
  <2>1. ix[c] \in Sensor /\ at[c] = "store"
    BY <1>4 DEF Store
  <2>2. /\ at' = [at EXCEPT ![c] = "load"] /\ new' = [new EXCEPT ![c] = None]
        /\ data' = [data EXCEPT ![c][ix[c]] = new[c]]
        /\ sensors' = [sensors EXCEPT ![ix[c]] = new[c]] /\ serial' = serial
    BY <1>4 DEF Store
  <2>3. \A d \in Call : d # c => data'[d] = data[d] /\ at'[d] = at[d]
    BY <2>2
  <2>4. ASSUME serial, NEW d \in Call, d # c PROVE data'[d] = Empty
    BY <2>1, <2>3, <2>4
  <2>5. \A s \in Sensor : data'[c][s] = IF s = ix[c] THEN new[c] ELSE data[c][s]
    BY <2>1, <2>2
  <2>6. \A s \in Sensor : sensors'[s] = IF s = ix[c] THEN new[c] ELSE sensors[s]
    BY <2>1, <2>2
  <2>7. serial => \A d \in Call, s \in Sensor : data'[d][s] # None => data'[d][s] = sensors'[s]
    BY <2>4, <2>5, <2>6
  <2>8. \A d \in Call : at'[d] = "store" => d # c /\ ix'[d] = ix[d] /\ new'[d] = new[d]
    BY <1>4, <2>2 DEF Store
  <2>9. \A d \in Call : (at'[d] = "idle" => d # c /\ at[d] = "idle") /\ (at'[d] # "idle" => at[d] # "idle")
    BY <2>1, <2>2
  <2> QED BY <2>2, <2>3, <2>7, <2>8, <2>9
<1>5. ASSUME NEW c \in Call, Publish(c) \/ PublishLost(c) PROVE CallInv'
  <2>1. at' = [at EXCEPT ![c] = "mqtt"] /\ at[c] = "mqtt" /\ UNCHANGED <<sensors, new, data, serial>>
    BY <1>5 DEF Publish, PublishLost
  <2>2. \A d \in Call : d # c => ix'[d] = ix[d]
    BY <1>5 DEF Publish, PublishLost
  <2> QED BY <2>1, <2>2
<1>6. ASSUME NEW c \in Call, PublishStops(c) \/ Return(c) PROVE CallInv'
  <2>1. /\ at' = [at EXCEPT ![c] = "idle"] /\ data' = [data EXCEPT ![c] = Empty]
        /\ UNCHANGED <<sensors, new, serial>> /\ ix' = [ix EXCEPT ![c] = 1] /\ at[c] = "mqtt"
    BY <1>6 DEF PublishStops, Return
  <2> QED BY <2>1
<1>7. ASSUME NEW d \in Device, Registering(d) PROVE CallInv'
  BY <1>7 DEF Registering, Upsert, Announce, Unannounced, Announced
<1>8. CASE Restart
  BY <1>8 DEF Restart
<1>9. CASE UNCHANGED vars
  BY <1>9 DEF vars
<1> QED
  BY <1>1, <1>2, <1>3, <1>4, <1>5, <1>6, <1>7, <1>8, <1>9 DEF Next, Working

(* A step that leaves the values alone and keeps calls before their backend.  *)
LEMMA DbStable ==
    ASSUME DbInv, UNCHANGED <<serial, dbFails, sensors, db>>,
           \A c \in Call : BeforeDb(c) => BeforeDb(c)' /\ data'[c] = data[c]
    PROVE  DbInv'
BY DEF DbInv

LEMMA BrokerStable ==
    ASSUME BrokerInv, UNCHANGED <<serial, mqttFails, sensors, broker>>,
           \A c \in Call, s \in Sensor :
               BeforeBroker(c, s) => BeforeBroker(c, s)' /\ data'[c] = data[c]
    PROVE  BrokerInv'
BY DEF BrokerInv

(* Storing a value puts it into the batch as well.                            *)
LEMMA StoreFollows ==
    ASSUME Maps, CallInv, DbInv, BrokerInv, NEW c \in Call, Store(c)
    PROVE  DbInv' /\ BrokerInv'
<1>1. ix[c] \in Sensor /\ at[c] = "store" /\ at'[c] = "load"
  BY DEF Store, CallInv, Maps, Goto
<1>2. /\ sensors'[ix[c]] = new[c] /\ data'[c][ix[c]] = new[c]
      /\ \A s \in Sensor : s # ix[c] => sensors'[s] = sensors[s] /\ data'[c][s] = data[c][s]
  <2>1. sensors' = [sensors EXCEPT ![ix[c]] = new[c]] /\ data' = [data EXCEPT ![c][ix[c]] = new[c]]
    BY DEF Store
  <2>2. sensors'[ix[c]] = new[c] /\ \A s \in Sensor : s # ix[c] => sensors'[s] = sensors[s]
    BY <1>1, <2>1 DEF Maps
  <2>3. data'[c] = [data[c] EXCEPT ![ix[c]] = new[c]]
    BY <2>1 DEF Maps
  <2>4. data[c] = [s \in Sensor |-> data[c][s]]
    BY DEF Maps
  <2>5. data'[c][ix[c]] = new[c] /\ \A s \in Sensor : s # ix[c] => data'[c][s] = data[c][s]
    BY <1>1, <2>3, <2>4
  <2> QED BY <2>2, <2>5
<1>3. \A d \in Call : d # c => data'[d] = data[d] /\ at'[d] = at[d] /\ ix'[d] = ix[d]
  BY DEF Store, Maps, Goto
<1>4. UNCHANGED <<db, broker, serial, dbFails, mqttFails>>
  BY DEF Store, world
<1>5. BeforeDb(c) /\ BeforeDb(c)' /\ \A d \in Call : BeforeDb(d) => BeforeDb(d)'
  BY <1>1, <1>3 DEF BeforeDb
<1>6. \A d \in Call, s \in Sensor : BeforeBroker(d, s) => BeforeBroker(d, s)'
  BY <1>1, <1>3, <1>5 DEF BeforeBroker, BeforeDb
<1>7. BeforeDb(c)' /\ \A s \in Sensor : BeforeBroker(c, s)'
  BY <1>5 DEF BeforeBroker
<1>8. ASSUME NEW s \in Sensor, NEW d \in Call, data[d][s] = sensors[s], s # ix[c]
      PROVE  data'[d][s] = sensors'[s]
  <2>1. sensors'[s] = sensors[s] /\ (d = c => data'[d][s] = data[d][s])
    BY <1>2, <1>8
  <2>2. d # c => data'[d][s] = data[d][s]
    BY <1>3
  <2> QED BY <1>8, <2>1, <2>2
<1>9. DbInv'
  BY <1>2, <1>4, <1>5, <1>7, <1>8 DEF DbInv
<1>10. BrokerInv'
  BY <1>2, <1>4, <1>6, <1>7, <1>8 DEF BrokerInv
<1> QED BY <1>9, <1>10

LEMMA RowIsNotNone ==
    ASSUME NEW v \in Point, NEW b \in 1..MaxBoot
    PROVE  <<v, b>> # None
BY PublisherAssumption

(* The commit writes what the batch holds, the values last stored.            *)
LEMMA CommitFollows ==
    ASSUME Maps, CallInv, DbInv, BrokerInv, TypeOK', NEW c \in Call, Commit(c)
    PROVE  DbInv' /\ BrokerInv'
<1>1. \A s \in Sensor : db'[s] = IF data[c][s] = None THEN db[s] ELSE <<data[c][s], boot>>
  BY DEF Commit, Rows
<1>2. UNCHANGED <<serial, dbFails, mqttFails, sensors, broker, data>>
  BY DEF Commit, world
<1>3. \A d \in Call : d # c => at'[d] = at[d] /\ ix'[d] = ix[d]
  BY DEF Commit, Maps, Goto
<1>4. at[c] = "insert" /\ at'[c] = "mqtt" /\ ix'[c] = 1
  BY DEF Commit, Maps, Goto
<1>5. boot \in 1..MaxBoot /\ \A s \in Sensor : sensors[s] # None => sensors[s] \in Point
  BY <1>2 DEF Commit, world, TypeOK
<1>6. ASSUME serial, ~dbFails, NEW s \in Sensor, sensors[s] # None
      PROVE  \/ db'[s] # None /\ db'[s][1] = sensors[s]
             \/ \E d \in Call : BeforeDb(d)' /\ data[d][s] = sensors[s]
  <2>1. CASE data[c][s] = None
    <3>1. \A d \in Call : data[d][s] = sensors[s] => d # c
      BY <1>6, <2>1
    <3>2. \A d \in Call : BeforeDb(d) /\ d # c => BeforeDb(d)'
      BY <1>3 DEF BeforeDb
    <3> QED BY <1>1, <1>6, <2>1, <3>1, <3>2 DEF DbInv
  <2>2. CASE data[c][s] # None
    <3>1. db'[s] = <<sensors[s], boot>>
      BY <1>1, <1>6, <2>2 DEF CallInv
    <3>2. <<sensors[s], boot>> # None
      BY <1>5, <1>6, RowIsNotNone
    <3> QED BY <3>1, <3>2
  <2> QED BY <2>1, <2>2
<1>7. DbInv'
  BY <1>2, <1>6 DEF DbInv
<1>8. \A d \in Call, s \in Sensor : BeforeBroker(d, s) => BeforeBroker(d, s)'
  BY <1>3, <1>4 DEF BeforeBroker, BeforeDb, Sensor
<1>9. BrokerInv'
  BY <1>2, <1>8, BrokerStable
<1> QED BY <1>7, <1>9

(* A point that is published is what the batch, and thus the map, holds.      *)
LEMMA PublishFollows ==
    ASSUME Maps, CallInv, DbInv, BrokerInv, NEW c \in Call, Publish(c)
    PROVE  DbInv' /\ BrokerInv'
<1>1. UNCHANGED <<serial, dbFails, mqttFails, sensors, db, data>>
  BY DEF Publish, world
<1>2. \A d \in Call : d # c => at'[d] = at[d] /\ ix'[d] = ix[d]
  BY DEF Publish, Maps, Goto
<1>3. at[c] = "mqtt" /\ at'[c] = "mqtt" /\ ix'[c] = ix[c] + 1
  BY DEF Publish, Maps, Goto
<1>4. \A s \in Sensor : broker'[s] = IF s = ix[c] /\ data[c][s] # None THEN data[c][s] ELSE broker[s]
  BY DEF Publish, Maps
<1>5. \A d \in Call : BeforeDb(d) => BeforeDb(d)' /\ data'[d] = data[d]
  BY <1>1, <1>2, <1>3 DEF BeforeDb
<1>6. \A d \in Call, s \in Sensor : BeforeBroker(d, s) => BeforeBroker(d, s)' \/ (d = c /\ s = ix[c])
  BY <1>2, <1>3 DEF BeforeBroker, BeforeDb, Sensor, Maps
<1>7. ASSUME serial, mqttFails = "no", NEW s \in Sensor, sensors[s] # None
      PROVE  \/ broker'[s] = sensors[s]
             \/ \E d \in Call : BeforeBroker(d, s)' /\ data[d][s] = sensors[s]
  <2>1. CASE broker[s] = sensors[s]
    BY <1>4, <1>7, <2>1 DEF CallInv
  <2>2. CASE \E d \in Call : BeforeBroker(d, s) /\ data[d][s] = sensors[s]
    <3>1. PICK d \in Call : BeforeBroker(d, s) /\ data[d][s] = sensors[s]
      BY <2>2
    <3>2. CASE BeforeBroker(d, s)'
      BY <3>1, <3>2
    <3>3. CASE d = c /\ s = ix[c]
      BY <1>4, <1>7, <3>1, <3>3
    <3> QED BY <1>6, <3>1, <3>2, <3>3
  <2> QED BY <1>7, <2>1, <2>2 DEF BrokerInv
<1>8. BrokerInv'
  BY <1>1, <1>7 DEF BrokerInv
<1> QED BY <1>1, <1>5, <1>8, DbStable

(* From one step to the next a value is on its way to the database until the  *)
(* commit, and to the broker until its point is published.                    *)
LEMMA StepFollows ==
    ASSUME Maps, CallInv, DbInv, BrokerInv, TypeOK', [Next]_vars
    PROVE  DbInv' /\ BrokerInv'
<1>1. ASSUME NEW c \in Call, Start(c) \/ Skip(c) \/ Collected(c) \/ Insert(c)
      PROVE  DbInv' /\ BrokerInv'
  <2>1. UNCHANGED <<serial, dbFails, mqttFails, sensors, db, broker>>
    BY <1>1 DEF Start, Skip, Collected, Insert, store, world
  <2>2. \A d \in Call : BeforeDb(d) => BeforeDb(d)' /\ data'[d] = data[d]
    BY <1>1 DEF Start, Skip, Collected, Insert, BeforeDb, Maps, Goto
  <2>3. \A d \in Call, s \in Sensor : BeforeBroker(d, s) => BeforeBroker(d, s)' /\ data'[d] = data[d]
    BY <1>1, <2>2 DEF Start, Skip, Collected, Insert, BeforeBroker, BeforeDb, Maps, Goto
  <2> QED BY <2>1, <2>2, <2>3, DbStable, BrokerStable
<1>2. ASSUME NEW c \in Call, NEW raw \in Raw(ix[c]), Load(c, raw) PROVE DbInv' /\ BrokerInv'
  <2>1. UNCHANGED <<serial, dbFails, mqttFails, sensors, db, broker, data>>
    BY <1>2 DEF Load, store, world
  <2>2. /\ at[c] = "load" /\ at'[c] \in {"load", "store"}
        /\ \A d \in Call : d # c => at'[d] = at[d] /\ ix'[d] = ix[d]
    BY <1>2 DEF Load, Maps, Goto
  <2>3. \A d \in Call : BeforeDb(d) => BeforeDb(d)' /\ data'[d] = data[d]
    BY <2>1, <2>2 DEF BeforeDb
  <2>4. \A d \in Call, s \in Sensor : BeforeBroker(d, s) => BeforeBroker(d, s)' /\ data'[d] = data[d]
    BY <2>1, <2>2, <2>3 DEF BeforeBroker, BeforeDb
  <2> QED BY <2>1, <2>3, <2>4, DbStable, BrokerStable
<1>3. ASSUME NEW c \in Call, DbError(c) PROVE DbInv' /\ BrokerInv'
  <2>1. dbFails' /\ UNCHANGED <<serial, mqttFails, sensors, broker, data>>
    BY <1>3 DEF DbError, store, world
  <2>2. /\ at[c] = "insert" /\ at'[c] = "mqtt" /\ ix'[c] = 1
        /\ \A d \in Call : d # c => at'[d] = at[d] /\ ix'[d] = ix[d]
    BY <1>3 DEF DbError, Maps, Goto
  <2>3. \A d \in Call, s \in Sensor : BeforeBroker(d, s) => BeforeBroker(d, s)' /\ data'[d] = data[d]
    BY <2>1, <2>2 DEF BeforeBroker, BeforeDb, Sensor
  <2>4. DbInv'
    BY <2>1 DEF DbInv
  <2> QED BY <2>1, <2>3, <2>4, BrokerStable
<1>4. ASSUME NEW c \in Call, PublishLost(c) \/ PublishStops(c) PROVE DbInv' /\ BrokerInv'
  <2>1. mqttFails' # "no" /\ UNCHANGED <<serial, dbFails, sensors, db>>
    BY <1>4 DEF PublishLost, PublishStops, store, world
  <2>2. \A d \in Call : BeforeDb(d) => BeforeDb(d)' /\ data'[d] = data[d]
    BY <1>4 DEF PublishLost, PublishStops, BeforeDb, Maps, Goto, Finish
  <2>3. BrokerInv'
    BY <2>1 DEF BrokerInv
  <2> QED BY <2>1, <2>2, <2>3, DbStable
<1>5. ASSUME NEW c \in Call, Return(c) PROVE DbInv' /\ BrokerInv'
  <2>1. UNCHANGED <<serial, dbFails, mqttFails, sensors, db, broker>>
    BY <1>5 DEF Return, store, world
  <2>2. /\ at[c] = "mqtt" /\ ix[c] > NumSensors
        /\ \A d \in Call : d # c => at'[d] = at[d] /\ ix'[d] = ix[d] /\ data'[d] = data[d]
    BY <1>5 DEF Return, Maps, Goto, Finish
  <2>3. \A d \in Call : BeforeDb(d) => BeforeDb(d)' /\ data'[d] = data[d]
    BY <2>2 DEF BeforeDb
  <2>4. \A s \in Sensor : ~BeforeBroker(c, s)
    BY <2>2, PublisherAssumption DEF BeforeBroker, BeforeDb, Sensor, Maps
  <2>5. \A d \in Call, s \in Sensor : BeforeBroker(d, s) => BeforeBroker(d, s)' /\ data'[d] = data[d]
    BY <2>2, <2>4 DEF BeforeBroker, BeforeDb
  <2> QED BY <2>1, <2>3, <2>5, DbStable, BrokerStable
<1>6. ASSUME NEW d \in Device, Registering(d) PROVE DbInv' /\ BrokerInv'
  <2>1. UNCHANGED <<store, calls, serial, dbFails, mqttFails>>
    BY <1>6 DEF Registering, Upsert, Announce, Unannounced, Announced, world
  <2> QED BY <2>1 DEF DbInv, BrokerInv, BeforeDb, BeforeBroker, store, calls
<1>7. CASE Restart
  BY <1>7, EmptyIsNone DEF Restart, DbInv, BrokerInv
<1>8. CASE UNCHANGED vars
  BY <1>8 DEF vars, DbInv, BrokerInv, BeforeDb, BeforeBroker, store, calls, world
<1> QED
  BY <1>1, <1>2, <1>3, <1>4, <1>5, <1>6, <1>7, <1>8, StoreFollows, CommitFollows, PublishFollows
     DEF Next, Working

LEMMA PubInvariant == Spec => []PubInv
<1>1. PubInv /\ [Next]_vars => PubInv'
  BY StepTypes, StepCalls, StepFollows, TypesAreMaps DEF PubInv
<1> QED BY InitPubInv, <1>1, PTL DEF Spec

(* Types, for any sensors and any number of overlapping calls.                *)
THEOREM PublisherTypes == Spec => []TypeOK
BY PubInvariant, PTL DEF PubInv

(* If the database does not fail and calls take turns, a dropped value is in  *)
(* the database, whatever the broker does and however often the process ends. *)
THEOREM DatabaseKeepsUp == Spec => []DatabaseFollows
<1>1. PubInv => DatabaseFollows
  BY DEF PubInv, DbInv, DatabaseFollows, Idle, BeforeDb
<1> QED BY <1>1, PubInvariant, PTL

(* If the broker does not fail and calls take turns, it was given every       *)
(* dropped value, whatever the database does.                                 *)
THEOREM BrokerKeepsUp == Spec => []BrokerFollows
<1>1. PubInv => BrokerFollows
  BY DEF PubInv, BrokerInv, BrokerFollows, Idle, BeforeBroker, BeforeDb
<1> QED BY <1>1, PubInvariant, PTL

(* A device whose announcement is being waited for has been announced.        *)
AnnounceInv ==
    mqttFails # "error" =>
        configured \subseteq retained /\ \A d \in Device : reg[d] = "wait" => d \in retained

(* Unless the broker replies with errors, a device is passed over only if its *)
(* announcement is retained: a timeout leaves it to be announced again, and   *)
(* what is retained outlives the process that has forgotten it.               *)
THEOREM AnnouncementsHold == Spec => []PassedOverIsAnnounced
<1>1. Init => AnnounceInv
  BY DEF Init, AnnounceInv
<1>2. TypeOK /\ AnnounceInv /\ [Next]_vars => AnnounceInv'
  <2> SUFFICES ASSUME TypeOK, AnnounceInv, [Next]_vars PROVE AnnounceInv'
    OBVIOUS
  <2> USE DEF TypeOK, AnnounceInv
  <2>1. ASSUME NEW d \in Device, Registering(d) PROVE AnnounceInv'
    BY <2>1 DEF Registering, Upsert, Announce, Unannounced, Announced, RegTo, world
  <2>2. CASE Restart
    BY <2>2 DEF Restart
  <2>3. ASSUME NEW c \in Call, Start(c) \/ Working(c) PROVE AnnounceInv'
    <3>1. UNCHANGED <<announce, world>>
      BY <2>3 DEF Start, Working, Skip, Load, Store, Collected, Insert, Commit, DbError, Publish,
                  PublishLost, PublishStops, Return
    <3> QED BY <3>1 DEF announce, world
  <2>4. CASE UNCHANGED vars
    BY <2>4 DEF vars, announce, world
  <2> QED BY <2>1, <2>2, <2>3, <2>4 DEF Next
<1>3. AnnounceInv => PassedOverIsAnnounced
  BY DEF AnnounceInv, PassedOverIsAnnounced
<1> QED BY <1>1, <1>2, <1>3, PublisherTypes, PTL DEF Spec
-----------------------------------------------------------------------------
(* Only changes are written.                                                  *)

OldRow(s) == db[s] = None \/ db[s][2] < boot

(* What the map of last values says of the rows: a sensor that is not in it   *)
(* has no row of this process; one that is has its value in the last row or   *)
(* in the batch on its way there; and what a call has in its batch, or is     *)
(* about to put there, is not what the last row says.  A call goes through    *)
(* the sensors once.                                                          *)
RowsFollowMap ==
    /\ \A s \in Sensor : db[s] # None => db[s][2] <= boot
    /\ \A s \in Sensor : sensors[s] = None => OldRow(s)
    /\ \A s \in Sensor : sensors[s] # None =>
          \/ db[s] = <<sensors[s], boot>>
          \/ \E c \in Call : BeforeDb(c) /\ data[c][s] = sensors[s]

BatchIsNew ==
    /\ \A c \in Call, s \in Sensor :
          BeforeDb(c) /\ data[c][s] # None => db[s] # <<data[c][s], boot>>
    /\ \A c \in Call : at[c] = "store" => db[ix[c]] # <<new[c], boot>>
    /\ \A c \in Call, s \in Sensor :
          at[c] \in {"load", "store"} /\ s >= ix[c] => data[c][s] = None

ChangeInv == serial /\ ~dbFails => RowsFollowMap /\ BatchIsNew

LEMMA InitChangeInv == Init => ChangeInv
BY EmptyIsNone DEF Init, ChangeInv, RowsFollowMap, BatchIsNew, OldRow, BeforeDb

(* A step of calls that neither store nor commit.                             *)
LEMMA ChangeStable ==
    ASSUME Maps, ChangeInv, UNCHANGED <<serial, dbFails, sensors, db, boot>>,
           \A c \in Call : BeforeDb(c) => BeforeDb(c)' /\ data'[c] = data[c],
           \A c \in Call : BeforeDb(c)' => BeforeDb(c) \/ data'[c] = Empty,
           \A c \in Call : at'[c] = "store" => at[c] = "store" /\ ix'[c] = ix[c] /\ new'[c] = new[c],
           \A c \in Call : at'[c] \in {"load", "store"} =>
               \/ data'[c] = Empty
               \/ at[c] \in {"load", "store"} /\ ix'[c] \in Int /\ ix'[c] >= ix[c]
    PROVE  ChangeInv'
<1> SUFFICES ASSUME serial, ~dbFails PROVE RowsFollowMap' /\ BatchIsNew'
  BY DEF ChangeInv
<1>1. RowsFollowMap /\ BatchIsNew
  BY DEF ChangeInv
<1>2. RowsFollowMap'
  BY <1>1 DEF RowsFollowMap, OldRow
<1>3. ASSUME NEW c \in Call, NEW s \in Sensor, BeforeDb(c)', data'[c][s] # None
      PROVE  db'[s] # <<data'[c][s], boot'>>
  BY <1>1, <1>3, EmptyIsNone DEF BatchIsNew
<1>4. ASSUME NEW c \in Call, at'[c] = "store" PROVE db'[ix'[c]] # <<new'[c], boot'>>
  BY <1>1, <1>4 DEF BatchIsNew
<1>5. ASSUME NEW c \in Call, NEW s \in Sensor, at'[c] \in {"load", "store"}, s >= ix'[c]
      PROVE  data'[c][s] = None
  <2>1. CASE data'[c] = Empty
    BY <2>1, EmptyIsNone
  <2>2. CASE at[c] \in {"load", "store"} /\ ix'[c] \in Int /\ ix'[c] >= ix[c]
    <3>1. s >= ix[c]
      BY <1>5, <2>2, PublisherAssumption DEF Sensor, Maps
    <3>2. data'[c] = data[c]
      BY <2>2 DEF BeforeDb
    <3> QED BY <1>1, <2>2, <3>1, <3>2 DEF BatchIsNew
  <2> QED BY <1>5, <2>1, <2>2
<1> QED BY <1>2, <1>3, <1>4, <1>5 DEF BatchIsNew

(* A value that differs from the one in the map differs from the last row.    *)
LEMMA LoadIsNew ==
    ASSUME Maps, TypeOK, CallInv, ChangeInv, serial, ~dbFails,
           NEW c \in Call, NEW raw \in Raw(ix[c]), Load(c, raw),
           sensors[ix[c]] # Normalize(ix[c], raw)
    PROVE  db[ix[c]] # <<Normalize(ix[c], raw), boot>>
<1> DEFINE s == ix[c]
           v == Normalize(ix[c], raw)
<1>1. s \in Sensor /\ v \in Point /\ v # None /\ at[c] = "load"
  BY LoadedIsPoint DEF Maps, Load
<1>2. boot \in 1..MaxBoot /\ <<v, boot>> # None
  BY <1>1, RowIsNotNone DEF TypeOK
<1>3. CASE sensors[s] = None
  <2>1. OldRow(s)
    BY <1>1, <1>3 DEF ChangeInv, RowsFollowMap
  <2> QED BY <1>2, <2>1, Params DEF OldRow
<1>4. CASE sensors[s] # None
  <2>1. data[c][s] = None
    BY <1>1, Params DEF ChangeInv, BatchIsNew, Sensor
  <2>2. ASSUME NEW d \in Call, BeforeDb(d), data[d][s] = sensors[s] PROVE FALSE
    <3>1. d = c
      BY <1>1, <2>2 DEF CallInv, BeforeDb
    <3> QED BY <1>4, <2>1, <2>2, <3>1
  <2>3. db[s] = <<sensors[s], boot>>
    BY <1>1, <1>4, <2>2 DEF ChangeInv, RowsFollowMap
  <2> QED BY <2>3
<1> QED BY <1>3, <1>4

LEMMA LoadKeepsChange ==
    ASSUME Maps, TypeOK, CallInv, ChangeInv, NEW c \in Call, NEW raw \in Raw(ix[c]), Load(c, raw)
    PROVE  ChangeInv'
<1>1. UNCHANGED <<serial, dbFails, sensors, db, boot, data>> /\ at[c] = "load"
  BY DEF Load, store, world
<1>2. \A d \in Call : d # c => at'[d] = at[d] /\ ix'[d] = ix[d] /\ new'[d] = new[d]
  BY DEF Load, Maps, Goto
<1>3. CASE sensors[ix[c]] = Normalize(ix[c], raw)
  <2>1. at'[c] = "load" /\ ix'[c] = ix[c] + 1 /\ ix[c] \in Int
    BY <1>3 DEF Load, Maps, Goto
  <2> QED BY <1>1, <1>2, <2>1, ChangeStable DEF BeforeDb, Maps
<1>4. CASE sensors[ix[c]] # Normalize(ix[c], raw)
  <2> SUFFICES ASSUME serial, ~dbFails PROVE RowsFollowMap' /\ BatchIsNew'
    BY <1>1 DEF ChangeInv
  <2>1. at'[c] = "store" /\ ix'[c] = ix[c] /\ new'[c] = Normalize(ix[c], raw)
    BY <1>4 DEF Load, Maps, Goto
  <2>2. db[ix[c]] # <<new'[c], boot>>
    BY <1>4, <2>1, LoadIsNew
  <2>3. \A d \in Call : BeforeDb(d)' <=> BeforeDb(d)
    BY <1>1, <1>2, <2>1 DEF BeforeDb
  <2>4. RowsFollowMap'
    BY <1>1, <2>3 DEF ChangeInv, RowsFollowMap, OldRow
  <2>5. BatchIsNew'
    BY <1>1, <1>2, <2>1, <2>2, <2>3 DEF ChangeInv, BatchIsNew
  <2> QED BY <2>4, <2>5
<1> QED BY <1>3, <1>4

LEMMA StoreKeepsChange ==
    ASSUME Maps, TypeOK, CallInv, ChangeInv, NEW c \in Call, Store(c)
    PROVE  ChangeInv'
<1> SUFFICES ASSUME serial, ~dbFails PROVE RowsFollowMap' /\ BatchIsNew'
  BY DEF ChangeInv, Store, world
<1>1. /\ ix[c] \in Sensor /\ at[c] = "store" /\ at'[c] = "load" /\ ix'[c] = ix[c] + 1
      /\ new[c] # None
  BY DEF Store, CallInv, Maps, Goto
<1>2. UNCHANGED <<db, boot>>
  BY DEF Store, world
<1>3. \A d \in Call : d # c => at'[d] = at[d] /\ ix'[d] = ix[d] /\ new'[d] = new[d] /\ data'[d] = data[d]
  BY DEF Store, Maps, Goto
<1>4. /\ sensors' = [sensors EXCEPT ![ix[c]] = new[c]]
      /\ data' = [data EXCEPT ![c] = [data[c] EXCEPT ![ix[c]] = new[c]]]
  BY DEF Store
<1>5. /\ \A s \in Sensor : sensors'[s] = IF s = ix[c] THEN new[c] ELSE sensors[s]
      /\ \A s \in Sensor : data'[c][s] = IF s = ix[c] THEN new[c] ELSE data[c][s]
  <2>1. \A s \in Sensor : sensors'[s] = IF s = ix[c] THEN new[c] ELSE sensors[s]
    BY <1>1, <1>4 DEF Maps
  <2>2. data'[c] = [data[c] EXCEPT ![ix[c]] = new[c]]
    BY <1>4 DEF Maps
  <2>3. data[c] = [s \in Sensor |-> data[c][s]]
    BY DEF Maps
  <2> QED BY <1>1, <2>1, <2>2, <2>3
<1>6. \A d \in Call : BeforeDb(d)' <=> BeforeDb(d)
  BY <1>1, <1>3 DEF BeforeDb
<1>7. BeforeDb(c)
  BY <1>1 DEF BeforeDb
<1>8. ASSUME NEW s \in Sensor, sensors'[s] # None
      PROVE  \/ db'[s] = <<sensors'[s], boot'>>
             \/ \E d \in Call : BeforeDb(d)' /\ data'[d][s] = sensors'[s]
  <2>1. CASE s = ix[c]
    BY <1>5, <1>6, <1>7, <2>1
  <2>2. CASE s # ix[c]
    <3>1. sensors'[s] = sensors[s]
      BY <1>5, <2>2
    <3>2. \A d \in Call : data[d][s] = sensors[s] => data'[d][s] = sensors[s]
      BY <1>3, <1>5, <2>2
    <3> QED BY <1>2, <1>6, <1>8, <3>1, <3>2 DEF ChangeInv, RowsFollowMap
  <2> QED BY <2>1, <2>2
<1>9. RowsFollowMap'
  BY <1>1, <1>2, <1>5, <1>8 DEF ChangeInv, RowsFollowMap, OldRow
<1>10. ASSUME NEW d \in Call, NEW s \in Sensor, BeforeDb(d)', data'[d][s] # None
       PROVE  db'[s] # <<data'[d][s], boot'>>
  BY <1>1, <1>2, <1>3, <1>5, <1>6, <1>10 DEF ChangeInv, BatchIsNew
<1>11. ASSUME NEW d \in Call, at'[d] = "store" PROVE db'[ix'[d]] # <<new'[d], boot'>>
  BY <1>1, <1>2, <1>3, <1>11 DEF ChangeInv, BatchIsNew
<1>12. ASSUME NEW d \in Call, NEW s \in Sensor, at'[d] \in {"load", "store"}, s >= ix'[d]
       PROVE  data'[d][s] = None
  <2>1. CASE d = c
    <3>1. s # ix[c] /\ s >= ix[c]
      BY <1>1, <1>12, <2>1, Params DEF Sensor
    <3> QED BY <1>1, <1>5, <2>1, <3>1 DEF ChangeInv, BatchIsNew
  <2>2. CASE d # c
    BY <1>3, <1>12, <2>2 DEF ChangeInv, BatchIsNew
  <2> QED BY <2>1, <2>2
<1> QED BY <1>9, <1>10, <1>11, <1>12 DEF BatchIsNew

LEMMA CommitKeepsChange ==
    ASSUME Maps, TypeOK, CallInv, ChangeInv, NEW c \in Call, Commit(c)
    PROVE  ChangeInv'
<1> SUFFICES ASSUME serial, ~dbFails PROVE RowsFollowMap' /\ BatchIsNew'
  BY DEF ChangeInv, Commit, world
<1>1. \A s \in Sensor : db'[s] = IF data[c][s] = None THEN db[s] ELSE <<data[c][s], boot>>
  BY DEF Commit, Rows
<1>2. UNCHANGED <<sensors, data, boot>> /\ boot \in Nat
  BY Params DEF Commit, world, TypeOK
<1>3. at[c] = "insert" /\ at'[c] = "mqtt" /\ \A d \in Call : d # c => at'[d] = at[d]
  BY DEF Commit, Maps, Goto
<1>4. \A d \in Call : at'[d] \in {"idle", "mqtt"}
  BY <1>3 DEF CallInv
<1>5. \A s \in Sensor : data[c][s] # None => data[c][s] = sensors[s]
  BY DEF CallInv
<1>6. ASSUME NEW s \in Sensor, sensors[s] # None PROVE db'[s] = <<sensors[s], boot>>
  <2>1. CASE data[c][s] # None
    BY <1>1, <1>5, <2>1
  <2>2. CASE data[c][s] = None
    <3>1. \A d \in Call : BeforeDb(d) => d = c
      BY <1>3 DEF CallInv, BeforeDb
    <3> QED BY <1>1, <1>6, <2>2, <3>1 DEF ChangeInv, RowsFollowMap
  <2> QED BY <2>1, <2>2
<1>7. RowsFollowMap'
  <2>1. ASSUME NEW s \in Sensor, sensors[s] = None PROVE db'[s] = db[s]
    BY <1>1, <1>5, <2>1
  <2>2. ASSUME NEW s \in Sensor, db'[s] # None PROVE db'[s][2] <= boot
    BY <1>2, <1>6, <2>1, <2>2 DEF ChangeInv, RowsFollowMap
  <2> QED BY <1>2, <1>6, <2>1, <2>2 DEF ChangeInv, RowsFollowMap, OldRow
<1> QED BY <1>4, <1>7 DEF BatchIsNew, BeforeDb

LEMMA RestartKeepsChange ==
    ASSUME TypeOK, ChangeInv, Restart
    PROVE  ChangeInv'
<1>1. ASSUME NEW s \in Sensor, db[s] # None PROVE db[s][2] \in Nat
  BY <1>1, Params DEF TypeOK
<1>2. boot' = boot + 1 /\ boot \in Nat /\ sensors' = Empty /\ UNCHANGED <<db, serial, dbFails>>
  BY Params DEF Restart, TypeOK
<1>3. serial /\ ~dbFails => RowsFollowMap'
  BY <1>1, <1>2, EmptyIsNone DEF ChangeInv, RowsFollowMap, OldRow
<1>4. BatchIsNew'
  BY DEF Restart, BatchIsNew, BeforeDb
<1> QED BY <1>2, <1>3, <1>4 DEF ChangeInv

LEMMA StepKeepsChange ==
    ASSUME Maps, TypeOK, CallInv, ChangeInv, [Next]_vars
    PROVE  ChangeInv'
<1>1. ASSUME NEW c \in Call,
             Start(c) \/ Skip(c) \/ Collected(c) \/ Insert(c) \/ Publish(c) \/ PublishLost(c)
      PROVE  ChangeInv'
  <2>1. UNCHANGED <<serial, dbFails, sensors, db, boot, new, data>>
    BY <1>1 DEF Start, Skip, Collected, Insert, Publish, PublishLost, store, world
  <2>2. \A d \in Call : d # c => at'[d] = at[d] /\ ix'[d] = ix[d]
    BY <1>1 DEF Start, Skip, Collected, Insert, Publish, PublishLost, Maps, Goto
  <2>3. /\ BeforeDb(c) => BeforeDb(c)'
        /\ BeforeDb(c)' => BeforeDb(c) \/ at[c] = "idle"
        /\ at'[c] # "store"
        /\ at'[c] = "load" => at[c] = "idle" \/ (at[c] = "load" /\ ix'[c] \in Int /\ ix'[c] >= ix[c])
    BY <1>1 DEF Start, Skip, Collected, Insert, Publish, PublishLost, Maps, Goto, BeforeDb
  <2>4. at[c] = "idle" => data'[c] = Empty
    BY <2>1 DEF CallInv
  <2> QED BY <2>1, <2>2, <2>3, <2>4, ChangeStable DEF BeforeDb, Maps
<1>2. ASSUME NEW c \in Call, PublishStops(c) \/ Return(c) PROVE ChangeInv'
  <2>1. UNCHANGED <<serial, dbFails, sensors, db, boot, new>>
    BY <1>2 DEF PublishStops, Return, store, world
  <2>2. at[c] = "mqtt" /\ at'[c] = "idle"
    BY <1>2 DEF PublishStops, Return, Maps, Goto, Finish
  <2>3. \A d \in Call : d # c => at'[d] = at[d] /\ ix'[d] = ix[d] /\ data'[d] = data[d]
    BY <1>2 DEF PublishStops, Return, Maps, Goto, Finish
  <2> QED BY <2>1, <2>2, <2>3, ChangeStable DEF BeforeDb, Maps
<1>3. ASSUME NEW c \in Call, DbError(c) PROVE ChangeInv'
  BY <1>3 DEF DbError, ChangeInv, world
<1>4. ASSUME NEW d \in Device, Registering(d) PROVE ChangeInv'
  <2>1. UNCHANGED <<store, calls, serial, dbFails, boot>>
    BY <1>4 DEF Registering, Upsert, Announce, Unannounced, Announced, world
  <2> QED BY <2>1 DEF ChangeInv, RowsFollowMap, BatchIsNew, OldRow, BeforeDb, store, calls
<1>5. CASE UNCHANGED vars
  BY <1>5 DEF vars, ChangeInv, RowsFollowMap, BatchIsNew, OldRow, BeforeDb, store, calls, world
<1> QED
  BY <1>1, <1>2, <1>3, <1>4, <1>5, LoadKeepsChange, StoreKeepsChange, CommitKeepsChange,
     RestartKeepsChange
  DEF Next, Working

(* If calls take turns and the database does not fail, a row is only written  *)
(* when its value differs from the last one this process wrote of the sensor, *)
(* however often the process was restarted (publisher.go, shouldUpdate).      *)
THEOREM WritesOnlyChanges == Spec => OnlyChangesWritten
<1>1. ChangeInv /\ PubInv /\ [Next]_vars => ChangeInv'
  BY StepKeepsChange, TypesAreMaps DEF PubInv
<1>2. ChangeInv /\ [Next]_vars
        => [serial /\ ~dbFails => \A c \in Call : at[c] = "insert" /\ at'[c] = "mqtt" =>
              \A s \in Sensor : data[c][s] # None => db[s] # <<data[c][s], boot>>]_vars
  BY DEF ChangeInv, BatchIsNew, BeforeDb
<1> QED BY InitChangeInv, <1>1, <1>2, PubInvariant, PTL DEF Spec, OnlyChangesWritten
=============================================================================
