--------------------------- MODULE Storage_proofs ---------------------------
(* Theorems about tokens and migrations, for any tokens, requests, files,     *)
(* statements and ends of the process.                                        *)
EXTENDS Storage, TLAPS

Logging == {"login", "insert"}      \* the token is not with a client yet
Leaving == {"drop", "erase"}

(* What a request knows of its token.                                         *)
RequestInv ==
    \A r \in Request :
        /\ at[r] = "idle" => tok[r] = None
        /\ at[r] # "idle" => tok[r] \in made
        /\ at[r] \in Logging => tok[r] \notin held /\ \A q \in Request : q # r => tok[q] # tok[r]
        /\ at[r] \notin Logging \cup {"idle"} => tok[r] \in held
        /\ at[r] \in {"evict", "delete"} => tok[r] \in expired
        /\ at[r] \in Leaving => tok[r] \in left

(* A token that a client may still use is in the table.                       *)
UsableStored == dbFails \/ held \subseteq table \cup expired \cup left

(* If requests with one token take turns, nothing is about to bring a revoked *)
(* token back.                                                                *)
TurnsInv ==
    takeTurns =>
        /\ \A q, r \in Request : q # r /\ at[r] # "idle" => tok[q] # tok[r]
        /\ \A r \in Request : /\ at[r] = "cache" => tok[r] \notin revoked
                              /\ at[r] = "erase" => tok[r] \notin cache

TokenInv ==
    TokenTypeOK /\ RequestInv /\ UsableStored /\ TurnsInv /\ LogoutSticks /\ RefusedForAReason

LEMMA TokenStarts == TokenInit => TokenInv
BY DEF TokenInit, TokenInv, TokenTypeOK, RequestInv, UsableStored, TurnsInv, LogoutSticks,
       RefusedForAReason, Logging, Leaving

LEMMA TokenForget == TokenInv /\ Forget => TokenInv'
BY DEF Forget, clients, assumed, TokenInv, TokenTypeOK, RequestInv, UsableStored, TurnsInv,
       LogoutSticks, RefusedForAReason, Logging, Leaving

LEMMA TokenStill == TokenInv /\ UNCHANGED tokenVars => TokenInv'
BY DEF tokenVars, memory, clients, assumed, TokenInv, TokenTypeOK, RequestInv, UsableStored,
       TurnsInv, LogoutSticks, RefusedForAReason, Logging, Leaving

LEMMA TokenStep ==
    ASSUME TokenInv, TokenNext
    PROVE  TokenInv'
<1> USE TokenAssumption DEF TokenInv, TokenTypeOK, memory, clients, assumed, To
<1>1. ASSUME NEW r \in Request, NEW t \in Token, Login(r, t) PROVE TokenInv'
  BY <1>1 DEF Login, Begin, RequestInv, UsableStored, TurnsInv, LogoutSticks, RefusedForAReason,
              Logging, Leaving
<1>2. ASSUME NEW r \in Request, NEW t \in Token, Refresh(r, t) \/ Logout(r, t) PROVE TokenInv'
  BY <1>2 DEF Refresh, Logout, Begin, RequestInv, UsableStored, TurnsInv, LogoutSticks,
              RefusedForAReason, Logging, Leaving
<1>3. ASSUME NEW r \in Request, LoginCaches(r) PROVE TokenInv'
  BY <1>3 DEF LoginCaches, RequestInv, UsableStored, TurnsInv, LogoutSticks, RefusedForAReason,
              Logging, Leaving
<1>4. ASSUME NEW r \in Request, LoginStores(r) PROVE TokenInv'
  BY <1>4 DEF LoginStores, Write, End, RequestInv, UsableStored, TurnsInv, LogoutSticks,
              RefusedForAReason, Logging, Leaving
<1>5. ASSUME NEW r \in Request, Load(r) \/ Read(r) \/ Evict(r) \/ Populate(r) PROVE TokenInv'
  BY <1>5 DEF Load, Read, Evict, Populate, RequestInv, UsableStored, TurnsInv, LogoutSticks,
              RefusedForAReason, Logging, Leaving
<1>6. ASSUME NEW r \in Request, Delete(r) \/ Answer(r) PROVE TokenInv'
  BY <1>6 DEF Delete, Answer, Write, End, RequestInv, UsableStored, TurnsInv, LogoutSticks,
              RefusedForAReason, Logging, Leaving
<1>7. ASSUME NEW r \in Request, LogoutDrops(r) \/ LogoutErases(r) PROVE TokenInv'
  BY <1>7 DEF LogoutDrops, LogoutErases, End, RequestInv, UsableStored, TurnsInv, LogoutSticks,
              RefusedForAReason, Logging, Leaving
<1>8. CASE Cleanup
  BY <1>8 DEF Cleanup, Tick, SweepCache, SweepTable, Write, RequestInv, UsableStored, TurnsInv,
              LogoutSticks, RefusedForAReason, Logging, Leaving
<1>9. ASSUME NEW t \in Token, Expire(t) PROVE TokenInv'
  BY <1>9 DEF Expire, RequestInv, UsableStored, TurnsInv, LogoutSticks, RefusedForAReason,
              Logging, Leaving
<1> QED
  BY <1>1, <1>2, <1>3, <1>4, <1>5, <1>6, <1>7, <1>8, <1>9 DEF TokenNext, Handle
-----------------------------------------------------------------------------
(* Where a start is, and what it has recorded by then.                        *)
BootInv ==
    /\ boot # "down" => \A g \in 1..(file - 1) : g \in recorded
    /\ boot = "check" => st = 1
    /\ boot = "down" => file = 1 /\ st = 1
    /\ boot = "apply" => file \notin recorded /\ st <= ran[file] + 1
    /\ boot = "up" => file = NumFiles + 1

MigInv == MigTypeOK /\ BootInv /\ RecordedIsApplied

LEMMA MigFacts ==
    /\ NumFiles \in Nat /\ MaxFaults \in Nat /\ 1 \in 1..(NumFiles + 1)
    /\ \A f \in File : NumStatements[f] \in Nat /\ NumStatements[f] > 0 /\ f \in Nat
BY MigrationAssumption DEF File

LEMMA MigStarts == MigInit => MigInv
<1> SUFFICES ASSUME MigInit PROVE MigInv
  OBVIOUS
<1>1. MigTypeOK
  <2>1. ran \in [File -> Nat] /\ \A f \in File : ran[f] <= NumStatements[f]
    BY MigFacts DEF MigInit
  <2>2. faults \in 0..MaxFaults /\ file \in 1..(NumFiles + 1) /\ st \in Nat \ {0}
    BY MigFacts DEF MigInit
  <2> QED BY <2>1, <2>2 DEF MigInit, MigTypeOK
<1>2. BootInv /\ RecordedIsApplied
  BY DEF MigInit, BootInv, RecordedIsApplied
<1> QED BY <1>1, <1>2 DEF MigInv

LEMMA MigStill == MigInv /\ UNCHANGED migVars => MigInv'
BY DEF migVars, schema, MigInv, MigTypeOK, BootInv, RecordedIsApplied

(* A step that leaves the schema alone.                                       *)
LEMMA SchemaStill ==
    ASSUME RecordedIsApplied, UNCHANGED schema
    PROVE  RecordedIsApplied'
BY DEF RecordedIsApplied, schema

LEMMA MigStep ==
    ASSUME MigInv, Start \/ Migrate \/ Stop
    PROVE  MigInv'
<1> USE MigFacts DEF MigInv, MigTypeOK, BootInv, Ends
<1>1. CASE Start \/ Serve
  <2>1. file \in 1..(NumFiles + 1) /\ (file \notin File => file = NumFiles + 1)
    BY DEF File
  <2>2. MigTypeOK'
    BY <1>1 DEF Start, Serve, schema
  <2>3. BootInv'
    <3>1. CASE Serve
      BY <2>1, <3>1 DEF Serve, schema
    <3>2. CASE Start
      <4>1. file = 1 /\ st = 1
        BY <3>2 DEF Start
      <4> QED BY <3>2, <4>1 DEF Start, schema
    <3> QED BY <1>1, <3>1, <3>2
  <2>4. RecordedIsApplied'
    BY <1>1, SchemaStill DEF Start, Serve
  <2> QED BY <2>2, <2>3, <2>4
<1>2. CASE Refuse \/ Repeat \/ Stop
  <2>1. boot' = "down" /\ file' = 1 /\ st' = 1 /\ UNCHANGED schema
        /\ faults' \in 0..MaxFaults
    BY <1>2 DEF Refuse, Repeat, Stop
  <2>2. MigTypeOK'
    BY <2>1 DEF schema
  <2>3. BootInv'
    BY <2>1
  <2>4. RecordedIsApplied'
    BY <2>1, SchemaStill
  <2> QED BY <2>2, <2>3, <2>4
<1>3. CASE PassOver
  <2>1. file \in File /\ file' = file + 1 /\ UNCHANGED <<schema, boot, st, faults>>
    BY <1>3 DEF PassOver
  <2>2. file' \in 1..(NumFiles + 1)
    BY <2>1 DEF File
  <2>3. MigTypeOK'
    BY <1>3, <2>1, <2>2 DEF PassOver, schema
  <2>4. \A g \in 1..(file' - 1) : g \in 1..(file - 1) \/ g = file
    BY <2>1 DEF File
  <2>5. BootInv'
    BY <1>3, <2>1, <2>4 DEF PassOver, schema
  <2>6. RecordedIsApplied'
    BY <2>1, SchemaStill
  <2> QED BY <2>3, <2>5, <2>6
<1>4. CASE Open
  <2>1. /\ file \in File /\ file \notin recorded /\ boot = "check" /\ boot' = "apply"
        /\ dirty' \in BOOLEAN /\ UNCHANGED <<driver, recorded, ran, file, st, faults>>
    BY <1>4 DEF Open
  <2>2. MigTypeOK'
    BY <2>1
  <2>3. BootInv'
    BY <2>1
  <2>4. RecordedIsApplied'
    BY <2>1 DEF RecordedIsApplied
  <2> QED BY <2>2, <2>3, <2>4
<1>5. CASE Execute
  <2>1. /\ file \in File /\ boot = "apply" /\ st = ran[file] + 1 /\ st <= NumStatements[file]
        /\ ran' = [ran EXCEPT ![file] = ran'[file]] /\ st' = ran'[file] + 1
        /\ ran'[file] \in {st, NumStatements[file]}
        /\ UNCHANGED <<driver, recorded, dirty, boot, file, faults>>
    BY <1>5 DEF Execute
  <2>2. ran'[file] \in Nat /\ ran'[file] <= NumStatements[file]
    BY <2>1
  <2>3. MigTypeOK'
    BY <2>1, <2>2
  <2>4. BootInv'
    BY <2>1, <2>2
  <2>5. RecordedIsApplied'
    BY <2>1 DEF RecordedIsApplied
  <2> QED BY <2>3, <2>4, <2>5
<1>6. CASE Record
  <2>1. /\ file \in File /\ boot = "apply" /\ boot' = "check" /\ st > NumStatements[file]
        /\ recorded' = recorded \cup {file} /\ dirty' = FALSE
        /\ file' = file + 1 /\ st' = 1 /\ UNCHANGED <<driver, ran, faults>>
    BY <1>6 DEF Record
  <2>2. ran[file] = NumStatements[file]
    BY <2>1
  <2>3. file' \in 1..(NumFiles + 1) /\ \A g \in 1..(file' - 1) : g \in 1..(file - 1) \/ g = file
    BY <2>1 DEF File
  <2>4. recorded' \subseteq File /\ st' \in Nat \ {0}
    BY <2>1
  <2>5. MigTypeOK'
    BY <2>1, <2>3, <2>4
  <2>6. BootInv'
    BY <2>1, <2>3
  <2>7. RecordedIsApplied'
    BY <2>1, <2>2 DEF RecordedIsApplied
  <2> QED BY <2>5, <2>6, <2>7
<1> QED BY <1>1, <1>2, <1>3, <1>4, <1>5, <1>6 DEF Migrate
-----------------------------------------------------------------------------
(* Both, and that requests are only in progress while the process serves.     *)
StorageInv ==
    /\ TokenInv /\ MigInv
    /\ boot # "up" => \A r \in Request : at[r] = "idle"

LEMMA StorageInvariant == Spec => []StorageInv
<1>1. Init => StorageInv
  BY TokenStarts, MigStarts DEF Init, StorageInv, TokenInit
<1>2. StorageInv /\ [Next]_storageVars => StorageInv'
  <2> SUFFICES ASSUME StorageInv, [Next]_storageVars PROVE StorageInv'
    OBVIOUS
  <2>1. CASE Answers
    <3>1. TokenInv' /\ MigInv'
      BY <2>1, TokenStep, MigStill DEF Answers, StorageInv
    <3> QED BY <2>1, <3>1 DEF Answers, StorageInv, migVars
  <2>2. CASE Starts
    <3>1. TokenInv' /\ MigInv'
      BY <2>2, TokenStill, MigStep DEF Starts, StorageInv
    <3>2. boot # "up" /\ UNCHANGED at
      BY <2>2 DEF Starts, Start, Migrate, Refuse, PassOver, Open, Serve, Execute, Repeat, Record,
                  tokenVars, memory
    <3> QED BY <3>1, <3>2 DEF StorageInv
  <2>3. CASE Quits
    <3>1. TokenInv' /\ MigInv'
      BY <2>3, TokenForget, MigStep DEF Quits, StorageInv
    <3> QED BY <2>3, <3>1 DEF Quits, Forget, StorageInv
  <2>4. CASE UNCHANGED storageVars
    BY <2>4, TokenStill, MigStill DEF storageVars, StorageInv, tokenVars, memory, migVars
  <2> QED BY <2>1, <2>2, <2>3, <2>4 DEF Next
<1> QED BY <1>1, <1>2, PTL DEF Spec

(* The variables of both keep to their types.                                 *)
THEOREM StorageTypes == Spec => []TypeOK
<1>1. StorageInv => TypeOK
  BY DEF StorageInv, TokenInv, MigInv, TypeOK
<1> QED BY <1>1, StorageInvariant, PTL

(* If the requests of a client take turns, a logged-out token stays out,      *)
(* through cleanups, expiry and restarts.                                     *)
THEOREM LogoutAlwaysSticks == Spec => []LogoutSticks
<1>1. StorageInv => LogoutSticks
  BY DEF StorageInv, TokenInv
<1> QED BY <1>1, StorageInvariant, PTL

(* A client keeps its session until it expires or is logged out, if the       *)
(* database does not fail.                                                    *)
THEOREM SessionsLast == Spec => []RefusedForAReason
<1>1. StorageInv => RefusedForAReason
  BY DEF StorageInv, TokenInv
<1> QED BY <1>1, StorageInvariant, PTL

(* However often a migration is interrupted, no version is recorded whose     *)
(* statements have not all been executed after those of the earlier ones.     *)
THEOREM RecordsAreTrue == Spec => []RecordedIsApplied
<1>1. StorageInv => RecordedIsApplied
  BY DEF StorageInv, MigInv
<1> QED BY <1>1, StorageInvariant, PTL

(* No request meets a schema that is not complete.                            *)
THEOREM AlwaysServedWhole == Spec => []ServedWhole
<1>1. StorageInv => ServedWhole
  BY MigrationAssumption
     DEF StorageInv, MigInv, MigTypeOK, BootInv, RecordedIsApplied, ServedWhole, File
<1> QED BY <1>1, StorageInvariant, PTL
=============================================================================
