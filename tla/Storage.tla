------------------------------ MODULE Storage -------------------------------
(* The process and its database: a start migrates the schema, then the auth   *)
(* service answers requests until the process ends and is started again with  *)
(* an empty memory (cmd.go Run, restart: unless-stopped).                     *)
EXTENDS AuthTokens, Migration

storageVars == <<tokenVars, migVars>>

Init == TokenInit /\ MigInit

(* Not the code: the services are started while the schema is being migrated. *)
Answers_Early == boot # "down" /\ TokenNext /\ UNCHANGED migVars

(* The services are started once setupDatabase has returned.                  *)
Answers == boot = "up" /\ TokenNext /\ UNCHANGED migVars

Starts == (Start \/ Migrate) /\ UNCHANGED tokenVars

Quits == Stop /\ Forget

Next == Answers \/ Starts \/ Quits

(* The process is started again (docker-compose.app.yml), goes on with what   *)
(* it has begun, and its ticker ticks.                                        *)
Fairness ==
    /\ WF_storageVars(Starts)
    /\ WF_storageVars(boot = "up" /\ Cleanup /\ UNCHANGED migVars)
    /\ \A r \in Request : WF_storageVars(boot = "up" /\ Handle(r) /\ UNCHANGED migVars)

Spec == Init /\ [][Next]_storageVars /\ Fairness
-----------------------------------------------------------------------------
TypeOK == TokenTypeOK /\ MigTypeOK

(* Requests are only answered with the whole schema: no token is looked up in *)
(* a table that is not there yet (cmd.go:93).                                 *)
ServedWhole ==
    (\E r \in Request : at[r] # "idle") =>
        \A f \in File : f \in recorded /\ ran[f] = NumStatements[f]

(* The process comes up again after each end of it, unless the end has left a *)
(* file half applied, which nothing but a hand can mend.                      *)
ComesUp == []<>(boot = "up") \/ <>[]HalfApplied
=============================================================================
