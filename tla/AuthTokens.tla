----------------------------- MODULE AuthTokens -----------------------------
(* Refresh tokens (internal/pkg/auth/auth.go): each is kept in a cache in     *)
(* memory and in the table refresh_tokens.  Login stores it in both, Refresh  *)
(* exchanges it for an access token and, after a restart, brings it back from *)
(* the table, Logout deletes it from both, and an hourly cleanup evicts those *)
(* that have expired.  Every access of the cache and every statement of the   *)
(* database is a step; errors of the database are ignored by all but the read *)
(* of Refresh.                                                                *)
EXTENDS Naturals

CONSTANTS Token,    \* refresh tokens that are ever generated
          Request,  \* requests in progress
          None

ASSUME TokenAssumption == None \notin Token

VARIABLES
    cache, table,  \* tokens in s.tokens, in refresh_tokens
    made,          \* tokens generated so far: GenerateToken does not repeat one
    held,          \* tokens a client got by Login
    expired,       \* tokens whose expiresAt is in the past
    left,          \* tokens that Logout was called with
    revoked,       \* those of them that a Logout has deleted from the table
    at, tok,       \* at[r]: where request r is; tok[r]: its token
    sweep, due,    \* where the cleanup is, and what it has yet to evict
    takeTurns,     \* requests with one token take turns, as those of one client do
    dbFails        \* the database may fail

memory == <<cache, at, tok, sweep, due>>
clients == <<made, held, expired, left, revoked>>
assumed == <<takeTurns, dbFails>>
tokenVars == <<memory, table, clients, assumed>>

TokenInit ==
    /\ cache = {} /\ table = {}
    /\ made = {} /\ held = {} /\ expired = {} /\ left = {} /\ revoked = {}
    /\ at = [r \in Request |-> "idle"] /\ tok = [r \in Request |-> None]
    /\ sweep = "idle" /\ due = {}
    /\ takeTurns \in BOOLEAN /\ dbFails \in BOOLEAN

To(r, pc) == at' = [at EXCEPT ![r] = pc]

Begin(r, t, pc) ==
    /\ at[r] = "idle"
    /\ takeTurns => \A q \in Request : tok[q] # t
    /\ To(r, pc) /\ tok' = [tok EXCEPT ![r] = t]

End(r) == To(r, "idle") /\ tok' = [tok EXCEPT ![r] = None]

(* A statement that inserts or deletes rows; its error is ignored.            *)
Write(rows) == table' = rows \/ (dbFails /\ UNCHANGED table)
-----------------------------------------------------------------------------
(* Login, from where the password was found correct on.                       *)
Login(r, t) ==
    /\ t \notin made
    /\ Begin(r, t, "login")
    /\ made' = made \cup {t}
    /\ UNCHANGED <<cache, sweep, due, table, held, expired, left, revoked, assumed>>

LoginCaches(r) ==
    /\ at[r] = "login"
    /\ cache' = cache \cup {tok[r]}
    /\ To(r, "insert")
    /\ UNCHANGED <<tok, sweep, due, table, clients, assumed>>

(* Not the code: the token is kept in memory only, as first planned.          *)
LoginStores_Not(r) ==
    /\ at[r] = "insert"
    /\ \/ held' = held \cup {tok[r]}
       \/ UNCHANGED held
    /\ End(r)
    /\ UNCHANGED <<cache, table, sweep, due, made, expired, left, revoked, assumed>>

(* The client has the token unless the request timed out meanwhile.           *)
LoginStores(r) ==
    /\ at[r] = "insert"
    /\ Write(table \cup {tok[r]})
    /\ \/ held' = held \cup {tok[r]}
       \/ UNCHANGED held
    /\ End(r)
    /\ UNCHANGED <<cache, sweep, due, made, expired, left, revoked, assumed>>

(* Refresh.  A client may keep using a token it has logged out with.          *)
Refresh(r, t) ==
    /\ t \in held
    /\ Begin(r, t, "load")
    /\ UNCHANGED <<cache, sweep, due, table, clients, assumed>>

Load(r) ==
    /\ at[r] = "load"
    /\ To(r, IF tok[r] \notin cache THEN "read"
             ELSE IF tok[r] \in expired THEN "evict" ELSE "granted")
    /\ UNCHANGED <<cache, tok, sweep, due, table, clients, assumed>>

Evict(r) ==
    /\ at[r] = "evict"
    /\ cache' = cache \ {tok[r]}
    /\ To(r, "delete")
    /\ UNCHANGED <<tok, sweep, due, table, clients, assumed>>

Read(r) ==
    /\ at[r] = "read"
    /\ \/ To(r, IF tok[r] \notin table THEN "refused"
                ELSE IF tok[r] \in expired THEN "delete" ELSE "cache")
       \/ dbFails /\ To(r, "refused")
    /\ UNCHANGED <<cache, tok, sweep, due, table, clients, assumed>>

Populate(r) ==
    /\ at[r] = "cache"
    /\ cache' = cache \cup {tok[r]}
    /\ To(r, "granted")
    /\ UNCHANGED <<tok, sweep, due, table, clients, assumed>>

Delete(r) ==
    /\ at[r] = "delete"
    /\ Write(table \ {tok[r]})
    /\ To(r, "refused")
    /\ UNCHANGED <<cache, tok, sweep, due, clients, assumed>>

(* The answer is written: an access token, or 401.                            *)
Answer(r) ==
    /\ at[r] \in {"granted", "refused"}
    /\ End(r)
    /\ UNCHANGED <<cache, sweep, due, table, clients, assumed>>

Logout(r, t) ==
    /\ t \in held
    /\ Begin(r, t, "drop")
    /\ left' = left \cup {t}
    /\ UNCHANGED <<cache, sweep, due, table, made, held, expired, revoked, assumed>>

(* Not the code: the token is deleted from the table only.                    *)
LogoutDrops_Not(r) ==
    /\ at[r] = "drop"
    /\ To(r, "erase")
    /\ UNCHANGED <<cache, tok, sweep, due, table, clients, assumed>>

LogoutDrops(r) ==
    /\ at[r] = "drop"
    /\ cache' = cache \ {tok[r]}
    /\ To(r, "erase")
    /\ UNCHANGED <<tok, sweep, due, table, clients, assumed>>

LogoutErases(r) ==
    /\ at[r] = "erase"
    /\ \/ table' = table \ {tok[r]} /\ revoked' = revoked \cup {tok[r]}
       \/ dbFails /\ UNCHANGED <<table, revoked>>
    /\ End(r)
    /\ UNCHANGED <<cache, sweep, due, made, held, expired, left, assumed>>
-----------------------------------------------------------------------------
(* Time passes; a token lives far longer than the request that made it.       *)
Expire(t) ==
    /\ t \in made \ expired
    /\ \A r \in Request : tok[r] = t => at[r] \notin {"login", "insert"}
    /\ expired' = expired \cup {t}
    /\ UNCHANGED <<memory, table, made, held, left, revoked, assumed>>

(* StartCleanup: a tick.  Range sees what is in the cache now and may or may  *)
(* not see what comes into it meanwhile.                                      *)
Tick ==
    /\ sweep = "idle"
    /\ sweep' = "range"
    /\ \E late \in SUBSET (expired \ cache) : due' = (expired \cap cache) \cup late
    /\ UNCHANGED <<cache, at, tok, table, clients, assumed>>

SweepCache(t) ==
    /\ sweep = "range" /\ t \in due
    /\ cache' = cache \ {t} /\ due' = due \ {t}
    /\ UNCHANGED <<at, tok, sweep, table, clients, assumed>>

(* Not the code: the rows are left for Refresh to find.                       *)
SweepTable_Not ==
    /\ sweep = "range" /\ due = {}
    /\ sweep' = "idle"
    /\ UNCHANGED <<cache, table, at, tok, due, clients, assumed>>

SweepTable ==
    /\ sweep = "range" /\ due = {}
    /\ Write(table \ expired)
    /\ sweep' = "idle"
    /\ UNCHANGED <<cache, at, tok, due, clients, assumed>>

(* The process ends; what is in memory is lost, requests included.            *)
Forget ==
    /\ cache' = {} /\ sweep' = "idle" /\ due' = {}
    /\ at' = [r \in Request |-> "idle"] /\ tok' = [r \in Request |-> None]
    /\ UNCHANGED <<table, clients, assumed>>

Cleanup == Tick \/ SweepTable \/ \E t \in Token : SweepCache(t)

Handle(r) ==
    \/ LoginCaches(r) \/ LoginStores(r)
    \/ Load(r) \/ Evict(r) \/ Read(r) \/ Populate(r) \/ Delete(r) \/ Answer(r)
    \/ LogoutDrops(r) \/ LogoutErases(r)

TokenNext ==
    \/ \E r \in Request : Handle(r) \/ \E t \in Token : Login(r, t) \/ Refresh(r, t) \/ Logout(r, t)
    \/ Cleanup
    \/ \E t \in Token : Expire(t)
-----------------------------------------------------------------------------
TokenTypeOK ==
    /\ cache \subseteq made /\ table \subseteq made /\ made \subseteq Token
    /\ held \subseteq made /\ expired \subseteq made /\ left \subseteq held
    /\ revoked \subseteq left
    /\ at \in [Request -> {"idle", "login", "insert", "load", "evict", "read", "cache",
                           "delete", "granted", "refused", "drop", "erase"}]
    /\ tok \in [Request -> made \cup {None}]
    /\ sweep \in {"idle", "range"} /\ due \subseteq expired
    /\ takeTurns \in BOOLEAN /\ dbFails \in BOOLEAN

(* A token whose Logout has reached the table is in neither place and will    *)
(* not be brought back by the cleanup, a restart or a request still running,  *)
(* if the requests of its client take turns (auth.go:163).                    *)
LogoutSticks == takeTurns => revoked \cap (cache \cup table) = {}

(* A client is sent back to the login only if its token has expired, it has   *)
(* called Logout with it or the database has failed, though the process may   *)
(* have been restarted meanwhile (developer.md:279, "stored in PostgreSQL").  *)
RefusedForAReason ==
    \A r \in Request : at[r] = "refused" => dbFails \/ tok[r] \in expired \cup left

(* An expired token leaves the cache and, if the database does not fail, the  *)
(* table, also if a Refresh brings it back to the cache after a sweep.        *)
ExpiredGoes == \A t \in Token : t \in expired ~> t \notin cache /\ (dbFails \/ t \notin table)
=============================================================================
