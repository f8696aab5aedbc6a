------------------------------ MODULE ApiAccess ------------------------------
(***************************************************************************)
(* Who may call what: the API-key middleware (app/middleware.py), the role *)
(* gate of the routers (app/auth.py), the handlers that create and delete  *)
(* keys (app/api/v1/api_keys.py) and the operator's script                 *)
(* (scripts/create_api_key.py).  Requests are served concurrently; each is *)
(* cut where it reads or writes the api_key table, so a key may be deleted *)
(* at any point of a request that presents it.                             *)
(*                                                                         *)
(* A raw key is drawn at random and never drawn again; its row stores a    *)
(* prefix of its digest, which other keys may share, and a salted hash     *)
(* that only that key verifies.                                            *)
(***************************************************************************)
EXTENDS Naturals, FiniteSets

CONSTANTS
    Keys,       \* raw keys, each with the api_key row made for it
    NoKey,      \* no X-API-Key header and no bearer token
    KeyPrefix,  \* KeyPrefix[k]: key_prefix of k
    Clients     \* requests in service at the same time

ASSUME AccessAssumption ==
    /\ NoKey \notin Keys
    /\ DOMAIN KeyPrefix = Keys

Roles == {"admin", "reviewer"}

\* The routers: the api-keys router's operations by themselves, every other
\* admin router as "admin", the review queue and the leaderboard as "review",
\* the health, metrics and documentation paths as "exempt".
Exempt == {"exempt"}
KeyRoutes == {"create_key", "delete_key"}
Routes == KeyRoutes \cup Exempt \cup {"admin", "review"}

\* Mutated form: the key handlers are mounted on a router of both roles.
AllowedWide(route) == IF route = "admin" THEN {"admin"} ELSE Roles

\* require_role(...) of each router.
Allowed(route) == IF route = "review" THEN Roles ELSE {"admin"}

VARIABLES
    issued,     \* role of the row made for each key, "none" before
    revoked,    \* keys whose row was deleted
    stage,      \* where each request is
    route,      \* what it asks for
    presented,  \* the key it presents
    subject,    \* the key a delete_key request names
    candidates, \* the rows _authenticate selected
    context,    \* request.state.auth: the key it was found to present
    answer,     \* its status code
    arrival     \* history: the row of its key when it arrived

keyVars == <<issued, revoked>>
avars == <<issued, revoked, stage, route, presented, subject, candidates, context,
           answer, arrival>>

Stages == {"idle", "lookup", "admit", "handle", "refresh", "delete", "answered"}
Answers == {"none", "ok", "401", "403", "404", "500"}
Live == {k \in Keys : issued[k] # "none" /\ k \notin revoked}

\* The types of the api_key rows and of the requests (app/models/api_key.py,
\* middleware.py): only issued rows are deleted, a request that is looked up
\* carries a key, and a request that works on a row names it.
AccessTypeOK ==
    /\ issued \in [Keys -> Roles \cup {"none"}]
    /\ revoked \subseteq {k \in Keys : issued[k] # "none"}
    /\ stage \in [Clients -> Stages]
    /\ route \in [Clients -> Routes]
    /\ presented \in [Clients -> Keys \cup {NoKey}]
    /\ subject \in [Clients -> Keys \cup {NoKey}]
    /\ candidates \in [Clients -> SUBSET Keys]
    /\ context \in [Clients -> Keys \cup {NoKey}]
    /\ answer \in [Clients -> Answers]
    /\ arrival \in [Clients -> {"unknown", "live", "revoked"}]
    /\ \A c \in Clients :
        /\ stage[c] \in {"lookup", "admit"} => presented[c] \in Keys
        /\ \/ stage[c] \in {"refresh", "delete"}
           \/ stage[c] \in {"lookup", "admit", "handle"} /\ route[c] = "delete_key"
           => subject[c] \in Keys

AccessInit ==
    /\ issued = [k \in Keys |-> "none"]
    /\ revoked = {}
    /\ stage = [c \in Clients |-> "idle"]
    /\ route = [c \in Clients |-> "exempt"]
    /\ presented = [c \in Clients |-> NoKey]
    /\ subject = [c \in Clients |-> NoKey]
    /\ candidates = [c \in Clients |-> {}]
    /\ context = [c \in Clients |-> NoKey]
    /\ answer = [c \in Clients |-> "none"]
    /\ arrival = [c \in Clients |-> "unknown"]

-----------------------------------------------------------------------------
(* The middleware *)

\* The answer is sent; the request's local variables are dead from here on.
Answer(c, code) ==
    /\ stage' = [stage EXCEPT ![c] = "answered"]
    /\ answer' = [answer EXCEPT ![c] = code]
    /\ candidates' = [candidates EXCEPT ![c] = {}]
    /\ context' = [context EXCEPT ![c] = NoKey]
    /\ subject' = [subject EXCEPT ![c] = NoKey]
    /\ UNCHANGED <<route, presented, arrival>>

RowOf(k) ==
    IF k \in revoked THEN "revoked" ELSE IF k \in Live THEN "live" ELSE "unknown"

\* The bound on keys: a create_key request arrives only while one of Keys is
\* left for it.
KeyLeft ==
    Cardinality({k \in Keys : issued[k] = "none"}) >
    Cardinality({c \in Clients :
        route[c] = "create_key" /\ stage[c] \in {"lookup", "admit", "handle"}})

\* Mutated form: a request without a key is let through to the lookup.
ArriveKeyless(c, r, k, s) ==
    /\ stage[c] \in {"idle", "answered"}
    /\ (r = "delete_key") <=> (s # NoKey)
    /\ r = "create_key" => KeyLeft
    /\ route' = [route EXCEPT ![c] = r]
    /\ presented' = [presented EXCEPT ![c] = k]
    /\ arrival' = [arrival EXCEPT ![c] = RowOf(k)]
    /\ stage' = [stage EXCEPT ![c] = IF r \in Exempt THEN "handle" ELSE "lookup"]
    /\ answer' = [answer EXCEPT ![c] = "none"]
    /\ subject' = [subject EXCEPT ![c] = s]
    /\ UNCHANGED <<keyVars, candidates, context>>

\* dispatch up to its first await: exempt paths go on without a key, other
\* requests need one.
Arrive(c, r, k, s) ==
    /\ stage[c] \in {"idle", "answered"}
    /\ (r = "delete_key") <=> (s # NoKey)
    /\ r = "create_key" => KeyLeft
    /\ route' = [route EXCEPT ![c] = r]
    /\ presented' = [presented EXCEPT ![c] = k]
    /\ arrival' = [arrival EXCEPT ![c] = RowOf(k)]
    /\ IF r \notin Exempt /\ k = NoKey
       THEN /\ stage' = [stage EXCEPT ![c] = "answered"]
            /\ answer' = [answer EXCEPT ![c] = "401"]
            /\ UNCHANGED subject
       ELSE /\ stage' = [stage EXCEPT ![c] = IF r \in Exempt THEN "handle" ELSE "lookup"]
            /\ answer' = [answer EXCEPT ![c] = "none"]
            /\ subject' = [subject EXCEPT ![c] = s]
    /\ UNCHANGED <<keyVars, candidates, context>>

\* Mutated form: the rows come from a cache that no deletion reaches.
LookupCached(c) ==
    /\ stage[c] = "lookup"
    /\ stage' = [stage EXCEPT ![c] = "admit"]
    /\ candidates' = [candidates EXCEPT ![c] =
          {k \in Keys : issued[k] # "none" /\ KeyPrefix[k] = KeyPrefix[presented[c]]}]
    /\ UNCHANGED <<keyVars, route, presented, subject, context, answer, arrival>>

\* The SELECT of _authenticate, by prefix.
Lookup(c) ==
    /\ stage[c] = "lookup"
    /\ stage' = [stage EXCEPT ![c] = "admit"]
    /\ candidates' = [candidates EXCEPT ![c] =
          {k \in Live : KeyPrefix[k] = KeyPrefix[presented[c]]}]
    /\ UNCHANGED <<keyVars, route, presented, subject, context, answer, arrival>>

\* Mutated forms: any row with the prefix will do; only one row is tried.
MatchesPrefixOnly(k, S) == S
MatchesFirstOnly(k, S) == {j \in S \cap {k} : j = CHOOSE first \in S : TRUE}

\* verify_api_key over the candidates.
Matches(k, S) == S \cap {k}

\* The rest of _authenticate and the router's require_role, which touch no
\* store: 401 without a verified row, 403 for a role the router does not list.
Admit(c) ==
    /\ stage[c] = "admit"
    /\ LET found == Matches(presented[c], candidates[c])
       IN  \/ found = {} /\ Answer(c, "401")
           \/ \E k \in found :
                /\ issued[k] \notin Allowed(route[c])
                /\ Answer(c, "403")
           \/ \E k \in found :
                /\ issued[k] \in Allowed(route[c])
                /\ stage' = [stage EXCEPT ![c] = "handle"]
                /\ context' = [context EXCEPT ![c] = k]
                /\ candidates' = [candidates EXCEPT ![c] = {}]
                /\ UNCHANGED <<route, presented, subject, answer, arrival>>
    /\ UNCHANGED keyVars

-----------------------------------------------------------------------------
(* The handlers *)

\* Every handler that does not touch api_key.
Handle(c) ==
    /\ stage[c] = "handle"
    /\ route[c] \notin KeyRoutes
    /\ Answer(c, "ok")
    /\ UNCHANGED keyVars

Issue(k, role) ==
    /\ issued[k] = "none"
    /\ issued' = [issued EXCEPT ![k] = role]
    /\ UNCHANGED revoked

\* The INSERT and its commit; the response is built after a refresh.
CreateApiKey(c) ==
    /\ stage[c] = "handle"
    /\ route[c] = "create_key"
    /\ \E k \in Keys, role \in Roles :
        /\ Issue(k, role)
        /\ subject' = [subject EXCEPT ![c] = k]
    /\ stage' = [stage EXCEPT ![c] = "refresh"]
    /\ UNCHANGED <<route, presented, candidates, context, answer, arrival>>

\* session.refresh raises when another admin has deleted the row meanwhile.
CreateRefresh(c) ==
    /\ stage[c] = "refresh"
    /\ Answer(c, IF subject[c] \in Live THEN "ok" ELSE "500")
    /\ UNCHANGED keyVars

\* session.get, and 404 when the row is not there.
DeleteApiKey(c) ==
    /\ stage[c] = "handle"
    /\ route[c] = "delete_key"
    /\ IF subject[c] \in Live
       THEN /\ stage' = [stage EXCEPT ![c] = "delete"]
            /\ UNCHANGED <<route, presented, subject, candidates, context, answer, arrival>>
       ELSE Answer(c, "404")
    /\ UNCHANGED keyVars

\* The DELETE by primary key and its commit; deleting a row another request
\* has deleted since is not an error.
DeleteCommit(c) ==
    /\ stage[c] = "delete"
    /\ revoked' = revoked \cup {subject[c]}
    /\ Answer(c, "ok")
    /\ UNCHANGED issued

\* scripts/create_api_key.py, run by an operator with access to the database.
OperatorCreates ==
    /\ KeyLeft
    /\ \E k \in Keys, role \in Roles : Issue(k, role)
    /\ UNCHANGED <<stage, route, presented, subject, candidates, context, answer, arrival>>

-----------------------------------------------------------------------------
Serve(c) ==
    \/ Lookup(c) \/ Admit(c) \/ Handle(c) \/ CreateApiKey(c) \/ CreateRefresh(c)
    \/ DeleteApiKey(c) \/ DeleteCommit(c)

Arrives(c) ==
    \E r \in Routes, k \in Keys \cup {NoKey}, s \in Keys \cup {NoKey} : Arrive(c, r, k, s)

AccessNext == OperatorCreates \/ \E c \in Clients : Arrives(c) \/ Serve(c)

AccessSpec == AccessInit /\ [][AccessNext]_avars

-----------------------------------------------------------------------------
InHandler(c) == stage[c] \in {"handle", "refresh", "delete"} /\ route[c] \notin Exempt

\* A handler runs only for a key that was issued with a role its router
\* lists, whatever other keys share its prefix: a reviewer's key never reaches
\* an admin handler (middleware.py, require_role).
OnlyAuthorised ==
    \A c \in Clients : InHandler(c) =>
        presented[c] \in Keys /\ issued[presented[c]] \in Allowed(route[c])

\* Deleting a key takes effect at once: a request that arrives after the
\* deletion was committed reaches no handler.  (One that was past the SELECT
\* of _authenticate is still served.)
RevokedStaysOut ==
    \A c \in Clients : InHandler(c) => arrival[c] # "revoked"

\* A key that was valid from the arrival of a request to its answer is never
\* turned away as invalid, and only for its role as forbidden.
LiveKeyAccepted ==
    \A c \in Clients : stage[c] = "answered" /\ arrival[c] = "live" =>
        /\ answer[c] = "401" => presented[c] \in revoked
        /\ answer[c] = "403" => issued[presented[c]] \notin Allowed(route[c])

KeyChangeStep ==
    /\ \A k \in Keys : issued'[k] # issued[k] =>
        \/ OperatorCreates
        \/ \E c \in Clients :
              InHandler(c) /\ route[c] = "create_key" /\ issued[presented[c]] = "admin"
    /\ \A k \in revoked' \ revoked : \E c \in Clients :
        InHandler(c) /\ subject[c] = k /\ issued[presented[c]] = "admin"
    /\ revoked \subseteq revoked'

\* Keys are issued and revoked by admins only, or issued by the operator's
\* script: no sequence of requests gives a reviewer a say in it, and a revoked
\* key never comes back (api_keys.py).
KeysChangedByAdmins == [][KeyChangeStep]_avars
=============================================================================
