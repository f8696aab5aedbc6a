--------------------------- MODULE ApiAccessProofs ---------------------------
(***************************************************************************)
(* Proofs about ApiAccess for any number of keys, however they share their *)
(* prefixes, and any number of concurrent requests.  The api_key table     *)
(* only grows in two senses: a row keeps its role, and a deleted row stays *)
(* deleted.  Everything a request has learnt about its key survives the    *)
(* steps of the others for that reason (KeysGrow).                         *)
(***************************************************************************)
EXTENDS ApiAccess, TLAPS

\* What every step leaves of the rows.
KeysGrow ==
    /\ \A k \in Keys : issued[k] # "none" => issued'[k] = issued[k]
    /\ revoked \subseteq revoked'

\* What the middleware has established about the request c.
Established(c) ==
    /\ arrival[c] = "revoked" => presented[c] \in revoked
    /\ arrival[c] = "live" => presented[c] \in Keys /\ issued[presented[c]] # "none"
    /\ stage[c] \in {"refresh", "delete"} => issued[subject[c]] # "none"
    /\ stage[c] = "refresh" => route[c] = "create_key"
    /\ stage[c] = "delete" => route[c] = "delete_key"
    /\ stage[c] = "admit" =>
        /\ \A k \in candidates[c] : issued[k] # "none"
        /\ arrival[c] = "revoked" => presented[c] \notin candidates[c]
        /\ arrival[c] = "live" => presented[c] \in candidates[c] \cup revoked
    /\ InHandler(c) =>
        /\ presented[c] \in Keys
        /\ issued[presented[c]] \in Allowed(route[c])
        /\ arrival[c] # "revoked"
    /\ stage[c] = "answered" /\ arrival[c] = "live" =>
        /\ answer[c] = "401" => presented[c] \in revoked
        /\ answer[c] = "403" => issued[presented[c]] \notin Allowed(route[c])

AccessInv == AccessTypeOK /\ \A c \in Clients : Established(c)

\* The request c is left as it is.
SameRequest(c) ==
    /\ stage'[c] = stage[c] /\ route'[c] = route[c] /\ presented'[c] = presented[c]
    /\ subject'[c] = subject[c] /\ candidates'[c] = candidates[c]
    /\ answer'[c] = answer[c] /\ arrival'[c] = arrival[c]

\* No role of a router is the mark of a key that was never issued.
LEMMA AllowedRoles == \A r : Allowed(r) \subseteq Roles
BY DEF Allowed, Roles

\* The first state of the middleware: no key, no request.
LEMMA InvInit == AccessInit => AccessInv
<1> SUFFICES ASSUME AccessInit PROVE AccessInv
    OBVIOUS
<1> USE AccessAssumption DEF AccessInit
<1>1. AccessTypeOK
    BY DEF AccessTypeOK, Roles, Stages, Routes, KeyRoutes, Exempt, Answers
<1>2. ASSUME NEW c \in Clients PROVE Established(c)
    BY DEF Established, InHandler
<1> QED BY <1>1, <1>2 DEF AccessInv

\* What is established about a request survives every step that leaves it alone.
LEMMA OtherRequests ==
    ASSUME AccessTypeOK, KeysGrow, NEW c \in Clients, Established(c), SameRequest(c),
           revoked' \subseteq Keys
    PROVE  Established(c)'
<1>1. presented[c] \in Keys /\ issued[presented[c]] # "none" =>
        issued'[presented[c]] = issued[presented[c]]
    BY DEF KeysGrow
<1>2. stage[c] \in {"refresh", "delete"} =>
        subject[c] \in Keys /\ issued'[subject[c]] = issued[subject[c]]
    BY DEF KeysGrow, Established, AccessTypeOK
<1>3. InHandler(c) => issued[presented[c]] # "none"
    BY AllowedRoles DEF Established, Roles
<1>4. stage[c] = "admit" => \A k \in candidates[c] : issued'[k] # "none"
    BY DEF KeysGrow, Established, AccessTypeOK
<1>5. InHandler(c)' <=> InHandler(c)
    BY DEF InHandler, SameRequest
<1> QED BY <1>1, <1>2, <1>3, <1>4, <1>5 DEF Established, SameRequest, KeysGrow

\* The rows under each action of a request and of the operator's script.
LEMMA RowsGrow ==
    ASSUME AccessInv, [AccessNext]_avars
    PROVE  KeysGrow
<1> USE DEF KeysGrow, keyVars
<1>1. CASE OperatorCreates
    BY <1>1 DEF OperatorCreates, Issue, AccessInv, AccessTypeOK
<1>2. CASE \E c \in Clients : Arrives(c) \/ Serve(c)
    <2> PICK c \in Clients : Arrives(c) \/ Serve(c)
        BY <1>2
    <2>1. CASE Arrives(c)
        BY <2>1 DEF Arrives, Arrive
    <2>2. CASE Lookup(c) \/ Admit(c) \/ Handle(c) \/ CreateRefresh(c) \/ DeleteApiKey(c)
        BY <2>2 DEF Lookup, Admit, Handle, CreateRefresh, DeleteApiKey
    <2>3. CASE CreateApiKey(c)
        BY <2>3 DEF CreateApiKey, Issue, AccessInv, AccessTypeOK
    <2>4. CASE DeleteCommit(c)
        BY <2>4 DEF DeleteCommit
    <2> QED BY <2>1, <2>2, <2>3, <2>4 DEF Serve
<1>3. CASE UNCHANGED avars
    BY <1>3 DEF avars
<1> QED BY <1>1, <1>2, <1>3 DEF AccessNext

\* A step of the request c: the others are left alone, and c's own step
\* establishes what its next stage needs.
LEMMA RequestStep ==
    ASSUME AccessInv, KeysGrow, NEW c \in Clients, Arrives(c) \/ Serve(c)
    PROVE  AccessInv'
<1> USE AccessAssumption
<1>t. AccessTypeOK /\ Established(c)
    BY DEF AccessInv
<1>o. ASSUME AccessTypeOK', \A d \in Clients \ {c} : SameRequest(d), Established(c)'
      PROVE  AccessInv'
    <2>1. revoked' \subseteq Keys
        BY <1>o DEF AccessTypeOK
    <2>2. ASSUME NEW d \in Clients \ {c} PROVE Established(d)'
        BY <1>o, <2>1, OtherRequests DEF AccessInv
    <2> QED BY <1>o, <2>2 DEF AccessInv
<1>1. CASE Arrives(c)
    <2> PICK r \in Routes, k \in Keys \cup {NoKey}, s \in Keys \cup {NoKey} :
            Arrive(c, r, k, s)
        BY <1>1 DEF Arrives
    <2> USE <1>t DEF Arrive, keyVars
    <2>1. AccessTypeOK'
        BY DEF AccessTypeOK, RowOf, Stages, Answers, Exempt, Live
    <2>2. \A d \in Clients \ {c} : SameRequest(d)
        BY DEF SameRequest, AccessTypeOK
    <2>3. Established(c)'
        BY DEF Established, InHandler, RowOf, Live, AccessTypeOK, Exempt
    <2> QED BY <2>1, <2>2, <2>3, <1>o
<1>2. CASE Lookup(c)
    <2> USE <1>t, <1>2 DEF Lookup, keyVars
    <2>1. AccessTypeOK'
        BY DEF AccessTypeOK, Stages, Live
    <2>2. \A d \in Clients \ {c} : SameRequest(d)
        BY DEF SameRequest, AccessTypeOK
    <2>3. Established(c)'
        BY DEF Established, InHandler, Live, AccessTypeOK
    <2> QED BY <2>1, <2>2, <2>3, <1>o
<1>3. CASE Admit(c)
    <2> USE <1>t, <1>3 DEF Admit, keyVars, Matches
    <2>1. AccessTypeOK'
        BY DEF AccessTypeOK, Stages, Answers, Answer
    <2>2. \A d \in Clients \ {c} : SameRequest(d)
        BY DEF SameRequest, AccessTypeOK, Answer
    <2>3. Established(c)'
        BY DEF Established, InHandler, AccessTypeOK, Answer
    <2> QED BY <2>1, <2>2, <2>3, <1>o
<1>4. CASE Handle(c) \/ CreateRefresh(c) \/ DeleteApiKey(c)
    <2> USE <1>t, <1>4 DEF Handle, CreateRefresh, DeleteApiKey, keyVars
    <2>1. AccessTypeOK'
        BY DEF AccessTypeOK, Stages, Answers, Answer
    <2>2. \A d \in Clients \ {c} : SameRequest(d)
        BY DEF SameRequest, AccessTypeOK, Answer
    <2>3. Established(c)'
        BY DEF Established, InHandler, AccessTypeOK, Answer, Exempt, Live
    <2> QED BY <2>1, <2>2, <2>3, <1>o
<1>5. CASE CreateApiKey(c)
    <2> USE <1>t, <1>5 DEF CreateApiKey, Issue
    <2>1. AccessTypeOK'
        BY DEF AccessTypeOK, Stages, Roles
    <2>2. \A d \in Clients \ {c} : SameRequest(d)
        BY DEF SameRequest, AccessTypeOK
    <2>3. Established(c)'
        BY AllowedRoles DEF Established, InHandler, AccessTypeOK, Roles, Exempt
    <2> QED BY <2>1, <2>2, <2>3, <1>o
<1>6. CASE DeleteCommit(c)
    <2> USE <1>t, <1>6 DEF DeleteCommit
    <2>1. AccessTypeOK'
        BY DEF AccessTypeOK, Established, Stages, Answers, Answer
    <2>2. \A d \in Clients \ {c} : SameRequest(d)
        BY DEF SameRequest, AccessTypeOK, Answer
    <2>3. Established(c)'
        BY DEF Established, InHandler, AccessTypeOK, Answer
    <2> QED BY <2>1, <2>2, <2>3, <1>o
<1> QED BY <1>1, <1>2, <1>3, <1>4, <1>5, <1>6 DEF Serve

\* The invariant of the middleware is inductive.
LEMMA InvStep == AccessInv /\ [AccessNext]_avars => AccessInv'
<1> SUFFICES ASSUME AccessInv, [AccessNext]_avars PROVE AccessInv'
    OBVIOUS
<1>g. KeysGrow
    BY RowsGrow
<1>1. CASE OperatorCreates
    <2>1. AccessTypeOK'
        BY <1>1 DEF OperatorCreates, Issue, AccessInv, AccessTypeOK, Roles
    <2>2. ASSUME NEW c \in Clients PROVE Established(c)'
        <3>1. SameRequest(c)
            BY <1>1 DEF OperatorCreates, SameRequest
        <3>2. revoked' \subseteq Keys
            BY <2>1 DEF AccessTypeOK
        <3> QED BY <1>g, <3>1, <3>2, OtherRequests DEF AccessInv
    <2> QED BY <2>1, <2>2 DEF AccessInv
<1>2. CASE \E c \in Clients : Arrives(c) \/ Serve(c)
    BY <1>2, <1>g, RequestStep
<1>3. CASE UNCHANGED avars
    BY <1>3 DEF avars, AccessInv, AccessTypeOK, Established, InHandler
<1> QED BY <1>1, <1>2, <1>3 DEF AccessNext

\* Every reachable state of the middleware satisfies its invariant.
LEMMA Inductive == AccessSpec => []AccessInv
BY InvInit, InvStep, PTL DEF AccessSpec

\* Types of the key table and of the requests: no request is looked up without
\* a key, only issued rows are deleted.
THEOREM AccessTypeCorrect == AccessSpec => []AccessTypeOK
BY Inductive, PTL DEF AccessInv

\* Whatever prefixes collide and whatever is issued or deleted meanwhile, a
\* handler runs only for a key of a role its router lists.
THEOREM OnlyAuthorisedSafe == AccessSpec => []OnlyAuthorised
<1>1. AccessInv => OnlyAuthorised
    BY DEF AccessInv, Established, OnlyAuthorised
<1> QED BY <1>1, Inductive, PTL

\* A request that arrives after its key was deleted reaches no handler.
THEOREM RevokedOutSafe == AccessSpec => []RevokedStaysOut
<1>1. AccessInv => RevokedStaysOut
    BY DEF AccessInv, Established, RevokedStaysOut
<1> QED BY <1>1, Inductive, PTL

\* A key that stays valid is never refused as invalid.
THEOREM LiveKeySafe == AccessSpec => []LiveKeyAccepted
<1>1. AccessInv => LiveKeyAccepted
    BY DEF AccessInv, Established, LiveKeyAccepted
<1> QED BY <1>1, Inductive, PTL

\* Only admins' requests and the operator's script change the key table.
THEOREM KeysByAdminsSafe == AccessSpec => KeysChangedByAdmins
<1>1. ASSUME AccessInv, [AccessNext]_avars PROVE [KeyChangeStep]_avars
    <2> SUFFICES ASSUME AccessNext PROVE KeyChangeStep
        BY <1>1
    <2>g. revoked \subseteq revoked'
        BY <1>1, RowsGrow DEF KeysGrow
    <2>1. CASE OperatorCreates
        BY <2>1, <2>g DEF OperatorCreates, Issue, KeyChangeStep
    <2>2. CASE \E c \in Clients : Arrives(c) \/ Serve(c)
        <3> PICK c \in Clients : Arrives(c) \/ Serve(c)
            BY <2>2
        <3>1. Established(c)
            BY <1>1 DEF AccessInv
        <3>2. CASE CreateApiKey(c)
            <4>1. InHandler(c) /\ route[c] = "create_key" /\ issued[presented[c]] = "admin"
                BY <3>1, <3>2 DEF CreateApiKey, InHandler, Exempt, Established, Allowed
            <4>2. revoked' = revoked
                BY <3>2 DEF CreateApiKey, Issue
            <4> QED BY <4>1, <4>2 DEF KeyChangeStep
        <3>3. CASE DeleteCommit(c)
            <4>1. InHandler(c) /\ issued[presented[c]] = "admin"
                BY <3>1, <3>3 DEF DeleteCommit, InHandler, Exempt, Established, Allowed
            <4>2. issued' = issued /\ revoked' = revoked \cup {subject[c]}
                BY <3>3 DEF DeleteCommit
            <4> QED BY <4>1, <4>2 DEF KeyChangeStep
        <3>4. CASE UNCHANGED keyVars
            BY <3>4, <2>g DEF keyVars, KeyChangeStep
        <3> QED BY <3>2, <3>3, <3>4 DEF Arrives, Arrive, Serve, Lookup, Admit, Handle,
                    CreateRefresh, DeleteApiKey
    <2> QED BY <2>1, <2>2 DEF AccessNext
<1> QED BY <1>1, Inductive, PTL DEF AccessSpec, KeysChangedByAdmins
=============================================================================
