---------------------------- MODULE Provisioning ----------------------------
(***************************************************************************)
(* Authenticator.resolveUser: the first request of a subject creates its   *)
(* account, later ones find it in the database or in a cache.  Requests of *)
(* one subject run concurrently, calls of the store fail, and the cache    *)
(* drops entries and is lost when the server restarts.                     *)
(* The validation of tokens is outside the repository: a request arrives   *)
(* with the subject of a valid token.                                      *)
(***************************************************************************)
EXTENDS Accounts

CONSTANTS
  Subs,      \* subjects of tokens
  Requests   \* requests that carry a valid token

ASSUME ProvisioningAssumption == None \notin Subs \cup Requests

VARIABLES
  owner,      \* users.external_id of every user that has been created, or None
  cache,      \* userCache: the user of a subject, or None
  auth,       \* "new", "resolve", "create", "reread", "ok" or "failed"
  sub,        \* the subject of a request
  principal   \* the user resolveUser has returned

provisioningVars == <<owner, cache, auth, sub, principal>>

Owned(s) == {u \in Users : owner[u] = s}

\* The row has been found or created: cache.Put, and the request goes on as user u.
Resolved(c, u) ==
  /\ auth' = [auth EXCEPT ![c] = "ok"]
  /\ principal' = [principal EXCEPT ![c] = u]
  /\ cache' = [cache EXCEPT ![sub[c]] = u]

Moves(c, a) == auth' = [auth EXCEPT ![c] = a] /\ UNCHANGED <<principal, cache>>

Arrive(c) ==
  /\ auth[c] = "new"
  /\ \E s \in Subs : sub' = [sub EXCEPT ![c] = s]
  /\ auth' = [auth EXCEPT ![c] = "resolve"]
  /\ UNCHANGED <<owner, cache, principal>>

\* cache.Get, then GetUserByExternalID.
Lookup(c) ==
  /\ auth[c] = "resolve"
  /\ \/ cache[sub[c]] # None /\ Resolved(c, cache[sub[c]])
     \/ /\ cache[sub[c]] = None /\ ConnectionFree
        /\ \/ \E u \in Owned(sub[c]) : Resolved(c, u)
           \/ Owned(sub[c]) = {} /\ Moves(c, "create")
  /\ UNCHANGED <<owner, sub>>

\* Mutant: external_id is not unique.
CreateUserNotUnique(c) ==
  /\ \E u \in Users :
       /\ owner[u] = None
       /\ owner' = [owner EXCEPT ![u] = sub[c]]
       /\ Resolved(c, u)

\* store.CreateUser: the user and its snapshot in one transaction, unless
\* users_external_id_uniq refuses it.
CreateUser(c) ==
  \/ /\ Owned(sub[c]) = {}
     /\ \E u \in Users :
          /\ owner[u] = None
          /\ owner' = [owner EXCEPT ![u] = sub[c]]
          /\ Resolved(c, u)
  \/ Owned(sub[c]) # {} /\ Moves(c, "reread") /\ UNCHANGED owner

Provision(c) == auth[c] = "create" /\ ConnectionFree /\ CreateUser(c) /\ UNCHANGED sub

\* After any error of CreateUser the row is read again.
Reread(c) ==
  /\ auth[c] = "reread"
  /\ ConnectionFree
  /\ \/ \E u \in Owned(sub[c]) : Resolved(c, u)
     \/ Owned(sub[c]) = {} /\ Moves(c, "failed")
  /\ UNCHANGED <<owner, sub>>

\* A call of the store fails.  The transaction of CreateUser may have committed.
FailAuth(c) ==
  \/ /\ auth[c] = "reread" \/ (auth[c] = "resolve" /\ cache[sub[c]] = None)
     /\ Moves(c, "failed") /\ UNCHANGED <<owner, sub>>
  \/ /\ auth[c] = "create"
     /\ \/ UNCHANGED owner
        \/ Owned(sub[c]) = {} /\ \E u \in Users :
             owner[u] = None /\ owner' = [owner EXCEPT ![u] = sub[c]]
     /\ Moves(c, "reread") /\ UNCHANGED sub

\* UserService.CreateUser with an external_id, refused when it is taken.
Register(s) ==
  /\ ConnectionFree /\ Owned(s) = {}
  /\ \E u \in Users : owner[u] = None /\ owner' = [owner EXCEPT ![u] = s]
  /\ UNCHANGED <<cache, auth, sub, principal>>

\* The LRU cache is full.
Evict(s) ==
  /\ cache' = [cache EXCEPT ![s] = None]
  /\ UNCHANGED <<owner, auth, sub, principal>>

ProvisioningInit ==
  /\ owner = [u \in Users |-> None]
  /\ cache = [s \in Subs |-> None]
  /\ auth = [c \in Requests |-> "new"]
  /\ sub = [c \in Requests |-> None]
  /\ principal = [c \in Requests |-> None]

Resolve(c) == Lookup(c) \/ Provision(c) \/ Reread(c)

-----------------------------------------------------------------------------
\* A subject has one account: requests that race to create it, that meet an error or
\* that find a cached id all act for the user the database knows the subject by.
OneAccount ==
  /\ \A u, v \in Users : owner[u] = owner[v] /\ owner[u] # None => u = v
  /\ \A c \in Requests : principal[c] # None => owner[principal[c]] = sub[c]
  /\ \A s \in Subs : cache[s] # None => owner[cache[s]] = s

=============================================================================
