----------------------------- MODULE TokenCache -----------------------------
(***************************************************************************)
(* security/security.go: Middleware lets a request with a bearer token     *)
(* through when the token is cached, or else when the verifier accepts it, *)
(* and caches it then for a time to live.  Requests run concurrently;      *)
(* a goroutine removes expired entries once per time to live.              *)
(***************************************************************************)
CONSTANTS
    Request,  \* the requests
    Token,    \* the tokens
    TokenOf   \* TokenOf[r]: the token in the header of r

ASSUME TokenAssumption == TokenOf \in [Request -> Token]

VARIABLES
    cache,    \* cache[t]: no entry, one before its expiresAt, one behind it
    revoked,  \* the tokens the verifier no longer accepts
    auth      \* auth[r]: where request r is in the middleware

tokenVars == <<cache, revoked, auth>>

TokenTypeOK ==
    /\ cache \in [Token -> {"absent", "fresh", "expired"}]
    /\ revoked \subseteq Token
    /\ auth \in [Request -> {"none", "verify", "store", "granted", "refused"}]

TokenInit ==
    /\ cache = [t \in Token |-> "absent"]
    /\ revoked = {}
    /\ auth = [r \in Request |-> "none"]

\* Mutant of Hit: expiry is left to the cleanup goroutine.
HitAny(t) == cache[t] # "absent"

\* lookup: an entry counts while its time to live has not passed.
Hit(t) == cache[t] = "fresh"

\* A request comes in and looks its token up.
Lookup(r) ==
    /\ auth[r] = "none"
    /\ auth' = [auth EXCEPT ![r] = IF Hit(TokenOf[r]) THEN "granted" ELSE "verify"]
    /\ UNCHANGED <<cache, revoked>>

\* The verifier has answered a request whose token was not cached; an error of the
\* call is a refusal.
VerifyReturns(r) ==
    /\ auth[r] = "verify"
    /\ \/ /\ TokenOf[r] \notin revoked
          /\ auth' = [auth EXCEPT ![r] = "store"]
       \/ auth' = [auth EXCEPT ![r] = "refused"]
    /\ UNCHANGED <<cache, revoked>>

\* The time to live begins when the entry is stored, not when the verifier answered.
StoreClaims(r) ==
    /\ auth[r] = "store"
    /\ cache' = [cache EXCEPT ![TokenOf[r]] = "fresh"]
    /\ auth' = [auth EXCEPT ![r] = "granted"]
    /\ UNCHANGED revoked

Expire(t) ==
    /\ cache[t] = "fresh"
    /\ cache' = [cache EXCEPT ![t] = "expired"]
    /\ UNCHANGED <<revoked, auth>>

\* The cleanup goroutine at its tick.
Cleanup ==
    /\ \E t \in Token : cache[t] = "expired"
    /\ cache' = [t \in Token |-> IF cache[t] = "expired" THEN "absent" ELSE cache[t]]
    /\ UNCHANGED <<revoked, auth>>

\* The issuer revokes a token, or the token's own lifetime ends.
Revoke(t) ==
    /\ t \notin revoked
    /\ revoked' = revoked \cup {t}
    /\ UNCHANGED <<cache, auth>>

TokenStep ==
    \/ \E r \in Request : VerifyReturns(r) \/ StoreClaims(r)
    \/ \E t \in Token : Expire(t) \/ Revoke(t)
    \/ Cleanup

-----------------------------------------------------------------------------
\* t is revoked, and neither its cache entry nor a request whose verification
\* was answered before the revocation can let anybody in any more.
ShutOut(t) ==
    /\ t \in revoked
    /\ cache[t] # "fresh"
    /\ \A r \in Request : TokenOf[r] = t => auth[r] # "store"

\* A revoked token is accepted only while its entry's time to live lasts, or by way
\* of a verification answered before the revocation, which begins a new one; then it
\* is refused for good, however lookups, stores, expiry and cleanup interleave.
RevokedStaysOut ==
    [][\A r \in Request :
          ShutOut(TokenOf[r]) => /\ ShutOut(TokenOf[r])'
                                 /\ auth'[r] = "granted" => auth[r] = "granted"]_tokenVars

=============================================================================
