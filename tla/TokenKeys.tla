------------------------------ MODULE TokenKeys ------------------------------
(***************************************************************************)
(* Token validation against the identity provider's signing keys: the      *)
(* JwksCache and the validator of pact-policy/src/iam/mod.rs, which the    *)
(* journal's interceptor calls, and the agent's copy of both in            *)
(* shell/auth.rs.  A cache is behind a lock that is given up during the    *)
(* request to the provider, so validations that find it stale fetch side   *)
(* by side and the last answer to come in stays.  The claims other than    *)
(* the expiry are one Boolean; what the identity says is in Rbac.          *)
(***************************************************************************)
EXTENDS Integers, FiniteSets

CONSTANTS
    Jwk,            \* RSA keys with modulus and exponent: [kid, key]; kid may be NoKid
    NoKid,
    Validation,     \* validations in flight
    Token,          \* tokens presented: [alg, kid, key, exp, claims_ok]
    hmac_secret,    \* is a shared secret configured?
    TTL,            \* 3600 s
    RequestTimeout, \* 10 s
    Leeway,         \* jsonwebtoken's allowance on exp, 60 s
    Horizon         \* bound on the clock

ASSUME KeysAssumption ==
    /\ TTL \in Nat \ {0} /\ RequestTimeout \in Nat /\ Leeway \in Nat /\ Horizon \in Nat
    /\ hmac_secret \in BOOLEAN

VARIABLES
    published,      \* the keys the provider answers with
    withdrawn,      \* Jwk -> when it stopped being published, or -1
    process,        \* "journal" or "agent": each has a cache of its own
    jwks,           \* [keys, fetched_at], fetched_at = -1 before the first fetch
    validations,    \* Validation -> the call's local state
    clock,
    accepted        \* the validation this step completed: how the keys were come by,
                    \* the key that verified, and when

tokenVars == <<published, withdrawn, process, jwks, validations, clock, accepted>>

IdleCall == [pc |-> "idle", token |-> {}, since |-> 0, keys |-> {}]
NoOutcome == [how |-> "none", jwk |-> {}, at |-> 0]

TokenTypeOK ==
    /\ published \subseteq Jwk
    /\ withdrawn \in [Jwk -> Nat \cup {-1}]
    /\ process \in {"journal", "agent"}
    /\ jwks \in [keys : SUBSET Jwk, fetched_at : Nat \cup {-1}]
    /\ validations \in [Validation -> [pc : {"idle", "fetching", "answered"}, since : Nat,
                                      token : {{}} \cup {{t} : t \in Token}, keys : SUBSET Jwk]]
    /\ clock \in 0..Horizon
    /\ accepted \in [how : {"none", "hmac", "cached", "fetched", "stale"},
                     jwk : SUBSET Jwk, at : Nat]

TokenInit ==
    /\ published \in SUBSET Jwk
    /\ withdrawn = [j \in Jwk |-> -1]
    /\ process \in {"journal", "agent"}
    /\ jwks = [keys |-> {}, fetched_at |-> -1]
    /\ validations = [v \in Validation |-> IdleCall]
    /\ clock = 0
    /\ accepted = NoOutcome

-----------------------------------------------------------------------------
\* decode(): the signature fits the key, the claims are ours, exp has not passed.
Decodes(token, key) ==
    token.key = key /\ token.claims_ok /\ clock <= token.exp + Leeway

\* The keys tried: those with the token's kid, or all when it names none.
matching_keys(token, keys) ==
    {j \in keys : token.kid = NoKid \/ j.kid = token.kid}

\* A validation ends with one of the keys that verify the token, or is refused.
Conclude(v, token, how, keys) ==
    LET good == {j \in matching_keys(token, keys) :
                    token.alg = "RS256" /\ Decodes(token, j.key)}
    IN  /\ validations' = [validations EXCEPT ![v] = IdleCall]
        /\ \/ good = {} /\ accepted' = NoOutcome
           \/ \E j \in good : accepted' = [how |-> how, jwk |-> {j}, at |-> clock]

\* HS256 with the shared secret; the secret is no key of the provider.
validate_sync(token) ==
    hmac_secret /\ token.alg = "HS256" /\ token.claims_ok /\ clock <= token.exp + Leeway

\* Variant for sensitivity checks: any keys in the cache will do.
CacheValid_Forever(cache) == cache.keys # {}

\* JwksCache::fetch, the part under the read lock.
CacheValid(cache) ==
    cache.fetched_at >= 0 /\ clock - cache.fetched_at < TTL /\ cache.keys # {}

\* JwksCache::fetch from the read lock to the request.
Fetch(v, token) ==
    \/ CacheValid(jwks) /\ Conclude(v, token, "cached", jwks.keys)
    \/ /\ ~CacheValid(jwks)
       /\ validations' = [validations EXCEPT ![v] = [pc |-> "fetching", token |-> {token},
                                                     since |-> clock, keys |-> {}]]
       /\ accepted' = NoOutcome

\* The journal's validator: the shared secret first, then the provider's keys.
validate_impl(v, token) ==
    /\ process = "journal" /\ validations[v].pc = "idle"
    /\ IF validate_sync(token)
       THEN accepted' = [NoOutcome EXCEPT !.how = "hmac"] /\ UNCHANGED validations
       ELSE Fetch(v, token)
    /\ UNCHANGED <<published, withdrawn, process, jwks, clock>>

\* The agent's validator: the same, in its own process.
validate_token_with_jwks(v, token) ==
    /\ process = "agent" /\ validations[v].pc = "idle"
    /\ IF validate_sync(token)
       THEN accepted' = [NoOutcome EXCEPT !.how = "hmac"] /\ UNCHANGED validations
       ELSE Fetch(v, token)
    /\ UNCHANGED <<published, withdrawn, process, jwks, clock>>

\* fetch_remote: the provider answers with what it publishes at that moment.
fetch_remote(v) ==
    /\ validations[v].pc = "fetching"
    /\ validations' = [validations EXCEPT ![v].pc = "answered", ![v].keys = published]
    /\ accepted' = NoOutcome
    /\ UNCHANGED <<published, withdrawn, process, jwks, clock>>

\* The answer is in: the cache takes it, an empty list too, and is as new as now.
FetchOk(v) ==
    LET call == validations[v]
    IN  /\ call.pc = "answered"
        /\ jwks' = [keys |-> call.keys, fetched_at |-> clock]
        /\ \E t \in call.token : Conclude(v, t, "fetched", call.keys)
        /\ UNCHANGED <<published, withdrawn, process, clock>>

\* No answer within the timeout, an HTTP error or a body that does not parse: the
\* keys the cache holds by now, however old.
FetchFails(v) ==
    LET call == validations[v]
    IN  /\ call.pc \in {"fetching", "answered"}
        /\ \E t \in call.token : Conclude(v, t, "stale", jwks.keys)
        /\ UNCHANGED <<published, withdrawn, process, jwks, clock>>

\* The provider rotates its keys; a key it has withdrawn does not come back.
Rotate(keys) ==
    /\ keys # published /\ \A j \in keys : withdrawn[j] = -1
    /\ published' = keys
    /\ withdrawn' = [j \in Jwk |-> IF j \in published \ keys THEN clock ELSE withdrawn[j]]
    /\ accepted' = NoOutcome
    /\ UNCHANGED <<process, jwks, validations, clock>>

\* No request outlives the HTTP client's timeout.
TokenTick ==
    /\ clock < Horizon
    /\ \A v \in Validation : validations[v].pc \in {"fetching", "answered"} =>
                                clock < validations[v].since + RequestTimeout
    /\ clock' = clock + 1
    /\ accepted' = NoOutcome
    /\ UNCHANGED <<published, withdrawn, process, jwks, validations>>

TokenNext ==
    \/ \E v \in Validation, t \in Token : validate_impl(v, t) \/ validate_token_with_jwks(v, t)
    \/ \E v \in Validation : fetch_remote(v) \/ FetchOk(v) \/ FetchFails(v)
    \/ \E keys \in SUBSET Jwk : Rotate(keys)
    \/ TokenTick

TokenSpec == TokenInit /\ [][TokenNext]_tokenVars

-----------------------------------------------------------------------------
\* P7: a token signed with a key the provider has withdrawn is refused once the time
\* a cached answer may live and the time an answer may be on its way are both over,
\* in whatever order overlapping fetches come in; only a validation whose own fetch
\* failed goes on with older keys.
WithdrawnKeysExpire ==
    accepted.how \in {"cached", "fetched"} =>
        \A j \in accepted.jwk :
            \/ withdrawn[j] = -1
            \/ accepted.at < withdrawn[j] + TTL + RequestTimeout
=============================================================================
