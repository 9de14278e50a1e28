---------------------------- MODULE KeyGuardian ------------------------------
(***************************************************************************)
(* KeyGuardian (aruaru-dist/src/keyring.rs): keys that anybody may have    *)
(* issued to himself, that an operator revokes by owner and that expire,   *)
(* and the check that every request to the admin API passes through        *)
(* (check_admin_auth, admin.rs).  known_nonempty is read under no lock.    *)
(***************************************************************************)
EXTENDS Naturals, FiniteSets

CONSTANTS Request,    \* requests to the admin API, each made once
          IssuedKey,  \* keys, each issued once
          Ttl, MaxNow \* how long a key lives; bound on the clock

\* What a request brings that is no key the registry issued.
NoKey == {"token", "nothing", "unknown"}

ASSUME KeyAssumption == Ttl \in Nat \ {0} /\ MaxNow \in Nat /\ NoKey \cap IssuedKey = {}

VARIABLES
    keys,           \* the registry: [key, expires_at, revoked] of each key it holds
    known_nonempty,
    issuing,        \* keys in the registry whose issue has not set known_nonempty yet
    handed_out,     \* keys whose issue returned
    now,
    token_set,      \* whether ARUARU_DB_ADMIN_TOKEN is set
    check,          \* [Request -> where its check is]
    shown,          \* [Request -> what it brings: "token", "nothing", "unknown" or a key]
    decision,       \* [Request -> "none", "ok", "unauthorized", "unavailable"]
    ever_valid,     \* history: [Request -> its key was good when the check began]
    always_valid    \* history: [Request -> its key has been good since]

keyVars == <<keys, known_nonempty, issuing, handed_out, now, token_set, check, shown, decision,
             ever_valid, always_valid>>

KeyInit ==
    /\ keys = {} /\ known_nonempty = FALSE /\ issuing = {} /\ handed_out = {} /\ now = 0
    /\ token_set \in BOOLEAN
    /\ check = [r \in Request |-> "start"]
    /\ shown = [r \in Request |-> "nothing"]
    /\ decision = [r \in Request |-> "none"]
    /\ ever_valid = [r \in Request |-> FALSE]
    /\ always_valid = [r \in Request |-> FALSE]
-----------------------------------------------------------------------------
Record(k) == {rec \in keys : rec.key = k}
Good(rec) == ~rec.revoked /\ now < rec.expires_at
Valid(k) == \E rec \in Record(k) : Good(rec)

\* issue: the record goes in under the lock ...
InsertKey(k) ==
    /\ k \notin handed_out \cup issuing
    /\ keys' = keys \cup {[key |-> k, expires_at |-> now + Ttl, revoked |-> FALSE]}
    /\ issuing' = issuing \cup {k}
    /\ UNCHANGED <<known_nonempty, handed_out, now, token_set, check, shown, decision, ever_valid, always_valid>>

\* ... then the flag is set, and the caller has its key.
HandOut(k) ==
    /\ k \in issuing
    /\ issuing' = issuing \ {k}
    /\ known_nonempty' = TRUE
    /\ handed_out' = handed_out \cup {k}
    /\ UNCHANGED <<keys, now, token_set, check, shown, decision, ever_valid, always_valid>>

\* revoke_owner: all keys of the one owner that issues keys to itself.
RevokeOwner ==
    /\ \E rec \in keys : ~rec.revoked
    /\ keys' = {[rec EXCEPT !.revoked = TRUE] : rec \in keys}
    /\ always_valid' = [r \in Request |-> always_valid[r] /\ check[r] = "done"]
    /\ UNCHANGED <<known_nonempty, issuing, handed_out, now, token_set, check, shown, decision, ever_valid>>

TimePasses ==
    /\ now < MaxNow
    /\ now' = now + 1
    /\ always_valid' = [r \in Request |->
          always_valid[r] /\ (check[r] = "done" \/ \E rec \in Record(shown[r]) : now + 1 < rec.expires_at)]
    /\ UNCHANGED <<keys, known_nonempty, issuing, handed_out, token_set, check, shown, decision, ever_valid>>
-----------------------------------------------------------------------------
Decide(r, d) == decision' = [decision EXCEPT ![r] = d] /\ check' = [check EXCEPT ![r] = "done"]
GoOn(r, p) == check' = [check EXCEPT ![r] = p] /\ UNCHANGED decision

\* check_admin_auth: the static token decides at once; anything else is looked up.
BeginCheck(r) ==
    /\ check[r] = "start"
    /\ \E what \in NoKey \cup handed_out :
          /\ shown' = [shown EXCEPT ![r] = what]
          /\ ever_valid' = [ever_valid EXCEPT ![r] = Valid(what)]
          /\ always_valid' = [always_valid EXCEPT ![r] = Valid(what)]
          /\ IF what = "token" /\ token_set THEN Decide(r, "ok")
             ELSE GoOn(r, IF what = "nothing" THEN "count" ELSE "flag")
    /\ UNCHANGED <<keys, known_nonempty, issuing, handed_out, now, token_set>>

\* verify reads the flag first, without the lock ...
ReadFlag(r) ==
    /\ check[r] = "flag"
    /\ GoOn(r, IF known_nonempty THEN "lookup" ELSE "count")
    /\ UNCHANGED <<keys, known_nonempty, issuing, handed_out, now, token_set, shown, ever_valid, always_valid>>

\* Variant: only the time of a key counts, not that it was revoked.
LookUpByTime(r) ==
    /\ check[r] = "lookup"
    /\ keys' = {rec \in keys : now < rec.expires_at}
    /\ IF \E rec \in Record(shown[r]) : now < rec.expires_at THEN Decide(r, "ok") ELSE GoOn(r, "count")
    /\ UNCHANGED <<known_nonempty, issuing, handed_out, now, token_set, shown, ever_valid, always_valid>>

\* ... and then looks the key up; an expired one, if it was not revoked, leaves the registry.
LookUpKey(r) ==
    /\ check[r] = "lookup"
    /\ keys' = {rec \in keys : rec.key # shown[r] \/ rec.revoked \/ now < rec.expires_at}
    /\ IF Valid(shown[r]) THEN Decide(r, "ok") ELSE GoOn(r, "count")
    /\ UNCHANGED <<known_nonempty, issuing, handed_out, now, token_set, shown, ever_valid, always_valid>>

\* What is refused is told apart by the count, which is read under a lock of its own.
CountKeys(r) ==
    /\ check[r] = "count"
    /\ Decide(r, IF ~token_set /\ keys = {} THEN "unavailable" ELSE "unauthorized")
    /\ UNCHANGED <<keys, known_nonempty, issuing, handed_out, now, token_set, shown, ever_valid, always_valid>>

KeyStep ==
    \/ RevokeOwner \/ TimePasses
    \/ \E k \in IssuedKey : InsertKey(k) \/ HandOut(k)
    \/ \E r \in Request : BeginCheck(r) \/ ReadFlag(r) \/ LookUpKey(r) \/ CountKeys(r)
-----------------------------------------------------------------------------
KeysOK ==
    /\ keys \subseteq [key : IssuedKey, expires_at : 0 .. MaxNow + Ttl, revoked : BOOLEAN]
    /\ \A rec, other \in keys : rec.key = other.key => rec = other
    /\ issuing \cup handed_out \subseteq IssuedKey /\ issuing \cap handed_out = {}
    /\ now \in 0 .. MaxNow
    /\ \A r \in Request : check[r] \in {"start", "flag", "lookup", "count", "done"}
    /\ \A r \in Request : decision[r] # "none" <=> check[r] = "done"

\* A request passes with the static token, or with a key that was good when its check began; and a
\* key that was handed out before and good all the while is never refused, although the flag is
\* read without the lock and other checks remove keys meanwhile.
KeysDecide ==
    \A r \in Request : check[r] = "done" =>
        /\ decision[r] = "ok" => ever_valid[r] \/ (token_set /\ shown[r] = "token")
        /\ decision[r] # "ok" => ~always_valid[r]
=============================================================================
