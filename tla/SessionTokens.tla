----------------------------- MODULE SessionTokens -----------------------------
(***************************************************************************)
(* _get_jwks and _decode_and_verify_clerk_token (app/api/deps.py) in one   *)
(* process, with what they promise.                                        *)
(*                                                                         *)
(* Clerk's signing keys are kept in two globals, the keys and the time at  *)
(* which they were stored.  The routes' threads read and write them        *)
(* without a lock and in two steps, so that the time may be that of one    *)
(* thread and the keys another's, answered earlier and stored later.  A    *)
(* token of a key that is not among them is refused: the keys are not      *)
(* asked for again before their time is up.  Clerk is outside: it may      *)
(* publish and withdraw keys whenever it likes.                            *)
(***************************************************************************)
EXTENDS Integers

CONSTANTS
    Threads,
    Kids,           \* Clerk's signing keys
    TTL,            \* for how long the keys are kept, _jwks_ttl_seconds
    Leeway,         \* what the decoder forgives a token that has expired
    Delay,          \* the longest a thread may take between two of its steps and the end of the next
    MaxTime         \* bound on the time

VARIABLES
    now,
    published,      \* the keys that Clerk publishes
    since,          \* when each was last published or withdrawn
    cached,         \* there are keys
    cache,          \* _jwks_cache, and when Clerk gave this answer
    cachedAt,       \* _jwks_cached_at
    pc,             \* where each thread is in _get_jwks
    began,          \* the time of the step that fixed what the thread goes by
    got             \* the answer a thread has of Clerk

vars == <<now, published, since, cached, cache, cachedAt, pc, began, got>>

Answer == [keys: SUBSET Kids, asOf: Nat]

Nothing == [keys |-> {}, asOf |-> 0]

Init ==
    /\ now = 0
    /\ published \in SUBSET Kids
    /\ since = [k \in Kids |-> 0]
    /\ cached = FALSE
    /\ cache = Nothing
    /\ cachedAt = 0
    /\ pc = [t \in Threads |-> "idle"]
    /\ began = [t \in Threads |-> 0]
    /\ got = [t \in Threads |-> Nothing]

\* A thread waits for Clerk as long as it takes, but not between two steps of its own.
Tick ==
    /\ now < MaxTime
    /\ \A t \in Threads : pc[t] \in {"idle", "asking"} \/ began[t] > now - Delay
    /\ now' = now + 1
    /\ UNCHANGED <<published, since, cached, cache, cachedAt, pc, began, got>>

Rotate(k) ==
    /\ published' = IF k \in published THEN published \ {k} ELSE published \cup {k}
    /\ since' = [since EXCEPT ![k] = now]
    /\ UNCHANGED <<now, cached, cache, cachedAt, pc, began, got>>

Goes(t, where, time) ==
    /\ pc' = [pc EXCEPT ![t] = where]
    /\ began' = [began EXCEPT ![t] = time]

InTime == cached /\ now - cachedAt < TTL

Hit(t) ==
    /\ pc[t] = "idle"
    /\ InTime
    /\ Goes(t, "verifying", now)
    /\ UNCHANGED <<now, published, since, cached, cache, cachedAt, got>>

Ask(t) ==
    /\ pc[t] = "idle"
    /\ ~InTime
    /\ Goes(t, "asking", 0)
    /\ UNCHANGED <<now, published, since, cached, cache, cachedAt, got>>

\* The request is answered with 503; older keys are no help.
AskInVain(t) ==
    /\ pc[t] = "asking"
    /\ Goes(t, "idle", 0)
    /\ UNCHANGED <<now, published, since, cached, cache, cachedAt, got>>

ClerkAnswers(t) ==
    /\ pc[t] = "asking"
    /\ Goes(t, "storing", now)
    /\ got' = [got EXCEPT ![t] = [keys |-> published, asOf |-> now]]
    /\ UNCHANGED <<now, published, since, cached, cache, cachedAt>>

\* What the thread goes by is still the time of Clerk's answer.
StoreKeys(t) ==
    /\ pc[t] = "storing"
    /\ cached' = TRUE
    /\ cache' = got[t]
    /\ pc' = [pc EXCEPT ![t] = "dating"]
    /\ got' = [got EXCEPT ![t] = Nothing]
    /\ UNCHANGED <<now, published, since, cachedAt, began>>

StoreTime(t) ==
    /\ pc[t] = "dating"
    /\ cachedAt' = now
    /\ Goes(t, "verifying", now)
    /\ UNCHANGED <<now, published, since, cached, cache, got>>

Done(t) ==
    /\ pc[t] = "verifying"
    /\ Goes(t, "idle", 0)
    /\ UNCHANGED <<now, published, since, cached, cache, cachedAt, got>>

\* Of a token that is judged: before, at and after the time, and beyond the leeway.
Expiries == (now - Leeway - 1)..(now + 1)

\* The decoder's leeway is taken back by the check after it.
Current(exp) == exp >= now - Leeway /\ exp >= now

\* The keys are those that the global has by now; the token may be signed by any of Clerk's.
LetIn(t, k, exp) == Done(t) /\ k \in cache.keys /\ Current(exp)

RefuseExpired(t, k, exp) == Done(t) /\ k \in cache.keys /\ ~Current(exp)

RefuseUnknown(t, k) == Done(t) /\ k \notin cache.keys

Next ==
    \/ Tick
    \/ \E k \in Kids : Rotate(k)
    \/ \E t \in Threads :
           \/ Hit(t) \/ Ask(t) \/ AskInVain(t) \/ ClerkAnswers(t) \/ StoreKeys(t) \/ StoreTime(t)
           \/ \E k \in Kids :
                  \/ RefuseUnknown(t, k)
                  \/ \E exp \in Expiries : LetIn(t, k, exp) \/ RefuseExpired(t, k, exp)

Spec == Init /\ [][Next]_vars

-----------------------------------------------------------------------------
(* Properties *)

TypeOK ==
    /\ now \in Nat
    /\ published \in SUBSET Kids
    /\ since \in [Kids -> Nat]
    /\ cached \in BOOLEAN
    /\ cache \in Answer
    /\ cachedAt \in Nat
    /\ pc \in [Threads -> {"idle", "asking", "storing", "dating", "verifying"}]
    /\ began \in [Threads -> Nat]
    /\ got \in [Threads -> Answer]

\* The longest that a token may be judged by keys that Clerk has changed.
Age == TTL + 3 * Delay

\* A token is let in only by a key that Clerk publishes, or has published until a short while ago;
\* and is refused for its key only if Clerk has not published this for a short while.  What is
\* short is known: the time keys are kept, and three delays, one for the thread that stored the
\* keys, one for the thread that stored the time after it, and one for the thread that judges.
KeysAreRecent ==
    [][\A t \in Threads, k \in Kids :
           /\ (\E exp \in Expiries : LetIn(t, k, exp)) => k \in published \/ since[k] > now - Age
           /\ RefuseUnknown(t, k) => k \notin published \/ since[k] > now - Age]_vars

-----------------------------------------------------------------------------
(* What the theorems of PeopleProofs take, and the invariant they keep. *)

\* What the theorems take of the constants.
SessionConstants == TTL \in Nat \ {0} /\ Delay \in Nat /\ Leeway \in Nat

\* A key set that was right at its time: what it says otherwise of a key has changed since.
Fits(a) == \A k \in Kids : (k \in a.keys <=> k \in published) \/ since[k] >= a.asOf

StampsInv ==
    /\ cachedAt <= now
    /\ \A k \in Kids : since[k] <= now
    /\ \A t \in Threads : began[t] <= now
    /\ \A t \in Threads : pc[t] \in {"storing", "dating", "verifying"} => began[t] >= now - Delay

\* The keys may be older than their time by the delay of the thread that stored them and that of
\* the thread that dates them.
CacheInv ==
    cached => Fits(cache) /\ cache.asOf <= now /\ cache.asOf >= cachedAt - 2 * Delay

ThreadInv(t) ==
    /\ pc[t] = "storing" => Fits(got[t]) /\ got[t].asOf = began[t]
    /\ pc[t] = "dating" => cached /\ cache.asOf >= began[t] - Delay
    /\ pc[t] = "verifying" => cached /\ cache.asOf > began[t] - TTL - 2 * Delay

SessionInv == TypeOK /\ StampsInv /\ CacheInv /\ \A t \in Threads : ThreadInv(t)
=============================================================================
