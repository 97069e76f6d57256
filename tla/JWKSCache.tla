----------------------------- MODULE JWKSCache -----------------------------
(***************************************************************************)
(* The cache of the identity provider's public keys:                       *)
(* internal/auth/jwks_cache.go.                                            *)
(*                                                                         *)
(* GetKey answers from the cache while it is younger than TTL; younger     *)
(* than StaleMax it still answers and starts a refresh in the background,  *)
(* one at a time (the flag refreshing); else it fetches, one call at a     *)
(* time (fetchMu), and looks again.  A refresh replaces the whole cache.   *)
(*                                                                         *)
(* Time counts in units of the clock.  Only the network and the wait for   *)
(* fetchMu take time, a fetch Timeout at most (the http.Client's): the     *)
(* clock waits for the steps of a goroutine that can run.                  *)
(*                                                                         *)
(* Abstraction: a key is its kid, the endpoint's document the set of kids  *)
(* it publishes; a failed fetch is a refused connection, a time-out, a     *)
(* status other than 200, a malformed document or the end of the caller's  *)
(* context.  Reachable, which only reads, is left out.                     *)
(***************************************************************************)
EXTENDS Integers, FiniteSets

CONSTANTS Calls,     \* the calls of GetKey; each is made once
          Kids,      \* the names of keys the provider may publish
          Unusable,  \* those whose key parseJWKKey does not understand
          Probe,     \* a name no key has: "warmup-probe"
          TTL, StaleMax, Timeout,
          MaxTime,   \* bound of the clock
          Nobody

ASSUME JWKSAssumption ==
  /\ IsFiniteSet(Calls) /\ Nobody \notin Calls
  /\ Unusable \subseteq Kids /\ Probe \notin Kids
  /\ TTL \in Nat /\ StaleMax \in Nat /\ Timeout \in Nat /\ MaxTime \in Nat

VARIABLES
  now,         \* the clock
  published,   \* \subseteq Kids: what the endpoint answers
  changed,     \* [Kids -> Int]: when a kid was last added or removed (ghost)
  cache,       \* the cached keys and when they arrived
  refreshing,  \* the flag
  fetchMu,     \* who holds the mutex
  fetch,       \* [Calls \X Kinds -> Fetch]: the HTTP requests under way
  pc,          \* [Calls -> Step]
  kid,         \* [Calls -> Kids \cup {Probe}]: the argument
  began,       \* [Calls -> Int]: when the call began
  answer       \* [Calls -> Answer]

cacheVars == <<now, published, changed, cache, refreshing, fetchMu, fetch,
               pc, kid, began, answer>>

\* The oldest age of a cache GetKey answers from.
MaxAge == IF TTL > StaleMax THEN TTL ELSE StaleMax

\* Before every time that matters.
LongAgo == -1 - MaxAge - Timeout

\* A call fetches itself ("own") or has started a goroutine that does.
Kinds == {"own", "background"}

\* "ended": the goroutine has yet to clear the flag.
Fetch == [step : {"none", "sent", "answered", "ended"}, keys : SUBSET Kids,
          sent : Int]

NoFetch == [step |-> "none", keys |-> {}, sent |-> LongAgo]

Step == {"idle", "look", "stale", "lock", "fetch", "reread", "done"}

\* "unavailable" is ErrJWKSUnavailable, "unknown" a kid that is not there.
Answer == {"none", "key", "unknown", "unavailable"}

CacheInit ==
  /\ now = 0
  /\ published \in SUBSET Kids
  /\ changed = [k \in Kids |-> LongAgo]
  /\ cache = [keys |-> {}, at |-> LongAgo]
  /\ refreshing = FALSE
  /\ fetchMu = Nobody
  /\ fetch = [p \in Calls \X Kinds |-> NoFetch]
  /\ pc = [r \in Calls |-> "idle"]
  /\ kid = [r \in Calls |-> Probe]
  /\ began = [r \in Calls |-> LongAgo]
  /\ answer = [r \in Calls |-> "none"]

-----------------------------------------------------------------------------
(* The provider and the clock.                                             *)

\* The provider adds or removes a key; one nobody can use makes no difference.
Rotate ==
  /\ \E k \in Kids \ Unusable :
       /\ published' = IF k \in published THEN published \ {k} ELSE published \cup {k}
       /\ changed' = [changed EXCEPT ![k] = now]
  /\ UNCHANGED <<now, cache, refreshing, fetchMu, fetch, pc, kid, began, answer>>

\* Mutant: an http.Client without Timeout.
Overdue_Never(p) == FALSE

\* http.Client.Timeout: a fetch that is not over by then fails.
Overdue(p) == fetch[p].step \in {"sent", "answered"} /\ now >= fetch[p].sent + Timeout

\* A goroutine that waits for nothing.
CanRun(r) == \/ pc[r] \in {"look", "stale", "reread"}
             \/ pc[r] = "lock" /\ fetchMu = Nobody
             \/ fetch[<<r, "background">>].step = "ended"

Tick ==
  /\ now < MaxTime
  /\ \A p \in Calls \X Kinds : ~Overdue(p)
  /\ \A r \in Calls : ~CanRun(r)
  /\ now' = now + 1
  /\ UNCHANGED <<published, changed, cache, refreshing, fetchMu, fetch, pc, kid, began, answer>>

-----------------------------------------------------------------------------
(* GetKey.                                                                 *)

\* cacheAge: before the first fetch it is beyond every limit.
CacheAge == IF cache.at = LongAgo THEN StaleMax + 1 ELSE now - cache.at

Begin(r, k) ==
  /\ pc[r] = "idle"
  /\ pc' = [pc EXCEPT ![r] = "look"]
  /\ kid' = [kid EXCEPT ![r] = k]
  /\ began' = [began EXCEPT ![r] = now]
  /\ UNCHANGED <<now, published, changed, cache, refreshing, fetchMu, fetch, answer>>

Return(r, a) ==
  /\ pc' = [pc EXCEPT ![r] = "done"]
  /\ answer' = [answer EXCEPT ![r] = a]

Goto(r, step) == pc' = [pc EXCEPT ![r] = step] /\ UNCHANGED answer

\* The key is there and the cache not older than that.
Found(r, age) == kid[r] \in cache.keys /\ CacheAge < age

\* The first look, under the read lock.
Look(r) ==
  /\ pc[r] = "look"
  /\ IF Found(r, TTL) THEN Return(r, "key")
     ELSE IF Found(r, StaleMax) THEN Goto(r, "stale")
     ELSE Goto(r, "lock")
  /\ UNCHANGED <<now, published, changed, cache, refreshing, fetchMu, fetch, kid, began>>

Send(p) == fetch' = [fetch EXCEPT ![p] = [step |-> "sent", keys |-> {}, sent |-> now]]

\* Mutant: every stale answer starts a refresh.
Revalidate_Always(r) ==
  /\ pc[r] = "stale"
  /\ Send(<<r, "background">>)
  /\ refreshing' = TRUE
  /\ Return(r, "key")
  /\ UNCHANGED <<now, published, changed, cache, fetchMu, kid, began>>

\* The stale key is returned; unless one is under way a refresh is started.
Revalidate(r) ==
  /\ pc[r] = "stale"
  /\ IF refreshing THEN UNCHANGED fetch ELSE Send(<<r, "background">>)
  /\ refreshing' = TRUE
  /\ Return(r, "key")
  /\ UNCHANGED <<now, published, changed, cache, fetchMu, kid, began>>

\* fetchMu, and the second look: somebody may have fetched meanwhile.
Lock(r) ==
  /\ pc[r] = "lock" /\ fetchMu = Nobody
  /\ IF Found(r, TTL)
     THEN Return(r, "key") /\ UNCHANGED <<fetchMu, fetch>>
     ELSE fetchMu' = r /\ Send(<<r, "own">>) /\ Goto(r, "fetch")
  /\ UNCHANGED <<now, published, changed, cache, refreshing, kid, began>>

\* Mutant: the key that is not there is returned, without an error.
Reread_Nil(r) ==
  /\ pc[r] = "reread"
  /\ Return(r, IF kid[r] \in cache.keys THEN "key" ELSE "nil")
  /\ UNCHANGED <<now, published, changed, cache, refreshing, fetchMu, fetch, kid, began>>

\* The third look, after the call's own fetch; the age is not looked at.
Reread(r) ==
  /\ pc[r] = "reread"
  /\ Return(r, IF kid[r] \in cache.keys THEN "key" ELSE "unknown")
  /\ UNCHANGED <<now, published, changed, cache, refreshing, fetchMu, fetch, kid, began>>

-----------------------------------------------------------------------------
(* refresh.                                                                *)

\* The endpoint answers; the keys of an unsupported type are skipped.
Produce(p) ==
  /\ fetch[p].step = "sent"
  /\ fetch' = [fetch EXCEPT ![p].step = "answered", ![p].keys = published \ Unusable]
  /\ UNCHANGED <<now, published, changed, cache, refreshing, fetchMu, pc, kid, began, answer>>

\* refresh has returned: a call goes on and gives fetchMu back, a goroutine ends.
Over(p, step) ==
  IF p[2] = "own"
  THEN /\ pc' = [pc EXCEPT ![p[1]] = step]
       /\ fetch' = [fetch EXCEPT ![p] = NoFetch]
       /\ fetchMu' = Nobody
  ELSE /\ fetch' = [fetch EXCEPT ![p] = [NoFetch EXCEPT !.step = "ended"]]
       /\ UNCHANGED <<pc, fetchMu>>

\* Mutant: keys are only ever added.
Apply_Merge(p) ==
  /\ fetch[p].step = "answered"
  /\ cache' = [keys |-> cache.keys \cup fetch[p].keys, at |-> now]
  /\ Over(p, "reread")
  /\ UNCHANGED <<now, published, changed, refreshing, kid, began, answer>>

\* The answer has arrived and replaces the cache, also a newer one.
Apply(p) ==
  /\ fetch[p].step = "answered"
  /\ cache' = [keys |-> fetch[p].keys, at |-> now]
  /\ Over(p, "reread")
  /\ UNCHANGED <<now, published, changed, refreshing, kid, began, answer>>

\* Mutant: the error is not looked at.
Fail_Ignored(p) ==
  /\ fetch[p].step \in {"sent", "answered"}
  /\ Over(p, "reread")
  /\ UNCHANGED <<now, published, changed, cache, refreshing, kid, began, answer>>

\* The fetch fails at any point, a call with it; a goroutine ignores it.
Fail(p) ==
  /\ fetch[p].step \in {"sent", "answered"}
  /\ Over(p, "done")
  /\ answer' = IF p[2] = "own" THEN [answer EXCEPT ![p[1]] = "unavailable"] ELSE answer
  /\ UNCHANGED <<now, published, changed, cache, refreshing, kid, began>>

\* The deferred function of the goroutine.
ClearFlag(r) ==
  LET p == <<r, "background">> IN
  /\ fetch[p].step = "ended"
  /\ refreshing' = FALSE
  /\ fetch' = [fetch EXCEPT ![p] = NoFetch]
  /\ UNCHANGED <<now, published, changed, cache, fetchMu, pc, kid, began, answer>>

-----------------------------------------------------------------------------
Work(r) == Look(r) \/ Revalidate(r) \/ Lock(r) \/ Reread(r) \/ ClearFlag(r)

Network(p) == Produce(p) \/ Apply(p) \/ Fail(p)

CacheStep == \/ Rotate
             \/ \E r \in Calls : Work(r)
             \/ \E p \in Calls \X Kinds : Network(p)

CacheNext == \/ CacheStep
             \/ Tick
             \/ \E r \in Calls, k \in Kids \cup {Probe} : Begin(r, k)

CacheSpec == CacheInit /\ [][CacheNext]_cacheVars

-----------------------------------------------------------------------------
(* Properties.                                                             *)

CacheTypeOK ==
  /\ now \in Nat
  /\ published \subseteq Kids
  /\ changed \in [Kids -> Int]
  /\ cache \in [keys : SUBSET Kids, at : Int]
  /\ refreshing \in BOOLEAN
  /\ fetchMu \in Calls \cup {Nobody}
  /\ fetch \in [Calls \X Kinds -> Fetch]
  /\ pc \in [Calls -> Step]
  /\ kid \in [Calls -> Kids \cup {Probe}]
  /\ began \in [Calls -> Int]
  /\ answer \in [Calls -> Answer]

\* The last time a kid was published, and the last time it was not.
LastIn(k) == IF k \in published THEN now ELSE changed[k]

LastOut(k) == IF k \in published THEN changed[k] ELSE now

Answers(r, a) == answer[r] = "none" /\ answer'[r] = a

\* A key the provider has withdrawn is not used longer than the cache may be old and
\* a fetch may take, whichever fetches overtake each other.
RevocationBound ==
  [][\A r \in Calls : Answers(r, "key") => now - LastIn(kid[r]) <= MaxAge + Timeout]_cacheVars

\* A call is told that a kid does not exist only if the provider did not publish it
\* at some moment of the last Timeout, or publishes a key of a type that is not
\* supported: the answer of an older fetch may overtake the call's own.
UnknownIsTrue ==
  [][\A r \in Calls : Answers(r, "unknown") =>
       \/ kid[r] \notin Kids \ Unusable
       \/ now - LastOut(kid[r]) <= Timeout]_cacheVars

InFlight == {p \in Calls \X Kinds : fetch[p].step \in {"sent", "answered"}}

\* However many calls there are, the endpoint sees two requests at most, one in the
\* background and one somebody waits for.
FetchesBounded == \A p, q \in InFlight : p[2] = q[2] => p = q

\* A call waits for the fetches of the calls before it and its own, one after the
\* other, and no longer: neither a failing endpoint nor the queue behind fetchMu
\* holds it for ever.
WaitBounded ==
  \A r \in Calls : pc[r] \notin {"idle", "done"} => now - began[r] <= Cardinality(Calls) * Timeout
=============================================================================
