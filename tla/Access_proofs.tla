---------------------------- MODULE Access_proofs ----------------------------
(***************************************************************************)
(* Proofs about JWKSCache and Access.  The inductive invariant of the      *)
(* cache says who fetches (at most one call, the owner of fetchMu, and one *)
(* goroutine, while the flag is set), that no fetch is older than Timeout, *)
(* and that what is cached or on its way was true when its fetch was sent. *)
(* The bound of the wait follows from counting the calls that are over: as *)
(* long as a call waits for fetchMu somebody holds it.  A step of the      *)
(* chain is a step of the cache, and a request whose key has been found is *)
(* concluded before time passes.                                           *)
(***************************************************************************)
EXTENDS Access, FiniteSetTheorems, TLAPS

\* Who has a request under way.
Owners ==
  /\ \A r \in Calls : /\ fetch[<<r, "own">>].step \in {"none", "sent", "answered"}
                      /\ fetch[<<r, "own">>].step # "none" <=> fetchMu = r
                      /\ pc[r] = "fetch" <=> fetchMu = r
                      /\ fetch[<<r, "background">>].step # "none" => refreshing
  /\ \A r, s \in Calls :
       fetch[<<r, "background">>].step # "none" /\ fetch[<<s, "background">>].step # "none" => r = s

\* Nothing is from the future, and no request lasts longer than Timeout.
Times ==
  /\ \A k \in Kids : LongAgo <= changed[k] /\ changed[k] <= now
  /\ LongAgo <= cache.at /\ cache.at <= now
  /\ cache.at = LongAgo => cache.keys = {}
  /\ \A p \in InFlight : fetch[p].sent <= now /\ now <= fetch[p].sent + Timeout

\* What is cached, or was answered, was published when it was asked for, and what is
\* missing was not.
Truth ==
  /\ \A k \in cache.keys : cache.at - Timeout <= LastIn(k)
  /\ \A k \in (Kids \ Unusable) \ cache.keys : cache.at - Timeout <= LastOut(k)
  /\ \A p \in InFlight : fetch[p].step = "answered" =>
       /\ \A k \in fetch[p].keys : fetch[p].sent <= LastIn(k)
       /\ \A k \in (Kids \ Unusable) \ fetch[p].keys : fetch[p].sent <= LastOut(k)

\* A key that was found is returned before time passes.
Fresh ==
  \A r \in Calls :
    /\ pc[r] = "stale" => kid[r] \in Kids /\ now - LastIn(kid[r]) <= MaxAge + Timeout
    /\ pc[r] = "reread" => cache.at = now

\* The calls that do not fetch any more.
Finished == {r \in Calls : pc[r] \in {"reread", "done"}}

\* How long the request of the owner of fetchMu lasts already.
Held == IF fetchMu = Nobody THEN 0 ELSE now - fetch[<<fetchMu, "own">>].sent

\* All the time since it began, a call waited for calls that are over, and the owner.
Waits ==
  \A r \in Calls : pc[r] \notin {"idle", "done"} =>
    /\ now - began[r] <= Cardinality(Finished) * Timeout + Held
    /\ pc[r] \in {"look", "stale"} => now = began[r]

IInv == CacheTypeOK /\ Owners /\ Times /\ Truth /\ Fresh

-----------------------------------------------------------------------------
LEMMA Bounds ==
  MaxAge \in Nat /\ LongAgo \in Int /\ LongAgo < 0 /\ TTL <= MaxAge /\ StaleMax <= MaxAge
BY JWKSAssumption DEF MaxAge, LongAgo

LEMMA Pairs ==
  /\ \A r \in Calls : <<r, "own">> \in Calls \X Kinds /\ <<r, "background">> \in Calls \X Kinds
  /\ \A p \in Calls \X Kinds : \E r \in Calls : p = <<r, "own">> \/ p = <<r, "background">>
BY DEF Kinds

LEMMA Initially == CacheInit => IInv
<1> SUFFICES ASSUME CacheInit PROVE IInv
  OBVIOUS
<1> USE Bounds, JWKSAssumption
<1>1. NoFetch \in Fetch /\ NoFetch.step = "none"
  BY DEF NoFetch, Fetch
<1>2. CacheTypeOK
  BY <1>1 DEF CacheInit, CacheTypeOK, Step, Answer
<1>3. \A p \in Calls \X Kinds : fetch[p].step = "none"
  BY <1>1 DEF CacheInit
<1>4. InFlight = {}
  BY <1>3 DEF InFlight
<1>5. Owners
  <2>1. \A r \in Calls : /\ fetch[<<r, "own">>].step = "none" /\ fetch[<<r, "background">>].step = "none"
                         /\ pc[r] = "idle" /\ fetchMu # r
    BY <1>3, Pairs DEF CacheInit
  <2> QED BY <2>1 DEF Owners
<1>6. Times
  BY <1>4 DEF CacheInit, Times
<1>7. \A k \in Kids : LastOut(k) >= LongAgo
  BY DEF CacheInit, LastOut
<1>8. Truth
  BY <1>4, <1>7 DEF CacheInit, Truth, LastOut
<1>9. Fresh
  BY DEF CacheInit, Fresh
<1> QED BY <1>2, <1>5, <1>6, <1>8, <1>9 DEF IInv

\* The cases of a step of the cache.
LEMMA Cases ==
  ASSUME CacheNext, NEW P,
         Rotate => P, Tick => P,
         \A r \in Calls : \A k \in Kids \cup {Probe} : Begin(r, k) => P,
         \A r \in Calls : Look(r) => P,
         \A r \in Calls : Revalidate(r) => P,
         \A r \in Calls : Lock(r) => P,
         \A r \in Calls : Reread(r) => P,
         \A r \in Calls : ClearFlag(r) => P,
         \A p \in Calls \X Kinds : Produce(p) => P,
         \A p \in Calls \X Kinds : Apply(p) => P,
         \A p \in Calls \X Kinds : Fail(p) => P
  PROVE  P
BY DEF CacheNext, CacheStep, Work, Network

\* A fetch that is over: its slot is empty, or the goroutine has yet to clear the flag.
LEMMA OverTyped ==
  ASSUME CacheTypeOK, NEW p \in Calls \X Kinds, NEW step \in Step, Over(p, step)
  PROVE  /\ pc' \in [Calls -> Step]
         /\ fetch' \in [Calls \X Kinds -> Fetch]
         /\ fetchMu' \in Calls \cup {Nobody}
<1>1. NoFetch \in Fetch /\ [NoFetch EXCEPT !.step = "ended"] \in Fetch
  BY Bounds DEF NoFetch, Fetch
<1>2. p[1] \in Calls
  OBVIOUS
<1> QED BY <1>1, <1>2 DEF CacheTypeOK, Over

LEMMA TypeStep == ASSUME CacheTypeOK, CacheNext PROVE CacheTypeOK'
<1> USE Bounds, JWKSAssumption DEF CacheTypeOK
<1>1. ASSUME Rotate PROVE CacheTypeOK'
  BY <1>1 DEF Rotate
<1>2. ASSUME Tick PROVE CacheTypeOK'
  BY <1>2 DEF Tick
<1>3. ASSUME NEW r \in Calls, NEW k \in Kids \cup {Probe}, Begin(r, k) PROVE CacheTypeOK'
  BY <1>3 DEF Begin, Step
<1>4. ASSUME NEW r \in Calls, Look(r) PROVE CacheTypeOK'
  BY <1>4 DEF Look, Return, Goto, Step, Answer
<1>5. ASSUME NEW r \in Calls, NEW kind \in Kinds, Send(<<r, kind>>)
      PROVE  fetch' \in [Calls \X Kinds -> Fetch]
  <2>1. [step |-> "sent", keys |-> {}, sent |-> now] \in Fetch
    BY DEF Fetch
  <2> QED BY <1>5, <2>1 DEF Send
<1>6. ASSUME NEW r \in Calls, Revalidate(r) PROVE CacheTypeOK'
  <2>1. fetch' \in [Calls \X Kinds -> Fetch]
    BY <1>5, <1>6 DEF Revalidate, Kinds
  <2> QED BY <1>6, <2>1 DEF Revalidate, Return, Step, Answer
<1>7. ASSUME NEW r \in Calls, Lock(r) PROVE CacheTypeOK'
  <2>1. fetch' \in [Calls \X Kinds -> Fetch]
    BY <1>5, <1>7 DEF Lock, Kinds
  <2> QED BY <1>7, <2>1 DEF Lock, Return, Goto, Step, Answer
<1>8. ASSUME NEW r \in Calls, Reread(r) PROVE CacheTypeOK'
  BY <1>8 DEF Reread, Return, Step, Answer
<1>9. ASSUME NEW r \in Calls, ClearFlag(r) PROVE CacheTypeOK'
  <2>1. NoFetch \in Fetch
    BY DEF NoFetch, Fetch
  <2> QED BY <1>9, <2>1 DEF ClearFlag
<1>10. ASSUME NEW p \in Calls \X Kinds, Produce(p) PROVE CacheTypeOK'
  <2>0. fetch[p] \in [step : {"none", "sent", "answered", "ended"}, keys : SUBSET Kids, sent : Int]
    BY DEF Fetch
  <2>1. [fetch[p] EXCEPT !.step = "answered", !.keys = published \ Unusable] \in Fetch
    <3>1. published \ Unusable \in SUBSET Kids
      OBVIOUS
    <3> QED BY <2>0, <3>1 DEF Fetch
  <2>2. fetch' = [fetch EXCEPT ![p] = [fetch[p] EXCEPT !.step = "answered", !.keys = published \ Unusable]]
    BY <1>10 DEF Produce
  <2> QED BY <1>10, <2>1, <2>2 DEF Produce
<1>11. ASSUME NEW p \in Calls \X Kinds, Apply(p) PROVE CacheTypeOK'
  <2>1. cache' \in [keys : SUBSET Kids, at : Int]
    BY <1>11 DEF Apply, Fetch
  <2> QED BY <1>11, <2>1, OverTyped DEF Apply, Step
<1>12. ASSUME NEW p \in Calls \X Kinds, Fail(p) PROVE CacheTypeOK'
  <2>1. p[1] \in Calls
    OBVIOUS
  <2> QED BY <1>12, <2>1, OverTyped DEF Fail, Step, Answer
<1> QED BY <1>1, <1>2, <1>3, <1>4, <1>6, <1>7, <1>8, <1>9, <1>10, <1>11, <1>12, Cases

-----------------------------------------------------------------------------
\* refresh returns: a call gives fetchMu back, a goroutine keeps the flag.
LEMMA OverOwners ==
  ASSUME CacheTypeOK, Owners, NEW p \in Calls \X Kinds, NEW step \in Step, step # "fetch",
         fetch[p].step \in {"sent", "answered"}, Over(p, step), UNCHANGED refreshing
  PROVE  Owners'
<1> USE JWKSAssumption DEF CacheTypeOK, Kinds
<1>0. NoFetch.step = "none" /\ [NoFetch EXCEPT !.step = "ended"].step = "ended"
  BY DEF NoFetch
<1>1. CASE p[2] = "own"
  <2>1. PICK r \in Calls : p = <<r, "own">>
    BY <1>1
  <2>2. fetchMu = r /\ fetchMu' = Nobody /\ pc' = [pc EXCEPT ![r] = step]
        /\ fetch' = [fetch EXCEPT ![<<r, "own">>] = NoFetch]
    BY <1>1, <2>1 DEF Over, Owners
  <2> QED BY <1>0, <2>2 DEF Owners
<1>2. CASE p[2] = "background"
  <2>1. PICK r \in Calls : p = <<r, "background">>
    BY <1>2
  <2>2. UNCHANGED <<pc, fetchMu>>
        /\ fetch' = [fetch EXCEPT ![<<r, "background">>] = [NoFetch EXCEPT !.step = "ended"]]
    BY <1>2, <2>1 DEF Over
  <2>3. fetch[<<r, "background">>].step # "none"
    BY <2>1
  <2> QED BY <1>0, <2>2, <2>3 DEF Owners
<1> QED BY <1>1, <1>2

LEMMA OwnersStep == ASSUME CacheTypeOK, Owners, CacheNext PROVE Owners'
<1> USE JWKSAssumption DEF CacheTypeOK, Kinds
<1>1. ASSUME UNCHANGED <<fetch, fetchMu, refreshing, pc>> PROVE Owners'
  BY <1>1 DEF Owners
<1>2. ASSUME NEW r \in Calls, NEW step \in Step, pc[r] # "fetch", step # "fetch",
             pc' = [pc EXCEPT ![r] = step], UNCHANGED <<fetch, fetchMu, refreshing>>
      PROVE  Owners'
  BY <1>2 DEF Owners
<1>3. ASSUME Rotate PROVE Owners'
  BY <1>1, <1>3 DEF Rotate
<1>4. ASSUME Tick PROVE Owners'
  BY <1>1, <1>4 DEF Tick
<1>5. ASSUME NEW r \in Calls, NEW k \in Kids \cup {Probe}, Begin(r, k) PROVE Owners'
  BY <1>2, <1>5 DEF Begin, Step
<1>6. ASSUME NEW r \in Calls, Look(r) PROVE Owners'
  <2>1. PICK step \in {"done", "stale", "lock"} : pc' = [pc EXCEPT ![r] = step]
    BY <1>6 DEF Look, Return, Goto
  <2> QED BY <1>2, <1>6, <2>1 DEF Look, Step
<1>7. ASSUME NEW r \in Calls, Revalidate(r) PROVE Owners'
  <2>1. pc[r] = "stale" /\ pc' = [pc EXCEPT ![r] = "done"] /\ UNCHANGED fetchMu /\ refreshing'
    BY <1>7 DEF Revalidate, Return
  <2>2. CASE refreshing
    BY <1>7, <2>1, <2>2 DEF Owners, Revalidate
  <2>3. CASE ~refreshing
    <3>1. fetch' = [fetch EXCEPT ![<<r, "background">>] = [step |-> "sent", keys |-> {}, sent |-> now]]
      BY <1>7, <2>3 DEF Revalidate, Send
    <3>2. \A s \in Calls : fetch[<<s, "background">>].step = "none"
      BY <2>3 DEF Owners
    <3> QED BY <2>1, <3>1, <3>2 DEF Owners
  <2> QED BY <2>2, <2>3
<1>8. ASSUME NEW r \in Calls, Lock(r) PROVE Owners'
  <2>1. pc[r] = "lock" /\ fetchMu = Nobody /\ UNCHANGED refreshing
    BY <1>8 DEF Lock
  <2>2. CASE Found(r, TTL)
    BY <1>2, <1>8, <2>1, <2>2 DEF Lock, Return, Step
  <2>3. CASE ~Found(r, TTL)
    <3>1. /\ fetch' = [fetch EXCEPT ![<<r, "own">>] = [step |-> "sent", keys |-> {}, sent |-> now]]
          /\ pc' = [pc EXCEPT ![r] = "fetch"]
          /\ fetchMu' = r
      BY <1>8, <2>3 DEF Lock, Send, Goto
    <3> QED BY <2>1, <3>1 DEF Owners
  <2> QED BY <2>2, <2>3
<1>9. ASSUME NEW r \in Calls, Reread(r) PROVE Owners'
  BY <1>2, <1>9 DEF Reread, Return, Step
<1>10. ASSUME NEW r \in Calls, ClearFlag(r) PROVE Owners'
  <2>1. /\ fetch' = [fetch EXCEPT ![<<r, "background">>] = NoFetch]
        /\ UNCHANGED <<pc, fetchMu>> /\ NoFetch.step = "none"
        /\ fetch[<<r, "background">>].step = "ended"
    BY <1>10 DEF ClearFlag, NoFetch
  <2>2. \A s \in Calls : fetch'[<<s, "background">>].step = "none"
    BY <2>1 DEF Owners
  <2> QED BY <2>1, <2>2 DEF Owners
<1>11. ASSUME NEW p \in Calls \X Kinds, Produce(p) PROVE Owners'
  <2>1. /\ fetch[p].step = "sent"
        /\ fetch' = [fetch EXCEPT ![p] = [fetch[p] EXCEPT !.step = "answered", !.keys = published \ Unusable]]
        /\ UNCHANGED <<pc, fetchMu, refreshing>>
    BY <1>11 DEF Produce
  <2>2. \A q \in Calls \X Kinds : fetch'[q].step = IF q = p THEN "answered" ELSE fetch[q].step
    BY <2>1
  <2>3. p[1] \in Calls /\ (p = <<p[1], "own">> \/ p = <<p[1], "background">>)
    OBVIOUS
  <2> QED BY <2>1, <2>2, <2>3 DEF Owners
<1>12. ASSUME NEW p \in Calls \X Kinds, Apply(p) PROVE Owners'
  BY <1>12, OverOwners DEF Apply, Step
<1>13. ASSUME NEW p \in Calls \X Kinds, Fail(p) PROVE Owners'
  BY <1>13, OverOwners DEF Fail, Step
<1> QED BY <1>3, <1>4, <1>5, <1>6, <1>7, <1>8, <1>9, <1>10, <1>11, <1>12, <1>13, Cases

-----------------------------------------------------------------------------
\* A request under way was so before, or is sent now; it may have been answered now.
LEMMA Flights ==
  ASSUME CacheTypeOK, CacheNext, NEW p \in InFlight'
  PROVE  \/ p \in InFlight /\ fetch'[p] = fetch[p]
         \/ p \in InFlight /\ Produce(p) /\ fetch'[p].sent = fetch[p].sent
            /\ fetch'[p].keys = published \ Unusable
         \/ ~Tick /\ fetch'[p] = [step |-> "sent", keys |-> {}, sent |-> now]
<1> DEFINE Same == p \in InFlight /\ fetch'[p] = fetch[p]
           Answered == p \in InFlight /\ Produce(p) /\ fetch'[p].sent = fetch[p].sent
                       /\ fetch'[p].keys = published \ Unusable
           Sent == ~Tick /\ fetch'[p] = [step |-> "sent", keys |-> {}, sent |-> now]
           Goal == Same \/ Answered \/ Sent
<1> USE DEF CacheTypeOK
<1>0. p \in Calls \X Kinds /\ fetch'[p].step \in {"sent", "answered"}
  BY DEF InFlight
<1>1. UNCHANGED fetch => Goal
  BY <1>0 DEF InFlight
<1>2. ASSUME NEW q \in Calls \X Kinds, fetch'[q].step \in {"none", "ended"},
             \A z \in Calls \X Kinds : z # q => fetch'[z] = fetch[z]
      PROVE  Goal
  BY <1>0, <1>2 DEF InFlight
<1>3. ASSUME NEW q \in Calls \X Kinds, Send(q), UNCHANGED now PROVE Goal
  <2>1. ~Tick
    BY <1>3 DEF Tick
  <2>2. CASE q = p
    BY <1>0, <1>3, <2>1, <2>2 DEF Send
  <2>3. CASE q # p
    BY <1>0, <1>3, <2>3 DEF Send, InFlight
  <2> QED BY <2>2, <2>3
<1>4. ASSUME NEW q \in Calls \X Kinds, NEW step, Over(q, step) PROVE Goal
  <2>1. NoFetch.step = "none" /\ [NoFetch EXCEPT !.step = "ended"].step = "ended"
    BY DEF NoFetch
  <2>2. \/ fetch' = [fetch EXCEPT ![q] = NoFetch]
        \/ fetch' = [fetch EXCEPT ![q] = [NoFetch EXCEPT !.step = "ended"]]
    BY <1>4 DEF Over
  <2>3. fetch'[q].step \in {"none", "ended"} /\ \A z \in Calls \X Kinds : z # q => fetch'[z] = fetch[z]
    BY <2>1, <2>2
  <2> HIDE DEF Goal
  <2> QED BY <1>2, <2>3
<1>5. Rotate => Goal
  BY <1>1 DEF Rotate
<1>6. Tick => Goal
  BY <1>1 DEF Tick
<1>7. \A r \in Calls : \A k \in Kids \cup {Probe} : Begin(r, k) => Goal
  BY <1>1 DEF Begin
<1>8. \A r \in Calls : Look(r) => Goal
  BY <1>1 DEF Look
<1>9. \A r \in Calls : Revalidate(r) => Goal
  BY <1>1, <1>3, Pairs DEF Revalidate
<1>10. \A r \in Calls : Lock(r) => Goal
  BY <1>1, <1>3, Pairs DEF Lock
<1>11. \A r \in Calls : Reread(r) => Goal
  BY <1>1 DEF Reread
<1>12. \A r \in Calls : ClearFlag(r) => Goal
  <2> SUFFICES ASSUME NEW r \in Calls, ClearFlag(r) PROVE Goal
    BY DEF Goal
  <2> DEFINE q == <<r, "background">>
  <2>1. q \in Calls \X Kinds /\ NoFetch.step = "none"
    BY Pairs DEF NoFetch
  <2>2. fetch' = [fetch EXCEPT ![q] = NoFetch]
    BY DEF ClearFlag
  <2>3. fetch'[q].step \in {"none", "ended"} /\ \A z \in Calls \X Kinds : z # q => fetch'[z] = fetch[z]
    BY <2>1, <2>2
  <2> HIDE DEF Goal, q
  <2> QED BY <1>2, <2>1, <2>3
<1>13. \A q \in Calls \X Kinds : Produce(q) => Goal
  <2> SUFFICES ASSUME NEW q \in Calls \X Kinds, Produce(q) PROVE Goal
    BY DEF Goal
  <2>1. /\ fetch[q].step = "sent" /\ fetch[q] \in Fetch
        /\ fetch' = [fetch EXCEPT ![q] = [fetch[q] EXCEPT !.step = "answered", !.keys = published \ Unusable]]
    BY DEF Produce
  <2>2. CASE q = p
    BY <1>0, <2>1, <2>2 DEF InFlight, Fetch
  <2>3. CASE q # p
    BY <1>0, <2>1, <2>3 DEF InFlight
  <2> QED BY <2>2, <2>3
<1>14. \A q \in Calls \X Kinds : Apply(q) => Goal
  BY <1>4 DEF Apply
<1>15. \A q \in Calls \X Kinds : Fail(q) => Goal
  BY <1>4 DEF Fail
<1> HIDE DEF Goal
<1>16. Goal
  BY <1>5, <1>6, <1>7, <1>8, <1>9, <1>10, <1>11, <1>12, <1>13, <1>14, <1>15, Cases
<1> QED BY <1>16 DEF Goal

\* Only the clock changes the time, by one, only an answer the cache and only the
\* provider what it publishes.
LEMMA Progress ==
  ASSUME CacheNext
  PROVE  /\ now' = now \/ (Tick /\ now' = now + 1 /\ UNCHANGED <<published, changed, cache>>)
         /\ cache' = cache \/ (\E p \in Calls \X Kinds : Apply(p))
         /\ (UNCHANGED <<published, changed>>) \/ Rotate
<1> DEFINE Goal == /\ now' = now \/ (Tick /\ now' = now + 1 /\ UNCHANGED <<published, changed, cache>>)
                   /\ cache' = cache \/ (\E p \in Calls \X Kinds : Apply(p))
                   /\ (UNCHANGED <<published, changed>>) \/ Rotate
<1>1. Rotate => Goal
  BY DEF Rotate
<1>2. Tick => Goal
  BY DEF Tick
<1>3. \A r \in Calls : \A k \in Kids \cup {Probe} : Begin(r, k) => Goal
  BY DEF Begin
<1>4. \A r \in Calls : (Look(r) => Goal) /\ (Revalidate(r) => Goal) /\ (Lock(r) => Goal)
  BY DEF Look, Revalidate, Lock
<1>5. \A r \in Calls : (Reread(r) => Goal) /\ (ClearFlag(r) => Goal)
  BY DEF Reread, ClearFlag
<1>6. \A q \in Calls \X Kinds : (Produce(q) => Goal) /\ (Apply(q) => Goal) /\ (Fail(q) => Goal)
  BY DEF Produce, Apply, Fail
<1> HIDE DEF Goal
<1>7. Goal
  BY <1>1, <1>2, <1>3, <1>4, <1>5, <1>6, Cases
<1> QED BY <1>7 DEF Goal

\* The last time a kid was there, or was not, is never taken back.
LEMMA Monotone ==
  ASSUME CacheTypeOK, Times, CacheNext, NEW k \in Kids
  PROVE  /\ LastIn(k) \in Int /\ LastOut(k) \in Int
         /\ LastIn(k)' \in Int /\ LastOut(k)' \in Int
         /\ LastIn(k) <= LastIn(k)' /\ LastOut(k) <= LastOut(k)'
<1> USE DEF LastIn, LastOut
<1>1. /\ now \in Int /\ now' \in Int /\ now <= now'
      /\ changed[k] \in Int /\ changed[k] <= now
  BY Progress DEF CacheTypeOK, Times
<1>2. CASE UNCHANGED <<published, changed>>
  BY <1>1, <1>2
<1>3. CASE Rotate
  <2>1. now' = now
    BY <1>3 DEF Rotate
  <2>2. PICK c \in Kids \ Unusable : /\ published' = IF c \in published THEN published \ {c}
                                                                        ELSE published \cup {c}
                                     /\ changed' = [changed EXCEPT ![c] = now]
    BY <1>3 DEF Rotate
  <2>3. CASE c = k
    BY <1>1, <2>1, <2>2, <2>3 DEF CacheTypeOK
  <2>4. CASE c # k
    BY <1>1, <2>1, <2>2, <2>4 DEF CacheTypeOK
  <2> QED BY <2>3, <2>4
<1> QED BY <1>2, <1>3, Progress

LEMMA TimesStep == ASSUME CacheTypeOK, Times, CacheNext PROVE Times'
<1> USE Bounds, JWKSAssumption
<1>1. CacheTypeOK' /\ now \in Nat /\ now' \in Nat /\ now <= now' /\ cache.at \in Int
  BY TypeStep, Progress DEF CacheTypeOK
<1>2. ASSUME NEW k \in Kids PROVE LongAgo <= changed'[k] /\ changed'[k] <= now'
  <2>1. changed[k] \in Int /\ LongAgo <= changed[k] /\ changed[k] <= now
    BY DEF CacheTypeOK, Times
  <2>2. CASE UNCHANGED changed
    BY <1>1, <2>1, <2>2
  <2>3. CASE Rotate
    BY <1>1, <2>1, <2>3 DEF Rotate, CacheTypeOK
  <2> QED BY <2>2, <2>3, Progress
<1>3. /\ LongAgo <= cache'.at /\ cache'.at <= now'
      /\ cache'.at = LongAgo => cache'.keys = {}
  <2>1. CASE cache' = cache
    BY <1>1, <2>1 DEF Times
  <2>2. ASSUME NEW p \in Calls \X Kinds, Apply(p)
        PROVE  cache'.at = now /\ now' = now
    BY <2>2 DEF Apply
  <2> QED BY <1>1, <2>1, <2>2, Progress
<1>4. ASSUME NEW p \in InFlight' PROVE fetch'[p].sent <= now' /\ now' <= fetch'[p].sent + Timeout
  <2>1. CASE ~Tick /\ fetch'[p] = [step |-> "sent", keys |-> {}, sent |-> now]
    BY <1>1, <2>1, Progress
  <2>2. CASE p \in InFlight /\ fetch'[p].sent = fetch[p].sent
    <3>1. fetch[p].sent \in Int /\ fetch[p].sent <= now /\ now <= fetch[p].sent + Timeout
      BY <2>2 DEF InFlight, CacheTypeOK, Fetch, Times
    <3>2. CASE Tick
      <4>1. ~Overdue(p) /\ now' = now + 1
        BY <2>2, <3>2 DEF Tick, InFlight
      <4>2. now < fetch[p].sent + Timeout
        BY <1>1, <2>2, <3>1, <4>1 DEF Overdue, InFlight
      <4> QED BY <1>1, <2>2, <3>1, <4>1, <4>2
    <3>3. CASE ~Tick
      BY <1>1, <2>2, <3>1, <3>3, Progress
    <3> QED BY <3>2, <3>3
  <2> QED BY <2>1, <2>2, Flights
<1> QED BY <1>2, <1>3, <1>4 DEF Times

\* What the fetch under way will say, and what is in the cache, stay true.
LEMMA TruthStep == ASSUME CacheTypeOK, Times, Truth, CacheNext PROVE Truth'
<1> USE Bounds, JWKSAssumption
<1>1. /\ CacheTypeOK' /\ now \in Int /\ cache.at \in Int /\ cache.keys \subseteq Kids
      /\ cache'.at \in Int /\ cache'.keys \subseteq Kids
  BY TypeStep DEF CacheTypeOK
<1>2. ASSUME NEW p \in Calls \X Kinds, Apply(p)
      PROVE  /\ p \in InFlight /\ fetch[p].step = "answered"
             /\ fetch[p].sent \in Int /\ fetch[p].keys \subseteq Kids
             /\ cache'.keys = fetch[p].keys /\ cache'.at = now
             /\ now - Timeout <= fetch[p].sent
  <2>1. p \in InFlight /\ fetch[p].step = "answered" /\ cache' = [keys |-> fetch[p].keys, at |-> now]
    BY <1>2 DEF Apply, InFlight
  <2>2. fetch[p].sent \in Int /\ fetch[p].keys \subseteq Kids
    BY DEF CacheTypeOK, Fetch
  <2>3. now <= fetch[p].sent + Timeout
    BY <2>1 DEF Times
  <2> QED BY <1>1, <2>1, <2>2, <2>3
<1>3. ASSUME NEW k \in cache'.keys PROVE cache'.at - Timeout <= LastIn(k)'
  <2>0. k \in Kids
    BY <1>1
  <2>1. CASE cache' = cache
    BY <1>1, <2>0, <2>1, Monotone DEF Truth
  <2>2. ASSUME NEW p \in Calls \X Kinds, Apply(p) PROVE cache'.at - Timeout <= LastIn(k)'
    <3>1. fetch[p].sent <= LastIn(k)
      BY <1>2, <2>2 DEF Truth
    <3> QED BY <1>1, <1>2, <2>0, <2>2, <3>1, Monotone
  <2> QED BY <2>1, <2>2, Progress
<1>4. ASSUME NEW k \in (Kids \ Unusable) \ cache'.keys PROVE cache'.at - Timeout <= LastOut(k)'
  <2>1. CASE cache' = cache
    BY <1>1, <2>1, Monotone DEF Truth
  <2>2. ASSUME NEW p \in Calls \X Kinds, Apply(p) PROVE cache'.at - Timeout <= LastOut(k)'
    <3>1. fetch[p].sent <= LastOut(k)
      BY <1>2, <2>2 DEF Truth
    <3> QED BY <1>1, <1>2, <2>2, <3>1, Monotone
  <2> QED BY <2>1, <2>2, Progress
<1>5. ASSUME NEW p \in InFlight', fetch'[p].step = "answered"
      PROVE  /\ \A k \in fetch'[p].keys : fetch'[p].sent <= LastIn(k)'
             /\ \A k \in (Kids \ Unusable) \ fetch'[p].keys : fetch'[p].sent <= LastOut(k)'
  <2>0. p \in Calls \X Kinds /\ fetch'[p].keys \subseteq Kids /\ fetch'[p].sent \in Int
    BY <1>1 DEF InFlight, CacheTypeOK, Fetch
  <2>1. CASE p \in InFlight /\ fetch'[p] = fetch[p]
    <3>1. /\ \A k \in fetch[p].keys : fetch[p].sent <= LastIn(k)
          /\ \A k \in (Kids \ Unusable) \ fetch[p].keys : fetch[p].sent <= LastOut(k)
      BY <1>5, <2>1 DEF Truth
    <3> QED BY <2>0, <2>1, <3>1, Monotone
  <2>2. CASE p \in InFlight /\ Produce(p) /\ fetch'[p].sent = fetch[p].sent
             /\ fetch'[p].keys = published \ Unusable
    <3>1. fetch[p].sent <= now
      BY <2>2 DEF Times
    <3>2. \A k \in published \ Unusable : LastIn(k) = now
      BY DEF LastIn
    <3>3. \A k \in (Kids \ Unusable) \ (published \ Unusable) : LastOut(k) = now
      BY DEF LastOut
    <3> QED BY <1>1, <2>0, <2>2, <3>1, <3>2, <3>3, Monotone
  <2>3. fetch'[p] # [step |-> "sent", keys |-> {}, sent |-> now]
    BY <1>5
  <2> QED BY <2>1, <2>2, <2>3, Flights
<1> QED BY <1>3, <1>4, <1>5 DEF Truth

-----------------------------------------------------------------------------
\* A key that is found in the cache was published not long ago.
LEMMA FoundKey ==
  ASSUME CacheTypeOK, Times, Truth, NEW r \in Calls,
         Found(r, TTL) \/ Found(r, StaleMax) \/ (cache.at = now /\ kid[r] \in cache.keys)
  PROVE  kid[r] \in Kids /\ now - LastIn(kid[r]) <= MaxAge + Timeout
<1> USE Bounds, JWKSAssumption
<1>1. kid[r] \in cache.keys /\ cache.keys \subseteq Kids /\ cache.at \in Int /\ now \in Nat
  BY DEF Found, CacheTypeOK
<1>2. cache.at # LongAgo
  BY <1>1 DEF Times
<1>3. now - cache.at <= MaxAge
  BY <1>1, <1>2 DEF Found, CacheAge
<1>4. cache.at - Timeout <= LastIn(kid[r])
  BY <1>1 DEF Truth
<1>5. LastIn(kid[r]) \in Int
  BY <1>1 DEF LastIn, CacheTypeOK
<1> QED BY <1>1, <1>3, <1>4, <1>5

\* What the clock waits for.
LEMMA TickWaits ==
  ASSUME CacheTypeOK, Tick, NEW r \in Calls
  PROVE  pc[r] \notin {"look", "stale", "reread"} /\ (pc[r] = "lock" => fetchMu # Nobody)
BY DEF Tick, CanRun

LEMMA FreshStep == ASSUME CacheTypeOK, Owners, Times, Truth, Fresh, CacheNext PROVE Fresh'
<1> SUFFICES ASSUME NEW r \in Calls
             PROVE  /\ pc'[r] = "stale" => kid'[r] \in Kids /\ now' - LastIn(kid[r])' <= MaxAge + Timeout
                    /\ pc'[r] = "reread" => cache'.at = now'
  BY DEF Fresh
<1> DEFINE Goal == /\ pc'[r] = "stale" => kid'[r] \in Kids /\ now' - LastIn(kid[r])' <= MaxAge + Timeout
                   /\ pc'[r] = "reread" => cache'.at = now'
<1> USE Bounds, JWKSAssumption
<1>1. now \in Nat /\ now' \in Nat /\ CacheTypeOK'
  BY TypeStep DEF CacheTypeOK
<1>2. ASSUME ~Tick, pc'[r] = pc[r], kid'[r] = kid[r] PROVE Goal
  <2>1. now' = now
    BY <1>2, Progress
  <2>2. pc[r] = "stale" => kid[r] \in Kids /\ now - LastIn(kid[r]) <= MaxAge + Timeout
    BY DEF Fresh
  <2>3. pc[r] = "reread" => cache.at = now
    BY DEF Fresh
  <2>4. cache' = cache \/ cache'.at = now
    BY Progress DEF Apply
  <2>5. pc'[r] = "stale" => now' - LastIn(kid[r])' <= MaxAge + Timeout
    <3> SUFFICES ASSUME pc'[r] = "stale" PROVE now' - LastIn(kid[r])' <= MaxAge + Timeout
      OBVIOUS
    <3>1. kid[r] \in Kids /\ now - LastIn(kid[r]) <= MaxAge + Timeout
      BY <1>2, <2>2
    <3>2. kid'[r] = kid[r] /\ LastIn(kid[r]) <= (LastIn(kid[r]))'
      BY <1>2, <3>1, Monotone DEF LastIn
    <3> QED BY <1>1, <2>1, <3>1, <3>2, Monotone DEF LastIn
  <2> QED BY <1>2, <2>1, <2>2, <2>3, <2>4, <2>5
<1>3. ASSUME pc'[r] \notin {"stale", "reread"} PROVE Goal
  BY <1>3
<1>4. ASSUME NEW t \in Calls, NEW step \in Step, pc' = [pc EXCEPT ![t] = step], ~Tick,
             kid'[r] = kid[r], step \notin {"stale", "reread"}
      PROVE  Goal
  <2>1. CASE t = r
    BY <1>3, <1>4, <2>1 DEF CacheTypeOK
  <2>2. CASE t # r
    <3>1. pc'[r] = pc[r]
      BY <1>4, <2>2 DEF CacheTypeOK
    <3> HIDE DEF Goal
    <3> QED BY <1>2, <1>4, <3>1
  <2> QED BY <2>1, <2>2
<1>5. Rotate => Goal
  <2> SUFFICES ASSUME Rotate PROVE Goal
    BY DEF Goal
  <2>1. UNCHANGED <<now, pc, kid>> /\ ~Tick
    BY DEF Rotate, Tick
  <2> HIDE DEF Goal
  <2> QED BY <1>2, <2>1
<1>6. Tick => Goal
  <2> SUFFICES ASSUME Tick PROVE Goal
    BY DEF Goal
  <2>1. pc'[r] = pc[r]
    BY DEF Tick
  <2> HIDE DEF Goal
  <2> QED BY <1>3, <2>1, TickWaits
<1>7. ASSUME NEW t \in Calls, NEW k \in Kids \cup {Probe}, Begin(t, k) PROVE Goal
  <2>1. ~Tick /\ pc' = [pc EXCEPT ![t] = "look"] /\ kid' = [kid EXCEPT ![t] = k]
    BY <1>1, <1>7 DEF Begin, Tick
  <2>2. CASE t = r
    BY <1>3, <2>1, <2>2 DEF CacheTypeOK
  <2>3. CASE t # r
    <3>1. pc'[r] = pc[r] /\ kid'[r] = kid[r]
      BY <2>1, <2>3 DEF CacheTypeOK
    <3> HIDE DEF Goal
    <3> QED BY <1>2, <2>1, <3>1
  <2> QED BY <2>2, <2>3
<1>8. ASSUME NEW t \in Calls, Look(t) PROVE Goal
  <2>1. ~Tick /\ UNCHANGED <<now, published, changed, cache, kid>>
    BY <1>1, <1>8 DEF Look, Tick
  <2>2. CASE t = r /\ pc'[r] = "stale"
    <3>1. Found(r, StaleMax)
      BY <1>8, <2>2 DEF Look, Return, Goto, CacheTypeOK
    <3>2. kid[r] \in Kids /\ now - LastIn(kid[r]) <= MaxAge + Timeout
      BY <3>1, FoundKey
    <3> QED BY <2>1, <2>2, <3>2 DEF LastIn
  <2>3. PICK step \in {"done", "stale", "lock"} : pc' = [pc EXCEPT ![t] = step]
    BY <1>8 DEF Look, Return, Goto
  <2>4. CASE t = r /\ pc'[r] # "stale"
    <3>1. pc'[r] \notin {"stale", "reread"}
      BY <2>3, <2>4 DEF CacheTypeOK
    <3> HIDE DEF Goal
    <3> QED BY <1>3, <3>1
  <2>5. CASE t # r
    <3>1. pc'[r] = pc[r]
      BY <2>3, <2>5 DEF CacheTypeOK
    <3> HIDE DEF Goal
    <3> QED BY <1>2, <2>1, <3>1
  <2> QED BY <2>2, <2>4, <2>5
<1>9. ASSUME NEW t \in Calls, Revalidate(t) \/ Reread(t) PROVE Goal
  <2>1. ~Tick /\ pc' = [pc EXCEPT ![t] = "done"] /\ kid' = kid /\ "done" \in Step
    BY <1>1, <1>9 DEF Revalidate, Reread, Return, Tick, Step
  <2> HIDE DEF Goal
  <2> QED BY <1>4, <2>1
<1>10. ASSUME NEW t \in Calls, Lock(t) PROVE Goal
  <2>1. ~Tick /\ kid' = kid
    BY <1>1, <1>10 DEF Lock, Tick
  <2>2. PICK step \in {"done", "fetch"} : pc' = [pc EXCEPT ![t] = step]
    BY <1>10 DEF Lock, Return, Goto
  <2>3. step \in Step /\ step \notin {"stale", "reread"}
    BY DEF Step
  <2> HIDE DEF Goal
  <2> QED BY <1>4, <2>1, <2>2, <2>3
<1>11. ASSUME NEW t \in Calls, ClearFlag(t) PROVE Goal
  <2>1. ~Tick /\ UNCHANGED <<pc, kid>>
    BY <1>1, <1>11 DEF ClearFlag, Tick
  <2> HIDE DEF Goal
  <2> QED BY <1>2, <2>1
<1>12. ASSUME NEW p \in Calls \X Kinds, Produce(p) PROVE Goal
  <2>1. ~Tick /\ UNCHANGED <<pc, kid>>
    BY <1>1, <1>12 DEF Produce, Tick
  <2> HIDE DEF Goal
  <2> QED BY <1>2, <2>1
<1>13. ASSUME NEW p \in Calls \X Kinds, Fail(p) PROVE Goal
  <2>1. ~Tick /\ kid' = kid /\ "done" \in Step /\ p[1] \in Calls
    BY <1>1, <1>13 DEF Fail, Tick, Step
  <2>2. pc' = pc \/ pc' = [pc EXCEPT ![p[1]] = "done"]
    BY <1>13 DEF Fail, Over
  <2> HIDE DEF Goal
  <2> QED BY <1>2, <1>4, <2>1, <2>2
<1>14. ASSUME NEW p \in Calls \X Kinds, Apply(p) PROVE Goal
  <2>1. ~Tick /\ kid' = kid /\ now' = now /\ cache'.at = now /\ p[1] \in Calls
    BY <1>1, <1>14 DEF Apply, Tick
  <2>2. pc' = pc \/ pc' = [pc EXCEPT ![p[1]] = "reread"]
    BY <1>14 DEF Apply, Over
  <2>3. pc'[r] = pc[r] \/ pc'[r] = "reread"
    BY <2>1, <2>2 DEF CacheTypeOK
  <2>4. CASE pc'[r] = "reread"
    BY <2>1, <2>4
  <2>5. CASE pc'[r] = pc[r]
    <3> HIDE DEF Goal
    <3> QED BY <1>2, <2>1, <2>5
  <2> QED BY <2>3, <2>4, <2>5
<1> HIDE DEF Goal
<1>15. Goal
  BY <1>5, <1>6, <1>7, <1>8, <1>9, <1>10, <1>11, <1>12, <1>13, <1>14, Cases
<1> QED BY <1>15 DEF Goal

LEMMA InvStep == ASSUME IInv, [CacheNext]_cacheVars PROVE IInv'
<1>1. CASE CacheNext
  BY <1>1, TypeStep, OwnersStep, TimesStep, TruthStep, FreshStep DEF IInv
<1>2. CASE UNCHANGED cacheVars
  <2>1. /\ CacheTypeOK' = CacheTypeOK /\ Owners' = Owners /\ Times' = Times
        /\ Truth' = Truth /\ Fresh' = Fresh
    BY <1>2 DEF cacheVars, CacheTypeOK, Owners, Times, Truth, Fresh, InFlight, LastIn, LastOut
  <2> QED BY <2>1 DEF IInv
<1> QED BY <1>1, <1>2

LEMMA Inductive == CacheSpec => []IInv
BY Initially, InvStep, PTL DEF CacheSpec

\* The state of the cache and its calls is well typed, for any calls and keys.
THEOREM CacheTypeCorrect == CacheSpec => []CacheTypeOK
BY Inductive, PTL DEF IInv

\* At most one call and one goroutine fetch at any time.
THEOREM TwoFetches == CacheSpec => []FetchesBounded
<1>1. IInv => FetchesBounded
  <2> SUFFICES ASSUME IInv, NEW p \in InFlight, NEW q \in InFlight, p[2] = q[2] PROVE p = q
    BY DEF FetchesBounded
  <2>1. /\ p \in Calls \X Kinds /\ q \in Calls \X Kinds
        /\ fetch[p].step # "none" /\ fetch[q].step # "none"
    BY DEF InFlight
  <2>2. /\ p = <<p[1], p[2]>> /\ p[1] \in Calls /\ p[2] \in {"own", "background"}
        /\ q = <<q[1], p[2]>> /\ q[1] \in Calls
    BY <2>1 DEF Kinds
  <2>3. ASSUME p[2] = "own" PROVE p[1] = q[1]
    <3>1. fetch[<<p[1], "own">>].step # "none" /\ fetch[<<q[1], "own">>].step # "none"
      BY <2>1, <2>2, <2>3
    <3>2. p[1] = fetchMu /\ q[1] = fetchMu
      BY <2>2, <3>1 DEF IInv, Owners
    <3> QED BY <3>2
  <2>4. ASSUME p[2] = "background" PROVE p[1] = q[1]
    <3>1. fetch[<<p[1], "background">>].step # "none" /\ fetch[<<q[1], "background">>].step # "none"
      BY <2>1, <2>2, <2>4
    <3> QED BY <2>2, <3>1 DEF IInv, Owners
  <2> QED BY <2>2, <2>3, <2>4
<1> QED BY <1>1, Inductive, PTL

\* Who answers that a key is there, or that it is not.
LEMMA Answered ==
  ASSUME CacheTypeOK, CacheNext, NEW r \in Calls, NEW a \in {"key", "unknown"}, Answers(r, a)
  PROVE  /\ now' = now /\ UNCHANGED <<published, changed, kid>>
         /\ \/ a = "key" /\ Look(r) /\ Found(r, TTL)
            \/ a = "key" /\ Revalidate(r)
            \/ a = "key" /\ Lock(r) /\ Found(r, TTL)
            \/ a = "key" /\ Reread(r) /\ kid[r] \in cache.keys
            \/ a = "unknown" /\ Reread(r) /\ kid[r] \notin cache.keys
<1> DEFINE Goal == /\ now' = now /\ UNCHANGED <<published, changed, kid>>
                   /\ \/ a = "key" /\ Look(r) /\ Found(r, TTL)
                      \/ a = "key" /\ Revalidate(r)
                      \/ a = "key" /\ Lock(r) /\ Found(r, TTL)
                      \/ a = "key" /\ Reread(r) /\ kid[r] \in cache.keys
                      \/ a = "unknown" /\ Reread(r) /\ kid[r] \notin cache.keys
<1>1. answer[r] = "none" /\ answer'[r] = a /\ answer \in [Calls -> Answer]
  BY DEF Answers, CacheTypeOK
<1>2. ~UNCHANGED answer
  BY <1>1
<1>3. (Rotate => Goal) /\ (Tick => Goal)
  BY <1>2 DEF Rotate, Tick
<1>4. \A t \in Calls : \A k \in Kids \cup {Probe} : Begin(t, k) => Goal
  BY <1>2 DEF Begin
<1>5. ASSUME NEW t \in Calls, NEW b, answer' = [answer EXCEPT ![t] = b] PROVE t = r /\ b = a
  BY <1>1, <1>5
<1>6. ASSUME NEW t \in Calls, Look(t) PROVE Goal
  <2>1. CASE Found(t, TTL)
    BY <1>5, <1>6, <2>1 DEF Look, Return
  <2>2. CASE ~Found(t, TTL)
    BY <1>2, <1>6, <2>2 DEF Look, Goto
  <2> QED BY <2>1, <2>2
<1>7. ASSUME NEW t \in Calls, Revalidate(t) PROVE Goal
  BY <1>5, <1>7 DEF Revalidate, Return
<1>8. ASSUME NEW t \in Calls, Lock(t) PROVE Goal
  <2>1. CASE Found(t, TTL)
    BY <1>5, <1>8, <2>1 DEF Lock, Return
  <2>2. CASE ~Found(t, TTL)
    BY <1>2, <1>8, <2>2 DEF Lock, Goto
  <2> QED BY <2>1, <2>2
<1>9. ASSUME NEW t \in Calls, Reread(t) PROVE Goal
  BY <1>5, <1>9 DEF Reread, Return
<1>10. \A t \in Calls : ClearFlag(t) => Goal
  BY <1>2 DEF ClearFlag
<1>11. \A p \in Calls \X Kinds : (Produce(p) => Goal) /\ (Apply(p) => Goal)
  BY <1>2 DEF Produce, Apply
<1>12. ASSUME NEW p \in Calls \X Kinds, Fail(p) PROVE Goal
  <2>1. p[1] \in Calls /\ a # "unavailable"
    OBVIOUS
  <2>2. answer' = answer \/ answer' = [answer EXCEPT ![p[1]] = "unavailable"]
    BY <1>12 DEF Fail
  <2> QED BY <1>2, <1>5, <2>1, <2>2
<1> HIDE DEF Goal
<1>13. Goal
  BY <1>3, <1>4, <1>6, <1>7, <1>8, <1>9, <1>10, <1>11, <1>12, Cases
<1> QED BY <1>13 DEF Goal

\* A call that finds its key: it was published not long ago.
LEMMA KeyIsRecent ==
  ASSUME IInv, CacheNext, NEW r \in Calls, Answers(r, "key")
  PROVE  kid[r] \in Kids /\ now - LastIn(kid[r]) <= MaxAge + Timeout
<1> USE DEF IInv
<1>1. CASE Found(r, TTL)
  BY <1>1, FoundKey
<1>2. CASE Revalidate(r)
  BY <1>2 DEF Revalidate, Fresh
<1>3. CASE Reread(r) /\ kid[r] \in cache.keys
  BY <1>3, FoundKey DEF Reread, Fresh
<1> QED BY <1>1, <1>2, <1>3, Answered

\* A withdrawn key is used no longer than the cache's greatest age and one fetch.
THEOREM Revocation == CacheSpec => RevocationBound
<1>1. IInv /\ [CacheNext]_cacheVars
        => [\A r \in Calls : Answers(r, "key") => now - LastIn(kid[r]) <= MaxAge + Timeout]_cacheVars
  <2> SUFFICES ASSUME IInv, CacheNext, NEW r \in Calls, Answers(r, "key")
               PROVE  now - LastIn(kid[r]) <= MaxAge + Timeout
    OBVIOUS
  <2> QED BY KeyIsRecent
<1> QED BY <1>1, Inductive, PTL DEF CacheSpec, RevocationBound

\* A usable key is denied only if it was not published within the last Timeout.
THEOREM Unknown == CacheSpec => UnknownIsTrue
<1>1. IInv /\ [CacheNext]_cacheVars
        => [\A r \in Calls : Answers(r, "unknown") =>
              \/ kid[r] \notin Kids \ Unusable
              \/ now - LastOut(kid[r]) <= Timeout]_cacheVars
  <2> SUFFICES ASSUME IInv, CacheNext, NEW r \in Calls, Answers(r, "unknown"),
                      kid[r] \in Kids \ Unusable
               PROVE  now - LastOut(kid[r]) <= Timeout
    OBVIOUS
  <2> USE JWKSAssumption DEF IInv, CacheTypeOK
  <2>1. Reread(r) /\ kid[r] \notin cache.keys
    BY Answered
  <2>2. cache.at = now /\ now \in Nat
    BY <2>1 DEF Reread, Fresh
  <2>3. cache.at - Timeout <= LastOut(kid[r])
    BY <2>1 DEF Truth
  <2>4. LastOut(kid[r]) \in Int
    BY <2>2 DEF LastOut
  <2> QED BY <2>2, <2>3, <2>4
<1> QED BY <1>1, Inductive, PTL DEF CacheSpec, UnknownIsTrue

-----------------------------------------------------------------------------
(* How long a call waits.                                                  *)

Spent == Cardinality(Finished) * Timeout + Held

LEMMA Times1 == \A a, b, c \in Nat : a <= b => a * c <= b * c
OBVIOUS

LEMMA Times2 == \A a, c \in Nat : (a + 1) * c = a * c + c
OBVIOUS

\* The owner of fetchMu has a request under way and does not count as over.
LEMMA HeldBound ==
  ASSUME IInv
  PROVE  /\ Held \in Nat /\ Held <= Timeout
         /\ fetchMu # Nobody => fetchMu \in Calls /\ pc[fetchMu] = "fetch"
         /\ fetchMu = Nobody => Held = 0
<1> USE JWKSAssumption DEF IInv, CacheTypeOK
<1>1. CASE fetchMu = Nobody
  BY <1>1 DEF Held
<1>2. CASE fetchMu # Nobody
  <2>1. fetchMu \in Calls /\ pc[fetchMu] = "fetch"
    BY <1>2 DEF Owners
  <2>2. fetch[<<fetchMu, "own">>].step \in {"sent", "answered"}
    BY <2>1 DEF Owners
  <2>3. <<fetchMu, "own">> \in InFlight
    BY <2>1, <2>2, Pairs DEF InFlight
  <2>4. fetch[<<fetchMu, "own">>].sent \in Int
    BY <2>1, Pairs DEF Fetch
  <2>5. fetch[<<fetchMu, "own">>].sent <= now /\ now <= fetch[<<fetchMu, "own">>].sent + Timeout
    BY <2>3 DEF Times
  <2> QED BY <1>2, <2>1, <2>4, <2>5 DEF Held
<1> QED BY <1>1, <1>2

\* Finished calls stay finished, and are no more than there are calls.
LEMMA FinishedCount ==
  ASSUME IInv
  PROVE  /\ IsFiniteSet(Finished) /\ Cardinality(Finished) \in Nat
         /\ IsFiniteSet(Calls) /\ Cardinality(Calls) \in Nat
         /\ Cardinality(Finished) <= Cardinality(Calls)
         /\ fetchMu # Nobody => Cardinality(Finished) + 1 <= Cardinality(Calls)
<1>1. Finished \subseteq Calls /\ IsFiniteSet(Calls)
  BY JWKSAssumption DEF Finished
<1>2. /\ IsFiniteSet(Finished) /\ Cardinality(Finished) \in Nat /\ Cardinality(Calls) \in Nat
      /\ Cardinality(Finished) <= Cardinality(Calls)
  BY <1>1, FS_Subset, FS_CardinalityType
<1>3. ASSUME fetchMu # Nobody PROVE Cardinality(Finished) + 1 <= Cardinality(Calls)
  <2>1. fetchMu \in Calls /\ fetchMu \notin Finished
    BY <1>3, HeldBound DEF Finished
  <2>2. Finished # Calls
    BY <2>1
  <2>3. Cardinality(Finished) # Cardinality(Calls)
    BY <1>1, <2>2, FS_Subset
  <2> QED BY <1>2, <2>3
<1> QED BY <1>1, <1>2, <1>3

\* What a step does to a call under way: it began before and has not come back to the
\* first look, or it begins now.
LEMMA CallStep ==
  ASSUME CacheTypeOK, Owners, CacheNext, NEW r \in Calls
  PROVE  /\ pc[r] \in {"reread", "done"} => pc'[r] \in {"reread", "done"}
         /\ pc'[r] \notin {"idle", "done"} =>
              \/ /\ pc[r] \notin {"idle", "done"} /\ began'[r] = began[r]
                 /\ pc'[r] \in {"look", "stale"} => pc[r] \in {"look", "stale"}
              \/ began'[r] = now /\ now' = now
<1> DEFINE Goal == /\ pc[r] \in {"reread", "done"} => pc'[r] \in {"reread", "done"}
                   /\ pc'[r] \notin {"idle", "done"} =>
                        \/ /\ pc[r] \notin {"idle", "done"} /\ began'[r] = began[r]
                           /\ pc'[r] \in {"look", "stale"} => pc[r] \in {"look", "stale"}
                        \/ began'[r] = now /\ now' = now
<1> USE DEF CacheTypeOK
<1>1. (Rotate => Goal) /\ (Tick => Goal)
  BY DEF Rotate, Tick
<1>2. \A t \in Calls : \A k \in Kids \cup {Probe} : Begin(t, k) => Goal
  BY DEF Begin
<1>3. \A t \in Calls : Look(t) => Goal
  BY DEF Look, Return, Goto
<1>4. \A t \in Calls : (Revalidate(t) => Goal) /\ (Reread(t) => Goal) /\ (ClearFlag(t) => Goal)
  BY DEF Revalidate, Reread, ClearFlag, Return
<1>5. \A t \in Calls : Lock(t) => Goal
  BY DEF Lock, Return, Goto
<1>6. \A p \in Calls \X Kinds : Produce(p) => Goal
  BY DEF Produce
<1>7. ASSUME NEW p \in Calls \X Kinds, NEW step \in {"reread", "done"}, Over(p, step),
             fetch[p].step \in {"sent", "answered"}, UNCHANGED began
      PROVE  Goal
  <2>1. CASE p[2] = "own"
    <3>1. PICK t \in Calls : p = <<t, "own">>
      BY <2>1 DEF Kinds
    <3>2. pc[t] = "fetch" /\ pc' = [pc EXCEPT ![t] = step]
      BY <1>7, <2>1, <3>1 DEF Over, Owners
    <3> QED BY <1>7, <3>2
  <2>2. CASE p[2] # "own"
    BY <1>7, <2>2 DEF Over
  <2> QED BY <2>1, <2>2
<1>8. \A p \in Calls \X Kinds : (Apply(p) => Goal) /\ (Fail(p) => Goal)
  BY <1>7 DEF Apply, Fail
<1> HIDE DEF Goal
<1>9. Goal
  BY <1>1, <1>2, <1>3, <1>4, <1>5, <1>6, <1>8, Cases
<1> QED BY <1>9 DEF Goal

LEMMA FinishedGrows ==
  ASSUME IInv, CacheNext
  PROVE  /\ Finished \subseteq Finished'
         /\ Cardinality(Finished) <= Cardinality(Finished')
<1>1. IInv'
  BY InvStep
<1>2. Finished \subseteq Finished'
  BY CallStep DEF Finished, IInv
<1>3. IsFiniteSet(Finished')
  BY JWKSAssumption, FS_Subset DEF Finished
<1> QED BY <1>2, <1>3, FS_Subset

\* The numbers are natural ones.
LEMMA Counts == IInv => Held \in Nat /\ Cardinality(Finished) \in Nat /\ now \in Nat
BY HeldBound, FinishedCount DEF IInv, CacheTypeOK

LEMMA CountsNext == IInv' => Held' \in Nat /\ Cardinality(Finished') \in Nat /\ now' \in Nat
<1>1. IInv' => (Held \in Nat /\ Cardinality(Finished) \in Nat /\ now \in Nat)'
  BY Counts, PTL
<1> QED BY <1>1

\* Time that was spent stays spent, and the clock only adds to it.
LEMMA SpentGrows ==
  ASSUME IInv, CacheNext, ~Tick
  PROVE  Spent <= Spent'
<1> USE JWKSAssumption DEF Spent
<1>0. IInv' /\ Held \in Nat /\ Held' \in Nat /\ Cardinality(Finished) \in Nat
      /\ Cardinality(Finished') \in Nat
  BY InvStep, Counts, CountsNext
<1>1. Cardinality(Finished) * Timeout <= Cardinality(Finished') * Timeout
  BY <1>0, Times1, FinishedGrows
<1>2. /\ Cardinality(Finished) * Timeout \in Int /\ Cardinality(Finished') * Timeout \in Int
      /\ Timeout \in Nat
  BY <1>0
<1>3. ASSUME Held <= Held' PROVE Spent <= Spent'
  BY <1>0, <1>1, <1>2, <1>3
<1>4. ASSUME UNCHANGED <<now, fetchMu>>,
             \A s \in Calls : fetch'[<<s, "own">>].sent = fetch[<<s, "own">>].sent
      PROVE  Spent <= Spent'
  <2>1. fetchMu \in Calls \cup {Nobody}
    BY DEF IInv, CacheTypeOK
  <2>2. Held' = Held
    BY <1>4, <2>1 DEF Held
  <2>3. Held <= Held'
    BY <1>0, <2>2
  <2> HIDE DEF Spent
  <2> QED BY <1>3, <2>3
<1>5. ASSUME NEW p \in Calls \X Kinds, NEW step \in {"reread", "done"}, Over(p, step),
             fetch[p].step \in {"sent", "answered"}, UNCHANGED now
      PROVE  Spent <= Spent'
  <2> USE DEF IInv, CacheTypeOK
  <2>0. p = <<p[1], p[2]>> /\ p[1] \in Calls /\ p[2] \in {"own", "background"}
    BY DEF Kinds
  <2>1. ASSUME p[2] = "own" PROVE Spent <= Spent'
    <3>1. fetch[<<p[1], "own">>].step # "none"
      BY <1>5, <2>0, <2>1
    <3>2. pc[p[1]] = "fetch" /\ pc' = [pc EXCEPT ![p[1]] = step]
      BY <1>5, <2>0, <2>1, <3>1 DEF Over, Owners
    <3>3. p[1] \in Finished' /\ p[1] \notin Finished
      BY <2>0, <3>2 DEF Finished
    <3>4. IsFiniteSet(Finished') /\ Finished \subseteq Finished' /\ Finished # Finished'
      BY <1>0, <3>3, FinishedGrows, FS_Subset DEF Finished
    <3>5. Cardinality(Finished) + 1 <= Cardinality(Finished')
      <4>1. Cardinality(Finished) <= Cardinality(Finished') /\ Cardinality(Finished) # Cardinality(Finished')
        BY <3>4, FS_Subset
      <4> HIDE DEF IInv, CacheTypeOK
      <4> QED BY <1>0, <4>1
    <3> HIDE DEF IInv, CacheTypeOK
    <3>6. (Cardinality(Finished) + 1) * Timeout <= Cardinality(Finished') * Timeout
      <4>1. Cardinality(Finished) + 1 \in Nat
        BY <1>0
      <4> QED BY <1>0, <3>5, <4>1, Times1
    <3>7. (Cardinality(Finished) + 1) * Timeout = Cardinality(Finished) * Timeout + Timeout
      BY <1>0, Times2
    <3>8. Held <= Timeout
      BY HeldBound
    <3> QED BY <1>0, <1>2, <3>6, <3>7, <3>8
  <2>2. ASSUME p[2] = "background" PROVE Spent <= Spent'
    <3>1. /\ fetch' = [fetch EXCEPT ![p] = [NoFetch EXCEPT !.step = "ended"]]
          /\ UNCHANGED fetchMu
      BY <1>5, <2>2 DEF Over
    <3>2. \A s \in Calls : <<s, "own">> \in Calls \X Kinds /\ <<s, "own">> # p
      <4>1. p = <<p[1], "background">>
        BY <2>0, <2>2
      <4>2. \A s \in Calls : <<s, "own">> # <<p[1], "background">>
        OBVIOUS
      <4> QED BY <4>1, <4>2, Pairs
    <3>3. \A s \in Calls : fetch'[<<s, "own">>].sent = fetch[<<s, "own">>].sent
      BY <3>1, <3>2
    <3> HIDE DEF Spent
    <3> QED BY <1>4, <1>5, <3>1, <3>3
  <2> QED BY <2>0, <2>1, <2>2
<1> DEFINE Goal == Spent <= Spent'
<1> HIDE DEF Spent
<1>6. (Rotate => Goal) /\ (Tick => Goal)
  BY <1>4 DEF Rotate
<1>7. \A r \in Calls : \A k \in Kids \cup {Probe} : Begin(r, k) => Goal
  BY <1>4 DEF Begin
<1>8. \A r \in Calls : (Look(r) => Goal) /\ (Reread(r) => Goal)
  BY <1>4 DEF Look, Reread
<1>9. \A r \in Calls : (Revalidate(r) => Goal) /\ (ClearFlag(r) => Goal)
  <2> SUFFICES ASSUME NEW r \in Calls, Revalidate(r) \/ ClearFlag(r) PROVE Goal
    OBVIOUS
  <2>1. fetch \in [Calls \X Kinds -> Fetch] /\ UNCHANGED <<now, fetchMu>>
    BY DEF IInv, CacheTypeOK, Revalidate, ClearFlag
  <2>2. \A s \in Calls : <<s, "own">> # <<r, "background">>
    OBVIOUS
  <2>3. \A s \in Calls : fetch'[<<s, "own">>] = fetch[<<s, "own">>]
    BY <2>1, <2>2, Pairs DEF Revalidate, Send, ClearFlag
  <2> QED BY <1>4, <2>1, <2>3
<1>10. ASSUME NEW r \in Calls, Lock(r) PROVE Goal
  <2>1. CASE Found(r, TTL)
    BY <1>4, <1>10, <2>1 DEF Lock
  <2>2. CASE ~Found(r, TTL)
    <3>1. fetchMu = Nobody
      BY <1>10 DEF Lock
    <3>2. Held = 0
      BY <3>1, HeldBound
    <3> QED BY <1>0, <1>3, <3>2
  <2> QED BY <2>1, <2>2
<1>11. ASSUME NEW p \in Calls \X Kinds, Produce(p) PROVE Goal
  <2>1. /\ fetch' = [fetch EXCEPT ![p] = [fetch[p] EXCEPT !.step = "answered", !.keys = published \ Unusable]]
        /\ UNCHANGED <<now, fetchMu>> /\ fetch \in [Calls \X Kinds -> Fetch]
    BY <1>11 DEF Produce, IInv, CacheTypeOK
  <2>2. \A q \in Calls \X Kinds : fetch'[q].sent = fetch[q].sent
    BY <2>1 DEF Fetch
  <2> QED BY <1>4, <2>1, <2>2, Pairs
<1>12. \A p \in Calls \X Kinds : (Apply(p) => Goal) /\ (Fail(p) => Goal)
  BY <1>5 DEF Apply, Fail
<1> HIDE DEF Goal
<1>13. Goal
  BY <1>6, <1>7, <1>8, <1>9, <1>10, <1>11, <1>12, Cases
<1> QED BY <1>13 DEF Goal

\* While a call is under way time passes only as somebody's fetch does.
LEMMA WaitStep == ASSUME IInv, Waits, CacheNext PROVE Waits'
<1> USE JWKSAssumption
<1>0. /\ IInv' /\ Held \in Nat /\ Held' \in Nat /\ Cardinality(Finished) \in Nat
      /\ Cardinality(Finished') \in Nat /\ now \in Nat /\ now' \in Nat
      /\ \A r \in Calls : began[r] \in Int /\ began'[r] \in Int
  BY InvStep, Counts, CountsNext DEF IInv, CacheTypeOK
<1>1. Spent \in Nat /\ Spent' \in Nat
  BY <1>0 DEF Spent
<1> SUFFICES ASSUME NEW r \in Calls, pc'[r] \notin {"idle", "done"}
             PROVE  /\ now' - began'[r] <= Spent'
                    /\ pc'[r] \in {"look", "stale"} => now' = began'[r]
  BY DEF Waits, Spent
<1>2. CASE ~Tick
  <2>1. now' = now /\ Spent <= Spent'
    BY <1>2, Progress, SpentGrows
  <2>2. CASE /\ pc[r] \notin {"idle", "done"} /\ began'[r] = began[r]
             /\ pc'[r] \in {"look", "stale"} => pc[r] \in {"look", "stale"}
    <3>1. now - began[r] <= Spent /\ (pc[r] \in {"look", "stale"} => now = began[r])
      BY <2>2 DEF Waits, Spent
    <3> QED BY <1>0, <1>1, <2>1, <2>2, <3>1
  <2>3. CASE began'[r] = now
    BY <1>0, <1>1, <2>1, <2>3
  <2> QED BY <2>2, <2>3, CallStep DEF IInv
<1>3. CASE Tick
  <2>1. /\ now' = now + 1 /\ UNCHANGED <<fetchMu, fetch, pc, began>>
    BY <1>3 DEF Tick
  <2>2. pc[r] \in {"lock", "fetch"}
    BY <1>3, <2>1, TickWaits DEF IInv, CacheTypeOK, Step
  <2>3. fetchMu # Nobody
    BY <1>3, <2>2, TickWaits DEF IInv, Owners
  <2>4. fetch[<<fetchMu, "own">>].sent \in Int
    BY <2>3, Pairs DEF IInv, CacheTypeOK, Fetch
  <2>5. Held' = Held + 1
    BY <1>0, <2>1, <2>3, <2>4 DEF Held
  <2>6. Finished' = Finished
    BY <2>1 DEF Finished
  <2>7. Spent' = Spent + 1
    BY <1>0, <2>5, <2>6 DEF Spent
  <2>8. now - began[r] <= Spent
    BY <2>2 DEF Waits, Spent
  <2>9. pc'[r] \notin {"look", "stale"} /\ began'[r] = began[r]
    BY <2>1, <2>2
  <2> QED BY <1>0, <1>1, <2>1, <2>7, <2>8, <2>9
<1> QED BY <1>2, <1>3

LEMMA WaitBound == ASSUME IInv, Waits PROVE WaitBounded
<1> USE JWKSAssumption
<1> DEFINE N == Cardinality(Finished)
           C == Cardinality(Calls)
<1>1. N \in Nat /\ C \in Nat /\ N <= C /\ (fetchMu # Nobody => N + 1 <= C)
  BY FinishedCount
<1>2. Held \in Nat /\ Held <= Timeout /\ (fetchMu = Nobody => Held = 0)
  BY HeldBound
<1>3. ASSUME NEW r \in Calls, pc[r] \notin {"idle", "done"} PROVE now - began[r] <= N * Timeout + Held
  BY <1>3 DEF Waits
<1>4. now \in Int /\ \A r \in Calls : began[r] \in Int
  BY DEF IInv, CacheTypeOK
<1> HIDE DEF N, C
<1>5. N * Timeout + Held <= C * Timeout
  <2>1. CASE fetchMu = Nobody
    <3>1. N * Timeout <= C * Timeout
      BY <1>1, Times1
    <3> QED BY <1>1, <1>2, <2>1, <3>1
  <2>2. CASE fetchMu # Nobody
    <3>1. (N + 1) * Timeout <= C * Timeout /\ (N + 1) * Timeout = N * Timeout + Timeout
      BY <1>1, <2>2, Times1, Times2
    <3>2. N * Timeout \in Int /\ C * Timeout \in Int
      BY <1>1
    <3> QED BY <1>2, <3>1, <3>2
  <2> QED BY <2>1, <2>2
<1>6. N * Timeout \in Int /\ C * Timeout \in Int
  BY <1>1
<1>7. ASSUME NEW r \in Calls, pc[r] \notin {"idle", "done"} PROVE now - began[r] <= C * Timeout
  BY <1>2, <1>3, <1>4, <1>5, <1>6, <1>7
<1> QED BY <1>7 DEF WaitBounded, C

\* Every call is answered within as many time-outs as there are calls.
THEOREM BoundedWait == CacheSpec => []WaitBounded
<1>1. CacheInit => Waits
  BY DEF CacheInit, Waits
<1>2. IInv /\ Waits /\ [CacheNext]_cacheVars => Waits'
  <2>1. ASSUME Waits, UNCHANGED cacheVars PROVE Waits'
    <3>1. Waits' = Waits
      BY <2>1 DEF cacheVars, Waits, Finished, Held
    <3> QED BY <2>1, <3>1
  <2> QED BY <2>1, WaitStep
<1>3. IInv /\ Waits => WaitBounded
  BY WaitBound
<1> QED BY <1>1, <1>2, <1>3, Inductive, PTL DEF CacheSpec

-----------------------------------------------------------------------------
(* The chain.                                                              *)

\* A call has its answer when it is over.
Done == \A r \in Calls : answer[r] = "none" <=> pc[r] # "done"

\* A request is not the warm-up, asks for its token's key, and a key that was found
\* was published not long ago.
Asked ==
  /\ req[Warmup] = None
  /\ \A r \in Calls : req[r] # None /\ reply[r] = "none" =>
       /\ kid[r] = req[r].token.kid
       /\ answer[r] = "key" => kid[r] \in Kids /\ now - LastIn(kid[r]) <= MaxAge + Timeout

ChainTyped == req \in [Calls -> Incoming \cup {None}] /\ reply \in [Calls -> Reply]

LEMMA DoneStep == ASSUME CacheTypeOK, Owners, Done, CacheNext PROVE Done'
<1> USE DEF CacheTypeOK, Answer
<1>1. ASSUME UNCHANGED <<pc, answer>> PROVE Done'
  BY <1>1 DEF Done
<1>2. ASSUME NEW r \in Calls, NEW step \in Step, step # "done", pc[r] # "done",
             pc' = [pc EXCEPT ![r] = step], UNCHANGED answer
      PROVE  Done'
  BY <1>2 DEF Done
<1>3. ASSUME NEW r \in Calls, NEW a \in Answer, a # "none", Return(r, a) PROVE Done'
  BY <1>3 DEF Done, Return
<1>4. (Rotate => Done') /\ (Tick => Done')
  BY <1>1 DEF Rotate, Tick
<1>5. \A r \in Calls : \A k \in Kids \cup {Probe} : Begin(r, k) => Done'
  BY <1>2 DEF Begin, Step
<1>6. ASSUME NEW r \in Calls, Look(r) PROVE Done'
  <2>1. CASE Found(r, TTL)
    BY <1>3, <1>6, <2>1 DEF Look
  <2>2. CASE ~Found(r, TTL)
    <3>1. PICK step \in {"stale", "lock"} : Goto(r, step)
      BY <1>6, <2>2 DEF Look
    <3> QED BY <1>2, <1>6, <3>1 DEF Look, Goto, Step
  <2> QED BY <2>1, <2>2
<1>7. \A r \in Calls : Revalidate(r) => Done'
  BY <1>3 DEF Revalidate
<1>8. ASSUME NEW r \in Calls, Lock(r) PROVE Done'
  <2>1. CASE Found(r, TTL)
    BY <1>3, <1>8, <2>1 DEF Lock
  <2>2. CASE ~Found(r, TTL)
    BY <1>2, <1>8, <2>2 DEF Lock, Goto, Step
  <2> QED BY <2>1, <2>2
<1>9. \A r \in Calls : Reread(r) => Done'
  <2> SUFFICES ASSUME NEW r \in Calls, Reread(r) PROVE Done'
    OBVIOUS
  <2>1. PICK a \in {"key", "unknown"} : Return(r, a)
    BY DEF Reread
  <2> QED BY <1>3, <2>1
<1>10. \A r \in Calls : ClearFlag(r) => Done'
  BY <1>1 DEF ClearFlag
<1>11. \A p \in Calls \X Kinds : Produce(p) => Done'
  BY <1>1 DEF Produce
<1>12. ASSUME NEW p \in Calls \X Kinds, fetch[p].step \in {"sent", "answered"}, p[2] = "own"
       PROVE  p[1] \in Calls /\ pc[p[1]] = "fetch"
  <2>1. p = <<p[1], "own">> /\ p[1] \in Calls
    BY <1>12 DEF Kinds
  <2>2. fetch[<<p[1], "own">>].step # "none"
    BY <1>12, <2>1
  <2> QED BY <2>1, <2>2 DEF Owners
<1>13. ASSUME NEW p \in Calls \X Kinds, Apply(p) PROVE Done'
  <2>1. CASE p[2] = "own"
    BY <1>2, <1>12, <1>13, <2>1 DEF Apply, Over, Step
  <2>2. CASE p[2] # "own"
    BY <1>1, <1>13, <2>2 DEF Apply, Over
  <2> QED BY <2>1, <2>2
<1>14. ASSUME NEW p \in Calls \X Kinds, Fail(p) PROVE Done'
  <2>1. CASE p[2] = "own"
    BY <1>3, <1>12, <1>14, <2>1 DEF Fail, Over, Return
  <2>2. CASE p[2] # "own"
    BY <1>1, <1>14, <2>2 DEF Fail, Over
  <2> QED BY <2>1, <2>2
<1> QED BY <1>4, <1>5, <1>6, <1>7, <1>8, <1>9, <1>10, <1>11, <1>13, <1>14, Cases

\* Every key that is looked up belongs to a token, or is the probe's.
LEMMA CallsAreTyped ==
  ASSUME NEW q \in Incoming
  PROVE  /\ q.token \in Token /\ q.route \in Route /\ q # None
         /\ Front(q) = "none" => q.token.kid \in Kids \cup {Probe}
         /\ Front(q) \in Reply
<1>1. q \in Request
  BY AccessAssumption
<1>2. q.token \in Token /\ q.route \in Route /\ q # None
  BY <1>1, AccessAssumption DEF Request
<1>3. q.token.kid \in Kids \cup {Probe, None}
  BY <1>2 DEF Token
<1>4. Front(q) = "none" => q.token.kid # None
  BY DEF Front, Authz
<1>5. Front(q) \in Reply
  BY DEF Front, Authz, Reply
<1> QED BY <1>2, <1>3, <1>4, <1>5

\* A step of the chain is a step of the cache.
LEMMA ChainStep == ASSUME Next PROVE [CacheNext]_cacheVars
<1>1. CASE WarmUp
  BY <1>1, AccessAssumption DEF WarmUp, CacheNext
<1>2. ASSUME NEW r \in Calls, Receive(r) PROVE [CacheNext]_cacheVars
  <2>1. PICK q \in Incoming : IF Front(q) = "none" THEN Begin(r, q.token.kid) ELSE UNCHANGED cacheVars
    BY <1>2 DEF Receive
  <2> QED BY <2>1, CallsAreTyped DEF CacheNext
<1>3. ASSUME NEW r \in Calls, Conclude(r) PROVE [CacheNext]_cacheVars
  BY <1>3 DEF Conclude
<1>4. CASE CacheStep
  BY <1>4 DEF CacheNext
<1>5. CASE Pass
  BY <1>5 DEF Pass, CacheNext
<1> QED BY <1>1, <1>2, <1>3, <1>4, <1>5 DEF Next

\* What is proved of the cache holds of the cache in the chain.
THEOREM ChainUsesCache == Spec => CacheSpec
<1>1. AccessInit => CacheInit
  BY DEF AccessInit
<1>2. [Next]_accessVars => [CacheNext]_cacheVars
  BY ChainStep DEF accessVars, cacheVars
<1> QED BY <1>1, <1>2, PTL DEF Spec, CacheSpec

\* A call is answered once.
LEMMA AnsweredOnce ==
  ASSUME CacheTypeOK, Owners, Done, CacheNext, NEW r \in Calls
  PROVE  answer'[r] = answer[r] \/ answer[r] = "none"
<1> DEFINE Goal == answer'[r] = answer[r] \/ answer[r] = "none"
<1> USE DEF CacheTypeOK
<1>1. UNCHANGED answer => Goal
  OBVIOUS
<1>2. ASSUME NEW t \in Calls, NEW a, pc[t] # "done", answer' = [answer EXCEPT ![t] = a] PROVE Goal
  BY <1>2 DEF Done
<1>3. (Rotate => Goal) /\ (Tick => Goal)
  BY <1>1 DEF Rotate, Tick
<1>4. \A t \in Calls : \A k \in Kids \cup {Probe} : Begin(t, k) => Goal
  BY <1>1 DEF Begin
<1>5. \A t \in Calls : (Look(t) => Goal) /\ (Revalidate(t) => Goal) /\ (Lock(t) => Goal)
  BY <1>1, <1>2 DEF Look, Revalidate, Lock, Return, Goto
<1>6. \A t \in Calls : (Reread(t) => Goal) /\ (ClearFlag(t) => Goal)
  BY <1>1, <1>2 DEF Reread, ClearFlag, Return
<1>7. \A p \in Calls \X Kinds : (Produce(p) => Goal) /\ (Apply(p) => Goal)
  BY <1>1 DEF Produce, Apply
<1>8. ASSUME NEW p \in Calls \X Kinds, Fail(p) PROVE Goal
  <2>1. CASE p[2] = "own"
    <3>1. p = <<p[1], "own">> /\ p[1] \in Calls
      BY <2>1 DEF Kinds
    <3>2. fetch[<<p[1], "own">>].step # "none"
      BY <1>8, <3>1 DEF Fail
    <3>3. pc[p[1]] # "done"
      BY <3>1, <3>2 DEF Owners
    <3> QED BY <1>2, <1>8, <2>1, <3>1, <3>3 DEF Fail
  <2>2. CASE p[2] # "own"
    BY <1>1, <1>8, <2>2 DEF Fail
  <2> QED BY <2>1, <2>2
<1> HIDE DEF Goal
<1>9. Goal
  BY <1>3, <1>4, <1>5, <1>6, <1>7, <1>8, Cases
<1> QED BY <1>9 DEF Goal

\* Receive and Conclude set the reply of their request alone.
LEMMA ChainTypedStep == ASSUME CacheTypeOK, ChainTyped, Next PROVE ChainTyped'
<1> USE DEF ChainTyped
<1>1. CASE WarmUp
  BY <1>1 DEF WarmUp
<1>2. ASSUME NEW r \in Calls, Receive(r) PROVE ChainTyped'
  BY <1>2, CallsAreTyped DEF Receive
<1>3. ASSUME NEW r \in Calls, Conclude(r) PROVE ChainTyped'
  <2>1. Behind(r) \in Reply
    BY DEF Behind, Authz, Reply
  <2> QED BY <1>3, <2>1 DEF Conclude
<1>4. CASE CacheStep /\ UNCHANGED <<req, reply>>
  BY <1>4
<1>5. CASE Pass
  BY <1>5 DEF Pass
<1> QED BY <1>1, <1>2, <1>3, <1>4, <1>5 DEF Next

\* The steps of the cache change no name that is looked up and leave the time alone.
LEMMA CacheStepKeeps ==
  ASSUME CacheStep
  PROVE  UNCHANGED <<kid, now>>
BY DEF CacheStep, Work, Network, Rotate, Look, Revalidate, Lock, Reread, ClearFlag, Produce, Apply, Fail

LEMMA AskedStep ==
  ASSUME IInv, Done, ChainTyped, Asked, Next
  PROVE  Asked'
<1> USE AccessAssumption
<1>1. CacheTypeOK /\ CacheTypeOK' /\ now \in Nat
  <2>1. CASE CacheNext
    BY <2>1, TypeStep DEF IInv, CacheTypeOK
  <2>2. CASE UNCHANGED cacheVars
    <3>1. CacheTypeOK' = CacheTypeOK
      BY <2>2 DEF cacheVars, CacheTypeOK
    <3> QED BY <3>1 DEF IInv, CacheTypeOK
  <2> QED BY <2>1, <2>2, ChainStep
<1>2. req'[Warmup] = None
  BY DEF Asked, Next, WarmUp, Receive, Conclude, Pass, ChainTyped
<1> SUFFICES ASSUME NEW r \in Calls, req'[r] # None, reply'[r] = "none"
             PROVE  /\ kid'[r] = req'[r].token.kid
                    /\ answer'[r] = "key" => kid'[r] \in Kids /\ now' - LastIn(kid[r])' <= MaxAge + Timeout
  BY <1>2 DEF Asked
<1>3. ASSUME req[r] # None, reply[r] = "none", req'[r] = req[r], kid'[r] = kid[r],
             answer'[r] = answer[r], UNCHANGED <<now, published, changed>>
      PROVE  /\ kid'[r] = req'[r].token.kid
             /\ answer'[r] = "key" => kid'[r] \in Kids /\ now' - LastIn(kid[r])' <= MaxAge + Timeout
  BY <1>3 DEF Asked, LastIn
<1>4. CASE WarmUp
  <2>1. r # Warmup
    BY <1>2
  <2>2. Begin(Warmup, Probe) /\ UNCHANGED <<req, reply>>
    BY <1>4 DEF WarmUp
  <2> QED BY <1>1, <1>3, <2>1, <2>2 DEF Begin, CacheTypeOK
<1>5. ASSUME NEW t \in Calls, Receive(t)
      PROVE  /\ kid'[r] = req'[r].token.kid
             /\ answer'[r] = "key" => kid'[r] \in Kids /\ now' - LastIn(kid[r])' <= MaxAge + Timeout
  <2>1. PICK q \in Incoming : /\ req' = [req EXCEPT ![t] = q]
                             /\ reply' = [reply EXCEPT ![t] = Front(q)]
                             /\ IF Front(q) = "none" THEN Begin(t, q.token.kid) ELSE UNCHANGED cacheVars
    BY <1>5 DEF Receive
  <2>2. CASE t = r
    <3>1. Front(q) = "none" /\ Begin(r, q.token.kid) /\ req'[r] = q
      BY <2>1, <2>2 DEF ChainTyped
    <3>2. kid'[r] = q.token.kid /\ answer'[r] = answer[r] /\ answer[r] = "none"
      BY <1>1, <3>1 DEF Begin, CacheTypeOK, Done
    <3> QED BY <3>1, <3>2
  <2>3. CASE t # r
    <3>1. req'[r] = req[r] /\ reply'[r] = reply[r]
      BY <2>1, <2>3 DEF ChainTyped
    <3>2. kid'[r] = kid[r] /\ answer'[r] = answer[r] /\ UNCHANGED <<now, published, changed>>
      BY <1>1, <2>1, <2>3 DEF Begin, cacheVars, CacheTypeOK
    <3> QED BY <1>3, <3>1, <3>2
  <2> QED BY <2>2, <2>3
<1>6. ASSUME NEW t \in Calls, Conclude(t)
      PROVE  /\ kid'[r] = req'[r].token.kid
             /\ answer'[r] = "key" => kid'[r] \in Kids /\ now' - LastIn(kid[r])' <= MaxAge + Timeout
  <2>1. UNCHANGED <<cacheVars, req>> /\ reply' = [reply EXCEPT ![t] = Behind(t)]
    BY <1>6 DEF Conclude
  <2>2. Behind(t) # "none"
    BY DEF Behind, Authz
  <2>3. reply[r] = "none"
    BY <2>1, <2>2 DEF ChainTyped
  <2> QED BY <1>3, <2>1, <2>3 DEF cacheVars
<1>7. CASE CacheStep /\ UNCHANGED <<req, reply>>
  <2>0. CacheNext /\ kid' = kid /\ now' = now
    BY <1>7, CacheStepKeeps DEF CacheNext
  <2>1. kid'[r] = req'[r].token.kid
    BY <1>7, <2>0 DEF Asked
  <2>2. ASSUME NEW k \in Kids, now - LastIn(k) <= MaxAge + Timeout
        PROVE  now' - LastIn(k)' <= MaxAge + Timeout
    BY <1>1, <2>0, <2>2, Monotone, Bounds, JWKSAssumption DEF IInv
  <2>3. ASSUME answer'[r] = "key" PROVE kid[r] \in Kids /\ now - LastIn(kid[r]) <= MaxAge + Timeout
    <3>1. CASE answer[r] = "key"
      BY <1>7, <3>1 DEF Asked
    <3>2. CASE answer[r] = "none"
      BY <2>0, <2>3, <3>2, KeyIsRecent DEF Answers
    <3>3. answer[r] = "key" \/ answer[r] = "none"
      BY <2>0, <2>3, AnsweredOnce DEF IInv
    <3> QED BY <3>1, <3>2, <3>3
  <2>4. kid[r] \in Kids /\ now - LastIn(kid[r]) <= MaxAge + Timeout => now' - LastIn(kid[r])' <= MaxAge + Timeout
    BY <2>0, <2>2 DEF LastIn
  <2> QED BY <2>0, <2>1, <2>3, <2>4
<1>8. CASE Pass
  <2>1. UNCHANGED <<req, reply, kid, answer>> /\ ~Ready(r)
    BY <1>8 DEF Pass, Tick
  <2>2. answer'[r] = "none"
    BY <2>1 DEF Ready
  <2> QED BY <2>1, <2>2 DEF Asked
<1> QED BY <1>4, <1>5, <1>6, <1>7, <1>8 DEF Next

ChainInv == IInv /\ Done /\ ChainTyped /\ Asked

LEMMA ChainInductive == Spec => []ChainInv
<1>1. AccessInit => ChainInv
  <2> SUFFICES ASSUME AccessInit PROVE ChainInv
    OBVIOUS
  <2>1. IInv /\ Done
    BY Initially DEF AccessInit, CacheInit, Done
  <2>2. ChainTyped
    BY DEF AccessInit, ChainTyped, Reply
  <2>3. Asked
    BY AccessAssumption DEF AccessInit, Asked
  <2> QED BY <2>1, <2>2, <2>3 DEF ChainInv
<1>2. ChainInv /\ [Next]_accessVars => ChainInv'
  <2>1. ASSUME ChainInv, Next PROVE ChainInv'
    <3>1. IInv'
      BY <2>1, ChainStep, InvStep DEF ChainInv
    <3>2. Done'
      <4>1. CASE CacheNext
        BY <2>1, <4>1, DoneStep DEF ChainInv, IInv
      <4>2. CASE UNCHANGED cacheVars
        <5>1. Done' = Done
          BY <4>2 DEF cacheVars, Done
        <5> QED BY <2>1, <5>1 DEF ChainInv
      <4> QED BY <2>1, <4>1, <4>2, ChainStep
    <3>3. ChainTyped' /\ Asked'
      BY <2>1, ChainTypedStep, AskedStep DEF ChainInv, IInv
    <3> QED BY <3>1, <3>2, <3>3 DEF ChainInv
  <2>2. ASSUME ChainInv, UNCHANGED accessVars PROVE ChainInv'
    <3>1. UNCHANGED cacheVars
      BY <2>2 DEF accessVars, cacheVars
    <3>2. IInv'
      BY <2>2, <3>1, InvStep DEF ChainInv
    <3>3. Done' = Done /\ ChainTyped' = ChainTyped /\ Asked' = Asked
      BY <2>2 DEF accessVars, Done, ChainTyped, Asked, LastIn
    <3> QED BY <2>2, <3>2, <3>3 DEF ChainInv
  <2> QED BY <2>1, <2>2
<1> QED BY <1>1, <1>2, PTL DEF Spec

\* The state of the chain is well typed, for any requests, tokens and keys.
THEOREM TypeCorrect == Spec => []TypeOK
<1>1. ChainInv => TypeOK
  BY DEF ChainInv, IInv, ChainTyped, TypeOK
<1> QED BY <1>1, ChainInductive, PTL

\* What is answered without a key: a probe, or a refusal that is not the wiring error.
LEMMA FrontIsSafe ==
  ASSUME NEW q \in Incoming
  PROVE  Front(q) # "usermissing" /\ (Front(q) = "handler" => q.route \in Probes)
BY DEF Front, Authz, Permission, Probes, Bypassed, GrpcMethods

\* What is answered with one.
LEMMA BehindIsSafe ==
  ASSUME NEW r \in Calls, req[r] \in Incoming
  PROVE  /\ Behind(r) # "usermissing"
         /\ Behind(r) = "handler" =>
              /\ Valid(r)
              /\ \/ req[r].route \in Bypassed
                 \/ req[r].route = "GET /metrics" /\ "admin" \in req[r].token.roles
                 \/ \E role \in req[r].token.roles :
                      Permission(req[r].route) \in Permissions(role)
BY DEF Behind, IsMetricsAuthorized, Authz, Authorize, EffectivePermissions

\* Whoever reaches a handler is entitled to, at that moment.
THEOREM OnlyEntitled == Spec => Entitled
<1> DEFINE Fine(r) ==
      LET q == req'[r]
          t == q.token IN
      /\ reply'[r] # "usermissing"
      /\ reply'[r] = "handler" /\ q.route \notin Probes =>
           /\ t.signed /\ now - LastIn(t.kid) <= MaxAge + Timeout
           /\ t.exp # None => now <= t.exp + Skew
           /\ \/ q.route \in Bypassed
              \/ q.route = "GET /metrics" /\ "admin" \in t.roles
              \/ \E role \in t.roles : Permission(q.route) \in Permissions(role)
<1>1. ASSUME ChainInv, Next, NEW r \in Calls, reply'[r] # reply[r] PROVE Fine(r)
  <2> USE DEF ChainInv, ChainTyped
  <2>1. ASSUME NEW t \in Calls, Receive(t) PROVE Fine(r)
    <3>1. PICK q \in Incoming : req' = [req EXCEPT ![t] = q] /\ reply' = [reply EXCEPT ![t] = Front(q)]
      BY <2>1 DEF Receive
    <3>2. t = r /\ req'[r] = q /\ reply'[r] = Front(q)
      BY <1>1, <3>1
    <3> QED BY <3>2, FrontIsSafe
  <2>2. ASSUME NEW t \in Calls, Conclude(t) PROVE Fine(r)
    <3>1. t = r /\ req' = req /\ reply'[r] = Behind(r) /\ Ready(r)
      BY <1>1, <2>2 DEF Conclude
    <3>2. req[r] \in Incoming /\ reply[r] = "none"
      BY <1>1, <3>1 DEF Ready
    <3>3. req[r].token.exp \in Int \cup {None} /\ now \in Int
      BY <1>1, <3>2, CallsAreTyped DEF Token, IInv, CacheTypeOK
    <3>4. Valid(r) => /\ req[r].token.signed
                      /\ now - LastIn(req[r].token.kid) <= MaxAge + Timeout
                      /\ req[r].token.exp # None => now <= req[r].token.exp + Skew
      <4> SUFFICES ASSUME Valid(r)
                   PROVE  /\ req[r].token.signed
                          /\ now - LastIn(req[r].token.kid) <= MaxAge + Timeout
                          /\ req[r].token.exp # None => now <= req[r].token.exp + Skew
        OBVIOUS
      <4>1. answer[r] = "key" /\ req[r].token.signed
        BY DEF Valid
      <4>2. kid[r] = req[r].token.kid /\ now - LastIn(kid[r]) <= MaxAge + Timeout
        BY <1>1, <3>2, <4>1, AccessAssumption, CallsAreTyped DEF Asked
      <4>3. req[r].token.exp # None => now <= req[r].token.exp + Skew
        BY <3>3, AccessAssumption DEF Valid, Expired
      <4> QED BY <4>1, <4>2, <4>3
    <3> QED BY <3>1, <3>2, <3>4, BehindIsSafe
  <2>3. UNCHANGED reply => FALSE
    BY <1>1
  <2> QED BY <1>1, <2>1, <2>2, <2>3 DEF Next, WarmUp, Pass
<1>2. ChainInv /\ [Next]_accessVars
        => [\A r \in Calls : reply'[r] # reply[r] => Fine(r)]_accessVars
  BY <1>1
<1> QED BY <1>2, ChainInductive, PTL DEF Spec, Entitled

=============================================================================
