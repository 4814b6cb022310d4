------------------------------- MODULE Cache -------------------------------
(***************************************************************************)
(* The storefront cache of src/src/cache/cache.service.ts: wrap and bump,  *)
(* for one key (namespace and parameters; keys only share the version) and *)
(* one row of the database behind it.  The row is a counter: data = n      *)
(* after the n-th committed write, so that "older" is "smaller".           *)
(*                                                                         *)
(* Redis and PostgreSQL are two systems: each await of wrap and of a       *)
(* writing service is a step, the SET of a computed value is not waited    *)
(* for, any Redis command may fail, and entries expire.                    *)
(***************************************************************************)
EXTENDS Integers, Sequences, FiniteSets

CONSTANTS
    Readers,    \* requests inside wrap at the same time
    Writers,    \* requests that write the row at the same time
    NoValue,    \* no value
    MaxWrites   \* bound: how many writes are accepted in all

ASSUME MaxWritesAssumption == MaxWrites \in Nat
ASSUME NoValueAssumption == NoValue \notin Nat

VARIABLES
    data,       \* the committed row
    ver,        \* VERSION_KEY in Redis
    entries,    \* the cached values in Redis, by the version in their key
    inflight,   \* SETs sent and not yet executed
    forgot,     \* has Redis ever lost the version?
    at,         \* where each reader is
    seen,       \* the version a reader got
    answer,     \* what a reader's last wrap returned
    floor,      \* the latest finished write when the reader's wrap began
    stage,      \* how many steps of its write a writer has done
    mine,       \* the value a writer has committed
    finished,   \* the latest write whose request is finished
    atBump,     \* data at the last INCR
    writes      \* writes accepted so far

redis == <<ver, entries, inflight, forgot, atBump>>
reading == <<at, seen, answer, floor>>
writing == <<data, stage, mine, finished, writes>>
cacheVars == <<redis, reading, writing>>

Entry == [ver : Nat, val : Nat]

CacheInit ==
    /\ data = 0
    /\ ver = 0
    /\ entries = {}
    /\ inflight = {}
    /\ forgot = FALSE
    /\ at = [r \in Readers |-> "idle"]
    /\ seen = [r \in Readers |-> 0]
    /\ answer = [r \in Readers |-> NoValue]
    /\ floor = [r \in Readers |-> 0]
    /\ stage = [w \in Writers |-> 0]
    /\ mine = [w \in Writers |-> 0]
    /\ finished = 0
    /\ atBump = 0
    /\ writes = 0

Max2(a, b) == IF a < b THEN b ELSE a

-----------------------------------------------------------------------------
(* wrap                                                                    *)

Goto(r, to) == at' = [at EXCEPT ![r] = to]

Begin(r) ==
    /\ at[r] = "idle"
    /\ Goto(r, "version")
    /\ floor' = [floor EXCEPT ![r] = finished]
    /\ answer' = [answer EXCEPT ![r] = NoValue]
    /\ UNCHANGED <<redis, writing, seen>>

\* redis.get(VERSION_KEY), '0' when there is no such key yet.
GetVersion(r) ==
    /\ at[r] = "version"
    /\ seen' = [seen EXCEPT ![r] = ver]
    /\ Goto(r, "get")
    /\ UNCHANGED <<redis, writing, answer, floor>>

Hits(r) == {e \in entries : e.ver = seen[r]}

Return(r, value) ==
    /\ answer' = [answer EXCEPT ![r] = value]
    /\ seen' = [seen EXCEPT ![r] = 0]
    /\ Goto(r, "idle")

\* redis.get(key): a hit is the answer ...
Hit(r) ==
    /\ at[r] = "get"
    /\ \E e \in Hits(r) : Return(r, e.val)
    /\ UNCHANGED <<redis, writing, floor>>

Miss(r) ==
    /\ at[r] = "get"
    /\ Hits(r) = {}
    /\ Goto(r, "load")
    /\ UNCHANGED <<redis, writing, seen, answer, floor>>

\* ... and after a miss fn() reads the database; the SET is only sent.
Load(r) ==
    /\ at[r] = "load"
    /\ Return(r, data)
    /\ inflight' = inflight \cup {[ver |-> seen[r], val |-> data]}
    /\ UNCHANGED <<ver, entries, forgot, atBump, writing, floor>>

\* A GET fails: the answer comes from the database and is not stored.
Bypass(r) ==
    /\ at[r] \in {"version", "get"}
    /\ Return(r, data)
    /\ UNCHANGED <<redis, writing, floor>>

\* fn() throws, or the process dies: nothing is answered or stored.
Throw(r) ==
    /\ at[r] # "idle"
    /\ Return(r, NoValue)
    /\ UNCHANGED <<redis, writing, floor>>

-----------------------------------------------------------------------------
(* Redis                                                                   *)

\* A SET arrives, and replaces what its key held.
Store(e) ==
    /\ e \in inflight
    /\ inflight' = inflight \ {e}
    /\ entries' = {d \in entries : d.ver # e.ver} \cup {e}
    /\ UNCHANGED <<ver, forgot, atBump, reading, writing>>

\* A SET fails; the error is logged.
LoseStore(e) ==
    /\ e \in inflight
    /\ inflight' = inflight \ {e}
    /\ UNCHANGED <<ver, entries, forgot, atBump, reading, writing>>

\* Slip: the SET is sent without EX.
NeverExpire(e) == FALSE

\* EX ttlSeconds: an entry dies by itself.
Expire(e) ==
    /\ e \in entries
    /\ entries' = entries \ {e}
    /\ UNCHANGED <<ver, inflight, forgot, atBump, reading, writing>>

\* Redis restarts with nothing in memory: wrap then reads version '0'.
Forget ==
    /\ ver' = 0
    /\ entries' = {}
    /\ forgot' = TRUE
    /\ UNCHANGED <<inflight, atBump, reading, writing>>

-----------------------------------------------------------------------------
(* The writing services                                                    *)

Accept(w) ==
    /\ stage[w] = 0
    /\ writes < MaxWrites
    /\ writes' = writes + 1
    /\ stage' = [stage EXCEPT ![w] = 1]
    /\ UNCHANGED <<redis, reading, data, mine, finished>>

\* Slip: the cache is bumped inside the transaction.
StepsReversed == <<"bump", "commit">>

\* What every service that writes for the storefront does, in this order.
Steps == <<"commit", "bump">>

Advance(w) == stage' = [stage EXCEPT ![w] = @ + 1]

Commit(w) ==
    /\ stage[w] \in 1..2
    /\ Steps[stage[w]] = "commit"
    /\ data' = data + 1
    /\ mine' = [mine EXCEPT ![w] = data + 1]
    /\ Advance(w)
    /\ UNCHANGED <<redis, reading, finished, writes>>

\* bump: INCR.
Bump(w) ==
    /\ stage[w] \in 1..2
    /\ Steps[stage[w]] = "bump"
    /\ ver' = ver + 1
    /\ atBump' = data
    /\ Advance(w)
    /\ UNCHANGED <<entries, inflight, forgot, reading, data, mine, finished, writes>>

\* The request is answered: what it wrote may be expected from now on.
Finish(w) ==
    /\ stage[w] = 3
    /\ finished' = Max2(finished, mine[w])
    /\ stage' = [stage EXCEPT ![w] = 0]
    /\ mine' = [mine EXCEPT ![w] = 0]
    /\ UNCHANGED <<redis, reading, data, writes>>

\* The INCR fails - bump swallows the error - or the process dies on the way:
\* the write may be committed, and no version says so.
NoBump(w) ==
    /\ stage[w] \in 1..2
    /\ stage' = [stage EXCEPT ![w] = 0]
    /\ mine' = [mine EXCEPT ![w] = 0]
    /\ UNCHANGED <<redis, reading, data, finished, writes>>

-----------------------------------------------------------------------------
Read(r) == GetVersion(r) \/ Hit(r) \/ Miss(r) \/ Load(r) \/ Bypass(r)
Write(w) == Commit(w) \/ Bump(w) \/ Finish(w) \/ NoBump(w)

CacheNext ==
    \/ \E r \in Readers : Begin(r) \/ Read(r) \/ Throw(r)
    \/ \E e \in inflight : Store(e) \/ LoseStore(e)
    \/ \E e \in entries : Expire(e)
    \/ Forget
    \/ \E w \in Writers : Accept(w) \/ Write(w)

CacheSpec == CacheInit /\ [][CacheNext]_cacheVars

\* Requests go on, a sent SET arrives or fails, and what has an expiry expires.
Fairness ==
    /\ \A r \in Readers : WF_cacheVars(Read(r))
    /\ \A w \in Writers : WF_cacheVars(Write(w))
    /\ \A v, x \in 0..MaxWrites :
           LET e == [ver |-> v, val |-> x]
           IN  /\ WF_cacheVars(Store(e) \/ LoseStore(e))
               /\ WF_cacheVars(Expire(e))

FairCacheSpec == CacheSpec /\ Fairness

-----------------------------------------------------------------------------
(* Properties                                                              *)

\* Every variable has its type.
CacheTypeOK ==
    /\ data \in Nat
    /\ ver \in Nat
    /\ entries \subseteq Entry
    /\ inflight \subseteq Entry
    /\ forgot \in BOOLEAN
    /\ at \in [Readers -> {"idle", "version", "get", "load"}]
    /\ seen \in [Readers -> Nat]
    /\ answer \in [Readers -> Nat \cup {NoValue}]
    /\ floor \in [Readers -> Nat]
    /\ stage \in [Writers -> 0..3]
    /\ mine \in [Writers -> Nat]
    /\ finished \in Nat
    /\ atBump \in Nat
    /\ writes \in 0..MaxWrites

\* (cache.service.ts:78-116, orders.service.ts:320-323) What a request reads
\* through the cache is at least as new as every write that was finished - its
\* commit and its bump done - when the request began, although the value may
\* have been computed by another request long before and stored at any time.
\* (Not so once Redis has lost the version: a SET under way may carry a number
\* the count comes back to.)
AnswersAreFresh ==
    ~forgot => \A r \in Readers :
        at[r] = "idle" /\ answer[r] # NoValue => answer[r] >= floor[r]

\* (cache.service.ts:94-98, the swallowed error of bump) When writing has come
\* to an end, what is cached becomes what is in the database, even if bumps
\* were lost or Redis was: the expiry ends what no version ended.
CacheCatchesUp ==
    <>[](\A e \in entries : e.ver = ver => e.val = data)

(* The inductive invariant behind AnswersAreFresh (Stores_proofs).           *)

\* No key is of a version that is still to come.
VersionsArePast ==
    /\ \A e \in entries \cup inflight : e.ver <= ver
    /\ \A r \in Readers : seen[r] <= ver

\* Bumps follow commits, and only finished writes are promised to readers.
PromisesAreBumped ==
    /\ finished <= atBump
    /\ atBump <= data
    /\ \A w \in Writers : stage[w] = 3 => mine[w] <= atBump
    /\ \A w \in Writers : mine[w] <= data
    /\ \A r \in Readers : floor[r] <= finished

\* A value under the present version was read after the INCR that made it.
PresentValuesAreNew ==
    \A e \in entries \cup inflight : e.ver = ver => e.val >= atBump

\* A value under the version a reader goes by is new enough for that reader.
SeenValuesAreNew ==
    \A r \in Readers : at[r] \in {"get", "load"} =>
        \A e \in entries \cup inflight : e.ver = seen[r] => e.val >= floor[r]

IInv ==
    /\ CacheTypeOK
    /\ ~forgot => /\ VersionsArePast
                  /\ PromisesAreBumped
                  /\ PresentValuesAreNew
                  /\ SeenValuesAreNew
    /\ AnswersAreFresh
=============================================================================
