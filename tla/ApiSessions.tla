------------------------------ MODULE ApiSessions ------------------------------
(***************************************************************************)
(* The handlers of one API process and the connections of its engine's     *)
(* pool (db.py, deps.py).  A session takes a connection with its first     *)
(* statement and gives it back at COMMIT or when it is closed; a handler   *)
(* that finds none waits its turn, for 30 seconds at most.  What a handler *)
(* awaits besides Postgres is Redis, or the end of an event stream.        *)
(*                                                                         *)
(* Requests are served once each; the Pager is a client that asks for the  *)
(* pages of GET /runs one after another while runs are submitted.          *)
(***************************************************************************)
EXTENDS Naturals, Sequences, FiniteSets

CONSTANTS
    Requests,   \* requests to the API
    Pager,      \* the client that lists the runs
    PoolSize,   \* connections of the pool, overflow included
    Limit       \* runs on a page of the list

ASSUME PoolAssumption == PoolSize \in Nat \ {0} /\ Limit \in Nat \ {0}
ASSUME PagerAssumption == Pager \notin Requests

VARIABLES
    kind,       \* what each request asks for
    step,       \* what its handler waits for, or how it ended
    waiting,    \* handlers waiting for a connection, first come first
    conns,      \* handlers whose session has a connection
    created,    \* submitted runs by created_at (each named by its request)
    table,      \* runs committed
    offset,     \* pager: offset of the page it asks for
    listed,     \* pager: runs on the pages so far
    atStart     \* history: runs committed when the pager read its first page

poolVars  == <<waiting, conns>>
runVars   == <<created, table>>
pagerVars == <<offset, listed, atStart>>
vars == <<kind, step, poolVars, runVars, pagerVars>>

Handlers == Requests \union {Pager}
Kinds == {"submit", "get", "cancel", "events", "ready"}

Init ==
    /\ kind = [h \in Handlers |-> IF h = Pager THEN "list" ELSE "none"]
    /\ step = [h \in Handlers |-> "new"]
    /\ waiting = << >>
    /\ conns = {}
    /\ created = << >>
    /\ table = {}
    /\ offset = 0 /\ listed = {} /\ atStart = {}

-----------------------------------------------------------------------------
(* The pool *)

Goto(h, s) == step' = [step EXCEPT ![h] = s]

Release(h) == conns' = conns \ {h} /\ UNCHANGED waiting

(* The request reaches its handler; Run.submit sets created_at at once,    *)
(* and the first statement asks the pool for a connection.                 *)
Arrives(h, k) ==
    /\ step[h] = "new"
    /\ h = Pager <=> k = "list"
    /\ kind' = [kind EXCEPT ![h] = k]
    /\ created' = IF k = "submit" THEN Append(created, h) ELSE created
    /\ waiting' = Append(waiting, h)
    /\ Goto(h, "pool")
    /\ UNCHANGED <<conns, table, pagerVars>>

GetConnection(h) ==
    /\ step[h] = "pool"
    /\ Head(waiting) = h
    /\ Cardinality(conns) < PoolSize
    /\ conns' = conns \union {h}
    /\ waiting' = Tail(waiting)
    /\ Goto(h, "postgres")
    /\ UNCHANGED <<kind, runVars, pagerVars>>

(* The pool's timeout: a 500 for this request, but for the probe, which    *)
(* reports it and goes on to Redis.                                        *)
PoolTimeout(h) ==
    /\ step[h] = "pool"
    /\ waiting' = SelectSeq(waiting, LAMBDA g : g # h)
    /\ Goto(h, IF kind[h] = "ready" THEN "redis" ELSE "failed")
    /\ UNCHANGED <<kind, conns, runVars, pagerVars>>

(* Postgres or Redis raise: the session is closed on the way out.  The     *)
(* probe catches both: a failure is one more result of its checks.         *)
Fails(h) ==
    /\ kind[h] # "ready"
    /\ step[h] \in {"postgres", "redis"}
    /\ Release(h)
    /\ Goto(h, "failed")
    /\ UNCHANGED <<kind, runVars, pagerVars>>

-----------------------------------------------------------------------------
(* POST /runs: INSERT and COMMIT, and then the LPUSH without a connection. *)

(* Mutant of Stored: the INSERT is flushed, the COMMIT left to the end of  *)
(* the request.                                                            *)
StoredUncommitted(h) ==
    /\ kind[h] = "submit" /\ step[h] = "postgres"
    /\ table' = table \union {h}
    /\ Goto(h, "redis")
    /\ UNCHANGED <<kind, poolVars, created, pagerVars>>

Stored(h) ==
    /\ kind[h] = "submit" /\ step[h] = "postgres"
    /\ table' = table \union {h}
    /\ Release(h)
    /\ Goto(h, "redis")
    /\ UNCHANGED <<kind, created, pagerVars>>

(* GET /runs/{id}: the response needs nothing but the row. *)
Found(h) ==
    /\ kind[h] = "get" /\ step[h] = "postgres"
    /\ Release(h)
    /\ Goto(h, "answered")
    /\ UNCHANGED <<kind, runVars, pagerVars>>

(* POST /runs/{id}/cancel.  A run unknown, succeeded or failed is answered *)
(* at once; a queued one is committed, which gives the connection back.    *)
CancelDone(h) ==
    /\ kind[h] = "cancel" /\ step[h] = "postgres"
    /\ Release(h)
    /\ \E next \in {"answered", "redis"} : Goto(h, next)
    /\ UNCHANGED <<kind, runVars, pagerVars>>

(* A running run is signalled, a cancelled one announced, in the           *)
(* transaction the SELECT began.                                           *)
CancelInTransaction(h) ==
    /\ kind[h] = "cancel" /\ step[h] = "postgres"
    /\ Goto(h, "redis")
    /\ UNCHANGED <<kind, poolVars, runVars, pagerVars>>

(* Mutant of StreamBegins: the session stays open while streaming. *)
StreamInSession(h) ==
    /\ kind[h] = "events" /\ step[h] = "postgres"
    /\ Goto(h, "stream")
    /\ UNCHANGED <<kind, poolVars, runVars, pagerVars>>

(* GET /runs/{id}/events: the session is closed before the stream begins;  *)
(* 404 if there is no such run.                                            *)
StreamBegins(h) ==
    /\ kind[h] = "events" /\ step[h] = "postgres"
    /\ Release(h)
    /\ \E next \in {"answered", "stream"} : Goto(h, next)
    /\ UNCHANGED <<kind, runVars, pagerVars>>

StreamEnds(h) ==
    /\ step[h] = "stream"
    /\ Release(h)
    /\ Goto(h, "answered")
    /\ UNCHANGED <<kind, runVars, pagerVars>>

(* GET /health/ready: SELECT 1 and then PING, whatever became of either. *)
Probed(h) ==
    /\ kind[h] = "ready" /\ step[h] = "postgres"
    /\ Release(h)
    /\ Goto(h, "redis")
    /\ UNCHANGED <<kind, runVars, pagerVars>>

RedisAnswers(h) ==
    /\ step[h] = "redis"
    /\ Release(h)
    /\ Goto(h, "answered")
    /\ UNCHANGED <<kind, runVars, pagerVars>>

-----------------------------------------------------------------------------
(* GET /runs: ORDER BY created_at DESC LIMIT limit OFFSET offset.  No two  *)
(* runs have the same created_at: it has microseconds.                     *)

CreatedBefore(r, s) == \E i, j \in 1..Len(created) : i < j /\ created[i] = r /\ created[j] = s

Newer(r) == {s \in table : CreatedBefore(r, s)}

(* Mutant of Page: limit and offset change places. *)
PageSwapped(off) == {r \in table : Cardinality(Newer(r)) \in Limit..(Limit + off - 1)}

Page(off) == {r \in table : Cardinality(Newer(r)) \in off..(off + Limit - 1)}

(* A full page makes the client ask for the next one. *)
PageRead ==
    /\ step[Pager] = "postgres"
    /\ listed' = listed \union Page(offset)
    /\ atStart' = IF offset = 0 THEN table ELSE atStart
    /\ offset' = offset + Limit
    /\ Release(Pager)
    /\ Goto(Pager, IF Cardinality(Page(offset)) < Limit THEN "answered" ELSE "new")
    /\ UNCHANGED <<kind, runVars>>

-----------------------------------------------------------------------------
Proceed(h) ==
    \/ GetConnection(h)
    \/ Stored(h) \/ Found(h) \/ CancelDone(h) \/ CancelInTransaction(h)
    \/ StreamBegins(h) \/ Probed(h) \/ RedisAnswers(h)
    \/ h = Pager /\ PageRead

Next ==
    \E h \in Handlers :
        \/ \E k \in Kinds \union {"list"} : Arrives(h, k)
        \/ Proceed(h) \/ PoolTimeout(h) \/ Fails(h) \/ StreamEnds(h)

Spec == Init /\ [][Next]_vars

(* Postgres and Redis answer, or raise; a stream need never end. *)
FairSpec == Spec /\ \A h \in Handlers : WF_vars(Proceed(h))

-----------------------------------------------------------------------------
(* The pool is never overdrawn; a connection is held while Postgres works  *)
(* and while nothing else is awaited: not across the enqueue               *)
(* (deps.py:16-18), not while streaming (runs.py:93), not by a handler     *)
(* that failed.  The one exception is the cancel of a run that is not      *)
(* queued, which talks to Redis inside the transaction its SELECT began.   *)
HeldForPostgresOnly ==
    /\ Cardinality(conns) <= PoolSize
    /\ \A h \in conns : step[h] = "postgres" \/ (kind[h] = "cancel" /\ step[h] = "redis")
    /\ \A h \in Handlers : step[h] = "postgres" => h \in conns

(* Every request is answered although no stream ever ends: open streams,   *)
(* however many, take no connection from the others.                       *)
EveryRequestAnswered ==
    \A h \in Handlers : (step[h] = "pool") ~> (step[h] \notin {"pool", "postgres", "redis"})

(* Runs submitted while a client pages through the list shift the pages,   *)
(* which may repeat a run to it, but never hide one that was there when it *)
(* began, in whatever order the submissions commit.                        *)
PagingSkipsNothing == step[Pager] = "answered" => atStart \subseteq listed
=============================================================================
