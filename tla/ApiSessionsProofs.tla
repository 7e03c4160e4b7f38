-------------------------- MODULE ApiSessionsProofs --------------------------
(***************************************************************************)
(* Proofs about ApiSessions, for any requests, any size of the pool and    *)
(* any page: which handlers hold a connection, and that paging skips no    *)
(* run.                                                                    *)
(***************************************************************************)
EXTENDS ApiSessions, FiniteSetTheorems, WellFoundedInduction, TLAPS

Steps == {"new", "pool", "postgres", "redis", "stream", "answered", "failed"}

(* Types; a connection belongs to a handler. *)
TypeInv ==
    /\ kind \in [Handlers -> Kinds \union {"list", "none"}]
    /\ step \in [Handlers -> Steps]
    /\ conns \subseteq Handlers /\ IsFiniteSet(conns)

PoolInv == TypeInv /\ HeldForPostgresOnly

(* The pager does nothing but ask for pages; only a request that came in   *)
(* submits a run, and only once.                                           *)
SubmitInv ==
    /\ kind[Pager] = "list" /\ step[Pager] \notin {"redis", "stream"}
    /\ created \in Seq(Requests)
    /\ \A i \in 1..Len(created) : kind[created[i]] = "submit" /\ step[created[i]] # "new"
    /\ \A i, j \in 1..Len(created) : created[i] = created[j] => i = j

(* What is committed was created; a submission gets to COMMIT only after   *)
(* it was created.                                                         *)
TableInv ==
    /\ IsFiniteSet(table) /\ table \subseteq Requests
    /\ \A r \in Requests :
          (kind[r] = "submit" /\ step[r] # "new") => \E i \in 1..Len(created) : created[i] = r
    /\ \A r \in table : \E i \in 1..Len(created) : created[i] = r

(* A run that was there when the pager began is listed, or there are runs  *)
(* enough before it to keep it on the pages still to come.                 *)
PagingInv ==
    /\ offset \in Nat
    /\ atStart \subseteq table
    /\ offset = 0 => atStart = {}
    /\ \A r \in atStart : r \in listed \/ Cardinality(Newer(r)) >= offset
    /\ PagingSkipsNothing

ListInv == SubmitInv /\ TableInv /\ PagingInv

-----------------------------------------------------------------------------
(* The pool *)

(* A handler that gives its connection back, or has none, may go anywhere  *)
(* but to Postgres.                                                        *)
LEMMA ReleaseKeepsPool ==
    ASSUME PoolInv, NEW h \in Handlers, conns' = conns \ {h},
           NEW s \in Steps \ {"postgres"}, Goto(h, s),
           kind' \in [Handlers -> Kinds \union {"list", "none"}],
           \A g \in Handlers \ {h} : kind'[g] = kind[g]
    PROVE  PoolInv'
  <1>1. /\ step' \in [Handlers -> Steps] /\ step'[h] = s
        /\ \A g \in Handlers \ {h} : step'[g] = step[g]
    BY DEF PoolInv, TypeInv, Goto
  <1>2. IsFiniteSet(conns') /\ Cardinality(conns') <= PoolSize
    <2>1. IsFiniteSet(conns) /\ Cardinality(conns) \in Nat /\ Cardinality(conns) <= PoolSize
      BY FS_CardinalityType DEF PoolInv, TypeInv, HeldForPostgresOnly
    <2>2. /\ IsFiniteSet(conns')
          /\ Cardinality(conns') = IF h \in conns THEN Cardinality(conns) - 1 ELSE Cardinality(conns)
      BY <2>1, FS_RemoveElement
    <2>3. QED
      BY <2>1, <2>2, PoolAssumption
  <1>3. QED
    BY <1>1, <1>2 DEF PoolInv, TypeInv, HeldForPostgresOnly

(* Every step leaves the pool within its size and its connections with the *)
(* handlers that work in Postgres.                                         *)
LEMMA PoolStep ==
    ASSUME PoolInv, [Next]_vars
    PROVE  PoolInv'
  <1>1. ASSUME NEW h \in Handlers, NEW k \in Kinds \union {"list"}, Arrives(h, k)
        PROVE  PoolInv'
    <2>1. h \notin conns
      BY <1>1 DEF Arrives, PoolInv, HeldForPostgresOnly
    <2>2. conns' = conns \ {h}
      BY <1>1, <2>1 DEF Arrives
    <2>3. Goto(h, "pool") /\ "pool" \in Steps \ {"postgres"}
      BY <1>1 DEF Arrives, Steps
    <2>4. /\ kind' \in [Handlers -> Kinds \union {"list", "none"}]
          /\ \A g \in Handlers \ {h} : kind'[g] = kind[g]
      BY <1>1 DEF Arrives, PoolInv, TypeInv
    <2>5. QED
      BY <2>2, <2>3, <2>4, ReleaseKeepsPool
  <1>2. ASSUME NEW h \in Handlers, GetConnection(h)
        PROVE  PoolInv'
    <2>1. /\ step' \in [Handlers -> Steps] /\ step'[h] = "postgres"
          /\ \A g \in Handlers \ {h} : step'[g] = step[g]
      BY <1>2 DEF GetConnection, Goto, PoolInv, TypeInv, Steps
    <2>2. IsFiniteSet(conns') /\ Cardinality(conns') <= Cardinality(conns) + 1
      BY <1>2, FS_AddElement, FS_CardinalityType DEF GetConnection, PoolInv, TypeInv
    <2>3. Cardinality(conns) \in Nat /\ Cardinality(conns') \in Nat /\ Cardinality(conns) < PoolSize
      BY <1>2, <2>2, FS_CardinalityType DEF GetConnection, PoolInv, TypeInv
    <2>4. Cardinality(conns') <= PoolSize
      BY <2>2, <2>3, PoolAssumption
    <2>5. QED
      BY <1>2, <2>1, <2>2, <2>4 DEF GetConnection, PoolInv, TypeInv, HeldForPostgresOnly
  <1>3. ASSUME NEW h \in Handlers, PoolTimeout(h)
        PROVE  PoolInv'
    <2>1. conns' = conns \ {h}
      BY <1>3 DEF PoolTimeout, PoolInv, HeldForPostgresOnly
    <2>2. \E s \in Steps \ {"postgres"} : Goto(h, s)
      BY <1>3 DEF PoolTimeout, Steps
    <2>3. kind' = kind
      BY <1>3 DEF PoolTimeout
    <2>4. QED
      BY <2>1, <2>2, <2>3, ReleaseKeepsPool DEF PoolInv, TypeInv
  <1>4. ASSUME NEW h \in Handlers,
               \/ Fails(h) \/ Stored(h) \/ Found(h) \/ CancelDone(h) \/ StreamBegins(h)
               \/ StreamEnds(h) \/ Probed(h) \/ RedisAnswers(h) \/ (h = Pager /\ PageRead)
        PROVE  PoolInv'
    <2>1. conns' = conns \ {h} /\ kind' = kind
      BY <1>4 DEF Fails, Stored, Found, CancelDone, StreamBegins, StreamEnds, Probed, RedisAnswers,
                  PageRead, Release
    <2>2. \E s \in Steps \ {"postgres"} : Goto(h, s)
      BY <1>4 DEF Fails, Stored, Found, CancelDone, StreamBegins, StreamEnds, Probed, RedisAnswers,
                  PageRead, Steps
    <2>3. QED
      BY <2>1, <2>2, ReleaseKeepsPool DEF PoolInv, TypeInv
  <1>5. ASSUME NEW h \in Handlers, CancelInTransaction(h)
        PROVE  PoolInv'
    BY <1>5 DEF CancelInTransaction, Goto, poolVars, PoolInv, TypeInv, HeldForPostgresOnly, Steps
  <1>6. CASE UNCHANGED vars
    BY <1>6 DEF vars, poolVars, PoolInv, TypeInv, HeldForPostgresOnly
  <1>7. QED
    BY <1>1, <1>2, <1>3, <1>4, <1>5, <1>6 DEF Next, Proceed

(* A connection is held while Postgres works and while nothing else is     *)
(* awaited, by as many handlers as the pool has connections (deps.py:16-18,*)
(* runs.py:93).                                                            *)
THEOREM ConnectionsHeldForPostgres == Spec => []HeldForPostgresOnly
  <1>1. Init => PoolInv
    <2> SUFFICES ASSUME Init PROVE PoolInv
      OBVIOUS
    <2>1. IsFiniteSet(conns) /\ Cardinality(conns) = 0
      BY FS_EmptySet DEF Init
    <2>2. QED
      BY <2>1, PoolAssumption DEF Init, PoolInv, TypeInv, HeldForPostgresOnly, Steps
  <1>2. PoolInv /\ [Next]_vars => PoolInv'
    BY PoolStep
  <1>3. PoolInv => HeldForPostgresOnly
    BY DEF PoolInv
  <1>4. QED
    BY <1>1, <1>2, <1>3, PTL DEF Spec
-----------------------------------------------------------------------------
(* Paging: how many runs are newer than one *)

(* A nonempty set of natural numbers has a least element. *)
LEMMA LeastNatural ==
    ASSUME NEW S, S \subseteq Nat, S # {}
    PROVE  \E n \in S : \A m \in S : n <= m
  <1> DEFINE less == {p \in Nat \X Nat : p[1] < p[2]}
  <1>1. IsWellFoundedOn(less, Nat)
    BY NatLessThanWellFounded DEF OpToRel
  <1>2. PICK n \in S : \A m \in S : <<m, n>> \notin less
    BY <1>1, WFMin
  <1>3. ASSUME NEW m \in S
        PROVE  n <= m
    <2>1. <<m, n>> \in Nat \X Nat /\ <<m, n>> \notin less
      BY <1>2
    <2>2. ~(m < n)
      BY <2>1
    <2>3. QED
      BY <2>2
  <1>4. QED
    BY <1>3

(* The runs newer than one are finitely many. *)
LEMMA NewerFinite ==
    ASSUME TableInv, NEW r
    PROVE  /\ IsFiniteSet(Newer(r)) /\ Cardinality(Newer(r)) \in Nat
           /\ Newer(r) \subseteq table
  BY FS_Subset, FS_CardinalityType DEF TableInv, Newer

(* The oldest of the runs newer than r has one run less before it. *)
LEMMA NextNewer ==
    ASSUME SubmitInv, TableInv, NEW r \in table, Newer(r) # {}
    PROVE  \E s \in table : Cardinality(Newer(s)) = Cardinality(Newer(r)) - 1
  <1> DEFINE places == {i \in 1..Len(created) : created[i] \in Newer(r)}
  <1>0. Len(created) \in Nat
    BY DEF SubmitInv
  <1>1. PICK a \in 1..Len(created) : created[a] = r
    BY DEF TableInv
  <1>2. \A s : s \in Newer(r) <=> s \in table /\ \E j \in 1..Len(created) : a < j /\ created[j] = s
    BY <1>1 DEF Newer, CreatedBefore, SubmitInv
  <1>3. places \subseteq Nat /\ places # {}
    BY <1>0, <1>2
  <1>4. PICK b \in places : \A j \in places : b <= j
    BY <1>3, LeastNatural
  <1> DEFINE s == created[b]
  <1>5. s \in table /\ s \in Newer(r) /\ a < b
    BY <1>1, <1>2, <1>4 DEF SubmitInv
  <1>6. \A t : t \in Newer(s) <=> t \in table /\ \E j \in 1..Len(created) : b < j /\ created[j] = t
    BY <1>4 DEF Newer, CreatedBefore, SubmitInv
  <1>7. Newer(s) = Newer(r) \ {s}
    <2>1. ASSUME NEW t \in Newer(s)
          PROVE  t \in Newer(r) \ {s}
      <3>1. PICK j \in 1..Len(created) : b < j /\ created[j] = t
        BY <1>6, <2>1
      <3>2. a < j /\ t # s
        BY <1>0, <1>4, <1>5, <3>1 DEF SubmitInv
      <3>3. QED
        BY <1>2, <1>6, <2>1, <3>1, <3>2
    <2>2. ASSUME NEW t \in Newer(r) \ {s}
          PROVE  t \in Newer(s)
      <3>1. PICK j \in 1..Len(created) : a < j /\ created[j] = t
        BY <1>2, <2>2
      <3>2. j \in places /\ j # b
        BY <2>2, <3>1
      <3>3. b < j
        BY <1>0, <1>4, <3>2
      <3>4. QED
        BY <1>2, <1>6, <2>2, <3>1, <3>3
    <2>3. QED
      BY <2>1, <2>2
  <1>8. Cardinality(Newer(s)) = Cardinality(Newer(r)) - 1
    BY <1>5, <1>7, NewerFinite, FS_RemoveElement
  <1>9. QED
    BY <1>5, <1>8

(* No place in the list is empty: with n runs before one, every smaller    *)
(* number of runs is before some other.                                    *)
LEMMA EveryPlaceTaken ==
    ASSUME SubmitInv, TableInv, NEW r \in table, NEW k \in Nat, k <= Cardinality(Newer(r))
    PROVE  \E s \in table : Cardinality(Newer(s)) = k
  <1> DEFINE counts == {n \in Nat : k <= n /\ \E s \in table : Cardinality(Newer(s)) = n}
  <1>1. counts \subseteq Nat /\ counts # {}
    BY NewerFinite
  <1>2. PICK n \in counts : \A m \in counts : n <= m
    BY <1>1, LeastNatural
  <1>3. PICK s \in table : Cardinality(Newer(s)) = n
    BY <1>2
  <1>4. CASE n = k
    BY <1>3, <1>4
  <1>5. CASE n # k
    <2>1. n \in Nat /\ k < n
      BY <1>2, <1>5
    <2>2. Newer(s) # {}
      BY <1>3, <2>1, FS_EmptySet
    <2>3. PICK t \in table : Cardinality(Newer(t)) = n - 1
      BY <1>3, <2>2, NextNewer
    <2>4. n - 1 \in counts
      BY <2>1, <2>3
    <2>5. QED
      BY <1>2, <2>1, <2>4
  <1>6. QED
    BY <1>4, <1>5

(* A page with less than Limit runs on it is the last one. *)
LEMMA ShortPageIsLast ==
    ASSUME SubmitInv, TableInv, NEW off \in Nat, Cardinality(Page(off)) < Limit, NEW r \in table
    PROVE  Cardinality(Newer(r)) < off + Limit
  <1> SUFFICES ASSUME Cardinality(Newer(r)) >= off + Limit
               PROVE  FALSE
    BY NewerFinite, PoolAssumption
  <1> DEFINE numbers == off..(off + Limit - 1)
             at == [k \in numbers |-> CHOOSE s \in table : Cardinality(Newer(s)) = k]
  <1>1. Limit \in Nat /\ Cardinality(Newer(r)) \in Nat
    BY NewerFinite, PoolAssumption
  <1>2. \A k \in numbers : at[k] \in table /\ Cardinality(Newer(at[k])) = k
    <2> TAKE k \in numbers
    <2>1. k \in Nat /\ k <= Cardinality(Newer(r))
      BY <1>1
    <2>2. \E s \in table : Cardinality(Newer(s)) = k
      BY <2>1, EveryPlaceTaken
    <2>3. QED
      BY <2>2
  <1>3. at \in Injection(numbers, Page(off))
    <2>1. at \in [numbers -> Page(off)]
      BY <1>2 DEF Page
    <2>2. \A k, m \in numbers : at[k] = at[m] => k = m
      BY <1>2
    <2>3. QED
      BY <2>1, <2>2 DEF Injection, IsInjective
  <1>4. IsFiniteSet(Page(off)) /\ Cardinality(Page(off)) \in Nat
    BY FS_Subset, FS_CardinalityType DEF TableInv, Page
  <1>5. Cardinality(numbers) <= Cardinality(Page(off))
    BY <1>3, <1>4, FS_Injection
  <1>6. Cardinality(numbers) = Limit
    BY <1>1, FS_Interval
  <1>7. QED
    BY <1>1, <1>4, <1>5, <1>6
-----------------------------------------------------------------------------
(* Paging: the steps of the handlers *)

(* Runs are only added: a run never has fewer runs before it than it had. *)
LEMMA NewerGrows ==
    ASSUME TableInv, TableInv', table \subseteq table', NEW r,
           \A s : CreatedBefore(r, s) => CreatedBefore(r, s)'
    PROVE  Cardinality(Newer(r)) <= Cardinality(Newer(r)')
  <1>1. Newer(r) \subseteq Newer(r)'
    BY DEF Newer
  <1>2. IsFiniteSet(Newer(r)')
    BY FS_Subset DEF TableInv, Newer
  <1>3. QED
    BY <1>1, <1>2, FS_Subset

(* The pager's part holds on when runs are added and the pager reads no    *)
(* page.                                                                   *)
LEMMA PagingKept ==
    ASSUME TableInv, PagingInv, TableInv', table \subseteq table',
           \A r, s : CreatedBefore(r, s) => CreatedBefore(r, s)',
           UNCHANGED pagerVars,
           step'[Pager] = "answered" => step[Pager] = "answered"
    PROVE  PagingInv'
  <1>1. ASSUME NEW r \in atStart, r \notin listed
        PROVE  Cardinality(Newer(r)') >= offset
    <2>1. Cardinality(Newer(r)) >= offset /\ offset \in Nat
      BY <1>1 DEF PagingInv
    <2>2. Cardinality(Newer(r)) <= Cardinality(Newer(r)')
      BY NewerGrows
    <2>3. Cardinality(Newer(r)) \in Nat
      BY NewerFinite
    <2>4. Cardinality(Newer(r)') \in Nat
      BY FS_Subset, FS_CardinalityType DEF TableInv, Newer
    <2>5. QED
      BY <2>1, <2>2, <2>3, <2>4
  <1>2. QED
    BY <1>1 DEF PagingInv, PagingSkipsNothing, pagerVars

(* A handler that goes on, adds no run and is not the pager reading a page. *)
LEMMA HandlerGoesOn ==
    ASSUME TypeInv, ListInv, NEW h \in Handlers, step[h] # "new",
           NEW s \in Steps \ {"new"}, Goto(h, s),
           h = Pager => s \notin {"redis", "stream", "answered"},
           UNCHANGED <<kind, created, table, pagerVars>>
    PROVE  ListInv'
  <1>1. \A g \in Handlers : step'[g] = IF g = h THEN s ELSE step[g]
    BY DEF TypeInv, Goto
  <1>2. Pager \in Handlers /\ Requests \subseteq Handlers
    BY DEF Handlers
  <1>3. SubmitInv'
    <2>1. \A i \in 1..Len(created) : created[i] \in Requests
      BY DEF ListInv, SubmitInv
    <2>2. QED
      BY <1>1, <1>2, <2>1 DEF ListInv, SubmitInv
  <1>4. TableInv'
    BY <1>1, <1>2 DEF ListInv, TableInv
  <1>5. \A r, t : CreatedBefore(r, t) => CreatedBefore(r, t)'
    BY DEF CreatedBefore
  <1>6. PagingInv'
    BY <1>1, <1>2, <1>4, <1>5, PagingKept DEF ListInv
  <1>7. QED
    BY <1>3, <1>4, <1>6 DEF ListInv

(* A request arrives: a submission takes the last place by created_at. *)
LEMMA ArrivesKeepsList ==
    ASSUME TypeInv, ListInv, NEW h \in Handlers, NEW k \in Kinds \union {"list"}, Arrives(h, k)
    PROVE  ListInv'
  <1>1. /\ \A g \in Handlers : step'[g] = IF g = h THEN "pool" ELSE step[g]
        /\ \A g \in Handlers : kind'[g] = IF g = h THEN k ELSE kind[g]
    BY DEF TypeInv, Arrives, Goto
  <1>2. Pager \in Handlers /\ Requests \subseteq Handlers /\ step[h] = "new"
    BY DEF Handlers, Arrives
  <1>3. \A i \in 1..Len(created) : created[i] \in Requests /\ created[i] # h
    BY <1>2 DEF ListInv, SubmitInv
  <1>4. CASE k = "submit"
    <2>1. h \in Requests /\ h # Pager
      BY <1>4, PagerAssumption DEF Arrives, Handlers
    <2>2. created' = Append(created, h) /\ created \in Seq(Requests)
      BY <1>4 DEF Arrives, ListInv, SubmitInv
    <2>3. /\ created' \in Seq(Requests) /\ Len(created) \in Nat /\ Len(created') = Len(created) + 1
          /\ created'[Len(created) + 1] = h
          /\ \A i \in 1..Len(created) : created'[i] = created[i]
      BY <2>1, <2>2
    <2>4. SubmitInv'
      <3>1. kind'[Pager] = "list" /\ step'[Pager] \notin {"redis", "stream"}
        BY <1>1, <1>2, <2>1 DEF ListInv, SubmitInv
      <3>2. ASSUME NEW i \in 1..Len(created')
            PROVE  kind'[created'[i]] = "submit" /\ step'[created'[i]] # "new"
        <4>1. CASE i = Len(created) + 1
          BY <1>1, <1>4, <2>3, <4>1
        <4>2. CASE i \in 1..Len(created)
          BY <1>1, <1>2, <1>3, <2>3, <4>2 DEF ListInv, SubmitInv
        <4>3. QED
          BY <2>3, <4>1, <4>2
      <3>3. ASSUME NEW i \in 1..Len(created'), NEW j \in 1..Len(created'), created'[i] = created'[j]
            PROVE  i = j
        BY <1>3, <2>3, <3>3 DEF ListInv, SubmitInv
      <3>4. QED
        BY <2>3, <3>1, <3>2, <3>3 DEF SubmitInv
    <2>5. TableInv'
      <3>1. \A r : (\E i \in 1..Len(created) : created[i] = r)
                      => (\E i \in 1..Len(created') : created'[i] = r)
        BY <2>3
      <3>2. \E i \in 1..Len(created') : created'[i] = h
        BY <2>3
      <3>3. QED
        BY <1>1, <1>2, <3>1, <3>2 DEF ListInv, TableInv, Arrives
    <2>6. \A r, t : CreatedBefore(r, t) => CreatedBefore(r, t)'
      BY <2>3 DEF CreatedBefore
    <2>7. PagingInv'
      BY <1>1, <1>2, <2>5, <2>6, PagingKept DEF ListInv, Arrives
    <2>8. QED
      BY <2>4, <2>5, <2>7 DEF ListInv
  <1>5. CASE k # "submit"
    <2>1. created' = created /\ (h = Pager <=> k = "list")
      BY <1>5 DEF Arrives
    <2>2. SubmitInv'
      BY <1>1, <1>2, <1>3, <2>1 DEF ListInv, SubmitInv
    <2>3. TableInv'
      BY <1>1, <1>2, <1>5, <2>1 DEF ListInv, TableInv, Arrives
    <2>4. \A r, t : CreatedBefore(r, t) => CreatedBefore(r, t)'
      BY <2>1 DEF CreatedBefore
    <2>5. PagingInv'
      BY <1>1, <1>2, <2>3, <2>4, PagingKept DEF ListInv, Arrives
    <2>6. QED
      BY <2>2, <2>3, <2>5 DEF ListInv
  <1>6. QED
    BY <1>4, <1>5

(* A submission is committed, perhaps after one that was created later. *)
LEMMA StoredKeepsList ==
    ASSUME TypeInv, ListInv, NEW h \in Handlers, Stored(h)
    PROVE  ListInv'
  <1>1. \A g \in Handlers : step'[g] = IF g = h THEN "redis" ELSE step[g]
    BY DEF TypeInv, Stored, Goto
  <1>2. Pager \in Handlers /\ Requests \subseteq Handlers
    BY DEF Handlers
  <1>3. h \in Requests
    BY DEF Handlers, Stored, ListInv, SubmitInv
  <1>4. SubmitInv'
    BY <1>1, <1>2, <1>3, PagerAssumption DEF ListInv, SubmitInv, Stored
  <1>5. TableInv'
    <2>1. IsFiniteSet(table')
      BY FS_AddElement DEF ListInv, TableInv, Stored
    <2>2. QED
      BY <1>1, <1>2, <1>3, <2>1 DEF ListInv, TableInv, Stored
  <1>6. \A r, t : CreatedBefore(r, t) => CreatedBefore(r, t)'
    BY DEF CreatedBefore, Stored
  <1>7. PagingInv'
    BY <1>1, <1>2, <1>3, <1>5, <1>6, PagingKept, PagerAssumption DEF ListInv, Stored
  <1>8. QED
    BY <1>4, <1>5, <1>7 DEF ListInv

(* The pager reads a page: what stands before the next page is listed, and *)
(* when the page is not full nothing stands after it.                      *)
LEMMA PageReadKeepsList ==
    ASSUME TypeInv, ListInv, PageRead
    PROVE  ListInv'
  <1>1. Pager \in Handlers /\ Requests \subseteq Handlers
    BY DEF Handlers
  <1>2. \A g \in Handlers \ {Pager} : step'[g] = step[g]
    BY DEF TypeInv, PageRead, Goto
  <1>3. step'[Pager] = IF Cardinality(Page(offset)) < Limit THEN "answered" ELSE "new"
    BY <1>1 DEF TypeInv, PageRead, Goto
  <1>4. UNCHANGED <<kind, created, table>>
    BY DEF PageRead, runVars
  <1>5. SubmitInv'
    <2>1. \A i \in 1..Len(created) : created[i] \in Handlers \ {Pager}
      BY <1>1, PagerAssumption DEF ListInv, SubmitInv
    <2>2. QED
      BY <1>2, <1>3, <1>4, <2>1 DEF ListInv, SubmitInv
  <1>6. TableInv'
    BY <1>1, <1>2, <1>4, PagerAssumption DEF ListInv, TableInv
  <1>7. \A r : Newer(r)' = Newer(r)
    BY <1>4 DEF Newer, CreatedBefore
  <1>8. /\ listed' = listed \union Page(offset) /\ offset' = offset + Limit
        /\ atStart' = IF offset = 0 THEN table ELSE atStart
        /\ offset \in Nat /\ offset' \in Nat /\ offset' # 0
    BY PoolAssumption DEF PageRead, ListInv, PagingInv
  <1>9. ASSUME NEW r \in atStart'
        PROVE  r \in listed' \/ Cardinality(Newer(r)) >= offset'
    <2>1. r \in table /\ (r \in listed \/ Cardinality(Newer(r)) >= offset)
      BY <1>8, <1>9, NewerFinite DEF ListInv, PagingInv
    <2>2. Cardinality(Newer(r)) \in Nat
      BY NewerFinite DEF ListInv
    <2>3. CASE Cardinality(Newer(r)) \in offset..(offset + Limit - 1)
      BY <1>8, <2>1, <2>3 DEF Page
    <2>4. CASE Cardinality(Newer(r)) \notin offset..(offset + Limit - 1)
      BY <1>8, <2>1, <2>2, <2>4, PoolAssumption
    <2>5. QED
      BY <2>3, <2>4
  <1>10. atStart' \subseteq table'
    BY <1>4, <1>8 DEF ListInv, PagingInv
  <1>11. PagingSkipsNothing'
    <2> SUFFICES ASSUME step'[Pager] = "answered", NEW r \in atStart' PROVE r \in listed'
      BY DEF PagingSkipsNothing
    <2>1. r \in table /\ Cardinality(Page(offset)) < Limit
      BY <1>3, <1>4, <1>10
    <2>2. Cardinality(Newer(r)) < offset' /\ Cardinality(Newer(r)) \in Nat
      BY <1>8, <2>1, ShortPageIsLast, NewerFinite DEF ListInv
    <2>3. QED
      BY <1>8, <1>9, <2>2
  <1>12. PagingInv'
    BY <1>7, <1>8, <1>9, <1>10, <1>11 DEF PagingInv
  <1>13. QED
    BY <1>5, <1>6, <1>12 DEF ListInv

(* Every step keeps the list and the pager's place in it. *)
LEMMA ListStep ==
    ASSUME TypeInv, ListInv, [Next]_vars
    PROVE  ListInv'
  <1>1. ASSUME NEW h \in Handlers, NEW k \in Kinds \union {"list"}, Arrives(h, k)
        PROVE  ListInv'
    BY <1>1, ArrivesKeepsList
  <1>2. ASSUME NEW h \in Handlers, Stored(h)
        PROVE  ListInv'
    BY <1>2, StoredKeepsList
  <1>3. ASSUME NEW h \in Handlers, h = Pager, PageRead
        PROVE  ListInv'
    BY <1>3, PageReadKeepsList
  <1>4. ASSUME NEW h \in Handlers, GetConnection(h) \/ PoolTimeout(h) \/ Fails(h)
        PROVE  ListInv'
    <2>1. kind[Pager] = "list"
      BY DEF ListInv, SubmitInv
    <2>2. /\ step[h] # "new" /\ UNCHANGED <<kind, created, table, pagerVars>>
          /\ \E s \in Steps \ {"new"} : Goto(h, s) /\ (h = Pager => s \notin {"redis", "stream", "answered"})
      BY <1>4, <2>1 DEF GetConnection, PoolTimeout, Fails, runVars, Steps
    <2>3. QED
      BY <2>2, HandlerGoesOn
  <1>5. ASSUME NEW h \in Handlers,
               \/ Found(h) \/ CancelDone(h) \/ CancelInTransaction(h) \/ StreamBegins(h)
               \/ StreamEnds(h) \/ Probed(h) \/ RedisAnswers(h)
        PROVE  ListInv'
    <2>1. h # Pager
      BY <1>5 DEF Found, CancelDone, CancelInTransaction, StreamBegins, StreamEnds, Probed, RedisAnswers,
                  ListInv, SubmitInv
    <2>2. /\ step[h] # "new" /\ UNCHANGED <<kind, created, table, pagerVars>>
          /\ \E s \in Steps \ {"new"} : Goto(h, s)
      BY <1>5 DEF Found, CancelDone, CancelInTransaction, StreamBegins, StreamEnds, Probed, RedisAnswers,
                  runVars, Steps
    <2>3. QED
      BY <2>1, <2>2, HandlerGoesOn
  <1>6. CASE UNCHANGED vars
    BY <1>6 DEF vars, runVars, pagerVars, ListInv, SubmitInv, TableInv, PagingInv, PagingSkipsNothing,
                Newer, CreatedBefore
  <1>7. QED
    BY <1>1, <1>2, <1>3, <1>4, <1>5, <1>6 DEF Next, Proceed

(* Runs submitted while a client pages through the list never hide one     *)
(* that was there when it began (repositories.py:106-113).                 *)
THEOREM PagingIsComplete == Spec => []PagingSkipsNothing
  <1>1. Init => PoolInv /\ ListInv
    <2> SUFFICES ASSUME Init PROVE PoolInv /\ ListInv
      OBVIOUS
    <2>1. IsFiniteSet(conns) /\ Cardinality(conns) = 0 /\ IsFiniteSet(table)
      BY FS_EmptySet DEF Init
    <2>2. PoolInv
      BY <2>1, PoolAssumption DEF Init, PoolInv, TypeInv, HeldForPostgresOnly, Steps
    <2>3. ListInv
      BY <2>1, PagerAssumption
      DEF Init, ListInv, SubmitInv, TableInv, PagingInv, PagingSkipsNothing, Handlers
    <2>4. QED
      BY <2>2, <2>3
  <1>2. PoolInv /\ ListInv /\ [Next]_vars => PoolInv' /\ ListInv'
    BY PoolStep, ListStep DEF PoolInv
  <1>3. ListInv => PagingSkipsNothing
    BY DEF ListInv, PagingInv
  <1>4. QED
    BY <1>1, <1>2, <1>3, PTL DEF Spec
=============================================================================
