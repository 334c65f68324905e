------------------------ MODULE StatementCacheProofs ------------------------
(***************************************************************************)
(* Theorems about StatementCache: its types, what the merge keeps of its   *)
(* two histories, that in one event loop only a fetch that carried an      *)
(* overtaken copy of the row over its await leaves a history shorter, and  *)
(* that a live recompute never overwrites a score with one built from      *)
(* inputs it could not fetch.                                              *)
(***************************************************************************)
EXTENDS StatementCache, FiniteSetTheorems, WellFoundedInduction, TLAPS

(***************************************************************************)
(* The merge.                                                              *)
(***************************************************************************)

\* A set of quarters is finite, and so are its parts.
LEMMA QuartersFinite ==
  ASSUME NEW S \in SUBSET Quarters
  PROVE  IsFiniteSet(S) /\ Cardinality(S) \in Nat
<1>1. Window + MaxEdition \in Nat
  BY Bounds
<1>2. IsFiniteSet(Quarters)
  BY <1>1, FS_Interval DEF Quarters
<1>3. IsFiniteSet(S)
  BY <1>2, FS_Subset
<1> QED
  BY <1>3, FS_CardinalityType

\* The newest of a nonempty set of quarters.
LEMMA NewestExists ==
  ASSUME NEW S \in SUBSET Quarters, S # {}
  PROVE  \E m \in S : \A p \in S : p <= m
<1> DEFINE n == Window + MaxEdition
           T == {n - p : p \in S}
<1>1. n \in Nat /\ S \subseteq 0 .. n
  BY Bounds DEF Quarters
<1> HIDE DEF n
<1>2. T \in SUBSET Nat /\ T # {}
  <2>1. ASSUME NEW p \in S PROVE n - p \in Nat
    BY <1>1
  <2> QED
    BY <2>1
<1>3. \E m \in T : \A d \in T : ~ (<<d, m>> \in OpToRel(<, Nat))
  BY <1>2, NatLessThanWellFounded, WFMin, Zenon
<1>4. \E m \in T : \A d \in T : ~ (d < m)
  BY <1>2, <1>3, Zenon DEF OpToRel
<1>5. PICK p \in S : \A d \in T : ~ (d < n - p)
  BY <1>4
<1>6. ASSUME NEW q \in S PROVE q <= p
  <2>1. n - q \in T
    OBVIOUS
  <2>2. ~ (n - q < n - p)
    BY <1>5, <2>1
  <2> QED
    BY <1>1, <2>2
<1> QED
  BY <1>6

\* The newest n of a set that has as many are n at least.
LEMMA NewestAreEnough ==
  ASSUME NEW S \in SUBSET Quarters, NEW n \in Nat, n <= Cardinality(S)
  PROVE  n <= Cardinality(NewestOf(S, n))
<1> DEFINE N == NewestOf(S, n)
<1>1. N \in SUBSET S
  BY DEF NewestOf
<1>2. IsFiniteSet(S) /\ IsFiniteSet(N) /\ Cardinality(N) \in Nat
  BY <1>1, QuartersFinite
<1>3. CASE N = S
  BY <1>3
<1>4. CASE N # S
  <2>1. S \ N # {} /\ S \ N \in SUBSET Quarters
    BY <1>1, <1>4
  <2>2. PICK m \in S \ N : \A p \in S \ N : p <= m
    BY <2>1, NewestExists
  <2> DEFINE above == {q \in S : q > m}
  <2>3. above \in SUBSET N
    <3>1. \A q \in S : q \in Nat
      BY Bounds DEF Quarters
    <3> QED
      BY <2>2, <3>1
  <2>4. ~ (Cardinality(above) < n)
    BY <2>2 DEF NewestOf
  <2>5. Cardinality(above) <= Cardinality(N)
    BY <1>2, <2>3, FS_Subset
  <2>6. Cardinality(above) \in Nat
    BY <1>1, <2>3, QuartersFinite
  <2> QED
    BY <1>2, <2>4, <2>5, <2>6
<1> QED
  BY <1>3, <1>4

\* What every body in the store is: a body of known quarters, without rows when it is no
\* list.
Sane(b) == b \in Body /\ (~ b.usable => Periods(b) = {})

LEMMA SanePeriods ==
  ASSUME NEW b \in Body
  PROVE  Periods(b) \in SUBSET Quarters /\ Count(b) \in Nat /\ b.rows \in [Periods(b) -> 0 .. MaxEdition]
<1>1. b.rows \in Rows
  BY DEF Body
<1>2. PICK S \in SUBSET Quarters : b.rows \in [S -> 0 .. MaxEdition]
  BY <1>1 DEF Rows
<1>3. Periods(b) = S
  BY <1>2 DEF Periods
<1> QED
  BY <1>2, <1>3, QuartersFinite DEF Count

\* A body without rows counts none.
LEMMA EmptyCounts ==
  ASSUME NEW b, Sane(b), IsEmpty(b)
  PROVE  Count(b) = 0
<1>1. Periods(b) = {}
  BY DEF Sane, IsEmpty
<1> QED
  BY <1>1, FS_EmptySet DEF Count

\* The dated merge has the rows of the answer and as many of the cached ones as the
\* longer of the two has room for: it is no shorter than the cached history, nor than the
\* answer.
LEMMA MergeDatedKeeps ==
  ASSUME NEW cached, NEW new, Sane(cached), Sane(new)
  PROVE  /\ Sane(MergeDated(cached, new))
         /\ Count(MergeDated(cached, new)) >= Count(cached)
         /\ Count(MergeDated(cached, new)) >= Count(new)
         /\ \A p \in Periods(new) : /\ p \in Periods(MergeDated(cached, new))
                                    /\ MergeDated(cached, new).rows[p] = new.rows[p]
<1> DEFINE C == Periods(cached)
           N == Periods(new)
           K == Carried(cached, new)
           room == IF Count(cached) > Count(new) THEN Count(cached) - Count(new) ELSE 0
           b == MergeDated(cached, new)
           rows == [p \in N \cup K |-> IF p \in N THEN new.rows[p] ELSE cached.rows[p]]
<1>1. /\ C \in SUBSET Quarters /\ N \in SUBSET Quarters
      /\ Count(cached) \in Nat /\ Count(new) \in Nat
      /\ cached.rows \in [C -> 0 .. MaxEdition] /\ new.rows \in [N -> 0 .. MaxEdition]
  BY SanePeriods DEF Sane
<1>2. K = NewestOf(C \ N, room) /\ K \in SUBSET (C \ N)
  BY DEF Carried, NewestOf
<1>3. b = [usable |-> TRUE, dated |-> TRUE, rows |-> rows]
  BY DEF MergeDated
<1>4. b.rows = rows /\ b.usable /\ Periods(b) = N \cup K
  BY <1>3 DEF Periods
<1>5. Sane(b)
  <2>1. rows \in [N \cup K -> 0 .. MaxEdition]
    BY <1>1, <1>2
  <2>2. N \cup K \in SUBSET Quarters
    BY <1>1, <1>2
  <2>3. rows \in Rows
    BY <2>1, <2>2 DEF Rows
  <2>4. b \in Body
    BY <1>3, <2>3 DEF Body
  <2> QED
    BY <1>4, <2>4 DEF Sane
<1>6. \A p \in N : p \in Periods(b) /\ b.rows[p] = new.rows[p]
  BY <1>4
<1>7. /\ IsFiniteSet(C) /\ IsFiniteSet(N) /\ IsFiniteSet(K) /\ IsFiniteSet(C \ N) /\ IsFiniteSet(C \cap N)
      /\ Cardinality(K) \in Nat /\ Cardinality(C \ N) \in Nat /\ Cardinality(C \cap N) \in Nat
  <2>1. K \in SUBSET Quarters /\ C \ N \in SUBSET Quarters /\ C \cap N \in SUBSET Quarters
    BY <1>1, <1>2
  <2> QED
    BY <1>1, <2>1, QuartersFinite
<1>8. Cardinality(N \cup K) = Cardinality(N) + Cardinality(K)
  <2>1. N \cap K = {}
    BY <1>2
  <2>2. Cardinality(N \cup K) = Cardinality(N) + Cardinality(K) - Cardinality(N \cap K)
    BY <1>7, FS_Union
  <2>3. Cardinality(N \cap K) = 0
    BY <2>1, FS_EmptySet
  <2>4. Cardinality(N) \in Nat
    BY <1>1 DEF Count
  <2> QED
    BY <1>7, <2>2, <2>3, <2>4
<1>9. Cardinality(C \ N) = Cardinality(C) - Cardinality(C \cap N) /\ Cardinality(C \cap N) <= Cardinality(N)
  <2>1. Cardinality(C \ N) = Cardinality(C) - Cardinality(C \cap N)
    BY <1>7, FS_Difference
  <2>2. Cardinality(C \cap N) <= Cardinality(N)
    BY <1>7, FS_Subset
  <2> QED
    BY <2>1, <2>2
<1>10. room \in Nat /\ room <= Cardinality(C \ N)
  BY <1>1, <1>7, <1>9 DEF Count
<1>11. room <= Cardinality(K)
  <2>1. C \ N \in SUBSET Quarters
    BY <1>1
  <2> HIDE DEF room
  <2> QED
    BY <1>2, <1>10, <2>1, NewestAreEnough
<1>12. Count(b) = Count(new) + Cardinality(K)
  BY <1>4, <1>8 DEF Count
<1>13. Count(b) >= Count(cached) /\ Count(b) >= Count(new)
  BY <1>1, <1>7, <1>11, <1>12
<1> QED
  BY <1>5, <1>6, <1>13

\* Whatever answer a cached history is merged with, the result is no shorter.
LEMMA MergeKeeps ==
  ASSUME NEW cached, NEW new, Sane(cached), Sane(new)
  PROVE  Sane(Merge(cached, new)) /\ Count(Merge(cached, new)) >= Count(cached)
<1>1. Count(cached) \in Nat /\ Count(new) \in Nat
  BY SanePeriods DEF Sane
<1>2. CASE IsEmpty(cached)
  <2>1. Merge(cached, new) = new /\ Count(cached) = 0
    BY <1>2, EmptyCounts DEF Merge
  <2> QED
    BY <1>1, <2>1
<1>3. CASE ~ IsEmpty(cached) /\ IsEmpty(new)
  <2>1. Merge(cached, new) = cached
    BY <1>3 DEF Merge
  <2> QED
    BY <1>1, <2>1
<1>4. CASE ~ IsEmpty(cached) /\ ~ IsEmpty(new) /\ cached.dated /\ new.dated
  <2>1. Merge(cached, new) = MergeDated(cached, new)
    BY <1>4 DEF Merge
  <2> QED
    BY <2>1, MergeDatedKeeps
<1>5. CASE ~ IsEmpty(cached) /\ ~ IsEmpty(new) /\ ~ (cached.dated /\ new.dated)
  <2>1. Merge(cached, new) = IF Count(new) >= Count(cached) THEN new ELSE cached
    BY <1>5 DEF Merge
  <2> QED
    BY <1>1, <2>1
<1> QED
  BY <1>2, <1>3, <1>4, <1>5

-----------------------------------------------------------------------------
(***************************************************************************)
(* The rows and the tasks.                                                 *)
(***************************************************************************)

\* A task that waits has asked for a key of the store, and has been answered with a sane
\* body or with an error; one that writes holds a sane body; so is the copy of the row that
\* either carries.
TaskOK(rec) ==
    /\ rec \in Task
    /\ rec.pc = "await" => rec.key \in Keys /\ (rec.answer \notin {Failed, Refused} => Sane(rec.answer))
    /\ rec.pc = "write" => rec.key \in Keys /\ Sane(rec.answer)
    /\ rec.pc \in {"await", "write"} /\ rec.loaded # None => Sane(rec.loaded)

CacheInv ==
    /\ TypeOK
    /\ \A k \in Keys : row[k] # None => Sane(row[k].body)
    /\ \A t \in Tasks : TaskOK(task[t])

\* What a step of task t does to the tasks.
Moves(t) ==
    /\ task' \in [Tasks -> Task]
    /\ TaskOK(task'[t])
    /\ \A u \in Tasks \ {t} : task'[u] = task[u]

LEMMA IdleIs ==
  /\ Idle \in Task /\ TaskOK(Idle)
  /\ Idle.pc = "idle" /\ Idle.kind = "get" /\ ~ Idle.missing /\ ~ Idle.failed
  BY DEF Idle, Task, TaskOK

LEMMA ServedIs ==
  ASSUME NEW rec \in Task, NEW k \in Keys
  PROVE  /\ Served(rec, k) \in Task /\ Served(rec, k).pc = "pick"
         /\ Served(rec, k).missing = rec.missing /\ Served(rec, k).failed = rec.failed
  BY DEF Served, Task

LEMMA MissingIs ==
  ASSUME NEW rec \in Task, NEW k \in Keys
  PROVE  /\ Missing(rec, k) \in Task /\ Missing(rec, k).pc = "pick"
         /\ Missing(rec, k).failed = rec.failed
<1> DEFINE s == Served(rec, k)
<1>1. s \in Task /\ s.pc = "pick" /\ s.failed = rec.failed
  BY ServedIs
<1>2. Missing(rec, k) = [s EXCEPT !.missing = TRUE]
  BY DEF Missing
<1> HIDE DEF s
<1> QED
  BY <1>1, <1>2 DEF Task

LEMMA RaisedIs ==
  ASSUME NEW rec \in Task, NEW k \in Keys
  PROVE  Raised(rec, k) \in Task /\ Raised(rec, k).pc = "pick" /\ Raised(rec, k).failed
<1> DEFINE s == Missing(rec, k)
<1>1. s \in Task /\ s.pc = "pick"
  BY MissingIs
<1>2. Raised(rec, k) = [s EXCEPT !.failed = TRUE]
  BY DEF Raised
<1> HIDE DEF s
<1> QED
  BY <1>1, <1>2 DEF Task

LEMMA PutIs ==
  ASSUME task \in [Tasks -> Task], NEW t \in Tasks, NEW rec, TaskOK(rec), Put(t, rec)
  PROVE  /\ Moves(t)
         /\ task'[t] \in {rec, Idle} /\ (rec.pc # "pick" => task'[t] = rec)
<1> DEFINE new == IF rec.kind = "get" /\ rec.pc = "pick" THEN Idle ELSE rec
<1>1. task' = [task EXCEPT ![t] = new]
  BY DEF Put
<1>2. new \in {rec, Idle} /\ (rec.pc # "pick" => new = rec)
  OBVIOUS
<1>3. new \in Task /\ TaskOK(new)
  BY <1>2, IdleIs DEF TaskOK
<1> HIDE DEF new
<1>4. task'[t] = new /\ task' \in [Tasks -> Task] /\ \A u \in Tasks \ {t} : task'[u] = task[u]
  BY <1>1, <1>3
<1> QED
  BY <1>2, <1>3, <1>4 DEF Moves

\* A record between two fetches is all right.
LEMMA PickedIsOK ==
  ASSUME NEW rec \in Task, rec.pc \in {"idle", "pick"}
  PROVE  TaskOK(rec)
  BY DEF TaskOK

\* What FMP answers is a body of quarters it has published.
LEMMA AnswersAreSane ==
  ASSUME edition \in 0 .. MaxEdition, NEW k, NEW a \in Answers(k), a \notin {Failed, Refused}
  PROVE  Sane(a)
<1>1. /\ edition \in Nat /\ Newest \in Nat /\ Newest \in Quarters
      /\ (edition + 1) .. Newest \subseteq Quarters /\ edition \in 0 .. MaxEdition
  BY Bounds DEF Newest, Quarters
<1>2. ASSUME NEW S \in SUBSET Quarters, NEW dated \in BOOLEAN
      PROVE  Sane(Answer(S, dated))
  <2> DEFINE rows == [p \in S |-> edition]
  <2>1. rows \in [S -> 0 .. MaxEdition]
    BY <1>1
  <2>2. rows \in Rows
    BY <2>1 DEF Rows
  <2> HIDE DEF rows
  <2>3. Answer(S, dated) = [usable |-> TRUE, dated |-> dated, rows |-> rows]
    BY DEF Answer, rows
  <2> QED
    BY <2>2, <2>3 DEF Sane, Body
<1>3. ASSUME NEW usable \in BOOLEAN PROVE Sane(NoRows(usable))
  <2> DEFINE rows == [p \in {} |-> edition]
  <2>1. rows \in [{} -> 0 .. MaxEdition] /\ DOMAIN rows = {}
    OBVIOUS
  <2>2. rows \in Rows
    BY <2>1 DEF Rows
  <2> HIDE DEF rows
  <2>3. NoRows(usable) = [usable |-> usable, dated |-> TRUE, rows |-> rows]
    BY DEF NoRows, rows
  <2> QED
    BY <2>1, <2>2, <2>3 DEF Sane, Body, Periods
<1>4. a \in {Answer({Newest}, TRUE), Answer((edition + 1) .. Newest, TRUE), Answer({Newest}, FALSE),
             NoRows(TRUE), NoRows(FALSE)}
  BY DEF Answers
<1>5. {Newest} \in SUBSET Quarters /\ (edition + 1) .. Newest \in SUBSET Quarters
  BY <1>1
<1>6. Sane(Answer({Newest}, TRUE)) /\ Sane(Answer({Newest}, FALSE)) /\ Sane(Answer((edition + 1) .. Newest, TRUE))
  BY <1>2, <1>5
<1>7. Sane(NoRows(TRUE)) /\ Sane(NoRows(FALSE))
  BY <1>3
<1> QED
  BY <1>4, <1>6, <1>7

\* Asking for a key: served, missing, or on the wire; nothing is written yet.  With the
\* group live, an input goes missing only with its failure recorded.
LEMMA AskIs ==
  ASSUME CacheInv, NEW t \in Tasks, NEW rec \in Task, rec.pc \in {"idle", "pick"},
         NEW k \in Keys, NEW force \in BOOLEAN, Ask(t, rec, k, force)
  PROVE  /\ Moves(t) /\ task'[t].pc # "write"
         /\ live /\ (rec.missing => rec.failed) => (task'[t].missing => task'[t].failed)
<1>1. task \in [Tasks -> Task] /\ edition \in 0 .. MaxEdition
  BY DEF CacheInv, TypeOK
<1>2. CASE Put(t, Served(rec, k))
  <2>1. TaskOK(Served(rec, k))
    BY ServedIs, PickedIsOK
  <2>2. Moves(t) /\ task'[t] \in {Served(rec, k), Idle}
    BY <1>1, <1>2, <2>1, PutIs
  <2> QED
    BY <2>2, ServedIs, IdleIs
<1>3. CASE ~ live /\ Put(t, IF force THEN Raised(rec, k) ELSE Missing(rec, k))
  <2> DEFINE new == IF force THEN Raised(rec, k) ELSE Missing(rec, k)
  <2>1. new \in Task /\ new.pc = "pick"
    BY RaisedIs, MissingIs
  <2>2. TaskOK(new)
    BY <2>1, PickedIsOK
  <2>3. Put(t, new)
    BY <1>3
  <2> HIDE DEF new
  <2>4. Moves(t) /\ task'[t] \in {new, Idle}
    BY <1>1, <2>2, <2>3, PutIs
  <2> QED
    BY <1>3, <2>1, <2>4, IdleIs
<1>4. CASE live /\ \E a \in Answers(k) :
             Put(t, [rec EXCEPT !.pc = "await", !.key = k, !.had = row[k] # None,
                                !.loaded = Loaded(k, force), !.answer = a])
  <2>1. PICK a \in Answers(k) :
             Put(t, [rec EXCEPT !.pc = "await", !.key = k, !.had = row[k] # None,
                                !.loaded = Loaded(k, force), !.answer = a])
    BY <1>4
  <2> DEFINE copy == Loaded(k, force)
             new == [rec EXCEPT !.pc = "await", !.key = k, !.had = row[k] # None, !.loaded = copy, !.answer = a]
  <2>2. a \notin {Failed, Refused} => Sane(a)
    BY <1>1, AnswersAreSane
  <2>3. a \in Body \cup {None, Failed, Refused}
    BY <2>2 DEF Sane
  <2>8. copy # None => Sane(copy)
    BY DEF Loaded, CacheInv
  <2>9. copy \in Body \cup {None}
    BY <2>8 DEF Sane
  <2>6. Put(t, new)
    BY <2>1
  <2> HIDE DEF copy
  <2>4. /\ new \in Task /\ new.pc = "await" /\ new.key = k /\ new.answer = a /\ new.loaded = copy
        /\ new.missing = rec.missing /\ new.failed = rec.failed
    BY <2>3, <2>9 DEF Task
  <2> HIDE DEF new
  <2>5. TaskOK(new)
    BY <2>2, <2>4, <2>8 DEF TaskOK
  <2>7. Moves(t) /\ task'[t] = new
    BY <1>1, <2>4, <2>5, <2>6, PutIs
  <2> QED
    BY <2>4, <2>7
<1> QED
  BY <1>2, <1>3, <1>4 DEF Ask

LEMMA GetIs ==
  ASSUME CacheInv, NEW t \in Tasks, NEW k \in Keys, NEW force \in BOOLEAN, Get(t, k, force) \/ Take(t, k, force)
  PROVE  /\ Moves(t) /\ task'[t].pc # "write"
         /\ live /\ (task[t].missing => task[t].failed) => (task'[t].missing => task'[t].failed)
         /\ UNCHANGED <<edition, live, switches, row, doomed, score>>
<1>1. TypeOK /\ task[t] \in Task
  BY DEF CacheInv, TypeOK
<1>2. CASE Get(t, k, force)
  <2> DEFINE rec == [Idle EXCEPT !.todo = {k}]
  <2>1. rec \in Task /\ rec.pc = "idle" /\ ~ rec.missing
    BY DEF Idle, Task
  <2>2. Ask(t, rec, k, force) /\ UNCHANGED <<edition, live, switches, row, doomed, score>>
    BY <1>2 DEF Get
  <2> HIDE DEF rec
  <2> QED
    BY <1>1, <2>1, <2>2, AskIs
<1>3. CASE Take(t, k, force)
  <2>1. Ask(t, task[t], k, force) /\ task[t].pc = "pick" /\ UNCHANGED <<edition, live, switches, row, doomed, score>>
    BY <1>3 DEF Take
  <2> QED
    BY <1>1, <2>1, AskIs
<1> QED
  BY <1>2, <1>3

\* An answer arrives: the body about to be written is no shorter than the copy it was merged
\* with.
LEMMA ArrivesIs ==
  ASSUME CacheInv, NEW t \in Tasks, Arrives(t)
  PROVE  /\ Moves(t) /\ LoopFree(t) /\ task[t].pc = "await"
         /\ UNCHANGED <<edition, live, switches, row, doomed, score>>
         /\ task'[t].pc = "write" /\ task'[t].key = task[t].key
         /\ task'[t].missing = task[t].missing /\ task'[t].failed = task[t].failed
         /\ task'[t].loaded = task[t].loaded
         /\ task[t].key \in HistoryKeys /\ row[task[t].key] # None
               => Count(task'[t].answer) >= Count(Cached(task[t]))
<1> DEFINE rec == task[t]
           k == rec.key
           b == Merged(rec)
           new == [rec EXCEPT !.pc = "write", !.answer = b]
<1>1. /\ TypeOK /\ rec \in Task /\ TaskOK(rec) /\ task \in [Tasks -> Task]
      /\ rec.pc = "await" /\ rec.answer \notin {Failed, Refused} /\ LoopFree(t)
      /\ Put(t, new) /\ UNCHANGED <<edition, live, switches, row, doomed, score>>
  BY DEF CacheInv, TypeOK, Arrives
<1>2. k \in Keys /\ Sane(rec.answer)
  BY <1>1 DEF TaskOK
<1>3. /\ Sane(b)
      /\ k \in HistoryKeys /\ row[k] # None => Count(b) >= Count(Cached(rec))
  <2>1. CASE k \in HistoryKeys /\ row[k] # None
    <3>1. Sane(Cached(rec))
      BY <1>1, <1>2, <2>1 DEF CacheInv, TaskOK, Cached
    <3>2. b = Merge(Cached(rec), rec.answer)
      BY <2>1 DEF Merged
    <3> QED
      BY <1>2, <3>1, <3>2, MergeKeeps
  <2>2. CASE ~ (k \in HistoryKeys /\ row[k] # None)
    BY <1>2, <2>2 DEF Merged
  <2> QED
    BY <2>1, <2>2
<1> HIDE DEF b
<1>4. b \in Body \cup {None, Failed, Refused}
  BY <1>3 DEF Sane
<1>5. /\ new \in Task /\ new.pc = "write" /\ new.key = k /\ new.answer = b /\ new.loaded = rec.loaded
      /\ new.missing = rec.missing /\ new.failed = rec.failed
  BY <1>1, <1>4 DEF Task
<1> HIDE DEF new
<1>6. TaskOK(new)
  BY <1>1, <1>2, <1>3, <1>5 DEF TaskOK
<1>7. Moves(t) /\ task'[t] = new
  BY <1>1, <1>5, <1>6, PutIs
<1> QED
  BY <1>1, <1>3, <1>5, <1>7

LEMMA UpsertIs ==
  ASSUME CacheInv, NEW t \in Tasks, Upsert(t)
  PROVE  /\ Moves(t) /\ task[t].pc = "write" /\ task'[t].pc # "write"
         /\ task[t].key \in Keys /\ Sane(task[t].answer)
         /\ row' = [row EXCEPT ![task[t].key] = [body |-> task[t].answer, at |-> "fresh"]]
         /\ UNCHANGED <<edition, live, switches, doomed, score>>
         /\ (task[t].missing => task[t].failed) => (task'[t].missing => task'[t].failed)
<1> DEFINE new == Served(task[t], task[t].key)
<1>1. /\ task \in [Tasks -> Task] /\ task[t] \in Task /\ TaskOK(task[t]) /\ task[t].pc = "write"
      /\ Put(t, new) /\ UNCHANGED <<edition, live, switches, doomed, score>>
      /\ row' = [row EXCEPT ![task[t].key] = [body |-> task[t].answer, at |-> "fresh"]]
  BY DEF CacheInv, TypeOK, Upsert
<1>2. task[t].key \in Keys /\ Sane(task[t].answer)
  BY <1>1 DEF TaskOK
<1>3. new \in Task /\ new.pc = "pick" /\ new.missing = task[t].missing /\ new.failed = task[t].failed
  BY <1>1, <1>2, ServedIs
<1>4. TaskOK(new)
  BY <1>3, PickedIsOK
<1> HIDE DEF new
<1>5. Moves(t) /\ task'[t] \in {new, Idle}
  BY <1>1, <1>4, PutIs
<1> QED
  BY <1>1, <1>2, <1>3, <1>5, IdleIs

LEMMA RaisesIs ==
  ASSUME CacheInv, NEW t \in Tasks, Raises(t)
  PROVE  /\ Moves(t) /\ task'[t].pc # "write"
         /\ UNCHANGED <<edition, live, switches, row, doomed, score>>
         /\ (task[t].missing => task[t].failed) => (task'[t].missing => task'[t].failed)
<1> DEFINE k == task[t].key
           new == IF FallsBack(t) THEN Served(task[t], k) ELSE Raised(task[t], k)
<1>1. /\ task \in [Tasks -> Task] /\ task[t] \in Task /\ TaskOK(task[t]) /\ task[t].pc = "await"
      /\ Put(t, new) /\ UNCHANGED <<edition, live, switches, row, doomed, score>>
  BY DEF CacheInv, TypeOK, Raises
<1>2. k \in Keys
  BY <1>1 DEF TaskOK
<1>3. /\ new \in Task /\ new.pc = "pick"
      /\ (task[t].missing => task[t].failed) => (new.missing => new.failed)
  BY <1>1, <1>2, ServedIs, RaisedIs
<1>4. TaskOK(new)
  BY <1>3, PickedIsOK
<1> HIDE DEF new
<1>5. Moves(t) /\ task'[t] \in {new, Idle}
  BY <1>1, <1>4, PutIs
<1> QED
  BY <1>1, <1>3, <1>5, IdleIs

LEMMA ComputeIs ==
  ASSUME task \in [Tasks -> Task], NEW t \in Tasks, Compute(t)
  PROVE  Moves(t) /\ task'[t].pc # "write" /\ ~ task'[t].missing
<1> DEFINE new == [Idle EXCEPT !.pc = "pick", !.kind = "compute", !.todo = Keys]
<1>1. new \in Task /\ new.pc = "pick" /\ ~ new.missing
  BY DEF Idle, Task
<1>2. task' = [task EXCEPT ![t] = new]
  BY DEF Compute
<1>3. TaskOK(new)
  BY <1>1, PickedIsOK
<1> HIDE DEF new
<1>4. task' \in [Tasks -> Task] /\ task'[t] = new /\ \A u \in Tasks \ {t} : task'[u] = task[u]
  BY <1>1, <1>2
<1> QED
  BY <1>1, <1>3, <1>4 DEF Moves

\* The score is replaced by one with missing inputs only when no failure was recorded.
LEMMA PersistIs ==
  ASSUME CacheInv, NEW t \in Tasks, Persist(t)
  PROVE  /\ Moves(t) /\ task'[t].pc # "write" /\ ~ task'[t].missing
         /\ UNCHANGED <<edition, live, switches, row, doomed>>
         /\ score' \in {"none", "full", "degraded"}
         /\ (task[t].missing => task[t].failed) /\ score' # score => score' = "full"
<1>1. /\ task \in [Tasks -> Task] /\ task[t] \in Task /\ score \in {"none", "full", "degraded"}
      /\ task' = [task EXCEPT ![t] = Idle] /\ UNCHANGED <<edition, live, switches, row, doomed>>
      /\ score' = IF task[t].failed THEN score ELSE IF task[t].missing THEN "degraded" ELSE "full"
  BY DEF CacheInv, TypeOK, Persist
<1>2. task' \in [Tasks -> Task] /\ task'[t] = Idle /\ \A u \in Tasks \ {t} : task'[u] = task[u]
  BY <1>1, IdleIs
<1>3. Moves(t)
  BY <1>2, IdleIs DEF Moves
<1> QED
  BY <1>1, <1>2, <1>3, IdleIs

\* The prune's delete moves no task on; at most, one that waits loses its copy of the row.
Lets(t) ==
    /\ TaskOK(task'[t])
    /\ task'[t].pc = task[t].pc /\ task'[t].kind = task[t].kind
    /\ task'[t].missing = task[t].missing /\ task'[t].failed = task[t].failed
    /\ task[t].pc = "write" => task'[t] = task[t]

LEMMA PruneLets ==
  ASSUME CacheInv, PruneDeletes
  PROVE  task' \in [Tasks -> Task] /\ \A t \in Tasks : Lets(t)
<1>1. PICK gone : task' = [t \in Tasks |-> Forgets(task[t], gone)]
  BY DEF PruneDeletes
<1>2. ASSUME NEW t \in Tasks
      PROVE  task'[t] \in Task /\ Lets(t)
  <2> DEFINE rec == task[t]
             new == [rec EXCEPT !.loaded = None]
  <2>1. TaskOK(rec) /\ rec \in Task
    BY DEF CacheInv, TypeOK
  <2>2. task'[t] = Forgets(rec, gone)
    BY <1>1
  <2>3. CASE task'[t] = rec
    BY <2>1, <2>3 DEF Lets
  <2>4. CASE rec.pc = "await" /\ task'[t] = new
    <3> HIDE DEF rec
    <3>1. /\ new \in Task /\ new.pc = "await" /\ new.key = rec.key /\ new.answer = rec.answer
          /\ new.loaded = None /\ new.kind = rec.kind /\ new.missing = rec.missing /\ new.failed = rec.failed
      BY <2>1, <2>4 DEF Task
    <3> HIDE DEF new
    <3>2. TaskOK(new)
      BY <2>1, <2>4, <3>1 DEF TaskOK
    <3> QED
      BY <2>4, <3>1, <3>2 DEF Lets, rec
  <2> QED
    BY <2>2, <2>3, <2>4 DEF Forgets
<1> QED
  BY <1>1, <1>2

\* Steps that write rows without a task keep their bodies or take them away.
LEMMA RowsThin ==
  ASSUME CacheInv,
         \/ \E t \in Views : Refresh(t)
         \/ \E k \in Keys : GoesStale(k)
         \/ PruneDeletes
  PROVE  /\ row' \in [Keys -> Row \cup {None}]
         /\ \A k \in Keys : row'[k] # None => row[k] # None /\ row'[k].body = row[k].body
<1>1. row \in [Keys -> Row \cup {None}]
  BY DEF CacheInv, TypeOK
<1>2. CASE \E t \in Views : Refresh(t)
  <2>1. row' = [k \in Keys |-> Cleared(k)]
    BY <1>2 DEF Refresh
  <2>2. ASSUME NEW k \in Keys
        PROVE  /\ Cleared(k) \in Row \cup {None}
               /\ Cleared(k) # None => row[k] # None /\ Cleared(k).body = row[k].body
    <3>1. CASE row[k] # None /\ k \in HistoryKeys
      <4>1. row[k] \in Row /\ Cleared(k) = [row[k] EXCEPT !.at = "invalid"]
        BY <1>1, <3>1 DEF Cleared
      <4> QED
        BY <3>1, <4>1 DEF Row
    <3>2. CASE ~ (row[k] # None /\ k \in HistoryKeys)
      BY <3>2 DEF Cleared
    <3> QED
      BY <3>1, <3>2
  <2> QED
    BY <2>1, <2>2
<1>3. CASE \E k \in Keys : GoesStale(k)
  <2>1. PICK k \in Keys : row[k] # None /\ row' = [row EXCEPT ![k] = [row[k] EXCEPT !.at = "stale"]]
    BY <1>3 DEF GoesStale
  <2> DEFINE new == [row[k] EXCEPT !.at = "stale"]
  <2>2. new \in Row /\ new.body = row[k].body
    BY <1>1, <2>1 DEF Row
  <2>3. row' = [row EXCEPT ![k] = new]
    BY <2>1
  <2> HIDE DEF new
  <2> QED
    BY <1>1, <2>1, <2>2, <2>3
<1>4. CASE PruneDeletes
  BY <1>1, <1>4 DEF PruneDeletes
<1> QED
  BY <1>2, <1>3, <1>4

-----------------------------------------------------------------------------
(***************************************************************************)
(* Types, and that every body is sane.                                     *)
(***************************************************************************)

LEMMA InitHolds ==
  ASSUME Init
  PROVE  CacheInv
<1>1. TypeOK
  BY Bounds, IdleIs DEF Init, TypeOK
<1>2. \A t \in Tasks : TaskOK(task[t])
  BY IdleIs DEF Init
<1> QED
  BY <1>1, <1>2 DEF CacheInv, Init

LEMMA TasksHold ==
  ASSUME CacheInv, NEW t \in Tasks, Moves(t)
  PROVE  task' \in [Tasks -> Task] /\ \A u \in Tasks : TaskOK(task'[u])
  BY DEF CacheInv, Moves

\* A task's step that writes no row.
LEMMA QuietStep ==
  ASSUME CacheInv, NEW t \in Tasks, Moves(t), UNCHANGED <<edition, live, switches, row, doomed>>,
         score' \in {"none", "full", "degraded"}
  PROVE  CacheInv'
<1>1. task' \in [Tasks -> Task] /\ \A u \in Tasks : TaskOK(task'[u])
  BY TasksHold
<1>2. TypeOK'
  BY <1>1 DEF CacheInv, TypeOK
<1> QED
  BY <1>1, <1>2 DEF CacheInv

LEMMA UpsertHolds ==
  ASSUME CacheInv, NEW t \in Tasks, Upsert(t)
  PROVE  CacheInv'
<1> DEFINE k == task[t].key
           new == [body |-> task[t].answer, at |-> "fresh"]
<1>1. /\ Moves(t) /\ k \in Keys /\ Sane(task[t].answer)
      /\ row' = [row EXCEPT ![k] = new] /\ UNCHANGED <<edition, live, switches, doomed, score>>
  BY UpsertIs
<1>2. new \in Row /\ new.body = task[t].answer
  BY <1>1 DEF Row, Sane
<1>3. task' \in [Tasks -> Task] /\ \A u \in Tasks : TaskOK(task'[u])
  BY <1>1, TasksHold
<1>4. row \in [Keys -> Row \cup {None}]
  BY DEF CacheInv, TypeOK
<1> HIDE DEF new, k
<1>5. row' \in [Keys -> Row \cup {None}] /\ \A l \in Keys : row'[l] = IF l = k THEN new ELSE row[l]
  BY <1>1, <1>2, <1>4
<1>6. \A l \in Keys : row'[l] # None => Sane(row'[l].body)
  BY <1>1, <1>2, <1>5 DEF CacheInv
<1>7. TypeOK'
  BY <1>1, <1>3, <1>5 DEF CacheInv, TypeOK
<1> QED
  BY <1>3, <1>6, <1>7 DEF CacheInv

\* The steps that thin the rows out.
LEMMA ThinningHolds ==
  ASSUME CacheInv,
         \/ \E t \in Views : Refresh(t)
         \/ \E k \in Keys : GoesStale(k)
         \/ PruneDeletes
  PROVE  CacheInv'
<1>1. /\ row' \in [Keys -> Row \cup {None}]
      /\ \A k \in Keys : row'[k] # None => row[k] # None /\ row'[k].body = row[k].body
  BY RowsThin
<1>2. \A k \in Keys : row'[k] # None => Sane(row'[k].body)
  BY <1>1 DEF CacheInv
<1>3. task' \in [Tasks -> Task] /\ \A u \in Tasks : TaskOK(task'[u])
  <2>1. CASE \E t \in Views : Refresh(t)
    <3>1. PICK t \in Views : Compute(t)
      BY <2>1 DEF Refresh
    <3>2. t \in Tasks /\ task \in [Tasks -> Task]
      BY DEF Tasks, CacheInv, TypeOK
    <3>3. Moves(t)
      BY <3>1, <3>2, ComputeIs
    <3> QED
      BY <3>2, <3>3, TasksHold
  <2>2. CASE \E k \in Keys : GoesStale(k)
    <3>1. task' = task
      BY <2>2 DEF GoesStale
    <3> QED
      BY <3>1 DEF CacheInv, TypeOK
  <2>3. CASE PruneDeletes
    BY <2>3, PruneLets DEF Lets
  <2> QED
    BY <2>1, <2>2, <2>3
<1>4. UNCHANGED <<edition, live, switches, score>> /\ doomed' \in {doomed, {}}
  BY DEF Refresh, GoesStale, PruneDeletes
<1>5. TypeOK'
  BY <1>1, <1>3, <1>4 DEF CacheInv, TypeOK
<1> QED
  BY <1>2, <1>3, <1>5 DEF CacheInv

LEMMA RestHolds ==
  ASSUME CacheInv,
         \/ \E t \in Views : RefreshFrozen(t)
         \/ ComputeCached \/ Publish \/ Switch
         \/ \E S \in SUBSET Keys : PruneSelects(S)
         \/ UNCHANGED vars
  PROVE  CacheInv'
<1>1. CASE \E t \in Views : RefreshFrozen(t)
  <2>1. PICK t \in Views : Compute(t) /\ UNCHANGED <<edition, live, switches, row, doomed, score>>
    BY <1>1 DEF RefreshFrozen
  <2>2. t \in Tasks /\ task \in [Tasks -> Task] /\ score' \in {"none", "full", "degraded"}
    BY <2>1 DEF Tasks, CacheInv, TypeOK
  <2>3. Moves(t)
    BY <2>1, <2>2, ComputeIs
  <2> QED
    BY <2>1, <2>2, <2>3, QuietStep
<1>2. CASE ComputeCached \/ Publish \/ Switch \/ (\E S \in SUBSET Keys : PruneSelects(S)) \/ UNCHANGED vars
  <2>1. UNCHANGED <<row, task>>
    BY <1>2 DEF ComputeCached, Publish, Switch, PruneSelects, vars
  <2>2. TypeOK
    BY DEF CacheInv
  <2>3. edition' \in 0 .. MaxEdition /\ switches' \in 0 .. MaxSwitches
    BY <1>2, <2>2, Bounds DEF ComputeCached, Publish, Switch, PruneSelects, vars, TypeOK
  <2>4. live' \in BOOLEAN /\ doomed' \subseteq Keys /\ score' \in {"none", "full", "degraded"}
    BY <1>2, <2>2 DEF ComputeCached, Publish, Switch, PruneSelects, vars, TypeOK
  <2>5. TypeOK'
    BY <2>1, <2>2, <2>3, <2>4 DEF TypeOK
  <2> QED
    BY <2>1, <2>5 DEF CacheInv
<1> QED
  BY <1>1, <1>2

LEMMA StepHolds ==
  ASSUME CacheInv, [Next]_vars
  PROVE  CacheInv'
<1>1. score \in {"none", "full", "degraded"}
  BY DEF CacheInv, TypeOK
<1>2. CASE \E t \in Tasks, k \in Keys, force \in BOOLEAN : Get(t, k, force) \/ Take(t, k, force)
  BY <1>1, <1>2, GetIs, QuietStep
<1>3. CASE \E t \in Tasks : Arrives(t)
  BY <1>1, <1>3, ArrivesIs, QuietStep
<1>4. CASE \E t \in Tasks : Raises(t)
  BY <1>1, <1>4, RaisesIs, QuietStep
<1>5. CASE \E t \in Tasks : Persist(t)
  BY <1>5, PersistIs, QuietStep
<1>6. CASE \E t \in Tasks : Upsert(t)
  BY <1>6, UpsertHolds
<1>7. CASE (\E t \in Views : Refresh(t)) \/ (\E k \in Keys : GoesStale(k)) \/ PruneDeletes
  BY <1>7, ThinningHolds
<1>8. CASE \/ \E t \in Views : RefreshFrozen(t)
           \/ ComputeCached \/ Publish \/ Switch
           \/ \E S \in SUBSET Keys : PruneSelects(S)
           \/ UNCHANGED vars
  BY <1>8, RestHolds
<1> QED
  BY <1>2, <1>3, <1>4, <1>5, <1>6, <1>7, <1>8 DEF Next, Fetches

(***************************************************************************)
(* Cached bodies are lists of known quarters, whatever is merged into      *)
(* them, and every task is in one of the states its code can be in.        *)
(***************************************************************************)
THEOREM TypeCorrect == Spec => []TypeOK
<1>1. Init => CacheInv
  BY InitHolds
<1>2. CacheInv /\ [Next]_vars => CacheInv'
  BY StepHolds
<1>3. CacheInv => TypeOK
  BY DEF CacheInv
<1> QED
  BY <1>1, <1>2, <1>3, PTL DEF Spec

-----------------------------------------------------------------------------
(***************************************************************************)
(* The history, when all the tasks share one event loop.                   *)
(***************************************************************************)

\* At most one task is between its merge and its write, and what it is about to write is
\* no shorter than the row that is there, unless it was merged with another copy.
WriterKeeps(t) ==
    (/\ task[t].pc = "write" /\ task[t].key \in HistoryKeys /\ row[task[t].key] # None
     /\ task[t].loaded \in {None, row[task[t].key].body})
    => Count(task[t].answer) >= Count(row[task[t].key].body)

HistoryInv ==
    /\ CacheInv
    /\ \A t, u \in Tasks : task[t].pc = "write" /\ task[u].pc = "write" => t = u
    /\ \A t \in Tasks : WriterKeeps(t)

CarriedOld(k) == \E t \in Tasks : /\ task[t].pc = "write" /\ task[t].key = k
                                 /\ task[t].loaded \notin {None, row[k].body}

OnlyStale == \A k \in HistoryKeys : Shortens(k) => CarriedOld(k)

\* A step that keeps the bodies of the rows it leaves.
LEMMA ThinnedIsNotShortened ==
  ASSUME CacheInv, \A k \in Keys : row'[k] # None => row[k] # None /\ row'[k].body = row[k].body
  PROVE  OnlyStale
<1>1. ASSUME NEW k \in HistoryKeys PROVE ~ Shortens(k)
  <2>1. k \in Keys
    BY DEF Keys
  <2>2. row[k] # None => Count(row[k].body) \in Nat
    BY <2>1, SanePeriods DEF CacheInv, Sane
  <2> QED
    BY <2>1, <2>2 DEF Shortens
<1> QED
  BY <1>1 DEF OnlyStale

LEMMA CountIs ==
  ASSUME CacheInv, NEW k \in Keys, row[k] # None
  PROVE  Count(row[k].body) \in Nat
  BY SanePeriods DEF CacheInv, Sane

LEMMA AloneInTheLoop ==
  ASSUME Crons = {}, NEW t \in Tasks, LoopFree(t)
  PROVE  \A u \in Tasks \ {t} : task[u].pc # "write"
  BY DEF LoopFree, Tasks

\* A step that brings no task to its write.
LEMMA TasksRest ==
  ASSUME HistoryInv, CacheInv', \A u \in Tasks : task'[u].pc = "write" => task'[u] = task[u],
         \A k \in Keys : row'[k] # None => row[k] # None /\ row'[k].body = row[k].body
  PROVE  HistoryInv' /\ OnlyStale
<1>1. OnlyStale
  BY ThinnedIsNotShortened DEF HistoryInv
<1>2. \A u \in Tasks : task'[u].pc = "write" => task[u].pc = "write" /\ task[u].key \in Keys
  BY DEF HistoryInv, CacheInv, TaskOK
<1>3. \A u, w \in Tasks : task'[u].pc = "write" /\ task'[w].pc = "write" => u = w
  BY <1>2 DEF HistoryInv
<1>4. ASSUME NEW u \in Tasks PROVE WriterKeeps(u)'
  <2> SUFFICES ASSUME task'[u].pc = "write", task'[u].key \in HistoryKeys, row'[task'[u].key] # None,
                      task'[u].loaded \in {None, row'[task'[u].key].body}
               PROVE  Count(task'[u].answer) >= Count(row'[task'[u].key].body)
    BY DEF WriterKeeps
  <2>1. task'[u] = task[u] /\ task[u].pc = "write" /\ task[u].key \in Keys
    BY <1>2
  <2>2. row[task[u].key] # None /\ row'[task[u].key].body = row[task[u].key].body
    BY <2>1
  <2>3. WriterKeeps(u)
    BY DEF HistoryInv
  <2> QED
    BY <2>1, <2>2, <2>3 DEF WriterKeeps
<1> QED
  BY <1>1, <1>3, <1>4 DEF HistoryInv

LEMMA NoNewWriter ==
  ASSUME HistoryInv, NEW t \in Tasks, Moves(t), task'[t].pc # "write", CacheInv',
         \A k \in Keys : row'[k] # None => row[k] # None /\ row'[k].body = row[k].body
  PROVE  HistoryInv' /\ OnlyStale
<1>1. \A u \in Tasks : task'[u].pc = "write" => task'[u] = task[u]
  BY DEF Moves
<1> QED
  BY <1>1, TasksRest

LEMMA ArrivalKeeps ==
  ASSUME HistoryInv, Crons = {}, NEW t \in Tasks, Arrives(t), CacheInv'
  PROVE  HistoryInv' /\ OnlyStale
<1>1. /\ Moves(t) /\ LoopFree(t) /\ UNCHANGED row
      /\ task'[t].key = task[t].key /\ task'[t].loaded = task[t].loaded
      /\ task[t].key \in HistoryKeys /\ row[task[t].key] # None
            => Count(task'[t].answer) >= Count(Cached(task[t]))
  BY ArrivesIs DEF HistoryInv
<1>2. \A u \in Tasks \ {t} : task[u].pc # "write" /\ task'[u] = task[u]
  BY <1>1, AloneInTheLoop DEF Moves
<1>3. OnlyStale
  BY <1>1, ThinnedIsNotShortened DEF HistoryInv
<1>4. \A u, w \in Tasks : task'[u].pc = "write" /\ task'[w].pc = "write" => u = w
  BY <1>2
<1>5. ASSUME NEW u \in Tasks PROVE WriterKeeps(u)'
  <2> SUFFICES ASSUME task'[u].pc = "write", task'[u].key \in HistoryKeys, row'[task'[u].key] # None,
                      task'[u].loaded \in {None, row'[task'[u].key].body}
               PROVE  Count(task'[u].answer) >= Count(row'[task'[u].key].body)
    BY DEF WriterKeeps
  <2>1. u = t
    BY <1>2
  <2>2. Cached(task[t]) = row[task[t].key].body
    BY <1>1, <2>1 DEF Cached
  <2> QED
    BY <1>1, <2>1, <2>2
<1> QED
  BY <1>3, <1>4, <1>5 DEF HistoryInv

LEMMA UpsertKeeps ==
  ASSUME HistoryInv, NEW t \in Tasks, Upsert(t), CacheInv'
  PROVE  HistoryInv' /\ OnlyStale
<1> DEFINE k == task[t].key
           new == [body |-> task[t].answer, at |-> "fresh"]
<1>1. /\ Moves(t) /\ task[t].pc = "write" /\ task'[t].pc # "write" /\ k \in Keys
      /\ row' = [row EXCEPT ![k] = new]
  BY UpsertIs DEF HistoryInv
<1>2. row \in [Keys -> Row \cup {None}]
  BY DEF HistoryInv, CacheInv, TypeOK
<1>3. new.body = task[t].answer
  OBVIOUS
<1> HIDE DEF new, k
<1>4. row'[k] = new /\ \A l \in Keys \ {k} : row'[l] = row[l]
  BY <1>1, <1>2
<1>5. \A u \in Tasks : task'[u].pc # "write"
  <2>1. \A u \in Tasks \ {t} : task[u].pc # "write"
    BY <1>1 DEF HistoryInv
  <2> QED
    BY <1>1, <2>1 DEF Moves
<1>6. ASSUME NEW l \in HistoryKeys, Shortens(l)
      PROVE  CarriedOld(l)
  <2>1. l \in Keys /\ row[l] # None
    BY <1>6 DEF Keys, Shortens
  <2>2. Count(row[l].body) \in Nat
    BY <2>1, SanePeriods DEF HistoryInv, CacheInv, Sane
  <2>3. l = k
    BY <1>4, <1>6, <2>1, <2>2 DEF Shortens
  <2>4. Count(task[t].answer) < Count(row[k].body)
    BY <1>3, <1>4, <1>6, <2>3 DEF Shortens
  <2>5. Count(task[t].answer) \in Nat
    BY <1>1, SanePeriods DEF HistoryInv, CacheInv, TaskOK, Sane
  <2>6. ~ (Count(task[t].answer) >= Count(row[k].body))
    BY <2>2, <2>3, <2>4, <2>5
  <2>7. WriterKeeps(t)
    BY DEF HistoryInv
  <2>8. task[t].loaded \notin {None, row[k].body}
    BY <1>1, <1>6, <2>1, <2>3, <2>6, <2>7 DEF WriterKeeps, k
  <2> QED
    BY <1>1, <2>3, <2>8 DEF CarriedOld, k
<1>7. OnlyStale
  BY <1>6 DEF OnlyStale
<1> QED
  BY <1>5, <1>7 DEF HistoryInv, WriterKeeps

LEMMA HistoryStep ==
  ASSUME HistoryInv, Crons = {}, [Next]_vars
  PROVE  HistoryInv' /\ OnlyStale
<1>1. CacheInv /\ CacheInv'
  BY StepHolds DEF HistoryInv
<1>2. ASSUME UNCHANGED row
      PROVE  \A k \in Keys : row'[k] # None => row[k] # None /\ row'[k].body = row[k].body
  BY <1>2
<1>3. CASE \E t \in Tasks, k \in Keys, force \in BOOLEAN : Get(t, k, force) \/ Take(t, k, force)
  <2>1. PICK t \in Tasks, k \in Keys, force \in BOOLEAN : Get(t, k, force) \/ Take(t, k, force)
    BY <1>3
  <2>2. Moves(t) /\ task'[t].pc # "write" /\ UNCHANGED row
    BY <1>1, <2>1, GetIs
  <2> QED
    BY <1>1, <1>2, <2>2, NoNewWriter
<1>4. CASE \E t \in Tasks : Arrives(t)
  BY <1>1, <1>4, ArrivalKeeps
<1>5. CASE \E t \in Tasks : Raises(t)
  BY <1>1, <1>2, <1>5, RaisesIs, NoNewWriter
<1>6. CASE \E t \in Tasks : Persist(t)
  BY <1>1, <1>2, <1>6, PersistIs, NoNewWriter
<1>7. CASE \E t \in Tasks : Upsert(t)
  BY <1>1, <1>7, UpsertKeeps
<1>8. CASE \E t \in Views : Refresh(t) \/ RefreshFrozen(t)
  <2>1. PICK t \in Views : Refresh(t) \/ RefreshFrozen(t)
    BY <1>8
  <2>2. t \in Tasks /\ task \in [Tasks -> Task]
    BY <1>1 DEF Tasks, CacheInv, TypeOK
  <2>3. Compute(t) /\ (UNCHANGED row \/ Refresh(t))
    BY <2>1 DEF Refresh, RefreshFrozen
  <2>4. \A k \in Keys : row'[k] # None => row[k] # None /\ row'[k].body = row[k].body
    BY <1>1, <1>2, <2>3, RowsThin
  <2>5. Moves(t) /\ task'[t].pc # "write"
    BY <2>2, <2>3, ComputeIs
  <2> QED
    BY <1>1, <2>2, <2>4, <2>5, NoNewWriter
<1>9. CASE (\E k \in Keys : GoesStale(k)) \/ PruneDeletes
  <2>1. \A k \in Keys : row'[k] # None => row[k] # None /\ row'[k].body = row[k].body
    BY <1>1, <1>9, RowsThin
  <2>2. \A u \in Tasks : task'[u].pc = "write" => task'[u] = task[u]
    BY <1>1, <1>9, PruneLets DEF GoesStale, Lets
  <2> QED
    BY <1>1, <2>1, <2>2, TasksRest
<1>10. CASE ComputeCached \/ Publish \/ Switch \/ (\E S \in SUBSET Keys : PruneSelects(S)) \/ UNCHANGED vars
  <2>1. UNCHANGED <<row, task>>
    BY <1>10 DEF ComputeCached, Publish, Switch, PruneSelects, vars
  <2> QED
    BY <1>1, <1>2, <2>1, TasksRest
<1> QED
  BY <1>3, <1>4, <1>5, <1>6, <1>7, <1>8, <1>9, <1>10 DEF Next, Fetches

(***************************************************************************)
(* While only the API's event loop fetches, whatever the answers and in    *)
(* whatever order they land, a history gets shorter only in the upsert of  *)
(* a fetch that carried a copy of the row over its await which is not the  *)
(* row any more (get_or_fetch, _merge_with_cached_history): the merge      *)
(* itself, a first fetch and a forced one keep its length.  That such a    *)
(* fetch exists is what run history_lost shows.                            *)
(***************************************************************************)
THEOREM OnlyOvertakenFetchesShorten ==
  ASSUME Crons = {}
  PROVE  Spec => OnlyStaleCopiesShorten
<1>1. Init => HistoryInv
  <2>1. ASSUME Init PROVE \A t \in Tasks : task[t].pc # "write"
    BY <2>1, IdleIs DEF Init
  <2> QED
    BY <2>1, InitHolds DEF HistoryInv, WriterKeeps
<1>2. HistoryInv /\ [Next]_vars => HistoryInv' /\ OnlyStale
  BY HistoryStep
<1>3. Spec => [][OnlyStale]_vars
  BY <1>1, <1>2, PTL DEF Spec
<1>4. OnlyStale => \A k \in HistoryKeys : Shortens(k) =>
           \E t \in Tasks : /\ task[t].pc = "write" /\ task[t].key = k
                            /\ task[t].loaded \notin {None, row[k].body}
  BY DEF OnlyStale, CarriedOld
<1> QED
  BY <1>3, <1>4, PTL DEF OnlyStaleCopiesShorten

-----------------------------------------------------------------------------
(***************************************************************************)
(* The score.                                                              *)
(***************************************************************************)

\* Until the group is switched, a task that lacks an input has recorded the failure.
ScoreInv ==
    /\ CacheInv
    /\ switches = 0 => live /\ \A t \in Tasks : task[t].missing => task[t].failed

ScoreKept ==
    (\E t \in Views : task[t].kind = "compute" /\ task'[t] = Idle) /\ switches = 0 /\ score # score'
        => score' = "full"

\* A task's step with the group left as it is.
LEMMA TaskStep ==
  ASSUME ScoreInv, CacheInv', NEW t \in Tasks, Moves(t), UNCHANGED <<live, switches>>,
         live /\ (task[t].missing => task[t].failed) => (task'[t].missing => task'[t].failed)
  PROVE  ScoreInv'
<1>1. ASSUME switches = 0
      PROVE  live /\ \A u \in Tasks : task'[u].missing => task'[u].failed
  BY <1>1 DEF ScoreInv, Moves
<1> QED
  BY <1>1 DEF ScoreInv

LEMMA ScoreStep ==
  ASSUME ScoreInv, [Next]_vars
  PROVE  ScoreInv' /\ ScoreKept
<1>1. CacheInv /\ CacheInv'
  BY StepHolds DEF ScoreInv
<1>2. CASE \E t \in Tasks, k \in Keys, force \in BOOLEAN : Get(t, k, force) \/ Take(t, k, force)
  <2>1. PICK t \in Tasks, k \in Keys, force \in BOOLEAN : Get(t, k, force) \/ Take(t, k, force)
    BY <1>2
  <2>2. /\ Moves(t) /\ UNCHANGED <<live, switches, score>>
        /\ live /\ (task[t].missing => task[t].failed) => (task'[t].missing => task'[t].failed)
    BY <1>1, <2>1, GetIs
  <2>3. ScoreInv'
    BY <1>1, <2>2, TaskStep
  <2> QED
    BY <2>2, <2>3 DEF ScoreKept
<1>3. CASE \E t \in Tasks : Arrives(t) \/ Raises(t) \/ Upsert(t)
  <2>1. PICK t \in Tasks : Arrives(t) \/ Raises(t) \/ Upsert(t)
    BY <1>3
  <2>2. /\ Moves(t) /\ UNCHANGED <<live, switches, score>>
        /\ (task[t].missing => task[t].failed) => (task'[t].missing => task'[t].failed)
    BY <1>1, <2>1, ArrivesIs, RaisesIs, UpsertIs
  <2>3. ScoreInv'
    BY <1>1, <2>2, TaskStep
  <2> QED
    BY <2>2, <2>3 DEF ScoreKept
<1>4. CASE \E t \in Tasks : Persist(t)
  <2>1. PICK t \in Tasks : Persist(t)
    BY <1>4
  <2>2. /\ Moves(t) /\ ~ task'[t].missing /\ UNCHANGED <<live, switches>>
        /\ (task[t].missing => task[t].failed) /\ score' # score => score' = "full"
    BY <1>1, <2>1, PersistIs
  <2>3. ScoreInv'
    BY <1>1, <2>2, TaskStep
  <2>4. ScoreKept
    BY <2>2 DEF ScoreKept, ScoreInv
  <2> QED
    BY <2>3, <2>4
<1>5. CASE \E t \in Views : Refresh(t) \/ RefreshFrozen(t)
  <2>1. PICK t \in Views : Refresh(t) \/ RefreshFrozen(t)
    BY <1>5
  <2>2. Compute(t) /\ UNCHANGED <<live, switches, score>>
    BY <2>1 DEF Refresh, RefreshFrozen
  <2>3. t \in Tasks /\ task \in [Tasks -> Task]
    BY <1>1 DEF Tasks, CacheInv, TypeOK
  <2>4. Moves(t) /\ ~ task'[t].missing
    BY <2>2, <2>3, ComputeIs
  <2>5. ScoreInv'
    BY <1>1, <2>2, <2>3, <2>4, TaskStep
  <2> QED
    BY <2>2, <2>5 DEF ScoreKept
<1>8. CASE PruneDeletes
  <2>1. \A t \in Tasks : Lets(t)
    BY <1>1, <1>8, PruneLets
  <2>2. UNCHANGED <<live, switches, score>>
    BY <1>8 DEF PruneDeletes
  <2>3. ScoreInv'
    BY <1>1, <2>1, <2>2 DEF ScoreInv, Lets
  <2> QED
    BY <2>2, <2>3 DEF ScoreKept
<1>6. CASE \/ ComputeCached \/ Publish \/ UNCHANGED vars
           \/ \E k \in Keys : GoesStale(k)
           \/ \E S \in SUBSET Keys : PruneSelects(S)
  <2>1. UNCHANGED <<live, switches, task>> /\ (ComputeCached \/ UNCHANGED score)
    BY <1>6 DEF ComputeCached, Publish, GoesStale, PruneSelects, vars
  <2>2. ScoreInv'
    BY <1>1, <2>1 DEF ScoreInv
  <2>3. ASSUME NEW t \in Views PROVE ~ (task[t].kind = "compute" /\ task'[t] = Idle)
    BY <2>1, IdleIs
  <2> QED
    BY <2>2, <2>3 DEF ScoreKept
<1>7. CASE Switch
  <2>1. UNCHANGED score /\ switches' = switches + 1 /\ switches \in Nat
    BY <1>1, <1>7, Bounds DEF Switch, CacheInv, TypeOK
  <2>2. switches' # 0
    BY <2>1
  <2> QED
    BY <1>1, <2>1, <2>2 DEF ScoreInv, ScoreKept
<1> QED
  BY <1>2, <1>3, <1>4, <1>5, <1>6, <1>7, <1>8 DEF Next, Fetches

(***************************************************************************)
(* As long as the group is not switched, a live recompute replaces the     *)
(* score only by one with all its inputs: whatever it could not fetch and  *)
(* had no row for is in its tracker's list, and compute_ticker_score then  *)
(* keeps the row (main.py:1069), whatever other tasks, cron processes      *)
(* included, do with the cached rows meanwhile.                            *)
(***************************************************************************)
THEOREM RefreshKeepsScore == Spec => LiveComputeKeepsScore
<1>1. Init => ScoreInv
  <2>1. ASSUME Init PROVE live /\ \A t \in Tasks : task[t].missing => task[t].failed
    BY <2>1, IdleIs DEF Init
  <2> QED
    BY <2>1, InitHolds DEF ScoreInv
<1>2. ScoreInv /\ [Next]_vars => ScoreInv' /\ ScoreKept
  BY ScoreStep
<1>3. Spec => [][ScoreKept]_vars
  BY <1>1, <1>2, PTL DEF Spec
<1> QED
  BY <1>3 DEF LiveComputeKeepsScore, ScoreKept

=============================================================================
