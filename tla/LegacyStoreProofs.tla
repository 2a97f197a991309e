-------------------------- MODULE LegacyStoreProofs --------------------------
(***************************************************************************)
(* What holds of the legacy in-memory storage for any number of threads,   *)
(* stores, keys and entries, and for queries and batches of any length:    *)
(* its locks, and what the answers of queries have to do with what was     *)
(* stored while they ran.                                                  *)
(***************************************************************************)
EXTENDS LegacyStore, SequenceTheorems, FiniteSetTheorems, TLAPS

-----------------------------------------------------------------------------
(* The inductive invariant.                                                   *)

StoreRecord == [name: Names, db: DB, writer: BOOLEAN]
Operation == [key: Keys \cup {""}, entry: Entries \cup {NoEntry}]

(* A thread in a batch holds the lock of its store; past the check of its     *)
(* keys it only has operations on keys left.                                  *)
BatchOK(b, ss) ==
    /\ DOMAIN b = {"pc", "store", "left"}
    /\ b.store \in DOMAIN ss /\ ss[b.store].writer
    /\ b.left \in Seq(Operation)
    /\ b.pc = "batch" => \A i \in DOMAIN b.left : b.left[i].key # ""

(* The results of a query are for the names of the terms it is past; each is  *)
(* the scan for the last such term, of what the store held at some time since *)
(* the query began.                                                           *)
ResultsOK(results, x, next, past) ==
    /\ DOMAIN results = {x[i].name : i \in 1..next - 1}
    /\ \A n \in DOMAIN results : \E i \in 1..next - 1, db \in past :
          /\ x[i].name = n
          /\ \A j \in 1..next - 1 : j > i => x[j].name # n
          /\ results[n] = getMatchingKeysAndDBEntries(db, x[i])

(* What can be read of the store now is among what the query remembers.       *)
QueryOK(q, ss) ==
    /\ DOMAIN q = {"pc", "store", "expression", "next", "results", "past"}
    /\ q.store \in DOMAIN ss
    /\ ~ss[q.store].writer => ss[q.store].db \in q.past
    /\ q.expression \in Expressions
    /\ q.next \in 1..Len(q.expression) + 1
    /\ ResultsOK(q.results, q.expression, q.next, q.past)

ThreadOK(th, ss) ==
    \/ th.pc = "idle"
    \/ th.pc \in {"check", "batch"} /\ BatchOK(th, ss)
    \/ th.pc = "query" /\ QueryOK(th, ss)

StateInv ==
    /\ dbs \in [Names -> 0..Len(stores)]
    /\ stores \in Seq(StoreRecord)
    /\ DOMAIN threads = Threads
    /\ \A t \in Threads : ThreadOK(threads[t], stores)
    /\ writes \in 0..MaxWrites

LockInv ==
    /\ \A h \in DOMAIN stores : stores[h].writer =>
          \E t \in Threads : Batching(t) /\ threads[t].store = h
    /\ \A t, u \in Threads :
          Batching(t) /\ Batching(u) /\ threads[t].store = threads[u].store => t = u

(* The properties of one answer.                                              *)
AnswerOK(a) ==
    /\ a.past # {}
    /\ \A k \in DOMAIN a.entries :
          /\ \E db \in a.past : db[k] = a.entries[k]
          /\ \A i \in DOMAIN a.expression : LastOfName(a.expression, i) =>
               \E db \in a.past : Satisfies(db[k], <<a.expression[i]>>)
    /\ \A k \in Keys : \A e \in Entries :
          Satisfies(e, a.expression) /\ (\A db \in a.past : db[k] = e)
              => k \in DOMAIN a.entries /\ a.entries[k] = e
    /\ Len(a.expression) = 1 =>
          \E db \in a.past : \A k \in Keys :
              IF Satisfies(db[k], a.expression)
              THEN k \in DOMAIN a.entries /\ a.entries[k] = db[k]
              ELSE k \notin DOMAIN a.entries
AnswerInv ==
    /\ DOMAIN answers = Threads
    /\ \A t \in Threads : answers[t].done => AnswerOK(answers[t])

-----------------------------------------------------------------------------
(* Threads whose store changes under them.                                    *)

LEMMA BatchKept ==
    ASSUME NEW b, NEW s1, NEW s2, BatchOK(b, s1),
           b.store \in DOMAIN s2, s2[b.store].writer
    PROVE  BatchOK(b, s2)
BY DEF BatchOK

LEMMA QueryKept ==
    ASSUME NEW q, NEW s1, NEW s2, QueryOK(q, s1), DOMAIN s1 \subseteq DOMAIN s2,
           s2[q.store].writer \/ s2[q.store] = s1[q.store]
    PROVE  QueryOK(q, s2)
BY DEF QueryOK

LEMMA PastGrows ==
    ASSUME NEW results, NEW x, NEW next, NEW past, NEW more, past \subseteq more,
           ResultsOK(results, x, next, past)
    PROVE  ResultsOK(results, x, next, more)
<1>1. DOMAIN results = {x[i].name : i \in 1..next - 1}
  BY Zenon DEF ResultsOK
<1>2. ASSUME NEW n \in DOMAIN results
      PROVE  \E i \in 1..next - 1, db \in more :
                 /\ x[i].name = n
                 /\ \A j \in 1..next - 1 : j > i => x[j].name # n
                 /\ results[n] = getMatchingKeysAndDBEntries(db, x[i])
  <2>1. PICK i \in 1..next - 1, db \in past :
                 /\ x[i].name = n
                 /\ \A j \in 1..next - 1 : j > i => x[j].name # n
                 /\ results[n] = getMatchingKeysAndDBEntries(db, x[i])
    BY Zenon DEF ResultsOK
  <2>2. db \in more
    OBVIOUS
  <2>3. QED BY <2>1, <2>2, Zenon
<1>3. QED BY <1>1, <1>2, Zenon DEF ResultsOK

LEMMA QueryNotices ==
    ASSUME NEW q, NEW s1, NEW s2, QueryOK(q, s1), DOMAIN s1 \subseteq DOMAIN s2,
           NEW db, s2[q.store].db = db
    PROVE  LET r == [q EXCEPT !.past = @ \cup {db}]
           IN  r.pc = q.pc /\ QueryOK(r, s2)
<1> DEFINE r == [q EXCEPT !.past = @ \cup {db}]
<1>1. /\ DOMAIN q = {"pc", "store", "expression", "next", "results", "past"}
      /\ ResultsOK(q.results, q.expression, q.next, q.past)
      /\ q.store \in DOMAIN s1 /\ q.expression \in Expressions
      /\ q.next \in 1..Len(q.expression) + 1
  BY DEF QueryOK
<1>2. /\ DOMAIN r = DOMAIN q /\ r.past = q.past \cup {db}
      /\ r.pc = q.pc /\ r.store = q.store /\ r.expression = q.expression
      /\ r.next = q.next /\ r.results = q.results
  BY <1>1
<1> HIDE DEF r
<1>3. ResultsOK(r.results, r.expression, r.next, r.past)
  BY <1>1, <1>2, PastGrows
<1>4. QED BY <1>1, <1>2, <1>3 DEF QueryOK, r

(* A thread keeps well when what it does not use changes, with what it is     *)
(* told of the store that changes.                                            *)
NoticedBy(th, h, db) ==
    IF th.pc = "query" /\ th.store = h THEN [th EXCEPT !.past = @ \cup {db}] ELSE th

LEMMA ThreadNotices ==
    ASSUME NEW th, NEW s1, NEW s2, NEW h, NEW db, ThreadOK(th, s1),
           DOMAIN s1 = DOMAIN s2, \A g \in DOMAIN s1 : g # h => s2[g] = s1[g],
           s2[h].db = db, th.pc \in {"check", "batch"} => th.store # h
    PROVE  ThreadOK(NoticedBy(th, h, db), s2)
<1>1. CASE th.pc = "idle"
  BY <1>1 DEF ThreadOK, NoticedBy
<1>2. CASE th.pc \in {"check", "batch"} /\ BatchOK(th, s1)
  <2>1. th.store \in DOMAIN s2 /\ s2[th.store].writer
    BY <1>2 DEF BatchOK
  <2>2. BatchOK(th, s2)
    BY <1>2, <2>1, BatchKept
  <2>3. QED BY <1>2, <2>2 DEF ThreadOK, NoticedBy
<1>3. CASE th.pc = "query" /\ QueryOK(th, s1)
  <2>1. CASE th.store = h
    BY <1>3, <2>1, QueryNotices DEF ThreadOK, NoticedBy
  <2>2. CASE th.store # h
    <3>1. s2[th.store] = s1[th.store]
      BY <1>3, <2>2 DEF QueryOK
    <3>2. QED BY <1>3, <2>2, <3>1, QueryKept DEF ThreadOK, NoticedBy
  <2>3. QED BY <2>1, <2>2
<1>4. QED BY <1>1, <1>2, <1>3 DEF ThreadOK

LEMMA ThreadKept ==
    ASSUME NEW th, NEW s1, NEW s2, ThreadOK(th, s1), DOMAIN s1 \subseteq DOMAIN s2,
           \A g \in DOMAIN s1 : s2[g] = s1[g] \/ s2[g].writer
    PROVE  ThreadOK(th, s2)
<1>1. CASE th.pc = "idle"
  BY <1>1 DEF ThreadOK
<1>2. CASE th.pc \in {"check", "batch"} /\ BatchOK(th, s1)
  <2>1. th.store \in DOMAIN s2 /\ s2[th.store].writer
    BY <1>2 DEF BatchOK
  <2>2. QED BY <1>2, <2>1, BatchKept DEF ThreadOK
<1>3. CASE th.pc = "query" /\ QueryOK(th, s1)
  <2>1. s2[th.store].writer \/ s2[th.store] = s1[th.store]
    BY <1>3 DEF QueryOK
  <2>2. QED BY <1>3, <2>1, QueryKept DEF ThreadOK
<1>4. QED BY <1>1, <1>2, <1>3 DEF ThreadOK

(* Threads are in a batch, or not, together with the store they lock.         *)
LEMMA NoticedAll ==
    ASSUME NEW h, NEW db
    PROVE  Noticed(h, db) = [t \in Threads |-> NoticedBy(threads[t], h, db)]
BY Zenon DEF Noticed, NoticedBy

LEMMA NoticedPc ==
    ASSUME NEW th, NEW s1, NEW h, NEW db, ThreadOK(th, s1)
    PROVE  /\ NoticedBy(th, h, db).pc = th.pc
           /\ NoticedBy(th, h, db).pc # "query" => NoticedBy(th, h, db) = th
<1>1. CASE th.pc = "query" /\ th.store = h
  <2>1. DOMAIN th = {"pc", "store", "expression", "next", "results", "past"}
    BY <1>1 DEF ThreadOK, QueryOK
  <2>2. [th EXCEPT !.past = @ \cup {db}].pc = th.pc
    BY <2>1
  <2>3. QED BY <1>1, <2>2 DEF NoticedBy
<1>2. CASE ~(th.pc = "query" /\ th.store = h)
  BY <1>2 DEF NoticedBy
<1>3. QED BY <1>1, <1>2

-----------------------------------------------------------------------------
(* The invariant is kept.                                                     *)

LEMMA StoreAt ==
    ASSUME StateInv, NEW h \in DOMAIN stores
    PROVE  /\ stores[h].name \in Names /\ stores[h].db \in DB
           /\ stores[h].writer \in BOOLEAN
           /\ DOMAIN stores[h] = {"name", "db", "writer"}
           /\ DOMAIN stores = 1..Len(stores) /\ Len(stores) \in Nat
<1>1. stores \in Seq(StoreRecord)
  BY DEF StateInv
<1>2. stores[h] \in StoreRecord /\ DOMAIN stores = 1..Len(stores) /\ Len(stores) \in Nat
  BY <1>1
<1>3. QED BY <1>2 DEF StoreRecord

(* One store changes.                                                         *)
LEMMA ChangedStore ==
    ASSUME StateInv, NEW h \in DOMAIN stores, NEW new \in StoreRecord,
           stores' = [stores EXCEPT ![h] = new]
    PROVE  /\ stores' \in Seq(StoreRecord)
           /\ DOMAIN stores' = DOMAIN stores /\ Len(stores') = Len(stores)
           /\ stores'[h] = new
           /\ \A g \in DOMAIN stores : g # h => stores'[g] = stores[g]
<1>1. stores \in Seq(StoreRecord)
  BY DEF StateInv
<1>2. QED BY <1>1, ExceptSeq

LEMMA IdleRecord == Idle.pc = "idle"
BY DEF Idle

(* Put and Delete.                                                            *)
LEMMA WriteStep ==
    ASSUME StateInv, LockInv, NEW h \in DOMAIN stores, NEW db \in DB, Write(h, db)
    PROVE  StateInv' /\ LockInv'
<1> DEFINE new == [stores[h] EXCEPT !.db = db]
<1>1. /\ new \in StoreRecord
      /\ new.db = db /\ new.writer = stores[h].writer
  BY StoreAt DEF StoreRecord
<1>2. stores' = [stores EXCEPT ![h] = new] /\ ~stores[h].writer
  BY DEF Write, CanWrite
<1> HIDE DEF new
<1>3. /\ stores' \in Seq(StoreRecord)
      /\ DOMAIN stores' = DOMAIN stores /\ Len(stores') = Len(stores)
      /\ stores'[h] = new
      /\ \A g \in DOMAIN stores : g # h => stores'[g] = stores[g]
  BY <1>1, <1>2, ChangedStore
<1>4. /\ DOMAIN threads' = Threads
      /\ \A t \in Threads : threads'[t] = NoticedBy(threads[t], h, db)
  BY NoticedAll DEF Write
<1>5. \A t \in Threads : threads[t].pc \in {"check", "batch"} =>
          threads[t].store \in DOMAIN stores /\ stores[threads[t].store].writer
  BY DEF StateInv, ThreadOK, BatchOK
<1>6. \A t \in Threads : ThreadOK(threads'[t], stores')
  <2> SUFFICES ASSUME NEW t \in Threads PROVE ThreadOK(threads'[t], stores')
    OBVIOUS
  <2>1. ThreadOK(threads[t], stores)
    BY DEF StateInv
  <2>2. threads[t].pc \in {"check", "batch"} => threads[t].store # h
    BY <1>2, <1>5
  <2>3. ThreadOK(NoticedBy(threads[t], h, db), stores')
    BY <1>1, <1>3, <2>1, <2>2, ThreadNotices
  <2>4. QED BY <1>4, <2>3
<1>7. \A t \in Threads : /\ Batching(t)' <=> Batching(t)
                         /\ Batching(t) => threads'[t] = threads[t]
  BY <1>4, NoticedPc DEF Batching, StateInv
<1>8. LockInv'
  <2>1. \A g \in DOMAIN stores' : stores'[g].writer <=> stores[g].writer
    BY <1>1, <1>3
  <2>2. QED BY <1>3, <1>7, <2>1 DEF LockInv
<1>9. dbs' \in [Names -> 0..Len(stores')] /\ writes' \in 0..MaxWrites
  BY <1>3, StoreBoundsAssumption DEF Write, StateInv
<1>10. QED BY <1>3, <1>4, <1>6, <1>8, <1>9 DEF StateInv

(* Opening a store.                                                           *)
LEMMA OpenStep ==
    ASSUME StateInv, LockInv, NEW name \in Names, OpenStore(name)
    PROVE  StateInv' /\ LockInv'
<1> DEFINE new == [name |-> Lower[name], db |-> EmptyDB, writer |-> FALSE]
<1>1. stores \in Seq(StoreRecord) /\ Len(stores) \in Nat
  BY DEF StateInv
<1>2. new \in StoreRecord /\ new.writer = FALSE
  <2>1. Lower[name] \in Names /\ EmptyDB \in DB
    BY NamesAssumption DEF EmptyDB, DB
  <2>2. QED BY <2>1 DEF StoreRecord
<1>3. stores' = Append(stores, new)
  BY DEF OpenStore
<1> HIDE DEF new
<1>4. /\ stores' \in Seq(StoreRecord) /\ Len(stores') = Len(stores) + 1
      /\ DOMAIN stores' = DOMAIN stores \cup {Len(stores) + 1}
      /\ stores'[Len(stores) + 1] = new
      /\ \A g \in DOMAIN stores : stores'[g] = stores[g]
  BY <1>1, <1>2, <1>3, AppendProperties
<1>5. \A t \in Threads : ThreadOK(threads[t], stores')
  BY <1>4, ThreadKept DEF StateInv
<1>6. threads' = threads /\ writes' = writes
  BY DEF OpenStore
<1>7. dbs' \in [Names -> 0..Len(stores')]
  <2>1. dbs' = [dbs EXCEPT ![Lower[name]] = Len(stores) + 1]
    BY DEF OpenStore
  <2>2. dbs \in [Names -> 0..Len(stores)]
    BY DEF StateInv
  <2>3. \A n \in 0..Len(stores) : n \in 0..Len(stores')
    BY <1>1, <1>4
  <2>4. Len(stores) + 1 \in 0..Len(stores')
    BY <1>1, <1>4
  <2>5. QED BY <2>1, <2>2, <2>3, <2>4
<1>8. LockInv'
  <2>1. \A g \in DOMAIN stores' : stores'[g].writer => g \in DOMAIN stores /\ stores[g].writer
    BY <1>2, <1>4
  <2>2. QED BY <1>6, <2>1 DEF LockInv, Batching
<1>9. QED BY <1>4, <1>5, <1>6, <1>7, <1>8 DEF StateInv

(* Closing one store, or all.                                                 *)
LEMMA CloseStep ==
    ASSUME StateInv, LockInv, CloseProvider \/ \E h \in DOMAIN stores : CloseStore(h)
    PROVE  StateInv' /\ LockInv'
<1>1. UNCHANGED <<stores, threads, writes>>
  BY DEF CloseProvider, CloseStore
<1>2. dbs' \in [Names -> 0..Len(stores)]
  <2>1. dbs \in [Names -> 0..Len(stores)] /\ Len(stores) \in Nat
    BY DEF StateInv
  <2>2. 0 \in 0..Len(stores)
    BY <2>1
  <2>3. QED BY <2>1, <2>2 DEF CloseProvider, CloseStore
<1>3. QED BY <1>1, <1>2 DEF StateInv, LockInv, Batching

(* A thread goes on with a batch or a query, and no store changes.            *)
LEMMA ThreadStep ==
    ASSUME StateInv, LockInv, UNCHANGED <<dbs, stores, writes>>, NEW t \in Threads, NEW th,
           threads' = [threads EXCEPT ![t] = th], ThreadOK(th, stores),
           IF Batching(t) THEN th.pc \in {"check", "batch"} /\ th.store = threads[t].store
                          ELSE th.pc \notin {"check", "batch"}
    PROVE  StateInv' /\ LockInv'
<1>1. /\ DOMAIN threads' = Threads /\ threads'[t] = th
      /\ \A u \in Threads : u # t => threads'[u] = threads[u]
  BY DEF StateInv
<1>2. StateInv'
  BY <1>1 DEF StateInv
<1>3. \A u \in Threads : /\ Batching(u)' <=> Batching(u)
                         /\ Batching(u) => threads'[u].store = threads[u].store
  BY <1>1 DEF Batching
<1>4. LockInv'
  BY <1>3 DEF LockInv
<1>5. QED BY <1>2, <1>4

(* A batch takes the lock.                                                    *)
LEMMA BatchStep ==
    ASSUME StateInv, LockInv, NEW t \in Threads, NEW h \in DOMAIN stores,
           NEW b \in Batches, Batch(t, h, b)
    PROVE  StateInv' /\ LockInv'
<1> DEFINE new == [stores[h] EXCEPT !.writer = TRUE]
           th == [pc |-> "check", store |-> h, left |-> b]
<1>1. new \in StoreRecord /\ new.writer = TRUE
  BY StoreAt DEF StoreRecord
<1>2. stores' = [stores EXCEPT ![h] = new] /\ ~stores[h].writer /\ threads[t].pc = "idle"
  BY IdleRecord DEF Batch, CanWrite
<1>3. /\ threads' = [threads EXCEPT ![t] = th] /\ dbs' = dbs /\ writes' \in 0..MaxWrites
  BY StoreBoundsAssumption DEF Batch, StateInv
<1> HIDE DEF new
<1>4. /\ stores' \in Seq(StoreRecord)
      /\ DOMAIN stores' = DOMAIN stores /\ Len(stores') = Len(stores)
      /\ stores'[h] = new
      /\ \A g \in DOMAIN stores : g # h => stores'[g] = stores[g]
  BY <1>1, <1>2, ChangedStore
<1>5. /\ th.pc = "check" /\ th.store = h /\ ThreadOK(th, stores')
  <2>1. b \in Seq(Operation)
    BY BatchesAssumption DEF Operation
  <2>2. stores'[h].writer
    BY <1>1, <1>4
  <2>3. /\ DOMAIN th = {"pc", "store", "left"} /\ th.pc = "check" /\ th.store = h
        /\ th.left = b
    OBVIOUS
  <2> HIDE DEF th
  <2>4. QED BY <1>4, <2>1, <2>2, <2>3 DEF ThreadOK, BatchOK
<1> HIDE DEF th
<1>6. /\ DOMAIN threads' = Threads /\ threads'[t] = th
      /\ \A u \in Threads : u # t => threads'[u] = threads[u]
  BY <1>3 DEF StateInv
<1>7. \A u \in Threads : ThreadOK(threads'[u], stores')
  <2> SUFFICES ASSUME NEW u \in Threads, u # t PROVE ThreadOK(threads'[u], stores')
    BY <1>5, <1>6
  <2>1. \A g \in DOMAIN stores : stores'[g] = stores[g] \/ stores'[g].writer
    BY <1>1, <1>4
  <2>2. QED BY <1>4, <1>6, <2>1, ThreadKept DEF StateInv
<1>8. StateInv'
  BY <1>3, <1>4, <1>6, <1>7 DEF StateInv
<1>9. LockInv'
  <2>1. \A u \in Threads : u # t => /\ Batching(u)' <=> Batching(u)
                                    /\ threads'[u] = threads[u]
    BY <1>6 DEF Batching
  <2>2. Batching(t)' /\ threads'[t].store = h /\ ~Batching(t)
    BY <1>2, <1>5, <1>6 DEF Batching
  <2>3. \A u \in Threads : Batching(u) => threads[u].store # h
    BY <1>2 DEF StateInv, ThreadOK, BatchOK, Batching
  <2>4. \A g \in DOMAIN stores' : stores'[g].writer =>
            \E u \in Threads : Batching(u)' /\ threads'[u].store = g
    <3> SUFFICES ASSUME NEW g \in DOMAIN stores, stores'[g].writer, g # h
                 PROVE  \E u \in Threads : Batching(u)' /\ threads'[u].store = g
      BY <1>4, <2>2
    <3>1. stores[g].writer
      BY <1>4
    <3>2. PICK u \in Threads : Batching(u) /\ threads[u].store = g
      BY <3>1 DEF LockInv
    <3>3. u # t
      BY <2>2, <3>2
    <3>4. QED BY <2>1, <3>2, <3>3
  <2>5. \A u, v \in Threads :
            Batching(u)' /\ Batching(v)' /\ threads'[u].store = threads'[v].store => u = v
    BY <2>1, <2>2, <2>3 DEF LockInv
  <2>6. QED BY <2>4, <2>5 DEF LockInv
<1>10. QED BY <1>8, <1>9

LEMMA BatchingThread ==
    ASSUME StateInv, NEW t \in Threads, Batching(t)
    PROVE  /\ BatchOK(threads[t], stores)
           /\ threads[t].store \in DOMAIN stores /\ stores[threads[t].store].writer
BY DEF StateInv, ThreadOK, BatchOK, Batching

(* A batch gives the lock back, refused or done.                              *)
LEMMA UnlockStep ==
    ASSUME StateInv, LockInv, NEW t \in Threads, BatchRefused(t) \/ BatchDone(t)
    PROVE  StateInv' /\ LockInv'
<1> DEFINE h == threads[t].store
           db == stores[h].db
           new == [stores[h] EXCEPT !.writer = FALSE]
<1>1. Batching(t) /\ h \in DOMAIN stores
  BY BatchingThread DEF BatchRefused, BatchDone, Batching
<1>2. new \in StoreRecord /\ new.writer = FALSE /\ new.db = db
  BY <1>1, StoreAt DEF StoreRecord
<1>3. stores' = [stores EXCEPT ![h] = new] /\ UNCHANGED <<dbs, writes>>
  BY DEF BatchRefused, BatchDone
<1>4. threads' = [Noticed(h, db) EXCEPT ![t] = Idle]
  BY DEF BatchRefused, BatchDone
<1> HIDE DEF new, db, h
<1>5. /\ stores' \in Seq(StoreRecord)
      /\ DOMAIN stores' = DOMAIN stores /\ Len(stores') = Len(stores)
      /\ stores'[h] = new
      /\ \A g \in DOMAIN stores : g # h => stores'[g] = stores[g]
  BY <1>1, <1>2, <1>3, ChangedStore
<1>6. /\ DOMAIN threads' = Threads /\ threads'[t] = Idle
      /\ \A u \in Threads : u # t => threads'[u] = NoticedBy(threads[u], h, db)
  BY <1>4, NoticedAll
<1>7. \A u \in Threads : Batching(u) /\ u # t => threads[u].store # h
  BY <1>1 DEF LockInv, h
<1>8. \A u \in Threads : ThreadOK(threads'[u], stores')
  <2>1. ThreadOK(Idle, stores')
    BY IdleRecord DEF ThreadOK
  <2>2. ASSUME NEW u \in Threads, u # t PROVE ThreadOK(threads'[u], stores')
    <3>1. ThreadOK(threads[u], stores)
      BY DEF StateInv
    <3>2. threads[u].pc \in {"check", "batch"} => threads[u].store # h
      BY <1>7, <2>2 DEF Batching
    <3>3. ThreadOK(NoticedBy(threads[u], h, db), stores')
      BY <1>2, <1>5, <3>1, <3>2, ThreadNotices
    <3>4. QED BY <1>6, <2>2, <3>3
  <2>3. QED BY <1>6, <2>1, <2>2
<1>9. StateInv'
  BY <1>3, <1>5, <1>6, <1>8 DEF StateInv
<1>10. LockInv'
  <2>1. \A u \in Threads : u # t => /\ Batching(u)' <=> Batching(u)
                                    /\ Batching(u) => threads'[u] = threads[u]
    BY <1>6, NoticedPc DEF Batching, StateInv
  <2>2. ~Batching(t)'
    BY <1>6, IdleRecord DEF Batching
  <2>3. \A g \in DOMAIN stores' : stores'[g].writer =>
            \E u \in Threads : Batching(u)' /\ threads'[u].store = g
    <3> SUFFICES ASSUME NEW g \in DOMAIN stores, stores'[g].writer
                 PROVE  \E u \in Threads : Batching(u)' /\ threads'[u].store = g
      BY <1>5
    <3>1. g # h /\ stores[g].writer
      BY <1>2, <1>5
    <3>2. PICK u \in Threads : Batching(u) /\ threads[u].store = g
      BY <3>1 DEF LockInv
    <3>3. u # t
      BY <3>1, <3>2 DEF h
    <3>4. QED BY <2>1, <3>2, <3>3
  <2>4. \A u, v \in Threads :
            Batching(u)' /\ Batching(v)' /\ threads'[u].store = threads'[v].store => u = v
    BY <2>1, <2>2 DEF LockInv
  <2>5. QED BY <2>3, <2>4 DEF LockInv
<1>11. QED BY <1>9, <1>10

(* A batch whose keys are all right goes ahead.                               *)
LEMMA CheckedStep ==
    ASSUME StateInv, LockInv, NEW t \in Threads, BatchChecked(t)
    PROVE  StateInv' /\ LockInv'
<1> DEFINE b == threads[t]
           th == [b EXCEPT !.pc = "batch"]
<1>1. Batching(t) /\ BatchOK(b, stores)
  BY BatchingThread DEF BatchChecked, Batching
<1>2. /\ DOMAIN th = {"pc", "store", "left"} /\ th.pc = "batch" /\ th.store = b.store
      /\ th.left = b.left
  BY <1>1 DEF BatchOK
<1>3. threads' = [threads EXCEPT ![t] = th] /\ UNCHANGED <<dbs, stores, writes>>
  BY DEF BatchChecked
<1>4. \A i \in DOMAIN b.left : b.left[i].key # ""
  BY DEF BatchChecked
<1> HIDE DEF th
<1>5. ThreadOK(th, stores)
  BY <1>1, <1>2, <1>4 DEF ThreadOK, BatchOK
<1>6. QED BY <1>1, <1>2, <1>3, <1>5, ThreadStep

(* One operation of a batch, under the lock.                                  *)
LEMMA OperationStep ==
    ASSUME StateInv, LockInv, NEW t \in Threads, BatchOperation(t)
    PROVE  StateInv' /\ LockInv'
<1> DEFINE b == threads[t]
           h == b.store
           op == Head(b.left)
           db == [stores[h].db EXCEPT ![op.key] = op.entry]
           new == [stores[h] EXCEPT !.db = db]
           th == [b EXCEPT !.left = Tail(b.left)]
<1>1. Batching(t) /\ BatchOK(b, stores) /\ h \in DOMAIN stores /\ stores[h].writer
  BY BatchingThread DEF BatchOperation, Batching
<1>2. b.left \in Seq(Operation) /\ b.left # <<>> /\ b.pc = "batch"
  BY <1>1 DEF BatchOK, BatchOperation
<1>3. op \in Operation /\ op.key # ""
  <2>1. 1 \in DOMAIN b.left /\ op = b.left[1] /\ op \in Operation
    BY <1>2
  <2>2. QED BY <1>1, <1>2, <2>1 DEF BatchOK
<1>4. op.key \in Keys /\ op.entry \in Entries \cup {NoEntry}
  BY <1>3 DEF Operation
<1>5. /\ Tail(b.left) \in Seq(Operation)
      /\ \A i \in DOMAIN Tail(b.left) : Tail(b.left)[i].key # ""
  <2>1. /\ Tail(b.left) \in Seq(Operation)
        /\ \A i \in DOMAIN Tail(b.left) : i + 1 \in DOMAIN b.left /\ Tail(b.left)[i] = b.left[i + 1]
    BY <1>2
  <2>2. QED BY <1>1, <1>2, <2>1 DEF BatchOK
<1>6. stores' = [stores EXCEPT ![h] = new] /\ UNCHANGED <<dbs, writes>>
  BY DEF BatchOperation
<1>7. threads' = [threads EXCEPT ![t] = th]
  BY DEF BatchOperation
<1>8. new \in StoreRecord /\ new.writer
  <2>1. stores[h].db \in DB
    BY <1>1, StoreAt
  <2>2. db \in DB
    BY <1>4, <2>1 DEF DB
  <2> HIDE DEF db
  <2>3. QED BY <1>1, <2>2, StoreAt DEF StoreRecord
<1>9. /\ DOMAIN th = {"pc", "store", "left"} /\ th.pc = "batch" /\ th.store = h
      /\ th.left = Tail(b.left)
  BY <1>1, <1>2 DEF BatchOK
<1> HIDE DEF new, db, th
<1>10. /\ stores' \in Seq(StoreRecord)
       /\ DOMAIN stores' = DOMAIN stores /\ Len(stores') = Len(stores)
       /\ stores'[h] = new
       /\ \A g \in DOMAIN stores : g # h => stores'[g] = stores[g]
  BY <1>1, <1>6, <1>8, ChangedStore
<1>11. /\ DOMAIN threads' = Threads /\ threads'[t] = th
       /\ \A u \in Threads : u # t => threads'[u] = threads[u]
  BY <1>7 DEF StateInv
<1>12. \A u \in Threads : ThreadOK(threads'[u], stores')
  <2>1. ThreadOK(th, stores')
    BY <1>1, <1>5, <1>8, <1>9, <1>10 DEF ThreadOK, BatchOK
  <2>2. \A g \in DOMAIN stores : stores'[g] = stores[g] \/ stores'[g].writer
    BY <1>8, <1>10
  <2>3. \A u \in Threads : u # t => ThreadOK(threads'[u], stores')
    BY <1>10, <1>11, <2>2, ThreadKept DEF StateInv
  <2>4. QED BY <1>11, <2>1, <2>3
<1>13. StateInv'
  BY <1>6, <1>10, <1>11, <1>12 DEF StateInv
<1>14. LockInv'
  <2>1. \A u \in Threads : /\ Batching(u)' <=> Batching(u)
                           /\ threads'[u].store = threads[u].store
    BY <1>1, <1>9, <1>11 DEF Batching
  <2>2. \A g \in DOMAIN stores' : stores'[g].writer => stores[g].writer
    BY <1>1, <1>10
  <2>3. QED BY <1>10, <2>1, <2>2 DEF LockInv
<1>15. QED BY <1>13, <1>14

LEMMA ExpressionType ==
    ASSUME NEW x \in Expressions
    PROVE  /\ x \in Seq([name: STRING, value: STRING])
           /\ Len(x) \in Nat /\ Len(x) > 0 /\ DOMAIN x = 1..Len(x)
<1>1. x \in Seq([name: STRING, value: STRING]) /\ x # <<>>
  BY ExpressionsAssumption
<1>2. QED BY <1>1, EmptySeq

(* A query begins with no results.                                            *)
LEMMA QueryStep ==
    ASSUME StateInv, LockInv, NEW t \in Threads, NEW h \in DOMAIN stores,
           NEW x \in Expressions, Query(t, h, x)
    PROVE  StateInv' /\ LockInv'
<1> DEFINE past == IF stores[h].writer THEN {} ELSE {stores[h].db}
           q == [pc |-> "query", store |-> h, expression |-> x, next |-> 1,
                 results |-> <<>>, past |-> past]
<1>1. /\ threads' = [threads EXCEPT ![t] = q] /\ UNCHANGED <<dbs, stores, writes>>
      /\ threads[t].pc = "idle"
  BY IdleRecord DEF Query
<1>2. ~stores[h].writer => stores[h].db \in past
  OBVIOUS
<1> HIDE DEF past
<1>3. /\ DOMAIN q = {"pc", "store", "expression", "next", "results", "past"}
      /\ q.pc = "query" /\ q.store = h /\ q.expression = x /\ q.next = 1
      /\ q.results = <<>> /\ q.past = past
  OBVIOUS
<1>4. ResultsOK(<<>>, x, 1, past)
  <2>1. DOMAIN <<>> = {} /\ 1..1 - 1 = {}
    OBVIOUS
  <2>2. QED BY <2>1 DEF ResultsOK
<1>5. 1 \in 1..Len(x) + 1
  BY ExpressionType
<1> HIDE DEF q
<1>6. QueryOK(q, stores)
  BY <1>2, <1>3, <1>4, <1>5 DEF QueryOK
<1>7. ThreadOK(q, stores) /\ q.pc \notin {"check", "batch"} /\ ~Batching(t)
  BY <1>1, <1>3, <1>6 DEF ThreadOK, Batching
<1>8. QED BY <1>1, <1>7, ThreadStep

(* A scan adds the result for its term.                                       *)
LEMMA ResultAdded ==
    ASSUME NEW results, NEW x, NEW next \in Nat \ {0}, NEW past, NEW db \in past,
           ResultsOK(results, x, next, past), NEW more,
           more = [n \in DOMAIN results \cup {x[next].name} |->
                      IF n = x[next].name THEN getMatchingKeysAndDBEntries(db, x[next])
                                          ELSE results[n]]
    PROVE  ResultsOK(more, x, next + 1, past)
<1>1. DOMAIN results = {x[i].name : i \in 1..next - 1}
  BY Zenon DEF ResultsOK
<1>2. (next + 1) - 1 = next /\ 1..next = (1..next - 1) \cup {next}
  OBVIOUS
<1>3. DOMAIN more = {x[i].name : i \in 1..(next + 1) - 1}
  BY <1>1, <1>2
<1>4. ASSUME NEW n \in DOMAIN more
      PROVE  \E i \in 1..(next + 1) - 1, d \in past :
                 /\ x[i].name = n
                 /\ \A j \in 1..(next + 1) - 1 : j > i => x[j].name # n
                 /\ more[n] = getMatchingKeysAndDBEntries(d, x[i])
  <2>1. CASE n = x[next].name
    <3>1. more[n] = getMatchingKeysAndDBEntries(db, x[next])
      BY <2>1
    <3>2. next \in 1..(next + 1) - 1 /\ \A j \in 1..(next + 1) - 1 : ~(j > next)
      BY <1>2
    <3>3. QED BY <2>1, <3>1, <3>2, Zenon
  <2>2. CASE n # x[next].name
    <3>1. n \in DOMAIN results /\ more[n] = results[n]
      BY <2>2
    <3>2. PICK i \in 1..next - 1, d \in past :
                 /\ x[i].name = n
                 /\ \A j \in 1..next - 1 : j > i => x[j].name # n
                 /\ results[n] = getMatchingKeysAndDBEntries(d, x[i])
      BY <3>1, Zenon DEF ResultsOK
    <3>3. i \in 1..(next + 1) - 1
      BY <1>2
    <3>4. \A j \in 1..(next + 1) - 1 : j > i => x[j].name # n
      BY <1>2, <2>2, <3>2, Zenon
    <3>5. QED BY <3>1, <3>2, <3>3, <3>4, Zenon
  <2>3. QED BY <2>1, <2>2
<1>5. QED BY <1>3, <1>4, Zenon DEF ResultsOK

LEMMA TermStep ==
    ASSUME StateInv, LockInv, NEW t \in Threads, QueryTerm(t)
    PROVE  StateInv' /\ LockInv'
<1> DEFINE q == threads[t]
           db == stores[q.store].db
           term == q.expression[q.next]
           results == [n \in DOMAIN q.results \cup {term.name} |->
                          IF n = term.name THEN getMatchingKeysAndDBEntries(db, term)
                                           ELSE q.results[n]]
           th == [[q EXCEPT !.next = @ + 1] EXCEPT !.results = results]
<1>1. q.pc = "query" /\ QueryOK(q, stores) /\ ~Batching(t)
  BY DEF QueryTerm, StateInv, ThreadOK, Batching
<1>2. /\ DOMAIN q = {"pc", "store", "expression", "next", "results", "past"}
      /\ q.store \in DOMAIN stores /\ db \in q.past
      /\ q.expression \in Expressions /\ q.next \in 1..Len(q.expression) + 1
      /\ ResultsOK(q.results, q.expression, q.next, q.past)
      /\ ~stores[q.store].writer => stores[q.store].db \in q.past
  BY <1>1 DEF QueryOK, QueryTerm, CanRead
<1>3. /\ threads' = [threads EXCEPT ![t] = th] /\ UNCHANGED <<dbs, stores, writes>>
      /\ q.next <= Len(q.expression)
  BY <1>2 DEF QueryTerm
<1>4. ResultsOK(results, q.expression, q.next + 1, q.past)
  <2>1. q.next \in Nat \ {0}
    BY <1>2, ExpressionType
  <2>2. QED BY <1>2, <2>1, ResultAdded
<1> HIDE DEF results, db, term
<1>5. /\ DOMAIN th = {"pc", "store", "expression", "next", "results", "past"}
      /\ th.pc = "query" /\ th.store = q.store /\ th.expression = q.expression
      /\ th.next = q.next + 1 /\ th.results = results /\ th.past = q.past
  BY <1>1, <1>2
<1> HIDE DEF th
<1>6. th.next \in 1..Len(th.expression) + 1
  BY <1>2, <1>3, <1>5, ExpressionType
<1>7. QueryOK(th, stores)
  BY <1>2, <1>4, <1>5, <1>6 DEF QueryOK
<1>8. ThreadOK(th, stores) /\ th.pc \notin {"check", "batch"}
  BY <1>5, <1>7 DEF ThreadOK
<1>9. QED BY <1>1, <1>3, <1>8, ThreadStep

LEMMA DoneStep ==
    ASSUME StateInv, LockInv, NEW t \in Threads, QueryDone(t)
    PROVE  StateInv' /\ LockInv'
<1>1. threads' = [threads EXCEPT ![t] = Idle] /\ UNCHANGED <<dbs, stores, writes>>
  BY DEF QueryDone
<1>2. ~Batching(t)
  BY DEF QueryDone, Batching
<1>3. ThreadOK(Idle, stores) /\ Idle.pc \notin {"check", "batch"}
  BY IdleRecord DEF ThreadOK
<1>4. QED BY <1>1, <1>2, <1>3, ThreadStep

LEMMA StateStep ==
    StateInv /\ LockInv /\ [Next]_vars => StateInv' /\ LockInv'
<1> SUFFICES ASSUME StateInv, LockInv, [Next]_vars PROVE StateInv' /\ LockInv'
  OBVIOUS
<1>1. ASSUME NEW t \in Threads, NEW h \in DOMAIN stores, NEW k \in Keys,
             Delete(t, h, k) \/ \E e \in Entries : Put(t, h, k, e)
      PROVE  StateInv' /\ LockInv'
  <2>1. stores[h].db \in DB
    BY StoreAt
  <2>2. [stores[h].db EXCEPT ![k] = NoEntry] \in DB
    BY <2>1 DEF DB
  <2>3. \A e \in Entries : [stores[h].db EXCEPT ![k] = e] \in DB
    BY <2>1 DEF DB
  <2>4. QED BY <1>1, <2>2, <2>3, WriteStep DEF Put, Delete
<1>2. CASE UNCHANGED vars
  BY <1>2 DEF vars, StateInv, LockInv, Batching
<1>3. QED
  BY <1>1, <1>2, OpenStep, CloseStep, BatchStep, UnlockStep, CheckedStep, OperationStep,
     QueryStep, TermStep, DoneStep DEF Next

-----------------------------------------------------------------------------
(* Answers.                                                                   *)

LEMMA TermSatisfied ==
    ASSUME NEW e, NEW term
    PROVE  HasTag(e, term) <=>
               /\ e # NoEntry
               /\ \E tag \in e.tags : /\ tag.name = term.name
                                      /\ term.value # "" => tag.value = term.value
BY DEF HasTag

LEMMA SatisfiesEach ==
    ASSUME NEW e, NEW x
    PROVE  Satisfies(e, x) <=> e # NoEntry /\ \A i \in DOMAIN x : HasTag(e, x[i])
BY TermSatisfied, Zenon DEF Satisfies

LEMMA SatisfiesOne ==
    ASSUME NEW e, NEW term
    PROVE  Satisfies(e, <<term>>) <=> HasTag(e, term)
<1>1. DOMAIN <<term>> = {1} /\ <<term>>[1] = term
  OBVIOUS
<1>2. Satisfies(e, <<term>>) <=> e # NoEntry /\ HasTag(e, term)
  BY <1>1, SatisfiesEach
<1>3. HasTag(e, term) => e # NoEntry
  BY DEF HasTag
<1>4. QED BY <1>2, <1>3

LEMMA Scanned ==
    ASSUME NEW db, NEW term
    PROVE  LET r == getMatchingKeysAndDBEntries(db, term)
           IN  /\ \A k : k \in DOMAIN r <=> k \in Keys /\ HasTag(db[k], term)
               /\ \A k \in DOMAIN r : r[k] = db[k]
BY DEF getMatchingKeysAndDBEntries

(* What a query returns from the results of all its terms.                    *)
LEMMA AnswerGiven ==
    ASSUME NEW x \in Expressions, NEW results, NEW past,
           ResultsOK(results, x, Len(x) + 1, past),
           NEW entries \in commonDBEntries(results),
           NEW a, a.entries = entries, a.expression = x, a.past = past
    PROVE  AnswerOK(a)
<1>1. Len(x) \in Nat /\ Len(x) > 0 /\ DOMAIN x = 1..Len(x) /\ (Len(x) + 1) - 1 = Len(x)
  BY ExpressionType
<1>2. /\ DOMAIN results = {x[i].name : i \in DOMAIN x}
      /\ \A n \in DOMAIN results : \E i \in DOMAIN x, db \in past :
            /\ x[i].name = n
            /\ LastOfName(x, i)
            /\ results[n] = getMatchingKeysAndDBEntries(db, x[i])
  <2>1. 1..(Len(x) + 1) - 1 = DOMAIN x
    BY <1>1
  <2>2. DOMAIN results = {x[i].name : i \in DOMAIN x}
    BY <2>1 DEF ResultsOK
  <2>3. ASSUME NEW n \in DOMAIN results
        PROVE  \E i \in DOMAIN x, db \in past :
                   /\ x[i].name = n /\ LastOfName(x, i)
                   /\ results[n] = getMatchingKeysAndDBEntries(db, x[i])
    <3>1. PICK i \in 1..(Len(x) + 1) - 1, db \in past :
              /\ x[i].name = n
              /\ \A j \in 1..(Len(x) + 1) - 1 : j > i => x[j].name # n
              /\ results[n] = getMatchingKeysAndDBEntries(db, x[i])
      BY Zenon DEF ResultsOK
    <3>2. LastOfName(x, i)
      BY <2>1, <3>1, Zenon DEF LastOfName
    <3>3. QED BY <2>1, <3>1, <3>2, Zenon
  <2>4. QED BY <2>2, <2>3
<1> DEFINE common == {k \in Keys : \A n \in DOMAIN results : k \in DOMAIN results[n]}
<1>3. PICK m \in DOMAIN results : entries = [k \in common |-> results[m][k]]
  BY DEF commonDBEntries
<1>4. DOMAIN entries = common /\ \A k \in common : entries[k] = results[m][k]
  BY <1>3
<1>5. PICK mdb \in past : \E i \in DOMAIN x :
          x[i].name = m /\ results[m] = getMatchingKeysAndDBEntries(mdb, x[i])
  BY <1>2
<1>6. past # {}
  BY <1>5
<1>7. ASSUME NEW i \in DOMAIN x, LastOfName(x, i)
      PROVE  \E db \in past : results[x[i].name] = getMatchingKeysAndDBEntries(db, x[i])
  <2>1. PICK j \in DOMAIN x, db \in past :
            /\ x[j].name = x[i].name /\ LastOfName(x, j)
            /\ results[x[i].name] = getMatchingKeysAndDBEntries(db, x[j])
    BY <1>2
  <2>2. ~(j > i) /\ ~(i > j)
    BY <1>7, <2>1 DEF LastOfName
  <2>3. j = i
    BY <1>1, <2>2
  <2>4. QED BY <2>1, <2>3
<1>8. ASSUME NEW k \in DOMAIN entries
      PROVE  /\ \E db \in past : db[k] = entries[k]
             /\ \A i \in DOMAIN x : LastOfName(x, i) =>
                  \E db \in past : Satisfies(db[k], <<x[i]>>)
  <2>1. \A n \in DOMAIN results : k \in DOMAIN results[n]
    BY <1>4
  <2>2. entries[k] = mdb[k]
    BY <1>4, <1>5, <2>1, Scanned
  <2>3. ASSUME NEW i \in DOMAIN x, LastOfName(x, i)
        PROVE  \E db \in past : Satisfies(db[k], <<x[i]>>)
    <3>1. PICK db \in past : results[x[i].name] = getMatchingKeysAndDBEntries(db, x[i])
      BY <1>7, <2>3
    <3>2. k \in DOMAIN results[x[i].name]
      BY <1>2, <2>1
    <3>3. HasTag(db[k], x[i])
      BY <3>1, <3>2, Scanned
    <3>4. QED BY <3>3, SatisfiesOne
  <2>4. QED BY <2>2, <2>3
<1>9. ASSUME NEW k \in Keys, NEW e \in Entries, Satisfies(e, x),
             \A db \in past : db[k] = e
      PROVE  k \in DOMAIN entries /\ entries[k] = e
  <2>1. \A i \in DOMAIN x : HasTag(e, x[i])
    BY <1>9, SatisfiesEach
  <2>2. ASSUME NEW n \in DOMAIN results PROVE k \in DOMAIN results[n] /\ results[n][k] = e
    <3>1. PICK i \in DOMAIN x, db \in past : results[n] = getMatchingKeysAndDBEntries(db, x[i])
      BY <1>2
    <3>2. HasTag(db[k], x[i]) /\ db[k] = e
      BY <1>9, <2>1
    <3>3. QED BY <3>1, <3>2, Scanned
  <2>3. QED BY <1>4, <2>2
<1>10. ASSUME Len(x) = 1
       PROVE  \E db \in past : \A k \in Keys :
                  IF Satisfies(db[k], x)
                  THEN k \in DOMAIN entries /\ entries[k] = db[k]
                  ELSE k \notin DOMAIN entries
  <2>1. DOMAIN x = {1}
    BY <1>1, <1>10
  <2>2. DOMAIN results = {m} /\ results[m] = getMatchingKeysAndDBEntries(mdb, x[1])
    BY <1>2, <1>5, <2>1
  <2>3. common = DOMAIN results[m]
    BY <2>2, Scanned
  <2>4. ASSUME NEW k \in Keys
        PROVE  IF Satisfies(mdb[k], x)
               THEN k \in DOMAIN entries /\ entries[k] = mdb[k]
               ELSE k \notin DOMAIN entries
    <3>1. HasTag(mdb[k], x[1]) => mdb[k] # NoEntry
      BY DEF HasTag
    <3>2. Satisfies(mdb[k], x) <=> HasTag(mdb[k], x[1])
      BY <2>1, <3>1, SatisfiesEach
    <3>3. k \in DOMAIN entries <=> HasTag(mdb[k], x[1])
      BY <1>4, <2>2, <2>3, Scanned
    <3>4. k \in DOMAIN entries => entries[k] = mdb[k]
      BY <1>4, <2>2, <2>3, Scanned
    <3>5. QED BY <3>2, <3>3, <3>4
  <2>5. QED BY <2>4
<1>11. QED BY <1>6, <1>8, <1>9, <1>10 DEF AnswerOK

(* Only queries touch the answers.                                            *)
LEMMA AnswerStep ==
    StateInv /\ AnswerInv /\ [Next]_vars => AnswerInv'
<1> SUFFICES ASSUME StateInv, AnswerInv, [Next]_vars PROVE AnswerInv'
  OBVIOUS
<1>1. CASE answers' = answers
  BY <1>1 DEF AnswerInv
<1>2. ASSUME NEW t \in Threads, NEW h \in DOMAIN stores, NEW x \in Expressions, Query(t, h, x)
      PROVE  AnswerInv'
  <2>1. answers' = [answers EXCEPT ![t] = NoAnswer] /\ ~NoAnswer.done
    BY <1>2 DEF Query, NoAnswer
  <2>2. QED BY <2>1 DEF AnswerInv
<1>3. ASSUME NEW t \in Threads, QueryDone(t) PROVE AnswerInv'
  <2> DEFINE q == threads[t]
  <2>1. q.pc = "query" /\ QueryOK(q, stores) /\ q.next > Len(q.expression)
    BY <1>3 DEF QueryDone, StateInv, ThreadOK
  <2>2. q.expression \in Expressions /\ q.next = Len(q.expression) + 1
    BY <2>1, ExpressionType DEF QueryOK
  <2>3. ResultsOK(q.results, q.expression, Len(q.expression) + 1, q.past)
    BY <2>1, <2>2 DEF QueryOK
  <2>4. PICK entries \in commonDBEntries(q.results) :
            answers' = [answers EXCEPT ![t] =
                          [done |-> TRUE, entries |-> entries,
                           expression |-> q.expression, past |-> q.past]]
    BY <1>3 DEF QueryDone
  <2> DEFINE a == [done |-> TRUE, entries |-> entries,
                   expression |-> q.expression, past |-> q.past]
  <2>5. a.entries = entries /\ a.expression = q.expression /\ a.past = q.past
    OBVIOUS
  <2> HIDE DEF a
  <2>6. AnswerOK(a)
    BY <2>2, <2>3, <2>5, AnswerGiven
  <2>7. answers' = [answers EXCEPT ![t] = a]
    BY <2>4 DEF a
  <2>8. QED BY <2>6, <2>7 DEF AnswerInv
<1>4. QED
  BY <1>1, <1>2, <1>3
  DEF Next, vars, OpenStore, CloseStore, CloseProvider, Put, Delete, Write, Batch,
      BatchRefused, BatchChecked, BatchOperation, BatchDone, QueryTerm

LEMMA Invariance == Spec => [](StateInv /\ LockInv /\ AnswerInv)
<1>1. Init => StateInv /\ LockInv /\ AnswerInv
  <2> SUFFICES ASSUME Init PROVE StateInv /\ LockInv /\ AnswerInv
    OBVIOUS
  <2>1. StateInv
    <3>1. \A t \in Threads : ThreadOK(threads[t], stores)
      BY IdleRecord DEF Init, ThreadOK
    <3>2. QED BY <3>1, StoreBoundsAssumption DEF Init, StateInv
  <2>2. LockInv
    BY IdleRecord DEF Init, LockInv, Batching
  <2>3. AnswerInv
    BY DEF Init, AnswerInv, NoAnswer
  <2>4. QED BY <2>1, <2>2, <2>3
<1>2. QED BY <1>1, StateStep, AnswerStep, PTL DEF Spec

-----------------------------------------------------------------------------
(* The theorems.                                                              *)

(* Types and locks, for any number of threads: a store is locked for writing  *)
(* by the one thread that is in a batch on it, also after a refused batch.    *)
THEOREM LocksAreHeldByOne == Spec => []TypeOK
<1>1. StateInv /\ LockInv /\ AnswerInv => TypeOK
  <2> SUFFICES ASSUME StateInv, LockInv, AnswerInv PROVE TypeOK
    OBVIOUS
  <2>1. \A h \in DOMAIN stores : Store(stores[h])
    BY StoreAt DEF Store
  <2>2. \A t \in Threads : threads[t].pc \in {"idle", "check", "batch", "query"}
    BY DEF StateInv, ThreadOK
  <2>3. ASSUME NEW h \in DOMAIN stores
        PROVE  LET writers == {t \in Threads : Batching(t) /\ threads[t].store = h}
               IN  Cardinality(writers) = IF stores[h].writer THEN 1 ELSE 0
    <3> DEFINE writers == {t \in Threads : Batching(t) /\ threads[t].store = h}
    <3>1. CASE stores[h].writer
      <4>1. PICK t \in Threads : Batching(t) /\ threads[t].store = h
        BY <3>1 DEF LockInv
      <4>2. writers = {t}
        BY <4>1 DEF LockInv
      <4>3. QED BY <3>1, <4>2, FS_Singleton
    <3>2. CASE ~stores[h].writer
      <4>1. writers = {}
        BY <3>2, BatchingThread
      <4>2. QED BY <3>2, <4>1, FS_EmptySet
    <3>3. QED BY <3>1, <3>2
  <2>4. \A t \in Threads : answers[t].done => answers[t].past # {}
    BY DEF AnswerInv, AnswerOK
  <2>5. QED BY <2>1, <2>2, <2>3, <2>4 DEF TypeOK, StateInv
<1>2. QED BY <1>1, Invariance, PTL

(* A query invents nothing, whatever is written between its scans.            *)
THEOREM QueriesInventNothing == Spec => []AnswersWereStored
<1>1. AnswerInv => AnswersWereStored
  BY Zenon DEF AnswerInv, AnswerOK, AnswersWereStored
<1>2. QED BY <1>1, Invariance, PTL

(* A query misses nothing that stayed while it ran.                           *)
THEOREM QueriesMissNothing == Spec => []AnswerHasWhatStayed
<1>1. AnswerInv => AnswerHasWhatStayed
  BY Zenon DEF AnswerInv, AnswerOK, AnswerHasWhatStayed
<1>2. QED BY <1>1, Invariance, PTL

(* A query for one tag sees the store at one time, batches done or not begun. *)
THEOREM OneTagQueriesAreSnapshots == Spec => []SingleTagQueriesAreSnapshots
<1>1. AnswerInv => SingleTagQueriesAreSnapshots
  BY Zenon DEF AnswerInv, AnswerOK, SingleTagQueriesAreSnapshots
<1>2. QED BY <1>1, Invariance, PTL

-----------------------------------------------------------------------------
(* Refinement: calls that write take effect at once.                          *)

Held(db, left) == IF \E i \in DOMAIN left : left[i].key = "" THEN db ELSE After(db, left)

(* What is stored is read off the only thread that may be in a batch on it.   *)
ContentInv ==
    /\ Contents = [h \in DOMAIN stores |-> Contents[h]]
    /\ \A h \in DOMAIN stores :
          /\ ~stores[h].writer => Contents[h] = stores[h].db
          /\ \A t \in Threads : stores[h].writer /\ Batching(t) /\ threads[t].store = h =>
                                   Contents[h] = Held(stores[h].db, threads[t].left)

LEMMA ContentNow == LockInv => ContentInv
<1> SUFFICES ASSUME LockInv PROVE ContentInv
  OBVIOUS
<1>1. ASSUME NEW h \in DOMAIN stores, NEW t \in Threads,
             stores[h].writer, Batching(t), threads[t].store = h
      PROVE  Contents[h] = Held(stores[h].db, threads[t].left)
  <2>1. PICK u : u = CHOOSE s \in Threads : Batching(s) /\ threads[s].store = h
    OBVIOUS
  <2>2. u = t
    BY <1>1, <2>1 DEF LockInv
  <2>3. QED BY <1>1, <2>1, <2>2 DEF Contents, Held
<1>2. Contents = [h \in DOMAIN stores |-> Contents[h]]
  BY DEF Contents
<1>3. \A h \in DOMAIN stores : ~stores[h].writer => Contents[h] = stores[h].db
  BY DEF Contents
<1>4. QED BY <1>1, <1>2, <1>3, Zenon DEF ContentInv

LEMMA ContentNext == LockInv' => ContentInv'
BY ContentNow, PTL

(* A store nothing happens to, while the batch on it, if any, waits.          *)
LEMMA KeptAt ==
    ASSUME LockInv, LockInv', NEW h \in DOMAIN stores, h \in DOMAIN stores',
           stores'[h].db = stores[h].db, stores'[h].writer = stores[h].writer,
           \A t \in Threads : Batching(t) /\ threads[t].store = h =>
              Batching(t)' /\ threads'[t].store = h /\ threads'[t].left = threads[t].left
    PROVE  Contents'[h] = Contents[h]
<1>1. ContentInv /\ ContentInv'
  BY ContentNow, ContentNext
<1>2. CASE ~stores[h].writer
  BY <1>1, <1>2 DEF ContentInv
<1>3. CASE stores[h].writer
  <2>1. PICK t \in Threads : Batching(t) /\ threads[t].store = h
    BY <1>3 DEF LockInv
  <2>2. Batching(t)' /\ threads'[t].store = h /\ threads'[t].left = threads[t].left
    BY <2>1
  <2>3. Contents[h] = Held(stores[h].db, threads[t].left)
    BY <1>1, <1>3, <2>1, Zenon DEF ContentInv
  <2>4. Contents'[h] = Held(stores'[h].db, threads'[t].left)
    <3>1. stores'[h].writer
      BY <1>3
    <3>2. QED BY <1>1, <2>2, <3>1, Zenon DEF ContentInv
  <2>5. QED BY <2>2, <2>3, <2>4
<1>4. QED BY <1>2, <1>3

LEMMA AllKept ==
    ASSUME LockInv, LockInv', stores' = stores,
           \A t \in Threads : Batching(t) =>
              Batching(t)' /\ threads'[t].store = threads[t].store /\ threads'[t].left = threads[t].left
    PROVE  Contents' = Contents
<1>1. \A h \in DOMAIN stores : Contents'[h] = Contents[h]
  BY KeptAt
<1>2. ContentInv /\ ContentInv'
  BY ContentNow, ContentNext
<1>3. QED BY <1>1, <1>2 DEF ContentInv

(* What a batch has yet to do.                                                *)
LEMMA LastIsThere ==
    ASSUME NEW n \in Nat, NEW at \in SUBSET (1..n), at # {}
    PROVE  \E last \in at : \A i \in at : i <= last
<1>1. PICK away : away = {n - i : i \in at}
  OBVIOUS
<1>2. away \in SUBSET Nat /\ away # {}
  <2>1. \A i \in at : n - i \in Nat
    OBVIOUS
  <2>2. QED BY <1>1, <2>1
<1>3. \A j, i \in Nat : <<j, i>> \in OpToRel(<, Nat) <=> j < i
  BY DEF OpToRel
<1>4. \E i \in away : \A j \in away : ~(<<j, i>> \in OpToRel(<, Nat))
  BY <1>2, NatLessThanWellFounded, WFMin
<1>5. PICK least \in away : \A j \in away : ~(j < least)
  <2>1. PICK least \in away : \A j \in away : ~(<<j, least>> \in OpToRel(<, Nat))
    BY <1>4, Zenon
  <2>2. QED BY <1>2, <1>3, <2>1
<1>6. PICK last \in at : least = n - last
  BY <1>1
<1>7. QED BY <1>1, <1>5, <1>6

IsLast(left, k, i) ==
    i \in DOMAIN left /\ left[i].key = k /\ \A j \in DOMAIN left : left[j].key = k => j <= i

LEMMA AfterAt ==
    ASSUME NEW left \in Seq(Operation), NEW db, NEW k \in Keys
    PROVE  \/ (\A i \in DOMAIN left : left[i].key # k) /\ After(db, left)[k] = db[k]
           \/ \E i : IsLast(left, k, i) /\ After(db, left)[k] = left[i].entry
<1>1. PICK at : at = {i \in DOMAIN left : left[i].key = k}
  OBVIOUS
<1>2. CASE at = {}
  BY <1>1, <1>2 DEF After
<1>3. CASE at # {}
  <2>1. Len(left) \in Nat /\ at \in SUBSET (1..Len(left))
    BY <1>1
  <2>2. \E last \in at : \A i \in at : i <= last
    BY <1>3, <2>1, LastIsThere
  <2>3. PICK last : last = CHOOSE l \in at : \A i \in at : i <= l
    OBVIOUS
  <2>4. last \in at /\ \A i \in at : i <= last
    BY <2>2, <2>3
  <2>5. After(db, left)[k] = left[last].entry
    BY <1>1, <1>3, <2>3 DEF After
  <2>6. QED BY <1>1, <2>4, <2>5 DEF IsLast
<1>4. QED BY <1>2, <1>3

LEMMA OneLast ==
    ASSUME NEW left \in Seq(Operation), NEW k, NEW i, NEW j, IsLast(left, k, i), IsLast(left, k, j)
    PROVE  i = j
BY DEF IsLast

LEMMA NothingLeft ==
    ASSUME NEW db \in DB
    PROVE  After(db, <<>>) = db
<1>1. \A k \in Keys : After(db, <<>>)[k] = db[k]
  <2>1. {i \in DOMAIN <<>> : <<>>[i].key = <<>>} = {}
    OBVIOUS
  <2>2. QED BY DEF After
<1>2. QED BY <1>1 DEF After, DB

LEMMA AfterFirst ==
    ASSUME NEW left \in Seq(Operation), left # <<>>, NEW db \in DB, NEW new,
           \A i \in DOMAIN left : left[i].key \in Keys,
           new = [db EXCEPT ![Head(left).key] = Head(left).entry]
    PROVE  After(new, Tail(left)) = After(db, left)
<1>1. PICK op, rest : op = Head(left) /\ rest = Tail(left)
  OBVIOUS
<1>2. /\ op = left[1] /\ rest \in Seq(Operation) /\ 1 \in DOMAIN left /\ Len(left) \in Nat
      /\ \A i \in DOMAIN rest : i \in Nat /\ i + 1 \in DOMAIN left /\ rest[i] = left[i + 1]
      /\ \A i \in DOMAIN left : i \in Nat /\ (i # 1 => i - 1 \in DOMAIN rest /\ left[i] = rest[i - 1])
  BY <1>1
<1>3. ASSUME NEW k \in Keys PROVE After(new, rest)[k] = After(db, left)[k]
  <2>1. CASE (\A i \in DOMAIN rest : rest[i].key # k) /\ After(new, rest)[k] = new[k]
    <3>1. CASE op.key = k
      <4>1. IsLast(left, k, 1)
        <5>1. \A i \in DOMAIN left : left[i].key = k => i = 1
          BY <1>2, <2>1
        <5>2. QED BY <1>2, <3>1, <5>1 DEF IsLast
      <4>2. new[k] = op.entry
        BY <1>1, <3>1 DEF DB
      <4>3. After(db, left)[k] = op.entry
        BY <1>1, <4>1, AfterAt, OneLast DEF IsLast
      <4>4. QED BY <2>1, <4>2, <4>3
    <3>2. CASE op.key # k
      <4>1. \A i \in DOMAIN left : left[i].key # k
        BY <1>1, <1>2, <2>1, <3>2
      <4>2. After(db, left)[k] = db[k]
        BY <4>1, AfterAt DEF IsLast
      <4>3. new[k] = db[k]
        BY <1>1, <3>2 DEF DB
      <4>4. QED BY <2>1, <4>2, <4>3
    <3>3. QED BY <3>1, <3>2
  <2>2. ASSUME NEW j, IsLast(rest, k, j), After(new, rest)[k] = rest[j].entry
        PROVE  After(new, rest)[k] = After(db, left)[k]
    <3>1. IsLast(left, k, j + 1) /\ left[j + 1] = rest[j]
      <4>1. j \in DOMAIN rest /\ rest[j].key = k /\ \A i \in DOMAIN rest : rest[i].key = k => i <= j
        BY <2>2 DEF IsLast
      <4>2. ASSUME NEW i \in DOMAIN left, left[i].key = k PROVE i <= j + 1
        <5>1. CASE i = 1
          BY <1>2, <4>1, <5>1
        <5>2. CASE i # 1
          <6>1. i - 1 \in DOMAIN rest /\ rest[i - 1].key = k
            BY <1>2, <4>2, <5>2
          <6>2. i - 1 <= j
            BY <4>1, <6>1
          <6>3. i \in Nat /\ j \in Nat
            BY <1>2, <4>1
          <6>4. QED BY <6>2, <6>3
        <5>3. QED BY <5>1, <5>2
      <4>3. QED BY <1>2, <4>1, <4>2 DEF IsLast
    <3>2. After(db, left)[k] = left[j + 1].entry
      BY <3>1, AfterAt, OneLast DEF IsLast
    <3>3. QED BY <2>2, <3>1, <3>2
  <2>3. QED BY <1>2, <2>1, <2>2, AfterAt
<1>4. /\ After(new, rest) = [k \in Keys |-> After(new, rest)[k]]
      /\ After(db, left) = [k \in Keys |-> After(db, left)[k]]
  BY DEF After
<1>5. QED BY <1>1, <1>3, <1>4

(* One store changes what it holds.                                           *)
LEMMA ChangedContents ==
    ASSUME LockInv, LockInv', NEW h \in DOMAIN stores, NEW db,
           DOMAIN stores' = DOMAIN stores, \A g \in DOMAIN stores : g # h => stores'[g] = stores[g],
           \A t \in Threads : Batching(t) /\ threads[t].store # h =>
              /\ Batching(t)' /\ threads'[t].store = threads[t].store
              /\ threads'[t].left = threads[t].left,
           Contents'[h] = db
    PROVE  Contents' = [Contents EXCEPT ![h] = db]
<1>1. \A g \in DOMAIN stores : g # h => Contents'[g] = Contents[g]
  BY KeptAt
<1>2. ContentInv /\ ContentInv'
  BY ContentNow, ContentNext
<1>3. QED BY <1>1, <1>2 DEF ContentInv

LEMMA OpenMaps ==
    ASSUME StateInv, LockInv, LockInv', NEW name \in Names, OpenStore(name)
    PROVE  Promise!Open(Lower[name])
<1>1. ContentInv /\ ContentInv'
  BY ContentNow, ContentNext
<1>2. PICK n, new : n = Len(stores) /\ new = [name |-> Lower[name], db |-> EmptyDB, writer |-> FALSE]
  OBVIOUS
<1>3. /\ n \in Nat /\ DOMAIN stores = 1..n /\ DOMAIN stores' = 1..(n + 1)
      /\ stores'[n + 1] = new /\ \A h \in 1..n : stores'[h] = stores[h]
      /\ UNCHANGED <<threads, writes>>
  <2>1. stores \in Seq(StoreRecord) /\ stores' = Append(stores, new) /\ UNCHANGED <<threads, writes>>
    BY <1>2 DEF StateInv, OpenStore
  <2>2. new \in StoreRecord
    BY <1>2, NamesAssumption DEF StoreRecord, EmptyDB, DB
  <2>3. QED BY <1>2, <2>1, <2>2, AppendProperties
<1>4. new.db = EmptyDB /\ ~new.writer
  BY <1>2
<1>5. \A h \in 1..n : Contents'[h] = Contents[h]
  <2>1. \A t \in Threads : Batching(t) => Batching(t)'
    BY <1>3 DEF Batching
  <2>2. \A h \in 1..n : h \in DOMAIN stores /\ h \in DOMAIN stores'
    BY <1>3
  <2>3. QED BY <1>3, <2>1, <2>2, KeptAt
<1>6. Contents'[n + 1] = EmptyDB
  BY <1>1, <1>3, <1>4 DEF ContentInv
<1>7. PICK old, now : old = Contents /\ now = Contents'
  OBVIOUS
<1>8. /\ old = [h \in 1..n |-> old[h]] /\ now = [h \in 1..(n + 1) |-> now[h]]
      /\ \A h \in 1..n : now[h] = old[h]
      /\ now[n + 1] = EmptyDB
  BY <1>1, <1>3, <1>5, <1>6, <1>7 DEF ContentInv
<1>9. now = Append(old, EmptyDB)
  <2>1. PICK U : U = {now[h] : h \in 1..(n + 1)}
    OBVIOUS
  <2>2. /\ \A h \in 1..n : h \in 1..(n + 1)
        /\ n + 1 \in 1..(n + 1)
    BY <1>3
  <2>3. now \in Seq(U) /\ old \in Seq(U) /\ EmptyDB \in U /\ Len(now) = n + 1 /\ Len(old) = n
    <3>1. PICK m \in Nat : m = n + 1
      BY <1>3
    <3>2. now \in [1..m -> U] /\ EmptyDB \in U
      BY <1>8, <2>1, <2>2, <3>1
    <3>3. old \in [1..n -> U]
      BY <1>8, <2>1, <2>2
    <3>4. now \in Seq(U) /\ Len(now) = m
      BY <3>1, <3>2
    <3>5. old \in Seq(U) /\ Len(old) = n
      BY <1>3, <3>3
    <3>6. QED BY <3>1, <3>2, <3>4, <3>5
  <2>4. /\ Append(old, EmptyDB) \in Seq(U) /\ Len(Append(old, EmptyDB)) = n + 1
        /\ Append(old, EmptyDB)[n + 1] = EmptyDB
        /\ \A h \in 1..n : Append(old, EmptyDB)[h] = old[h]
    BY <2>3, AppendProperties
  <2>5. \A h \in 1..(n + 1) : now[h] = Append(old, EmptyDB)[h]
    <3>1. \A h \in 1..(n + 1) : h \in 1..n \/ h = n + 1
      BY <1>3
    <3>2. QED BY <1>8, <2>4, <3>1
  <2>6. QED BY <2>3, <2>4, <2>5, SeqEqual
<1>10. Len(Contents') = n + 1
  <2>1. now \in [1..(n + 1) -> {now[h] : h \in 1..(n + 1)}]
    BY <1>8
  <2>2. PICK m \in Nat : m = n + 1
    BY <1>3
  <2>3. QED BY <1>7, <2>1, <2>2
<1>11. /\ dbs[Lower[name]] = 0
       /\ dbs' = [dbs EXCEPT ![Lower[name]] = n + 1]
  BY <1>2 DEF OpenStore
<1>12. QED BY <1>3, <1>7, <1>9, <1>10, <1>11 DEF Promise!Open, EmptyDB

LEMMA SetMaps ==
    ASSUME StateInv, LockInv, LockInv', NEW h \in DOMAIN stores, NEW k \in Keys,
           NEW e \in Entries \cup {NoEntry}, Write(h, [stores[h].db EXCEPT ![k] = e])
    PROVE  Promise!Call(h)
<1>1. PICK db, new : db = [stores[h].db EXCEPT ![k] = e] /\ new = [stores[h] EXCEPT !.db = db]
  OBVIOUS
<1>2. /\ stores' = [stores EXCEPT ![h] = new] /\ ~stores[h].writer
      /\ threads' = Noticed(h, db) /\ writes' = writes + 1 /\ dbs' = dbs
  BY <1>1 DEF Write, CanWrite
<1>3. new.db = db /\ ~new.writer
  BY <1>1, <1>2, StoreAt
<1>4. /\ DOMAIN stores' = DOMAIN stores /\ stores'[h] = new
      /\ \A g \in DOMAIN stores : g # h => stores'[g] = stores[g]
  BY <1>2, StoreAt
<1>5. \A t \in Threads : Batching(t) =>
         /\ Batching(t)' /\ threads'[t].store = threads[t].store
         /\ threads'[t].left = threads[t].left
  BY <1>2, NoticedAll, NoticedPc DEF Batching, StateInv
<1>6. ContentInv /\ ContentInv'
  BY ContentNow, ContentNext
<1>7. Contents[h] = stores[h].db /\ Contents'[h] = db /\ DOMAIN Contents = DOMAIN stores
  BY <1>2, <1>3, <1>4, <1>6 DEF ContentInv
<1>8. Contents' = [Contents EXCEPT ![h] = db]
  BY <1>4, <1>5, <1>7, ChangedContents
<1>9. Promise!Set(h, k, e)
  BY <1>1, <1>7, <1>8 DEF Promise!Set
<1>10. QED BY <1>2, <1>9 DEF Promise!Call

LEMMA AfterIsApplied ==
    ASSUME NEW left \in Seq(Operation), NEW db \in DB, NEW k \in Keys
    PROVE  LET at == {i \in DOMAIN left : left[i].key = k}
           IN  \/ at = {} /\ After(db, left)[k] = db[k]
               \/ \E last \in at : (\A i \in at : i <= last) /\ After(db, left)[k] = left[last].entry
BY AfterAt DEF IsLast

LEMMA BatchMaps ==
    ASSUME StateInv, LockInv, LockInv', NEW t \in Threads, NEW h \in DOMAIN stores,
           NEW b \in Batches, Batch(t, h, b)
    PROVE  Promise!Call(h)
<1>1. PICK new, th : /\ new = [stores[h] EXCEPT !.writer = TRUE]
                     /\ th = [pc |-> "check", store |-> h, left |-> b]
  OBVIOUS
<1>2. /\ stores' = [stores EXCEPT ![h] = new] /\ ~stores[h].writer /\ threads[t].pc = "idle"
      /\ threads' = [threads EXCEPT ![t] = th] /\ writes' = writes + 1 /\ dbs' = dbs
  BY <1>1, IdleRecord DEF Batch, CanWrite
<1>3. /\ new.db = stores[h].db /\ new.writer
      /\ th.pc = "check" /\ th.store = h /\ th.left = b
  BY <1>1, StoreAt
<1>4. /\ DOMAIN stores' = DOMAIN stores /\ stores'[h] = new
      /\ \A g \in DOMAIN stores : g # h => stores'[g] = stores[g]
  BY <1>2, StoreAt
<1>5. /\ threads'[t] = th /\ \A u \in Threads : u # t => threads'[u] = threads[u]
      /\ Batching(t)' /\ ~Batching(t)
  BY <1>2, <1>3 DEF Batching, StateInv
<1>6. \A u \in Threads : Batching(u) =>
         /\ Batching(u)' /\ threads'[u].store = threads[u].store
         /\ threads'[u].left = threads[u].left
  <2>1. \A u \in Threads : Batching(u) => u # t /\ threads'[u] = threads[u]
    BY <1>5
  <2>2. QED BY <2>1 DEF Batching
<1>7. ContentInv /\ ContentInv'
  BY ContentNow, ContentNext
<1>8. PICK db : db = stores[h].db /\ db \in DB
  BY StoreAt
<1>9. Contents[h] = db /\ Contents'[h] = Held(db, b) /\ DOMAIN Contents = DOMAIN stores
  <2>1. Contents[h] = db /\ DOMAIN Contents = DOMAIN stores
    BY <1>2, <1>7, <1>8 DEF ContentInv
  <2>2. h \in DOMAIN stores' /\ stores'[h].writer /\ threads'[t].store = h
    BY <1>3, <1>4, <1>5
  <2>3. Contents'[h] = Held(stores'[h].db, threads'[t].left)
    BY <1>5, <1>7, <2>2, Zenon DEF ContentInv
  <2>4. QED BY <1>3, <1>4, <1>5, <1>8, <2>1, <2>3
<1>10. Contents' = [Contents EXCEPT ![h] = Held(db, b)]
  BY <1>4, <1>6, <1>9, ChangedContents
<1>11. CASE \E i \in DOMAIN b : b[i].key = ""
  <2>1. Contents' = Contents
    BY <1>7, <1>9, <1>10, <1>11 DEF Held, ContentInv
  <2>2. QED BY <1>2, <1>11, <2>1 DEF Promise!Call, Promise!Refuse
<1>12. CASE ~\E i \in DOMAIN b : b[i].key = ""
  <2>1. b \in Seq(Operation)
    BY BatchesAssumption DEF Operation
  <2>2. PICK now : now = After(db, b)
    OBVIOUS
  <2>3. Held(db, b) = now
    BY <1>12, <2>2 DEF Held
  <2>4. now \in DB
    <3>1. \A k \in Keys : now[k] \in Entries \cup {NoEntry}
      <4>1. \A i \in DOMAIN b : b[i].entry \in Entries \cup {NoEntry}
        <5>1. \A i \in DOMAIN b : b[i] \in Operation
          BY <2>1, ElementOfSeq, DOMAIN b = 1..Len(b)
        <5>2. QED BY <5>1 DEF Operation
      <4>2. \A k \in Keys : db[k] \in Entries \cup {NoEntry}
        BY <1>8 DEF DB
      <4>3. QED BY <2>1, <2>2, <4>1, <4>2, AfterAt DEF IsLast
    <3>2. now = [k \in Keys |-> now[k]]
      BY <2>2 DEF After
    <3>3. QED BY <3>1, <3>2 DEF DB
  <2>5. \A k \in Keys :
           LET at == {i \in DOMAIN b : b[i].key = k}
           IN  \/ at = {} /\ now[k] = db[k]
               \/ \E last \in at : (\A i \in at : i <= last) /\ now[k] = b[last].entry
    BY <1>8, <2>1, <2>2, AfterIsApplied
  <2>6. now \in {Contents'[h]} \cap Promise!DB
    BY <1>9, <2>3, <2>4 DEF DB, Promise!DB
  <2>7. Promise!Apply(h, b)
    BY <1>9, <1>10, <2>3, <2>5, <2>6 DEF Promise!Apply
  <2>8. QED BY <1>2, <1>12, <2>7 DEF Promise!Call
<1>13. QED BY <1>11, <1>12

LEMMA UnlockMaps ==
    ASSUME StateInv, LockInv, LockInv', NEW t \in Threads, BatchRefused(t) \/ BatchDone(t)
    PROVE  UNCHANGED Promise!vars
<1>1. PICK h, db : h = threads[t].store /\ db = stores[h].db
  OBVIOUS
<1>2. Batching(t) /\ h \in DOMAIN stores /\ stores[h].writer /\ db \in DB
  BY <1>1, BatchingThread, StoreAt DEF BatchRefused, BatchDone, Batching
<1>3. PICK new : new = [stores[h] EXCEPT !.writer = FALSE]
  OBVIOUS
<1>4. /\ stores' = [stores EXCEPT ![h] = new] /\ writes' = writes /\ dbs' = dbs
      /\ threads' = [Noticed(h, db) EXCEPT ![t] = Idle]
  BY <1>1, <1>3 DEF BatchRefused, BatchDone
<1>5. new.db = db /\ ~new.writer
  BY <1>1, <1>2, <1>3, StoreAt
<1>6. /\ DOMAIN stores' = DOMAIN stores /\ stores'[h] = new
      /\ \A g \in DOMAIN stores : g # h => stores'[g] = stores[g]
  BY <1>2, <1>4, StoreAt
<1>7. \A u \in Threads : Batching(u) /\ threads[u].store # h =>
         /\ Batching(u)' /\ threads'[u].store = threads[u].store
         /\ threads'[u].left = threads[u].left
  <2>1. \A u \in Threads : u # t => threads'[u] = NoticedBy(threads[u], h, db)
    BY <1>4, NoticedAll
  <2>2. \A u \in Threads : u # t /\ Batching(u) => threads'[u] = threads[u]
    BY <2>1, NoticedPc DEF Batching, StateInv
  <2>3. \A u \in Threads : Batching(u) /\ threads[u].store # h => threads'[u] = threads[u]
    BY <1>1, <2>2
  <2>4. QED BY <2>3 DEF Batching
<1>8. ContentInv /\ ContentInv'
  BY ContentNow, ContentNext
<1>9. Contents'[h] = db
  BY <1>2, <1>5, <1>6, <1>8 DEF ContentInv
<1>10. Contents[h] = db
  <2>1. Contents[h] = Held(db, threads[t].left)
    BY <1>1, <1>2, <1>8, Zenon DEF ContentInv
  <2>2. CASE BatchRefused(t)
    BY <2>1, <2>2 DEF BatchRefused, Held
  <2>3. CASE BatchDone(t)
    <3>1. threads[t].left = <<>>
      BY <2>3 DEF BatchDone
    <3>2. Held(db, <<>>) = db
      BY <1>2, NothingLeft DEF Held
    <3>3. QED BY <2>1, <3>1, <3>2
  <2>4. QED BY <2>2, <2>3
<1>11. Contents' = [Contents EXCEPT ![h] = db]
  BY <1>2, <1>6, <1>7, <1>9, ChangedContents
<1>12. Contents' = Contents
  BY <1>8, <1>10, <1>11 DEF ContentInv
<1>13. QED BY <1>4, <1>12 DEF Promise!vars

LEMMA OperationMaps ==
    ASSUME StateInv, LockInv, LockInv', NEW t \in Threads, BatchOperation(t)
    PROVE  UNCHANGED Promise!vars
<1>1. PICK h, left, db : h = threads[t].store /\ left = threads[t].left /\ db = stores[h].db
  OBVIOUS
<1>2. /\ Batching(t) /\ BatchOK(threads[t], stores)
      /\ h \in DOMAIN stores /\ stores[h].writer /\ db \in DB
  BY <1>1, BatchingThread, StoreAt DEF BatchOperation, Batching
<1>3. left \in Seq(Operation) /\ left # <<>> /\ \A i \in DOMAIN left : left[i].key \in Keys
  <2>1. left \in Seq(Operation) /\ left # <<>> /\ \A i \in DOMAIN left : left[i].key # ""
    BY <1>1, <1>2 DEF BatchOK, BatchOperation
  <2>2. \A i \in DOMAIN left : left[i] \in Operation
    <3>1. \A s \in Seq(Operation) : \A i \in DOMAIN s : s[i] \in Operation
      <4>1. \A s \in Seq(Operation) : DOMAIN s = 1..Len(s)
        OBVIOUS
      <4>2. QED BY <4>1, ElementOfSeq
    <3>2. QED BY <2>1, <3>1, Zenon
  <2>3. QED BY <2>1, <2>2 DEF Operation
<1>4. PICK after : after = [db EXCEPT ![Head(left).key] = Head(left).entry]
  OBVIOUS
<1>5. PICK new, th : new = [stores[h] EXCEPT !.db = after] /\ th = [threads[t] EXCEPT !.left = Tail(left)]
  OBVIOUS
<1>6. /\ stores' = [stores EXCEPT ![h] = new] /\ writes' = writes /\ dbs' = dbs
      /\ threads' = [threads EXCEPT ![t] = th]
  BY <1>1, <1>4, <1>5 DEF BatchOperation
<1>7. /\ new.db = after /\ new.writer
      /\ th.pc = threads[t].pc /\ th.store = h /\ th.left = Tail(left)
  BY <1>1, <1>2, <1>5, StoreAt DEF BatchOK
<1>8. /\ DOMAIN stores' = DOMAIN stores /\ stores'[h] = new
      /\ \A g \in DOMAIN stores : g # h => stores'[g] = stores[g]
  BY <1>2, <1>6, StoreAt
<1>9. threads'[t] = th /\ \A u \in Threads : u # t => threads'[u] = threads[u]
  BY <1>6 DEF StateInv
<1>10. \A u \in Threads : Batching(u) /\ threads[u].store # h =>
          /\ Batching(u)' /\ threads'[u].store = threads[u].store
          /\ threads'[u].left = threads[u].left
  <2>1. \A u \in Threads : Batching(u) /\ threads[u].store # h => threads'[u] = threads[u]
    BY <1>1, <1>9
  <2>2. QED BY <2>1 DEF Batching
<1>11. ContentInv /\ ContentInv'
  BY ContentNow, ContentNext
<1>12. Contents[h] = Held(db, left)
  BY <1>1, <1>2, <1>11, Zenon DEF ContentInv
<1>13. Contents'[h] = Held(after, Tail(left))
  <2>1. Batching(t)' /\ threads'[t].store = h /\ h \in DOMAIN stores' /\ stores'[h].writer
    BY <1>2, <1>7, <1>8, <1>9 DEF Batching
  <2>2. Contents'[h] = Held(stores'[h].db, threads'[t].left)
    BY <1>11, <2>1, Zenon DEF ContentInv
  <2>3. QED BY <1>7, <1>8, <1>9, <2>2
<1>14. Held(after, Tail(left)) = Held(db, left)
  <2>1. \A i \in DOMAIN left : left[i].key # ""
    BY <1>3, KeysAssumption
  <2>2. \A i \in DOMAIN Tail(left) : Tail(left)[i].key # ""
    <3>1. \A i \in DOMAIN Tail(left) : i + 1 \in DOMAIN left /\ Tail(left)[i] = left[i + 1]
      BY <1>3
    <3>2. QED BY <2>1, <3>1
  <2>3. After(after, Tail(left)) = After(db, left)
    BY <1>2, <1>3, <1>4, AfterFirst
  <2>4. QED BY <2>1, <2>2, <2>3 DEF Held
<1>15. Contents' = [Contents EXCEPT ![h] = Contents[h]]
  BY <1>2, <1>8, <1>10, <1>12, <1>13, <1>14, ChangedContents
<1>16. Contents' = Contents
  BY <1>11, <1>15 DEF ContentInv
<1>17. QED BY <1>6, <1>16 DEF Promise!vars

(* Everything else leaves the stores, and what batches have left, alone.      *)
LEMMA OtherMaps ==
    ASSUME StateInv, LockInv, LockInv',
           \/ CloseProvider \/ \E h \in DOMAIN stores : CloseStore(h)
           \/ \E t \in Threads, h \in DOMAIN stores, x \in Expressions : Query(t, h, x)
           \/ \E t \in Threads : BatchChecked(t) \/ QueryTerm(t) \/ QueryDone(t)
           \/ UNCHANGED vars
    PROVE  UNCHANGED <<Contents, writes>>
<1>1. UNCHANGED <<stores, writes>>
  BY DEF CloseProvider, CloseStore, Query, BatchChecked, QueryTerm, QueryDone, vars
<1>2. ASSUME NEW t \in Threads, Batching(t)
      PROVE  Batching(t)' /\ threads'[t].store = threads[t].store /\ threads'[t].left = threads[t].left
  <2>1. DOMAIN threads[t] = {"pc", "store", "left"} /\ threads[t].pc \in {"check", "batch"}
    BY <1>2, BatchingThread DEF BatchOK, Batching
  <2>2. CASE \E u \in Threads : BatchChecked(u)
    <3>1. PICK u \in Threads : threads' = [threads EXCEPT ![u].pc = "batch"]
      BY <2>2 DEF BatchChecked
    <3>2. QED BY <2>1, <3>1 DEF Batching, StateInv
  <2>3. CASE ~\E u \in Threads : BatchChecked(u)
    <3>1. threads'[t] = threads[t]
      BY <1>2, <2>1, <2>3, IdleRecord
      DEF CloseProvider, CloseStore, Query, QueryTerm, QueryDone, vars, StateInv
    <3>2. QED BY <1>2, <3>1 DEF Batching
  <2>4. QED BY <2>2, <2>3
<1>3. QED BY <1>1, <1>2, AllKept

LEMMA StepMaps == StateInv /\ LockInv /\ [Next]_vars => [Promise!Next]_(Promise!vars)
<1> SUFFICES ASSUME StateInv, LockInv, [Next]_vars
             PROVE  Promise!Next \/ UNCHANGED Promise!vars
  OBVIOUS
<1>1. LockInv' /\ DOMAIN Contents = DOMAIN stores
  BY StateStep DEF Contents
<1>2. ASSUME NEW h \in DOMAIN stores, Promise!Call(h) PROVE Promise!Next
  BY <1>1, <1>2 DEF Promise!Next
<1>3. ASSUME NEW name \in Names, OpenStore(name) PROVE Promise!Next
  BY <1>1, <1>3, OpenMaps, NamesAssumption DEF Promise!Next
<1>4. ASSUME NEW t \in Threads, NEW h \in DOMAIN stores, NEW k \in Keys,
             Delete(t, h, k) \/ \E e \in Entries : Put(t, h, k, e)
      PROVE  Promise!Next
  <2>1. PICK e \in Entries \cup {NoEntry} : Write(h, [stores[h].db EXCEPT ![k] = e])
    BY <1>4 DEF Delete, Put
  <2>2. QED BY <1>1, <1>2, <2>1, SetMaps
<1>5. ASSUME NEW t \in Threads, NEW h \in DOMAIN stores, NEW b \in Batches, Batch(t, h, b)
      PROVE  Promise!Next
  BY <1>1, <1>2, <1>5, BatchMaps
<1>6. ASSUME NEW t \in Threads, BatchRefused(t) \/ BatchDone(t) \/ BatchOperation(t)
      PROVE  UNCHANGED Promise!vars
  BY <1>1, <1>6, UnlockMaps, OperationMaps
<1>7. ASSUME CloseProvider \/ \E h \in DOMAIN stores : CloseStore(h) PROVE Promise!Next
  <2>1. UNCHANGED <<Contents, writes>>
    BY <1>1, <1>7, OtherMaps
  <2>2. PICK closed \in SUBSET Names : dbs' = [n \in Names |-> IF n \in closed THEN 0 ELSE dbs[n]]
    <3>1. CASE CloseProvider
      <4>1. dbs' = [n \in Names |-> IF n \in Names THEN 0 ELSE dbs[n]]
        BY <3>1 DEF CloseProvider
      <4>2. QED BY <4>1
    <3>2. ASSUME NEW h \in DOMAIN stores, CloseStore(h)
          PROVE  \E closed \in SUBSET Names :
                    dbs' = [n \in Names |-> IF n \in closed THEN 0 ELSE dbs[n]]
      <4>1. PICK name : name = stores[h].name
        OBVIOUS
      <4>2. dbs' = [dbs EXCEPT ![name] = 0] /\ DOMAIN dbs = Names
        BY <3>2, <4>1 DEF CloseStore, StateInv
      <4>3. dbs' = [n \in Names |-> IF n \in {name} \cap Names THEN 0 ELSE dbs[n]]
        BY <4>2
      <4>4. QED BY <4>3
    <3>3. QED BY <1>7, <3>1, <3>2
  <2>3. Promise!Close(closed)
    BY <2>1, <2>2 DEF Promise!Close
  <2>4. QED BY <2>3 DEF Promise!Next
<1>8. ASSUME \/ \E t \in Threads, h \in DOMAIN stores, x \in Expressions : Query(t, h, x)
             \/ \E t \in Threads : BatchChecked(t) \/ QueryTerm(t) \/ QueryDone(t)
             \/ UNCHANGED vars
      PROVE  UNCHANGED Promise!vars
  <2>1. UNCHANGED <<Contents, writes>>
    BY <1>1, <1>8, OtherMaps
  <2>2. dbs' = dbs
    BY <1>8 DEF Query, BatchChecked, QueryTerm, QueryDone, vars
  <2>3. QED BY <2>1, <2>2 DEF Promise!vars
<1>9. QED BY <1>3, <1>4, <1>5, <1>6, <1>7, <1>8 DEF Next

(* Calls of any number of threads that put, delete and batch behave like      *)
(* calls that take effect as a whole and one after the other (memStore.Put,   *)
(* Delete, Batch and their locks), and closing a store parts it from its name *)
(* and leaves what it holds (memProvider.removeStore, Close).                 *)
THEOREM WritesAreAtomic == Spec => KeepsPromise
<1>1. Init => Promise!Init
  BY DEF Init, Promise!Init, Contents
<1>2. QED BY <1>1, StepMaps, Invariance, PTL DEF Spec, KeepsPromise, Promise!Spec
==============================================================================
