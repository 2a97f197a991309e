---------------------------- MODULE LegacyStore -----------------------------
(***************************************************************************)
(* The in-memory storage provider that backs the JSON-LD document loader   *)
(* (pkg/memstorage/legacy/mem.go), used from several threads: stores by    *)
(* name, entries with tags, batches under the write lock of a store, and   *)
(* queries that scan the store once for every term, under its read lock.   *)
(* A batch is applied entry by entry, so that the locks have work to do.   *)
(***************************************************************************)
EXTENDS Naturals, Sequences, FiniteSets

CONSTANTS
    Threads,     \* the threads that use the provider
    Names,       \* names of stores
    Lower,       \* their lower-case forms
    Keys,        \* keys of entries; "" is none of them
    Entries,     \* an entry: its value and its set of tags
    Expressions, \* what is queried: a sequence of terms [name, value]
    Batches,     \* what is batched: sequences of [key, entry]
    NoEntry,     \* no entry; in a batch, a deletion
    MaxStores,   \* bound: stores made
    MaxWrites    \* bound: Put, Delete and Batch calls

ASSUME NamesAssumption == Lower \in [Names -> Names]
ASSUME KeysAssumption == "" \notin Keys /\ NoEntry \notin Entries
ASSUME ExpressionsAssumption ==
    \A x \in Expressions : x # <<>> /\ x \in Seq([name: STRING, value: STRING])
ASSUME BatchesAssumption ==
    \A b \in Batches : /\ b # <<>>
                       /\ b \in Seq([key: Keys \cup {""}, entry: Entries \cup {NoEntry}])
ASSUME StoreBoundsAssumption == MaxStores \in Nat /\ MaxWrites \in Nat

VARIABLES
    dbs,      \* the provider's map: a store for a name, or 0
    stores,   \* every store ever made; callers hold handles (indices) to them
    threads,  \* what every thread is doing
    answers,  \* the last query a thread finished
    writes    \* how many writing calls were made

vars == <<dbs, stores, threads, answers, writes>>

Idle == [pc |-> "idle"]
NoAnswer == [done |-> FALSE]
EmptyDB == [k \in Keys |-> NoEntry]

Init ==
    /\ dbs = [n \in Names |-> 0] /\ stores = <<>>
    /\ threads = [t \in Threads |-> Idle]
    /\ answers = [t \in Threads |-> NoAnswer]
    /\ writes = 0

-----------------------------------------------------------------------------
(* The provider.                                                              *)

(* Opening a store that is open makes no new one.                             *)
OpenStore(name) ==
    /\ dbs[Lower[name]] = 0 /\ Len(stores) < MaxStores
    /\ stores' = Append(stores, [name |-> Lower[name], db |-> EmptyDB, writer |-> FALSE])
    /\ dbs' = [dbs EXCEPT ![Lower[name]] = Len(stores) + 1]
    /\ UNCHANGED <<threads, answers, writes>>

(* removeStore: by the name, whichever store has it by now.  No data is       *)
(* deleted: the memStore keeps its entries for the handles that are left.     *)
CloseStore(h) ==
    /\ dbs' = [dbs EXCEPT ![stores[h].name] = 0]
    /\ UNCHANGED <<stores, threads, answers, writes>>

CloseProvider ==
    /\ dbs' = [n \in Names |-> 0]
    /\ UNCHANGED <<stores, threads, answers, writes>>

-----------------------------------------------------------------------------
(* Writing.                                                                   *)

(* Queries in progress remember what the store has held since they began.     *)
Noticed(h, db) ==
    [t \in Threads |->
        IF threads[t].pc = "query" /\ threads[t].store = h
        THEN [threads[t] EXCEPT !.past = @ \cup {db}] ELSE threads[t]]

CanWrite(h) == ~stores[h].writer

Write(h, db) ==
    /\ writes < MaxWrites /\ CanWrite(h)
    /\ stores' = [stores EXCEPT ![h].db = db]
    /\ threads' = Noticed(h, db)
    /\ writes' = writes + 1
    /\ UNCHANGED <<dbs, answers>>

Put(t, h, k, e) == threads[t] = Idle /\ Write(h, [stores[h].db EXCEPT ![k] = e])
Delete(t, h, k) == threads[t] = Idle /\ Write(h, [stores[h].db EXCEPT ![k] = NoEntry])

Batch(t, h, b) ==
    /\ threads[t] = Idle /\ writes < MaxWrites /\ CanWrite(h)
    /\ stores' = [stores EXCEPT ![h].writer = TRUE]
    /\ threads' = [threads EXCEPT ![t] = [pc |-> "check", store |-> h, left |-> b]]
    /\ writes' = writes + 1
    /\ UNCHANGED <<dbs, answers>>

(* Every key is looked at before the first entry is changed.                  *)
BatchRefusedLocked(t) ==
    /\ threads[t].pc = "check"
    /\ \E i \in DOMAIN threads[t].left : threads[t].left[i].key = ""
    /\ threads' = [threads EXCEPT ![t] = Idle]
    /\ UNCHANGED <<stores, dbs, answers, writes>>
BatchRefused(t) ==
    /\ threads[t].pc = "check"
    /\ \E i \in DOMAIN threads[t].left : threads[t].left[i].key = ""
    /\ LET h == threads[t].store
       IN  /\ stores' = [stores EXCEPT ![h].writer = FALSE]
           /\ threads' = [Noticed(h, stores[h].db) EXCEPT ![t] = Idle]
    /\ UNCHANGED <<dbs, answers, writes>>

BatchCheckedFirst(t) ==
    /\ threads[t].pc = "check"
    /\ threads[t].left[1].key # ""
    /\ threads' = [threads EXCEPT ![t].pc = "batch"]
    /\ UNCHANGED <<stores, dbs, answers, writes>>
BatchChecked(t) ==
    /\ threads[t].pc = "check"
    /\ \A i \in DOMAIN threads[t].left : threads[t].left[i].key # ""
    /\ threads' = [threads EXCEPT ![t].pc = "batch"]
    /\ UNCHANGED <<stores, dbs, answers, writes>>

BatchOperation(t) ==
    /\ threads[t].pc = "batch" /\ threads[t].left # <<>>
    /\ LET op == Head(threads[t].left)
       IN  stores' = [stores EXCEPT ![threads[t].store].db[op.key] = op.entry]
    /\ threads' = [threads EXCEPT ![t].left = Tail(@)]
    /\ UNCHANGED <<dbs, answers, writes>>

BatchDone(t) ==
    /\ threads[t].pc = "batch" /\ threads[t].left = <<>>
    /\ LET h == threads[t].store
       IN  /\ stores' = [stores EXCEPT ![h].writer = FALSE]
           /\ threads' = [Noticed(h, stores[h].db) EXCEPT ![t] = Idle]
    /\ UNCHANGED <<dbs, answers, writes>>

-----------------------------------------------------------------------------
(* Querying.                                                                  *)

HasOnlyTag(e, term) ==
    e # NoEntry /\ \A tag \in e.tags : tag.name = term.name /\ term.value \in {"", tag.value}
HasTag(e, term) ==
    e # NoEntry /\ \E tag \in e.tags : tag.name = term.name /\ term.value \in {"", tag.value}

getMatchingKeysAndDBEntries(db, term) ==
    [k \in {k \in Keys : HasTag(db[k], term)} |-> db[k]]

Query(t, h, expression) ==
    /\ threads[t] = Idle
    /\ threads' = [threads EXCEPT ![t] =
                     [pc |-> "query", store |-> h, expression |-> expression, next |-> 1,
                      results |-> <<>>,
                      past |-> IF stores[h].writer THEN {} ELSE {stores[h].db}]]
    /\ answers' = [answers EXCEPT ![t] = NoAnswer]
    /\ UNCHANGED <<dbs, stores, writes>>

(* One term, one scan under the read lock; a later term with the same name    *)
(* replaces the result of an earlier one.                                     *)
CanReadAnyTime(h) == TRUE
CanRead(h) == ~stores[h].writer

QueryTerm(t) ==
    /\ threads[t].pc = "query" /\ threads[t].next <= Len(threads[t].expression)
    /\ CanRead(threads[t].store)
    /\ LET q == threads[t]
           db == stores[q.store].db
           term == q.expression[q.next]
       IN  threads' = [threads EXCEPT
                ![t].next = @ + 1,
                ![t].results =
                    [n \in DOMAIN q.results \cup {term.name} |->
                        IF n = term.name THEN getMatchingKeysAndDBEntries(db, term)
                                         ELSE q.results[n]]]
    /\ UNCHANGED <<dbs, stores, answers, writes>>

(* The keys that all results have, with the entries of one of the results.    *)
EntriesOfOneResult(results) == {results[n] : n \in DOMAIN results}
commonDBEntries(results) ==
    LET common == {k \in Keys : \A n \in DOMAIN results : k \in DOMAIN results[n]}
    IN  {[k \in common |-> results[n][k]] : n \in DOMAIN results}

QueryDone(t) ==
    /\ threads[t].pc = "query" /\ threads[t].next > Len(threads[t].expression)
    /\ \E entries \in commonDBEntries(threads[t].results) :
         answers' = [answers EXCEPT ![t] =
                       [done |-> TRUE, entries |-> entries,
                        expression |-> threads[t].expression, past |-> threads[t].past]]
    /\ threads' = [threads EXCEPT ![t] = Idle]
    /\ UNCHANGED <<dbs, stores, writes>>

Next ==
    \/ \E n \in Names : OpenStore(n)
    \/ \E h \in DOMAIN stores : CloseStore(h)
    \/ CloseProvider
    \/ \E t \in Threads, h \in DOMAIN stores :
         \/ \E k \in Keys : Delete(t, h, k) \/ \E e \in Entries : Put(t, h, k, e)
         \/ \E b \in Batches : Batch(t, h, b)
         \/ \E expression \in Expressions : Query(t, h, expression)
    \/ \E t \in Threads :
         \/ BatchRefused(t) \/ BatchChecked(t) \/ BatchOperation(t) \/ BatchDone(t)
         \/ QueryTerm(t) \/ QueryDone(t)

Spec == Init /\ [][Next]_vars

-----------------------------------------------------------------------------
(* Properties.                                                                *)

DB == [Keys -> Entries \cup {NoEntry}]
Store(s) ==
    s.name \in Names /\ s.db \in DB /\ s.writer \in BOOLEAN
Batching(t) == threads[t].pc \in {"check", "batch"}

(* The types of the state, and of the locks: a store is locked for writing    *)
(* by exactly one thread, which is in a batch on it, or by none.              *)
TypeOK ==
    /\ dbs \in [Names -> 0..Len(stores)]
    /\ \A h \in DOMAIN stores : Store(stores[h])
    /\ \A t \in Threads : threads[t].pc \in {"idle", "check", "batch", "query"}
    /\ \A h \in DOMAIN stores :
         LET writers == {t \in Threads : Batching(t) /\ threads[t].store = h}
         IN  Cardinality(writers) = IF stores[h].writer THEN 1 ELSE 0
    /\ \A t \in Threads : answers[t].done => answers[t].past # {}
    /\ writes \in 0..MaxWrites

Satisfies(e, expression) ==
    /\ e # NoEntry
    /\ \A i \in DOMAIN expression : \E tag \in e.tags :
         /\ tag.name = expression[i].name
         /\ expression[i].value # "" => tag.value = expression[i].value
LastOfName(expression, i) ==
    \A j \in DOMAIN expression : j > i => expression[j].name # expression[i].name

(* A query invents nothing: every entry it returns was stored under its key   *)
(* while the query ran, and so was, for every tag name it asks for, an entry  *)
(* that has the tag.                                                          *)
AnswersWereStored ==
    \A t \in Threads : answers[t].done => LET a == answers[t] IN
        \A k \in DOMAIN a.entries :
            /\ \E db \in a.past : db[k] = a.entries[k]
            /\ \A i \in DOMAIN a.expression : LastOfName(a.expression, i) =>
                 \E db \in a.past : Satisfies(db[k], <<a.expression[i]>>)

(* "Query returns all data that satisfies the expression": an entry that      *)
(* satisfied it and stayed the same while the query ran is returned.          *)
AnswerHasWhatStayed ==
    \A t \in Threads : answers[t].done => LET a == answers[t] IN
        \A k \in Keys : \A e \in Entries :
            Satisfies(e, a.expression) /\ (\A db \in a.past : db[k] = e)
                => k \in DOMAIN a.entries /\ a.entries[k] = e

(* A query for one tag sees the store at one time: all of a batch or none.    *)
SingleTagQueriesAreSnapshots ==
    \A t \in Threads : answers[t].done /\ Len(answers[t].expression) = 1 =>
        LET a == answers[t] IN
        \E db \in a.past : \A k \in Keys :
            IF Satisfies(db[k], a.expression)
            THEN k \in DOMAIN a.entries /\ a.entries[k] = db[k]
            ELSE k \notin DOMAIN a.entries

(* What a store holds once the batch on it is done: that is decided when the  *)
(* batch takes the lock.                                                      *)
After(db, b) ==
    [k \in Keys |->
        LET at == {i \in DOMAIN b : b[i].key = k}
        IN  IF at = {} THEN db[k] ELSE b[CHOOSE last \in at : \A i \in at : i <= last].entry]
Contents ==
    [h \in DOMAIN stores |->
        IF ~stores[h].writer THEN stores[h].db
        ELSE LET left == threads[CHOOSE t \in Threads : Batching(t) /\ threads[t].store = h].left
             IN  IF \E i \in DOMAIN left : left[i].key = "" THEN stores[h].db
                 ELSE After(stores[h].db, left)]

(* Writing calls of any threads behave like calls that take effect at once    *)
(* ("Batch performs multiple Put and/or Delete operations in order"), and     *)
(* closing parts names from stores but deletes nothing: AtomicStores.         *)
Promise == INSTANCE AtomicStores WITH contents <- Contents, opened <- dbs, calls <- writes
KeepsPromise == Promise!Spec
=============================================================================
