---------------------------- MODULE AtomicStores -----------------------------
(***************************************************************************)
(* What stores promise their callers, whatever else runs: every writing    *)
(* call takes effect as a whole and at once, and a batch with an empty key *)
(* has no effect.  Of several operations of a batch on one key the last    *)
(* one counts.  Nothing but a writing call changes what is stored.         *)
(*                                                                         *)
(* Closing parts a name from its store: the next one opened under the name *)
(* is new and empty.  The store itself keeps its data, and whoever has a   *)
(* handle to it goes on reading and writing it.  That is what the code     *)
(* does; its comment on Close ("All data within the store is deleted",     *)
(* mem.go:355) says more.                                                  *)
(***************************************************************************)
EXTENDS Naturals, Sequences

CONSTANTS Names, Keys, Entries, Batches, NoEntry

VARIABLES contents, \* what every store holds, the closed ones too
          opened,   \* the store that is open under a name, or 0
          calls     \* how many writing calls were made

vars == <<contents, opened, calls>>

DB == [Keys -> Entries \cup {NoEntry}]

Init == contents = <<>> /\ opened = [n \in Names |-> 0] /\ calls = 0

Open(n) ==
    /\ opened[n] = 0
    /\ contents' = Append(contents, [k \in Keys |-> NoEntry])
    /\ opened' = [opened EXCEPT ![n] = Len(contents')]
    /\ UNCHANGED calls

Close(closed) ==
    /\ opened' = [n \in Names |-> IF n \in closed THEN 0 ELSE opened[n]]
    /\ UNCHANGED <<contents, calls>>

Set(h, k, entry) == contents' = [contents EXCEPT ![h][k] = entry]

Refuse == UNCHANGED contents

Apply(h, b) ==
    \E db \in {contents'[h]} \cap DB :
        /\ contents' = [contents EXCEPT ![h] = db]
        /\ \A k \in Keys :
              LET at == {i \in DOMAIN b : b[i].key = k}
              IN  \/ at = {} /\ db[k] = contents[h][k]
                  \/ \E last \in at : (\A i \in at : i <= last) /\ db[k] = b[last].entry

Call(h) ==
    /\ calls' = calls + 1
    /\ UNCHANGED opened
    /\ \/ \E k \in Keys, entry \in Entries \cup {NoEntry} : Set(h, k, entry)
       \/ \E b \in Batches : IF \E i \in DOMAIN b : b[i].key = "" THEN Refuse ELSE Apply(h, b)

Next ==
    \/ \E n \in Names : Open(n)
    \/ \E closed \in SUBSET Names : Close(closed)
    \/ \E h \in DOMAIN contents : Call(h)

Spec == Init /\ [][Next]_vars
=============================================================================
