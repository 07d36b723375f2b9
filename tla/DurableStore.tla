---------------------------- MODULE DurableStore ----------------------------
(***************************************************************************)
(* What the storage engine promises its clients: a store of mutations with *)
(* increasing sequence numbers, of which only a suffix that was never      *)
(* acknowledged can be dropped again.  A mutation whose call failed may be *)
(* in the store or not, and appear in it late.  The promise ends when a    *)
(* stored record is spoiled.                                               *)
(***************************************************************************)
EXTENDS Naturals

VARIABLES
  store,   \* the mutations a restart would show
  acked,   \* the mutations acknowledged to a client
  failed,  \* the mutations (their mut) whose call failed
  intact   \* is everything that was stored still as it was written?

vars == <<store, acked, failed, intact>>

Init == store = {} /\ acked = {} /\ failed = {} /\ intact = TRUE

(* A new mutation reaches the store, after every mutation in it.           *)
Commit ==
  /\ \E r \in store' \ store :
       /\ store' = store \union {r}
       /\ \A q \in store : q.seq < r.seq
  /\ UNCHANGED <<acked, failed>>

Acknowledge ==
  /\ acked \subseteq acked'
  /\ acked' \subseteq store
  /\ UNCHANGED <<store, failed>>

(* Nobody was told that it is in the store, and nobody that it is not.     *)
Fail ==
  /\ \E m \in failed' \ failed : failed' = failed \union {m} /\ \A r \in acked : r.mut # m
  /\ UNCHANGED <<store, acked>>

(* A crash or a checkpoint may drop the latest mutations, and may bring    *)
(* one back that failed: all before a mutation that is there are kept, and *)
(* no two have the same number.                                            *)
DropSuffix ==
  /\ \A r \in store', q \in store : q.seq < r.seq => q \in store'
  /\ \A r \in store' \ store : r.mut \in failed
  /\ \A q, r \in store' : q.seq = r.seq => q = r
  /\ acked \subseteq store'
  /\ UNCHANGED <<acked, failed>>

Promised == intact /\ intact' /\ (Commit \/ Acknowledge \/ Fail \/ DropSuffix)

(* Nothing is promised from the moment of the damage on.                   *)
Damaged == ~intact'

Next == Promised \/ Damaged

Spec == Init /\ [][Next]_vars
=============================================================================
