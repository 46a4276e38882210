------------------------------ MODULE LeaseLock ------------------------------
(***************************************************************************)
(* What the checkpoint lease of ghdb promises, independent of how many     *)
(* GitHub calls it takes: a lock with an expiry time that is claimed,      *)
(* extended and completed in single atomic steps.                          *)
(*                                                                         *)
(* CheckpointLease.tla, the translation of base/checkpoint.go, implements  *)
(* this specification with a separate read and a compare-and-swap write.   *)
(***************************************************************************)
EXTENDS Integers

CONSTANTS Instance,   \* the ghdb processes that share one database
          None,       \* owner of a lease that nobody ever claimed
          Window      \* Option.CheckpointLease: how long a claim stays exclusive

VARIABLES clock,   \* the synchronised wall clock
          owner,   \* who claimed the lock last
          since,   \* the time stamp of that claim
          done     \* the protected work is recorded as finished

vars == <<clock, owner, since, done>>

Expired == clock - since >= Window

Init == /\ clock \in Nat
        /\ owner = None
        /\ since = 0
        /\ done = FALSE

(***************************************************************************)
(* Claim or extend.  An unfinished lock passes to another owner only once  *)
(* its window is over.  The stamp may be older than the clock: it was read *)
(* before the write that carries it.                                       *)
(***************************************************************************)
Take(i) == /\ ~done
           /\ owner \in {None, i} \/ Expired
           /\ owner' = i
           /\ since' \in 0 .. clock
           /\ UNCHANGED <<clock, done>>

\* The work is recorded as finished, for good, and the owner stays on record.
Complete == /\ owner # None
            /\ done' = TRUE
            /\ UNCHANGED <<clock, owner, since>>

Tick == /\ clock' = clock + 1
        /\ UNCHANGED <<owner, since, done>>

Next == \/ \E i \in Instance : Take(i)
        \/ Complete
        \/ Tick

Spec == Init /\ [][Next]_vars
=============================================================================
