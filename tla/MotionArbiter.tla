---------------------------- MODULE MotionArbiter ----------------------------
(***************************************************************************)
(* The single owner of the maid's navigation (controller/MotionArbiter.java *)
(* and MotionPriority.java).  One lease at a time names the action, or the  *)
(* reflex engine, that may write the navigation, with its priority.  The    *)
(* module has no state of its own: its operators transform the lease that   *)
(* MaidBody keeps.                                                          *)
(***************************************************************************)
EXTENDS Integers

CONSTANT NoAction       \* the null reference of the Java code

\* MotionPriority.java: the numeric order decides who may preempt whom.
Priority == [IDLE |-> 10, TASK |-> 50, COMBAT |-> 80, EMERGENCY_REFLEX |-> 100]

NoLease == [owner |-> NoAction, prio |-> 0]

\* acquire() grants a free lease, renews one's own, and preempts a strictly
\* weaker one.
Grants(lease, id, prio) ==
    \/ lease = NoLease
    \/ lease.owner = id
    \/ prio > lease.prio

Acquired(lease, id, prio) ==
    IF Grants(lease, id, prio) THEN [owner |-> id, prio |-> prio] ELSE lease

\* The previous owner is told (preemptionListener) only when it is another one.
Preempts(lease, id, prio) ==
    Grants(lease, id, prio) /\ lease # NoLease /\ lease.owner # id

\* release() and stop() are the same: only the owner gives the lease back.
Released(lease, id) == IF lease.owner = id THEN NoLease ELSE lease
==============================================================================
