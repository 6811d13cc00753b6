---------------------------- MODULE DeadmanLease ----------------------------
(***************************************************************************)
(* What the control lock promises, without sockets, store or bot: one      *)
(* browser at a time owns a lease, its heartbeats renew it, and a browser  *)
(* that falls silent loses it within Deadline clock ticks.                 *)
(***************************************************************************)
EXTENDS Naturals

CONSTANTS Browsers,  \* the browser sessions (controllerIds)
          NoOne,     \* the lease is free
          Grace,     \* ticks of silence after which the lease may be taken away
          Deadline   \* ticks of silence by which it has been taken away

VARIABLES owner,     \* the browser that owns the lease, or NoOne
          age        \* ticks since the owner was granted or renewed it

leaseVars == <<owner, age>>

LeaseInit == owner = NoOne /\ age = 0

Grant(b) == /\ owner = NoOne
            /\ owner' = b
            /\ age' = 0

Renew == /\ owner # NoOne
         /\ age' = 0
         /\ UNCHANGED owner

(* The owner gives the lease up, or it is taken from it. *)
Drop == /\ owner # NoOne
        /\ owner' = NoOne
        /\ age' = 0

Expire == age > Grace /\ Drop

Elapse == /\ owner # NoOne
          /\ age < Deadline
          /\ age' = age + 1
          /\ UNCHANGED owner

LeaseNext == (\E b \in Browsers : Grant(b)) \/ Renew \/ Drop \/ Elapse

LeaseSpec == LeaseInit /\ [][LeaseNext]_leaseVars

(* Time passes, and a lease whose owner stays silent does expire. *)
LeaseFairSpec == LeaseSpec /\ WF_leaseVars(Elapse) /\ WF_leaseVars(Expire)
=============================================================================
