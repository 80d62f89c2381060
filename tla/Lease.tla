------------------------------- MODULE Lease -------------------------------
(***************************************************************************)
(* What the take-over protocol promises, with none of its machinery: every *)
(* user has at most one session that may record, and a session that lost   *)
(* its turn never gets it back.  StreamLock implements this module.        *)
(***************************************************************************)

CONSTANTS Sessions,  \* the accepted publisher connections (one vodID each)
          Users,
          UserOf     \* the user each session's stream key belongs to

VARIABLES holding,   \* the sessions that may record
          retired    \* the sessions whose context is cancelled

leaseVars == <<holding, retired>>

LeaseInit == /\ holding = {}
             /\ retired = {}

\* A session gets the lease only when no session of the same user has it.
Acquire(s) == /\ s \notin holding \union retired
              /\ \A t \in holding : UserOf[t] # UserOf[s]
              /\ holding' = holding \union {s}
              /\ UNCHANGED retired

\* Sessions give the lease up, or give up before they got it, one by one or
\* a whole process at a time.
Retire(S) == /\ S # {}
             /\ S \intersect retired = {}
             /\ holding' = holding \ S
             /\ retired' = retired \union S

LeaseNext == \/ \E s \in Sessions : Acquire(s)
             \/ \E S \in SUBSET Sessions : Retire(S)

LeaseSpec == LeaseInit /\ [][LeaseNext]_leaseVars

=============================================================================
