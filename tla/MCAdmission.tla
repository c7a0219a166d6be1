---------------------------- MODULE MCAdmission ----------------------------
(***************************************************************************)
(* AntiReplay and RateLimiter for TLC.  They share no state and never call *)
(* one another, so that one rests in its initial state while the other     *)
(* runs: every behaviour of both is an interleaving of two such.           *)
(***************************************************************************)
EXTENDS AntiReplay, RateLimiter, TLC

AddrSymmetry == Permutations(Addrs)

AdmissionInit == Init /\ LimiterInit

\* The limiter rests while packets arrive, and the window while time passes.
Update ==
  /\ now = 0 /\ table = [a \in Addrs |-> NONE]
  /\ Next
  /\ UNCHANGED limiterVars

Limit == accepted = {} /\ LimiterNext /\ UNCHANGED vars

AdmissionSpec == AdmissionInit /\ [][Update \/ Limit]_<<vars, limiterVars>>
=============================================================================
