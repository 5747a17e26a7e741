--------------------------- MODULE FetchContract ---------------------------
(***************************************************************************)
(* What fetch() promises its caller, with the retry loops left out.        *)
(*                                                                         *)
(* A call is answered by exactly one tier of the range it asked for.  The  *)
(* tiers are tried from the cheapest up, one at a time, and a tier is left *)
(* for the next one only on evidence that the fingerprint is what was      *)
(* refused.  Every call ends (docs/architecture.md, "Invariants").         *)
(***************************************************************************)
EXTENDS Naturals

CONSTANT Tiers      \* the tiers of the chain, numbered from the cheapest

VARIABLES high,     \* the most capable tier the call may use, 0 before it is known
          tier,     \* the tier in charge, 0 before the first one
          evidence, \* the tier in charge has just seen a fingerprint signal
          outcome   \* what the caller has got

vars == <<high, tier, evidence, outcome>>

Failures == {"error", "raw"}
Outcomes == {"pending", "response", "block"} \cup Failures

Init == /\ high = 0
        /\ tier = 0
        /\ evidence = FALSE
        /\ outcome = "pending"

\* The arguments contradict one another: no tier is used.
Refuse == /\ tier = 0
          /\ outcome = "pending"
          /\ outcome' = "error"
          /\ UNCHANGED <<high, tier, evidence>>

Open == /\ tier = 0
        /\ outcome = "pending"
        /\ \E lo, hi \in Tiers : lo <= hi /\ tier' = lo /\ high' = hi
        /\ UNCHANGED <<evidence, outcome>>

InCharge == tier # 0 /\ outcome = "pending"

\* An exchange with the server that does not settle the call.
Learn == /\ InCharge
         /\ evidence' \in BOOLEAN
         /\ UNCHANGED <<high, tier, outcome>>

\* Mutant: the range is not looked at.
EscalatePastHigh == /\ InCharge
                    /\ evidence
                    /\ tier <= high
                    /\ tier' = tier + 1
                    /\ evidence' = FALSE
                    /\ UNCHANGED <<high, outcome>>

Escalate == /\ InCharge
            /\ evidence
            /\ tier < high
            /\ tier' = tier + 1
            /\ evidence' = FALSE
            /\ UNCHANGED <<high, outcome>>

\* A block is reported by the last tier only, and only on evidence.
GiveUpBlocked == /\ InCharge
                 /\ evidence
                 /\ tier = high
                 /\ outcome' = "block"
                 /\ UNCHANGED <<high, tier, evidence>>

Settle == /\ InCharge
          /\ outcome' \in {"response"} \cup Failures
          /\ evidence' = FALSE
          /\ UNCHANGED <<high, tier>>

Next == Refuse \/ Open \/ Learn \/ Escalate \/ GiveUpBlocked \/ Settle

Safe == Init /\ [][Next]_vars

Spec == Safe /\ <>(outcome # "pending")

=============================================================================
