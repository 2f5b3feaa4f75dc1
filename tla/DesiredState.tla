---------------------------- MODULE DesiredState ----------------------------
(***************************************************************************)
(* What the webhook promises, without its requests, listings, plans,       *)
(* queues and handlers: recordsets are changed one at a time, towards a    *)
(* wish of the cluster; a cycle that nothing disturbed does not fail, and  *)
(* when it succeeds the recordsets are as wanted.                          *)
(*                                                                         *)
(* Reconcile implements this specification.                                *)
(***************************************************************************)
EXTENDS RRSets

CONSTANTS
  Rivals,    \* Rivals[k]: recordsets that cannot exist beside k
  DryRun,    \* the DRY_RUN option
  Wishes,    \* what the cluster may want
  StartDNS,  \* what the zones may hold at the beginning
  Edits      \* what somebody else may write

VARIABLES
  dns,      \* the recordsets stored by Hetzner
  want,     \* the endpoints wanted by the cluster
  wished,   \* every value that want ever had
  outcome,  \* how the last cycle ended: none while one is going on
  quiet     \* nothing disturbed the last cycle, or the one going on

vars == <<dns, want, wished, outcome, quiet>>

\* What the promise of success needs: the owned recordsets lie in managed zones
\* or in none, and what cannot exist beside one of them is owned too, lies in
\* the same zone, and is never wanted together with it.
Orderly ==
  /\ \A k \in Owned : ZoneOf[k] \in Managed \cup {None}
  /\ \A k \in Owned : \A r \in Rivals[k] : r \in Owned /\ ZoneOf[r] = ZoneOf[k]
  /\ \A w \in Wishes : \A k \in Present(w) : \A r \in Rivals[k] : w[r] = None

\* Recordset rr is as endpoint ep wants it.
Satisfies(k, ep, rr) ==
  /\ rr.recs = ep.recs
  /\ ep.ttl \in {None, EffectiveTTL(k, rr)}
  /\ ep.labels \in {BadLabels, rr.labels}

Fulfilled ==
  \A k \in Owned : ZoneOf[k] \in Managed =>
    IF want[k] = None THEN dns[k] = None
                      ELSE dns[k] # None /\ Satisfies(k, want[k], dns[k])

\* From old to new leads a step towards wish w for recordset k.
Towards(w, k, old, new) ==
  IF w[k] = None THEN new = None
  ELSE IF old = None THEN new = CreateOpts(k, w[k])
  ELSE \E f \in {"recs", "ttl", "labels"} : new = [old EXCEPT ![f] = w[k][f]]

Init ==
  /\ dns \in StartDNS
  /\ want \in Wishes /\ wished = {want}
  /\ outcome = "none" /\ quiet = FALSE

StartCycle ==
  /\ outcome' = "none"
  /\ quiet' \in BOOLEAN
  /\ UNCHANGED <<dns, want, wished>>

\* An undisturbed cycle writes before it ends.  An answer may get lost, and with
\* it the quiet.
Write(k) ==
  /\ k \in Owned /\ ~DryRun
  /\ \E w \in wished, new \in RRSet \cup {None} :
       Towards(w, k, dns[k], new) /\ dns' = [dns EXCEPT ![k] = new]
  /\ \/ UNCHANGED <<outcome, quiet>> /\ (quiet => outcome = "none")
     \/ quiet' = FALSE /\ outcome' \in {outcome, "err"}
  /\ UNCHANGED <<want, wished>>

Succeed ==
  /\ outcome' = "ok"
  /\ quiet /\ ~DryRun => Fulfilled
  /\ UNCHANGED <<dns, want, wished, quiet>>

\* A cycle may fail by itself only when it is not quiet.
Fail ==
  /\ outcome' = "err"
  /\ Orderly => ~quiet
  /\ UNCHANGED <<dns, want, wished, quiet>>

\* Something goes wrong, now or later.
Upset ==
  /\ quiet' = FALSE
  /\ outcome' \in {outcome, "err"}
  /\ UNCHANGED <<dns, want, wished>>

ForeignEdit(k) ==
  /\ \E rr \in Edits : dns' = [dns EXCEPT ![k] = rr]
  /\ quiet' = FALSE
  /\ UNCHANGED <<want, wished, outcome>>

ChangeWant ==
  /\ want' \in Wishes
  /\ wished' = wished \cup {want'}
  /\ quiet' = FALSE
  /\ UNCHANGED <<dns, outcome>>

Next ==
  \/ StartCycle \/ Succeed \/ Fail \/ Upset
  \/ \E k \in Key : Write(k) \/ ForeignEdit(k)
  \/ ChangeWant

Spec == Init /\ [][Next]_vars
=============================================================================
