------------------------------- MODULE Domain -------------------------------
(***************************************************************************)
(* What the IOMMU driver promises of one domain: a device reaches the      *)
(* frames of a binding only between its publication and its withdrawal,    *)
(* the frames stay held until they are given back, and a spent serial is   *)
(* never taken again.  Iommu implements it; Binding builds on it.          *)
(***************************************************************************)
EXTENDS Integers

CONSTANT Serials

VARIABLES dom,     \* [s, at]: the binding and how far it has come
          spent,   \* serials up to here are over
          reach    \* serials whose frames the device may still reach

Nobody == [s |-> 0, at |-> "free"]

DomTypeOK ==
    /\ dom \in {Nobody} \cup [s : Serials, at : {"acquired", "open", "shut", "quiet"}]
    /\ spent \in Serials \cup {0} /\ reach \subseteq Serials

DomInit == dom = Nobody /\ spent = 0 /\ reach = {}

Take(s) ==
    /\ dom = Nobody /\ s > spent
    /\ dom' = [s |-> s, at |-> "acquired"] /\ UNCHANGED <<spent, reach>>

\* From here on the device may reach the frames, or not yet.
Open ==
    /\ dom.at = "acquired" /\ dom' = [dom EXCEPT !.at = "open"]
    /\ reach' \in SUBSET {dom.s} /\ UNCHANGED spent

Access == dom.at = "open" /\ reach' \in SUBSET {dom.s} /\ UNCHANGED <<dom, spent>>

\* Withdrawn: nothing of it is left in the tables or in a cache.
Shut ==
    /\ dom.at \in {"acquired", "open"} /\ dom' = [dom EXCEPT !.at = "shut"]
    /\ reach' = {} /\ UNCHANGED spent

Quiet == dom.at = "shut" /\ dom' = [dom EXCEPT !.at = "quiet"] /\ UNCHANGED <<spent, reach>>

GiveBack ==
    /\ dom.at \in {"shut", "quiet"} /\ dom' = Nobody
    /\ spent' = IF dom.s > spent THEN dom.s ELSE spent
    /\ UNCHANGED reach

Spend(s) == dom = Nobody /\ s > spent /\ spent' = s /\ UNCHANGED <<dom, reach>>

DomNext ==
    \/ \E s \in Serials : Take(s) \/ Spend(s)
    \/ Open \/ Access \/ Shut \/ Quiet \/ GiveBack

DomAllowed == DomNext \/ UNCHANGED <<dom, spent, reach>>

DomSpec == DomInit /\ [][DomNext]_<<dom, spent, reach>>

=============================================================================
