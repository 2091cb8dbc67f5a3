------------------------------- MODULE Sources -------------------------------
(***************************************************************************)
(* How the composition root builds the provider of the initial resources    *)
(* and takes it down (system/app/supplies.rs, system/supply/pole.rs,        *)
(* system/supply/collection.rs).  Each definition of Plan is an image (one  *)
(* pole) or a collection (roots accorded to the system itself, then the     *)
(* pole of its manifest).  Every call to the kernel may fail; a definition  *)
(* that fails midway is cleaned up until that works, and the receipt of the *)
(* construction then gives back what was already built.                     *)
(***************************************************************************)
EXTENDS Naturals, FiniteSets, Sequences

CONSTANTS Plan,      \* the definitions in order: their kind and the roots they need
          Failures,  \* bound on failing kernel calls
          Starved    \* TRUE when the list of platform roots may fail to grow

VARIABLES at,        \* the definition being built
          step,      \* where its construction stands
          authority, \* the source's authority endpoint is open
          roots,     \* accorded roots in the receipt, later in source_roots
          pole,      \* the pole under construction
          held,      \* poles owned by registered definitions, by definition
          lost,      \* accorded roots nobody records
          faults

sourcesVars == <<at, step, authority, roots, pole, held, lost, faults>>

Assumptions == /\ \A i \in DOMAIN Plan : /\ Plan[i].kind \in {"image", "inventory", "retention", "platform"}
                                       /\ Plan[i].items \in Nat
               /\ Failures \in Nat /\ Starved \in BOOLEAN

NoPole == "none"
Poles == {NoPole, "sealed", "mapped", "ready"}
Items == Plan[at].items
Accorded == Cardinality({r \in roots : r[1] = at})

\* A kernel call that fails uses up one of the failures.
Fault == faults > 0 /\ faults' = faults - 1
Keep == UNCHANGED <<at, authority, roots, held, lost>>

Open == /\ step = "start"
        /\ \/ authority' = TRUE /\ step' = "accord" /\ UNCHANGED faults
           \/ Fault /\ step' = "failed" /\ UNCHANGED authority
        /\ UNCHANGED <<at, roots, pole, held, lost>>

\* The next root of the collection is accorded to the system and entered in
\* the receipt, or the kernel refuses it and the receipt unwinds.
Accord == /\ step = "accord" /\ Accorded < Items
          /\ \/ roots' = roots \cup {<<at, Accorded + 1>>} /\ UNCHANGED <<step, faults>>
             \/ Fault /\ step' = "unwind" /\ UNCHANGED roots
          /\ UNCHANGED <<at, authority, pole, held, lost>>

\* The machine's inventory accords one root for each device, the retention
\* authority one after its list has grown.
AddItem == Plan[at].kind = "inventory" /\ Accord
Retention == Plan[at].kind = "retention" /\ Accord

\* A platform window accords its root before the list grows: when that fails
\* the root is in no list.
Platform ==
    /\ Plan[at].kind = "platform"
    /\ \/ Accord
       \/ /\ step = "accord" /\ Accorded < Items /\ Starved /\ Fault
          /\ lost' = lost + 1 /\ step' = "unwind"
          /\ UNCHANGED <<at, authority, roots, pole, held>>

\* from_bytes: unseal, open, write and shut the pole; a failure goes to the
\* cleanup of what exists.
FromBytes ==
    /\ step = "accord" /\ Accorded = Items
    /\ CASE pole = NoPole   -> \/ pole' = "sealed" /\ UNCHANGED <<step, faults>>
                               \/ Fault /\ step' = "unwind" /\ UNCHANGED pole
         [] pole = "sealed" -> \/ pole' = "mapped" /\ UNCHANGED <<step, faults>>
                               \/ Fault /\ step' = "cleanup" /\ UNCHANGED pole
         [] pole = "mapped" -> \/ pole' = "ready" /\ step' = "collect" /\ UNCHANGED faults
                               \/ Fault /\ step' = "cleanup" /\ UNCHANGED pole
    /\ Keep

\* cleanup_root: the mapping is shut first, then the pole is released; a
\* failure leaves the rest for the next try.
CleanupRoot == IF pole = "mapped" THEN "sealed" ELSE NoPole

RetryCleanup ==
    /\ step = "cleanup"
    /\ \/ /\ pole' = CleanupRoot /\ UNCHANGED faults
          /\ step' = IF pole' = NoPole THEN "unwind" ELSE step
       \/ Fault /\ UNCHANGED <<step, pole>>
    /\ Keep

\* A collection is checked against its manifest; an image has nothing to check.
Collect == /\ step = "collect"
           /\ \/ step' = "register" /\ UNCHANGED faults
              \/ Items > 0 /\ Fault /\ step' = "cleanup"
           /\ UNCHANGED pole
           /\ Keep

\* The definition is registered, or its pole goes back through the cleanup.
Register ==
    /\ step = "register"
    /\ \/ /\ held' = held \cup {at} /\ pole' = NoPole
          /\ IF at < Len(Plan) THEN at' = at + 1 /\ step' = "accord"
                               ELSE at' = at /\ step' = "running"
          /\ UNCHANGED faults
       \/ Fault /\ step' = "cleanup" /\ UNCHANGED <<at, pole, held>>
    /\ UNCHANGED <<authority, roots, lost>>

\* The order of both walks, the receipt's and the shutdown's: the poles of
\* the definitions, the authority, the accorded roots.
NextGone == IF held # {} THEN "pole" ELSE IF authority THEN "authority" ELSE "root"

TakeDown ==
    /\ CASE NextGone = "pole"      -> /\ \E d \in held : /\ \A e \in held : d <= e
                                                         /\ held' = held \ {d}
                                      /\ UNCHANGED <<authority, roots>>
         [] NextGone = "authority" -> authority' = FALSE /\ UNCHANGED <<held, roots>>
         [] NextGone = "root"      -> /\ \E r \in roots : roots' = roots \ {r}
                                      /\ UNCHANGED <<held, authority>>
    /\ UNCHANGED <<at, step, pole, lost, faults>>

Empty == held = {} /\ ~authority /\ roots = {}

\* The receipt's drop tries each part until it goes.
Unwind == step = "unwind" /\ ~Empty /\ TakeDown
UnwindRetry == step = "unwind" /\ ~Empty /\ Fault /\ UNCHANGED <<at, step, authority, roots, pole, held, lost>>
Unwound == /\ step = "unwind" /\ Empty
           /\ step' = "failed"
           /\ UNCHANGED <<at, authority, roots, pole, held, lost, faults>>

\* Shutdown walks the same way, but a failure is the system's fault.
Stop == /\ step = "running"
        /\ step' = "stopping"
        /\ UNCHANGED <<at, authority, roots, pole, held, lost, faults>>
Stopping == step = "stopping" /\ ~Empty /\ TakeDown
StopFault == /\ step = "stopping" /\ ~Empty /\ Fault
             /\ step' = "fault"
             /\ UNCHANGED <<at, authority, roots, pole, held, lost>>
Stopped == /\ step = "stopping" /\ Empty
           /\ step' = "stopped"
           /\ UNCHANGED <<at, authority, roots, pole, held, lost, faults>>
Over == step \in {"failed", "fault", "stopped"} /\ UNCHANGED sourcesVars

sourcesInit == /\ at = 1 /\ step = "start" /\ authority = FALSE /\ roots = {}
               /\ pole = NoPole /\ held = {} /\ lost = 0 /\ faults = Failures

sourcesNext == \/ Open \/ AddItem \/ Retention \/ Platform
               \/ FromBytes \/ Collect \/ RetryCleanup \/ Register
               \/ Unwind \/ UnwindRetry \/ Unwound
               \/ Stop \/ Stopping \/ StopFault \/ Stopped \/ Over

-----------------------------------------------------------------------------
\* Every variable keeps its type.
TypeOK == /\ at \in DOMAIN Plan /\ pole \in Poles /\ held \subseteq DOMAIN Plan
          /\ authority \in BOOLEAN /\ lost \in Nat /\ faults \in 0 .. Failures

\* A construction that failed and a shutdown that ended leave nothing behind:
\* no pole, no mapping, no endpoint and no accorded root.
NothingLeft == step \in {"failed", "stopped"} => Empty /\ pole = NoPole /\ lost = 0

\* A definition never outlives what it was made from: while a pole of a
\* collection is registered, its accorded roots and the endpoint are there.
Founded == \A d \in held : authority /\ \A i \in 1 .. Plan[d].items : <<d, i>> \in roots
=============================================================================
