--------------------------- MODULE DomainLifecycle ---------------------------
(***************************************************************************)
(* What the monitor promises about one domain (spec section 4.2): a domain *)
(* slot is created, configured, sealed once, entered and left any number   *)
(* of times, may exit on its own, and is deleted from any state.  A        *)
(* deleted slot is free again: the monitor may hand the same management    *)
(* capability out to a later create, so "free" stands for both the         *)
(* Uninitialized and the Terminated state of the spec.                     *)
(*                                                                         *)
(* The driver model TycheDriver is shown to implement this specification   *)
(* (run driver_refines_lifecycle).                                         *)
(***************************************************************************)
CONSTANT Domains          \* the monitor's domain slots (management capabilities)

VARIABLE lstate           \* lstate[d]: lifecycle state of slot d

States == {"free", "created", "configured", "sealed", "running",
           "suspended", "exited"}

\* States in which the domain's configuration is fixed (spec 4.2: "Sealing
\* is irreversible").
SealedStates == {"sealed", "running", "suspended", "exited"}

LTypeOK == lstate \in [Domains -> States]

LInit == lstate = [d \in Domains |-> "free"]

Step(d, from, to) ==
  /\ lstate[d] \in from
  /\ lstate' = [lstate EXCEPT ![d] = to]

\* create_domain: Uninitialized -> Created.
Create(d)    == Step(d, {"free"}, "created")
\* set_cores / set_traps / region attachment: only before sealing.
Configure(d) == Step(d, {"created", "configured"}, "configured")
\* seal: only from Configured; issues the transition capability.
Seal(d)      == Step(d, {"configured"}, "sealed")
\* switch: only into a sealed or suspended domain, never a running one.
Enter(d)     == Step(d, {"sealed", "suspended"}, "running")
\* cooperative return through the gate.
Return(d)    == Step(d, {"running"}, "suspended")
\* domain-initiated exit: a terminal signal.
Exit(d)      == Step(d, {"running"}, "exited")
\* delete: valid in any state, revokes everything and frees the slot.
Delete(d)    == Step(d, States \ {"free"}, "free")

LNext ==
  \E d \in Domains :
    \/ Create(d) \/ Configure(d) \/ Seal(d) \/ Enter(d)
    \/ Return(d) \/ Exit(d) \/ Delete(d)

LSpec == LInit /\ [][LNext]_lstate
=============================================================================
