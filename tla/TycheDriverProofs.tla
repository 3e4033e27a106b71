--------------------------- MODULE TycheDriverProofs ---------------------------
(***************************************************************************)
(* Proofs about TycheDriver for every value of its constants.              *)
(***************************************************************************)
EXTENDS TycheDriver, TLAPS

USE DriverAssumption

\* The lifecycle states, spelled out for the provers.
LEMMA StatesDef ==
  LC!States = {"free", "created", "configured", "sealed", "running",
               "suspended", "exited"}
BY DEF LC!States

LEMMA SealedStatesDef ==
  LC!SealedStates = {"sealed", "running", "suspended", "exited"}
BY DEF LC!SealedStates

-----------------------------------------------------------------------------
(* Type correctness.                                                       *)

LEMMA InitTypeOK == Init => TypeOK
BY StatesDef DEF Init, TypeOK, FileStates, RtPoints

LEMMA NextTypeOK == TypeOK /\ [Next]_vars => TypeOK'
<1> SUFFICES ASSUME TypeOK, [Next]_vars PROVE TypeOK'
  OBVIOUS
<1> USE StatesDef DEF TypeOK, FileStates, RtPoints
<1>1. ASSUME NEW f \in Files, TycheOpen(f) PROVE TypeOK'
  BY <1>1 DEF TycheOpen
<1>2. ASSUME NEW f \in Files, CloseFd(f) PROVE TypeOK'
  BY <1>2 DEF CloseFd
<1>3. ASSUME NEW f \in Files, TycheMmap(f) PROVE TypeOK'
  BY <1>3 DEF TycheMmap
<1>4. ASSUME NEW f \in Files, Munmap(f) PROVE TypeOK'
  BY <1>4 DEF Munmap
<1>5. ASSUME NEW t \in Threads, NEW f \in Files, IoctlGetPhysOffset(t, f)
      PROVE TypeOK'
  BY <1>5 DEF IoctlGetPhysOffset, Answer
<1>6. ASSUME NEW t \in Threads, NEW f \in Files, IoctlCommit(t, f)
      PROVE TypeOK'
  BY <1>6 DEF IoctlCommit, Answer
<1>7. ASSUME NEW t \in Threads, NEW f \in Files, IoctlMprotect(t, f)
      PROVE TypeOK'
  BY <1>7 DEF IoctlMprotect, MprotectRegion, Answer
<1>8. ASSUME NEW t \in Threads, NEW f \in Files, IoctlTransitionFail(t, f)
      PROVE TypeOK'
  BY <1>8 DEF IoctlTransitionFail, Answer
<1>9. ASSUME NEW t \in Threads, NEW f \in Files, IoctlTransition(t, f)
      PROVE TypeOK'
  BY Zenon, <1>9 DEF IoctlTransition
<1>10. ASSUME NEW t \in Threads, NEW f \in Files, IoctlUnknown(t, f)
       PROVE TypeOK'
  BY <1>10 DEF IoctlUnknown, Answer
<1>11. ASSUME NEW f \in Files, TycheRelease(f) PROVE TypeOK'
  BY Zenon, <1>11 DEF TycheRelease
<1>12. ASSUME NEW t \in Threads, SwitchReturn(t) PROVE TypeOK'
  BY <1>12 DEF SwitchReturn
<1>13. ASSUME NEW d \in Domains, DomainNext(d) PROVE TypeOK'
  <2>1. CASE TrustedMain(d)
    BY <2>1 DEF TrustedMain
  <2>2. CASE EntryGateCall(d)
    <3>1. yields' \in [Domains -> 0..MaxYields]
      BY <2>2 DEF EntryGateCall
    <3>2. QED
      BY Zenon, <2>2, <3>1 DEF EntryGateCall, ResumeCaller
  <2>3. CASE MainGateCall(d)
    BY Zenon, <2>3 DEF MainGateCall, ResumeCaller
  <2>4. CASE MainFallThrough(d)
    <3>1. PICK r \in {"ok", "fail"} : ResumeCaller(d, r)
      BY <2>4 DEF MainFallThrough
    <3>2. QED
      BY Zenon, <2>4, <3>1 DEF MainFallThrough, ResumeCaller
  <2>5. QED
    BY <1>13, <2>1, <2>2, <2>3, <2>4 DEF DomainNext
<1>14. CASE UNCHANGED vars
  BY <1>14 DEF vars
<1>15. QED
  BY <1>1, <1>2, <1>3, <1>4, <1>5, <1>6, <1>7, <1>8, <1>9, <1>10, <1>11,
     <1>12, <1>13, <1>14 DEF Next, UserNext

(* Every reachable state of the driver is well typed: files, domains and   *)
(* threads only take the states tyche_open, tyche_ioctl, tyche_close and   *)
(* the trusted runtime give them.                                          *)
THEOREM TypeCorrect == Spec => []TypeOK
BY InitTypeOK, NextTypeOK, PTL DEF Spec

-----------------------------------------------------------------------------
(* The inductive invariant.  OneCallerInside is not inductive alone:       *)
(* tyche_close frees fdom[f] without looking at the domain, and only the   *)
(* fact that no other file owns that domain (SessionOwnership) shows that  *)
(* the domain freed is not the one a thread is executing, nor one whose   *)
(* segment another file still maps (MappedSegmentLive).                    *)
IInv == TypeOK /\ OneCallerInside /\ SessionOwnership /\ MappedSegmentLive

LEMMA InitIInv == Init => IInv
BY InitTypeOK DEF Init, IInv, OneCallerInside, SessionOwnership,
                  MappedSegmentLive

LEMMA NextIInv == IInv /\ [Next]_vars => IInv'
<1> SUFFICES ASSUME IInv, [Next]_vars PROVE IInv'
  OBVIOUS
<1>0. TypeOK'
  BY NextTypeOK DEF IInv
<1> USE StatesDef, SealedStatesDef
    DEF IInv, TypeOK, OneCallerInside, SessionOwnership, MappedSegmentLive
<1>1. ASSUME NEW f \in Files, TycheOpen(f) PROVE IInv'
  BY <1>0, <1>1 DEF TycheOpen
<1>2. ASSUME NEW f \in Files, CloseFd(f) PROVE IInv'
  BY <1>0, <1>2 DEF CloseFd
<1>3. ASSUME NEW f \in Files, TycheMmap(f) PROVE IInv'
  BY <1>0, <1>3 DEF TycheMmap
<1>4. ASSUME NEW f \in Files, Munmap(f) PROVE IInv'
  BY <1>0, <1>4 DEF Munmap
<1>5. ASSUME NEW t \in Threads, NEW f \in Files, IoctlGetPhysOffset(t, f)
      PROVE IInv'
  BY <1>0, <1>5 DEF IoctlGetPhysOffset, Answer
<1>6. ASSUME NEW t \in Threads, NEW f \in Files, IoctlCommit(t, f)
      PROVE IInv'
  <2>1. OneCallerInside'
    BY <1>0, <1>6 DEF IoctlCommit, Answer
  <2>2. SessionOwnership'
    BY <1>0, <1>6 DEF IoctlCommit, Answer
  <2>3. MappedSegmentLive'
    BY <1>0, <1>6 DEF IoctlCommit, Answer
  <2>. QED
    BY <1>0, <2>1, <2>2, <2>3
<1>7. ASSUME NEW t \in Threads, NEW f \in Files, IoctlMprotect(t, f)
      PROVE IInv'
  <2>1. OneCallerInside'
    BY <1>0, <1>7 DEF IoctlMprotect, MprotectRegion, Answer
  <2>2. SessionOwnership'
    BY <1>0, <1>7 DEF IoctlMprotect, MprotectRegion, Answer
  <2>3. MappedSegmentLive'
    BY <1>0, <1>7 DEF IoctlMprotect, MprotectRegion, Answer
  <2>. QED
    BY <1>0, <2>1, <2>2, <2>3
<1>8. ASSUME NEW t \in Threads, NEW f \in Files, IoctlTransitionFail(t, f)
      PROVE IInv'
  BY <1>0, <1>8 DEF IoctlTransitionFail, Answer
<1>9. ASSUME NEW t \in Threads, NEW f \in Files, IoctlTransition(t, f)
      PROVE IInv'
  <2>1. OneCallerInside'
    BY <1>0, <1>9 DEF IoctlTransition
  <2>2. SessionOwnership'
    BY <1>0, <1>9 DEF IoctlTransition
  <2>3. MappedSegmentLive'
    BY <1>0, <1>9 DEF IoctlTransition
  <2>. QED
    BY <1>0, <2>1, <2>2, <2>3
<1>10. ASSUME NEW t \in Threads, NEW f \in Files, IoctlUnknown(t, f)
       PROVE IInv'
  BY <1>0, <1>10 DEF IoctlUnknown, Answer
<1>11. ASSUME NEW f \in Files, TycheRelease(f) PROVE IInv'
  BY <1>0, <1>11 DEF TycheRelease, InRequest
<1>12. ASSUME NEW t \in Threads, SwitchReturn(t) PROVE IInv'
  BY <1>0, <1>12 DEF SwitchReturn
<1>13. ASSUME NEW d \in Domains, DomainNext(d) PROVE IInv'
  <2>1. CASE TrustedMain(d)
    BY <1>0, <2>1 DEF TrustedMain
  <2>2. CASE EntryGateCall(d)
    <3>1. OneCallerInside'
      BY <1>0, <2>2 DEF EntryGateCall, ResumeCaller
    <3>2. SessionOwnership'
      BY <1>0, <2>2 DEF EntryGateCall, ResumeCaller
    <3>3. MappedSegmentLive'
      BY <1>0, <2>2 DEF EntryGateCall, ResumeCaller
    <3>. QED
      BY <1>0, <3>1, <3>2, <3>3
  <2>3. CASE MainGateCall(d)
    <3>1. OneCallerInside'
      BY <1>0, <2>3 DEF MainGateCall, ResumeCaller
    <3>2. SessionOwnership'
      BY <1>0, <2>3 DEF MainGateCall, ResumeCaller
    <3>3. MappedSegmentLive'
      BY <1>0, <2>3 DEF MainGateCall, ResumeCaller
    <3>. QED
      BY <1>0, <3>1, <3>2, <3>3
  <2>4. CASE MainFallThrough(d)
    <3>1. PICK r \in {"ok", "fail"} : ResumeCaller(d, r)
      BY <2>4 DEF MainFallThrough
    <3>2. QED
      <4>1. OneCallerInside'
        BY <1>0, <2>4, <3>1 DEF MainFallThrough, ResumeCaller
      <4>2. SessionOwnership'
        BY <1>0, <2>4, <3>1 DEF MainFallThrough, ResumeCaller
      <4>3. MappedSegmentLive'
        BY <1>0, <2>4, <3>1 DEF MainFallThrough, ResumeCaller
      <4>. QED
        BY <1>0, <4>1, <4>2, <4>3
  <2>5. QED
    BY <1>13, <2>1, <2>2, <2>3, <2>4 DEF DomainNext
<1>14. CASE UNCHANGED vars
  BY <1>14 DEF vars
<1>15. QED
  BY Zenon, <1>1, <1>2, <1>3, <1>4, <1>5, <1>6, <1>7, <1>8, <1>9, <1>10, <1>11,
     <1>12, <1>13, <1>14 DEF Next, UserNext

(* At most one thread executes inside any domain, and exactly while it is  *)
(* blocked in a TRANSITION on the file bound to that domain, whatever the  *)
(* number of files, threads and domain slots.                              *)
THEOREM OneCallerInsideTheorem == Spec => []OneCallerInside
<1>1. IInv => OneCallerInside
  BY DEF IInv
<1>. QED
  BY InitIInv, NextIInv, <1>1, PTL DEF Spec

(* Every live domain is owned by exactly one open or closing session, for  *)
(* every number of files and domain slots: tyche_close never leaks a       *)
(* domain and tyche_open never hands out one that is in use.               *)
THEOREM SessionOwnershipTheorem == Spec => []SessionOwnership
<1>1. IInv => SessionOwnership
  BY DEF IInv
<1>. QED
  BY InitIInv, NextIInv, <1>1, PTL DEF Spec

(* A segment mapped into a process always belongs to a committed, live     *)
(* domain, for every number of files and domain slots.                     *)
THEOREM MappedSegmentLiveTheorem == Spec => []MappedSegmentLive
<1>1. IInv => MappedSegmentLive
  BY DEF IInv
<1>. QED
  BY InitIInv, NextIInv, <1>1, PTL DEF Spec

-----------------------------------------------------------------------------
(* No step changes the regions of a committed domain: only tyche_open      *)
(* (on a free slot) and MPROTECT (before COMMIT) write config.             *)
LEMMA NextConfigFrozen ==
  TypeOK /\ [Next]_vars =>
    \A d \in Domains : dstate[d] \in LC!SealedStates => config'[d] = config[d]
<1> SUFFICES ASSUME TypeOK, [Next]_vars, NEW d \in Domains,
                    dstate[d] \in LC!SealedStates
             PROVE  config'[d] = config[d]
  OBVIOUS
<1> USE StatesDef, SealedStatesDef DEF TypeOK
<1>1. ASSUME NEW f \in Files, TycheOpen(f) PROVE config'[d] = config[d]
  BY <1>1 DEF TycheOpen
<1>2. ASSUME NEW t \in Threads, NEW f \in Files, IoctlMprotect(t, f)
      PROVE config'[d] = config[d]
  BY <1>2 DEF IoctlMprotect, MprotectRegion, Answer
<1>3. ASSUME NEW d2 \in Domains, DomainNext(d2) PROVE config'[d] = config[d]
  BY <1>3 DEF DomainNext, TrustedMain, EntryGateCall, MainGateCall,
              MainFallThrough
<1>4. QED
  BY <1>1, <1>2, <1>3
  DEF Next, UserNext, vars, CloseFd, TycheMmap, Munmap, IoctlGetPhysOffset,
      IoctlCommit, IoctlTransitionFail, IoctlTransition, IoctlUnknown,
      TycheRelease, SwitchReturn

(* The regions of a committed domain never change (spec 4.2), for every    *)
(* value of the constants.                                                 *)
THEOREM SealedConfigFrozenTheorem == Spec => SealedConfigFrozen
<1>1. TypeOK /\ [Next]_vars =>
        [\A d \in Domains :
           dstate[d] \in LC!SealedStates => config'[d] = config[d]]_vars
  BY NextConfigFrozen
<1>. QED
  BY TypeCorrect, <1>1, PTL DEF Spec, SealedConfigFrozen

-----------------------------------------------------------------------------
(* Refinement of the monitor's lifecycle.                                  *)

LEMMA SpecIInv == Spec => []IInv
BY InitIInv, NextIInv, PTL DEF Spec

\* The lifecycle's actions, spelled out for the provers.
LEMMA LifecycleStepDef ==
  ASSUME NEW d \in Domains
  PROVE  /\ LC!Create(d) <=> LC!Step(d, {"free"}, "created")
         /\ LC!Configure(d) <=> LC!Step(d, {"created", "configured"}, "configured")
         /\ LC!Seal(d) <=> LC!Step(d, {"configured"}, "sealed")
         /\ LC!Enter(d) <=> LC!Step(d, {"sealed", "suspended"}, "running")
         /\ LC!Return(d) <=> LC!Step(d, {"running"}, "suspended")
         /\ LC!Exit(d) <=> LC!Step(d, {"running"}, "exited")
         /\ LC!Delete(d) <=> LC!Step(d, LC!States \ {"free"}, "free")
BY DEF LC!Create, LC!Configure, LC!Seal, LC!Enter, LC!Return, LC!Exit,
       LC!Delete

\* The file a request names is bound to a live domain slot.
LEMMA OpenFileBound ==
  ASSUME IInv, NEW f \in Files, file[f] # "unused"
  PROVE  fdom[f] \in Domains /\ dstate[fdom[f]] # "free"
BY DEF IInv, TypeOK, SessionOwnership

(* Every step of the driver changes the domain states the way one step of  *)
(* the monitor's lifecycle does, or leaves them alone.                     *)
LEMMA NextRefines == IInv /\ [Next]_vars => [LC!LNext]_dstate
<1> SUFFICES ASSUME IInv, [Next]_vars PROVE [LC!LNext]_dstate
  OBVIOUS
<1> DEFINE Lift(d, from, to) ==
      /\ d \in Domains
      /\ dstate[d] \in from
      /\ dstate' = [dstate EXCEPT ![d] = to]
<1>0. ASSUME NEW d \in Domains, NEW from, NEW to,
             \/ from = {"free"} /\ to = "created"
             \/ from = {"created", "configured"} /\ to = "configured"
             \/ from = {"configured"} /\ to = "sealed"
             \/ from = {"sealed", "suspended"} /\ to = "running"
             \/ from = {"running"} /\ to = "suspended"
             \/ from = {"running"} /\ to = "exited"
             \/ from = LC!States \ {"free"} /\ to = "free",
             Lift(d, from, to)
      PROVE  LC!LNext
  BY Zenon, <1>0, LifecycleStepDef DEF LC!LNext, LC!Step
<1>1. ASSUME NEW f \in Files, TycheOpen(f) PROVE [LC!LNext]_dstate
  <2>1. PICK d \in Domains : /\ dstate[d] = "free"
                             /\ dstate' = [dstate EXCEPT ![d] = "created"]
    BY Zenon, <1>1 DEF TycheOpen
  <2>. QED
    BY Zenon, <2>1, <1>0
<1>2. ASSUME NEW f \in Files, TycheRelease(f) PROVE [LC!LNext]_dstate
  <2>1. fdom[f] \in Domains /\ dstate[fdom[f]] \in LC!States \ {"free"}
    BY <1>2, OpenFileBound DEF TycheRelease, IInv, TypeOK
  <2>. QED
    BY Zenon, <1>2, <2>1, <1>0 DEF TycheRelease
<1>3. ASSUME NEW t \in Threads, NEW f \in Files, IoctlCommit(t, f)
      PROVE [LC!LNext]_dstate
  <2>1. fdom[f] \in Domains
    BY <1>3, OpenFileBound DEF IoctlCommit
  <2>. QED
    BY Zenon, <1>3, <2>1, <1>0 DEF IoctlCommit
<1>4. ASSUME NEW t \in Threads, NEW f \in Files, IoctlMprotect(t, f)
      PROVE [LC!LNext]_dstate
  <2>1. fdom[f] \in Domains
    BY <1>4, OpenFileBound DEF IoctlMprotect, MprotectRegion
  <2>. QED
    BY Zenon, <1>4, <2>1, <1>0 DEF IoctlMprotect, MprotectRegion
<1>5. ASSUME NEW t \in Threads, NEW f \in Files, IoctlTransition(t, f)
      PROVE [LC!LNext]_dstate
  <2>1. fdom[f] \in Domains
    BY <1>5, OpenFileBound DEF IoctlTransition
  <2>. QED
    BY Zenon, <1>5, <2>1, <1>0 DEF IoctlTransition
<1>6. ASSUME NEW d \in Domains, DomainNext(d) PROVE [LC!LNext]_dstate
  <2>1. CASE EntryGateCall(d)
    BY Zenon, <2>1, <1>0 DEF EntryGateCall
  <2>2. CASE MainGateCall(d)
    BY Zenon, <2>2, <1>0 DEF MainGateCall
  <2>3. CASE MainFallThrough(d)
    BY Zenon, <2>3, <1>0 DEF MainFallThrough
  <2>4. CASE TrustedMain(d)
    BY <2>4 DEF TrustedMain
  <2>. QED
    BY <1>6, <2>1, <2>2, <2>3, <2>4 DEF DomainNext
<1>7. CASE UNCHANGED dstate
  BY <1>7
<1>. QED
  BY <1>1, <1>2, <1>3, <1>4, <1>5, <1>6, <1>7
  DEF Next, UserNext, vars, CloseFd, TycheMmap, Munmap, IoctlGetPhysOffset,
      IoctlTransitionFail, IoctlUnknown, SwitchReturn

(* The driver implements the monitor's lifecycle for every value of the    *)
(* constants: tyche_open, MPROTECT, COMMIT, TRANSITION, the gate and the   *)
(* exit call, and tyche_close move a domain only along the lifecycle's     *)
(* transitions (no switch before seal, no seal before configuration, no    *)
(* re-entry of an exited domain).                                          *)
THEOREM LifecycleRefinement == Spec => LifecycleRefined
<1>1. Init => LC!LInit
  BY DEF Init, LC!LInit
<1>. QED
  BY <1>1, SpecIInv, NextRefines, PTL DEF Spec, LifecycleRefined, LC!LSpec

=============================================================================
