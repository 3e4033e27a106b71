-------------------------- MODULE HelloWorldAppProofs --------------------------
(***************************************************************************)
(* Proofs about HelloWorldApp, for every number of files, threads, domain  *)
(* slots and regions: the reply hello_world logs is stale only when the    *)
(* call ended in trusted_main's fall-through exit.                         *)
(***************************************************************************)
EXTENDS HelloWorldApp, TycheDriverProofs

USE DriverAssumption, AppAssumption

\* The points at which main's descriptor is open.
Active == {"mprotect", "mmap", "lookup", "call1", "wait1", "log1",
           "call2", "wait2", "log2", "delete"}

\* The points at which main is blocked in sdk_call_domain.
Waiting == {"wait1", "wait2"}

(* From open to delete, main's descriptor stays open: only main closes it, *)
(* and only in sdk_delete_domain or at exit.                               *)
MainOpen == cpc \in Active => file[MainFile] = "open"

(* While main waits in sdk_call_domain, its thread is in the TRANSITION it *)
(* issued on its own file, blocked or resumed.                             *)
MainWaits ==
  cpc \in Waiting =>
    /\ tfile[MainThread] = MainFile
    /\ pc[MainThread] \in {"switching", "resumed"}

(* A resumed main that the domain did not answer was resumed by the exit   *)
(* call.                                                                   *)
ResumedByExit ==
  (cpc \in Waiting /\ pc[MainThread] = "resumed" /\ ~replied)
    => dstate[fdom[MainFile]] = "exited"

(* The inductive invariant: the driver's, the client's types, and the      *)
(* three facts above that carry ReplyStaleOnlyAfterExit across the call.   *)
AppIInv ==
  /\ IInv /\ AppTypeOK
  /\ MainOpen /\ MainWaits /\ ResumedByExit /\ ReplyStaleOnlyAfterExit

-----------------------------------------------------------------------------
LEMMA AppInitIInv == AppInit => AppIInv
<1> SUFFICES ASSUME AppInit PROVE AppIInv
  OBVIOUS
<1>1. IInv
  BY InitIInv DEF AppInit
<1>2. AppTypeOK
  BY Zenon DEF AppInit, AppTypeOK, Points
<1>3. cpc \notin Active \cup Waiting \cup {"log1", "log2"}
  BY DEF AppInit, Active, Waiting
<1>. QED
  BY <1>1, <1>2, <1>3 DEF AppIInv, MainOpen, MainWaits, ResumedByExit,
                          ReplyStaleOnlyAfterExit

(* main's exit keeps the driver's invariant: it only drops main's mapping  *)
(* and closes its descriptor.                                              *)
LEMMA MainExitIInv == IInv /\ MainExit => IInv'
<1> SUFFICES ASSUME IInv, MainExit PROVE IInv'
  OBVIOUS
<1> USE DEF IInv, TypeOK, MainExit
<1>1. TypeOK'
  BY DEF FileStates
<1>2. OneCallerInside'
  BY DEF OneCallerInside
<1>3. SessionOwnership'
  BY DEF SessionOwnership
<1>4. MappedSegmentLive'
  BY DEF MappedSegmentLive
<1>. QED
  BY <1>1, <1>2, <1>3, <1>4

(* Every step of the composition is a driver step or main's exit.          *)
LEMMA AppDriverStep ==
  AppTypeOK /\ AppNext => [Next]_vars \/ MainExit
<1> SUFFICES ASSUME AppTypeOK, AppNext PROVE [Next]_vars \/ MainExit
  OBVIOUS
<1>1. CASE MainMalloc \/ MainLookup \/ LogFirstReply \/ LogSecondReply
  BY <1>1 DEF MainMalloc, MainLookup, LogFirstReply, LogSecondReply, vars
<1>2. CASE SdkOpen
  BY <1>2 DEF SdkOpen, Next, UserNext, vars
<1>3. CASE SdkMprotect
  BY <1>3 DEF SdkMprotect, AppTypeOK, Next, UserNext, IoctlMprotect
<1>4. CASE SdkCommit \/ SdkMmap
  BY <1>4 DEF SdkCommit, SdkMmap, Next, UserNext
<1>5. ASSUME NEW at, NEW wait, NEW next, SdkCall(at, wait, next)
      PROVE  [Next]_vars
  BY <1>5 DEF SdkCall, Next, UserNext
<1>6. CASE FirstCall \/ SecondCall
  BY <1>5, <1>6 DEF FirstCall, SecondCall
<1>7. CASE DeleteDomain
  BY <1>7 DEF DeleteDomain, Next, UserNext, vars
<1>8. CASE OtherNext
  BY <1>8 DEF OtherNext, Next, UserNext
<1>9. CASE \E f \in Files : TycheRelease(f) /\ UNCHANGED appVars
  BY <1>9 DEF Next
<1>10. CASE \E d \in Domains : DomainStep(d)
  BY <1>10 DEF DomainStep, Next, DomainNext
<1>. QED
  BY <1>1, <1>2, <1>3, <1>4, <1>6, <1>7, <1>8, <1>9, <1>10
  DEF AppNext, MainStep, CreateDomain

(* The domain of an open file, once exited, stays exited and bound to the  *)
(* file: no request re-enters or reconfigures it and only tyche_close,     *)
(* which needs the descriptor closed, frees it.                            *)
LEMMA ExitedStays ==
  ASSUME IInv, [Next]_vars \/ MainExit,
         NEW f \in Files, file[f] = "open", dstate[fdom[f]] = "exited"
  PROVE  fdom'[f] = fdom[f] /\ dstate'[fdom[f]] = "exited"
<1> USE DEF IInv, TypeOK
<1>0. fdom[f] \in Domains
  BY OpenFileBound
<1>1. ASSUME NEW g \in Files, TycheRelease(g)
      PROVE  fdom'[f] = fdom[f] /\ dstate'[fdom[f]] = "exited"
  <2>1. g # f /\ fdom[g] \in Domains
    BY <1>1, OpenFileBound DEF TycheRelease
  <2>2. fdom[g] # fdom[f]
    BY <1>0, <2>1 DEF SessionOwnership
  <2>. QED
    BY <1>1, <2>1, <2>2 DEF TycheRelease
<1>2. ASSUME NEW g \in Files, TycheOpen(g)
      PROVE  fdom'[f] = fdom[f] /\ dstate'[fdom[f]] = "exited"
  BY <1>0, <1>2 DEF TycheOpen
<1>3. ASSUME NEW t \in Threads, NEW g \in Files,
             IoctlCommit(t, g) \/ IoctlMprotect(t, g) \/ IoctlTransition(t, g)
      PROVE fdom'[f] = fdom[f] /\ dstate'[fdom[f]] = "exited"
  BY <1>0, <1>3 DEF IoctlCommit, IoctlMprotect, MprotectRegion, IoctlTransition
<1>4. ASSUME NEW d \in Domains, DomainNext(d)
      PROVE  fdom'[f] = fdom[f] /\ dstate'[fdom[f]] = "exited"
  BY <1>0, <1>4 DEF DomainNext, TrustedMain, EntryGateCall, MainGateCall,
                    MainFallThrough
<1>. QED
  BY <1>1, <1>2, <1>3, <1>4
  DEF Next, UserNext, vars, MainExit, CloseFd, TycheMmap, Munmap,
      IoctlGetPhysOffset, IoctlTransitionFail, IoctlUnknown, SwitchReturn

-----------------------------------------------------------------------------
(* A step that leaves main where it is, main's thread and descriptor as    *)
(* they are and withdraws no reply keeps the client's conjuncts: an exited *)
(* domain of main's open file stays exited (ExitedStays).                  *)
LEMMA FrameStep ==
  ASSUME AppIInv, IInv', [Next]_vars \/ MainExit,
         UNCHANGED <<cpc, elf, todo>>, replied' \in BOOLEAN,
         replied => replied',
         file'[MainFile] = file[MainFile],
         pc'[MainThread] = pc[MainThread],
         tfile'[MainThread] = tfile[MainThread]
  PROVE  AppIInv'
<1> USE DEF AppIInv
<1>1. ASSUME file[MainFile] = "open", dstate[fdom[MainFile]] = "exited"
      PROVE  dstate'[fdom'[MainFile]] = "exited"
  BY <1>1, ExitedStays, AppAssumption
<1>2. AppTypeOK'
  BY DEF AppTypeOK
<1>3. MainOpen' /\ MainWaits'
  BY DEF MainOpen, MainWaits
<1>4. ResumedByExit'
  BY <1>1 DEF ResumedByExit, MainOpen, Active, Waiting
<1>5. ReplyStaleOnlyAfterExit'
  BY <1>1 DEF ReplyStaleOnlyAfterExit, MainOpen, Active
<1>. QED
  BY <1>2, <1>3, <1>4, <1>5

(* One step of sdk_call_domain from at, waiting at wait, logging at next:  *)
(* the TRANSITION puts main's thread in its own domain, a refused call     *)
(* goes to failure, and the return reaches the log with a reply or after   *)
(* the exit call (ResumedByExit).                                          *)
LEMMA CallStep ==
  ASSUME AppIInv, IInv', NEW at, NEW wait, NEW next,
         at \in Active \ Waiting, at \notin {"log1", "log2"},
         wait \in Waiting, next \in Active \cap {"log1", "log2"},
         SdkCall(at, wait, next), UNCHANGED <<elf, todo>>
  PROVE  AppIInv'
<1> USE DEF AppIInv
<1>1. CASE cpc = at /\ IoctlTransition(MainThread, MainFile)
           /\ cpc' = wait /\ replied' = FALSE
  <2>1. tfile'[MainThread] = MainFile /\ pc'[MainThread] = "switching"
    BY <1>1 DEF IoctlTransition, IInv, TypeOK
  <2>2. file'[MainFile] = "open"
    BY <1>1 DEF IoctlTransition
  <2>. QED
    BY Zenon, <1>1, <2>1, <2>2 DEF AppTypeOK, Points, Active, Waiting, MainOpen,
                            MainWaits, ResumedByExit, ReplyStaleOnlyAfterExit
<1>2. CASE cpc = at /\ IoctlTransitionFail(MainThread, MainFile)
           /\ cpc' = "fail" /\ replied' = FALSE
  BY Zenon, <1>2 DEF AppTypeOK, Points, Active, Waiting, MainOpen, MainWaits,
              ResumedByExit, ReplyStaleOnlyAfterExit
<1>3. CASE cpc = wait /\ SwitchReturn(MainThread)
           /\ OnResult(next) /\ UNCHANGED replied
  <2>1. pc[MainThread] = "resumed" /\ cpc' \in {next, "fail"}
    BY <1>3 DEF SwitchReturn, OnResult
  <2>2. UNCHANGED <<file, fdom, dstate>>
    BY <1>3 DEF SwitchReturn
  <2>. QED
    BY <1>3, <2>1, <2>2 DEF AppTypeOK, Points, Active, Waiting, MainOpen,
                            MainWaits, ResumedByExit, ReplyStaleOnlyAfterExit
<1>. QED
  BY Zenon, <1>1, <1>2, <1>3 DEF SdkCall

(* A step of main that does not leave it waiting for or logging a reply    *)
(* keeps the client's conjuncts as long as its descriptor is open wherever *)
(* MainOpen requires it.                                                   *)
LEMMA QuietStep ==
  ASSUME AppIInv, IInv',
         cpc' \in Points \ (Waiting \cup {"log1", "log2"}),
         elf' \in SUBSET Regions, todo' \in SUBSET elf', replied' \in BOOLEAN,
         cpc' \in Active => file'[MainFile] = "open"
  PROVE  AppIInv'
BY DEF AppIInv, AppTypeOK, MainOpen, MainWaits, ResumedByExit,
       ReplyStaleOnlyAfterExit

(* The client keeps its inductive invariant.                               *)
LEMMA AppNextIInv == AppIInv /\ [AppNext]_allVars => AppIInv'
<1> SUFFICES ASSUME AppIInv, [AppNext]_allVars PROVE AppIInv'
  OBVIOUS
<1>0. [Next]_vars \/ MainExit
  <2>1. CASE AppNext
    BY <2>1, AppDriverStep DEF AppIInv
  <2>2. CASE UNCHANGED allVars
    BY <2>2 DEF allVars, vars
  <2>. QED
    BY <2>1, <2>2
<1>1. IInv'
  BY <1>0, NextIInv, MainExitIInv DEF AppIInv
<1>2. cpc \in Points /\ elf \in SUBSET Regions /\ todo \in SUBSET elf
      /\ replied \in BOOLEAN
  BY DEF AppIInv, AppTypeOK
<1>3. CASE UNCHANGED allVars
  BY <1>1, <1>3 DEF allVars, vars, appVars, AppIInv, AppTypeOK, MainOpen,
                    MainWaits,
              ResumedByExit, ReplyStaleOnlyAfterExit
<1>4. CASE MainMalloc \/ MainLookup \/ LogFirstReply \/ LogSecondReply
  <2>1. file' = file /\ cpc' \in {"open", "fail", "call1", "call2", "delete"}
    BY <1>4 DEF MainMalloc, MainLookup, LogFirstReply, LogSecondReply, vars
  <2>2. cpc' \in Active => cpc \in Active
    BY <1>4 DEF MainMalloc, MainLookup, LogFirstReply, LogSecondReply, Active
  <2>3. UNCHANGED <<elf, todo, replied>>
    BY <1>4 DEF MainMalloc, MainLookup, LogFirstReply, LogSecondReply
  <2>. QED
    BY <1>1, <1>2, <2>1, <2>2, <2>3, QuietStep
    DEF Points, Waiting, AppIInv, MainOpen
<1>5. CASE SdkOpen
  <2>1. (cpc' = "mprotect" /\ file'[MainFile] = "open") \/ cpc' = "fail"
    BY <1>5 DEF SdkOpen, TycheOpen, AppIInv, IInv, TypeOK
  <2>. QED
    BY <1>1, <1>2, <1>5, <2>1, QuietStep DEF SdkOpen, Points, Waiting, Active
<1>6. CASE SdkMprotect \/ SdkCommit \/ SdkMmap
  <2>1. file' = file /\ cpc \in Active
    BY <1>6 DEF SdkMprotect, MprotectRegion, SdkCommit, IoctlCommit, SdkMmap,
                TycheMmap, Active
  <2>2. cpc' \in {"mprotect", "mmap", "lookup", "fail"}
    BY <1>6 DEF SdkMprotect, SdkCommit, SdkMmap, OnResult
  <2>3. elf' = elf /\ todo' \in SUBSET elf /\ replied' = replied
    BY <1>2, <1>6 DEF SdkMprotect, SdkCommit, SdkMmap
  <2>. QED
    BY <1>1, <1>2, <2>1, <2>2, <2>3, QuietStep
    DEF Points, Waiting, AppIInv, MainOpen
<1>7. CASE FirstCall \/ SecondCall
  BY <1>1, <1>7, CallStep DEF FirstCall, SecondCall, Active, Waiting
<1>8. CASE DeleteDomain
  BY <1>1, <1>2, <1>8, QuietStep DEF DeleteDomain, Points, Waiting, Active
<1>9. CASE MainExit
  BY <1>1, <1>2, <1>9, QuietStep DEF MainExit, Points, Waiting, Active
<1>10. CASE OtherNext
  <2>1. file'[MainFile] = file[MainFile] /\ pc'[MainThread] = pc[MainThread]
        /\ tfile'[MainThread] = tfile[MainThread]
    <3> USE DEF AppIInv, IInv, TypeOK
    <3>1. CASE \E f \in Files \ {MainFile} :
                 TycheOpen(f) \/ CloseFd(f) \/ TycheMmap(f) \/ Munmap(f)
      BY <3>1 DEF TycheOpen, CloseFd, TycheMmap, Munmap
    <3>2. CASE \E t \in Threads \ {MainThread}, f \in Files \ {MainFile} :
                 \/ IoctlGetPhysOffset(t, f) \/ IoctlCommit(t, f)
                 \/ IoctlMprotect(t, f) \/ IoctlTransitionFail(t, f)
                 \/ IoctlTransition(t, f) \/ IoctlUnknown(t, f)
      <4>1. PICK t \in Threads \ {MainThread}, f \in Files \ {MainFile} :
                 \/ IoctlGetPhysOffset(t, f) \/ IoctlCommit(t, f)
                 \/ IoctlMprotect(t, f) \/ IoctlTransitionFail(t, f)
                 \/ IoctlTransition(t, f) \/ IoctlUnknown(t, f)
        BY <3>2
      <4>2. CASE IoctlGetPhysOffset(t, f) \/ IoctlTransitionFail(t, f)
                 \/ IoctlUnknown(t, f)
        BY <4>1, <4>2 DEF IoctlGetPhysOffset, IoctlTransitionFail,
                          IoctlUnknown, Answer
      <4>3. CASE IoctlCommit(t, f)
        BY <4>1, <4>3 DEF IoctlCommit, Answer
      <4>4. CASE IoctlMprotect(t, f)
        BY <4>1, <4>4 DEF IoctlMprotect, MprotectRegion, Answer
      <4>5. CASE IoctlTransition(t, f)
        BY <4>1, <4>5 DEF IoctlTransition
      <4>. QED
        BY <4>1, <4>2, <4>3, <4>4, <4>5
    <3>3. CASE \E t \in Threads \ {MainThread} : SwitchReturn(t)
      BY <3>3 DEF SwitchReturn
    <3>. QED
      BY <1>10, <3>1, <3>2, <3>3 DEF OtherNext
  <2>. QED
    <3>1. UNCHANGED <<cpc, elf, todo, replied>>
      BY <1>10 DEF OtherNext, appVars
    <3>. QED
      BY <1>0, <1>1, <1>2, <2>1, <3>1, FrameStep
<1>11. CASE \E f \in Files : TycheRelease(f) /\ UNCHANGED appVars
  <2>1. PICK f \in Files : TycheRelease(f) /\ UNCHANGED appVars
    BY <1>11
  <2>2. CASE f = MainFile
    \* main's descriptor is closing: main is past sdk_delete_domain.
    <3>1. cpc \notin Active
      BY <2>1, <2>2 DEF TycheRelease, AppIInv, MainOpen
    <3>. QED
      BY <1>1, <1>2, <2>1, <3>1, QuietStep DEF appVars, Points, Waiting, Active
  <2>3. CASE f # MainFile
    <3>1. UNCHANGED <<cpc, elf, todo, replied>>
      BY <2>1 DEF appVars
    <3>2. file'[MainFile] = file[MainFile] /\ pc' = pc /\ tfile' = tfile
      BY <2>1, <2>3 DEF TycheRelease
    <3>. QED
      BY <1>0, <1>1, <1>2, <3>1, <3>2, FrameStep
  <2>. QED
    BY <2>2, <2>3
<1>12. CASE \E d \in Domains : DomainStep(d)
  <2>1. PICK d \in Domains : DomainStep(d)
    BY <1>12
  <2>2. UNCHANGED <<cpc, elf, todo, file, fdom, tfile>> /\ replied' \in BOOLEAN
        /\ (replied => replied')
    BY Zenon, <1>2, <2>1 DEF DomainStep, TrustedMain, EntryGateCall,
                             MainGateCall, MainFallThrough
  <2>3. CASE TrustedMain(d) \/ inside[d] # MainThread
    <3>1. pc'[MainThread] = pc[MainThread]
      BY <2>1, <2>3 DEF DomainStep, TrustedMain, EntryGateCall, MainGateCall,
                        MainFallThrough, ResumeCaller, AppIInv, IInv, TypeOK
    <3>. QED
      BY <1>0, <1>1, <2>2, <3>1, FrameStep
  <2>4. CASE ~TrustedMain(d) /\ inside[d] = MainThread
    \* The domain resumes main's thread: it answered or exited.
    <3>1. tfile[MainThread] \in Files /\ fdom[tfile[MainThread]] = d
      BY <2>4 DEF AppIInv, IInv, OneCallerInside
    <3>2. pc'[MainThread] = "resumed"
      BY <2>1, <2>4 DEF DomainStep, EntryGateCall, MainGateCall,
                        MainFallThrough, ResumeCaller, AppIInv, IInv, TypeOK
    <3>3. cpc \in Waiting => replied' \/ dstate'[d] = "exited"
      <4>1. cpc \in Waiting => d = fdom[MainFile]
        BY <3>1 DEF AppIInv, MainWaits
      <4>. QED
        BY Zenon, <2>1, <2>4, <4>1 DEF DomainStep, MainFallThrough, AppIInv,
                                       IInv, TypeOK
    <3>4. ResumedByExit'
      BY <2>2, <3>1, <3>3 DEF ResumedByExit, AppIInv, MainWaits
    <3>5. ASSUME file[MainFile] = "open", dstate[fdom[MainFile]] = "exited"
          PROVE  dstate'[fdom'[MainFile]] = "exited"
      BY <1>0, <3>5, ExitedStays DEF AppIInv
    <3>6. ReplyStaleOnlyAfterExit'
      BY <2>2, <3>5 DEF ReplyStaleOnlyAfterExit, AppIInv, MainOpen, Active
    <3>7. AppTypeOK' /\ MainOpen' /\ MainWaits'
      BY <2>2, <3>2 DEF AppIInv, AppTypeOK, MainOpen, MainWaits
    <3>. QED
      BY <1>1, <3>4, <3>6, <3>7 DEF AppIInv
  <2>. QED
    BY <2>3, <2>4
<1>. QED
  BY <1>3, <1>4, <1>5, <1>6, <1>7, <1>8, <1>9, <1>10, <1>11, <1>12
  DEF AppNext, MainStep, CreateDomain

-----------------------------------------------------------------------------
(* hello_world logs what it reads from the shared buffer (msg->reply)      *)
(* after each sdk_call_domain that returned SUCCESS.  In every run, for    *)
(* every number of files, threads, domain slots and regions, a reply the   *)
(* domain did not write during that call is logged only when the domain    *)
(* has exited: the call ended in trusted_main's fall-through exit.         *)
THEOREM ReplyStaleOnlyAfterExitTheorem == AppSpec => []ReplyStaleOnlyAfterExit
<1>1. AppIInv => ReplyStaleOnlyAfterExit
  BY DEF AppIInv
<1>. QED
  BY <1>1, AppInitIInv, AppNextIInv, PTL DEF AppSpec

(* The client and the other processes together drive every domain through  *)
(* the monitor's lifecycle only: main's exit, the one step that is not a   *)
(* driver request, closes a descriptor and changes no domain state.        *)
THEOREM AppLifecycleRefinement == AppSpec => LifecycleRefined
<1>1. AppInit => LC!LInit
  BY DEF AppInit, Init, LC!LInit
<1>2. AppIInv /\ [AppNext]_allVars => [LC!LNext]_dstate
  <2> SUFFICES ASSUME AppIInv, [AppNext]_allVars PROVE [LC!LNext]_dstate
    OBVIOUS
  <2>1. CASE AppNext
    <3>1. [Next]_vars \/ MainExit
      BY <2>1, AppDriverStep DEF AppIInv
    <3>2. CASE [Next]_vars
      BY <3>2, NextRefines DEF AppIInv
    <3>3. CASE MainExit
      BY <3>3 DEF MainExit
    <3>. QED
      BY <3>1, <3>2, <3>3
  <2>2. CASE UNCHANGED allVars
    BY <2>2 DEF allVars, vars
  <2>. QED
    BY <2>1, <2>2
<1>. QED
  BY <1>1, <1>2, AppInitIInv, AppNextIInv, PTL
  DEF AppSpec, LifecycleRefined, LC!LSpec
=============================================================================
