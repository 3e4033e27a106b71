---------------------------- MODULE HelloWorldApp ----------------------------
(***************************************************************************)
(* The untrusted example application enclave_rot_riscv                     *)
(* (src/C/libraries/sdktyche/example/enclave_rot_riscv/untrusted/main.c)   *)
(* run against the driver and the trusted runtime of TycheDriver, with the *)
(* shared buffer through which the domain answers.                         *)
(*                                                                         *)
(* One process runs main on thread MainThread and file MainFile; every     *)
(* other file and thread belongs to other processes, which use the driver  *)
(* freely and compete for the monitor's domain slots.  main creates a      *)
(* domain from its ELF (sdk_create_domain: open, one MPROTECT per          *)
(* segment, COMMIT, mmap), finds the KERNEL_SHARED segment, switches into  *)
(* the domain twice reading the reply it leaves in the shared buffer, and  *)
(* deletes the domain.  Every failure returns FAILURE from main without    *)
(* cleaning up; the process then exits and the kernel's teardown of its   *)
(* descriptor and mapping is what deletes the domain.                      *)
(*                                                                         *)
(* The SDK (sdk_create_domain, sdk_call_domain, sdk_delete_domain) and the *)
(* enclave's trusted_entry are not in the source tree; they are modelled   *)
(* from spec 4.4 and 8: the SDK calls map to the driver's requests, and    *)
(* the entry logic writes its reply into the shared buffer before each of  *)
(* its gate calls.                                                         *)
(***************************************************************************)
EXTENDS TycheDriver

CONSTANTS
  MainThread,    \* the thread running main
  MainFile,      \* the descriptor sdk_create_domain opens
  SharedRegion   \* the ELF segment of type KERNEL_SHARED

ASSUME AppAssumption ==
  /\ MainThread \in Threads
  /\ MainFile \in Files
  /\ SharedRegion \in Regions

VARIABLES
  cpc,      \* cpc: where main is
  elf,      \* elf: the segments of the enclave binary, each MPROTECTed once
  todo,     \* todo: segments sdk_create_domain has not attached yet
  replied   \* replied: the domain wrote the shared buffer since main last called it

appVars == <<cpc, elf, todo, replied>>
allVars == <<vars, appVars>>

Points == {"malloc", "open", "mprotect", "mmap", "lookup",
           "call1", "wait1", "log1", "call2", "wait2", "log2", "delete",
           "done", "fail", "exited"}

AppTypeOK ==
  /\ cpc \in Points
  /\ elf \in SUBSET Regions
  /\ todo \in SUBSET elf
  /\ replied \in BOOLEAN

AppInit ==
  /\ Init
  /\ cpc = "malloc"
  /\ elf \in SUBSET Regions \ {{}}
  /\ todo = elf
  /\ replied = FALSE

\* main's next point once the request it issued returned with ret'.
OnResult(next) == cpc' = IF ret'[MainThread] = "ok" THEN next ELSE "fail"

-----------------------------------------------------------------------------
(* main: malloc of the tyche_domain_t, which may fail.                     *)
MainMalloc ==
  /\ cpc = "malloc"
  /\ \E ok \in BOOLEAN : cpc' = IF ok THEN "open" ELSE "fail"
  /\ UNCHANGED <<vars, elf, todo, replied>>

(* sdk_create_domain, as the driver sees it: open (which fails when the    *)
(* monitor has no free slot), one MPROTECT per segment, COMMIT, and the    *)
(* mmap of the segments.  Any failure makes main return FAILURE.           *)
SdkOpen ==
  /\ cpc = "open"
  /\ \/ TycheOpen(MainFile) /\ cpc' = "mprotect"
     \/ /\ \A d \in Domains : dstate[d] # "free"
        /\ cpc' = "fail" /\ UNCHANGED vars
  /\ UNCHANGED <<elf, todo, replied>>

SdkMprotect ==
  /\ cpc = "mprotect" /\ todo # {}
  /\ \E r \in todo : MprotectRegion(MainThread, MainFile, r) /\ todo' = todo \ {r}
  /\ OnResult("mprotect")
  /\ UNCHANGED <<elf, replied>>

SdkCommit ==
  /\ cpc = "mprotect" /\ todo = {}
  /\ IoctlCommit(MainThread, MainFile)
  /\ OnResult("mmap")
  /\ UNCHANGED <<elf, todo, replied>>

SdkMmap ==
  /\ cpc = "mmap"
  /\ TycheMmap(MainFile)
  /\ cpc' = "lookup"
  /\ UNCHANGED <<elf, todo, replied>>

\* main's call of sdk_create_domain(enclave, argv[0], ...) and its check.
CreateDomain == SdkOpen \/ SdkMprotect \/ SdkCommit \/ SdkMmap

\* find_default_shared: the first shared region of type KERNEL_SHARED.
FindDefaultShared == SharedRegion \in elf

\* main: shared = find_default_shared(enclave); NULL is a failure.
MainLookup ==
  /\ cpc = "lookup"
  /\ cpc' = IF FindDefaultShared THEN "call1" ELSE "fail"
  /\ UNCHANGED <<vars, elf, todo, replied>>

-----------------------------------------------------------------------------
(* sdk_call_domain: a TRANSITION request on MainFile.  It is refused at    *)
(* once, or blocks until the domain hands control back; hello_world goes   *)
(* to failure unless the call returns SUCCESS.                             *)

\* Bug variant: the result of sdk_call_domain is not checked.
SdkCallUnchecked(at, wait, next) ==
  \/ /\ cpc = at
     /\ IoctlTransition(MainThread, MainFile)
     /\ cpc' = wait /\ replied' = FALSE
  \/ /\ cpc = at
     /\ IoctlTransitionFail(MainThread, MainFile)
     /\ cpc' = next /\ replied' = FALSE
  \/ /\ cpc = wait
     /\ SwitchReturn(MainThread)
     /\ cpc' = next /\ UNCHANGED replied

SdkCall(at, wait, next) ==
  \/ /\ cpc = at
     /\ IoctlTransition(MainThread, MainFile)
     /\ cpc' = wait /\ replied' = FALSE
  \/ /\ cpc = at
     /\ IoctlTransitionFail(MainThread, MainFile)
     /\ cpc' = "fail" /\ replied' = FALSE
  \/ /\ cpc = wait
     /\ SwitchReturn(MainThread)
     /\ OnResult(next) /\ UNCHANGED replied

\* hello_world: write the nonce into the shared buffer, first call.
FirstCall == SdkCall("call1", "wait1", "log1") /\ UNCHANGED <<elf, todo>>

\* hello_world: log the first reply read from the shared buffer.
LogFirstReply ==
  /\ cpc = "log1" /\ cpc' = "call2"
  /\ UNCHANGED <<vars, elf, todo, replied>>

\* Bug variant: hello_world does not check the second call's result.
SecondCallUnchecked ==
  SdkCallUnchecked("call2", "wait2", "log2") /\ UNCHANGED <<elf, todo>>

\* hello_world: second call, "which will do attestation".
SecondCall == SdkCall("call2", "wait2", "log2") /\ UNCHANGED <<elf, todo>>

\* hello_world: log the second reply and hand it to tychools.
LogSecondReply ==
  /\ cpc = "log2" /\ cpc' = "delete"
  /\ UNCHANGED <<vars, elf, todo, replied>>

(* hello_world: sdk_delete_domain closes the descriptor (the segment stays *)
(* mapped until exit); a failure goes to the failure label.                *)
DeleteDomain ==
  /\ cpc = "delete"
  /\ \/ CloseFd(MainFile) /\ cpc' = "done"
     \/ cpc' = "fail" /\ UNCHANGED vars
  /\ UNCHANGED <<elf, todo, replied>>

(* main returns SUCCESS or FAILURE and the process exits: the kernel drops *)
(* its mapping and closes the descriptor if main left it open.             *)
MainExit ==
  /\ cpc \in {"done", "fail"}
  /\ pc[MainThread] = "idle"
  /\ mapped' = [mapped EXCEPT ![MainFile] = FALSE]
  /\ file' = [file EXCEPT ![MainFile] = IF @ = "open" THEN "closing" ELSE @]
  /\ cpc' = "exited"
  /\ UNCHANGED <<fdom, dstate, config, rt, yields, inside, pc, tfile, ret>>
  /\ UNCHANGED <<elf, todo, replied>>

MainStep ==
  \/ MainMalloc \/ CreateDomain \/ MainLookup \/ FirstCall \/ LogFirstReply
  \/ SecondCall \/ LogSecondReply \/ DeleteDomain \/ MainExit

-----------------------------------------------------------------------------
(* Other processes: any request on their own files.                        *)
OtherNext ==
  /\ \/ \E f \in Files \ {MainFile} :
          TycheOpen(f) \/ CloseFd(f) \/ TycheMmap(f) \/ Munmap(f)
     \/ \E t \in Threads \ {MainThread}, f \in Files \ {MainFile} :
          \/ IoctlGetPhysOffset(t, f) \/ IoctlCommit(t, f)
          \/ IoctlMprotect(t, f) \/ IoctlTransitionFail(t, f)
          \/ IoctlTransition(t, f) \/ IoctlUnknown(t, f)
     \/ \E t \in Threads \ {MainThread} : SwitchReturn(t)
  /\ UNCHANGED appVars

(* A domain's runtime step.  The entry logic writes its reply into the     *)
(* shared buffer before each gate call; trusted_main's fall-through into   *)
(* the exit call writes nothing.                                           *)
DomainStep(d) ==
  /\ \/ (EntryGateCall(d) \/ MainGateCall(d))
        /\ replied' = (replied \/ d = fdom[MainFile])
     \/ (TrustedMain(d) \/ MainFallThrough(d)) /\ UNCHANGED replied
  /\ UNCHANGED <<cpc, elf, todo>>

AppNext ==
  \/ MainStep
  \/ OtherNext
  \/ \E f \in Files : TycheRelease(f) /\ UNCHANGED appVars
  \/ \E d \in Domains : DomainStep(d)

(* main is a running program, the VFS releases a file with no references   *)
(* left, and a running domain's code keeps running.                        *)
AppFairness ==
  /\ WF_allVars(MainStep)
  /\ \A f \in Files : WF_allVars(TycheRelease(f) /\ UNCHANGED appVars)
  /\ \A d \in Domains : WF_allVars(DomainStep(d))

AppSpec == AppInit /\ [][AppNext]_allVars
AppFairSpec == AppSpec /\ AppFairness

-----------------------------------------------------------------------------
(* The reply hello_world logs after a call that returned SUCCESS was       *)
(* written by the domain during that call (spec 8: "a reply payload        *)
(* written into the shared buffer by the domain's entry logic is visible   *)
(* to the caller after return").                                           *)
ReplyFresh ==
  cpc \in {"log1", "log2"} => replied

(* The only way hello_world logs a reply the domain did not write during   *)
(* the call is that the call ended in trusted_main's fall-through exit:    *)
(* every call refused by the driver or the monitor is caught by the        *)
(* SUCCESS checks, and every gate return publishes a reply.                *)
ReplyStaleOnlyAfterExit ==
  (cpc \in {"log1", "log2"} /\ ~replied) => dstate[fdom[MainFile]] = "exited"

(* Whatever path main takes (success, any failure that skips               *)
(* sdk_delete_domain, a domain that exits under it), the process ends and  *)
(* its session is released: the domain slot does not leak.                 *)
MainLeavesNoDomain ==
  <>[](cpc = "exited" /\ file[MainFile] = "unused")
=============================================================================
