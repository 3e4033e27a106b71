------------------------------ MODULE TycheDriver ------------------------------
(***************************************************************************)
(* The tyche kernel driver (src/C/drivers/tyche/src/ioctl.c) together     *)
(* with the monitor's domain lifecycle and the trusted runtime gate that   *)
(* runs inside a domain (src/C/libraries/sdktyche/runtime/lib.c).          *)
(*                                                                         *)
(* Actors: user threads issuing open/ioctl/mmap/close on tyche files, the  *)
(* kernel's VFS calling release once the last reference to a file is       *)
(* gone, and each domain's code executing after a switch.  Each file is    *)
(* bound by tyche_open to one domain; a TRANSITION ioctl blocks its thread *)
(* while the domain runs, until the domain's gate call (or its exit) hands *)
(* control back.                                                           *)
(*                                                                         *)
(* The enclave layer the handlers call (create_enclave, commit_enclave,    *)
(* mprotect_enclave, switch_enclave, delete_enclave, mmap_segment) is not  *)
(* part of the source tree; its effect is modelled from spec sections 4.2  *)
(* and 4.4.  Each of those calls is atomic here: the spec requires the     *)
(* session layer to serialize requests against one handle.                 *)
(***************************************************************************)
EXTENDS Naturals, FiniteSets

CONSTANTS
  Files,      \* struct file objects that may be opened on /dev/tyche
  Threads,    \* user threads issuing requests
  Domains,    \* the monitor's domain slots (management capabilities)
  Regions,    \* mprotect arguments {start, size, flags, tpe}, abstracted
  MaxYields,  \* bound on gate calls trusted_entry makes before returning
  NoDomain,   \* a file with no enclave bound
  NoThread,   \* no thread executing inside a domain
  NoFile      \* a thread that has not issued a request yet

ASSUME DriverAssumption ==
  /\ MaxYields \in Nat
  /\ NoDomain \notin Domains
  /\ NoThread \notin Threads
  /\ NoFile \notin Files

VARIABLES
  file,     \* file[f]: "unused" | "open" (fd installed) | "closing" (fd closed, release pending)
  fdom,     \* fdom[f]: the domain create_enclave bound to f
  mapped,   \* mapped[f]: a vma maps f's segment (and so holds a reference to f)
  dstate,   \* dstate[d]: monitor-side lifecycle state of domain d
  config,   \* config[d]: regions mprotect_enclave attached to d
  rt,       \* rt[d]: control point of the trusted runtime inside d
  yields,   \* yields[d]: gate calls trusted_entry has made so far
  inside,   \* inside[d]: the thread whose switch is executing d
  pc,       \* pc[t]: "idle" | "switching" (blocked in switch_enclave) | "resumed"
  tfile,    \* tfile[t]: the file of t's current or last request
  ret       \* ret[t]: what t's last request returned to user space

vars == <<file, fdom, mapped, dstate, config, rt, yields, inside, pc, tfile, ret>>

LC == INSTANCE DomainLifecycle WITH lstate <- dstate

FileStates == {"unused", "open", "closing"}
RtPoints   == {"start", "entry", "final"}
\* "start": trusted_main not yet called; "entry": inside trusted_entry;
\* "final": blocked in the gate_call at the end of trusted_main.

TypeOK ==
  /\ file \in [Files -> FileStates]
  /\ fdom \in [Files -> Domains \cup {NoDomain}]
  /\ mapped \in [Files -> BOOLEAN]
  /\ dstate \in [Domains -> LC!States]
  /\ config \in [Domains -> SUBSET Regions]
  /\ rt \in [Domains -> RtPoints]
  /\ yields \in [Domains -> 0..MaxYields]
  /\ inside \in [Domains -> Threads \cup {NoThread}]
  /\ pc \in [Threads -> {"idle", "switching", "resumed"}]
  /\ tfile \in [Threads -> Files \cup {NoFile}]
  /\ ret \in [Threads -> {"none", "ok", "fail"}]

Init ==
  /\ file = [f \in Files |-> "unused"]
  /\ fdom = [f \in Files |-> NoDomain]
  /\ mapped = [f \in Files |-> FALSE]
  /\ dstate = [d \in Domains |-> "free"]
  /\ config = [d \in Domains |-> {}]
  /\ rt = [d \in Domains |-> "start"]
  /\ yields = [d \in Domains |-> 0]
  /\ inside = [d \in Domains |-> NoThread]
  /\ pc = [t \in Threads |-> "idle"]
  /\ tfile = [t \in Threads |-> NoFile]
  /\ ret = [t \in Threads |-> "none"]

\* A thread is inside one of f's handlers (it holds a reference to f).
InRequest(f) == \E t \in Threads : pc[t] # "idle" /\ tfile[t] = f

\* A request of t on f is answered at once with result r.
Answer(t, f, r) ==
  /\ tfile' = [tfile EXCEPT ![t] = f]
  /\ ret' = [ret EXCEPT ![t] = r]

-----------------------------------------------------------------------------
(* tyche_open: create_enclave(file) obtains a fresh domain from the        *)
(* monitor and binds it to the file.  When the monitor has no free slot    *)
(* create_enclave fails and open returns FAILURE without changing state.   *)
TycheOpen(f) ==
  /\ file[f] = "unused"
  /\ \E d \in Domains :
       /\ dstate[d] = "free"
       /\ dstate' = [dstate EXCEPT ![d] = "created"]
       /\ config' = [config EXCEPT ![d] = {}]
       /\ rt' = [rt EXCEPT ![d] = "start"]
       /\ yields' = [yields EXCEPT ![d] = 0]
       /\ fdom' = [fdom EXCEPT ![f] = d]
  /\ file' = [file EXCEPT ![f] = "open"]
  /\ UNCHANGED <<mapped, inside, pc, tfile, ret>>

\* The process closes its descriptor (close(2), or exit): no new request can
\* be issued on f; release waits for every remaining reference.
CloseFd(f) ==
  /\ file[f] = "open"
  /\ file' = [file EXCEPT ![f] = "closing"]
  /\ UNCHANGED <<fdom, mapped, dstate, config, rt, yields, inside, pc, tfile, ret>>

\* Bug variant: delete_enclave fails and the teardown stops before revoking.
ReleaseKeepsDomain(f) ==
  /\ file[f] = "closing"
  /\ ~InRequest(f)
  /\ ~mapped[f]
  /\ fdom' = [fdom EXCEPT ![f] = NoDomain]
  /\ file' = [file EXCEPT ![f] = "unused"]
  /\ UNCHANGED <<mapped, dstate, config, rt, yields, inside, pc, tfile, ret>>

(* tyche_close, called by the VFS when the last reference to f is dropped: *)
(* no request in flight on f and no vma mapping it.  delete_enclave        *)
(* revokes the domain whatever its state (spec 7: teardown proceeds even   *)
(* when a sub-step fails); the VFS ignores the value release returns.      *)
TycheRelease(f) ==
  /\ file[f] = "closing"
  /\ ~InRequest(f)
  /\ ~mapped[f]
  /\ dstate' = [dstate EXCEPT ![fdom[f]] = "free"]
  /\ fdom' = [fdom EXCEPT ![f] = NoDomain]
  /\ file' = [file EXCEPT ![f] = "unused"]
  /\ UNCHANGED <<mapped, config, rt, yields, inside, pc, tfile, ret>>

-----------------------------------------------------------------------------
(* tyche_ioctl.  Every case but GET_PHYSOFFSET first copies its payload in *)
(* (copyOk) and fails before touching the enclave when the copy fails.     *)

\* GET_PHYSOFFSET: read-only query, then copy_to_user, which may fail.
IoctlGetPhysOffset(t, f) ==
  /\ pc[t] = "idle" /\ file[f] = "open"
  /\ \E r \in {"ok", "fail"} : Answer(t, f, r)
  /\ UNCHANGED <<file, fdom, mapped, dstate, config, rt, yields, inside, pc>>

\* Bug variant: commit_enclave seals a domain that was never configured.
CommitUnconfigured(t, f) ==
  /\ pc[t] = "idle" /\ file[f] = "open"
  /\ \E copyOk \in BOOLEAN :
       IF copyOk /\ dstate[fdom[f]] \in {"created", "configured"}
         THEN /\ dstate' = [dstate EXCEPT ![fdom[f]] = "sealed"]
              /\ Answer(t, f, "ok")
         ELSE /\ UNCHANGED dstate
              /\ Answer(t, f, "fail")
  /\ UNCHANGED <<file, fdom, mapped, config, rt, yields, inside, pc>>

\* COMMIT: commit_enclave seals the domain; only a configured domain seals.
IoctlCommit(t, f) ==
  /\ pc[t] = "idle" /\ file[f] = "open"
  /\ \E copyOk \in BOOLEAN :
       IF copyOk /\ dstate[fdom[f]] = "configured"
         THEN /\ dstate' = [dstate EXCEPT ![fdom[f]] = "sealed"]
              /\ Answer(t, f, "ok")
         ELSE /\ UNCHANGED dstate
              /\ Answer(t, f, "fail")
  /\ UNCHANGED <<file, fdom, mapped, config, rt, yields, inside, pc>>

\* Bug variant: mprotect_enclave applies the region whatever the state.
MprotectRegionAfterSeal(t, f, r) ==
  /\ pc[t] = "idle" /\ file[f] = "open"
  /\ \E copyOk \in BOOLEAN :
       IF copyOk
         THEN /\ dstate' = [dstate EXCEPT ![fdom[f]] =
                              IF @ = "created" THEN "configured" ELSE @]
              /\ config' = [config EXCEPT ![fdom[f]] = @ \cup {r}]
              /\ Answer(t, f, "ok")
         ELSE /\ UNCHANGED <<dstate, config>>
              /\ Answer(t, f, "fail")
  /\ UNCHANGED <<file, fdom, mapped, rt, yields, inside, pc>>

\* MPROTECT of region r: mprotect_enclave attaches r; rejected once sealed.
MprotectRegion(t, f, r) ==
  /\ pc[t] = "idle" /\ file[f] = "open"
  /\ \E copyOk \in BOOLEAN :
       IF copyOk /\ dstate[fdom[f]] \in {"created", "configured"}
         THEN /\ dstate' = [dstate EXCEPT ![fdom[f]] = "configured"]
              /\ config' = [config EXCEPT ![fdom[f]] = @ \cup {r}]
              /\ Answer(t, f, "ok")
         ELSE /\ UNCHANGED <<dstate, config>>
              /\ Answer(t, f, "fail")
  /\ UNCHANGED <<file, fdom, mapped, rt, yields, inside, pc>>

\* MPROTECT with whatever payload the caller copies in.
IoctlMprotect(t, f) == \E r \in Regions : MprotectRegion(t, f, r)

\* TRANSITION whose copy fails, or whose switch_enclave is refused: only a
\* sealed or suspended domain may be entered, never one already running.
IoctlTransitionFail(t, f) ==
  /\ pc[t] = "idle" /\ file[f] = "open"
  /\ \E copyOk \in BOOLEAN :
       ~(copyOk /\ dstate[fdom[f]] \in {"sealed", "suspended"})
  /\ Answer(t, f, "fail")
  /\ UNCHANGED <<file, fdom, mapped, dstate, config, rt, yields, inside, pc>>

\* Bug variant: switch_enclave does not refuse a domain already running.
TransitionWhileRunning(t, f) ==
  /\ pc[t] = "idle" /\ file[f] = "open"
  /\ dstate[fdom[f]] \in {"sealed", "suspended", "running"}
  /\ dstate' = [dstate EXCEPT ![fdom[f]] = "running"]
  /\ inside' = [inside EXCEPT ![fdom[f]] = t]
  /\ pc' = [pc EXCEPT ![t] = "switching"]
  /\ tfile' = [tfile EXCEPT ![t] = f]
  /\ UNCHANGED <<file, fdom, mapped, config, rt, yields, ret>>

\* TRANSITION whose switch_enclave enters the domain: t blocks in the call.
IoctlTransition(t, f) ==
  /\ pc[t] = "idle" /\ file[f] = "open"
  /\ dstate[fdom[f]] \in {"sealed", "suspended"}
  /\ dstate' = [dstate EXCEPT ![fdom[f]] = "running"]
  /\ inside' = [inside EXCEPT ![fdom[f]] = t]
  /\ pc' = [pc EXCEPT ![t] = "switching"]
  /\ tfile' = [tfile EXCEPT ![t] = f]
  /\ UNCHANGED <<file, fdom, mapped, config, rt, yields, ret>>

\* Any other command: "The command is not valid!".
IoctlUnknown(t, f) ==
  /\ pc[t] = "idle" /\ file[f] = "open"
  /\ Answer(t, f, "fail")
  /\ UNCHANGED <<file, fdom, mapped, dstate, config, rt, yields, inside, pc>>

\* switch_enclave has returned into tyche_ioctl, which returns to user space.
SwitchReturn(t) ==
  /\ pc[t] = "resumed"
  /\ pc' = [pc EXCEPT ![t] = "idle"]
  /\ UNCHANGED <<file, fdom, mapped, dstate, config, rt, yields, inside, tfile, ret>>

-----------------------------------------------------------------------------
(* tyche_mmap -> mmap_segment: maps the domain's segment into the caller;  *)
(* fails (no state change) unless the domain has been committed.  The vma  *)
(* keeps a reference to the file until it is unmapped.                     *)
\* Bug variant: mmap_segment maps the segment before COMMIT.
MmapUncommitted(f) ==
  /\ file[f] = "open"
  /\ mapped' = [mapped EXCEPT ![f] = TRUE]
  /\ UNCHANGED <<file, fdom, dstate, config, rt, yields, inside, pc, tfile, ret>>

TycheMmap(f) ==
  /\ file[f] = "open"
  /\ dstate[fdom[f]] \in LC!SealedStates
  /\ mapped' = [mapped EXCEPT ![f] = TRUE]
  /\ UNCHANGED <<file, fdom, dstate, config, rt, yields, inside, pc, tfile, ret>>

\* munmap(2) or process exit drops the vma and its reference to f.
Munmap(f) ==
  /\ mapped[f]
  /\ mapped' = [mapped EXCEPT ![f] = FALSE]
  /\ UNCHANGED <<file, fdom, dstate, config, rt, yields, inside, pc, tfile, ret>>

-----------------------------------------------------------------------------
(* The trusted runtime inside a running domain d.                          *)

\* The caller blocked in d's switch is handed back control with result r.
ResumeCaller(d, r) ==
  /\ inside' = [inside EXCEPT ![d] = NoThread]
  /\ pc' = [pc EXCEPT ![inside[d]] = "resumed"]
  /\ ret' = [ret EXCEPT ![inside[d]] = r]

\* First entry: trusted_main builds the frame and calls trusted_entry.
TrustedMain(d) ==
  /\ dstate[d] = "running" /\ rt[d] = "start"
  /\ rt' = [rt EXCEPT ![d] = "entry"]
  /\ UNCHANGED <<file, fdom, mapped, dstate, config, yields, inside, pc, tfile, ret>>

\* trusted_entry calls gate_call to return to its caller before it is done;
\* the next switch resumes it inside trusted_entry.
EntryGateCall(d) ==
  /\ dstate[d] = "running" /\ rt[d] = "entry"
  /\ yields[d] < MaxYields
  /\ yields' = [yields EXCEPT ![d] = @ + 1]
  /\ dstate' = [dstate EXCEPT ![d] = "suspended"]
  /\ ResumeCaller(d, "ok")
  /\ UNCHANGED <<file, fdom, mapped, config, rt, tfile>>

\* trusted_entry returns; trusted_main issues its own gate_call(&frame).
MainGateCall(d) ==
  /\ dstate[d] = "running" /\ rt[d] = "entry"
  /\ rt' = [rt EXCEPT ![d] = "final"]
  /\ dstate' = [dstate EXCEPT ![d] = "suspended"]
  /\ ResumeCaller(d, "ok")
  /\ UNCHANGED <<file, fdom, mapped, config, yields, tfile>>

\* Bug variant: trusted_main falls through with no exit call; the domain
\* keeps the core and its caller never gets control back.
FallThroughNoExit(d) ==
  /\ dstate[d] = "running" /\ rt[d] = "final"
  /\ UNCHANGED vars

(* A later switch makes that gate_call return: trusted_main returns        *)
(* ("Should never return, if we do, an exit call happens") and the exit    *)
(* call ends the domain.  What switch_enclave reports for an exit is not   *)
(* in the source tree: either result is allowed.                           *)
MainFallThrough(d) ==
  /\ dstate[d] = "running" /\ rt[d] = "final"
  /\ dstate' = [dstate EXCEPT ![d] = "exited"]
  /\ \E r \in {"ok", "fail"} : ResumeCaller(d, r)
  /\ UNCHANGED <<file, fdom, mapped, config, rt, yields, tfile>>

-----------------------------------------------------------------------------
UserNext ==
  \/ \E f \in Files :
       TycheOpen(f) \/ CloseFd(f) \/ TycheMmap(f) \/ Munmap(f)
  \/ \E t \in Threads, f \in Files :
       \/ IoctlGetPhysOffset(t, f) \/ IoctlCommit(t, f)
       \/ IoctlMprotect(t, f) \/ IoctlTransitionFail(t, f)
       \/ IoctlTransition(t, f) \/ IoctlUnknown(t, f)

DomainNext(d) ==
  TrustedMain(d) \/ EntryGateCall(d) \/ MainGateCall(d) \/ MainFallThrough(d)

Next ==
  \/ UserNext
  \/ \E f \in Files : TycheRelease(f)
  \/ \E t \in Threads : SwitchReturn(t)
  \/ \E d \in Domains : DomainNext(d)

(* Users may stop at any time; the kernel and the domains may not: the VFS *)
(* calls release once the last reference is gone, a thread returning from  *)
(* switch_enclave is scheduled, and a running domain's code keeps running  *)
(* (trusted_entry is assumed to terminate, which MaxYields bounds).        *)
Fairness ==
  /\ \A f \in Files : WF_vars(TycheRelease(f))
  /\ \A t \in Threads : WF_vars(SwitchReturn(t))
  /\ \A d \in Domains : WF_vars(DomainNext(d))

Spec == Init /\ [][Next]_vars
FairSpec == Spec /\ Fairness

-----------------------------------------------------------------------------
(***************************************************************************)
(* Properties.                                                             *)
(***************************************************************************)

(* At most one thread executes inside a domain, and the domain is running  *)
(* exactly while that thread is blocked in its TRANSITION request on the   *)
(* file bound to the domain.  A second TRANSITION racing on the same file  *)
(* (unlocked_ioctl takes no lock) must be refused by switch_enclave, and   *)
(* every gate call or exit must hand control back to that very thread.     *)
OneCallerInside ==
  /\ \A d \in Domains : (dstate[d] = "running") <=> (inside[d] # NoThread)
  /\ \A d \in Domains : inside[d] # NoThread =>
        /\ pc[inside[d]] = "switching"
        /\ tfile[inside[d]] \in Files
        /\ fdom[tfile[inside[d]]] = d
  /\ \A t \in Threads : pc[t] = "switching" =>
        /\ tfile[t] \in Files
        /\ fdom[tfile[t]] \in Domains
        /\ inside[fdom[tfile[t]]] = t

(* Each live domain is owned by exactly one file, and a file owns a live   *)
(* domain exactly from tyche_open until tyche_close: a closed session      *)
(* never leaks its management capability and a reopened file never        *)
(* shares a domain with another session (spec 3, "Exactly one open        *)
(* handle owns a given domain's management capability").                   *)
SessionOwnership ==
  /\ \A f \in Files : (file[f] = "unused") <=> (fdom[f] = NoDomain)
  /\ \A f \in Files : fdom[f] # NoDomain => dstate[fdom[f]] # "free"
  /\ \A d \in Domains : dstate[d] # "free" =>
        \E f \in Files : /\ fdom[f] = d
                         /\ \A g \in Files \ {f} : fdom[g] # d

(* A segment mapped into a process always belongs to a committed domain    *)
(* that has not been deleted: neither mmap before COMMIT nor a release     *)
(* racing with a live mapping exposes memory of an unsealed or revoked     *)
(* domain.                                                                 *)
MappedSegmentLive ==
  \A f \in Files : mapped[f] =>
     /\ fdom[f] # NoDomain
     /\ dstate[fdom[f]] \in LC!SealedStates

(* Once a domain is committed, no request changes the regions attached to  *)
(* it (spec 4.2: configuration after seal is rejected, never applied).     *)
SealedConfigFrozen ==
  [][\A d \in Domains :
       dstate[d] \in LC!SealedStates => config'[d] = config[d]]_vars

(* The domain states the driver produces follow the monitor's lifecycle:   *)
(* no switch before seal, no seal before configuration, no re-entry of an  *)
(* exited domain.                                                          *)
LifecycleRefined == LC!LSpec

(* Every TRANSITION that enters a domain eventually returns to user space: *)
(* the gate hands control back, or trusted_main's fall-through ends in the *)
(* exit call, never in a domain that keeps the caller blocked.             *)
SwitchCompletes ==
  \A t \in Threads : pc[t] = "switching" ~> pc[t] = "idle"

(* A session whose descriptor is closed and whose segment is unmapped is   *)
(* eventually released and its domain deleted (the leak backstop of 4.4).  *)
ClosedSessionReleased ==
  \A f \in Files : (file[f] = "closing" /\ ~mapped[f]) ~> file[f] = "unused"
=============================================================================
