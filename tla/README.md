# TLA+ verification of the tyche driver, domain lifecycle, trusted runtime, example client and capability algebra

This directory holds TLA+ models of the C sources under `src/C`, the TLC
configurations that check them, and TLAPS proofs. It covers the part of tyche
that manages enclaves: the kernel driver, the domain lifecycle it drives in the
monitor, the trusted runtime gate that runs inside a domain, the example
application that drives them, and the monitor's capability table as
`tyche_api.h` exposes it.

## 1. Inventory

### Components

| Component | Source | State it keeps | Operations |
|---|---|---|---|
| Session Manager (kernel driver) | `src/C/drivers/tyche/src/ioctl.c` | the char device (`dev`, `tyche_cdev`, `dev_class`); per open file, the enclave bound to it (kept by the enclave layer) | `tyche_register`, `tyche_unregister`, `tyche_open`, `tyche_close`, `tyche_ioctl` (GET_PHYSOFFSET, COMMIT, MPROTECT, TRANSITION, default), `tyche_mmap` |
| Enclave layer (`enclaves.c`, not in the tree) | called from `ioctl.c` | the enclave list, each enclave's domain capability, its regions and its mapping | `init_enclaves`, `create_enclave`, `delete_enclave`, `commit_enclave`, `mprotect_enclave`, `switch_enclave`, `get_physoffset_enclave`, `mmap_segment` |
| Domain Lifecycle (monitor) | spec 4.2; operation ids in `tyche_api.h` | per domain: created / configured / sealed / running / suspended / exited, and its configuration | create, set_cores, set_traps, seal, switch, exit, revoke |
| Trusted Runtime Gate | `src/C/libraries/sdktyche/runtime/lib.c`, `src/C/libraries/tyche-trusted-runtime/runtime/lib.c` | the frame `{ret_handle, args}`; where the domain's code stands (before `trusted_main`, inside `trusted_entry`, in the final `gate_call`) | `trusted_main`, `gate_call`, `get_default_shared_buffer` |
| Call Frame Codec | `src/C/libraries/capabilities/include/tyche_api.h` | none: `vmcall_frame_t` is built for each call | `tyche_call` and the typed wrappers (only declared in the tree) |
| Capability Algebra (monitor) | prototypes in `tyche_api.h` | the monitor's capability table | segment, share, send, revoke, duplicate, enumerate |
| Example untrusted application | `src/C/libraries/sdktyche/example/enclave_rot_riscv/untrusted/main.c` | `enclave`, `shared` | `main`, `find_default_shared`, `hello_world` |
| TLS server profile | `src/C/debug/test-bearssl/.../custom_profile.c` | static key and certificate data | `custom_server_profile` |

### How they interact

User threads call `open`, `ioctl`, `mmap` and `close` on `/dev/tyche`. The VFS
dispatches them to the driver's handlers. The handlers call the enclave layer,
which issues monitor calls through the call frame codec. TRANSITION blocks the
calling thread in `switch_enclave` while the domain runs. Inside the domain,
`trusted_main` calls the application's `trusted_entry`. The application may call
`gate_call` to hand control back before it is done. When `trusted_entry`
returns, `trusted_main` makes its own `gate_call`. If a later switch makes that
`gate_call` return, `trusted_main` falls through, and the entry stub issues the
exit call. The VFS calls `tyche_close` (release) only when the last reference to
the file is gone. In-flight requests and vmas of `tyche_mmap` hold such
references.

### What is hard

- **Concurrency.** `tyche_ioctl` is an `unlocked_ioctl` and takes no lock.
  Threads that share a descriptor can race TRANSITION against TRANSITION, or
  MPROTECT against COMMIT, on one domain.
- **Blocking.** A switch blocks its caller until the domain gives control back.
  Another thread may enter the domain between the gate call and the first
  caller's return to user space.
- **Teardown.** Release is deferred by in-flight requests and by mappings. The
  value release returns is ignored. Release is the only leak backstop when a
  process dies.
- **Partial failure.** `copy_from_user` and `copy_to_user` may fail, the
  monitor may be out of domains, `delete_enclave` may fail, and the kernel
  constructors in `tyche_register` may fail.
- **The gate's one-shot continuation.** `trusted_main` "should never return".
  When it does, only the exit call keeps the caller from blocking forever.

### What makes each component correct

- Driver: at most one caller inside a domain; each live domain owned by exactly
  one session; no leak after close; no mapping of an unsealed or deleted
  domain; configuration frozen after commit; registration is all-or-nothing.
- Lifecycle: no switch before seal, no seal before configuration, no re-entry
  after exit.
- Gate: every switch ends in a gate return or an exit.
- Example application: a reply it logs was written during its own call, and
  every path out of `main` releases its domain.
- Capability algebra: segment and send never leave two live indices on one
  page (only share and duplicate do), revoke is transitive, and no domain
  exceeds `CAPAS_PER_DOMAIN`.

The hazards these properties answer are listed, each at its line, under
`hazards` in `PROJECT.json`.

## 2. Modules

| Module | Models | Notes |
|---|---|---|
| `DomainLifecycle` | the monitor's lifecycle (spec 4.2) | Abstract specification. `free` stands for both Uninitialized and Terminated, because a deleted slot can be handed out again. |
| `TycheDriver` | `ioctl.c` open/close/ioctl/mmap, the enclave layer's effect, and the trusted runtime gate | Refines `DomainLifecycle` through `LC == INSTANCE DomainLifecycle WITH lstate <- dstate`. |
| `MC_TycheDriver` | instantiation for TLC | model values for files, threads, domains and regions; symmetry |
| `DriverRegister` | `tyche_register` / `tyche_unregister` | Models the kernel constructors' error-pointer convention. |
| `TycheDriverProofs` | TLAPS proofs about `TycheDriver` | |
| `HelloWorldAppProofs` | TLAPS proofs about `HelloWorldApp` | EXTENDS `HelloWorldApp` and `TycheDriverProofs`. |
| `HelloWorldApp` | `main`, `find_default_shared`, `hello_world` of `enclave_rot_riscv/untrusted/main.c`, with the SDK calls they make | EXTENDS `TycheDriver`: the client's actions are conjoined with the driver's. |
| `MC_HelloWorldApp` | instantiation for TLC | |
| `CapabilityAlgebra` | `tyche_segment_region`, `tyche_share`, `tyche_send`, `tyche_duplicate`, `tyche_revoke` and `CAPAS_PER_DOMAIN` of `tyche_api.h` | The monitor's side (`domain.rs`) is not in the tree; its effects are from spec 3, 4.1 and 4.3. |
| `MC_CapabilityAlgebra` | instantiation for TLC | |
| `CapabilityAlgebraProofs` | TLAPS proofs about `CapabilityAlgebra` | |

### How `TycheDriver` corresponds to the code

State:

| Variable | Meaning |
|---|---|
| `file[f]` | `unused`, `open` (descriptor installed) or `closing` (descriptor closed, release pending) |
| `fdom[f]` | the domain `create_enclave` bound to `f` |
| `mapped[f]` | a vma of `tyche_mmap` exists |
| `dstate[d]`, `config[d]` | the monitor's lifecycle state and the regions attached by MPROTECT |
| `rt[d]`, `yields[d]` | where the trusted runtime stands in `d` |
| `inside[d]` | the thread whose switch is running `d` |
| `pc[t]`, `tfile[t]`, `ret[t]` | a thread's progress through `tyche_ioctl` and what the call returned |

Actions:

- `TycheOpen` is `tyche_open`.
- `TycheRelease` is `tyche_close`. It always frees the domain. `delete_enclave`
  is not in the tree, and spec 7 requires teardown to proceed when a sub-step
  fails. So a failing deletion (the FAILURE branch at `ioctl.c:109-111`) is
  assumed away here, not checked. `SessionOwnership` and
  `ClosedSessionReleased` catch a teardown that stops on that failure: the
  `ReleaseKeepsDomain` mutant shows it.
- `IoctlGetPhysOffset`, `IoctlCommit`, `IoctlMprotect`, `IoctlTransition`,
  `IoctlTransitionFail` and `IoctlUnknown` are the cases of `tyche_ioctl`. The
  failure of `copy_from_user` is a `copyOk` choice made before the enclave is
  touched. `IoctlUnknown` is the `default:` case. `Answer` is the exit every
  case shares (`return SUCCESS`, or `goto failure` and `return FAILURE`),
  which records the result the calling thread sees.
- `SwitchReturn` is the return of `tyche_ioctl` after `switch_enclave`.
- `TycheMmap` is `tyche_mmap`.
- `TrustedMain`, `EntryGateCall`, `MainGateCall` and `MainFallThrough` are the
  trusted runtime.
- `CloseFd` and `Munmap` are user and kernel events. They are not code of this
  repository.

The enclave-layer calls are not in the tree. They are modelled from spec 4.2
and 4.4 (`spec_modelled` in the map), and each one is atomic, as spec 4.4
requires the session layer to serialize requests on a handle. A failed `open`
(no free domain) changes no state, so it appears only as `TycheOpen` being
disabled. The source does not say what `switch_enclave` returns when the domain
exits, so both results are allowed.

### How `HelloWorldApp` corresponds to the code

`cpc` is where `main` stands. `elf` is the set of segments of the enclave
binary, and `todo` the ones `sdk_create_domain` has not MPROTECTed yet.
`replied` is a history variable: the domain of `MainFile` made a gate call
(and so wrote its reply into the shared buffer) since `main` last switched in.

- `MainMalloc`, `MainLookup` (with `FindDefaultShared`) and `MainExit` are
  `main`. `MainExit` is the return from `main` followed by the kernel's
  teardown: the vma is dropped and the descriptor closed, which lets
  `TycheRelease` delete the domain.
- `CreateDomain` is the call of `sdk_create_domain` and its check. It is made
  of `SdkOpen`, `SdkMprotect`, `SdkCommit` and `SdkMmap`, each one driver
  request by `MainThread` on `MainFile`. Any failure sends `main` to `failure`.
- `FirstCall`, `LogFirstReply`, `SecondCall`, `LogSecondReply` and
  `DeleteDomain` are `hello_world`. `SdkCall` is `sdk_call_domain`: a
  TRANSITION, refused at once or blocking until `SwitchReturn`, followed by
  the `!= SUCCESS` test. The tychools helpers are file I/O and are left out.
- `OtherNext` lets other processes, on other files and threads, use the
  driver and take domain slots.
- `DomainStep` is the domain's runtime. Every gate call is preceded by the
  entry logic writing its reply. The fall-through exit writes nothing.

### How `CapabilityAlgebra` corresponds to the code

`table[i]` is the monitor's entry for capability index `i` (0 is
`TYCHE_CAPA_NULL` and never used). An entry has a status (free, valid,
consumed, revoked), an owner, a page range `[lo, hi)`, the indices it was
derived from (`anc`), and the call that made it (`via`). Each wrapper of
`tyche_api.h` is one action:

- `SegmentRegion` consumes its argument and makes two valid halves.
- `Share` gives `dest` a new index on the same range, and the caller keeps
  its own.
- `Send` moves the range to `dest` under a new index and consumes the
  sender's.
- `Duplicate` makes a second index of the caller with the same derivation.
- `Revoke` invalidates the argument and every entry derived from it.

A call that fails changes nothing (spec 4.1), so failures are stutters. Which
free slot the monitor allocates is not in the tree, so any free slot may be
chosen. Slots are never reused, so an old index stays stale. `Room` is the
`CAPAS_PER_DOMAIN` check, made against the domain that receives the new
capability.

## 3. Runs

| Run | Config | Checks | Shows |
|---|---|---|---|
| `driver_safety` | `MC_TycheDriver_safety.cfg` | `OneCallerInside`, `SessionOwnership`, `MappedSegmentLive`, `SealedConfigFrozen` | The properties hold over all interleavings of two threads on two files competing for two domain slots (226k distinct states). |
| `driver_liveness` | `MC_TycheDriver_live.cfg` | `SwitchCompletes`, `ClosedSessionReleased` | Every TRANSITION returns, and every closed, unmapped session is released. |
| `driver_refines_lifecycle` | `MC_TycheDriver_refine.cfg` | `LifecycleRefined` (`LC!LSpec`) | Every driver step is a lifecycle step or a stutter. |
| `app_reply_safety` | `MC_HelloWorldApp_safety.cfg` | `ReplyStaleOnlyAfterExit` | `hello_world` logs a reply the domain did not write during that call only when the call ended in `trusted_main`'s fall-through exit. Every refused call is caught by a SUCCESS check, and every gate return publishes a reply. The run has another process competing for the one domain slot. |
| `app_reply_fresh` | `MC_HelloWorldApp_fresh.cfg` | `ReplyFresh` | **Violation, a spec gap.** The first call returns through a gate. The second call resumes `trusted_main`'s final `gate_call`, which falls through into the exit call. `switch_enclave` returns SUCCESS, and `hello_world` logs and hands tychools the first call's reply (`main.c:133`). |
| `app_no_leak` | `MC_HelloWorldApp_live.cfg` | `MainLeavesNoDomain` | Every path out of `main` ends with the process exited and its file released. This covers the early `goto failure` exits that skip `sdk_delete_domain`. |
| `cap_algebra` | `MC_CapabilityAlgebra.cfg` | `ExclusiveUnlessShared`, `RevokeTransitive`, `WithinQuota` | Over two domains, three pages, five slots and a quota of two, these hold for every sequence of calls. |
| `register_errptr` | `DriverRegister.cfg` | `RegisteredImpliesDevice` | **Violation, a code bug.** `tyche_register` tests `class_create(...) == NULL` and `device_create(...) == NULL`. Both kernel functions report failure with `ERR_PTR`, never NULL. Registration therefore returns SUCCESS without a device, and the `r_device`/`r_class` unwinding never runs. |

### Bounds

Two files and two domain slots let a slot be freed by one session and reused by
the other, and let open fail for lack of a slot. Two threads let two requests
race on one file, including a TRANSITION while another thread is inside the
domain. Two regions (one in the liveness run) let MPROTECT after COMMIT add a
region the domain does not have yet. `MaxYields = 1` lets `trusted_entry` hand
control back once before it returns, so a domain goes through the
suspended → running → final → exit path. The safety and refinement runs use
symmetry over files, threads and domains, which are interchangeable model
values. The liveness run does not use symmetry.

`MC_HelloWorldApp` has two files, two threads (`main`'s and another
process's), one domain slot and two regions. With one slot, the other process
can hold the slot so that `sdk_create_domain` fails. Its domain can also be
released and reused. The ELF is any non-empty set of the two regions, with
or without the shared one.

`MC_CapabilityAlgebra` has two domains, three pages, five slots and a quota of
two. Three pages let a range be segmented twice. Five slots allow a chain of
segment, share or send, then another call, three levels deep, which is what
one-level revoke gets wrong. A quota of two is reached after one segment.
The run does not check deadlock, because the algebra stops once every
capability is consumed or revoked, or once no slot is free.

### Fairness

Users may stop at any time, so their actions get no fairness. Weak fairness is
given to three actions:

- release, because the VFS calls it once the last reference is dropped;
- a thread's return from `switch_enclave`;
- a running domain's own steps.

The last assumes that `trusted_entry` terminates. Spec 5 says a looping domain
blocks its caller forever, and `MaxYields` bounds the application.

`HelloWorldApp` adds weak fairness on `MainStep`, because `main` is a running
program that does not stop between its statements. Other processes get no
fairness.

### Mutants

Each property is shown to detect a plausible bug in the code it is about:

| Mutant | Breaks |
|---|---|
| a switch into a running domain | `OneCallerInside` |
| a teardown that stops when `delete_enclave` fails | `SessionOwnership` |
| `mmap` before COMMIT | `MappedSegmentLive` |
| MPROTECT applied after seal | `SealedConfigFrozen` |
| COMMIT of an unconfigured domain | `LifecycleRefined` |
| `trusted_main` falling through with no exit call | `SwitchCompletes`, `ClosedSessionReleased` and `MainLeavesNoDomain` |
| `hello_world` not checking the second call's result | `ReplyStaleOnlyAfterExit` |
| share checking the caller's quota instead of `dest`'s | `WithinQuota` |
| send leaving the sender's index valid | `ExclusiveUnlessShared` |
| revoke reaching only direct children | `RevokeTransitive` |

## 4. Proofs (TLAPS)

### `TycheDriverProofs`

The only assumption used is `DriverAssumption`: `MaxYields \in Nat`, and the
null values lie outside their sets. Files, threads, domains and regions may be
any sets.

- `TypeCorrect`: `Spec => []TypeOK`. Proved with one step per action.
- `OneCallerInsideTheorem`, `SessionOwnershipTheorem` and
  `MappedSegmentLiveTheorem` are all proved from one inductive invariant:
  `IInv == TypeOK /\ OneCallerInside /\ SessionOwnership /\ MappedSegmentLive`.
  The conjuncts are needed together:
  - `tyche_close` frees `fdom[f]` without looking at the domain.
  - The freed domain is not the one a thread is executing only because no other
    file owns it (`SessionOwnership`) and no request is in flight on `f`.
  - It is not one still mapped only because `MappedSegmentLive` holds for `f`
    and `f` has no vma.
  - `tyche_open` takes a domain nobody owns only because an owned domain is
    never free.
- `SealedConfigFrozenTheorem`: the action property, proved from `TypeCorrect`.
  Only `TycheOpen` (on a free slot) and MPROTECT (before seal) write `config`.
- `LifecycleRefinement`: `Spec => LifecycleRefined`, the refinement of
  `DomainLifecycle` under `lstate <- dstate`. The initial states map to
  `LInit`. Every step maps to one lifecycle transition of one domain, or it
  leaves `dstate` unchanged (lemma `NextRefines`, one case per action).
  - The step needs `IInv`: `tyche_close` frees `fdom[f]`, and `fdom[f]` is a
    domain that is not free only because of `SessionOwnership` (lemma
    `OpenFileBound`).

TLC has checked each of these properties on the small instance. The proofs
establish them for all values of the constants.

### `CapabilityAlgebraProofs`

The proofs use `CapAssumption`: the initial domain is a domain, and memory
size, slot count and quota are positive naturals.

- `ExclusiveUnlessSharedTheorem` and `RevokeTransitiveTheorem` are both proved
  from `CapIInv == CapTypeOK /\ AncClosed /\ ExclusiveUnlessShared /\
  RevokeTransitive`.
- `AncClosed` is the strengthening. It says a free slot records no
  derivation, and every ancestor of an entry is in use and has its own
  ancestors among the entry's. Two reasons make it necessary:
  - Allocation writes only free slots, so the derivation record of a live
    entry, and the sharing in it, never changes (lemmas `LineageKept` and
    `LineageInherited`).
  - Revoking `i` marks every entry with `i` among its ancestors. So the
    ancestors of a surviving valid entry are neither `i` nor below `i`.
- A segment or send child overlaps another valid entry only inside its
  parent's range, so `ExclusiveUnlessShared` of the parent carries over
  (lemma `ChildPair`). A share or duplicate child has sharing in its own
  lineage.

- `WithinQuotaTheorem`: `CapSpec => []WithinQuota`. Each step keeps the
  quota, given `CapIInv` and the quota in the state before (lemma
  `QuotaStep`).
  - A segment, share or duplicate child, and a send, add at most one index
    to `Held(dest)`; `Held(x)` of any other domain only shrinks.
  - The code checks `Room(dest)` before it allocates, so one more index stays
    within `Quota`.
  - A segment replaces its parent by two children: the parent leaves the
    held set and the two children join it, which adds at most one.
  - The cardinality facts come from `FiniteSetTheorems`: the lemmas
    `GrowByOne`, `SplitInTwo` and `Shrink`. Held sets are finite because
    they are subsets of the slot interval (`IndexSetFinite`).

### `HelloWorldAppProofs`

These proofs use `DriverAssumption` and `AppAssumption`. They also reuse
`IInv` and `NextIInv` from `TycheDriverProofs`.

- `ReplyStaleOnlyAfterExitTheorem`: `AppSpec => []ReplyStaleOnlyAfterExit`.
  The inductive invariant is `AppIInv`: the driver's `IInv`, `AppTypeOK`, and
  three facts about the client.
  - `MainOpen`: from the open to the delete, main's descriptor stays open.
  - `MainWaits`: while main waits in `sdk_call_domain`, its thread is in its
    own TRANSITION on `MainFile`, blocked or resumed.
  - `ResumedByExit`: a waiting main that was resumed without a reply was
    resumed by the exit call.

  The argument for `ResumedByExit`:
  - Only the domain main's thread is inside can resume it.
    `OneCallerInside` and `MainWaits` make that domain `fdom[MainFile]`.
  - A gate call of that domain sets `replied`. The fall-through sets
    `exited`.
  - An exited domain of an open file stays exited and stays bound to the
    file (lemma `ExitedStays`). A state where the descriptor is closing, and
    its release, therefore cannot undo it.

  Every step of the composition is a driver step or main's exit (lemma
  `AppDriverStep`), so `IInv` carries over. `MainExitIInv` covers the exit.
  Before any of this was proved, TLC checked `AppIInv` as an invariant of
  `AppSpec` on the `MC_HelloWorldApp` instance.
- `AppLifecycleRefinement`: `AppSpec => LifecycleRefined`. The client
  composition also refines the lifecycle, because main's exit changes no
  domain state.

### What stays with TLC

These are only model-checked:

- The liveness properties (`SwitchCompletes`, `ClosedSessionReleased`,
  `MainLeavesNoDomain`). They need fairness and ENABLED, which the prover
  cannot reason about.
- The two violations (`register_errptr` and `app_reply_fresh`). They are
  counterexamples, which TLC finds. A proof has nothing to add to them.

## 5. Not modelled (yet), and the plan

Order for the next sittings, most important first:

1. **Proofs**: every safety invariant and action property that a passing run
   checks is now proved. What remains is the lemmas for the region-ownership
   refinement below.
2. **Region ownership**: an abstract specification (which domain may touch
   which page), refined by `CapabilityAlgebra`.
3. **Process crash**: a single action that closes all of a process's
   descriptors and drops its mappings.

Not modelled, by design:

- The call frame codec: only the `tyche_monitor_call_t` values and the
  `vmcall_frame_t` layout are in the tree. `tyche_call` is not.
- `custom_profile.c`: static TLS configuration, out of the spec's scope.
- The tychools file I/O in `main.c`: external tooling that cannot change the
  session.
- `set_cores` and `set_traps`: the driver surface cannot reach them separately.
  They are folded into `Configure`.
- Access rights of region capabilities and `TYCHE_ENUMERATE`: no property
  distinguishes them.
