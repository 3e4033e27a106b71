---------------------------- MODULE DriverRegister ----------------------------
(***************************************************************************)
(* Loading and unloading of the tyche character device                     *)
(* (tyche_register / tyche_unregister in src/C/drivers/tyche/src/ioctl.c). *)
(*                                                                         *)
(* Each kernel call is a nondeterministic outcome.  alloc_chrdev_region    *)
(* and cdev_add report failure with a negative value, which the code tests *)
(* with "< 0".  class_create and device_create report failure with an      *)
(* error pointer (ERR_PTR) and never return NULL, while the code tests     *)
(* "== NULL": an error pointer passes the test as if it were an object.    *)
(* device_create given an error-pointer class fails in turn.               *)
(***************************************************************************)

VARIABLES
  status,     \* "unloaded" | "loaded": what the last register/unregister left
  held,       \* kernel objects the driver has created and not released
  enclaves    \* init_enclaves() has run

Objects == {"chrdev", "cdev", "class", "device"}

vars == <<status, held, enclaves>>

RegTypeOK ==
  /\ status \in {"unloaded", "loaded"}
  /\ held \in SUBSET Objects
  /\ enclaves \in BOOLEAN

RegInit ==
  /\ status = "unloaded"
  /\ held = {}
  /\ enclaves = FALSE

\* What a kernel constructor returns: an object, or an error pointer.
Outcomes == {"ok", "errptr"}

(* tyche_register.  The r_class and r_device unwinding paths are taken    *)
(* only on a NULL result, which class_create and device_create never       *)
(* return, so every run that gets past cdev_add returns SUCCESS.           *)
TycheRegister ==
  /\ status = "unloaded"
  /\ \E allocOk, cdevOk \in BOOLEAN, cls, dev \in Outcomes :
       \/ /\ ~allocOk                         \* "cannot allocate major number"
          /\ UNCHANGED vars
       \/ /\ allocOk /\ ~cdevOk               \* goto r_class: unregister region
          /\ UNCHANGED vars
       \/ /\ allocOk /\ cdevOk                \* class/device "!= NULL": success
          /\ held' = {"chrdev", "cdev"}
                      \cup (IF cls = "ok" THEN {"class"} ELSE {})
                      \cup (IF cls = "ok" /\ dev = "ok" THEN {"device"} ELSE {})
          /\ enclaves' = TRUE
          /\ status' = "loaded"

\* tyche_unregister: destroys the device and class, deletes the cdev and
\* releases the region.
TycheUnregister ==
  /\ status = "loaded"
  /\ status' = "unloaded"
  /\ held' = {}
  /\ UNCHANGED enclaves

RegNext == TycheRegister \/ TycheUnregister

RegSpec == RegInit /\ [][RegNext]_vars

(* When tyche_register returns SUCCESS the device node exists: its class   *)
(* and device were created and the driver holds every object it needs      *)
(* (the code's intent, stated by its "Cannot create the struct class" and   *)
(* "Cannot create the Device" error paths).                                *)
RegisteredImpliesDevice ==
  status = "loaded" => held = Objects
=============================================================================
