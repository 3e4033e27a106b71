--------------------------- MODULE CapabilityAlgebra ---------------------------
(***************************************************************************)
(* The region capabilities of the monitor, as the capability API of        *)
(* src/C/libraries/capabilities/include/tyche_api.h exposes them:          *)
(* tyche_segment_region, tyche_share, tyche_send, tyche_revoke and         *)
(* tyche_duplicate, each one monitor call on opaque capability indices.    *)
(*                                                                         *)
(* The header holds the wrappers' signatures, the null index and the       *)
(* per-domain bound CAPAS_PER_DOMAIN; what the monitor does with each call *)
(* (capabilities/src/domain.rs is not in the source tree) is modelled from *)
(* spec 3, 4.1 and 4.3.  Every call is one atomic step: it applies all of  *)
(* its effect or fails and changes nothing (spec 4.1), so a failing call   *)
(* is a stuttering step and is not written out.                            *)
(*                                                                         *)
(* A region is a range [lo, hi) of the pages 0..MemSize-1; access rights   *)
(* are left out.  Table slots are never reused, so an index that was      *)
(* consumed or revoked stays stale for good.                               *)
(***************************************************************************)
EXTENDS Naturals, FiniteSets

CONSTANTS
  Domains,         \* domains that hold capabilities
  InitialDomain,   \* the domain that owns all memory at start
  MemSize,         \* pages of memory, 0..MemSize-1
  MaxIndex,        \* table slots 1..MaxIndex (model bound)
  CapasPerDomain   \* CAPAS_PER_DOMAIN: valid capabilities a domain may hold

ASSUME CapAssumption ==
  /\ InitialDomain \in Domains
  /\ MemSize \in Nat \ {0}
  /\ MaxIndex \in Nat \ {0}
  /\ CapasPerDomain \in Nat \ {0}

\* TYCHE_CAPA_NULL: index 0 never denotes a capability.
CapaNull == 0

Indices == 1..MaxIndex

Status == {"free", "valid", "consumed", "revoked"}
\* How a capability came to be: the initial one, or the call that made it.
Origins == {"root", "segment", "share", "send", "duplicate"}

VARIABLE table   \* table[i]: the monitor's entry for index i

Entry == [status : Status, owner : Domains, lo : 0..MemSize, hi : 0..MemSize,
          anc : SUBSET Indices, via : Origins]
\* anc: the indices this capability was derived from (a history record).

CapTypeOK == table \in [Indices -> Entry]

FreeEntry == [status |-> "free", owner |-> InitialDomain, lo |-> 0, hi |-> 0,
              anc |-> {}, via |-> "root"]

\* Index 1: the initial domain's capability on all of memory.
RootEntry == [status |-> "valid", owner |-> InitialDomain, lo |-> 0,
              hi |-> MemSize, anc |-> {}, via |-> "root"]

CapInit == table = [i \in Indices |-> IF i = 1 THEN RootEntry ELSE FreeEntry]

\* The valid capabilities domain d holds.
Held(d) == {i \in Indices : table[i].status = "valid" /\ table[i].owner = d}

\* Domain d has room for n more capabilities (CAPAS_PER_DOMAIN).
Room(d, n) == Cardinality(Held(d)) + n <= CapasPerDomain

\* Index i is a capability of d that a call may use.
Usable(d, i) == table[i].status = "valid" /\ table[i].owner = d

\* Free slots; which one the monitor allocates is not in the source tree.
FreeIdx == {i \in Indices : table[i].status = "free"}

\* A new entry for owner d over [lo, hi), derived from parent p.
Child(p, d, lo, hi, how) ==
  [status |-> "valid", owner |-> d, lo |-> lo, hi |-> hi,
   anc |-> table[p].anc \cup {p}, via |-> how]

-----------------------------------------------------------------------------
(* tyche_segment_region(capa, &left, &right, a1.., a2..): the two ranges   *)
(* must partition the parent's, [lo, m) and [m, hi) with both non-empty;   *)
(* capa is consumed and left, right are fresh indices of the caller.       *)
SegmentRegion(d, i, m) ==
  /\ Usable(d, i)
  /\ table[i].lo < m /\ m < table[i].hi
  /\ Room(d, 1)
  /\ \E l, r \in FreeIdx :
       /\ l # r
       /\ table' = [table EXCEPT
                       ![i].status = "consumed",
                       ![l] = Child(i, d, table[i].lo, m, "segment"),
                       ![r] = Child(i, d, m, table[i].hi, "segment")]

\* Bug variant: the monitor checks the caller's quota instead of dest's.
ShareChecksCaller(d, dest, i) ==
  /\ Usable(d, i)
  /\ Room(d, 1)
  /\ \E n \in FreeIdx :
       table' = [table EXCEPT ![n] =
                 Child(i, dest, table[i].lo, table[i].hi, "share")]

(* tyche_share(&left, dest, capa, ...): dest gets a new index on the same  *)
(* range; the caller keeps capa.                                           *)
Share(d, dest, i) ==
  /\ Usable(d, i)
  /\ Room(dest, 1)
  /\ \E n \in FreeIdx :
       table' = [table EXCEPT ![n] =
                 Child(i, dest, table[i].lo, table[i].hi, "share")]

\* Bug variant: send copies the capability and leaves the sender's valid.
SendKeepsSender(d, dest, i) ==
  /\ Usable(d, i)
  /\ dest # d
  /\ Room(dest, 1)
  /\ \E n \in FreeIdx :
       table' = [table EXCEPT
                   ![n] = Child(i, dest, table[i].lo, table[i].hi, "send")]

(* tyche_send(dest, capa): ownership moves to dest under a new index; the  *)
(* sender's index becomes invalid.                                         *)
Send(d, dest, i) ==
  /\ Usable(d, i)
  /\ dest # d
  /\ Room(dest, 1)
  /\ \E n \in FreeIdx :
       table' = [table EXCEPT
                   ![i].status = "consumed",
                   ![n] = Child(i, dest, table[i].lo, table[i].hi, "send")]

(* tyche_duplicate(&new_capa, capa): a second index on the same range for  *)
(* the same owner, derived from what capa was derived from, so that        *)
(* consuming or revoking one leaves the other valid.                       *)
Duplicate(d, i) ==
  /\ Usable(d, i)
  /\ Room(d, 1)
  /\ \E n \in FreeIdx :
       table' = [table EXCEPT ![n] =
                 [table[i] EXCEPT !.via = "duplicate"]]

\* Bug variant: revoke reaches only the capabilities made directly from id.
RevokeOneLevel(d, i) ==
  /\ Usable(d, i)
  /\ table' = [j \in Indices |->
                 IF (j = i \/ table[j].anc = table[i].anc \cup {i})
                    /\ table[j].status # "free"
                   THEN [table[j] EXCEPT !.status = "revoked"]
                   ELSE table[j]]

(* tyche_revoke(id): id and every capability derived from it by segment,   *)
(* share or send, however deep, become invalid.                            *)
Revoke(d, i) ==
  /\ Usable(d, i)
  /\ table' = [j \in Indices |->
                 IF (j = i \/ i \in table[j].anc) /\ table[j].status # "free"
                   THEN [table[j] EXCEPT !.status = "revoked"]
                   ELSE table[j]]

CapNext ==
  \E d \in Domains, i \in Indices :
    \/ \E m \in 1..MemSize - 1 : SegmentRegion(d, i, m)
    \/ \E dest \in Domains : Share(d, dest, i) \/ Send(d, dest, i)
    \/ Duplicate(d, i)
    \/ Revoke(d, i)

CapSpec == CapInit /\ [][CapNext]_table

-----------------------------------------------------------------------------
\* Indices i and j denote ranges with a page in common.
Overlap(i, j) == table[i].lo < table[j].hi /\ table[j].lo < table[i].hi

\* i or something it derives from was made by share or duplicate.
SharedLineage(i) ==
  \E k \in table[i].anc \cup {i} : table[k].via \in {"share", "duplicate"}

(* Two valid capabilities cover a common page only when one of them was   *)
(* obtained by share or duplicate, directly or further up its derivation:  *)
(* segment_region splits a range into disjoint parts and send moves it,    *)
(* so neither ever leaves two indices (in one domain or two) on the same   *)
(* memory (spec 3: "every capability has exactly one valid owner          *)
(* reference", segmentation "exhaustive and non-overlapping").             *)
ExclusiveUnlessShared ==
  \A i, j \in Indices :
     /\ i # j
     /\ table[i].status = "valid" /\ table[j].status = "valid"
     /\ Overlap(i, j)
     => SharedLineage(i) \/ SharedLineage(j)

(* No valid capability derives from a revoked one: tyche_revoke reaches    *)
(* every capability made from its argument by segment, share or send, at   *)
(* any depth and in any domain (spec 8).                                   *)
RevokeTransitive ==
  \A j \in Indices : table[j].status = "valid" =>
     \A k \in table[j].anc : table[k].status # "revoked"

(* No domain ever holds more than CAPAS_PER_DOMAIN valid capabilities,     *)
(* whichever domain's call gave them to it.                                *)
WithinQuota ==
  \A d \in Domains : Cardinality(Held(d)) <= CapasPerDomain
=============================================================================
