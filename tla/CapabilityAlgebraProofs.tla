------------------------- MODULE CapabilityAlgebraProofs -------------------------
(***************************************************************************)
(* Proofs about CapabilityAlgebra for every number of domains, pages,      *)
(* table slots and every per-domain quota.                                 *)
(***************************************************************************)
EXTENDS CapabilityAlgebra, FiniteSetTheorems, TLAPS

USE CapAssumption

(* Derivation records are well formed: a capability derives only from     *)
(* entries in use, and from everything those derive from.  A free slot     *)
(* records no derivation.                                                  *)
AncClosed ==
  \A j \in Indices :
     /\ table[j].status = "free" => table[j].anc = {}
     /\ \A k \in table[j].anc :
           /\ table[k].status # "free"
           /\ table[k].anc \subseteq table[j].anc

(* The inductive invariant.  RevokeTransitive alone is not inductive: a    *)
(* revoke marks the descendants of its argument, and only the closure of   *)
(* the derivation records shows that the descendants of a descendant are   *)
(* among them.  ExclusiveUnlessShared needs the ancestors of a live entry  *)
(* to be in use, so that no allocation overwrites the record of how it     *)
(* was derived.                                                            *)
CapIInv == CapTypeOK /\ AncClosed /\ ExclusiveUnlessShared /\ RevokeTransitive

-----------------------------------------------------------------------------
LEMMA CapInitIInv == CapInit => CapIInv
<1> SUFFICES ASSUME CapInit PROVE CapIInv
  OBVIOUS
<1>1. \A j \in Indices : /\ table[j].anc = {}
                         /\ table[j].via = "root"
                         /\ table[j].status \in {"free", "valid"}
                         /\ table[j].status = "valid" => j = 1
  BY DEF CapInit, FreeEntry, RootEntry
<1>2. CapTypeOK
  <2>1. FreeEntry \in Entry
    BY DEF FreeEntry, Entry, Status, Origins
  <2>2. RootEntry \in Entry
    BY DEF RootEntry, Entry, Status, Origins
  <2>. QED
    BY <2>1, <2>2 DEF CapInit, CapTypeOK
<1>3. QED
  BY <1>1, <1>2 DEF CapIInv, AncClosed, ExclusiveUnlessShared, RevokeTransitive

(* A new entry made from the valid entry p is well typed when its range    *)
(* lies in memory.                                                         *)
LEMMA ChildType ==
  ASSUME CapTypeOK, NEW p \in Indices, NEW d \in Domains,
         NEW lo \in 0..MemSize, NEW hi \in 0..MemSize, NEW how \in Origins
  PROVE  Child(p, d, lo, hi, how) \in Entry
BY DEF CapTypeOK, Entry, Child, Status

\* An entry with a new status is still an entry.
LEMMA StatusType ==
  ASSUME CapTypeOK, NEW j \in Indices, NEW s \in Status
  PROVE  [table[j] EXCEPT !.status = s] \in Entry
BY DEF CapTypeOK, Entry

\* Writing an entry into the table keeps it well typed.
LEMMA UpdateType ==
  ASSUME NEW t \in [Indices -> Entry], NEW j \in Indices, NEW e \in Entry
  PROVE  [t EXCEPT ![j] = e] \in [Indices -> Entry]
OBVIOUS

(* A step keeps the record of every entry in use: only a free slot is      *)
(* written with a new capability, and an entry in use changes at most its  *)
(* status.                                                                 *)
KeepsRecords ==
  \A k \in Indices : table[k].status # "free" =>
     /\ table'[k].via = table[k].via
     /\ table'[k].anc = table[k].anc
     /\ table'[k].lo = table[k].lo
     /\ table'[k].hi = table[k].hi

\* Sharing in the derivation of an entry in use survives such a step.
LEMMA LineageKept ==
  ASSUME CapTypeOK, AncClosed, KeepsRecords,
         NEW a \in Indices, table[a].status # "free", SharedLineage(a)
  PROVE  SharedLineage(a)'
BY DEF SharedLineage, AncClosed, KeepsRecords, CapTypeOK, Entry

(* A capability made from p inherits the sharing in p's derivation.        *)
LEMMA LineageInherited ==
  ASSUME CapTypeOK, AncClosed, KeepsRecords,
         NEW p \in Indices, NEW c \in Indices,
         table[p].status # "free", table'[c].anc = table[p].anc \cup {p},
         SharedLineage(p)
  PROVE  SharedLineage(c)'
BY DEF SharedLineage, AncClosed, KeepsRecords, CapTypeOK, Entry

(* Two entries valid before and after a step that keeps records overlap   *)
(* only through sharing.                                                   *)
LEMMA OldPair ==
  ASSUME CapTypeOK, AncClosed, ExclusiveUnlessShared, KeepsRecords,
         NEW a \in Indices, NEW b \in Indices, a # b,
         table[a].status = "valid", table[b].status = "valid", Overlap(a, b)'
  PROVE  SharedLineage(a)' \/ SharedLineage(b)'
<1>1. Overlap(a, b)
  BY DEF Overlap, KeepsRecords
<1>2. SharedLineage(a) \/ SharedLineage(b)
  BY <1>1 DEF ExclusiveUnlessShared
<1>. QED
  BY <1>2, LineageKept

(* A capability c carved out of the valid entry p overlaps another valid   *)
(* entry b only through sharing.                                           *)
LEMMA ChildPair ==
  ASSUME CapTypeOK, AncClosed, ExclusiveUnlessShared, KeepsRecords,
         NEW p \in Indices, NEW c \in Indices, NEW b \in Indices, b # p,
         table[p].status = "valid", table[b].status = "valid",
         table'[c].anc = table[p].anc \cup {p},
         table'[c].lo \in Nat, table'[c].hi \in Nat,
         table[p].lo <= table'[c].lo, table'[c].hi <= table[p].hi,
         Overlap(c, b)'
  PROVE  SharedLineage(c)' \/ SharedLineage(b)'
<1>1. Overlap(p, b)
  BY DEF Overlap, KeepsRecords, CapTypeOK, Entry
<1>2. SharedLineage(p) \/ SharedLineage(b)
  BY <1>1 DEF ExclusiveUnlessShared
<1>. QED
  BY <1>2, LineageKept, LineageInherited

LEMMA CapNextIInv == CapIInv /\ [CapNext]_table => CapIInv'
<1> SUFFICES ASSUME CapIInv, [CapNext]_table PROVE CapIInv'
  OBVIOUS
<1> USE DEF CapIInv
<1>1. ASSUME NEW d \in Domains, NEW i \in Indices, NEW m \in 1..MemSize - 1,
             SegmentRegion(d, i, m)
      PROVE  CapIInv'
  <2>1. PICK l, r \in FreeIdx :
          /\ l # r
          /\ table' = [table EXCEPT
                         ![i].status = "consumed",
                         ![l] = Child(i, d, table[i].lo, m, "segment"),
                         ![r] = Child(i, d, m, table[i].hi, "segment")]
    BY <1>1, Zenon DEF SegmentRegion
  <2>2. /\ table[i].status = "valid" /\ table[i].owner = d
        /\ table[i].lo < m /\ m < table[i].hi
        /\ l \in Indices /\ r \in Indices
        /\ table[l].status = "free" /\ table[r].status = "free"
        /\ i # l /\ i # r
    BY <1>1 DEF SegmentRegion, Usable, FreeIdx
  <2> DEFINE cl == Child(i, d, table[i].lo, m, "segment")
             cr == Child(i, d, m, table[i].hi, "segment")
  <2>3. CapTypeOK'
    <3>1. [table[i] EXCEPT !.status = "consumed"] \in Entry
      BY Zenon, StatusType DEF Status
    <3>2. table[i].lo \in 0..MemSize /\ table[i].hi \in 0..MemSize
      BY DEF CapTypeOK, Entry
    <3>3. cl \in Entry /\ cr \in Entry
      BY <3>2, ChildType DEF Origins
    <3>. QED
      BY <2>1, <2>2, <3>1, <3>3 DEF CapTypeOK
  <2>4. AncClosed'
    BY <2>1, <2>2 DEF AncClosed, Child, CapTypeOK, Entry
  <2>5. KeepsRecords
    BY <2>1, <2>2 DEF KeepsRecords, CapTypeOK, Entry
  <2>6. ExclusiveUnlessShared'
    <3> SUFFICES ASSUME NEW a \in Indices, NEW b \in Indices, a # b,
                        table'[a].status = "valid", table'[b].status = "valid",
                        Overlap(a, b)'
                 PROVE  SharedLineage(a)' \/ SharedLineage(b)'
      BY DEF ExclusiveUnlessShared
    <3>1. /\ table'[l] = cl /\ table'[r] = cr
          /\ cl.anc = table[i].anc \cup {i} /\ cr.anc = table[i].anc \cup {i}
          /\ cl.lo = table[i].lo /\ cl.hi = m /\ cr.lo = m /\ cr.hi = table[i].hi
      BY Zenon, <2>1, <2>2 DEF Child, CapTypeOK
    <3>2. \A x \in Indices \ {l, r} :
             table'[x].status = "valid" => table[x].status = "valid" /\ x # i
      <4>1. table'[i].status = "consumed"
        BY <2>1, <2>2 DEF CapTypeOK, Entry
      <4>2. \A x \in Indices \ {l, r, i} : table'[x] = table[x]
        BY <2>1, <2>2 DEF CapTypeOK
      <4>. QED
        BY <4>1, <4>2
    <3>3. /\ table[i].lo \in Nat /\ table[i].hi \in Nat
      BY <2>2 DEF CapTypeOK, Entry
    <3>4. CASE a \in {l, r} /\ b \in {l, r}
      BY <3>1, <3>3, <3>4 DEF Overlap
    <3>5. CASE a \in {l, r} /\ b \notin {l, r}
      BY <3>1, <3>2, <3>3, <3>5, <2>2, <2>5, ChildPair
    <3>6. CASE a \notin {l, r} /\ b \in {l, r}
      BY <3>1, <3>2, <3>3, <3>6, <2>2, <2>5, ChildPair DEF Overlap
    <3>7. CASE a \notin {l, r} /\ b \notin {l, r}
      BY <3>2, <3>7, <2>5, OldPair
    <3>. QED
      BY <3>4, <3>5, <3>6, <3>7
  <2>7. RevokeTransitive'
    BY <2>1, <2>2 DEF RevokeTransitive, Child, AncClosed, CapTypeOK, Entry
  <2>8. QED
    BY <2>3, <2>4, <2>6, <2>7
<1>2. ASSUME NEW d \in Domains, NEW i \in Indices, NEW dest \in Domains,
             Share(d, dest, i)
      PROVE  CapIInv'
  <2>1. PICK n \in FreeIdx :
          table' = [table EXCEPT ![n] =
                      Child(i, dest, table[i].lo, table[i].hi, "share")]
    BY <1>2, Zenon DEF Share
  <2>2. /\ table[i].status = "valid" /\ table[i].owner = d
        /\ n \in Indices /\ table[n].status = "free" /\ i # n
    BY <1>2 DEF Share, Usable, FreeIdx
  <2> DEFINE c == Child(i, dest, table[i].lo, table[i].hi, "share")
  <2>3. CapTypeOK'
    <3>1. table[i].lo \in 0..MemSize /\ table[i].hi \in 0..MemSize
      BY DEF CapTypeOK, Entry
    <3>2. c \in Entry
      BY <3>1, ChildType DEF Origins
    <3>. QED
      BY <2>1, <2>2, <3>2 DEF CapTypeOK
  <2>4. AncClosed'
    BY <2>1, <2>2 DEF AncClosed, Child, CapTypeOK, Entry
  <2>5. KeepsRecords
    BY <2>1, <2>2 DEF KeepsRecords, CapTypeOK, Entry
  <2>6. ExclusiveUnlessShared'
    <3> SUFFICES ASSUME NEW a \in Indices, NEW b \in Indices, a # b,
                        table'[a].status = "valid", table'[b].status = "valid",
                        Overlap(a, b)'
                 PROVE  SharedLineage(a)' \/ SharedLineage(b)'
      BY DEF ExclusiveUnlessShared
    <3>1. SharedLineage(n)'
      BY <2>1, <2>2 DEF SharedLineage, Child, CapTypeOK
    <3>2. \A x \in Indices \ {n} : table'[x] = table[x]
      BY <2>1, <2>2 DEF CapTypeOK
    <3>3. CASE a = n \/ b = n
      BY <3>1, <3>3
    <3>4. CASE a # n /\ b # n
      BY <3>2, <3>4, <2>5, OldPair
    <3>. QED
      BY <3>3, <3>4
  <2>6a. RevokeTransitive'
    BY <2>1, <2>2 DEF RevokeTransitive, Child, AncClosed, CapTypeOK, Entry
  <2>7. QED
    BY <2>3, <2>4, <2>6, <2>6a
<1>3. ASSUME NEW d \in Domains, NEW i \in Indices, NEW dest \in Domains,
             Send(d, dest, i)
      PROVE  CapIInv'
  <2>1. PICK n \in FreeIdx :
          table' = [table EXCEPT
                      ![i].status = "consumed",
                      ![n] = Child(i, dest, table[i].lo, table[i].hi, "send")]
    BY <1>3, Zenon DEF Send
  <2>2. /\ table[i].status = "valid" /\ table[i].owner = d
        /\ n \in Indices /\ table[n].status = "free" /\ i # n
    BY <1>3 DEF Send, Usable, FreeIdx
  <2> DEFINE c == Child(i, dest, table[i].lo, table[i].hi, "send")
  <2>3. CapTypeOK'
    <3>1. [table[i] EXCEPT !.status = "consumed"] \in Entry
      BY Zenon, StatusType DEF Status
    <3>2. table[i].lo \in 0..MemSize /\ table[i].hi \in 0..MemSize
      BY DEF CapTypeOK, Entry
    <3>3. c \in Entry
      BY <3>2, ChildType DEF Origins
    <3>. QED
      BY <2>1, <2>2, <3>1, <3>3 DEF CapTypeOK
  <2>4. AncClosed'
    BY <2>1, <2>2 DEF AncClosed, Child, CapTypeOK, Entry
  <2>5. KeepsRecords
    BY <2>1, <2>2 DEF KeepsRecords, CapTypeOK, Entry
  <2>6. ExclusiveUnlessShared'
    <3> SUFFICES ASSUME NEW a \in Indices, NEW b \in Indices, a # b,
                        table'[a].status = "valid", table'[b].status = "valid",
                        Overlap(a, b)'
                 PROVE  SharedLineage(a)' \/ SharedLineage(b)'
      BY DEF ExclusiveUnlessShared
    <3>1. /\ table'[n] = c
          /\ c.anc = table[i].anc \cup {i}
          /\ c.lo = table[i].lo /\ c.hi = table[i].hi
      BY <2>1, <2>2 DEF Child, CapTypeOK
    <3>2. \A x \in Indices \ {n} :
             table'[x].status = "valid" => table[x].status = "valid" /\ x # i
      <4>1. table'[i].status = "consumed"
        BY <2>1, <2>2 DEF CapTypeOK, Entry
      <4>2. \A x \in Indices \ {n, i} : table'[x] = table[x]
        BY <2>1, <2>2 DEF CapTypeOK
      <4>. QED
        BY <4>1, <4>2
    <3>3. table[i].lo \in Nat /\ table[i].hi \in Nat
      BY <2>2 DEF CapTypeOK, Entry
    <3>4. CASE a = n
      BY <3>1, <3>2, <3>3, <3>4, <2>2, <2>5, ChildPair
    <3>5. CASE b = n
      BY <3>1, <3>2, <3>3, <3>5, <2>2, <2>5, ChildPair DEF Overlap
    <3>6. CASE a # n /\ b # n
      BY <3>2, <3>6, <2>5, OldPair
    <3>. QED
      BY <3>4, <3>5, <3>6
  <2>6a. RevokeTransitive'
    BY <2>1, <2>2 DEF RevokeTransitive, Child, AncClosed, CapTypeOK, Entry
  <2>7. QED
    BY <2>3, <2>4, <2>6, <2>6a
<1>4. ASSUME NEW d \in Domains, NEW i \in Indices, Duplicate(d, i)
      PROVE  CapIInv'
  <2>1. PICK n \in FreeIdx :
          table' = [table EXCEPT ![n] = [table[i] EXCEPT !.via = "duplicate"]]
    BY <1>4, Zenon DEF Duplicate
  <2>2. /\ table[i].status = "valid" /\ table[i].owner = d
        /\ n \in Indices /\ table[n].status = "free" /\ i # n
    BY <1>4 DEF Duplicate, Usable, FreeIdx
  <2>3. CapTypeOK'
    <3>1. [table[i] EXCEPT !.via = "duplicate"] \in Entry
      BY DEF CapTypeOK, Entry, Origins
    <3>. QED
      BY <2>1, <2>2, <3>1 DEF CapTypeOK
  <2>4. AncClosed'
    BY <2>1, <2>2 DEF AncClosed, CapTypeOK, Entry
  <2>5. KeepsRecords
    BY <2>1, <2>2 DEF KeepsRecords, CapTypeOK, Entry
  <2>6. ExclusiveUnlessShared'
    <3> SUFFICES ASSUME NEW a \in Indices, NEW b \in Indices, a # b,
                        table'[a].status = "valid", table'[b].status = "valid",
                        Overlap(a, b)'
                 PROVE  SharedLineage(a)' \/ SharedLineage(b)'
      BY DEF ExclusiveUnlessShared
    <3>1. SharedLineage(n)'
      BY <2>1, <2>2 DEF SharedLineage, CapTypeOK, Entry
    <3>2. \A x \in Indices \ {n} : table'[x] = table[x]
      BY <2>1, <2>2 DEF CapTypeOK
    <3>3. CASE a = n \/ b = n
      BY <3>1, <3>3
    <3>4. CASE a # n /\ b # n
      BY <3>2, <3>4, <2>5, OldPair
    <3>. QED
      BY <3>3, <3>4
  <2>6a. RevokeTransitive'
    BY <2>1, <2>2 DEF RevokeTransitive, AncClosed, CapTypeOK, Entry
  <2>7. QED
    BY <2>3, <2>4, <2>6, <2>6a
<1>5. ASSUME NEW d \in Domains, NEW i \in Indices, Revoke(d, i)
      PROVE  CapIInv'
  <2> DEFINE hit(j) == (j = i \/ i \in table[j].anc) /\ table[j].status # "free"
  <2>1. table' = [j \in Indices |->
                    IF hit(j) THEN [table[j] EXCEPT !.status = "revoked"]
                              ELSE table[j]]
    BY <1>5 DEF Revoke
  <2>2. table[i].status = "valid"
    BY <1>5 DEF Revoke, Usable
  <2>3. \A j \in Indices :
           /\ table'[j].status = IF hit(j) THEN "revoked" ELSE table[j].status
           /\ table'[j].via = table[j].via /\ table'[j].anc = table[j].anc
           /\ table'[j].lo = table[j].lo /\ table'[j].hi = table[j].hi
    BY <2>1 DEF CapTypeOK, Entry
  <2>4. CapTypeOK'
    <3>1. \A j \in Indices : [table[j] EXCEPT !.status = "revoked"] \in Entry
      BY Zenon, StatusType DEF Status
    <3>. QED
      BY <2>1, <3>1 DEF CapTypeOK
  <2>5. AncClosed'
    <3>1. \A j \in Indices :
             table'[j].status = "free" <=> table[j].status = "free"
      BY <2>3
    <3>2. \A j \in Indices : table[j].status = "free" => table[j].anc = {}
      BY DEF AncClosed
    <3>3. \A j \in Indices : \A k \in table[j].anc :
             table[k].status # "free" /\ table[k].anc \subseteq table[j].anc
      BY DEF AncClosed
    <3>4. \A j \in Indices : table[j].anc \subseteq Indices
      BY DEF CapTypeOK, Entry
    <3>. QED
      <4> SUFFICES ASSUME NEW j \in Indices
                   PROVE  /\ table'[j].status = "free" => table'[j].anc = {}
                          /\ \A k \in table'[j].anc :
                                /\ table'[k].status # "free"
                                /\ table'[k].anc \subseteq table'[j].anc
        BY DEF AncClosed
      <4>1. table'[j].anc = table[j].anc
        BY <2>3
      <4>2. \A k \in table[j].anc : table'[k].anc = table[k].anc
                                   /\ table'[k].status # "free"
        BY <2>3, <3>1, <3>3, <3>4
      <4>. QED
        BY <3>1, <3>2, <3>3, <4>1, <4>2
  <2>6. KeepsRecords
    BY <2>3 DEF KeepsRecords
  <2>7. ExclusiveUnlessShared'
    <3> SUFFICES ASSUME NEW a \in Indices, NEW b \in Indices, a # b,
                        table'[a].status = "valid", table'[b].status = "valid",
                        Overlap(a, b)'
                 PROVE  SharedLineage(a)' \/ SharedLineage(b)'
      BY DEF ExclusiveUnlessShared
    <3>1. table[a].status = "valid" /\ table[b].status = "valid"
      BY <2>3
    <3>. QED
      BY <3>1, <2>6, OldPair
  <2>8. RevokeTransitive'
    <3> SUFFICES ASSUME NEW j \in Indices, table'[j].status = "valid",
                        NEW k \in table'[j].anc
                 PROVE  table'[k].status # "revoked"
      BY DEF RevokeTransitive
    <3>1. table[j].status = "valid" /\ j # i /\ i \notin table[j].anc
      BY <2>3
    <3>2. /\ k \in table[j].anc /\ k \in Indices /\ k # i
          /\ table[k].status \notin {"free", "revoked"}
          /\ table[k].anc \subseteq table[j].anc
      BY <2>3, <3>1 DEF RevokeTransitive, AncClosed, CapTypeOK, Entry
    <3>3. ~hit(k)
      BY <3>1, <3>2
    <3>. QED
      BY <2>3, <3>2, <3>3
  <2>9. QED
    BY <2>4, <2>5, <2>7, <2>8
<1>6. CASE UNCHANGED table
  BY <1>6 DEF CapTypeOK, AncClosed, ExclusiveUnlessShared, RevokeTransitive,
              Overlap, SharedLineage
<1>7. QED
  BY <1>1, <1>2, <1>3, <1>4, <1>5, <1>6 DEF CapNext

-----------------------------------------------------------------------------
(* For every configuration, two valid capabilities overlap only through a  *)
(* share or a duplicate: segment_region and send never leave two live      *)
(* indices on one page.                                                    *)
THEOREM ExclusiveUnlessSharedTheorem == CapSpec => []ExclusiveUnlessShared
<1>1. CapIInv => ExclusiveUnlessShared
  BY DEF CapIInv
<1>. QED
  BY CapInitIInv, CapNextIInv, <1>1, PTL DEF CapSpec

(* For every configuration, tyche_revoke leaves no valid capability        *)
(* derived, at any depth, from a revoked one.                              *)
THEOREM RevokeTransitiveTheorem == CapSpec => []RevokeTransitive
<1>1. CapIInv => RevokeTransitive
  BY DEF CapIInv
<1>. QED
  BY CapInitIInv, CapNextIInv, <1>1, PTL DEF CapSpec

-----------------------------------------------------------------------------
(* The per-domain bound.  Lemmas on the size of sets of table indices.     *)

LEMMA IndexSetFinite ==
  ASSUME NEW T \in SUBSET Indices
  PROVE  IsFiniteSet(T) /\ Cardinality(T) \in Nat
<1>1. IsFiniteSet(Indices)
  BY FS_Interval DEF Indices
<1>. QED
  BY <1>1, FS_Subset, FS_CardinalityType

\* A set of indices that loses nothing but gains n is at most one larger.
LEMMA GrowByOne ==
  ASSUME NEW S \in SUBSET Indices, NEW T \in SUBSET Indices, NEW n \in Indices,
         T \subseteq S \cup {n}
  PROVE  Cardinality(T) <= Cardinality(S) + 1
<1>1. IsFiniteSet(S) /\ Cardinality(S) \in Nat
  BY IndexSetFinite
<1>2. /\ IsFiniteSet(S \cup {n})
      /\ Cardinality(S \cup {n}) =
           IF n \in S THEN Cardinality(S) ELSE Cardinality(S) + 1
  BY <1>1, FS_AddElement
<1>3. Cardinality(S \cup {n}) <= Cardinality(S) + 1
  BY <1>1, <1>2
<1>. QED
  BY <1>1, <1>2, <1>3, FS_Subset, IndexSetFinite

\* A set of indices that loses i in S and gains l and r is at most one larger.
LEMMA SplitInTwo ==
  ASSUME NEW S \in SUBSET Indices, NEW T \in SUBSET Indices, NEW i \in S,
         NEW l \in Indices, NEW r \in Indices,
         T \subseteq ((S \ {i}) \cup {l}) \cup {r}
  PROVE  Cardinality(T) <= Cardinality(S) + 1
<1>1. IsFiniteSet(S) /\ Cardinality(S) \in Nat
  BY IndexSetFinite
<1>2. Cardinality(S \ {i}) = Cardinality(S) - 1
  BY Zenon, <1>1, FS_RemoveElement
<1> DEFINE U == (S \ {i}) \cup {l}
<1>3. U \in SUBSET Indices /\ Cardinality(U) \in Nat
  BY IndexSetFinite
<1>4. Cardinality(U) <= Cardinality(S \ {i}) + 1
  BY GrowByOne
<1>5. Cardinality(T) <= Cardinality(U) + 1
  BY <1>3, GrowByOne
<1>6. Cardinality(T) \in Nat
  BY IndexSetFinite
<1>. QED
  BY <1>1, <1>2, <1>3, <1>4, <1>5, <1>6

\* A set of indices that only loses members does not grow.
LEMMA Shrink ==
  ASSUME NEW S \in SUBSET Indices, NEW T \in SUBSET S
  PROVE  Cardinality(T) <= Cardinality(S)
BY IndexSetFinite, FS_Subset

LEMMA QuotaStep ==
  CapTypeOK /\ WithinQuota /\ [CapNext]_table => WithinQuota'
<1> SUFFICES ASSUME CapTypeOK, WithinQuota, [CapNext]_table,
                    NEW x \in Domains
             PROVE  Cardinality(Held(x)') <= CapasPerDomain
  BY DEF WithinQuota
<1>0. /\ Held(x) \in SUBSET Indices /\ Held(x)' \in SUBSET Indices
      /\ Cardinality(Held(x)) <= CapasPerDomain
      /\ Cardinality(Held(x)) \in Nat /\ Cardinality(Held(x)') \in Nat
  BY IndexSetFinite DEF Held, WithinQuota
<1>1. ASSUME NEW d \in Domains, NEW i \in Indices, NEW m \in 1..MemSize - 1,
             SegmentRegion(d, i, m)
      PROVE  Cardinality(Held(x)') <= CapasPerDomain
  <2>1. PICK l, r \in FreeIdx :
          /\ l # r
          /\ table' = [table EXCEPT
                         ![i].status = "consumed",
                         ![l] = Child(i, d, table[i].lo, m, "segment"),
                         ![r] = Child(i, d, m, table[i].hi, "segment")]
    BY <1>1, Zenon DEF SegmentRegion
  <2>2. /\ i \in Held(d) /\ l \in Indices /\ r \in Indices /\ i # l /\ i # r
        /\ Room(d, 1)
    BY <1>1 DEF SegmentRegion, Usable, FreeIdx, Held
  <2>3. /\ table'[i].status = "consumed"
        /\ table'[l].owner = d /\ table'[r].owner = d
        /\ \A j \in Indices \ {i, l, r} : table'[j] = table[j]
    BY <2>1, <2>2 DEF CapTypeOK, Entry, Child
  <2>4. CASE x = d
    <3>1. Held(x)' \subseteq ((Held(x) \ {i}) \cup {l}) \cup {r}
      BY <2>3, <2>4 DEF Held
    <3>2. Cardinality(Held(x)') <= Cardinality(Held(x)) + 1
      BY <1>0, <2>2, <2>4, <3>1, SplitInTwo
    <3>. QED
      BY <1>0, <2>2, <2>4, <3>2 DEF Room
  <2>5. CASE x # d
    <3>1. Held(x)' \subseteq Held(x)
      BY <2>3, <2>5 DEF Held
    <3>2. Cardinality(Held(x)') <= Cardinality(Held(x))
      BY <1>0, <3>1, Shrink
    <3>. QED
      BY <1>0, <3>2
  <2>. QED
    BY <2>4, <2>5
<1>2. ASSUME NEW d \in Domains, NEW i \in Indices, NEW dest \in Domains,
             Share(d, dest, i)
      PROVE  Cardinality(Held(x)') <= CapasPerDomain
  <2>1. PICK n \in FreeIdx :
          table' = [table EXCEPT ![n] =
                      Child(i, dest, table[i].lo, table[i].hi, "share")]
    BY <1>2, Zenon DEF Share
  <2>2. n \in Indices /\ Room(dest, 1)
    BY <1>2 DEF Share, FreeIdx
  <2>3. /\ table'[n].owner = dest
        /\ \A j \in Indices \ {n} : table'[j] = table[j]
    BY <2>1, <2>2 DEF CapTypeOK, Child
  <2>4. CASE x = dest
    <3>1. Held(x)' \subseteq Held(x) \cup {n}
      BY <2>3, <2>4 DEF Held
    <3>2. Cardinality(Held(x)') <= Cardinality(Held(x)) + 1
      BY <1>0, <2>2, <3>1, GrowByOne
    <3>. QED
      BY <1>0, <2>2, <2>4, <3>2 DEF Room
  <2>5. CASE x # dest
    <3>1. Held(x)' \subseteq Held(x)
      BY <2>3, <2>5 DEF Held
    <3>2. Cardinality(Held(x)') <= Cardinality(Held(x))
      BY <1>0, <3>1, Shrink
    <3>. QED
      BY <1>0, <3>2
  <2>. QED
    BY <2>4, <2>5
<1>3. ASSUME NEW d \in Domains, NEW i \in Indices, NEW dest \in Domains,
             Send(d, dest, i)
      PROVE  Cardinality(Held(x)') <= CapasPerDomain
  <2>1. PICK n \in FreeIdx :
          table' = [table EXCEPT
                      ![i].status = "consumed",
                      ![n] = Child(i, dest, table[i].lo, table[i].hi, "send")]
    BY <1>3, Zenon DEF Send
  <2>2. n \in Indices /\ i # n /\ Room(dest, 1)
    BY <1>3 DEF Send, FreeIdx, Usable
  <2>3. /\ table'[i].status = "consumed"
        /\ table'[n].owner = dest
        /\ \A j \in Indices \ {i, n} : table'[j] = table[j]
    BY <2>1, <2>2 DEF CapTypeOK, Entry, Child
  <2>4. CASE x = dest
    <3>1. Held(x)' \subseteq Held(x) \cup {n}
      BY <2>3, <2>4 DEF Held
    <3>2. Cardinality(Held(x)') <= Cardinality(Held(x)) + 1
      BY <1>0, <2>2, <3>1, GrowByOne
    <3>. QED
      BY <1>0, <2>2, <2>4, <3>2 DEF Room
  <2>5. CASE x # dest
    <3>1. Held(x)' \subseteq Held(x)
      BY <2>3, <2>5 DEF Held
    <3>2. Cardinality(Held(x)') <= Cardinality(Held(x))
      BY <1>0, <3>1, Shrink
    <3>. QED
      BY <1>0, <3>2
  <2>. QED
    BY <2>4, <2>5
<1>4. ASSUME NEW d \in Domains, NEW i \in Indices, Duplicate(d, i)
      PROVE  Cardinality(Held(x)') <= CapasPerDomain
  <2>1. PICK n \in FreeIdx :
          table' = [table EXCEPT ![n] = [table[i] EXCEPT !.via = "duplicate"]]
    BY <1>4, Zenon DEF Duplicate
  <2>2. n \in Indices /\ table[i].owner = d /\ Room(d, 1)
    BY <1>4 DEF Duplicate, FreeIdx, Usable
  <2>3. /\ table'[n].owner = d
        /\ \A j \in Indices \ {n} : table'[j] = table[j]
    BY <2>1, <2>2 DEF CapTypeOK, Entry
  <2>4. CASE x = d
    <3>1. Held(x)' \subseteq Held(x) \cup {n}
      BY <2>3, <2>4 DEF Held
    <3>2. Cardinality(Held(x)') <= Cardinality(Held(x)) + 1
      BY <1>0, <2>2, <3>1, GrowByOne
    <3>. QED
      BY <1>0, <2>2, <2>4, <3>2 DEF Room
  <2>5. CASE x # d
    <3>1. Held(x)' \subseteq Held(x)
      BY <2>3, <2>5 DEF Held
    <3>2. Cardinality(Held(x)') <= Cardinality(Held(x))
      BY <1>0, <3>1, Shrink
    <3>. QED
      BY <1>0, <3>2
  <2>. QED
    BY <2>4, <2>5
<1>5. ASSUME NEW d \in Domains, NEW i \in Indices, Revoke(d, i)
      PROVE  Cardinality(Held(x)') <= CapasPerDomain
  <2>1. \A j \in Indices : table'[j].status = "valid" =>
           table'[j] = table[j]
    BY <1>5 DEF Revoke, CapTypeOK, Entry
  <2>2. Held(x)' \subseteq Held(x)
    BY <2>1 DEF Held
  <2>3. Cardinality(Held(x)') <= Cardinality(Held(x))
    BY <1>0, <2>2, Shrink
  <2>. QED
    BY <1>0, <2>3
<1>6. CASE UNCHANGED table
  BY <1>0, <1>6 DEF Held
<1>. QED
  BY <1>1, <1>2, <1>3, <1>4, <1>5, <1>6 DEF CapNext

(* For every configuration, no domain ever holds more than                 *)
(* CAPAS_PER_DOMAIN valid capabilities: the monitor checks the quota of    *)
(* the domain that receives each new capability (the caller for segment    *)
(* and duplicate, dest for share and send), and revoke only removes.       *)
THEOREM WithinQuotaTheorem == CapSpec => []WithinQuota
<1>1. CapInit => WithinQuota
  <2> SUFFICES ASSUME CapInit, NEW x \in Domains
               PROVE  Cardinality(Held(x)) <= CapasPerDomain
    BY DEF WithinQuota
  <2>1. Held(x) \subseteq {1}
    BY DEF CapInit, Held, FreeEntry, RootEntry
  <2>2. Cardinality(Held(x)) <= 1
    <3>1. IsFiniteSet({1}) /\ Cardinality({1}) = 1
      BY Zenon, FS_Singleton
    <3>2. Held(x) \in SUBSET {1}
      BY <2>1
    <3>3. Cardinality(Held(x)) <= Cardinality({1})
      BY <3>1, <3>2, FS_Subset, Zenon
    <3>. QED
      BY <3>1, <3>3, IndexSetFinite DEF Held
  <2>3. Cardinality(Held(x)) \in Nat
    <3>1. Held(x) \in SUBSET Indices
      BY DEF Held
    <3>. QED
      BY <3>1, IndexSetFinite
  <2>. QED
    BY <2>2, <2>3
<1>2. CapIInv /\ WithinQuota /\ [CapNext]_table => CapIInv' /\ WithinQuota'
  BY CapNextIInv, QuotaStep DEF CapIInv
<1>. QED
  BY <1>1, <1>2, CapInitIInv, PTL DEF CapSpec

=============================================================================
