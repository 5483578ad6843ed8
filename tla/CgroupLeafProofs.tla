--------------------------- MODULE CgroupLeafProofs ---------------------------
(***************************************************************************)
(* For any set of retainers and any bounds: no two leaves are in use under *)
(* one delegated root, and no call hides a leaf it left behind.            *)
(*                                                                         *)
(* OneRetainedLeaf is not inductive: it does not say that a retainer past  *)
(* its exclusive look still has its leaf, nor that one that has not looked *)
(* yet was never handed out.  LeafIInv adds where each retainer's leaf is  *)
(* at each place of the call.                                              *)
(***************************************************************************)
EXTENDS CgroupLeaf, TLAPS

\* Places of a call at which its leaf exists, and at which it does not.
HasLeaf == {"open", "exclusive", "configure", "retained", "kill", "wait",
            "remove", "rmdir"}
HasNoLeaf == {"start", "create", "audit"}

\* Past an exclusive look and not yet cleaning up, or handed out.
Owner(r) == r \in leaves /\ (pc[r] \in {"configure", "retained"} \/ r \in handed)

\* The inductive invariant.
LeafIInv ==
    /\ LeafTypeOK
    /\ \A r \in Retainers : pc[r] \in HasLeaf => r \in leaves
    /\ \A r \in Retainers : pc[r] \in HasNoLeaf => r \notin leaves
    /\ \A r \in Retainers : pc[r] \in {"start", "create"} => r \notin handed
    /\ \A r, s \in Retainers : Owner(r) /\ Owner(s) => r = s
    /\ NoSilentResidue

\* The initial state, with an empty root, satisfies the invariant.
LEMMA LeafInitInv == LeafInit => LeafIInv
  BY LeafAssumption
     DEF LeafInit, LeafIInv, LeafTypeOK, HasLeaf, HasNoLeaf, Owner,
         NoSilentResidue, Working, Errors, None

\* Every step of every handler keeps the types.
LEMMA LeafTypeStep == LeafTypeOK /\ [LeafNext]_leafVars => LeafTypeOK'
<1> SUFFICES ASSUME LeafTypeOK, [LeafNext]_leafVars PROVE LeafTypeOK'
  OBVIOUS
<1> USE LeafAssumption DEF LeafTypeOK, Working, Errors, None, Goto, Report,
        CleanUpBecause, FallBack
<1>1. CASE UNCHANGED leafVars
  BY <1>1 DEF leafVars
<1>2. ASSUME NEW r \in Retainers, RequireEmptyRoot(r) PROVE LeafTypeOK'
  BY <1>2 DEF RequireEmptyRoot
<1>3. ASSUME NEW r \in Retainers, CreateLeaf(r) PROVE LeafTypeOK'
  BY <1>3 DEF CreateLeaf
<1>4. ASSUME NEW r \in Retainers, OpenLeaf(r) PROVE LeafTypeOK'
  BY <1>4 DEF OpenLeaf
<1>5. ASSUME NEW r \in Retainers, RequireExclusive(r) \/ Configure(r)
      PROVE LeafTypeOK'
  BY <1>5 DEF RequireExclusive, Configure
<1>6. ASSUME NEW r \in Retainers, WriteKill(r) PROVE LeafTypeOK'
  BY <1>6 DEF WriteKill, Killed
<1>7. ASSUME NEW r \in Retainers, WaitPopulatedZero(r) PROVE LeafTypeOK'
  BY <1>7 DEF WaitPopulatedZero
<1>8. ASSUME NEW r \in Retainers, CheckBeforeRemoval(r) PROVE LeafTypeOK'
  BY <1>8 DEF CheckBeforeRemoval
<1>9. ASSUME NEW r \in Retainers, RemoveLeaf(r) PROVE LeafTypeOK'
  BY <1>9 DEF RemoveLeaf, Killed
<1>10. ASSUME NEW r \in Retainers, AuditRoot(r) PROVE LeafTypeOK'
  BY <1>10 DEF AuditRoot
<1>11. ASSUME NEW r \in Retainers, FallbackRemove(r) PROVE LeafTypeOK'
  BY <1>11 DEF FallbackRemove
<1>12. ASSUME NEW r \in Retainers, DuplicateLeafFd(r) \/ BeginCleanup(r)
       PROVE LeafTypeOK'
  BY <1>12 DEF DuplicateLeafFd, BeginCleanup
<1>13. ASSUME NEW r \in Retainers, Occupy(r) \/ Vacate(r) \/ Crash(r)
       PROVE LeafTypeOK'
  BY <1>13 DEF Occupy, Vacate, Crash
<1> QED
  BY <1>1, <1>2, <1>3, <1>4, <1>5, <1>6, <1>7, <1>8, <1>9, <1>10, <1>11,
     <1>12, <1>13 DEF LeafNext, Proceed

\* Every step keeps the rest of the invariant.
LEMMA LeafStep == LeafIInv /\ [LeafNext]_leafVars => LeafIInv'
<1> SUFFICES ASSUME LeafIInv, [LeafNext]_leafVars PROVE LeafIInv'
  OBVIOUS
<1>0. LeafTypeOK /\ LeafTypeOK'
  BY LeafTypeStep DEF LeafIInv
<1> DEFINE Rest ==
      /\ \A r \in Retainers : pc[r] \in HasLeaf => r \in leaves
      /\ \A r \in Retainers : pc[r] \in HasNoLeaf => r \notin leaves
      /\ \A r \in Retainers : pc[r] \in {"start", "create"} => r \notin handed
      /\ \A r, s \in Retainers : Owner(r) /\ Owner(s) => r = s
      /\ NoSilentResidue
<1>R. Rest
  BY DEF LeafIInv
<1>T. /\ pc \in [Retainers -> Working \cup {"retained", "finished", "dead"}]
      /\ leaves \in SUBSET Retainers /\ handed \in SUBSET Retainers
      /\ outcome \in [Retainers -> Errors \cup {None, "cleaned"}]
  BY <1>0 DEF LeafTypeOK
<1> USE <1>R, <1>T DEF HasLeaf, HasNoLeaf, Owner, NoSilentResidue, Goto,
        Report, CleanUpBecause, FallBack
<1>1. CASE UNCHANGED leafVars
  BY <1>1, <1>0 DEF leafVars, LeafIInv
<1>2. ASSUME NEW r \in Retainers, RequireEmptyRoot(r) PROVE Rest'
  BY <1>2 DEF RequireEmptyRoot
<1>3. ASSUME NEW r \in Retainers, CreateLeaf(r) PROVE Rest'
  BY <1>3 DEF CreateLeaf
<1>4. ASSUME NEW r \in Retainers, OpenLeaf(r) PROVE Rest'
  BY <1>4 DEF OpenLeaf
<1>5. ASSUME NEW r \in Retainers, RequireExclusive(r) PROVE Rest'
  BY <1>5 DEF RequireExclusive, Alone, Exclusive
<1>6. ASSUME NEW r \in Retainers, Configure(r) PROVE Rest'
  BY <1>6 DEF Configure, Alone, Exclusive
<1>7. ASSUME NEW r \in Retainers, WriteKill(r) PROVE Rest'
  BY <1>7 DEF WriteKill
<1>8. ASSUME NEW r \in Retainers, WaitPopulatedZero(r) PROVE Rest'
  BY <1>8 DEF WaitPopulatedZero
<1>9. ASSUME NEW r \in Retainers, CheckBeforeRemoval(r) PROVE Rest'
  BY <1>9 DEF CheckBeforeRemoval
<1>10. ASSUME NEW r \in Retainers, RemoveLeaf(r) PROVE Rest'
  BY <1>10 DEF RemoveLeaf
<1>11. ASSUME NEW r \in Retainers, AuditRoot(r) PROVE Rest'
  BY <1>11 DEF AuditRoot
<1>12. ASSUME NEW r \in Retainers, FallbackRemove(r) PROVE Rest'
  BY <1>12 DEF FallbackRemove
<1>13. ASSUME NEW r \in Retainers, DuplicateLeafFd(r) PROVE Rest'
  BY <1>13 DEF DuplicateLeafFd, Alone, Exclusive
<1>14. ASSUME NEW r \in Retainers, BeginCleanup(r) PROVE Rest'
  BY <1>14 DEF BeginCleanup
<1>15. ASSUME NEW r \in Retainers, Occupy(r) \/ Vacate(r) PROVE Rest'
  BY <1>15 DEF Occupy, Vacate
<1>16. ASSUME NEW r \in Retainers, Crash(r) PROVE Rest'
  BY <1>16 DEF Crash
<1>17. CASE LeafNext
  <2>1. Rest'
    BY <1>17, <1>2, <1>3, <1>4, <1>5, <1>6, <1>7, <1>8, <1>9, <1>10, <1>11,
       <1>12, <1>13, <1>14, <1>15, <1>16 DEF LeafNext, Proceed
  <2> QED BY <2>1, <1>0 DEF LeafIInv
<1> QED
  BY <1>1, <1>17 DEF LeafIInv, leafVars

\* The invariant holds in every reachable state.
THEOREM LeafInvariant == LeafSpec => []LeafIInv
  BY LeafInitInv, LeafStep, PTL DEF LeafSpec

\* Types are kept by retain, hand-off, cleanup, crashes and the launcher.
THEOREM LeafTypes == LeafSpec => []LeafTypeOK
<1>1. LeafIInv => LeafTypeOK
  BY DEF LeafIInv
<1> QED BY <1>1, LeafInvariant, PTL

\* For any number of racing and dying callers, retain_linux_cgroup_v2_leaf
\* never lets two leaves be in use under one delegated root.
THEOREM LeafExclusive == LeafSpec => []OneRetainedLeaf
<1>1. LeafIInv => OneRetainedLeaf
  BY DEF LeafIInv, OneRetainedLeaf, InUse, Owner
<1> QED BY <1>1, LeafInvariant, PTL

\* A call that reports anything but cleanup_incomplete left no leaf.
THEOREM LeafResidueReported == LeafSpec => []NoSilentResidue
<1>1. LeafIInv => NoSilentResidue
  BY DEF LeafIInv
<1> QED BY <1>1, LeafInvariant, PTL
===============================================================================
