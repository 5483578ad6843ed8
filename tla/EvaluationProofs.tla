-------------------------- MODULE EvaluationProofs --------------------------
(***************************************************************************)
(* Replay bundles for any number of writers, readers, paths and record     *)
(* files, with the aggregation running beside them.  The three properties  *)
(* are not inductive.  SealInv adds how far a writer has come and what     *)
(* that says of its directory, in memory and on disk; InspectionInv adds   *)
(* what an inspection that is still running has read.                      *)
(***************************************************************************)
EXTENDS Evaluation, TLAPS

Subs == (UNION {Offered[w] : w \in Writers}) \cup {NoValue}

WriterPCs ==
  {"idle", "look", "reserve", "write", "sync", "verify", "recheck", "discard",
   "rmdir", "returned", "failed", "residue", "dead"}
WriterState == [pc : WriterPCs, path : Paths \cup {NoValue}, sub : Subs, n : Nat]

InspectionState ==
  [pc : {"idle", "open", "manifest", "list", "read", "recheck", "done"},
   path : Paths \cup {NoValue}, expect : Subs, root : Writers \cup {NoValue},
   meta : SUBSET Names, n : Nat, seen : SUBSET (Writers \X Names \X BOOLEAN),
   valid : BOOLEAN, policy : NewPolicies \cup {NoValue}]

DiskTypeOK ==
  /\ parent \in {"absent", "fresh", "durable"}
  /\ at \in [Paths -> Writers \cup {NoValue}]
  /\ durAt \in [Paths -> Writers \cup {NoValue}]
  /\ tree \in [Writers -> SUBSET Names]
  /\ durTree \in [Writers -> SUBSET Names]
  /\ removed \subseteq Writers
  /\ damaged \subseteq Writers \X Names
  /\ disturbed \subseteq Writers
  /\ powerLost \in BOOLEAN

ReplayTypeOK ==
  /\ DiskTypeOK
  /\ writer \in [Writers -> WriterState]
  /\ insp \in [Callers -> InspectionState]

\* Calls that have not reserved their target, and calls whose target holds
\* everything they have to write.
Unreserved(w) == writer[w].pc \in {"idle", "look", "reserve"}
Filled(w) == writer[w].pc \in {"sync", "verify", "recheck", "returned"}

\* A directory is found only under the path its writer was given.
Placed ==
  \A w \in Writers, p \in Paths :
    at[p] = w \/ durAt[p] = w => writer[w].path = p /\ ~Unreserved(w)

\* What a call has made of its directory, in memory and on disk.
Progress ==
  \A w \in Writers :
    /\ writer[w].pc # "idle" => writer[w].path \in Paths
    /\ Unreserved(w) => tree[w] = {} /\ durTree[w] = {}
    /\ writer[w].pc = "write" => writer[w].n \in 1..Len(WriteOrder)
    /\ Filled(w) => durTree[w] = tree[w] /\ "manifest" \in tree[w]
    /\ writer[w].pc = "returned" => tree[w] = Names

\* From the synchronisation of the parent on, the name is there on disk.
Named ==
  \A w \in Writers :
    /\ writer[w].pc \in {"verify", "recheck", "returned"}
    /\ w \notin disturbed
    /\ parent = "durable" \/ ~powerLost
    => at[writer[w].path] = w /\ durAt[writer[w].path] = w

\* Only a crash of its writer or a disturbance damages an entry.
Damage ==
  \A w \in Writers, name \in Names :
    <<w, name>> \in damaged => w \in disturbed \/ writer[w].pc = "dead"

\* What the rollback has removed.
RolledBack ==
  ~powerLost => \A w \in Writers :
    /\ writer[w].pc \in {"rmdir", "failed"} => tree[w] = {}
    /\ writer[w].pc = "failed" => \A p \in Paths : at[p] # w

SealInv == Placed /\ Progress /\ Named /\ Damage /\ RolledBack

\* What an inspection has read so far.
ReadSoFar(i) ==
  CASE insp[i].pc = "list" -> {"manifest"}
    [] insp[i].pc = "read" -> {"manifest"} \cup {ReadOrder[j] : j \in 1..(insp[i].n - 1)}
    [] OTHER -> Names

InspectionOK(i) ==
  /\ insp[i].pc = "open" => insp[i].path \in Paths
  /\ insp[i].pc \in {"open", "manifest", "list"} => insp[i].n = 1
  /\ insp[i].pc = "read" => insp[i].n \in 1..Len(ReadOrder)
  /\ insp[i].pc \in {"manifest", "list", "read", "recheck"} \/ insp[i].valid =>
       insp[i].root \in Writers /\ writer[insp[i].root].pc # "idle"
  /\ insp[i].pc \in {"list", "read", "recheck"} \/ insp[i].valid =>
       insp[i].seen = {insp[i].root} \X ReadSoFar(i) \X {TRUE}
  /\ insp[i].valid =>
       /\ insp[i].pc = "done"
       /\ writer[insp[i].root].sub \in WellGraded
       /\ insp[i].expect \in {NoValue, writer[insp[i].root].sub}

InspectionInv == \A i \in Callers : InspectionOK(i)

ReplayIInv == ReplayTypeOK /\ SealInv /\ InspectionInv

-----------------------------------------------------------------------------
(* The orders of the entries                                               *)

\* The manifest comes last, and Names are the entries of each order.
LEMMA Orders ==
  /\ Len(WriteOrder) = Len(RecordFiles) + 2
  /\ \A j \in 1..Len(WriteOrder) : WriteOrder[j] \in Names
  /\ WriteOrder[Len(WriteOrder)] = "manifest"
  /\ {"manifest", "artifacts"} \subseteq Names
  /\ {DiscardOrder[j] : j \in DOMAIN DiscardOrder} = Names
  /\ Len(ReadOrder) = Len(RecordFiles) + 1
  /\ {"manifest"} \cup {ReadOrder[j] : j \in 1..Len(ReadOrder)} = Names
<1> DEFINE L == Len(RecordFiles)
           F == {RecordFiles[j] : j \in 1..L}
<1>1. L \in Nat /\ RecordFiles \in Seq(STRING) /\ DOMAIN RecordFiles = 1..L
  BY ReplayAssumption
<1>2. /\ Len(WriteOrder) = L + 2 /\ DOMAIN WriteOrder = 1..(L + 2)
      /\ WriteOrder[1] = "artifacts" /\ WriteOrder[L + 2] = "manifest"
      /\ \A j \in 1..L : WriteOrder[j + 1] = RecordFiles[j]
  BY <1>1 DEF WriteOrder
<1>3. /\ Len(DiscardOrder) = L + 2 /\ DOMAIN DiscardOrder = 1..(L + 2)
      /\ DiscardOrder[L + 1] = "manifest" /\ DiscardOrder[L + 2] = "artifacts"
      /\ \A j \in 1..L : DiscardOrder[j] = RecordFiles[j]
  BY <1>1 DEF DiscardOrder
<1>4. /\ Len(ReadOrder) = L + 1 /\ ReadOrder[L + 1] = "artifacts"
      /\ \A j \in 1..L : ReadOrder[j] = RecordFiles[j]
  BY <1>1 DEF ReadOrder
<1>5. Names = F \cup {"manifest", "artifacts"}
  <2>1. ASSUME NEW x \in Names PROVE x \in F \cup {"manifest", "artifacts"}
    <3>1. PICK j \in 1..(L + 2) : x = WriteOrder[j]
      BY <1>2 DEF Names
    <3>2. CASE j \in 2..(L + 1)
      <4>1. j - 1 \in 1..L /\ (j - 1) + 1 = j
        BY <3>2, <1>1
      <4> QED
        BY <4>1, <3>1, <1>2
    <3> QED
      BY <3>1, <3>2, <1>1, <1>2
  <2>2. ASSUME NEW x \in F PROVE x \in Names
    <3>1. PICK j \in 1..L : x = RecordFiles[j]
      OBVIOUS
    <3>2. j + 1 \in 1..(L + 2)
      BY <1>1
    <3> QED
      BY <3>1, <3>2, <1>2 DEF Names
  <2>3. 1 \in 1..(L + 2) /\ L + 2 \in 1..(L + 2)
    BY <1>1
  <2>4. {"manifest", "artifacts"} \subseteq Names
    BY <2>3, <1>2 DEF Names
  <2> QED
    BY <2>1, <2>2, <2>4
<1>6. {DiscardOrder[j] : j \in DOMAIN DiscardOrder} = F \cup {"manifest", "artifacts"}
  <2>1. 1..(L + 2) = (1..L) \cup {L + 1, L + 2}
    BY <1>1
  <2> QED
    BY <2>1, <1>3
<1>7. {"manifest"} \cup {ReadOrder[j] : j \in 1..(L + 1)} = F \cup {"manifest", "artifacts"}
  <2>1. 1..(L + 1) = (1..L) \cup {L + 1}
    BY <1>1
  <2> QED
    BY <2>1, <1>4
<1>8. \A j \in 1..Len(WriteOrder) : WriteOrder[j] \in Names
  BY <1>2 DEF Names
<1> QED
  BY <1>2, <1>4, <1>5, <1>6, <1>7, <1>8

-----------------------------------------------------------------------------
(* Types                                                                   *)

\* At the start no call has been made and no directory is there.
LEMMA ReplayInit == Init => ReplayIInv
<1> SUFFICES ASSUME Init PROVE ReplayIInv
  OBVIOUS
<1>1. ReplayTypeOK
  BY DEF Init, ReplayTypeOK, DiskTypeOK, WriterPCs, WriterState, InspectionState,
         NoInspection, Subs, Callers
<1>2. SealInv
  BY ReplayAssumption DEF Init, SealInv, Placed, Progress, Named, Damage, RolledBack,
    Unreserved, Filled
<1>3. InspectionInv
  BY DEF Init, InspectionInv, InspectionOK, NoInspection
<1> QED
  BY <1>1, <1>2, <1>3 DEF ReplayIInv

\* Moving on keeps the types of a writer's locals.
LEMMA GotoTypes ==
  ASSUME writer \in [Writers -> WriterState], NEW w \in Writers,
         NEW pc \in WriterPCs, Goto(w, pc)
  PROVE  writer' \in [Writers -> WriterState]
BY DEF Goto, WriterState

\* So does writing an entry.
LEMMA WroteTypes ==
  ASSUME writer \in [Writers -> WriterState], NEW w \in Writers, Wrote(w)
  PROVE  writer' \in [Writers -> WriterState]
<1>1. PICK pc \in WriterPCs :
        writer' = [writer EXCEPT ![w].n = @ + 1, ![w].pc = pc]
  BY DEF Wrote, WriterPCs
<1>2. writer[w] \in WriterState /\ writer[w].n + 1 \in Nat
  BY DEF WriterState
<1>3. [writer[w] EXCEPT !.n = writer[w].n + 1, !.pc = pc] \in WriterState
  BY <1>2 DEF WriterState
<1>4. writer' = [writer EXCEPT ![w] = [writer[w] EXCEPT !.n = writer[w].n + 1, !.pc = pc]]
  BY <1>1
<1> QED
  BY <1>3, <1>4

\* An inspection that gives up keeps the types of its locals.
LEMMA InvalidTypes ==
  ASSUME insp \in [Callers -> InspectionState], NEW i \in Callers, Invalid(i)
  PROVE  insp' \in [Callers -> InspectionState]
BY DEF Invalid, NoInspection, InspectionState, Subs

\* Every step keeps the types.
LEMMA ReplayTypeStep == ReplayIInv /\ [EvaluationNext]_vars => ReplayTypeOK'
<1> SUFFICES ASSUME ReplayIInv, [EvaluationNext]_vars PROVE ReplayTypeOK'
  OBVIOUS
<1>0. /\ DiskTypeOK
      /\ writer \in [Writers -> WriterState]
      /\ insp \in [Callers -> InspectionState]
  BY DEF ReplayIInv, ReplayTypeOK
<1> USE DEF disk, history
<1>1. CASE UNCHANGED vars
  BY <1>1, <1>0 DEF ReplayTypeOK, DiskTypeOK, vars
<1>2. ASSUME NEW w \in Writers, Begin(w) PROVE ReplayTypeOK'
  <2>1. DiskTypeOK'
    BY <1>2, <1>0 DEF Begin, DiskTypeOK
  <2>2. writer' \in [Writers -> WriterState]
    BY <1>2, <1>0 DEF Begin, WriterState, WriterPCs, Subs
  <2>3. insp' \in [Callers -> InspectionState]
    BY <1>2, <1>0 DEF Begin
  <2> QED
    BY <2>1, <2>2, <2>3 DEF ReplayTypeOK
<1>3. ASSUME NEW w \in Writers, Look(w) PROVE ReplayTypeOK'
  <2>1. DiskTypeOK'
    BY <1>3, <1>0 DEF Look, DiskTypeOK
  <2>2. writer' \in [Writers -> WriterState]
    BY <1>3, <1>0, GotoTypes DEF Look, WriterPCs
  <2>3. insp' \in [Callers -> InspectionState]
    BY <1>3, <1>0 DEF Look
  <2> QED
    BY <2>1, <2>2, <2>3 DEF ReplayTypeOK
<1>4. ASSUME NEW w \in Writers, Reserve(w) PROVE ReplayTypeOK'
  <2>1. DiskTypeOK'
    BY <1>4, <1>0 DEF Reserve, DiskTypeOK
  <2>2. writer' \in [Writers -> WriterState]
    BY <1>4, <1>0, GotoTypes DEF Reserve, WriterPCs
  <2>3. insp' \in [Callers -> InspectionState]
    BY <1>4, <1>0 DEF Reserve
  <2> QED
    BY <2>1, <2>2, <2>3 DEF ReplayTypeOK
<1>5. ASSUME NEW w \in Writers, MakeStore(w) PROVE ReplayTypeOK'
  <2>1. DiskTypeOK'
    BY <1>5, <1>0, Orders DEF MakeStore, DiskTypeOK
  <2>2. writer' \in [Writers -> WriterState]
    BY <1>5, <1>0, WroteTypes DEF MakeStore
  <2>3. insp' \in [Callers -> InspectionState]
    BY <1>5, <1>0 DEF MakeStore
  <2> QED
    BY <2>1, <2>2, <2>3 DEF ReplayTypeOK
<1>6. ASSUME NEW w \in Writers, WriteFile(w) PROVE ReplayTypeOK'
  <2>1. DiskTypeOK'
    BY <1>6, <1>0, Orders DEF WriteFile, Entry, ReplayIInv, SealInv, Progress, DiskTypeOK
  <2>2. writer' \in [Writers -> WriterState]
    BY <1>6, <1>0, WroteTypes DEF WriteFile
  <2>3. insp' \in [Callers -> InspectionState]
    BY <1>6, <1>0 DEF WriteFile
  <2> QED
    BY <2>1, <2>2, <2>3 DEF ReplayTypeOK
<1>7. ASSUME NEW w \in Writers, SyncParent(w) PROVE ReplayTypeOK'
  <2>1. DiskTypeOK'
    BY <1>7, <1>0 DEF SyncParent, DiskTypeOK, ReplayIInv, SealInv, Progress
  <2>2. writer' \in [Writers -> WriterState]
    BY <1>7, <1>0, GotoTypes DEF SyncParent, WriterPCs
  <2>3. insp' \in [Callers -> InspectionState]
    BY <1>7, <1>0 DEF SyncParent, NoInspection, InspectionState, WriterState, Subs, Callers
  <2> QED
    BY <2>1, <2>2, <2>3 DEF ReplayTypeOK
<1>8. ASSUME NEW w \in Writers, Verified(w) PROVE ReplayTypeOK'
  <2>1. DiskTypeOK'
    BY <1>8, <1>0 DEF Verified, DiskTypeOK
  <2>2. writer' \in [Writers -> WriterState]
    BY <1>8, <1>0, GotoTypes DEF Verified, WriterPCs
  <2>3. insp' \in [Callers -> InspectionState]
    BY <1>8, <1>0 DEF Verified, NoInspection, InspectionState, Subs, Callers
  <2> QED
    BY <2>1, <2>2, <2>3 DEF ReplayTypeOK
<1>9. ASSUME NEW w \in Writers, Publish(w) PROVE ReplayTypeOK'
  <2>1. DiskTypeOK'
    BY <1>9, <1>0 DEF Publish, DiskTypeOK
  <2>2. writer' \in [Writers -> WriterState]
    BY <1>9, <1>0, GotoTypes DEF Publish, WriterPCs
  <2>3. insp' \in [Callers -> InspectionState]
    BY <1>9, <1>0 DEF Publish
  <2> QED
    BY <2>1, <2>2, <2>3 DEF ReplayTypeOK
<1>10. ASSUME NEW w \in Writers, Raise(w) PROVE ReplayTypeOK'
  <2>1. DiskTypeOK'
    BY <1>10, <1>0 DEF Raise, DiskTypeOK
  <2>2. writer' \in [Writers -> WriterState]
    BY <1>10, <1>0, GotoTypes DEF Raise, WriterPCs
  <2>3. insp' \in [Callers -> InspectionState]
    BY <1>10, <1>0 DEF Raise
  <2> QED
    BY <2>1, <2>2, <2>3 DEF ReplayTypeOK
<1>11. ASSUME NEW w \in Writers, DiscardEntry(w) PROVE ReplayTypeOK'
  <2>1. DiskTypeOK'
    BY <1>11, <1>0 DEF DiscardEntry, DiskTypeOK
  <2>2. writer' \in [Writers -> WriterState]
    BY <1>11, <1>0, GotoTypes DEF DiscardEntry, WriterPCs
  <2>3. insp' \in [Callers -> InspectionState]
    BY <1>11, <1>0 DEF DiscardEntry
  <2> QED
    BY <2>1, <2>2, <2>3 DEF ReplayTypeOK
<1>12. ASSUME NEW w \in Writers, DiscardFails(w) PROVE ReplayTypeOK'
  <2>1. DiskTypeOK'
    BY <1>12, <1>0 DEF DiscardFails, DiskTypeOK
  <2>2. writer' \in [Writers -> WriterState]
    BY <1>12, <1>0, GotoTypes DEF DiscardFails, WriterPCs
  <2>3. insp' \in [Callers -> InspectionState]
    BY <1>12, <1>0 DEF DiscardFails
  <2> QED
    BY <2>1, <2>2, <2>3 DEF ReplayTypeOK
<1>13. ASSUME NEW w \in Writers, RemoveTarget(w) PROVE ReplayTypeOK'
  <2>1. DiskTypeOK'
    BY <1>13, <1>0 DEF RemoveTarget, DiskTypeOK, ReplayIInv, SealInv, Progress
  <2>2. writer' \in [Writers -> WriterState]
    BY <1>13, <1>0, GotoTypes DEF RemoveTarget, WriterPCs
  <2>3. insp' \in [Callers -> InspectionState]
    BY <1>13, <1>0 DEF RemoveTarget
  <2> QED
    BY <2>1, <2>2, <2>3 DEF ReplayTypeOK
<1>14. ASSUME NEW w \in Writers, Crash(w) PROVE ReplayTypeOK'
  <2>1. DiskTypeOK'
    BY <1>14, <1>0, Orders DEF Crash, Entry, ReplayIInv, SealInv, Progress, DiskTypeOK
  <2>2. writer' \in [Writers -> WriterState]
    BY <1>14, <1>0, GotoTypes DEF Crash, WriterPCs
  <2>3. insp' \in [Callers -> InspectionState]
    BY <1>14, <1>0 DEF Crash, Stop, NoInspection, InspectionState, Subs, Callers
  <2> QED
    BY <2>1, <2>2, <2>3 DEF ReplayTypeOK
<1>15. ASSUME NEW i \in Readers, Verify(i) PROVE ReplayTypeOK'
  <2>1. DiskTypeOK'
    BY <1>15, <1>0 DEF Verify, DiskTypeOK
  <2>2. writer' \in [Writers -> WriterState]
    BY <1>15, <1>0 DEF Verify
  <2>3. insp' \in [Callers -> InspectionState]
    <3>1. PICK p \in Paths, q \in NewPolicies,
            d \in {NoValue}
              \cup {writer[w].sub : w \in {v \in Writers : writer[v].pc = "returned"}} :
            insp' = [insp EXCEPT ![i] = [NoInspection EXCEPT
                       !.pc = "open", !.path = p, !.expect = d, !.policy = q]]
      BY <1>15 DEF Verify
    <3>2. d \in Subs
      BY <1>0, <3>1 DEF Subs, WriterState
    <3>3. [NoInspection EXCEPT !.pc = "open", !.path = p, !.expect = d, !.policy = q]
            \in InspectionState
      BY <3>2 DEF NoInspection, InspectionState
    <3> QED
      BY <1>0, <3>1, <3>3
  <2> QED
    BY <2>1, <2>2, <2>3 DEF ReplayTypeOK
<1>16. ASSUME NEW i \in Callers, OpenRoot(i) PROVE ReplayTypeOK'
  <2>1. DiskTypeOK'
    BY <1>16, <1>0 DEF OpenRoot, DiskTypeOK
  <2>2. writer' \in [Writers -> WriterState]
    BY <1>16, <1>0 DEF OpenRoot
  <2>3. insp' \in [Callers -> InspectionState]
    <3> DEFINE root == at[insp[i].path]
    <3>1. CASE root = NoValue
      BY <1>16, <1>0, <3>1, InvalidTypes DEF OpenRoot
    <3>2. CASE root # NoValue
      <4>1. insp[i].path \in Paths
        BY <1>16, <1>0 DEF OpenRoot, ReplayIInv, InspectionInv, InspectionOK
      <4>2. root \in Writers /\ tree[root] \in SUBSET Names
        BY <1>0, <3>2, <4>1 DEF DiskTypeOK
      <4>3. insp' = [insp EXCEPT ![i].pc = "manifest", ![i].root = root, ![i].meta = tree[root]]
        BY <1>16, <3>2 DEF OpenRoot
      <4> HIDE DEF root
      <4>4. [insp[i] EXCEPT !.pc = "manifest", !.root = root, !.meta = tree[root]]
              \in InspectionState
        BY <1>0, <4>2 DEF InspectionState
      <4>5. insp' = [insp EXCEPT ![i] =
                       [insp[i] EXCEPT !.pc = "manifest", !.root = root, !.meta = tree[root]]]
        BY <4>3
      <4> QED
        BY <1>0, <4>4, <4>5
    <3> QED
      BY <3>1, <3>2
  <2> QED
    BY <2>1, <2>2, <2>3 DEF ReplayTypeOK
<1>17. ASSUME NEW i \in Callers, ReadManifest(i) PROVE ReplayTypeOK'
  <2>1. DiskTypeOK'
    BY <1>17, <1>0 DEF ReadManifest, DiskTypeOK
  <2>2. writer' \in [Writers -> WriterState]
    BY <1>17, <1>0 DEF ReadManifest
  <2>3. insp' \in [Callers -> InspectionState]
    <3> DEFINE root == insp[i].root
    <3>1. CASE ~Intact(root, "manifest")
      BY <1>17, <1>0, <3>1, InvalidTypes DEF ReadManifest
    <3>2. CASE Intact(root, "manifest")
      <4>1. root \in Writers
        BY <1>17, <1>0 DEF ReadManifest, ReplayIInv, InspectionInv, InspectionOK
      <4>2. "manifest" \in Names
        BY Orders
      <4>3. Read(root, "manifest") \in Writers \X Names \X BOOLEAN
        BY <4>1, <4>2 DEF Read, Intact
      <4> DEFINE seen == {Read(root, "manifest")}
      <4>4. seen \in SUBSET (Writers \X Names \X BOOLEAN)
        BY <4>3
      <4>5. insp' = [insp EXCEPT ![i] = [insp[i] EXCEPT !.pc = "list", !.seen = seen]]
        BY <1>17, <3>2 DEF ReadManifest
      <4> HIDE DEF root, seen
      <4>6. [insp[i] EXCEPT !.pc = "list", !.seen = seen] \in InspectionState
        BY <1>0, <4>4 DEF InspectionState
      <4> QED
        BY <1>0, <4>5, <4>6
    <3> QED
      BY <3>1, <3>2
  <2> QED
    BY <2>1, <2>2, <2>3 DEF ReplayTypeOK
<1>18. ASSUME NEW i \in Callers, ListEntries(i) PROVE ReplayTypeOK'
  <2>1. DiskTypeOK'
    BY <1>18, <1>0 DEF ListEntries, DiskTypeOK
  <2>2. writer' \in [Writers -> WriterState]
    BY <1>18, <1>0 DEF ListEntries
  <2>3. insp' \in [Callers -> InspectionState]
    BY <1>18, <1>0, InvalidTypes DEF ListEntries, InspectionState
  <2> QED
    BY <2>1, <2>2, <2>3 DEF ReplayTypeOK
<1>19. ASSUME NEW i \in Callers, ReadEntry(i) PROVE ReplayTypeOK'
  <2>1. DiskTypeOK'
    BY <1>19, <1>0 DEF ReadEntry, DiskTypeOK
  <2>2. writer' \in [Writers -> WriterState]
    BY <1>19, <1>0 DEF ReadEntry
  <2>3. insp' \in [Callers -> InspectionState]
    <3> DEFINE root == insp[i].root
               name == ReadOrder[insp[i].n]
    <3>1. CASE ~Intact(root, name)
      BY <1>19, <1>0, <3>1, InvalidTypes DEF ReadEntry
    <3>2. CASE Intact(root, name)
      <4>1. root \in Writers /\ name \in Names
        BY <1>19, <1>0, Orders DEF ReadEntry, ReplayIInv, InspectionInv, InspectionOK
      <4>2. Read(root, name) \in Writers \X Names \X BOOLEAN
        BY <4>1 DEF Read, Intact
      <4>3. PICK pc \in {"read", "recheck"} :
              insp' = [insp EXCEPT ![i].pc = pc, ![i].n = @ + 1,
                         ![i].seen = @ \cup {Read(root, name)}]
        BY <1>19, <3>2 DEF ReadEntry
      <4> HIDE DEF root, name
      <4> QED
        BY <1>0, <4>2, <4>3 DEF InspectionState
    <3> QED
      BY <3>1, <3>2
  <2> QED
    BY <2>1, <2>2, <2>3 DEF ReplayTypeOK
<1>20. ASSUME NEW i \in Callers, Recheck(i) PROVE ReplayTypeOK'
  <2>1. DiskTypeOK'
    BY <1>20, <1>0 DEF Recheck, DiskTypeOK
  <2>2. writer' \in [Writers -> WriterState]
    BY <1>20, <1>0 DEF Recheck
  <2>3. insp' \in [Callers -> InspectionState]
    <3>1. PICK valid \in BOOLEAN :
            insp' = [insp EXCEPT ![i].pc = "done", ![i].valid = valid,
                       ![i].meta = {}, ![i].n = 1]
      BY <1>20 DEF Recheck
    <3>2. [insp[i] EXCEPT !.pc = "done", !.valid = valid, !.meta = {}, !.n = 1]
            \in InspectionState
      BY <1>0 DEF InspectionState
    <3>3. insp' = [insp EXCEPT ![i] =
                     [insp[i] EXCEPT !.pc = "done", !.valid = valid, !.meta = {}, !.n = 1]]
      BY <3>1
    <3> QED
      BY <1>0, <3>2, <3>3
  <2> QED
    BY <2>1, <2>2, <2>3 DEF ReplayTypeOK
<1>21. ASSUME NEW i \in Callers, InspectionFails(i) PROVE ReplayTypeOK'
  <2>1. DiskTypeOK'
    BY <1>21, <1>0 DEF InspectionFails, DiskTypeOK
  <2>2. writer' \in [Writers -> WriterState]
    BY <1>21, <1>0 DEF InspectionFails
  <2>3. insp' \in [Callers -> InspectionState]
    BY <1>21, <1>0, InvalidTypes DEF InspectionFails
  <2> QED
    BY <2>1, <2>2, <2>3 DEF ReplayTypeOK
<1>22. CASE PowerLoss
  <2>1. DiskTypeOK'
    BY <1>22, <1>0 DEF PowerLoss, DiskTypeOK
  <2>2. writer' \in [Writers -> WriterState]
    <3>1. ASSUME NEW w \in Writers, NEW pc \in WriterPCs
          PROVE  [writer[w] EXCEPT !.pc = pc] \in WriterState
      BY <1>0 DEF WriterState
    <3>2. \A w \in Writers : writer[w].pc \in WriterPCs
      BY <1>0 DEF WriterState
    <3>3. "dead" \in WriterPCs
      BY DEF WriterPCs
    <3> QED
      BY <1>22, <3>1, <3>2, <3>3 DEF PowerLoss
  <2>3. insp' \in [Callers -> InspectionState]
    BY <1>22, <1>0 DEF PowerLoss, Stop, NoInspection, InspectionState, Subs
  <2> QED
    BY <2>1, <2>2, <2>3 DEF ReplayTypeOK
<1>23. ASSUME NEW p \in Paths, MoveAway(p) PROVE ReplayTypeOK'
  BY <1>23, <1>0 DEF MoveAway, ReplayTypeOK, DiskTypeOK
<1>24. ASSUME NEW w \in Writers, NEW name \in Names, Alter(w, name) PROVE ReplayTypeOK'
  BY <1>24, <1>0 DEF Alter, ReplayTypeOK, DiskTypeOK
<1>25. CASE AggregateAttempts
  BY <1>25, <1>0 DEF AggregateAttempts, ReplayTypeOK, DiskTypeOK
<1> QED
  BY <1>1, <1>2, <1>3, <1>4, <1>5, <1>6, <1>7, <1>8, <1>9, <1>10, <1>11, <1>12,
     <1>13, <1>14, <1>15, <1>16, <1>17, <1>18, <1>19, <1>20, <1>21, <1>22, <1>23, <1>24, <1>25
    DEF EvaluationNext, Next, WriterStep, InspectionStep

-----------------------------------------------------------------------------
(* Sealing                                                                 *)

\* What moving on changes of the writers' locals.
LEMMA GotoFacts ==
  ASSUME writer \in [Writers -> WriterState], NEW w \in Writers, NEW pc, Goto(w, pc)
  PROVE  /\ writer'[w].pc = pc
         /\ writer'[w].n = 1
         /\ \A v \in Writers : writer'[v].path = writer[v].path
         /\ \A v \in Writers : writer'[v].sub = writer[v].sub
         /\ \A v \in Writers \ {w} : writer'[v] = writer[v]
BY DEF Goto, WriterState

\* What writing an entry changes of them.
LEMMA WroteFacts ==
  ASSUME writer \in [Writers -> WriterState], NEW w \in Writers, Wrote(w)
  PROVE  /\ writer'[w].pc = IF writer[w].n = Len(WriteOrder) THEN "sync" ELSE "write"
         /\ writer'[w].n = writer[w].n + 1
         /\ \A v \in Writers : writer'[v].path = writer[v].path
         /\ \A v \in Writers : writer'[v].sub = writer[v].sub
         /\ \A v \in Writers \ {w} : writer'[v] = writer[v]
BY DEF Wrote, WriterState

\* Only w moves, and it keeps its path.
OnlyMoves(w) ==
  /\ \A v \in Writers : writer'[v].path = writer[v].path
  /\ \A v \in Writers \ {w} : writer'[v] = writer[v]

\* Every step keeps SealInv.
LEMMA SealStep == ReplayIInv /\ [EvaluationNext]_vars => SealInv'
<1> SUFFICES ASSUME ReplayIInv, [EvaluationNext]_vars PROVE SealInv'
  OBVIOUS
<1>0. /\ DiskTypeOK /\ SealInv
      /\ writer \in [Writers -> WriterState]
  BY DEF ReplayIInv, ReplayTypeOK
<1>1. ASSUME UNCHANGED <<disk, writer, disturbed, powerLost>> PROVE SealInv'
  BY <1>0, <1>1 DEF SealInv, Placed, Progress, Named, Damage, RolledBack,
    Unreserved, Filled, disk
<1> USE DEF disk, history
<1>2. ASSUME NEW w \in Writers, Begin(w) PROVE SealInv'
  <2>0. /\ writer[w].pc = "idle" /\ writer'[w].pc \in {"look", "failed"}
        /\ writer'[w].path \in Paths
        /\ \A v \in Writers \ {w} : writer'[v] = writer[v]
        /\ parent' = "durable" => parent = "durable"
        /\ UNCHANGED <<at, tree, durAt, durTree, damaged, disturbed, powerLost>>
    BY <1>2, <1>0 DEF Begin
  <2>1. Placed'
    BY <1>0, <2>0 DEF SealInv, Placed, Unreserved, DiskTypeOK
  <2>2. Progress'
    BY <1>0, <2>0 DEF SealInv, OnlyMoves, Progress, Unreserved, Filled, DiskTypeOK
  <2>3. Named'
    BY <1>0, <2>0 DEF SealInv, OnlyMoves, Named, Progress
  <2>4. Damage'
    BY <1>0, <2>0 DEF SealInv, OnlyMoves, Damage
  <2>5. RolledBack'
    <3> SUFFICES ASSUME ~powerLost, NEW v \in Writers
                 PROVE  /\ writer'[v].pc \in {"rmdir", "failed"} => tree'[v] = {}
                        /\ writer'[v].pc = "failed" => \A p \in Paths : at'[p] # v
      BY <2>0 DEF RolledBack
    <3>1. CASE v # w
      BY <1>0, <2>0, <3>1 DEF SealInv, OnlyMoves, RolledBack
    <3>2. CASE v = w
      BY <1>0, <2>0, <3>2
      DEF SealInv, OnlyMoves, Placed, Progress, RolledBack, Unreserved
    <3> QED
      BY <3>1, <3>2
  <2> QED
    BY <2>1, <2>2, <2>3, <2>4, <2>5 DEF SealInv
<1>3. ASSUME NEW w \in Writers, Look(w) PROVE SealInv'
  <2>0. /\ writer[w].pc = "look" /\ writer'[w].pc \in {"reserve", "failed"} /\ OnlyMoves(w)
        /\ UNCHANGED <<disk, disturbed, powerLost>>
    BY <1>3, <1>0, GotoFacts DEF Look, OnlyMoves
  <2>1. Placed'
    BY <1>0, <2>0 DEF SealInv, OnlyMoves, Placed, Unreserved, DiskTypeOK
  <2>2. Progress'
    BY <1>0, <2>0 DEF SealInv, OnlyMoves, Progress, Unreserved, Filled, DiskTypeOK
  <2>3. Named'
    BY <1>0, <2>0 DEF SealInv, OnlyMoves, Named, Progress
  <2>4. Damage'
    BY <1>0, <2>0 DEF SealInv, OnlyMoves, Damage
  <2>5. RolledBack'
    <3> SUFFICES ASSUME ~powerLost, NEW v \in Writers
                 PROVE  /\ writer'[v].pc \in {"rmdir", "failed"} => tree'[v] = {}
                        /\ writer'[v].pc = "failed" => \A p \in Paths : at'[p] # v
      BY <2>0 DEF RolledBack
    <3>1. CASE v # w
      BY <1>0, <2>0, <3>1 DEF SealInv, OnlyMoves, RolledBack
    <3>2. CASE v = w
      BY <1>0, <2>0, <3>2
      DEF SealInv, OnlyMoves, Placed, Progress, RolledBack, Unreserved
    <3> QED
      BY <3>1, <3>2
  <2> QED
    BY <2>1, <2>2, <2>3, <2>4, <2>5 DEF SealInv
<1>4. ASSUME NEW w \in Writers, Reserve(w) PROVE SealInv'
  <2>0. /\ writer[w].pc = "reserve" /\ OnlyMoves(w)
        /\ \/ at' = at /\ writer'[w].pc = "failed"
           \/ /\ at[writer[w].path] = NoValue
              /\ at' = [at EXCEPT ![writer[w].path] = w]
              /\ writer'[w].pc \in {"write", "rmdir"} /\ writer'[w].n = 1
        /\ UNCHANGED <<parent, tree, durAt, durTree, damaged, disturbed, powerLost>>
    BY <1>4, <1>0, GotoFacts DEF Reserve, OnlyMoves
  <2>6. 1 \in 1..Len(WriteOrder)
    BY Orders, ReplayAssumption
  <2>1. Placed'
    BY <1>0, <2>0 DEF SealInv, OnlyMoves, Placed, Unreserved, DiskTypeOK
  <2>2. Progress'
    BY <1>0, <2>0, <2>6 DEF SealInv, OnlyMoves, Progress, Unreserved, Filled, DiskTypeOK
  <2>3. Named'
    BY <1>0, <2>0, ReplayAssumption DEF SealInv, OnlyMoves, Named, Progress, DiskTypeOK
  <2>4. Damage'
    BY <1>0, <2>0 DEF SealInv, OnlyMoves, Damage
  <2>5. RolledBack'
    <3> SUFFICES ASSUME ~powerLost, NEW v \in Writers
                 PROVE  /\ writer'[v].pc \in {"rmdir", "failed"} => tree'[v] = {}
                        /\ writer'[v].pc = "failed" => \A p \in Paths : at'[p] # v
      BY <2>0 DEF RolledBack
    <3>1. CASE v # w
      BY <1>0, <2>0, <3>1 DEF SealInv, OnlyMoves, RolledBack, DiskTypeOK
    <3>2. CASE v = w
      BY SMTT(30), <1>0, <2>0, <3>2
      DEF SealInv, OnlyMoves, Placed, Progress, RolledBack, Unreserved, DiskTypeOK
    <3> QED
      BY <3>1, <3>2
  <2> QED
    BY <2>1, <2>2, <2>3, <2>4, <2>5 DEF SealInv
<1>5. ASSUME NEW w \in Writers, MakeStore(w) PROVE SealInv'
  <2>0. /\ writer[w].pc = "write" /\ OnlyMoves(w)
        /\ writer'[w].pc = "write" /\ writer'[w].n \in 1..Len(WriteOrder)
        /\ tree' = [tree EXCEPT ![w] = tree[w] \cup {"artifacts"}]
        /\ UNCHANGED <<parent, at, durAt, durTree, damaged, disturbed, powerLost>>
    <3>1. writer[w].n \in 1..Len(WriteOrder) /\ writer[w].n # Len(WriteOrder)
      BY <1>5, <1>0, Orders DEF MakeStore, Entry, SealInv, Progress
    <3>2. Len(WriteOrder) \in Nat
      BY Orders, ReplayAssumption
    <3> QED
      BY SMTT(30), <1>5, <1>0, <3>1, <3>2, WroteFacts DEF MakeStore, OnlyMoves
  <2>1. Placed'
    BY <1>0, <2>0 DEF SealInv, OnlyMoves, Placed, Unreserved, DiskTypeOK
  <2>2. Progress'
    BY <1>0, <2>0 DEF SealInv, OnlyMoves, Progress, Unreserved, Filled, DiskTypeOK
  <2>3. Named'
    BY <1>0, <2>0 DEF SealInv, OnlyMoves, Named, Progress
  <2>4. Damage'
    BY <1>0, <2>0 DEF SealInv, OnlyMoves, Damage
  <2>5. RolledBack'
    <3> SUFFICES ASSUME ~powerLost, NEW v \in Writers
                 PROVE  /\ writer'[v].pc \in {"rmdir", "failed"} => tree'[v] = {}
                        /\ writer'[v].pc = "failed" => \A p \in Paths : at'[p] # v
      BY <2>0 DEF RolledBack
    <3>1. CASE v # w
      BY <1>0, <2>0, <3>1 DEF SealInv, OnlyMoves, RolledBack, DiskTypeOK
    <3>2. CASE v = w
      BY <1>0, <2>0, <3>2
      DEF SealInv, OnlyMoves, Placed, Progress, RolledBack, Unreserved, DiskTypeOK
    <3> QED
      BY <3>1, <3>2
  <2> QED
    BY <2>1, <2>2, <2>3, <2>4, <2>5 DEF SealInv
<1>6. ASSUME NEW w \in Writers, WriteFile(w) PROVE SealInv'
  <2>0. /\ writer[w].pc = "write" /\ OnlyMoves(w)
        /\ \/ writer'[w].pc = "write" /\ writer'[w].n \in 1..Len(WriteOrder)
           \/ writer'[w].pc = "sync" /\ "manifest" \in tree'[w]
        /\ \A v \in Writers \ {w} : tree'[v] = tree[v] /\ durTree'[v] = durTree[v]
        /\ durTree'[w] = tree'[w]
        /\ UNCHANGED <<parent, at, durAt, damaged, disturbed, powerLost>>
    <3>1. writer[w].n \in 1..Len(WriteOrder)
      BY <1>6, <1>0 DEF WriteFile, SealInv, Progress
    <3>2. Len(WriteOrder) \in Nat /\ WriteOrder[Len(WriteOrder)] = "manifest"
      BY Orders, ReplayAssumption
    <3>3. tree' = [tree EXCEPT ![w] = tree[w] \cup {WriteOrder[writer[w].n]}]
      BY <1>6 DEF WriteFile, Entry
    <3>4. durTree' = [durTree EXCEPT ![w] = tree'[w]]
      BY <1>6 DEF WriteFile
    <3>5. OnlyMoves(w) /\ writer'[w].n = writer[w].n + 1
          /\ writer'[w].pc = IF writer[w].n = Len(WriteOrder) THEN "sync" ELSE "write"
      BY <1>6, <1>0, WroteFacts DEF WriteFile, OnlyMoves
    <3>6. writer[w].n = Len(WriteOrder) => "manifest" \in tree'[w]
      BY <1>0, <3>2, <3>3 DEF DiskTypeOK
    <3>7. writer[w].n # Len(WriteOrder) => writer[w].n + 1 \in 1..Len(WriteOrder)
      BY <3>1, <3>2
    <3>8. \A v \in Writers \ {w} : tree'[v] = tree[v] /\ durTree'[v] = durTree[v]
      BY <1>0, <3>3, <3>4 DEF DiskTypeOK
    <3>9. durTree'[w] = tree'[w]
      BY <1>0, <3>4 DEF DiskTypeOK
    <3> QED
      BY <1>6, <3>5, <3>6, <3>7, <3>8, <3>9 DEF WriteFile
  <2>1. Placed'
    BY SMTT(30), <1>0, <2>0 DEF SealInv, OnlyMoves, Placed, Unreserved, DiskTypeOK
  <2>2. Progress'
    BY SMTT(30), <1>0, <2>0 DEF SealInv, OnlyMoves, Progress, Unreserved, Filled, DiskTypeOK
  <2>3. Named'
    BY <1>0, <2>0 DEF SealInv, OnlyMoves, Named, Progress
  <2>4. Damage'
    BY <1>0, <2>0 DEF SealInv, OnlyMoves, Damage
  <2>5. RolledBack'
    <3> SUFFICES ASSUME ~powerLost, NEW v \in Writers
                 PROVE  /\ writer'[v].pc \in {"rmdir", "failed"} => tree'[v] = {}
                        /\ writer'[v].pc = "failed" => \A p \in Paths : at'[p] # v
      BY <2>0 DEF RolledBack
    <3>1. CASE v # w
      BY <1>0, <2>0, <3>1 DEF SealInv, OnlyMoves, RolledBack
    <3>2. CASE v = w
      BY <1>0, <2>0, <3>2
      DEF SealInv, OnlyMoves, Placed, Progress, RolledBack, Unreserved
    <3> QED
      BY <3>1, <3>2
  <2> QED
    BY <2>1, <2>2, <2>3, <2>4, <2>5 DEF SealInv
<1>7. ASSUME NEW w \in Writers, SyncParent(w) PROVE SealInv'
  <2>0. /\ writer[w].pc = "sync" /\ OnlyMoves(w) /\ writer[w].path \in Paths
        /\ writer'[w].pc = IF at[writer[w].path] = w THEN "verify" ELSE "discard"
        /\ durAt' = [durAt EXCEPT ![writer[w].path] = at[writer[w].path]]
        /\ UNCHANGED <<parent, at, tree, durTree, damaged, disturbed, powerLost>>
    BY <1>7, <1>0, GotoFacts DEF SyncParent, OnlyMoves, SealInv, Progress
  <2>1. Placed'
    BY <1>0, <2>0 DEF SealInv, OnlyMoves, Placed, Unreserved, DiskTypeOK
  <2>2. Progress'
    BY <1>0, <2>0 DEF SealInv, OnlyMoves, Progress, Unreserved, Filled, DiskTypeOK
  <2>3. Named'
    BY <1>0, <2>0 DEF SealInv, OnlyMoves, Named, Progress, DiskTypeOK
  <2>4. Damage'
    BY <1>0, <2>0 DEF SealInv, OnlyMoves, Damage
  <2>5. RolledBack'
    <3> SUFFICES ASSUME ~powerLost, NEW v \in Writers
                 PROVE  /\ writer'[v].pc \in {"rmdir", "failed"} => tree'[v] = {}
                        /\ writer'[v].pc = "failed" => \A p \in Paths : at'[p] # v
      BY <2>0 DEF RolledBack
    <3>1. CASE v # w
      BY <1>0, <2>0, <3>1 DEF SealInv, OnlyMoves, RolledBack
    <3>2. CASE v = w
      BY <1>0, <2>0, <3>2
      DEF SealInv, OnlyMoves, Placed, Progress, RolledBack, Unreserved
    <3> QED
      BY <3>1, <3>2
  <2> QED
    BY <2>1, <2>2, <2>3, <2>4, <2>5 DEF SealInv
<1>8. ASSUME NEW w \in Writers, Verified(w) PROVE SealInv'
  <2>0. /\ writer[w].pc = "verify" /\ writer'[w].pc \in {"recheck", "discard"} /\ OnlyMoves(w)
        /\ UNCHANGED <<disk, disturbed, powerLost>>
    BY <1>8, <1>0, GotoFacts DEF Verified, OnlyMoves
  <2>1. Placed'
    BY <1>0, <2>0 DEF SealInv, OnlyMoves, Placed, Unreserved, DiskTypeOK
  <2>2. Progress'
    BY <1>0, <2>0 DEF SealInv, OnlyMoves, Progress, Unreserved, Filled, DiskTypeOK
  <2>3. Named'
    BY <1>0, <2>0 DEF SealInv, OnlyMoves, Named, Progress
  <2>4. Damage'
    BY <1>0, <2>0 DEF SealInv, OnlyMoves, Damage
  <2>5. RolledBack'
    <3> SUFFICES ASSUME ~powerLost, NEW v \in Writers
                 PROVE  /\ writer'[v].pc \in {"rmdir", "failed"} => tree'[v] = {}
                        /\ writer'[v].pc = "failed" => \A p \in Paths : at'[p] # v
      BY <2>0 DEF RolledBack
    <3>1. CASE v # w
      BY <1>0, <2>0, <3>1 DEF SealInv, OnlyMoves, RolledBack
    <3>2. CASE v = w
      BY <1>0, <2>0, <3>2
      DEF SealInv, OnlyMoves, Placed, Progress, RolledBack, Unreserved
    <3> QED
      BY <3>1, <3>2
  <2> QED
    BY <2>1, <2>2, <2>3, <2>4, <2>5 DEF SealInv
<1>9. ASSUME NEW w \in Writers, Publish(w) PROVE SealInv'
  <2>0. /\ writer[w].pc = "recheck" /\ OnlyMoves(w)
        /\ \/ writer'[w].pc = "discard"
           \/ writer'[w].pc = "returned" /\ tree[w] = Names
        /\ UNCHANGED <<disk, disturbed, powerLost>>
    <3>0. writer[w].pc = "recheck" /\ UNCHANGED <<disk, disturbed, powerLost>>
      BY <1>9 DEF Publish
    <3>1. CASE tree[w] = Names /\ at[writer[w].path] = w
      <4>1. Goto(w, "returned")
        BY <1>9, <3>1 DEF Publish
      <4>2. writer'[w].pc = "returned" /\ OnlyMoves(w)
        BY <1>0, <4>1, GotoFacts DEF OnlyMoves
      <4> QED
        BY <3>0, <3>1, <4>2
    <3>2. CASE ~(tree[w] = Names /\ at[writer[w].path] = w)
      <4>1. Goto(w, "discard")
        BY <1>9, <3>2 DEF Publish
      <4>2. writer'[w].pc = "discard" /\ OnlyMoves(w)
        BY <1>0, <4>1, GotoFacts DEF OnlyMoves
      <4> QED
        BY <3>0, <4>2
    <3> QED
      BY <3>1, <3>2
  <2>1. Placed'
    BY <1>0, <2>0 DEF SealInv, OnlyMoves, Placed, Unreserved, DiskTypeOK
  <2>2. Progress'
    BY <1>0, <2>0 DEF SealInv, OnlyMoves, Progress, Unreserved, Filled, DiskTypeOK
  <2>3. Named'
    BY <1>0, <2>0 DEF SealInv, OnlyMoves, Named, Progress
  <2>4. Damage'
    BY <1>0, <2>0 DEF SealInv, OnlyMoves, Damage
  <2>5. RolledBack'
    <3> SUFFICES ASSUME ~powerLost, NEW v \in Writers
                 PROVE  /\ writer'[v].pc \in {"rmdir", "failed"} => tree'[v] = {}
                        /\ writer'[v].pc = "failed" => \A p \in Paths : at'[p] # v
      BY <2>0 DEF RolledBack
    <3>1. CASE v # w
      BY <1>0, <2>0, <3>1 DEF SealInv, OnlyMoves, RolledBack
    <3>2. CASE v = w
      BY <1>0, <2>0, <3>2
      DEF SealInv, OnlyMoves, Placed, Progress, RolledBack, Unreserved
    <3> QED
      BY <3>1, <3>2
  <2> QED
    BY <2>1, <2>2, <2>3, <2>4, <2>5 DEF SealInv
<1>10. ASSUME NEW w \in Writers, Raise(w) PROVE SealInv'
  <2>0. /\ \/ writer[w].pc \in {"look", "reserve"} /\ writer'[w].pc = "failed"
           \/ writer[w].pc \in {"write", "sync", "recheck"} /\ writer'[w].pc = "discard"
        /\ OnlyMoves(w)
        /\ UNCHANGED <<disk, disturbed, powerLost>>
    BY <1>10, <1>0, GotoFacts DEF Raise, OnlyMoves
  <2>1. Placed'
    BY <1>0, <2>0 DEF SealInv, OnlyMoves, Placed, Unreserved, DiskTypeOK
  <2>2. Progress'
    BY <1>0, <2>0 DEF SealInv, OnlyMoves, Progress, Unreserved, Filled, DiskTypeOK
  <2>3. Named'
    BY <1>0, <2>0 DEF SealInv, OnlyMoves, Named, Progress
  <2>4. Damage'
    BY <1>0, <2>0 DEF SealInv, OnlyMoves, Damage
  <2>5. RolledBack'
    <3> SUFFICES ASSUME ~powerLost, NEW v \in Writers
                 PROVE  /\ writer'[v].pc \in {"rmdir", "failed"} => tree'[v] = {}
                        /\ writer'[v].pc = "failed" => \A p \in Paths : at'[p] # v
      BY <2>0 DEF RolledBack
    <3>1. CASE v # w
      BY <1>0, <2>0, <3>1 DEF SealInv, OnlyMoves, RolledBack
    <3>2. CASE v = w
      BY <1>0, <2>0, <3>2
      DEF SealInv, OnlyMoves, Placed, Progress, RolledBack, Unreserved
    <3> QED
      BY <3>1, <3>2
  <2> QED
    BY <2>1, <2>2, <2>3, <2>4, <2>5 DEF SealInv
<1>11. ASSUME NEW w \in Writers, DiscardEntry(w) PROVE SealInv'
  <2>0. /\ writer[w].pc = "discard" /\ OnlyMoves(w)
        /\ \A v \in Writers \ {w} : tree'[v] = tree[v]
        /\ \/ writer'[w].pc = "discard"
           \/ writer'[w].pc = "rmdir" /\ tree'[w] = {}
           \/ writer'[w].pc = "failed" /\ tree'[w] = {} /\ at[writer[w].path] # w
        /\ UNCHANGED <<parent, at, durAt, durTree, damaged, disturbed, powerLost>>
    <3> DEFINE left == {j \in DOMAIN DiscardOrder : DiscardOrder[j] \in tree[w]}
    <3>1. CASE left = {}
      <4>1. tree[w] = {}
        <5>1. Names = {DiscardOrder[j] : j \in DOMAIN DiscardOrder}
          BY Orders
        <5>2. tree[w] \subseteq Names
          BY <1>0 DEF DiskTypeOK
        <5> QED
          BY <3>1, <5>1, <5>2
      <4>2. /\ Goto(w, IF at[writer[w].path] = w THEN "rmdir" ELSE "failed")
            /\ tree' = tree
        BY <1>11, <3>1 DEF DiscardEntry
      <4> QED
        BY <1>11, <1>0, <4>1, <4>2, GotoFacts DEF DiscardEntry, OnlyMoves
    <3>2. CASE left # {}
      <4>1. UNCHANGED writer /\ \A v \in Writers \ {w} : tree'[v] = tree[v]
        BY <1>11, <1>0, <3>2 DEF DiscardEntry, DiskTypeOK
      <4> QED
        BY <1>11, <4>1 DEF DiscardEntry, OnlyMoves
    <3> QED
      BY <3>1, <3>2
  <2>1. Placed'
    BY <1>0, <2>0 DEF SealInv, OnlyMoves, Placed, Unreserved, DiskTypeOK
  <2>2. Progress'
    BY <1>0, <2>0 DEF SealInv, OnlyMoves, Progress, Unreserved, Filled, DiskTypeOK
  <2>3. Named'
    BY <1>0, <2>0 DEF SealInv, OnlyMoves, Named, Progress
  <2>4. Damage'
    BY ZenonT(30), <1>0, <2>0 DEF SealInv, OnlyMoves, Damage
  <2>5. RolledBack'
    <3> SUFFICES ASSUME ~powerLost, NEW v \in Writers
                 PROVE  /\ writer'[v].pc \in {"rmdir", "failed"} => tree'[v] = {}
                        /\ writer'[v].pc = "failed" => \A p \in Paths : at'[p] # v
      BY <2>0 DEF RolledBack
    <3>1. CASE v # w
      BY <1>0, <2>0, <3>1 DEF SealInv, OnlyMoves, RolledBack
    <3>2. CASE v = w
      BY <1>0, <2>0, <3>2
      DEF SealInv, OnlyMoves, Placed, Progress, RolledBack, Unreserved
    <3> QED
      BY <3>1, <3>2
  <2> QED
    BY <2>1, <2>2, <2>3, <2>4, <2>5 DEF SealInv
<1>12. ASSUME NEW w \in Writers, DiscardFails(w) PROVE SealInv'
  <2>0. /\ writer[w].pc = "discard" /\ writer'[w].pc = "residue" /\ OnlyMoves(w)
        /\ \A v \in Writers \ {w} : tree'[v] = tree[v]
        /\ UNCHANGED <<parent, at, durAt, durTree, damaged, disturbed, powerLost>>
    BY <1>12, <1>0, GotoFacts DEF DiscardFails, OnlyMoves, DiskTypeOK
  <2>1. Placed'
    BY <1>0, <2>0 DEF SealInv, OnlyMoves, Placed, Unreserved, DiskTypeOK
  <2>2. Progress'
    BY <1>0, <2>0 DEF SealInv, OnlyMoves, Progress, Unreserved, Filled, DiskTypeOK
  <2>3. Named'
    BY <1>0, <2>0 DEF SealInv, OnlyMoves, Named, Progress
  <2>4. Damage'
    BY <1>0, <2>0 DEF SealInv, OnlyMoves, Damage
  <2>5. RolledBack'
    <3> SUFFICES ASSUME ~powerLost, NEW v \in Writers
                 PROVE  /\ writer'[v].pc \in {"rmdir", "failed"} => tree'[v] = {}
                        /\ writer'[v].pc = "failed" => \A p \in Paths : at'[p] # v
      BY <2>0 DEF RolledBack
    <3>1. CASE v # w
      BY <1>0, <2>0, <3>1 DEF SealInv, OnlyMoves, RolledBack
    <3>2. CASE v = w
      BY <1>0, <2>0, <3>2
      DEF SealInv, OnlyMoves, Placed, Progress, RolledBack, Unreserved
    <3> QED
      BY <3>1, <3>2
  <2> QED
    BY <2>1, <2>2, <2>3, <2>4, <2>5 DEF SealInv
<1>13. ASSUME NEW w \in Writers, RemoveTarget(w) PROVE SealInv'
  <2>0. /\ writer[w].pc = "rmdir" /\ writer'[w].pc = "failed" /\ OnlyMoves(w)
        /\ writer[w].path \in Paths
        /\ UNCHANGED <<parent, tree, durAt, durTree, damaged, disturbed, powerLost>>
    BY <1>13, <1>0, GotoFacts DEF RemoveTarget, OnlyMoves, SealInv, Progress
  <2>6. LET found == at[writer[w].path]
        IN  IF found # NoValue /\ tree[found] = {}
              THEN at' = [at EXCEPT ![writer[w].path] = NoValue]
              ELSE at' = at
    BY <1>13 DEF RemoveTarget
  <2>1. Placed'
    BY SMTT(30), <1>0, <2>0, <2>6, ReplayAssumption DEF SealInv, OnlyMoves, Placed, Unreserved, DiskTypeOK
  <2>2. Progress'
    BY <1>0, <2>0 DEF SealInv, OnlyMoves, Progress, Unreserved, Filled, DiskTypeOK
  <2>3. Named'
    <3> SUFFICES ASSUME NEW v \in Writers, writer'[v].pc \in {"verify", "recheck", "returned"},
                        v \notin disturbed', parent' = "durable" \/ ~powerLost'
                 PROVE  at'[writer'[v].path] = v /\ durAt'[writer'[v].path] = v
      BY DEF Named
    <3>1. /\ v # w /\ writer'[v] = writer[v]
          /\ at[writer[v].path] = v /\ durAt[writer[v].path] = v
      BY <1>0, <2>0 DEF SealInv, OnlyMoves, Named
    <3>2. tree[v] # {}
      BY <1>0, <2>0, <3>1 DEF SealInv, Progress, Filled
    <3>3. writer[v].path \in Paths
      BY <1>0, <2>0, <3>1 DEF SealInv, Progress
    <3>4. at'[writer[v].path] = v
      <4>1. CASE writer[v].path = writer[w].path
        BY <2>6, <3>1, <3>2, <4>1
      <4>2. CASE writer[v].path # writer[w].path
        BY <1>0, <2>6, <3>1, <3>3, <4>2 DEF DiskTypeOK
      <4> QED
        BY <4>1, <4>2
    <3> QED
      BY <2>0, <3>1, <3>4
  <2>4. Damage'
    BY <1>0, <2>0 DEF SealInv, OnlyMoves, Damage
  <2>5. RolledBack'
    <3> SUFFICES ASSUME ~powerLost PROVE RolledBack'
      BY <2>0 DEF RolledBack
    <3>0. tree[w] = {}
      BY <1>0, <2>0 DEF SealInv, RolledBack
    <3>1. ASSUME NEW p \in Paths PROVE at'[p] # w
      <4>1. CASE at[writer[w].path] = w
        <5>1. at' = [at EXCEPT ![writer[w].path] = NoValue]
          BY <2>6, <3>0, <4>1, ReplayAssumption
        <5> QED
          BY <1>0, <2>0, <5>1, ReplayAssumption DEF SealInv, Placed, DiskTypeOK
      <4>2. CASE at[writer[w].path] # w
        <5>1. at[p] # w
          BY <1>0, <4>2 DEF SealInv, Placed
        <5> QED
          BY <1>0, <2>6, <5>1, ReplayAssumption DEF DiskTypeOK
      <4> QED
        BY <4>1, <4>2
    <3> QED
      BY <1>0, <2>0, <2>6, <3>0, <3>1, ReplayAssumption
      DEF SealInv, OnlyMoves, RolledBack, DiskTypeOK
  <2> QED
    BY <2>1, <2>2, <2>3, <2>4, <2>5 DEF SealInv
<1>14. ASSUME NEW w \in Writers, Crash(w) PROVE SealInv'
  <2>0. /\ writer[w].pc \notin {"idle", "returned", "failed"} /\ writer'[w].pc = "dead"
        /\ OnlyMoves(w)
        /\ \A v \in Writers \ {w} :
             /\ tree'[v] = tree[v]
             /\ \A name : <<v, name>> \in damaged' => <<v, name>> \in damaged
        /\ UNCHANGED <<parent, at, durAt, durTree, disturbed, powerLost>>
    <3>1. writer[w].pc \notin {"idle", "returned", "failed"} /\ Goto(w, "dead")
      BY <1>14 DEF Crash
    <3>2. \/ UNCHANGED <<tree, damaged>>
          \/ /\ tree' = [tree EXCEPT ![w] = tree[w] \cup {Entry(w)}]
             /\ damaged' = damaged \cup {<<w, Entry(w)>>}
      BY <1>14 DEF Crash
    <3>3. \A v \in Writers \ {w} :
            /\ tree'[v] = tree[v]
            /\ \A name : <<v, name>> \in damaged' => <<v, name>> \in damaged
      BY <1>0, <3>2 DEF DiskTypeOK
    <3> QED
      BY <1>14, <1>0, <3>1, <3>3, GotoFacts DEF Crash, OnlyMoves
  <2>1. Placed'
    BY <1>0, <2>0 DEF SealInv, OnlyMoves, Placed, Unreserved, DiskTypeOK
  <2>2. Progress'
    BY <1>0, <2>0 DEF SealInv, OnlyMoves, Progress, Unreserved, Filled, DiskTypeOK
  <2>3. Named'
    BY <1>0, <2>0 DEF SealInv, OnlyMoves, Named, Progress
  <2>4. Damage'
    BY <1>0, <2>0 DEF SealInv, OnlyMoves, Damage
  <2>5. RolledBack'
    <3> SUFFICES ASSUME ~powerLost, NEW v \in Writers
                 PROVE  /\ writer'[v].pc \in {"rmdir", "failed"} => tree'[v] = {}
                        /\ writer'[v].pc = "failed" => \A p \in Paths : at'[p] # v
      BY <2>0 DEF RolledBack
    <3>1. CASE v # w
      BY <1>0, <2>0, <3>1 DEF SealInv, OnlyMoves, RolledBack
    <3>2. CASE v = w
      BY <1>0, <2>0, <3>2
      DEF SealInv, OnlyMoves, Placed, Progress, RolledBack, Unreserved
    <3> QED
      BY <3>1, <3>2
  <2> QED
    BY <2>1, <2>2, <2>3, <2>4, <2>5 DEF SealInv
<1>15. CASE PowerLoss
  <2>0. \A w \in Writers :
          /\ writer'[w].path = writer[w].path
          /\ writer'[w].pc = IF writer[w].pc \in {"idle", "returned", "failed", "residue"}
                              THEN writer[w].pc ELSE "dead"
    BY <1>15, <1>0 DEF PowerLoss, WriterState
  <2>6. /\ \A w \in Writers : tree'[w] = tree[w] \/ tree'[w] = durTree[w]
        /\ durTree' = tree'
    BY <1>15 DEF PowerLoss
  <2>7. /\ \A p \in Paths : at'[p] \in {at[p], durAt[p], NoValue}
        /\ parent' = "durable" => at' \in {at, durAt}
        /\ durAt' = at'
        /\ ~powerLost /\ powerLost' /\ disturbed' = disturbed
    BY <1>15 DEF PowerLoss
  <2>1. Placed'
    BY SMTT(30), <1>0, <2>0, <2>7, ReplayAssumption DEF SealInv, Placed, Unreserved, DiskTypeOK
  <2>2. Progress'
    BY <1>0, <2>0, <2>6 DEF SealInv, Progress, Unreserved, Filled, DiskTypeOK
  <2>3. Named'
    <3> SUFFICES ASSUME NEW w \in Writers, writer'[w].pc = "returned",
                        w \notin disturbed, parent' = "durable"
                 PROVE  at'[writer'[w].path] = w /\ durAt'[writer'[w].path] = w
      BY <2>0, <2>7 DEF Named
    <3> QED
      BY <1>0, <2>0, <2>7 DEF SealInv, Named
  <2>4. Damage'
    BY <1>15, <1>0, <2>0 DEF PowerLoss, SealInv, Damage
  <2>5. RolledBack'
    BY <2>7 DEF RolledBack
  <2> QED
    BY <2>1, <2>2, <2>3, <2>4, <2>5 DEF SealInv
<1>16. ASSUME NEW p \in Paths, MoveAway(p) PROVE SealInv'
  <2>0. /\ disturbed = {} /\ disturbed' = {at[p]}
        /\ at' = [at EXCEPT ![p] = NoValue] /\ durAt' = [durAt EXCEPT ![p] = NoValue]
        /\ UNCHANGED <<parent, tree, durTree, damaged, writer, powerLost>>
    BY <1>16 DEF MoveAway
  <2>1. Placed'
    BY <1>0, <2>0, ReplayAssumption DEF SealInv, Placed, Unreserved, DiskTypeOK
  <2>2. Progress'
    BY <1>0, <2>0, ReplayAssumption DEF SealInv, Progress, Unreserved, Filled, DiskTypeOK
  <2>3. Named'
    BY <1>0, <2>0, ReplayAssumption DEF SealInv, Named, Progress, DiskTypeOK
  <2>4. Damage'
    BY <1>0, <2>0, ReplayAssumption DEF SealInv, Damage
  <2>5. RolledBack'
    BY SMTT(30), <1>0, <2>0, ReplayAssumption
    DEF SealInv, RolledBack, Placed, Progress, Unreserved, DiskTypeOK
  <2> QED
    BY <2>1, <2>2, <2>3, <2>4, <2>5 DEF SealInv
<1>17. ASSUME NEW w \in Writers, NEW name \in Names, Alter(w, name) PROVE SealInv'
  <2>0. /\ disturbed = {} /\ disturbed' = {w} /\ damaged' = damaged \cup {<<w, name>>}
        /\ UNCHANGED <<parent, at, tree, durAt, durTree, writer, powerLost>>
    BY <1>17 DEF Alter
  <2>1. Placed'
    BY <1>0, <2>0 DEF SealInv, Placed, Unreserved, DiskTypeOK
  <2>2. Progress'
    BY <1>0, <2>0 DEF SealInv, Progress, Unreserved, Filled, DiskTypeOK
  <2>3. Named'
    BY <1>0, <2>0 DEF SealInv, Named, Progress
  <2>4. Damage'
    BY <1>0, <2>0 DEF SealInv, Damage
  <2>5. RolledBack'
    BY <1>0, <2>0 DEF SealInv, RolledBack, Placed, Progress, Unreserved
  <2> QED
    BY <2>1, <2>2, <2>3, <2>4, <2>5 DEF SealInv
<1>18. ASSUME NEW i \in Readers, Verify(i) PROVE SealInv'
  BY <1>18, <1>1 DEF Verify
<1>19. ASSUME NEW i \in Callers, InspectionStep(i) PROVE SealInv'
  BY <1>19, <1>1 DEF InspectionStep, OpenRoot, ReadManifest, ListEntries, ReadEntry,
    Recheck, InspectionFails
<1>20. CASE AggregateAttempts
  BY <1>20, <1>1 DEF AggregateAttempts
<1>21. CASE UNCHANGED vars
  BY <1>21, <1>1 DEF vars
<1> QED
  BY <1>1, <1>2, <1>3, <1>4, <1>5, <1>6, <1>7, <1>8, <1>9, <1>10, <1>11, <1>12, <1>13, <1>14,
    <1>15, <1>16, <1>17, <1>18, <1>19, <1>20, <1>21
  DEF EvaluationNext, Next, WriterStep

-----------------------------------------------------------------------------
(* Inspections                                                             *)

\* A call that has begun keeps its submission.
KeepsSubmissions ==
  \A w \in Writers : writer[w].pc # "idle" =>
    writer'[w].pc # "idle" /\ writer'[w].sub = writer[w].sub

\* No step takes a submission from a call, which only Begin gives it.
LEMMA StepKeepsSubmissions ==
  ReplayIInv /\ [EvaluationNext]_vars => KeepsSubmissions
<1> SUFFICES ASSUME ReplayIInv, [EvaluationNext]_vars PROVE KeepsSubmissions
  OBVIOUS
<1>0. writer \in [Writers -> WriterState]
  BY DEF ReplayIInv, ReplayTypeOK
<1>1. ASSUME UNCHANGED writer PROVE KeepsSubmissions
  BY <1>1 DEF KeepsSubmissions
<1>2. ASSUME NEW w \in Writers, NEW pc \in WriterPCs \ {"idle"}, Goto(w, pc)
      PROVE  KeepsSubmissions
  BY <1>0, <1>2, GotoFacts DEF KeepsSubmissions
<1>3. ASSUME NEW w \in Writers, WriterStep(w) PROVE KeepsSubmissions
  <2>1. CASE Begin(w)
    BY <1>0, <2>1 DEF Begin, KeepsSubmissions
  <2>2. CASE MakeStore(w) \/ WriteFile(w)
    BY <1>0, <2>2, WroteFacts DEF MakeStore, WriteFile, KeepsSubmissions
  <2>3. CASE Look(w) \/ Reserve(w) \/ SyncParent(w) \/ Verified(w) \/ Publish(w)
    BY <1>2, <2>3 DEF Look, Reserve, SyncParent, Verified, Publish, WriterPCs
  <2>4. CASE Raise(w) \/ DiscardFails(w) \/ RemoveTarget(w) \/ Crash(w)
    BY <1>2, <2>4 DEF Raise, DiscardFails, RemoveTarget, Crash, WriterPCs
  <2>5. CASE DiscardEntry(w)
    BY <1>1, <1>2, <2>5 DEF DiscardEntry, WriterPCs
  <2> QED
    BY <1>3, <2>1, <2>2, <2>3, <2>4, <2>5 DEF WriterStep
<1>4. CASE PowerLoss
  BY <1>0, <1>4 DEF PowerLoss, KeepsSubmissions, WriterState
<1>5. ASSUME NEW i \in Callers, InspectionStep(i) PROVE KeepsSubmissions
  BY <1>1, <1>5 DEF InspectionStep, OpenRoot, ReadManifest, ListEntries, ReadEntry,
    Recheck, InspectionFails
<1> QED
  BY <1>1, <1>3, <1>4, <1>5
  DEF EvaluationNext, Next, vars, Verify, MoveAway, Alter, AggregateAttempts

\* An inspection nobody touches stays sound.
LEMMA InspectionKept ==
  ASSUME InspectionInv, KeepsSubmissions, NEW i \in Callers, insp'[i] = insp[i]
  PROVE  InspectionOK(i)'
BY ZenonT(30) DEF InspectionInv, InspectionOK, KeepsSubmissions, ReadSoFar

\* One that has not begun or has given up is sound.
LEMMA InspectionReset ==
  ASSUME NEW i \in Callers,
         insp'[i] \in {NoInspection, [NoInspection EXCEPT !.pc = "done"]}
  PROVE  InspectionOK(i)'
<1>1. insp'[i].pc \in {"idle", "done"} /\ insp'[i].valid = FALSE
  BY DEF NoInspection
<1> QED
  BY <1>1 DEF InspectionOK

\* Reading one more entry.
LEMMA OneMoreRead ==
  ASSUME NEW root, NEW S, NEW name
  PROVE  ({root} \X S \X {TRUE}) \cup {<<root, name, TRUE>>}
           = {root} \X (S \cup {name}) \X {TRUE}
<1> DEFINE T == {TRUE}
<1>1. TRUE \in T /\ \A b \in T : b = TRUE
  OBVIOUS
<1> HIDE DEF T
<1>2. ASSUME NEW x \in {root} \X (S \cup {name}) \X T
      PROVE  x \in ({root} \X S \X T) \cup {<<root, name, TRUE>>}
  <2>1. x \in {root} \X S \X T \/ \E b \in T : x = <<root, name, b>>
    OBVIOUS
  <2> QED
    BY <1>1, <2>1
<1>3. {root} \X S \X T \subseteq {root} \X (S \cup {name}) \X T
  OBVIOUS
<1>4. <<root, name, TRUE>> \in {root} \X (S \cup {name}) \X T
  BY <1>1
<1>5. ({root} \X S \X T) \cup {<<root, name, TRUE>>} = {root} \X (S \cup {name}) \X T
  BY <1>2, <1>3, <1>4
<1> QED
  BY <1>5 DEF T

\* Every step keeps InspectionInv.
LEMMA InspectionInvStep == ReplayIInv /\ [EvaluationNext]_vars => InspectionInv'
<1> SUFFICES ASSUME ReplayIInv, [EvaluationNext]_vars PROVE InspectionInv'
  OBVIOUS
<1>0. /\ InspectionInv /\ KeepsSubmissions
      /\ insp \in [Callers -> InspectionState]
      /\ Writers \subseteq Callers /\ Readers \subseteq Callers
  BY StepKeepsSubmissions DEF ReplayIInv, ReplayTypeOK, Callers
<1>1. ASSUME UNCHANGED insp PROVE InspectionInv'
  BY <1>0, <1>1, InspectionKept DEF InspectionInv
<1>2. ASSUME NEW i \in Callers, InspectionOK(i)',
             \A j \in Callers \ {i} : insp'[j] = insp[j]
      PROVE  InspectionInv'
  BY <1>0, <1>2, InspectionKept DEF InspectionInv
<1>3. ASSUME NEW i \in Callers, Invalid(i) PROVE InspectionInv'
  BY <1>0, <1>2, <1>3, InspectionReset DEF Invalid
<1>4. ASSUME NEW w \in Writers, SyncParent(w) PROVE InspectionInv'
  <2>1. CASE at[writer[w].path] = w
    <3>1. insp' = [insp EXCEPT ![w] = [NoInspection EXCEPT
                     !.pc = "open", !.path = writer[w].path, !.expect = writer[w].sub]]
      BY <1>4, <2>1 DEF SyncParent
    <3>2. /\ insp'[w].pc = "open" /\ insp'[w].path \in Paths /\ insp'[w].n = 1
          /\ insp'[w].valid = FALSE
      <4>1. writer[w].path \in Paths
        BY <1>4 DEF SyncParent, ReplayIInv, SealInv, Progress
      <4> QED
        BY <1>0, <3>1, <4>1 DEF NoInspection
    <3>3. InspectionOK(w)'
      BY <3>2 DEF InspectionOK
    <3> QED
      BY <1>0, <1>2, <3>1, <3>3
  <2>2. CASE at[writer[w].path] # w
    BY <1>1, <1>4, <2>2 DEF SyncParent
  <2> QED
    BY <2>1, <2>2
<1>5. ASSUME NEW w \in Writers, Verified(w) PROVE InspectionInv'
  BY <1>0, <1>2, <1>5, InspectionReset DEF Verified
<1>6. ASSUME NEW w \in Writers, Crash(w) PROVE InspectionInv'
  BY <1>0, <1>1, <1>2, <1>6, InspectionReset, InspectionKept DEF Crash, Stop
<1>7. ASSUME NEW w \in Writers, WriterStep(w) PROVE InspectionInv'
  BY <1>1, <1>4, <1>5, <1>6, <1>7
  DEF WriterStep, Begin, Look, Reserve, MakeStore, WriteFile, Publish, Raise,
    DiscardEntry, DiscardFails, RemoveTarget
<1>8. ASSUME NEW i \in Readers, Verify(i) PROVE InspectionInv'
  <2>1. PICK p \in Paths, q \in NewPolicies,
          d \in {NoValue}
            \cup {writer[w].sub : w \in {v \in Writers : writer[v].pc = "returned"}} :
          insp' = [insp EXCEPT ![i] = [NoInspection EXCEPT
                  !.pc = "open", !.path = p, !.expect = d, !.policy = q]]
    BY <1>8 DEF Verify
  <2>2. insp'[i].pc = "open" /\ insp'[i].path \in Paths /\ insp'[i].n = 1 /\ insp'[i].valid = FALSE
    BY <1>0, <2>1 DEF NoInspection
  <2>3. InspectionOK(i)'
    BY <2>2 DEF InspectionOK
  <2> QED
    BY <1>0, <1>2, <2>1, <2>3
<1>9. ASSUME NEW i \in Callers, OpenRoot(i) PROVE InspectionInv'
  <2> DEFINE root == at[insp[i].path]
  <2>1. CASE root # NoValue
    <3>1. insp' = [insp EXCEPT ![i].pc = "manifest", ![i].root = root, ![i].meta = tree[root]]
      BY <1>9, <2>1 DEF OpenRoot
    <3>2. /\ insp'[i].pc = "manifest" /\ insp'[i].root = root
          /\ insp'[i].n = insp[i].n /\ insp'[i].valid = insp[i].valid
      BY <1>0, <3>1 DEF InspectionState
    <3>3. insp[i].path \in Paths /\ insp[i].n = 1 /\ ~insp[i].valid
      BY <1>0, <1>9 DEF OpenRoot, InspectionInv, InspectionOK
    <3>4. root \in Writers /\ writer'[root].pc # "idle"
      BY <1>0, <1>9, <2>1, <3>3
      DEF OpenRoot, ReplayIInv, ReplayTypeOK, DiskTypeOK, SealInv, Placed, Unreserved
    <3>5. InspectionOK(i)'
      BY <3>2, <3>3, <3>4 DEF InspectionOK
    <3> QED
      BY <1>0, <1>2, <3>1, <3>5
  <2> QED
    BY <1>3, <1>9, <2>1 DEF OpenRoot
<1>10. ASSUME NEW i \in Callers, ReadManifest(i) PROVE InspectionInv'
  <2> DEFINE root == insp[i].root
  <2>1. CASE Intact(root, "manifest")
    <3>1. insp' = [insp EXCEPT ![i].pc = "list", ![i].seen = {<<root, "manifest", TRUE>>}]
      BY <1>10, <2>1 DEF ReadManifest, Read
    <3>2. /\ insp'[i].pc = "list" /\ insp'[i].root = root /\ insp'[i].n = insp[i].n
          /\ insp'[i].seen = {<<root, "manifest", TRUE>>} /\ insp'[i].valid = insp[i].valid
      BY <1>0, <3>1 DEF InspectionState
    <3>3. root \in Writers /\ writer'[root].pc # "idle" /\ insp[i].n = 1 /\ ~insp[i].valid
      BY <1>0, <1>10 DEF ReadManifest, InspectionInv, InspectionOK
    <3>4. insp'[i].seen = {root} \X {"manifest"} \X {TRUE}
      BY <3>2
    <3>5. ReadSoFar(i)' = {"manifest"}
      BY <3>2 DEF ReadSoFar
    <3>6. InspectionOK(i)'
      BY <3>2, <3>3, <3>4, <3>5 DEF InspectionOK
    <3> QED
      BY <1>0, <1>2, <3>1, <3>6
  <2> QED
    BY <1>3, <1>10, <2>1 DEF ReadManifest
<1>11. ASSUME NEW i \in Callers, ListEntries(i) PROVE InspectionInv'
  <2>1. CASE tree[insp[i].root] = Names
    <3>1. insp' = [insp EXCEPT ![i].pc = "read"]
      BY <1>11, <2>1 DEF ListEntries
    <3>2. /\ insp'[i].pc = "read" /\ insp'[i].root = insp[i].root /\ insp'[i].n = insp[i].n
          /\ insp'[i].seen = insp[i].seen /\ insp'[i].valid = insp[i].valid
      BY <1>0, <3>1 DEF InspectionState
    <3>3. /\ insp[i].root \in Writers /\ writer'[insp[i].root].pc # "idle"
          /\ insp[i].n = 1 /\ ~insp[i].valid
          /\ insp[i].seen = {insp[i].root} \X {"manifest"} \X {TRUE}
      BY <1>0, <1>11 DEF ListEntries, InspectionInv, InspectionOK, ReadSoFar
    <3>4. ReadSoFar(i)' = {"manifest"} /\ insp[i].n \in 1..Len(ReadOrder)
      BY <3>2, <3>3, Orders, ReplayAssumption DEF ReadSoFar
    <3>5. InspectionOK(i)'
      BY <3>2, <3>3, <3>4 DEF InspectionOK
    <3> QED
      BY <1>0, <1>2, <3>1, <3>5
  <2> QED
    BY <1>3, <1>11, <2>1 DEF ListEntries
<1>12. ASSUME NEW i \in Callers, ReadEntry(i) PROVE InspectionInv'
  <2> DEFINE root == insp[i].root
             n == insp[i].n
             soFar == {"manifest"} \cup {ReadOrder[j] : j \in 1..(n - 1)}
  <2>1. CASE Intact(root, ReadOrder[n])
    <3>1. insp' = [insp EXCEPT
            ![i].pc = IF n = Len(ReadOrder) THEN "recheck" ELSE "read",
            ![i].n = @ + 1, ![i].seen = @ \cup {<<root, ReadOrder[n], TRUE>>}]
      BY <1>12, <2>1 DEF ReadEntry, Read
    <3>2. /\ insp'[i].pc = IF n = Len(ReadOrder) THEN "recheck" ELSE "read"
          /\ insp'[i].root = root /\ insp'[i].n = n + 1 /\ insp'[i].valid = insp[i].valid
          /\ insp'[i].seen = insp[i].seen \cup {<<root, ReadOrder[n], TRUE>>}
      BY <1>0, <3>1 DEF InspectionState
    <3>3. /\ root \in Writers /\ writer'[root].pc # "idle"
          /\ n \in 1..Len(ReadOrder) /\ ~insp[i].valid
          /\ insp[i].seen = {root} \X soFar \X {TRUE}
      BY <1>0, <1>12 DEF ReadEntry, InspectionInv, InspectionOK, ReadSoFar
    <3>4. Len(ReadOrder) \in Nat
      BY Orders, ReplayAssumption
    <3>5. soFar \cup {ReadOrder[n]} = {"manifest"} \cup {ReadOrder[j] : j \in 1..n}
      <4>1. 1..n = 1..(n - 1) \cup {n}
        <5>1. n \in 1..Len(ReadOrder)
          BY <3>3
        <5> HIDE DEF n
        <5> QED
          BY <3>4, <5>1
      <4> QED
        BY <4>1
    <3>6. insp'[i].seen = {root} \X (soFar \cup {ReadOrder[n]}) \X {TRUE}
      <4> HIDE DEF root, n, soFar
      <4>1. ({root} \X soFar \X {TRUE}) \cup {<<root, ReadOrder[n], TRUE>>}
              = {root} \X (soFar \cup {ReadOrder[n]}) \X {TRUE}
        BY OneMoreRead
      <4> QED
        BY <3>2, <3>3, <4>1
    <3>7. ReadSoFar(i)' = soFar \cup {ReadOrder[n]}
      <4>1. CASE n = Len(ReadOrder)
        BY <3>2, <3>5, <4>1, Orders DEF ReadSoFar
      <4>2. CASE n # Len(ReadOrder)
        <5>1. (n + 1) - 1 = n
          BY <3>3
        <5> QED
          BY <3>2, <3>5, <4>2, <5>1 DEF ReadSoFar
      <4> QED
        BY <4>1, <4>2
    <3>8. insp'[i].pc = "read" => n + 1 \in 1..Len(ReadOrder)
      <4>1. insp'[i].pc = "read" => n # Len(ReadOrder)
        BY <3>2
      <4>2. n \in 1..Len(ReadOrder)
        BY <3>3
      <4> HIDE DEF n
      <4> QED
        BY <3>4, <4>1, <4>2
    <3>9. InspectionOK(i)'
      <4> HIDE DEF n, soFar
      <4> QED
        BY <3>2, <3>3, <3>6, <3>7, <3>8 DEF InspectionOK
    <3> QED
      BY <1>0, <1>2, <3>1, <3>9
  <2> QED
    BY <1>3, <1>12, <2>1 DEF ReadEntry
<1>13. ASSUME NEW i \in Callers, Recheck(i) PROVE InspectionInv'
  <2> DEFINE sub == writer[insp[i].root].sub
  <2>1. PICK valid \in BOOLEAN :
          /\ insp' = [insp EXCEPT ![i].pc = "done", ![i].valid = valid,
                        ![i].meta = {}, ![i].n = 1]
          /\ valid => insp[i].expect \in {NoValue, sub} /\ sub \in WellGraded
    BY <1>13 DEF Recheck
  <2>2. /\ insp'[i].pc = "done" /\ insp'[i].root = insp[i].root /\ insp'[i].valid = valid
        /\ insp'[i].seen = insp[i].seen /\ insp'[i].expect = insp[i].expect
    BY <1>0, <2>1 DEF InspectionState
  <2>3. /\ insp[i].root \in Writers /\ writer'[insp[i].root].pc # "idle"
        /\ writer' = writer
        /\ insp[i].seen = {insp[i].root} \X Names \X {TRUE}
    BY <1>0, <1>13 DEF Recheck, InspectionInv, InspectionOK, ReadSoFar
  <2>4. ReadSoFar(i)' = Names
    BY <2>2 DEF ReadSoFar
  <2>5. InspectionOK(i)'
    BY <2>1, <2>2, <2>3, <2>4 DEF InspectionOK
  <2> QED
    BY <1>0, <1>2, <2>1, <2>5
<1>14. ASSUME NEW i \in Callers, InspectionFails(i) PROVE InspectionInv'
  BY <1>3, <1>14 DEF InspectionFails
<1>15. CASE PowerLoss
  BY <1>0, <1>15, InspectionReset, InspectionKept DEF PowerLoss, Stop, InspectionInv
<1> QED
  BY <1>1, <1>7, <1>8, <1>9, <1>10, <1>11, <1>12, <1>13, <1>14, <1>15
  DEF EvaluationNext, Next, InspectionStep, vars, history, MoveAway, Alter, AggregateAttempts

-----------------------------------------------------------------------------
(* Theorems                                                                *)

\* The inductive invariant holds in every state of every run.
LEMMA ReplayInvariant == EvaluationSpec => []ReplayIInv
<1>1. ReplayIInv /\ [EvaluationNext]_vars => ReplayIInv'
  BY ReplayTypeStep, SealStep, InspectionInvStep DEF ReplayIInv
<1> QED
  BY <1>1, ReplayInit, PTL DEF EvaluationSpec

\* Type correctness: no sequence of calls, failures, crashes and a loss of power
\* takes write_replay or _inspect_replay out of their control states, or makes
\* them write an entry the layout does not have.
THEOREM ReplayTypes == EvaluationSpec => []ReplayTypeOK
<1>1. ReplayIInv => ReplayTypeOK
  BY DEF ReplayIInv
<1> QED
  BY <1>1, ReplayInvariant, PTL

\* A receipt of write_replay is for good, for any number of concurrent writers of
\* any paths: their rollbacks, which remove a directory by name, and a loss of
\* power leave the bundle at its path, whole.
THEOREM SealedReplaysStay == EvaluationSpec => []SealedStays
<1>1. ReplayIInv => SealedStays
  <2> SUFFICES ASSUME ReplayIInv, NEW w \in Writers, writer[w].pc = "returned",
                      w \notin disturbed, parent = "durable"
               PROVE  /\ at[writer[w].path] = w
                      /\ tree[w] = Names
                      /\ \A name \in Names : Intact(w, name)
    BY DEF SealedStays
  <2>1. at[writer[w].path] = w
    BY DEF ReplayIInv, SealInv, Named
  <2>2. tree[w] = Names
    BY DEF ReplayIInv, SealInv, Progress
  <2>3. \A name \in Names : <<w, name>> \notin damaged
    BY DEF ReplayIInv, SealInv, Damage
  <2> QED
    BY <2>1, <2>2, <2>3 DEF Intact
<1> QED
  BY <1>1, ReplayInvariant, PTL

\* A call of write_replay that raised, and whose removals did not fail, has left
\* nothing of its own behind, so that the target can be written again.
THEOREM FailedCallsLeaveNothing == EvaluationSpec => []FailedLeavesNothing
<1>1. ReplayIInv => FailedLeavesNothing
  BY DEF ReplayIInv, SealInv, RolledBack, FailedLeavesNothing
<1> QED
  BY <1>1, ReplayInvariant, PTL

\* Rescoring replaces the reward of a grade and nothing else.
LEMMA RescoreKeeps ==
  ASSUME NEW e, NEW p, NEW q,
         NEW f \in {"of", "comparable", "success", "first", "outcomes"}
  PROVE  Score(e, p)[f] = Score(e, q)[f]
<1>1. Score(e, p).of = Score(e, q).of
  BY DEF Score
<1>2. Score(e, p).comparable = Score(e, q).comparable
  BY DEF Score
<1>3. Score(e, p).success = Score(e, q).success
  BY DEF Score
<1>4. Score(e, p).first = Score(e, q).first
  BY DEF Score
<1>5. Score(e, p).outcomes = Score(e, q).outcomes
  BY DEF Score
<1> QED
  BY <1>1, <1>2, <1>3, <1>4, <1>5

\* A verdict of _inspect_replay that a replay is valid is about one whole bundle
\* of one writer, graded by the score of its evidence, whatever writers, rollbacks
\* and a loss of power did between its reads.
THEOREM VerifiedReplaysAreWhole == EvaluationSpec => []VerifiedIsWhole
<1>1. ReplayIInv => VerifiedIsWhole
  <2> SUFFICES ASSUME ReplayIInv, NEW i \in Callers, insp[i].valid
               PROVE  \E w \in Writers :
                 /\ insp[i].seen = {w} \X Names \X {TRUE}
                 /\ insp[i].expect \in {NoValue, writer[w].sub}
                 /\ GradeOf[writer[w].sub] = Score(EvidenceOf[writer[w].sub], Policy)
                 /\ insp[i].policy # NoValue =>
                      \A f \in {"of", "comparable", "success", "first", "outcomes"} :
                        Rescored(i)[f] = GradeOf[writer[w].sub][f]
    BY DEF VerifiedIsWhole
  <2> DEFINE w == insp[i].root
             sub == writer[w].sub
  <2>1. /\ w \in Writers /\ sub \in WellGraded /\ insp[i].pc = "done"
        /\ insp[i].expect \in {NoValue, sub}
        /\ insp[i].seen = {w} \X ReadSoFar(i) \X {TRUE}
    BY DEF ReplayIInv, InspectionInv, InspectionOK
  <2>2. insp[i].seen = {w} \X Names \X {TRUE}
    BY <2>1 DEF ReadSoFar
  <2>3. GradeOf[sub] = Score(EvidenceOf[sub], Policy)
    BY <2>1 DEF WellGraded
  <2>4. ASSUME NEW f \in {"of", "comparable", "success", "first", "outcomes"}
        PROVE  Rescored(i)[f] = GradeOf[sub][f]
    <3>1. Rescored(i) = Score(EvidenceOf[sub], insp[i].policy)
      BY DEF Rescored
    <3>2. Score(EvidenceOf[sub], insp[i].policy)[f] = Score(EvidenceOf[sub], Policy)[f]
      BY SMTT(30), RescoreKeeps
    <3> HIDE DEF sub
    <3> QED
      BY <2>3, <3>1, <3>2
  <2> HIDE DEF w
  <2> QED
    BY <2>1, <2>2, <2>3, <2>4
<1> QED
  BY <1>1, ReplayInvariant, PTL

=============================================================================
