----------------------------- MODULE MountProofs -----------------------------
(***************************************************************************)
(* What the way to a mounted file system guarantees for every image, every *)
(* number of damages and of runs of mount.                                 *)
(*                                                                         *)
(* The judgements themselves (Accepted, LoadOK, WeakOK) stay unexpanded,   *)
(* with one exception: what load accepts, the weak test of mount accepts   *)
(* too.  The invariant carries each verdict from where it was reached to   *)
(* where it is used, as long as no damage made it stale.                   *)
(***************************************************************************)
EXTENDS Mount, FiniteSetTheorems, TLAPS

Contents == (UNION {Range(d) : d \in Images}) \cup {Junk, BadLabel, BadSuper}

Verdicts == {"unreadable", "clean", "damaged"}
Passed == {"mountpoint", "module", "exec"}
Mounting == Passed \cup {"strict", "weak", "refused"}

Shape ==
    /\ Size(disk) \in Nat /\ disk \in [0 .. (Size(disk) - 1) -> Contents]
    /\ exported \in Seq(Contents) /\ Len(exported) <= DataStart
    /\ advice \in Behaviors \cup {"none"} /\ behavior \in Behaviors
    /\ pc \in Mounting \cup Verdicts \cup {"idle"}
    /\ mounted \in {"no", "rw", "ro"} /\ reported \in Verdicts \cup {"none"}
    /\ stale \subseteq Consumers
    /\ damages \in 0 .. MaxDamages /\ mounts \in 0 .. MaxMounts

(* mount.c: what has been done, and what it rests on.                      *)
MountPath ==
    /\ pc \in Mounting => mounted = "no"
    /\ pc \in {"module", "exec"} => mountpoint
    /\ pc = "exec" => registered
    /\ mounted # "no" => registered /\ mountpoint

Judged ==
    /\ "preflight" \notin stale /\ ~read_only /\ pc \in Passed => Accepted(disk)
    /\ "preflight" \notin stale /\ mounted = "rw" => Accepted(disk)

Refusal ==
    /\ pc = "weak" => behavior # "strict"
    /\ pc = "refused" /\ "preflight" \notin stale =>
        IF behavior = "strict" THEN ~Accepted(disk) ELSE ~WeakOK(disk)
    /\ "advice" \notin stale /\ advice # "none" => advice = mount_recommendation(disk)

(* health.c: the copy made so far, and the verdict it is reported under.   *)
Evidence ==
    /\ pc \in Verdicts => reported = "none"
    /\ "export" \notin stale =>
        /\ \A i \in 1 .. Len(exported) : i - 1 \in DOMAIN disk /\ exported[i] = disk[i - 1]
        /\ pc \in Verdicts => pc = Status(disk)
        /\ reported # "none" => reported = Status(disk) /\ Len(exported) = DataStart

MountInv == Shape /\ MountPath /\ Judged /\ Refusal /\ Evidence
-----------------------------------------------------------------------------
(***************************************************************************)
(* What aetherfs_image_load accepts, aetherfs_validate_image of mount.c    *)
(* accepts.                                                                *)
(***************************************************************************)
LEMMA LoadIsStronger == \A d : LoadOK(d) => WeakOK(d)
BY DEF LoadOK, OpenOK, SuperOK, CheckpointRootOK, WeakOK

(* A status is one of the three.                                           *)
LEMMA StatusIsVerdict == \A d : Status(d) \in Verdicts
BY DEF Status, Verdicts

(* The invariant holds in the beginning.                                   *)
LEMMA InitMount == Init => MountInv
<1> SUFFICES ASSUME Init PROVE MountInv
  OBVIOUS
<1>1. disk \in Images /\ Size(disk) \in Nat
  BY MountAssumption, FS_CardinalityType DEF Init, Size
<1>2. disk \in [0 .. (Size(disk) - 1) -> Contents]
  <2>1. disk = [b \in 0 .. (Size(disk) - 1) |-> disk[b]]
    BY <1>1, MountAssumption
  <2>2. \A b \in DOMAIN disk : disk[b] \in Contents
    <3> SUFFICES ASSUME NEW b \in DOMAIN disk PROVE disk[b] \in Contents
      OBVIOUS
    <3>1. disk[b] \in Range(disk)
      BY DEF Range
    <3> QED
      BY <1>1, <3>1 DEF Contents
  <2> QED
    BY <2>1, <2>2
<1>3. Shape
  BY <1>1, <1>2, MountAssumption DEF Init, Shape, Behaviors, Mounting, Verdicts, Consumers, DataStart
<1>4. MountPath /\ Judged /\ Refusal
  BY DEF Init, MountPath, Judged, Refusal, Mounting, Passed
<1>5. Evidence
  BY DEF Init, Evidence, Verdicts
<1> QED
  BY <1>3, <1>4, <1>5 DEF MountInv
-----------------------------------------------------------------------------
(* Damage changes the image and makes every verdict stale.                 *)
LEMMA DamageStep ==
    ASSUME MountInv, NEW b \in DOMAIN disk, NEW c \in Decayed(b), Damage(b, c)
    PROVE  MountInv'
<1>1. /\ disk' = [disk EXCEPT ![b] = c] /\ stale' = Consumers /\ mounted = "no"
      /\ damages < MaxDamages /\ damages' = damages + 1
      /\ UNCHANGED << advice, behavior, read_only, pc, mounted, registered,
                      mountpoint, exported, reported, mounts >>
  BY DEF Damage
<1>2. c \in Contents
  <2>1. c = Junk \/ c = BadLabel \/ c = BadSuper
    BY Zenon DEF Decayed
  <2> QED
    BY <2>1 DEF Contents
<1>3. DOMAIN disk' = DOMAIN disk /\ Size(disk') = Size(disk)
  BY <1>1 DEF Size
<1>4. disk' \in [0 .. (Size(disk') - 1) -> Contents]
  BY <1>1, <1>2, <1>3 DEF MountInv, Shape
<1>5. damages' \in 0 .. MaxDamages
  BY <1>1, MountAssumption DEF MountInv, Shape
<1>6. Shape'
  BY <1>1, <1>3, <1>4, <1>5 DEF MountInv, Shape
<1>7. MountPath'
  BY <1>1 DEF MountInv, MountPath
<1>8. "preflight" \in stale' /\ "advice" \in stale' /\ "export" \in stale'
  BY <1>1 DEF Consumers
<1>9. Judged' /\ Refusal'
  BY <1>1, <1>8 DEF MountInv, Judged, Refusal
<1>10. Evidence'
  BY <1>1, <1>8 DEF MountInv, Evidence
<1> QED
  BY <1>6, <1>7, <1>9, <1>10 DEF MountInv

(* health looks at the image as it is.                                     *)
LEMMA HealthStep == ASSUME MountInv, run_health PROVE MountInv'
<1>1. /\ advice' = IF OpenOK(disk) THEN mount_recommendation(disk) ELSE "none"
      /\ stale' = stale \ {"advice"}
      /\ UNCHANGED << disk, behavior, read_only, pc, mounted, registered,
                      mountpoint, exported, reported, damages, mounts >>
  BY DEF run_health
<1>2. advice' \in Behaviors \cup {"none"}
  BY <1>1 DEF mount_recommendation, Behaviors
<1>3. /\ "preflight" \in stale' <=> "preflight" \in stale
      /\ "export" \in stale' <=> "export" \in stale
  BY <1>1
<1>4. Shape' /\ MountPath'
  BY <1>1, <1>2 DEF MountInv, Shape, MountPath
<1>5. Judged'
  BY <1>1, <1>3 DEF MountInv, Judged
<1>6. Refusal'
  BY <1>1, <1>3 DEF MountInv, Refusal
<1>7. Evidence'
  BY <1>1, <1>3 DEF MountInv, Evidence
<1> QED
  BY <1>4, <1>5, <1>6, <1>7 DEF MountInv

(* forensics begins with the verdict on the image and an empty copy.       *)
LEMMA ForensicsStep == ASSUME MountInv, ForensicsStart PROVE MountInv'
<1>1. /\ pc = "idle" /\ reported = "none" /\ pc' = Status(disk) /\ exported' = << >>
      /\ stale' = stale \ {"export"}
      /\ UNCHANGED << disk, advice, behavior, read_only, mounted, registered,
                      mountpoint, reported, damages, mounts >>
  BY DEF ForensicsStart
<1>2. pc' \in Verdicts
  BY <1>1, StatusIsVerdict
<1>3. /\ "preflight" \in stale' <=> "preflight" \in stale
      /\ "advice" \in stale' <=> "advice" \in stale
  BY <1>1
<1>4. exported' \in Seq(Contents) /\ Len(exported') = 0
  BY <1>1
<1>5. Shape'
  BY <1>1, <1>2, <1>4 DEF MountInv, Shape, DataStart
<1>6. pc' \notin Mounting
  BY <1>2 DEF Verdicts, Mounting, Passed
<1>7. MountPath' /\ Judged' /\ Refusal'
  BY <1>1, <1>3, <1>6 DEF MountInv, MountPath, Judged, Refusal, Mounting, Passed
<1>8. Evidence'
  BY <1>1, <1>4 DEF MountInv, Evidence
<1> QED
  BY <1>5, <1>7, <1>8 DEF MountInv

(* The next reserved block is copied as it is now.                         *)
LEMMA CopyStep == ASSUME MountInv, CopyBlock PROVE MountInv'
<1> DEFINE n == Len(exported)
<1>1. /\ pc \in Verdicts /\ n < DataStart
      /\ UNCHANGED << disk, advice, behavior, read_only, mounted, registered,
                      mountpoint, reported, stale, damages, mounts >>
      /\ \/ n \in DOMAIN disk /\ exported' = Append(exported, disk[n]) /\ pc' = pc
         \/ exported' = exported /\ pc' = "idle"
  BY DEF CopyBlock, Verdicts
<1>2. exported \in Seq(Contents) /\ n \in Nat
  BY DEF MountInv, Shape
<1>3. pc' \notin Mounting /\ pc' \in Verdicts \cup {"idle"} /\ (pc' \in Verdicts => pc' = pc)
  BY <1>1 DEF Verdicts, Mounting, Passed
<1>4. MountPath' /\ Judged' /\ Refusal'
  BY <1>1, <1>3 DEF MountInv, MountPath, Judged, Refusal, Mounting, Passed
<1>5. reported = "none"
  BY <1>1 DEF MountInv, Evidence
<1>6. CASE n \in DOMAIN disk /\ exported' = Append(exported, disk[n])
  <2>1. disk[n] \in Contents
    BY <1>6 DEF MountInv, Shape
  <2>2. exported' \in Seq(Contents) /\ Len(exported') = n + 1
    BY <1>2, <1>6, <2>1
  <2>3. \A i \in 1 .. Len(exported') : exported'[i] = IF i = n + 1 THEN disk[n] ELSE exported[i]
    BY <1>2, <1>6, <2>1
  <2>4. Shape'
    BY <1>1, <1>2, <1>3, <2>2 DEF MountInv, Shape, DataStart
  <2>5. "export" \notin stale' =>
            \A i \in 1 .. Len(exported') : i - 1 \in DOMAIN disk' /\ exported'[i] = disk'[i - 1]
    BY <1>1, <1>2, <1>6, <2>2, <2>3 DEF MountInv, Evidence
  <2>6. Evidence'
    BY <1>1, <1>3, <1>5, <2>5 DEF MountInv, Evidence
  <2> QED
    BY <1>4, <2>4, <2>6 DEF MountInv
<1>7. CASE exported' = exported
  <2>1. Shape'
    BY <1>1, <1>3, <1>7 DEF MountInv, Shape
  <2>2. Evidence'
    BY <1>1, <1>3, <1>5, <1>7 DEF MountInv, Evidence
  <2> QED
    BY <1>4, <2>1, <2>2 DEF MountInv
<1> QED
  BY <1>1, <1>6, <1>7

(* The report carries the verdict of the beginning.                        *)
LEMMA ReportStep == ASSUME MountInv, WriteReport PROVE MountInv'
<1>1. /\ pc \in Verdicts /\ Len(exported) = DataStart /\ reported' = pc /\ pc' = "idle"
      /\ UNCHANGED << disk, advice, behavior, read_only, mounted, registered,
                      mountpoint, exported, stale, damages, mounts >>
  BY DEF WriteReport, Verdicts
<1>2. Shape'
  BY <1>1 DEF MountInv, Shape
<1>3. MountPath' /\ Judged' /\ Refusal'
  BY <1>1 DEF MountInv, MountPath, Judged, Refusal, Mounting, Passed
<1>4. Evidence'
  BY <1>1 DEF MountInv, Evidence, Verdicts
<1> QED
  BY <1>2, <1>3, <1>4 DEF MountInv

(* A run of mount begins.                                                  *)
LEMMA StartStep == ASSUME MountInv, NEW bhv \in Behaviors, StartMount(bhv) PROVE MountInv'
<1>1. /\ pc = "idle" /\ mounted = "no" /\ mounts < MaxMounts /\ mounts' = mounts + 1
      /\ behavior' = bhv /\ pc' = IF bhv = "rescue" THEN "weak" ELSE "strict"
      /\ UNCHANGED << disk, advice, mounted, registered, mountpoint, exported,
                      reported, stale, damages >>
  BY DEF StartMount
<1>2. mounts' \in 0 .. MaxMounts
  BY <1>1, MountAssumption DEF MountInv, Shape
<1>3. pc' \in {"weak", "strict"} /\ (pc' = "weak" => behavior' # "strict")
  BY <1>1
<1>4. Shape'
  BY <1>1, <1>2, <1>3 DEF MountInv, Shape, Mounting
<1>5. MountPath' /\ Judged' /\ Refusal'
  BY <1>1, <1>3 DEF MountInv, MountPath, Judged, Refusal, Passed
<1>6. Evidence'
  BY <1>1, <1>3 DEF MountInv, Evidence, Verdicts
<1> QED
  BY <1>4, <1>5, <1>6 DEF MountInv

(* The preflights judge the image as it is.                                *)
LEMMA PreflightStep == ASSUME MountInv, PreflightStrict \/ PreflightWeak PROVE MountInv'
<1>1. /\ pc \in {"strict", "weak"} /\ stale' = stale \ {"preflight"}
      /\ pc' \in {"mountpoint", "refused", "weak"}
      /\ UNCHANGED << disk, advice, behavior, mounted, registered, mountpoint,
                      exported, reported, damages, mounts >>
  BY DEF PreflightStrict, PreflightWeak
<1>2. /\ "advice" \in stale' <=> "advice" \in stale
      /\ "export" \in stale' <=> "export" \in stale
  BY <1>1
<1>3. mounted = "no"
  BY <1>1 DEF MountInv, MountPath, Mounting
<1>4. Shape'
  BY <1>1 DEF MountInv, Shape, Mounting, Passed
<1>5. MountPath'
  BY <1>1, <1>3 DEF MountPath
<1>6. Evidence'
  BY <1>1, <1>2 DEF MountInv, Evidence, Verdicts
<1>7. Judged' /\ Refusal'
  <2>1. CASE PreflightStrict
    <3>1. /\ pc' = IF Accepted(disk) THEN "mountpoint"
                   ELSE IF behavior = "strict" THEN "refused" ELSE "weak"
      BY <2>1 DEF PreflightStrict
    <3>2. Judged'
      BY <1>1, <1>3, <3>1 DEF Judged, Passed
    <3>3. Refusal'
      BY <1>1, <1>2, <3>1 DEF MountInv, Refusal
    <3> QED
      BY <3>2, <3>3
  <2>2. CASE PreflightWeak
    <3>1. /\ pc = "weak"
          /\ \/ WeakOK(disk) /\ pc' = "mountpoint" /\ read_only' = TRUE
             \/ ~WeakOK(disk) /\ pc' = "refused"
      BY <2>2 DEF PreflightWeak
    <3>2. Judged'
      BY <1>1, <1>3, <3>1 DEF Judged, Passed
    <3>3. Refusal'
      BY <1>1, <1>2, <3>1 DEF MountInv, Refusal
    <3> QED
      BY <3>2, <3>3
  <2> QED
    BY <2>1, <2>2
<1> QED
  BY <1>4, <1>5, <1>6, <1>7 DEF MountInv

(* Mount point, module, the mount call, and giving up.                     *)
LEMMA FinishStep ==
    ASSUME MountInv,
           ensure_mountpoint \/ try_load_module \/ ExecMount \/ Refused \/ Abort
    PROVE  MountInv'
<1>1. /\ UNCHANGED << disk, advice, behavior, read_only, exported, reported, stale, damages, mounts >>
      /\ pc' \in {"module", "exec", "idle"}
  BY DEF ensure_mountpoint, try_load_module, ExecMount, Refused, Abort
<1>2. mounted' = mounted \/ (ExecMount /\ mounted' \in {"no", "rw", "ro"})
  BY DEF ensure_mountpoint, try_load_module, ExecMount, Refused, Abort
<1>3. Shape'
  BY <1>1, <1>2 DEF MountInv, Shape, Mounting, Passed
<1>4. Refusal' /\ Evidence'
  BY <1>1 DEF MountInv, Refusal, Evidence, Verdicts
<1>5. MountPath' /\ Judged'
  <2>1. CASE ensure_mountpoint
    BY <1>1, <2>1 DEF MountInv, MountPath, Judged, ensure_mountpoint, Mounting, Passed
  <2>2. CASE try_load_module
    BY <1>1, <2>2 DEF MountInv, MountPath, Judged, try_load_module, Mounting, Passed
  <2>3. CASE ExecMount
    <3>1. /\ pc = "exec" /\ pc' = "idle" /\ UNCHANGED << registered, mountpoint >>
          /\ mounted' = "rw" => ~read_only
      BY <2>3 DEF ExecMount
    <3>2. registered /\ mountpoint
      BY <3>1 DEF MountInv, MountPath
    <3> QED
      BY <1>1, <3>1, <3>2 DEF MountInv, MountPath, Judged, Mounting, Passed
  <2>4. CASE Refused \/ Abort
    <3>1. pc' = "idle" /\ UNCHANGED << mounted, registered, mountpoint >>
      BY <2>4 DEF Refused, Abort
    <3> QED
      BY <1>1, <3>1 DEF MountInv, MountPath, Judged, Mounting, Passed
  <2> QED
    BY <2>1, <2>2, <2>3, <2>4
<1> QED
  BY <1>3, <1>4, <1>5 DEF MountInv

(* Every step keeps the invariant.                                         *)
LEMMA MountStep == MountInv /\ [Next]_vars => MountInv'
<1> SUFFICES ASSUME MountInv, [Next]_vars PROVE MountInv'
  OBVIOUS
<1>1. CASE UNCHANGED vars
  BY <1>1 DEF vars, MountInv, Shape, MountPath, Judged, Refusal, Evidence
<1>2. CASE Next
  BY <1>2, DamageStep, HealthStep, ForensicsStep, CopyStep, ReportStep, StartStep,
     PreflightStep, FinishStep DEF Next
<1> QED
  BY <1>1, <1>2
-----------------------------------------------------------------------------
(***************************************************************************)
(* Type correctness, and nothing is mounted without the module and a mount *)
(* point.                                                                  *)
(***************************************************************************)
THEOREM MountTypeCorrect == Spec => []TypeOK
<1>1. MountInv => TypeOK
  <2> SUFFICES ASSUME MountInv PROVE TypeOK
    OBVIOUS
  <2>1. DOMAIN disk = 0 .. (Size(disk) - 1)
    BY DEF MountInv, Shape
  <2>2. Len(exported) \in 0 .. DataStart
    <3> DEFINE n == Len(exported)
    <3>1. n \in Nat /\ n <= DataStart /\ DataStart \in Nat
      BY DEF MountInv, Shape, DataStart
    <3> HIDE DEF n
    <3>2. n \in 0 .. DataStart
      BY <3>1
    <3> QED
      BY <3>2 DEF n
  <2> QED
    BY <2>1, <2>2 DEF MountInv, Shape, MountPath, TypeOK, Mounting, Passed, Verdicts
<1> QED
  BY <1>1, InitMount, MountStep, PTL DEF Spec

(***************************************************************************)
(* aetherfs mount mounts an image writable only if the full validation of  *)
(* the preflight accepted it, whatever behaviour was asked for, unless it  *)
(* was damaged since.                                                      *)
(***************************************************************************)
THEOREM WritableOnlyClean == Spec => []WritableIsClean
<1>1. MountInv => WritableIsClean
  BY DEF MountInv, Judged, WritableIsClean
<1> QED
  BY <1>1, InitMount, MountStep, PTL DEF Spec

(***************************************************************************)
(* The preflight of mount refuses no behaviour that aetherfs health        *)
(* recommended for the image as it is, except rescue.                      *)
(***************************************************************************)
THEOREM AdviceNotRefused == Spec => []AdviceIsUsable
<1>1. MountInv => AdviceIsUsable
  <2> SUFFICES ASSUME MountInv, pc = "refused", "advice" \notin stale,
                      "preflight" \notin stale, behavior = advice, advice # "rescue"
               PROVE  FALSE
    BY DEF AdviceIsUsable
  <2>1. behavior \in Behaviors /\ advice = mount_recommendation(disk)
    BY DEF MountInv, Shape, Refusal, Behaviors
  <2>2. CASE advice = "strict"
    <3>1. Accepted(disk)
      BY <2>1, <2>2 DEF mount_recommendation
    <3> QED
      BY <2>2, <3>1 DEF MountInv, Refusal
  <2>3. CASE advice = "degraded-read-only"
    <3>1. LoadOK(disk)
      BY <2>1, <2>3 DEF mount_recommendation
    <3> QED
      BY <2>3, <3>1, LoadIsStronger DEF MountInv, Refusal
  <2> QED
    BY <2>1, <2>2, <2>3 DEF Behaviors
<1> QED
  BY <1>1, InitMount, MountStep, PTL DEF Spec

(***************************************************************************)
(* The bootstrap blocks that aetherfs forensics exports one by one are     *)
(* those its report is about: put back, they lead to the same status.      *)
(***************************************************************************)
THEOREM EvidenceAgrees == Spec => []EvidenceMatchesReport
<1>1. MountInv => EvidenceMatchesReport
  <2> DEFINE evidence == [b \in DOMAIN disk |->
                            IF b < DataStart THEN exported[b + 1] ELSE disk[b]]
  <2> SUFFICES ASSUME MountInv, reported # "none", "export" \notin stale
               PROVE  reported = Status(evidence)
    BY DEF EvidenceMatchesReport
  <2>1. /\ reported = Status(disk) /\ Len(exported) = DataStart
        /\ \A i \in 1 .. Len(exported) : exported[i] = disk[i - 1]
    BY DEF MountInv, Evidence
  <2>2. disk \in [0 .. (Size(disk) - 1) -> Contents] /\ Size(disk) \in Nat
    BY DEF MountInv, Shape
  <2>3. ASSUME NEW b \in DOMAIN disk PROVE evidence[b] = disk[b]
    <3>1. b \in Nat
      BY <2>2
    <3>2. CASE b < DataStart
      <4>1. b + 1 \in 1 .. Len(exported) /\ (b + 1) - 1 = b
        BY <2>1, <3>1, <3>2 DEF DataStart
      <4> QED
        BY <2>1, <3>2, <4>1
    <3> QED
      BY <3>2
  <2>4. evidence = disk
    BY <2>2, <2>3
  <2> QED
    BY <2>1, <2>4
<1> QED
  BY <1>1, InitMount, MountStep, PTL DEF Spec
=============================================================================
