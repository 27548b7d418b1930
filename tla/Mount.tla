------------------------------- MODULE Mount -------------------------------
(***************************************************************************)
(* The path from an image to a mounted file system: aetherfs health and    *)
(* aetherfs forensics (aetherfsprogs/health.c), the preflight and the      *)
(* mount call of aetherfs mount (aetherfsprogs/mount.c), and what the      *)
(* kernel looks at (aetherfs_fill_super in kernel/super.c).  Each of them  *)
(* judges the image by rules of its own.  The image may be damaged at any  *)
(* time, also between the preflight and the mount.                         *)
(***************************************************************************)
EXTENDS AetherImage

CONSTANTS
    Images,      \* the images the path may hold
    MaxDamages,  \* bound: blocks damaged
    MaxMounts    \* bound: runs of aetherfs mount

ASSUME MountAssumption ==
    /\ MaxDamages \in Nat /\ MaxMounts \in Nat
    /\ \A d \in Images :
        IsFiniteSet(DOMAIN d) /\ d = [b \in 0 .. (Size(d) - 1) |-> d[b]]

VARIABLES
    disk,        \* the image
    advice,      \* the recommended mount, "none" before health ran
    behavior,    \* the behaviour asked of the current run of mount
    read_only,   \* force_read_only
    pc,          \* where that run stands
    mounted,     \* "no", "rw" or "ro"
    registered,  \* the kernel knows the file system type
    mountpoint,  \* the mount point exists
    exported,    \* the blocks forensics has written so far
    reported,    \* the status in report.txt, "none" while there is none
    stale,       \* history: the consumers the last damage came too late for
    damages, mounts

vars == << disk, advice, behavior, read_only, pc, mounted, registered,
           mountpoint, exported, reported, stale, damages, mounts >>

Behaviors == {"strict", "degraded-read-only", "rescue"}

(* What saw the image before its last damage.                              *)
Consumers == {"advice", "preflight", "export"}

Init ==
    /\ disk \in Images
    /\ advice = "none" /\ behavior = "strict" /\ read_only = FALSE
    /\ pc = "idle" /\ mounted = "no" /\ exported = << >> /\ reported = "none"
    /\ registered \in BOOLEAN /\ mountpoint \in BOOLEAN
    /\ stale = {} /\ damages = 0 /\ mounts = 0

-----------------------------------------------------------------------------
(* A block decays; of a label or a superblock the magic number may stay.   *)
Decayed(b) ==
    {Junk} \cup (IF b = LabelBlock THEN {BadLabel} ELSE {})
           \cup (IF b = SuperBlock THEN {BadSuper} ELSE {})

Damage(b, c) ==
    /\ damages < MaxDamages /\ mounted = "no"
    /\ disk[b] # c
    /\ disk' = [disk EXCEPT ![b] = c]
    /\ damages' = damages + 1
    /\ stale' = Consumers
    /\ UNCHANGED << advice, behavior, read_only, pc, mounted, registered,
                    mountpoint, exported, reported, mounts >>

-----------------------------------------------------------------------------
(* aetherfs health.                                                        *)
mount_recommendation(d) ==
    IF Accepted(d) THEN "strict"
    ELSE IF LoadOK(d) THEN "degraded-read-only" ELSE "rescue"

run_health ==
    /\ mounted = "no"
    /\ advice' = IF OpenOK(disk) THEN mount_recommendation(disk) ELSE "none"
    /\ stale' = stale \ {"advice"}
    /\ UNCHANGED << disk, behavior, read_only, pc, mounted, registered,
                    mountpoint, exported, reported, damages, mounts >>

-----------------------------------------------------------------------------
(* aetherfs forensics: load and validate, copy the reserved blocks one by  *)
(* one through descriptors of their own, write the report.  The verdict is *)
(* kept from the first step to the last.                                   *)
Status(d) == IF ~LoadOK(d) THEN "unreadable" ELSE IF Accepted(d) THEN "clean" ELSE "damaged"

ForensicsStart ==
    /\ pc = "idle" /\ reported = "none" /\ OpenOK(disk)
    /\ pc' = Status(disk)
    /\ exported' = << >>
    /\ stale' = stale \ {"export"}
    /\ UNCHANGED << disk, advice, behavior, read_only, mounted, registered,
                    mountpoint, reported, damages, mounts >>

CopyBlock_shifted ==
    /\ pc \in {"unreadable", "clean", "damaged"} /\ Len(exported) < DataStart
    /\ IF Len(exported) + 1 \in DOMAIN disk
       THEN exported' = Append(exported, disk[Len(exported) + 1]) /\ pc' = pc
       ELSE exported' = exported /\ pc' = "idle"
    /\ UNCHANGED << disk, advice, behavior, read_only, mounted, registered,
                    mountpoint, reported, stale, damages, mounts >>

CopyBlock ==
    /\ pc \in {"unreadable", "clean", "damaged"} /\ Len(exported) < DataStart
    /\ IF Len(exported) \in DOMAIN disk
       THEN exported' = Append(exported, disk[Len(exported)]) /\ pc' = pc
       ELSE exported' = exported /\ pc' = "idle"
    /\ UNCHANGED << disk, advice, behavior, read_only, mounted, registered,
                    mountpoint, reported, stale, damages, mounts >>

WriteReport ==
    /\ pc \in {"unreadable", "clean", "damaged"} /\ Len(exported) = DataStart
    /\ reported' = pc
    /\ pc' = "idle"
    /\ UNCHANGED << disk, advice, behavior, read_only, mounted, registered,
                    mountpoint, exported, stale, damages, mounts >>

-----------------------------------------------------------------------------
(* aetherfs_validate_image of mount.c: label, superblock and checkpoint    *)
(* root alone.                                                             *)
WeakOK_labelRequired(d) ==
    /\ SuperBlock \in DOMAIN d /\ d[SuperBlock].kind = "super" /\ d[SuperBlock].devices = 1
    /\ RootBlock \in DOMAIN d /\ d[RootBlock].kind = "ckpt" /\ HasLabel(d)

WeakOK(d) ==
    /\ Size(d) > 0
    /\ d[LabelBlock] # BadLabel /\ (HasLabel(d) => d[LabelBlock].members = 1)
    /\ SuperBlock \in DOMAIN d /\ d[SuperBlock].kind = "super" /\ d[SuperBlock].devices = 1
    /\ RootBlock \in DOMAIN d /\ d[RootBlock].kind = "ckpt"

(* aetherfs_run_mount.                                                     *)
StartMount(bhv) ==
    /\ pc = "idle" /\ mounted = "no" /\ mounts < MaxMounts
    /\ mounts' = mounts + 1
    /\ behavior' = bhv
    /\ read_only' = (bhv = "rescue")
    /\ pc' = IF bhv = "rescue" THEN "weak" ELSE "strict"
    /\ UNCHANGED << disk, advice, mounted, registered, mountpoint, exported,
                    reported, stale, damages >>

PreflightStrict_loadOnly ==
    /\ pc = "strict"
    /\ pc' = IF LoadOK(disk) THEN "mountpoint"
             ELSE IF behavior = "strict" THEN "refused" ELSE "weak"
    /\ stale' = stale \ {"preflight"}
    /\ UNCHANGED << disk, advice, behavior, read_only, mounted, registered,
                    mountpoint, exported, reported, damages, mounts >>

PreflightStrict ==
    /\ pc = "strict"
    /\ pc' = IF Accepted(disk) THEN "mountpoint"
             ELSE IF behavior = "strict" THEN "refused" ELSE "weak"
    /\ stale' = stale \ {"preflight"}
    /\ UNCHANGED << disk, advice, behavior, read_only, mounted, registered,
                    mountpoint, exported, reported, damages, mounts >>

PreflightWeak ==
    /\ pc = "weak"
    /\ IF WeakOK(disk)
       THEN pc' = "mountpoint" /\ read_only' = TRUE
       ELSE pc' = "refused" /\ UNCHANGED read_only
    /\ stale' = stale \ {"preflight"}
    /\ UNCHANGED << disk, advice, behavior, mounted, registered, mountpoint,
                    exported, reported, damages, mounts >>

(* --mkdir is given or not; modprobe and insmod succeed or not.            *)
ensure_mountpoint_unchecked ==
    /\ pc = "mountpoint"
    /\ pc' = "module"
    /\ UNCHANGED << disk, advice, behavior, read_only, mounted, registered,
                    mountpoint, exported, reported, stale, damages, mounts >>

ensure_mountpoint ==
    /\ pc = "mountpoint"
    /\ \/ mountpoint' = TRUE /\ pc' = "module"
       \/ ~mountpoint /\ UNCHANGED mountpoint /\ pc' = "idle"
    /\ UNCHANGED << disk, advice, behavior, read_only, mounted, registered,
                    exported, reported, stale, damages, mounts >>

try_load_module ==
    /\ pc = "module"
    /\ \/ registered' = TRUE /\ pc' = "exec"
       \/ ~registered /\ UNCHANGED registered /\ pc' = "idle"
    /\ UNCHANGED << disk, advice, behavior, read_only, mounted, mountpoint,
                    exported, reported, stale, damages, mounts >>

(* The kernel looks at the magic number of the superblock and no further.  *)
fill_super_OK(d) == SuperBlock \in DOMAIN d /\ d[SuperBlock].kind \in {"super", "badsuper"}

ExecMount ==
    /\ pc = "exec"
    /\ mounted' = IF ~fill_super_OK(disk) THEN "no" ELSE IF read_only THEN "ro" ELSE "rw"
    /\ pc' = "idle"
    /\ UNCHANGED << disk, advice, behavior, read_only, registered, mountpoint,
                    exported, reported, stale, damages, mounts >>

Refused ==
    /\ pc = "refused"
    /\ pc' = "idle"
    /\ UNCHANGED << disk, advice, behavior, read_only, mounted, registered,
                    mountpoint, exported, reported, stale, damages, mounts >>

(* mount fails for a reason of its own, or the process dies.               *)
Abort ==
    /\ pc \notin {"idle", "refused"}
    /\ pc' = "idle"
    /\ UNCHANGED << disk, advice, behavior, read_only, mounted, registered,
                    mountpoint, exported, reported, stale, damages, mounts >>

Next ==
    \/ \E b \in DOMAIN disk : \E c \in Decayed(b) : Damage(b, c)
    \/ \E bhv \in Behaviors : StartMount(bhv)
    \/ run_health \/ ForensicsStart \/ CopyBlock \/ WriteReport
    \/ PreflightStrict \/ PreflightWeak \/ ensure_mountpoint
    \/ try_load_module \/ ExecMount \/ Refused \/ Abort

Spec == Init /\ [][Next]_vars
-----------------------------------------------------------------------------
(* The state stays well formed.                                            *)
TypeOK ==
    /\ DOMAIN disk = 0 .. (Size(disk) - 1)
    /\ advice \in Behaviors \cup {"none"} /\ behavior \in Behaviors
    /\ pc \in {"idle", "strict", "weak", "mountpoint", "module", "exec", "refused",
               "unreadable", "clean", "damaged"}
    /\ mounted \in {"no", "rw", "ro"} /\ (mounted # "no" => registered /\ mountpoint)
    /\ Len(exported) \in 0 .. DataStart /\ stale \subseteq Consumers
    /\ reported \in {"none", "unreadable", "clean", "damaged"}
    /\ damages \in 0 .. MaxDamages /\ mounts \in 0 .. MaxMounts

(***************************************************************************)
(* An image is mounted writable only if scrub would call it clean, unless  *)
(* it was damaged after the preflight; strict and degraded-read-only share *)
(* this.                                                                   *)
(***************************************************************************)
WritableIsClean ==
    mounted = "rw" /\ "preflight" \notin stale => Accepted(disk)

(***************************************************************************)
(* The preflight does not refuse the behaviour health recommends for the   *)
(* image as it is, although the two validate it by different code; only    *)
(* the last resort, rescue, may still be refused.                          *)
(***************************************************************************)
AdviceIsUsable ==
    pc = "refused" /\ stale \cap {"advice", "preflight"} = {} /\ behavior = advice
        => advice = "rescue"

(***************************************************************************)
(* Evidence exported without damage in between tells what the report says: *)
(* an image with the exported bootstrap blocks loads exactly if the report *)
(* does not call it unreadable.                                            *)
(***************************************************************************)
EvidenceMatchesReport ==
    reported # "none" /\ "export" \notin stale =>
        LET evidence == [b \in DOMAIN disk |->
                           IF b < DataStart THEN exported[b + 1] ELSE disk[b]]
        IN  reported = Status(evidence)
=============================================================================
