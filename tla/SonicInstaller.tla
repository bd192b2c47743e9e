---------------------------- MODULE SonicInstaller ----------------------------
(***************************************************************************)
(* The SONiC image manager (sonic-utilities/sonic_installer/main.py):      *)
(* install, set_default, set_next_boot, remove and the list readers        *)
(* get_installed_images / get_next_image, on the two boot loaders the code *)
(* distinguishes by /proc/cmdline (get_image_type):                        *)
(*   ONIE:  the images are the SONiC menuentries of /host/grub/grub.cfg in *)
(*          order; grub-set-default writes saved_entry and grub-reboot     *)
(*          next_entry, both menu indexes (from 0);                        *)
(*   Aboot: the images are the image-* directories of /host, and           *)
(*          /host/boot-config names the one SWI to boot.                   *)
(* Rebooting is the boot loader's step, not the tool's: grub boots         *)
(* next_entry once (clearing it) or else saved_entry; Aboot boots the SWI. *)
(***************************************************************************)
EXTENDS Naturals, Sequences, FiniteSets, SequencesExt

CONSTANTS
    Images,       \* image names (SONiC-OS-<version>)
    NamePrefix,   \* pairs <<a, b>>: b's name starts with a's (reflexive)
    NoEntry       \* no next_entry in grubenv; an index with no menuentry

VARIABLES
    platform,   \* get_image_type(): "onie" or "aboot" (fixed per device)
    current,    \* get_current_image(): the running image
    menu,       \* ONIE: grub.cfg's SONiC menuentries, in order
    dirs,       \* /host/image-* directories
    saved,      \* ONIE: grubenv saved_entry
    next,       \* ONIE: grubenv next_entry, or NoEntry
    swi,        \* Aboot: the image boot-config names
    chosen      \* history: the image of the last set_next_boot, until a reboot,
                \* an install or a set_default supersedes it

vars == <<platform, current, menu, dirs, saved, next, swi, chosen>>

Idx == 0..Cardinality(Images)

TypeOK ==
    /\ platform \in {"onie", "aboot"}
    /\ current \in Images
    /\ menu \in Seq(Images) /\ Len(menu) <= Cardinality(Images)
    /\ dirs \subseteq Images
    /\ saved \in Idx
    /\ next \in Idx \cup {NoEntry}
    /\ swi \in Images
    /\ chosen \in Images \cup {NoEntry}

Init ==
    /\ platform \in {"onie", "aboot"}
    /\ current \in Images
    /\ menu = IF platform = "onie" THEN <<current>> ELSE <<>>
    /\ dirs = {current}
    /\ saved = 0
    /\ next = NoEntry
    /\ swi = current
    /\ chosen = NoEntry

-----------------------------------------------------------------------------
(***************************************************************************)
(* The readers.                                                            *)
(***************************************************************************)

\* get_installed_images(), as a set (membership is all the callers test).
get_installed_images ==
    IF platform = "onie" THEN ToSet(menu) ELSE dirs

\* images.index(image)
Index(img) == SelectInSeq(menu, LAMBDA m : m = img) - 1

\* images[i]: NoEntry stands for the IndexError.
Entry(i) == IF i # NoEntry /\ i < Len(menu) THEN menu[i + 1] ELSE NoEntry

(***************************************************************************)
(* get_next_image(): on ONIE the index is next_entry, else the match of    *)
(* "saved_entry(\d+)" in `grub-editenv list`, else 0.  grub-editenv prints *)
(* "saved_entry=N", which that pattern (no "=") never matches, so without  *)
(* a next_entry the index is 0.                                            *)
(***************************************************************************)
get_next_image ==
    IF platform = "aboot" THEN swi
    ELSE Entry(IF next # NoEntry THEN next ELSE 0)

\* The image the boot loader starts at the next reboot (NoEntry: none).
BootTarget ==
    IF platform = "aboot" THEN swi
    ELSE Entry(IF next # NoEntry THEN next ELSE saved)

-----------------------------------------------------------------------------
(***************************************************************************)
(* The commands.  Each ends with sys.exit(1) ("Image does not exist", ...) *)
(* without a change when its check fails: those are stuttering steps.      *)
(***************************************************************************)

(***************************************************************************)
(* install(url): the image's installer (ONIE: the self-extracting image;   *)
(* Aboot: boot0 with sonic_upgrade=1) unpacks it into /host/image-<ver>.   *)
(* On ONIE it writes the new menuentry first in grub.cfg and the tool then *)
(* runs grub-set-default 0; on Aboot boot0 points boot-config at it.       *)
(* next_entry is left as it is.                                            *)
(***************************************************************************)
\* The installer's effect on the boot files.
Installed(img) ==
    /\ dirs' = dirs \cup {img}
    /\ IF platform = "onie"
       THEN /\ menu' = <<img>> \o menu
            /\ saved' = 0
            /\ UNCHANGED swi
       ELSE /\ swi' = img
            /\ UNCHANGED <<menu, saved>>
    /\ chosen' = NoEntry
    /\ UNCHANGED <<platform, current, next>>

\* Bug variant: an installed version is installed again beside itself.
InstallAgain(img) == Installed(img)

Install(img) ==
    /\ img \notin get_installed_images
    /\ Installed(img)

\* ONIE install whose grub-set-default fails: run_command exits after the
\* installer has added the entry, saved_entry keeps its old index.
InstallDefaultFails(img) ==
    /\ platform = "onie"
    /\ img \notin get_installed_images
    /\ dirs' = dirs \cup {img}
    /\ menu' = <<img>> \o menu
    /\ chosen' = NoEntry
    /\ UNCHANGED <<platform, current, saved, next, swi>>

\* set_default(image): grub-set-default <index>, or boot-config.
SetDefault(img) ==
    /\ img \in get_installed_images
    /\ IF platform = "onie"
       THEN saved' = Index(img) /\ UNCHANGED swi
       ELSE swi' = img /\ UNCHANGED saved
    /\ chosen' = NoEntry
    /\ UNCHANGED <<platform, current, menu, dirs, next>>

\* set_next_boot(image): grub-reboot <index>, or boot-config.
SetNextBoot(img) ==
    /\ img \in get_installed_images
    /\ IF platform = "onie"
       THEN next' = Index(img) /\ UNCHANGED swi
       ELSE swi' = img /\ UNCHANGED next
    /\ chosen' = img
    /\ UNCHANGED <<platform, current, menu, dirs, saved>>

(***************************************************************************)
(* remove(image): get_next_image() runs first (IndexError when next_entry  *)
(* names no menuentry: nothing is removed); the image must be installed    *)
(* and not the current one.  Aboot: if it is the boot-config image,        *)
(* boot-config is pointed at the current image; the directory is removed.  *)
(* ONIE: the first grub.cfg text matching "menuentry '<image>[^}]*}" is    *)
(* cut out (the name is matched as a prefix), the directory removed, and   *)
(* grub-set-default 0 run; next_entry is left as it is.                    *)
(***************************************************************************)
\* The menu position the ONIE regex cuts: the first entry named img or a
\* name extending it.
MatchedEntry(img) == SelectInSeq(menu, LAMBDA m : <<img, m>> \in NamePrefix)

\* What remove does once get_next_image() and the checks have passed;
\* newSwi is the Aboot boot-config afterwards.
Removal(img, newSwi) ==
    /\ dirs' = dirs \ {img}
    /\ IF platform = "aboot"
       THEN /\ swi' = newSwi
            /\ UNCHANGED <<menu, saved>>
       ELSE /\ menu' = RemoveAt(menu, MatchedEntry(img))
            /\ saved' = 0
            /\ UNCHANGED swi
    /\ UNCHANGED <<platform, current, next, chosen>>

\* Bug variant: boot-config is left naming the removed image.
RemoveKeepSwi(img) ==
    /\ get_next_image # NoEntry
    /\ img \in get_installed_images
    /\ img # current
    /\ Removal(img, swi)

remove(img) ==
    /\ get_next_image # NoEntry
    /\ img \in get_installed_images
    /\ img # current
    /\ Removal(img, IF img = swi THEN current ELSE swi)

(***************************************************************************)
(* The boot loader: grub boots next_entry once (its grub.cfg clears it) or *)
(* else saved_entry; Aboot boots the boot-config SWI.  A target with no    *)
(* entry or no directory does not boot; that is not modelled.              *)
(***************************************************************************)
Reboot ==
    /\ BootTarget # NoEntry
    /\ BootTarget \in dirs
    /\ current' = BootTarget
    /\ next' = NoEntry
    /\ chosen' = NoEntry
    /\ UNCHANGED <<platform, menu, dirs, saved, swi>>

Next ==
    \/ \E img \in Images :
          \/ Install(img) \/ InstallDefaultFails(img)
          \/ SetDefault(img) \/ SetNextBoot(img) \/ remove(img)
    \/ Reboot

Spec == Init /\ [][Next]_vars

-----------------------------------------------------------------------------
(***************************************************************************)
(* Properties.                                                             *)
(***************************************************************************)

(* Whatever the boot loader would start at the next reboot is an image    *)
(* still on disk: remove re-points boot-config away from an image it      *)
(* deletes (Aboot), and deletes the grub entry with the directory (ONIE).  *)
BootTargetInstalled == BootTarget # NoEntry => BootTarget \in dirs

(* After set_next_boot(image), the next reboot starts that image ("Choose *)
(* image for next reboot (one time action)") as long as it is installed,  *)
(* whichever other images are removed before the reboot.                  *)
NextBootIsChosen == chosen \in dirs => BootTarget = chosen
=============================================================================
