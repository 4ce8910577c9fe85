--------------------------- MODULE FirmwareUpdate ---------------------------
(***************************************************************************)
(* A firmware update: the web page and update.sh upload a bundle through   *)
(* the HTTP API and have RAUC install it, poll its progress and reboot.    *)
(* Nothing keeps them apart, the page's answers may overtake each other,   *)
(* and the device may go down at any point.  RAUC is external: it writes   *)
(* the slot that is not booted, marks it bad while it does, and puts it    *)
(* first in BOOT_ORDER when it is done; of a full bundle it also writes    *)
(* boot.vfat beside the one in use, and has the MBR point to it.           *)
(***************************************************************************)
EXTENDS BootSlots

\* A full bundle (update.raucb) has a boot.vfat, too; the other is rootfs.raucb.
CONSTANT Bundles

ASSUME BundlesAssumption == Bundles \subseteq [version : Versions, full : BOOLEAN]

NoBundle == [version |-> Partial, full |-> FALSE]  \* or a part of one

VARIABLES
  file,      \* the bundle in /upload, or NoBundle
  rauc,      \* "idle", "called", or "writing"
  progress,  \* RAUC's Progress property
  intact,    \* the bundle being written has not been replaced
  page,      \* the _state of the firmware page; "posting": install under way
  shown,     \* the progress that the page shows
  late,      \* answers to the page's refreshes that are under way
  script,    \* where update.sh is
  promised   \* history: the slot of an update that no boot has tried yet

installer == <<rauc, progress, intact>>
pageVars  == <<page, shown, late>>
vars      == <<bootVars, file, installer, pageVars, script, promised>>

\* The percentage: 100, or less.
Busy == "busy"
Done == "done"

Percents == {Busy, Done}

TypeOK ==
  /\ BootTypeOK
  /\ file \in Bundles \cup {NoBundle}
  /\ rauc \in {"idle", "called", "writing"}
  /\ progress \in Percents
  /\ intact \in BOOLEAN
  /\ page \in {"initial", "uploading", "posting", "installing"}
  /\ shown \in Percents
  /\ late \subseteq Percents
  /\ script \in {"done", "upload", "install", "wait", "reboot"}
  /\ promised \in Slots \cup {NoSlot}

Init ==
  /\ BootInit
  /\ file = NoBundle
  /\ rauc = "idle" /\ progress = Busy /\ intact = TRUE
  /\ page = "initial" /\ shown = Busy /\ late = {}
  /\ script = "done"
  /\ promised = NoSlot

Up == stage = "up"

\* Faulty Other: raucargs name the slot that was not booted.
OtherIsBooted(s) == s

Other(s) == IF s = "A" THEN "B" ELSE "A"

-----------------------------------------------------------------------------
(***************************************************************************)
(* The device.                                                             *)
(***************************************************************************)
\* An attempt on record ends the wait for the new slot, whatever its kernel does.
Boot ==
  /\ Booting
  /\ promised' = IF stage = "chosen" /\ stage' = "kernel" THEN NoSlot ELSE promised
  /\ UNCHANGED <<file, installer, pageVars, script>>

\* A reboot or a power cut; what RAUC was doing is forgotten.
GoesDown ==
  /\ Off
  /\ rauc' = "idle" /\ progress' = Busy /\ intact' = TRUE
  /\ UNCHANGED <<flash, image, loader, cuts>>

PowerCut ==
  /\ Up
  /\ GoesDown
  /\ UNCHANGED <<file, pageVars, script, promised>>

\* "rauc status mark-good", by hand: nothing in the system does it.
MarkGood ==
  /\ Up
  /\ flash' = [flash EXCEPT !.left[slot] = Attempts]
  /\ UNCHANGED <<env, stage, slot, image, loader, cuts, file, installer, pageVars, script,
                 promised>>

-----------------------------------------------------------------------------
(***************************************************************************)
(* RAUC, and the handlers of the API that call it.  InstallBundle returns  *)
(* before the first progress of its thread: until then a client still gets *)
(* that of the last installation.                                          *)
(***************************************************************************)
InstallBundle ==
  /\ rauc = "idle"
  /\ rauc' = "called"
  /\ UNCHANGED <<progress, intact>>

InstallRefused == rauc # "idle" /\ UNCHANGED installer

\* firmware_upload writes over the file, whoever reads it.
Upload(content) ==
  /\ file' = content
  /\ intact' = (intact /\ rauc # "writing")
  /\ UNCHANGED <<rauc, progress>>

RaucRejects ==
  /\ rauc = "called"
  /\ rauc' = "idle"
  /\ progress' = Done
  /\ UNCHANGED <<bootVars, file, intact, pageVars, script, promised>>

RaucStartsWriting ==
  /\ rauc = "called"
  /\ file \in Bundles
  /\ rauc' = "writing"
  /\ progress' = Busy
  /\ flash' = [flash EXCEPT !.left[Other(slot)] = 0]
  /\ image' = [image EXCEPT ![Other(slot)] = Partial]
  /\ promised' = NoSlot
  /\ UNCHANGED <<env, stage, slot, loader, cuts, file, intact, pageVars, script>>

\* type=boot-mbr-switch: the new boot.vfat is complete before the MBR points to it.
\* What comes after may still fail.
RaucSwitchesLoader ==
  /\ rauc = "writing"
  /\ intact
  /\ file.full
  /\ loader # file.version
  /\ loader' = file.version
  /\ UNCHANGED <<flash, env, stage, slot, image, cuts, file, installer, pageVars, script,
                 promised>>

RaucSucceeds ==
  /\ rauc = "writing"
  /\ intact
  /\ file.full => loader = file.version
  /\ rauc' = "idle"
  /\ progress' = Done
  /\ image' = [image EXCEPT ![Other(slot)] = file.version]
  /\ flash' = [flash EXCEPT !.order = <<Other(slot), slot>>,
                            !.left[Other(slot)] = Attempts]
  /\ promised' = Other(slot)
  /\ UNCHANGED <<env, stage, slot, loader, cuts, file, intact, pageVars, script>>

\* "Installing failed.": the progress is 100 all the same.
RaucFails ==
  /\ rauc = "writing"
  /\ rauc' = "idle"
  /\ progress' = Done
  /\ intact' = TRUE
  /\ UNCHANGED <<bootVars, file, pageVars, script, promised>>

Rauc ==
  \/ RaucRejects \/ RaucStartsWriting \/ RaucSwitchesLoader \/ RaucSucceeds
  \/ RaucFails

-----------------------------------------------------------------------------
(***************************************************************************)
(* The firmware page.  A request that fails throws in the page and leaves  *)
(* its state as it is.                                                     *)
(***************************************************************************)
OpenPage ==
  /\ page' = "initial"
  /\ shown' = Busy
  /\ late' = {}
  /\ UNCHANGED <<bootVars, file, installer, script, promised>>

PickFile ==
  /\ page = "initial"
  /\ page' = "uploading"
  /\ UNCHANGED <<bootVars, file, installer, shown, late, script, promised>>

PageUploads ==
  /\ page = "uploading"
  /\ Up
  /\ \E bundle \in Bundles : Upload(bundle)
  /\ page' = "posting"
  /\ UNCHANGED <<bootVars, shown, late, script, promised>>

\* _state is an _InstallingState before the installation has been asked for, and
\* stays one if it is refused.
PageInstalls ==
  /\ page = "posting"
  /\ \/ Up /\ (InstallBundle \/ InstallRefused)
     \/ ~Up /\ UNCHANGED installer
  /\ page' = "installing"
  /\ UNCHANGED <<bootVars, file, shown, late, script, promised>>

Waiting == page \in {"posting", "installing"}

\* Faulty Refresh: asks only while the installation is under way.
RefreshWhileBusy ==
  /\ Waiting
  /\ Up
  /\ progress = Busy
  /\ progress \notin late
  /\ late' = late \cup {progress}
  /\ UNCHANGED <<bootVars, file, installer, page, shown, script, promised>>

\* _timerCallback asks every second, whether or not the last refresh has been
\* answered; firmware_install_progress answers with what RAUC says by then.
Refresh ==
  /\ Waiting
  /\ Up
  /\ progress \notin late
  /\ late' = late \cup {progress}
  /\ UNCHANGED <<bootVars, file, installer, page, shown, script, promised>>

\* An answer arrives, in any order.
Show(percent) ==
  /\ percent \in late
  /\ late' = late \ {percent}
  /\ shown' = percent
  /\ UNCHANGED <<bootVars, file, installer, page, script, promised>>

RebootButton == Waiting /\ shown = Done

PressReboot ==
  /\ RebootButton
  /\ Up
  /\ GoesDown
  /\ UNCHANGED <<file, pageVars, script, promised>>

-----------------------------------------------------------------------------
(***************************************************************************)
(* update.sh.                                                              *)
(***************************************************************************)
ScriptStarts ==
  /\ script = "done"
  /\ script' = "upload"
  /\ UNCHANGED <<bootVars, file, installer, pageVars, promised>>

\* Without --fail, curl takes an error of the API, say for want of space, for an
\* answer; only if it gets none does set -e end the script.
ScriptUploads ==
  /\ script = "upload"
  /\ \/ /\ Up
        /\ \E content \in Bundles \cup {NoBundle} : Upload(content)
        /\ script' = "install"
     \/ script' = "done" /\ UNCHANGED <<file, installer>>
  /\ UNCHANGED <<bootVars, pageVars, promised>>

\* With --fail a refusal ends the script.
ScriptInstalls ==
  /\ script = "install"
  /\ \/ Up /\ InstallBundle /\ script' = "wait"
     \/ (Up => rauc # "idle") /\ script' = "done" /\ UNCHANGED installer
  /\ UNCHANGED <<bootVars, file, pageVars, promised>>

\* Faulty ScriptPolls: waits for an installation that succeeds.
ScriptPollsForSuccess ==
  /\ script = "wait"
  /\ Up => progress = Done /\ promised # NoSlot
  /\ script' = "reboot"
  /\ UNCHANGED <<bootVars, file, installer, pageVars, promised>>

\* The loop ends when python exits with 1: at a progress of 100, and at an answer
\* that is none, for an exception exits with 1, too.
ScriptPolls ==
  /\ script = "wait"
  /\ Up => progress = Done
  /\ script' = "reboot"
  /\ UNCHANGED <<bootVars, file, installer, pageVars, promised>>

\* The exception again: the API answers with an error while RAUC installs.
ScriptMisreads ==
  /\ script = "wait"
  /\ Up
  /\ script' = "reboot"
  /\ UNCHANGED <<bootVars, file, installer, pageVars, promised>>

ScriptReboots ==
  /\ script = "reboot"
  /\ script' = "done"
  /\ \/ Up /\ GoesDown
     \/ ~Up /\ UNCHANGED <<bootVars, installer>>
  /\ UNCHANGED <<file, pageVars, promised>>

ScriptGoesOn == ScriptUploads \/ ScriptInstalls \/ ScriptPolls \/ ScriptReboots

-----------------------------------------------------------------------------
PageStep ==
  \/ OpenPage \/ PickFile \/ PageUploads \/ PageInstalls \/ PressReboot
  \/ Refresh \/ \E percent \in Percents : Show(percent)

Next ==
  \/ Boot \/ PowerCut \/ MarkGood \/ Rauc
  \/ PageStep
  \/ ScriptStarts \/ ScriptGoesOn \/ ScriptMisreads

Spec == Init /\ [][Next]_vars

(***************************************************************************)
(* The boot script runs on, and its saveenv does not fail for ever; a      *)
(* device that is off or hangs is turned on again, an installation ends,   *)
(* requests are answered, the page's timer ticks, and the loop of update.sh*)
(* polls on; a progress of 100 lasts longer than the second between two.   *)
(* Nothing is assumed of users and failures.                               *)
(***************************************************************************)
Fairness ==
  /\ WF_vars((PowerOn \/ Script \/ GiveUp) /\ Boot)
  /\ SF_vars((SaveEnv \/ ResetTries) /\ Boot)
  /\ WF_vars(Rauc)
  /\ SF_vars(ScriptPolls)
  /\ WF_vars(Refresh)
  /\ WF_vars(\E percent \in Percents : Show(percent))

FairSpec == Spec /\ Fairness

-----------------------------------------------------------------------------
\* br-external/README.md, "Symmetric Root-FS Slots with fallback on failed updates":
\* whatever root file systems were installed, half installed or overwritten, whoever
\* rebooted in the middle of it, and although nobody marks a slot good, a system comes
\* up again.  Of boot.vfat the same list says "no fallback": as long as a bad one is in
\* use, nothing is promised.
SystemComesUp == []<>(Up \/ loader \in BadLoaders)

\* The first attempt after a completed update is that of the new slot.
UpdateIsTried == stage = "chosen" /\ promised # NoSlot => slot = promised

\* Why: until it is tried, the new slot comes first in BOOT_ORDER and has attempts left,
\* in flash as in the memory of the script, and is not the one that runs; RAUC works
\* only on a system that is up.
PromiseKept ==
  /\ rauc # "idle" => Up
  /\ stage \in {"chosen", "kernel", "stuck", "up"} => slot \in Slots
  /\ stage = "script" => env = WithDefaults(flash)
  /\ promised # NoSlot =>
       /\ flash.order # <<>> /\ flash.order[1] = promised
       /\ flash.left[promised] \in 1..Attempts
  /\ UpdateIsTried

Inv == TypeOK /\ PromiseKept

\* Updates that fail, faulty versions, installations stopped half way and power cuts,
\* in any order and one after the other, never leave both root file systems without one
\* that comes up.
AlwaysASystem == \E s \in Slots : ComesUp(image[s])

\* Why: the slot that runs is not the one that is written.
SystemKept ==
  /\ AlwaysASystem
  /\ Up => ComesUp(image[slot])

\* When an installation is over, however it ended, the page that waits for it offers
\* the reboot: an answer from before does not keep it away.
RebootIsOffered ==
  page = "installing" /\ rauc = "idle" /\ progress = Done
    ~> RebootButton \/ page # "installing" \/ rauc # "idle" \/ ~Up

\* update.sh does not wait for ever, neither for an installation that fails nor for
\* one it did not ask for: only for one that ended with the power.
ScriptEnds == script = "wait" ~> script # "wait" \/ (rauc = "idle" /\ progress = Busy)
=============================================================================
