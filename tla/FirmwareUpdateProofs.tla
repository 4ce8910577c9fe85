------------------------ MODULE FirmwareUpdateProofs ------------------------
(***************************************************************************)
(* FirmwareUpdate for any versions, any of them faulty, any number of      *)
(* attempts and of power cuts: after a completed update the new slot is    *)
(* the one that the next boot tries, the slot that runs is never written,  *)
(* and one of the two holds a system that comes up.                        *)
(***************************************************************************)
EXTENDS FirmwareUpdate, TLAPS

USE AttemptsAssumption, EarlyCutsAssumption

\* A device from the factory is off, and nothing is promised.
LEMMA InitInv == Init => Inv
  BY FactoryAssumption
     DEF Init, BootInit, NoBundle, Inv, TypeOK, BootTypeOK, PromiseKept, UpdateIsTried,
         Empty, Environments, Orders, Slots, Unset, NoSlot, Up, Percents, Stages

\* The defaults of the boot script make an environment with both slots in its order,
\* and keep what was set.
LEMMA DefaultsType ==
  ASSUME NEW e \in Environments
  PROVE  /\ WithDefaults(e) \in Environments
         /\ WithDefaults(e).order # <<>>
         /\ e.order # <<>> => WithDefaults(e).order = e.order
         /\ \A s \in Slots :
              e.left[s] \in 0..Attempts => WithDefaults(e).left[s] = e.left[s]
  BY DEF WithDefaults, Environments, Orders, Slots, Unset

\* The boot script: what is in memory was read from flash after the promise was made.
LEMMA BootKeepsInv ==
  ASSUME Inv, Boot PROVE Inv'
  <1> USE DEF Inv, Boot, installer, pageVars
  <1>1. CASE PowerOn
    <2> USE <1>1 DEF PowerOn
    <2>1. env' \in Environments /\ (stage' = "script" => env' = WithDefaults(flash))
      BY DefaultsType DEF TypeOK, BootTypeOK
    <2>2. TypeOK'
      BY <2>1 DEF TypeOK, BootTypeOK, Stages
    <2>3. PromiseKept'
      BY <2>1 DEF PromiseKept, UpdateIsTried, Up, TypeOK
    <2>4. QED
      BY <2>2, <2>3
  <1>2. CASE ChooseSlot
    <2> USE <1>2 DEF ChooseSlot
    <2>1. env \in Environments /\ env = WithDefaults(flash) /\ flash \in Environments
      BY DEF TypeOK, BootTypeOK, PromiseKept
    <2>2. PICK i \in DOMAIN env.order :
            /\ HasAttempts(env.order[i])
            /\ \A j \in DOMAIN env.order : j < i => ~HasAttempts(env.order[j])
            /\ slot' = env.order[i]
      OBVIOUS
    <2>3. slot' \in Slots /\ i \in 1..2 /\ 1 \in DOMAIN env.order
      <3>1. env.order \in {<<"A", "B">>, <<"B", "A">>}
        BY <2>1, DefaultsType DEF Environments, Orders
      <3>2. DOMAIN env.order = 1..2 /\ \A j \in 1..2 : env.order[j] \in Slots
        <4>1. CASE env.order = <<"A", "B">>
          BY ONLY <4>1 DEF Slots
        <4>2. CASE env.order = <<"B", "A">>
          BY ONLY <4>2 DEF Slots
        <4>3. QED
          BY ONLY <3>1, <4>1, <4>2
      <3>3. QED
        BY <2>2, <3>2
    <2>4. env' \in Environments
      BY <2>1, <2>2, <2>3 DEF Environments, HasAttempts, Unset
    <2>5. TypeOK'
      BY <2>3, <2>4 DEF TypeOK, BootTypeOK, Stages
    <2>6. ASSUME promised # NoSlot PROVE slot' = promised
      <3>1. /\ promised \in Slots /\ flash.order # <<>> /\ flash.order[1] = promised
            /\ flash.left[promised] \in 1..Attempts
        BY <2>6 DEF PromiseKept, TypeOK
      <3>2. env.order[1] = promised /\ env.left[promised] = flash.left[promised]
        BY <2>1, <3>1, DefaultsType
      <3>3. i = 1
        BY <2>2, <2>3, <3>1, <3>2 DEF HasAttempts
      <3>4. QED
        BY <2>2, <3>2, <3>3
    <2>7. PromiseKept'
      BY <2>3, <2>6 DEF PromiseKept, UpdateIsTried, Up
    <2>8. QED
      BY <2>5, <2>7
  <1>3. CASE ResetTries
    <2> USE <1>3 DEF ResetTries, NoSlotLeft, Off
    <2>1. env \in Environments /\ env = WithDefaults(flash) /\ flash \in Environments
      BY DEF TypeOK, BootTypeOK, PromiseKept
    <2>2. flash' \in Environments /\ flash'.order = env.order
          /\ flash'.left = [s \in Slots |-> Attempts]
      BY <2>1 DEF Environments, Unset
    <2>3. TypeOK'
      BY <2>2 DEF TypeOK, BootTypeOK, Stages, Empty, Environments, Orders, Unset
    <2>4. PromiseKept'
      BY <2>1, <2>2, DefaultsType DEF PromiseKept, UpdateIsTried, Up, TypeOK, NoSlot
    <2>5. QED
      BY <2>3, <2>4
  <1>4. CASE SaveEnv \/ AttemptUnsaved
    BY <1>4 DEF SaveEnv, AttemptUnsaved, TypeOK, BootTypeOK, Stages, PromiseKept,
                UpdateIsTried, Up
  <1>5. CASE StartKernel
    BY <1>5 DEF StartKernel, TypeOK, BootTypeOK, Stages, PromiseKept, UpdateIsTried, Up,
                Empty, Environments, Orders, Unset
  <1>6. CASE EarlyCut \/ ResetUnsaved
    BY <1>6 DEF EarlyCut, ResetUnsaved, Off, TypeOK, BootTypeOK, Stages, PromiseKept,
                UpdateIsTried, Up, Empty, Environments, Orders, Unset
  <1>7. CASE GiveUp
    BY <1>7 DEF GiveUp, Off, TypeOK, BootTypeOK, Stages, PromiseKept, UpdateIsTried, Up,
                Empty, Environments, Orders, Unset
  <1>8. QED
    BY <1>1, <1>2, <1>3, <1>4, <1>5, <1>6, <1>7 DEF Booting, Script

\* A device that goes down does so with its flash as it is.
LEMMA DownKeepsInv ==
  ASSUME Inv, GoesDown, UNCHANGED promised, file' = file, script' \in {script, "done"},
         UNCHANGED pageVars
  PROVE  Inv'
  BY DEF Inv, GoesDown, Off, TypeOK, BootTypeOK, Stages, PromiseKept, UpdateIsTried, Up,
         Empty, Environments, Orders, Unset, Percents, pageVars

\* RAUC: a new installation takes the old promise back before it touches the slot.
LEMMA RaucKeepsInv ==
  ASSUME Inv, Rauc PROVE Inv'
  <1> USE DEF Inv, pageVars, TypeOK, BootTypeOK, Percents
  <1>1. Up /\ slot \in Slots /\ Other(slot) \in Slots /\ Other(slot) # slot
    BY DEF Rauc, RaucRejects, RaucStartsWriting, RaucSwitchesLoader,
           RaucSucceeds, RaucFails, PromiseKept,
           Up, Other, Slots
  <1>2. CASE RaucRejects
    BY <1>2 DEF RaucRejects, PromiseKept, UpdateIsTried, Up, bootVars
  <1>3. CASE RaucStartsWriting
    <2> USE <1>3 DEF RaucStartsWriting
    <2>1. flash' \in Environments
      BY <1>1 DEF Environments, Unset
    <2>2. image' \in [Slots -> Versions \cup {Partial}]
      BY <1>1
    <2>3. TypeOK'
      BY <2>1, <2>2
    <2>4. PromiseKept'
      BY <1>1 DEF PromiseKept, UpdateIsTried, Up
    <2>5. QED
      BY <2>3, <2>4
  <1>4. CASE RaucSucceeds
    <2> USE <1>4 DEF RaucSucceeds
    <2>1. flash' \in Environments /\ flash'.order = <<Other(slot), slot>>
          /\ flash'.left[Other(slot)] = Attempts
      <3>1. flash' = [order |-> <<Other(slot), slot>>,
                      left |-> [flash.left EXCEPT ![Other(slot)] = Attempts]]
        BY DEF Environments
      <3>2. <<Other(slot), slot>> \in Orders
        BY <1>1 DEF Orders, Slots, Other
      <3>3. flash.left \in [Slots -> 0..Unset]
        BY DEF Environments
      <3>4. [flash.left EXCEPT ![Other(slot)] = Attempts] \in [Slots -> 0..Unset]
        BY <1>1, <3>3 DEF Unset
      <3>5. QED
        BY <1>1, <3>1, <3>2, <3>3, <3>4 DEF Environments
    <2>2. image' \in [Slots -> Versions \cup {Partial}]
      <3>1. file.version \in Versions \cup {Partial}
        BY BundlesAssumption DEF NoBundle
      <3>2. QED
        BY <1>1, <3>1
    <2>3. TypeOK'
      BY <1>1, <2>1, <2>2
    <2>4. PromiseKept'
      BY <1>1, <2>1 DEF PromiseKept, UpdateIsTried, Up
    <2>5. QED
      BY <2>3, <2>4
  <1>5. CASE RaucFails
    BY <1>5 DEF RaucFails, PromiseKept, UpdateIsTried, Up, bootVars
  <1>6. CASE RaucSwitchesLoader
    <2>1. loader' \in Versions
      BY <1>6, BundlesAssumption DEF RaucSwitchesLoader, NoBundle
    <2>2. QED
      BY <1>6, <2>1 DEF RaucSwitchesLoader, PromiseKept, UpdateIsTried, Up, installer
  <1>7. QED
    BY <1>2, <1>3, <1>4, <1>5, <1>6 DEF Rauc

\* "rauc status mark-good" gives attempts to the slot that runs.
LEMMA MarkGoodKeepsInv ==
  ASSUME Inv, MarkGood PROVE Inv'
  <1> USE DEF Inv, MarkGood
  <1>1. slot \in Slots
    BY DEF PromiseKept, Up
  <1>2. flash' \in Environments /\ flash'.order = flash.order
        /\ \A s \in Slots : flash'.left[s] = IF s = slot THEN Attempts ELSE flash.left[s]
    BY <1>1 DEF TypeOK, BootTypeOK, Environments, Unset
  <1>3. TypeOK'
    BY <1>2 DEF TypeOK, BootTypeOK, installer, pageVars
  <1>4. PromiseKept'
    BY <1>2 DEF PromiseKept, UpdateIsTried, Up, TypeOK, installer
  <1>5. QED
    BY <1>3, <1>4

\* What the clients do that reaches neither slots nor flash.
LEMMA ClientsKeepInv ==
  ASSUME Inv, UNCHANGED <<bootVars, promised>>,
         file' \in Bundles \cup {NoBundle}, rauc' \in {rauc, "called"},
         rauc' # rauc => Up,
         progress' = progress, intact' \in BOOLEAN,
         page' \in {"initial", "uploading", "posting", "installing"},
         shown' \in Percents, late' \subseteq Percents,
         script' \in {"done", "upload", "install", "wait", "reboot"}
  PROVE  Inv'
  BY DEF Inv, TypeOK, BootTypeOK, PromiseKept, UpdateIsTried, Up, bootVars

LEMMA PageKeepsInv ==
  ASSUME Inv, PageStep PROVE Inv'
  <1> USE DEF Inv, TypeOK, installer, pageVars
  <1>1. CASE OpenPage
    BY <1>1, ClientsKeepInv DEF OpenPage, Percents
  <1>2. CASE PickFile
    BY <1>2, ClientsKeepInv DEF PickFile
  <1>3. CASE PageUploads
    BY <1>3, ClientsKeepInv DEF PageUploads, Upload
  <1>4. CASE PageInstalls
    BY <1>4, ClientsKeepInv DEF PageInstalls, InstallBundle, InstallRefused
  <1>5. CASE PressReboot
    BY <1>5, DownKeepsInv DEF PressReboot
  <1>6. CASE Refresh
    BY <1>6, ClientsKeepInv DEF Refresh
  <1>7. ASSUME NEW percent \in Percents, Show(percent) PROVE Inv'
    BY <1>7, ClientsKeepInv DEF Show
  <1>8. QED
    BY <1>1, <1>2, <1>3, <1>4, <1>5, <1>6, <1>7 DEF PageStep

LEMMA ScriptKeepsInv ==
  ASSUME Inv, ScriptStarts \/ ScriptGoesOn \/ ScriptMisreads PROVE Inv'
  <1> USE DEF Inv, TypeOK, installer, pageVars
  <1>1. CASE ScriptStarts
    BY <1>1, ClientsKeepInv DEF ScriptStarts
  <1>2. CASE ScriptUploads
    BY <1>2, ClientsKeepInv DEF ScriptUploads, Upload
  <1>3. CASE ScriptInstalls
    BY <1>3, ClientsKeepInv DEF ScriptInstalls, InstallBundle
  <1>4. CASE ScriptPolls \/ ScriptMisreads
    BY <1>4, ClientsKeepInv DEF ScriptPolls, ScriptMisreads
  <1>5. CASE ScriptReboots
    <2>1. CASE Up /\ GoesDown
      BY <1>5, <2>1, DownKeepsInv DEF ScriptReboots
    <2>2. CASE UNCHANGED <<bootVars, installer>>
      BY <1>5, <2>2, ClientsKeepInv DEF ScriptReboots
    <2>3. QED
      BY <1>5, <2>1, <2>2 DEF ScriptReboots
  <1>6. QED
    BY <1>1, <1>2, <1>3, <1>4, <1>5 DEF ScriptGoesOn

\* Whoever uploads, installs, reboots or cuts the power, in any order: from the end
\* of an installation on, its slot comes first and has attempts left.
THEOREM PromisesAreKept == Spec => []Inv
  <1>1. ASSUME Inv, UNCHANGED vars PROVE Inv'
    BY <1>1 DEF vars, bootVars, installer, pageVars, Inv, TypeOK, BootTypeOK,
                PromiseKept, UpdateIsTried, Up
  <1>2. ASSUME Inv, PowerCut PROVE Inv'
    BY <1>2, DownKeepsInv DEF PowerCut
  <1>3. Inv /\ [Next]_vars => Inv'
    BY <1>1, <1>2, BootKeepsInv, MarkGoodKeepsInv, RaucKeepsInv, PageKeepsInv,
       ScriptKeepsInv DEF Next
  <1>4. QED
    BY InitInv, <1>3, PTL DEF Spec

\* The boot script tries the slot of a completed update first.
THEOREM UpdateTriedFirst == Spec => []UpdateIsTried
  <1>1. Inv => UpdateIsTried
    BY DEF Inv, PromiseKept
  <1>2. QED
    BY PromisesAreKept, <1>1, PTL

-----------------------------------------------------------------------------
\* RAUC writes the other slot, and only while a system runs from this one.
LEMMA RaucSparesTheSlot ==
  ASSUME Inv, Rauc
  PROVE  Up /\ Up' /\ slot' = slot /\ slot \in Slots /\ image'[slot] = image[slot]
  <1>1. Up /\ slot \in Slots /\ Other(slot) # slot /\ image \in [Slots -> Versions \cup {Partial}]
    BY DEF Rauc, RaucRejects, RaucStartsWriting, RaucSwitchesLoader,
           RaucSucceeds, RaucFails, Inv, PromiseKept,
           TypeOK, BootTypeOK, Up, Other, Slots
  <1>2. QED
    BY <1>1 DEF Rauc, RaucRejects, RaucStartsWriting, RaucSwitchesLoader,
           RaucSucceeds, RaucFails, bootVars, Up

\* Nobody else writes a slot, and only the boot script has a system come up.
LEMMA OthersSpareImages ==
  ASSUME Inv, [Next]_vars, ~Rauc
  PROVE  image' = image /\ (Up' => (Up /\ slot' = slot) \/ ComesUp(image[slot']))
  <1>1. CASE Boot
    BY <1>1 DEF Boot, Booting, Script, PowerOn, ChooseSlot, ResetTries, ResetUnsaved,
                SaveEnv, AttemptUnsaved,
                StartKernel, EarlyCut, GiveUp, Off, Up
  <1>2. ASSUME GoesDown PROVE image' = image /\ ~Up'
    BY <1>2 DEF GoesDown, Off, Up
  <1>3. CASE PowerCut \/ PressReboot \/ ScriptReboots
    BY <1>2, <1>3 DEF PowerCut, PressReboot, ScriptReboots, bootVars, Up
  <1>4. CASE MarkGood
    BY <1>4 DEF MarkGood, Up
  <1>5. CASE UNCHANGED bootVars
    BY <1>5 DEF bootVars, Up
  <1>6. ASSUME \/ OpenPage \/ PickFile \/ PageUploads \/ PageInstalls \/ Refresh
               \/ \E percent \in Percents : Show(percent)
               \/ ScriptStarts \/ ScriptUploads \/ ScriptInstalls \/ ScriptPolls
               \/ ScriptMisreads \/ UNCHANGED vars
        PROVE  UNCHANGED bootVars
    BY <1>6 DEF OpenPage, PickFile, PageUploads, PageInstalls, Refresh, Show, ScriptStarts,
                ScriptUploads, ScriptInstalls, ScriptPolls, ScriptMisreads, vars
  <1>7. QED
    BY <1>1, <1>3, <1>4, <1>5, <1>6 DEF Next, PageStep, ScriptGoesOn

\* From the factory on one of the rootfs slots has a system that comes up, for any versions
\* and whatever is installed, stopped or switched off, as often as it may be.
THEOREM ASystemIsKept == Spec => []AlwaysASystem
  <1>1. Init => SystemKept
    BY FactoryAssumption
       DEF Init, BootInit, SystemKept, AlwaysASystem, ComesUp, Up, Slots
  <1>2. ASSUME Inv, SystemKept, [Next]_vars PROVE SystemKept'
    <2>1. CASE Rauc
      <3>1. ComesUp(image[slot]) /\ slot \in Slots
        BY <1>2, <2>1, RaucSparesTheSlot DEF SystemKept
      <3>2. slot' = slot /\ image'[slot] = image[slot]
        BY <1>2, <2>1, RaucSparesTheSlot
      <3>3. QED
        BY <3>1, <3>2 DEF SystemKept, AlwaysASystem, ComesUp
    <2>2. CASE ~Rauc
      BY <1>2, <2>2, OthersSpareImages DEF SystemKept, AlwaysASystem, ComesUp
    <2>3. QED
      BY <2>1, <2>2
  <1>3. SystemKept => AlwaysASystem
    BY DEF SystemKept
  <1>4. QED
    BY PromisesAreKept, <1>1, <1>2, <1>3, PTL DEF Spec

\* A system that runs is never written over: an update touches the other slot only.
THEOREM RunningSlotIsSpared ==
  Spec => [][Up => image'[slot] = image[slot]]_vars
  <1>1. ASSUME Inv, Next, Up PROVE image'[slot] = image[slot]
    BY <1>1, RaucSparesTheSlot, OthersSpareImages
  <1>2. Inv /\ [Next]_vars => [Up => image'[slot] = image[slot]]_vars
    BY <1>1
  <1>3. QED
    BY PromisesAreKept, <1>2, PTL DEF Spec

-----------------------------------------------------------------------------
\* What an attempt of slot s costs: one of those it has left, and nothing of the rest.
Paid(s) == [WithDefaults(flash) EXCEPT !.left[s] = @ - 1]

\* Between the choice of a slot and saveenv nobody else changes the environment: RAUC
\* and "mark-good" need a system that runs.
Accounted ==
  stage = "chosen" =>
    /\ WithDefaults(flash).left[slot] > 0
    /\ env = Paid(slot)

\* A slot is chosen only if it has attempts left, and pays one.
LEMMA ChosenSlotPays ==
  ASSUME Inv, ChooseSlot
  PROVE  Accounted'
  <1>1. env = WithDefaults(flash)
    BY DEF Inv, PromiseKept, ChooseSlot
  <1>2. /\ HasAttempts(slot') /\ flash' = flash
        /\ env' = [env EXCEPT !.left[slot'] = @ - 1]
    BY DEF ChooseSlot
  <1>3. QED
    BY <1>1, <1>2 DEF Accounted, Paid, HasAttempts, WithDefaults

\* As long as a slot is chosen and no more, neither flash nor what is in memory changes.
LEMMA ChosenSlotWaits ==
  ASSUME Inv, [Next]_vars, stage = "chosen", stage' = "chosen"
  PROVE  UNCHANGED <<flash, env, slot>>
  <1>1. ~Up /\ ~Rauc
    BY RaucSparesTheSlot DEF Up
  <1>2. CASE Boot
    BY <1>2 DEF Boot, Booting, Script, PowerOn, ChooseSlot, ResetTries, ResetUnsaved,
                SaveEnv, AttemptUnsaved,
                StartKernel, EarlyCut, GiveUp, Off
  <1>3. CASE PageStep
    BY <1>1, <1>3 DEF PageStep, OpenPage, PickFile, PageUploads, PageInstalls, PressReboot,
                      Refresh, Show, bootVars
  <1>4. CASE ScriptStarts \/ ScriptGoesOn \/ ScriptMisreads
    BY <1>1, <1>4 DEF ScriptStarts, ScriptGoesOn, ScriptUploads, ScriptInstalls,
                      ScriptPolls, ScriptMisreads, ScriptReboots, bootVars
  <1>5. CASE UNCHANGED vars
    BY <1>5 DEF vars, bootVars
  <1>6. QED
    BY <1>1, <1>2, <1>3, <1>4, <1>5 DEF Next, PowerCut, MarkGood

\* A slot comes to be chosen only by the boot script.
LEMMA OnlyTheScriptChooses ==
  ASSUME Inv, [Next]_vars, stage # "chosen", stage' = "chosen"
  PROVE  ChooseSlot
  <1>1. ~Rauc
    BY RaucSparesTheSlot DEF Up
  <1>2. CASE Boot
    BY <1>2 DEF Boot, Booting, Script, PowerOn, ResetTries, ResetUnsaved, SaveEnv,
                AttemptUnsaved, StartKernel,
                EarlyCut, GiveUp, Off
  <1>3. CASE PageStep
    BY <1>3 DEF PageStep, OpenPage, PickFile, PageUploads, PageInstalls, PressReboot,
                Refresh, Show, bootVars, GoesDown, Off
  <1>4. CASE ScriptStarts \/ ScriptGoesOn \/ ScriptMisreads
    BY <1>4 DEF ScriptStarts, ScriptGoesOn, ScriptUploads, ScriptInstalls,
                ScriptPolls, ScriptMisreads, ScriptReboots, bootVars, GoesDown, Off
  <1>5. CASE UNCHANGED vars
    BY <1>5 DEF vars, bootVars
  <1>6. QED
    BY <1>1, <1>2, <1>3, <1>4, <1>5 DEF Next, PowerCut, MarkGood, GoesDown, Off

\* No attempt that goes on record is free: the flash then has one attempt of that slot
\* less than when the device was turned on, and everything else as it was.  A system that
\* never comes up is therefore given up when its attempts are spent; only those whose
\* saveenv fails do not count.
THEOREM AttemptsArePaid ==
  Spec => [][SaveEnv => /\ WithDefaults(flash).left[slot] > 0
                        /\ flash' = Paid(slot)]_vars
  <1>1. Init => Accounted
    BY DEF Init, BootInit, Accounted
  <1>2. ASSUME Inv, Accounted, [Next]_vars PROVE Accounted'
    <2>1. CASE stage = "chosen" /\ stage' = "chosen"
      BY <1>2, <2>1, ChosenSlotWaits DEF Accounted, Paid
    <2>2. CASE stage # "chosen" /\ stage' = "chosen"
      BY <1>2, <2>2, OnlyTheScriptChooses, ChosenSlotPays
    <2>3. CASE stage' # "chosen"
      BY <2>3 DEF Accounted
    <2>4. QED
      BY <2>1, <2>2, <2>3
  <1>3. Accounted /\ [Next]_vars =>
          [SaveEnv => WithDefaults(flash).left[slot] > 0 /\ flash' = Paid(slot)]_vars
    BY DEF Accounted, SaveEnv
  <1>4. QED
    BY PromisesAreKept, <1>1, <1>2, <1>3, PTL DEF Spec
=============================================================================
