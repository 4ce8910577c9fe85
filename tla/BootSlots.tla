------------------------------ MODULE BootSlots ------------------------------
(***************************************************************************)
(* The boot script u-boot_4_64bit.ush: from power on to the kernel of the  *)
(* first slot of BOOT_ORDER that has attempts left.  The environment is    *)
(* read from flash, changed in memory, and lasts only if saveenv writes    *)
(* it; power may go at any point.  The script itself is part of boot.vfat, *)
(* of which there is one, and no other to fall back on.  What that and the *)
(* slots hold is RAUC's doing, and whether a script starts or a kernel     *)
(* comes up theirs.                                                        *)
(***************************************************************************)
EXTENDS Naturals

CONSTANTS Versions,   \* of the firmware
          Factory,    \* the version that the device has at first
          Faulty,     \* versions whose system never comes up
          BadLoaders, \* versions whose boot.vfat never gets to the script
          Attempts,   \* of a slot: 3
          EarlyCuts   \* bound: power cuts while the script runs, from one kernel to the next

Partial == "partial"  \* an image that was never written to its end

ASSUME FactoryAssumption ==
  /\ Factory \in Versions /\ Factory \notin Faulty \cup BadLoaders
  /\ Partial \notin Versions
ASSUME AttemptsAssumption == Attempts \in Nat \ {0}
ASSUME EarlyCutsAssumption == EarlyCuts \in Nat

VARIABLES
  flash,  \* the saved environment: BOOT_ORDER and BOOT_x_LEFT
  env,    \* the environment in memory
  stage,  \* where the device is
  slot,   \* the slot in raucargs
  image,  \* what each slot holds
  loader, \* the version of the boot.vfat that the MBR points to
  cuts    \* power cuts while the script ran, since a kernel was last started

bootVars == <<flash, env, stage, slot, image, loader, cuts>>

Slots   == {"A", "B"}
Unset   == Attempts + 1  \* a variable that is not in the environment
NoSlot  == "unset"

Orders == {<<>>, <<"A", "B">>, <<"B", "A">>}

Empty == [order |-> <<>>, left |-> [s \in Slots |-> Unset]]

Environments == [order : Orders, left : [Slots -> 0..Unset]]

\* The device is off, in the script, with a slot chosen, with the environment
\* saved, running a system, hanging in a kernel that does not come up, or before the
\* script in a boot.vfat that does not get there.
Stages == {"off", "script", "chosen", "kernel", "up", "stuck", "dark"}

BootTypeOK ==
  /\ flash \in Environments /\ env \in Environments
  /\ stage \in Stages
  /\ slot \in Slots \cup {NoSlot}
  /\ image \in [Slots -> Versions \cup {Partial}]
  /\ loader \in Versions
  /\ cuts \in 0..EarlyCuts

ComesUp(content) == content \notin Faulty \cup {Partial}

BootInit ==
  /\ flash = Empty
  /\ env = Empty
  /\ stage = "off"
  /\ slot = NoSlot
  /\ image = [s \in Slots |-> Factory]
  /\ loader = Factory
  /\ cuts = 0

\* test -n "${X}" || setenv X ...
WithDefaults(e) ==
  [order |-> IF e.order = <<>> THEN <<"A", "B">> ELSE e.order,
   left  |-> [s \in Slots |-> IF e.left[s] = Unset THEN Attempts ELSE e.left[s]]]

-----------------------------------------------------------------------------
\* A reset, too, goes on only with the power button pressed.
PowerOn ==
  /\ stage = "off"
  /\ \/ /\ loader \notin BadLoaders
        /\ stage' = "script"
        /\ env' = WithDefaults(flash)
     \/ /\ loader \in BadLoaders
        /\ stage' = "dark"
        /\ UNCHANGED env
  /\ UNCHANGED <<flash, slot, image, loader, cuts>>

\* What is in memory is gone.
Off == stage' = "off" /\ env' = Empty /\ slot' = NoSlot

HasAttempts(s) == env.left[s] > 0

\* Faulty ChooseSlot: a later slot is not skipped once one is found.
ChooseLastSlot ==
  /\ stage = "script"
  /\ \E i \in DOMAIN env.order :
       /\ HasAttempts(env.order[i])
       /\ \A j \in DOMAIN env.order : j > i => ~HasAttempts(env.order[j])
       /\ slot' = env.order[i]
  /\ env' = [env EXCEPT !.left[slot'] = @ - 1]
  /\ stage' = "chosen"
  /\ UNCHANGED <<flash, image, loader, cuts>>

\* The loop over BOOT_ORDER, which skips the remaining slots once one is found.
ChooseSlot ==
  /\ stage = "script"
  /\ \E i \in DOMAIN env.order :
       /\ HasAttempts(env.order[i])
       /\ \A j \in DOMAIN env.order : j < i => ~HasAttempts(env.order[j])
       /\ slot' = env.order[i]
  /\ env' = [env EXCEPT !.left[slot'] = @ - 1]
  /\ stage' = "chosen"
  /\ UNCHANGED <<flash, image, loader, cuts>>

NoSlotLeft == \A i \in DOMAIN env.order : ~HasAttempts(env.order[i])

\* saveenv fails: after the reset, the attempts are as they were.  (Faulty ResetTries:
\* no saveenv at all.)
ResetUnsaved ==
  /\ stage = "script"
  /\ NoSlotLeft
  /\ Off
  /\ UNCHANGED <<flash, image, loader, cuts>>

\* "No valid slot found, resetting tries to 3": saveenv, reset.
ResetTries ==
  /\ stage = "script"
  /\ NoSlotLeft
  /\ flash' = [env EXCEPT !.left = [s \in Slots |-> Attempts]]
  /\ Off
  /\ UNCHANGED <<image, loader, cuts>>

\* The attempt is on record before the kernel is loaded.
SaveEnv ==
  /\ stage = "chosen"
  /\ flash' = env
  /\ stage' = "kernel"
  /\ UNCHANGED <<env, slot, image, loader, cuts>>

\* saveenv fails, and the kernel is loaded all the same: the attempt is not counted.
AttemptUnsaved ==
  /\ stage = "chosen"
  /\ stage' = "kernel"
  /\ UNCHANGED <<flash, env, slot, image, loader, cuts>>

\* load_kernel and booti.
StartKernel ==
  /\ stage = "kernel"
  /\ stage' = IF ComesUp(image[slot]) THEN "up" ELSE "stuck"
  /\ env' = Empty
  /\ cuts' = 0
  /\ UNCHANGED <<flash, slot, image, loader>>

Script ==
  \/ ChooseSlot \/ ResetTries \/ ResetUnsaved
  \/ SaveEnv \/ AttemptUnsaved \/ StartKernel

\* Power is cut, or the power button used, while the script runs.
EarlyCut ==
  /\ stage \in {"script", "chosen", "kernel"}
  /\ cuts < EarlyCuts
  /\ cuts' = cuts + 1
  /\ Off
  /\ UNCHANGED <<flash, image, loader>>

\* Somebody turns a device off and on again that does not come up.
GiveUp ==
  /\ stage \in {"stuck", "dark"}
  /\ Off
  /\ UNCHANGED <<flash, image, loader, cuts>>

Booting == PowerOn \/ Script \/ EarlyCut \/ GiveUp

=============================================================================
