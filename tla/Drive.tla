------------------------------ MODULE Drive ------------------------------
(***************************************************************************)
(* Drive control in the firmware's main.c: selecting a drive, its motor,   *)
(* homing and seeking, the motor timeout, the detection of drives when USB *)
(* is configured, the voltage test, and the reset that wipes what the      *)
(* firmware knows while the heads stay where they are.                     *)
(*                                                                         *)
(* A command is a sequence of steps, one for each pulse to the drive.      *)
(* home() is used by three callers; pc tells which.  A transfer (read,     *)
(* write, erase) first seeks to current_track; what it then does with the  *)
(* flux is in CaptureRing and ReplayRing.                                  *)
(***************************************************************************)
EXTENDS Integers

CONSTANTS
    MaxTrack,    \* the drives' innermost track
    SeekLimit,   \* bound: the highest track the host seeks to
    HomeLimit    \* steps home() tries, 100 in the firmware

ASSUME DriveAssumption ==
    /\ MaxTrack \in Nat \ {0} /\ SeekLimit \in Nat /\ HomeLimit \in Nat
    /\ MaxTrack < HomeLimit   \* home() reaches track 0 from anywhere

Drives == {0, 1}

VARIABLES
    attached,     \* the drives on the cable
    head,         \* where each drive's head is
    select,       \* the drive DRIVESELECT_REG selects, or NoDrive
    motor,        \* MOTOR_REG
    pc,           \* what the main code is doing
    drive,        \* current_drive_flags.drive
    motorOn,      \* motor_on
    timeUp,       \* clock - motor_on_time > MOTOR_ON_TIME
    homed,        \* homed
    currentTrack, \* current_track
    present,      \* drive0_present, drive1_present
    target,       \* the argument of seek_to()
    steps,        \* the counter in home()
    then,         \* what follows the seek
    wanted,       \* history: the track the host last asked for
    overshot      \* history: a step ran into the stop since the last homing

hardware == <<attached, head>>
flags    == <<drive, motorOn, timeUp>>
position == <<homed, currentTrack>>
seeking  == <<target, steps, then>>
history  == <<wanted, overshot>>
driveVars == <<hardware, select, motor, pc, flags, position, present, seeking,
               history>>

NoDrive == -1
Homing  == {"homing", "detect0", "detect1"}
Targets == 0 .. SeekLimit

DriveTypeOK ==
    /\ attached \subseteq Drives /\ head \in [Drives -> 0 .. MaxTrack]
    /\ select \in Drives \cup {NoDrive} /\ motor \in BOOLEAN
    /\ pc \in Homing \cup {"off", "waiting", "idle", "stepping", "transfer", "reply"}
    /\ drive \in Drives /\ motorOn \in BOOLEAN /\ timeUp \in BOOLEAN
    /\ homed \in BOOLEAN /\ currentTrack \in Targets
    /\ present \in [Drives -> BOOLEAN]
    /\ target \in Targets /\ steps \in 0 .. HomeLimit
    /\ then \in {"transfer", "reply"}
    /\ wanted \in Targets /\ overshot \in BOOLEAN

\* What a reset leaves of the firmware's state.
Blank ==
    /\ select' = NoDrive /\ motor' = FALSE
    /\ pc' = "off"
    /\ drive' = 0 /\ motorOn' = FALSE /\ timeUp' = FALSE
    /\ homed' = FALSE /\ currentTrack' = 0
    /\ present' = [d \in Drives |-> FALSE]
    /\ target' = 0 /\ steps' = 0 /\ then' = "reply"
    /\ wanted' = 0 /\ overshot' = FALSE

DriveInit ==
    /\ attached \in SUBSET Drives
    /\ head \in [Drives -> {0, MaxTrack}]
    /\ select = NoDrive /\ motor = FALSE
    /\ pc = "off"
    /\ drive = 0 /\ motorOn = FALSE /\ timeUp = FALSE
    /\ homed = FALSE /\ currentTrack = 0
    /\ present = [d \in Drives |-> FALSE]
    /\ target = 0 /\ steps = 0 /\ then = "reply"
    /\ wanted = 0 /\ overshot = FALSE

-----------------------------------------------------------------------------
(* The drives, as the registers reach them.                                  *)

\* TRACK0_REG: the selected drive's head is at track 0.
Track0 == select \in attached /\ head[select] = 0

\* step(STEP_TOWARDS0) and step(STEP_AWAYFROM0): the selected drive moves one
\* track, or runs into its stop.
StepIn ==
    head' = [d \in Drives |-> IF d = select /\ d \in attached /\ head[d] > 0
                              THEN head[d] - 1 ELSE head[d]]
StepOut ==
    head' = [d \in Drives |->
                IF d = select /\ d \in attached /\ head[d] < MaxTrack
                THEN head[d] + 1 ELSE head[d]]

\* stop_motor()
StopMotor ==
    /\ motorOn' = FALSE
    /\ motor' = IF motorOn THEN FALSE ELSE motor
    /\ select' = IF motorOn THEN NoDrive ELSE select

\* start_motor() with homed = h on entry: a motor that was off forgets where
\* the head is.  It also selects the drive, which its callers say.
StartMotor(h) ==
    /\ motorOn' = TRUE /\ timeUp' = FALSE
    /\ motor' = TRUE
    /\ homed' = (h /\ motorOn)

\* seek_to(track) up to its loop: home first if the position is not known, and
\* always for track 0.
SeekTo(track, h, next) ==
    /\ select' = drive
    /\ StartMotor(h)
    /\ target' = track /\ then' = next
    /\ steps' = 0
    /\ pc' = IF homed' /\ track # 0 THEN "stepping" ELSE "homing"

-----------------------------------------------------------------------------
(* Commands.  The main loop first writes the flags again, which selects the  *)
(* drive even if its motor is off.                                           *)

Seek ==
    /\ pc = "idle"
    /\ \E track \in Targets : SeekTo(track, homed, "reply") /\ wanted' = track
    /\ UNCHANGED <<hardware, drive, currentTrack, present, overshot>>

Recalibrate ==
    /\ pc = "idle"
    /\ SeekTo(0, FALSE, "reply")
    /\ wanted' = 0
    /\ UNCHANGED <<hardware, drive, currentTrack, present, overshot>>

\* Mutant: the transfer does not seek again, and the motor may have stopped.
Transfer_NoSeek ==
    /\ pc = "idle"
    /\ select' = drive
    /\ StartMotor(homed)
    /\ pc' = "transfer"
    /\ UNCHANGED <<hardware, drive, currentTrack, present, seeking, history>>

\* cmd_read(), cmd_write(), cmd_erase(): seek_to(current_track).
Transfer ==
    /\ pc = "idle"
    /\ SeekTo(currentTrack, homed, "transfer")
    /\ UNCHANGED <<hardware, drive, currentTrack, present, history>>

\* cmd_measure_speed(), as far as the drive is concerned.
MeasureSpeed ==
    /\ pc = "idle"
    /\ select' = drive
    /\ StartMotor(homed)
    /\ pc' = "reply"
    /\ UNCHANGED <<hardware, drive, currentTrack, present, seeking, history>>

\* Mutant: the old drive is left running.
SetDriveFlags_KeepsMotor(d) ==
    /\ motorOn' = motorOn
    /\ motor' = motor
    /\ homed' = (homed /\ d = drive)
    /\ drive' = d /\ select' = IF motorOn THEN select ELSE d

\* set_drive_flags(): another drive means another motor and another position.
SetDriveFlags(d) ==
    /\ motorOn' = (motorOn /\ d = drive)
    /\ motor' = (motor /\ ~(motorOn /\ d # drive))
    /\ homed' = (homed /\ d = drive)
    /\ drive' = d /\ select' = d

\* cmd_set_drive(): a lone drive is selected whatever the host asks for.
SetDrive ==
    /\ pc = "idle"
    /\ \E d \in Drives :
          SetDriveFlags(IF present[0] # present[1]
                        THEN (IF present[0] THEN 0 ELSE 1) ELSE d)
    /\ pc' = "reply"
    /\ UNCHANGED <<hardware, timeUp, currentTrack, present, seeking, history>>

\* cmd_measure_voltages(): steps each drive home and one track out again, with
\* its motor off and then on; nothing else runs meanwhile.
MeasureVoltages ==
    /\ pc = "idle"
    /\ motorOn' = FALSE /\ motor' = FALSE /\ select' = NoDrive
    /\ head' = [d \in Drives |-> IF d \in attached THEN 1 ELSE head[d]]
    /\ homed' = FALSE
    /\ pc' = "reply"
    /\ UNCHANGED <<attached, drive, timeUp, currentTrack, present, seeking,
                   history>>

\* A command that touches no drive: version, bulk tests, bad commands.
OtherCommand ==
    /\ pc = "idle"
    /\ select' = drive
    /\ pc' = "reply"
    /\ UNCHANGED <<hardware, motor, flags, position, present, seeking, history>>

Reply ==
    /\ pc \in {"reply", "transfer"}
    /\ pc' = "idle"
    /\ UNCHANGED <<hardware, select, motor, flags, position, present, seeking,
                   history>>

-----------------------------------------------------------------------------
(* home() and seek_to()                                                      *)

\* home() gives up after HomeLimit steps: "Don't keep stepping forever".
HomeEnds == Track0 \/ steps = HomeLimit

HomeStep ==
    /\ pc \in Homing /\ ~HomeEnds
    /\ StepIn
    /\ steps' = steps + 1
    /\ UNCHANGED <<attached, select, motor, pc, flags, position, present,
                   target, then, history>>

\* Mutant: the counter keeps its old value.
Homed_KeepsTrack ==
    /\ pc = "homing" /\ HomeEnds
    /\ homed' = TRUE
    /\ overshot' = FALSE
    /\ pc' = "stepping"
    /\ UNCHANGED <<hardware, select, motor, flags, currentTrack, present,
                   seeking, wanted>>

\* Back in seek_to(), whether home() found track 0 or not.
Homed ==
    /\ pc = "homing" /\ HomeEnds
    /\ homed' = TRUE /\ currentTrack' = 0
    /\ overshot' = FALSE
    /\ pc' = "stepping"
    /\ UNCHANGED <<hardware, select, motor, flags, present, seeking, wanted>>

\* Mutant: only steps away from track 0.
StepToTarget_OutOnly ==
    /\ pc = "stepping"
    /\ target > currentTrack
    /\ StepOut
    /\ currentTrack' = currentTrack + 1
    /\ UNCHANGED <<attached, select, motor, pc, flags, homed, present, seeking,
                   history>>

\* One turn of seek_to()'s loop; the sensor overrules the counter.
StepToTarget ==
    /\ pc = "stepping"
    /\ target # currentTrack
    /\ LET at == IF Track0 THEN 0 ELSE currentTrack
       IN \/ /\ target > at
             /\ StepOut
             /\ currentTrack' = at + 1
             /\ overshot' = (overshot \/ (select \in attached
                                            /\ head[select] = MaxTrack))
          \/ /\ target < at
             /\ StepIn
             /\ currentTrack' = at - 1
             /\ UNCHANGED overshot
          \/ /\ target = at
             /\ currentTrack' = at
             /\ UNCHANGED <<head, overshot>>
    /\ UNCHANGED <<attached, select, motor, pc, flags, homed, present, seeking,
                   wanted>>

Arrive ==
    /\ pc = "stepping"
    /\ target = currentTrack
    /\ pc' = then
    /\ UNCHANGED <<hardware, select, motor, flags, position, present, seeking,
                   history>>

-----------------------------------------------------------------------------
(* The main loop outside commands.                                           *)

\* The motor timer, looked at only between commands.
TimerTick ==
    /\ motorOn /\ ~timeUp
    /\ timeUp' = TRUE
    /\ UNCHANGED <<hardware, select, motor, pc, drive, motorOn, position,
                   present, seeking, history>>

MotorTimeout ==
    /\ pc = "idle" /\ motorOn /\ timeUp
    /\ StopMotor
    /\ UNCHANGED <<hardware, pc, drive, timeUp, position, present, seeking,
                   history>>

\* USB has gone: the firmware waits for it, with the motor as it is.
Unconfigured ==
    /\ pc = "idle"
    /\ pc' = "waiting"
    /\ UNCHANGED <<hardware, select, motor, flags, position, present, seeking,
                   history>>

\* USB has been configured, for the first time or again: detect_drives() puts
\* drive 0 in the flags and starts the motor, which selects nothing if it runs.
Configure ==
    /\ pc \in {"off", "idle", "waiting"}
    /\ drive' = 0
    /\ select' = IF motorOn THEN select ELSE 0
    /\ StartMotor(homed)
    /\ steps' = 0
    /\ pc' = "detect0"
    /\ UNCHANGED <<hardware, currentTrack, present, target, then, history>>

\* drive0_present = home(); stop_motor(); and the same for drive 1.
Detected0 ==
    /\ pc = "detect0" /\ HomeEnds
    /\ present' = [present EXCEPT ![0] = steps < HomeLimit]
    /\ drive' = 1
    /\ motorOn' = TRUE /\ motor' = TRUE /\ timeUp' = FALSE
    /\ select' = 1 /\ homed' = FALSE
    /\ steps' = 0 /\ pc' = "detect1"
    /\ UNCHANGED <<hardware, currentTrack, target, then, history>>

Detected1 ==
    /\ pc = "detect1" /\ HomeEnds
    /\ present' = [present EXCEPT ![1] = steps < HomeLimit]
    /\ StopMotor
    /\ pc' = "idle"
    /\ UNCHANGED <<hardware, drive, timeUp, position, seeking, history>>

\* Power cycle or watchdog: the heads stay where they are.
Reset == pc # "off" /\ Blank /\ UNCHANGED hardware

Command == \/ Seek \/ Recalibrate \/ Transfer \/ MeasureSpeed
           \/ SetDrive \/ MeasureVoltages \/ OtherCommand

Proceed == \/ HomeStep \/ Homed \/ StepToTarget \/ Arrive
           \/ Detected0 \/ Detected1 \/ Reply

DriveNext == Command \/ Proceed \/ TimerTick \/ MotorTimeout
        \/ Unconfigured \/ Configure \/ Reset

DriveSpec == DriveInit /\ [][DriveNext]_driveVars

(* The firmware goes on with what it has begun.                              *)
FairDriveSpec == DriveSpec /\ WF_driveVars(Proceed)

-----------------------------------------------------------------------------
(* Properties                                                                *)

Quiet == {"off", "waiting", "idle"}

Detecting == pc \in {"detect0", "detect1"}

\* While the firmware believes in its position, the selected drive's head is
\* where current_track says, unless a seek beyond the last track has pushed it
\* against the stop since it was last homed.
HeadKnown ==
    /\ homed /\ motorOn /\ ~Detecting /\ pc # "homing"
    /\ drive \in attached /\ ~overshot
    => head[drive] = currentTrack

\* What main.c believes of the drive: the types, with the bounds of its counters,
\* and the position.
HeadTrue == DriveTypeOK /\ HeadKnown

\* A running motor is the selected drive's: steps and flux go to the drive in
\* the flags, through timeouts, changes of drive and detection.
RightDrive == motorOn /\ ~Detecting => motor /\ select = drive

\* A transfer happens at the track the host last asked for, even if the motor
\* timed out, the drive was changed or USB was configured again since.
TransferAtWanted ==
    pc = "transfer" /\ drive \in attached /\ ~overshot => head[drive] = wanted

\* No command hangs in home() or seek_to(), with or without a drive.
CommandsEnd == pc \notin Quiet ~> pc \in Quiet
=============================================================================
