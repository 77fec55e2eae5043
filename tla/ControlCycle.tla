---------------------------- MODULE ControlCycle ----------------------------
(***************************************************************************)
(* The position data of the control loop: ros2_control calls read, the     *)
(* controllers and write of DensoRobotHW in turn; between two of them the  *)
(* ChangeMode service may change the mode.  A position goes from the       *)
(* robot's answer through joint_ and pos_ to the controllers, and from     *)
(* cmd_interface_ through pose back to the robot.  How a mode is changed   *)
(* is in SlaveMode; here it is one step.                                   *)
(*                                                                         *)
(* A joint's position is a unit and a number: the robot counts in mm and   *)
(* degrees, ros2_control in m and radians.                                 *)
(***************************************************************************)
EXTENDS Integers

CONSTANTS
    Joints,     \* the joints of the robot
    type_,      \* their types: [Joints -> {"prismatic", "revolute", "fixed"}]
    Places      \* where the robot may be: a set of natural numbers, 0 in it

VARIABLES
    phase,          \* "off", or which of "read", "update", "write" is next
    m_mode,         \* "normal", or the pose that a slave mode's commands have
    recv_format,    \* the pose slvMove answers with
    joint_,         \* the robot's joints as last read, or Empty
    m_joint,        \* those of the last answer of slvMove, or Empty
    pos_,           \* pos_interface_, for the controllers
    cmd_interface,  \* cmd_interface_, from the controllers
    at,             \* external: where the robot is
    known,          \* history: in normal mode, and not moved since it was read
    held,           \* history: cmd_interface is that, by write
    entered,        \* history: no slvMove has reached the robot since slave mode
    malformed       \* history: an answer was not what the code expects

vars == <<phase, m_mode, recv_format, joint_, m_joint, pos_, cmd_interface, at,
          known, held, entered, malformed>>

Unit == [prismatic |-> [robot |-> "mm", ros |-> "m"],
         revolute |-> [robot |-> "deg", ros |-> "rad"],
         fixed |-> [robot |-> "deg", ros |-> "rad"]]
Wrong == -1   \* a number converted from another unit

\* The joints at a place, in the units of a side.  A fixed joint is at 0.
At(side, place) ==
    [j \in Joints |-> [unit |-> Unit[type_[j]][side],
                       value |-> IF type_[j] = "fixed" THEN 0 ELSE place]]
Poses(side) == {At(side, place) : place \in Places}
Empty == [j \in {} |-> 0]

Formats == {"none", "J", "P", "T", "PJ", "TJ"}
SlaveModes == {"J", "P", "T"}

Convert(from, to, joints) ==
    [j \in Joints |->
        [unit |-> Unit[type_[j]][to],
         value |-> IF type_[j] = "fixed" THEN 0
                   ELSE IF joints[j].unit = Unit[type_[j]][from] THEN joints[j].value
                   ELSE Wrong]]

\* MM_2_M and DEG_2_RAD of Initialize and read; an element that is not there
\* may be any number.
Positions(joints) ==
    IF joints = Empty THEN Poses("ros") ELSE {Convert("robot", "ros", joints)}

\* M_2_MM and RAD_2_DEG of write.
Pose(cmd) == Convert("ros", "robot", cmd)

Init ==
    /\ phase = "off" /\ m_mode = "normal"
    /\ recv_format \in Formats
    /\ joint_ = Empty /\ m_joint = Empty
    /\ pos_ = At("ros", 0) /\ cmd_interface = At("ros", 0)
    /\ at \in Poses("robot")
    /\ known = FALSE /\ held = FALSE /\ entered = FALSE /\ malformed = FALSE

-----------------------------------------------------------------------------
\* Slip: a format without joints is set as it is.
WithJointsAsGiven(format) == IF format = "none" THEN "J" ELSE format

\* Initialize sets a format whose answer has the joints.
WithJoints(format) ==
    CASE format = "P" -> "PJ"
      [] format = "T" -> "TJ"
      [] format = "none" -> "J"
      [] OTHER -> format

\* on_activate.  A call may fail before the positions are set or after; an
\* answer of CurJnt of another type leaves the zeros joint_ was resized to.
on_activate ==
    /\ phase = "off"
    /\ m_joint' = Empty
    /\ \/ UNCHANGED <<phase, m_mode, recv_format, joint_, pos_, cmd_interface,
                      known, held, entered, malformed>>
       \/ \E good \in BOOLEAN :
            /\ joint_' = IF good THEN at ELSE At("robot", 0)
            /\ pos_' \in Positions(joint_')
            /\ cmd_interface' = pos_'
            /\ malformed' = ~good
            /\ known' = FALSE
            /\ \/ held' = FALSE /\ UNCHANGED <<phase, m_mode, recv_format, entered>>
               \/ /\ phase' = "read" /\ m_mode' = "J"
                  /\ recv_format' = WithJoints(recv_format)
                  /\ held' = good /\ entered' = TRUE
    /\ UNCHANGED at

\* read.  In normal mode it asks the robot for its joints; when that fails, or
\* answers something else, joint_ stays.
Read ==
    /\ phase = "read"
    /\ \E answer \in {"joints", "other type", "failed"} :
          /\ joint_' = IF m_mode = "normal" /\ answer = "joints" THEN at ELSE joint_
          /\ known' = (m_mode = "normal" /\ answer = "joints")
          /\ malformed' = (malformed \/ (m_mode = "normal" /\ answer = "other type"))
    /\ pos_' \in Positions(joint_')
    /\ phase' = "update"
    /\ UNCHANGED <<m_mode, recv_format, m_joint, cmd_interface, at, held, entered>>

\* The controllers write a command, or none is active.
Controllers ==
    /\ phase = "update"
    /\ phase' = "write"
    /\ \/ cmd_interface' \in Poses("ros") /\ held' = FALSE
       \/ UNCHANGED <<cmd_interface, held>>
    /\ UNCHANGED <<m_mode, recv_format, joint_, m_joint, pos_, at, known, entered, malformed>>

\* Slip: write does nothing in normal mode.
WriteNormalNothing ==
    /\ phase = "write" /\ m_mode = "normal"
    /\ held' = known
    /\ phase' = "read"
    /\ UNCHANGED <<m_mode, recv_format, joint_, m_joint, pos_, cmd_interface, at, known,
                   entered, malformed>>

\* write in normal mode: the command follows the position.
WriteNormal ==
    /\ phase = "write" /\ m_mode = "normal"
    /\ cmd_interface' = pos_
    /\ held' = known
    /\ phase' = "read"
    /\ UNCHANGED <<m_mode, recv_format, joint_, m_joint, pos_, at, known, entered, malformed>>

\* ParseRecvParameter of a good answer: m_joint is written if the format has
\* joints.  One with a wrong field is parsed up to it.
Parse(good) ==
    \/ m_joint' = IF recv_format \in {"J", "PJ", "TJ"} THEN at' ELSE m_joint
    \/ ~good /\ UNCHANGED m_joint

\* ExecSlaveMove, answered: joint_ is m_joint also when the answer is malformed.
SlaveMoved ==
    \E good \in BOOLEAN :
        /\ Parse(good)
        /\ joint_' = m_joint'
        /\ malformed' = (malformed \/ ~good)
        /\ m_mode' \in IF good THEN {m_mode} ELSE {m_mode, "normal"}

\* write in a slave mode.  CreateSendParameter or the robot may refuse it, the
\* robot may be full, or its answer lost; after a failure hasError decides
\* whether write goes back to normal mode.  The command is always joints: a mode
\* with another pose takes them for coordinates, and the robot goes anywhere.
WriteSlave ==
    /\ phase = "write" /\ m_mode \in SlaveModes
    /\ phase' = "read"
    /\ \/ /\ at' \in IF m_mode = "J" THEN {Pose(cmd_interface)} ELSE Poses("robot")
          /\ entered' = FALSE
          /\ held' = (held /\ m_mode = "J")
          /\ \/ SlaveMoved
             \/ m_mode' \in {m_mode, "normal"} /\ UNCHANGED <<joint_, m_joint, malformed>>
       \/ /\ m_mode' \in {m_mode, "normal"}
          /\ UNCHANGED <<at, entered, held, joint_, m_joint, malformed>>
    /\ UNCHANGED <<recv_format, pos_, cmd_interface, known>>

\* The ChangeMode service, before or after a read or write (mtx_mode_), which
\* asks for any mode; a failure counts as normal mode.
ChangeMode ==
    /\ phase # "off"
    /\ m_mode' \in SlaveModes \cup {"normal"}
    /\ entered' = (m_mode' \in SlaveModes /\ (entered \/ m_mode = "normal"))
    /\ UNCHANGED <<phase, recv_format, joint_, m_joint, pos_, cmd_interface, at, known,
                   held, malformed>>

\* on_deactivate ends in normal mode.
on_deactivate ==
    /\ phase # "off"
    /\ phase' = "off" /\ m_mode' = "normal" /\ entered' = FALSE
    /\ UNCHANGED <<recv_format, joint_, m_joint, pos_, cmd_interface, at, known, held,
                   malformed>>

\* External: in normal mode the robot is moved, by a goal or by its pendant.
Moved ==
    /\ m_mode = "normal"
    /\ at' \in Poses("robot")
    /\ known' = FALSE /\ held' = FALSE
    /\ UNCHANGED <<phase, m_mode, recv_format, joint_, m_joint, pos_, cmd_interface,
                   entered, malformed>>

Next ==
    \/ on_activate \/ on_deactivate \/ Read \/ Controllers \/ WriteNormal
    \/ WriteSlave \/ ChangeMode \/ Moved

Spec == Init /\ [][Next]_vars
-----------------------------------------------------------------------------
(* Properties *)

TypeOK ==
    /\ phase \in {"off", "read", "update", "write"}
    /\ m_mode \in SlaveModes \cup {"normal"}
    /\ recv_format \in Formats
    /\ {joint_, m_joint} \subseteq Poses("robot") \cup {Empty}
    /\ {pos_, cmd_interface} \subseteq Poses("ros")
    /\ at \in Poses("robot")
    /\ {known, held, entered, malformed} \subseteq BOOLEAN

\* The first slvMove of a slave mode does not move the robot when no controller
\* has written a command and the robot has stood still since a read of normal
\* mode that the next write copied into the command (read, write, Initialize),
\* wherever in the cycle the mode changed and whatever came before.  Exception: a
\* mode whose pose is not joints, which ChangeMode accepts.
FirstCommandHolds ==
    entered /\ ~entered' /\ held /\ m_mode = "J" => at' = at

\* As long as the controller's answers are of the types the code expects, read
\* finds the joints it converts: whatever recv_format was asked for, every
\* answer of slvMove it takes joint_ from has joints.
JointsThere == phase # "off" /\ joint_ = Empty => malformed
=============================================================================
