-------------------------- MODULE SlaveMovesProof ---------------------------
(***************************************************************************)
(* What a slvMove carries: the joints are there when they are converted and *)
(* the first command of a slave mode moves nothing, for any joints and     *)
(* places (ControlCycle), and the user I/O is of one message, for any      *)
(* messages (SlaveIO).                                                     *)
(***************************************************************************)
EXTENDS Libraries, SequenceTheorems, TLAPS
-----------------------------------------------------------------------------
(* The pose *)

\* A robot has joints, of the types Unit knows, and may be at the place 0.
Robot ==
    /\ Joints # {}
    /\ type_ \in [Joints -> {"prismatic", "revolute", "fixed"}]
    /\ 0 \in Places

\* A pose converted to the other side's units is the same place.
LEMMA SamePlace ==
    ASSUME Robot, NEW place \in Places, NEW from \in {"robot", "ros"},
           NEW to \in {"robot", "ros"}
    PROVE  CC!Convert(from, to, CC!At(from, place)) = CC!At(to, place)
BY DEF Robot, CC!Convert, CC!At

\* Poses have joints.
LEMMA PosesThere ==
    ASSUME Robot
    PROVE  /\ CC!Empty \notin CC!Poses("robot")
           /\ CC!At("robot", 0) \in CC!Poses("robot") /\ CC!At("ros", 0) \in CC!Poses("ros")
<1>1. ASSUME NEW place \in Places PROVE CC!At("robot", place) # CC!Empty
  BY DEF Robot, CC!At, CC!Empty
<1> QED
  BY <1>1 DEF Robot, CC!Poses

\* There and back.
LEMMA ThereAndBack ==
    ASSUME Robot
    PROVE  /\ \A p \in CC!Poses("robot") : /\ CC!Convert("robot", "ros", p) \in CC!Poses("ros")
                                        /\ CC!Pose(CC!Convert("robot", "ros", p)) = p
           /\ \A c \in CC!Poses("ros") : CC!Pose(c) \in CC!Poses("robot")
BY SamePlace DEF CC!Poses, CC!Pose

Types ==
    /\ at \in CC!Poses("robot")
    /\ {pos_, cmd_interface} \subseteq CC!Poses("ros")
    /\ {joint_, m_joint} \subseteq CC!Poses("robot") \cup {CC!Empty}

\* Once active, slvMove answers with joints.
FormatSet ==
    /\ recv_format \in CC!Formats
    /\ phase # "off" => recv_format \in {"J", "PJ", "TJ"}

\* What known and held stand for.
Followed ==
    /\ known /\ phase \in {"update", "write"} => pos_ = CC!Convert("robot", "ros", at)
    /\ held => at = CC!Pose(cmd_interface)

CycleInv == Types /\ FormatSet /\ CC!JointsThere /\ Followed

LEMMA CycleInit == ASSUME Robot PROVE CC!Init => CycleInv
BY PosesThere DEF CC!Init, CycleInv, CC!Formats, Types, FormatSet, CC!JointsThere, Followed

LEMMA CycleNext == ASSUME Robot, CycleInv, [CC!Next]_(CC!vars) PROVE CycleInv'
<1> USE DEF CycleInv, Types, FormatSet, CC!JointsThere, Followed
<1>1. CASE CC!on_activate
  <2>1. CASE UNCHANGED <<phase, m_mode, recv_format, joint_, pos_, cmd_interface,
                         known, held, entered, malformed>>
    BY <1>1, <2>1 DEF CC!on_activate
  <2>2. ASSUME NEW good \in BOOLEAN,
               joint_' = IF good THEN at ELSE CC!At("robot", 0),
               pos_' \in CC!Positions(joint_')
        PROVE  /\ joint_' \in CC!Poses("robot") /\ pos_' = CC!Convert("robot", "ros", joint_')
               /\ pos_' \in CC!Poses("ros")
               /\ good => at = CC!Pose(pos_')
    <3>1. joint_' \in CC!Poses("robot") /\ joint_' # CC!Empty
      BY <2>2, PosesThere
    <3>2. pos_' = CC!Convert("robot", "ros", joint_')
      BY <2>2, <3>1 DEF CC!Positions
    <3> QED
      BY <2>2, <3>1, <3>2, ThereAndBack
  <2>3. CASE ~UNCHANGED <<phase, m_mode, recv_format, joint_, pos_, cmd_interface,
                          known, held, entered, malformed>>
    <3>1. PICK good \in BOOLEAN :
            /\ joint_' = IF good THEN at ELSE CC!At("robot", 0)
            /\ pos_' \in CC!Positions(joint_')
            /\ cmd_interface' = pos_'
            /\ malformed' = ~good
            /\ known' = FALSE
            /\ \/ held' = FALSE /\ UNCHANGED <<phase, m_mode, recv_format, entered>>
               \/ /\ phase' = "read" /\ m_mode' = "J"
                  /\ recv_format' = CC!WithJoints(recv_format)
                  /\ held' = good /\ entered' = TRUE
      BY <1>1, <2>3 DEF CC!on_activate
    <3>2. /\ joint_' \in CC!Poses("robot") /\ pos_' \in CC!Poses("ros")
          /\ good => at = CC!Pose(pos_')
      BY <2>2, <3>1
    <3>3. at' = at /\ m_joint' = CC!Empty /\ phase = "off"
      BY <1>1 DEF CC!on_activate
    <3>4. Types' /\ CC!JointsThere'
      BY <3>1, <3>2, <3>3, PosesThere
    <3>5. Followed'
      BY <3>1, <3>2, <3>3
    <3>6. FormatSet'
      <4>1. CC!WithJoints(recv_format) \in {"J", "PJ", "TJ"}
        BY DEF CC!WithJoints, CC!Formats
      <4>2. \/ recv_format' = recv_format /\ phase' = phase
            \/ recv_format' = CC!WithJoints(recv_format)
        BY <3>1
      <4> QED
        BY <3>3, <4>1, <4>2 DEF CC!Formats
    <3> QED
      BY <3>4, <3>5, <3>6
  <2> QED
    BY <2>1, <2>3
<1>2. CASE CC!Read
  <2>1. PICK answer \in {"joints", "other type", "failed"} :
          /\ joint_' = IF m_mode = "normal" /\ answer = "joints" THEN at ELSE joint_
          /\ known' = (m_mode = "normal" /\ answer = "joints")
          /\ malformed' = (malformed \/ (m_mode = "normal" /\ answer = "other type"))
    BY <1>2 DEF CC!Read
  <2>2. /\ pos_' \in CC!Positions(joint_') /\ phase = "read" /\ phase' = "update"
        /\ UNCHANGED <<recv_format, m_joint, cmd_interface, at, held>>
    BY <1>2 DEF CC!Read
  <2>3. pos_' \in CC!Poses("ros") /\ (known' => pos_' = CC!Convert("robot", "ros", at))
    BY <2>1, <2>2, PosesThere, ThereAndBack DEF CC!Positions
  <2> QED
    BY <2>1, <2>2, <2>3, PosesThere
<1>3. CASE CC!Controllers
  BY <1>3 DEF CC!Controllers
<1>4. CASE CC!WriteNormal
  <2>1. held' => at' = CC!Pose(cmd_interface')
    BY <1>4, ThereAndBack DEF CC!WriteNormal
  <2> QED
    BY <1>4, <2>1 DEF CC!WriteNormal
<1>5. CASE CC!WriteSlave
  <2>1. CC!Pose(cmd_interface) \in CC!Poses("robot")
    BY ThereAndBack
  <2>2. /\ at' \in CC!Poses("robot") /\ phase' = "read" /\ phase = "write"
        /\ held' => at' = CC!Pose(cmd_interface')
        /\ UNCHANGED <<recv_format, pos_, cmd_interface, known>>
    <3>1. CASE m_mode = "J"
      BY <1>5, <2>1, <3>1 DEF CC!WriteSlave
    <3>2. CASE m_mode # "J"
      <4>1. CASE at' \in CC!Poses("robot") /\ held' = (held /\ m_mode = "J")
        BY <1>5, <3>2, <4>1 DEF CC!WriteSlave
      <4>2. CASE UNCHANGED <<at, held>>
        BY <1>5, <4>2 DEF CC!WriteSlave
      <4> QED
        BY <1>5, <3>2, <4>1, <4>2 DEF CC!WriteSlave
    <3> QED
      BY <3>1, <3>2
  <2>3. CASE CC!SlaveMoved
    <3>1. PICK good \in BOOLEAN :
            /\ CC!Parse(good) /\ joint_' = m_joint' /\ malformed' = (malformed \/ ~good)
      BY <2>3 DEF CC!SlaveMoved
    <3>2. /\ m_joint' \in {at', m_joint}
          /\ good => m_joint' = at'
      BY <2>2, <3>1 DEF CC!Parse
    <3>3. Types'
      BY <2>2, <3>1, <3>2
    <3>4. CC!JointsThere'
      BY <2>2, <3>1, <3>2, PosesThere
    <3> QED
      BY <2>2, <3>3, <3>4
  <2>4. CASE UNCHANGED <<joint_, m_joint, malformed>>
    BY <2>2, <2>4
  <2> QED
    BY <1>5, <2>3, <2>4 DEF CC!WriteSlave
<1>6. CASE CC!ChangeMode \/ CC!on_deactivate \/ CC!Moved
  BY <1>6 DEF CC!ChangeMode, CC!on_deactivate, CC!Moved
<1>7. CASE UNCHANGED CC!vars
  BY <1>7 DEF CC!vars
<1> QED
  BY <1>1, <1>2, <1>3, <1>4, <1>5, <1>6, <1>7 DEF CC!Next

LEMMA CycleInvariant == ASSUME Robot PROVE CC!Spec => []CycleInv
<1>1. CC!Init => CycleInv
  BY CycleInit
<1>2. CycleInv /\ [CC!Next]_(CC!vars) => CycleInv'
  BY CycleNext
<1> QED
  BY <1>1, <1>2, PTL DEF CC!Spec

(***************************************************************************)
(* read and Initialize convert joints that are there, whatever receive     *)
(* format was asked for, unless an answer was not of the type expected.    *)
(***************************************************************************)
THEOREM JointsAreThere == ASSUME Robot PROVE CC!Spec => []JointsThere
<1>1. CycleInv => JointsThere
  BY DEF CycleInv, JointsThere
<1> QED
  BY CycleInvariant, <1>1, PTL

(***************************************************************************)
(* The first slvMove of a slave mode asks for the place where the robot    *)
(* stands, when it has stood still since write last copied its position    *)
(* into the command and no controller has written another.                 *)
(***************************************************************************)
THEOREM FirstCommandMovesNothing == ASSUME Robot PROVE CC!Spec => [][CC!FirstCommandHolds]_(CC!vars)
<1>1. CycleInv /\ [CC!Next]_(CC!vars) => [CC!FirstCommandHolds]_(CC!vars)
  <2> SUFFICES ASSUME CycleInv, CC!Next, entered, ~entered', held, m_mode = "J" PROVE at' = at
    BY DEF CC!FirstCommandHolds
  <2>1. at = CC!Pose(cmd_interface)
    BY DEF CycleInv, Followed
  <2>2. CASE CC!WriteSlave
    BY <2>1, <2>2 DEF CC!WriteSlave
  <2>3. CASE ~CC!WriteSlave
    BY <2>3 DEF CC!Next, CC!on_activate, CC!on_deactivate, CC!Read, CC!Controllers, CC!WriteNormal,
                CC!ChangeMode, CC!Moved
  <2> QED
    BY <2>2, <2>3
<1> QED
  BY CycleInvariant, <1>1, PTL DEF CC!Spec
-----------------------------------------------------------------------------
(* The user I/O *)

\* What a topic of user I/O carries.
UserIOs == Messages \subseteq [offset : Int, size : Int, value : Seq(Int)]

Kept(m) == m \in Messages \cup {IO!Initial} /\ IO!Accepts(m)

\* What is stored so far of a message is of one message; write has copied it unless
\* a race has been noticed.
Whole ==
    /\ putting \in {"no", "size", "value"}
    /\ putting = "no" =>
         \E m : Kept(m) /\ offset = m.offset /\ size = m.size /\ value = m.value
    /\ putting # "no" => Kept(msg) /\ offset = msg.offset
    /\ putting = "value" => size = msg.size
    /\ creating # "no" /\ ~raced =>
         putting = "no" /\ args.offset = offset /\ args.size = size

LEMMA InitialKept == Kept(IO!Initial)
BY DEF Kept, IO!Initial, IO!Accepts, IO!Located, IO!MIN_USERIO_OFFSET, IO!USERIO_ALIGNMENT

LEMMA WholeInvariant == IO!Spec => []Whole
<1>1. IO!Init => Whole
  BY InitialKept DEF IO!Init, Whole
<1>2. Whole /\ [IO!Next]_(IO!vars) => Whole'
  <2> SUFFICES ASSUME Whole, [IO!Next]_(IO!vars) PROVE Whole'
    OBVIOUS
  <2> USE DEF Whole
  <2>1. CASE IO!SpinThread
    <3> /\ raced' = (raced \/ (creating # "no" /\ putting' # "no"))
        /\ args' = args /\ creating' = creating
      BY <2>1 DEF IO!SpinThread, IO!createVars
    <3>1. CASE IO!put_MiniIO \/ IO!put_HandIO \/ IO!put_RecvUserIO
      BY <3>1 DEF IO!put_MiniIO, IO!put_HandIO, IO!put_RecvUserIO, Kept
    <3>2. CASE IO!PutOffset
      BY <3>2 DEF IO!PutOffset, Kept
    <3>3. CASE IO!PutSize
      BY <3>3 DEF IO!PutSize, Kept
    <3>4. CASE IO!PutValue
      BY <3>4 DEF IO!PutValue, Kept
    <3> QED
      BY <2>1, <3>1, <3>2, <3>3, <3>4 DEF IO!SpinThread
  <2>2. CASE IO!WriteThread
    <3> UNCHANGED <<offset, size, value, msg, putting>>
      BY <2>2 DEF IO!WriteThread, IO!putVars
    <3>1. CASE IO!ExecSlaveMove
      BY <3>1 DEF IO!ExecSlaveMove, Kept
    <3>2. CASE IO!CheckSize
      BY <3>2 DEF IO!CheckSize, Kept
    <3>3. CASE IO!CopyFields
      <4>1. creating' = "no"
        BY <3>3 DEF IO!CopyFields
      <4> QED
        BY <4>1 DEF Kept
    <3> QED
      BY <2>2, <3>1, <3>2, <3>3 DEF IO!WriteThread
  <2>3. CASE UNCHANGED IO!vars
    BY <2>3 DEF IO!vars, Kept
  <2> QED
    BY <2>1, <2>2, <2>3 DEF IO!Next
<1> QED
  BY <1>1, <1>2, PTL DEF IO!Spec

\* Three elements behind others, and before others.
LEMMA Slice ==
    ASSUME NEW S, NEW a \in Seq(S), NEW x \in S, NEW y \in S, NEW z \in S, NEW b \in Seq(S)
    PROVE  /\ Len(a \o <<x, y, z>> \o b) = Len(a) + 3 + Len(b)
           /\ SubSeq(a \o <<x, y, z>> \o b, Len(a) + 1, Len(a) + 3) = <<x, y, z>>
<1> DEFINE s == a \o <<x, y, z>> \o b
           t == SubSeq(s, Len(a) + 1, Len(a) + 3)
<1>1. /\ s \in Seq(S) /\ Len(s) = Len(a) + 3 + Len(b)
      /\ s[Len(a) + 1] = x /\ s[Len(a) + 2] = y /\ s[Len(a) + 3] = z
  <2>1. /\ a \o <<x, y, z>> \in Seq(S) /\ Len(a \o <<x, y, z>>) = Len(a) + 3
        /\ (a \o <<x, y, z>>)[Len(a) + 1] = x
        /\ (a \o <<x, y, z>>)[Len(a) + 2] = y
        /\ (a \o <<x, y, z>>)[Len(a) + 3] = z
    OBVIOUS
  <2> DEFINE c == a \o <<x, y, z>>
  <2> HIDE DEF c
  <2> QED
    BY <2>1 DEF c
<1> HIDE DEF s, t
<1>2. t \in Seq(S) /\ Len(t) = 3 /\ t[1] = x /\ t[2] = y /\ t[3] = z
  BY <1>1 DEF t
<1>3. t = <<x, y, z>>
  BY <1>2
<1> QED
  BY <1>1, <1>3 DEF s, t

\* A field that is there or not.
LEMMA Optional ==
    ASSUME NEW S, NEW e \in S, NEW c
    PROVE  /\ IO!If(c, <<e>>) \in Seq(S)
           /\ Len(IO!If(c, <<e>>)) = IF c THEN 1 ELSE 0
<1>1. CASE c
  BY <1>1 DEF IO!If
<1>2. CASE ~c
  BY <1>2 DEF IO!If
<1> QED
  BY <1>1, <1>2

(***************************************************************************)
(* Unless a message of user I/O was being stored while write made it, a    *)
(* slvMove is not refused and carries offset, size and bytes of one        *)
(* message: no topic that was refused and none of an earlier race is left  *)
(* in them (put_SendUserIO, CreateSendParameter).                          *)
(***************************************************************************)
THEOREM UserIOIsWhole == ASSUME UserIOs PROVE IO!Spec => [][IO!UserIOWhole]_(IO!vars)
<1> SUFFICES ASSUME UserIOs PROVE IO!Spec => [][IO!UserIOWhole]_(IO!vars)
  OBVIOUS
<1>1. Whole /\ [IO!Next]_(IO!vars) => [IO!UserIOWhole]_(IO!vars)
  <2> SUFFICES ASSUME Whole, IO!Next, creating # "no", creating' = "no", sendfmt.user, ~raced
               PROVE  /\ sent' # <<"E_FAIL">> /\ sent' # <<"overrun">>
                      /\ \E m \in Messages \cup {IO!Initial} :
                           SubSeq(sent', IO!UserIOAt, IO!UserIOAt + 2) = IO!Wants(m)
    BY DEF IO!UserIOWhole
  <2>1. PICK m : /\ Kept(m) /\ offset = m.offset /\ size = m.size /\ value = m.value
                 /\ args.offset = m.offset /\ args.size = m.size
    BY DEF Whole
  <2>2. m \in Messages \cup {IO!Initial} /\ Len(value) <= m.size /\ m.size \in Int
        /\ Len(value) \in Int
    <3>1. m \in [offset : Int, size : Int, value : Seq(Int)]
      <4>1. IO!Initial \in [offset : Int, size : Int, value : Seq(Int)]
        <5>1. <<>> \in Seq(Int) /\ 128 \in Int /\ 1 \in Int
          OBVIOUS
        <5> QED
          BY <5>1 DEF IO!Initial, IO!MIN_USERIO_OFFSET
      <4> QED
        BY <2>1, <4>1 DEF Kept, UserIOs
    <3> QED
      BY <2>1, <3>1 DEF Kept, IO!Accepts
  <2>3. ~(Len(value) > args.size) /\ ~(args.size < Len(value))
    BY <2>1, <2>2
  <2>4. IO!CopyFields
    <3>1. ~IO!SpinThread
      BY DEF IO!SpinThread, IO!createVars
    <3>2. ~IO!ExecSlaveMove
      BY DEF IO!ExecSlaveMove
    <3>3. ~IO!CheckSize
      BY <2>3 DEF IO!CheckSize
    <3> QED
      BY <3>1, <3>2, <3>3 DEF IO!Next, IO!WriteThread
  <2> DEFINE pose == <<"pose", IF PoseLen <= IO!PoseJoints[sendfmt.pose] + 1
                                 THEN IO!PoseJoints[sendfmt.pose] + 1 ELSE "overrun">>
             length == args.size * IO!USERIO_ALIGNMENT
             bytes == IO!Padded(value, args.size)
             length2 == args.recv.size * IO!USERIO_ALIGNMENT
             S == {pose, args.mini, args.offset, length, bytes, args.recv.offset,
                   length2, args.hand}
             before == <<pose>> \o IO!If(sendfmt.mini, <<args.mini>>)
             middle == <<args.offset, length, bytes>>
             third == IO!If(sendfmt.recv, <<args.recv.offset, length2>>)
             fourth == IO!If(sendfmt.hand, <<args.hand>>)
             after == third \o fourth
  <2> HIDE DEF pose, length, bytes, length2
  <2> /\ pose \in S /\ args.mini \in S /\ args.offset \in S /\ length \in S
      /\ bytes \in S /\ args.recv.offset \in S /\ length2 \in S /\ args.hand \in S
    OBVIOUS
  <2> HIDE DEF S
  <2>5. before \in Seq(S) /\ Len(before) + 1 = IO!UserIOAt /\ Len(before) \in Nat
    <3>1. /\ <<pose>> \in Seq(S) /\ IO!If(sendfmt.mini, <<args.mini>>) \in Seq(S)
          /\ Len(IO!If(sendfmt.mini, <<args.mini>>)) = IF sendfmt.mini THEN 1 ELSE 0
      BY Optional
    <3> QED
      BY <3>1 DEF IO!UserIOAt
  <2>6. /\ IO!If(sendfmt.recv, <<args.recv.offset, length2>>) \in Seq(S)
        /\ IO!If(sendfmt.hand, <<args.hand>>) \in Seq(S)
        /\ after \in Seq(S) /\ Len(after) \in Nat
    <3> DEFINE fields == <<args.recv.offset, length2>>
    <3>1. fields \in Seq(S)
      OBVIOUS
    <3> HIDE DEF fields
    <3>2. IO!If(sendfmt.recv, fields) \in Seq(S)
      BY <3>1 DEF IO!If
    <3>3. IO!If(sendfmt.hand, <<args.hand>>) \in Seq(S)
      BY Optional
    <3> QED
      BY <3>2, <3>3 DEF fields
  <2>7. sent' = before \o middle \o after
    <3>1. sent' = <<pose>> \o IO!If(sendfmt.mini, <<args.mini>>)
                    \o IO!If(sendfmt.user, <<args.offset, length, bytes>>)
                    \o IO!If(sendfmt.recv, <<args.recv.offset, length2>>)
                    \o IO!If(sendfmt.hand, <<args.hand>>)
      BY <2>3, <2>4 DEF IO!CopyFields, pose, length, bytes, length2
    <3>2. IO!If(sendfmt.user, <<args.offset, length, bytes>>) = <<args.offset, length, bytes>>
      BY DEF IO!If
    <3>3. <<args.offset, length, bytes>> \in Seq(S)
      OBVIOUS
    <3>4. sent' = before \o middle \o third \o fourth
      BY <3>1, <3>2
    <3>5. middle \in Seq(S) /\ third \in Seq(S) /\ fourth \in Seq(S)
      BY <2>6, <3>3
    <3> HIDE DEF middle, third, fourth, before
    <3>6. before \in Seq(S)
      BY <2>5
    <3> HIDE DEF after
    <3> DEFINE front == before \o middle
    <3>7. front \in Seq(S)
      BY <3>5, <3>6
    <3> HIDE DEF front
    <3>8. (front \o third) \o fourth = front \o (third \o fourth)
      BY <3>5, <3>7, ConcatAssociative
    <3> QED
      BY <3>4, <3>8, Zenon DEF after, front
  <2>8. IO!Wants(m) = <<args.offset, length, bytes>>
    BY <2>1 DEF IO!Wants, length, bytes
  <2>9. /\ Len(sent') = Len(before) + 3 + Len(after)
        /\ SubSeq(sent', Len(before) + 1, Len(before) + 3) = <<args.offset, length, bytes>>
    <3> args.offset \in S /\ length \in S /\ bytes \in S
      OBVIOUS
    <3> HIDE DEF before, after
    <3> QED
      BY <2>5, <2>6, <2>7, Slice
  <2>10. Len(sent') # 1
    <3> HIDE DEF before, after
    <3> QED
      BY <2>5, <2>6, <2>9
  <2>11. Len(<<"E_FAIL">>) = 1 /\ Len(<<"overrun">>) = 1
    OBVIOUS
  <2>12. Len(before) + 3 = IO!UserIOAt + 2
    <3> HIDE DEF before
    <3> QED
      BY <2>5 DEF IO!UserIOAt
  <2> HIDE DEF before, after
  <2> QED
    BY <2>2, <2>5, <2>8, <2>9, <2>10, <2>11, <2>12
<1> QED
  BY <1>1, WholeInvariant, PTL DEF IO!Spec

(***************************************************************************)
(* Both together, as the runs check them: what a slvMove carries is what   *)
(* the robot's place and the topics of user I/O mean it to carry.          *)
(***************************************************************************)
THEOREM SlaveMovesMeant ==
    ASSUME Robot, UserIOs PROVE CC!Spec /\ IO!Spec => SlaveMovesAsMeant
<1>1. /\ [CC!FirstCommandHolds]_(CC!vars) /\ [IO!UserIOWhole]_(IO!vars)
      => [/\ part = "cycle" => CC!FirstCommandHolds
          /\ part = "slaveio" => IO!UserIOWhole]_ofMoves
  <2>1. UNCHANGED CC!vars => CC!FirstCommandHolds
    BY DEF CC!vars, CC!FirstCommandHolds
  <2>2. UNCHANGED IO!vars => IO!UserIOWhole
    BY DEF IO!vars, IO!UserIOWhole
  <2> QED
    BY <2>1, <2>2
<1> QED
  BY <1>1, FirstCommandMovesNothing, UserIOIsWhole, PTL DEF SlaveMovesAsMeant
=============================================================================
