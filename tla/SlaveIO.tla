-------------------------------- MODULE SlaveIO --------------------------------
(***************************************************************************)
(* What else a slvMove carries: the mini, hand and user I/O of a robot, as *)
(* topics set them (put_MiniIO, put_HandIO, put_SendUserIO, put_RecvUserIO) *)
(* and CreateSendParameter packs them behind the pose.  The callbacks run  *)
(* in the spinning thread of DensoRobotHW, write in ros2_control's; they   *)
(* share m_send_userio_offset, m_send_userio_size and m_send_userio        *)
(* without a lock.                                                         *)
(***************************************************************************)
EXTENDS Integers, Sequences

CONSTANTS
    Messages,   \* the UserIO messages of the topics: [offset, size, value]
    Numbers,    \* the values of the other topics
    PoseLen,    \* the numbers in the pose that write makes
    SendFormats \* the formats and poses of slave modes that are tried

VARIABLES
    sendfmt,    \* m_sendfmt, whether m_recvfmt has user I/O, and the mode's pose
    miniio, handio,         \* m_send_miniio, m_send_handio
    offset, size, value,    \* the user I/O to send
    recv,                   \* m_recv_userio_offset and _size
    msg, putting,           \* the message being stored, and what is next of it
    args, creating,         \* what ExecSlaveMove passed by value, and what is next
    sent,                   \* what the last slvMove carried, or why there was none
    raced                   \* history: one was being stored while args were used

vars == <<sendfmt, miniio, handio, offset, size, value, recv, msg, putting,
          args, creating, sent, raced>>
putVars == <<miniio, handio, offset, size, value, recv, msg, putting>>
createVars == <<args, creating, sent>>

MIN_USERIO_OFFSET == 128
USERIO_ALIGNMENT == 8
Initial == [offset |-> MIN_USERIO_OFFSET, size |-> 1, value |-> <<>>]
NoArgs == [mini |-> 0, hand |-> 0, recv |-> 0, offset |-> 0, size |-> 0]
PoseJoints == [P |-> 7, J |-> 8, T |-> 10]

Init ==
    /\ sendfmt \in SendFormats
    /\ miniio = 0 /\ handio = 0
    /\ offset = Initial.offset /\ size = Initial.size /\ value = Initial.value
    /\ recv = [offset |-> Initial.offset, size |-> Initial.size]
    /\ msg = Initial /\ putting = "no" /\ args = NoArgs /\ creating = "no"
    /\ sent = <<>> /\ raced = FALSE
-----------------------------------------------------------------------------
(* The spinning thread *)

put_MiniIO ==
    /\ putting = "no"
    /\ miniio' \in Numbers
    /\ UNCHANGED <<handio, offset, size, value, recv, msg, putting>>

put_HandIO ==
    /\ putting = "no"
    /\ handio' \in Numbers
    /\ UNCHANGED <<miniio, offset, size, value, recv, msg, putting>>

Located(m) == m.offset >= MIN_USERIO_OFFSET /\ m.offset % USERIO_ALIGNMENT = 0 /\ m.size > 0

put_RecvUserIO == \E m \in Messages :
    /\ putting = "no"
    /\ Located(m)
    /\ recv' = [offset |-> m.offset, size |-> m.size]
    /\ UNCHANGED <<miniio, handio, offset, size, value, msg, putting>>

\* Slip: more bytes than the size says are accepted.
AcceptsAnySize(m) == Located(m)

Accepts(m) == Located(m) /\ Len(m.value) <= m.size

\* put_SendUserIO: a message that is refused changes nothing.
PutOffset == \E m \in Messages :
    /\ putting = "no"
    /\ Accepts(m)
    /\ msg' = m /\ offset' = m.offset /\ putting' = "size"
    /\ UNCHANGED <<miniio, handio, size, value, recv>>

PutSize ==
    /\ putting = "size"
    /\ size' = msg.size /\ putting' = "value"
    /\ UNCHANGED <<miniio, handio, offset, value, recv, msg>>

PutValue ==
    /\ putting = "value"
    /\ value' = msg.value /\ putting' = "no" /\ msg' = Initial
    /\ UNCHANGED <<miniio, handio, offset, size, recv>>

SpinThread ==
    /\ put_MiniIO \/ put_HandIO \/ put_RecvUserIO \/ PutOffset \/ PutSize \/ PutValue
    /\ raced' = (raced \/ (creating # "no" /\ putting' # "no"))
    /\ UNCHANGED <<sendfmt, createVars>>
-----------------------------------------------------------------------------
(* write: ExecSlaveMove and CreateSendParameter *)

\* All is passed by value but the bytes, which are by reference.
ExecSlaveMove ==
    /\ creating = "no"
    /\ args' = [mini |-> miniio, hand |-> handio, recv |-> recv, offset |-> offset,
                size |-> size]
    /\ creating' = IF sendfmt.user THEN "check" ELSE "copy"
    /\ raced' = (putting # "no") /\ sent' = <<>>

CheckSize ==
    /\ creating = "check"
    /\ IF args.size < Len(value)
         THEN creating' = "no" /\ sent' = <<"E_FAIL">> /\ args' = NoArgs
         ELSE creating' = "copy" /\ UNCHANGED <<sent, args>>
    /\ UNCHANGED raced

\* Zeros behind what is copied into n elements.
Padded(s, n) == [i \in 1..n |-> IF i <= Len(s) THEN s[i] ELSE 0]
If(condition, fields) == IF condition THEN fields ELSE <<>>

\* More bytes than there are elements overrun the array, which happens when they
\* are exchanged for longer ones after the check.
CopyFields ==
    /\ creating = "copy"
    /\ creating' = "no" /\ args' = NoArgs
    /\ sent' =
         IF sendfmt.user /\ Len(value) > args.size THEN <<"overrun">>
         ELSE <<<<"pose", IF PoseLen <= PoseJoints[sendfmt.pose] + 1 THEN PoseJoints[sendfmt.pose] + 1
                           ELSE "overrun">>>>
              \o If(sendfmt.mini, <<args.mini>>)
              \o If(sendfmt.user, <<args.offset, args.size * USERIO_ALIGNMENT,
                                    Padded(value, args.size)>>)
              \o If(sendfmt.recv, <<args.recv.offset, args.recv.size * USERIO_ALIGNMENT>>)
              \o If(sendfmt.hand, <<args.hand>>)
    /\ UNCHANGED raced

WriteThread ==
    /\ ExecSlaveMove \/ CheckSize \/ CopyFields
    /\ UNCHANGED <<sendfmt, putVars>>

Next == SpinThread \/ WriteThread

Spec == Init /\ [][Next]_vars
-----------------------------------------------------------------------------
(* Properties *)

TypeOK ==
    /\ putting \in {"no", "size", "value"} /\ creating \in {"no", "check", "copy"}
    /\ {miniio, handio} \subseteq Numbers \cup {0}
    /\ size > 0 /\ recv.size > 0 /\ offset % USERIO_ALIGNMENT = 0

\* Where the fields of the user I/O are in what was sent.
UserIOAt == IF sendfmt.mini THEN 3 ELSE 2
Wants(m) == <<m.offset, m.size * USERIO_ALIGNMENT, Padded(m.value, m.size)>>

\* Unless a message was being stored meanwhile, a slvMove is never refused for
\* its user I/O and carries offset, size and bytes of one message: no message
\* that was refused and none of an earlier race is left in them.
UserIOWhole ==
    creating # "no" /\ creating' = "no" /\ sendfmt.user /\ ~raced =>
      /\ sent' # <<"E_FAIL">> /\ sent' # <<"overrun">>
      /\ \E m \in Messages \cup {Initial} :
           SubSeq(sent', UserIOAt, UserIOAt + 2) = Wants(m)
=============================================================================
