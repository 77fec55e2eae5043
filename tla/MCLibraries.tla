----------------------------- MODULE MCLibraries -----------------------------
(***************************************************************************)
(* The components of Libraries, and those that are checked on bounded data *)
(* only, in one instance for TLC: an initial state chooses the component   *)
(* (part) that runs, the variables of the others are Unused.               *)
(***************************************************************************)
EXTENDS Libraries

CONSTANTS Nodes, Null, Unused

\* ServerSession, without requests that make objects
VARIABLES server, acc, cursor, numChild, young, dead, node1, node2, alloc, term, comp,
          request, answer, stack, open, maker, parent, abandoned
\* Variants
VARIABLES x, y, strings
\* OptionValue
VARIABLES list, bstrSrc, pvarDest

ssVars == <<server, acc, cursor, numChild, young, dead, node1, node2, alloc, term, comp,
            request, answer, stack, open, maker, parent, abandoned>>
tpVars == <<main, flags, seen, evt, next, tpc, tries, told, undone>>
rkVars == <<client, peer, addrSet, retry, naks, parts, packet>>
hoVars == <<signal, requests, last, epc, running, waiter, flagAll, first, answered>>
cdVars == <<room, len, buf>>
caVars == <<m_fd, m_vecKH, unsure, garbled>>
ccVars == <<phase, m_mode, recv_format, joint_, m_joint, pos_, cmd_interface, at, known,
            held, entered, malformed>>
trVars == <<objects, stage, m_serving, topics, slave, changing, order, halfway, crossed,
            writing, path>>
vtVars == <<x, y, strings>>
ovVars == <<list, bstrSrc, pvarDest>>
mtVars == <<by, asked, todo, data, result, packed>>
ioVars == <<sendfmt, miniio, handio, offset, size, value, recv, msg, putting, creating,
            raced>>
vars == <<part, ssVars, tpVars, rkVars, hoVars, cdVars, caVars, ccVars, trVars,
         vtVars, ovVars, mtVars, ioVars, pc, mutex, rpc, hr, sent, live, args>>

NoSs == /\ server = Unused /\ acc = Unused /\ cursor = Unused /\ numChild = Unused
        /\ young = Unused /\ dead = Unused /\ node1 = Unused /\ node2 = Unused
        /\ alloc = Unused /\ term = Unused /\ comp = Unused /\ request = Unused
        /\ answer = Unused /\ stack = Unused /\ open = Unused /\ maker = Unused
        /\ parent = Unused /\ abandoned = Unused
NoTp == /\ main = Unused /\ flags = Unused /\ seen = Unused /\ evt = Unused
        /\ next = Unused /\ tpc = Unused /\ tries = Unused /\ told = Unused
        /\ undone = Unused
NoRk == /\ client = Unused /\ peer = Unused /\ addrSet = Unused /\ retry = Unused
        /\ naks = Unused /\ parts = Unused /\ packet = Unused
NoHo == /\ signal = Unused /\ requests = Unused /\ last = Unused /\ epc = Unused
        /\ running = Unused /\ waiter = Unused /\ flagAll = Unused /\ first = Unused
        /\ answered = Unused
NoCd == /\ room = Unused /\ len = Unused /\ buf = Unused
NoCa == /\ m_fd = Unused /\ m_vecKH = Unused /\ unsure = Unused /\ garbled = Unused
NoCc == /\ phase = Unused /\ m_mode = Unused /\ recv_format = Unused /\ joint_ = Unused
        /\ m_joint = Unused /\ pos_ = Unused /\ cmd_interface = Unused /\ at = Unused
        /\ known = Unused /\ held = Unused /\ entered = Unused /\ malformed = Unused
NoTr == /\ objects = Unused /\ stage = Unused /\ m_serving = Unused /\ topics = Unused
        /\ slave = Unused /\ changing = Unused /\ order = Unused /\ halfway = Unused
        /\ crossed = Unused /\ writing = Unused /\ path = Unused
NoVt == /\ x = Unused /\ y = Unused /\ strings = Unused
NoOv == /\ list = Unused /\ bstrSrc = Unused /\ pvarDest = Unused
NoMt == /\ by = Unused /\ asked = Unused /\ todo = Unused /\ data = Unused
        /\ result = Unused /\ packed = Unused
NoIo == /\ sendfmt = Unused /\ miniio = Unused /\ handio = Unused /\ offset = Unused
        /\ size = Unused /\ value = Unused /\ recv = Unused /\ msg = Unused
        /\ putting = Unused /\ creating = Unused /\ raced = Unused
-----------------------------------------------------------------------------
(* The instances *)

Objects == {}
ClientMax == 2
ObjectMax == 1
SS == INSTANCE ServerSession

\* One value of each type and size, arrays of up to two, strings, arrays of
\* strings and of VARIANTs two deep, types only some tables know, dates before and
\* after 1970; packets of up to two.
DataTypes == {"UI1", "I2", "UI2", "BOOL", "I4", "UI4", "R4", "I8", "UI8", "R8", "CY"}
Variant(vt, array, vs, subs) == [vt |-> vt, array |-> array, val |-> vs, sub |-> subs]
One(vt, v) == Variant(vt, FALSE, <<v>>, <<>>)
Vector(vt, vs) == Variant(vt, TRUE, vs, <<>>)
Nested(subs) == Variant("VARIANT", TRUE, <<>>, subs)
Empty == Variant("EMPTY", FALSE, <<>>, <<>>)
Texts2 == Vector("BSTR", <<<<99>>, <<>>>>)
Flat ==
    {One(vt, <<7>>) : vt \in DataTypes \cup {"ERROR"}} \cup {Empty, Texts2, Nested(<<>>)}
    \cup {One("DATE", <<n>>) : n \in {-1, 4, 5}} \cup {Vector("DATE", <<<<-1>>, <<5>>>>)}
    \cup {One("BSTR", s) : s \in {<<>>, <<99>>, <<99, 100>>}} \cup {Vector("BSTR", <<>>)}
    \cup {Vector(vt, vs) : vt \in DataTypes, vs \in {<<>>, <<<<7>>>>, <<<<7>>, <<8>>>>}}
    \cup {Vector("ERROR", vs) : vs \in {<<>>, <<<<7>>>>}}
Once == {Nested(<<u, w>>) : u \in {One("I4", <<7>>), One("BSTR", <<99>>)},
             w \in {Empty, Vector("R8", <<<<7>>>>), One("DATE", <<5>>)}}
Twice == {Nested(<<u, One("UI1", <<7>>)>>) : u \in Once}
Levels == [d \in 0..2 |-> Flat \cup (IF d > 0 THEN Once ELSE {})
                                   \cup (IF d > 1 THEN Twice ELSE {})]
EvenSecond(n) == n - (n % 2)
ArgListsSent == {<<>>} \cup {<<u>> : u \in Levels[2]}
    \cup {<<u, w>> : u \in Levels[2], w \in {One("I4", <<7>>), Texts2}}
ASSUME VariantsOfC == CD!Coding

\* The functions that open objects.
OpeningCalls == {<<"Controller", "GETTASK">>, <<"Task", "GETVARIABLE">>}

\* One joint of each type.
JointTypes == <<"prismatic", "revolute", "fixed">>

\* A variable of the controller and one of a robot, and a task without any.
ObjectsBelow == [controller |-> <<"robot", "task", "ofController">>, robot |-> <<"ofRobot">>,
          task |-> <<>>, ofController |-> <<>>, ofRobot |-> <<>>]

\* Integers of 2 to 5 bits for those of 8 to 64, each with its limits and with
\* numbers on either side of those of the narrower ones.
Scalar(vt, v) == [vt |-> vt, array |-> FALSE, val |-> v]
Array(vt, v) == [vt |-> vt, array |-> TRUE, val |-> v]
Width == [UI1 |-> 2, I2 |-> 3, UI2 |-> 3, BOOL |-> 3, I4 |-> 4, UI4 |-> 4,
          I8 |-> 5, UI8 |-> 5, CY |-> 5, DATE |-> 5]
RealMax == [R4 |-> 40, R8 |-> 48]
Zone == 1
Wild == {-16}
Unsigned == {Scalar(vt, n) : vt \in {"UI1", "UI2", "UI4", "UI8"}, n \in {0, 1, 3}}
    \cup {Scalar(vt, n) : vt \in {"UI2", "UI4", "UI8"}, n \in {4, 7}}
    \cup {Scalar(vt, n) : vt \in {"UI4", "UI8"}, n \in {8, 15}}
    \cup {Scalar("UI8", n) : n \in {16, 17, 31}}
Signed == {Scalar(vt, n) : vt \in {"BOOL", "I2", "I4", "I8", "CY", "DATE"}, n \in {-4, -1, 0, 1, 3}}
    \cup {Scalar(vt, n) : vt \in {"I4", "I8", "CY", "DATE"}, n \in {-8, -5, 4, 7}}
    \cup {Scalar(vt, n) : vt \in {"I8", "CY", "DATE"}, n \in {-16, -9, 8, 15}}
Reals == {Scalar(vt, n) : vt \in {"R4", "R8"}, n \in {-40, -17, -16, -1, 0, 3, 7, 8, 16, 31, 32, 40}}
    \cup {Scalar("R8", n) : n \in {-48, 48}}
Written == {<<>>, <<",">>, <<"(">>, <<"date", 3>>, <<"num", 2, "x">>}
    \cup {<<"num", n, ".">> : n \in {-40, -32, -17, -16, -8, -1, 0, 3, 7, 17, 31, 32, 40, 44}}
Arrays == {Array("I4", v) : v \in {<<>>, <<3>>, <<-5, 7>>}}
    \cup {Array("BOOL", <<-1, 0>>), Array("R8", <<1, 40>>)}
    \cup {Array("BSTR", <<s, t>>) : s \in {<<>>, <<"num", 2, "x">>, <<",">>},
                                    t \in {<<>>, <<"date", 3>>, <<"(">>}}
    \cup {Array("VARIANT", v) : v \in
            {<<>>, <<Scalar("BSTR", <<",">>)>>, <<Scalar("I4", -5), Scalar("BSTR", <<>>)>>,
             <<Array("I4", <<1, 2>>), Scalar("R4", 3)>>, <<Scalar("EMPTY", "none")>>,
             <<Array("I4", <<>>)>>, <<Scalar("BSTR", <<"(">>)>>,
             <<Array("VARIANT", <<Scalar("BSTR", <<>>), Array("R4", <<3, 1>>)>>), Scalar("UI8", 31)>>}}
Sources == Unsigned \cup Signed \cup Reals \cup Arrays
    \cup {Scalar("BSTR", t) : t \in Written}
    \cup {Scalar("EMPTY", "none"), Scalar("NULL", "none"), Scalar("ERROR", 1)}
VT == INSTANCE Variants

\* Titles and values with spaces, in brackets, and with separators in these.
Key == {<<"K">>, <<"k">>}
Options == [title : {<<" ", "K">>, <<"(", "k", ")">>, <<"o">>},
            value : {<<>>, <<" ", "v", " ", "w">>, <<"v", "=">>,
                     <<"(", "v", ",", "K", "=", ")">>, <<"{", "[", "{", "}", ",", "}">>}]
OV == INSTANCE OptionValue

\* Commands well formed and not; a packet has room for three short ones.
TextsDrawn == {<<>>, <<"c", "d">>}
Byte(b) == [vt |-> "", val |-> b]
Many(vt, s) == [vt |-> vt, val |-> s]
Bstr(s) == [vt |-> "BSTR", val |-> s]
Color(vt, b) == Many(vt, <<Byte("COLOR_FG"), b>>)
String(s) == Many("VARIANT", <<Byte("DRAW_STRING"),
                 Many("VARIANT", <<Bstr(s), Byte(0), Byte(15), Byte(1), Byte(7)>>)>>)
Line(n) == Many("VARIANT", <<Byte("DRAW_LINE"), Many("UI1", [i \in 1..n |-> Byte(i)])>>)
Commands == {Color("UI1", Byte(15)), Color("VARIANT", Byte(15)), Color("VARIANT", Bstr(<<"c">>)),
             String(<<>>), String(<<"c">>), String(<<"c", "d", "c">>), Line(2), Line(4),
             Many("VARIANT", <<Byte("DRAW_RECT")>>), Byte(1),
             Many("VARIANT", <<Byte("OTHER"), Byte(0)>>)}
ListsDrawn == {<<>>} \cup {<<c>> : c \in Commands} \cup {<<c, d>> : c \in Commands, d \in {Line(4), Byte(1)}}
    \cup {<<Color("VARIANT", Byte(15)), c, String(<<"d">>)>> : c \in Commands}
ASSUME CommandsOfC == MT!Drawing

\* Messages that fit, with more bytes than they say, and at a wrong offset.
UserIO(o, n, v) == [offset |-> o, size |-> n, value |-> v]
UserIOMessages ==
    {UserIO(136, 2, <<6, 7>>), UserIO(136, 1, <<6, 7>>), UserIO(132, 1, <<5>>)}
SlaveFormats ==
    {[mini |-> TRUE, hand |-> TRUE, user |-> TRUE, recv |-> TRUE, pose |-> "J"],
     [mini |-> FALSE, hand |-> TRUE, user |-> TRUE, recv |-> FALSE, pose |-> "T"],
     [mini |-> TRUE, hand |-> FALSE, user |-> FALSE, recv |-> FALSE, pose |-> "P"]}
-----------------------------------------------------------------------------
Init ==
    \/ /\ part = "session" /\ SS!Init
       /\ NoTp /\ NoRk /\ NoHo /\ NoCd /\ NoCa /\ NoCc /\ NoTr /\ NoVt /\ NoOv
       /\ NoMt /\ NoIo /\ rpc = Unused /\ hr = Unused /\ sent = Unused /\ args = Unused
    \/ /\ part = "pendant" /\ TP!Init
       /\ NoSs /\ NoRk /\ NoHo /\ NoCd /\ NoCa /\ NoCc /\ NoTr /\ NoVt /\ NoOv
       /\ NoMt /\ NoIo /\ pc = Unused /\ hr = Unused /\ sent = Unused /\ live = Unused
       /\ args = Unused
    \/ /\ part = "robotalk" /\ RK!Init
       /\ NoSs /\ NoTp /\ NoHo /\ NoCd /\ NoCa /\ NoCc /\ NoTr /\ NoVt /\ NoOv
       /\ NoMt /\ NoIo /\ mutex = Unused /\ rpc = Unused /\ sent = Unused /\ live = Unused
       /\ args = Unused
    \/ /\ part = "handoff" /\ HO!Init
       /\ NoSs /\ NoTp /\ NoRk /\ NoCd /\ NoCa /\ NoCc /\ NoTr /\ NoVt /\ NoOv
       /\ NoMt /\ NoIo /\ pc = Unused /\ mutex = Unused /\ hr = Unused /\ sent = Unused
       /\ live = Unused /\ args = Unused
    \/ /\ part = "codec" /\ CD!Init
       /\ NoSs /\ NoTp /\ NoRk /\ NoHo /\ NoCa /\ NoCc /\ NoTr /\ NoVt /\ NoOv
       /\ NoMt /\ NoIo /\ mutex = Unused /\ rpc = Unused /\ live = Unused
    \/ /\ part = "calls" /\ CA!Init
       /\ NoSs /\ NoTp /\ NoRk /\ NoHo /\ NoCd /\ NoCc /\ NoTr /\ NoVt /\ NoOv
       /\ NoMt /\ NoIo /\ mutex = Unused /\ rpc = Unused /\ hr = Unused /\ sent = Unused
       /\ args = Unused
    \/ /\ part = "cycle" /\ CC!Init
       /\ NoSs /\ NoTp /\ NoRk /\ NoHo /\ NoCd /\ NoCa /\ NoTr /\ NoVt /\ NoOv
       /\ NoMt /\ NoIo /\ pc = Unused /\ mutex = Unused /\ rpc = Unused /\ hr = Unused
       /\ sent = Unused /\ live = Unused /\ args = Unused
    \/ /\ part = "services" /\ TR!Init
       /\ NoSs /\ NoTp /\ NoRk /\ NoHo /\ NoCd /\ NoCa /\ NoCc /\ NoVt /\ NoOv
       /\ NoMt /\ NoIo /\ pc = Unused /\ mutex = Unused /\ rpc = Unused /\ hr = Unused
       /\ sent = Unused /\ live = Unused /\ args = Unused
    \/ /\ part = "variants" /\ VT!Init
       /\ NoSs /\ NoTp /\ NoRk /\ NoHo /\ NoCd /\ NoCa /\ NoCc /\ NoTr /\ NoOv
       /\ NoMt /\ NoIo /\ pc = Unused /\ mutex = Unused /\ rpc = Unused /\ hr = Unused
       /\ sent = Unused /\ live = Unused /\ args = Unused
    \/ /\ part = "options" /\ OV!Init
       /\ NoSs /\ NoTp /\ NoRk /\ NoHo /\ NoCd /\ NoCa /\ NoCc /\ NoTr /\ NoVt
       /\ NoMt /\ NoIo /\ pc = Unused /\ mutex = Unused /\ rpc = Unused /\ hr = Unused
       /\ sent = Unused /\ live = Unused /\ args = Unused
    \/ /\ part = "minitp" /\ MT!Init
       /\ NoSs /\ NoTp /\ NoRk /\ NoHo /\ NoCd /\ NoCa /\ NoCc /\ NoTr /\ NoVt
       /\ NoOv /\ NoIo /\ pc = Unused /\ mutex = Unused /\ rpc = Unused /\ hr = Unused
       /\ sent = Unused /\ live = Unused /\ args = Unused
    \/ /\ part = "slaveio" /\ IO!Init
       /\ NoSs /\ NoTp /\ NoRk /\ NoHo /\ NoCd /\ NoCa /\ NoCc /\ NoTr /\ NoVt
       /\ NoOv /\ NoMt /\ pc = Unused /\ mutex = Unused /\ rpc = Unused /\ hr = Unused
       /\ live = Unused

Session ==
    /\ part = "session" /\ SS!Next
    /\ UNCHANGED <<part, tpVars, rkVars, hoVars, cdVars, caVars, ccVars, trVars,
                   vtVars, ovVars, mtVars, ioVars, rpc, hr, sent, args>>
Pendant ==
    /\ part = "pendant" /\ TP!Next
    /\ UNCHANGED <<part, ssVars, rkVars, hoVars, cdVars, caVars, ccVars, trVars,
                   vtVars, ovVars, mtVars, ioVars, pc, hr, sent, live, args>>
Robotalk ==
    /\ part = "robotalk" /\ RK!Next
    /\ UNCHANGED <<part, ssVars, tpVars, hoVars, cdVars, caVars, ccVars, trVars,
                   vtVars, ovVars, mtVars, ioVars, mutex, rpc, sent, live, args>>
HandOver ==
    /\ part = "handoff" /\ HO!Next
    /\ UNCHANGED <<part, ssVars, tpVars, rkVars, cdVars, caVars, ccVars, trVars,
                   vtVars, ovVars, mtVars, ioVars, pc, mutex, hr, sent, live, args>>
Codec ==
    /\ part = "codec" /\ CD!Next
    /\ UNCHANGED <<part, ssVars, tpVars, rkVars, hoVars, caVars, ccVars, trVars,
                   vtVars, ovVars, mtVars, ioVars, mutex, rpc, live>>
Calls ==
    /\ part = "calls" /\ CA!Next
    /\ UNCHANGED <<part, ssVars, tpVars, rkVars, hoVars, cdVars, ccVars, trVars,
                   vtVars, ovVars, mtVars, ioVars, mutex, rpc, hr, sent, args>>
Cycle ==
    /\ part = "cycle" /\ CC!Next
    /\ UNCHANGED <<part, ssVars, tpVars, rkVars, hoVars, cdVars, caVars, trVars,
                   vtVars, ovVars, mtVars, ioVars, pc, mutex, rpc, hr, sent, live, args>>
Services ==
    /\ part = "services" /\ TR!Next
    /\ UNCHANGED <<part, ssVars, tpVars, rkVars, hoVars, cdVars, caVars, ccVars,
                   vtVars, ovVars, mtVars, ioVars, pc, mutex, rpc, hr, sent, live, args>>
Convert ==
    /\ part = "variants" /\ VT!Next
    /\ UNCHANGED <<part, ssVars, tpVars, rkVars, hoVars, cdVars, caVars, ccVars,
                   trVars, ovVars, mtVars, ioVars, pc, mutex, rpc, hr, sent, live, args>>
Option ==
    /\ part = "options" /\ OV!Next
    /\ UNCHANGED <<part, ssVars, tpVars, rkVars, hoVars, cdVars, caVars, ccVars,
                   trVars, vtVars, mtVars, ioVars, pc, mutex, rpc, hr, sent, live, args>>
Draw ==
    /\ part = "minitp" /\ MT!Next
    /\ UNCHANGED <<part, ssVars, tpVars, rkVars, hoVars, cdVars, caVars, ccVars,
                   trVars, vtVars, ovVars, ioVars, pc, mutex, rpc, hr, sent, live, args>>
SlaveInOut ==
    /\ part = "slaveio" /\ IO!Next
    /\ UNCHANGED <<part, ssVars, tpVars, rkVars, hoVars, cdVars, caVars, ccVars,
                   trVars, vtVars, ovVars, mtVars, pc, mutex, rpc, hr, live>>

Next ==
    \/ Session \/ Pendant \/ Robotalk \/ HandOver \/ Codec \/ Calls
    \/ Cycle \/ Services \/ Convert \/ Option \/ Draw \/ SlaveInOut

\* The fairness of each component.
ofSession == SS!vars
ofPendant == TP!vars
ofHandoff == HO!vars
Fairness ==
    /\ WF_ofSession(part = "session" /\ SS!ServerClosed)
    /\ WF_ofSession(part = "session" /\ SS!AcceptThread)
    /\ \A n \in Nodes :
         /\ WF_ofSession(part = "session" /\ SS!RecvThread(n))
         /\ WF_ofSession(part = "session" /\ SS!Exec(n))
         /\ SF_ofSession(part = "session" /\ SS!Destroy(n))
    /\ WF_ofPendant(part = "pendant" /\ TP!Main)
    /\ WF_ofPendant(part = "pendant" /\ TP!RecvThread)
    /\ WF_ofPendant(part = "pendant" /\ TP!TimerThread)
    /\ WF_ofPendant(part = "pendant" /\ TP!AppDone)
    /\ SF_ofPendant(part = "pendant" /\ TP!RecvLock)
    /\ SF_ofPendant(part = "pendant" /\ TP!TimerLock)
    /\ WF_ofHandoff(part = "handoff" /\ HO!RecvThread)
    /\ WF_ofHandoff(part = "handoff" /\ HO!ExecThread)
    /\ \A e \in HO!Waited : WF_ofHandoff(part = "handoff" /\ HO!Waiter(e))

Spec == Init /\ [][Next]_vars /\ Fairness
-----------------------------------------------------------------------------
\* The type invariant of each component.  That of the calls also says that no
\* function of the service reads an argument its client did not send.
TypesOK ==
    /\ part = "session" => SS!TypeOK
    /\ part = "pendant" => TP!TypeOK
    /\ part = "robotalk" => RK!TypeOK
    /\ part = "handoff" => HO!TypeOK
    /\ part = "codec" => CD!TypeOK
    /\ part = "calls" => CA!TypeOK
    /\ part = "cycle" => CC!TypeOK
    /\ part = "services" => TR!TypeOK
    /\ part = "variants" => VT!TypeOK
    /\ part = "options" => OV!TypeOK
    /\ part = "minitp" => MT!TypeOK
    /\ part = "slaveio" => IO!TypeOK

\* bCap_Close_Server comes to its end whatever its clients do, and the node of a
\* client that is gone is unlinked and freed, so its slot of client_max is there
\* for another: every receiving thread is joined, each after its own child
\* (recv_thread, accept_thread).
SessionsEnd ==
    \A n \in Nodes :
      part = "session" /\ (server = "closing" \/ (n \in alloc /\ ~open[n]))
        ~> part = "session" /\ server # "closing" /\ n \notin alloc

\* TPComm_Close returns: timer_thread, which may wait for evt without a limit, is
\* woken by recv_thread, which ends after it.  And timer_thread, which resets evt
\* without the mutex when recv_thread may have signalled the answer already, goes
\* on all the same.  Exception: a flag that another thread's store to the same
\* byte undid, which the bit-fields allow.
PendantThreadsGoOn ==
    part = "pendant" /\ (tpc = "wait" \/ main \in {"join timer", "join recv"})
      ~> (tpc # "wait" /\ main \notin {"join timer", "join recv"}) \/ undone = TRUE

\* A request that is handed over is executed and waited for no longer, unless
\* the connection ends: wait_event_multi loses no signal between the threads.
RequestCompletes ==
    part = "handoff" /\ rpc = "wait"
      ~> part = "handoff" /\ {"comp_evt", "term_sub_evt"} \cap signal # {}

\* A VARIANT that is converted keeps its number or reports the overflow, and what
\* bcap_service passes on as a text is read as the same (exceptions: Variants).
\* The option asked for is read out of the list, never out of the value of
\* another, and a string that is cut short gives no other value (GetOptionValue).
ValuesKept ==
    /\ part = "variants" => VT!ValuesKept
    /\ part = "options" => OV!OptionFound
=============================================================================
