------------------------------- MODULE BcapCalls -------------------------------
(***************************************************************************)
(* bcap_service: a call of the ROS service bcap_service names a b-CAP      *)
(* function by its identifier and brings its arguments; ExecFunction       *)
(* passes them to the function of the b-CAP client library of that name,   *)
(* which builds the packet with the variadic invoke_function, from a       *)
(* format string that no compiler compares with the arguments passed.      *)
(* For every object of the controller it opens the service keeps how to    *)
(* release it (m_vecKH), and releases what is left when it disconnects.    *)
(*                                                                         *)
(* The functions of the client library and the calls of them are two       *)
(* tables, by the class of the object called.  lVal and ulVal, VT_I4 and   *)
(* VT_UI4, are the same four bytes here.                                   *)
(***************************************************************************)
EXTENDS Naturals, Sequences, SequencesExt, FiniteSetsExt, TLC

CONSTANTS
    Opening,    \* the functions used to open objects
    Handles,    \* what the controller uses as handles
    ObjectsMax  \* bound: objects listed and objects there

VARIABLES
    m_fd,       \* the connection of the client library, 0 for none
    m_vecKH,    \* the objects to release: <<release function, handle>>
    live,       \* the objects the controller has, the same way
    unsure,     \* those of a call without a clear answer (history)
    garbled,    \* the functions called with other arguments than given
    pc          \* "start", "serve", "stop" or "end"

vars == <<m_fd, m_vecKH, live, unsure, garbled, pc>>

-----------------------------------------------------------------------------
(* What the functions take and return *)

Op(in, out) == [in |-> in, out |-> out]
Get(out) == Op(<<"I4">>, out)
Do(in) == Op(<<"I4">> \o in, "none")
Put == Do(<<"VARIANT">>)
Names == Op(<<"I4", "BSTR">>, "VARIANT")
Open == Op(<<"I4", "BSTR", "BSTR">>, "I4")
Execute == Op(<<"I4", "BSTR", "VARIANT">>, "VARIANT")

(* The format strings of the client library *)

\* The functions that every class but the messages has.
CommonFormats ==
    [GETATTRIBUTE |-> Get("I4"), GETHELP |-> Get("BSTR"), GETNAME |-> Get("BSTR"),
     GETTAG |-> Get("VARIANT"), PUTTAG |-> Put, GETID |-> Get("VARIANT"), PUTID |-> Put]

ControllerFormats == CommonFormats @@
    [CONNECT |-> Op(<<"BSTR", "BSTR", "BSTR", "BSTR">>, "I4"), DISCONNECT |-> Do(<<>>),
     GETEXTENSION |-> Open, GETFILE |-> Open, GETROBOT |-> Open, GETTASK |-> Open,
     GETVARIABLE |-> Open, GETCOMMAND |-> Open, GETMESSAGE |-> Get("I4"),
     GETEXTENSIONNAMES |-> Names, GETFILENAMES |-> Names, GETROBOTNAMES |-> Names,
     GETTASKNAMES |-> Names, GETVARIABLENAMES |-> Names, GETCOMMANDNAMES |-> Names,
     EXECUTE |-> Execute]

ExtensionFormats == CommonFormats @@
    [GETVARIABLE |-> Open, GETVARIABLENAMES |-> Names, EXECUTE |-> Execute,
     RELEASE |-> Do(<<>>)]

FileFormats == CommonFormats @@
    [GETFILE |-> Open, GETVARIABLE |-> Open, GETFILENAMES |-> Names,
     GETVARIABLENAMES |-> Names, EXECUTE |-> Execute, COPY |-> Do(<<"BSTR", "BSTR">>),
     DELETE |-> Do(<<"BSTR">>), MOVE |-> Do(<<"BSTR", "BSTR">>),
     RUN |-> Op(<<"I4", "BSTR">>, "BSTR"), GETDATECREATED |-> Get("VARIANT"),
     GETDATELASTACCESSED |-> Get("VARIANT"), GETDATELASTMODIFIED |-> Get("VARIANT"),
     GETPATH |-> Get("BSTR"), GETSIZE |-> Get("I4"), GETTYPE |-> Get("BSTR"),
     GETVALUE |-> Get("VARIANT"), PUTVALUE |-> Put, RELEASE |-> Do(<<>>)]

RobotFormats == CommonFormats @@
    [GETVARIABLE |-> Open, GETVARIABLENAMES |-> Names, EXECUTE |-> Execute,
     ACCELERATE |-> Do(<<"I4", "R4", "R4">>), CHANGE |-> Do(<<"BSTR">>),
     CHUCK |-> Do(<<"BSTR">>), DRIVE |-> Do(<<"I4", "R4", "BSTR">>),
     GOHOME |-> Do(<<>>), HALT |-> Do(<<"BSTR">>), HOLD |-> Do(<<"BSTR">>),
     MOVE |-> Do(<<"I4", "VARIANT", "BSTR">>),
     ROTATE |-> Do(<<"VARIANT", "R4", "VARIANT", "BSTR">>),
     SPEED |-> Do(<<"I4", "R4">>), UNCHUCK |-> Do(<<"BSTR">>),
     UNHOLD |-> Do(<<"BSTR">>), RELEASE |-> Do(<<>>)]

TaskFormats == CommonFormats @@
    [GETVARIABLE |-> Open, GETVARIABLENAMES |-> Names, EXECUTE |-> Execute,
     START |-> Do(<<"I4", "BSTR">>), STOP |-> Do(<<"I4", "BSTR">>),
     DELETE |-> Do(<<"BSTR">>), GETFILENAME |-> Get("BSTR"), RELEASE |-> Do(<<>>)]

VariableFormats == CommonFormats @@
    [GETDATETIME |-> Get("VARIANT"), GETVALUE |-> Get("VARIANT"), PUTVALUE |-> Put,
     GETMICROSECOND |-> Get("I4"), RELEASE |-> Do(<<>>)]

CommandFormats == CommonFormats @@
    [EXECUTE |-> Op(<<"I4", "I4">>, "VARIANT"), CANCEL |-> Do(<<>>),
     GETTIMEOUT |-> Get("I4"), PUTTIMEOUT |-> Do(<<"I4">>), GETSTATE |-> Get("I4"),
     GETPARAMETERS |-> Get("VARIANT"), PUTPARAMETERS |-> Put,
     GETRESULT |-> Get("VARIANT"), RELEASE |-> Do(<<>>)]

MessageFormats ==
    [REPLY |-> Put, CLEAR |-> Do(<<>>), GETDATETIME |-> Get("VARIANT"),
     GETDESCRIPTION |-> Get("BSTR"), GETDESTINATION |-> Get("BSTR"),
     GETNUMBER |-> Get("I4"), GETSERIALNUMBER |-> Get("I4"), GETSOURCE |-> Get("BSTR"),
     GETVALUE |-> Get("VARIANT"), RELEASE |-> Do(<<>>)]

Formats == [Controller |-> ControllerFormats, Extension |-> ExtensionFormats,
            File |-> FileFormats, Robot |-> RobotFormats, Task |-> TaskFormats,
            Variable |-> VariableFormats, Command |-> CommandFormats,
            Message |-> MessageFormats]

(* The calls of ExecFunction: the members of the arguments that it passes *)

CommonCalls ==
    [GETATTRIBUTE |-> Get("I4"), GETHELP |-> Get("BSTR"), GETNAME |-> Get("BSTR"),
     GETTAG |-> Get("VARIANT"), PUTTAG |-> Put, GETID |-> Get("VARIANT"), PUTID |-> Put]

ControllerCalls == CommonCalls
    @@ [f \in {"GETEXTENSION", "GETFILE", "GETROBOT", "GETTASK", "GETVARIABLE",
               "GETCOMMAND"} |-> Open]
    @@ [f \in {"GETEXTENSIONNAMES", "GETFILENAMES", "GETROBOTNAMES", "GETTASKNAMES",
               "GETVARIABLENAMES", "GETCOMMANDNAMES"} |-> Names]
    @@ [CONNECT |-> Op(<<"BSTR", "BSTR", "BSTR", "BSTR">>, "I4"), DISCONNECT |-> Do(<<>>),
        EXECUTE |-> Execute, GETMESSAGE |-> Get("I4")]

ExtensionCalls == CommonCalls @@
    [GETVARIABLE |-> Open, GETVARIABLENAMES |-> Names, EXECUTE |-> Execute,
     RELEASE |-> Do(<<>>)]

FileCalls == CommonCalls
    @@ [f \in {"GETFILE", "GETVARIABLE"} |-> Open]
    @@ [f \in {"GETFILENAMES", "GETVARIABLENAMES"} |-> Names]
    @@ [f \in {"COPY", "MOVE"} |-> Do(<<"BSTR", "BSTR">>)]
    @@ [f \in {"GETDATECREATED", "GETDATELASTACCESSED", "GETDATELASTMODIFIED",
               "GETVALUE"} |-> Get("VARIANT")]
    @@ [EXECUTE |-> Execute, DELETE |-> Do(<<"BSTR">>), RUN |-> Op(<<"I4", "BSTR">>, "BSTR"),
        GETPATH |-> Get("BSTR"), GETSIZE |-> Get("I4"), GETTYPE |-> Get("BSTR"),
        PUTVALUE |-> Put, RELEASE |-> Do(<<>>)]

RobotCalls == CommonCalls
    @@ [f \in {"CHANGE", "CHUCK", "HALT", "HOLD", "UNCHUCK", "UNHOLD"} |-> Do(<<"BSTR">>)]
    @@ [f \in {"GOHOME", "RELEASE"} |-> Do(<<>>)]
    @@ [GETVARIABLE |-> Open, GETVARIABLENAMES |-> Names, EXECUTE |-> Execute,
        ACCELERATE |-> Do(<<"I4", "R4", "R4">>), DRIVE |-> Do(<<"I4", "R4", "BSTR">>),
        MOVE |-> Do(<<"I4", "VARIANT", "BSTR">>), SPEED |-> Do(<<"I4", "R4">>),
        ROTATE |-> Do(<<"VARIANT", "R4", "VARIANT", "BSTR">>)]

TaskCalls == CommonCalls
    @@ [f \in {"START", "STOP"} |-> Do(<<"I4", "BSTR">>)]
    @@ [GETVARIABLE |-> Open, GETVARIABLENAMES |-> Names, EXECUTE |-> Execute,
        DELETE |-> Do(<<"BSTR">>), GETFILENAME |-> Get("BSTR"), RELEASE |-> Do(<<>>)]

VariableCalls == CommonCalls
    @@ [f \in {"GETDATETIME", "GETVALUE"} |-> Get("VARIANT")]
    @@ [PUTVALUE |-> Put, GETMICROSECOND |-> Get("I4"), RELEASE |-> Do(<<>>)]

CommandCalls == CommonCalls
    @@ [f \in {"CANCEL", "RELEASE"} |-> Do(<<>>)]
    @@ [f \in {"GETTIMEOUT", "GETSTATE"} |-> Get("I4")]
    @@ [f \in {"GETPARAMETERS", "GETRESULT"} |-> Get("VARIANT")]
    @@ [EXECUTE |-> Op(<<"I4", "I4">>, "VARIANT"), PUTTIMEOUT |-> Do(<<"I4">>),
        PUTPARAMETERS |-> Put]

MessageCalls ==
    [f \in {"GETDESCRIPTION", "GETDESTINATION", "GETSOURCE"} |-> Get("BSTR")]
    @@ [f \in {"GETNUMBER", "GETSERIALNUMBER"} |-> Get("I4")]
    @@ [f \in {"GETDATETIME", "GETVALUE"} |-> Get("VARIANT")]
    @@ [f \in {"CLEAR", "RELEASE"} |-> Do(<<>>)]
    @@ [REPLY |-> Put]

Calls == [Controller |-> ControllerCalls, Extension |-> ExtensionCalls,
          File |-> FileCalls, Robot |-> RobotCalls, Task |-> TaskCalls,
          Variable |-> VariableCalls, Command |-> CommandCalls, Message |-> MessageCalls]

\* Slip: a task is released as a robot.
OpensTaskAsRobot == [GETEXTENSION |-> "Extension", GETFILE |-> "File", GETROBOT |-> "Robot",
    GETTASK |-> "Robot", GETVARIABLE |-> "Variable", GETCOMMAND |-> "Command",
    GETMESSAGE |-> "Message", CONNECT |-> "Controller"]

\* The class as whose object the one a function opens will be released
\* (tmpKH.first), whatever the function is called on.
Opens == [GETEXTENSION |-> "Extension", GETFILE |-> "File", GETROBOT |-> "Robot",
    GETTASK |-> "Task", GETVARIABLE |-> "Variable", GETCOMMAND |-> "Command",
    GETMESSAGE |-> "Message", CONNECT |-> "Controller"]

\* The class the object has in the controller.
Made == {<<"GETEXTENSION", "Extension">>, <<"GETFILE", "File">>, <<"GETROBOT", "Robot">>,
    <<"GETTASK", "Task">>, <<"GETVARIABLE", "Variable">>, <<"GETCOMMAND", "Command">>,
    <<"GETMESSAGE", "Message">>, <<"CONNECT", "Controller">>}

Releases(class, f) == f = "RELEASE" \/ (class = "Controller" /\ f = "DISCONNECT")
-----------------------------------------------------------------------------
Init ==
    /\ m_fd = 0 /\ m_vecKH = <<>> /\ live = {} /\ unsure = {} /\ garbled = {}
    /\ pc = "start"

\* Connect: opens the connection and starts the service of the controller.
Connect ==
    /\ pc = "start"
    /\ \/ m_fd' = 1 /\ pc' = "serve"
       \/ m_fd' = 1 /\ pc' = "stop"      \* ServiceStart fails
       \/ m_fd' = 0 /\ pc' = "stop"
    /\ UNCHANGED <<m_vecKH, live, unsure, garbled>>

\* Without enough arguments in the request nothing is called (DISP_E_BADINDEX);
\* otherwise invoke_function reads the passed ones as the format says.
Invoke(class, functions) ==
    garbled' = garbled \union
        {<<class, f>> : f \in {g \in functions : Calls[class][g] # Formats[class][g]}}

Plain(class) == {f \in DOMAIN Calls[class] : f \notin DOMAIN Opens /\ ~Releases(class, f)}

\* Calls of the functions of a class that neither open nor release an object: one
\* step for all of them, since nothing here depends on their order.
CallPlain(class) ==
    /\ pc = "serve"
    /\ Invoke(class, Plain(class))
    /\ UNCHANGED <<m_fd, m_vecKH, live, unsure, pc>>

\* The new object is listed when the answer is S_OK, and only then: after an
\* error or another success it may be there without.
CallOpen(class, f) ==
    /\ pc = "serve"
    /\ <<class, f>> \in Opening
    /\ Invoke(class, {f})
    /\ \E h \in Handles, made \in {m[2] : m \in {x \in Made : x[1] = f}} :
         LET object == <<made, h>>
         IN /\ object \notin live
            /\ Len(m_vecKH) < ObjectsMax /\ Cardinality(live) < ObjectsMax
            /\ live' = live \union {object}
            /\ \/ m_vecKH' = Append(m_vecKH, <<Opens[f], h>>) /\ UNCHANGED unsure
               \/ unsure' = unsure \union {object} /\ UNCHANGED m_vecKH
    /\ UNCHANGED <<m_fd, pc>>

\* The object is forgotten when the answer is S_OK, unless its handle is 0;
\* without that answer it may be gone.
CallRelease(class, f) ==
    /\ pc = "serve"
    /\ Releases(class, f)
    /\ Invoke(class, {f})
    /\ \E h \in Handles :
         LET object == <<class, h>>
         IN /\ object \in live
            /\ live' = live \ {object}
            /\ \/ /\ m_vecKH' = IF h > 0 THEN RemoveFirst(m_vecKH, object) ELSE m_vecKH
                  /\ UNCHANGED unsure
               \/ unsure' = unsure \union {object} /\ UNCHANGED m_vecKH
    /\ UNCHANGED <<m_fd, pc>>

StopService ==
    /\ pc = "serve" /\ pc' = "stop"
    /\ UNCHANGED <<m_fd, m_vecKH, live, unsure, garbled>>

\* Every listed object is released as what it is listed, whether or not the
\* controller answers; without a connection the list stays.
Disconnect ==
    /\ pc = "stop" /\ pc' = "end"
    /\ IF m_fd > 0
         THEN /\ \E released \in SUBSET Range(m_vecKH) : live' = live \ released
              /\ m_vecKH' = <<>> /\ m_fd' = 0
         ELSE UNCHANGED <<m_fd, m_vecKH, live>>
    /\ UNCHANGED <<unsure, garbled>>

Next ==
    \/ Connect \/ StopService \/ Disconnect
    \/ \E class \in DOMAIN Calls :
         \/ CallPlain(class)
         \/ \E f \in DOMAIN Calls[class] : CallOpen(class, f) \/ CallRelease(class, f)

Spec == Init /\ [][Next]_vars
-----------------------------------------------------------------------------
\* With it: what the service passes is what the format makes invoke_function
\* read, for every function.
TypeOK ==
    /\ m_fd \in {0, 1} /\ pc \in {"start", "serve", "stop", "end"}
    /\ live \subseteq (DOMAIN Calls) \X Handles /\ unsure \subseteq (DOMAIN Calls) \X Handles
    /\ Range(m_vecKH) \subseteq (DOMAIN Calls) \X Handles
    /\ garbled = {}

\* While it serves, the service will release every object it was told of, and
\* nothing else: what the list and the controller do not share is of calls that
\* had no clear answer, and no object is listed twice without one.
ObjectsListed ==
    pc = "serve" =>
      /\ live \ unsure \subseteq Range(m_vecKH)
      /\ Range(m_vecKH) \ live \subseteq unsure
      /\ \A i, j \in DOMAIN m_vecKH :
           i # j /\ m_vecKH[i] = m_vecKH[j] => m_vecKH[i] \in unsure
=============================================================================
