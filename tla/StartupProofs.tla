----------------------------- MODULE StartupProofs -----------------------------
(***************************************************************************)
(* Proofs about the start-up, for any number of processes and threads, of  *)
(* launches and of edits.                                                  *)
(***************************************************************************)
EXTENDS Startup, SequenceTheorems, TLAPS

Setup == {"read", "create", "write", "logger"}
Past  == {"lazy", "register", "ready"}

Typed ==
  /\ running \in [Processes -> BOOLEAN]
  /\ pc \in [Threads -> {"outside", "once"} \cup Setup \cup Past]
  /\ once \in [Processes -> {"new", "busy", "done"}]
  /\ lazy \in [Processes -> {"new", "busy", "done"}]
  /\ config \in [Processes -> Valid \cup {None}]
  /\ loggers \in [Processes -> Nat]
  /\ command \in [Processes -> {None, "Joystick", "GamePad"}]
  /\ replied \in [Processes -> BOOLEAN]
  /\ registered \in [Processes -> {<<>>, <<"Joystick">>, DeviceTypes}]

(* A process that ended has no thread in dhc.                              *)
NobodyLeft == \A t \in Threads : ~running[ProcessOf[t]] => pc[t] = "outside"

(* ONCE: at most one thread is at the set-up, and it has been done by the  *)
(* time anybody is past it.                                                *)
OnceWorks ==
  /\ \A p \in Processes :
       /\ once[p] # "done" => loggers[p] = 0
       /\ once[p] = "done" => loggers[p] = 1 /\ config[p] # None
  /\ \A t \in Threads :
       /\ pc[t] \in Setup => once[ProcessOf[t]] = "busy"
       /\ pc[t] = "logger" => config[ProcessOf[t]] # None
       /\ pc[t] \in Past => once[ProcessOf[t]] = "done"
  /\ \A t, u \in Threads :
       pc[t] \in Setup /\ pc[u] \in Setup /\ ProcessOf[t] = ProcessOf[u] => t = u

(* Where the registration of the types is: a type is to be asked for, has  *)
(* been asked for, or was registered and replied to.                       *)
Registering(p) ==
  \/ command[p] = None /\ ~replied[p] /\ registered[p] # DeviceTypes
  \/ command[p] = "Joystick" /\ ~replied[p] /\ registered[p] = <<>>
  \/ command[p] = "GamePad" /\ ~replied[p] /\ registered[p] = <<"Joystick">>
  \/ command[p] # None /\ replied[p] /\ registered[p] # <<>>

(* CONTEXT: one thread makes it, and it is complete when it is there.      *)
LazyWorks ==
  /\ \A p \in Processes :
       /\ lazy[p] = "new"  => command[p] = None /\ ~replied[p] /\ registered[p] = <<>>
       /\ lazy[p] = "busy" => Registering(p)
       /\ lazy[p] = "done" => command[p] = None /\ ~replied[p]
                                /\ registered[p] = DeviceTypes
  /\ \A t \in Threads :
       /\ pc[t] = "register" => lazy[ProcessOf[t]] = "busy"
       /\ pc[t] = "ready" => lazy[ProcessOf[t]] = "done"
  /\ \A t, u \in Threads :
       pc[t] = "register" /\ pc[u] = "register" /\ ProcessOf[t] = ProcessOf[u] => t = u

IInv == Typed /\ NobodyLeft /\ OnceWorks /\ LazyWorks

-----------------------------------------------------------------------------
LEMMA Distinct ==
  /\ None \notin {"default", "users", "Joystick", "GamePad"}
  /\ \A t \in Threads : ProcessOf[t] \in Processes
  <1>1. DeviceTypes[1] = "Joystick" /\ DeviceTypes[2] = "GamePad" /\ DOMAIN DeviceTypes = 1..2
    BY DEF DeviceTypes
  <1>2. "Joystick" \in Range(DeviceTypes) /\ "GamePad" \in Range(DeviceTypes)
    BY <1>1 DEF Range
  <1>3. QED
    BY <1>2, StartupAssumption DEF Contents, Valid

(* The three values of registered, and how it gets from one to the next.   *)
LEMMA TypesInOrder ==
  /\ <<>> # <<"Joystick">> /\ <<>> # DeviceTypes /\ <<"Joystick">> # DeviceTypes
  /\ Append(<<>>, "Joystick") = <<"Joystick">>
  /\ Append(<<"Joystick">>, "GamePad") = DeviceTypes
  /\ DeviceTypes[Len(<<>>) + 1] = "Joystick"
  /\ DeviceTypes[Len(<<"Joystick">>) + 1] = "GamePad"
  /\ Len(<<>>) # Len(DeviceTypes) /\ Len(<<"Joystick">>) # Len(DeviceTypes)
  <1> USE DEF DeviceTypes
  <1>1. Len(<<>>) = 0 /\ Len(<<"Joystick">>) = 1 /\ Len(DeviceTypes) = 2
    OBVIOUS
  <1>2. <<>> # <<"Joystick">> /\ <<>> # DeviceTypes /\ <<"Joystick">> # DeviceTypes
    BY <1>1
  <1>3. Append(<<>>, "Joystick") = <<"Joystick">>
    OBVIOUS
  <1>4. DeviceTypes[1] = "Joystick" /\ DeviceTypes[2] = "GamePad"
    OBVIOUS
  <1>5. Append(<<"Joystick">>, "GamePad") = DeviceTypes
    <2>1. <<"Joystick">> \in Seq({"Joystick", "GamePad"})
      OBVIOUS
    <2>2. /\ Len(Append(<<"Joystick">>, "GamePad")) = 2
          /\ Append(<<"Joystick">>, "GamePad")[1] = "Joystick"
          /\ Append(<<"Joystick">>, "GamePad")[2] = "GamePad"
          /\ Append(<<"Joystick">>, "GamePad") \in Seq({"Joystick", "GamePad"})
      BY <1>1, <2>1
    <2>3. DeviceTypes \in Seq({"Joystick", "GamePad"})
      OBVIOUS
    <2>4. \A i \in 1..2 : Append(<<"Joystick">>, "GamePad")[i] = DeviceTypes[i]
      BY <1>4, <2>2
    <2>5. QED
      BY <1>1, <2>2, <2>3, <2>4, SeqEqual
  <1>6. QED
    BY <1>1, <1>2, <1>3, <1>4, <1>5

LEMMA InitIInv == Init => IInv
  BY Distinct, TypesInOrder
  DEF Init, IInv, Typed, NobodyLeft, OnceWorks, LazyWorks, Setup, Past

LEMMA LaunchIInv ==
  ASSUME IInv, NEW p \in Processes, Launch(p)
  PROVE  IInv'
  <1>1. \A t \in Threads : ProcessOf[t] = p => pc[t] = "outside"
    BY DEF Launch, IInv, NobodyLeft
  <1>2. Typed'
    BY DEF Launch, IInv, Typed
  <1>3. NobodyLeft'
    BY <1>1 DEF Launch, IInv, Typed, NobodyLeft
  <1>4. OnceWorks'
    BY <1>1, Distinct DEF Launch, IInv, Typed, OnceWorks, Setup, Past
  <1>5. LazyWorks'
    BY <1>1, Distinct DEF Launch, IInv, Typed, LazyWorks, Registering
  <1>6. QED
    BY <1>2, <1>3, <1>4, <1>5 DEF IInv

LEMMA DieIInv ==
  ASSUME IInv, NEW p \in Processes, NEW why, Die(p, why)
  PROVE  IInv'
  <1>1. \A t \in Threads : pc'[t] = IF ProcessOf[t] = p THEN "outside" ELSE pc[t]
    BY DEF Die
  <1>2. Typed'
    BY DEF Die, state, IInv, Typed
  <1>3. NobodyLeft'
    BY <1>1, Distinct DEF Die, IInv, Typed, NobodyLeft
  <1>4. OnceWorks'
    BY <1>1 DEF Die, state, IInv, OnceWorks, Setup, Past
  <1>5. LazyWorks'
    BY <1>1 DEF Die, state, IInv, LazyWorks, Registering
  <1>6. QED
    BY <1>2, <1>3, <1>4, <1>5 DEF IInv

(* What the actions that change neither a process nor a static keep.       *)
LEMMA QuietIInv ==
  ASSUME IInv, UNCHANGED <<process, pc, state>>
  PROVE  IInv'
  BY DEF process, state, IInv, Typed, NobodyLeft, OnceWorks, LazyWorks, Registering

(* A thread goes from one place of the set-up to the next.                 *)
LEMMA SetupIInv ==
  ASSUME IInv, NEW t \in Threads, NEW a \in Setup, NEW b \in Setup,
         At(t, a), Goto(t, b),
         UNCHANGED <<process, once, lazy, loggers, command, replied, registered>>,
         \/ UNCHANGED config /\ b # "logger"
         \/ \E c \in Valid : config' = [config EXCEPT ![ProcessOf[t]] = c]
  PROVE  IInv'
  <1> DEFINE p == ProcessOf[t]
  <1>0. p \in Processes /\ running[p] /\ pc[t] = a
    BY Distinct DEF At
  <1>1. pc' = [pc EXCEPT ![t] = b]
    BY DEF Goto
  <1>2. \A q \in Processes : config'[q] # config[q] => q = p
    BY DEF IInv, Typed
  <1>3. config' \in [Processes -> Valid \cup {None}]
        /\ (b = "logger" => config'[p] # None)
        /\ (\A q \in Processes : config[q] # None => config'[q] # None)
    BY <1>0, Distinct DEF IInv, Typed, Valid
  <1>4. Typed'
    BY <1>1, <1>3 DEF process, IInv, Typed
  <1>5. NobodyLeft'
    BY <1>0, <1>1 DEF process, IInv, Typed, NobodyLeft
  <1>6. OnceWorks'
    BY <1>0, <1>1, <1>3, Distinct DEF IInv, Typed, OnceWorks, Setup, Past
  <1>7. LazyWorks'
    BY <1>0, <1>1 DEF IInv, Typed, LazyWorks, Registering, Setup
  <1>8. QED
    BY <1>4, <1>5, <1>6, <1>7 DEF IInv

-----------------------------------------------------------------------------
LEMMA EnterIInv ==
  ASSUME IInv, NEW t \in Threads, Enter(t)
  PROVE  IInv'
  <1>1. running[ProcessOf[t]] /\ pc' = [pc EXCEPT ![t] = "once"]
    BY DEF Enter, At, Goto
  <1>2. Typed' /\ NobodyLeft'
    BY <1>1 DEF Enter, process, state, IInv, Typed, NobodyLeft
  <1>3. OnceWorks'
    BY <1>1 DEF Enter, state, IInv, Typed, OnceWorks, Setup, Past
  <1>4. LazyWorks'
    BY <1>1 DEF Enter, state, IInv, Typed, LazyWorks, Registering
  <1>5. QED
    BY <1>2, <1>3, <1>4 DEF IInv

LEMMA CallOnceIInv ==
  ASSUME IInv, NEW t \in Threads, CallOnce(t)
  PROVE  IInv'
  <1> DEFINE p == ProcessOf[t]
  <1>0. p \in Processes /\ running[p] /\ pc[t] = "once"
    BY Distinct DEF CallOnce, At
  <1>1. CASE once[p] = "done" /\ Goto(t, "lazy") /\ UNCHANGED once
    <2>1. pc' = [pc EXCEPT ![t] = "lazy"]
      BY <1>1 DEF Goto
    <2>2. Typed' /\ NobodyLeft'
      BY <1>0, <1>1, <2>1 DEF CallOnce, process, IInv, Typed, NobodyLeft, Past
    <2>3. OnceWorks'
      BY <1>0, <1>1, <2>1 DEF CallOnce, IInv, Typed, OnceWorks, Setup, Past
    <2>4. LazyWorks'
      BY <1>0, <2>1 DEF CallOnce, IInv, Typed, LazyWorks, Registering
    <2>5. QED
      BY <2>2, <2>3, <2>4 DEF IInv
  <1>2. CASE once[p] = "new" /\ Goto(t, "read") /\ once' = [once EXCEPT ![p] = "busy"]
    <2>1. pc' = [pc EXCEPT ![t] = "read"]
      BY <1>2 DEF Goto
    <2>2. Typed' /\ NobodyLeft'
      BY <1>0, <1>2, <2>1 DEF CallOnce, process, IInv, Typed, NobodyLeft, Setup
    <2>3. \A u \in Threads : ProcessOf[u] = p => pc[u] \notin Setup \cup Past
      BY <1>2 DEF IInv, OnceWorks
    <2>4. OnceWorks'
      BY <1>0, <1>2, <2>1, <2>3, Distinct DEF CallOnce, IInv, Typed, OnceWorks, Setup, Past
    <2>5. LazyWorks'
      BY <1>0, <2>1 DEF CallOnce, IInv, Typed, LazyWorks, Registering
    <2>6. QED
      BY <2>2, <2>4, <2>5 DEF IInv
  <1>3. QED
    BY <1>1, <1>2 DEF CallOnce

LEMMA ConfigIInv ==
  ASSUME IInv, NEW t \in Threads, ReadConfig(t) \/ TruncateConfig(t) \/ WriteConfig(t)
  PROVE  IInv'
  <1>0. ProcessOf[t] \in Processes
    BY Distinct
  <1>1. CASE ReadConfig(t)
    <2>1. CASE Die(ProcessOf[t], "config")
      BY <1>0, <2>1, DieIInv
    <2>2. CASE /\ Parses(file) /\ config' = [config EXCEPT ![ProcessOf[t]] = file]
               /\ Goto(t, "logger")
               /\ UNCHANGED <<process, once, lazy, loggers, command, replied, registered>>
      BY <1>1, <2>2, SetupIInv DEF ReadConfig, Parses, Setup
    <2>3. CASE Goto(t, "create") /\ UNCHANGED <<process, state>>
      BY <1>1, <2>3, SetupIInv DEF ReadConfig, Setup, state
    <2>4. QED
      BY <1>1, <2>1, <2>2, <2>3 DEF ReadConfig
  <1>2. CASE TruncateConfig(t)
    <2>1. CASE Die(ProcessOf[t], "config")
      BY <1>0, <2>1, DieIInv
    <2>2. CASE Goto(t, "write") /\ UNCHANGED <<process, state>>
      BY <1>2, <2>2, SetupIInv DEF TruncateConfig, Setup, state
    <2>3. QED
      BY <1>2, <2>1, <2>2 DEF TruncateConfig
  <1>3. CASE WriteConfig(t)
    BY <1>3, SetupIInv DEF WriteConfig, Setup, Valid
  <1>4. QED
    BY <1>1, <1>2, <1>3

LEMMA InitLoggerIInv ==
  ASSUME IInv, NEW t \in Threads, InitLogger(t)
  PROVE  IInv'
  <1> DEFINE p == ProcessOf[t]
  <1>0. p \in Processes /\ running[p] /\ pc[t] = "logger"
    BY Distinct DEF InitLogger, At
  <1>1. CASE Die(p, "logger")
    BY <1>0, <1>1, DieIInv
  <1>2. CASE /\ loggers' = [loggers EXCEPT ![p] = @ + 1]
             /\ once' = [once EXCEPT ![p] = "done"]
             /\ Goto(t, "lazy")
             /\ UNCHANGED <<process, lazy, config, command, replied, registered>>
    <2>1. pc' = [pc EXCEPT ![t] = "lazy"]
      BY <1>2 DEF Goto
    <2>2. once[p] = "busy" /\ config[p] # None
      BY <1>0 DEF IInv, OnceWorks, Setup
    <2>3. loggers[p] = 0
      BY <1>0, <2>2 DEF IInv, OnceWorks
    <2>4. \A u \in Threads : ProcessOf[u] = p /\ u # t => pc[u] \notin Setup \cup Past
      BY <1>0, <2>2 DEF IInv, OnceWorks, Setup
    <2>5. loggers' = [loggers EXCEPT ![p] = 1]
      BY <1>2, <2>3
    <2>6. Typed' /\ NobodyLeft'
      BY <1>0, <1>2, <2>1, <2>5 DEF process, IInv, Typed, NobodyLeft, Past
    <2>7. OnceWorks'
      BY <1>0, <1>2, <2>1, <2>2, <2>4, <2>5, Distinct DEF IInv, Typed, OnceWorks, Setup, Past
    <2>8. LazyWorks'
      BY <1>0, <1>2, <2>1 DEF IInv, Typed, LazyWorks, Registering
    <2>9. QED
      BY <2>6, <2>7, <2>8 DEF IInv
  <1>3. QED
    BY <1>1, <1>2 DEF InitLogger

-----------------------------------------------------------------------------
LEMMA ForceContextIInv ==
  ASSUME IInv, NEW t \in Threads, ForceContext(t)
  PROVE  IInv'
  <1> DEFINE p == ProcessOf[t]
  <1>0. p \in Processes /\ running[p] /\ pc[t] = "lazy"
    BY Distinct DEF ForceContext, At
  <1>1. CASE lazy[p] = "done" /\ Goto(t, "ready") /\ UNCHANGED lazy
    <2>1. pc' = [pc EXCEPT ![t] = "ready"]
      BY <1>1 DEF Goto
    <2>2. Typed' /\ NobodyLeft'
      BY <1>0, <1>1, <2>1 DEF ForceContext, process, IInv, Typed, NobodyLeft, Past
    <2>3. OnceWorks'
      BY <1>0, <2>1 DEF ForceContext, IInv, Typed, OnceWorks, Setup, Past
    <2>4. LazyWorks'
      BY <1>0, <1>1, <2>1 DEF ForceContext, IInv, Typed, LazyWorks, Registering
    <2>5. QED
      BY <2>2, <2>3, <2>4 DEF IInv
  <1>2. CASE lazy[p] = "new" /\ Goto(t, "register") /\ lazy' = [lazy EXCEPT ![p] = "busy"]
    <2>1. pc' = [pc EXCEPT ![t] = "register"]
      BY <1>2 DEF Goto
    <2>2. Typed' /\ NobodyLeft'
      BY <1>0, <1>2, <2>1 DEF ForceContext, process, IInv, Typed, NobodyLeft, Past
    <2>3. OnceWorks'
      BY <1>0, <2>1 DEF ForceContext, IInv, Typed, OnceWorks, Setup, Past
    <2>4. \A u \in Threads : ProcessOf[u] = p => pc[u] \notin {"register", "ready"}
      BY <1>2 DEF IInv, LazyWorks
    <2>5. LazyWorks'
      BY <1>0, <1>2, <2>1, <2>4, Distinct, TypesInOrder
      DEF ForceContext, IInv, Typed, LazyWorks, Registering
    <2>6. QED
      BY <2>2, <2>3, <2>5 DEF IInv
  <1>3. QED
    BY <1>1, <1>2 DEF ForceContext

LEMMA SendRegisterIInv ==
  ASSUME IInv, NEW t \in Threads, SendRegister(t)
  PROVE  IInv'
  <1> DEFINE p == ProcessOf[t]
             c == DeviceTypes[Len(registered[p]) + 1]
  <1>0. p \in Processes /\ pc[t] = "register" /\ command[p] = None
    BY Distinct DEF SendRegister, At
  <1>1. lazy[p] = "busy"
    BY <1>0 DEF IInv, LazyWorks
  <1>2. command[p] = None => ~ (command[p] = "Joystick") /\ ~ (command[p] = "GamePad")
    BY Distinct
  <1>3. CASE ~replied[p] /\ registered[p] # DeviceTypes
    <2>1. \/ registered[p] = <<>> /\ c = "Joystick"
          \/ registered[p] = <<"Joystick">> /\ c = "GamePad"
      BY <1>0, <1>3, TypesInOrder DEF IInv, Typed
    <2>2. command' = [command EXCEPT ![p] = c]
      BY DEF SendRegister
    <2>3. Typed'
      <3>1. c \in {None, "Joystick", "GamePad"}
        BY <2>1
      <3>2. command' \in [Processes -> {None, "Joystick", "GamePad"}]
        <4> HIDE DEF c
        <4>1. QED
          BY <2>2, <3>1 DEF IInv, Typed
      <3>3. QED
        BY <3>2 DEF SendRegister, process, IInv, Typed
    <2>4. NobodyLeft' /\ OnceWorks'
      BY DEF SendRegister, process, IInv, NobodyLeft, OnceWorks
    <2>5. LazyWorks'
      BY <1>0, <1>1, <1>3, <2>1, <2>2, Distinct
      DEF SendRegister, IInv, Typed, LazyWorks, Registering
    <2>6. QED
      BY <2>3, <2>4, <2>5 DEF IInv
  <1>4. QED
    BY <1>0, <1>1, <1>2, <1>3 DEF IInv, LazyWorks, Registering

LEMMA RegisterIInv ==
  ASSUME IInv, NEW p \in Processes, cmd_register_device_type(p)
  PROVE  IInv'
  <1>1. CASE Die(p, "register")
    BY <1>1, DieIInv
  <1>2. CASE /\ registered' = [registered EXCEPT ![p] = Append(@, command[p])]
             /\ replied' = [replied EXCEPT ![p] = TRUE]
             /\ UNCHANGED <<process, pc, once, lazy, config, loggers, command>>
    <2>1. command[p] # None /\ ~replied[p]
      BY DEF cmd_register_device_type
    <2>2. lazy[p] = "busy"
      BY <2>1 DEF IInv, Typed, LazyWorks
    <2>3. Registering(p)
      BY <2>2 DEF IInv, LazyWorks
    <2>4. Append(registered[p], command[p]) \in {<<"Joystick">>, DeviceTypes}
      BY <2>1, <2>3, TypesInOrder DEF Registering
    <2>5. Typed' /\ NobodyLeft' /\ OnceWorks'
      BY <1>2, <2>4 DEF process, IInv, Typed, NobodyLeft, OnceWorks
    <2>6. LazyWorks'
      BY <1>2, <2>1, <2>2, <2>4, TypesInOrder DEF IInv, Typed, LazyWorks, Registering
    <2>7. QED
      BY <2>5, <2>6 DEF IInv
  <1>3. QED
    BY <1>1, <1>2 DEF cmd_register_device_type

LEMMA ReceiveReplyIInv ==
  ASSUME IInv, NEW t \in Threads, ReceiveReply(t)
  PROVE  IInv'
  <1> DEFINE p == ProcessOf[t]
  <1>0. p \in Processes /\ running[p] /\ pc[t] = "register" /\ replied[p]
    BY Distinct DEF ReceiveReply, At
  <1>1. lazy[p] = "busy" /\ once[p] = "done"
    BY <1>0 DEF IInv, LazyWorks, OnceWorks, Past
  <1>2. registered[p] # <<>>
    BY <1>0, <1>1 DEF IInv, LazyWorks, Registering
  <1>3. \A u \in Threads : ProcessOf[u] = p /\ u # t => pc[u] \notin {"register", "ready"}
    BY <1>0, <1>1 DEF IInv, LazyWorks
  <1>4. /\ command' = [command EXCEPT ![p] = None] /\ replied' = [replied EXCEPT ![p] = FALSE]
        /\ UNCHANGED <<process, once, config, loggers, registered>>
    BY DEF ReceiveReply
  <1>5. CASE LastOfTypes(p)
    <2>1. pc' = [pc EXCEPT ![t] = "ready"] /\ lazy' = [lazy EXCEPT ![p] = "done"]
      BY <1>5 DEF ReceiveReply, Goto
    <2>2. registered[p] = DeviceTypes
      BY <1>0, <1>5, TypesInOrder DEF LastOfTypes, IInv, Typed
    <2>3. Typed' /\ NobodyLeft'
      BY <1>0, <1>4, <2>1 DEF process, IInv, Typed, NobodyLeft, Past
    <2>4. OnceWorks'
      BY <1>0, <1>1, <1>4, <2>1 DEF IInv, Typed, OnceWorks, Setup, Past
    <2>5. LazyWorks'
      BY <1>0, <1>3, <1>4, <2>1, <2>2, Distinct DEF IInv, Typed, LazyWorks, Registering
    <2>6. QED
      BY <2>3, <2>4, <2>5 DEF IInv
  <1>6. CASE ~LastOfTypes(p)
    <2>1. UNCHANGED <<pc, lazy>>
      BY <1>6 DEF ReceiveReply
    <2>2. registered[p] # DeviceTypes
      BY <1>6 DEF LastOfTypes
    <2>3. Typed' /\ NobodyLeft' /\ OnceWorks'
      BY <1>4, <2>1 DEF process, IInv, Typed, NobodyLeft, OnceWorks
    <2>4. LazyWorks'
      BY <1>0, <1>1, <1>4, <2>1, <2>2 DEF IInv, Typed, LazyWorks, Registering
    <2>5. QED
      BY <2>3, <2>4 DEF IInv
  <1>7. QED
    BY <1>5, <1>6

LEMMA NextIInv == IInv /\ [Next]_vars => IInv'
  <1> SUFFICES ASSUME IInv, [Next]_vars PROVE IInv'
    OBVIOUS
  <1>1. ASSUME NEW p \in Processes, Launch(p) \/ Kill(p) \/ cmd_register_device_type(p)
        PROVE  IInv'
    BY <1>1, LaunchIInv, DieIInv, RegisterIInv DEF Kill
  <1>2. ASSUME NEW t \in Threads, Enter(t) \/ Step(t) PROVE IInv'
    BY <1>2, EnterIInv, CallOnceIInv, ConfigIInv, InitLoggerIInv, ForceContextIInv,
       SendRegisterIInv, ReceiveReplyIInv DEF Step
  <1>3. CASE Edit \/ Started \/ UNCHANGED vars
    BY <1>3, QuietIInv DEF Edit, Started, vars
  <1>4. QED
    BY <1>1, <1>2, <1>3 DEF Next

THEOREM Invariance == Spec => []IInv
  BY InitIInv, NextIInv, PTL DEF Spec

(* However many threads of however many processes race, are killed and     *)
(* launched again: one that is through has a configuration, a logger that  *)
(* was set up once, and both types registered.                             *)
THEOREM ReadyMeansReady == Spec => []ReadyIsReady
  <1>1. IInv => ReadyIsReady
    BY Distinct DEF IInv, OnceWorks, LazyWorks, ReadyIsReady, Past
  <1>2. QED
    BY <1>1, Invariance, PTL

-----------------------------------------------------------------------------
(* Whoever is about to write dhc.toml has found no valid one, and none has *)
(* come since.                                                             *)
WritersFoundNone ==
  /\ pc \in [Threads -> {"outside", "once"} \cup Setup \cup Past]
  /\ \A t \in Threads : pc[t] \in {"create", "write"} => file # "users"

(* The two things that change the file keep it if it is the user's.        *)
LEMMA NextKeeps ==
  ASSUME EditsBetweenLaunches, WritersFoundNone, IInv, IInv', [Next]_vars
  PROVE  /\ WritersFoundNone'
         /\ file = "users" /\ edits' = edits => file' = "users"
  <1>0. pc' \in [Threads -> {"outside", "once"} \cup Setup \cup Past]
    BY DEF IInv, Typed
  <1>1. CASE UNCHANGED <<disk, pc>>
    BY <1>0, <1>1 DEF disk, WritersFoundNone
  <1>2. ASSUME NEW p \in Processes, NEW why, Die(p, why), UNCHANGED file
        PROVE  WritersFoundNone'
    BY <1>0, <1>2 DEF Die, WritersFoundNone
  <1>3. ASSUME NEW t \in Threads, NEW w \in {"once", "read", "logger", "lazy", "register", "ready"},
               Goto(t, w), UNCHANGED file
        PROVE  WritersFoundNone'
    BY <1>0, <1>3 DEF Goto, WritersFoundNone
  <1>4. ASSUME NEW p \in Processes, Launch(p) \/ Kill(p) \/ cmd_register_device_type(p)
        PROVE  WritersFoundNone' /\ UNCHANGED file
    BY <1>1, <1>2, <1>4 DEF Launch, Kill, cmd_register_device_type, disk
  <1>5. ASSUME NEW t \in Threads,
               Enter(t) \/ CallOnce(t) \/ InitLogger(t) \/ ForceContext(t)
                 \/ SendRegister(t) \/ ReceiveReply(t)
        PROVE  WritersFoundNone' /\ UNCHANGED file
    BY <1>1, <1>2, <1>3, <1>5, Distinct
    DEF Enter, CallOnce, InitLogger, ForceContext, SendRegister, ReceiveReply, disk
  <1>6. ASSUME NEW t \in Threads, ReadConfig(t)
        PROVE  WritersFoundNone' /\ UNCHANGED file
    <2>1. UNCHANGED file
      BY <1>6 DEF ReadConfig, disk
    <2>2. CASE Die(ProcessOf[t], "config")
      BY <1>2, <2>1, <2>2, Distinct
    <2>3. CASE Goto(t, "logger")
      BY <1>3, <2>1, <2>3
    <2>4. CASE ~Parses(file) /\ Goto(t, "create")
      BY <1>0, <2>1, <2>4 DEF Goto, Parses, Valid, WritersFoundNone
    <2>5. QED
      BY <1>6, <2>1, <2>2, <2>3, <2>4 DEF ReadConfig
  <1>7. ASSUME NEW t \in Threads, TruncateConfig(t)
        PROVE  WritersFoundNone' /\ file # "users"
    <2>1. file # "users"
      BY <1>7 DEF TruncateConfig, At, WritersFoundNone
    <2>2. CASE file' = "empty"
      BY <1>0, <2>1, <2>2 DEF WritersFoundNone
    <2>3. CASE Die(ProcessOf[t], "config") /\ UNCHANGED file
      BY <1>2, <2>1, <2>3, Distinct
    <2>4. QED
      BY <1>7, <2>1, <2>2, <2>3 DEF TruncateConfig
  <1>8. ASSUME NEW t \in Threads, WriteConfig(t)
        PROVE  WritersFoundNone' /\ file # "users"
    BY <1>0, <1>8 DEF WriteConfig, At, WritersFoundNone
  <1>9. CASE Edit
    <2>1. \A t \in Threads : pc'[t] \notin {"create", "write"}
      BY <1>9 DEF Edit, LooksAtFile
    <2>2. QED
      BY <1>0, <1>9, <2>1, StartupAssumption DEF Edit, WritersFoundNone
  <1>10. QED
    BY <1>1, <1>4, <1>5, <1>6, <1>7, <1>8, <1>9 DEF Next, Step, Started, vars

LEMMA InitFoundNone == Init => WritersFoundNone
  BY DEF Init, WritersFoundNone

(* A valid configuration of the user's survives every start-up, of any     *)
(* number of processes at once, and every crash, provided that nobody      *)
(* edits the file while a process is looking at it.                        *)
THEOREM ConfigSurvives ==
  ASSUME EditsBetweenLaunches
  PROVE  Spec => ValidConfigKept
  <1>1. IInv /\ IInv' /\ WritersFoundNone /\ [Next]_vars => WritersFoundNone'
    BY NextKeeps
  <1>2. IInv /\ IInv' /\ WritersFoundNone /\ [Next]_vars =>
          [file = "users" /\ edits' = edits => file' = "users"]_vars
    BY NextKeeps
  <1>3. QED
    BY <1>1, <1>2, InitFoundNone, Invariance, PTL DEF Spec, ValidConfigKept

-----------------------------------------------------------------------------
(* What the file holds, and why a process ended.                           *)
WorldTyped ==
  /\ file \in Contents
  /\ died \in [Processes -> {"no", "killed", "config", "logger", "register"}]

LEMMA NextWorld == WorldTyped /\ [Next]_vars => WorldTyped'
  <1> SUFFICES ASSUME WorldTyped, [Next]_vars PROVE WorldTyped'
    OBVIOUS
  <1>1. ASSUME NEW p, NEW why \in {"killed", "config", "logger", "register"}, Die(p, why)
        PROVE  died' \in [Processes -> {"no", "killed", "config", "logger", "register"}]
    BY <1>1 DEF Die, WorldTyped
  <1>2. ASSUME NEW p \in Processes, Launch(p) PROVE WorldTyped'
    BY <1>2 DEF Launch, disk, WorldTyped
  <1>3. ASSUME NEW p \in Processes, Kill(p) PROVE WorldTyped'
    BY <1>1, <1>3 DEF Kill, disk, WorldTyped
  <1>4. ASSUME NEW p \in Processes, cmd_register_device_type(p) PROVE WorldTyped'
    BY <1>1, <1>4 DEF cmd_register_device_type, disk, process, WorldTyped
  <1>5. CASE Edit
    BY <1>5, StartupAssumption DEF Edit, process, WorldTyped
  <1>6. ASSUME NEW t \in Threads, ReadConfig(t) PROVE WorldTyped'
    BY <1>1, <1>6 DEF ReadConfig, disk, process, WorldTyped
  <1>7. ASSUME NEW t \in Threads, TruncateConfig(t) PROVE WorldTyped'
    BY <1>1, <1>7 DEF TruncateConfig, process, Contents, WorldTyped
  <1>8. ASSUME NEW t \in Threads, WriteConfig(t) PROVE WorldTyped'
    BY <1>8 DEF WriteConfig, process, Contents, Valid, WorldTyped
  <1>9. ASSUME NEW t \in Threads, InitLogger(t) PROVE WorldTyped'
    BY <1>1, <1>9 DEF InitLogger, disk, process, WorldTyped
  <1>10. ASSUME NEW t \in Threads,
                Enter(t) \/ CallOnce(t) \/ ForceContext(t) \/ SendRegister(t) \/ ReceiveReply(t)
         PROVE  WorldTyped'
    BY <1>10 DEF Enter, CallOnce, ForceContext, SendRegister, ReceiveReply, disk, process,
                 WorldTyped
  <1>11. CASE UNCHANGED vars
    BY <1>11 DEF vars, disk, process, WorldTyped
  <1>12. QED
    BY <1>2, <1>3, <1>4, <1>5, <1>6, <1>7, <1>8, <1>9, <1>10, <1>11 DEF Next, Step, Started

(* The statics, the file and the reasons for which a process ended are of  *)
(* their types, and the types of controller are registered in their order. *)
THEOREM TypeCorrect == Spec => []TypeOK
  <1>1. Init => WorldTyped
    BY DEF Init, WorldTyped, Contents, Valid
  <1>2. IsPrefix(<<>>, DeviceTypes) /\ IsPrefix(<<"Joystick">>, DeviceTypes)
        /\ IsPrefix(DeviceTypes, DeviceTypes)
    BY DEF IsPrefix, DeviceTypes
  <1>3. IInv /\ WorldTyped => TypeOK
    BY <1>2 DEF IInv, Typed, WorldTyped, Setup, Past, TypeOK
  <1>4. QED
    BY <1>1, <1>3, NextWorld, Invariance, PTL DEF Spec
===============================================================================
