-------------------------------- MODULE Startup --------------------------------
(***************************************************************************)
(* How dhc starts in a process: every exported function calls dhc_init     *)
(* (lib.rs, a Once), which reads or creates dhc.toml (config.rs) and sets  *)
(* up the logger, and then forces CONTEXT (a lazy_static), which starts    *)
(* the message thread and has it register the two types of controller.    *)
(*                                                                         *)
(* Threads of one process race to do so, several processes share the       *)
(* directory with dhc.toml, any of them may be killed at any time and      *)
(* launched again, and the user edits the file.                            *)
(***************************************************************************)
EXTENDS Integers, FiniteSets, SequencesExt

CONSTANTS
  Threads,              \* of all processes
  Processes,
  ProcessOf,            \* the process a thread belongs to
  Edits,                \* what the user may turn the file into
  EditsBetweenLaunches, \* TRUE: not while a process looks at the file
  MaxLaunches,          \* bound on the launches of a process
  MaxEdits,             \* bound on the edits
  None

(* Contents of dhc.toml: the default and another valid configuration; text *)
(* that is not a configuration; a file that is no text; an empty one.      *)
Valid    == {"default", "users"}
Contents == Valid \cup {"absent", "empty", "garbled", "binary"}

DeviceTypes == <<"Joystick", "GamePad">>

ASSUME StartupAssumption ==
  /\ ProcessOf \in [Threads -> Processes]
  /\ Edits \subseteq Contents
  /\ EditsBetweenLaunches \in BOOLEAN
  /\ MaxLaunches \in Nat /\ MaxEdits \in Nat
  /\ None \notin Contents \cup Range(DeviceTypes)

VARIABLES
  file,        \* dhc.toml
  writable,    \* the directory may be written to
  edits,
  launches, running, died, \* per process; died is why it ended
  pc,          \* where a thread is
  once, lazy,  \* ONCE and CONTEXT of a process: "new", "busy" or "done"
  config,      \* CONFIG, None until it was read
  loggers,     \* how often the logger was set up
  command,     \* the type in the RegisterType command on its way, or None
  replied,     \* the message thread has replied to it
  registered   \* the types that are registered, in order

disk    == <<file, writable, edits>>
process == <<launches, running, died>>
state   == <<once, lazy, config, loggers, command, replied, registered>>
vars    == <<disk, process, pc, state>>

Init ==
  /\ file \in {"absent", "users"} /\ writable \in BOOLEAN /\ edits = 0
  /\ launches = [p \in Processes |-> 0]
  /\ running = [p \in Processes |-> FALSE]
  /\ died = [p \in Processes |-> "no"]
  /\ pc = [t \in Threads |-> "outside"]
  /\ once = [p \in Processes |-> "new"] /\ lazy = [p \in Processes |-> "new"]
  /\ config = [p \in Processes |-> None]
  /\ loggers = [p \in Processes |-> 0]
  /\ command = [p \in Processes |-> None]
  /\ replied = [p \in Processes |-> FALSE]
  /\ registered = [p \in Processes |-> <<>>]

-----------------------------------------------------------------------------
(* The world around.                                                       *)
Launch(p) ==
  /\ ~running[p] /\ launches[p] < MaxLaunches
  /\ launches' = [launches EXCEPT ![p] = @ + 1]
  /\ running' = [running EXCEPT ![p] = TRUE]
  /\ died' = [died EXCEPT ![p] = "no"]
  /\ once' = [once EXCEPT ![p] = "new"] /\ lazy' = [lazy EXCEPT ![p] = "new"]
  /\ config' = [config EXCEPT ![p] = None]
  /\ loggers' = [loggers EXCEPT ![p] = 0]
  /\ command' = [command EXCEPT ![p] = None]
  /\ replied' = [replied EXCEPT ![p] = FALSE]
  /\ registered' = [registered EXCEPT ![p] = <<>>]
  /\ UNCHANGED <<disk, pc>>

(* The process ends, with what it has written to the disk.                 *)
Die(p, why) ==
  /\ running' = [running EXCEPT ![p] = FALSE]
  /\ died' = [died EXCEPT ![p] = why]
  /\ pc' = [t \in Threads |-> IF ProcessOf[t] = p THEN "outside" ELSE pc[t]]
  /\ UNCHANGED <<launches, state>>

Kill(p) == running[p] /\ Die(p, "killed") /\ UNCHANGED disk

LooksAtFile(t) == pc[t] \in {"read", "create", "write"}

Edit ==
  /\ edits < MaxEdits /\ edits' = edits + 1
  /\ EditsBetweenLaunches => \A t \in Threads : ~LooksAtFile(t)
  /\ file' \in Edits
  /\ UNCHANGED <<writable, process, pc, state>>

-----------------------------------------------------------------------------
At(t, where) == running[ProcessOf[t]] /\ pc[t] = where
Goto(t, where) == pc' = [pc EXCEPT ![t] = where]

(* The game calls an exported function for the first time on this thread.  *)
Enter(t) ==
  /\ At(t, "outside")
  /\ Goto(t, "once")
  /\ UNCHANGED <<disk, process, state>>

(* Mutant: nobody waits for the thread that is at it.                      *)
CallOnceNoWait(t) ==
  /\ At(t, "once")
  /\ Goto(t, IF once[ProcessOf[t]] = "done" THEN "lazy" ELSE "read")
  /\ once' = [once EXCEPT ![ProcessOf[t]] = IF @ = "done" THEN @ ELSE "busy"]
  /\ UNCHANGED <<disk, process, lazy, config, loggers, command, replied, registered>>

(* ONCE.call_once: the first runs the closure, the others wait for it.     *)
CallOnce(t) ==
  LET p == ProcessOf[t]
  IN  /\ At(t, "once")
      /\ \/ once[p] = "done" /\ Goto(t, "lazy") /\ UNCHANGED once
         \/ once[p] = "new" /\ Goto(t, "read") /\ once' = [once EXCEPT ![p] = "busy"]
      /\ UNCHANGED <<disk, process, lazy, config, loggers, command, replied, registered>>

(* Mutant: a setting the default has and the user's file lacks is an error.*)
ParsesWhole(contents) == contents = "default"

(* Mutant: any text will do.                                               *)
ParsesAnything(contents) == contents \notin {"absent", "binary"}

Parses(contents) == contents \in Valid

(* Config::read up to the write.  A file that is no text is an error, and  *)
(* CONFIG panics on every error.                                           *)
ReadConfig(t) ==
  LET p == ProcessOf[t]
  IN  /\ At(t, "read")
      /\ \/ /\ Parses(file)
            /\ config' = [config EXCEPT ![p] = file]
            /\ Goto(t, "logger")
            /\ UNCHANGED <<process, once, lazy, loggers, command, replied, registered>>
         \/ file = "binary" /\ Die(p, "config")
         \/ /\ ~Parses(file) /\ file # "binary"
            /\ Goto(t, "create")
            /\ UNCHANGED <<process, state>>
      /\ UNCHANGED disk

(* fs::write creates or truncates the file first ...                       *)
TruncateConfig(t) ==
  /\ At(t, "create")
  /\ \/ /\ writable
        /\ file' = "empty"
        /\ Goto(t, "write")
        /\ UNCHANGED <<process, state>>
     \/ ~writable /\ Die(ProcessOf[t], "config") /\ UNCHANGED file
  /\ UNCHANGED <<writable, edits>>

(* ... and then fills it.                                                  *)
WriteConfig(t) ==
  /\ At(t, "write")
  /\ file' = "default"
  /\ config' = [config EXCEPT ![ProcessOf[t]] = "default"]
  /\ Goto(t, "logger")
  /\ UNCHANGED <<writable, edits, process, once, lazy, loggers, command, replied,
                 registered>>

(* logger::init; a second one would panic, for the global logger is set,   *)
(* and so does one that cannot open dhc.log.                               *)
InitLogger(t) ==
  LET p == ProcessOf[t]
  IN  /\ At(t, "logger")
      /\ \/ /\ loggers' = [loggers EXCEPT ![p] = @ + 1]
            /\ once' = [once EXCEPT ![p] = "done"]
            /\ Goto(t, "lazy")
            /\ UNCHANGED <<process, lazy, config, command, replied, registered>>
         \/ ~writable /\ Die(p, "logger")
      /\ UNCHANGED disk

(* Context::instance(): the first makes the context, the others wait.      *)
ForceContext(t) ==
  LET p == ProcessOf[t]
  IN  /\ At(t, "lazy")
      /\ \/ lazy[p] = "done" /\ Goto(t, "ready") /\ UNCHANGED lazy
         \/ lazy[p] = "new" /\ Goto(t, "register") /\ lazy' = [lazy EXCEPT ![p] = "busy"]
      /\ UNCHANGED <<disk, process, once, config, loggers, command, replied, registered>>

(* Mutant: Context::new registers the types through Context::instance(),    *)
(* which waits for Context::new.                                           *)
SendRegisterThroughInstance(t) ==
  LET p == ProcessOf[t]
  IN  /\ At(t, "register") /\ lazy[p] = "done" /\ command[p] = None
      /\ command' = [command EXCEPT ![p] = DeviceTypes[Len(registered[p]) + 1]]
      /\ UNCHANGED <<disk, process, pc, once, lazy, config, loggers, replied, registered>>

(* register_device_type for the next of the types: send the command ...    *)
SendRegister(t) ==
  LET p == ProcessOf[t]
  IN  /\ At(t, "register") /\ command[p] = None
      /\ command' = [command EXCEPT ![p] = DeviceTypes[Len(registered[p]) + 1]]
      /\ UNCHANGED <<disk, process, pc, once, lazy, config, loggers, replied, registered>>

(* ... the message thread registers the type and replies, or panics ...    *)
cmd_register_device_type(p) ==
  /\ running[p] /\ command[p] # None /\ ~replied[p]
  /\ \/ /\ registered' = [registered EXCEPT ![p] = Append(@, command[p])]
        /\ replied' = [replied EXCEPT ![p] = TRUE]
        /\ UNCHANGED <<process, pc, once, lazy, config, loggers, command>>
     \/ Die(p, "register")
  /\ UNCHANGED disk

LastOfTypes(p) == Len(registered[p]) = Len(DeviceTypes)

(* ... and the thread goes on when it has the reply.                       *)
ReceiveReply(t) ==
  LET p == ProcessOf[t]
  IN  /\ At(t, "register") /\ replied[p]
      /\ command' = [command EXCEPT ![p] = None]
      /\ replied' = [replied EXCEPT ![p] = FALSE]
      /\ IF LastOfTypes(p)
         THEN Goto(t, "ready") /\ lazy' = [lazy EXCEPT ![p] = "done"]
         ELSE UNCHANGED <<pc, lazy>>
      /\ UNCHANGED <<disk, process, once, config, loggers, registered>>

-----------------------------------------------------------------------------
Step(t) ==
  \/ CallOnce(t) \/ ReadConfig(t) \/ TruncateConfig(t) \/ WriteConfig(t)
  \/ InitLogger(t) \/ ForceContext(t) \/ SendRegister(t) \/ ReceiveReply(t)

(* Every thread in a process that runs is in the game again or ready.      *)
Started ==
  /\ \A t \in Threads : running[ProcessOf[t]] => pc[t] \in {"outside", "ready"}
  /\ UNCHANGED vars

Next ==
  \/ \E p \in Processes : Launch(p) \/ Kill(p) \/ cmd_register_device_type(p)
  \/ \E t \in Threads : Enter(t) \/ Step(t)
  \/ Edit
  \/ Started

(* The scheduler runs every thread of the process.                         *)
Fairness ==
  /\ \A t \in Threads : WF_vars(Step(t))
  /\ \A p \in Processes : WF_vars(cmd_register_device_type(p))

Spec == Init /\ [][Next]_vars /\ Fairness

-----------------------------------------------------------------------------
(* The statics hold values of their types.                                 *)
TypeOK ==
  /\ file \in Contents
  /\ pc \in [Threads -> {"outside", "once", "read", "create", "write", "logger",
                         "lazy", "register", "ready"}]
  /\ once \in [Processes -> {"new", "busy", "done"}]
  /\ lazy \in [Processes -> {"new", "busy", "done"}]
  /\ config \in [Processes -> Valid \cup {None}]
  /\ \A p \in Processes : IsPrefix(registered[p], DeviceTypes)
  /\ died \in [Processes -> {"no", "killed", "config", "logger", "register"}]

(* However the threads race, one that gets past dhc_init and               *)
(* Context::instance finds everything in place: a configuration, both      *)
(* types registered with the message thread, and the logger, set up once   *)
(* (a second slog_stdlog::init().expect would end the process).            *)
ReadyIsReady ==
  \A t \in Threads : pc[t] = "ready" =>
    LET p == ProcessOf[t]
    IN  config[p] # None /\ loggers[p] = 1 /\ registered[p] = DeviceTypes

(* A configuration the user wrote, and that is one, survives every launch, *)
(* also of several processes at once, and every crash (provided it is not  *)
(* written just while a process looks).                                    *)
ValidConfigKept ==
  [][file = "users" /\ edits' = edits => file' = "users"]_vars

(* Nothing but the user's file or disk keeps a launch from a configuration:*)
(* not what another launch has left of dhc.toml, killed between the two    *)
(* halves of writing it or still at it.                                    *)
EndedForCause(p) ==
  ~running[p] /\ (died[p] = "config" => file = "binary" \/ ~writable)

(* A thread that has entered dhc gets through, unless its process is       *)
(* killed or has a reason to end.                                          *)
GetsReady ==
  \A t \in Threads :
    pc[t] = "once" ~> pc[t] = "ready" \/ EndedForCause(ProcessOf[t])

(* "failed to read config ... falling back to default configuration"       *)
(* (lib.rs lines 77 and 78): an error does not end the process.            *)
FallsBack == \A p \in Processes : died[p] # "config"

===============================================================================
