------------------------------- MODULE Program -------------------------------
(***************************************************************************)
(* The instances of the program with one directory of configuration        *)
(* (src/main.cpp, src/application.cpp, src/client_cmd_options.cpp).  The   *)
(* one that gets a name on the session bus of D-Bus owns the configuration *)
(* and runs an Application; it leaves a link to its bus, so that those     *)
(* started from a console find it.  All the others hand their options over *)
(* to it, and end.                                                         *)
(*                                                                         *)
(* One process, First, is followed with its Application, the main loop and *)
(* the messages it shows (MessageQueue); another one that becomes the      *)
(* owner is not, once it runs.  Processes end with their session.          *)
(***************************************************************************)
EXTENDS MessageQueue, FiniteSets

CONSTANTS First, Others,  \* processes
          None,           \* nobody, or no link
          MaxSessions     \* bound: how many sessions of the user there are

ASSUME ProgramAssumption == /\ First \notin Others /\ MaxSessions \in Nat
                            /\ None \notin Others \cup {First} \cup Nat
                            /\ "close" \notin Others \cup {First}

Processes == Others \cup {First}

VARIABLES stage,      \* where each process is
          kind,       \* how it was started
          options,    \* does it have options for the Application?
          bus,        \* number of the session, and of its bus
          owner,      \* who has the name on the bus
          link,       \* DBUS_SESSION_LINK_NAME: to which bus
          calls,      \* who has sent options that no one has taken
          handling,   \* what the main loop of First has taken: options, or
                      \* the signal; it has not got the GTK lock yet
          pipe,       \* a signal to close First: "none", "sent" or "read"
          stopping,   \* priv->stopping
          executed    \* ghost: what became of the options: "no", "kept",
                      \* "late" if after the closing, "twice"

programVars == <<stage, kind, options, bus, owner, link, calls, handling, pipe,
                 stopping, executed>>
allVars == <<vars, programVars>>

(* Exit codes and ends: options accepted or rejected, none to hand over, an
   error told to the user, an orderly end of an Application, a sudden one. *)
Ends == {"ok", "rejected", "nothing", "failed", "ended", "crashed"}
Alive(p) == stage[p] \notin Ends \cup {"off"}

RoleTypeOK ==
    /\ stage \in [Processes -> Ends \cup
           {"off", "connected", "named", "unlinked", "constructing", "starting",
            "running", "quit", "leaving", "explaining", "passing", "waiting"}]
    /\ kind \in [Processes -> {"gui", "pass", "console"}]
    /\ options \in [Processes -> BOOLEAN]
    /\ bus \in 0..MaxSessions /\ link \in 0..MaxSessions \cup {None}
    /\ owner \in Processes \cup {None}
    /\ calls \subseteq Processes
    /\ handling \in Processes \cup {None, "close"}
    /\ pipe \in {"none", "sent", "read"} /\ stopping \in BOOLEAN
    /\ executed \in [Processes -> {"no", "kept", "late", "twice"}]

ProgramTypeOK == TypeOK /\ RoleTypeOK

ProgramInit ==
    /\ Init
    /\ stage = [p \in Processes |-> "off"]
    /\ kind = [p \in Processes |-> "gui"] /\ options = [p \in Processes |-> FALSE]
    /\ bus = 0 /\ owner = None /\ link = None
    /\ calls = {} /\ handling = None /\ pipe = "none" /\ stopping = FALSE
    /\ executed = [p \in Processes |-> "no"]

At(p, here, there) == stage[p] = here /\ stage' = [stage EXCEPT ![p] = there]

(* The processes `ps' are no more: those that wait for an answer of the owner
   get none.  First takes its messages along. *)
Gone(ps, end) ==
    LET running == {"constructing", "starting", "running", "quit", "leaving"}
        asked == IF owner \in ps THEN {p \in Processes : stage[p] = "waiting"} ELSE {}
    IN  /\ stage' = [p \in Processes |-> IF p \in ps THEN end
                                         ELSE IF p \in asked THEN "failed"
                                         ELSE stage[p]]
        /\ IF owner \in ps THEN owner' = None /\ calls' = {}
                           ELSE UNCHANGED <<owner, calls>>
        /\ IF First \in ps /\ stage[First] \in running
           THEN life' = "destroyed" /\ messages' = <<>> /\ dialog' = FALSE
           ELSE UNCHANGED <<life, messages, dialog>>
        /\ UNCHANGED <<signals, thread, main, added, shown>>

(* What becomes of the options of p if they are processed. *)
Processed(p, late) ==
    [executed EXCEPT ![p] = CASE @ # "no" -> "twice"
                              [] @ = "no" /\ late -> "late"
                              [] @ = "no" /\ ~late -> "kept"]

Answered(p, answer) == [stage EXCEPT ![p] = IF @ = "waiting" THEN answer ELSE @]

-----------------------------------------------------------------------------
(* From the start of a process to its role. *)

(* A console has no session bus of its own, and takes that of the link. *)
Launch(p, k, o) ==
    /\ stage[p] = "off"
    /\ stage' = [stage EXCEPT ![p] = IF k = "console" /\ link # bus
                                     THEN "failed" ELSE "connected"]
    /\ kind' = [kind EXCEPT ![p] = k] /\ options' = [options EXCEPT ![p] = o]
    /\ UNCHANGED <<vars, bus, owner, link, calls, handling, pipe, stopping,
                   executed>>

RequestName(p) ==
    /\ kind[p] = "gui" /\ stage[p] = "connected"
    /\ IF owner = None
       THEN owner' = p /\ stage' = [stage EXCEPT ![p] = "named"]
       ELSE stage' = [stage EXCEPT ![p] = "passing"] /\ UNCHANGED owner
    /\ UNCHANGED <<vars, kind, options, bus, link, calls, handling, pipe,
                   stopping, executed>>

HasName(p) ==
    /\ kind[p] # "gui"
    /\ At(p, "connected", IF owner = None THEN "failed" ELSE "passing")
    /\ UNCHANGED <<vars, kind, options, bus, owner, link, calls, handling, pipe,
                   stopping, executed>>

(* The options are handed over to the owner, who need not be the one whose name
   was found. *)
Pass(p) ==
    /\ At(p, "passing", CASE ~options[p] -> "nothing"
                          [] options[p] /\ owner = None -> "failed"
                          [] OTHER -> "waiting")
    /\ calls' = IF stage'[p] = "waiting" THEN calls \cup {p} ELSE calls
    /\ UNCHANGED <<vars, kind, options, bus, owner, link, handling, pipe, stopping,
                   executed>>

(* D-Bus waits 25 seconds for an answer; what was sent stays sent. *)
TimeOut(p) ==
    /\ At(p, "waiting", "failed")
    /\ UNCHANGED <<vars, kind, options, bus, owner, link, calls, handling, pipe,
                   stopping, executed>>

RemoveOldLink(p) ==
    /\ At(p, "named", "unlinked") /\ link' = None
    /\ UNCHANGED <<vars, kind, options, bus, owner, calls, handling, pipe, stopping,
                   executed>>

CreateLink(p) ==
    /\ stage[p] = "unlinked"
    /\ IF link = None
       THEN /\ link' = bus
            /\ IF p = First
               THEN At(p, "unlinked", "constructing") /\ UNCHANGED executed
               ELSE /\ At(p, "unlinked", "running")
                    /\ executed' = IF options[p] THEN Processed(p, FALSE)
                                   ELSE executed
            /\ UNCHANGED <<vars, owner, calls>>
       ELSE Gone({p}, "failed") /\ UNCHANGED <<link, executed>>
    /\ UNCHANGED <<kind, options, bus, handling, pipe, stopping>>

(* Mutant: what is in the pipe already is read and forgotten. *)
MutConstructed ==
    /\ At(First, "constructing", "starting") /\ Connect
    /\ pipe' = IF pipe = "sent" THEN "read" ELSE pipe
    /\ UNCHANGED <<kind, options, bus, owner, link, calls, handling, stopping,
                   executed>>

(* The Application is constructed in full; its daemon is started after that. *)
Constructed ==
    /\ At(First, "constructing", "starting") /\ Connect
    /\ UNCHANGED <<kind, options, bus, owner, link, calls, handling, pipe, stopping,
                   executed>>

(* app->start(): the options it was started with are processed, too. *)
Started ==
    /\ At(First, "starting", "running")
    /\ executed' = IF options[First] THEN Processed(First, FALSE) ELSE executed
    /\ UNCHANGED <<vars, kind, options, bus, owner, link, calls, handling, pipe,
                   stopping>>

(* app->start() throws: the program tells why, and exits. *)
FailToStart ==
    /\ stage[First] = "starting"
    /\ Gone({First}, "failed") /\ link' = None
    /\ UNCHANGED <<kind, options, bus, handling, pipe, stopping, executed>>

-----------------------------------------------------------------------------
(* The main loop of First.  It takes one thing at a time, and a handler waits
   for the GTK lock before it looks at the Application. *)

Looping == stage[First] = "running" /\ main = "idle" /\ handling = None

(* The object of D-Bus is gone with the Application. *)
TakeOptions(p) ==
    /\ Looping /\ owner = First /\ p \in calls
    /\ calls' = calls \ {p}
    /\ IF life = "running"
       THEN handling' = p /\ UNCHANGED stage
       ELSE /\ stage' = [stage EXCEPT ![p] = IF @ = "waiting" THEN "failed" ELSE @]
            /\ UNCHANGED handling
    /\ UNCHANGED <<vars, kind, options, bus, owner, link, pipe, stopping, executed>>

(* Mutant: options are processed whether or not the Application is stopping. *)
Mutdbus_cmd_options ==
    /\ handling \in Processes /\ life = "running"
    /\ executed' = Processed(handling, stopping)
    /\ stage' = Answered(handling, "ok")
    /\ handling' = None
    /\ UNCHANGED <<vars, kind, options, bus, owner, link, calls, pipe, stopping>>

(* The answer follows the processing, whatever that takes. *)
dbus_cmd_options ==
    /\ handling \in Processes /\ life = "running"
    /\ IF stopping
       THEN stage' = Answered(handling, "rejected") /\ UNCHANGED executed
       ELSE /\ executed' = Processed(handling, FALSE)
            /\ stage' = Answered(handling, "ok")
    /\ handling' = None
    /\ UNCHANGED <<vars, kind, options, bus, owner, link, calls, pipe, stopping>>

(* The lock comes too late, as for OnMessageTooLate. *)
dbus_cmd_options_too_late ==
    /\ handling \in Processes /\ life = "destroyed" /\ stage[First] = "running"
    /\ main' = "failed"
    /\ UNCHANGED <<life, messages, dialog, signals, thread, added, shown,
                   programVars>>

(* SIGTERM and the like: the handler writes to a pipe, which nothing reads in a
   process without an Application. *)
Signalled ==
    /\ Alive(First) /\ stage[First] # "explaining"
    /\ pipe = "none" /\ pipe' = "sent"
    /\ UNCHANGED <<vars, stage, kind, options, bus, owner, link, calls, handling,
                   stopping, executed>>

(* The source of the main loop removes itself. *)
TakeSignal ==
    /\ Looping /\ pipe = "sent" /\ pipe' = "read"
    /\ handling' = "close"
    /\ UNCHANGED <<vars, stage, kind, options, bus, owner, link, calls, stopping,
                   executed>>

(* That Application::ptr is not NULL is checked here. *)
on_close_signal_cb ==
    /\ handling = "close" /\ handling' = None
    /\ stopping' = (stopping \/ life = "running")
    /\ UNCHANGED <<vars, stage, kind, options, bus, owner, link, calls, pipe,
                   executed>>

(* The user closes the window, or quits. *)
close ==
    /\ Looping /\ life = "running" /\ ~stopping /\ stopping' = TRUE
    /\ UNCHANGED <<vars, stage, kind, options, bus, owner, link, calls, handling,
                   pipe, executed>>

(* Application::stop(): the daemon has saved everything. *)
stop ==
    /\ stage[First] = "running" /\ stopping /\ Destroy
    /\ UNCHANGED programVars

Loop == /\ stage[First] = "running" /\ handling = None
        /\ MainLoop \/ OnResponse
        /\ UNCHANGED programVars

OtherThread(t) == /\ stage[First] \in {"constructing", "starting", "running"}
                  /\ Thread(t)
                  /\ UNCHANGED programVars

Report(t) == /\ stage[First] \in {"constructing", "starting", "running"}
             /\ Warn(t)
             /\ UNCHANGED programVars

-----------------------------------------------------------------------------
(* The ends. *)

Quit ==
    /\ Looping /\ life = "destroyed" /\ At(First, "running", "quit")
    /\ UNCHANGED <<vars, kind, options, bus, owner, link, calls, handling, pipe,
                   stopping, executed>>

(* Mutant: the name is given up before the link is removed. *)
MutRemoveLink ==
    /\ stage[First] = "quit"
    /\ \/ owner = First /\ owner' = None /\ UNCHANGED <<stage, link>>
       \/ owner # First /\ link' = None /\ At(First, "quit", "leaving")
          /\ UNCHANGED owner
    /\ UNCHANGED <<vars, kind, options, bus, calls, handling, pipe, stopping,
                   executed>>

RemoveLink ==
    /\ At(First, "quit", "leaving") /\ link' = None
    /\ UNCHANGED <<vars, kind, options, bus, owner, calls, handling, pipe, stopping,
                   executed>>

(* The end of main(): the name on the bus goes with the connection. *)
Exit ==
    /\ stage[First] = "leaving" /\ Gone({First}, "ended")
    /\ UNCHANGED <<kind, options, bus, link, handling, pipe, stopping, executed>>

(* Memory that has been freed is used. *)
Abort ==
    /\ Alive(First) /\ main = "failed" /\ stage[First] # "explaining"
    /\ Gone({First}, "crashed")
    /\ UNCHANGED <<kind, options, bus, link, handling, pipe, stopping, executed>>

(* An assertion fails: the process executes the program anew, which knows
   nothing of the bus and of signals, to show what happened in a window. *)
error_function ==
    /\ Alive(First) /\ stage[First] # "explaining"
    /\ \E t \in Threads : thread[t] = "failed"
    /\ Gone({First}, "explaining")
    /\ UNCHANGED <<kind, options, bus, link, handling, pipe, stopping, executed>>

on_error_window_ok_button_callback ==
    /\ At(First, "explaining", "failed")
    /\ UNCHANGED <<vars, kind, options, bus, owner, link, calls, handling, pipe,
                   stopping, executed>>

Crash(p) ==
    /\ Alive(p) /\ Gone({p}, "crashed")
    /\ UNCHANGED <<kind, options, bus, link, handling, pipe, stopping, executed>>

(* Another process that has become the owner serves those who ask it. *)
Serve(p) ==
    /\ owner \in Others /\ stage[owner] = "running" /\ p \in calls
    /\ calls' = calls \ {p}
    /\ executed' = Processed(p, FALSE)
    /\ stage' = Answered(p, "ok")
    /\ UNCHANGED <<vars, kind, options, bus, owner, link, handling, pipe, stopping>>

(* The session of the user ends, with all the processes of it; another one has
   another bus. *)
NewSession ==
    /\ bus < MaxSessions /\ bus' = bus + 1
    /\ \E p \in Processes : Alive(p)
    /\ Gone({p \in Processes : Alive(p)}, "crashed")
    /\ UNCHANGED <<kind, options, link, handling, pipe, stopping, executed>>

-----------------------------------------------------------------------------
Serving(p) == RequestName(p) \/ HasName(p) \/ Pass(p) \/ TimeOut(p)
              \/ RemoveOldLink(p) \/ CreateLink(p) \/ TakeOptions(p) \/ Serve(p)

Closing == TakeSignal \/ on_close_signal_cb \/ stop \/ RemoveLink \/ Exit

ProgramNext ==
    \/ \E p \in Processes :
           \/ \E k \in {"gui", "pass", "console"}, o \in BOOLEAN : Launch(p, k, o)
           \/ Serving(p) \/ Crash(p)
    \/ Constructed \/ Started \/ FailToStart
    \/ dbus_cmd_options \/ dbus_cmd_options_too_late
    \/ Signalled \/ close \/ Closing \/ Quit \/ NewSession
    \/ Abort \/ error_function \/ on_error_window_ok_button_callback
    \/ Loop \/ \E t \in Threads : Report(t) \/ OtherThread(t)

ProgramSpec == ProgramInit /\ [][ProgramNext]_allVars

(* Everything goes on in a process that lives, the user closes the dialogs, and
   the daemon stops in the end; nobody has to start or close anything.  Whether
   the main loop may be left (Quit) depends on what runs in it. *)
ProgramFairness ==
    /\ \A p \in Processes : WF_allVars(Serving(p))
    /\ WF_allVars(Constructed) /\ WF_allVars(Started \/ FailToStart)
    /\ WF_allVars(Loop) /\ \A t \in Threads : WF_allVars(OtherThread(t))
    /\ WF_allVars(dbus_cmd_options \/ dbus_cmd_options_too_late)
    /\ WF_allVars(Closing) /\ WF_allVars(Abort \/ error_function)
    /\ WF_allVars(on_error_window_ok_button_callback)

-----------------------------------------------------------------------------
(* Properties. *)

(* Whoever runs an Application has the name, is alone with it, and the link
   leads to its bus, whatever the processes before it have left behind. *)
LinkLeadsToOwner ==
    \A p \in Processes :
        stage[p] \in {"constructing", "starting", "running", "quit"} =>
            owner = p /\ link = bus

(* What a process tells its user of the options it handed over is true, whoever
   was the owner at the time: those accepted were processed once, and before
   the daemon began to save what it knows; those rejected never will be.  So
   are those of a process that has become the owner itself. *)
AnswersAreTrue ==
    \A p \in Processes :
        /\ executed[p] \in {"no", "kept"}
        /\ stage[p] \in {"ok", "running", "ended"} /\ options[p] =>
               executed[p] = "kept"
        /\ stage[p] \in {"rejected", "nothing"} => executed[p] = "no"

(* Not kept, as options may be processed that were thought not to be: an error
   means that nothing has been or will be done.  *)
ErrorsAreTrue ==
    \A p \in Processes : stage[p] = "failed" => executed[p] = "no"

(* A signal ends the process, when and in whatever role it gets it. *)
SignalEnds == pipe = "sent" ~> ~Alive(First)
=============================================================================
