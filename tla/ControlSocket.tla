---------------------------- MODULE ControlSocket ----------------------------
(***************************************************************************)
(* The command controller: recorders that bind the socket at               *)
(* RS_COMMAND_CONTROL_PATH (control/cmdctrl.c over socket.c), and the      *)
(* "replay-sorcery save" commands that connect to it (command/ctrlcmd.c).  *)
(* The service manager starts its recorder again after every end, others   *)
(* are started by hand; any may crash, which leaves the path behind.       *)
(***************************************************************************)
EXTENDS Naturals, Sequences

CONSTANTS
    Instances,   \* processes that run as recorders
    Service,     \* the one of them that the service manager restarts
    Clients,     \* keys bound to "replay-sorcery save"
    Nobody,      \* there is no file at the path
    Dead,        \* the file is there, the socket bound to it is closed
    Backlog,     \* connections the kernel queues: listen's argument, plus one
    MaxCrashes   \* bound on the crashes in a behaviour

ASSUME PathAssumption == Nobody \notin Instances /\ Dead \notin Instances /\ Nobody # Dead
ASSUME ServiceAssumption == Service \in Instances
ASSUME BoundAssumption == Backlog \in Nat \ {0} /\ MaxCrashes \in Nat

VARIABLES
    path,     \* what RS_COMMAND_CONTROL_PATH leads to
    pc,       \* where each instance is in the life of its socket
    bindPath, \* RSSocket.bindPath is set
    queue,    \* connections each instance has not yet accepted
    status,   \* each client's "save", and what became of it
    crashes,  \* crashes so far
    alone     \* history: it has been the only instance since it was started

vars == <<path, pc, bindPath, queue, status, crashes, alone>>

Init ==
    /\ path = Nobody
    /\ pc = [i \in Instances |-> "down"]
    /\ bindPath = [i \in Instances |-> FALSE]
    /\ queue = [i \in Instances |-> <<>>]
    /\ status = [c \in Clients |-> "idle"]
    /\ crashes = 0
    /\ alone = [i \in Instances |-> FALSE]

Goto(i, label) == pc' = [pc EXCEPT ![i] = label]

-----------------------------------------------------------------------------
(* rsCommandControlCreate: rsSocketCreate and rsSocketBind.                *)

\* rsSocketBind notes the path before it creates directory and socket there.
\* (When the socket or the note fails, nothing has happened yet.)
Start(i) ==
    /\ pc[i] = "down"
    /\ Goto(i, "bind")
    /\ bindPath' = [bindPath EXCEPT ![i] = TRUE]
    /\ alone' = [j \in Instances |-> j = i /\ \A k \in Instances \ {i} : pc[k] = "down"]
    /\ UNCHANGED <<path, queue, status, crashes>>

Bind(i) ==
    /\ pc[i] = "bind"
    /\ path = Nobody
    /\ path' = i
    /\ Goto(i, "listen")
    /\ UNCHANGED <<bindPath, queue, status, crashes, alone>>

BindIgnored == "listen"             \* mutant: the result of bind is not tested
BindClosed == "close"               \* mutant: a failed bind only closes the socket
AfterFailedBind == "abandon"

\* The path exists, or the directory cannot be created: rsControlDestroy.
BindFailed(i) ==
    /\ pc[i] = "bind"
    /\ Goto(i, AfterFailedBind)
    /\ UNCHANGED <<path, bindPath, queue, status, crashes, alone>>

Listen(i) ==
    /\ pc[i] = "listen"
    /\ Goto(i, "running")
    /\ UNCHANGED <<path, bindPath, queue, status, crashes, alone>>

ListenFailed(i) ==
    /\ pc[i] = "listen"
    /\ Goto(i, "abandon")
    /\ UNCHANGED <<path, bindPath, queue, status, crashes, alone>>

-----------------------------------------------------------------------------
(* The running recorder.                                                   *)

RestDropped(i) == <<>>              \* mutant: one poll answers all connections
RestOf(i) == Tail(queue[i])

\* commandControlWantsSave: one connection is accepted, one save is made.
Poll(i) ==
    /\ pc[i] = "running"
    /\ queue[i] # <<>>
    /\ status' = [status EXCEPT ![Head(queue[i])] = "saved"]
    /\ queue' = [queue EXCEPT ![i] = RestOf(i)]
    /\ UNCHANGED <<path, pc, bindPath, crashes, alone>>

\* main leaves its loop and destroys the controller.
Stop(i) ==
    /\ pc[i] = "running"
    /\ Goto(i, "destroy")
    /\ UNCHANGED <<path, bindPath, queue, status, crashes, alone>>

\* rsSocketDestroy removes the path, whoever's socket is there ...
Remove(i) ==
    /\ pc[i] \in {"destroy", "abandon"}
    /\ path' = IF bindPath[i] THEN Nobody ELSE path
    /\ bindPath' = [bindPath EXCEPT ![i] = FALSE]
    /\ Goto(i, "close")
    /\ UNCHANGED <<queue, status, crashes, alone>>

\* The socket is closed with the connections nobody accepted.
Closed(i) ==
    /\ Goto(i, "down")
    /\ queue' = [queue EXCEPT ![i] = <<>>]
    /\ status' = [c \in Clients |->
                     IF \E k \in DOMAIN queue[i] : queue[i][k] = c THEN "lost" ELSE status[c]]
    /\ alone' = [alone EXCEPT ![i] = FALSE]

\* ... and then closes it.
Close(i) ==
    /\ pc[i] = "close"
    /\ Closed(i)
    /\ UNCHANGED <<path, bindPath, crashes>>

\* The process dies: the kernel closes its socket, the path stays.
Crash(i) ==
    /\ pc[i] # "down"
    /\ crashes < MaxCrashes
    /\ crashes' = crashes + 1
    /\ path' = IF path = i THEN Dead ELSE path
    /\ bindPath' = [bindPath EXCEPT ![i] = FALSE]
    /\ Closed(i)

-----------------------------------------------------------------------------
(* rsControlSave.                                                          *)

Press(c) ==
    /\ status[c] = "idle"
    /\ status' = [status EXCEPT ![c] = "connecting"]
    /\ UNCHANGED <<path, pc, bindPath, queue, crashes, alone>>

Listening == path \in Instances /\ pc[path] \in {"running", "destroy"}

\* connect succeeds, and the command ends with success.
Connect(c) ==
    /\ status[c] = "connecting"
    /\ Listening
    /\ Len(queue[path]) < Backlog
    /\ queue' = [queue EXCEPT ![path] = Append(@, c)]
    /\ status' = [status EXCEPT ![c] = "queued"]
    /\ UNCHANGED <<path, pc, bindPath, crashes, alone>>

\* There is no path, or nobody listens: the command fails.
ConnectFailed(c) ==
    /\ status[c] = "connecting"
    /\ ~ Listening
    /\ status' = [status EXCEPT ![c] = "failed"]
    /\ UNCHANGED <<path, pc, bindPath, queue, crashes, alone>>

\* The key can be pressed again.
Forget(c) ==
    /\ status[c] \in {"saved", "lost", "failed"}
    /\ status' = [status EXCEPT ![c] = "idle"]
    /\ UNCHANGED <<path, pc, bindPath, queue, crashes, alone>>

-----------------------------------------------------------------------------
Instance(i) ==
    \/ Start(i) \/ Bind(i) \/ BindFailed(i) \/ Listen(i) \/ ListenFailed(i)
    \/ Poll(i) \/ Stop(i) \/ Remove(i) \/ Close(i) \/ Crash(i)

Client(c) == Press(c) \/ Connect(c) \/ ConnectFailed(c) \/ Forget(c)

Next == (\E i \in Instances : Instance(i)) \/ (\E c \in Clients : Client(c))

(***************************************************************************)
(* The service is restarted (Restart=always), all instances are scheduled; *)
(* bind and listen succeed at last when they can.  Nobody has to press a   *)
(* key, to start a recorder by hand, to stop or to crash.                  *)
(***************************************************************************)
Fairness ==
    /\ WF_vars(Start(Service))
    /\ \A i \in Instances :
          /\ SF_vars(Bind(i)) /\ WF_vars(BindFailed(i))
          /\ SF_vars(Listen(i)) /\ WF_vars(Poll(i))
          /\ WF_vars(Remove(i)) /\ WF_vars(Close(i))
    /\ \A c \in Clients : WF_vars(Connect(c) \/ ConnectFailed(c))

Spec == Init /\ [][Next]_vars /\ Fairness

-----------------------------------------------------------------------------
\* Every variable has a value of its type, and a save command is waiting exactly
\* when it is in the queue of some instance's socket.
TypeOK ==
    /\ path \in Instances \cup {Nobody, Dead}
    /\ pc \in [Instances -> {"down", "bind", "listen", "running", "destroy", "abandon", "close"}]
    /\ bindPath \in [Instances -> BOOLEAN]
    /\ alone \in [Instances -> BOOLEAN]
    /\ queue \in [Instances -> Seq(Clients)]
    /\ status \in [Clients -> {"idle", "connecting", "queued", "saved", "lost", "failed"}]
    /\ crashes \in 0..MaxCrashes
    /\ \A c \in Clients :
          status[c] = "queued" <=> \E i \in Instances : \E k \in DOMAIN queue[i] : queue[i][k] = c

\* A recorder that runs can be reached: README.md:84-87 has the user bind
\* "replay-sorcery save" to a key, and gives no other way to ask for a save.
Reachable == \A i \in Instances : pc[i] = "running" => path = i

\* That much is true: a recorder that has been alone since it was started can be
\* reached, whatever crash or failed start came before it (rsSocketBind's tests).
SoleReachable == \A i \in Instances : pc[i] = "running" /\ alone[i] => path = i

\* A save command that ended with success leads to a save, or the recorder it
\* reached has ended: no connection is dropped, none waits for ever
\* (commandControlWantsSave accepts one connection for each save it reports).
SaveHonoured == \A c \in Clients : status[c] = "queued" ~> status[c] # "queued"

\* After a crash the service manager's restarts bring back a recorder that can be
\* reached, although the first of them finds the path in use (rsSocketDestroy
\* after the failed bind removes it), unless a recorder started by hand takes
\* the path from it.
Recovers ==
    [](path = Dead /\ pc[Service] = "down" /\ [](\A j \in Instances \ {Service} : pc[j] = "down")
          => <>(pc[Service] = "running" /\ path = Service))
=============================================================================
