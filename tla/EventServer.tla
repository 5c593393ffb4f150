---------------------------- MODULE EventServer ----------------------------
(***************************************************************************)
(* The event server and the script that starts and stops it.  Several      *)
(* callers may run server_start.sh at once; all they share is the pidfile. *)
(* A server binds the port, or ends if it cannot, and answers one request  *)
(* at a time: header, open of /dev/muon_timer, and then a line for every   *)
(* record, until a write finds that the client is gone.                    *)
(***************************************************************************)
EXTENDS Integers, FiniteSets

CONSTANTS Callers,    \* who runs the script
          MaxServers  \* bound on the servers ever started; pids are not used again

ASSUME ServerAssumption == MaxServers \in Nat

Pids == 1..MaxServers
None == 0
Other == -1   \* some other program that uses the device

VARIABLES
  server,     \* what each server process does, in its turn "none" before its start
  pidfile,    \* the pid in the pidfile, None without a file
  script,     \* where each caller's script is, and its $PID
  device,     \* who has /dev/muon_timer open
  client,     \* the client of the request that is served
  overlapped  \* two scripts have run at the same time

procVars == <<server, device, client>>
vars == <<procVars, pidfile, script, overlapped>>

Alive(p) == p \in Pids /\ server[p] \notin {"none", "dead"}
HasPort(p) == server[p] \in {"listening", "opening", "serving"}

Done == [cmd |-> "none", at |-> "idle", pid |-> None]

Init ==
  /\ server = [p \in Pids |-> "none"]
  /\ pidfile = None
  /\ script = [c \in Callers |-> Done]
  /\ device = None
  /\ client = "none"
  /\ overlapped = FALSE

-----------------------------------------------------------------------------
(* server_start.sh.  The script goes from one line that reads or writes     *)
(* shared state to the next.                                                *)

At(c, line, pid) ==
  script' = [script EXCEPT ![c] = [cmd |-> script[c].cmd, at |-> line, pid |-> pid]]

Goto(c, from, to) == script[c].at = from /\ At(c, to, script[c].pid)

Ends(c, from) ==
  /\ script[c].at = from
  /\ script' = [script EXCEPT ![c] = Done]

\* The script is run with one of its words.
Run(c, cmd) ==
  /\ script[c] = Done
  /\ script' = [script EXCEPT ![c] = [cmd |-> cmd, at |-> cmd, pid |-> None]]
  /\ overlapped' = (overlapped \/ \E d \in Callers : script[d] # Done)
  /\ UNCHANGED <<procVars, pidfile>>

\* if [ -f "$PID_PATH" ]
StartTest(c) ==
  /\ Goto(c, "start", IF pidfile = None THEN "daemon" ELSE "cat")
  /\ UNCHANGED <<procVars, pidfile, overlapped>>

\* PID="`cat $PID_PATH`", empty when the file has gone.
Cat(c, from, to) ==
  /\ script[c].at = from
  /\ At(c, to, pidfile)
  /\ UNCHANGED <<procVars, pidfile, overlapped>>

\* ps finds no such process.  An empty $PID equals the empty answer of ps, which
\* the comparison takes for a process that is there.
NotFound(c) == script[c].pid # None /\ ~Alive(script[c].pid)

\* The server is there and the script ends, or the pidfile is to be removed.
Ps(c, from, remove) ==
  /\ IF NotFound(c) THEN Goto(c, from, remove) ELSE Ends(c, from)
  /\ UNCHANGED <<procVars, pidfile, overlapped>>

\* rm -f "$PID_PATH" of a server that is gone, and $0 start once more.
RemoveStale(c) ==
  /\ Goto(c, "stale", "start")
  /\ pidfile' = None
  /\ UNCHANGED <<procVars, overlapped>>

\* start-stop-daemon --start looks for the server that the pidfile names.
DaemonTest(c) ==
  /\ Goto(c, "daemon", IF Alive(pidfile) THEN "cat new" ELSE "spawn")
  /\ UNCHANGED <<procVars, pidfile, overlapped>>

\* It starts a server in the background, but the pidfile is not written.
SpawnNoPidfile(c) ==
  /\ Goto(c, "spawn", "cat new")
  /\ \E p \in Pids : /\ server[p] = "none" /\ \A q \in 1..(p - 1) : server[q] # "none"
                     /\ server' = [server EXCEPT ![p] = "booting"]
  /\ UNCHANGED <<pidfile, device, client, overlapped>>

\* It starts a server in the background and writes its pid.
Spawn(c) ==
  /\ Goto(c, "spawn", "cat new")
  /\ \E p \in Pids : /\ server[p] = "none" /\ \A q \in 1..(p - 1) : server[q] # "none"
                     /\ server' = [server EXCEPT ![p] = "booting"]
                     /\ pidfile' = p
  /\ UNCHANGED <<device, client, overlapped>>

\* The new server is gone already: rm -f "$PID_PATH" and exit 1.
RemoveFailed(c) ==
  /\ Ends(c, "failed")
  /\ pidfile' = None
  /\ UNCHANGED <<procVars, overlapped>>

Start(c) ==
  \/ StartTest(c)
  \/ Cat(c, "cat", "ps") \/ Ps(c, "ps", "stale") \/ RemoveStale(c)
  \/ DaemonTest(c) \/ Spawn(c)
  \/ Cat(c, "cat new", "ps new") \/ Ps(c, "ps new", "failed") \/ RemoveFailed(c)

\* With a pidfile a restart is a stop that goes on with a start.
RestartTest(c) ==
  /\ Goto(c, "restart", IF pidfile = None THEN "start" ELSE "stop")
  /\ UNCHANGED <<procVars, pidfile, overlapped>>

\* Without a pidfile a stop has nothing to do.
StopTest(c) ==
  /\ IF pidfile # None THEN Goto(c, "stop", "kill")
     ELSE IF script[c].cmd = "restart" THEN Goto(c, "stop", "start")
     ELSE Ends(c, "stop")
  /\ UNCHANGED <<procVars, pidfile, overlapped>>

Kill(p) ==
  /\ server' = [server EXCEPT ![p] = "dead"]
  /\ device' = IF device = p THEN None ELSE device
  /\ client' = IF HasPort(p) THEN "none" ELSE client

\* start-stop-daemon --stop ends the server that the pidfile names and waits
\* for that.  That there is none is a result the script goes on with.
StopKill(c) ==
  /\ Goto(c, "kill", "remove")
  /\ IF Alive(pidfile) THEN Kill(pidfile) ELSE UNCHANGED procVars
  /\ UNCHANGED <<pidfile, overlapped>>

StopRemove(c) ==
  /\ IF script[c].cmd = "restart" THEN Goto(c, "remove", "start") ELSE Ends(c, "remove")
  /\ pidfile' = None
  /\ UNCHANGED <<procVars, overlapped>>

Stop(c) == RestartTest(c) \/ StopTest(c) \/ StopKill(c) \/ StopRemove(c)

\* The caller stops the script between two of its lines.
Interrupted(c) ==
  /\ script[c] # Done /\ Ends(c, script[c].at)
  /\ UNCHANGED <<procVars, pidfile, overlapped>>

-----------------------------------------------------------------------------
(* event_server.py                                                          *)

\* HTTPServer binds the port; when it cannot, the program logs that and ends.
Bind(p) ==
  /\ server[p] = "booting"
  /\ server' = [server EXCEPT ![p] = IF \E q \in Pids : HasPort(q) THEN "dead" ELSE "listening"]
  /\ UNCHANGED <<device, client, pidfile, script, overlapped>>

\* A GET request, and its header, with status 200.
Accept(p) ==
  /\ server[p] = "listening"
  /\ server' = [server EXCEPT ![p] = "opening"]
  /\ client' = "there"
  /\ UNCHANGED <<device, pidfile, script, overlapped>>

\* The answer ends without the connection being closed.
FinishKeepsClient(p) ==
  /\ server' = [server EXCEPT ![p] = "listening"]
  /\ UNCHANGED client

\* The answer ends and the next request is accepted.
Finish(p) ==
  /\ server' = [server EXCEPT ![p] = "listening"]
  /\ client' = "none"

\* The header finds no client, or open('/dev/muon_timer') fails, be it that the
\* driver is not loaded or that the device is busy: an IOError, and the answer
\* has no more than its header.  Otherwise the server reads.
Open(p) ==
  /\ server[p] = "opening"
  /\ \/ Finish(p) /\ UNCHANGED device
     \/ /\ device = None
        /\ device' = p
        /\ server' = [server EXCEPT ![p] = "serving"]
        /\ UNCHANGED client
  /\ UNCHANGED <<pidfile, script, overlapped>>

ClientLeaves ==
  /\ client = "there"
  /\ client' = "gone"
  /\ UNCHANGED <<server, device, pidfile, script, overlapped>>

\* A loop that goes on after a failed write.
ServeOn(p) ==
  /\ server[p] = "serving"
  /\ client' = IF client = "gone" THEN "reset" ELSE client
  /\ UNCHANGED <<server, device, pidfile, script, overlapped>>

\* A server that does not close the device after a failed write.
ServeKeepsDevice(p) ==
  /\ server[p] = "serving"
  /\ \/ client = "there" /\ UNCHANGED <<server, client>>
     \/ client = "gone" /\ client' = "reset" /\ UNCHANGED server
     \/ Finish(p)
  /\ UNCHANGED <<device, pidfile, script, overlapped>>

\* A record is read and its line written.  The first write after the client has
\* left may still succeed.  A read or write that fails ends the answer, and the
\* with statement closes the device; what the handler of any exception but an
\* IOError writes then, changes nothing of that.
Serve(p) ==
  /\ server[p] = "serving"
  /\ \/ client = "there" /\ UNCHANGED <<server, device, client>>
     \/ client = "gone" /\ client' = "reset" /\ UNCHANGED <<server, device>>
     \/ Finish(p) /\ device' = None
  /\ UNCHANGED <<pidfile, script, overlapped>>

\* The server ends by itself, at any point.
Crash(p) == Alive(p) /\ Kill(p) /\ UNCHANGED <<pidfile, script, overlapped>>

\* Another program opens or closes the device.
OtherUses ==
  /\ \/ device = None /\ device' = Other
     \/ device = Other /\ device' = None
  /\ UNCHANGED <<server, client, pidfile, script, overlapped>>

-----------------------------------------------------------------------------
ScriptStep == \E c \in Callers : Start(c) \/ Stop(c) \/ Interrupted(c)

Next ==
  \/ \E c \in Callers, cmd \in {"start", "stop", "restart"} : Run(c, cmd)
  \/ ScriptStep
  \/ \E p \in Pids : Bind(p) \/ Accept(p) \/ Open(p) \/ Serve(p) \/ Crash(p)
  \/ ClientLeaves \/ OtherUses

Spec == Init /\ [][Next]_vars

\* Muons keep coming, so a server that reads gets records and writes them.
FairSpec == Spec /\ \A p \in Pids : WF_vars(Serve(p))

-----------------------------------------------------------------------------
(* Properties.                                                             *)

\* Every variable has its type, one server at most has the port, and there is a
\* client exactly while a request is answered.
TypeOK ==
  /\ server \in [Pids -> {"none", "booting", "listening", "opening", "serving", "dead"}]
  /\ pidfile \in Pids \cup {None}
  /\ script \in [Callers -> [cmd : {"none", "start", "stop", "restart"},
                             at : {"idle", "start", "cat", "ps", "stale", "daemon", "spawn",
                                   "cat new", "ps new", "failed", "restart", "stop", "kill",
                                   "remove"},
                             pid : Pids \cup {None}]]
  /\ device \in Pids \cup {None, Other}
  /\ client \in {"none", "there", "gone", "reset"}
  /\ Cardinality({p \in Pids : HasPort(p)}) <= 1
  /\ client # "none" <=> \E p \in Pids : server[p] \in {"opening", "serving"}
  /\ overlapped \in BOOLEAN

\* A server has the device open only while it answers a request: not while it
\* waits for one, and not when it was stopped or has crashed in the middle of an
\* answer (event_server.py lines 29-43).
DeviceOnlyWhileServing == device \in Pids => server[device] = "serving"

\* As long as no two scripts have run at the same time, a server that is alive
\* is the one the pidfile names, so that stop will find it: also after servers
\* that ended, or scripts that were stopped, between any two lines
\* (server_start.sh lines 29-91).
RunningIsNamed ==
  ~overlapped /\ (\A c \in Callers : script[c] = Done) =>
    \A p \in Pids : Alive(p) => pidfile = p

\* Once the client has gone, the server gets back to accepting requests (lines
\* 34-43): a device with muons never leaves it reading for nobody.
ServerComesBack ==
  \A p \in Pids :
    (server[p] = "serving" /\ client # "there") ~> (server[p] # "serving")
=============================================================================
