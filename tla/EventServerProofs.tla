------------------------- MODULE EventServerProofs -------------------------
(***************************************************************************)
(* Proofs about the event server and its script, for any number of callers *)
(* and of servers.                                                         *)
(***************************************************************************)
EXTENDS EventServer, FiniteSetTheorems, TLAPS

-----------------------------------------------------------------------------
(* Types.                                                                  *)

Lines == {"idle", "start", "cat", "ps", "stale", "daemon", "spawn", "cat new", "ps new",
          "failed", "restart", "stop", "kill", "remove"}
Scripts ==
  [Callers -> [cmd : {"none", "start", "stop", "restart"}, at : Lines, pid : Pids \cup {None}]]

\* Of the types, what the rest of the proofs needs.
Typed ==
  /\ server \in [Pids -> {"none", "booting", "listening", "opening", "serving", "dead"}]
  /\ pidfile \in Pids \cup {None}
  /\ script \in Scripts
  /\ overlapped \in BOOLEAN

LEMMA PidsArePositive == Pids \subseteq Nat /\ None \notin Pids /\ Other \notin Pids
BY ServerAssumption DEF Pids, None, Other

\* One script goes to another line, and no other script moves.
LEMMA AtMoves ==
  ASSUME Typed, NEW c \in Callers, NEW line \in Lines, NEW pid \in Pids \cup {None},
         At(c, line, pid)
  PROVE  /\ script' \in Scripts
         /\ script'[c].at = line /\ script'[c].pid = pid
         /\ \A d \in Callers \ {c} : script'[d] = script[d]
BY DEF Typed, At, Scripts

LEMMA GotoMoves ==
  ASSUME Typed, NEW c \in Callers, NEW from, NEW to \in Lines, Goto(c, from, to)
  PROVE  /\ script' \in Scripts /\ script[c].at = from
         /\ script'[c].at = to /\ script'[c].pid = script[c].pid
         /\ \A d \in Callers \ {c} : script'[d] = script[d]
<1>1. script[c].pid \in Pids \cup {None} /\ At(c, to, script[c].pid) /\ script[c].at = from
  BY DEF Typed, Scripts, Goto
<1> QED
  BY <1>1, AtMoves

LEMMA EndsMoves ==
  ASSUME Typed, NEW c \in Callers, NEW from, Ends(c, from)
  PROVE  /\ script' \in Scripts /\ script[c].at = from
         /\ script'[c] = Done /\ script'[c].at = "idle"
         /\ \A d \in Callers \ {c} : script'[d] = script[d]
BY DEF Typed, Ends, Scripts, Lines, Done

\* Every line of the script leads to a line of it.
LEMMA ScriptMoves ==
  ASSUME Typed, NEW c \in Callers, Start(c) \/ Stop(c) \/ Interrupted(c)
  PROVE  /\ script' \in Scripts /\ script[c] # Done
         /\ \A d \in Callers \ {c} : script'[d] = script[d]
<1> DEFINE Good == /\ script' \in Scripts /\ script[c] # Done
                   /\ \A d \in Callers \ {c} : script'[d] = script[d]
<1> SUFFICES Good
  OBVIOUS
<1>1. Done.at = "idle"
  BY DEF Done
<1>2. ASSUME NEW from, NEW to \in Lines, Goto(c, from, to), from # "idle"
      PROVE  Good
  BY <1>1, <1>2, GotoMoves
<1>3. ASSUME NEW from, Ends(c, from), from # "idle"
      PROVE  Good
  BY <1>1, <1>3, EndsMoves
<1>4. ASSUME NEW from, NEW to \in Lines, Cat(c, from, to), from # "idle"
      PROVE  Good
  <2>1. pidfile \in Pids \cup {None} /\ At(c, to, pidfile) /\ script[c].at = from
    BY <1>4 DEF Typed, Cat
  <2> QED
    BY <1>1, <1>4, <2>1, AtMoves
<1>5. CASE Interrupted(c)
  <2>1. script[c] # Done /\ Ends(c, script[c].at)
    BY <1>5 DEF Interrupted
  <2> QED
    BY <2>1, EndsMoves
<1> HIDE DEF Good
<1>6. CASE StartTest(c)
  <2>1. Goto(c, "start", "daemon") \/ Goto(c, "start", "cat")
    BY <1>6 DEF StartTest
  <2> QED
    BY <2>1, <1>2 DEF Lines
<1>7. CASE Cat(c, "cat", "ps") \/ Cat(c, "cat new", "ps new")
  BY <1>7, <1>4 DEF Lines
<1>8. CASE Ps(c, "ps", "stale") \/ Ps(c, "ps new", "failed")
  <2>1. \/ Goto(c, "ps", "stale") \/ Ends(c, "ps")
        \/ Goto(c, "ps new", "failed") \/ Ends(c, "ps new")
    BY <1>8 DEF Ps
  <2> QED
    BY <2>1, <1>2, <1>3 DEF Lines
<1>9. CASE RemoveStale(c) \/ RemoveFailed(c)
  BY <1>9, <1>2, <1>3 DEF RemoveStale, RemoveFailed, Lines
<1>10. CASE DaemonTest(c) \/ Spawn(c)
  <2>1. Goto(c, "daemon", "cat new") \/ Goto(c, "daemon", "spawn") \/ Goto(c, "spawn", "cat new")
    BY <1>10 DEF DaemonTest, Spawn
  <2> QED
    BY <2>1, <1>2 DEF Lines
<1>11. CASE Stop(c)
  <2>1. \/ Goto(c, "restart", "start") \/ Goto(c, "restart", "stop")
        \/ Goto(c, "stop", "kill") \/ Goto(c, "stop", "start") \/ Ends(c, "stop")
        \/ Goto(c, "kill", "remove")
        \/ Goto(c, "remove", "start") \/ Ends(c, "remove")
    BY <1>11 DEF Stop, RestartTest, StopTest, StopKill, StopRemove
  <2> QED
    BY <2>1, <1>2, <1>3 DEF Lines
<1> QED
  BY <1>5, <1>6, <1>7, <1>8, <1>9, <1>10, <1>11 DEF Start

LEMMA NextTyped == Typed /\ [Next]_vars => Typed'
<1> SUFFICES ASSUME Typed, [Next]_vars
             PROVE  Typed'
  OBVIOUS
<1> USE PidsArePositive DEF Typed, vars, procVars
<1>1. ASSUME NEW p \in Pids, Bind(p) \/ Accept(p) \/ Open(p) \/ Serve(p) \/ Crash(p)
      PROVE  Typed'
  BY <1>1 DEF Bind, Accept, Open, Finish, Serve, Crash, Kill
<1>2. CASE ClientLeaves \/ OtherUses \/ UNCHANGED vars
  BY <1>2 DEF ClientLeaves, OtherUses
<1>3. ASSUME NEW c \in Callers, NEW cmd \in {"start", "stop", "restart"}, Run(c, cmd)
      PROVE  Typed'
  <2>1. script' \in Scripts
    BY <1>3 DEF Run, Scripts, Lines
  <2> QED
    BY <1>3, <2>1 DEF Run
<1>4. ASSUME NEW c \in Callers, Start(c) \/ Stop(c) \/ Interrupted(c)
      PROVE  Typed'
  <2>1. script' \in Scripts /\ UNCHANGED overlapped
    BY <1>4, ScriptMoves DEF Start, Stop, Interrupted, StartTest, Cat, Ps, RemoveStale,
       DaemonTest, Spawn, RemoveFailed, RestartTest, StopTest, StopKill, StopRemove
  <2>2. pidfile' \in Pids \cup {None}
    BY <1>4 DEF Start, Stop, Interrupted, StartTest, Cat, Ps, RemoveStale,
       DaemonTest, Spawn, RemoveFailed, RestartTest, StopTest, StopKill, StopRemove
  <2>3. server' \in [Pids -> {"none", "booting", "listening", "opening", "serving", "dead"}]
    BY <1>4 DEF Start, Stop, Interrupted, StartTest, Cat, Ps, RemoveStale,
       DaemonTest, Spawn, RemoveFailed, RestartTest, StopTest, StopKill, StopRemove, Kill
  <2> QED
    BY <2>1, <2>2, <2>3
<1> QED
  BY <1>1, <1>2, <1>3, <1>4 DEF Next, ScriptStep

LEMMA InitTyped == Init => Typed
<1> SUFFICES ASSUME Init PROVE Typed
  OBVIOUS
<1>1. Done \in [cmd : {"none", "start", "stop", "restart"}, at : Lines, pid : Pids \cup {None}]
  BY DEF Done, Lines
<1>2. script = [c \in Callers |-> Done]
  BY DEF Init
<1>3. script \in Scripts
  BY <1>1, <1>2 DEF Scripts
<1> QED
  BY <1>3 DEF Init, Typed

-----------------------------------------------------------------------------
(* The port and the client.                                                *)

Answering(p) == server[p] \in {"opening", "serving"}

\* One server at most has the port, so that there is one client at most.
PortInv ==
  /\ device \in Pids \cup {None, Other}
  /\ client \in {"none", "there", "gone", "reset"}
  /\ \A p, q \in Pids : HasPort(p) /\ HasPort(q) => p = q
  /\ client # "none" <=> \E p \in Pids : Answering(p)

\* A server that ends is the one with the port, and its client goes, or has
\* nothing to do with either.
LEMMA KillPort ==
  ASSUME Typed, PortInv, NEW p \in Pids, Kill(p)
  PROVE  PortInv'
<1> USE DEF Typed, PortInv, Kill, HasPort, Answering
<1>1. \A q \in Pids : server'[q] = IF q = p THEN "dead" ELSE server[q]
  OBVIOUS
<1>2. \A q \in Pids : HasPort(q)' <=> q # p /\ HasPort(q)
  BY <1>1
<1>3. \A q \in Pids : Answering(q)' <=> q # p /\ Answering(q)
  BY <1>1
<1>4. client' # "none" <=> \E q \in Pids : Answering(q)'
  BY <1>3
<1> QED
  BY <1>2, <1>4

LEMMA NextPort ==
  ASSUME Typed, PortInv, [Next]_vars
  PROVE  PortInv'
<1> USE PidsArePositive DEF Typed, PortInv, vars, procVars, HasPort, Answering
<1>1. ASSUME NEW p \in Pids, Bind(p) \/ Accept(p)
      PROVE  PortInv'
  <2>1. UNCHANGED device /\ client' \in {"none", "there", "gone", "reset"}
    BY <1>1 DEF Bind, Accept
  <2>2. \A q \in Pids \ {p} : server'[q] = server[q]
    BY <1>1 DEF Bind, Accept
  <2>3. CASE Bind(p)
    <3>1. \/ server'[p] = "dead"
          \/ server'[p] = "listening" /\ \A q \in Pids : ~HasPort(q)
      BY <2>3 DEF Bind
    <3>2. server[p] = "booting" /\ UNCHANGED client
      BY <2>3 DEF Bind
    <3>3. \A q \in Pids : Answering(q)' <=> Answering(q)
      BY <2>2, <3>1, <3>2
    <3> QED
      BY <2>1, <2>2, <3>1, <3>2, <3>3
  <2>4. CASE Accept(p)
    <3>1. server[p] = "listening" /\ server'[p] = "opening" /\ client' = "there"
      BY <2>4 DEF Accept
    <3>2. \A q \in Pids : HasPort(q)' <=> HasPort(q)
      BY <2>2, <3>1
    <3> QED
      BY <2>1, <3>1, <3>2
  <2> QED
    BY <1>1, <2>3, <2>4
<1>2. ASSUME NEW p \in Pids, Open(p) \/ Serve(p)
      PROVE  PortInv'
  <2>1. \A q \in Pids \ {p} : server'[q] = server[q]
    BY <1>2 DEF Open, Serve, Finish
  <2>2. HasPort(p) /\ HasPort(p)' /\ Answering(p)
    BY <1>2 DEF Open, Serve, Finish
  <2>3. device' \in Pids \cup {None, Other} /\ client' \in {"none", "there", "gone", "reset"}
    BY <1>2 DEF Open, Serve, Finish
  <2>4. client' # "none" <=> Answering(p)'
    BY <1>2, <2>2 DEF Open, Serve, Finish
  <2>5. \A q \in Pids \ {p} : ~Answering(q)'
    BY <2>1, <2>2
  <2> QED
    BY <2>1, <2>2, <2>3, <2>4, <2>5
<1>3. ASSUME NEW p \in Pids, Crash(p)
      PROVE  PortInv'
  BY <1>3, KillPort DEF Crash
<1>4. ASSUME NEW c \in Callers, Spawn(c)
      PROVE  PortInv'
  <2>1. UNCHANGED <<device, client>> /\ \A q \in Pids : HasPort(q)' <=> HasPort(q)
    BY <1>4 DEF Spawn
  <2>2. \A q \in Pids : Answering(q)' <=> Answering(q)
    BY <1>4 DEF Spawn
  <2> QED
    BY <2>1, <2>2
<1>5. ASSUME NEW c \in Callers, StopKill(c)
      PROVE  PortInv'
  BY <1>5, KillPort DEF StopKill, Alive
<1>6. ASSUME NEW c \in Callers, Start(c) \/ Stop(c) \/ Interrupted(c)
      PROVE  Spawn(c) \/ StopKill(c) \/ UNCHANGED procVars
  BY <1>6 DEF Start, Stop, Interrupted, StartTest, Cat, Ps, RemoveStale, DaemonTest,
              RemoveFailed, RestartTest, StopTest, StopRemove
<1>7. ASSUME NEW c \in Callers, NEW cmd, Run(c, cmd)
      PROVE  UNCHANGED procVars
  BY <1>7 DEF Run
<1>8. CASE UNCHANGED procVars
  BY <1>8
<1>9. CASE ClientLeaves \/ OtherUses
  BY <1>9 DEF ClientLeaves, OtherUses
<1> QED
  BY <1>1, <1>2, <1>3, <1>4, <1>5, <1>6, <1>7, <1>8, <1>9 DEF Next, ScriptStep

\* A set without two different elements has one at most.
LEMMA AtMostOne ==
  ASSUME NEW S, \A x, y \in S : x = y
  PROVE  Cardinality(S) <= 1
<1>1. CASE S = {}
  BY <1>1, FS_EmptySet
<1>2. ASSUME NEW x \in S
      PROVE  Cardinality(S) <= 1
  <2>1. S = {x}
    BY <1>2
  <2> QED
    BY <2>1, FS_Singleton
<1> QED
  BY <1>1, <1>2

\* One server at most has the port, however many were started and by whom, and
\* there is a client exactly while it answers (event_server.py lines 29-43, 89).
THEOREM TypeCorrect == Spec => []TypeOK
<1>1. ASSUME Init
      PROVE  PortInv
  <2>1. \A p \in Pids : server[p] = "none"
    BY <1>1 DEF Init
  <2> QED
    BY <1>1, <2>1 DEF Init, PortInv, HasPort, Answering
<1>2. ASSUME Typed, PortInv
      PROVE  TypeOK
  <2> DEFINE S == {p \in Pids : HasPort(p)}
  <2>1. \A p, q \in S : p = q
    BY <1>2 DEF PortInv
  <2>2. Cardinality(S) <= 1
    BY <2>1, AtMostOne
  <2> HIDE DEF S
  <2>3. client # "none" <=> \E p \in Pids : server[p] \in {"opening", "serving"}
    BY <1>2 DEF PortInv, Answering
  <2> QED
    BY <1>2, <2>2, <2>3 DEF TypeOK, Typed, PortInv, Scripts, Lines, S
<1> QED
  BY <1>1, <1>2, InitTyped, NextTyped, NextPort, PTL DEF Spec

-----------------------------------------------------------------------------
(* The device.                                                             *)

LEMMA NextDevice ==
  ASSUME Typed, DeviceOnlyWhileServing, [Next]_vars
  PROVE  DeviceOnlyWhileServing'
<1> USE PidsArePositive DEF Typed, DeviceOnlyWhileServing, vars, procVars
<1>1. ASSUME NEW p \in Pids, Kill(p)
      PROVE  DeviceOnlyWhileServing'
  BY <1>1 DEF Kill
<1>2. ASSUME NEW p \in Pids, Bind(p) \/ Accept(p)
      PROVE  DeviceOnlyWhileServing'
  BY <1>2 DEF Bind, Accept
<1>3. ASSUME NEW p \in Pids, Open(p)
      PROVE  DeviceOnlyWhileServing'
  BY <1>3 DEF Open, Finish
<1>4. ASSUME NEW p \in Pids, Serve(p)
      PROVE  DeviceOnlyWhileServing'
  BY <1>4 DEF Serve, Finish
<1>5. ASSUME NEW c \in Callers, Spawn(c)
      PROVE  DeviceOnlyWhileServing'
  BY <1>5 DEF Spawn
<1>6. ASSUME NEW c \in Callers, StopKill(c)
      PROVE  DeviceOnlyWhileServing'
  BY <1>6, <1>1 DEF StopKill, Alive
<1>7. CASE UNCHANGED <<server, device>>
  BY <1>7
<1>8. ASSUME NEW c \in Callers, Start(c) \/ Stop(c) \/ Interrupted(c)
      PROVE  Spawn(c) \/ StopKill(c) \/ UNCHANGED <<server, device>>
  BY <1>8 DEF Start, Stop, Interrupted, StartTest, Cat, Ps, RemoveStale, DaemonTest,
              RemoveFailed, RestartTest, StopTest, StopRemove
<1>9. CASE ClientLeaves \/ OtherUses \/ UNCHANGED vars
  BY <1>9 DEF ClientLeaves, OtherUses
<1>10. ASSUME NEW c \in Callers, NEW cmd, Run(c, cmd)
       PROVE  UNCHANGED <<server, device>>
  BY <1>10 DEF Run
<1> QED
  BY <1>1, <1>2, <1>3, <1>4, <1>5, <1>6, <1>7, <1>8, <1>9, <1>10 DEF Next, ScriptStep, Crash

\* A server never keeps the device past the answer it opened it for, whatever
\* clients, other programs and stops do (event_server.py lines 34-43).
THEOREM DeviceGivenBack == Spec => []DeviceOnlyWhileServing
<1>1. Init => DeviceOnlyWhileServing
  BY PidsArePositive DEF Init, DeviceOnlyWhileServing
<1> QED
  BY <1>1, InitTyped, NextTyped, NextDevice, PTL DEF Spec

-----------------------------------------------------------------------------
(* The pidfile, as long as only one script runs at a time.                  *)

NobodyAlive == \A p \in Pids : ~Alive(p)

\* A script that is about to start a server, or to remove the pidfile, knows
\* that no server is alive; one that is about to look for a process has the
\* pidfile's pid.
Serial ==
  ~overlapped =>
    /\ \A c, d \in Callers : script[c] # Done /\ script[d] # Done => c = d
    /\ \A p \in Pids : Alive(p) => pidfile = p
    /\ \A c \in Callers :
         /\ script[c].at \in {"stale", "daemon", "spawn", "failed", "remove"} => NobodyAlive
         /\ script[c].at \in {"ps", "ps new"} => script[c].pid = pidfile

\* A step of one script: the others, if there are any, have done nothing.
LEMMA ScriptSerial ==
  ASSUME Typed, Serial, ~overlapped', NEW c \in Callers, Start(c) \/ Stop(c) \/ Interrupted(c)
  PROVE  Serial'
<1> USE PidsArePositive
<1>1. ~overlapped
  BY DEF Start, Stop, Interrupted, StartTest, Cat, Ps, RemoveStale, DaemonTest, Spawn,
         RemoveFailed, RestartTest, StopTest, StopKill, StopRemove
<1>2. \A d \in Callers \ {c} : script[d] = Done /\ script'[d] = Done
  BY <1>1, ScriptMoves DEF Serial
<1>3. Done.at = "idle"
  BY DEF Done
\* What is left to show is about the script that took the step.
<1>4. SUFFICES /\ \A p \in Pids : Alive(p)' => pidfile' = p
               /\ script'[c].at \in {"stale", "daemon", "spawn", "failed", "remove"} =>
                    NobodyAlive'
               /\ script'[c].at \in {"ps", "ps new"} => script'[c].pid = pidfile'
  BY <1>2, <1>3 DEF Serial
<1>5. /\ \A p \in Pids : Alive(p) => pidfile = p
      /\ script[c].at \in {"stale", "daemon", "spawn", "failed", "remove"} => NobodyAlive
      /\ script[c].at \in {"ps", "ps new"} => script[c].pid = pidfile
  BY <1>1 DEF Serial
<1>6. pidfile \in Pids \cup {None} /\ server \in [Pids -> {"none", "booting", "listening",
                                                            "opening", "serving", "dead"}]
  BY DEF Typed
<1> USE DEF NobodyAlive, Alive, procVars
<1>7. CASE StartTest(c)
  <2>1. \/ pidfile = None /\ Goto(c, "start", "daemon")
        \/ Goto(c, "start", "cat")
    BY <1>7 DEF StartTest
  <2>2. script'[c].at = "cat" \/ (pidfile = None /\ script'[c].at = "daemon")
    BY <2>1, GotoMoves DEF Lines
  <2> QED
    BY <1>5, <1>7, <2>2 DEF StartTest
<1>8. CASE Cat(c, "cat", "ps") \/ Cat(c, "cat new", "ps new")
  <2>1. At(c, "ps", pidfile) \/ At(c, "ps new", pidfile)
    BY <1>8 DEF Cat
  <2>2. script'[c].at \in {"ps", "ps new"} /\ script'[c].pid = pidfile
    BY <1>6, <2>1, AtMoves DEF Lines
  <2> QED
    BY <1>5, <1>8, <2>2 DEF Cat
<1>9. CASE Ps(c, "ps", "stale") \/ Ps(c, "ps new", "failed")
  <2>1. UNCHANGED <<server, pidfile>>
    BY <1>9 DEF Ps
  <2>2. CASE NotFound(c)
    <3>1. Goto(c, "ps", "stale") \/ Goto(c, "ps new", "failed")
      BY <1>9, <2>2 DEF Ps
    <3>2. script[c].at \in {"ps", "ps new"} /\ script'[c].at \in {"stale", "failed"}
      BY <3>1, GotoMoves DEF Lines
    <3>3. NobodyAlive
      BY <1>5, <2>2, <3>2 DEF NotFound
    <3> QED
      BY <1>5, <2>1, <3>2, <3>3
  <2>3. CASE ~NotFound(c)
    <3>1. script'[c].at = "idle"
      BY <1>9, <2>3, EndsMoves DEF Ps
    <3> QED
      BY <1>5, <2>1, <3>1
  <2> QED
    BY <2>2, <2>3
<1>10. CASE RemoveStale(c)
  <2>1. script[c].at = "stale" /\ script'[c].at = "start"
    BY <1>10, GotoMoves DEF RemoveStale, Lines
  <2> QED
    BY <1>5, <1>10, <2>1 DEF RemoveStale
<1>11. CASE RemoveFailed(c)
  <2>1. script[c].at = "failed" /\ script'[c].at = "idle"
    BY <1>11, EndsMoves DEF RemoveFailed
  <2> QED
    BY <1>5, <1>11, <2>1 DEF RemoveFailed
<1>12. CASE DaemonTest(c)
  <2>1. Goto(c, "daemon", "cat new") \/ Goto(c, "daemon", "spawn")
    BY <1>12 DEF DaemonTest
  <2>2. script[c].at = "daemon" /\ script'[c].at \in {"cat new", "spawn"}
    BY <2>1, GotoMoves DEF Lines
  <2> QED
    BY <1>5, <1>12, <2>2 DEF DaemonTest
<1>13. CASE Spawn(c)
  <2>1. script[c].at = "spawn" /\ script'[c].at = "cat new"
    BY <1>13, GotoMoves DEF Spawn, Lines
  <2>2. NobodyAlive
    BY <1>5, <2>1
  <2> QED
    BY <1>6, <1>13, <2>1, <2>2 DEF Spawn
<1>14. CASE RestartTest(c) \/ StopTest(c)
  <2>1. \/ Goto(c, "restart", "start") \/ Goto(c, "restart", "stop")
        \/ Goto(c, "stop", "kill") \/ Goto(c, "stop", "start") \/ Ends(c, "stop")
    BY <1>14 DEF RestartTest, StopTest
  <2>2. script'[c].at \in {"start", "stop", "kill", "idle"}
    BY <2>1, GotoMoves, EndsMoves DEF Lines
  <2> QED
    BY <1>5, <1>14, <2>2 DEF RestartTest, StopTest
<1>15. CASE StopKill(c)
  <2>1. script'[c].at = "remove" /\ pidfile' = pidfile
    BY <1>15, GotoMoves DEF StopKill, Lines
  <2>2. NobodyAlive'
    BY <1>5, <1>6, <1>15 DEF StopKill, Kill
  <2> QED
    BY <2>1, <2>2
<1>16. CASE StopRemove(c)
  <2>1. Goto(c, "remove", "start") \/ Ends(c, "remove")
    BY <1>16 DEF StopRemove
  <2>2. script[c].at = "remove" /\ script'[c].at \in {"start", "idle"}
    BY <2>1, GotoMoves, EndsMoves DEF Lines
  <2> QED
    BY <1>5, <1>16, <2>2 DEF StopRemove
<1>17. CASE Interrupted(c)
  <2>1. script'[c].at = "idle"
    BY <1>17, EndsMoves DEF Interrupted
  <2> QED
    BY <1>5, <1>17, <2>1 DEF Interrupted
<1> QED
  BY <1>7, <1>8, <1>9, <1>10, <1>11, <1>12, <1>13, <1>14, <1>15, <1>16, <1>17 DEF Start, Stop

LEMMA NextSerial ==
  ASSUME Typed, Serial, [Next]_vars
  PROVE  Serial'
<1> SUFFICES ASSUME ~overlapped'
             PROVE  Serial'
  BY DEF Serial
<1>1. CASE ScriptStep
  BY <1>1, ScriptSerial DEF ScriptStep
<1>2. ASSUME NEW c \in Callers, NEW cmd \in {"start", "stop", "restart"}, Run(c, cmd)
      PROVE  Serial'
  <2>1. \A d \in Callers : script[d] = Done
    BY <1>2 DEF Run, Typed, Scripts
  <2>2. ~overlapped /\ UNCHANGED <<server, pidfile>>
    BY <1>2 DEF Run, Typed, Scripts, procVars
  <2>3. \A d \in Callers \ {c} : script'[d] = Done
    BY <1>2, <2>1 DEF Run, Typed, Scripts
  <2>4. script'[c].at \in {"start", "stop", "restart"}
    BY <1>2 DEF Run, Typed, Scripts
  <2>5. Done.at = "idle"
    BY DEF Done
  <2> QED
    BY <2>2, <2>3, <2>4, <2>5 DEF Serial, NobodyAlive, Alive
\* A server that ends by itself leaves the pidfile; none comes to life.
<1>3. ASSUME \A p \in Pids : Alive(p)' => Alive(p), UNCHANGED <<pidfile, script, overlapped>>
      PROVE  Serial'
  BY <1>3 DEF Serial, NobodyAlive
<1>4. ASSUME NEW p \in Pids, Bind(p) \/ Accept(p) \/ Open(p) \/ Serve(p) \/ Crash(p)
      PROVE  Serial'
  <2>1. UNCHANGED <<pidfile, script, overlapped>>
    BY <1>4 DEF Bind, Accept, Open, Serve, Crash
  <2>2. \A q \in Pids \ {p} : server'[q] = server[q]
    BY <1>4 DEF Bind, Accept, Open, Finish, Serve, Crash, Kill, Typed
  <2>3. Alive(p)
    BY <1>4 DEF Bind, Accept, Open, Serve, Crash, Alive
  <2> QED
    BY <1>3, <2>1, <2>2, <2>3 DEF Alive
<1>5. CASE ClientLeaves \/ OtherUses \/ UNCHANGED vars
  BY <1>3, <1>5 DEF ClientLeaves, OtherUses, vars, procVars, Alive
<1> QED
  BY <1>1, <1>2, <1>4, <1>5 DEF Next

\* Where scripts never overlap, every server that is alive can be stopped: the
\* pidfile names it, whatever servers have ended or scripts were stopped
\* between two lines (server_start.sh lines 29-91).
THEOREM ServersCanBeStopped == Spec => []RunningIsNamed
<1>1. ASSUME Init
      PROVE  Serial
  <2>1. \A p \in Pids : ~Alive(p)
    BY <1>1 DEF Init, Alive
  <2>2. \A c \in Callers : script[c] = Done
    BY <1>1 DEF Init
  <2>3. Done.at = "idle"
    BY DEF Done
  <2> QED
    BY <2>1, <2>2, <2>3 DEF Serial
<1>2. Serial => RunningIsNamed
  BY DEF Serial, RunningIsNamed
<1> QED
  BY <1>1, <1>2, InitTyped, NextTyped, NextSerial, PTL DEF Spec
=============================================================================
