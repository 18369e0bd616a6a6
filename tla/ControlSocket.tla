--------------------------- MODULE ControlSocket ----------------------------
(***************************************************************************)
(* Daemons that start, serve and die at one socket_path (src/http.rs,      *)
(* bind_uds; src/main.rs, async_main).                                     *)
(*                                                                         *)
(* A daemon first binds its TCP address, which only one process can have.  *)
(* It then asks whether anybody answers at the path, unlinks what is       *)
(* there, binds a socket in a directory of its own and moves it to the     *)
(* path.  Each of these is an await of its own, and another daemon may be  *)
(* anywhere in the same sequence.                                          *)
(***************************************************************************)
CONSTANTS
  Daemons,     \* processes that share a socket_path
  address,     \* the TCP address each of them is configured with
  Unreliable   \* those whose probes may be inconclusive and whose file system calls may fail

NoFile   == "no file"
Leftover == "leftover"   \* a file nobody listens on

ASSUME SocketAssumption ==
  /\ {NoFile, Leftover} \cap Daemons = {}
  /\ Unreliable \subseteq Daemons

VARIABLES
  path,        \* what is at socket_path: NoFile, Leftover, or the daemon that listens on it
  pc,          \* where each daemon is
  restricted,  \* the daemon's socket has mode 0600
  error,       \* why it exited: "none", "in_use" or "other"
  rival        \* history: another daemon listened at the path while this one was starting

vars == <<path, pc, restricted, error, rival>>

Binding  == {"probe", "unlink", "stage", "listen", "restrict", "move", "clean_up"}
Stopping == {"tcp_released", "socket_released"}
Points   == {"off", "tcp", "give_up", "serving"} \cup Binding \cup Stopping

HoldsTcp(d) == pc[d] \notin {"off", "tcp", "tcp_released"}

\* The daemon's socket was moved to the path, and it has not let go of it.
Owns(d) == pc[d] \in {"clean_up", "serving", "tcp_released"}

TypeOK ==
  /\ path \in Daemons \cup {NoFile, Leftover}
  /\ pc \in [Daemons -> Points]
  /\ restricted \in [Daemons -> BOOLEAN]
  /\ error \in [Daemons -> {"none", "in_use", "other"}]
  /\ rival \in [Daemons -> BOOLEAN]
  /\ path \in Daemons => Owns(path)
  /\ \A d \in Daemons : error[d] # "none" => pc[d] \in {"off", "give_up"}

Init ==
  /\ path \in {NoFile, Leftover}
  /\ pc = [d \in Daemons |-> "off"]
  /\ restricted = [d \in Daemons |-> FALSE]
  /\ error = [d \in Daemons |-> "none"]
  /\ rival = [d \in Daemons |-> FALSE]

Goto(d, point) == pc' = [pc EXCEPT ![d] = point]

\* async_main returns an error and the process exits.
Exit(d, why) == Goto(d, "off") /\ error' = [error EXCEPT ![d] = why]

\* What a process that goes leaves behind: the file, and nobody behind it.
Abandon(d) == path' = IF path = d THEN Leftover ELSE path

-----------------------------------------------------------------------------
Start(d) ==
  /\ pc[d] = "off"
  /\ Goto(d, "tcp")
  /\ restricted' = [restricted EXCEPT ![d] = FALSE]
  /\ error' = [error EXCEPT ![d] = "none"]
  /\ rival' = [rival EXCEPT ![d] = FALSE]
  /\ UNCHANGED path

TcpFree(d) == \A e \in Daemons \ {d} : address[e] = address[d] => ~HoldsTcp(e)

\* Mutant: the TCP address is not bound before the socket.
BindTcpLate(d) ==
  /\ pc[d] = "tcp"
  /\ Goto(d, "probe")
  /\ rival' = [rival EXCEPT ![d] = path \in Daemons]
  /\ UNCHANGED <<path, restricted, error>>

\* http::bind, before bind_uds.
BindTcp(d) ==
  /\ pc[d] = "tcp"
  /\ IF TcpFree(d)
       THEN /\ Goto(d, "probe")
            /\ rival' = [rival EXCEPT ![d] = path \in Daemons]
            /\ UNCHANGED error
       ELSE Exit(d, "other") /\ UNCHANGED rival
  /\ UNCHANGED <<path, restricted>>

\* Mutant: a leftover counts as live.
socket_is_live_if_present(inconclusive) == path # NoFile \/ inconclusive

\* A connection is accepted; or the probe times out, or fails in some other way than
\* NotFound and ConnectionRefused.
socket_is_live(inconclusive) == path \in Daemons \/ inconclusive

Probe(d) ==
  /\ pc[d] = "probe"
  /\ \E inconclusive \in {FALSE, (d \in Unreliable)} :
       IF socket_is_live(inconclusive)
         THEN Exit(d, "in_use")
         ELSE Goto(d, "unlink") /\ UNCHANGED error
  /\ UNCHANGED <<path, restricted, rival>>

\* remove_file: a file that is not there is no error.
Unlink(d) ==
  /\ pc[d] = "unlink"
  /\ path' = NoFile
  /\ Goto(d, "stage")
  /\ UNCHANGED <<restricted, error, rival>>

\* The staging directory, under a name of its own.
Stage(d) ==
  /\ pc[d] = "stage"
  /\ Goto(d, "listen")
  /\ UNCHANGED <<path, restricted, error, rival>>

\* UnixListener::bind in the staging directory.
Listen(d) ==
  /\ pc[d] = "listen"
  /\ Goto(d, "restrict")
  /\ UNCHANGED <<path, restricted, error, rival>>

RestrictMode(d) ==
  /\ pc[d] = "restrict"
  /\ restricted' = [restricted EXCEPT ![d] = TRUE]
  /\ Goto(d, "move")
  /\ UNCHANGED <<path, error, rival>>

\* The other daemons in their startup that see d's socket appear.
Meet(d) == [e \in Daemons |-> rival[e] \/ (e # d /\ pc[e] \in Binding)]

\* rename_no_replace, the syscall; the staging directory goes in any case.
rename_no_replace(d) ==
  /\ pc[d] = "move"
  /\ IF path = NoFile
       THEN path' = d /\ rival' = Meet(d) /\ Goto(d, "clean_up") /\ UNCHANGED error
       ELSE /\ error' = [error EXCEPT ![d] = "in_use"]
            /\ Goto(d, "give_up")
            /\ UNCHANGED <<path, rival>>
  /\ UNCHANGED restricted

CleanUp(d) ==
  /\ \/ pc[d] = "clean_up" /\ Goto(d, "serving")
     \/ pc[d] = "give_up" /\ Goto(d, "off")
  /\ UNCHANGED <<path, restricted, error, rival>>

\* The parent directory, unlinking, staging, binding, chmod or the move itself fails.
FileSystemFails(d) ==
  /\ d \in Unreliable
  /\ \/ pc[d] \in {"probe", "unlink", "stage"} /\ Goto(d, "off")
     \/ pc[d] \in {"listen", "restrict", "move"} /\ Goto(d, "give_up")
  /\ error' = [error EXCEPT ![d] = "other"]
  /\ UNCHANGED <<path, restricted, rival>>

-----------------------------------------------------------------------------
\* The shutdown aborts both servers; they may go in either order.  The file stays.
ReleaseTcp(d) ==
  /\ pc[d] = "serving"
  /\ Goto(d, "tcp_released")
  /\ UNCHANGED <<path, restricted, error, rival>>

ReleaseSocket(d) ==
  /\ pc[d] = "serving"
  /\ Goto(d, "socket_released")
  /\ Abandon(d)
  /\ UNCHANGED <<restricted, error, rival>>

\* The process ends, in a shutdown or at any other point of its life.
Die(d) ==
  /\ pc[d] # "off"
  /\ Goto(d, "off")
  /\ Abandon(d)
  /\ UNCHANGED <<restricted, error, rival>>

bind_uds(d) ==
  \/ Probe(d) \/ Unlink(d) \/ Stage(d) \/ Listen(d) \/ RestrictMode(d)
  \/ rename_no_replace(d) \/ CleanUp(d) \/ FileSystemFails(d)

Next ==
  \E d \in Daemons :
    Start(d) \/ BindTcp(d) \/ bind_uds(d) \/ ReleaseTcp(d) \/ ReleaseSocket(d) \/ Die(d)

Spec == Init /\ [][Next]_vars

-----------------------------------------------------------------------------
(***************************************************************************)
(* Whoever listens is reached at the path: nobody unlinks or replaces a    *)
(* live socket (src/http.rs:793).                                          *)
(***************************************************************************)
NeverStolen == \A d \in Daemons : Owns(d) => path = d

(***************************************************************************)
(* A daemon that goes on serving loses the path only to one with another   *)
(* TCP address: the TCP bind, made for another purpose, keeps a second     *)
(* daemon of the same configuration out of bind_uds until the first has    *)
(* let go.                                                                 *)
(***************************************************************************)
Robbed(d) == path = d /\ path' # d /\ Owns(d)'

OneAddressOneOwner ==
  [][\A d \in Daemons : Robbed(d) =>
       \E e \in Daemons : Unlink(e) /\ address[e] # address[d]]_vars

(***************************************************************************)
(* Two daemons that race to the path have a definite winner: a file at the *)
(* path is unlinked or left behind by its owner, never replaced.           *)
(***************************************************************************)
NeverReplaced ==
  [][path # NoFile => path' \in {path, NoFile, Leftover}]_vars

(***************************************************************************)
(* What is at the path has its final mode from the moment it is there.     *)
(***************************************************************************)
ListensPrivately == path \in Daemons => restricted[path]

(***************************************************************************)
(* A daemon that is told that the path is in use had a rival: a leftover   *)
(* of a crash never keeps it from starting.                                *)
(***************************************************************************)
RefusalHasCause ==
  \A d \in Daemons : error[d] = "in_use" => rival[d] \/ d \in Unreliable

=============================================================================
