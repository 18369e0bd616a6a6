------------------------- MODULE ControlSocketProofs ------------------------
(***************************************************************************)
(* Proofs about ControlSocket, for any set of daemons and any addresses.   *)
(***************************************************************************)
EXTENDS ControlSocket, TLAPS

\* Where a daemon is after its probe and before its socket is at the path.
Clearing == {"unlink", "stage", "listen", "restrict", "move"}

USE DEF Goto, Exit, Abandon, Binding, Stopping, Points, HoldsTcp, Owns, Clearing

-----------------------------------------------------------------------------
\* How a daemon that enters bind_uds learns of the owner of the path.
LEMMA RivalAtEntry ==
  ASSUME rival \in [Daemons -> BOOLEAN], NEW d \in Daemons,
         rival' = [rival EXCEPT ![d] = path \in Daemons]
  PROVE  /\ rival' \in [Daemons -> BOOLEAN]
         /\ \A e \in Daemons : e # d => (rival'[e] <=> rival[e])
         /\ rival'[d] <=> path \in Daemons
  <1>1. (path \in Daemons) \in BOOLEAN
    OBVIOUS
  <1> DEFINE owned == path \in Daemons
  <1>2. owned \in BOOLEAN
    BY <1>1
  <1>3. rival' = [rival EXCEPT ![d] = owned]
    OBVIOUS
  <1> HIDE DEF owned
  <1>4. /\ rival' \in [Daemons -> BOOLEAN]
        /\ \A e \in Daemons : e # d => (rival'[e] <=> rival[e])
        /\ rival'[d] = owned
    BY <1>2, <1>3, Zenon
  <1> QED
    BY <1>4, Zenon DEF owned

\* How the daemons in their startup learn of a new owner.
LEMMA RivalAtMove ==
  ASSUME rival \in [Daemons -> BOOLEAN], NEW d \in Daemons, rival' = Meet(d)
  PROVE  /\ rival' \in [Daemons -> BOOLEAN]
         /\ \A e \in Daemons : rival'[e] <=> rival[e] \/ (e # d /\ pc[e] \in Binding)
  BY Zenon DEF Meet

\* The variables keep their types, and the path names only a daemon that owns it.
THEOREM SocketTypes == Spec => []TypeOK
  <1>1. Init => TypeOK
    BY SocketAssumption DEF Init, TypeOK
  <1>2. TypeOK /\ [Next]_vars => TypeOK'
    <2> SUFFICES ASSUME TypeOK, [Next]_vars PROVE TypeOK'
      OBVIOUS
    <2> USE SocketAssumption DEF TypeOK
    <2>1. ASSUME NEW d \in Daemons, Start(d) PROVE TypeOK'
      BY <2>1 DEF Start
    <2>2. ASSUME NEW d \in Daemons, BindTcp(d) PROVE TypeOK'
      <3>1. rival' \in [Daemons -> BOOLEAN]
        BY <2>2, RivalAtEntry, Zenon DEF BindTcp
      <3> QED
        BY <2>2, <3>1 DEF BindTcp
    <2>3. ASSUME NEW d \in Daemons, Probe(d) PROVE TypeOK'
      BY <2>3 DEF Probe
    <2>4. ASSUME NEW d \in Daemons, Unlink(d) \/ Stage(d) \/ Listen(d) PROVE TypeOK'
      BY <2>4 DEF Unlink, Stage, Listen
    <2>5. ASSUME NEW d \in Daemons, RestrictMode(d) PROVE TypeOK'
      BY <2>5 DEF RestrictMode
    <2>6. ASSUME NEW d \in Daemons, rename_no_replace(d) PROVE TypeOK'
      <3>1. rival' \in [Daemons -> BOOLEAN]
        BY <2>6, RivalAtMove, Zenon DEF rename_no_replace
      <3> QED
        BY <2>6, <3>1 DEF rename_no_replace
    <2>7. ASSUME NEW d \in Daemons, CleanUp(d) \/ FileSystemFails(d) PROVE TypeOK'
      BY <2>7 DEF CleanUp, FileSystemFails
    <2>8. ASSUME NEW d \in Daemons, ReleaseTcp(d) \/ ReleaseSocket(d) PROVE TypeOK'
      BY <2>8 DEF ReleaseTcp, ReleaseSocket
    <2>9. ASSUME NEW d \in Daemons, Die(d) PROVE TypeOK'
      BY <2>9 DEF Die
    <2>10. CASE UNCHANGED vars
      BY <2>10 DEF vars
    <2> QED
      BY <2>1, <2>2, <2>3, <2>4, <2>5, <2>6, <2>7, <2>8, <2>9, <2>10 DEF Next, bind_uds
  <1> QED
    BY <1>1, <1>2, PTL DEF Spec

(***************************************************************************)
(* A rename never replaces what is at the path (rename_no_replace).        *)
(***************************************************************************)
THEOREM DefiniteWinner == Spec => NeverReplaced
  <1>1. [Next]_vars => [path # NoFile => path' \in {path, NoFile, Leftover}]_vars
    BY DEF Next, bind_uds, Start, BindTcp, Probe, Unlink, Stage, Listen, RestrictMode,
      rename_no_replace, CleanUp, FileSystemFails, ReleaseTcp, ReleaseSocket, Die, vars
  <1> QED
    BY <1>1, PTL DEF Spec, NeverReplaced

-----------------------------------------------------------------------------
\* A socket that is about to be at the path, or is there, has its final mode.
Restricted ==
  \A d \in Daemons :
    pc[d] \in {"move", "clean_up", "serving", "tcp_released"} => restricted[d]

(***************************************************************************)
(* The socket at the path has its final mode (bind_uds_via_staging).       *)
(***************************************************************************)
THEOREM PrivateFromTheStart == Spec => []ListensPrivately
  <1>1. Init => Restricted
    BY DEF Init, Restricted
  <1>2. TypeOK /\ Restricted /\ [Next]_vars => Restricted'
    <2> SUFFICES ASSUME TypeOK, Restricted, [Next]_vars PROVE Restricted'
      OBVIOUS
    <2>1. pc \in [Daemons -> Points] /\ restricted \in [Daemons -> BOOLEAN]
      BY DEF TypeOK
    <2>2. ASSUME NEW d \in Daemons, Start(d) PROVE Restricted'
      BY <2>1, <2>2 DEF Restricted, Start
    <2>3. ASSUME NEW d \in Daemons, RestrictMode(d) PROVE Restricted'
      BY <2>1, <2>3 DEF Restricted, RestrictMode
    <2>4. ASSUME NEW d \in Daemons, BindTcp(d) \/ Probe(d) \/ Unlink(d) \/ Stage(d) \/ Listen(d)
          PROVE  Restricted'
      BY <2>1, <2>4 DEF Restricted, BindTcp, Probe, Unlink, Stage, Listen
    <2>5. ASSUME NEW d \in Daemons,
                 rename_no_replace(d) \/ CleanUp(d) \/ FileSystemFails(d)
          PROVE  Restricted'
      BY <2>1, <2>5 DEF Restricted, rename_no_replace, CleanUp, FileSystemFails
    <2>6. ASSUME NEW d \in Daemons, ReleaseTcp(d) \/ ReleaseSocket(d) \/ Die(d)
          PROVE  Restricted'
      BY <2>1, <2>6 DEF Restricted, ReleaseTcp, ReleaseSocket, Die
    <2>7. CASE UNCHANGED vars
      BY <2>7 DEF Restricted, vars
    <2> QED
      BY <2>2, <2>3, <2>4, <2>5, <2>6, <2>7 DEF Next, bind_uds
  <1>3. TypeOK /\ Restricted => ListensPrivately
    BY DEF TypeOK, Restricted, ListensPrivately
  <1> QED
    BY <1>1, <1>2, <1>3, SocketTypes, PTL DEF Spec

-----------------------------------------------------------------------------
\* A TCP address admits one daemon at a time, and it clears the path of no owner
\* that has the same address.
OneInside ==
  /\ \A d, e \in Daemons : HoldsTcp(d) /\ HoldsTcp(e) /\ address[d] = address[e] => d = e
  /\ \A d, e \in Daemons : pc[d] \in Clearing /\ address[d] = address[e] => path # e

LEMMA OneInsideKept ==
  ASSUME TypeOK, OneInside, [Next]_vars
  PROVE  OneInside'
  <1> USE SocketAssumption DEF TypeOK, OneInside
  <1>1. ASSUME NEW d \in Daemons, Start(d) PROVE OneInside'
    BY <1>1 DEF Start
  <1>2. ASSUME NEW d \in Daemons, BindTcp(d) PROVE OneInside'
    BY <1>2 DEF BindTcp, TcpFree
  <1>3. ASSUME NEW d \in Daemons, Probe(d) PROVE OneInside'
    BY <1>3 DEF Probe, socket_is_live
  <1>4. ASSUME NEW d \in Daemons, Unlink(d) PROVE OneInside'
    BY <1>4 DEF Unlink
  <1>5. ASSUME NEW d \in Daemons, Stage(d) \/ Listen(d) \/ RestrictMode(d)
        PROVE  OneInside'
    BY <1>5 DEF Stage, Listen, RestrictMode
  <1>6. ASSUME NEW d \in Daemons, rename_no_replace(d) PROVE OneInside'
    BY <1>6 DEF rename_no_replace
  <1>7. ASSUME NEW d \in Daemons, CleanUp(d) \/ FileSystemFails(d)
        PROVE  OneInside'
    BY <1>7 DEF CleanUp, FileSystemFails
  <1>8. ASSUME NEW d \in Daemons, ReleaseTcp(d) \/ ReleaseSocket(d) \/ Die(d)
        PROVE  OneInside'
    BY <1>8 DEF ReleaseTcp, ReleaseSocket, Die
  <1>9. CASE UNCHANGED vars
    BY <1>9 DEF vars
  <1> QED
    BY <1>1, <1>2, <1>3, <1>4, <1>5, <1>6, <1>7, <1>8, <1>9 DEF Next, bind_uds

LEMMA OneInsideHolds == Spec => [](TypeOK /\ OneInside)
  <1>1. Init => OneInside
    BY DEF Init, OneInside
  <1>2. TypeOK /\ OneInside /\ [Next]_vars => OneInside'
    BY OneInsideKept
  <1> QED
    BY <1>1, <1>2, SocketTypes, PTL DEF Spec

\* Who takes the path from an owner that stays: only the unlinking of a daemon that
\* has another address.
LEMMA OnlyStrangersRob ==
  ASSUME TypeOK, OneInside, Next, NEW d \in Daemons, Robbed(d)
  PROVE  \E e \in Daemons : Unlink(e) /\ address[e] # address[d]
  <1> USE SocketAssumption DEF TypeOK, Robbed
  <1>1. PICK e \in Daemons :
          \/ Start(e) \/ BindTcp(e) \/ bind_uds(e) \/ ReleaseTcp(e) \/ ReleaseSocket(e) \/ Die(e)
    BY DEF Next
  <1>2. ~(Start(e) \/ BindTcp(e) \/ Probe(e) \/ Stage(e) \/ Listen(e) \/ RestrictMode(e))
    BY DEF Start, BindTcp, Probe, Stage, Listen, RestrictMode
  <1>3. ~(rename_no_replace(e) \/ CleanUp(e) \/ FileSystemFails(e) \/ ReleaseTcp(e))
    BY DEF rename_no_replace, CleanUp, FileSystemFails, ReleaseTcp
  <1>4. ~(ReleaseSocket(e) \/ Die(e))
    BY DEF ReleaseSocket, Die
  <1>5. Unlink(e)
    BY <1>1, <1>2, <1>3, <1>4 DEF bind_uds
  <1>6. address[e] # address[d]
    BY <1>5 DEF Unlink, OneInside
  <1> QED BY <1>5, <1>6

(***************************************************************************)
(* Daemons with one TCP address never take the path from one another,      *)
(* whatever crashes, restarts and inconclusive probes there are.           *)
(***************************************************************************)
THEOREM TcpGuardsThePath == Spec => OneAddressOneOwner
  <1> DEFINE Lawful == \A d \in Daemons : Robbed(d) =>
                         \E e \in Daemons : Unlink(e) /\ address[e] # address[d]
  <1>1. TypeOK /\ OneInside /\ [Next]_vars => [Lawful]_vars
    BY OnlyStrangersRob
  <1> QED
    BY <1>1, OneInsideHolds, PTL DEF Spec, OneAddressOneOwner

\* Where one address is used by all, whoever listens is reached at the path.
THEOREM ReachedAtThePath ==
  ASSUME \A d, e \in Daemons : address[d] = address[e]
  PROVE  Spec => []NeverStolen
  <1>1. Init => NeverStolen
    BY DEF Init, NeverStolen
  <1>2. TypeOK /\ OneInside /\ NeverStolen /\ [Next]_vars => NeverStolen'
    <2> SUFFICES ASSUME TypeOK, OneInside, NeverStolen, [Next]_vars, NEW d \in Daemons, Owns(d)'
                 PROVE  path' = d
      BY DEF NeverStolen
    <2>1. CASE Owns(d)
      <3>1. path = d
        BY <2>1 DEF NeverStolen
      <3>2. ~(Next /\ Robbed(d))
        BY OnlyStrangersRob
      <3> QED
        BY <3>1, <3>2 DEF Robbed, vars
    <2>2. CASE ~Owns(d)
      <3>1. PICK e \in Daemons :
              \/ Start(e) \/ BindTcp(e) \/ bind_uds(e) \/ ReleaseTcp(e) \/ ReleaseSocket(e)
              \/ Die(e)
        BY <2>2 DEF Next, vars
      <3>2. ~(Start(e) \/ BindTcp(e) \/ Probe(e) \/ Unlink(e) \/ Stage(e) \/ Listen(e)
               \/ RestrictMode(e))
        BY <2>2 DEF TypeOK, Start, BindTcp, Probe, Unlink, Stage, Listen, RestrictMode
      <3>3. ~(CleanUp(e) \/ FileSystemFails(e) \/ ReleaseTcp(e) \/ ReleaseSocket(e) \/ Die(e))
        BY <2>2 DEF TypeOK, CleanUp, FileSystemFails, ReleaseTcp, ReleaseSocket, Die
      <3>4. rename_no_replace(e)
        BY <3>1, <3>2, <3>3 DEF bind_uds
      <3> QED
        BY <2>2, <3>4 DEF TypeOK, rename_no_replace
    <2> QED
      BY <2>1, <2>2
  <1> QED
    BY <1>1, <1>2, OneInsideHolds, PTL DEF Spec

-----------------------------------------------------------------------------
\* A daemon in its startup that finds something at the path has met a rival.
Rivals ==
  /\ \A d \in Daemons : pc[d] = "probe" /\ path \in Daemons => rival[d]
  /\ \A d \in Daemons : pc[d] \in Clearing \ {"unlink"} /\ path # NoFile => rival[d]
  /\ \A d \in Daemons : pc[d] = "unlink" /\ path \in Daemons => rival[d]

LEMMA RivalsKept ==
  ASSUME TypeOK, Rivals, RefusalHasCause, [Next]_vars
  PROVE  Rivals' /\ RefusalHasCause'
  <1> USE SocketAssumption DEF TypeOK, Rivals, RefusalHasCause
  <1>1. ASSUME NEW d \in Daemons, Start(d) PROVE Rivals' /\ RefusalHasCause'
    BY <1>1 DEF Start
  <1>2. ASSUME NEW d \in Daemons, BindTcp(d) PROVE Rivals' /\ RefusalHasCause'
    <2>1. CASE rival' = [rival EXCEPT ![d] = path \in Daemons]
      <3>1. /\ \A e \in Daemons : e # d => (rival'[e] <=> rival[e])
            /\ rival'[d] <=> path \in Daemons
        BY <2>1, RivalAtEntry, Zenon
      <3>2. /\ path' = path /\ pc' \in [Daemons -> Points]
            /\ \A e \in Daemons : e # d => pc'[e] = pc[e] /\ error'[e] = error[e]
            /\ pc'[d] \in {"probe", "off"}
            /\ error'[d] # "in_use" \/ (error'[d] = error[d] /\ pc[d] = "tcp")
        BY <1>2 DEF BindTcp
      <3>3. error[d] = "in_use" => pc[d] # "tcp"
        OBVIOUS
      <3> QED
        BY <3>1, <3>2, <3>3
    <2>2. CASE UNCHANGED rival
      BY <1>2, <2>2 DEF BindTcp
    <2> QED
      BY <1>2, <2>1, <2>2 DEF BindTcp
  <1>3. ASSUME NEW d \in Daemons, Probe(d) PROVE Rivals' /\ RefusalHasCause'
    <2>1. PICK inconclusive \in {FALSE, (d \in Unreliable)} :
            IF socket_is_live(inconclusive)
              THEN Exit(d, "in_use")
              ELSE Goto(d, "unlink") /\ UNCHANGED error
      BY <1>3 DEF Probe
    <2>2. pc[d] = "probe" /\ UNCHANGED <<path, rival>>
      BY <1>3 DEF Probe
    <2>3. CASE socket_is_live(inconclusive)
      <3>1. rival[d] \/ d \in Unreliable
        <4>1. path \in Daemons \/ inconclusive
          BY <2>3 DEF socket_is_live
        <4>2. inconclusive => d \in Unreliable
          BY Zenon
        <4> QED
          BY <2>2, <4>1, <4>2
      <3> QED
        BY <2>1, <2>2, <2>3, <3>1
    <2>4. CASE ~socket_is_live(inconclusive)
      <3>1. path \notin Daemons
        BY <2>4 DEF socket_is_live
      <3> QED
        BY <2>1, <2>2, <2>4, <3>1
    <2> QED
      BY <2>3, <2>4
  <1>4. ASSUME NEW d \in Daemons, Unlink(d) \/ Stage(d) \/ Listen(d) \/ RestrictMode(d)
        PROVE  Rivals' /\ RefusalHasCause'
    BY <1>4 DEF Unlink, Stage, Listen, RestrictMode
  <1>5. ASSUME NEW d \in Daemons, rename_no_replace(d) PROVE Rivals' /\ RefusalHasCause'
    <2>1. CASE path = NoFile
      <3>1. \A e \in Daemons : rival'[e] <=> rival[e] \/ (e # d /\ pc[e] \in Binding)
        BY <1>5, <2>1, RivalAtMove, Zenon DEF rename_no_replace
      <3>2. path' = d /\ pc' = [pc EXCEPT ![d] = "clean_up"] /\ UNCHANGED error
        BY <1>5, <2>1 DEF rename_no_replace
      <3> QED
        BY <3>1, <3>2
    <2>2. CASE path # NoFile
      BY <1>5, <2>2 DEF rename_no_replace
    <2> QED
      BY <2>1, <2>2
  <1>6. ASSUME NEW d \in Daemons, CleanUp(d) \/ FileSystemFails(d)
        PROVE  Rivals' /\ RefusalHasCause'
    BY <1>6 DEF CleanUp, FileSystemFails
  <1>7. ASSUME NEW d \in Daemons, ReleaseTcp(d) \/ ReleaseSocket(d) \/ Die(d)
        PROVE  Rivals' /\ RefusalHasCause'
    BY <1>7 DEF ReleaseTcp, ReleaseSocket, Die
  <1>8. CASE UNCHANGED vars
    BY <1>8 DEF vars
  <1> QED
    BY <1>1, <1>2, <1>3, <1>4, <1>5, <1>6, <1>7, <1>8 DEF Next, bind_uds

(***************************************************************************)
(* A daemon is refused the path only on account of another daemon, or of a *)
(* probe that could not tell: never of a leftover.                         *)
(***************************************************************************)
THEOREM RefusedByRival == Spec => []RefusalHasCause
  <1>1. Init => Rivals /\ RefusalHasCause
    BY DEF Init, Rivals, RefusalHasCause
  <1>2. TypeOK /\ (Rivals /\ RefusalHasCause) /\ [Next]_vars => (Rivals /\ RefusalHasCause)'
    BY RivalsKept
  <1> QED
    BY <1>1, <1>2, SocketTypes, PTL DEF Spec

=============================================================================
