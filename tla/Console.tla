------------------------------ MODULE Console -------------------------------
(***************************************************************************)
(* A program that listens for datagrams in some threads and asks for keys  *)
(* in others.  The two modules share the process: an error in src/udp.c    *)
(* ends it, and the handlers that src/com_ahungry_io.c has registered put  *)
(* the terminal back.                                                      *)
(***************************************************************************)
EXTENDS Udp, IoTerm

vars == <<procVars, udpVars, ioVars>>

Init == ProcessInit /\ UdpInit /\ IoInit

Kill == Killed /\ UdpGone /\ IoKilled
End == ExitEnds /\ UdpGone /\ IoGone /\ UNCHANGED spoilt
Start == Started /\ UNCHANGED <<udpVars, ioVars>>

Next ==
  \/ UdpNext /\ UNCHANGED ioVars
  \/ IoNext /\ UNCHANGED udpVars
  \/ Kill
  \/ End
  \/ Start

Spec == Init /\ [][Next]_vars

\* Threads get to run; the user keeps pressing keys, not necessarily Enter.
FairSpec ==
  /\ Spec
  /\ \A l \in Listeners : WF_vars(ListenStep(l) /\ UNCHANGED ioVars)
  /\ \A r \in Readers :
       WF_vars((Save(r) \/ Register(r) \/ EnterRaw(r) \/ ReadByte(r) \/ Restore(r)) /\ UNCHANGED udpVars)
  /\ WF_vars(Type("key") /\ UNCHANGED udpVars)

TypeOK == ProcessTypeOK /\ UdpTypeOK /\ IoTypeOK
=============================================================================
