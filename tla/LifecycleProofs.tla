-------------------------- MODULE LifecycleProofs ---------------------------
(***************************************************************************)
(* What holds of Lifecycle for every set of callers and settings and any   *)
(* number of faults and restarts: its variables have their types, a        *)
(* service that is up has every resource of its mode, and the manager      *)
(* implements the switch of module Service.                                *)
(*                                                                         *)
(* IInv is the inductive invariant.  A step of the holder touches a client *)
(* object, the memory of the process and the system in its own way, and    *)
(* everything else as Frame says: the lemmas on types use that.            *)
(***************************************************************************)
EXTENDS Lifecycle, TLAPS

(* What every step of the holder inside a phase leaves alone, or counts.   *)
Frame ==
    /\ UNCHANGED <<setting, op, answer, holder, phase, client, userDns,
                   restarts, unclean>>
    /\ step \in Steps \ {"none"} /\ step' \in Steps
    /\ err' = err \/ err' = TRUE
    /\ \/ faults' = faults /\ faulted' = faulted
       \/ faults' = faults + 1 /\ faulted' = faulted \cup {phase}

(* A step within the frame keeps the types if it keeps those of the        *)
(* object, the memory and the system.                                      *)
LEMMA FrameTypes ==
    ASSUME TypeOK, LockConsistent, Frame,
           obj' \in Objects, mem' \in Memories, os' \in Systems
    PROVE  TypeOK'
<1>1. phase \in Phases
  BY DEF TypeOK, LockConsistent, Frame
<1>2. faults' \in Nat
  BY DEF TypeOK, Frame
<1>3. faulted' \subseteq Phases
  BY <1>1, Zenon DEF TypeOK, Frame
<1>4. err' \in BOOLEAN
  BY Zenon DEF TypeOK, Frame
<1> QED
  BY <1>2, <1>3, <1>4, Zenon DEF TypeOK, Frame

-----------------------------------------------------------------------------
(* The initial states satisfy the invariant.                               *)
LEMMA InitIInv == Init => IInv
<1> SUFFICES ASSUME Init PROVE IInv
  OBVIOUS
<1>1. TypeOK
  BY DnsAssumption DEF Init, TypeOK, Steps, Objects, Memories, Systems, NoObj,
     NewProcess, Modes, Dns, Phases
<1>2. LockConsistent /\ ClientConsistent /\ CallConsistent
  BY DEF Init, LockConsistent, ClientConsistent, CallConsistent, NewSteps,
     StartSteps, CloseSteps
<1>3. NewConsistent /\ StartConsistent /\ CloseConsistent
  BY DEF Init, NewConsistent, StartConsistent, CloseConsistent, NewProcess
<1>4. StartedMeansComplete
  BY DEF Init, StartedMeansComplete
<1> QED
  BY <1>1, <1>2, <1>3, <1>4 DEF IInv

(* Reading the mode starts a client object with nothing acquired.          *)
LEMMA ReadModeKeeps == IInv /\ ReadMode => IInv'
<1> SUFFICES ASSUME IInv, ReadMode PROVE IInv'
  OBVIOUS
<1>1. TypeOK'
  <2>1. Frame
    BY DEF ReadMode, Succeed, Fail, api, hist, Frame, Steps, NewSteps
  <2>2. obj' \in Objects
    BY SettingsAssumption DEF ReadMode, Succeed, IInv, TypeOK, Objects,
       Setting, NoObj
  <2>3. mem' \in Memories
    BY DEF ReadMode, IInv, TypeOK
  <2>4. os' \in Systems
    BY DEF ReadMode, IInv, TypeOK
  <2> QED
    BY <2>1, <2>2, <2>3, <2>4, FrameTypes DEF IInv
<1>2. LockConsistent'
  BY DEF ReadMode, Succeed, Fail, IInv, LockConsistent, NewSteps, StartSteps,
     CloseSteps
<1>3. ClientConsistent' /\ CallConsistent'
  BY DEF ReadMode, Succeed, Fail, api, IInv, ClientConsistent, CallConsistent
<1>4. NewConsistent'
  BY DEF ReadMode, Succeed, Fail, IInv, NewConsistent, Objects, NoObj
<1>5. StartConsistent'
  BY DEF ReadMode, Succeed, Fail, IInv, LockConsistent, StartConsistent,
     StartSteps
<1>6. CloseConsistent'
  BY DEF ReadMode, Succeed, Fail, CloseConsistent
<1>7. StartedMeansComplete'
  BY DEF ReadMode, Succeed, Fail, IInv, LockConsistent, StartedMeansComplete,
     Idle
<1> QED
  BY <1>1, <1>2, <1>3, <1>4, <1>5, <1>6, <1>7 DEF IInv

(* Building the system proxy reads settings and acquires nothing.          *)
LEMMA NewSysProxyKeeps == IInv /\ NewSysProxy => IInv'
<1> SUFFICES ASSUME IInv, NewSysProxy PROVE IInv'
  OBVIOUS
<1>1. TypeOK'
  <2>1. Frame
    BY DEF NewSysProxy, Succeed, Fail, api, hist, Frame, Steps, NewSteps
  <2>2. obj' \in Objects
    BY DEF NewSysProxy, IInv, TypeOK
  <2>3. mem' \in Memories
    BY DEF NewSysProxy, IInv, TypeOK
  <2>4. os' \in Systems
    BY DEF NewSysProxy, IInv, TypeOK
  <2> QED
    BY <2>1, <2>2, <2>3, <2>4, FrameTypes DEF IInv
<1>2. LockConsistent'
  BY DEF NewSysProxy, Succeed, Fail, IInv, LockConsistent, NewSteps,
     StartSteps, CloseSteps
<1>3. ClientConsistent' /\ CallConsistent'
  BY DEF NewSysProxy, Succeed, Fail, api, IInv, ClientConsistent,
     CallConsistent
<1>4. NewConsistent'
  BY DEF NewSysProxy, Succeed, Fail, IInv, NewConsistent, HasTun
<1>5. StartConsistent'
  BY DEF NewSysProxy, Succeed, Fail, IInv, StartConsistent, StartProgress,
     StackOver, HijackOver, SysOver
<1>6. CloseConsistent'
  BY DEF NewSysProxy, Succeed, Fail, CloseConsistent
<1>7. StartedMeansComplete'
  BY DEF NewSysProxy, Succeed, Fail, IInv, LockConsistent,
     StartedMeansComplete, Idle
<1> QED
  BY <1>1, <1>2, <1>3, <1>4, <1>5, <1>6, <1>7 DEF IInv

(* Starting the monitors adds one exactly when the process may remember    *)
(* one, in the late failure too; with a fixed interface there is none.     *)
LEMMA StartMonitorKeeps == IInv /\ StartMonitor => IInv'
<1> SUFFICES ASSUME IInv, StartMonitor PROVE IInv'
  OBVIOUS
<1>1. TypeOK'
  <2>1. Frame
    BY DEF StartMonitor, Succeed, Fail, api, hist, Frame, Steps, NewSteps
  <2>2. obj' \in Objects
    BY DEF StartMonitor, IInv, TypeOK
  <2>3. mem' \in Memories
    BY DEF StartMonitor, IInv, TypeOK, Memories, Dns
  <2>4. \/ os' = os
        \/ os' = [os EXCEPT !.monitors = os.monitors + 1]
    BY DEF StartMonitor
  <2>5. os' \in Systems
    BY <2>4 DEF IInv, TypeOK, Systems
  <2> QED
    BY <2>1, <2>2, <2>3, <2>5, FrameTypes DEF IInv
<1>2. LockConsistent'
  BY DEF StartMonitor, Succeed, Fail, IInv, LockConsistent, NewSteps,
     StartSteps, CloseSteps
<1>3. ClientConsistent' /\ CallConsistent'
  BY DEF StartMonitor, Succeed, Fail, api, IInv, ClientConsistent,
     CallConsistent
<1>4. NewConsistent'
  <2>1. mem'.monitor => os'.monitors > 0
    <3>1. CASE mem' = [mem EXCEPT !.monitor = FALSE] /\ os' = os
      BY <3>1
    <3>2. CASE setting.fixedIface
      BY <3>2 DEF StartMonitor, IInv, TypeOK, NewConsistent, Memories
    <3>3. CASE os' = [os EXCEPT !.monitors = @ + 1]
      BY <3>3 DEF IInv, TypeOK, Systems
    <3>4. CASE Fail("monitor", "assign") /\ UNCHANGED <<obj, mem, os>>
      BY <3>4 DEF Fail, IInv, NewConsistent
    <3> QED
      BY <3>1, <3>2, <3>3, <3>4 DEF StartMonitor
  <2> QED
    BY <2>1 DEF StartMonitor, Succeed, Fail, NewConsistent
<1>5. StartConsistent'
  BY DEF StartMonitor, Succeed, Fail, IInv, LockConsistent, StartConsistent,
     StartSteps
<1>6. CloseConsistent'
  BY DEF StartMonitor, Succeed, Fail, CloseConsistent
<1>7. StartedMeansComplete'
  BY DEF StartMonitor, Succeed, Fail, IInv, LockConsistent,
     StartedMeansComplete, Idle
<1> QED
  BY <1>1, <1>2, <1>3, <1>4, <1>5, <1>6, <1>7 DEF IInv

(* newTun goes on only when the interface is known, which the later steps  *)
(* rely on.                                                                *)
LEMMA AwaitIfaceKeeps == IInv /\ AwaitIface => IInv'
<1> SUFFICES ASSUME IInv, AwaitIface PROVE IInv'
  OBVIOUS
<1>1. TypeOK'
  <2>1. Frame
    BY DEF AwaitIface, Succeed, api, hist, Frame, Steps, NewSteps
  <2>2. obj' \in Objects
    BY DEF AwaitIface, IInv, TypeOK
  <2>3. mem' \in Memories
    BY DEF AwaitIface, IInv, TypeOK
  <2>4. os' \in Systems
    BY DEF AwaitIface, IInv, TypeOK
  <2> QED
    BY <2>1, <2>2, <2>3, <2>4, FrameTypes DEF IInv
<1>2. LockConsistent'
  BY DEF AwaitIface, Succeed, IInv, LockConsistent, NewSteps, StartSteps,
     CloseSteps
<1>3. ClientConsistent' /\ CallConsistent'
  BY DEF AwaitIface, Succeed, api, IInv, ClientConsistent, CallConsistent
<1>4. NewConsistent'
  BY DEF AwaitIface, Succeed, IInv, NewConsistent
<1>5. StartConsistent'
  BY DEF AwaitIface, Succeed, IInv, StartConsistent, StartProgress, StackOver,
     HijackOver, SysOver
<1>6. CloseConsistent'
  BY DEF AwaitIface, Succeed, CloseConsistent
<1>7. StartedMeansComplete'
  BY DEF AwaitIface, Succeed, IInv, LockConsistent, StartedMeansComplete, Idle
<1> QED
  BY <1>1, <1>2, <1>3, <1>4, <1>5, <1>6, <1>7 DEF IInv

(* Reading the tun settings changes what the client will do, not what it   *)
(* holds.                                                                  *)
LEMMA ReadTunConfigKeeps == IInv /\ ReadTunConfig => IInv'
<1> SUFFICES ASSUME IInv, ReadTunConfig PROVE IInv'
  OBVIOUS
<1>1. TypeOK'
  <2>1. Frame
    BY DEF ReadTunConfig, Succeed, Fail, api, hist, Frame, Steps, NewSteps
  <2>2. obj' \in Objects
    BY SettingsAssumption DEF ReadTunConfig, Succeed, IInv, TypeOK, Objects,
       Setting
  <2>3. mem' \in Memories
    BY DEF ReadTunConfig, IInv, TypeOK
  <2>4. os' \in Systems
    BY DEF ReadTunConfig, IInv, TypeOK
  <2> QED
    BY <2>1, <2>2, <2>3, <2>4, FrameTypes DEF IInv
<1>2. LockConsistent'
  BY DEF ReadTunConfig, Succeed, Fail, IInv, LockConsistent, NewSteps,
     StartSteps, CloseSteps
<1>3. ClientConsistent' /\ CallConsistent'
  BY DEF ReadTunConfig, Succeed, Fail, api, IInv, ClientConsistent,
     CallConsistent
<1>4. NewConsistent'
  BY DEF ReadTunConfig, Succeed, Fail, IInv, NewConsistent
<1>5. StartConsistent'
  BY DEF ReadTunConfig, Succeed, Fail, IInv, LockConsistent, StartConsistent,
     StartSteps
<1>6. CloseConsistent'
  BY DEF ReadTunConfig, Succeed, Fail, CloseConsistent
<1>7. StartedMeansComplete'
  BY DEF ReadTunConfig, Succeed, Fail, IInv, LockConsistent,
     StartedMeansComplete, Idle
<1> QED
  BY <1>1, <1>2, <1>3, <1>4, <1>5, <1>6, <1>7 DEF IInv

(* Opening the device is what later steps find open.                       *)
LEMMA OpenTunKeeps == IInv /\ OpenTun => IInv'
<1> SUFFICES ASSUME IInv, OpenTun PROVE IInv'
  OBVIOUS
<1>1. TypeOK'
  <2>1. Frame
    BY DEF OpenTun, Succeed, Fail, api, hist, Frame, Steps, NewSteps
  <2>2. obj' \in Objects
    BY DEF OpenTun, IInv, TypeOK
  <2>3. mem' \in Memories
    BY DEF OpenTun, IInv, TypeOK
  <2>4. os' \in Systems
    BY DEF OpenTun, IInv, TypeOK, Systems, Dns
  <2> QED
    BY <2>1, <2>2, <2>3, <2>4, FrameTypes DEF IInv
<1>2. LockConsistent'
  BY DEF OpenTun, Succeed, Fail, IInv, LockConsistent, NewSteps, StartSteps,
     CloseSteps
<1>3. ClientConsistent' /\ CallConsistent'
  BY DEF OpenTun, Succeed, Fail, api, IInv, ClientConsistent, CallConsistent
<1>4. NewConsistent'
  BY DEF OpenTun, Succeed, Fail, IInv, TypeOK, NewConsistent, Systems
<1>5. StartConsistent'
  BY DEF OpenTun, Succeed, Fail, IInv, LockConsistent, StartConsistent,
     StartSteps
<1>6. CloseConsistent'
  BY DEF OpenTun, Succeed, Fail, CloseConsistent
<1>7. StartedMeansComplete'
  BY DEF OpenTun, Succeed, Fail, IInv, LockConsistent, StartedMeansComplete,
     Idle
<1> QED
  BY <1>1, <1>2, <1>3, <1>4, <1>5, <1>6, <1>7 DEF IInv

(* Starting the device keeps it open, whether it works or not.             *)
LEMMA StartTunKeeps == IInv /\ StartTun => IInv'
<1> SUFFICES ASSUME IInv, StartTun PROVE IInv'
  OBVIOUS
<1>1. TypeOK'
  <2>1. Frame
    BY DEF StartTun, Succeed, Fail, api, hist, Frame, Steps, NewSteps
  <2>2. obj' \in Objects
    BY DEF StartTun, IInv, TypeOK
  <2>3. mem' \in Memories
    BY DEF StartTun, IInv, TypeOK
  <2>4. os' \in Systems
    BY DEF StartTun, IInv, TypeOK
  <2> QED
    BY <2>1, <2>2, <2>3, <2>4, FrameTypes DEF IInv
<1>2. LockConsistent'
  BY DEF StartTun, Succeed, Fail, IInv, LockConsistent, NewSteps, StartSteps,
     CloseSteps
<1>3. ClientConsistent' /\ CallConsistent'
  BY DEF StartTun, Succeed, Fail, api, IInv, ClientConsistent, CallConsistent
<1>4. NewConsistent'
  BY DEF StartTun, Succeed, Fail, IInv, NewConsistent
<1>5. StartConsistent'
  BY DEF StartTun, Succeed, Fail, IInv, StartConsistent, StartProgress,
     StackOver, HijackOver, SysOver
<1>6. CloseConsistent'
  BY DEF StartTun, Succeed, Fail, CloseConsistent
<1>7. StartedMeansComplete'
  BY DEF StartTun, Succeed, Fail, IInv, LockConsistent, StartedMeansComplete,
     Idle
<1> QED
  BY <1>1, <1>2, <1>3, <1>4, <1>5, <1>6, <1>7 DEF IInv

(* Assembling the stack ends executor.New with an interface and an open    *)
(* device, or with an error.                                               *)
LEMMA AssembleKeeps == IInv /\ Assemble => IInv'
<1> SUFFICES ASSUME IInv, Assemble PROVE IInv'
  OBVIOUS
<1>1. TypeOK'
  <2>1. Frame
    BY DEF Assemble, Succeed, Fail, api, hist, Frame, Steps, NewSteps
  <2>2. obj' \in Objects
    BY DEF Assemble, IInv, TypeOK
  <2>3. mem' \in Memories
    BY DEF Assemble, IInv, TypeOK
  <2>4. os' \in Systems
    BY DEF Assemble, IInv, TypeOK
  <2> QED
    BY <2>1, <2>2, <2>3, <2>4, FrameTypes DEF IInv
<1>2. LockConsistent'
  BY DEF Assemble, Succeed, Fail, IInv, LockConsistent, NewSteps, StartSteps,
     CloseSteps
<1>3. ClientConsistent' /\ CallConsistent'
  BY DEF Assemble, Succeed, Fail, api, IInv, ClientConsistent, CallConsistent
<1>4. NewConsistent'
  BY DEF Assemble, Succeed, Fail, IInv, NewConsistent
<1>5. StartConsistent'
  BY DEF Assemble, Succeed, Fail, IInv, StartConsistent, StartProgress,
     StackOver, HijackOver, SysOver
<1>6. CloseConsistent'
  BY DEF Assemble, Succeed, Fail, CloseConsistent
<1>7. StartedMeansComplete'
  BY DEF Assemble, Succeed, Fail, IInv, LockConsistent, StartedMeansComplete,
     Idle
<1> QED
  BY <1>1, <1>2, <1>3, <1>4, <1>5, <1>6, <1>7 DEF IInv

(* The TCP listener of the local server is open before the UDP one is      *)
(* tried; a busy port ends the start in an error.                          *)
LEMMA ListenTcpKeeps == IInv /\ ListenTcp => IInv'
<1> SUFFICES ASSUME IInv, ListenTcp PROVE IInv'
  OBVIOUS
<1>1. TypeOK'
  <2>1. Frame
    BY DEF ListenTcp, Succeed, Refuse, Fail, api, hist, Frame, AfterSysStart,
       AfterStartFailure, Steps, StartSteps
  <2>2. obj' \in Objects
    BY DEF ListenTcp, IInv, TypeOK, Objects
  <2>3. mem' \in Memories
    BY DEF ListenTcp, IInv, TypeOK
  <2>4. os' \in Systems
    BY DEF ListenTcp, IInv, TypeOK, Systems, Dns
  <2> QED
    BY <2>1, <2>2, <2>3, <2>4, FrameTypes DEF IInv
<1>2. LockConsistent'
  BY DEF ListenTcp, Succeed, Refuse, Fail, IInv, LockConsistent,
     AfterSysStart, AfterStartFailure, NewSteps, StartSteps, CloseSteps
<1>3. ClientConsistent' /\ CallConsistent'
  BY DEF ListenTcp, Succeed, Refuse, Fail, api, IInv, ClientConsistent,
     CallConsistent
<1>4. NewConsistent'
  BY DEF ListenTcp, Succeed, Refuse, Fail, IInv, TypeOK, NewConsistent,
     AfterSysStart, AfterStartFailure, Systems
<1>5. StartConsistent'
  BY DEF ListenTcp, Succeed, Refuse, Fail, IInv, TypeOK, StartConsistent,
     StartProgress, StackOver, HijackOver, SysOver, AfterSysStart,
     AfterStartFailure, HasTun, Systems, Objects
<1>6. CloseConsistent'
  BY DEF ListenTcp, Succeed, Refuse, Fail, CloseConsistent, AfterSysStart,
     AfterStartFailure
<1>7. StartedMeansComplete'
  BY DEF ListenTcp, Succeed, Refuse, Fail, IInv, LockConsistent,
     StartedMeansComplete, Idle
<1> QED
  BY <1>1, <1>2, <1>3, <1>4, <1>5, <1>6, <1>7 DEF IInv

(* A start that goes on from the UDP listener has both listeners.          *)
LEMMA ListenUdpKeeps == IInv /\ ListenUdp => IInv'
<1> SUFFICES ASSUME IInv, ListenUdp PROVE IInv'
  OBVIOUS
<1>1. TypeOK'
  <2>1. Frame
    BY DEF ListenUdp, Succeed, Fail, api, hist, Frame, AfterSysStart,
       AfterListen, AfterStartFailure, Steps, StartSteps
  <2>2. obj' \in Objects
    BY DEF ListenUdp, IInv, TypeOK, Objects
  <2>3. mem' \in Memories
    BY DEF ListenUdp, IInv, TypeOK
  <2>4. os' \in Systems
    BY DEF ListenUdp, IInv, TypeOK, Systems, Dns
  <2> QED
    BY <2>1, <2>2, <2>3, <2>4, FrameTypes DEF IInv
<1>2. LockConsistent'
  BY DEF ListenUdp, Succeed, Fail, IInv, LockConsistent,
     AfterSysStart, AfterListen, AfterStartFailure, NewSteps, StartSteps,
     CloseSteps
<1>3. ClientConsistent' /\ CallConsistent'
  BY DEF ListenUdp, Succeed, Fail, api, IInv, ClientConsistent,
     CallConsistent
<1>4. NewConsistent'
  BY DEF ListenUdp, Succeed, Fail, IInv, TypeOK, NewConsistent,
     AfterSysStart, AfterListen, AfterStartFailure, Systems
<1>5. StartConsistent'
  BY DEF ListenUdp, Succeed, Fail, IInv, TypeOK, StartConsistent,
     StartProgress, StackOver, HijackOver, SysOver, AfterSysStart,
     AfterListen, AfterStartFailure, HasSys, HasTun, ServesLan, Systems,
     Objects
<1>6. CloseConsistent'
  BY DEF ListenUdp, Succeed, Fail, CloseConsistent, AfterSysStart,
     AfterListen, AfterStartFailure
<1>7. StartedMeansComplete'
  BY DEF ListenUdp, Succeed, Fail, IInv, LockConsistent,
     StartedMeansComplete, Idle
<1> QED
  BY <1>1, <1>2, <1>3, <1>4, <1>5, <1>6, <1>7 DEF IInv

(* The HTTP proxy is on before the HTTPS one is tried.                     *)
LEMMA SetHttpProxyKeeps == IInv /\ SetHttpProxy => IInv'
<1> SUFFICES ASSUME IInv, SetHttpProxy PROVE IInv'
  OBVIOUS
<1>1. TypeOK'
  <2>1. Frame
    BY DEF SetHttpProxy, Succeed, Fail, api, hist, Frame, AfterSysStart,
       Steps, StartSteps
  <2>2. obj' \in Objects
    BY DEF SetHttpProxy, IInv, TypeOK
  <2>3. mem' \in Memories
    BY DEF SetHttpProxy, IInv, TypeOK
  <2>4. os' \in Systems
    BY DEF SetHttpProxy, IInv, TypeOK, Systems, Dns
  <2> QED
    BY <2>1, <2>2, <2>3, <2>4, FrameTypes DEF IInv
<1>2. LockConsistent'
  BY DEF SetHttpProxy, Succeed, Fail, IInv, LockConsistent, AfterSysStart,
     NewSteps, StartSteps, CloseSteps
<1>3. ClientConsistent' /\ CallConsistent'
  BY DEF SetHttpProxy, Succeed, Fail, api, IInv, ClientConsistent,
     CallConsistent
<1>4. NewConsistent'
  BY DEF SetHttpProxy, Succeed, Fail, IInv, TypeOK, NewConsistent,
     AfterSysStart, Systems
<1>5. StartConsistent'
  BY DEF SetHttpProxy, Succeed, Fail, IInv, TypeOK, StartConsistent,
     StartProgress, StackOver, HijackOver, SysOver, AfterSysStart, HasTun,
     Systems
<1>6. CloseConsistent'
  BY DEF SetHttpProxy, Succeed, Fail, CloseConsistent, AfterSysStart
<1>7. StartedMeansComplete'
  BY DEF SetHttpProxy, Succeed, Fail, IInv, LockConsistent,
     StartedMeansComplete, Idle
<1> QED
  BY <1>1, <1>2, <1>3, <1>4, <1>5, <1>6, <1>7 DEF IInv

(* A system proxy whose start met no failure has both web proxies on.      *)
LEMMA SetHttpsProxyKeeps == IInv /\ SetHttpsProxy => IInv'
<1> SUFFICES ASSUME IInv, SetHttpsProxy PROVE IInv'
  OBVIOUS
<1>1. TypeOK'
  <2>1. Frame
    BY DEF SetHttpsProxy, Succeed, Fail, api, hist, Frame, AfterSysStart,
       Steps, StartSteps
  <2>2. obj' \in Objects
    BY DEF SetHttpsProxy, IInv, TypeOK
  <2>3. mem' \in Memories
    BY DEF SetHttpsProxy, IInv, TypeOK
  <2>4. os' \in Systems
    BY DEF SetHttpsProxy, IInv, TypeOK, Systems, Dns
  <2> QED
    BY <2>1, <2>2, <2>3, <2>4, FrameTypes DEF IInv
<1>2. LockConsistent'
  BY DEF SetHttpsProxy, Succeed, Fail, IInv, LockConsistent, AfterSysStart,
     NewSteps, StartSteps, CloseSteps
<1>3. ClientConsistent' /\ CallConsistent'
  BY DEF SetHttpsProxy, Succeed, Fail, api, IInv, ClientConsistent,
     CallConsistent
<1>4. NewConsistent'
  BY DEF SetHttpsProxy, Succeed, Fail, IInv, TypeOK, NewConsistent,
     AfterSysStart, Systems
<1>5. StartConsistent'
  BY DEF SetHttpsProxy, Succeed, Fail, IInv, TypeOK, StartConsistent,
     StartProgress, StackOver, HijackOver, SysOver, AfterSysStart, HasSys,
     HasTun, Systems
<1>6. CloseConsistent'
  BY DEF SetHttpsProxy, Succeed, Fail, CloseConsistent, AfterSysStart
<1>7. StartedMeansComplete'
  BY DEF SetHttpsProxy, Succeed, Fail, IInv, LockConsistent,
     StartedMeansComplete, Idle
<1> QED
  BY <1>1, <1>2, <1>3, <1>4, <1>5, <1>6, <1>7 DEF IInv

(* The stack of a tun client is up when its start goes on; a failure ends  *)
(* the start.                                                              *)
LEMMA StartStackKeeps == IInv /\ StartStack => IInv'
<1> SUFFICES ASSUME IInv, StartStack PROVE IInv'
  OBVIOUS
<1>1. TypeOK'
  <2>1. Frame
    BY DEF StartStack, Succeed, Fail, api, hist, Frame, AfterHijack,
       AfterStack, Steps, StartSteps
  <2>2. obj' \in Objects
    BY DEF StartStack, IInv, TypeOK, Objects
  <2>3. mem' \in Memories
    BY DEF StartStack, IInv, TypeOK
  <2>4. os' \in Systems
    BY DEF StartStack, IInv, TypeOK
  <2> QED
    BY <2>1, <2>2, <2>3, <2>4, FrameTypes DEF IInv
<1>2. LockConsistent'
  BY DEF StartStack, Succeed, Fail, IInv, LockConsistent, AfterHijack,
     AfterStack, NewSteps, StartSteps, CloseSteps
<1>3. ClientConsistent' /\ CallConsistent'
  BY DEF StartStack, Succeed, Fail, api, IInv, ClientConsistent,
     CallConsistent
<1>4. NewConsistent'
  BY DEF StartStack, Succeed, Fail, IInv, NewConsistent, AfterHijack,
     AfterStack
<1>5. StartConsistent'
  BY DEF StartStack, Succeed, Fail, IInv, TypeOK, StartConsistent,
     StartProgress, StackOver, HijackOver, SysOver, AfterHijack, AfterStack,
     HasSys, HasTun, ServesLan, Objects
<1>6. CloseConsistent'
  BY DEF StartStack, Succeed, Fail, CloseConsistent, AfterHijack, AfterStack
<1>7. StartedMeansComplete'
  BY DEF StartStack, Succeed, Fail, IInv, LockConsistent,
     StartedMeansComplete, Idle
<1> QED
  BY <1>1, <1>2, <1>3, <1>4, <1>5, <1>6, <1>7 DEF IInv

(* A start that goes on from Hijack has installed its DNS servers, and     *)
(* what it remembers is a setting of the network service.                  *)
LEMMA HijackKeeps == IInv /\ Hijack => IInv'
<1> SUFFICES ASSUME IInv, Hijack PROVE IInv'
  OBVIOUS
<1>1. TypeOK'
  <2>1. Frame
    BY DEF Hijack, Remembered, Succeed, Fail, api, hist, Frame, AfterHijack,
       Steps, StartSteps
  <2>2. obj' \in Objects
    BY DEF Hijack, Remembered, IInv, TypeOK
  <2>3. mem' \in Memories
    BY DEF Hijack, Remembered, IInv, TypeOK, Memories, Systems, Dns
  <2>4. os' \in Systems
    BY DEF Hijack, Remembered, IInv, TypeOK, Systems, Dns
  <2> QED
    BY <2>1, <2>2, <2>3, <2>4, FrameTypes DEF IInv
<1>2. LockConsistent'
  BY DEF Hijack, Remembered, Succeed, Fail, IInv, LockConsistent, AfterHijack,
     NewSteps, StartSteps, CloseSteps
<1>3. ClientConsistent' /\ CallConsistent'
  BY DEF Hijack, Remembered, Succeed, Fail, api, IInv, ClientConsistent,
     CallConsistent
<1>4. NewConsistent'
  BY DEF Hijack, Remembered, Succeed, Fail, IInv, TypeOK, NewConsistent,
     AfterHijack, Memories, Systems
<1>5. StartConsistent'
  BY DEF Hijack, Remembered, Succeed, Fail, IInv, TypeOK, StartConsistent,
     StartProgress, StackOver, HijackOver, SysOver, AfterHijack, Memories,
     Systems
<1>6. CloseConsistent'
  BY DEF Hijack, Remembered, Succeed, Fail, CloseConsistent, AfterHijack
<1>7. StartedMeansComplete'
  BY DEF Hijack, Remembered, Succeed, Fail, IInv, LockConsistent,
     StartedMeansComplete, Idle
<1> QED
  BY <1>1, <1>2, <1>3, <1>4, <1>5, <1>6, <1>7 DEF IInv

(* Clearing the HTTP proxy keeps the device that Close has yet to close.   *)
LEMMA ClearHttpKeeps == IInv /\ ClearHttp => IInv'
<1> SUFFICES ASSUME IInv, ClearHttp PROVE IInv'
  OBVIOUS
<1>1. TypeOK'
  <2>1. Frame
    BY DEF ClearHttp, Succeed, Fail, api, hist, Frame, Steps, CloseSteps
  <2>2. obj' \in Objects
    BY DEF ClearHttp, IInv, TypeOK
  <2>3. mem' \in Memories
    BY DEF ClearHttp, IInv, TypeOK
  <2>4. os' \in Systems
    BY DEF ClearHttp, IInv, TypeOK, Systems, Dns
  <2> QED
    BY <2>1, <2>2, <2>3, <2>4, FrameTypes DEF IInv
<1>2. LockConsistent'
  BY DEF ClearHttp, Succeed, Fail, IInv, LockConsistent, NewSteps, StartSteps,
     CloseSteps
<1>3. ClientConsistent' /\ CallConsistent'
  BY DEF ClearHttp, Succeed, Fail, api, IInv, ClientConsistent, CallConsistent
<1>4. NewConsistent'
  BY DEF ClearHttp, Succeed, Fail, IInv, TypeOK, NewConsistent, Systems
<1>5. StartConsistent'
  BY DEF ClearHttp, Succeed, Fail, IInv, LockConsistent, StartConsistent,
     CloseSteps
<1>6. CloseConsistent'
  BY DEF ClearHttp, Succeed, Fail, IInv, TypeOK, CloseConsistent, Systems
<1>7. StartedMeansComplete'
  BY DEF ClearHttp, Succeed, Fail, IInv, LockConsistent, StartedMeansComplete,
     Idle
<1> QED
  BY <1>1, <1>2, <1>3, <1>4, <1>5, <1>6, <1>7 DEF IInv

(* Clearing the HTTPS proxy keeps the device that Close has yet to close.  *)
LEMMA ClearHttpsKeeps == IInv /\ ClearHttps => IInv'
<1> SUFFICES ASSUME IInv, ClearHttps PROVE IInv'
  OBVIOUS
<1>1. TypeOK'
  <2>1. Frame
    BY DEF ClearHttps, Succeed, Fail, api, hist, Frame, Steps, CloseSteps
  <2>2. obj' \in Objects
    BY DEF ClearHttps, IInv, TypeOK
  <2>3. mem' \in Memories
    BY DEF ClearHttps, IInv, TypeOK
  <2>4. os' \in Systems
    BY DEF ClearHttps, IInv, TypeOK, Systems, Dns
  <2> QED
    BY <2>1, <2>2, <2>3, <2>4, FrameTypes DEF IInv
<1>2. LockConsistent'
  BY DEF ClearHttps, Succeed, Fail, IInv, LockConsistent, NewSteps,
     StartSteps, CloseSteps
<1>3. ClientConsistent' /\ CallConsistent'
  BY DEF ClearHttps, Succeed, Fail, api, IInv, ClientConsistent,
     CallConsistent
<1>4. NewConsistent'
  BY DEF ClearHttps, Succeed, Fail, IInv, TypeOK, NewConsistent, Systems
<1>5. StartConsistent'
  BY DEF ClearHttps, Succeed, Fail, IInv, LockConsistent, StartConsistent,
     CloseSteps
<1>6. CloseConsistent'
  BY DEF ClearHttps, Succeed, Fail, IInv, TypeOK, CloseConsistent, Systems
<1>7. StartedMeansComplete'
  BY DEF ClearHttps, Succeed, Fail, IInv, LockConsistent,
     StartedMeansComplete, Idle
<1> QED
  BY <1>1, <1>2, <1>3, <1>4, <1>5, <1>6, <1>7 DEF IInv

(* Closing the UDP listener, or failing to, keeps the device that Close    *)
(* has yet to close.                                                       *)
LEMMA CloseUdpKeeps == IInv /\ CloseUdp => IInv'
<1> SUFFICES ASSUME IInv, CloseUdp PROVE IInv'
  OBVIOUS
<1>1. TypeOK'
  <2>1. Frame
    BY DEF CloseUdp, Succeed, Fail, api, hist, Frame, FirstTunClose,
       AfterListeners, AfterMonitor, Steps, CloseSteps
  <2>2. obj' \in Objects
    BY DEF CloseUdp, IInv, TypeOK, Objects
  <2>3. mem' \in Memories
    BY DEF CloseUdp, IInv, TypeOK
  <2>4. os' \in Systems
    BY DEF CloseUdp, IInv, TypeOK, Systems, Dns
  <2> QED
    BY <2>1, <2>2, <2>3, <2>4, FrameTypes DEF IInv
<1>2. LockConsistent'
  BY DEF CloseUdp, Succeed, Fail, IInv, LockConsistent, FirstTunClose,
     AfterListeners, AfterMonitor, NewSteps, StartSteps, CloseSteps
<1>3. ClientConsistent' /\ CallConsistent'
  BY DEF CloseUdp, Succeed, Fail, api, IInv, ClientConsistent, CallConsistent
<1>4. NewConsistent'
  BY DEF CloseUdp, Succeed, Fail, IInv, TypeOK, NewConsistent, FirstTunClose,
     AfterListeners, AfterMonitor, Systems
<1>5. StartConsistent'
  BY DEF CloseUdp, Succeed, Fail, IInv, LockConsistent, StartConsistent,
     CloseSteps
<1>6. CloseConsistent'
  BY DEF CloseUdp, Succeed, Fail, IInv, TypeOK, CloseConsistent,
     FirstTunClose, AfterListeners, AfterMonitor, Systems, Objects
<1>7. StartedMeansComplete'
  BY DEF CloseUdp, Succeed, Fail, IInv, LockConsistent, StartedMeansComplete,
     Idle
<1> QED
  BY <1>1, <1>2, <1>3, <1>4, <1>5, <1>6, <1>7 DEF IInv

(* Closing the TCP listener of a mixed client leads to the half that has   *)
(* the open device.                                                        *)
LEMMA CloseTcpKeeps == IInv /\ CloseTcp => IInv'
<1> SUFFICES ASSUME IInv, CloseTcp PROVE IInv'
  OBVIOUS
<1>1. TypeOK'
  <2>1. Frame
    BY DEF CloseTcp, Succeed, Fail, api, hist, Frame, FirstTunClose,
       AfterListeners, AfterMonitor, Steps, CloseSteps
  <2>2. obj' \in Objects
    BY DEF CloseTcp, IInv, TypeOK, Objects
  <2>3. mem' \in Memories
    BY DEF CloseTcp, IInv, TypeOK
  <2>4. os' \in Systems
    BY DEF CloseTcp, IInv, TypeOK, Systems, Dns
  <2> QED
    BY <2>1, <2>2, <2>3, <2>4, FrameTypes DEF IInv
<1>2. LockConsistent'
  BY DEF CloseTcp, Succeed, Fail, IInv, LockConsistent, FirstTunClose,
     AfterListeners, AfterMonitor, NewSteps, StartSteps, CloseSteps
<1>3. ClientConsistent' /\ CallConsistent'
  BY DEF CloseTcp, Succeed, Fail, api, IInv, ClientConsistent, CallConsistent
<1>4. NewConsistent'
  BY DEF CloseTcp, Succeed, Fail, IInv, TypeOK, NewConsistent, FirstTunClose,
     AfterListeners, AfterMonitor, Systems
<1>5. StartConsistent'
  BY DEF CloseTcp, Succeed, Fail, IInv, LockConsistent, StartConsistent,
     CloseSteps
<1>6. CloseConsistent'
  BY DEF CloseTcp, Succeed, Fail, IInv, TypeOK, CloseConsistent,
     FirstTunClose, AfterListeners, AfterMonitor, Systems
<1>7. StartedMeansComplete'
  BY DEF CloseTcp, Succeed, Fail, IInv, LockConsistent, StartedMeansComplete,
     Idle
<1> QED
  BY <1>1, <1>2, <1>3, <1>4, <1>5, <1>6, <1>7 DEF IInv

(* Giving the DNS servers back installs a value they had, and the device   *)
(* is still there to be closed.                                            *)
LEMMA ResumeDnsKeeps == IInv /\ ResumeDns => IInv'
<1> SUFFICES ASSUME IInv, ResumeDns PROVE IInv'
  OBVIOUS
<1>1. TypeOK'
  <2>1. Frame
    BY DEF ResumeDns, Succeed, Fail, api, hist, Frame, Steps, CloseSteps
  <2>2. obj' \in Objects
    BY DEF ResumeDns, IInv, TypeOK
  <2>3. mem' \in Memories
    BY DEF ResumeDns, IInv, TypeOK, Memories, Dns
  <2>4. os' \in Systems
    BY DEF ResumeDns, IInv, TypeOK, Systems, Memories, Dns
  <2> QED
    BY <2>1, <2>2, <2>3, <2>4, FrameTypes DEF IInv
<1>2. LockConsistent'
  BY DEF ResumeDns, Succeed, Fail, IInv, LockConsistent, NewSteps, StartSteps,
     CloseSteps
<1>3. ClientConsistent' /\ CallConsistent'
  BY DEF ResumeDns, Succeed, Fail, api, IInv, ClientConsistent, CallConsistent
<1>4. NewConsistent'
  BY DEF ResumeDns, Succeed, Fail, IInv, TypeOK, NewConsistent, Systems
<1>5. StartConsistent'
  BY DEF ResumeDns, Succeed, Fail, IInv, LockConsistent, StartConsistent,
     CloseSteps
<1>6. CloseConsistent'
  BY DEF ResumeDns, Succeed, Fail, IInv, TypeOK, CloseConsistent, Systems
<1>7. StartedMeansComplete'
  BY DEF ResumeDns, Succeed, Fail, IInv, LockConsistent, StartedMeansComplete,
     Idle
<1> QED
  BY <1>1, <1>2, <1>3, <1>4, <1>5, <1>6, <1>7 DEF IInv

(* Closing the device never closes one that is not open.                   *)
LEMMA CloseTunKeeps == IInv /\ CloseTun => IInv'
<1> SUFFICES ASSUME IInv, CloseTun PROVE IInv'
  OBVIOUS
<1>1. TypeOK'
  <2>1. Frame
    BY DEF CloseTun, Succeed, Fail, api, hist, Frame, Steps, CloseSteps
  <2>2. obj' \in Objects
    BY DEF CloseTun, IInv, TypeOK
  <2>3. mem' \in Memories
    BY DEF CloseTun, IInv, TypeOK
  <2>4. os' \in Systems
    BY DEF CloseTun, IInv, TypeOK, Systems, Dns, Succeed, CloseConsistent,
       LockConsistent, CloseSteps
  <2> QED
    BY <2>1, <2>2, <2>3, <2>4, FrameTypes DEF IInv
<1>2. LockConsistent'
  BY DEF CloseTun, Succeed, Fail, IInv, LockConsistent, NewSteps, StartSteps,
     CloseSteps
<1>3. ClientConsistent' /\ CallConsistent'
  BY DEF CloseTun, Succeed, Fail, api, IInv, ClientConsistent, CallConsistent
<1>4. NewConsistent'
  BY DEF CloseTun, Succeed, Fail, IInv, TypeOK, NewConsistent, Systems
<1>5. StartConsistent'
  BY DEF CloseTun, Succeed, Fail, IInv, LockConsistent, StartConsistent,
     CloseSteps
<1>6. CloseConsistent'
  BY DEF CloseTun, Succeed, Fail, CloseConsistent
<1>7. StartedMeansComplete'
  BY DEF CloseTun, Succeed, Fail, IInv, LockConsistent, StartedMeansComplete,
     Idle
<1> QED
  BY <1>1, <1>2, <1>3, <1>4, <1>5, <1>6, <1>7 DEF IInv

(* Stopping the monitor never stops one that does not run.                 *)
LEMMA StopMonitorKeeps == IInv /\ StopMonitor => IInv'
<1> SUFFICES ASSUME IInv, StopMonitor PROVE IInv'
  OBVIOUS
<1>1. TypeOK'
  <2>1. Frame
    BY DEF StopMonitor, Succeed, Fail, api, hist, Frame, FirstTunClose,
       AfterListeners, AfterMonitor, Steps, CloseSteps
  <2>2. obj' \in Objects
    BY DEF StopMonitor, IInv, TypeOK
  <2>3. mem' \in Memories
    BY DEF StopMonitor, IInv, TypeOK, Memories, Dns
  <2>4. os' \in Systems
    BY DEF StopMonitor, IInv, TypeOK, Systems, Dns, NewConsistent
  <2> QED
    BY <2>1, <2>2, <2>3, <2>4, FrameTypes DEF IInv
<1>2. LockConsistent'
  BY DEF StopMonitor, Succeed, Fail, IInv, LockConsistent, FirstTunClose,
     AfterListeners, AfterMonitor, NewSteps, StartSteps, CloseSteps
<1>3. ClientConsistent' /\ CallConsistent'
  BY DEF StopMonitor, Succeed, Fail, api, IInv, ClientConsistent,
     CallConsistent
<1>4. NewConsistent'
  BY DEF StopMonitor, Succeed, Fail, NewConsistent, FirstTunClose,
     AfterListeners, AfterMonitor
<1>5. StartConsistent'
  BY DEF StopMonitor, Succeed, Fail, IInv, LockConsistent, StartConsistent,
     CloseSteps
<1>6. CloseConsistent'
  BY DEF StopMonitor, Succeed, Fail, CloseConsistent, FirstTunClose,
     AfterListeners, AfterMonitor, ServesLan
<1>7. StartedMeansComplete'
  BY DEF StopMonitor, Succeed, Fail, IInv, LockConsistent,
     StartedMeansComplete, Idle
<1> QED
  BY <1>1, <1>2, <1>3, <1>4, <1>5, <1>6, <1>7 DEF IInv

-----------------------------------------------------------------------------
(* executor.New hands over to client.Start only without an error, so a     *)
(* started client has what New acquired; a nil pointer is left only on     *)
(* the way to the deferred function.                                       *)
LEMMA AssignClientKeeps == IInv /\ AssignClient => IInv'
<1> SUFFICES ASSUME IInv, AssignClient PROVE IInv'
  OBVIOUS
<1>1. TypeOK'
  BY DEF AssignClient, FirstStartStep, IInv, TypeOK, Steps, NewSteps,
     StartSteps, Phases, Ops, api, hist
<1>2. LockConsistent'
  BY DEF AssignClient, IInv, LockConsistent, NewSteps, StartSteps, CloseSteps,
     FirstStartStep, FirstCloseStep, FirstTunClose
<1>3. ClientConsistent' /\ CallConsistent'
  BY CallersAssumption DEF AssignClient, IInv, LockConsistent,
     ClientConsistent, CallConsistent, NewSteps, api
<1>4. NewConsistent'
  BY DEF AssignClient, FirstStartStep, IInv, NewConsistent, FirstStartStep,
     FirstCloseStep, FirstTunClose
<1>5. StartConsistent'
  BY DEF AssignClient, IInv, TypeOK, NewConsistent, StartConsistent,
     StartProgress, StackOver, HijackOver, SysOver, HasTun, HasSys,
     FirstStartStep, Objects, Modes
<1>6. CloseConsistent'
  BY DEF AssignClient, ClientConsistent, CloseConsistent,
     StartedMeansComplete, Idle, Complete
<1>7. StartedMeansComplete'
  BY DEF AssignClient, IInv, LockConsistent, StartedMeansComplete, Idle,
     Complete
<1> QED
  BY <1>1, <1>2, <1>3, <1>4, <1>5, <1>6, <1>7 DEF IInv

(* A failed start enters Close with the client still in place.             *)
LEMMA AbortStartKeeps == IInv /\ AbortStart => IInv'
<1> SUFFICES ASSUME IInv, AbortStart PROVE IInv'
  OBVIOUS
<1>1. TypeOK'
  BY DEF AbortStart, FirstCloseStep, FirstTunClose, IInv, TypeOK, Steps,
     CloseSteps, Phases, Ops, api, hist
<1>2. LockConsistent'
  BY DEF AbortStart, IInv, LockConsistent, NewSteps, StartSteps, CloseSteps,
     FirstStartStep, FirstCloseStep, FirstTunClose
<1>3. ClientConsistent' /\ CallConsistent'
  BY CallersAssumption DEF AbortStart, IInv, LockConsistent, ClientConsistent,
     CallConsistent, StartSteps, api
<1>4. NewConsistent'
  BY DEF AbortStart, IInv, NewConsistent, FirstCloseStep, FirstTunClose
<1>5. StartConsistent'
  BY DEF AbortStart, StartConsistent
<1>6. CloseConsistent'
  BY DEF AbortStart, IInv, TypeOK, LockConsistent, ClientConsistent,
     StartConsistent, CloseConsistent, StartedMeansComplete, Idle, Complete,
     HasTun, HasSys, FirstCloseStep, FirstTunClose, StartSteps, Objects, Modes
<1>7. StartedMeansComplete'
  BY DEF AbortStart, IInv, StartedMeansComplete, Idle, Complete
<1> QED
  BY <1>1, <1>2, <1>3, <1>4, <1>5, <1>6, <1>7 DEF IInv

(* The deferred function of manager.Start clears the client before it      *)
(* unlocks.                                                                *)
LEMMA FailNewKeeps ==
    ASSUME IInv, NEW c \in Callers, FailNew(c) PROVE IInv'
<1>1. TypeOK'
  BY DEF FailNew, Unlock, IInv, TypeOK, Steps, Phases, Ops, hist
<1>2. LockConsistent'
  BY DEF FailNew, Unlock, LockConsistent, NewSteps, StartSteps, CloseSteps
<1>3. ClientConsistent' /\ CallConsistent'
  BY CallersAssumption DEF FailNew, Unlock, ClientConsistent, CallConsistent
<1>4. NewConsistent'
  BY DEF FailNew, Unlock, IInv, NewConsistent
<1>5. StartConsistent'
  BY DEF FailNew, Unlock, StartConsistent
<1>6. CloseConsistent'
  BY DEF FailNew, Unlock, ClientConsistent, CloseConsistent,
     StartedMeansComplete, Idle, Complete
<1>7. StartedMeansComplete'
  BY DEF FailNew, Unlock, StartedMeansComplete, Idle, Complete
<1> QED
  BY <1>1, <1>2, <1>3, <1>4, <1>5, <1>6, <1>7 DEF IInv

(* A start returns without an error only when every resource of its mode   *)
(* is there, so the service it leaves up is complete.                      *)
LEMMA FinishStartKeeps ==
    ASSUME IInv, NEW c \in Callers, FinishStart(c) PROVE IInv'
<1>1. TypeOK'
  BY DEF FinishStart, Unlock, IInv, TypeOK, Steps, Phases, Ops, hist
<1>2. LockConsistent'
  BY DEF FinishStart, Unlock, LockConsistent, NewSteps, StartSteps, CloseSteps
<1>3. ClientConsistent' /\ CallConsistent'
  BY CallersAssumption DEF FinishStart, Unlock, IInv, LockConsistent,
     ClientConsistent, CallConsistent, StartSteps
<1>4. NewConsistent'
  BY DEF FinishStart, Unlock, IInv, NewConsistent
<1>5. StartConsistent'
  BY DEF FinishStart, Unlock, StartConsistent
<1>6. CloseConsistent'
  BY DEF FinishStart, Unlock, ClientConsistent, CloseConsistent,
     StartedMeansComplete, Idle, Complete
<1>7. StartedMeansComplete'
  BY DEF FinishStart, Unlock, IInv, LockConsistent, StartConsistent,
     StartProgress, StackOver, HijackOver, SysOver, StartedMeansComplete,
     Idle, Complete, StartSteps
<1> QED
  BY <1>1, <1>2, <1>3, <1>4, <1>5, <1>6, <1>7 DEF IInv

(* manager.Close clears the client and unlocks whatever client.Close       *)
(* returned.                                                               *)
LEMMA FinishCloseKeeps ==
    ASSUME IInv, NEW c \in Callers, FinishClose(c) PROVE IInv'
<1>1. TypeOK'
  BY DEF FinishClose, Unlock, IInv, TypeOK, Steps, Phases, Ops, hist
<1>2. LockConsistent'
  BY DEF FinishClose, Unlock, LockConsistent, NewSteps, StartSteps, CloseSteps
<1>3. ClientConsistent' /\ CallConsistent'
  BY CallersAssumption DEF FinishClose, Unlock, ClientConsistent,
     CallConsistent
<1>4. NewConsistent'
  BY DEF FinishClose, Unlock, IInv, NewConsistent
<1>5. StartConsistent'
  BY DEF FinishClose, Unlock, StartConsistent
<1>6. CloseConsistent'
  BY DEF FinishClose, Unlock, ClientConsistent, CloseConsistent,
     StartedMeansComplete, Idle, Complete
<1>7. StartedMeansComplete'
  BY DEF FinishClose, Unlock, StartedMeansComplete, Idle, Complete
<1> QED
  BY <1>1, <1>2, <1>3, <1>4, <1>5, <1>6, <1>7 DEF IInv

(* Taking the lock, or returning at once from it, finds the client nil or  *)
(* complete.                                                               *)
LEMMA LockKeeps ==
    ASSUME IInv, NEW c \in Callers, Lock(c) PROVE IInv'
<1>1. TypeOK'
  BY DEF Lock, BeginStart, RefuseStart, BeginClose, CloseNothing, Unlock,
     FirstCloseStep, FirstTunClose, IInv, TypeOK, Steps, NewSteps, CloseSteps,
     Phases, Ops, api, hist
<1>2. LockConsistent'
  BY CallersAssumption DEF Lock, BeginStart, RefuseStart, BeginClose,
     CloseNothing, Unlock, LockConsistent, NewSteps, StartSteps, CloseSteps,
     FirstStartStep, FirstCloseStep, FirstTunClose
<1>3. ClientConsistent' /\ CallConsistent'
  BY CallersAssumption DEF Lock, BeginStart, RefuseStart, BeginClose,
     CloseNothing, Unlock, IInv, ClientConsistent, CallConsistent, api
<1>4. NewConsistent'
  BY DEF Lock, BeginStart, RefuseStart, BeginClose, CloseNothing, Unlock,
     IInv, NewConsistent, FirstCloseStep, FirstTunClose
<1>5. StartConsistent'
  BY DEF Lock, BeginStart, RefuseStart, BeginClose, CloseNothing, Unlock,
     StartConsistent
<1>6. CloseConsistent'
  BY DEF Lock, BeginStart, RefuseStart, BeginClose, CloseNothing, Unlock,
     IInv, TypeOK, ClientConsistent, CloseConsistent, StartedMeansComplete,
     Idle, Complete, HasTun, HasSys, FirstCloseStep, FirstTunClose, Objects,
     Modes
<1>7. StartedMeansComplete'
  BY DEF Lock, BeginStart, RefuseStart, BeginClose, CloseNothing, Unlock,
     IInv, StartedMeansComplete, Idle, Complete
<1> QED
  BY <1>1, <1>2, <1>3, <1>4, <1>5, <1>6, <1>7 DEF IInv

(* A request waits for the lock: it disturbs neither the holder nor the    *)
(* service.                                                                *)
LEMMA CallKeeps ==
    ASSUME IInv, NEW c \in Callers, NEW o \in Ops, Call(c, o) PROVE IInv'
<1>1. TypeOK'
  BY DEF Call, IInv, TypeOK, hist
<1>2. LockConsistent'
  BY DEF Call, IInv, LockConsistent
<1>3. ClientConsistent' /\ CallConsistent'
  BY CallersAssumption DEF Call, IInv, ClientConsistent, CallConsistent
<1>4. NewConsistent'
  BY DEF Call, IInv, NewConsistent
<1>5. StartConsistent'
  BY DEF Call, IInv, StartConsistent, StartProgress, StackOver, HijackOver,
     SysOver
<1>6. CloseConsistent'
  BY DEF Call, IInv, ClientConsistent, CloseConsistent, StartedMeansComplete,
     Idle, Complete
<1>7. StartedMeansComplete'
  BY DEF Call, IInv, StartedMeansComplete, Idle, Complete
<1> QED
  BY <1>1, <1>2, <1>3, <1>4, <1>5, <1>6, <1>7 DEF IInv

(* Saving settings never changes what a client was built from.             *)
LEMMA SetSettingKeeps ==
    ASSUME IInv, NEW s \in Settings, SetSetting(s) PROVE IInv'
<1>1. TypeOK'
  BY DEF SetSetting, IInv, TypeOK, api, hist
<1>2. LockConsistent'
  BY DEF SetSetting, IInv, LockConsistent
<1>3. ClientConsistent' /\ CallConsistent'
  BY CallersAssumption DEF SetSetting, IInv, ClientConsistent, CallConsistent,
     api
<1>4. NewConsistent'
  BY DEF SetSetting, IInv, NewConsistent
<1>5. StartConsistent'
  BY DEF SetSetting, IInv, StartConsistent, StartProgress, StackOver,
     HijackOver, SysOver
<1>6. CloseConsistent'
  BY DEF SetSetting, IInv, ClientConsistent, CloseConsistent,
     StartedMeansComplete, Idle, Complete
<1>7. StartedMeansComplete'
  BY DEF SetSetting, IInv, StartedMeansComplete, Idle, Complete
<1> QED
  BY <1>1, <1>2, <1>3, <1>4, <1>5, <1>6, <1>7 DEF IInv

(* The callback of a monitor only adds the name of the interface.          *)
LEMMA IfaceAppearsKeeps == IInv /\ IfaceAppears => IInv'
<1> SUFFICES ASSUME IInv, IfaceAppears PROVE IInv'
  OBVIOUS
<1>1. TypeOK'
  BY DEF IfaceAppears, Memories, IInv, TypeOK, api, hist
<1>2. LockConsistent'
  BY DEF IfaceAppears, IInv, LockConsistent
<1>3. ClientConsistent' /\ CallConsistent'
  BY CallersAssumption DEF IfaceAppears, IInv, ClientConsistent,
     CallConsistent, api
<1>4. NewConsistent'
  BY DEF IfaceAppears, IInv, NewConsistent
<1>5. StartConsistent'
  BY DEF IfaceAppears, IInv, StartConsistent, StartProgress, StackOver,
     HijackOver, SysOver
<1>6. CloseConsistent'
  BY DEF IfaceAppears, IInv, ClientConsistent, CloseConsistent,
     StartedMeansComplete, Idle, Complete
<1>7. StartedMeansComplete'
  BY DEF IfaceAppears, IInv, StartedMeansComplete, Idle, Complete
<1> QED
  BY <1>1, <1>2, <1>3, <1>4, <1>5, <1>6, <1>7 DEF IInv

(* A death of the process leaves a new process that holds nothing.         *)
LEMMA DieKeeps == IInv /\ Die => IInv'
<1> SUFFICES ASSUME IInv, Die PROVE IInv'
  OBVIOUS
<1>1. TypeOK'
  <2>1. obj' \in Objects /\ mem' \in Memories
    BY DEF Die, NoObj, NewProcess, Objects, Memories, Modes, Dns
  <2>2. os' \in Systems
    BY DEF Die, IInv, TypeOK, Systems
  <2>3. /\ op' \in [Callers -> Ops \cup {"none", "exiting"}]
        /\ answer' \in [Callers -> {"none", "ok", "refused", "error"}]
        /\ restarts' \in Nat
    BY DEF Die, IInv, TypeOK
  <2>4. unclean' \in BOOLEAN
    BY Zenon DEF Die
  <2> QED
    BY <2>1, <2>2, <2>3, <2>4 DEF Die, IInv, TypeOK, Steps
<1>2. LockConsistent'
  BY DEF Die, NewProcess, LockConsistent, NewSteps, StartSteps, CloseSteps
<1>3. ClientConsistent' /\ CallConsistent'
  BY CallersAssumption DEF Die, NewProcess, ClientConsistent, CallConsistent
<1>4. NewConsistent'
  BY DEF Die, NewProcess, NewConsistent
<1>5. StartConsistent'
  BY DEF Die, NewProcess, StartConsistent
<1>6. CloseConsistent'
  BY DEF Die, NewProcess, ClientConsistent, CloseConsistent,
     StartedMeansComplete, Idle, Complete
<1>7. StartedMeansComplete'
  BY DEF Die, NewProcess, StartedMeansComplete, Idle, Complete
<1> QED
  BY <1>1, <1>2, <1>3, <1>4, <1>5, <1>6, <1>7 DEF IInv

(* A step that changes nothing keeps the invariant.                        *)
LEMMA StutterKeeps == IInv /\ UNCHANGED vars => IInv'
<1> SUFFICES ASSUME IInv, UNCHANGED vars PROVE IInv'
  OBVIOUS
<1>1. TypeOK'
  BY DEF vars, IInv, TypeOK, api, hist
<1>2. LockConsistent'
  BY DEF vars, IInv, LockConsistent
<1>3. ClientConsistent' /\ CallConsistent'
  BY CallersAssumption DEF vars, IInv, ClientConsistent, CallConsistent, api
<1>4. NewConsistent'
  BY DEF vars, IInv, NewConsistent
<1>5. StartConsistent'
  BY DEF vars, IInv, StartConsistent, StartProgress, StackOver, HijackOver,
     SysOver
<1>6. CloseConsistent'
  BY DEF vars, IInv, ClientConsistent, CloseConsistent, StartedMeansComplete,
     Idle, Complete
<1>7. StartedMeansComplete'
  BY DEF vars, IInv, StartedMeansComplete, Idle, Complete
<1> QED
  BY <1>1, <1>2, <1>3, <1>4, <1>5, <1>6, <1>7 DEF IInv

-----------------------------------------------------------------------------
(* Every step preserves the invariant.                                     *)
LEMMA StepKeeps == IInv /\ [Next]_vars => IInv'
<1> SUFFICES ASSUME IInv, [Next]_vars PROVE IInv'
  OBVIOUS
<1>1. CASE NewStep
  BY <1>1, ReadModeKeeps, NewSysProxyKeeps, StartMonitorKeeps,
     AwaitIfaceKeeps, ReadTunConfigKeeps, OpenTunKeeps, StartTunKeeps,
     AssembleKeeps, AssignClientKeeps, FailNewKeeps DEF NewStep
<1>2. CASE StartStep
  BY <1>2, ListenTcpKeeps, ListenUdpKeeps, SetHttpProxyKeeps,
     SetHttpsProxyKeeps, StartStackKeeps, HijackKeeps, AbortStartKeeps,
     FinishStartKeeps DEF StartStep
<1>3. CASE CloseStep
  BY <1>3, ClearHttpKeeps, ClearHttpsKeeps, CloseUdpKeeps, CloseTcpKeeps,
     ResumeDnsKeeps, CloseTunKeeps, StopMonitorKeeps, FinishCloseKeeps DEF
     CloseStep
<1>4. CASE \E c \in Callers, o \in Ops : Call(c, o)
  BY <1>4, CallKeeps
<1>5. CASE \E s \in Settings : SetSetting(s)
  BY <1>5, SetSettingKeeps
<1>6. CASE \E c \in Callers : Lock(c)
  BY <1>6, LockKeeps
<1>7. CASE Crash \/ \E c \in Callers : OsExit(c)
  BY <1>7, DieKeeps DEF Crash, OsExit
<1>8. CASE IfaceAppears
  BY <1>8, IfaceAppearsKeeps
<1>9. CASE UNCHANGED vars
  BY <1>9, StutterKeeps
<1> QED
  BY <1>1, <1>2, <1>3, <1>4, <1>5, <1>6, <1>7, <1>8, <1>9 DEF Next, HolderStep

(* The lock, the phases and the progress of a start always agree.          *)
THEOREM Consistency == SafeSpec => []IInv
<1> QED
  BY InitIInv, StepKeeps, PTL DEF SafeSpec

(* The variables of Lifecycle have their types.                            *)
THEOREM TypeCorrect == Spec => []TypeOK
<1>1. IInv => TypeOK
  BY DEF IInv
<1> QED
  BY <1>1, Consistency, PTL DEF Spec

(* Whenever manager.mux is free and manager.client is a client, that client *)
(* has every resource of its mode, whatever failed before.                 *)
THEOREM StartedComplete == Spec => []StartedMeansComplete
<1>1. IInv => StartedMeansComplete
  BY DEF IInv
<1> QED
  BY <1>1, Consistency, PTL DEF Spec

-----------------------------------------------------------------------------
(* The refinement: a step of the holder that neither returns nor publishes *)
(* a client is a stutter of the switch, every other step one of its steps. *)

(* A process that has just started is a switch that is down.               *)
LEMMA InitIsSwitchInit == Init => Switch!Init
  BY DEF Init, Up, Switch!Init

(* Of the steps under the lock only the last ones of Start and Close are   *)
(* steps of the switch: a return of a start that worked, of one that       *)
(* failed in New or was undone, and of a stop; the others stutter.         *)
LEMMA HolderStepIsSwitchStep ==
    ASSUME IInv, HolderStep PROVE [Switch!Next]_Switch!vars
<1>1. CASE \E c \in Callers : FailNew(c)
  <2>1. PICK c \in Callers : FailNew(c)
    BY <1>1
  <2>2. op[c] = "start" /\ ~Up
    BY <2>1 DEF FailNew, IInv, LockConsistent, CallConsistent,
       ClientConsistent, NewSteps, Up, Unlock
  <2>3. Switch!Start(c)
    BY <2>1, <2>2 DEF FailNew, Unlock, Up, Switch!Start, Switch!Return
  <2> QED
    BY <2>3 DEF Switch!Next
<1>2. CASE \E c \in Callers : FinishStart(c)
  <2>1. PICK c \in Callers : FinishStart(c)
    BY <1>2
  <2>2. op[c] = "start" /\ ~Up /\ client = "live"
    BY <2>1 DEF FinishStart, IInv, LockConsistent, CallConsistent,
       ClientConsistent, StartSteps, Up
  <2>3. Switch!Start(c)
    BY <2>1, <2>2 DEF FinishStart, Unlock, Up, Switch!Start, Switch!Return
  <2> QED
    BY <2>3 DEF Switch!Next
<1>3. CASE \E c \in Callers : FinishClose(c)
  <2>1. PICK c \in Callers : FinishClose(c)
    BY <1>3
  <2>2. client = "live" /\ ~Up'
    BY <2>1 DEF FinishClose, IInv, LockConsistent, ClientConsistent,
       CloseSteps, Up
  <2>3. CASE phase = "abort"
    <3>1. op[c] = "start" /\ ~Up
      BY <2>1, <2>3 DEF FinishClose, IInv, CallConsistent, Up
    <3>2. Switch!Start(c)
      BY <2>1, <2>2, <2>3, <3>1 DEF FinishClose, Unlock, Up, Switch!Start,
         Switch!Return
    <3> QED
      BY <3>2 DEF Switch!Next
  <2>4. CASE phase = "close"
    <3>1. op[c] \in {"stop", "exit"} /\ Up
      BY <2>1, <2>2, <2>4 DEF FinishClose, IInv, CallConsistent, Up
    <3>2. Switch!Stop(c) \/ Switch!CloseToExit(c)
      BY <2>1, <2>2, <2>4, <3>1 DEF FinishClose, Unlock, Up, Switch!Stop,
         Switch!CloseToExit, Switch!Return
    <3> QED
      BY <3>2 DEF Switch!Next
  <2> QED
    BY <2>1, <2>3, <2>4 DEF FinishClose, IInv, LockConsistent, CloseSteps
<1>4. CASE AssignClient \/ AbortStart
  <2>1. ~Up /\ ~Up' /\ UNCHANGED <<op, answer>>
    BY <1>4 DEF AssignClient, AbortStart, IInv, LockConsistent,
       ClientConsistent, NewSteps, StartSteps, Up, api
  <2> QED
    BY <2>1 DEF Up, Switch!vars
<1>5. ASSUME UNCHANGED <<client, phase, op, answer>>
      PROVE  [Switch!Next]_Switch!vars
  BY <1>5 DEF Up, Switch!vars
<1>6. CASE \/ ReadMode \/ NewSysProxy \/ StartMonitor \/ AwaitIface
           \/ ReadTunConfig \/ OpenTun \/ StartTun \/ Assemble
  BY <1>5, <1>6 DEF ReadMode, NewSysProxy, StartMonitor, AwaitIface,
     ReadTunConfig, OpenTun, StartTun, Assemble, Succeed, Fail, api
<1>7. CASE \/ ListenTcp \/ ListenUdp \/ SetHttpProxy \/ SetHttpsProxy
           \/ StartStack \/ Hijack
  BY <1>5, <1>7 DEF ListenTcp, ListenUdp, SetHttpProxy, SetHttpsProxy,
     StartStack, Hijack, Succeed, Refuse, Fail, api
<1>8. CASE \/ ClearHttp \/ ClearHttps \/ CloseUdp \/ CloseTcp \/ ResumeDns
           \/ CloseTun \/ StopMonitor
  BY <1>5, <1>8 DEF ClearHttp, ClearHttps, CloseUdp, CloseTcp, ResumeDns,
     CloseTun, StopMonitor, Succeed, Fail, api
<1> QED
  BY <1>1, <1>2, <1>3, <1>4, <1>6, <1>7, <1>8 DEF HolderStep, NewStep,
     StartStep, CloseStep

(* Taking the lock stutters; a refused start and a stop of nothing return  *)
(* according to the switch.                                                *)
LEMMA LockIsSwitchStep ==
    ASSUME IInv, NEW c \in Callers, Lock(c) PROVE [Switch!Next]_Switch!vars
<1>1. CASE BeginStart(c) \/ BeginClose(c)
  <2>1. UNCHANGED <<op, answer>> /\ (Up' <=> Up)
    BY <1>1 DEF BeginStart, BeginClose, IInv, LockConsistent,
       ClientConsistent, Up, api
  <2>2. Up' = Up
    BY <2>1 DEF Up
  <2> QED
    BY <2>1, <2>2 DEF Switch!vars
<1>2. CASE RefuseStart(c)
  <2>1. Up /\ Up'
    BY <1>2 DEF RefuseStart, Unlock, IInv, LockConsistent, ClientConsistent,
       Up
  <2>2. Switch!Start(c)
    BY <1>2, <2>1 DEF RefuseStart, Unlock, Switch!Start, Switch!Return, Up
  <2> QED
    BY <2>2 DEF Switch!Next
<1>3. CASE CloseNothing(c)
  <2>1. ~Up'
    BY <1>3 DEF CloseNothing, Up
  <2>2. Switch!Stop(c) \/ Switch!CloseToExit(c)
    BY <1>3, <2>1 DEF CloseNothing, Unlock, Up, Switch!Stop,
       Switch!CloseToExit, Switch!Return
  <2> QED
    BY <2>2 DEF Switch!Next
<1> QED
  BY <1>1, <1>2, <1>3 DEF Lock

(* Every step of the manager is a step of the switch or stutters.          *)
LEMMA StepIsSwitchStep == IInv /\ [Next]_vars => [Switch!Next]_Switch!vars
<1> SUFFICES ASSUME IInv, [Next]_vars PROVE [Switch!Next]_Switch!vars
  OBVIOUS
<1>1. CASE \E c \in Callers, o \in Ops : Call(c, o)
  <2>1. PICK c \in Callers, o \in Ops : Call(c, o)
    BY <1>1
  <2>2. Switch!Call(c, o)
    BY <2>1 DEF Call, Switch!Call, Up
  <2> QED
    BY <2>2 DEF Switch!Next, Ops
<1>2. CASE \E c \in Callers : Lock(c)
  BY <1>2, LockIsSwitchStep
<1>3. CASE HolderStep
  BY <1>3, HolderStepIsSwitchStep
<1>4. CASE Crash \/ \E c \in Callers : OsExit(c)
  <2>1. Switch!Restart
    BY <1>4 DEF Crash, OsExit, Die, Up, Switch!Restart
  <2> QED
    BY <2>1 DEF Switch!Next
<1>5. CASE IfaceAppears \/ (\E s \in Settings : SetSetting(s)) \/ UNCHANGED vars
  BY <1>5 DEF IfaceAppears, SetSetting, vars, api, Up, Switch!vars
<1> QED
  BY <1>1, <1>2, <1>3, <1>4, <1>5 DEF Next

(* The manager implements the switch: the calls of any number of handlers, *)
(* with failures, crashes and exits at any step, return as if each start   *)
(* and stop were one atomic change of a service that is up or down.        *)
THEOREM ManagerIsSwitch == SafeSpec => ImplementsService
<1> QED
  BY InitIsSwitchInit, StepIsSwitchStep, Consistency, PTL DEF SafeSpec,
     ImplementsService, Switch!Spec

=============================================================================
