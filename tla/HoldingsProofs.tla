-------------------------- MODULE HoldingsProofs ---------------------------
(***************************************************************************)
(* What the service holds of the system, for every set of callers and      *)
(* settings and any number of faults and restarts: a stopped service holds *)
(* nothing, gives the DNS servers back, and does not leave them hijacked   *)
(* after a failed start.                                                   *)
(*                                                                         *)
(* HInv says in which steps each resource is held.  Its parts hold while   *)
(* only the faults have happened that the property allows.                 *)
(***************************************************************************)
EXTENDS LifecycleProofs

(* The tun of the client under way is open: from the step after newTun     *)
(* opened it to the one that closes it.                                    *)
Closing   == {"clearHttp", "clearHttps", "closeUdp", "closeTcp"}
TunIsOpen ==
    \/ step \in {"tunStart", "assemble", "resume", "tunClose"}
    \/ HasTun(obj) /\ (step = "assign" \/ phase = "start")
    \/ HasTun(obj) /\ step = "none" /\ client = "live"
    \/ obj.mode = "mixed" /\ step \in Closing

TunCounted ==
    /\ phase \in {"none", "new"} => ~err
    /\ step # "cleanup"
    /\ os.tuns = IF TunIsOpen THEN 1 ELSE 0

(* The process remembers the one monitor that runs, from newTun on and     *)
(* until the step that stops it.                                           *)
MonitorCounted ==
    /\ os.monitors = IF mem.monitor THEN 1 ELSE 0
    /\ mem.monitor =>
           \/ step \in {"iface", "tunConfig", "tunOpen", "stopMonitor"}
           \/ TunIsOpen

(* The listeners that are open are those of the client, which has closed   *)
(* them when it is past their steps.                                       *)
ListenersCounted ==
    /\ os.tcp = obj.tcp /\ os.udp = obj.udp
    /\ step \in {"listenTcp", "listenUdp"} \/ obj.tcp \/ obj.udp =>
           client = "live" /\ (HasSys(obj) \/ ServesLan(obj))
    /\ obj.tcp \/ obj.udp =>
           /\ step # "closed"
           /\ ~(HasSys(obj) /\ step \in {"resume", "tunClose", "stopMonitor"})
    /\ obj.udp => step # "closeTcp"

(* So are the web proxies, unless a process died with them on.             *)
ProxiesCounted ==
    ~unclean =>
        /\ os.http \/ os.https => client = "live" /\ HasSys(obj)
        /\ os.http  => step \notin CloseSteps \ {"clearHttp"}
        /\ os.https => step \notin CloseSteps \ {"clearHttp", "clearHttps"}

(* What the system holds while only steps of client.Start have failed.     *)
Held ==
    faulted \subseteq {"start"} =>
        TunCounted /\ MonitorCounted /\ ListenersCounted /\ ProxiesCounted

(* The DNS servers are hijacked for a client that is past its hijack and   *)
(* not past its resume, and the servers remembered are not the hijacked    *)
(* ones.                                                                   *)
BeforeHijack ==
    \/ step \in {"stackUp", "hijack"}
    \/ /\ HasSys(obj)
       /\ step \in {"listenTcp", "listenUdp", "setHttp", "setHttps"}
AfterResume ==
    \/ step \in {"tunClose", "stopMonitor", "closed"}
    \/ obj.mode = "tun" /\ step \in {"closeUdp", "closeTcp"}

HijackedByClient ==
    faulted \subseteq {"new", "start"} /\ ~unclean =>
        /\ os.dns = "hijacked" =>
               /\ client = "live" /\ HasTun(obj) /\ obj.hijack
               /\ ~BeforeHijack /\ ~AfterResume
        /\ step = "hijack" => obj.hijack
        /\ mem.original # "hijacked"

(* The servers of the user, and what a reset leaves.                       *)
Restored == {userDns} \cup {"empty" : s \in {t \in Settings : t.reset}}

(* Without a failure, a client resumes what it hijacked.                   *)
BeforeResume ==
    \/ step = "resume"
    \/ obj.mode = "mixed" /\ step \in Closing
    \/ HasTun(obj) /\ step = "started"
    \/ obj.mode = "tun" /\ step \in {"listenTcp", "listenUdp"}
DnsKept ==
    /\ obj.reset => \E t \in Settings : t.reset
    /\ step = "resume" => obj.hijack
    /\ faulted = {} /\ ~unclean =>
        /\ os.dns # "hijacked" => os.dns \in Restored
        /\ os.dns = "hijacked" /\ ~obj.reset => mem.original \in Restored
        /\ BeforeResume /\ obj.hijack => os.dns = "hijacked"

(* A step of one half of a client belongs to an object that has that half. *)
StepsFit ==
    /\ step \in {"monitor", "iface", "tunConfig", "tunOpen", "tunStart",
                 "assemble"} => HasTun(obj)
    /\ step \in {"clearHttp", "clearHttps"} => HasSys(obj)

HInv == StepsFit /\ Held /\ HijackedByClient /\ DnsKept

-----------------------------------------------------------------------------
(* A fresh process holds nothing.                                          *)
LEMMA InitHInv == Init => HInv
<1> SUFFICES ASSUME Init PROVE HInv
  OBVIOUS
<1>1. Held
  BY DEF Init, Held, TunCounted, TunIsOpen, MonitorCounted, ListenersCounted,
     ProxiesCounted, NoObj, NewProcess
<1>2. HijackedByClient
  BY DnsAssumption DEF Init, HijackedByClient, NewProcess
<1>3. DnsKept
  BY DnsAssumption DEF Init, DnsKept, Restored, NoObj
<1>4. StepsFit
  BY DEF Init, StepsFit
<1> QED
  BY <1>1, <1>2, <1>3, <1>4 DEF HInv

(* A new client object holds nothing.                                      *)
LEMMA ReadModeCounts ==
    ASSUME IInv, HInv, ReadMode PROVE HInv'
<1>0. StepsFit'
  BY SettingsAssumption DEF ReadMode, Succeed, Fail, NoObj, StepsFit, HasTun,
     Modes, Setting, IInv, TypeOK
<1>1. Held'
  <2> SUFFICES ASSUME faulted' \subseteq {"start"}
               PROVE  /\ TunCounted' /\ MonitorCounted'
                      /\ ListenersCounted' /\ ProxiesCounted'
    BY DEF Held
  <2>1. faulted \subseteq {"start"}
    BY DEF ReadMode, Succeed, Fail, hist
  <2>2. /\ TunCounted /\ MonitorCounted /\ ListenersCounted
        /\ ProxiesCounted /\ StepsFit
    BY <2>1 DEF HInv, Held
  <2>8. ASSUME NEW n, Fail("read", n) PROVE FALSE
    <3>1. phase \in {"new"} /\ phase \in faulted'
      BY <2>8 DEF Fail, IInv, LockConsistent, NewSteps
    <3> QED
      BY <3>1

  <2>3. TunCounted'
    BY <2>2 DEF ReadMode, Succeed, Fail, IInv, LockConsistent, NewSteps,
       Closing, TunCounted, TunIsOpen
  <2>4. MonitorCounted'
    BY <2>2 DEF ReadMode, Succeed, Fail, IInv, LockConsistent, StartSteps,
       Closing, MonitorCounted, TunIsOpen
  <2>5. ListenersCounted'
    <3>1. os.tcp = FALSE /\ os.udp = FALSE
      BY <2>2 DEF ReadMode, Succeed, Fail, ListenersCounted, IInv,
         LockConsistent, ClientConsistent, NewSteps
    <3>2. /\ obj'.tcp = FALSE /\ obj'.udp = FALSE /\ os' = os
          /\ step' \in NewSteps
      BY <2>8 DEF ReadMode, Succeed, NoObj, NewSteps
    <3> QED
      BY <3>1, <3>2 DEF ListenersCounted, NewSteps
  <2>6. ProxiesCounted'
    BY <2>2 DEF ReadMode, Succeed, Fail, IInv, LockConsistent,
       ClientConsistent, NewSteps, hist, ProxiesCounted
  <2> QED
    BY <2>3, <2>4, <2>5, <2>6
<1>2. HijackedByClient'
  BY DEF ReadMode, Succeed, Fail, IInv, LockConsistent, ClientConsistent,
     NewSteps, hist, HInv, HijackedByClient
<1>3. DnsKept'
  BY DEF ReadMode, Succeed, Fail, NoObj, IInv, LockConsistent,
     ClientConsistent, NewSteps, hist, HInv, HijackedByClient, DnsKept,
     Restored
<1> QED
  BY <1>0, <1>1, <1>2, <1>3 DEF HInv

(* The system proxy acquires nothing yet.                                  *)
LEMMA NewSysProxyCounts ==
    ASSUME IInv, HInv, NewSysProxy PROVE HInv'
<1>0. StepsFit'
  BY DEF NewSysProxy, Succeed, Fail, HInv, StepsFit
<1>1. Held'
  <2> SUFFICES ASSUME faulted' \subseteq {"start"}
               PROVE  /\ TunCounted' /\ MonitorCounted'
                      /\ ListenersCounted' /\ ProxiesCounted'
    BY DEF Held
  <2>1. faulted \subseteq {"start"}
    BY DEF NewSysProxy, Succeed, Fail, hist
  <2>2. /\ TunCounted /\ MonitorCounted /\ ListenersCounted
        /\ ProxiesCounted /\ StepsFit
    BY <2>1 DEF HInv, Held
  <2>8. ASSUME NEW n, Fail("sysConfig", n) PROVE FALSE
    <3>1. phase \in {"new"} /\ phase \in faulted'
      BY <2>8 DEF Fail, IInv, LockConsistent, NewSteps
    <3> QED
      BY <3>1
  <2>9. TunIsOpen' <=> TunIsOpen
    <3>1. /\ step = "sysConfig" /\ step' = "assign" /\ obj' = obj
          /\ obj.mode = "system" /\ phase = "new" /\ phase' = phase
      BY DEF NewSysProxy, Succeed, Fail, IInv, LockConsistent, NewConsistent,
         NewSteps
    <3> QED
      BY <3>1 DEF TunIsOpen, HasTun
  <2>3. TunCounted'
    BY <2>2, <2>8, <2>9 DEF NewSysProxy, Succeed, TunCounted
  <2>4. MonitorCounted'
    BY <2>2 DEF NewSysProxy, Succeed, Fail, Closing, MonitorCounted, TunIsOpen
  <2>5. ListenersCounted'
    BY <2>2 DEF NewSysProxy, Succeed, Fail, ListenersCounted
  <2>6. ProxiesCounted'
    BY <2>2 DEF NewSysProxy, Succeed, Fail, CloseSteps, hist, ProxiesCounted
  <2> QED
    BY <2>3, <2>4, <2>5, <2>6
<1>2. HijackedByClient'
  BY DEF NewSysProxy, Succeed, Fail, hist, HInv, HijackedByClient,
     BeforeHijack, AfterResume
<1>3. DnsKept'
  BY DEF NewSysProxy, Succeed, Fail, Closing, hist, HInv, DnsKept, Restored,
     BeforeResume
<1> QED
  BY <1>0, <1>1, <1>2, <1>3 DEF HInv

(* One monitor runs once it is remembered.                                 *)
LEMMA StartMonitorCounts ==
    ASSUME IInv, HInv, StartMonitor PROVE HInv'
<1>0. StepsFit'
  BY DEF StartMonitor, Succeed, Fail, HInv, StepsFit
<1>1. Held'
  <2> SUFFICES ASSUME faulted' \subseteq {"start"}
               PROVE  /\ TunCounted' /\ MonitorCounted'
                      /\ ListenersCounted' /\ ProxiesCounted'
    BY DEF Held
  <2>1. faulted \subseteq {"start"}
    BY DEF StartMonitor, Succeed, Fail, hist
  <2>2. /\ TunCounted /\ MonitorCounted /\ ListenersCounted
        /\ ProxiesCounted /\ StepsFit
    BY <2>1 DEF HInv, Held
  <2>8. ASSUME NEW n, Fail("monitor", n) PROVE FALSE
    <3>1. phase \in {"new"} /\ phase \in faulted'
      BY <2>8 DEF Fail, IInv, LockConsistent, NewSteps
    <3> QED
      BY <3>1
  <2>9. TunIsOpen' <=> TunIsOpen
    <3>1. /\ step = "monitor" /\ step' = "iface" /\ obj' = obj
          /\ phase = "new" /\ phase' = phase
      BY <2>8 DEF StartMonitor, Succeed, IInv, LockConsistent, NewSteps
    <3> QED
      BY <3>1 DEF TunIsOpen, Closing
  <2>3. TunCounted'
    <3>1. \/ os' = os
          \/ os' = [os EXCEPT !.monitors = os.monitors + 1]
      BY DEF StartMonitor
    <3>2. os'.tuns = os.tuns
      BY <3>1 DEF IInv, TypeOK, Systems
    <3>3. Succeed("monitor", "iface")
      BY <2>8 DEF StartMonitor
    <3> QED
      BY <2>2, <2>9, <3>2, <3>3 DEF Succeed, TunCounted
  <2>4. MonitorCounted'
    <3>1. ~mem.monitor /\ os.monitors = 0
      BY <2>2 DEF StartMonitor, Succeed, Fail, MonitorCounted, TunIsOpen,
         IInv, LockConsistent, NewSteps, Closing
    <3>2. step' = "iface"
      BY <2>8 DEF StartMonitor, Succeed
    <3>3. \/ os' = os /\ mem'.monitor = mem.monitor
          \/ os'.monitors = os.monitors + 1 /\ mem'.monitor = TRUE
      BY <2>8 DEF StartMonitor, IInv, TypeOK, Systems, Memories
    <3> QED
      BY <3>1, <3>2, <3>3 DEF MonitorCounted
  <2>5. ListenersCounted'
    BY <2>2 DEF StartMonitor, Succeed, Fail, IInv, TypeOK, Systems,
       ListenersCounted
  <2>6. ProxiesCounted'
    BY <2>2 DEF StartMonitor, Succeed, Fail, IInv, TypeOK, CloseSteps,
       Systems, hist, ProxiesCounted
  <2> QED
    BY <2>3, <2>4, <2>5, <2>6
<1>2. os'.dns = os.dns /\ mem'.original = mem.original
  <2>1. \/ os' = os
        \/ os' = [os EXCEPT !.monitors = os.monitors + 1]
    BY DEF StartMonitor
  <2>2. os'.dns = os.dns
    BY <2>1 DEF IInv, TypeOK, Systems
  <2>3. mem'.original = mem.original
    BY DEF StartMonitor, IInv, TypeOK, Memories
  <2> QED
    BY <2>2, <2>3
<1>3. /\ step = "monitor" /\ step' \in {"iface", "assign"} /\ obj' = obj
      /\ client' = client /\ unclean' = unclean /\ faulted \subseteq faulted'
      /\ client # "live"
  BY DEF StartMonitor, Succeed, Fail, hist, IInv, LockConsistent,
     ClientConsistent, NewSteps
<1>4. HijackedByClient'
  BY <1>2, <1>3 DEF HInv, HijackedByClient
<1>5. DnsKept'
  <2>1. userDns' = userDns
    BY DEF StartMonitor, Succeed, Fail, hist
  <2>2. ~BeforeResume'
    BY <1>3 DEF BeforeResume, Closing
  <2>3. faulted' = {} => faulted = {}
    BY <1>3
  <2>4. Restored' = Restored
    BY <2>1 DEF Restored
  <2>5. step' # "resume"
    BY <1>3
  <2> QED
    BY <1>2, <1>3, <2>2, <2>3, <2>4, <2>5 DEF HInv, DnsKept
<1> QED
  BY <1>0, <1>1, <1>4, <1>5 DEF HInv

(* Waiting acquires nothing.                                               *)
LEMMA AwaitIfaceCounts ==
    ASSUME IInv, HInv, AwaitIface PROVE HInv'
<1>0. StepsFit'
  BY DEF AwaitIface, Succeed, HInv, StepsFit
<1>1. Held'
  <2> SUFFICES ASSUME faulted' \subseteq {"start"}
               PROVE  /\ TunCounted' /\ MonitorCounted'
                      /\ ListenersCounted' /\ ProxiesCounted'
    BY DEF Held
  <2>1. faulted \subseteq {"start"}
    BY DEF AwaitIface, Succeed, hist
  <2>2. /\ TunCounted /\ MonitorCounted /\ ListenersCounted
        /\ ProxiesCounted /\ StepsFit
    BY <2>1 DEF HInv, Held
  <2>3. TunCounted'
    BY <2>2 DEF AwaitIface, Succeed, Closing, TunCounted, TunIsOpen
  <2>4. MonitorCounted'
    BY <2>2 DEF AwaitIface, Succeed, MonitorCounted
  <2>5. ListenersCounted'
    BY <2>2 DEF AwaitIface, Succeed, ListenersCounted
  <2>6. ProxiesCounted'
    BY <2>2 DEF AwaitIface, Succeed, CloseSteps, hist, ProxiesCounted
  <2> QED
    BY <2>3, <2>4, <2>5, <2>6
<1>2. HijackedByClient'
  BY DEF AwaitIface, Succeed, hist, HInv, HijackedByClient, BeforeHijack,
     AfterResume
<1>3. DnsKept'
  BY DEF AwaitIface, Succeed, Closing, hist, HInv, DnsKept, Restored,
     BeforeResume
<1> QED
  BY <1>0, <1>1, <1>2, <1>3 DEF HInv

(* The settings decide what the client will hijack and reset.              *)
LEMMA ReadTunConfigCounts ==
    ASSUME IInv, HInv, ReadTunConfig PROVE HInv'
<1>0. StepsFit'
  BY DEF ReadTunConfig, Succeed, Fail, IInv, TypeOK, Objects, HInv, StepsFit,
     HasTun
<1>1. Held'
  <2> SUFFICES ASSUME faulted' \subseteq {"start"}
               PROVE  /\ TunCounted' /\ MonitorCounted'
                      /\ ListenersCounted' /\ ProxiesCounted'
    BY DEF Held
  <2>1. faulted \subseteq {"start"}
    BY DEF ReadTunConfig, Succeed, Fail, hist
  <2>2. /\ TunCounted /\ MonitorCounted /\ ListenersCounted
        /\ ProxiesCounted /\ StepsFit
    BY <2>1 DEF HInv, Held
  <2>8. ASSUME NEW n, Fail("tunConfig", n) PROVE FALSE
    <3>1. phase \in {"new"} /\ phase \in faulted'
      BY <2>8 DEF Fail, IInv, LockConsistent, NewSteps
    <3> QED
      BY <3>1
  <2>9. ~TunIsOpen /\ ~TunIsOpen'
    <3>1. /\ step = "tunConfig" /\ step' = "tunOpen"
          /\ phase = "new" /\ phase' = phase
      BY <2>8 DEF ReadTunConfig, Succeed, IInv, LockConsistent, NewSteps
    <3> QED
      BY <3>1 DEF TunIsOpen, Closing
  <2>3. TunCounted'
    BY <2>2 DEF ReadTunConfig, Succeed, Fail, IInv, LockConsistent,
       StartSteps, Closing, TunCounted, TunIsOpen
  <2>4. MonitorCounted'
    BY <2>2, <2>8, <2>9 DEF ReadTunConfig, Succeed, MonitorCounted
  <2>5. ListenersCounted'
    <3>1. /\ os.tcp = FALSE /\ os.udp = FALSE
          /\ obj.tcp = FALSE /\ obj.udp = FALSE
      BY <2>2 DEF ReadTunConfig, Succeed, Fail, ListenersCounted, IInv,
         LockConsistent, ClientConsistent, NewSteps
    <3>2. /\ obj'.tcp = obj.tcp /\ obj'.udp = obj.udp /\ os' = os
          /\ step' = "tunOpen"
      BY <2>8 DEF ReadTunConfig, Succeed, IInv, TypeOK, Objects
    <3> QED
      BY <3>1, <3>2 DEF ListenersCounted
  <2>6. ProxiesCounted'
    BY <2>2 DEF ReadTunConfig, Succeed, Fail, IInv, LockConsistent,
       ClientConsistent, NewSteps, hist, ProxiesCounted
  <2> QED
    BY <2>3, <2>4, <2>5, <2>6
<1>2. HijackedByClient'
  BY DEF ReadTunConfig, Succeed, Fail, IInv, LockConsistent, ClientConsistent,
     NewSteps, hist, HInv, HijackedByClient
<1>3. DnsKept'
  BY DEF ReadTunConfig, Succeed, Fail, IInv, TypeOK, LockConsistent,
     ClientConsistent, NewSteps, Objects, Closing, hist, HInv,
     HijackedByClient, DnsKept, Restored, BeforeResume
<1> QED
  BY <1>0, <1>1, <1>2, <1>3 DEF HInv

(* One tun is open.                                                        *)
LEMMA OpenTunCounts ==
    ASSUME IInv, HInv, OpenTun PROVE HInv'
<1>0. StepsFit'
  BY DEF OpenTun, Succeed, Fail, HInv, StepsFit
<1>1. Held'
  <2> SUFFICES ASSUME faulted' \subseteq {"start"}
               PROVE  /\ TunCounted' /\ MonitorCounted'
                      /\ ListenersCounted' /\ ProxiesCounted'
    BY DEF Held
  <2>1. faulted \subseteq {"start"}
    BY DEF OpenTun, Succeed, Fail, hist
  <2>2. /\ TunCounted /\ MonitorCounted /\ ListenersCounted
        /\ ProxiesCounted /\ StepsFit
    BY <2>1 DEF HInv, Held
  <2>3. TunCounted'
    BY <2>2 DEF OpenTun, Succeed, Fail, IInv, TypeOK, LockConsistent,
       StartSteps, Systems, Closing, TunCounted, TunIsOpen
  <2>4. MonitorCounted'
    BY <2>2 DEF OpenTun, Succeed, Fail, IInv, TypeOK, Systems, MonitorCounted,
       TunIsOpen, StepsFit
  <2>5. ListenersCounted'
    BY <2>2 DEF OpenTun, Succeed, Fail, IInv, TypeOK, Systems,
       ListenersCounted
  <2>6. ProxiesCounted'
    BY <2>2 DEF OpenTun, Succeed, Fail, IInv, TypeOK, CloseSteps, Systems,
       hist, ProxiesCounted
  <2> QED
    BY <2>3, <2>4, <2>5, <2>6
<1>2. HijackedByClient'
  BY DEF OpenTun, Succeed, Fail, IInv, TypeOK, Systems, hist, HInv,
     HijackedByClient, BeforeHijack, AfterResume
<1>3. DnsKept'
  BY DEF OpenTun, Succeed, Fail, IInv, TypeOK, Systems, Closing, hist, HInv,
     DnsKept, Restored, BeforeResume
<1> QED
  BY <1>0, <1>1, <1>2, <1>3 DEF HInv

(* The tun stays open.                                                     *)
LEMMA StartTunCounts ==
    ASSUME IInv, HInv, StartTun PROVE HInv'
<1>0. StepsFit'
  BY DEF StartTun, Succeed, Fail, HInv, StepsFit
<1>1. Held'
  <2> SUFFICES ASSUME faulted' \subseteq {"start"}
               PROVE  /\ TunCounted' /\ MonitorCounted'
                      /\ ListenersCounted' /\ ProxiesCounted'
    BY DEF Held
  <2>1. faulted \subseteq {"start"}
    BY DEF StartTun, Succeed, Fail, hist
  <2>2. /\ TunCounted /\ MonitorCounted /\ ListenersCounted
        /\ ProxiesCounted /\ StepsFit
    BY <2>1 DEF HInv, Held
  <2>3. TunCounted'
    BY <2>2 DEF StartTun, Succeed, Fail, TunCounted, TunIsOpen, StepsFit
  <2>4. MonitorCounted'
    BY <2>2 DEF StartTun, Succeed, Fail, MonitorCounted, TunIsOpen, StepsFit
  <2>5. ListenersCounted'
    BY <2>2 DEF StartTun, Succeed, Fail, ListenersCounted
  <2>6. ProxiesCounted'
    BY <2>2 DEF StartTun, Succeed, Fail, CloseSteps, hist, ProxiesCounted
  <2> QED
    BY <2>3, <2>4, <2>5, <2>6
<1>2. HijackedByClient'
  BY DEF StartTun, Succeed, Fail, hist, HInv, HijackedByClient, BeforeHijack,
     AfterResume
<1>3. DnsKept'
  BY DEF StartTun, Succeed, Fail, Closing, hist, HInv, DnsKept, Restored,
     BeforeResume
<1> QED
  BY <1>0, <1>1, <1>2, <1>3 DEF HInv

(* The tun stays open.                                                     *)
LEMMA AssembleCounts ==
    ASSUME IInv, HInv, Assemble PROVE HInv'
<1>0. StepsFit'
  BY DEF Assemble, Succeed, Fail, HInv, StepsFit
<1>1. Held'
  <2> SUFFICES ASSUME faulted' \subseteq {"start"}
               PROVE  /\ TunCounted' /\ MonitorCounted'
                      /\ ListenersCounted' /\ ProxiesCounted'
    BY DEF Held
  <2>1. faulted \subseteq {"start"}
    BY DEF Assemble, Succeed, Fail, hist
  <2>2. /\ TunCounted /\ MonitorCounted /\ ListenersCounted
        /\ ProxiesCounted /\ StepsFit
    BY <2>1 DEF HInv, Held
  <2>3. TunCounted'
    BY <2>2 DEF Assemble, Succeed, Fail, TunCounted, TunIsOpen, StepsFit
  <2>4. MonitorCounted'
    BY <2>2 DEF Assemble, Succeed, Fail, MonitorCounted, TunIsOpen, StepsFit
  <2>5. ListenersCounted'
    BY <2>2 DEF Assemble, Succeed, Fail, ListenersCounted
  <2>6. ProxiesCounted'
    BY <2>2 DEF Assemble, Succeed, Fail, CloseSteps, hist, ProxiesCounted
  <2> QED
    BY <2>3, <2>4, <2>5, <2>6
<1>2. HijackedByClient'
  BY DEF Assemble, Succeed, Fail, hist, HInv, HijackedByClient, BeforeHijack,
     AfterResume
<1>3. DnsKept'
  BY DEF Assemble, Succeed, Fail, Closing, hist, HInv, DnsKept, Restored,
     BeforeResume
<1> QED
  BY <1>0, <1>1, <1>2, <1>3 DEF HInv

(* Without a failure in executor.New the client is live.                   *)
LEMMA AssignClientCounts ==
    ASSUME IInv, HInv, AssignClient PROVE HInv'
<1>0. StepsFit'
  BY DEF AssignClient, FirstStartStep, HInv, StepsFit
<1>1. Held'
  <2> SUFFICES ASSUME faulted' \subseteq {"start"}
               PROVE  /\ TunCounted' /\ MonitorCounted'
                      /\ ListenersCounted' /\ ProxiesCounted'
    BY DEF Held
  <2>1. faulted \subseteq {"start"}
    BY DEF AssignClient, hist
  <2>2. /\ TunCounted /\ MonitorCounted /\ ListenersCounted
        /\ ProxiesCounted /\ StepsFit
    BY <2>1 DEF HInv, Held
  <2>3. TunCounted'
    BY <2>2 DEF AssignClient, FirstStartStep, IInv, LockConsistent, NewSteps,
       Closing, TunCounted, TunIsOpen
  <2>4. MonitorCounted'
    BY <2>2 DEF AssignClient, IInv, LockConsistent, NewSteps, Closing,
       MonitorCounted, TunCounted, TunIsOpen
  <2>5. ListenersCounted'
    BY <2>2 DEF AssignClient, FirstStartStep, IInv, LockConsistent,
       ClientConsistent, NewSteps, ListenersCounted
  <2>6. ProxiesCounted'
    BY <2>2 DEF AssignClient, IInv, LockConsistent, ClientConsistent,
       NewSteps, hist, ProxiesCounted
  <2> QED
    BY <2>3, <2>4, <2>5, <2>6
<1>2. HijackedByClient'
  BY DEF AssignClient, FirstStartStep, IInv, LockConsistent, ClientConsistent,
     NewSteps, hist, HInv, HijackedByClient
<1>3. DnsKept'
  BY DEF AssignClient, FirstStartStep, HasSys, Closing, hist, HInv, DnsKept,
     Restored, BeforeResume
<1> QED
  BY <1>0, <1>1, <1>2, <1>3 DEF HInv

(* The TCP listener belongs to the client.                                 *)
LEMMA ListenTcpCounts ==
    ASSUME IInv, HInv, ListenTcp PROVE HInv'
<1>0. StepsFit'
  BY DEF ListenTcp, Succeed, Fail, AfterStartFailure, AfterSysStart, HInv,
     StepsFit, Refuse
<1>1. Held'
  <2> SUFFICES ASSUME faulted' \subseteq {"start"}
               PROVE  /\ TunCounted' /\ MonitorCounted'
                      /\ ListenersCounted' /\ ProxiesCounted'
    BY DEF Held
  <2>1. faulted \subseteq {"start"}
    BY DEF ListenTcp, Succeed, Fail, hist, Refuse
  <2>2. /\ TunCounted /\ MonitorCounted /\ ListenersCounted
        /\ ProxiesCounted /\ StepsFit
    BY <2>1 DEF HInv, Held
  <2>9. TunIsOpen' <=> TunIsOpen
    <3>1. /\ step = "listenTcp" /\ phase = "start" /\ phase' = phase
          /\ obj'.mode = obj.mode /\ step' \in StartSteps
      BY DEF ListenTcp, Succeed, Fail, IInv, LockConsistent, StartSteps,
         TypeOK, Objects, AfterSysStart, AfterStartFailure, Refuse
    <3> QED
      BY <3>1 DEF StartSteps, TunIsOpen, HasTun
  <2>3. TunCounted'
    BY <2>2 DEF ListenTcp, Succeed, Fail, AfterStartFailure, AfterSysStart,
       IInv, TypeOK, LockConsistent, StartSteps, Objects, Systems, HasTun,
       TunCounted, TunIsOpen, Refuse
  <2>4. MonitorCounted'
    BY <2>2, <2>9 DEF ListenTcp, Succeed, Fail, MonitorCounted, IInv, TypeOK,
       Systems, Refuse
  <2>5. ListenersCounted'
    <3>1. /\ step = "listenTcp" /\ client' = client
          /\ obj'.mode = obj.mode /\ obj'.lan = obj.lan
          /\ obj'.udp = obj.udp /\ os'.udp = os.udp
          /\ step' \in {"listenUdp", "stackUp", "started"}
      BY DEF ListenTcp, Succeed, Fail, AfterStartFailure, AfterSysStart, IInv,
         TypeOK, Objects, Systems, Refuse
    <3>2. \/ obj'.tcp = TRUE /\ os'.tcp = TRUE
          \/ obj'.tcp = obj.tcp /\ os'.tcp = os.tcp
      BY DEF ListenTcp, IInv, TypeOK, Objects, Systems
    <3> QED
      BY <2>2, <3>1, <3>2 DEF ListenersCounted, HasSys, ServesLan
  <2>6. ProxiesCounted'
    BY <2>2 DEF ListenTcp, Succeed, Fail, AfterStartFailure, AfterSysStart,
       IInv, TypeOK, CloseSteps, Objects, Systems, HasSys, hist,
       ProxiesCounted, Refuse
  <2> QED
    BY <2>3, <2>4, <2>5, <2>6
<1>2. HijackedByClient'
  BY DEF ListenTcp, Succeed, Fail, AfterStartFailure, AfterSysStart, IInv,
     TypeOK, Objects, Systems, HasSys, HasTun, hist, HInv, HijackedByClient,
     BeforeHijack, AfterResume, Refuse
<1>3. DnsKept'
  BY DEF ListenTcp, Succeed, Fail, AfterStartFailure, AfterSysStart, IInv,
     TypeOK, Objects, Systems, HasSys, HasTun, Closing, hist, HInv, DnsKept,
     Restored, BeforeResume, Refuse
<1> QED
  BY <1>0, <1>1, <1>2, <1>3 DEF HInv

(* The UDP listener belongs to the client.                                 *)
LEMMA ListenUdpCounts ==
    ASSUME IInv, HInv, ListenUdp PROVE HInv'
<1>0. StepsFit'
  BY DEF ListenUdp, Succeed, Fail, AfterListen, AfterStartFailure,
     AfterSysStart, HInv, StepsFit
<1>1. Held'
  <2> SUFFICES ASSUME faulted' \subseteq {"start"}
               PROVE  /\ TunCounted' /\ MonitorCounted'
                      /\ ListenersCounted' /\ ProxiesCounted'
    BY DEF Held
  <2>1. faulted \subseteq {"start"}
    BY DEF ListenUdp, Succeed, Fail, hist
  <2>2. /\ TunCounted /\ MonitorCounted /\ ListenersCounted
        /\ ProxiesCounted /\ StepsFit
    BY <2>1 DEF HInv, Held
  <2>9. TunIsOpen' <=> TunIsOpen
    <3>1. /\ step = "listenUdp" /\ phase = "start" /\ phase' = phase
          /\ obj'.mode = obj.mode /\ step' \in StartSteps
      BY DEF ListenUdp, Succeed, Fail, IInv, LockConsistent, StartSteps,
         TypeOK, Objects, AfterListen, AfterStartFailure, AfterSysStart
    <3> QED
      BY <3>1 DEF StartSteps, TunIsOpen, HasTun
  <2>3. TunCounted'
    BY <2>2 DEF ListenUdp, Succeed, Fail, AfterListen, AfterStartFailure,
       AfterSysStart, IInv, TypeOK, LockConsistent, StartSteps, Objects,
       Systems, HasTun, TunCounted, TunIsOpen
  <2>4. MonitorCounted'
    BY <2>2, <2>9 DEF ListenUdp, Succeed, Fail, MonitorCounted, IInv, TypeOK,
       Systems, Refuse
  <2>5. ListenersCounted'
    <3>1. /\ step = "listenUdp" /\ client' = client
          /\ obj'.mode = obj.mode /\ obj'.lan = obj.lan
          /\ obj'.tcp = obj.tcp /\ os'.tcp = os.tcp
          /\ step' \in {"setHttp", "stackUp", "started"}
      BY DEF ListenUdp, Succeed, Fail, AfterListen, AfterStartFailure,
         AfterSysStart, IInv, TypeOK, Objects, Systems
    <3>2. \/ obj'.udp = TRUE /\ os'.udp = TRUE
          \/ obj'.udp = obj.udp /\ os'.udp = os.udp
      BY DEF ListenUdp, IInv, TypeOK, Objects, Systems
    <3> QED
      BY <2>2, <3>1, <3>2 DEF ListenersCounted, HasSys, ServesLan
  <2>6. ProxiesCounted'
    BY <2>2 DEF ListenUdp, Succeed, Fail, AfterListen, AfterStartFailure,
       AfterSysStart, IInv, TypeOK, CloseSteps, Objects, Systems, HasSys,
       hist, ProxiesCounted
  <2> QED
    BY <2>3, <2>4, <2>5, <2>6
<1>2. HijackedByClient'
  BY DEF ListenUdp, Succeed, Fail, AfterListen, AfterStartFailure,
     AfterSysStart, IInv, TypeOK, Objects, Systems, HasTun, hist, HInv,
     HijackedByClient, BeforeHijack, AfterResume
<1>3. DnsKept'
  BY DEF ListenUdp, Succeed, Fail, AfterListen, AfterStartFailure,
     AfterSysStart, IInv, TypeOK, Objects, Systems, HasSys, HasTun, Closing,
     hist, HInv, DnsKept, Restored, BeforeResume
<1> QED
  BY <1>0, <1>1, <1>2, <1>3 DEF HInv

(* The HTTP proxy is that of the client.                                   *)
LEMMA SetHttpProxyCounts ==
    ASSUME IInv, HInv, SetHttpProxy PROVE HInv'
<1>0. StepsFit'
  BY DEF SetHttpProxy, Succeed, Fail, AfterSysStart, HInv, StepsFit
<1>1. Held'
  <2> SUFFICES ASSUME faulted' \subseteq {"start"}
               PROVE  /\ TunCounted' /\ MonitorCounted'
                      /\ ListenersCounted' /\ ProxiesCounted'
    BY DEF Held
  <2>1. faulted \subseteq {"start"}
    BY DEF SetHttpProxy, Succeed, Fail, hist
  <2>2. /\ TunCounted /\ MonitorCounted /\ ListenersCounted
        /\ ProxiesCounted /\ StepsFit
    BY <2>1 DEF HInv, Held
  <2>9. TunIsOpen' <=> TunIsOpen
    <3>1. /\ step = "setHttp" /\ phase = "start" /\ phase' = phase
          /\ obj'.mode = obj.mode /\ step' \in StartSteps
      BY DEF SetHttpProxy, Succeed, Fail, IInv, LockConsistent, StartSteps,
         AfterSysStart
    <3> QED
      BY <3>1 DEF StartSteps, TunIsOpen, HasTun
  <2>3. TunCounted'
    BY <2>2 DEF SetHttpProxy, Succeed, Fail, AfterSysStart, IInv, TypeOK,
       Systems, Closing, TunCounted, TunIsOpen
  <2>4. MonitorCounted'
    BY <2>2, <2>9 DEF SetHttpProxy, Succeed, Fail, MonitorCounted, IInv,
       TypeOK, Systems, Refuse
  <2>5. ListenersCounted'
    BY <2>2 DEF SetHttpProxy, Succeed, Fail, AfterSysStart, IInv, TypeOK,
       Systems, ListenersCounted
  <2>6. ProxiesCounted'
    BY <2>2 DEF SetHttpProxy, Succeed, Fail, AfterSysStart, IInv,
       LockConsistent, ClientConsistent, StartSteps, CloseSteps,
       ProxiesCounted, StartConsistent
  <2> QED
    BY <2>3, <2>4, <2>5, <2>6
<1>2. HijackedByClient'
  BY DEF SetHttpProxy, Succeed, Fail, AfterSysStart, IInv, TypeOK,
     ClientConsistent, Systems, hist, StartConsistent, HInv, HijackedByClient,
     BeforeHijack, AfterResume
<1>3. DnsKept'
  BY DEF SetHttpProxy, Succeed, Fail, AfterSysStart, IInv, TypeOK, Systems,
     Closing, hist, HInv, DnsKept, Restored, BeforeResume
<1> QED
  BY <1>0, <1>1, <1>2, <1>3 DEF HInv

(* The HTTPS proxy is that of the client.                                  *)
LEMMA SetHttpsProxyCounts ==
    ASSUME IInv, HInv, SetHttpsProxy PROVE HInv'
<1>0. StepsFit'
  BY DEF SetHttpsProxy, Succeed, Fail, AfterSysStart, HInv, StepsFit
<1>1. Held'
  <2> SUFFICES ASSUME faulted' \subseteq {"start"}
               PROVE  /\ TunCounted' /\ MonitorCounted'
                      /\ ListenersCounted' /\ ProxiesCounted'
    BY DEF Held
  <2>1. faulted \subseteq {"start"}
    BY DEF SetHttpsProxy, Succeed, Fail, hist
  <2>2. /\ TunCounted /\ MonitorCounted /\ ListenersCounted
        /\ ProxiesCounted /\ StepsFit
    BY <2>1 DEF HInv, Held
  <2>9. TunIsOpen' <=> TunIsOpen
    <3>1. /\ step = "setHttps" /\ phase = "start" /\ phase' = phase
          /\ obj'.mode = obj.mode /\ step' \in StartSteps
      BY DEF SetHttpsProxy, Succeed, Fail, IInv, LockConsistent, StartSteps,
         AfterSysStart
    <3> QED
      BY <3>1 DEF StartSteps, TunIsOpen, HasTun
  <2>3. TunCounted'
    BY <2>2 DEF SetHttpsProxy, Succeed, Fail, AfterSysStart, IInv, TypeOK,
       Systems, Closing, TunCounted, TunIsOpen
  <2>4. MonitorCounted'
    BY <2>2, <2>9 DEF SetHttpsProxy, Succeed, Fail, MonitorCounted, IInv,
       TypeOK, Systems, Refuse
  <2>5. ListenersCounted'
    BY <2>2 DEF SetHttpsProxy, Succeed, Fail, AfterSysStart, IInv, TypeOK,
       Systems, ListenersCounted
  <2>6. ProxiesCounted'
    BY <2>2 DEF SetHttpsProxy, Succeed, Fail, AfterSysStart, IInv,
       LockConsistent, ClientConsistent, StartSteps, CloseSteps,
       ProxiesCounted, StartConsistent
  <2> QED
    BY <2>3, <2>4, <2>5, <2>6
<1>2. HijackedByClient'
  BY DEF SetHttpsProxy, Succeed, Fail, AfterSysStart, IInv, TypeOK,
     LockConsistent, StartSteps, Systems, hist, StartConsistent, HInv,
     HijackedByClient, BeforeHijack
<1>3. DnsKept'
  BY DEF SetHttpsProxy, Succeed, Fail, AfterSysStart, IInv, TypeOK,
     LockConsistent, StartSteps, Systems, HasSys, HasTun, Closing, hist,
     StartConsistent, HInv, DnsKept, Restored, BeforeResume
<1> QED
  BY <1>0, <1>1, <1>2, <1>3 DEF HInv

(* A client that is to hijack does so next.                                *)
LEMMA StartStackCounts ==
    ASSUME IInv, HInv, StartStack PROVE HInv'
<1>0. StepsFit'
  BY DEF StartStack, Succeed, Fail, AfterStack, AfterHijack, HInv, StepsFit
<1>1. Held'
  <2> SUFFICES ASSUME faulted' \subseteq {"start"}
               PROVE  /\ TunCounted' /\ MonitorCounted'
                      /\ ListenersCounted' /\ ProxiesCounted'
    BY DEF Held
  <2>1. faulted \subseteq {"start"}
    BY DEF StartStack, Succeed, Fail, hist
  <2>2. /\ TunCounted /\ MonitorCounted /\ ListenersCounted
        /\ ProxiesCounted /\ StepsFit
    BY <2>1 DEF HInv, Held
  <2>3. TunCounted'
    BY <2>2 DEF StartStack, Succeed, Fail, AfterStack, AfterHijack, IInv,
       TypeOK, LockConsistent, StartSteps, Objects, HasTun, TunCounted,
       TunIsOpen
  <2>4. MonitorCounted'
    BY <2>2 DEF StartStack, Succeed, Fail, IInv, TypeOK, LockConsistent,
       StartSteps, Objects, HasTun, MonitorCounted, TunIsOpen
  <2>5. ListenersCounted'
    BY <2>2 DEF StartStack, Succeed, Fail, AfterStack, AfterHijack, IInv,
       TypeOK, LockConsistent, ClientConsistent, StartSteps, Objects, HasSys,
       ServesLan, ListenersCounted
  <2>6. ProxiesCounted'
    BY <2>2 DEF StartStack, Succeed, Fail, AfterStack, AfterHijack, IInv,
       TypeOK, CloseSteps, Objects, HasSys, hist, ProxiesCounted
  <2> QED
    BY <2>3, <2>4, <2>5, <2>6
<1>2. HijackedByClient'
  BY DEF StartStack, Succeed, Fail, AfterStack, AfterHijack, IInv, TypeOK,
     Objects, hist, HInv, HijackedByClient, BeforeHijack
<1>3. DnsKept'
  BY DEF StartStack, Succeed, Fail, AfterStack, AfterHijack, IInv, TypeOK,
     Objects, Closing, hist, HInv, DnsKept, Restored, BeforeResume
<1> QED
  BY <1>0, <1>1, <1>2, <1>3 DEF HInv

(* The servers remembered are those in force before.                       *)
LEMMA HijackCounts ==
    ASSUME IInv, HInv, Hijack PROVE HInv'
<1>0. StepsFit'
  BY DEF Hijack, Succeed, Fail, AfterHijack, HInv, StepsFit
<1>1. Held'
  <2> SUFFICES ASSUME faulted' \subseteq {"start"}
               PROVE  /\ TunCounted' /\ MonitorCounted'
                      /\ ListenersCounted' /\ ProxiesCounted'
    BY DEF Held
  <2>1. faulted \subseteq {"start"}
    BY DEF Hijack, Succeed, Fail, hist
  <2>2. /\ TunCounted /\ MonitorCounted /\ ListenersCounted
        /\ ProxiesCounted /\ StepsFit
    BY <2>1 DEF HInv, Held
  <2>3. TunCounted'
    BY <2>2 DEF Hijack, Succeed, Fail, AfterHijack, IInv, TypeOK,
       LockConsistent, StartSteps, Systems, TunCounted, TunIsOpen,
       StartConsistent
  <2>4. MonitorCounted'
    BY <2>2 DEF Hijack, Succeed, Fail, IInv, TypeOK, Systems, Memories,
       Closing, MonitorCounted, TunIsOpen
  <2>5. ListenersCounted'
    BY <2>2 DEF Hijack, Succeed, Fail, AfterHijack, IInv, TypeOK,
       LockConsistent, ClientConsistent, StartSteps, Systems, ListenersCounted
  <2>6. ProxiesCounted'
    BY <2>2 DEF Hijack, Succeed, Fail, AfterHijack, IInv, TypeOK, CloseSteps,
       Systems, hist, ProxiesCounted
  <2> QED
    BY <2>3, <2>4, <2>5, <2>6
<1>2. HijackedByClient'
  BY DEF Hijack, Succeed, Fail, AfterHijack, Remembered, IInv, TypeOK,
     LockConsistent, ClientConsistent, StartSteps, Memories, HasSys,
     ServesLan, hist, StartConsistent, HInv, HijackedByClient, BeforeHijack,
     AfterResume
<1>3. DnsKept'
  BY DEF Hijack, Succeed, Fail, AfterHijack, Remembered, IInv, TypeOK,
     Systems, Memories, hist, HInv, HijackedByClient, BeforeHijack, DnsKept,
     Restored
<1> QED
  BY <1>0, <1>1, <1>2, <1>3 DEF HInv

(* The close of a failed start begins with all that is held.               *)
LEMMA AbortStartCounts ==
    ASSUME IInv, HInv, AbortStart PROVE HInv'
<1>0. StepsFit'
  BY DEF AbortStart, FirstCloseStep, FirstTunClose, HInv, StepsFit
<1>1. Held'
  <2> SUFFICES ASSUME faulted' \subseteq {"start"}
               PROVE  /\ TunCounted' /\ MonitorCounted'
                      /\ ListenersCounted' /\ ProxiesCounted'
    BY DEF Held
  <2>1. faulted \subseteq {"start"}
    BY DEF AbortStart, hist
  <2>2. /\ TunCounted /\ MonitorCounted /\ ListenersCounted
        /\ ProxiesCounted /\ StepsFit
    BY <2>1 DEF HInv, Held
  <2>9. TunIsOpen' <=> TunIsOpen
    <3>1. /\ step = "started" /\ phase = "start" /\ obj' = obj
          /\ step' = FirstCloseStep(obj) /\ phase' = "abort"
      BY DEF AbortStart, IInv, LockConsistent, StartSteps
    <3>2. obj.mode \in Modes
      BY DEF IInv, TypeOK, Objects
    <3> QED
      BY <3>1, <3>2 DEF TunIsOpen, HasTun, HasSys, Closing, Modes,
         FirstCloseStep, FirstTunClose
  <2>3. TunCounted'
    <3>1. step' \in CloseSteps /\ phase' = "abort" /\ os' = os
      BY DEF AbortStart, FirstCloseStep, FirstTunClose, CloseSteps
    <3> QED
      BY <2>2, <2>9, <3>1 DEF TunCounted, CloseSteps
  <2>4. MonitorCounted'
    BY <2>2 DEF AbortStart, FirstCloseStep, FirstTunClose, HasSys, HasTun,
       Closing, MonitorCounted, TunIsOpen
  <2>5. ListenersCounted'
    BY <2>2 DEF AbortStart, FirstCloseStep, FirstTunClose, ListenersCounted
  <2>6. ProxiesCounted'
    BY <2>2 DEF AbortStart, FirstCloseStep, hist, ProxiesCounted
  <2> QED
    BY <2>3, <2>4, <2>5, <2>6
<1>2. HijackedByClient'
  BY DEF AbortStart, FirstCloseStep, FirstTunClose, hist, HInv,
     HijackedByClient, BeforeHijack, AfterResume
<1>3. DnsKept'
  <2>1. /\ step = "started" /\ step' = FirstCloseStep(obj)
        /\ UNCHANGED <<obj, mem, os, hist>> /\ obj.mode \in Modes
    BY DEF AbortStart, IInv, TypeOK, Objects
  <2> QED
    BY <2>1 DEF HInv, DnsKept, BeforeResume, Restored, HasTun, HasSys, Modes,
       FirstCloseStep, FirstTunClose, hist
<1> QED
  BY <1>0, <1>1, <1>2, <1>3 DEF HInv

(* The HTTP proxy is off, or a close has failed.                           *)
LEMMA ClearHttpCounts ==
    ASSUME IInv, HInv, ClearHttp PROVE HInv'
<1>0. StepsFit'
  BY DEF ClearHttp, Succeed, Fail, HInv, StepsFit
<1>1. Held'
  <2> SUFFICES ASSUME faulted' \subseteq {"start"}
               PROVE  /\ TunCounted' /\ MonitorCounted'
                      /\ ListenersCounted' /\ ProxiesCounted'
    BY DEF Held
  <2>1. faulted \subseteq {"start"}
    BY DEF ClearHttp, Succeed, Fail, hist
  <2>2. /\ TunCounted /\ MonitorCounted /\ ListenersCounted
        /\ ProxiesCounted /\ StepsFit
    BY <2>1 DEF HInv, Held
  <2>3. TunCounted'
    BY <2>2 DEF ClearHttp, Succeed, Fail, IInv, TypeOK, Systems, Closing,
       TunCounted, TunIsOpen
  <2>4. MonitorCounted'
    BY <2>2 DEF ClearHttp, Succeed, Fail, IInv, TypeOK, Systems, Closing,
       MonitorCounted, TunIsOpen
  <2>5. ListenersCounted'
    BY <2>2 DEF ClearHttp, Succeed, Fail, IInv, TypeOK, Systems,
       ListenersCounted
  <2>6. ProxiesCounted'
    BY <2>2 DEF ClearHttp, Succeed, Fail, IInv, TypeOK, LockConsistent,
       CloseSteps, Systems, hist, ProxiesCounted
  <2> QED
    BY <2>3, <2>4, <2>5, <2>6
<1>2. HijackedByClient'
  BY DEF ClearHttp, Succeed, Fail, IInv, TypeOK, Systems, hist, HInv,
     HijackedByClient, BeforeHijack, AfterResume
<1>3. DnsKept'
  BY DEF ClearHttp, Succeed, Fail, IInv, TypeOK, Systems, Closing, hist, HInv,
     DnsKept, Restored, BeforeResume
<1> QED
  BY <1>0, <1>1, <1>2, <1>3 DEF HInv

(* The HTTPS proxy is off, or a close has failed.                          *)
LEMMA ClearHttpsCounts ==
    ASSUME IInv, HInv, ClearHttps PROVE HInv'
<1>0. StepsFit'
  BY DEF ClearHttps, Succeed, Fail, HInv, StepsFit
<1>1. Held'
  <2> SUFFICES ASSUME faulted' \subseteq {"start"}
               PROVE  /\ TunCounted' /\ MonitorCounted'
                      /\ ListenersCounted' /\ ProxiesCounted'
    BY DEF Held
  <2>1. faulted \subseteq {"start"}
    BY DEF ClearHttps, Succeed, Fail, hist
  <2>2. /\ TunCounted /\ MonitorCounted /\ ListenersCounted
        /\ ProxiesCounted /\ StepsFit
    BY <2>1 DEF HInv, Held
  <2>3. TunCounted'
    BY <2>2 DEF ClearHttps, Succeed, Fail, IInv, TypeOK, Systems, Closing,
       TunCounted, TunIsOpen
  <2>4. MonitorCounted'
    BY <2>2 DEF ClearHttps, Succeed, Fail, IInv, TypeOK, Systems, Closing,
       MonitorCounted, TunIsOpen
  <2>5. ListenersCounted'
    BY <2>2 DEF ClearHttps, Succeed, Fail, IInv, TypeOK, Systems,
       ListenersCounted
  <2>6. ProxiesCounted'
    BY <2>2 DEF ClearHttps, Succeed, Fail, IInv, TypeOK, LockConsistent,
       CloseSteps, Systems, hist, ProxiesCounted
  <2> QED
    BY <2>3, <2>4, <2>5, <2>6
<1>2. HijackedByClient'
  <2>1. /\ step = "clearHttps" /\ step' = "closeUdp" /\ HasSys(obj)
        /\ obj' = obj /\ mem' = mem /\ os'.dns = os.dns
        /\ client' = client /\ unclean' = unclean /\ faulted \subseteq faulted'
    BY DEF ClearHttps, Succeed, Fail, hist, HInv, StepsFit, IInv, TypeOK,
       Systems
  <2> QED
    BY <2>1 DEF HInv, HijackedByClient, BeforeHijack, AfterResume, HasSys
<1>3. DnsKept'
  BY DEF ClearHttps, Succeed, Fail, IInv, TypeOK, Systems, Closing, hist,
     HInv, DnsKept, Restored, BeforeResume
<1> QED
  BY <1>0, <1>1, <1>2, <1>3 DEF HInv

(* The UDP listener is closed, or a close has failed.                      *)
LEMMA CloseUdpCounts ==
    ASSUME IInv, HInv, CloseUdp PROVE HInv'
<1>0. StepsFit'
  BY DEF CloseUdp, Succeed, Fail, AfterListeners, FirstTunClose, HInv,
     StepsFit
<1>1. Held'
  <2> SUFFICES ASSUME faulted' \subseteq {"start"}
               PROVE  /\ TunCounted' /\ MonitorCounted'
                      /\ ListenersCounted' /\ ProxiesCounted'
    BY DEF Held
  <2>1. faulted \subseteq {"start"}
    BY DEF CloseUdp, Succeed, Fail, hist
  <2>2. /\ TunCounted /\ MonitorCounted /\ ListenersCounted
        /\ ProxiesCounted /\ StepsFit
    BY <2>1 DEF HInv, Held
  <2>8. ASSUME NEW n, Fail("closeUdp", n) PROVE FALSE
    <3>1. phase \in {"abort", "close"} /\ phase \in faulted'
      BY <2>8 DEF Fail, IInv, LockConsistent, CloseSteps
    <3> QED
      BY <3>1

  <2>3. TunCounted'
    BY <2>2 DEF CloseUdp, Succeed, Fail, IInv, TypeOK, LockConsistent,
       CloseSteps, Objects, Systems, Closing, TunCounted, TunIsOpen
  <2>4. MonitorCounted'
    BY <2>2 DEF CloseUdp, Succeed, Fail, IInv, TypeOK, LockConsistent,
       CloseSteps, Objects, Systems, Closing, MonitorCounted, TunIsOpen
  <2>5. ListenersCounted'
    <3>1. /\ step = "closeUdp" /\ step' = "closeTcp" /\ client' = client
          /\ obj'.mode = obj.mode /\ obj'.lan = obj.lan
          /\ obj'.tcp = obj.tcp /\ obj'.udp = FALSE
          /\ os'.tcp = os.tcp /\ os'.udp = (os.udp /\ ~obj.udp)
      BY <2>8 DEF CloseUdp, Succeed, IInv, TypeOK, Objects, Systems
    <3>2. os'.udp = FALSE
      BY <2>2, <3>1 DEF ListenersCounted
    <3> QED
      BY <2>2, <3>1, <3>2 DEF ListenersCounted, HasSys, ServesLan
  <2>6. ProxiesCounted'
    BY <2>2 DEF CloseUdp, Succeed, Fail, IInv, TypeOK, CloseSteps, Systems,
       hist, ProxiesCounted
  <2> QED
    BY <2>3, <2>4, <2>5, <2>6
<1>2. HijackedByClient'
  BY DEF CloseUdp, Succeed, Fail, AfterListeners, FirstTunClose, IInv, TypeOK,
     Objects, Systems, HasTun, hist, HInv, HijackedByClient, BeforeHijack,
     AfterResume
<1>3. DnsKept'
  BY DEF CloseUdp, Succeed, Fail, AfterListeners, FirstTunClose, IInv, TypeOK,
     Objects, Systems, Closing, hist, HInv, DnsKept, Restored, BeforeResume
<1> QED
  BY <1>0, <1>1, <1>2, <1>3 DEF HInv

(* The TCP listener is closed, or a close has failed.                      *)
LEMMA CloseTcpCounts ==
    ASSUME IInv, HInv, CloseTcp PROVE HInv'
<1>0. StepsFit'
  BY DEF CloseTcp, Succeed, Fail, AfterListeners, FirstTunClose, HInv,
     StepsFit
<1>1. Held'
  <2> SUFFICES ASSUME faulted' \subseteq {"start"}
               PROVE  /\ TunCounted' /\ MonitorCounted'
                      /\ ListenersCounted' /\ ProxiesCounted'
    BY DEF Held
  <2>1. faulted \subseteq {"start"}
    BY DEF CloseTcp, Succeed, Fail, hist
  <2>2. /\ TunCounted /\ MonitorCounted /\ ListenersCounted
        /\ ProxiesCounted /\ StepsFit
    BY <2>1 DEF HInv, Held
  <2>3. TunCounted'
    BY <2>2 DEF CloseTcp, Succeed, Fail, AfterListeners, FirstTunClose, IInv,
       TypeOK, LockConsistent, CloseSteps, Systems, Closing, TunCounted,
       TunIsOpen
  <2>4. MonitorCounted'
    BY <2>2 DEF CloseTcp, Succeed, Fail, AfterListeners, FirstTunClose, IInv,
       TypeOK, LockConsistent, CloseSteps, Systems, MonitorCounted, TunIsOpen
  <2>5. ListenersCounted'
    BY <2>2 DEF CloseTcp, Succeed, Fail, AfterListeners, FirstTunClose, IInv,
       TypeOK, LockConsistent, CloseSteps, Objects, Systems, ListenersCounted
  <2>6. ProxiesCounted'
    BY <2>2 DEF CloseTcp, Succeed, Fail, IInv, TypeOK, CloseSteps, Systems,
       hist, ProxiesCounted
  <2> QED
    BY <2>3, <2>4, <2>5, <2>6
<1>2. HijackedByClient'
  BY DEF CloseTcp, Succeed, Fail, AfterListeners, FirstTunClose, IInv, TypeOK,
     Objects, Systems, HasTun, hist, HInv, HijackedByClient, BeforeHijack,
     AfterResume
<1>3. DnsKept'
  BY DEF CloseTcp, Succeed, Fail, AfterListeners, FirstTunClose, IInv, TypeOK,
     Objects, Systems, Closing, hist, HInv, DnsKept, Restored, BeforeResume
<1> QED
  BY <1>0, <1>1, <1>2, <1>3 DEF HInv

(* The servers remembered are in force again.                              *)
LEMMA ResumeDnsCounts ==
    ASSUME IInv, HInv, ResumeDns PROVE HInv'
<1>0. StepsFit'
  BY DEF ResumeDns, Succeed, Fail, HInv, StepsFit
<1>1. Held'
  <2> SUFFICES ASSUME faulted' \subseteq {"start"}
               PROVE  /\ TunCounted' /\ MonitorCounted'
                      /\ ListenersCounted' /\ ProxiesCounted'
    BY DEF Held
  <2>1. faulted \subseteq {"start"}
    BY DEF ResumeDns, Succeed, Fail, hist
  <2>2. /\ TunCounted /\ MonitorCounted /\ ListenersCounted
        /\ ProxiesCounted /\ StepsFit
    BY <2>1 DEF HInv, Held
  <2>3. TunCounted'
    BY <2>2 DEF ResumeDns, Succeed, Fail, IInv, TypeOK, LockConsistent,
       CloseSteps, Systems, TunCounted, TunIsOpen
  <2>4. MonitorCounted'
    BY <2>2 DEF ResumeDns, Succeed, Fail, IInv, TypeOK, LockConsistent,
       CloseSteps, Objects, Systems, MonitorCounted, TunIsOpen, StepsFit
  <2>5. ListenersCounted'
    BY <2>2 DEF ResumeDns, Succeed, Fail, IInv, TypeOK, LockConsistent,
       CloseSteps, Systems, ListenersCounted
  <2>6. ProxiesCounted'
    BY <2>2 DEF ResumeDns, Succeed, Fail, IInv, TypeOK, CloseSteps, Systems,
       hist, ProxiesCounted
  <2> QED
    BY <2>3, <2>4, <2>5, <2>6
<1>2. HijackedByClient'
  BY DEF ResumeDns, Succeed, Fail, IInv, TypeOK, LockConsistent, CloseSteps,
     Systems, hist, HInv, HijackedByClient
<1>3. DnsKept'
  BY DEF ResumeDns, Succeed, Fail, IInv, TypeOK, Systems, Closing, hist, HInv,
     HijackedByClient, DnsKept, Restored, BeforeResume
<1> QED
  BY <1>0, <1>1, <1>2, <1>3 DEF HInv

(* The tun is closed.                                                      *)
LEMMA CloseTunCounts ==
    ASSUME IInv, HInv, CloseTun PROVE HInv'
<1>0. StepsFit'
  BY DEF CloseTun, Succeed, Fail, HInv, StepsFit
<1>1. Held'
  <2> SUFFICES ASSUME faulted' \subseteq {"start"}
               PROVE  /\ TunCounted' /\ MonitorCounted'
                      /\ ListenersCounted' /\ ProxiesCounted'
    BY DEF Held
  <2>1. faulted \subseteq {"start"}
    BY DEF CloseTun, Succeed, Fail, hist
  <2>2. /\ TunCounted /\ MonitorCounted /\ ListenersCounted
        /\ ProxiesCounted /\ StepsFit
    BY <2>1 DEF HInv, Held
  <2>3. TunCounted'
    BY <2>2 DEF CloseTun, Succeed, Fail, IInv, TypeOK, LockConsistent,
       CloseSteps, Systems, Closing, TunCounted, TunIsOpen
  <2>4. MonitorCounted'
    BY <2>2 DEF CloseTun, Succeed, Fail, IInv, TypeOK, LockConsistent,
       CloseSteps, Systems, MonitorCounted
  <2>5. ListenersCounted'
    BY <2>2 DEF CloseTun, Succeed, Fail, IInv, TypeOK, LockConsistent,
       CloseSteps, Systems, ListenersCounted
  <2>6. ProxiesCounted'
    BY <2>2 DEF CloseTun, Succeed, Fail, IInv, TypeOK, CloseSteps, Systems,
       hist, ProxiesCounted
  <2> QED
    BY <2>3, <2>4, <2>5, <2>6
<1>2. HijackedByClient'
  BY DEF CloseTun, Succeed, Fail, IInv, TypeOK, Systems, hist, HInv,
     HijackedByClient, AfterResume
<1>3. DnsKept'
  BY DEF CloseTun, Succeed, Fail, IInv, TypeOK, Systems, Closing, hist, HInv,
     DnsKept, Restored, BeforeResume
<1> QED
  BY <1>0, <1>1, <1>2, <1>3 DEF HInv

(* The monitor is stopped and forgotten.                                   *)
LEMMA StopMonitorCounts ==
    ASSUME IInv, HInv, StopMonitor PROVE HInv'
<1>0. StepsFit'
  BY DEF StopMonitor, Succeed, Fail, AfterMonitor, HInv, StepsFit
<1>1. Held'
  <2> SUFFICES ASSUME faulted' \subseteq {"start"}
               PROVE  /\ TunCounted' /\ MonitorCounted'
                      /\ ListenersCounted' /\ ProxiesCounted'
    BY DEF Held
  <2>1. faulted \subseteq {"start"}
    BY DEF StopMonitor, Succeed, Fail, hist
  <2>2. /\ TunCounted /\ MonitorCounted /\ ListenersCounted
        /\ ProxiesCounted /\ StepsFit
    BY <2>1 DEF HInv, Held
  <2>3. TunCounted'
    BY <2>2 DEF StopMonitor, Succeed, Fail, AfterMonitor, IInv, TypeOK,
       Systems, ServesLan, Closing, TunCounted, TunIsOpen
  <2>4. MonitorCounted'
    BY <2>2 DEF StopMonitor, Fail, IInv, TypeOK, LockConsistent, CloseSteps,
       Systems, Closing, MonitorCounted, Succeed
  <2>5. ListenersCounted'
    BY <2>2 DEF StopMonitor, Succeed, Fail, AfterMonitor, IInv, TypeOK,
       LockConsistent, CloseSteps, Systems, ListenersCounted
  <2>6. ProxiesCounted'
    BY <2>2 DEF StopMonitor, Succeed, Fail, IInv, TypeOK, CloseSteps, Systems,
       hist, ProxiesCounted
  <2> QED
    BY <2>3, <2>4, <2>5, <2>6
<1>2. HijackedByClient'
  BY DEF StopMonitor, Succeed, Fail, AfterMonitor, IInv, TypeOK, Systems,
     hist, HInv, HijackedByClient, AfterResume
<1>3. DnsKept'
  BY DEF StopMonitor, Succeed, Fail, AfterMonitor, IInv, TypeOK, Systems,
     ServesLan, Closing, hist, HInv, DnsKept, Restored, BeforeResume
<1> QED
  BY <1>0, <1>1, <1>2, <1>3 DEF HInv

(* A failed executor.New is not a failure of client.Start.                 *)
LEMMA FailNewCounts ==
    ASSUME IInv, HInv, NEW c \in Callers, FailNew(c) PROVE HInv'
<1>0. StepsFit'
  BY DEF FailNew, Unlock, HInv, StepsFit
<1>1. Held'
  <2> SUFFICES ASSUME faulted' \subseteq {"start"}
               PROVE  /\ TunCounted' /\ MonitorCounted'
                      /\ ListenersCounted' /\ ProxiesCounted'
    BY DEF Held
  <2>1. faulted \subseteq {"start"}
    BY DEF FailNew, hist
  <2>2. /\ TunCounted /\ MonitorCounted /\ ListenersCounted
        /\ ProxiesCounted /\ StepsFit
    BY <2>1 DEF HInv, Held
  <2>3. TunCounted'
    BY <2>2 DEF FailNew, TunCounted
  <2>4. MonitorCounted'
    BY <2>2 DEF FailNew, MonitorCounted, TunCounted
  <2>5. ListenersCounted'
    BY <2>2 DEF FailNew, Unlock, IInv, LockConsistent, ClientConsistent,
       NewSteps, ListenersCounted
  <2>6. ProxiesCounted'
    BY <2>2 DEF FailNew, IInv, LockConsistent, ClientConsistent, NewSteps,
       hist, ProxiesCounted
  <2> QED
    BY <2>3, <2>4, <2>5, <2>6
<1>2. HijackedByClient'
  BY DEF FailNew, Unlock, IInv, LockConsistent, ClientConsistent, NewSteps,
     hist, HInv, HijackedByClient
<1>3. DnsKept'
  BY DEF FailNew, Unlock, Closing, hist, HInv, DnsKept, Restored, BeforeResume
<1> QED
  BY <1>0, <1>1, <1>2, <1>3 DEF HInv

(* A client that started holds what it has.                                *)
LEMMA FinishStartCounts ==
    ASSUME IInv, HInv, NEW c \in Callers, FinishStart(c) PROVE HInv'
<1>0. StepsFit'
  BY DEF FinishStart, Unlock, HInv, StepsFit
<1>1. Held'
  <2> SUFFICES ASSUME faulted' \subseteq {"start"}
               PROVE  /\ TunCounted' /\ MonitorCounted'
                      /\ ListenersCounted' /\ ProxiesCounted'
    BY DEF Held
  <2>1. faulted \subseteq {"start"}
    BY DEF FinishStart, hist
  <2>2. /\ TunCounted /\ MonitorCounted /\ ListenersCounted
        /\ ProxiesCounted /\ StepsFit
    BY <2>1 DEF HInv, Held
  <2>3. TunCounted'
    BY <2>2 DEF FinishStart, Unlock, IInv, LockConsistent, ClientConsistent,
       StartSteps, Closing, TunCounted, TunIsOpen
  <2>4. MonitorCounted'
    BY <2>2 DEF FinishStart, Unlock, IInv, ClientConsistent, Closing,
       MonitorCounted, TunIsOpen
  <2>5. ListenersCounted'
    BY <2>2 DEF FinishStart, Unlock, ListenersCounted
  <2>6. ProxiesCounted'
    BY <2>2 DEF FinishStart, Unlock, CloseSteps, hist, ProxiesCounted
  <2> QED
    BY <2>3, <2>4, <2>5, <2>6
<1>2. HijackedByClient'
  BY DEF FinishStart, Unlock, hist, HInv, HijackedByClient, BeforeHijack,
     AfterResume
<1>3. DnsKept'
  BY DEF FinishStart, Unlock, Closing, hist, HInv, DnsKept, Restored,
     BeforeResume
<1> QED
  BY <1>0, <1>1, <1>2, <1>3 DEF HInv

(* A client that was closed holds nothing.                                 *)
LEMMA FinishCloseCounts ==
    ASSUME IInv, HInv, NEW c \in Callers, FinishClose(c) PROVE HInv'
<1>0. StepsFit'
  BY DEF FinishClose, Unlock, HInv, StepsFit
<1>1. Held'
  <2> SUFFICES ASSUME faulted' \subseteq {"start"}
               PROVE  /\ TunCounted' /\ MonitorCounted'
                      /\ ListenersCounted' /\ ProxiesCounted'
    BY DEF Held
  <2>1. faulted \subseteq {"start"}
    BY DEF FinishClose, hist
  <2>2. /\ TunCounted /\ MonitorCounted /\ ListenersCounted
        /\ ProxiesCounted /\ StepsFit
    BY <2>1 DEF HInv, Held
  <2>3. TunCounted'
    BY <2>2 DEF FinishClose, Unlock, IInv, LockConsistent, CloseSteps,
       Closing, TunCounted, TunIsOpen
  <2>4. MonitorCounted'
    BY <2>2 DEF FinishClose, IInv, LockConsistent, CloseSteps, Closing,
       MonitorCounted, TunIsOpen
  <2>5. ListenersCounted'
    BY <2>2 DEF FinishClose, Unlock, ListenersCounted
  <2>6. ProxiesCounted'
    BY <2>2 DEF FinishClose, CloseSteps, hist, ProxiesCounted
  <2> QED
    BY <2>3, <2>4, <2>5, <2>6
<1>2. HijackedByClient'
  BY DEF FinishClose, Unlock, hist, HInv, HijackedByClient, AfterResume
<1>3. DnsKept'
  BY DEF FinishClose, Unlock, Closing, hist, HInv, DnsKept, Restored,
     BeforeResume
<1> QED
  BY <1>0, <1>1, <1>2, <1>3 DEF HInv

(* A close begins with all that the client holds.                          *)
LEMMA LockCounts ==
    ASSUME IInv, HInv, NEW c \in Callers, Lock(c) PROVE HInv'
<1>0. StepsFit'
  BY DEF Lock, BeginStart, RefuseStart, BeginClose, CloseNothing, Unlock,
     FirstCloseStep, FirstTunClose, StartedMeansComplete, Complete, Idle,
     HInv, StepsFit
<1>1. Held'
  <2> SUFFICES ASSUME faulted' \subseteq {"start"}
               PROVE  /\ TunCounted' /\ MonitorCounted'
                      /\ ListenersCounted' /\ ProxiesCounted'
    BY DEF Held
  <2>1. faulted \subseteq {"start"}
    BY DEF Lock, BeginStart, RefuseStart, BeginClose, CloseNothing,
       StartedMeansComplete, Complete, Idle, hist
  <2>2. /\ TunCounted /\ MonitorCounted /\ ListenersCounted
        /\ ProxiesCounted /\ StepsFit
    BY <2>1 DEF HInv, Held
  <2>8. step = "none" /\ phase = "none" /\ obj.mode \in Modes
    BY DEF Lock, BeginStart, RefuseStart, BeginClose, CloseNothing, IInv,
       LockConsistent, TypeOK, Objects
  <2>3. TunCounted'
    <3>1. ASSUME NEW d \in Callers, BeginClose(d) PROVE TunCounted'
      <4>1. /\ client = "live" /\ client' = client /\ obj' = obj /\ os' = os
            /\ phase' = "close" /\ step' = FirstCloseStep(obj)
        BY <2>8, <3>1 DEF BeginClose, IInv, ClientConsistent
      <4>2. TunIsOpen' <=> TunIsOpen
        BY <2>8, <4>1 DEF TunIsOpen, HasTun, HasSys, Modes, Closing,
           FirstCloseStep, FirstTunClose
      <4> QED
        BY <2>2, <4>1, <4>2 DEF TunCounted, FirstCloseStep, FirstTunClose
    <3>2. ASSUME NEW d \in Callers, BeginStart(d) PROVE TunCounted'
      BY <2>2, <2>8, <3>2 DEF BeginStart, TunCounted, TunIsOpen, Closing
    <3>3. ASSUME NEW d \in Callers, RefuseStart(d) \/ CloseNothing(d)
          PROVE  TunCounted'
      BY <2>2, <2>8, <3>3 DEF RefuseStart, CloseNothing, Unlock, TunCounted,
         TunIsOpen
    <3> QED
      BY <3>1, <3>2, <3>3 DEF Lock
  <2>4. MonitorCounted'
    BY <2>2 DEF Lock, BeginStart, RefuseStart, BeginClose, CloseNothing,
       Unlock, FirstCloseStep, FirstTunClose, StartedMeansComplete, Complete,
       Idle, IInv, LockConsistent, HasSys, HasTun, Closing, MonitorCounted,
       TunIsOpen
  <2>5. ListenersCounted'
    BY <2>2 DEF Lock, BeginStart, RefuseStart, BeginClose, CloseNothing,
       Unlock, FirstCloseStep, FirstTunClose, StartedMeansComplete, Complete,
       Idle, ListenersCounted
  <2>6. ProxiesCounted'
    BY <2>2 DEF Lock, BeginStart, RefuseStart, BeginClose, CloseNothing,
       Unlock, FirstCloseStep, StartedMeansComplete, Complete, Idle, IInv,
       LockConsistent, hist, ProxiesCounted
  <2> QED
    BY <2>3, <2>4, <2>5, <2>6
<1>2. HijackedByClient'
  BY DEF Lock, BeginStart, RefuseStart, BeginClose, CloseNothing, Unlock,
     FirstCloseStep, FirstTunClose, StartedMeansComplete, Complete, Idle,
     hist, HInv, HijackedByClient, BeforeHijack, AfterResume
<1>3. DnsKept'
  <2>1. /\ step = "none" /\ UNCHANGED <<obj, mem, os, hist>>
        /\ obj.mode \in Modes
    BY DEF Lock, BeginStart, RefuseStart, BeginClose, CloseNothing, IInv,
       LockConsistent, TypeOK, Objects
  <2>2. CASE step' \in {"none", "read"}
    BY <2>1, <2>2 DEF HInv, DnsKept, BeforeResume, Restored, Closing, hist
  <2>3. CASE client = "live" /\ step' = FirstCloseStep(obj)
    <3>1. HasTun(obj) /\ obj.hijack => os.dns = "hijacked"
      BY <2>1, <2>3 DEF IInv, LockConsistent, StartedMeansComplete, Idle,
         Complete
    <3> QED
      BY <2>1, <2>3, <3>1 DEF HInv, DnsKept, BeforeResume, Restored, HasTun,
         HasSys, Modes, FirstCloseStep, FirstTunClose, hist
  <2> QED
    BY <2>1, <2>2, <2>3 DEF Lock, BeginStart, RefuseStart, BeginClose,
       CloseNothing, Unlock, IInv, ClientConsistent
<1> QED
  BY <1>0, <1>1, <1>2, <1>3 DEF HInv

(* A call waits for the lock.                                              *)
LEMMA CallCounts ==
    ASSUME IInv, HInv, NEW c \in Callers, NEW o \in Ops, Call(c, o) PROVE HInv'
<1>0. StepsFit'
  BY DEF Call, HInv, StepsFit
<1>1. Held'
  <2> SUFFICES ASSUME faulted' \subseteq {"start"}
               PROVE  /\ TunCounted' /\ MonitorCounted'
                      /\ ListenersCounted' /\ ProxiesCounted'
    BY DEF Held
  <2>1. faulted \subseteq {"start"}
    BY DEF Call, hist
  <2>2. /\ TunCounted /\ MonitorCounted /\ ListenersCounted
        /\ ProxiesCounted /\ StepsFit
    BY <2>1 DEF HInv, Held
  <2>3. TunCounted'
    BY <2>2 DEF Call, TunCounted, TunIsOpen
  <2>4. MonitorCounted'
    BY <2>2 DEF Call, MonitorCounted, TunIsOpen
  <2>5. ListenersCounted'
    BY <2>2 DEF Call, ListenersCounted
  <2>6. ProxiesCounted'
    BY <2>2 DEF Call, hist, ProxiesCounted
  <2> QED
    BY <2>3, <2>4, <2>5, <2>6
<1>2. HijackedByClient'
  BY DEF Call, hist, HInv, HijackedByClient, BeforeHijack, AfterResume
<1>3. DnsKept'
  BY DEF Call, hist, HInv, DnsKept, Restored, BeforeResume
<1> QED
  BY <1>0, <1>1, <1>2, <1>3 DEF HInv

(* Settings are read when a client is built.                               *)
LEMMA SetSettingCounts ==
    ASSUME IInv, HInv, NEW s \in Settings, SetSetting(s) PROVE HInv'
<1>0. StepsFit'
  BY DEF SetSetting, HInv, StepsFit
<1>1. Held'
  <2> SUFFICES ASSUME faulted' \subseteq {"start"}
               PROVE  /\ TunCounted' /\ MonitorCounted'
                      /\ ListenersCounted' /\ ProxiesCounted'
    BY DEF Held
  <2>1. faulted \subseteq {"start"}
    BY DEF SetSetting, hist
  <2>2. /\ TunCounted /\ MonitorCounted /\ ListenersCounted
        /\ ProxiesCounted /\ StepsFit
    BY <2>1 DEF HInv, Held
  <2>3. TunCounted'
    BY <2>2 DEF SetSetting, TunCounted, TunIsOpen
  <2>4. MonitorCounted'
    BY <2>2 DEF SetSetting, MonitorCounted, TunIsOpen
  <2>5. ListenersCounted'
    BY <2>2 DEF SetSetting, ListenersCounted
  <2>6. ProxiesCounted'
    BY <2>2 DEF SetSetting, hist, ProxiesCounted
  <2> QED
    BY <2>3, <2>4, <2>5, <2>6
<1>2. HijackedByClient'
  BY DEF SetSetting, hist, HInv, HijackedByClient, BeforeHijack, AfterResume
<1>3. DnsKept'
  BY DEF SetSetting, hist, HInv, DnsKept, Restored, BeforeResume
<1> QED
  BY <1>0, <1>1, <1>2, <1>3 DEF HInv

(* The name of the interface is no resource.                               *)
LEMMA IfaceAppearsCounts ==
    ASSUME IInv, HInv, IfaceAppears PROVE HInv'
<1>0. StepsFit'
  BY DEF IfaceAppears, HInv, StepsFit
<1>1. Held'
  <2> SUFFICES ASSUME faulted' \subseteq {"start"}
               PROVE  /\ TunCounted' /\ MonitorCounted'
                      /\ ListenersCounted' /\ ProxiesCounted'
    BY DEF Held
  <2>1. faulted \subseteq {"start"}
    BY DEF IfaceAppears, hist
  <2>2. /\ TunCounted /\ MonitorCounted /\ ListenersCounted
        /\ ProxiesCounted /\ StepsFit
    BY <2>1 DEF HInv, Held
  <2>3. TunCounted'
    BY <2>2 DEF IfaceAppears, TunCounted, TunIsOpen
  <2>4. MonitorCounted'
    BY <2>2 DEF IfaceAppears, MonitorCounted, TunIsOpen
  <2>5. ListenersCounted'
    BY <2>2 DEF IfaceAppears, ListenersCounted
  <2>6. ProxiesCounted'
    BY <2>2 DEF IfaceAppears, hist, ProxiesCounted
  <2> QED
    BY <2>3, <2>4, <2>5, <2>6
<1>2. HijackedByClient'
  BY DEF IfaceAppears, hist, HInv, HijackedByClient, BeforeHijack, AfterResume
<1>3. DnsKept'
  BY DEF IfaceAppears, hist, HInv, DnsKept, Restored, BeforeResume
<1> QED
  BY <1>0, <1>1, <1>2, <1>3 DEF HInv

(* What the kernel owns goes with the process.                             *)
LEMMA DieCounts ==
    ASSUME IInv, HInv, Die PROVE HInv'
<1>0. StepsFit'
  BY DEF Die, NewProcess, HInv, StepsFit
<1>1. Held'
  <2> SUFFICES ASSUME faulted' \subseteq {"start"}
               PROVE  /\ TunCounted' /\ MonitorCounted'
                      /\ ListenersCounted' /\ ProxiesCounted'
    BY DEF Held
  <2>1. faulted \subseteq {"start"}
    BY DEF Die, NewProcess
  <2>2. /\ TunCounted /\ MonitorCounted /\ ListenersCounted
        /\ ProxiesCounted /\ StepsFit
    BY <2>1 DEF HInv, Held
  <2>3. TunCounted'
    BY <2>2 DEF Die, NoObj, NewProcess, TunCounted, TunIsOpen
  <2>4. MonitorCounted'
    BY <2>2 DEF Die, NewProcess, MonitorCounted
  <2>5. ListenersCounted'
    BY <2>2 DEF Die, NoObj, NewProcess, ListenersCounted
  <2>6. ProxiesCounted'
    BY <2>2 DEF Die, NewProcess, IInv, TypeOK, Systems, ProxiesCounted
  <2> QED
    BY <2>3, <2>4, <2>5, <2>6
<1>2. HijackedByClient'
  BY DEF Die, NewProcess, IInv, TypeOK, Objects, HInv, HijackedByClient
<1>3. DnsKept'
  BY DEF Die, NoObj, NewProcess, IInv, TypeOK, Objects, HInv,
     HijackedByClient, DnsKept, Restored
<1> QED
  BY <1>0, <1>1, <1>2, <1>3 DEF HInv

(* Nothing changes.                                                        *)
LEMMA StutterCounts ==
    ASSUME IInv, HInv, UNCHANGED vars PROVE HInv'
<1>0. StepsFit'
  BY DEF vars, HInv, StepsFit
<1>1. Held'
  <2> SUFFICES ASSUME faulted' \subseteq {"start"}
               PROVE  /\ TunCounted' /\ MonitorCounted'
                      /\ ListenersCounted' /\ ProxiesCounted'
    BY DEF Held
  <2>1. faulted \subseteq {"start"}
    BY DEF vars, hist
  <2>2. /\ TunCounted /\ MonitorCounted /\ ListenersCounted
        /\ ProxiesCounted /\ StepsFit
    BY <2>1 DEF HInv, Held
  <2>3. TunCounted'
    BY <2>2 DEF vars, TunCounted, TunIsOpen
  <2>4. MonitorCounted'
    BY <2>2 DEF vars, MonitorCounted, TunIsOpen
  <2>5. ListenersCounted'
    BY <2>2 DEF vars, ListenersCounted
  <2>6. ProxiesCounted'
    BY <2>2 DEF vars, hist, ProxiesCounted
  <2> QED
    BY <2>3, <2>4, <2>5, <2>6
<1>2. HijackedByClient'
  BY DEF vars, hist, HInv, HijackedByClient, BeforeHijack, AfterResume
<1>3. DnsKept'
  BY DEF vars, hist, HInv, DnsKept, Restored, BeforeResume
<1> QED
  BY <1>0, <1>1, <1>2, <1>3 DEF HInv

(* Every step keeps the invariant.                                         *)
LEMMA StepCounts == IInv /\ HInv /\ [Next]_vars => HInv'
<1> SUFFICES ASSUME IInv, HInv, [Next]_vars PROVE HInv'
  OBVIOUS
<1>1. CASE NewStep
  BY <1>1, ReadModeCounts, NewSysProxyCounts, StartMonitorCounts,
     AwaitIfaceCounts, ReadTunConfigCounts, OpenTunCounts, StartTunCounts,
     AssembleCounts, AssignClientCounts, FailNewCounts DEF NewStep
<1>2. CASE StartStep
  BY <1>2, ListenTcpCounts, ListenUdpCounts, SetHttpProxyCounts,
     SetHttpsProxyCounts, StartStackCounts, HijackCounts, AbortStartCounts,
     FinishStartCounts DEF StartStep
<1>3. CASE CloseStep
  BY <1>3, ClearHttpCounts, ClearHttpsCounts, CloseUdpCounts, CloseTcpCounts,
     ResumeDnsCounts, CloseTunCounts, StopMonitorCounts, FinishCloseCounts DEF
     CloseStep
<1>4. ASSUME NEW c \in Callers, OsExit(c) PROVE HInv'
  BY <1>4, DieCounts DEF OsExit
<1>5. CASE Crash
  BY <1>5, DieCounts DEF Crash
<1> QED
  BY <1>1, <1>2, <1>3, <1>4, <1>5, LockCounts, CallCounts, SetSettingCounts,
     IfaceAppearsCounts, StutterCounts DEF Next, HolderStep

(* The invariant holds in every state.                                     *)
THEOREM HoldingsCounted == SafeSpec => []HInv
<1>1. SafeSpec => [](IInv /\ HInv)
  BY Consistency, InitIInv, StepKeeps, InitHInv, StepCounts, PTL DEF SafeSpec
<1> QED
  BY <1>1, PTL

(* A stopped service holds no tun, no monitor and no listener, and none of *)
(* the web proxies, whichever steps of client.Start failed before.         *)
THEOREM StoppedIsEmpty == Spec => []StoppedHoldsNothing
<1>1. IInv /\ HInv => StoppedHoldsNothing
  BY DEF IInv, LockConsistent, HInv, Held, TunCounted, TunIsOpen,
     MonitorCounted, ListenersCounted, ProxiesCounted, StoppedHoldsNothing,
     Idle, Closing
<1> QED
  BY <1>1, HoldingsCounted, Consistency, PTL DEF Spec

(* A start that fails in executor.New or client.Start does not leave the   *)
(* DNS servers hijacked.                                                   *)
THEOREM NoHijackLeft == Spec => []FailedStartNeverLeavesHijack
<1>1. HInv => FailedStartNeverLeavesHijack
  BY DEF HInv, HijackedByClient, FailedStartNeverLeavesHijack
<1> QED
  BY <1>1, HoldingsCounted, PTL DEF Spec

(* Without failures, a stop gives the DNS servers of the user back, or     *)
(* what a reset leaves.                                                    *)
THEOREM ServersComeBack == Spec => []StoppedRestoresDns
<1>1. HInv => StoppedRestoresDns
  BY DEF HInv, HijackedByClient, DnsKept, Restored, StoppedRestoresDns
<1> QED
  BY <1>1, HoldingsCounted, PTL DEF Spec
=============================================================================
