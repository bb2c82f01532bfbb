------------------------------ MODULE Lifecycle ------------------------------
(***************************************************************************)
(* Starting and stopping the service: manager.Start and manager.Close, the *)
(* three clients of package executor (tun, system, mixed) they build, start*)
(* and close, and the resources of the operating system those acquire: the *)
(* tun device, the interface monitors, the two listeners of the local      *)
(* server, the two web proxies and the DNS servers of the network service  *)
(* (the darwin build).                                                     *)
(*                                                                         *)
(* The HTTP handlers run concurrently; manager.mux serialises them.  The   *)
(* goroutine that holds it executes one step of the client at a time, and  *)
(* every step that calls the operating system may fail: a failed step is a *)
(* "fault".  Between two steps settings may be rewritten, the network      *)
(* interface may appear, and the process may die.                          *)
(***************************************************************************)
EXTENDS Naturals, FiniteSets

CONSTANTS
    Callers,      \* the goroutines of the HTTP handlers and of main
    NoCaller,     \* manager.mux is free
    Settings,     \* the settings a user may save
    UserDns,      \* the DNS servers the user may have configured
    MaxFaults,    \* bound: steps of the operating system that fail
    MaxRestarts   \* bound: deaths of the process

Modes   == {"tun", "system", "mixed"}
Dns     == {"user", "empty", "hijacked"}
Setting == [mode : Modes, fixedIface : BOOLEAN, hijack : BOOLEAN,
            reset : BOOLEAN, lan : BOOLEAN]

ASSUME CallersAssumption  == NoCaller \notin Callers
ASSUME SettingsAssumption == Settings \subseteq Setting /\ Settings # {}
ASSUME DnsAssumption      == UserDns \subseteq {"user", "empty"} /\ UserDns # {}
ASSUME BoundsAssumption   == MaxFaults \in Nat /\ MaxRestarts \in Nat

NewSteps   == {"read", "sysConfig", "monitor", "iface", "tunConfig", "tunOpen",
               "tunStart", "assemble", "assign", "cleanup"}
StartSteps == {"listenTcp", "listenUdp", "setHttp", "setHttps", "stackUp",
               "hijack", "started"}
CloseSteps == {"clearHttp", "clearHttps", "closeUdp", "closeTcp", "resume",
               "tunClose", "stopMonitor", "closed"}
Steps      == {"none"} \cup NewSteps \cup StartSteps \cup CloseSteps
Phases     == {"new", "start", "abort", "close"}
Ops        == {"start", "stop", "exit"}

VARIABLES
    setting,    \* the saved settings
    op,         \* what each caller asked for ("exiting": about to os.Exit)
    answer,     \* what its last call returned
    holder,     \* the caller that holds manager.mux
    phase,      \* executor.New, client.Start, client.Close after a failed
                \* start ("abort"), client.Close of manager.Close ("close")
    step,       \* the step the holder executes next
    err,        \* a step of this phase returned an error
    client,     \* manager.client: nil, an interface holding a nil pointer, a client
    obj,        \* the client being built, started or closed
    mem,        \* the package variables of network_iface and dns
    os,         \* the resources of the operating system
    userDns,    \* the DNS servers before the service ever ran
    faults,     \* how many steps failed
    faulted,    \* in which phases
    restarts,   \* how many times the process died
    unclean     \* some process died with a client alive or a call under way

api   == <<op, answer>>
hist  == <<userDns, faults, faulted, restarts, unclean>>
vars  == <<setting, api, holder, phase, step, err, client, obj, mem, os, hist>>

NoObj == [mode |-> "tun", hijack |-> FALSE, reset |-> FALSE, lan |-> FALSE,
          stack |-> FALSE, tcp |-> FALSE, udp |-> FALSE]
NewProcess == [iface |-> FALSE, monitor |-> FALSE, original |-> "empty"]

(* A client object, the memory of a process, what the system holds.        *)
Objects  == [mode : Modes, hijack : BOOLEAN, reset : BOOLEAN, lan : BOOLEAN,
             stack : BOOLEAN, tcp : BOOLEAN, udp : BOOLEAN]
Memories == [iface : BOOLEAN, monitor : BOOLEAN, original : Dns]
Systems  == [tuns : Nat, monitors : Nat, tcp : BOOLEAN, udp : BOOLEAN,
             http : BOOLEAN, https : BOOLEAN, dns : Dns]

TypeOK ==
    /\ setting \in Settings
    /\ op \in [Callers -> Ops \cup {"none", "exiting"}]
    /\ answer \in [Callers -> {"none", "ok", "refused", "error"}]
    /\ holder \in Callers \cup {NoCaller}
    /\ phase \in Phases \cup {"none"}
    /\ step \in Steps
    /\ err \in BOOLEAN
    /\ client \in {"nil", "typednil", "live"}
    /\ obj \in Objects
    /\ mem \in Memories
    /\ os \in Systems
    /\ userDns \in UserDns
    /\ faults \in Nat
    /\ faulted \subseteq Phases
    /\ restarts \in Nat
    /\ unclean \in BOOLEAN

Init ==
    /\ setting \in Settings
    /\ op = [c \in Callers |-> "none"]
    /\ answer = [c \in Callers |-> "none"]
    /\ holder = NoCaller
    /\ phase = "none"
    /\ step = "none"
    /\ err = FALSE
    /\ client = "nil"
    /\ obj = NoObj
    /\ mem = NewProcess
    /\ userDns \in UserDns
    /\ os = [tuns |-> 0, monitors |-> 0, tcp |-> FALSE, udp |-> FALSE,
             http |-> FALSE, https |-> FALSE, dns |-> userDns]
    /\ faults = 0
    /\ faulted = {}
    /\ restarts = 0
    /\ unclean = FALSE

-----------------------------------------------------------------------------
(* What a client is made of, and the order of its steps.                   *)

HasSys(o)    == o.mode \in {"system", "mixed"}
HasTun(o)    == o.mode \in {"tun", "mixed"}
ServesLan(o) == o.mode = "tun" /\ o.lan        \* newMixed passes newTun(false)

FirstStartStep(o) == IF HasSys(o) THEN "listenTcp" ELSE "stackUp"
(* Mutant: a tun client closes without resuming the DNS servers.           *)
ForgetHijack(o) == "tunClose"
FirstTunClose(o)  == IF o.hijack THEN "resume" ELSE "tunClose"
FirstCloseStep(o) == IF HasSys(o) THEN "clearHttp" ELSE FirstTunClose(o)

AfterSysStart(o) == IF o.mode = "mixed" THEN "stackUp" ELSE "started"
AfterListen(o)   == IF HasSys(o) THEN "setHttp" ELSE "started"
AfterHijack(o)   == IF ServesLan(o) THEN "listenTcp" ELSE "started"
AfterStack(o)    == IF o.hijack THEN "hijack" ELSE AfterHijack(o)
(* Mutant: the tun half of a mixed client is not closed.                   *)
StopAtListeners(o) == "closed"
AfterListeners(o) == IF o.mode = "mixed" THEN FirstTunClose(o) ELSE "closed"
(* Mutant: the tun of a mixed client is closed twice.                      *)
CloseTunAgain(o) == IF ServesLan(o) THEN "closeUdp"
                    ELSE IF HasSys(o) THEN "tunClose" ELSE "closed"
AfterMonitor(o)  == IF ServesLan(o) THEN "closeUdp" ELSE "closed"

(* One step of the holder: it succeeds, it fails because the operating     *)
(* system fails it, or it fails because of what was left behind.           *)
Succeed(s, next) ==
    /\ step = s
    /\ step' = next
    /\ UNCHANGED <<setting, api, holder, phase, err, client, hist>>

Refuse(s, next) ==
    /\ step = s
    /\ step' = next
    /\ err' = TRUE
    /\ UNCHANGED <<setting, api, holder, phase, client, hist>>

Fail(s, next) ==
    /\ step = s
    /\ faults < MaxFaults
    /\ faults' = faults + 1
    /\ faulted' = faulted \cup {phase}
    /\ step' = next
    /\ err' = TRUE
    /\ UNCHANGED <<setting, api, holder, phase, client, userDns, restarts, unclean>>

Unlock(c, a) ==
    /\ op' = [op EXCEPT ![c] = IF @ = "exit" THEN "exiting" ELSE "none"]
    /\ answer' = [answer EXCEPT ![c] = a]
    /\ holder' = NoCaller
    /\ phase' = "none"
    /\ step' = "none"
    /\ err' = FALSE

-----------------------------------------------------------------------------
(* The API and the lock.                                                   *)

Call(c, o) ==
    /\ op[c] = "none"
    /\ o = "exit" => restarts < MaxRestarts
    /\ op' = [op EXCEPT ![c] = o]
    /\ answer' = [answer EXCEPT ![c] = "none"]
    /\ UNCHANGED <<setting, holder, phase, step, err, client, obj, mem, os, hist>>

SetSetting(s) ==
    /\ s # setting
    /\ setting' = s
    /\ UNCHANGED <<api, holder, phase, step, err, client, obj, mem, os, hist>>

BeginStart(c) ==
    /\ op[c] = "start" /\ holder = NoCaller /\ client = "nil"
    /\ holder' = c
    /\ phase' = "new"
    /\ step' = "read"
    /\ UNCHANGED <<setting, api, err, client, obj, mem, os, hist>>

RefuseStart(c) ==
    /\ op[c] = "start" /\ holder = NoCaller /\ client # "nil"
    /\ Unlock(c, "refused")
    /\ UNCHANGED <<setting, client, obj, mem, os, hist>>

BeginClose(c) ==
    /\ op[c] \in {"stop", "exit"} /\ holder = NoCaller /\ client # "nil"
    /\ holder' = c
    /\ phase' = "close"
    /\ step' = FirstCloseStep(obj)
    /\ UNCHANGED <<setting, api, err, client, obj, mem, os, hist>>

CloseNothing(c) ==
    /\ op[c] \in {"stop", "exit"} /\ holder = NoCaller /\ client = "nil"
    /\ Unlock(c, "ok")
    /\ UNCHANGED <<setting, client, obj, mem, os, hist>>

Lock(c) == BeginStart(c) \/ RefuseStart(c) \/ BeginClose(c) \/ CloseNothing(c)

(* The process dies: what the kernel owns on its behalf goes with it, the  *)
(* web proxies and the DNS servers of the network service stay.            *)
Die ==
    /\ op' = [c \in Callers |-> "none"]
    /\ answer' = [c \in Callers |-> "none"]
    /\ holder' = NoCaller
    /\ phase' = "none"
    /\ step' = "none"
    /\ err' = FALSE
    /\ client' = "nil"
    /\ obj' = NoObj
    /\ mem' = NewProcess
    /\ os' = [os EXCEPT !.tuns = 0, !.monitors = 0, !.tcp = FALSE, !.udp = FALSE]
    /\ restarts' = restarts + 1
    /\ unclean' = (unclean \/ client # "nil" \/ holder # NoCaller)
    /\ UNCHANGED <<setting, userDns, faults, faulted>>

Crash == restarts < MaxRestarts /\ Die

(* exit() and main() call os.Exit once Close has returned, with the lock   *)
(* released: a start that slipped in dies half way.                        *)
OsExit(c) == op[c] = "exiting" /\ Die

-----------------------------------------------------------------------------
(* executor.New                                                            *)

ReadMode ==
    \/ /\ Succeed("read", IF setting.mode = "system" THEN "sysConfig" ELSE "monitor")
       /\ obj' = [NoObj EXCEPT !.mode = setting.mode]
       /\ UNCHANGED <<mem, os>>
    \/ /\ Fail("read", "cleanup")
       /\ UNCHANGED <<obj, mem, os>>

NewSysProxy ==
    \/ Succeed("sysConfig", "assign") /\ UNCHANGED <<obj, mem, os>>
    \/ Fail("sysConfig", "assign") /\ UNCHANGED <<obj, mem, os>>

(* The settings may be unreadable.  With a default interface in them       *)
(* nothing is monitored.  A start of the monitors that fails late leaves a *)
(* monitor running.                                                        *)
StartMonitor ==
    \/ /\ Fail("monitor", "assign")
       /\ UNCHANGED <<obj, mem, os>>
    \/ /\ setting.fixedIface
       /\ Succeed("monitor", "iface")
       /\ mem' = [mem EXCEPT !.iface = TRUE]
       /\ UNCHANGED <<obj, os>>
    \/ /\ ~setting.fixedIface
       /\ Succeed("monitor", "iface")
       /\ \E known \in BOOLEAN :
            mem' = [mem EXCEPT !.monitor = TRUE, !.iface = @ \/ known]
       /\ os' = [os EXCEPT !.monitors = @ + 1]
       /\ UNCHANGED obj
    \/ /\ ~setting.fixedIface
       /\ Fail("monitor", "assign")
       /\ mem' = [mem EXCEPT !.monitor = FALSE]
       /\ UNCHANGED <<obj, os>>
    \/ /\ ~setting.fixedIface
       /\ Fail("monitor", "assign")
       /\ mem' = [mem EXCEPT !.monitor = TRUE]
       /\ os' = [os EXCEPT !.monitors = @ + 1]
       /\ UNCHANGED obj

(* The callback of any live monitor stores the name of the interface.      *)
IfaceAppears ==
    /\ os.monitors > 0 /\ ~mem.iface
    /\ mem' = [mem EXCEPT !.iface = TRUE]
    /\ UNCHANGED <<setting, api, holder, phase, step, err, client, obj, os, hist>>

AwaitIface ==
    /\ mem.iface
    /\ Succeed("iface", "tunConfig")
    /\ UNCHANGED <<obj, mem, os>>

ReadTunConfig ==
    \/ /\ Succeed("tunConfig", "tunOpen")
       /\ obj' = [obj EXCEPT !.hijack = setting.hijack, !.reset = setting.reset,
                             !.lan = setting.lan]
       /\ UNCHANGED <<mem, os>>
    \/ /\ Fail("tunConfig", "assign")
       /\ UNCHANGED <<obj, mem, os>>

OpenTun ==
    \/ /\ Succeed("tunOpen", "tunStart")
       /\ os' = [os EXCEPT !.tuns = @ + 1]
       /\ UNCHANGED <<obj, mem>>
    \/ /\ Fail("tunOpen", "assign")
       /\ UNCHANGED <<obj, mem, os>>

StartTun ==
    \/ Succeed("tunStart", "assemble") /\ UNCHANGED <<obj, mem, os>>
    \/ Fail("tunStart", "assign") /\ UNCHANGED <<obj, mem, os>>

(* The stack, and the matchers, proxy, DNS clients and rules published to  *)
(* the other packages.                                                     *)
Assemble ==
    \/ Succeed("assemble", "assign") /\ UNCHANGED <<obj, mem, os>>
    \/ Fail("assemble", "assign") /\ UNCHANGED <<obj, mem, os>>

(* client, err = executor.New(): newTun and newSysProxy return a nil       *)
(* pointer of their own type, which the interface variable holds as a      *)
(* value that is not nil until the deferred function clears it.            *)
AssignClient ==
    /\ step = "assign"
    /\ client' = CASE ~err -> "live"
                   [] err /\ obj.mode = "mixed" -> "nil"
                   [] OTHER -> "typednil"
    /\ phase' = IF err THEN phase ELSE "start"
    /\ step' = IF err THEN "cleanup" ELSE FirstStartStep(obj)
    /\ UNCHANGED <<setting, api, holder, err, obj, mem, os, hist>>

(* Mutant: the deferred function does not clear manager.client.            *)
KeepFailedClient(c) ==
    /\ holder = c /\ step = "cleanup"
    /\ Unlock(c, "error")
    /\ UNCHANGED <<setting, client, obj, mem, os, hist>>

FailNew(c) ==
    /\ holder = c /\ step = "cleanup"
    /\ client' = "nil"
    /\ Unlock(c, "error")
    /\ UNCHANGED <<setting, obj, mem, os, hist>>

-----------------------------------------------------------------------------
(* client.Start.  A failed step of the system proxy does not keep a mixed  *)
(* client from starting its tun; any other failed step ends the start.     *)

(* Mutant: a start retries its listener until the port is free.            *)
RetryListen(o) == "listenTcp"

AfterStartFailure(o) == IF HasSys(o) THEN AfterSysStart(o) ELSE "started"

ListenTcp ==
    \/ /\ ~os.tcp
       /\ Succeed("listenTcp", "listenUdp")
       /\ os' = [os EXCEPT !.tcp = TRUE]
       /\ obj' = [obj EXCEPT !.tcp = TRUE]
       /\ UNCHANGED mem
    \/ /\ os.tcp
       /\ Refuse("listenTcp", AfterStartFailure(obj))
       /\ UNCHANGED <<obj, mem, os>>
    \/ /\ Fail("listenTcp", AfterStartFailure(obj))
       /\ UNCHANGED <<obj, mem, os>>

(* A client that got the TCP port finds the UDP port free: no close leaves *)
(* a UDP listener open without the TCP one (CallsReturn fails otherwise).  *)
ListenUdp ==
    \/ /\ ~os.udp
       /\ Succeed("listenUdp", AfterListen(obj))
       /\ os' = [os EXCEPT !.udp = TRUE]
       /\ obj' = [obj EXCEPT !.udp = TRUE]
       /\ UNCHANGED mem
    \/ /\ Fail("listenUdp", AfterStartFailure(obj))
       /\ UNCHANGED <<obj, mem, os>>

SetHttpProxy ==
    \/ /\ Succeed("setHttp", "setHttps")
       /\ os' = [os EXCEPT !.http = TRUE]
       /\ UNCHANGED <<obj, mem>>
    \/ /\ Fail("setHttp", AfterSysStart(obj))
       /\ UNCHANGED <<obj, mem, os>>

SetHttpsProxy ==
    \/ /\ Succeed("setHttps", AfterSysStart(obj))
       /\ os' = [os EXCEPT !.https = TRUE]
       /\ UNCHANGED <<obj, mem>>
    \/ /\ Fail("setHttps", AfterSysStart(obj))
       /\ UNCHANGED <<obj, mem, os>>

StartStack ==
    \/ /\ Succeed("stackUp", AfterStack(obj))
       /\ obj' = [obj EXCEPT !.stack = TRUE]
       /\ UNCHANGED <<mem, os>>
    \/ /\ Fail("stackUp", "started")
       /\ UNCHANGED <<obj, mem, os>>

(* Mutant: the servers in force are read after they were replaced.         *)
RememberLate(o) == IF o.reset THEN mem.original ELSE "hijacked"

Remembered(o) == IF o.reset THEN mem.original ELSE os.dns

(* Hijack remembers the servers in force, unless Resume will reset them,   *)
(* then installs its own.  Either command may fail.                        *)
Hijack ==
    \/ /\ Succeed("hijack", AfterHijack(obj))
       /\ mem' = [mem EXCEPT !.original = Remembered(obj)]
       /\ os' = [os EXCEPT !.dns = "hijacked"]
       /\ UNCHANGED obj
    \/ /\ ~obj.reset
       /\ Fail("hijack", "started")
       /\ mem' = [mem EXCEPT !.original = "empty"]
       /\ UNCHANGED <<obj, os>>
    \/ /\ Fail("hijack", "started")
       /\ mem' = [mem EXCEPT !.original = Remembered(obj)]
       /\ UNCHANGED <<obj, os>>

(* Mutant: the error of client.Start is not looked at.                     *)
FinishAnyStart(c) ==
    /\ holder = c /\ step = "started"
    /\ Unlock(c, "ok")
    /\ UNCHANGED <<setting, client, obj, mem, os, hist>>

FinishStart(c) ==
    /\ holder = c /\ step = "started"
    /\ ~err
    /\ Unlock(c, "ok")
    /\ UNCHANGED <<setting, client, obj, mem, os, hist>>

AbortStart ==
    /\ step = "started"
    /\ err
    /\ phase' = "abort"
    /\ step' = FirstCloseStep(obj)
    /\ err' = FALSE
    /\ UNCHANGED <<setting, api, holder, client, obj, mem, os, hist>>

-----------------------------------------------------------------------------
(* client.Close.  The system proxy attempts every one of its steps, except *)
(* that a UDP listener that does not close keeps the TCP one open; the tun *)
(* client stops at the first step that fails.                              *)

ClearHttp ==
    \/ /\ Succeed("clearHttp", "clearHttps")
       /\ os' = [os EXCEPT !.http = FALSE]
       /\ UNCHANGED <<obj, mem>>
    \/ /\ Fail("clearHttp", "clearHttps")
       /\ UNCHANGED <<obj, mem, os>>

ClearHttps ==
    \/ /\ Succeed("clearHttps", "closeUdp")
       /\ os' = [os EXCEPT !.https = FALSE]
       /\ UNCHANGED <<obj, mem>>
    \/ /\ Fail("clearHttps", "closeUdp")
       /\ UNCHANGED <<obj, mem, os>>

CloseUdp ==
    \/ /\ Succeed("closeUdp", "closeTcp")
       /\ os' = [os EXCEPT !.udp = @ /\ ~obj.udp]
       /\ obj' = [obj EXCEPT !.udp = FALSE]
       /\ UNCHANGED mem
    \/ /\ obj.udp
       /\ Fail("closeUdp", AfterListeners(obj))
       /\ UNCHANGED <<obj, mem, os>>

CloseTcp ==
    \/ /\ Succeed("closeTcp", AfterListeners(obj))
       /\ os' = [os EXCEPT !.tcp = @ /\ ~obj.tcp]
       /\ obj' = [obj EXCEPT !.tcp = FALSE]
       /\ UNCHANGED mem
    \/ /\ obj.tcp
       /\ Fail("closeTcp", AfterListeners(obj))
       /\ UNCHANGED <<obj, mem, os>>

(* Resume forgets the remembered servers whether its command works or not. *)
ResumeDns ==
    /\ mem' = [mem EXCEPT !.original = "empty"]
    /\ UNCHANGED obj
    /\ \/ /\ Succeed("resume", "tunClose")
          /\ os' = [os EXCEPT !.dns = IF obj.reset THEN "empty" ELSE mem.original]
       \/ /\ Fail("resume", "closed")
          /\ UNCHANGED os

CloseTun ==
    \/ /\ Succeed("tunClose", "stopMonitor")
       /\ os' = [os EXCEPT !.tuns = @ - 1]
       /\ UNCHANGED <<obj, mem>>
    \/ /\ Fail("tunClose", "closed")
       /\ UNCHANGED <<obj, mem, os>>

StopMonitor ==
    /\ mem' = [mem EXCEPT !.monitor = FALSE]
    /\ UNCHANGED obj
    /\ \/ /\ Succeed("stopMonitor", AfterMonitor(obj))
          /\ os' = [os EXCEPT !.monitors = IF mem.monitor THEN @ - 1 ELSE @]
       \/ /\ mem.monitor
          /\ Fail("stopMonitor", "closed")
          /\ UNCHANGED os

(* Mutant: a close that fails returns before it clears manager.client.     *)
KeepOnError(c) ==
    /\ holder = c /\ step = "closed"
    /\ client' = IF err THEN client ELSE "nil"
    /\ Unlock(c, IF err \/ phase = "abort" THEN "error" ELSE "ok")
    /\ UNCHANGED <<setting, obj, mem, os, hist>>

FinishClose(c) ==
    /\ holder = c /\ step = "closed"
    /\ client' = "nil"
    /\ Unlock(c, IF err \/ phase = "abort" THEN "error" ELSE "ok")
    /\ UNCHANGED <<setting, obj, mem, os, hist>>

-----------------------------------------------------------------------------
NewStep   == \/ ReadMode \/ NewSysProxy \/ StartMonitor \/ AwaitIface
             \/ ReadTunConfig \/ OpenTun \/ StartTun \/ Assemble \/ AssignClient
             \/ \E c \in Callers : FailNew(c)
StartStep == \/ ListenTcp \/ ListenUdp \/ SetHttpProxy \/ SetHttpsProxy
             \/ StartStack \/ Hijack \/ AbortStart
             \/ \E c \in Callers : FinishStart(c)
CloseStep == \/ ClearHttp \/ ClearHttps \/ CloseUdp \/ CloseTcp \/ ResumeDns
             \/ CloseTun \/ StopMonitor
             \/ \E c \in Callers : FinishClose(c)

HolderStep == NewStep \/ StartStep \/ CloseStep

Next ==
    \/ \E c \in Callers, o \in Ops : Call(c, o)
    \/ \E s \in Settings : SetSetting(s)
    \/ \E c \in Callers : Lock(c)
    \/ HolderStep
    \/ IfaceAppears
    \/ Crash
    \/ \E c \in Callers : OsExit(c)

(* The holder waits for others: newTun polls for the name of the network   *)
(* interface, UpdateDnsMap (in Assemble) waits for dns.mux, and ahead of   *)
(* ClearHttp and CloseTun CloseAllConnections waits for each Close.        *)
Waits ==
    \/ step = "iface" /\ ~mem.iface
    \/ step \in {"assemble", "clearHttp", "tunClose"}

(* The goroutine that holds the lock runs on, where it waits for nobody,   *)
(* and a command of the system ends; sync.Mutex hands itself over to a     *)
(* waiter that starves.                                                    *)
Fairness ==
    /\ WF_vars(~Waits /\ HolderStep)
    /\ \A c \in Callers : SF_vars(Lock(c)) /\ WF_vars(OsExit(c))

SafeSpec == Init /\ [][Next]_vars
Spec     == SafeSpec /\ Fairness

-----------------------------------------------------------------------------
(* Properties.                                                             *)

Idle == holder = NoCaller

Complete(o) ==
    /\ HasSys(o) => os.tcp /\ os.udp /\ os.http /\ os.https
    /\ HasTun(o) => os.tuns > 0 /\ o.stack /\ mem.iface
    /\ HasTun(o) /\ o.hijack => os.dns = "hijacked"
    /\ ServesLan(o) => os.tcp /\ os.udp

(* What manager.GetIsStarted reports while nobody holds the lock is true:  *)
(* a client that survives manager.Start has every resource of its mode,    *)
(* whichever steps failed in earlier starts and stops.                     *)
StartedMeansComplete == Idle /\ client = "live" => Complete(obj)

(* A stopped service holds nothing, even after starts whose client.Start   *)
(* failed half way: the Close that follows undoes them.  Only a failure    *)
(* inside executor.New or inside Close itself can leave something behind.  *)
StoppedHoldsNothing ==
    Idle /\ client = "nil" /\ faulted \subseteq {"start"} =>
        /\ os.tuns = 0 /\ os.monitors = 0 /\ ~os.tcp /\ ~os.udp
        /\ ~unclean => ~os.http /\ ~os.https

(* Stopping gives the user's DNS servers back (or none, when the settings  *)
(* ask for a reset) if no step ever failed and no process died running.    *)
StoppedRestoresDns ==
    Idle /\ client = "nil" /\ faulted = {} /\ ~unclean =>
        os.dns \in {userDns} \cup {"empty" : s \in {t \in Settings : t.reset}}

(* A start that fails, at whatever step, never leaves the machine pointed  *)
(* at the resolver of a service that is not running.                       *)
FailedStartNeverLeavesHijack ==
    Idle /\ client = "nil" /\ faulted \subseteq {"new", "start"} /\ ~unclean =>
        os.dns # "hijacked"

(* The lock, the phases and the progress of a start agree at every step:   *)
(* what Complete asks of a client is acquired before its start succeeds,   *)
(* a tun and a monitor are there to be closed, and a nil pointer is never  *)
(* left in manager.client.  The strengthening of StartedMeansComplete that *)
(* every step preserves.                                                   *)
LockConsistent ==
    /\ step = "none" <=> holder = NoCaller
    /\ phase = "none" <=> holder = NoCaller
    /\ phase = "new" <=> step \in NewSteps
    /\ phase = "start" <=> step \in StartSteps
    /\ phase \in {"abort", "close"} <=> step \in CloseSteps

ClientConsistent ==
    /\ holder = NoCaller => client \in {"nil", "live"}
    /\ phase \in {"start", "abort", "close"} => client = "live"
    /\ phase = "new" /\ step # "cleanup" => client = "nil"
    /\ phase = "new" => client # "live"

(* The holder acts for a caller that asked for it.                         *)
CallConsistent ==
    /\ phase \in {"new", "start", "abort"} => op[holder] = "start"
    /\ phase = "close" => op[holder] \in {"stop", "exit"}

NewConsistent ==
    /\ mem.monitor => os.monitors > 0
    /\ step = "sysConfig" => obj.mode = "system"
    /\ step \in {"tunConfig", "tunOpen", "tunStart", "assemble"} => mem.iface
    /\ step \in {"tunStart", "assemble"} => os.tuns > 0
    /\ step = "assign" /\ ~err /\ HasTun(obj) => mem.iface /\ os.tuns > 0

(* What a start that met no failure has acquired by each of its steps.     *)
StackOver  == step \in {"hijack", "started"} \/ (obj.mode = "tun" /\ step # "stackUp")
HijackOver == step = "started" \/ (obj.mode = "tun" /\ step \in {"listenTcp", "listenUdp"})
SysOver(steps) == HasSys(obj) /\ step \notin steps

StartProgress ==
    /\ SysOver({"listenTcp"}) => os.tcp
    /\ SysOver({"listenTcp", "listenUdp"}) => os.udp
    /\ SysOver({"listenTcp", "listenUdp", "setHttp"}) => os.http
    /\ SysOver({"listenTcp", "listenUdp", "setHttp", "setHttps"}) => os.https
    /\ HasTun(obj) /\ StackOver => obj.stack
    /\ HasTun(obj) /\ obj.hijack /\ HijackOver => os.dns = "hijacked"
    /\ ServesLan(obj) /\ step \in {"listenUdp", "started"} => os.tcp
    /\ ServesLan(obj) /\ step = "started" => os.udp

StartConsistent ==
    phase = "start" =>
        /\ step \in {"setHttp", "setHttps"} => HasSys(obj)
        /\ step \in {"stackUp", "hijack"} => HasTun(obj)
        /\ HasTun(obj) => mem.iface /\ os.tuns > 0
        /\ ~err => StartProgress

CloseConsistent ==
    phase \in {"abort", "close"} =>
        /\ step \in {"resume", "tunClose"} => os.tuns > 0
        /\ obj.mode = "mixed"
            /\ step \in {"clearHttp", "clearHttps", "closeUdp", "closeTcp"}
                => os.tuns > 0

IInv == /\ TypeOK /\ LockConsistent /\ ClientConsistent /\ CallConsistent
        /\ NewConsistent /\ StartConsistent /\ CloseConsistent
        /\ StartedMeansComplete

(* Every call returns unless the holder of manager.mux waits for ever: for *)
(* a network interface, for an exchange that holds dns.mux or for the      *)
(* Close of a connection.  A stop or an exit asked for meanwhile waits     *)
(* with it.                                                                *)
CallsReturn ==
    []<>~Waits =>
        \A c \in Callers : op[c] # "none" ~> op[c] = "none"

(* manager.Start and manager.Close behave as one switch: the service counts *)
(* as up from the return of a successful start to the end of the next      *)
(* close, and every call answers according to it.                          *)
Up == client = "live" /\ phase \notin {"start", "abort"}
Switch == INSTANCE Service WITH up <- Up
ImplementsService == Switch!Spec

(* SetWebProxy says of its failing second command "revert previous         *)
(* changes": when it returns the error, the HTTP proxy is off again.       *)
FailedSetReverts ==
    [][step = "setHttps" /\ step' # step /\ err' => ~os'.http]_vars
=============================================================================
