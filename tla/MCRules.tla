------------------------------- MODULE MCRules --------------------------------
(* Small instances of Rules: one program, one name and one address, two     *)
(* embedded files, and customized rules that disagree with them.            *)
EXTENDS Rules, TLC

CONSTANTS d1, a1, p1

R(type, keys, policy) == [type |-> type, keys |-> keys, policy |-> policy]

DirectName  == R("NAME", {d1}, "DIRECT")
ProxyName   == R("NAME", {d1}, "PROXY")
RejectProg  == R("PROCESS", {p1}, "REJECT")
DirectAddr  == R("IP", {a1}, "DIRECT")
ProxyProg   == R("PROCESS", {p1}, "PROXY")

OneDomain == {d1}
OneAddr   == {a1}
OneProc   == {p1}
Files     == [proxy_all  |-> <<>>,
              bypass_all |-> <<DirectAddr, ProxyName, DirectName>>]

NoCustom   == {<<>>}
TwoCustom  == {<<ProxyProg>>, <<RejectProg, DirectName>>}
OneFile    == {"bypass_all", "missing"}
AnyFile    == {"proxy_all", "bypass_all"}

HandlerSymmetry == Permutations(Handlers)
=============================================================================
