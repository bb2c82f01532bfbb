----------------------------- MODULE MCLifecycle -----------------------------
(* Small instances of Lifecycle: two callers, a handful of settings.       *)
EXTENDS Lifecycle

Save(mode, fixed, hijack, reset, lan) ==
    [mode |-> mode, fixedIface |-> fixed, hijack |-> hijack, reset |-> reset,
     lan |-> lan]

TunSettings   == {Save("tun", FALSE, TRUE, FALSE, TRUE)}
MixedSettings == {Save("system", FALSE, FALSE, FALSE, FALSE),
                  Save("mixed", TRUE, TRUE, TRUE, FALSE)}
AllSettings   == TunSettings \cup MixedSettings
TwoSettings   == {Save("mixed", FALSE, TRUE, FALSE, FALSE),
                  Save("tun", TRUE, TRUE, FALSE, TRUE)}
OneSetting    == {Save("mixed", FALSE, TRUE, FALSE, FALSE)}
BothDns       == {"user", "empty"}
UserOnly      == {"user"}
=============================================================================
