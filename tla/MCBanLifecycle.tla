--------------------------- MODULE MCBanLifecycle ---------------------------
(* Small instances of BanLifecycle for TLC.                                 *)
EXTENDS BanLifecycle

BareNets == {{i} : i \in IPs}
AllNets == SUBSET IPs \ {{}}
EmptyOnly == {{}}
AnyAddresses == SUBSET IPs
Live == {FALSE}
LiveOrShadow == BOOLEAN
Everyone == Procs
=============================================================================
