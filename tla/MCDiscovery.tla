---------------------------- MODULE MCDiscovery ----------------------------
(* Instances of Discovery for TLC.                                          *)
EXTENDS Discovery

\* 2 and the neighbour 5, which is no target, share a local network and 1 is on
\* another one; 3 is IPv4 elsewhere, 9 is IPv6.
V4 == {1, 2, 3, 5}
Neighbours == {5}
LocalNetwork(ip) ==
  CASE ip \in {2, 5} -> "eth0" [] ip = 1 -> "eth1" [] OTHER -> NoIface

Config(targets, arp, ping, ports) ==
  [targets |-> targets, arp |-> arp, ping |-> ping, ports |-> ports]

\* Targets of every kind, 2 given twice; a local network alone, which ARP may
\* find complete; and no ARP, for addresses beyond its reach, with a port that
\* the profile has twice.
LanConfigs ==
  { Config(<<2, 9, 1, 2>>, TRUE, TRUE, <<22, 80>>),
    Config(<<2, 9, 1, 2>>, TRUE, FALSE, <<>>),
    Config(<<2, 1>>, TRUE, FALSE, <<80>>),
    Config(<<9, 3>>, FALSE, FALSE, <<80, 80>>),
    Config(<<>>, TRUE, TRUE, <<80>>) }

\* One host, beyond the reach of ARP and of ping.
RemoteConfig == {Config(<<3>>, FALSE, FALSE, <<22, 80, 443>>)}

=============================================================================
