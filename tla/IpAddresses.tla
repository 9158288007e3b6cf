---------------------------- MODULE IpAddresses ----------------------------
(***************************************************************************)
(* The addresses of the network stack: the neighbours', which ARP learns,  *)
(* and the device's own, which DHCP obtains.                               *)
(***************************************************************************)
EXTENDS Arp, Dhcp

AddressesInit == arp_init /\ DhcpInit

\* hosts: the hosts that answer ARP, with the addresses they announce.
AddressesNext(hosts) ==
    \/ ArpNext(hosts) /\ UNCHANGED dhcpVars
    \/ DhcpNext /\ UNCHANGED arpVars

AddressesSpec == AddressesInit /\ [][AddressesNext(Ips \X Macs)]_<<arpVars, dhcpVars>>

\* Addresses are asked for, learnt and given up when they should be, the neighbours' and
\* one's own (arp.c, dhcp.c).
AddressesSound == ArpSound /\ LeaseSound
=============================================================================
