---- MODULE PeerTable ----
(***************************************************************************)
(* The direct-mapped tables of src/source/network.cpp, peer_registry and   *)
(* blacklist, have a slot for each hash of an address.  Peers whose        *)
(* addresses hash to one slot displace each other from it.                 *)
(***************************************************************************)

CONSTANTS
    Mac,    \* peer addresses
    NoMac,  \* the all-zero address of an unused slot
    Slots,  \* indices of the tables (MAX_PEERS of them in the code)
    SlotOf  \* get_mac_hash: the slot of every address
====
