---- MODULE MCMessenger ----
\* Two nodes.  A slot of the registry is named by the one address that hashes
\* to it, so that exchanging the nodes is a symmetry.
EXTENDS Messenger, TLC

CONSTANTS a, b

MCMac == {a, b}
MCSlotOf == [m \in MCMac |-> m]
MCSymmetry == Permutations(MCMac)
====
