---- MODULE MCKeyVault ----
\* One key of the application besides the HMAC secret, two values, two salts.
EXTENDS KeyVault, TLC

CONSTANTS k1, v1, v2, p1, s1, s2

MCName == {k1}
MCValue == {v1, v2}
MCPeer == {p1}
MCSalt == {s1, s2}

\* Values are written, read and compared, never ordered; so are salts.
Symmetry == Permutations(MCValue) \cup Permutations(MCSalt)
====
