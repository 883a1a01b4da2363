----------------------------- MODULE MCLiveClient -----------------------------
(* LiveReadOnlyClient for TLC. One operation passes every guard, one more is *)
(* gated but wants an input, and each of the others fails one key.           *)
EXTENDS LiveReadOnlyClient, TLC

CONSTANTS c1, c2, c3, read, picky, unlisted, write, planned, unregistered,
          public

MCIds == {read, picky, unlisted, write, planned, unregistered}
MCAllowlisted == MCIds \ {unlisted}
MCManifestReads == MCIds \ {write}
MCImplemented == MCIds \ {planned}
MCRegistryReads == MCIds \ {write, unregistered}
MCNeedsInput == {picky}
MCPair == {c1, c2}
MCCommands == {c1, c2, c3}

\* Safety only: the calls are interchangeable.
MCSymmetry == Permutations(MCCommands)
===============================================================================
