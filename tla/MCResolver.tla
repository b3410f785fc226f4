------------------------------ MODULE MCResolver ------------------------------
(* A tree / (a (b, f), b, f) with one foreign entry per directory, two       *)
(* request goroutines and a FastCache of capacity 2: resolving /a/b       *)
(* stores /a and /a/b, and resolving /b then evicts one of them.          *)
EXTENDS Resolver, TLC

CONSTANTS a, b, f, ea, eb, ef, junk, g1, g2, NoPathValue

MCGoroutines == {g1, g2}
\* the goroutines run the same code and are told apart by nothing
MCSymmetry == Permutations(MCGoroutines)
MCNames == {a, b, f}
MCDirs == {<<>>, <<a>>, <<a, b>>, <<b>>}
MCFiles == {<<a, f>>, <<f>>}
MCMissing == {<<b, f>>}
\* /f holds only a header: readFileID rejects it (len <= HeaderLen)
MCFileKind == (<<a, f>> :> "Blocks") @@ (<<f>> :> "HeaderOnly")
\* every file decrypts: a violation is then due to resolution alone
MCAllBlocks == [x \in MCFiles |-> "Blocks"]
\* one method of each rejecting handler: Filewrite, Filecmd, Filelist
MCUnsupported == {"Put", "Mkdir", "Readlink"}
MCEnc == (a :> ea) @@ (b :> eb) @@ (f :> ef)
MCForeign == {junk}
\* another client removes /a, whose mappings and listings may be cached
MCRemovable == {<<a>>}
MCNoRemoval == {}
MCCacheSize == 2
MCMaxOps == 2
=============================================================================
