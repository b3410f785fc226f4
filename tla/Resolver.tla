------------------------------ MODULE Resolver ------------------------------
(***************************************************************************)
(* The plaintext-to-ciphertext path resolver and the ReadFile / ReadDir / *)
(* Stat facade of package filetree (filetree.go, decrypt.go), run by many *)
(* SFTP request goroutines at once over one shared FastCache, behind the *)
(* request handlers of package handlers (decrypt.go).                     *)
(*                                                                         *)
(* FastCache is the module of that name, instantiated with its own        *)
(* variables, so every Find and Store is its atomic step.  The requester  *)
(* is abstracted to what each of its calls may return to the resolver:    *)
(* the backend's answer, or an error (a backend error, the 20 s queue     *)
(* timeout, exhausted retries).  Its caches are kept: a listing or file  *)
(* read that succeeded is served from then on and never invalidated.     *)
(* Another client of the backend may remove nodes meanwhile; Stat alone  *)
(* asks the backend afresh (fsAccessor.Stat).                             *)
(*                                                                         *)
(* A plaintext path is the sequence of its names (<<>> is "/"), already   *)
(* cleaned by filepath.Clean.  A ciphertext path is the sequence of the   *)
(* encrypted names below the encrypted root.  findPath's recursion is an  *)
(* explicit stack of frames.                                               *)
(***************************************************************************)
EXTENDS Naturals, Sequences, FiniteSets
LOCAL INSTANCE SequencesExt

CONSTANTS
  Goroutines,    \* SFTP request goroutines
  Names,         \* plaintext names
  Dirs,          \* plaintext directories of the tree, <<>> included
  Files,         \* plaintext regular files of the tree
  Missing,       \* plaintext paths asked for that do not exist
  FileKind,      \* FileKind[f]: the shape of regular file f's ciphertext
  Removable,     \* nodes another backend client may remove, with their subtree
  Unsupported,   \* SFTP request methods the handlers reject
  Enc,           \* Enc[n]: the encrypted form of name n
  Foreign,       \* encrypted names in every directory that fail to decrypt
  CacheSize,     \* FastCache capacity
  NoPath,        \* a fresh DirMapping's empty path
  MaxOps,        \* bound: facade calls per goroutine
  ReqErrors,     \* TRUE if a requester call may fail (IV, listing, file)
  DecryptErrors  \* TRUE if a DecryptName call may fail transiently

\* The ciphertext of a regular file: no bytes at all, only the HeaderLen
\* bytes of the header (an empty plaintext), the header and data blocks,
\* or a header or block the codec cannot decrypt.
Nodes == Dirs \cup Files

FileKinds == {"Empty", "HeaderOnly", "Blocks", "Corrupt"}

\* Filewrite, every case of Filecmd's switch, and Filelist's Readlink.
UnsupportedMethods ==
  {"Put", "Setstat", "Rename", "Rmdir", "Remove", "Mkdir", "Symlink", "Readlink"}

ASSUME /\ <<>> \in Dirs /\ Dirs \cap Files = {}
       /\ \A n, m \in Names : Enc[n] = Enc[m] => n = m   \* EME is a permutation
       /\ \A n \in Names : Enc[n] \notin Foreign
       /\ ReqErrors \in BOOLEAN /\ DecryptErrors \in BOOLEAN
       /\ FileKind \in [Files -> FileKinds]
       /\ Unsupported \subseteq UnsupportedMethods
       /\ Removable \subseteq Nodes \ {<<>>}

\* the encryptedRoot, relative to itself
EncRoot == <<>>

\* mutant: the parent of a path taken as the path itself (an uncleaned
\* trailing slash makes filepath.Dir return its argument)
ParentPathSelf(p) == p

\* filepath.Dir of a cleaned path other than "/"
ParentPath(p) == Front(p)

\* The ciphertext path of a plaintext path of the tree (reference).
RECURSIVE CipherPathOf(_)
CipherPathOf(p) == IF p = <<>> THEN EncRoot ELSE Append(CipherPathOf(Front(p)), Enc[Last(p)])

CipherDirs == {CipherPathOf(d) : d \in Dirs}
CipherFiles == {CipherPathOf(f) : f \in Files}

\* The backend holding the nodes t: the encrypted names listed in
\* ciphertext directory c.
EntriesIn(t, c) ==
  LET ds == {d \in Dirs \cap t : CipherPathOf(d) = c} IN
  IF ds = {} THEN {}
  ELSE {Enc[Last(q)] : q \in {q \in t \ {<<>>} : Front(q) \in ds}} \cup Foreign

\* The plaintext children of directory d when the backend holds t.
ChildrenIn(t, d) == {Last(q) : q \in {q \in t \ {<<>>} : Front(q) = d}}

\* What removing x and everything under it leaves of t.
Without(t, x) == {q \in t : ~IsPrefix(x, q)}

\* DecryptName of an encrypted name that does decrypt.
Dec(cn) == CHOOSE n \in Names : Enc[n] = cn

VARIABLES
  storage, pPath, cPath, prev, next, head, last, count, stored,  \* FastCache
  gpc,       \* goroutine: "idle", "resolve" (in findPath), "finish"
  gop,       \* facade method being served
  gpath,     \* plaintext path asked for
  frames,    \* findPath frames, innermost last: [path, phase]
  cres,      \* ciphertext path returned by the last findPath frame
  nops,      \* facade calls made by each goroutine
  result,    \* what the goroutine's last call returned
  tree,      \* the plaintext nodes the backend holds now
  dirCache,  \* dirCache[c]: the requester's cached listing of c, or NotCached
  fileCache, \* ciphertext files whose requester ReadFile is cached
  trees      \* history: every set of nodes the backend has held

fcVars == <<storage, pPath, cPath, prev, next, head, last, count, stored>>
gVars == <<gpc, gop, gpath, frames, cres, nops, result>>
rVars == <<dirCache, fileCache>>
vars == <<fcVars, gVars, rVars, tree, trees>>

FC == INSTANCE FastCache WITH PPaths <- Dirs \ {<<>>}, CPaths <- CipherDirs

NoEntry == "noEntry"
\* what no listing equals: no cache entry, a failed read
NotCached == {"notCached"}
ReadErr == {"readErr"}
MaxDepth == Max({Len(d) : d \in Nodes \cup Missing}) + 1
Outcome == [kind : {"None", "Err"}] \cup
           [kind : {"Stat", "File"}, path : CipherDirs \cup CipherFiles] \cup
           [kind : {"Listing"}, names : SUBSET Names]
Err == [kind |-> "Err"]

-----------------------------------------------------------------------------
(* The requester as the resolver sees it (readdir.go, readfile.go over     *)
(* makeRequest): data once fetched is served from its cache at once, with *)
(* no backend call that could fail; a miss asks the backend now, which    *)
(* fails when the path is gone or the call fails, and the data is cached. *)

\* rangeInDir's diriv read and ReadDir of c return listing l.  The diriv
\* is cached whenever the listing is (it is read first), so one cache
\* entry stands for both.
ListDir(c, l) ==
  \/ /\ dirCache[c] # NotCached
     /\ l = dirCache[c]
     /\ UNCHANGED dirCache
  \/ /\ dirCache[c] = NotCached /\ EntriesIn(tree, c) # {}
     /\ l = EntriesIn(tree, c)
     /\ dirCache' = [dirCache EXCEPT ![c] = l]
  \/ /\ dirCache[c] = NotCached /\ (ReqErrors \/ EntriesIn(tree, c) = {})
     /\ l = ReadErr
     /\ UNCHANGED dirCache

\* reqCacher.ReadFile of file c answers "Data" or "Failed".  An empty file
\* never comes back: the worker stores its nil data and makeRequest gives
\* up after its retries (requester.go:158).
ReadFileReq(c, a) ==
  LET present == \E q \in tree \cap Files : CipherPathOf(q) = c
      empty == FileKind[CHOOSE q \in Files : CipherPathOf(q) = c] = "Empty"
  IN \/ /\ c \in fileCache /\ a = "Data"
        /\ UNCHANGED fileCache
     \/ /\ c \notin fileCache /\ present /\ ~empty /\ a = "Data"
        /\ fileCache' = fileCache \cup {c}
     \/ /\ c \notin fileCache /\ (ReqErrors \/ ~present \/ empty) /\ a = "Failed"
        /\ UNCHANGED fileCache

\* fsAccessor.Stat: the backend is asked afresh, bypassing the requester.
StatOK(c) == \E q \in tree : CipherPathOf(q) = c

-----------------------------------------------------------------------------
(* Helpers of filetree.go, over a listing l of encrypted names             *)

\* The encrypted names DecryptName may fail on in one pass over a listing.
DecryptFailures(l) == IF DecryptErrors THEN SUBSET (l \ Foreign) ELSE {{}}

\* findInDir: the first listed entry whose decrypted name is n; entries
\* that fail to decrypt (foreign, or a failed DecryptName call) are skipped.
FindInDir(l, n, skip) ==
  LET ms == {cn \in l \ (Foreign \cup skip) : Dec(cn) = n}
  IN IF ms = {} THEN NoEntry ELSE CHOOSE cn \in ms : TRUE

IsDirEntry(c, cn) == Append(c, cn) \in CipherDirs

\* mutant: the mapping stored is the parent's ciphertext path
StoredPathParent(c, cn) == c

\* filepath.Join(cipherParentPath, item.Name())
StoredPath(c, cn) == Append(c, cn)

\* rangeInDir with ReadDir's callback: every entry that decrypts is listed.
Listed(l, skip) == {Dec(cn) : cn \in l \ (Foreign \cup skip)}

\* The plaintext file whose ciphertext is at c.
FileAt(c) == CHOOSE f \in Files : CipherPathOf(f) = c

\* decryptFile (decrypt.go) of data read: readFileID rejects a file no
\* longer than the header with io.EOF; ParseHeader or DecryptBlocks fail
\* on a corrupt one.
Decrypts(c) == FileKind[FileAt(c)] = "Blocks"

FCStore(p, c) == FC!StoreExisting(p, c) \/ FC!StoreEvict(p, c) \/ FC!StoreNew(p, c)

\* Return from the innermost findPath frame with ciphertext path c.
PopWith(g, c) ==
  /\ frames' = [frames EXCEPT ![g] = Front(@)]
  /\ cres' = [cres EXCEPT ![g] = c]
  /\ gpc' = [gpc EXCEPT ![g] = IF Len(frames[g]) = 1 THEN "finish" ELSE "resolve"]

\* The facade call returns r.
Finish(g, r) ==
  /\ gpc' = [gpc EXCEPT ![g] = "idle"]
  /\ frames' = [frames EXCEPT ![g] = <<>>]
  /\ result' = [result EXCEPT ![g] = r]

-----------------------------------------------------------------------------
(* Facade entry: ReadFile resolves the parent directory, ReadDir and Stat *)
(* the path itself.  ReadFile("/") fails at once.                         *)
Begin(g, o, p) ==
  /\ gpc[g] = "idle" /\ nops[g] < MaxOps
  /\ nops' = [nops EXCEPT ![g] = @ + 1]
  /\ gop' = [gop EXCEPT ![g] = o]
  /\ gpath' = [gpath EXCEPT ![g] = p]
  /\ IF o = "ReadFile" /\ p = <<>>
     THEN /\ result' = [result EXCEPT ![g] = Err]
          /\ UNCHANGED <<gpc, frames>>
     ELSE /\ gpc' = [gpc EXCEPT ![g] = "resolve"]
          /\ frames' = [frames EXCEPT ![g] =
                          <<[path |-> IF o = "ReadFile" THEN ParentPath(p) ELSE p,
                             phase |-> "find"]>>]
          /\ result' = [result EXCEPT ![g] = [kind |-> "None"]]
  /\ UNCHANGED <<cres, fcVars, rVars, tree, trees>>

\* findPath entry: "/" is the encrypted root; a FastCache hit returns its
\* ciphertext path; a miss resolves the parent first.
FindPathStep(g) ==
  LET fr == Last(frames[g])
      p == fr.path
  IN /\ gpc[g] = "resolve" /\ fr.phase = "find"
     /\ \/ /\ p = <<>>
           /\ PopWith(g, EncRoot)
           /\ UNCHANGED fcVars
        \/ /\ p # <<>> /\ p \in DOMAIN storage
           /\ FC!Find(p)
           /\ PopWith(g, cPath[storage[p]])
        \/ /\ p # <<>> /\ p \notin DOMAIN storage
           /\ FC!FindMiss(p)
           /\ frames' = [frames EXCEPT ![g] =
                 Append([@ EXCEPT ![Len(@)] = [path |-> p, phase |-> "walk"]],
                        [path |-> ParentPath(p), phase |-> "find"])]
           /\ UNCHANGED <<gpc, cres>>
     /\ UNCHANGED <<gop, gpath, nops, result, rVars, tree, trees>>

\* findPath after its parent resolved to cres: findInDir, check that the
\* item is a directory, Store the mapping and return it.  findInDir reads
\* only the requester, so it and the Store form one step.
WalkStep(g) ==
  LET p == Last(frames[g]).path
      c == cres[g]
  IN /\ gpc[g] = "resolve" /\ Last(frames[g]).phase = "walk"
     /\ \E l \in {ReadErr, EntriesIn(tree, c), dirCache[c]} :
          /\ ListDir(c, l)
          /\ \/ /\ l = ReadErr                    \* diriv or listing read fails
                /\ Finish(g, Err)
                /\ UNCHANGED <<cres, fcVars>>
             \/ /\ l # ReadErr
                /\ \E skip \in DecryptFailures(l) :
                     LET cn == FindInDir(l, Last(p), skip) IN
                     \/ /\ cn = NoEntry \/ ~IsDirEntry(c, cn)   \* not found, not a dir
                        /\ Finish(g, Err)
                        /\ UNCHANGED <<cres, fcVars>>
                     \/ /\ cn # NoEntry /\ IsDirEntry(c, cn)
                        /\ FCStore(p, StoredPath(c, cn))
                        /\ PopWith(g, StoredPath(c, cn))
                        /\ UNCHANGED result
     /\ UNCHANGED <<gop, gpath, nops, fileCache, tree, trees>>

\* The facade method after findPath returned cres.
FinishOp(g) ==
  LET c == cres[g] IN
  /\ gpc[g] = "finish"
  /\ \/ /\ gop[g] = "Stat"
        /\ \/ StatOK(c) /\ Finish(g, [kind |-> "Stat", path |-> c])
           \/ (ReqErrors \/ ~StatOK(c)) /\ Finish(g, Err)
        /\ UNCHANGED rVars
     \/ /\ gop[g] \in {"ReadDir", "ReadFile"}
        /\ \E l \in {ReadErr, EntriesIn(tree, c), dirCache[c]} :
             /\ ListDir(c, l)
             /\ \/ /\ l = ReadErr
                   /\ Finish(g, Err)
                   /\ UNCHANGED fileCache
                \/ /\ l # ReadErr /\ gop[g] = "ReadDir"
                   /\ \E skip \in DecryptFailures(l) :
                        Finish(g, [kind |-> "Listing", names |-> Listed(l, skip)])
                   /\ UNCHANGED fileCache
                \/ /\ l # ReadErr /\ gop[g] = "ReadFile"
                   /\ \E skip \in DecryptFailures(l) :
                        LET cn == FindInDir(l, Last(gpath[g]), skip) IN
                        IF cn = NoEntry \/ IsDirEntry(c, cn)
                        THEN Finish(g, Err) /\ UNCHANGED fileCache
                        ELSE \E a \in {"Data", "Failed"} :
                               /\ ReadFileReq(Append(c, cn), a)
                               /\ Finish(g, IF a = "Data" /\ Decrypts(Append(c, cn))
                                            THEN [kind |-> "File", path |-> Append(c, cn)]
                                            ELSE Err)
  /\ UNCHANGED <<gop, gpath, cres, nops, fcVars, tree, trees>>

-----------------------------------------------------------------------------
(* Another client of the backend removes node x and all below it.  No     *)
(* cache of this server hears of it.                                       *)
RemoveNode(x) ==
  /\ x \in tree
  /\ tree' = Without(tree, x)
  /\ trees' = trees \cup {tree'}
  /\ UNCHANGED <<fcVars, gVars, rVars>>

-----------------------------------------------------------------------------
(* The SFTP handlers (handlers/decrypt.go): Fileread serves "Get" with    *)
(* ReadFile, Filelist serves "List" with ReadDir and "Stat" with Stat;    *)
(* every other method fails at once and touches nothing.                  *)

Route == ("Get" :> "ReadFile") @@ ("List" :> "ReadDir") @@ ("Stat" :> "Stat")

Serve(g, m, p) == Begin(g, Route[m], p)

Reject(g, m) ==
  /\ gpc[g] = "idle" /\ nops[g] < MaxOps
  /\ nops' = [nops EXCEPT ![g] = @ + 1]
  /\ gop' = [gop EXCEPT ![g] = m]
  /\ result' = [result EXCEPT ![g] = Err]
  /\ UNCHANGED <<gpc, gpath, frames, cres, fcVars, rVars, tree, trees>>

\* Filelist hands the listing to the sftp request server as a listerat,
\* which the server pages through buffers of these sizes.
ListBufSizes == 1..3

\* mutant: the last entry counts as past the end
ListAtLastDropped(f, size, off) ==
  IF off >= Len(f) - 1 THEN [n |-> 0, eof |-> TRUE]
  ELSE LET n == IF size <= Len(f) - off THEN size ELSE Len(f) - off
       IN [n |-> n, eof |-> n < size]

\* listerat.ListAt: copy what fits of f from offset off into a buffer of
\* size entries; io.EOF when off is past the end or the buffer is not full.
ListAt(f, size, off) ==
  IF off >= Len(f) THEN [n |-> 0, eof |-> TRUE]
  ELSE LET n == IF size <= Len(f) - off THEN size ELSE Len(f) - off
       IN [n |-> n, eof |-> n < size]

\* The entries the sftp server sends: it asks again from off + n until a
\* call yields no entries (at most fuel calls more).
RECURSIVE PagedFrom(_, _, _, _)
PagedFrom(f, size, off, fuel) ==
  LET r == ListAt(f, size, off) IN
  IF r.n = 0 \/ fuel = 0 THEN <<>>
  ELSE SubSeq(f, off + 1, off + r.n) \o PagedFrom(f, size, off + r.n, fuel - 1)

-----------------------------------------------------------------------------
Init ==
  /\ FC!Init
  /\ gpc = [g \in Goroutines |-> "idle"]
  /\ gop = [g \in Goroutines |-> "Stat"]
  /\ gpath = [g \in Goroutines |-> <<>>]
  /\ frames = [g \in Goroutines |-> <<>>]
  /\ cres = [g \in Goroutines |-> EncRoot]
  /\ nops = [g \in Goroutines |-> 0]
  /\ result = [g \in Goroutines |-> [kind |-> "None"]]
  /\ tree = Nodes
  /\ dirCache = [c \in CipherDirs |-> NotCached]
  /\ fileCache = {}
  /\ trees = {Nodes}

\* Every goroutine has made its MaxOps calls: the bounded run is over.
Done ==
  /\ \A g \in Goroutines : gpc[g] = "idle" /\ nops[g] = MaxOps
  /\ UNCHANGED vars

Next ==
  \/ \E g \in Goroutines :
        \/ \E p \in Dirs \cup Missing : Serve(g, "List", p)
        \/ \E p \in Nodes \cup Missing : Serve(g, "Stat", p) \/ Serve(g, "Get", p)
        \/ \E m \in Unsupported : Reject(g, m)
  \/ \E g \in Goroutines : FindPathStep(g) \/ WalkStep(g) \/ FinishOp(g)
  \/ \E x \in Removable : RemoveNode(x)
  \/ Done


\* Each request goroutine runs on until its call returns.
Spec == Init /\ [][Next]_vars /\ \A g \in Goroutines :
          WF_vars(FindPathStep(g) \/ WalkStep(g) \/ FinishOp(g))

-----------------------------------------------------------------------------
(* Properties                                                              *)

TypeOK ==
  /\ FC!TypeOK
  /\ gpc \in [Goroutines -> {"idle", "resolve", "finish"}]
  /\ gop \in [Goroutines -> {"ReadFile", "ReadDir", "Stat"} \cup Unsupported]
  /\ gpath \in [Goroutines -> Nodes \cup Missing]
  /\ \A g \in Goroutines :
       /\ frames[g] \in Seq([path : Nodes \cup Missing, phase : {"find", "walk"}])
       /\ Len(frames[g]) <= MaxDepth
  /\ cres \in [Goroutines -> CipherDirs]
  /\ nops \in [Goroutines -> 0..MaxOps]
  /\ result \in [Goroutines -> Outcome]
  /\ tree \subseteq Nodes /\ trees \subseteq SUBSET Nodes
  /\ dirCache \in [CipherDirs -> {NotCached} \cup SUBSET (Foreign \cup {Enc[n] : n \in Names})]
  /\ fileCache \subseteq CipherFiles

\* Spec 4.F and scenario S5: a successful ReadDir(p) lists exactly the
\* plaintext names of p's children, as the backend held them at one
\* moment (the requester may serve a listing cached before another client
\* removed nodes); only names that are not encryptions of a name (foreign
\* files) are left out, and never a listing mixed from two moments.
ListingComplete ==
  \A g \in Goroutines :
    result[g].kind = "Listing" =>
      \E t \in trees : gpath[g] \in Dirs \cap t /\ result[g].names = ChildrenIn(t, gpath[g])

\* Spec 4.E/4.F: whatever other goroutines resolved, stored or evicted in
\* the shared FastCache meanwhile, every successful call acts on exactly
\* the plaintext path asked for: Stat and ReadFile on its ciphertext path,
\* ReadDir on its directory, and only paths that exist are found.
ResolvesCorrectly ==
  /\ \A g \in Goroutines :
       /\ result[g].kind = "Stat" =>
            gpath[g] \in Nodes /\ result[g].path = CipherPathOf(gpath[g])
       /\ result[g].kind = "File" =>
            /\ gpath[g] \in Files /\ result[g].path = CipherPathOf(gpath[g])
            /\ \E t \in trees : gpath[g] \in t
  /\ ListingComplete

\* FastCache keeps its own invariants under the Finds, Stores and evictions
\* of concurrent resolvers: every stored node maps its path to the last
\* ciphertext path stored for it, and f.count is the number of entries,
\* never above cacheSize (fastcache.go Store's reuse of the head node).
CacheSound == FC!MappingSound /\ FC!SizeAccounting

\* Paging Filelist's listerat through any buffer size, the SFTP client
\* receives every name of a successful ReadDir once, in order: a page that
\* exactly fills the buffer, the short last page and the empty page past
\* the end are all at the boundary of ListAt's offset arithmetic.
ListingPaged ==
  \A g \in Goroutines :
    result[g].kind = "Listing" =>
      LET f == SetToSeq(result[g].names) IN
      \A size \in ListBufSizes : PagedFrom(f, size, 0, Len(f) + 1) = f

\* The facade calls of the server adapter (spec 4.F, 4.G): when no
\* requester call fails, ReadDir of a directory, Stat of any existing path
\* and ReadFile of a regular file that decrypts succeed; a file holding
\* just its header is an empty file (spec 7: HEADER_TRUNCATED is content
\* shorter than the header).
Exists(o, p) ==
  CASE o = "ReadDir" -> p \in Dirs \cap tree
    [] o = "ReadFile" -> p \in Files \cap tree /\ FileKind[p] \in {"Blocks", "HeaderOnly"}
    [] o = "Stat" -> p \in tree
    [] OTHER -> FALSE

NoSpuriousErrors ==
  \A g \in Goroutines :
    (result[g] = Err /\ Exists(gop[g], gpath[g])) => ReqErrors \/ DecryptErrors

=============================================================================
