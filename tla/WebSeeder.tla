------------------------------- MODULE WebSeeder -------------------------------
(***************************************************************************)
(* The requests that the server answers about one torrent (web_seeder.go), *)
(* and where it takes a file from: the disk, if FileCacheMap knows a row;  *)
(* the vault, which holds some torrents; the torrent library, for which    *)
(* the torrent is opened.  The same order decides whether a file or a      *)
(* directory is "available", which means that no torrent is needed.        *)
(*                                                                         *)
(* The vault answers as it likes, and so does the store of torrent files.  *)
(***************************************************************************)
EXTENDS FileCache

CONSTANTS
    Asked,      \* files that are asked for
    Dirs,       \* directories, the root being one
    Under,      \* Under[d]: the files whose path starts with that of d and a slash
    Matches     \* Matches[d]: the files whose path the pattern of d matches

\* _ and % in the name of a directory match other characters too.
ASSUME DirsAssumption ==
    /\ Asked \subseteq Files
    /\ Under \in [Dirs -> SUBSET Files]
    /\ Matches \in [Dirs -> SUBSET Files]
    /\ \A d \in Dirs : Under[d] \subseteq Matches[d]

vars == fileVars

TypeOK == FileTypeOK

Init == FileInit

------------------------------------------------------------------------------
(* The order of the sources.                                               *)

\* What a vault says: nothing of it (or an error), no such file, here it is.
VaultReplies == {"none", "not found", "redirect"}

redirectFromVault(reply) == reply = "redirect"

\* The number of files under d, or 0 when the torrent file cannot be had.
DirFileCount(d, known) == IF known THEN Cardinality(Under[d]) ELSE 0

\* One row too few is enough.
SlipIsDirComplete(d, expectedFiles) ==
    /\ expectedFiles > 0
    /\ Cardinality(dbFiles \cap Matches[d]) + 1 >= expectedFiles

\* Rows are counted, not compared.
IsDirComplete(d, expectedFiles) ==
    /\ expectedFiles > 0
    /\ Cardinality(dbFiles \cap Matches[d]) >= expectedFiles

\* A vault that has the torrent is enough, whether it has the file or not.
availableWithoutTorrent(cached, reply) == cached \/ reply # "none"

------------------------------------------------------------------------------
(* Requests.                                                               *)

\* It is served without the torrent, or from the torrent that is open, or fails.
NoTorrent == UNCHANGED <<completionVars, diskVars, open, orphan, unproven, stale>>

\* GET of a file.
serveFile(f) ==
    /\ Keep(f)
    /\ \/ NoTorrent
       \/ \E reply \in VaultReplies :
             /\ Get(f) # "path"
             /\ ~ redirectFromVault(reply)
             /\ OpenTorrent

\* ?stats of a file: the stream of statistics opens the torrent.
serveStatsOfFile(f) ==
    /\ Keep(f)
    /\ \E reply \in VaultReplies :
          /\ ~ availableWithoutTorrent(Get(f) = "path", reply)
          /\ OpenTorrent

serveStatsOfDir(d) ==
    /\ UNCHANGED answers
    /\ \E reply \in VaultReplies, known \in BOOLEAN :
          /\ ~ availableWithoutTorrent(IsDirComplete(d, DirFileCount(d, known)), reply)
          /\ OpenTorrent

\* ?done of a file.  Of a directory it changes nothing.
serveDone(f) == Keep(f) /\ NoTorrent

\* The listing of a torrent, and its torrent file.
renderTorrent == UNCHANGED answers /\ OpenTorrent

ServeHTTP ==
    \/ \E f \in Asked : serveFile(f) \/ serveStatsOfFile(f) \/ serveDone(f)
    \/ \E d \in Dirs : serveStatsOfDir(d)
    \/ renderTorrent

------------------------------------------------------------------------------

Next ==
    \/ \E p \in Pieces : \/ \E good \in BOOLEAN : WriteAt(p, good)
                         \/ HashPasses(p)
                         \/ MarkComplete(p)
                         \/ MarkNotComplete(p)
                         \/ EvictSet(p)
                         \/ EvictFiles(p)
                         \/ EvictPunch(p)
    \/ \E f \in Asked : Expire(f)
    \/ Poll
    \/ PollFails
    \/ OrphanWrites
    \/ OrphanFails
    \/ Drop
    \/ Crash
    \/ ServeHTTP

Spec == Init /\ [][Next]_vars

------------------------------------------------------------------------------

\* When ?done says of a directory that all of it is there, every file under it has
\* its data on disk, but for stale rows and evictions under way: counting rows is as
\* good as comparing them (availableWithoutTorrent, web_seeder.go:304) unless the
\* pattern of the directory matches files elsewhere.
DoneMeansOnDisk ==
    \A d \in Dirs :
        /\ Matches[d] = Under[d]
        /\ IsDirComplete(d, DirFileCount(d, TRUE))
        => \A f \in Under[d] \ stale : \A p \in Cover[f] :
              p \in onDisk \cup unproven \/ eviction[p] = "files"
==============================================================================
