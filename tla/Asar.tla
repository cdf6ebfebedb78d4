-------------------------------- MODULE Asar --------------------------------
(***************************************************************************)
(* Archives that the functions of `fs' show as directories.                *)
(*                                                                         *)
(*   atom/common/asar/archive.cc   nodes of the header, files copied out   *)
(*   atom/common/lib/asar.coffee   the functions of fs, cached archives    *)
(*                                                                         *)
(* One archive and the scripts of one process.  The header is kept as a    *)
(* function from the place of a node to the node; a place is the sequence  *)
(* of the names on the way from the root, and so is a path.  What the C++  *)
(* returns by a flag and an out parameter is a set of one member or none.  *)
(***************************************************************************)
EXTENDS Naturals, FiniteSets, SequencesExt

CONSTANTS
  Names,        \* the names of files
  Archives,     \* the headers the archive may have
  Paths,        \* the paths scripts ask for
  MaxVersion,   \* bounds how often the archive is installed
  MaxCopies     \* bounds the files copied out

VARIABLES
  header,       \* the nodes of the archive
  disk,         \* the version on disk, of the archive and of the directory
                \* of unpacked files beside it, 0 before the first
  archive,      \* the version in cachedArchives, 0 for none
  destroyed,    \* the cached archive was destroyed
  exiting,      \* 'exit' was emitted
  copies,       \* external_files_: paths and temporary files
  temps,        \* the temporary files: a name, and what is in it
  nextTemp,     \* names temporary files
  handed,       \* history: temporary files scripts were given, and for what
  answer        \* the last call and what it returned

fsVars == <<header, disk, archive, destroyed, exiting, copies, temps, nextTemp, handed, answer>>

Kinds == {"dir", "file", "unpacked", "link"}

ASSUME PathsAssumption == Paths \subseteq Seq(Names)
ASSUME BoundsAssumption == MaxVersion \in Nat \ {0} /\ MaxCopies \in Nat

(* The tool that makes archives writes the real path of what a link names. *)
ASSUME ArchiveAssumption ==
  \A root \in Archives :
    /\ DOMAIN root \subseteq Seq(Names)
    /\ <<>> \in DOMAIN root /\ root[<<>>].kind = "dir"
    /\ \A p \in DOMAIN root \ {<<>>} :
         /\ root[p].kind \in Kinds
         /\ Front(p) \in DOMAIN root /\ root[Front(p)].kind = "dir"
         /\ root[p].kind = "link" =>
              root[p].to \in DOMAIN root /\ root[root[p].to].kind # "link"

FsInit ==
  /\ header \in Archives
  /\ disk \in {0, 1}
  /\ archive = 0 /\ destroyed = FALSE /\ exiting = FALSE
  /\ copies = {} /\ temps = {} /\ nextTemp = 0 /\ handed = {}
  /\ answer = [call |-> "none", path |-> <<>>, at |-> 0, value |-> {}]

-----------------------------------------------------------------------------
(* Nodes of the header whose root is given.                                *)

(* Mutant: a link is no directory.                                         *)
GetFilesNodeOfDirectory(root, nodes, dir) == {d \in {dir} : root[d].kind = "dir"}

(* The directory whose files dir has.  A link is followed once: nodes are  *)
(* those that GetNodeFromPath finds.                                       *)
GetFilesNode(root, nodes, dir) ==
  LET target == IF root[dir].kind = "link" THEN nodes[root[dir].to] ELSE {dir}
  IN {d \in target : root[d].kind = "dir"}

GetChildNode(root, nodes, name, dir) ==
  {Append(files, name) : files \in GetFilesNode(root, nodes, dir)} \cap DOMAIN root

GetNodeFromPath(root) ==
  LET nodes[path \in Seq(Names)] ==
        IF path = <<>> THEN {<<>>}
        ELSE UNION {GetChildNode(root, nodes, Last(path), dir) : dir \in nodes[Front(path)]}
  IN nodes

(* The node of a file, which has its size and its offset.                  *)
GetFileInfo(root) ==
  LET info[path \in Seq(Names)] ==
        UNION {IF root[n].kind = "link" THEN info[root[n].to]
               ELSE {f \in {n} : root[f].kind \in {"file", "unpacked"}}
               : n \in GetNodeFromPath(root)[path]}
  IN info

Stat(root, path) ==
  {IF root[n].kind = "unpacked" THEN "file" ELSE root[n].kind : n \in GetNodeFromPath(root)[path]}

Readdir(root, path) ==
  LET nodes == GetNodeFromPath(root) IN
  {{name \in Names : Append(files, name) \in DOMAIN root}
     : files \in UNION {GetFilesNode(root, nodes, n) : n \in nodes[path]}}

Realpath(root, path) ==
  {IF root[n].kind = "link" THEN root[n].to ELSE path : n \in GetNodeFromPath(root)[path]}

-----------------------------------------------------------------------------
(* What is in the files: the version and the place they were packed from.  *)

Packed(version, root, path) ==
  {<<version, f>> : f \in {g \in GetFileInfo(root)[path] : root[g].kind = "file"}}

(* A file that was left unpacked is in the directory beside the archive,   *)
(* where it is looked up under the path that was asked for.                *)
Unpacked(version, root, path) ==
  {<<version, path>> : f \in {g \in GetFileInfo(root)[path] :
     /\ root[g].kind = "unpacked"
     /\ path \in DOMAIN root /\ root[path].kind = "unpacked"}}

(* getOrCreateArchive: an archive that cannot be opened is not cached.     *)
GetOrCreateArchive ==
  /\ archive' = IF archive = 0 THEN disk ELSE archive
  /\ UNCHANGED <<header, disk, destroyed, exiting>>

Usable == archive' # 0 /\ ~destroyed

Answer(call, path, value) ==
  answer' = [call |-> call, path |-> path, at |-> disk,
             value |-> IF Usable THEN value ELSE {}]

NoCopy == UNCHANGED <<copies, temps, nextTemp, handed>>

(* fs.readFile, readFileSync.  They read from the file descriptor of the   *)
(* archive that was opened.                                                *)
ReadFile(path) ==
  /\ GetOrCreateArchive
  /\ Answer("read", path, Packed(archive', header, path) \cup Unpacked(disk, header, path))
  /\ NoCopy

(* fs.lstat, lstatSync.                                                    *)
LstatFile(path) ==
  /\ GetOrCreateArchive
  /\ Answer("lstat", path, Stat(header, path))
  /\ NoCopy

(* fs.stat, statSync, statSyncNoException, exists and existsSync: "Do not  *)
(* distinguish links for now."                                             *)
StatFile(path) ==
  /\ GetOrCreateArchive
  /\ Answer("stat", path, Stat(header, path))
  /\ NoCopy

ReadDirectory(path) ==
  /\ GetOrCreateArchive
  /\ Answer("readdir", path, Readdir(header, path))
  /\ NoCopy

RealpathOf(path) ==
  /\ GetOrCreateArchive
  /\ Answer("realpath", path, Realpath(header, path))
  /\ NoCopy

Hand(path, temp) ==
  handed' = handed \cup {[path |-> path, temp |-> temp, version |-> archive']}

(* Mutant: a file is copied out again each time.                           *)
CopyFileOutAgain(path) ==
  IF Usable /\ Packed(archive', header, path) # {}
  THEN /\ nextTemp < MaxCopies + 1
       /\ nextTemp' = nextTemp + 1
       /\ copies' = {c \in copies : c.path # path} \cup {[path |-> path, temp |-> nextTemp]}
       /\ temps' = {t \in temps : [path |-> path, temp |-> t.temp] \notin copies}
                     \cup {[temp |-> nextTemp, content |-> c] : c \in Packed(archive', header, path)}
       /\ Hand(path, nextTemp)
  ELSE NoCopy

(* Archive::CopyFileOut.  external_files_ owns the temporary files.        *)
CopyFileOut(path) ==
  LET cached == {c \in copies : c.path = path} IN
  IF Usable /\ cached # {}
  THEN /\ \E c \in cached : Hand(path, c.temp)
       /\ UNCHANGED <<copies, temps, nextTemp>>
  ELSE IF Usable /\ Packed(archive', header, path) # {}
  THEN /\ nextTemp < MaxCopies
       /\ nextTemp' = nextTemp + 1
       /\ copies' = copies \cup {[path |-> path, temp |-> nextTemp]}
       /\ temps' = temps \cup {[temp |-> nextTemp, content |-> c] : c \in Packed(archive', header, path)}
       /\ Hand(path, nextTemp)
  ELSE NoCopy

(* fs.open and the other functions that are given the path of a copy.      *)
OpenFile(path) ==
  /\ GetOrCreateArchive
  /\ CopyFileOut(path)
  /\ Answer("open", path,
       {t.content : t \in {u \in temps' : [path |-> path, temp |-> u.temp] \in copies'}}
         \cup Unpacked(disk, header, path))

(* ScopedTemporaryFile::InitFromFile returns false: the temporary file is  *)
(* deleted, nothing is cached, and the script gets ENOENT.                 *)
OpenFileWithoutCopy(path) ==
  /\ GetOrCreateArchive
  /\ Usable /\ Packed(archive', header, path) # {}
  /\ \A c \in copies : c.path # path
  /\ NoCopy
  /\ Answer("notCopied", path, {})

(* Another version of the archive, with the same entries, is put in the    *)
(* place of the one on disk, and its unpacked files beside it.             *)
Install ==
  /\ disk < MaxVersion
  /\ disk' = disk + 1
  /\ UNCHANGED <<header, archive, destroyed, exiting, answer>>
  /\ NoCopy

(* 'exit': the archive goes away with its temporary files.                 *)
Exit ==
  /\ ~exiting
  /\ exiting' = TRUE
  /\ destroyed' = (archive # 0)
  /\ copies' = {} /\ temps' = {} /\ handed' = {}
  /\ UNCHANGED <<header, disk, archive, nextTemp, answer>>

FsNext ==
  \/ \E path \in Paths :
       \/ ReadFile(path) \/ LstatFile(path) \/ StatFile(path) \/ ReadDirectory(path)
       \/ RealpathOf(path) \/ OpenFile(path) \/ OpenFileWithoutCopy(path)
  \/ Install \/ Exit

FsSpec == FsInit /\ [][FsNext]_fsVars

-----------------------------------------------------------------------------
FsTypeOK ==
  /\ header \in Archives /\ disk \in 0..MaxVersion /\ archive \in 0..disk
  /\ destroyed \in BOOLEAN /\ exiting \in BOOLEAN /\ nextTemp \in 0..MaxCopies
  /\ \A c \in copies : c.path \in Paths /\ c.temp \in 0..MaxCopies
  /\ \A t \in temps : t.temp \in 0..MaxCopies
  /\ Cardinality(answer.value) <= 1

(* The same archive as a directory: a path is rewritten at its first link  *)
(* until none is left.                                                     *)
IsLink(root, path) == path \in DOMAIN root /\ root[path].kind = "link"

Links(root, path) == {k \in 1..Len(path) : IsLink(root, SubSeq(path, 1, k))}

Follow(root, path) ==
  LET first == CHOOSE k \in Links(root, path) : \A l \in Links(root, path) : k <= l
  IN IF Links(root, path) = {} THEN path
     ELSE root[SubSeq(path, 1, first)].to \o SubSeq(path, first + 1, Len(path))

Rewritten(root, path) ==
  LET after[n \in 0..Len(path)] == IF n = 0 THEN path ELSE Follow(root, after[n - 1])
  IN after

RealPath(root, path) == Rewritten(root, path)[Len(path)]

(* Where the entry itself is: links on the way are followed, it is not.    *)
Entry(root, path) ==
  IF path = <<>> THEN path ELSE Append(RealPath(root, Front(path)), Last(path))

NodesAt(root, place, kinds) == {p \in {place} \cap DOMAIN root : root[p].kind \in kinds}

KindsAt(root, place) ==
  {IF root[p].kind = "unpacked" THEN "file" ELSE root[p].kind : p \in NodesAt(root, place, Kinds)}

InDirectory(root, call, path, packed, beside) ==
  LET real == RealPath(root, path) IN
  CASE call = "lstat" -> KindsAt(root, Entry(root, path))
    [] call = "stat" -> KindsAt(root, real)
    [] call = "readdir" ->
         {{name \in Names : Append(p, name) \in DOMAIN root} : p \in NodesAt(root, real, {"dir"})}
    [] call = "realpath" -> NodesAt(root, real, Kinds)
    [] OTHER ->
         {<<packed, p>> : p \in NodesAt(root, real, {"file"})}
           \cup {<<beside, p>> : p \in NodesAt(root, real, {"unpacked"})}

(* What the code answers differently, and no more.                         *)

(* fs.stat of a link tells of the link, not of what it leads to.           *)
StatOfLink(root, call, path) ==
  call = "stat" /\ IsLink(root, Entry(root, path))

(* The path of an entry that is no link is returned as it was asked for,   *)
(* with the links before the entry.  A link is resolved wherever it is.    *)
RealpathThroughLink(root, call, path) ==
  /\ call = "realpath" /\ Entry(root, path) # path
  /\ NodesAt(root, Entry(root, path), Kinds \ {"link"}) # {}

(* An unpacked file is looked up under the path that was asked for, and    *)
(* beside the archive there is none if that path goes through a link.      *)
UnpackedThroughLink(root, call, path) ==
  /\ call \in {"read", "open"} /\ RealPath(root, path) # path
  /\ NodesAt(root, RealPath(root, path), {"unpacked"}) # {}

Differs(root, call, path) ==
  \/ StatOfLink(root, call, path)
  \/ RealpathThroughLink(root, call, path)
  \/ UnpackedThroughLink(root, call, path)

(* A call on an archive that is there returns what it would for a          *)
(* directory with the same files and links, except in the three cases of   *)
(* Differs, and in all of these it does not.  A file in the archive has    *)
(* the bytes of the version that was opened first, whatever is installed   *)
(* meanwhile; a file that was left unpacked has those of the version on    *)
(* disk at the call, which may be a later one.  A copy that could not be   *)
(* made is not an answer.                                                  *)
LikeDirectory ==
  answer.call \notin {"none", "notCopied"} /\ archive # 0 /\ ~exiting /\ answer.at # 0
  => (answer.value = InDirectory(header, answer.call, answer.path, archive, answer.at)
        <=> ~Differs(header, answer.call, answer.path))

(* A temporary file that was given to a script, which may pass it to a     *)
(* child process or load it much later, stays until the process exits and  *)
(* holds the file it was made for.                                         *)
TempFilesKept ==
  ~exiting =>
    \A h \in handed : \E t \in temps :
      t.temp = h.temp /\ t.content = <<h.version, RealPath(header, h.path)>>
=============================================================================
