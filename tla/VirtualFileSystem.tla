-------------------------- MODULE VirtualFileSystem -------------------------
(***************************************************************************)
(* The per-user files of src/src/vfs/VirtualFileSystem.cpp.  files_ is a   *)
(* vector in the order of the file ids, which are unique, so it is a set   *)
(* of files here; time stamps are left out, and a name that                *)
(* isValidFileName rejects changes nothing.                                *)
(***************************************************************************)
EXTENDS Integers, Owners

CONSTANTS FileNames,   \* valid file names
          Contents,    \* what may be written to a file
          Empty,       \* the content of a file that was only touched
          MaxFileId    \* bound: no file is created past this id

ASSUME VfsAssumption == Empty \in Contents /\ MaxFileId \in Nat

VARIABLES files,        \* files_
          nextFileId    \* nextFileId_

vfsVars == <<files, nextFileId>>

VirtualFile == [fileId : Nat, owner : Users, name : FileNames, content : Contents]

(* findFileIndex: the file that owner + name denote, if any.               *)
Found(owner, name) == {f \in files : f.owner = owner /\ f.name = name}

VfsInit ==
    /\ files = {}
    /\ nextFileId = 1

newFile(owner, name, content) ==
    /\ Found(owner, name) = {}
    /\ nextFileId <= MaxFileId
    /\ files' = files \cup {[fileId |-> nextFileId, owner |-> owner,
                             name |-> name, content |-> content]}
    /\ nextFileId' = nextFileId + 1

createFile(owner, name) == newFile(owner, name, Empty)

(* The file is overwritten, or created if there is none.                   *)
writeFile(owner, name, content) ==
    \/ \E f \in Found(owner, name) :
          /\ files' = (files \ {f}) \cup {[f EXCEPT !.content = content]}
          /\ UNCHANGED nextFileId
    \/ newFile(owner, name, content)

deleteFile(owner, name) ==
    /\ \E f \in Found(owner, name) : files' = files \ {f}
    /\ UNCHANGED nextFileId

(* Mutant of importVfs: the ids start again.                               *)
importFilesOnly(F, next) ==
    /\ files' = F
    /\ nextFileId' = 1

importVfs(F, next) ==
    /\ files' = F
    /\ nextFileId' = IF next < 1 THEN 1 ELSE next

-----------------------------------------------------------------------------
(* Files are well typed and ids start at 1.                                *)
VfsTypeOK ==
    /\ files \subseteq VirtualFile
    /\ nextFileId \in Nat \ {0}

(* owner + name denotes at most one file, and so does an id: the next id   *)
(* is above all ids in use, also after a load.                             *)
FilesUnique ==
    /\ \A f, g \in files :
          (f.owner = g.owner /\ f.name = g.name) \/ f.fileId = g.fileId => f = g
    /\ \A f \in files : f.fileId < nextFileId
=============================================================================
