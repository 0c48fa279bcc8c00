--------------------------------- MODULE Cwd ---------------------------------
(***************************************************************************)
(* The shell's working directory (kernel/ui/shell.c): a path kept as text  *)
(* and a node kept beside it, over the directory tree as the path walk of  *)
(* kernel/fs/vfs.c sees it.                                                *)
(*                                                                         *)
(* A directory fits into one block here, so that its entries are the first *)
(* ones of the block and pafs_remove_entry, which puts the removed entry   *)
(* back with its last write, always drops the last one (NamesResolve of    *)
(* Pafs).  The inode of the removed name is freed all the same.  A node is *)
(* its inode: directory nodes carry nothing else that the shell uses.      *)
(* PAFS has no symbolic links, and no ext2 disk is mounted at /mnt.        *)
(***************************************************************************)
EXTENDS Integers, SequencesExt

CONSTANTS
  Inodes,  \* inode numbers; the first one is the root's
  Names,
  ENTRIES, \* entries of a directory
  DEPTH    \* bound on the components of shell_cwd_path

ASSUME CwdAssumption ==
  /\ 0 \in Inodes /\ Inodes \subseteq Nat
  /\ "." \notin Names
  /\ {ENTRIES, DEPTH} \subseteq Nat \ {0}

VARIABLES
  inodes,          \* type and entries
  shell_cwd_path,  \* its components
  shell_cwd_node,  \* its inode
  formatted        \* history: the disk was formatted since the last boot

cwdVars == <<inodes, shell_cwd_path, shell_cwd_node, formatted>>

Root == 0
FreeInode == [type |-> "free", entries |-> <<>>]
EmptyDisk == [i \in Inodes |-> IF i = Root THEN [type |-> "dir", entries |-> <<>>]
                               ELSE FreeInode]

CwdInit ==
  /\ inodes = EmptyDisk
  /\ shell_cwd_path = <<>> /\ shell_cwd_node = Root
  /\ formatted = FALSE

\* pafs_find_entry: the inode of the first entry with the name, -1 without one.
pafs_find_entry(dir, name) ==
  LET found == {k \in DOMAIN inodes[dir].entries : inodes[dir].entries[k].name = name}
  IN IF inodes[dir].type # "dir" \/ found = {} THEN -1
     ELSE inodes[dir].entries[Min(found)].inode

\* One component of vfs_get_node_by_path from the node before it; finddir asks
\* directories only.
Step(ino, name) ==
  IF ino = -1 \/ name = "." THEN ino
  ELSE IF inodes[ino].type = "dir" THEN pafs_find_entry(ino, name) ELSE -1

vfs_get_node_by_path(base, path) ==
  LET at[k \in 0 .. Len(path)] == IF k = 0 THEN base ELSE Step(at[k - 1], path[k])
  IN at[Len(path)]

IsDirectory(ino) == ino # -1 /\ inodes[ino].type = "dir"

-----------------------------------------------------------------------------
\* pafs_create and pafs_add_entry: the new inode has its type before pafs_add_entry looks
\* at the directory's.
Created(dir, name, type) ==
  LET free == {i \in Inodes : inodes[i].type = "free"}
      new == Min(free)
      typed == [inodes EXCEPT ![new] = [type |-> type, entries |-> <<>>]]
  IN IF \/ free = {} \/ pafs_find_entry(dir, name) # -1
        \/ typed[dir].type # "dir" \/ Len(typed[dir].entries) = ENTRIES
     THEN inodes
     ELSE [typed EXCEPT ![dir].entries = Append(@, [name |-> name, inode |-> new])]

\* touch and mkdir in the working directory.
pafs_create(name, type) ==
  /\ inodes' = Created(shell_cwd_node, name, type)
  /\ UNCHANGED <<shell_cwd_path, shell_cwd_node, formatted>>

MayDelete(ino) ==
  ino # -1 /\ (inodes[ino].type = "dir" => inodes[ino].entries = <<>>)

\* rm and rmdir in the working directory.
pafs_delete(name) ==
  LET ino == pafs_find_entry(shell_cwd_node, name) IN
  /\ inodes' = IF MayDelete(ino)
               THEN [inodes EXCEPT ![ino] = FreeInode,
                                   ![shell_cwd_node].entries = Front(@)]
               ELSE inodes
  /\ UNCHANGED <<shell_cwd_path, shell_cwd_node, formatted>>

\* Seeded mistake: cd with an absolute path appends it.
PathAfterAppends(absolute, path) == shell_cwd_path \o path

PathAfter(absolute, path) == IF absolute THEN path ELSE shell_cwd_path \o path

\* cd with a path: node and text change together, or neither does.
cd(absolute, path) ==
  LET node == vfs_get_node_by_path(IF absolute THEN Root ELSE shell_cwd_node, path) IN
  /\ IF IsDirectory(node)
       THEN /\ Len(PathAfter(absolute, path)) <= DEPTH
            /\ shell_cwd_node' = node
            /\ shell_cwd_path' = PathAfter(absolute, path)
       ELSE UNCHANGED <<shell_cwd_node, shell_cwd_path>>
  /\ UNCHANGED <<inodes, formatted>>

\* cd ..: the text loses its last component first; when the shorter path leads
\* nowhere the node stays behind.
cd_up ==
  /\ shell_cwd_path # <<>>
  /\ shell_cwd_path' = Front(shell_cwd_path)
  /\ LET node == vfs_get_node_by_path(Root, Front(shell_cwd_path)) IN
     shell_cwd_node' = IF node = -1 THEN shell_cwd_node ELSE node
  /\ UNCHANGED <<inodes, formatted>>

\* format: the working directory stays what it was.
pafs_format ==
  /\ inodes' = EmptyDisk
  /\ formatted' = TRUE
  /\ UNCHANGED <<shell_cwd_path, shell_cwd_node>>

\* reboot: pafs_init finds the disk as it was, init_shell starts in the root.
CwdBoot ==
  /\ shell_cwd_path' = <<>> /\ shell_cwd_node' = Root
  /\ formatted' = FALSE
  /\ UNCHANGED inodes

\* sys_open with O_CREAT, by a program.
sys_open_creat ==
  /\ \E name \in Names : inodes' = Created(Root, name, "file")
  /\ UNCHANGED <<shell_cwd_path, shell_cwd_node, formatted>>

\* What a line typed at the prompt may do to the tree or the working directory.
TreeCommand ==
  \/ \E name \in Names, type \in {"file", "dir"} : pafs_create(name, type)
  \/ \E name \in Names : pafs_delete(name)
  \/ \E absolute \in BOOLEAN, path \in {<<>>} \union {<<n>> : n \in Names \union {"."}} :
       cd(absolute, path)
  \/ cd_up
  \/ pafs_format

-----------------------------------------------------------------------------
\* The path the prompt shows leads to the directory in which mkdir, rm, ls and exec
\* work, and that directory exists, over any commands and any removal of entries,
\* until the disk is formatted: the shell holds on to a node that pafs_delete does not
\* know of, and edits text and node separately.
CwdResolves ==
  ~formatted =>
    /\ inodes[shell_cwd_node].type = "dir"
    /\ vfs_get_node_by_path(Root, shell_cwd_path) = shell_cwd_node
=============================================================================
