--------------------------------- MODULE Fs ---------------------------------
(***************************************************************************)
(* Inodes, directories and the system calls on names: iget, ilock, iput,   *)
(* namex, dirlookup, dirlink, ialloc (fs.c), create, open, link, unlink,   *)
(* mkdir, mknod, chdir and close (sysfile.c), run by several processes.    *)
(*                                                                         *)
(* A step is what a call does while it holds an inode's sleep lock, from   *)
(* ilock to iunlock; taking a second lock inside, and iput, are steps of   *)
(* their own.  The transaction around each call (log.c) does not exclude   *)
(* other calls, so they interleave freely.  The log commits when no call is*)
(* under way: what the disk holds after a crash is a state with all        *)
(* processes idle (module Log).                                            *)
(*                                                                         *)
(* A directory is a function from names to inode numbers, its "." and ".." *)
(* included; file content is module FileData.  The inode cache is as large *)
(* as the set of inodes.                                                   *)
(***************************************************************************)
EXTENDS Naturals, FiniteSets, Sequences, Functions, TLC

CONSTANTS
  Proc,
  Inum,       \* inode numbers
  Root,       \* ROOTINO
  Workloads   \* records: calls, the system calls that each program makes; nofile, how many
              \* files it may have open (NOFILE); tree, the file system they find:
              \* inode number -> entries; others are free

NoOne == 0

VARIABLES
  dino, ent,        \* the disk: type and link count; the entries of a directory
  ino, valid, ref,  \* the inode cache
  lock,             \* who holds ip->lock
  s,                \* where each process is in its call, and its local variables; stray: it came
                    \* to its inode through ".." of a removed directory (not in the code)
  fd, cwd,          \* what each process has open; its current directory
  load              \* the workload of this behaviour

fsvars == <<dino, ent, ino, valid, ref, lock, s, fd, cwd>>
vars == <<fsvars, load>>

Idle == [pc |-> "idle", call |-> [op |-> "none"], todo |-> <<>>, par |-> FALSE, name |-> "",
         walk |-> 0, k |-> "", ip |-> 0, dp |-> 0, put |-> 0, ret |-> "", stray |-> FALSE]

Dot == {".", ".."}
SubDirs(t, i) == {d \in DOMAIN t \ {i} : ".." \in DOMAIN t[d] /\ t[d][".."] = i}
Names(t, i) == {<<d, n>> \in (DOMAIN t) \X (UNION {DOMAIN t[d] : d \in DOMAIN t}) :
                  n \in DOMAIN t[d] \ Dot /\ t[d][n] = i}

\* What mkfs writes: the root has one link for itself, every directory one more for
\* each ".." in it.
mkfs(t) ==
  LET type(i) == IF i \notin DOMAIN t THEN "free" ELSE IF "." \in DOMAIN t[i] THEN "dir" ELSE "file"
  IN
  /\ dino = [i \in Inum |-> [type |-> type(i),
                             nlink |-> Cardinality(Names(t, i)) + Cardinality(SubDirs(t, i))
                                       + (IF i = Root THEN 1 ELSE 0)]]
  /\ ent = [i \in Inum |-> IF i \in DOMAIN t THEN t[i] ELSE <<>>]

Init ==
  /\ load \in Workloads
  /\ mkfs(load.tree)
  /\ ino = [i \in Inum |-> [type |-> "free", nlink |-> 0]]
  /\ valid = [i \in Inum |-> FALSE]
  /\ ref = [i \in Inum |-> IF i = Root THEN Cardinality(Proc) ELSE 0]
  /\ lock = [i \in Inum |-> NoOne]
  /\ s = [p \in Proc |-> Idle]
  /\ fd = [p \in Proc |-> <<>>]
  /\ cwd = [p \in Proc |-> Root]

-----------------------------------------------------------------------------
(***************************************************************************)
(* Inode cache.                                                            *)
(***************************************************************************)
Set(p, r) == s' = [s EXCEPT ![p] = r @@ @]
At(p, l) == s[p].pc = l

\* ilock: what the cache entry holds once it is read.
ilock(i) == IF valid[i] THEN ino[i] ELSE dino[i]
Lockable(i) == lock[i] = NoOne /\ ilock(i).type # "free"
\* Cache and disk with node x at i: the caller holds the lock and has called iupdate.
Store(i, x) == /\ ino' = [ino EXCEPT ![i] = x] /\ dino' = [dino EXCEPT ![i] = x]
               /\ valid' = [valid EXCEPT ![i] = TRUE]
\* Cache as ilock leaves it, disk as it was.
Load(i) == /\ ino' = [ino EXCEPT ![i] = ilock(i)]
           /\ valid' = [valid EXCEPT ![i] = TRUE]
           /\ UNCHANGED dino

\* iput(x), then on at l: take the lock and look, free the inode, drop the reference.
IPut(x, l) == [pc |-> "iput", put |-> x, ret |-> l]
iput_lookup_free(p) ==
  /\ At(p, "iput") /\ lock[s[p].put] = NoOne
  /\ LET x == s[p].put IN
     IF valid[x] /\ ino[x].nlink = 0
       THEN lock' = [lock EXCEPT ![x] = p] /\ Set(p, [pc |-> "ifree"])
       ELSE Set(p, [pc |-> "idrop"]) /\ UNCHANGED lock
  /\ UNCHANGED <<dino, ent, ino, valid, ref, fd, cwd>>
iput(p) ==
  /\ At(p, "iput") /\ lock[s[p].put] = NoOne
  /\ LET x == s[p].put IN
     IF valid[x] /\ ino[x].nlink = 0 /\ ref[x] = 1
       THEN lock' = [lock EXCEPT ![x] = p] /\ Set(p, [pc |-> "ifree"])
       ELSE Set(p, [pc |-> "idrop"]) /\ UNCHANGED lock
  /\ UNCHANGED <<dino, ent, ino, valid, ref, fd, cwd>>
ifree_keeps_valid(p) ==
  /\ At(p, "ifree")
  /\ LET x == s[p].put IN
       /\ dino' = [dino EXCEPT ![x] = [@ EXCEPT !.type = "free"]]
       /\ ent' = [ent EXCEPT ![x] = <<>>]
       /\ lock' = [lock EXCEPT ![x] = NoOne]
  /\ Set(p, [pc |-> "idrop"])
  /\ UNCHANGED <<ino, valid, ref, fd, cwd>>
ifree(p) ==
  /\ At(p, "ifree")
  /\ LET x == s[p].put IN
       /\ dino' = [dino EXCEPT ![x] = [@ EXCEPT !.type = "free"]]
       /\ ino' = [ino EXCEPT ![x] = [@ EXCEPT !.type = "free"]]
       /\ valid' = [valid EXCEPT ![x] = FALSE]
       /\ ent' = [ent EXCEPT ![x] = <<>>]
       /\ lock' = [lock EXCEPT ![x] = NoOne]
  /\ Set(p, [pc |-> "idrop"])
  /\ UNCHANGED <<ref, fd, cwd>>
idrop(p) ==
  /\ At(p, "idrop")
  /\ ref' = [ref EXCEPT ![s[p].put] = @ - 1]
  /\ Set(p, [pc |-> s[p].ret, put |-> 0])
  /\ UNCHANGED <<dino, ent, ino, valid, lock, fd, cwd>>

\* iget(j) next to the cache entry of i being loaded: a reference, and an entry that
\* nobody referred to is read anew.
Get(j) == ref' = [ref EXCEPT ![j] = @ + 1]
LoadGet(i, j) ==
  /\ ino' = [ino EXCEPT ![i] = ilock(i)]
  /\ valid' = [valid EXCEPT ![i] = TRUE, ![j] = IF j = i THEN TRUE ELSE @ /\ ref[j] > 0]
  /\ Get(j)
  /\ UNCHANGED dino

-----------------------------------------------------------------------------
(***************************************************************************)
(* Paths.  namex(path, par) sets walk and goes on at k with the result in  *)
(* walk (0: none) and, for nameiparent, the last element in name.          *)
(***************************************************************************)
Namex(path, par, k) ==
  [pc |-> "namex", par |-> par, k |-> k, todo |-> path]

\* The start of the walk: "/" or the current directory.
namex(p) ==
  /\ At(p, "namex")
  /\ LET abs == Head(s[p].todo) = "/"
         i == IF abs THEN Root ELSE cwd[p]
     IN  /\ ref' = [ref EXCEPT ![i] = @ + 1]
         /\ valid' = [valid EXCEPT ![i] = @ /\ ref[i] > 0]
         /\ Set(p, [pc |-> "walk", walk |-> i, stray |-> FALSE, todo |-> IF abs THEN Tail(s[p].todo) ELSE s[p].todo])
  /\ UNCHANGED <<dino, ent, ino, lock, fd, cwd>>

\* Through ".." of a directory that was removed: nothing keeps the parent.
Stray(i, n) == n = ".." /\ ilock(i).nlink = 0

\* One turn of namex's loop: ilock to iunlock.
Walk(p) ==
  /\ At(p, "walk") /\ s[p].todo # <<>>
  /\ Lockable(s[p].walk)
  /\ LET i == s[p].walk
         n == Head(s[p].todo)
     IN CASE ilock(i).type # "dir" ->
               Load(i) /\ Set(p, IPut(i, s[p].k) @@ [walk |-> 0]) /\ UNCHANGED ref
          [] ilock(i).type = "dir" /\ s[p].par /\ Len(s[p].todo) = 1 ->
               Load(i) /\ Set(p, [pc |-> s[p].k, name |-> n, todo |-> <<>>]) /\ UNCHANGED ref
          [] ilock(i).type = "dir" /\ ~(s[p].par /\ Len(s[p].todo) = 1) /\ n \notin DOMAIN ent[i] ->
               Load(i) /\ Set(p, IPut(i, s[p].k) @@ [walk |-> 0]) /\ UNCHANGED ref
          [] OTHER ->
               /\ LoadGet(i, ent[i][n])
               /\ Set(p, IPut(i, "walk") @@ [walk |-> ent[i][n], todo |-> Tail(s[p].todo),
                                            stray |-> Stray(i, n)])
  /\ UNCHANGED <<ent, lock, fd, cwd>>

\* The path is used up: nameiparent("/") has no parent to return.
Arrive(p) ==
  /\ At(p, "walk") /\ s[p].todo = <<>>
  /\ IF s[p].par THEN Set(p, IPut(s[p].walk, s[p].k) @@ [walk |-> 0])
                 ELSE Set(p, [pc |-> s[p].k])
  /\ UNCHANGED <<dino, ent, ino, valid, ref, lock, fd, cwd>>

-----------------------------------------------------------------------------
(***************************************************************************)
(* create: the new or found inode is returned locked, in ip.               *)
(***************************************************************************)
Kind(p) == CASE s[p].call.op = "mkdir" -> "dir"
             [] s[p].call.op = "mknod" -> "dev"
             [] OTHER -> "file"

\* ilock(dp), dirlookup.
create(p) ==
  /\ At(p, "create")
  /\ IF s[p].walk = 0 THEN Set(p, [pc |-> "end"]) /\ UNCHANGED <<dino, ino, valid, ref, lock>>
     ELSE LET d == s[p].walk IN
       /\ Lockable(d)
       /\ IF s[p].name \in DOMAIN ent[d]
            THEN /\ LoadGet(d, ent[d][s[p].name])
                 /\ Set(p, IPut(d, "c_found") @@ [ip |-> ent[d][s[p].name], stray |-> Stray(d, s[p].name)])
                 /\ UNCHANGED lock
            ELSE /\ Load(d) /\ lock' = [lock EXCEPT ![d] = p]
                 /\ Set(p, [pc |-> "ialloc", dp |-> d])
                 /\ UNCHANGED ref
  /\ UNCHANGED <<ent, fd, cwd>>

\* The name exists: fine for open(O_CREATE) of a file, an error otherwise.
Found(p) ==
  /\ At(p, "c_found") /\ Lockable(s[p].ip)
  /\ Load(s[p].ip)
  /\ IF Kind(p) = "file" /\ ilock(s[p].ip).type = "file"
       THEN Set(p, [pc |-> "o_fd"]) /\ lock' = [lock EXCEPT ![s[p].ip] = p]
       ELSE Set(p, IPut(s[p].ip, "end")) /\ UNCHANGED lock
  /\ UNCHANGED <<ent, ref, fd, cwd>>

\* ialloc: an inode that is free on the disk; others free and take inodes while the scan
\* goes on, so it may be any.
ialloc(p) ==
  /\ At(p, "ialloc")
  /\ \E i \in Inum :
       /\ dino[i].type = "free"
       /\ dino' = [dino EXCEPT ![i] = [type |-> Kind(p), nlink |-> 0]]
       /\ Get(i)
       /\ valid' = [valid EXCEPT ![i] = @ /\ ref[i] > 0]
       /\ Set(p, [pc |-> "c_init", ip |-> i])
  /\ UNCHANGED <<ent, ino, lock, fd, cwd>>

\* ilock(ip) with dp locked: the fields, "." and "..", the name; then dp is let go.
InitNode(p) ==
  /\ At(p, "c_init") /\ lock[s[p].ip] = NoOne
  /\ LET i == s[p].ip
         d == s[p].dp
         x == [ilock(i) EXCEPT !.nlink = 1]
         y == IF Kind(p) = "dir" THEN [ino[d] EXCEPT !.nlink = @ + 1] ELSE ino[d]
     IN  /\ ino' = [ino EXCEPT ![i] = x, ![d] = y]
         /\ dino' = [dino EXCEPT ![i] = x, ![d] = y]
         /\ valid' = [valid EXCEPT ![i] = TRUE]
         /\ ent' = [ent EXCEPT ![i] = IF Kind(p) = "dir" THEN [n \in Dot |-> IF n = "." THEN i ELSE d]
                                                         ELSE <<>>,
                               ![d] = (s[p].name :> i) @@ @]
         /\ lock' = [lock EXCEPT ![i] = p, ![d] = NoOne]
         /\ Set(p, IPut(d, IF Kind(p) = "file" THEN "o_fd" ELSE "m_put"))
  /\ UNCHANGED <<ref, fd, cwd>>

\* mkdir and mknod: iunlockput(ip).
mkdir(p) ==
  /\ At(p, "m_put")
  /\ lock' = [lock EXCEPT ![s[p].ip] = NoOne]
  /\ Set(p, IPut(s[p].ip, "end"))
  /\ UNCHANGED <<dino, ent, ino, valid, ref, fd, cwd>>

-----------------------------------------------------------------------------
(***************************************************************************)
(* open, close, chdir.                                                     *)
(***************************************************************************)
\* open without O_CREATE: ilock(ip); a directory is opened for reading only.
open(p) ==
  /\ At(p, "o_lock")
  /\ IF s[p].walk = 0 THEN Set(p, [pc |-> "end"]) /\ UNCHANGED <<dino, ino, valid, lock>>
     ELSE /\ Lockable(s[p].walk) /\ Load(s[p].walk)
          /\ IF ilock(s[p].walk).type = "dir" /\ s[p].call.op = "openw"
               THEN Set(p, IPut(s[p].walk, "end")) /\ UNCHANGED lock
               ELSE /\ Set(p, [pc |-> "o_fd", ip |-> s[p].walk])
                    /\ lock' = [lock EXCEPT ![s[p].walk] = p]
  /\ UNCHANGED <<ent, ref, fd, cwd>>

\* filealloc and fdalloc, or no descriptor is left; iunlock.  The file keeps the reference.
fdalloc(p) ==
  /\ At(p, "o_fd")
  /\ lock' = [lock EXCEPT ![s[p].ip] = NoOne]
  /\ IF Len(fd[p]) < load.nofile
       THEN fd' = [fd EXCEPT ![p] = Append(@, s[p].ip)] /\ Set(p, [pc |-> "end"])
       ELSE Set(p, IPut(s[p].ip, "end")) /\ UNCHANGED fd
  /\ UNCHANGED <<dino, ent, ino, valid, ref, cwd>>

close(p) ==
  /\ At(p, "idle") /\ fd[p] # <<>>
  /\ fd' = [fd EXCEPT ![p] = Tail(@)]
  /\ Set(p, IPut(Head(fd[p]), "end"))
  /\ UNCHANGED <<dino, ent, ino, valid, ref, lock, cwd>>

\* ilock, the type, iunlock; iput(cwd) before cwd is replaced.
chdir(p) ==
  /\ At(p, "h_lock")
  /\ IF s[p].walk = 0 THEN Set(p, [pc |-> "end"]) /\ UNCHANGED <<dino, ino, valid>>
     ELSE /\ Lockable(s[p].walk) /\ Load(s[p].walk)
          /\ IF ilock(s[p].walk).type # "dir"
               THEN Set(p, IPut(s[p].walk, "end"))
               ELSE Set(p, IPut(cwd[p], "h_set"))
  /\ UNCHANGED <<ent, ref, lock, fd, cwd>>
SetCwd(p) ==
  /\ At(p, "h_set")
  /\ cwd' = [cwd EXCEPT ![p] = s[p].walk]
  /\ Set(p, [pc |-> "end"])
  /\ UNCHANGED <<dino, ent, ino, valid, ref, lock, fd>>

-----------------------------------------------------------------------------
(***************************************************************************)
(* link.                                                                   *)
(***************************************************************************)
\* ilock(ip), count the new link, iunlock; on to the parent of the new name.
link(p) ==
  /\ At(p, "l_lock")
  /\ IF s[p].walk = 0 THEN Set(p, [pc |-> "end"]) /\ UNCHANGED <<dino, ino, valid>>
     ELSE LET i == s[p].walk IN
       /\ Lockable(i)
       /\ IF ilock(i).type = "dir"
            THEN Load(i) /\ Set(p, IPut(i, "end"))
            ELSE /\ Store(i, [ilock(i) EXCEPT !.nlink = @ + 1])
                 /\ Set(p, Namex(s[p].call.new, TRUE, "l_dir") @@ [ip |-> i])
  /\ UNCHANGED <<ent, ref, lock, fd, cwd>>

\* ilock(dp), dirlink: if the name exists, its inode is put while dp is locked.
LinkName(p) ==
  /\ At(p, "l_dir")
  /\ IF s[p].walk = 0
       THEN Set(p, [pc |-> "l_bad"]) /\ UNCHANGED <<dino, ent, ino, valid, ref, lock>>
       ELSE LET d == s[p].walk
                n == s[p].name
            IN  /\ Lockable(d)
                /\ IF n \in DOMAIN ent[d]
                     THEN /\ LoadGet(d, ent[d][n])
                          /\ lock' = [lock EXCEPT ![d] = p]
                          /\ Set(p, IPut(ent[d][n], "l_exists"))
                          /\ UNCHANGED ent
                     ELSE /\ Load(d)
                          /\ ent' = [ent EXCEPT ![d] = (n :> s[p].ip) @@ @]
                          /\ Set(p, IPut(d, "l_put"))
                          /\ UNCHANGED <<ref, lock>>
  /\ UNCHANGED <<fd, cwd>>
LinkExists(p) ==
  /\ At(p, "l_exists")
  /\ lock' = [lock EXCEPT ![s[p].walk] = NoOne]
  /\ Set(p, IPut(s[p].walk, "l_bad"))
  /\ UNCHANGED <<dino, ent, ino, valid, ref, fd, cwd>>
LinkPut(p) ==
  /\ At(p, "l_put")
  /\ Set(p, IPut(s[p].ip, "end"))
  /\ UNCHANGED <<dino, ent, ino, valid, ref, lock, fd, cwd>>

\* bad: take the link back.
LinkBad_keeps(p) ==
  /\ At(p, "l_bad") /\ Lockable(s[p].ip)
  /\ Load(s[p].ip)
  /\ Set(p, IPut(s[p].ip, "end"))
  /\ UNCHANGED <<ent, ref, lock, fd, cwd>>
LinkBad(p) ==
  /\ At(p, "l_bad") /\ Lockable(s[p].ip)
  /\ Store(s[p].ip, [ilock(s[p].ip) EXCEPT !.nlink = @ - 1])
  /\ Set(p, IPut(s[p].ip, "end"))
  /\ UNCHANGED <<ent, ref, lock, fd, cwd>>

-----------------------------------------------------------------------------
(***************************************************************************)
(* unlink.                                                                 *)
(***************************************************************************)
unlink(p) ==
  /\ At(p, "u_lock")
  /\ IF s[p].walk = 0 THEN Set(p, [pc |-> "end"]) /\ UNCHANGED <<dino, ino, valid, ref, lock>>
     ELSE LET d == s[p].walk
              n == s[p].name
          IN /\ Lockable(d)
             /\ IF n \in Dot \/ n \notin DOMAIN ent[d]
                  THEN Load(d) /\ Set(p, IPut(d, "end")) /\ UNCHANGED <<ref, lock>>
                  ELSE /\ LoadGet(d, ent[d][n])
                       /\ lock' = [lock EXCEPT ![d] = p]
                       /\ Set(p, [pc |-> "u_child", dp |-> d, ip |-> ent[d][n]])
  /\ UNCHANGED <<ent, fd, cwd>>

isdirempty(i) == DOMAIN ent[i] \subseteq Dot

\* ilock(ip) with dp locked: a directory must be empty; erase the name, let dp go.
UnlinkName_keeps(p) ==
  /\ At(p, "u_child") /\ Lockable(s[p].ip)
  /\ LET i == s[p].ip
         d == s[p].dp
         x == ilock(i)
         y == IF x.type = "dir" THEN [ino[d] EXCEPT !.nlink = @ - 1] ELSE ino[d]
     IN /\ x.type = "dir" => isdirempty(i)
        /\ ino' = [ino EXCEPT ![i] = x, ![d] = y]
        /\ dino' = [dino EXCEPT ![d] = y]
        /\ valid' = [valid EXCEPT ![i] = TRUE]
        /\ lock' = [lock EXCEPT ![i] = p, ![d] = NoOne]
        /\ Set(p, IPut(d, "u_last"))
  /\ UNCHANGED <<ent, ref, fd, cwd>>
UnlinkName(p) ==
  /\ At(p, "u_child") /\ Lockable(s[p].ip)
  /\ LET i == s[p].ip
         d == s[p].dp
         x == ilock(i)
         y == IF x.type = "dir" THEN [ino[d] EXCEPT !.nlink = @ - 1] ELSE ino[d]
     IN IF x.type = "dir" /\ ~isdirempty(i)
          THEN Load(i) /\ Set(p, IPut(i, "u_bad")) /\ UNCHANGED <<ent, lock>>
          ELSE /\ ent' = [ent EXCEPT ![d] = Restrict(@, DOMAIN @ \ {s[p].name})]
               /\ ino' = [ino EXCEPT ![i] = x, ![d] = y]
               /\ dino' = [dino EXCEPT ![d] = y]
               /\ valid' = [valid EXCEPT ![i] = TRUE]
               /\ lock' = [lock EXCEPT ![i] = p, ![d] = NoOne]
               /\ Set(p, IPut(d, "u_last"))
  /\ UNCHANGED <<ref, fd, cwd>>
UnlinkBad(p) ==
  /\ At(p, "u_bad")
  /\ lock' = [lock EXCEPT ![s[p].dp] = NoOne]
  /\ Set(p, IPut(s[p].dp, "end"))
  /\ UNCHANGED <<dino, ent, ino, valid, ref, fd, cwd>>
UnlinkLast(p) ==
  /\ At(p, "u_last")
  /\ Store(s[p].ip, [ino[s[p].ip] EXCEPT !.nlink = @ - 1])
  /\ lock' = [lock EXCEPT ![s[p].ip] = NoOne]
  /\ Set(p, IPut(s[p].ip, "end"))
  /\ UNCHANGED <<ent, ref, fd, cwd>>

-----------------------------------------------------------------------------
\* A program makes a system call; end_op ends it.
Call(p) ==
  /\ At(p, "idle")
  /\ \E c \in load.calls[p] :
       Set(p, [call |-> c] @@
              CASE c.op \in {"open", "openw"} -> Namex(c.path, FALSE, "o_lock")
                [] c.op \in {"creat", "mkdir", "mknod"} -> Namex(c.path, TRUE, "create")
                [] c.op = "chdir" -> Namex(c.path, FALSE, "h_lock")
                [] c.op = "link" -> Namex(c.path, FALSE, "l_lock")
                [] c.op = "unlink" -> Namex(c.path, TRUE, "u_lock"))
  /\ UNCHANGED <<dino, ent, ino, valid, ref, lock, fd, cwd>>
End(p) ==
  /\ At(p, "end")
  /\ s' = [s EXCEPT ![p] = Idle]
  /\ UNCHANGED <<dino, ent, ino, valid, ref, lock, fd, cwd>>

Step(p) ==
  \/ iput(p) \/ ifree(p) \/ idrop(p) \/ namex(p) \/ Walk(p) \/ Arrive(p) \/ End(p)
  \/ create(p) \/ Found(p) \/ ialloc(p) \/ InitNode(p) \/ mkdir(p)
  \/ open(p) \/ fdalloc(p) \/ chdir(p) \/ SetCwd(p)
  \/ link(p) \/ LinkName(p) \/ LinkExists(p) \/ LinkPut(p) \/ LinkBad(p)
  \/ unlink(p) \/ UnlinkName(p) \/ UnlinkBad(p) \/ UnlinkLast(p)

Next == (\E p \in Proc : Call(p) \/ close(p) \/ Step(p)) /\ UNCHANGED load

Spec == Init /\ [][Next]_vars

-----------------------------------------------------------------------------
(***************************************************************************)
(* Properties.                                                             *)
(***************************************************************************)
Node == [type : {"free", "dir", "file", "dev"}, nlink : Nat]
\* Every field has its type.
TypeOK ==
  /\ dino \in [Inum -> Node] /\ ino \in [Inum -> Node]
  /\ valid \in [Inum -> BOOLEAN] /\ ref \in [Inum -> Nat]
  /\ lock \in [Inum -> Proc \cup {NoOne}]
  /\ cwd \in [Proc -> Inum]
  /\ \A i \in Inum : \A n \in DOMAIN ent[i] : ent[i][n] \in Inum

AllIdle == \A p \in Proc : At(p, "idle")

\* fs.c: "ip->ref tracks the number of in-memory pointers to the entry (open files and
\* current directories)"; no call leaks or drops one.
RefCounts ==
  AllIdle => \A i \in Inum :
               ref[i] = Cardinality({p \in Proc : cwd[p] = i})
                        + Cardinality({<<p, k>> \in Proc \X (1..load.nofile) :
                                         k \in DOMAIN fd[p] /\ fd[p][k] = i})

\* The cache is write-through: a valid entry is what the disk has.
WriteThrough == \A i \in Inum : valid[i] => ino[i] = dino[i]

\* An inode that a process refers to is not free: it is never freed under an open file, a
\* current directory or a call that is about to lock it.  Stray processes are left to
\* IlockHasType.
NoUseAfterFree ==
  \A p \in Proc : /\ s[p].call.op # "chdir" => dino[cwd[p]].type # "free"
                  /\ \A k \in DOMAIN fd[p] : dino[fd[p][k]].type # "free"
                  /\ s[p].pc \in {"c_found", "o_fd", "l_dir", "l_bad", "u_child", "u_last"} /\ ~s[p].stray
                       => dino[s[p].ip].type # "free"

Dirs == {d \in Inum : dino[d].type = "dir"}
LiveDirs == {d \in Dirs : d = Root \/ \E e \in Dirs : \E n \in DOMAIN ent[e] \ Dot : ent[e][n] = d}
LiveTree == [d \in LiveDirs |-> ent[d]]
Links(i) == Cardinality(Names(LiveTree, i)) + Cardinality(SubDirs(LiveTree, i))
            + (IF i = Root THEN 1 ELSE 0)

\* A name in a directory that itself has a name leads to an inode that is allocated, at
\* all times; and what a crash leaves counts at least the names there are.
NoDangling ==
  /\ \A d \in LiveDirs : \A n \in DOMAIN ent[d] : dino[ent[d][n]].type # "free"
  /\ AllIdle => \A i \in Inum : dino[i].nlink >= Links(i)

\* fs.c: an inode on disk has "the number of links referring to it".  In the states that
\* a commit writes, link counts are exact as long as no directory is removed: create may
\* put a name into a directory that was removed since it was looked up.
RemovesDirs == \E p \in Proc : \E c \in load.calls[p] : c.op = "unlink" /\ c.path = <<"/", "d">>
LinkCounts == AllIdle /\ ~RemovesDirs => \A i \in Inum : dino[i].type # "free" => dino[i].nlink = Links(i)

\* unlink finds the count of a name's inode to be at least one (its panic).
UnlinkCounts == \A p \in Proc : At(p, "u_child") /\ Lockable(s[p].ip) => ilock(s[p].ip).nlink > 0

\* The two counts of an inode: of names on the disk, of pointers in memory.
Counts == RefCounts /\ LinkCounts

\* The inode cache: types, agreement with the disk, and unlink's count.
CacheInv == TypeOK /\ WriteThrough /\ UnlinkCounts

\* The inode whose lock a process is about to take.
Target(p) == CASE At(p, "walk") /\ s[p].todo # <<>> -> s[p].walk
               [] s[p].pc \in {"create", "o_lock", "h_lock", "l_lock", "l_dir", "u_lock"} -> s[p].walk
               [] s[p].pc \in {"c_found", "l_bad", "u_child", "c_init"} -> s[p].ip
               [] At(p, "iput") -> s[p].put
               [] OTHER -> 0
\* The check in ilock, panic("ilock: no type"): an inode that is locked is allocated, unless
\* the process came to it through ".." of a directory that was removed.  That parent may be
\* removed and freed in turn while the directory is somebody's current one, and then
\* chdir("..") does panic.
IlockHasType == \A p \in Proc : Target(p) # 0 /\ ~At(p, "iput") /\ lock[Target(p)] = NoOne
                                => ilock(Target(p)).type # "free" \/ s[p].stray

\* fs.c says of iget and ilock that "the separation also helps avoid deadlock": no process
\* waits for a lock of its own or for one whose holder waits for it.
NoWaitCycle ==
  \A p, q \in Proc : ~ /\ Target(p) # 0 /\ lock[Target(p)] = q
                       /\ p = q \/ (Target(q) # 0 /\ lock[Target(q)] = p)
=============================================================================
