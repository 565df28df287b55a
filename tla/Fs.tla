--------------------------------- MODULE Fs ---------------------------------
(***************************************************************************)
(* Names and inodes: the inode table and the directories of kernel/fs.c,   *)
(* and the system calls of sysfile.c that make, find, link and remove      *)
(* names.  Several processes are in such calls at a time; what keeps them  *)
(* apart are the inodes' sleep locks and reference counts.                 *)
(*                                                                         *)
(* th[p].todo is the rest of p's call: calls of ilock, iunlock and iput    *)
(* that are to be made, and the labels of the code between them.  A step   *)
(* is one of these calls, or such code with the iunlock that ends it.      *)
(* A call is a transaction of the log: a crash leaves none of it, or all.  *)
(***************************************************************************)
EXTENDS Integers, Sequences, FiniteSets

CONSTANTS
  Proc,        \* process numbers, from 1
  NINODES,     \* bound: inodes on the disk, numbered from 1
  NINODE,      \* entries of the inode table
  Others,      \* bound: entries that are used by processes outside the model
  Name,        \* names other than "." and ".."
  Calls        \* bound: Calls[p], the system calls of p, with their arguments

Inum == 1..NINODES
ROOTINO == 1
Dots == {".", ".."}

ASSUME FsAssumption == Others < NINODE /\ {Others, NINODE} \subseteq Nat

VARIABLES
  dinode,   \* dinode[i]: type and nlink on the disk
  dir,      \* dir[i]: entries of a directory, 0 where there is none
  itable,   \* itable[i]: ref, valid, lock, and the copies of type and nlink
  cwd,      \* cwd[p]
  fd,       \* fd[p]: inode of the file p has open, 0 if it has none
  th,       \* th[p]: the call p is in
  panic,    \* <<>>, or what panic was called with and the name looked up last
  lost      \* history: lost[i], names of i gone with a directory

vars == <<dinode, dir, itable, cwd, fd, th, panic, lost>>

(* Inodes a call has references to: w where namex is, nx where it goes, dp *)
(* and ip as in the code, old the one it lets go of.                       *)
Ptr == {"w", "nx", "dp", "ip", "old"}
Out == [call |-> "none", path |-> <<>>, new |-> <<>>, todo |-> <<>>, name |-> ".",
        w |-> 0, nx |-> 0, dp |-> 0, ip |-> 0, old |-> 0]

NoEntries == [n \in Name \cup Dots |-> 0]
NotCached == [ref |-> 0, valid |-> FALSE, lock |-> 0, type |-> "free", nlink |-> 0]

(* What mkfs writes; every process is in the root directory. *)
Init ==
  /\ dinode = [i \in Inum |-> IF i = ROOTINO THEN [type |-> "dir", nlink |-> 1]
                              ELSE [type |-> "free", nlink |-> 0]]
  /\ dir = [i \in Inum |-> IF i = ROOTINO THEN [NoEntries EXCEPT !["."] = i, ![".."] = i]
                           ELSE NoEntries]
  /\ itable = [i \in Inum |-> IF i = ROOTINO THEN [NotCached EXCEPT !.ref = Cardinality(Proc)]
                              ELSE NotCached]
  /\ cwd = [p \in Proc |-> ROOTINO] /\ fd = [p \in Proc |-> 0]
  /\ th = [p \in Proc |-> Out]
  /\ panic = <<>> /\ lost = [i \in Inum |-> 0]

-----------------------------------------------------------------------------
(* The rest of a call.                                                     *)

Ilock(x) == <<"ilock", x>>
Iunlock(x) == <<"iunlock", x>>
Iput(x) == <<"iput", x>>
Code(label) == <<label, "code">>

At(p, s) == panic = <<>> /\ th[p].todo # <<>> /\ Head(th[p].todo) = s

(* Mutant: a link that could not be made stays counted. *)
Fail_counted(t) == IF t.ip # 0 THEN << Iput("ip") >> ELSE <<>>

(* After namex has found nothing: only sys_link has something to undo. *)
Fail(t) == IF t.ip # 0 THEN << Ilock("ip"), Code("link_bad") >> ELSE <<>>

(* namex at inode t.w, with t.path left; what it finds goes to t[r], and   *)
(* it stops one level early if r is dp.                                    *)
Walk(t, r) ==
  IF t.path # <<>> THEN [t EXCEPT !.todo = << Ilock("w"), <<"elem", r>> >> \o @]
  ELSE IF r = "dp" THEN [t EXCEPT !.todo = << Iput("w") >> \o Fail(t)]
  ELSE [t EXCEPT !.ip = t.w, !.w = 0]

(* t goes on with s, and then with what is left to do after this step.     *)
Settle(t) ==
  IF t.todo = <<>> THEN Out
  ELSE IF Head(t.todo)[1] = "next"
       THEN Walk([t EXCEPT !.w = t.nx, !.nx = 0, !.todo = Tail(@)], Head(t.todo)[2])
       ELSE t
Then(p, t, s) == th' = [th EXCEPT ![p] = Settle([t EXCEPT !.todo = s \o Tail(@)])]
Last(p, t, s) == th' = [th EXCEPT ![p] = Settle([t EXCEPT !.todo = s])]

-----------------------------------------------------------------------------
(* Inodes.                                                                 *)

InUse == {i \in Inum : itable[i].ref > 0}

(* iget or idup of i for p, from table T, and then A; or there is no entry *)
(* left for it, the others using k.                                        *)
iget(p, T, i, A) ==
  \/ /\ i \notin InUse /\ \E k \in 0..Others : Cardinality(InUse) + k = NINODE
     /\ panic' = <<"iget: no inodes", th[p].name>>
     /\ UNCHANGED <<itable, dinode, th>>
  \/ /\ i \notin InUse => Cardinality(InUse) < NINODE
     /\ itable' = IF i \in InUse THEN [T EXCEPT ![i].ref = @ + 1]
                  ELSE [T EXCEPT ![i] = [NotCached EXCEPT !.ref = 1]]
     /\ A /\ UNCHANGED panic

(* ilock's read of the inode from the disk. *)
Load(i) ==
  IF itable[i].valid THEN itable[i]
  ELSE [itable[i] EXCEPT !.valid = TRUE, !.type = dinode[i].type, !.nlink = dinode[i].nlink]

ilock(p, x) ==
  LET i == th[p][x]
  IN  /\ At(p, Ilock(x))
      /\ itable[i].lock = 0
      /\ itable' = [itable EXCEPT ![i] = [Load(i) EXCEPT !.lock = p]]
      /\ panic' = IF ~itable[i].valid /\ dinode[i].type = "free"
                  THEN <<"ilock: no type", th[p].name>> ELSE <<>>
      /\ Then(p, th[p], <<>>)
      /\ UNCHANGED <<dinode, dir, cwd, fd, lost>>

Unlocked(T, i) == [T EXCEPT ![i].lock = 0]

iunlock(p, x) ==
  /\ At(p, Iunlock(x))
  /\ itable' = Unlocked(itable, th[p][x])
  /\ Then(p, th[p], <<>>)
  /\ UNCHANGED <<dinode, dir, cwd, fd, panic, lost>>

Unref(T, i) == [T EXCEPT ![i].ref = @ - 1]

(* Mutant: an inode without a name is freed though others use it. *)
LastUse_any(i) == itable[i].valid /\ itable[i].nlink = 0 /\ itable[i].lock = 0
LastUse(i) == itable[i].ref = 1 /\ itable[i].valid /\ itable[i].nlink = 0

(* iput drops the reference; the last one to an inode that has no name     *)
(* locks the inode and frees it first.                                     *)
iput(p, x) ==
  LET i == th[p][x]
  IN  /\ At(p, Iput(x))
      /\ IF LastUse(i)
         THEN /\ itable' = [itable EXCEPT ![i].lock = p]
              /\ Then(p, th[p], << <<"ifree", x>>, <<"iref", x>> >>)
         ELSE /\ itable' = Unref(itable, i)
              /\ Then(p, [th[p] EXCEPT ![x] = 0], <<>>)
      /\ UNCHANGED <<dinode, dir, cwd, fd, panic, lost>>

(* itrunc; type 0 goes to the disk; the copy is not valid any more. *)
ifree(p, x) ==
  LET i == th[p][x]
  IN  /\ At(p, <<"ifree", x>>)
      /\ dir' = [dir EXCEPT ![i] = NoEntries]
      /\ dinode' = [dinode EXCEPT ![i] = [type |-> "free", nlink |-> 0]]
      /\ itable' = [itable EXCEPT ![i] = [NotCached EXCEPT !.ref = itable[i].ref]]
      /\ lost' = [j \in Inum |-> IF i = j THEN 0
                                 ELSE lost[j] + Cardinality({n \in Name : dir[i][n] = j})]
      /\ Then(p, th[p], <<>>)
      /\ UNCHANGED <<cwd, fd, panic>>

iref(p, x) ==
  /\ At(p, <<"iref", x>>)
  /\ itable' = Unref(itable, th[p][x])
  /\ Then(p, [th[p] EXCEPT ![x] = 0], <<>>)
  /\ UNCHANGED <<dinode, dir, cwd, fd, panic, lost>>

(* The inode a name leads to, 0 if there is none. *)
dirlookup(d, n) == dir[d][n]
dirlink(D, d, n, i) == [D EXCEPT ![d][n] = i]

(* ip->nlink changes, and iupdate. *)
Links(T, i, d) == [T EXCEPT ![i].nlink = @ + d]

-----------------------------------------------------------------------------
(* namex.                                                                  *)

Absolute(path) == Head(path) = "/"
From(p, path) == IF Absolute(path) THEN ROOTINO ELSE cwd[p]
Rest(path) == IF Absolute(path) THEN Tail(path) ELSE path

(* One element of the path, with w locked. *)
namex(p, r) ==
  LET t == [th[p] EXCEPT !.name = Head(th[p].path), !.path = Tail(th[p].path)]
      T == Unlocked(itable, t.w)
      j == dirlookup(t.w, t.name)
  IN  /\ At(p, <<"elem", r>>)
      /\ \/ /\ itable[t.w].type = "dir" /\ r = "dp" /\ t.path = <<>>
            /\ itable' = T
            /\ Then(p, [t EXCEPT !.dp = t.w, !.w = 0], <<>>)
            /\ UNCHANGED <<dinode, panic>>
         \/ /\ itable[t.w].type = "dir" /\ ~(r = "dp" /\ t.path = <<>>) /\ j # 0
            /\ iget(p, T, j, Then(p, [t EXCEPT !.nx = j], << Iput("w"), <<"next", r>> >>) /\ UNCHANGED dinode)
         \/ /\ itable[t.w].type = "dir" => ~(r = "dp" /\ t.path = <<>>) /\ j = 0
            /\ itable' = T
            /\ Last(p, t, << Iput("w") >> \o Fail(t))
            /\ UNCHANGED <<dinode, panic>>
      /\ UNCHANGED <<dir, cwd, fd, lost>>

-----------------------------------------------------------------------------
(* System calls.                                                           *)

Creates == {"creat", "mkdir", "mknod"}
TypeOf == [c \in Creates |-> CASE c = "creat" -> "file" [] c = "mkdir" -> "dir" [] c = "mknod" -> "dev"]

(* What follows nameiparent or namei; creat is open with O_CREATE, openw   *)
(* asks to write.                                                          *)
Body(c) ==
  CASE c \in Creates           -> << Ilock("dp"), Code("create") >>
    [] c \in {"open", "openw"} -> << Ilock("ip"), Code("open") >>
    [] c = "link"              -> << Ilock("ip"), Code("link") >>
    [] c = "unlink"            -> << Ilock("dp"), Code("unlink") >>
    [] c = "chdir"             -> << Ilock("ip"), Code("chdir") >>

(* The start of a call, up to namex's iget of the root or idup of the cwd. *)
Enter(p, c) ==
  LET i == From(p, c.path)
      t == [Out EXCEPT !.call = c.call, !.path = Rest(c.path), !.new = c.new, !.w = i,
                       !.todo = Body(c.call)]
      r == IF c.call \in Creates \cup {"unlink"} THEN "dp" ELSE "ip"
  IN  /\ th[p] = Out /\ panic = <<>>
      /\ iget(p, itable, i, th' = [th EXCEPT ![p] = Walk(t, r)] /\ UNCHANGED dinode)
      /\ UNCHANGED <<dir, cwd, fd, lost>>

FreeInodes == {i \in Inum : dinode[i].type = "free"}
Lowest(S) == CHOOSE i \in S : \A j \in S : i <= j

(* ialloc marks inode i allocated on the disk. *)
ialloc(i, type) == [dinode EXCEPT ![i] = [type |-> type, nlink |-> 0]]

(* create, with dp locked: the name exists, or there is no inode for it,   *)
(* or ialloc finds one.                                                    *)
create(p) ==
  LET t == th[p]
      j == dirlookup(t.dp, t.name)
      k == Lowest(FreeInodes)
  IN  /\ At(p, Code("create"))
      /\ \/ /\ j # 0
            /\ iget(p, Unlocked(itable, t.dp), j,
                    /\ Then(p, [t EXCEPT !.ip = j], << Iput("dp"), Ilock("ip"), Code("exists") >>)
                    /\ UNCHANGED dinode)
         \/ /\ j = 0 /\ FreeInodes = {}
            /\ itable' = Unlocked(itable, t.dp)
            /\ Then(p, t, << Iput("dp") >>)
            /\ UNCHANGED <<dinode, panic>>
         \/ /\ j = 0 /\ FreeInodes # {}
            /\ iget(p, itable, k,
                    /\ dinode' = ialloc(k, TypeOf[t.call])
                    /\ Then(p, [t EXCEPT !.ip = k], << Ilock("ip"), Code("fill") >>))
      /\ UNCHANGED <<dir, cwd, fd, lost>>

create_exists(p) ==
  LET t == th[p]
      good == t.call = "creat" /\ itable[t.ip].type \in {"file", "dev"}
  IN  /\ At(p, Code("exists"))
      /\ itable' = IF good THEN itable ELSE Unlocked(itable, t.ip)
      /\ Then(p, t, IF good THEN << Code("open") >> ELSE << Iput("ip") >>)
      /\ UNCHANGED <<dinode, dir, cwd, fd, panic, lost>>

(* With dp and the new inode locked: its entries and its name, if the disk *)
(* has room (ok).                                                          *)
create_fill(p, ok) ==
  LET t == th[p]
      isdir == t.call = "mkdir"
      d == IF isdir THEN 1 ELSE 0
      new == [NoEntries EXCEPT !["."] = t.ip, ![".."] = t.dp]
  IN  /\ At(p, Code("fill"))
      /\ \/ /\ ok
            /\ dir' = dirlink([dir EXCEPT ![t.ip] = IF isdir THEN new ELSE @], t.dp, t.name, t.ip)
            /\ dinode' = Links(Links(dinode, t.ip, 1), t.dp, d)
            /\ itable' = Unlocked(Links(Links(itable, t.ip, 1), t.dp, d), t.dp)
            /\ Then(p, t, << Iput("dp") >> \o (IF t.call = "creat" THEN << Code("open") >>
                                               ELSE << Iunlock("ip"), Iput("ip") >>))
         \/ /\ ~ok
            /\ itable' = Unlocked(itable, t.ip)
            /\ Then(p, t, << Iput("ip"), Iunlock("dp"), Iput("dp") >>)
            /\ UNCHANGED <<dinode, dir>>
      /\ UNCHANGED <<cwd, fd, panic, lost>>

(* The rest of sys_open, with ip locked. *)
sys_open(p) ==
  LET t == th[p]
      bad == (t.call = "openw" /\ itable[t.ip].type = "dir") \/ fd[p] # 0
  IN  /\ At(p, Code("open"))
      /\ itable' = Unlocked(itable, t.ip)
      /\ IF bad THEN Then(p, t, << Iput("ip") >>) /\ UNCHANGED fd
         ELSE Then(p, [t EXCEPT !.ip = 0], <<>>) /\ fd' = [fd EXCEPT ![p] = t.ip]
      /\ UNCHANGED <<dinode, dir, cwd, panic, lost>>

sys_close(p) ==
  /\ th[p] = Out /\ fd[p] # 0 /\ panic = <<>>
  /\ fd' = [fd EXCEPT ![p] = 0]
  /\ th' = [th EXCEPT ![p] = [Out EXCEPT !.call = "close", !.old = fd[p], !.todo = << Iput("old") >>]]
  /\ UNCHANGED <<dinode, dir, itable, cwd, panic, lost>>

MayLink(type) == type # "dir"

(* sys_link, with ip locked: count the name, then nameiparent(new). *)
sys_link(p) ==
  LET t == th[p]
      T == Unlocked(itable, t.ip)
      i == From(p, t.new)
  IN  /\ At(p, Code("link"))
      /\ \/ /\ ~MayLink(itable[t.ip].type)
            /\ itable' = T /\ Then(p, t, << Iput("ip") >>)
            /\ UNCHANGED <<dinode, panic>>
         \/ /\ MayLink(itable[t.ip].type)
            /\ iget(p, Links(T, t.ip, 1), i,
                    /\ dinode' = Links(dinode, t.ip, 1)
                    /\ th' = [th EXCEPT ![p] = Walk([t EXCEPT !.path = Rest(t.new), !.w = i,
                                               !.todo = << Ilock("dp"), Code("dirlink") >>], "dp")])
      /\ UNCHANGED <<dir, cwd, fd, lost>>

(* With dp locked: dirlink, if the name is new and the disk has room. *)
link_name(p, ok) ==
  LET t == th[p]
      good == ok /\ dirlookup(t.dp, t.name) = 0
  IN  /\ At(p, Code("dirlink"))
      /\ itable' = Unlocked(itable, t.dp)
      /\ dir' = IF good THEN dirlink(dir, t.dp, t.name, t.ip) ELSE dir
      /\ Then(p, t, << Iput("dp") >> \o (IF good THEN << Iput("ip") >> ELSE Fail(t)))
      /\ UNCHANGED <<dinode, cwd, fd, panic, lost>>

link_bad(p) ==
  LET t == th[p]
  IN  /\ At(p, Code("link_bad"))
      /\ dinode' = Links(dinode, t.ip, -1)
      /\ itable' = Unlocked(Links(itable, t.ip, -1), t.ip)
      /\ Then(p, t, << Iput("ip") >>)
      /\ UNCHANGED <<dir, cwd, fd, panic, lost>>

(* Mutant: "." and ".." can be removed. *)
MayUnlink_dots(name) == TRUE
MayUnlink(name) == name \notin Dots

(* sys_unlink, with dp locked; ilock(ip) comes next. *)
sys_unlink(p) ==
  LET t == th[p]
      j == dirlookup(t.dp, t.name)
  IN  /\ At(p, Code("unlink"))
      /\ IF MayUnlink(t.name) /\ j # 0
         THEN iget(p, itable, j, Then(p, [t EXCEPT !.ip = j], << Ilock("ip"), Code("remove") >>)
                                 /\ UNCHANGED dinode)
         ELSE /\ itable' = Unlocked(itable, t.dp) /\ Then(p, t, << Iput("dp") >>)
              /\ UNCHANGED <<dinode, panic>>
      /\ UNCHANGED <<dir, cwd, fd, lost>>

isdirempty(i) == \A n \in Name : dir[i][n] = 0

(* Mutant: the references of a refused unlink are not dropped. *)
Refused_kept == << Iunlock("dp"), Iput("dp") >>
Refused == << Iput("ip"), Iunlock("dp"), Iput("dp") >>

(* With dp and ip locked: take the name away. *)
unlink_name(p) ==
  LET t == th[p]
      isdir == itable[t.ip].type = "dir"
      d == IF isdir THEN -1 ELSE 0
  IN  /\ At(p, Code("remove"))
      /\ panic' = IF itable[t.ip].nlink < 1 THEN <<"unlink: nlink < 1", t.name>> ELSE <<>>
      /\ \/ /\ isdir /\ ~isdirempty(t.ip)
            /\ itable' = Unlocked(itable, t.ip) /\ Then(p, t, Refused)
            /\ UNCHANGED <<dinode, dir>>
         \/ /\ isdir => isdirempty(t.ip)
            /\ dir' = [dir EXCEPT ![t.dp][t.name] = 0]
            /\ dinode' = Links(dinode, t.dp, d)
            /\ itable' = Unlocked(Links(itable, t.dp, d), t.dp)
            /\ Then(p, t, << Iput("dp"), Code("unlinked") >>)
      /\ UNCHANGED <<cwd, fd, lost>>

unlinked(p) ==
  LET t == th[p]
  IN  /\ At(p, Code("unlinked"))
      /\ dinode' = Links(dinode, t.ip, -1)
      /\ itable' = Unlocked(Links(itable, t.ip, -1), t.ip)
      /\ Then(p, t, << Iput("ip") >>)
      /\ UNCHANGED <<dir, cwd, fd, panic, lost>>

(* sys_chdir, with ip locked. *)
sys_chdir(p) ==
  LET t == th[p]
  IN  /\ At(p, Code("chdir"))
      /\ itable' = Unlocked(itable, t.ip)
      /\ IF itable[t.ip].type # "dir" THEN Then(p, t, << Iput("ip") >>) /\ UNCHANGED cwd
         ELSE /\ cwd' = [cwd EXCEPT ![p] = t.ip]
              /\ Then(p, [t EXCEPT !.ip = 0, !.old = cwd[p]], << Iput("old") >>)
      /\ UNCHANGED <<dinode, dir, fd, panic, lost>>

-----------------------------------------------------------------------------
Next ==
  \E p \in Proc :
    \/ \E c \in Calls[p] : Enter(p, c)
    \/ \E x \in Ptr : ilock(p, x) \/ iunlock(p, x) \/ iput(p, x) \/ ifree(p, x) \/ iref(p, x)
    \/ \E r \in {"ip", "dp"} : namex(p, r)
    \/ \E ok \in BOOLEAN : create_fill(p, ok) \/ link_name(p, ok)
    \/ create(p) \/ create_exists(p) \/ sys_open(p) \/ sys_close(p)
    \/ sys_link(p) \/ link_bad(p) \/ sys_unlink(p) \/ unlink_name(p) \/ unlinked(p) \/ sys_chdir(p)

Spec == Init /\ [][Next]_vars

-----------------------------------------------------------------------------
(* Properties.                                                             *)

Users(i) ==
  Cardinality({q \in Proc \X Ptr : th[q[1]][q[2]] = i})
  + Cardinality({p \in Proc : cwd[p] = i}) + Cardinality({p \in Proc : fd[p] = i})

(* An inode's count is the number of its users: calls, current directories *)
(* and open files.                                                         *)
RefsExact ==
  \A i \in Inum : itable[i].ref = Users(i)

Dirs == {d \in Inum : dinode[d].type = "dir"}
Entries(i) == {e \in Dirs \X Name : dir[e[1]][e[2]] = i}

(* A name never leads to a free inode, since an inode is freed only when   *)
(* its last name and user are gone.  A directory has one name, and its     *)
(* ".." leads back to where that name is, so that directories are a tree.  *)
(* Two panics remain in the code and no others: iget finds no entry, but   *)
(* only if NINODE inodes have users, and ilock meets a free inode, but     *)
(* only by the ".." of a directory that was removed, which does not keep   *)
(* its parent.                                                             *)
NamesSafe ==
  /\ panic # <<>> => \/ panic[1] = "iget: no inodes" /\ Cardinality({i \in Inum : Users(i) > 0}) + Others >= NINODE
                     \/ panic = <<"ilock: no type", "..">>
  /\ \A i \in Inum : Entries(i) # {} => dinode[i].type # "free"
  /\ \A d \in Dirs : /\ Cardinality(Entries(d)) <= (IF d = ROOTINO THEN 0 ELSE 1)
                     /\ \A e \in Entries(d) : dir[d][".."] = e[1]

(* When no call is under way, nlink counts the names of an inode, and the  *)
(* subdirectories of a directory.  (Names in a directory that was itself   *)
(* removed are lost with it.)                                              *)
LinksExact ==
  (\A p \in Proc : th[p] = Out) =>
    \A i \in Inum :
      dinode[i].nlink = Cardinality(Entries(i)) + lost[i] + (IF i = ROOTINO THEN 1 ELSE 0)
                        + Cardinality({n \in Name : i \in Dirs /\ dir[i][n] \in Dirs})

(* Whom p waits for in ilock. *)
Holders(p) == {q \in Proc : \E x \in Ptr : At(p, Ilock(x)) /\ itable[th[p][x]].lock = q}

(* No set of processes wait for each other's inodes, nor one for its own:  *)
(* calls lock a parent before its child, and namex locks one at a time.    *)
NoDeadlock == \A S \in SUBSET Proc : S # {} => \E p \in S : Holders(p) \cap S = {}
=============================================================================
