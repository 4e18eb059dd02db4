------------------------------ MODULE MCInodes ------------------------------
(***************************************************************************)
(* Model-checking instances of the inode layer.                            *)
(***************************************************************************)
EXTENDS Inodes, TLC

Abs(op, s) == [op |-> op, abs |-> TRUE, path |-> s, wr |-> FALSE]
Rel(op, s) == [op |-> op, abs |-> FALSE, path |-> s, wr |-> FALSE]
Write(c) == [c EXCEPT !.wr = TRUE]
LinkTo(c, newabs, newpath) == c @@ [newabs |-> newabs, newpath |-> newpath]

Dir(n) == [itype |-> "Directory", nlink |-> n]
File(n) == [itype |-> "File", nlink |-> n]
Dots(self, parent) == <<Entry(".", self), Entry("..", parent)>>

(* The root directory with a file /a and an empty directory /d. *)
Small == [dino |-> <<Dir(2), File(1), Dir(1)>> \o [n \in 1 .. NINUM - 3 |-> Empty],
          ents |-> <<Dots(1, 1) \o <<Entry("a", 2), Entry("d", 3)>>, <<>>,
                     Dots(3, 1)>> \o [n \in 1 .. NINUM - 3 |-> <<>>]]

(* Links are made and go away, under open files.                           *)
Removing == {Abs("unlink", <<"a">>), Rel("unlink", <<"..", "b">>),
             Abs("open", <<"a">>), Abs("chdir", <<"d">>),
             LinkTo(Abs("link", <<"a">>), TRUE, <<"b">>), [op |-> "exit"]}

(* Files, directories and links are made under one name. *)
Creating == {Write(Abs("creat", <<"d", "a">>)), Abs("mkdir", <<"d", "a">>),
             Abs("open", <<"d", "a">>), Rel("chdir", <<"a">>),
             LinkTo(Abs("link", <<"a">>), TRUE, <<"d", "a">>),
             Abs("unlink", <<"d", "..">>)}

(* They fail: in what is no directory, or without a name.                  *)
Failing == {Write(Abs("creat", <<"d", "a">>)), Write(Abs("creat", <<"d">>)),
            Abs("mknod", <<"d", "a">>) @@ [itype |-> "NoDevice"],
            Rel("chdir", <<"a">>), Abs("open", <<"a", "a">>), Abs("unlink", <<>>),
            LinkTo(Abs("link", <<"a">>), FALSE, <<"a", "b">>)}

(* Inodes are freed and allocated at the same time. *)
Reusing == {Abs("unlink", <<"a">>), Abs("creat", <<"a">>)}

(* A directory goes away under a process that makes an entry in it. *)
Haunting == {Abs("unlink", <<"d">>), Abs("chdir", <<"d">>),
             Write(Rel("creat", <<"a">>)), [op |-> "exit"]}

(* A directory goes away under links of it and into it, which fail. *)
Linking == {Abs("unlink", <<"d">>), Abs("chdir", <<"d">>),
            LinkTo(Abs("link", <<"d">>), TRUE, <<"b">>),
            LinkTo(Abs("link", <<"a">>), TRUE, <<"d", "..">>), [op |-> "exit"]}

(* A process climbs out of a directory that has gone away with its parent. *)
Climbing == {Abs("mkdir", <<"d", "a">>), Abs("chdir", <<"d", "a">>),
             Abs("unlink", <<"d", "a">>), Abs("unlink", <<"d">>),
             Rel("unlink", <<"..", "b">>)}

InstTrees == {Small}
InstMenus == {Removing, Creating, Failing, Reusing, Haunting, Linking, Climbing}

Sym == Permutations(Procs)
=============================================================================
