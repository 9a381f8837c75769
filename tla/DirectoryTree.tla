--------------------------- MODULE DirectoryTree ---------------------------
(***************************************************************************)
(* What dcc605fs promises its callers (fs.h): a tree of directories and    *)
(* files in which a call changes the entity it names and no other, every   *)
(* file reads as it was last written, and a call that fails changes        *)
(* nothing and says why.                                                   *)
(***************************************************************************)
EXTENDS Integers, Sequences

CONSTANTS
  Paths,     \* paths as sequences of names; <<>> is "/"
  Contents,  \* contents of files
  Dir        \* what the path of a directory stands for

VARIABLES
  tree,  \* tree[p], for a path that exists: Dir or the contents of a file
  call   \* the last call: <<function, path, what to write, "ok" or the errno>>

treeVars == <<tree, call>>

Exists(p) == p \in DOMAIN tree
IsDir(p) == Exists(p) /\ tree[p] = Dir
IsFile(p) == Exists(p) /\ tree[p] # Dir
ParentOf(p) == SubSeq(p, 1, Len(p) - 1)
IsEmpty(p) == \A q \in DOMAIN tree : q # <<>> => ParentOf(q) # p

Init ==
  /\ tree = [p \in {<<>>} |-> Dir]
  /\ call = <<"format", <<>>, <<>>, "ok">>

With(p, x) == [q \in DOMAIN tree \cup {p} |-> IF q = p THEN x ELSE tree[q]]
Without(p) == [q \in DOMAIN tree \ {p} |-> tree[q]]

WriteFile(p, c) ==
  /\ p # <<>> /\ IsDir(ParentOf(p)) /\ ~IsDir(p)
  /\ tree' = With(p, c)
  /\ call' = <<"write", p, c, "ok">>

MakeDir(p) ==
  /\ ~Exists(p) /\ IsDir(ParentOf(p))
  /\ tree' = With(p, Dir)
  /\ call' = <<"mkdir", p, <<>>, "ok">>

Unlink(p) ==
  /\ IsFile(p)
  /\ tree' = Without(p)
  /\ call' = <<"unlink", p, <<>>, "ok">>

RemoveDir(p) ==
  /\ p # <<>> /\ IsDir(p) /\ IsEmpty(p)
  /\ tree' = Without(p)
  /\ call' = <<"rmdir", p, <<>>, "ok">>

\* A call that fails for the reason it gives.  A write may find no space.
Fail(p) ==
  /\ \/ \E c \in Contents : call' = <<"write", p, c, "ENOSPC">>
     \/ Exists(p) /\ call' = <<"mkdir", p, <<>>, "EEXIST">>
     \/ ~Exists(p) /\ call' \in {<<"unlink", p, <<>>, "ENOENT">>, <<"rmdir", p, <<>>, "ENOENT">>}
     \/ IsFile(p) /\ call' = <<"rmdir", p, <<>>, "ENOTDIR">>
     \/ IsDir(p) /\ ~IsEmpty(p) /\ call' = <<"rmdir", p, <<>>, "ENOTEMPTY">>
  /\ UNCHANGED tree

Next ==
  \E p \in Paths :
    \/ \E c \in Contents : WriteFile(p, c)
    \/ MakeDir(p) \/ Unlink(p) \/ RemoveDir(p)
    \/ Fail(p)

Spec == Init /\ [][Next]_treeVars
=============================================================================
