---------------------------- MODULE FileManager ----------------------------
(***************************************************************************)
(* The file endpoints of internal/handlers/file_handler.go.  A handler     *)
(* resolves its path and then makes one system call after another, itself  *)
(* or through os.RemoveAll and os.MkdirAll; other requests run in between. *)
(* What the handlers share is the file system.                             *)
(*                                                                         *)
(* A path is a sequence of names below BaseDir, which is the default of    *)
(* config.go:41, "/", and cannot be removed.  A node is an inode: an open  *)
(* file or directory stays the same one when its path is renamed or        *)
(* deleted.  Content is a sequence of blocks, and a block is known by who  *)
(* wrote it.  There are no symbolic links.                                 *)
(***************************************************************************)
EXTENDS Naturals, Sequences, SequencesExt

CONSTANTS
  Requests,    \* goroutines, each serving one request at a time
  RawPaths,    \* what clients send: sequences of names, "." or ".."
  Kinds,       \* the operations asked for
  Nodes,       \* bound: inodes in use at the same time
  MaxRequests, \* bound: the requests served
  Blocks,      \* bound: blocks of a write or an upload
  MaxRead,     \* maxReadSize, in blocks
  Dir,         \* the node is a directory
  Disk,        \* who wrote the blocks that were there at the start
  Nobody,      \* the goroutine serves no request
  None         \* no file is open

Writers == Requests \cup {Disk, Nobody}

ASSUME NodesAreNumbered == Nodes \subseteq Nat \ {0} /\ 1 .. 3 \subseteq Nodes /\ None \notin Nodes
ASSUME SizesAreNumbers  == Blocks \in Nat /\ MaxRead \in Nat
ASSUME ContentIsNoDir   == Dir \notin Seq(Writers)

Base == <<>>
Home == <<"a">>           \* a directory that is there at the start,
File == <<"a", "x">>      \* and a file in it

Names == UNION {{raw[i] : i \in DOMAIN raw} : raw \in RawPaths \cup {File}}
Path  == Seq(Names)

ASSUME PathsAreSequences == RawPaths \subseteq Path

VARIABLES
  tree,        \* path -> node, for the paths that exist
  data,        \* node -> Dir, or the blocks of a file; a hole is by Nobody
  ops,         \* what each goroutine is doing
  begun,       \* the number of requests so far
  answer       \* the operation that the last step has finished, and how

vars == <<tree, data, ops, begun, answer>>

-----------------------------------------------------------------------------
(* Paths. *)
Below(p)    == {q \in DOMAIN tree : IsStrictPrefix(p, q)}
Children(p) == {q \in Below(p) : Len(q) = Len(p) + 1}
Exists(p)   == p \in DOMAIN tree
IsDir(p)    == Exists(p) /\ data[tree[p]] = Dir
HasRoom(p)  == p # Base /\ IsDir(Front(p))
PathsOf(n)  == {p \in DOMAIN tree : tree[p] = n}

(* filepath.Clean of a rooted path: ".." at the root stays there. *)
Enter(path, name) ==
  CASE name = "."  -> path
    [] name = ".." -> IF path = Base THEN Base ELSE Front(path)
    [] OTHER       -> Append(path, name)

Clean(raw) ==
  LET walk[n \in 0 .. Len(raw)] == IF n = 0 THEN Base ELSE Enter(walk[n - 1], raw[n]) IN
  walk[Len(raw)]

(* Some ".." leads above the start. *)
Rises(raw) == \E n \in DOMAIN raw : raw[n] = ".." /\ Clean(SubSeq(raw, 1, n - 1)) = Base

(* Upload joins the directory and the name of the file first: of a rooted path *)
(* no ".." is left, of another those that lead above the start.                *)
Target(kind, raw, rooted) == IF kind = "upload" /\ (rooted \/ ~Rises(raw)) THEN Clean(raw) ELSE raw

(* resolve: any ".." is refused, also one that stays below BaseDir. *)
Accepted(raw) == \A i \in DOMAIN raw : raw[i] # ".."

Silence == [ok |-> FALSE, op |-> Nobody, left |-> <<>>]

-----------------------------------------------------------------------------
(* What a goroutine has seen since it began: which paths at and below its own *)
(* one were there always and ever, whether its own was a directory once, and  *)
(* whether nobody else wrote to the file it has opened.                       *)
Within(p, t) == {q \in DOMAIN t : IsPrefix(p, q)}

Saw(op, t, d) ==
  [op EXCEPT !.always = @ \cap DOMAIN t,
             !.ever   = @ \cup Within(op.path, t),
             !.made   = @ \/ (op.path \in DOMAIN t /\ d[t[op.path]] = Dir)]

SawWrites(op, t, d) ==
  [Saw(op, t, d) EXCEPT !.alone = @ /\ (op.node = None \/ d[op.node] = data[op.node])]

(* The directories that a delete has opened, apart from the parent. *)
Opened(op) == IF op.kind = "delete" THEN op.names ELSE {}
Uses(g, n) == ops[g] # Nobody /\ n \in {ops[g].node, ops[g].parent} \cup Opened(ops[g])

(* One step of g: what it does next, the tree and the content.  An inode goes *)
(* when no path leads to it and nobody has it open.                           *)
Step(g, op, t, d) ==
  LET used == {t[p] : p \in DOMAIN t}
                \cup {n \in Nodes : \E h \in Requests \ {g} : Uses(h, n)}
                \cup (IF op = Nobody THEN {} ELSE {op.node, op.parent} \cup Opened(op)) IN
  /\ tree' = t
  /\ begun' = begun
  /\ data' = [n \in Nodes |-> IF n \in used THEN d[n] ELSE <<>>]
  /\ ops' = [h \in Requests |-> IF h = g THEN op
                                ELSE IF ops[h] = Nobody THEN Nobody ELSE SawWrites(ops[h], t, d)]

Goes(g, op, t, d) == Step(g, Saw(op, t, d), t, d) /\ answer' = Silence

Ends(g, ok, t) ==
  /\ Step(g, Nobody, t, data)
  /\ answer' = [ok |-> ok, op |-> Saw(ops[g], t, data),
                left |-> IF ops[g].node = None THEN <<>> ELSE data[ops[g].node]]

Done(g, t) == Ends(g, TRUE, t)
Fail(g)    == Ends(g, FALSE, tree)

At(g, kinds, phase) == ops[g] # Nobody /\ ops[g].kind \in kinds /\ ops[g].phase = phase

Free    == {n \in Nodes : PathsOf(n) = {} /\ \A g \in Requests : ~Uses(g, n)}
NewNode == CHOOSE n \in Free : \A m \in Free : n <= m

With(p, n) == [q \in DOMAIN tree \cup {p} |-> IF q = p THEN n ELSE tree[q]]
Without(p) == [q \in DOMAIN tree \ {p} |-> tree[q]]

(* The request is parsed and its paths are resolved ... *)
Begin(g) ==
  /\ ops[g] = Nobody
  /\ begun < MaxRequests
  /\ begun' = begun + 1
  /\ \E kind \in Kinds, raw \in RawPaths, to \in RawPaths, size \in 0 .. Blocks, rooted \in BOOLEAN :
       /\ kind # "rename" => to = raw
       /\ kind \notin {"write", "upload"} => size = 0
       /\ kind # "upload" => rooted
       /\ Accepted(Target(kind, raw, rooted)) /\ Accepted(Target(kind, to, rooted))
       /\ ops' = [ops EXCEPT ![g] =
            [kind |-> kind, path |-> Clean(raw), to |-> Clean(to), phase |-> "start",
             node |-> None, parent |-> None, pos |-> IF kind = "mkdir" THEN Len(Clean(raw)) ELSE 0,
             size |-> size, got |-> <<>>, found |-> {}, names |-> {}, alone |-> TRUE,
             made |-> IsDir(Clean(raw)), always |-> Within(Clean(raw), tree),
             ever |-> Within(Clean(raw), tree)]]
  /\ answer' = Silence
  /\ UNCHANGED <<tree, data>>

(* ... or one is refused, before anything is touched. *)
Refuse(g) ==
  /\ ops[g] = Nobody
  /\ {kind \in Kinds : \E raw \in RawPaths, rooted \in BOOLEAN :
                        ~Accepted(Target(kind, raw, rooted))} # {}
  /\ answer' = Silence
  /\ UNCHANGED <<tree, data, ops, begun>>

-----------------------------------------------------------------------------
(* Write and Upload. *)

(* A plausible slip: O_TRUNC is left out. *)
Kept(n) == data

Truncated(n) == [data EXCEPT ![n] = <<>>]

(* os.WriteFile and os.Create open with O_CREATE and O_TRUNC. *)
Create(g) ==
  /\ At(g, {"write", "upload"}, "start")
  /\ LET p      == ops[g].path
         n      == IF Exists(p) THEN tree[p] ELSE NewNode
         opened == [ops[g] EXCEPT !.phase = "copy", !.node = n] IN
     IF IsDir(p) \/ ~HasRoom(p) THEN Fail(g)
     ELSE (Exists(p) \/ Free # {}) /\ Goes(g, opened, With(p, n), Truncated(n))

(* Content after a block by g at position i of a file that another request may *)
(* have cut or extended meanwhile.                                             *)
Written(old, i, g) ==
  [j \in 1 .. (IF Len(old) > i THEN Len(old) ELSE i) |->
     IF j = i THEN g ELSE IF j <= Len(old) THEN old[j] ELSE Nobody]

Put(g) ==
  /\ At(g, {"write", "upload"}, "copy")
  /\ LET op == ops[g] IN
     IF op.pos = op.size THEN Done(g, tree)
     ELSE \/ Goes(g, [op EXCEPT !.pos = @ + 1], tree,
                  [data EXCEPT ![op.node] = Written(@, op.pos + 1, g)])
          \/ Fail(g)     \* the disk is full, or the client has gone

-----------------------------------------------------------------------------
(* Read, Download and List. *)

(* Read and List look at the path before they open it. *)
Stat(g) ==
  /\ At(g, {"read", "list"}, "start")
  /\ LET op == ops[g] IN
     IF Exists(op.path) /\ (IsDir(op.path) <=> op.kind = "list")
     THEN Goes(g, [op EXCEPT !.phase = "open"], tree, data)
     ELSE Fail(g)

(* A plausible slip: nothing is read past the limit. *)
LimitExactly(kind, n) == IF kind = "read" THEN MaxRead ELSE Len(data[n])

(* Read takes one byte - here one block - more than it shows, to know whether *)
(* there is more; http.ServeFile sends as much as there was at the start.     *)
Limit(kind, n) == IF kind = "read" THEN MaxRead + 1 ELSE Len(data[n])

(* Of a directory nothing is read: an error, or for a download a redirect. *)
Open(g) ==
  /\ At(g, {"read"}, "open") \/ At(g, {"download"}, "start")
  /\ LET p == ops[g].path IN
     IF ~Exists(p) \/ IsDir(p) THEN Fail(g)
     ELSE Goes(g, [ops[g] EXCEPT !.phase = "copy", !.node = tree[p],
                                 !.size = Limit(ops[g].kind, tree[p])], tree, data)

Get(g) ==
  /\ At(g, {"read", "download"}, "copy")
  /\ LET op   == ops[g]
         next == Len(op.got) + 1 IN
     IF next <= op.size /\ next <= Len(data[op.node])
     THEN Goes(g, [op EXCEPT !.got = Append(@, data[op.node][next])], tree, data)
     ELSE Ends(g, op.kind = "read" \/ Len(op.got) = op.size, tree)

(* What Read says about the content it returns. *)
SaysTruncated(op) == Len(op.got) > MaxRead

(* os.ReadDir: the names in the opened directory, wherever it is now.  Info  *)
(* then asks for each of them by its path.                                   *)
OpenDir(g) ==
  /\ At(g, {"list"}, "open")
  /\ LET p == ops[g].path IN
     IF ~IsDir(p) THEN Fail(g)
     ELSE Goes(g, [ops[g] EXCEPT !.phase = "read", !.node = tree[p]], tree, data)

ReadDir(g) ==
  /\ At(g, {"list"}, "read")
  /\ LET op      == ops[g]
         entries == {q \in DOMAIN tree \ {Base} : tree[Front(q)] = op.node} IN
     Goes(g, [op EXCEPT !.phase = "info", !.node = None,
                        !.names = {Append(op.path, Last(q)) : q \in entries}], tree, data)

(* A plausible slip: the listing ends at an entry that has vanished. *)
EndedAt(names, q) == IF Exists(q) THEN names \ {q} ELSE {}

Skipping(names, q) == names \ {q}

Info(g) ==
  /\ At(g, {"list"}, "info")
  /\ LET op == ops[g] IN
     \/ op.names = {} /\ Done(g, tree)
     \/ \E q \in op.names :
          Goes(g, [op EXCEPT !.names = Skipping(@, q),
                             !.found = IF Exists(q) THEN @ \cup {q} ELSE @], tree, data)

-----------------------------------------------------------------------------
(* DeleteEntry: os.RemoveAll. *)
ThroughFile(p) == \E q \in DOMAIN tree : IsStrictPrefix(q, p) /\ ~IsDir(q)

(* os.Remove: all is done when the path leads to nothing, to a file, or to an  *)
(* empty directory.                                                            *)
RemoveEntry(g) ==
  /\ At(g, {"delete"}, "start")
  /\ LET p == ops[g].path IN
     IF ~Exists(p) /\ ~ThroughFile(p) THEN Done(g, tree)
     ELSE IF Exists(p) /\ p # Base /\ Children(p) = {} THEN Done(g, Without(p))
     ELSE Goes(g, [ops[g] EXCEPT !.phase = "parent"], tree, data)

Opening(g, n) == [ops[g] EXCEPT !.phase = "unlink", !.node = n, !.names = {n}]

OpenParent(g) ==
  /\ At(g, {"delete"}, "parent")
  /\ LET p == ops[g].path IN
     IF p = Base THEN Goes(g, Opening(g, tree[Base]), tree, data)
     ELSE IF Exists(Front(p))
     THEN Goes(g, [ops[g] EXCEPT !.phase = "entry", !.parent = tree[Front(p)]], tree, data)
     ELSE IF ThroughFile(Front(p)) THEN Fail(g)
     ELSE Done(g, tree)

(* The entry of the path's last name in the parent that was opened. *)
EntryOf(g) == {q \in DOMAIN tree \ {Base} : /\ tree[Front(q)] = ops[g].parent
                                            /\ Last(q) = Last(ops[g].path)}

(* unlinkat removes a file; a directory has to be opened first. *)
UnlinkEntry(g) ==
  /\ At(g, {"delete"}, "entry")
  /\ IF data[ops[g].parent] # Dir THEN Fail(g)
     ELSE IF EntryOf(g) = {} THEN Done(g, tree)
     ELSE \E q \in EntryOf(g) : IF IsDir(q) THEN Goes(g, [ops[g] EXCEPT !.phase = "open"], tree, data)
                                ELSE Done(g, Without(q))

OpenEntry(g) ==
  /\ At(g, {"delete"}, "open")
  /\ IF EntryOf(g) = {} THEN Done(g, tree)
     ELSE \E q \in EntryOf(g) : IF IsDir(q) THEN Goes(g, Opening(g, tree[q]), tree, data)
                                ELSE Fail(g)

(* An entry of an opened directory, wherever that is now, is removed or opened; *)
(* it may be one added meanwhile, and one that cannot be removed is passed over. *)
RemoveChild(g) ==
  /\ At(g, {"delete"}, "unlink")
  /\ LET op      == ops[g]
         entries == {q \in DOMAIN tree \ {Base} : tree[Front(q)] \in op.names} IN
     \E q \in entries :
       \/ IsDir(q) /\ Goes(g, [op EXCEPT !.names = @ \cup {tree[q]}], tree, data)
       \/ Children(q) = {} /\ Goes(g, op, Without(q), data)

(* A plausible slip: what could not be removed is not told. *)
RemovedOrNot(g, q) == Done(g, IF Children(q) = {} THEN Without(q) ELSE tree)

(* A plausible slip: a directory goes though it has been filled again. *)
RemovedFull(g, q) == Done(g, Without(q))

Removed(g, q) == IF IsDir(q) /\ Children(q) = {} THEN Done(g, Without(q)) ELSE Fail(g)

(* At last the directory itself, unless some of it is left. *)
RemoveSelf(g) ==
  /\ At(g, {"delete"}, "unlink")
  /\ IF ops[g].path = Base THEN Fail(g)
     ELSE IF EntryOf(g) = {} THEN Done(g, tree)
     ELSE \E q \in EntryOf(g) : Removed(g, q)

-----------------------------------------------------------------------------
(* Mkdir: os.MkdirAll goes down to a directory that exists and up again. *)
Reached(g) == SubSeq(ops[g].path, 1, ops[g].pos)

Descend(g) ==
  /\ At(g, {"mkdir"}, "start")
  /\ LET q == Reached(g) IN
     IF IsDir(q) THEN Goes(g, [ops[g] EXCEPT !.phase = "up", !.pos = @ + 1], tree, data)
     ELSE IF Exists(q) THEN Fail(g)
     ELSE Goes(g, [ops[g] EXCEPT !.pos = @ - 1], tree, data)

(* A plausible slip: whatever another request has made there will do. *)
AnyEntryWillDo(q) == Exists(q)

(* A directory that another request has made meanwhile will do. *)
WillDo(q) == IsDir(q)

Ascend(g) ==
  /\ At(g, {"mkdir"}, "up")
  /\ LET op == ops[g]
         q  == Reached(g) IN
     IF op.pos > Len(op.path) THEN Done(g, tree)
     ELSE IF Exists(q) \/ ~HasRoom(q) THEN Goes(g, [op EXCEPT !.phase = "check"], tree, data)
     ELSE /\ Free # {}
          /\ Goes(g, [op EXCEPT !.pos = @ + 1], With(q, NewNode), [data EXCEPT ![NewNode] = Dir])

(* mkdir has failed: Lstat tells whether that matters. *)
Check(g) ==
  /\ At(g, {"mkdir"}, "check")
  /\ IF WillDo(Reached(g))
     THEN Goes(g, [ops[g] EXCEPT !.phase = "up", !.pos = @ + 1], tree, data)
     ELSE Fail(g)

-----------------------------------------------------------------------------
(* Rename: os.Rename looks at the target, then calls rename(2), which replaces *)
(* a file, or a directory that has become empty meanwhile.                     *)
CheckTarget(g) ==
  /\ At(g, {"rename"}, "start")
  /\ IF IsDir(ops[g].to) THEN Fail(g)
     ELSE Goes(g, [ops[g] EXCEPT !.phase = "move"], tree, data)

Moved(p, to) ==
  LET stay == DOMAIN tree \ (Within(p, tree) \cup {to})
      New(q) == to \o SubSeq(q, Len(p) + 1, Len(q))
      Old(r) == CHOOSE q \in Within(p, tree) : New(q) = r IN
  [r \in stay \cup {New(q) : q \in Within(p, tree)} |->
     IF r \in stay THEN tree[r] ELSE tree[Old(r)]]

Renames(p, to) ==
  /\ p # Base /\ Exists(p) /\ HasRoom(to)
  /\ ~IsStrictPrefix(p, to)
  /\ Exists(to) => (IsDir(p) <=> IsDir(to)) /\ (p = to \/ Children(to) = {})

Move(g) ==
  /\ At(g, {"rename"}, "move")
  /\ IF Renames(ops[g].path, ops[g].to) THEN Done(g, Moved(ops[g].path, ops[g].to)) ELSE Fail(g)

-----------------------------------------------------------------------------
Init ==
  /\ tree = [p \in {Base, Home, File} |-> Len(p) + 1]
  /\ data = [n \in Nodes |-> IF n <= 2 THEN Dir ELSE IF n = 3 THEN <<Disk, Disk>> ELSE <<>>]
  /\ ops = [g \in Requests |-> Nobody]
  /\ begun = 0
  /\ answer = Silence

WriteOrUpload(g)  == Create(g) \/ Put(g)
ReadOrDownload(g) == Stat(g) \/ Open(g) \/ Get(g)
List(g)           == OpenDir(g) \/ ReadDir(g) \/ Info(g)
DeleteEntry(g)    == \/ RemoveEntry(g) \/ OpenParent(g) \/ UnlinkEntry(g)
                     \/ OpenEntry(g) \/ RemoveChild(g) \/ RemoveSelf(g)
Mkdir(g)          == Descend(g) \/ Ascend(g) \/ Check(g)
Rename(g)         == CheckTarget(g) \/ Move(g)

Next == \E g \in Requests :
  \/ Begin(g) \/ Refuse(g) \/ WriteOrUpload(g) \/ ReadOrDownload(g)
  \/ List(g) \/ DeleteEntry(g) \/ Mkdir(g) \/ Rename(g)

Spec == Init /\ [][Next]_vars
-----------------------------------------------------------------------------
(* Properties. *)

(* Besides the types: every entry but the base stands in a directory that
   exists, under one path only, and nothing stands in a file. *)
TypeOK ==
  /\ tree \in [DOMAIN tree -> Nodes]
  /\ Base \in DOMAIN tree /\ \A p \in DOMAIN tree : p = Base \/ HasRoom(p)
  /\ IsInjective(tree)
  /\ data \in [Nodes -> {Dir} \cup Seq(Writers)]
  /\ \A g \in Requests : ops[g] # Nobody =>
       /\ ops[g].kind \in Kinds
       /\ ops[g].kind = "delete" => ops[g].names \subseteq Nodes
       /\ {ops[g].node, ops[g].parent} \subseteq Nodes \cup {None}

Answered(kinds) == answer # Silence /\ answer.op.kind \in kinds

(* When nobody else wrote to the file since it was opened, a write or upload
   leaves a file of its own blocks only, all of them if it is acknowledged and
   the first ones if it fails: never the end of what was there before, even
   when the path now leads somewhere else. *)
WritesAreAllOrPrefix ==
  Answered({"write", "upload"}) /\ answer.op.alone /\ answer.op.node # None =>
    \E g \in Requests :
      /\ answer.left = [i \in 1 .. Len(answer.left) |-> g]
      /\ Len(answer.left) <= answer.op.size
      /\ answer.ok => Len(answer.left) = answer.op.size

(* A read of a file that nobody writes to meanwhile returns its beginning, all
   of it up to the limit and one block more, and says that there is more exactly
   when there is; a download returns all. *)
ReadsAreWhole ==
  Answered({"read", "download"}) /\ answer.ok /\ answer.op.alone =>
    /\ IsPrefix(answer.op.got, answer.left)
    /\ answer.op.kind = "read" => (SaysTruncated(answer.op) <=> Len(answer.left) > MaxRead)
    /\ answer.op.kind = "download" \/ ~SaysTruncated(answer.op) => answer.op.got = answer.left

(* A listing shows every entry that was there all the time, and none that was
   there at no time, whatever comes and goes while it is put together. *)
ListingsAreTrue ==
  Answered({"list"}) /\ answer.ok =>
    /\ {q \in answer.op.always : Len(q) = Len(answer.op.path) + 1} \subseteq answer.op.found
    /\ answer.op.found \subseteq answer.op.ever

(* After an acknowledged delete nothing is left of what was at or below the path
   all the time, though other requests add and move entries meanwhile. *)
DeletesAreComplete == Answered({"delete"}) /\ answer.ok => answer.op.always = {}

(* After an acknowledged mkdir the path has been a directory, whoever made it:
   requests for the same directories do not fail each other, and a file that
   gets in the way meanwhile is not taken for one. *)
MadeDirectoriesExist == Answered({"mkdir"}) /\ answer.ok => answer.op.made
=============================================================================
