---------------------------- MODULE PayloadPaths ----------------------------
(***************************************************************************)
(* Where mdpkg writes: trees of directories, files and links, and the      *)
(* resolution of a packaged path in one of them                            *)
(* (src/pkgs/installer/install.c, src/pkgs/installer/util.c).              *)
(*                                                                         *)
(* A path is the sequence of its names below the root, <<>> the root       *)
(* itself.  A tree maps the paths that exist to nodes.  The target of a    *)
(* link is a sequence of names too; it starts with "/" when the link is    *)
(* absolute.  Who made a node ("by") stands for its contents.              *)
(***************************************************************************)
EXTENDS Integers, Sequences, Functions

CONSTANTS
    Names,          \* the names that files have
    MaxNames,       \* PATH_MAX: how many names a path may have
    MaxHops         \* LIMIT_SYMLINK_HOPS

\* As in SequencesExt, which is not extended: every step of a proof carries
\* all the definitions of the modules it is in reach of.
Front(s) == SubSeq(s, 1, Len(s) - 1)
Last(s) == s[Len(s)]
IsPrefix(s, t) == Len(s) <= Len(t) /\ s = SubSeq(t, 1, Len(s))
IsStrictPrefix(s, t) == IsPrefix(s, t) /\ s # t

Paths == Seq(Names)

\* path_join gives up on a path that is too long.
FitsPathMax(p) == p \in Paths /\ Len(p) <= MaxNames

Kinds == {"dir", "file", "part", "link"}    \* part: a file not yet whole

Dir(by) == [kind |-> "dir", by |-> by, to |-> <<>>]
File(by) == [kind |-> "file", by |-> by, to |-> <<>>]
Part(by) == [kind |-> "part", by |-> by, to |-> <<>>]
Link(by, to) == [kind |-> "link", by |-> by, to |-> to]

Missing == [kind |-> "none", by |-> "nobody", to |-> <<>>]

\* What is at p in the tree: what lstat finds where directories lead to p.
Node(fs, p) == IF p \in DOMAIN fs THEN fs[p] ELSE Missing

Exists(fs, p) == p \in DOMAIN fs
IsDir(fs, p) == Node(fs, p).kind = "dir"
Put(fs, p, node) == [q \in DOMAIN fs \cup {p} |-> IF q = p THEN node ELSE fs[q]]
Without(fs, p) == [q \in DOMAIN fs \ {p} |-> fs[q]]

\* The directories above p, the root not included.
Above(p) == {SubSeq(p, 1, n) : n \in 1..(Len(p) - 1)}

Inside(fs, p) == {q \in DOMAIN fs : IsStrictPrefix(p, q)}

\* path_parents: every directory above p is one, or missing.
ParentsAreDirs(fs, p) == \A d \in Above(p) : Exists(fs, d) => IsDir(fs, d)

Refused == <<"/", "refused">>   \* die(): the path cannot be resolved

Absolute(to) == Head(to) = "/"
LinkNames(to) == IF Absolute(to) THEN Tail(to) ELSE to

\* Mutant: an absolute link is followed from where it is.
LinkBaseKept(done, to) == done

\* Where a link in the directory done leads from: in the running root an
\* absolute link points inside it.
LinkBase(done, to) == IF Absolute(to) THEN <<>> ELSE done

(* resolve_target_path's loop: done is resolved, todo is not. *)
Walk(fs, live, follow) ==
    LET walk[done \in Seq(STRING), todo \in Seq(STRING), hops \in 0..MaxHops] ==
            IF todo = <<>> THEN done
            ELSE LET name == Head(todo)
                     rest == Tail(todo)
                     next == Append(done, name)
                     node == Node(fs, next)
                 IN  CASE name = "." -> walk[done, rest, hops]
                       [] name = ".." ->
                            IF done = <<>> THEN Refused ELSE walk[Front(done), rest, hops]
                       [] node.kind = "link" /\ (rest # <<>> \/ follow) ->
                            IF hops = MaxHops THEN Refused
                            ELSE IF Absolute(node.to) /\ ~live THEN Refused
                            ELSE walk[LinkBase(done, node.to),
                                      LinkNames(node.to) \o rest, hops + 1]
                       [] node.kind \in {"file", "part"} /\ rest # <<>> -> Refused
                       [] OTHER -> walk[next, rest, hops]
    IN  walk

Resolve(fs, live, path, follow) == Walk(fs, live, follow)[<<>>, path, 0]

\* place_payload, for one entry [path, kind, to].
Place(fs, live, e) ==
    IF e.kind = "dir" THEN Resolve(fs, live, e.path, TRUE)
    ELSE LET parent == Resolve(fs, live, Front(e.path), TRUE)
         IN  IF parent = Refused THEN Refused ELSE Append(parent, Last(e.path))

\* symlink_check_lexical: the target does not climb above the root by itself.
LinkStays(e) ==
    /\ e.to # <<>> /\ Head(e.to) # "/"
    /\ \A n \in 1..Len(e.to) :
          LET names == SelectSeq(SubSeq(e.to, 1, n), LAMBDA x : x \notin {".", ".."})
              ups == SelectSeq(SubSeq(e.to, 1, n), LAMBDA x : x = "..")
          IN  Len(e.path) - 1 + Len(names) >= Len(ups)

\* entries_check_paths over all components: only directories repeat, and
\* nothing lies beneath an entry that is not a directory.
PathsAreDistinct(payloads) ==
    \A i, k \in DOMAIN payloads : \A j \in DOMAIN payloads[i], l \in DOMAIN payloads[k] :
        LET e == payloads[i][j]
            f == payloads[k][l]
        IN  /\ (<<i, j>> # <<k, l>> /\ e.path = f.path) => (e.kind = "dir" /\ f.kind = "dir")
            /\ IsStrictPrefix(e.path, f.path) => e.kind = "dir"

-----------------------------------------------------------------------------
Lost == <<"/", "lost">>         \* ENOENT, ENOTDIR or ELOOP

(* What the running system reaches by a path, after at most hops links on   *)
(* the way to any directory: the reference for Walk, by recursion on the    *)
(* path instead of by splicing, and without the names that are missing.     *)
Lookup(fs) ==
    LET find[path \in Seq(STRING), follow \in BOOLEAN, hops \in 0..MaxHops] ==
            IF path = <<>> THEN path
            ELSE LET dir == find[Front(path), TRUE, hops]
                     here == Append(dir, Last(path))
                     to == Node(fs, here).to
                 IN  CASE dir = Lost \/ ~IsDir(fs, dir) -> Lost
                       [] dir # Lost /\ Last(path) = "." -> dir
                       [] dir # Lost /\ Last(path) = ".." ->
                            IF dir = <<>> THEN dir ELSE Front(dir)
                       [] OTHER ->
                            IF ~Exists(fs, here) THEN Lost
                            ELSE IF to = <<>> \/ ~follow THEN here
                            ELSE IF hops = 0 THEN Lost
                            ELSE find[IF Head(to) = "/" THEN Tail(to) ELSE dir \o to,
                                      TRUE, hops - 1]
    IN  find

(* What lstat, unlink and rmdir act on, given p: the links above p are      *)
(* followed, p itself is not.                                              *)
Reached(fs, p) ==
    IF \A d \in Above(p) : IsDir(fs, d) THEN p
    ELSE LET dir == Lookup(fs)[Front(p), TRUE, MaxHops]
         IN  IF dir = Lost THEN Lost ELSE Append(dir, Last(p))

=============================================================================
