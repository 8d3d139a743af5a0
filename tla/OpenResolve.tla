---------------------------- MODULE OpenResolve ----------------------------
(***************************************************************************)
(* How opend finds the handlers of a request (pkgs/open/opend.cpp: Table,  *)
(* readTable, readBundle, Resolver, and the part of serve() that resolves  *)
(* the items and groups them into launches).                               *)
(*                                                                         *)
(* Resolver hands out pointers: into a table, or into owned_, a vector     *)
(* that moves its elements when it outgrows its room.  A pointer into      *)
(* owned_ remembers how often the vector had moved; once it has moved      *)
(* again the pointer dangles, and reading it gives any handler or a crash. *)
(*                                                                         *)
(* Selectors are strings, compared whole.  A line of a table, a bundle and *)
(* an item are what parsing and stat() make of them.                       *)
(***************************************************************************)
EXTENDS Naturals, Sequences, FiniteSetsExt

CONSTANTS
    UserFiles,     \* what ~/.config/open/handlers may be
    SystemFiles,   \* what /etc/open/handlers may be
    BundleLists,   \* the bundles that may be installed, in the order of a scan
    Requests,      \* requests: items, whether to reveal them, an application
    Reserved       \* the room that owned_ reserves: 64

\* add() takes handlers for the same by where they come from and what they run.
Same(h, g) == h.origin = g.origin /\ h.command = g.command

(* The constants are what parsing and stat() give.  An item that is a file   *)
(* has at most one extension, whose selector is none of the types.          *)
IsItem(item) ==
    /\ item.type \in {"url", "directory", "bundle", "file", "missing"}
    /\ item.type = "file" =>
          /\ item.executable \in BOOLEAN /\ item.text \in BOOLEAN
          /\ item.ext \in {<<>>} \union {<<s>> : s \in Range(item.ext)}
          /\ Range(item.ext) \intersect {"type:executable", "type:text", "type:file"} = {}

RequestsAreRead ==
    \A r \in Requests :
        /\ r.items \in Seq(Range(r.items))
        /\ \A item \in Range(r.items) :
              IsItem(item) /\ (item.type # "url" => IsItem(item.folder))

FilesAreRead ==
    /\ \A f \in UserFiles \union SystemFiles : f.lines \in Seq(Range(f.lines))
    /\ \A list \in BundleLists : list \in Seq(Range(list))

\* The origin of a line of a table is its file and number, that of a bundle its
\* path, which ends in .app: it tells one line from another and from a bundle.
LineHandlers(file) == {line.handler : line \in Range(file.lines)}
OriginsTell ==
    \A u \in UserFiles, s \in SystemFiles : \A h, g \in LineHandlers(u) \union LineHandlers(s) :
        /\ Same(h, g) => (h.single <=> g.single)
        /\ h.origin # "self"
        /\ \A list \in BundleLists : \A b \in Range(list) : h.origin # b.path
        /\ \A r \in Requests : r.app.by = "path" => h.origin # r.app.bundle.path

Given == RequestsAreRead /\ FilesAreRead /\ OriginsTell

ASSUME OpenResolveAssumption == Reserved \in Nat \ {0} /\ Given

VARIABLES
    user, system, bundles,   \* the files
    request,    \* the request
    place,      \* the place in serve(), or how it ended
    items,      \* items, after Reveal
    owned,      \* owned_
    room,       \* the capacity of owned_
    moved,      \* how often owned_ moved its elements
    resolved,   \* resolved: for each item a pointer, and whether it is passed on
    added,      \* how many items of resolved were added to launches
    launches    \* launches: the handlers to run and the items of each

files == <<user, system, bundles, request>>
pool == <<owned, room, moved>>
vars == <<files, place, items, pool, resolved, added, launches>>

-----------------------------------------------------------------------------
(* Tables and bundles.                                                     *)

\* readTable: a file that others can write is ignored, and so is a line that
\* does not parse.  Without an absolute HOME there is no user's table.
Table(file) == {i \in DOMAIN file.lines : file.trusted /\ file.lines[i].valid}

\* Table::find: the first of the lines that have the selector.
Hits(file, selector) == {i \in Table(file) : selector \in file.lines[i].selectors}

\* Resolver::bundles: one whose Info.plist cannot be read is passed over.
readable == {i \in DOMAIN bundles : bundles[i].readable}

bundleHandler(b) == [command |-> b.path, single |-> FALSE, origin |-> b.path]

\* What a lookup finds: an entry of a table, a handler to be kept, or nothing.
NotFound == [in |-> "none"]
Entry(h) == [in |-> "table", handler |-> h]
Keep(h) == [in |-> "owned", handler |-> h]

FirstLine(file, selector) == Entry(file.lines[Min(Hits(file, selector))].handler)

\* The first bundle of those that have the selector.
FirstBundle(hits) == IF hits = {} THEN NotFound ELSE Keep(bundleHandler(bundles[Min(hits)]))
Claiming(selector) == {i \in readable : selector \in bundles[i].claims}

\* Mutant: the bundles' claims come before the tables.
lookupBundlesFirst(selector) ==
    IF Claiming(selector) # {} THEN FirstBundle(Claiming(selector))
    ELSE IF Hits(user, selector) # {} THEN FirstLine(user, selector)
    ELSE IF Hits(system, selector) # {} THEN FirstLine(system, selector)
    ELSE NotFound

\* Resolver::lookup: the tables in turn, then the extensions and schemes that
\* bundles claim.
lookup(selector) ==
    IF Hits(user, selector) # {} THEN FirstLine(user, selector)
    ELSE IF Hits(system, selector) # {} THEN FirstLine(system, selector)
    ELSE FirstBundle(Claiming(selector))

\* Resolver::application, and the editor's role.  An application named by its
\* path is a bundle, or an executable, which is kept in the same way.
application(app) ==
    IF app.by = "path"
    THEN IF app.bundle.readable THEN Keep(bundleHandler(app.bundle)) ELSE NotFound
    ELSE IF lookup(app.selector) # NotFound THEN lookup(app.selector)
    ELSE FirstBundle({i \in readable : app.selector \in bundles[i].names})

\* The selectors that Resolver::item looks up, in its order.
Selectors(item) ==
    CASE item.type = "url" -> <<item.scheme>>
      [] item.type = "directory" -> <<"type:directory">>
      [] item.type = "file" -> item.ext
            \o (IF item.executable THEN <<"type:executable">> ELSE <<>>)
            \o (IF item.text THEN <<"type:text">> ELSE <<>>) \o <<"type:file">>
      [] item.type = "missing" -> <<>>

\* Resolver::item: a bundle launches itself; anything else goes to the first of
\* its selectors that is handled.
Find(item) ==
    IF item.type = "bundle"
    THEN IF item.bundle.readable
         THEN Keep([bundleHandler(item.bundle) EXCEPT !.origin = "self"]) ELSE NotFound
    ELSE LET hits == {i \in DOMAIN Selectors(item) : lookup(Selectors(item)[i]) # NotFound}
         IN  IF hits = {} THEN NotFound ELSE lookup(Selectors(item)[Min(hits)])

-----------------------------------------------------------------------------
(* serve().                                                                *)

\* A handler that a lookup found becomes a pointer; keep() may move owned_.
Point(found) ==
    IF found.in = "table"
    THEN UNCHANGED pool
    ELSE /\ owned' = Append(owned, found.handler)
         /\ IF Len(owned) = room THEN room' = 2 * room /\ moved' = moved + 1
                                 ELSE UNCHANGED <<room, moved>>

Pointer(found) ==
    IF found.in = "table" THEN [at |-> 0, moved |-> 0, handler |-> found.handler]
    ELSE [at |-> Len(owned'), moved |-> moved', handler |-> found.handler]

\* The folders of the items, each once.
Folders(s) ==
    LET seen[n \in 0 .. Len(s)] ==
            IF n = 0 THEN <<>>
            ELSE IF s[n].folder \in Range(seen[n - 1]) THEN seen[n - 1]
            ELSE Append(seen[n - 1], s[n].folder)
    IN  seen[Len(s)]

\* Reveal replaces the items by their folders; URLs have none.
Prepare ==
    /\ place = "start"
    /\ LET urls == {i \in DOMAIN request.items : request.items[i].type = "url"} IN
       \/ /\ request.reveal /\ urls # {}
          /\ place' = "refused"
          /\ UNCHANGED items
       \/ /\ ~request.reveal \/ urls = {}
          /\ place' = "resolve"
          /\ items' = IF request.reveal THEN Folders(request.items) ELSE request.items
    /\ UNCHANGED <<files, pool, resolved, added, launches>>

\* An application was named: it gets every item, or is run without one.
ResolveApplication ==
    /\ place = "resolve"
    /\ request.app.by # "none"
    /\ LET found == application(request.app) IN
       \/ /\ found = NotFound
          /\ place' = "refused"
          /\ UNCHANGED <<pool, resolved, launches>>
       \/ /\ found # NotFound
          /\ Point(found)
          /\ place' = "group"
          /\ resolved' = [i \in DOMAIN items |->
                             [pointer |-> Pointer(found), passed |-> TRUE]]
          /\ launches' = IF items = <<>> THEN <<[handler |-> found.handler, items |-> <<>>]>>
                         ELSE <<>>
    /\ UNCHANGED <<files, items, added>>

\* One turn of the loop over the items: one unknown item fails the request.
ResolveItem ==
    /\ place = "resolve"
    /\ request.app.by = "none"
    /\ Len(resolved) < Len(items)
    /\ LET found == Find(items[Len(resolved) + 1]) IN
       \/ /\ found = NotFound
          /\ place' = "refused"
          /\ UNCHANGED <<pool, resolved>>
       \/ /\ found # NotFound
          /\ Point(found)
          /\ resolved' = Append(resolved, [pointer |-> Pointer(found),
                                           passed |-> found.handler.origin # "self"])
          /\ UNCHANGED place
    /\ UNCHANGED <<files, items, added, launches>>

NothingToOpen ==
    /\ place = "resolve"
    /\ request.app.by = "none"
    /\ items = <<>>
    /\ place' = "refused"
    /\ UNCHANGED <<files, items, pool, resolved, added, launches>>

Resolved ==
    /\ place = "resolve"
    /\ request.app.by = "none"
    /\ items # <<>> /\ Len(resolved) = Len(items)
    /\ place' = "group"
    /\ UNCHANGED <<files, items, pool, resolved, added, launches>>

Dangling(pointer) == pointer.at # 0 /\ pointer.moved # moved

\* Every handler there is, for what a dangling pointer may read.
AnyHandler ==
    LineHandlers(user) \union LineHandlers(system) \union {bundleHandler(b) : b \in Range(bundles)}

\* Mutant: `single' is not looked at.
AddShares(h, values) ==
    LET hits == {j \in DOMAIN launches : Same(launches[j].handler, h)}
    IN  IF hits # {} THEN [launches EXCEPT ![Min(hits)].items = @ \o values]
        ELSE Append(launches, [handler |-> h, items |-> values])

\* The lambda add: the items of a handler share a launch, unless it is `single'.
Add(h, values) ==
    LET hits == {j \in DOMAIN launches : Same(launches[j].handler, h)}
    IN  IF ~h.single /\ hits # {} THEN [launches EXCEPT ![Min(hits)].items = @ \o values]
        ELSE Append(launches, [handler |-> h, items |-> values])

\* One turn of the loop that adds the items to launches.
AddItem ==
    /\ place = "group"
    /\ added < Len(resolved)
    /\ LET r == resolved[added + 1] IN
       \/ /\ \E h \in IF Dangling(r.pointer) THEN AnyHandler ELSE {r.pointer.handler} :
                launches' = Add(h, IF r.passed THEN <<added + 1>> ELSE <<>>)
          /\ added' = added + 1
          /\ UNCHANGED place
       \/ /\ Dangling(r.pointer)
          /\ place' = "crashed"
          /\ UNCHANGED <<added, launches>>
    /\ UNCHANGED <<files, items, pool, resolved>>

\* Everything is resolved: the launches can begin (OpenRequest).
Done ==
    /\ place = "group"
    /\ added = Len(resolved)
    /\ place' = "launch"
    /\ UNCHANGED <<files, items, pool, resolved, added, launches>>

-----------------------------------------------------------------------------
Init ==
    /\ user \in UserFiles
    /\ system \in SystemFiles
    /\ bundles \in BundleLists
    /\ request \in Requests
    /\ place = "start"
    /\ items = <<>>
    /\ owned = <<>>
    /\ room = Reserved
    /\ moved = 0
    /\ resolved = <<>>
    /\ added = 0
    /\ launches = <<>>

Next ==
    Prepare \/ ResolveApplication \/ ResolveItem \/ NothingToOpen \/ Resolved
        \/ AddItem \/ Done

Spec == Init /\ [][Next]_vars

-----------------------------------------------------------------------------
(* Properties.                                                             *)

\* README.md, Resolution: how well a selector fits an item, best first; 0 when
\* it does not.
Fit(item, selector) ==
    CASE item.type = "url" /\ selector = item.scheme -> 1
      [] item.type = "directory" /\ selector = "type:directory" -> 1
      [] item.type = "file" /\ selector \in Range(item.ext) -> 1
      [] item.type = "file" /\ selector = "type:executable" /\ item.executable -> 2
      [] item.type = "file" /\ selector = "type:text" /\ item.text -> 3
      [] item.type = "file" /\ selector = "type:file" -> 4
      [] OTHER -> 0

\* The handlers that the tables and bundles offer for an item: how well each
\* fits, whether it is the user's, the system's or a bundle's, and its place
\* among those.
Offers(item) ==
    LET Fitting(selectors) == {s \in selectors : Fit(item, s) # 0}
        Lines(file, source) ==
            UNION {{[rank |-> <<Fit(item, s), source, i>>,
                     command |-> file.lines[i].handler.command] :
                        s \in Fitting(file.lines[i].selectors)} :
                   i \in {j \in DOMAIN file.lines : file.trusted /\ file.lines[j].valid}}
        Claims ==
            UNION {{[rank |-> <<Fit(item, s), 3, i>>, command |-> bundles[i].path] :
                        s \in Fitting(bundles[i].claims)} :
                   i \in {j \in DOMAIN bundles : bundles[j].readable}}
    IN  Lines(user, 1) \union Lines(system, 2) \union Claims

Precedes(a, b) ==
    \E n \in 1 .. 3 : a[n] < b[n] /\ \A k \in 1 .. n - 1 : a[k] = b[k]

\* What is launched for an item is the command of the documented first choice.
FirstMatch ==
    \A j \in DOMAIN launches : \A i \in Range(launches[j].items) :
        request.app.by = "none" =>
            \E best \in Offers(items[i]) :
                /\ launches[j].handler.command = best.command
                /\ \A o \in Offers(items[i]) \ {best} : Precedes(best.rank, o.rank)

\* Resolution, for each item, first match wins, whatever the other items were, as
\* long as the handlers fit in the room reserved for them (lookup, item, keep).
FirstMatchWinsInRoom == moved = 0 => FirstMatch

\* Every item but a bundle is passed to exactly one launch, in the order of the
\* request; a `single' handler gets one item, and any other is run once for
\* all of its items.
EachItemOnce ==
    place = "launch" =>
        LET passed == {i \in DOMAIN items : resolved[i].passed}
            given(j) == launches[j].items
        IN  /\ passed = UNION {Range(given(j)) : j \in DOMAIN launches}
            /\ \A j \in DOMAIN launches : \A a, b \in DOMAIN given(j) :
                  a < b => given(j)[a] < given(j)[b]
            /\ \A j, k \in DOMAIN launches : j # k =>
                  /\ Range(given(j)) \intersect Range(given(k)) = {}
                  /\ Same(launches[j].handler, launches[k].handler) =>
                        launches[j].handler.single
            /\ \A j \in DOMAIN launches :
                  launches[j].handler.single => Len(given(j)) <= 1
=============================================================================
