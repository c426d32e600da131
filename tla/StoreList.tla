----------------------------- MODULE StoreList -----------------------------
(***************************************************************************)
(* Parquex.Store.list/2 while writers stage, publish, cancel and delete:   *)
(* store.rs (local_list), local.rs (list, visit_directory) and s3.rs.      *)
(* A local list is a walk: readdir and stat of every entry, directory by   *)
(* directory.  An S3 list is the pages of one provider request.  The token *)
(* of a list is a fresh one that nobody sets, so its checks always pass.   *)
(*                                                                         *)
(* A path is a sequence of names below the root.  A link has one target,   *)
(* the path that canonicalize gives for it, or leads out of the root; one  *)
(* whose target does not exist dangles.  readdir is taken to tell the kind *)
(* of an entry with its name, to return every name that stays and no name  *)
(* twice, unless it has been removed and made again in the meantime.       *)
(***************************************************************************)
EXTENDS Naturals, Sequences, SequencesExt, Selection

CONSTANTS ListBackends,  \* the backends a store may have
          Keys,          \* the keys writers use
          StageName,     \* stage_name: the staging file's name for a name
          Extends,       \* <<m, n>>: the name m begins with the name n
          PathOrder,     \* every path, in the order of path strings
          AskedPrefixes, \* prefixes a caller may ask for
          Links,         \* paths at which there may be a symbolic link
          OutsideLinks,  \* the ones that lead out of the root
          LinkTarget,    \* what the other ones lead to
          PageSize,      \* the most keys in a page of an S3 list
          MaxChanges     \* bound on the changes writers make

ASSUME ListAssumption ==
    /\ ListBackends \subseteq {"local", "s3"}
    /\ PathOrder \in Seq(Seq(STRING)) /\ IsInjective(PathOrder)
    /\ PageSize \in Nat \ {0}
    /\ Keys \cup Links \cup AskedPrefixes \subseteq Seq(STRING)
    /\ \A k \in Keys : k # <<>> /\ StageName[k[Len(k)]] \in STRING
    /\ \A p \in AskedPrefixes : p # <<>> => p[Len(p)] # ""
    /\ Keys \cap Links = {}
    /\ LinkTarget \in [Links \ OutsideLinks -> Seq(STRING)]

VARIABLES
    listBackend,
    files,     \* the regular files: objects and staging files
    links,     \* the symbolic links
    dirs,      \* the directories below the root, and the root
    changes,   \* changes so far
    listPc,    \* "idle", "lookup", "head", "walk", "stat", "page", "sort", "answered"
    prefix,    \* the prefix asked for, with the links in it followed
    filter,    \* what the first name below the listed directory begins with
    stack,     \* the directories being walked, [dir, returned], innermost first
    entry,     \* the entry readdir has returned, or Root
    fileType,  \* its kind at that time, "file", "dir" or "link", or "none"
    entries,   \* the output so far
    answer,    \* "none", "ok" or the category of an error
    lasting,   \* history: what has been there ever since the list began
    gone,      \* history: the files that have vanished since it began
    faulted    \* history: a call of the list failed for a reason of its own

listVars == <<listBackend, files, links, dirs, changes, listPc, prefix, filter, stack,
              entry, fileType, entries, answer, lasting, gone, faulted>>
dirVars == <<listBackend, files, links, dirs, changes, gone>>

Root == <<>>
NoFilter == ""
Parent(p) == Front(p)
Listing == listPc \notin {"idle", "answered"}

(* The staging file of a key's writer, a sibling of the object. *)
Staging(k) == Append(Parent(k), StageName[Last(k)])

(* The files writers make are among the paths that are ordered. *)
ASSUME OrderAssumption == \A k \in Keys : {k, Staging(k)} \subseteq Range(PathOrder)

(* The directories above a path. *)
Above(p) == {SubSeq(p, 1, n) : n \in 0 .. Len(p) - 1}

(* canonicalize has followed every link on the way to a target. *)
ASSUME TargetAssumption ==
    \A l \in DOMAIN LinkTarget : ({LinkTarget[l]} \cup Above(LinkTarget[l])) \cap Links = {}

ListInit ==
    /\ listBackend \in ListBackends
    /\ files \in SUBSET (Keys \cup {Staging(k) : k \in Keys})
    /\ links \in IF listBackend = "local" THEN SUBSET Links ELSE {{}}
    /\ dirs = {Root} \cup UNION {Above(p) : p \in files \cup links}
    /\ dirs \cap (files \cup links) = {} /\ files \cap links = {}
    /\ changes = 0
    /\ listPc = "idle" /\ prefix = Root /\ filter = NoFilter /\ stack = <<>>
    /\ entry = Root /\ fileType = "none" /\ entries = <<>> /\ answer = "none"
    /\ lasting = {} /\ gone = {} /\ faulted = FALSE
-----------------------------------------------------------------------------
(* What writers do to the directory while the list is under way; it may    *)
(* begin in any tree.  A name that is removed may be returned again by a   *)
(* readdir under way once it is made again.                                *)
Change(newFiles, newDirs) ==
    /\ Listing
    /\ changes < MaxChanges /\ changes' = changes + 1
    /\ files' = newFiles /\ dirs' = newDirs
    /\ lasting' = lasting \cap (newFiles \cup newDirs \cup links)
    /\ gone' = gone \cup (files \ newFiles)
    /\ stack' = [i \in DOMAIN stack |->
                   [stack[i] EXCEPT !.returned = @ \cap (newFiles \cup newDirs \cup links)]]
    /\ UNCHANGED <<listBackend, links, listPc, prefix, filter, entry, fileType, entries,
                   answer, faulted>>

(* writer_open: ensure_local_parent, then the staging file, which is new. *)
StageFile(k) ==
    /\ Staging(k) \notin files \cup dirs \cup links
    /\ Above(k) \cap (files \cup links) = {} /\ k \notin dirs
    /\ Change(files \cup {Staging(k)}, dirs \cup Above(k))

PublishFile(k) ==
    /\ Staging(k) \in files /\ k \notin dirs
    /\ Change((files \ {Staging(k)}) \cup {k}, dirs)

CancelFile(k) ==
    /\ Staging(k) \in files
    /\ Change(files \ {Staging(k)}, dirs)

DeleteFile(k) ==
    /\ k \in files
    /\ Change(files \ {k}, dirs)
-----------------------------------------------------------------------------
(* The list ends; an error drops what it has. *)
Answer(a, list) ==
    /\ listPc' = "answered" /\ answer' = a /\ entries' = list
    /\ stack' = <<>> /\ entry' = Root /\ fileType' = "none" /\ filter' = NoFilter

Fail(category) == Answer(category, <<>>)
Proceed(to) ==
    listPc' = to /\ UNCHANGED <<filter, stack, entry, fileType, entries, answer>>

(* visit_directory's read_dir. *)
Open(dir) == <<[dir |-> dir, returned |-> {}]>> \o stack

Walk(dir, f) ==
    /\ listPc' = "walk" /\ stack' = Open(dir) /\ filter' = f
    /\ UNCHANGED <<entry, fileType, entries, answer>>

(* local_list: what the prefix names decides what is listed.  A missing one *)
(* is looked for among its parent's entries.                                *)
(* MUTANT: ... also when there is no such parent. *)
ListMissingAnyway(p) ==
    IF Parent(p) \in dirs THEN Walk(Parent(p), Last(p)) ELSE Fail("not_found")

ListMissing(p) ==
    IF Parent(p) \in dirs THEN Walk(Parent(p), Last(p)) ELSE Answer("ok", <<>>)

(* fs::metadata follows the links on the way to the prefix, ... *)
FollowLink ==
    /\ listPc = "lookup"
    /\ \E l \in Above(prefix) \cap (links \ OutsideLinks) :
          prefix' = LinkTarget[l] \o SubSeq(prefix, Len(l) + 1, Len(prefix))
    /\ UNCHANGED <<dirVars, listPc, filter, stack, entry, fileType, entries, answer,
                   lasting, faulted>>

(* ... and one at the prefix itself, to a directory or a file. *)
Target == IF prefix \in links THEN LinkTarget[prefix] ELSE prefix

LocalList ==
    \/ Target \in dirs /\ prefix' = Target /\ Walk(Target, NoFilter)
    \/ Target \in files /\ prefix' = Target /\ Proceed("head")
    \/ /\ Target \notin files \cup dirs /\ UNCHANGED prefix
       /\ IF Above(Target) \cap files # {} THEN Fail("native_failure")
          ELSE ListMissing(prefix)

(* Outside, what there is at the prefix is refused by enforce_allowed_root; *)
(* what is not there is an empty list, or lies below a file.                *)
OutsideList ==
    /\ Fail("permission_denied") \/ Answer("ok", <<>>) \/ Fail("native_failure")
    /\ UNCHANGED prefix

LookUp ==
    /\ listPc = "lookup"
    /\ Above(prefix) \cap (links \ OutsideLinks) = {}
    /\ IF (Above(prefix) \cup {prefix}) \cap links \cap OutsideLinks # {}
       THEN OutsideList ELSE LocalList
    /\ UNCHANGED <<dirVars, lasting, faulted>>

BeginList(p) ==
    /\ listPc = "idle"
    /\ prefix' = p
    /\ lasting' = files \cup dirs \cup links
    /\ Proceed(IF listBackend = "local" THEN "lookup" ELSE "page")
    /\ UNCHANGED <<dirVars, faulted>>

(* metadata_for, of a file that is not there any more: there may be a *)
(* directory in its place.                                            *)
NoFile(p) == Fail(IF p \in dirs THEN "invalid_argument" ELSE "not_found")

(* The prefix was a file: LocalStore::head looks at it again. *)
HeadPrefix ==
    /\ listPc = "head"
    /\ IF prefix \in files THEN Answer("ok", <<prefix>>) ELSE NoFile(prefix)
    /\ UNCHANGED <<dirVars, prefix, lasting, faulted>>
-----------------------------------------------------------------------------
Top == Head(stack)
Children(d) == {p \in files \cup dirs \cup links : p # Root /\ Parent(p) = d}

KindOf(p) == IF p \in dirs THEN "dir" ELSE IF p \in links THEN "link" ELSE "file"

(* readdir returns an entry that is there and has not been returned ... *)
ReadEntry ==
    /\ listPc = "walk"
    /\ \E p \in Children(Top.dir) \ Top.returned :
          /\ entry' = p /\ fileType' = KindOf(p)
          /\ stack' = [stack EXCEPT ![1].returned = @ \cup {p}]
    /\ listPc' = "stat"
    /\ UNCHANGED <<dirVars, prefix, filter, entries, answer, lasting, faulted>>

(* ... and is done once it has returned all that was there throughout. *)
EndDirectory ==
    /\ listPc = "walk"
    /\ Children(Top.dir) \cap lasting \subseteq Top.returned
    /\ stack' = Tail(stack)
    /\ listPc' = IF Len(stack) = 1 THEN "sort" ELSE "walk"
    /\ UNCHANGED <<dirVars, prefix, filter, entry, fileType, entries, answer, lasting,
                   faulted>>

(* relative.starts_with(prefix), below the directory that is listed. *)
Takes(p) ==
    LET name == p[Len(Last(stack).dir) + 1]
    IN  filter \in {NoFilter, name} \/ <<name, filter>> \in Extends

(* The loop's body: a link is checked, a directory walked, a file stat'ed. *)
NextEntry == listPc' = "walk" /\ entry' = Root /\ fileType' = "none"

(* MUTANT: the directories below are left out. *)
VisitDirectoryFlat ==
    /\ fileType = "dir"
    /\ NextEntry
    /\ UNCHANGED <<stack, filter, entries, answer>>

VisitDirectory ==
    /\ fileType = "dir"
    /\ NextEntry /\ stack' = Open(entry)
    /\ UNCHANGED <<filter, entries, answer>>

(* canonicalize, which fails when the link dangles, and the allowed root. *)
VisitLink ==
    /\ fileType = "link"
    /\ IF entry \in OutsideLinks THEN Fail("permission_denied")
       ELSE LET target == LinkTarget[entry] IN
            IF target \in files \cup dirs
            THEN NextEntry /\ UNCHANGED <<stack, filter, entries, answer>>
            ELSE Fail(IF Above(target) \cap files # {} THEN "native_failure"
                      ELSE "not_found")

VisitFile ==
    /\ fileType = "file"
    /\ IF Takes(entry) /\ entry \notin files THEN NoFile(entry)
       ELSE /\ NextEntry
            /\ entries' = IF Takes(entry) THEN Append(entries, entry) ELSE entries
            /\ UNCHANGED <<stack, filter, answer>>

VisitEntry ==
    /\ listPc = "stat"
    /\ VisitDirectory \/ VisitLink \/ VisitFile
    /\ UNCHANGED <<dirVars, prefix, lasting, faulted>>
-----------------------------------------------------------------------------
Position(p) == CHOOSE i \in DOMAIN PathOrder : PathOrder[i] = p

(* The provider's next page: keys below the prefix, after those returned. *)
AfterLast(p) == entries # <<>> => Position(p) > Position(Last(entries))

Page ==
    Select(PathOrder,
           {p \in files \cap Keys : IsStrictPrefix(prefix, p) /\ AfterLast(p)})

NextPage ==
    /\ listPc = "page"
    /\ IF Page = <<>> THEN Proceed("sort")
       ELSE /\ \E n \in 1 .. PageSize :
                  n <= Len(Page) /\ entries' = entries \o SubSeq(Page, 1, n)
            /\ UNCHANGED <<listPc, filter, stack, entry, fileType, answer>>
    /\ UNCHANGED <<dirVars, prefix, lasting, faulted>>

(* entries.sort_by path: the entries, in an order that is one of the paths. *)
InPathOrder(f) ==
    \A i, j \in DOMAIN f : i < j => Position(entries[f[i]]) <= Position(entries[f[j]])

Sorted ==
    LET order == CHOOSE f \in Bijection(DOMAIN entries, DOMAIN entries) : InPathOrder(f)
    IN  [i \in DOMAIN entries |-> entries[order[i]]]

FinishList ==
    /\ listPc = "sort"
    /\ Answer("ok", Sorted)
    /\ UNCHANGED <<dirVars, prefix, lasting, faulted>>

(* from_io, and remote_error for S3, which has no timeout. *)
Categories == {"not_found", "permission_denied", "conflict", "invalid_argument",
               "unsupported", "native_failure"}
              \cup (IF listBackend = "local" THEN {"timeout"} ELSE {})

(* A call of the list fails for a reason of its own: the system or the provider *)
(* refuses it, also with a category that a list has causes for.                 *)
ListCallFails ==
    /\ Listing
    /\ \E category \in Categories : Fail(category)
    /\ faulted' = TRUE
    /\ UNCHANGED <<dirVars, prefix, lasting>>

ListNext ==
    \/ \E k \in Keys : StageFile(k) \/ PublishFile(k) \/ CancelFile(k) \/ DeleteFile(k)
    \/ \E p \in AskedPrefixes : BeginList(p)
    \/ FollowLink \/ LookUp
    \/ HeadPrefix \/ ReadEntry \/ EndDirectory \/ VisitEntry \/ NextPage
    \/ FinishList \/ ListCallFails
-----------------------------------------------------------------------------
(* The path, as a string, begins with the prefix. *)
BeginsWith(p, q) ==
    \/ q = Root
    \/ /\ Len(q) <= Len(p)
       /\ Parent(q) = SubSeq(p, 1, Len(q) - 1)
       /\ \/ p[Len(q)] = Last(q)
          \/ <<p[Len(q)], Last(q)>> \in Extends

(* What lies at or, for S3, below the prefix. *)
Covered(p) == IsStrictPrefix(prefix, p) \/ (listBackend = "local" /\ p = prefix)

(***************************************************************************)
(* A list that answers is ordered, has every object at the prefix that was *)
(* there throughout, and nothing that was never there or does not begin    *)
(* with the prefix, however the directory changes during the walk          *)
(* (visit_directory, S3 pages); it names nothing twice but what has        *)
(* vanished, and may have come back, in the meantime.  The prefix is the   *)
(* one asked for with the links in it followed, as the keys of the answer  *)
(* are (local_list, resolve_existing).                                     *)
(***************************************************************************)
ListExact ==
    answer = "ok" =>
        /\ \A i, j \in DOMAIN entries : i < j =>
              \/ Position(entries[i]) < Position(entries[j])
              \/ entries[i] = entries[j] /\ entries[i] \in gone
        /\ \A i \in DOMAIN entries : entries[i] \in files \cup gone /\ BeginsWith(entries[i], prefix)
        /\ \A k \in Keys \cap files \cap lasting : Covered(k) => k \in Range(entries)

(* The path lies in, or below, the directory of the prefix. *)
AtPrefix(p) == prefix = Root \/ Parent(prefix) \in Above(p)

(***************************************************************************)
(* As long as the system and the provider refuse no call, a list fails     *)
(* only for what it meets.  not_found: a file at the prefix or beside it   *)
(* (an object or a staging file) vanished during the list, or a link there *)
(* dangled at some time; permission_denied: a link there, or on the way to *)
(* the prefix, leads out of the root; invalid_argument: a directory has    *)
(* taken the place of such a file; native_failure: the prefix, or the      *)
(* target of such a link, lay below a file (local_list, visit_directory,   *)
(* metadata_for).                                                          *)
(***************************************************************************)
ListErrorCaused ==
    LET inside == {l \in links \ OutsideLinks : AtPrefix(l)}
        outside == {l \in links \cap OutsideLinks : AtPrefix(l) \/ l \in Above(prefix)}
        past == {g \in gone : AtPrefix(g)}
    IN  ~faulted =>
        /\ answer = "not_found" =>
              past # {} \/ \E l \in inside : LinkTarget[l] \notin lasting
        /\ answer = "permission_denied" => outside # {}
        /\ answer = "invalid_argument" => past \cap dirs # {}
        /\ answer = "native_failure" =>
              \/ outside # {}
              \/ \E p \in {prefix} \cup {LinkTarget[l] : l \in inside} :
                    Above(p) \cap (files \cup gone) # {}
=============================================================================
