------------------------------- MODULE Browse -------------------------------
(***************************************************************************)
(* The browse action: buildDirMap sorts the entries of the index under the  *)
(* directories whose pages will list them, once; browseHandler then answers *)
(* requests.  The user types the address of a page, or follows an item of   *)
(* the page before him.                                                     *)
(*                                                                          *)
(* A link is one segment, url.PathEscape of a base name or of a full path:  *)
(* of all names, only one with a colon does not come back from the browser  *)
(* and the server as it was, which is what the model takes for granted.     *)
(***************************************************************************)
EXTENDS IndexTree

CONSTANTS
    Unescape,   \* what url.PathUnescape makes of a name
    Bad,        \* an escape that is not valid
    Colon,      \* names with a colon
    Web,        \* those of them that begin with http:, https: or mailto:
    NoItem      \* no item was followed

ASSUME NameAssumption ==
    \A e \in Indexes : \A p \in DOMAIN e : \A i \in DOMAIN p : p[i] # Bad

VARIABLES
    cleans,   \* whether the mux redirects // to /: not by default since Go 1.22
    page      \* the page before the user

browseVars == <<entries, cleans, page>>

Blank == [kind |-> "blank", path |-> Root, base |-> Root, item |-> NoItem, straight |-> FALSE]

BrowseInit ==
    /\ entries \in Indexes
    /\ cleans \in BOOLEAN
    /\ page = Blank

\* Mutant: an entry is listed by its name where its parent would be.
ByNameAlways(p) == p # Root

\* An entry whose parent is an entry is listed there by its base name; any
\* other one, such as what FilePaths names, in the root by its full path.
ByName(p) == p # Root /\ Parent(p) \in Dirs

ListedIn(p) == IF ByName(p) THEN Parent(p) ELSE Root

\* buildDirMap: a directory without entries has no page.
DirMap == [d \in {ListedIn(p) : p \in Paths} |-> {p \in Paths : ListedIn(p) = d}]

\* Mutant: only directories and files have pages.
KindAtUnlinked(p) ==
    CASE p \in DOMAIN DirMap -> "dir"
      [] p \notin DOMAIN DirMap /\ p \in Paths /\ entries[p].kind = "file" -> "file"
      [] OTHER -> "missing"

\* browseHandler for the path it has unescaped: page, file, link or 404.
KindAt(p) ==
    CASE p \in DOMAIN DirMap -> "dir"
      [] p \notin DOMAIN DirMap /\ p \in Paths \ Dirs -> entries[p].kind
      [] OTHER -> "missing"

\* The page for a request whose URL the server has already unescaped to names;
\* browseHandler unescapes them once more.  A URL that begins with // finds
\* nothing, unless the mux sends the client on to the clean one.
Answer(names, doubled) ==
    LET p == [i \in DOMAIN names |-> Unescape[names[i]]]
    IN CASE \E i \in DOMAIN p : p[i] = Bad -> [kind |-> "bad", path |-> names]
         [] doubled /\ ~cleans -> [kind |-> "missing", path |-> names]
         [] OTHER -> [kind |-> KindAt(p), path |-> p]

\* Without the slash at its end, relative links lead to the parent's names.
Type(p, slash) ==
    /\ page' = [kind |-> Answer(p, FALSE).kind, path |-> Answer(p, FALSE).path,
                base |-> IF slash THEN p ELSE Parent(p), item |-> NoItem, straight |-> FALSE]
    /\ UNCHANGED <<entries, cleans>>

\* The names that the link of an item is made of, and whether one has a colon.
Link(p) == IF ByName(p) THEN <<p[Len(p)]>> ELSE p
HasColon(p) == \E i \in DOMAIN Link(p) : Link(p)[i] \in Colon

\* PathEscape keeps a colon.  html/template sees a scheme before it and writes
\* #ZgotmplZ instead, which leaves the user where he is; but a name that begins
\* with a scheme it knows passes, and the browser goes elsewhere.
FollowColon(p) ==
    /\ page.kind = "dir" /\ p \in DirMap[page.path] /\ HasColon(p)
    /\ page' = [page EXCEPT !.kind = IF ByName(p) /\ p[Len(p)] \in Web THEN "away" ELSE @,
                           !.item = p, !.straight = page.base = page.path]
    /\ UNCHANGED <<entries, cleans>>

Follow(p) ==
    /\ page.kind = "dir" /\ p \in DirMap[page.path] /\ ~HasColon(p)
    /\ LET names == IF ByName(p) THEN Append(page.base, p[Len(p)]) ELSE p
           a     == Answer(names, ~ByName(p))
       IN page' = [kind |-> a.kind, path |-> a.path, base |-> names, item |-> p,
                   straight |-> page.base = page.path]
    /\ UNCHANGED <<entries, cleans>>

BrowseStep ==
    \/ \E p \in DOMAIN DirMap \cup {Root}, slash \in BOOLEAN : Type(p, slash)
    \/ \E p \in Paths : Follow(p) \/ FollowColon(p)

BrowseSpec == BrowseInit /\ [][BrowseStep]_browseVars

-----------------------------------------------------------------------------
\* No name of p reads like an escape.
Plain(p) == \A i \in DOMAIN p : Unescape[p[i]] = p[i]

\* What a page lists opens when it is followed: the page of this very entry,
\* with five exceptions.  A directory without entries has no page (404); a name
\* that reads like an escape is unescaped twice (404, 400, or another entry); a
\* name with a colon has no link (see FollowColon); an item listed by its full
\* path needs a mux that cleans //; and a page that was asked for without its
\* final slash has wrong links.
ItemsOpen ==
    LET p == page.item IN
    /\ p # NoItem /\ Plain(p) /\ ~HasColon(p) /\ page.straight
    /\ p \in Dirs => p \in DOMAIN DirMap
    /\ ByName(p) \/ cleans
    => page.path = p /\ page.kind = entries[p].kind

\* Directory pages to be had from /, by following an item or typing the path it
\* shows: those in every set that is closed under this.
Reachable ==
    LET pages == DOMAIN DirMap
        closed(S) ==
            /\ {Root} \cap pages \subseteq S
            /\ \A d \in S : \A p \in DirMap[d] \cap pages : Plain(p) => p \in S
    IN {d \in pages : \A S \in SUBSET pages : closed(S) => d \in S}

\* However the paths that were backed up lie to one another, and whichever
\* directories the scan could not read, every entry is listed on a page that is
\* to be had from /, unless a directory above it has a name like an escape.
AllListed ==
    \A p \in Paths : Plain(ListedIn(p)) => \E d \in Reachable : p \in DirMap[d]
=============================================================================
