------------------------------- MODULE Broker -------------------------------
(***************************************************************************)
(* The project broker of the desktop program (broker.rs): a listener that  *)
(* runs while a projects folder is authorized, and POST /projects/init,    *)
(* which creates or adopts the project of a game.  It shares state.json    *)
(* with the webview, which reads the list of projects when it starts, adds *)
(* what the broker tells it, edits its copy and writes it back whole a     *)
(* moment later (app.js, commands.rs state_get and state_set, storage.rs). *)
(*                                                                         *)
(* A step is what runs between two awaits: a lock, the games API, the      *)
(* socket.  A folder is a root, a slug and a number; names of games come   *)
(* with the request or from the games API, else the slug is made of the    *)
(* game id.  HTTP details and the texts of the scaffold are left out.      *)
(***************************************************************************)
EXTENDS Naturals, SequencesExt

CONSTANTS
    Root,               \* projects folders that may be authorized
    Game,
    Click,              \* request ids
    SlugOf,             \* by game: the slug its name gives
    MaxAttempts,        \* MAX_SLUG_ATTEMPTS
    LedgerLimit,
    MaxRequests         \* requests that are made

BrokerAssumption ==
    /\ MaxAttempts \in Nat \ {0} /\ LedgerLimit \in Nat \ {0} /\ MaxRequests \in Nat
    /\ DOMAIN SlugOf = Game

NoRoot == "no root"
NoFolder == "no folder"
Folder == [root : Root, slug : {SlugOf[g] : g \in Game} \cup Game, number : 1 .. MaxAttempts]
Request == 1 .. MaxRequests

VARIABLES
    serving,            \* the root the listener was started with, or NoRoot
    asked,              \* requests so far
    request,            \* by request: what it asks, what it does next, what it found
    createLock,         \* the request that holds create_lock, or 0
    folders,            \* by folder: "free", "link" or "dir"
    registry,           \* state.json: projects in order, each an id, a game and a folder
    ledger,             \* what clicks were answered, oldest first
    names,              \* by game: "unknown", "named" or "nameless"
    webview,            \* the list of projects the webview has
    dirty,              \* its list is to be written back
    gone,               \* history: folders a user has deleted
    unseen              \* history: projects the webview wrote over before it heard of them

webviewVars == <<webview, dirty, gone, unseen>>
brokerVars == <<serving, asked, request, createLock, folders, registry, ledger, names, webviewVars>>

\* A project's id is fresh: here the number of the request that made it
Project == [id : Request, game : Game, folder : Folder]
Blank == [pc |-> "new", click |-> NoRoot, game |-> NoRoot, named |-> FALSE, root |-> NoRoot, folder |-> NoFolder, status |-> "none", event |-> FALSE,
          answer |-> [status |-> "none", folder |-> NoFolder]]

BrokerInit ==
    /\ serving = NoRoot /\ asked = 0 /\ request = [r \in Request |-> Blank] /\ createLock = 0
    /\ folders \in {[f \in Folder |-> IF f \in links THEN "link" ELSE "free"] :
                        links \in {{}} \cup {{f} : f \in {g \in Folder : g.number = 1}}}
    /\ registry = <<>> /\ ledger = <<>> /\ names = [g \in Game |-> "unknown"]
    /\ webview = <<>> /\ dirty = FALSE /\ gone = {} /\ unseen = {}

-----------------------------------------------------------------------------
(* The listener *)

\* authorized_root and bind_first_free: a folder that is none, or no free port, is no listener
AuthorizedRoot(root) == {root, NoRoot}
BindFirstFree(root) == {root, NoRoot}

\* start_on: the same root goes on, another replaces the listener
StartOn(root) ==
    /\ serving # root
    /\ \E known \in AuthorizedRoot(root) :
         IF known = NoRoot THEN UNCHANGED serving ELSE serving' \in BindFirstFree(known)
    /\ UNCHANGED <<asked, request, createLock, folders, registry, ledger, names, webviewVars>>

\* stop: connections that were accepted go on with the root they have
Stop ==
    /\ serving # NoRoot /\ serving' = NoRoot
    /\ UNCHANGED <<asked, request, createLock, folders, registry, ledger, names, webviewVars>>

Goes(r, pc) == request' = [request EXCEPT ![r].pc = pc]

\* accept_loop: a connection, by a click that may have been sent before
Accept(click, game, named) ==
    /\ serving # NoRoot /\ asked < MaxRequests /\ asked' = asked + 1
    /\ request' = [request EXCEPT ![asked + 1] =
                        [Blank EXCEPT !.pc = "read", !.click = click, !.game = game, !.named = named, !.root = serving]]
    /\ UNCHANGED <<serving, createLock, folders, registry, ledger, names, webviewVars>>

\* The end of a request gives the lock back
Ends(r, answer) ==
    /\ request' = [request EXCEPT ![r].pc = "done", ![r].answer = answer]
    /\ createLock' = IF createLock = r THEN 0 ELSE createLock

Refused == [status |-> "refused", folder |-> NoFolder]

\* read_request: a head or body too long, cut off, chunked or without a length is answered at once
ReadRequest(r) ==
    /\ request[r].pc = "read"
    /\ (Goes(r, "route") /\ UNCHANGED createLock) \/ Ends(r, Refused)
    /\ UNCHANGED <<serving, asked, folders, registry, ledger, names, webviewVars>>

\* registered_game_ids, what GET /hello answers
HelloGames == {p.game : p \in {q \in Range(registry) : folders[q.folder] = "dir"}}

\* route: an origin or an unknown path is refused, hello reads the registry under its lock
Route(r) ==
    /\ request[r].pc = "route"
    /\ \/ Goes(r, "parse") /\ UNCHANGED createLock
       \/ Ends(r, Refused)
       \/ Ends(r, [status |-> "hello", folder |-> HelloGames])
    /\ UNCHANGED <<serving, asked, folders, registry, ledger, names, webviewVars>>

\* parse_init: a body that is no request, or that names a path, is refused
ParseInit(r) ==
    /\ request[r].pc = "parse"
    /\ \/ Goes(r, IF request[r].named THEN "lock" ELSE "name") /\ UNCHANGED createLock
       \/ Ends(r, Refused)
    /\ UNCHANGED <<serving, asked, folders, registry, ledger, names, webviewVars>>

\* fetch_game_name: no answer, one too long or without the game is no name
FetchGameName == {"named", "nameless"}

\* resolve_game_name: asked once, and an answer without a name is kept too
ResolveGameName(r) ==
    /\ request[r].pc = "name" /\ Goes(r, "lock")
    /\ \E known \in FetchGameName :
         /\ names[request[r].game] # "unknown" => known = names[request[r].game]
         /\ names' = [names EXCEPT ![request[r].game] = known]
    /\ UNCHANGED <<serving, asked, createLock, folders, registry, ledger, webviewVars>>

-----------------------------------------------------------------------------
(* create_or_adopt *)

\* Mutant: nobody waits
NoLock(r) == UNCHANGED createLock

TakesLock(r) == createLock = 0 /\ createLock' = r

TakeCreateLock(r) ==
    /\ request[r].pc = "lock" /\ TakesLock(r) /\ Goes(r, "replay")
    /\ UNCHANGED <<serving, asked, folders, registry, ledger, names, webviewVars>>

\* replay: the answer to the same click under the same root
Answered(r) == {i \in DOMAIN ledger : ledger[i].click = request[r].click /\ ledger[i].root = request[r].root}

Replay(r) ==
    /\ request[r].pc = "replay"
    /\ IF Answered(r) = {} THEN Goes(r, "registry") /\ UNCHANGED createLock
       ELSE Ends(r, ledger[Min(Answered(r))].answer)
    /\ UNCHANGED <<serving, asked, folders, registry, ledger, names, webviewVars>>

\* existing_project: the records of a game whose folder is there; the first is adopted
Existing(game) == SelectSeq(registry, LAMBDA p : p.game = game /\ folders[p.folder] = "dir")

ReadRegistry(r) ==
    /\ request[r].pc = "registry"
    /\ LET existing == Existing(request[r].game)
       IN  IF existing = <<>> THEN Goes(r, "create")
           ELSE request' = [request EXCEPT ![r].pc = "remember", ![r].folder = Head(existing).folder, ![r].status = "existing"]
    /\ UNCHANGED <<serving, asked, createLock, folders, registry, ledger, names, webviewVars>>

\* name_source and derive_slug: the place's name, else the game's, else the id
Slug(r) == IF request[r].named \/ names[request[r].game] = "named" THEN SlugOf[request[r].game] ELSE request[r].game

Candidate(r, n) == [root |-> request[r].root, slug |-> Slug(r), number |-> n]

\* choose_directory: the first number that is free; a link before it ends the search
Chosen(r) ==
    LET seen == {n \in 1 .. MaxAttempts : folders[Candidate(r, n)] # "dir"}
    IN  {f \in {Candidate(r, Min(seen)) : n \in seen} : folders[f] = "free"}

\* Create, verify that it is inside the root, write the scaffold; what fails after
\* the create removes the folder again
CreateFolder(r) ==
    /\ request[r].pc = "create"
    /\ \/ \E f \in Chosen(r) :
            /\ folders' = [folders EXCEPT ![f] = "dir"]
            /\ request' = [request EXCEPT ![r].pc = "merge", ![r].folder = f, ![r].status = "created"]
            /\ UNCHANGED createLock
       \/ Ends(r, [status |-> "error", folder |-> NoFolder]) /\ UNCHANGED folders
    /\ UNCHANGED <<serving, asked, registry, ledger, names, webviewVars>>

\* merge_project, under state_lock: the list is read again and a record with an id of its
\* own put last, whatever the list holds
MergeProject(r) ==
    /\ request[r].pc = "merge"
    /\ \/ /\ registry' = Append(registry, [id |-> r, game |-> request[r].game, folder |-> request[r].folder])
          /\ Goes(r, "remember") /\ UNCHANGED <<folders, createLock>>
       \/ /\ folders' = [folders EXCEPT ![request[r].folder] = "free"]
          /\ Ends(r, [status |-> "error", folder |-> NoFolder]) /\ UNCHANGED registry
    /\ UNCHANGED <<serving, asked, ledger, names, webviewVars>>

\* remember: the oldest answer goes when the ledger is full; a project that was made is
\* told to the webview
Remember(r) ==
    /\ request[r].pc = "remember"
    /\ LET answer == [status |-> request[r].status, folder |-> request[r].folder]
           kept == IF Len(ledger) >= LedgerLimit THEN Tail(ledger) ELSE ledger
       IN  /\ ledger' = Append(kept, [click |-> request[r].click, root |-> request[r].root, answer |-> answer])
           /\ request' = [request EXCEPT ![r].pc = "done", ![r].answer = answer, ![r].event = request[r].status = "created"]
    /\ createLock' = IF createLock = r THEN 0 ELSE createLock
    /\ UNCHANGED <<serving, asked, folders, registry, names, webviewVars>>

\* CONNECTION_TIMEOUT drops the request at whatever it awaits; locks are given back,
\* a folder that was made stays
TimesOut(r) ==
    /\ request[r].pc \in {"read", "route", "name", "lock", "replay", "registry", "merge", "remember"}
    /\ Ends(r, [status |-> "timeout", folder |-> NoFolder])
    /\ UNCHANGED <<serving, asked, folders, registry, ledger, names, webviewVars>>

-----------------------------------------------------------------------------
(* The webview and the user *)

\* A window that starts reads the list; events sent to the one before are lost
WebviewReads ==
    /\ webview # registry \/ dirty
    /\ webview' = registry /\ dirty' = FALSE
    /\ request' = [r \in Request |-> [request[r] EXCEPT !.event = FALSE]]
    /\ UNCHANGED <<serving, asked, createLock, folders, registry, ledger, names, gone, unseen>>

\* onProjectInit: a record that is not known by its id is put last
WebviewHears(r) ==
    /\ request[r].event /\ request' = [request EXCEPT ![r].event = FALSE] /\ dirty' = TRUE
    /\ webview' = IF \E p \in Range(webview) : p.id = r THEN webview
                  ELSE Append(webview, [id |-> r, game |-> request[r].game, folder |-> request[r].folder])
    /\ UNCHANGED <<serving, asked, createLock, folders, registry, ledger, names, gone, unseen>>

\* addProject, updateProject and removeProject: the user adds a folder of no game, which is
\* not shown, changes the settings of a project or removes one
WebviewEdits ==
    /\ ~ dirty /\ dirty' = TRUE
    /\ webview' \in {SelectSeq(webview, LAMBDA p : p.id # id) : id \in 0 .. MaxRequests}
    /\ UNCHANGED <<serving, asked, request, createLock, folders, registry, ledger, names, gone, unseen>>

\* flushState, state_set and merge_document: the list it has is the list
WebviewWrites ==
    /\ dirty /\ dirty' = FALSE /\ registry' = webview
    /\ unseen' = unseen \cup {p.id : p \in {q \in Range(registry) \ Range(webview) :
                                              request[q.id].pc # "done" \/ request[q.id].event}}
    /\ UNCHANGED <<serving, asked, request, createLock, folders, ledger, names, webview, gone>>

FolderRemoved ==
    /\ \E f \in {g \in Folder : folders[g] = "dir"} : folders' = [folders EXCEPT ![f] = "free"] /\ gone' = gone \cup {f}
    /\ UNCHANGED <<serving, asked, request, createLock, registry, ledger, names, webview, dirty, unseen>>

BrokerNext ==
    \/ Stop \/ WebviewReads \/ WebviewEdits \/ WebviewWrites \/ FolderRemoved
    \/ \E root \in Root : StartOn(root)
    \/ \E c \in Click, g \in Game, named \in BOOLEAN : Accept(c, g, named)
    \/ \E r \in Request :
         \/ ReadRequest(r) \/ Route(r) \/ ParseInit(r) \/ ResolveGameName(r) \/ TakeCreateLock(r) \/ Replay(r) \/ ReadRegistry(r)
         \/ CreateFolder(r) \/ MergeProject(r) \/ Remember(r) \/ TimesOut(r) \/ WebviewHears(r)

BrokerSpec == BrokerInit /\ [][BrokerNext]_brokerVars

-----------------------------------------------------------------------------
(* Properties *)

\* However clicks, retries, timeouts and the webview's writes fall together, a game has two
\* projects that are both there only where a user deleted the folder of one of them, or the
\* webview wrote its list before it had heard of one (broker.rs create_lock, existing_project).
OneProjectPerGame ==
    \A g \in Game : \A p, q \in Range(Existing(g)) :
        p = q \/ {p.folder, q.folder} \cap gone # {} \/ {p.id, q.id} \cap unseen # {}

\* A click for a game that has a project adds no sibling (broker.rs:45-47).  Not so: a record
\* whose folder was deleted stays in the list, and the folder that is made next may be the same.
NoSibling == \A g \in Game : Len(Existing(g)) <= 1
=============================================================================
