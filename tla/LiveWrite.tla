----------------------------- MODULE LiveWrite -----------------------------
(***************************************************************************)
(* The commands that write to the live DataModel (cli/live/write.rs): set, *)
(* set --batch, new, rm, mv, attr, tag, call, eval.  A command screens its *)
(* own arguments before it opens a socket, the plugin checks them again    *)
(* (Remote/WriteRules, Remote/Handlers/Write) and applies them, and the    *)
(* command decides its exit status from the answer.  Several commands run  *)
(* at once; a writer of the requests that is no command of this file (a    *)
(* workflow, another program) does not screen.  A write of a script's      *)
(* source yields: the other handlers run meanwhile.                        *)
(***************************************************************************)
EXTENDS Integers, Sequences, FiniteSets

CONSTANTS
    Client,       \* the programs that send one request each
    Unscreened,   \* those that are no command of the CLI
    Inst,         \* instances that can be in the tree
    Service,      \* top-level services
    Present,      \* Present[i]: where i is at first, or "nowhere"
    Requests,     \* the requests they may choose
    MaxTimeouts   \* bound on commands that stop waiting

VARIABLES
    parent,       \* parent[i]: the instance or service above i, or Nowhere
    name,         \* name[n]: the Name property
    marks,        \* marks[i]: the attributes and tags i carries
    source,       \* source[i]: what was last written to Source
    turn,         \* the request whose handler runs without yielding, or Nobody
    client,       \* client[c]: [pc, req, at, results, made, exit]
    applied,      \* applied[c]: the entries of c's request that took effect
    audited,      \* requests whose answer carried an audit object
    timeouts

liveVars == <<parent, name, marks, source, turn, client, applied, audited, timeouts>>

Nowhere == "nowhere"
Nobody  == "nobody"
Node    == Inst \cup Service
NoReq   == [op |-> "none", writes |-> <<>>, keepGoing |-> FALSE, force |-> FALSE]

(* An entry of a request: the path, the property and the value.  A single   *)
(* set is a batch of one.                                                  *)
Entry(path, prop, value) == [path |-> path, prop |-> prop, value |-> value]
Req(op, writes, keepGoing, force) ==
    [op |-> op, writes |-> writes, keepGoing |-> keepGoing, force |-> force]

Empty   == ""
Slashed == "a/b"

---------------------------------------------------------------------------
(* Paths *)

InTree(n) == n \in Service \/ parent[n] # Nowhere

RECURSIVE Above(_)
Above(n) == IF n \in Service \/ parent[n] = Nowhere THEN {n} ELSE {n} \cup Above(parent[n])

(* Paths.tryResolve: FindFirstChild at every segment.  Which of two children *)
(* of one name is first depends on the order they were added.              *)
RECURSIVE At(_, _)
At(from, segments) ==
    IF segments = <<>> THEN {from}
    ELSE UNION {At(i, Tail(segments)) :
                i \in {i \in Inst : parent[i] = from /\ name[i] = Head(segments)}}

Resolve(path) ==
    IF path = <<>> THEN {}
    ELSE UNION {At(s, Tail(path)) : s \in {s \in Service : name[s] = Head(path)}}

RECURSIVE PathOf(_)
PathOf(n) == IF n \in Service THEN <<name[n]>> ELSE Append(PathOf(parent[n]), name[n])

(* WriteRules.serviceOf and the CLI's service_of: the first segment *)
ServiceOf(path) == IF path = <<>> THEN "" ELSE path[1]

---------------------------------------------------------------------------
(* The screens of the command line *)

ScreenName(value) == value # Empty /\ value # Slashed

ScreenSet(req) ==
    LET w == req.writes[1] IN
    /\ w.prop = "Parent" => req.force
    /\ w.prop = "Name" => ScreenName(w.value)

(* The whole file is read and one guarded entry refuses it, forced or not *)
ScreenBatch(req) ==
    /\ req.writes # <<>>
    /\ \A k \in DOMAIN req.writes :
        /\ req.writes[k].prop # "Parent"
        /\ req.writes[k].prop = "Name" => ScreenName(req.writes[k].value)

ScreenNew(req) == \A k \in DOMAIN req.writes : req.writes[k].prop = "Name" => ScreenName(req.writes[k].value)

ScreenMv(req) ==
    req.force \/ ServiceOf(req.writes[1].path) = ServiceOf(req.writes[1].value)

Screened(req) ==
    CASE req.op = "set"       -> ScreenSet(req)
      [] req.op = "set_batch" -> ScreenBatch(req)
      [] req.op = "new"       -> ScreenNew(req)
      [] req.op = "mv"        -> ScreenMv(req)
      [] OTHER                -> TRUE

---------------------------------------------------------------------------
(* The guards of the plugin *)

CheckNameWrite(prop, value) == prop = "Name" => value # Empty /\ value # Slashed
CheckParentGuard(req) == req.writes[1].prop = "Parent" => req.force
ValidateBatch(req) ==
    req.writes # <<>> /\ \A k \in DOMAIN req.writes : req.writes[k].prop # "Parent"

PreFlight(req) ==
    CASE req.op = "set"       -> CheckParentGuard(req)
      [] req.op = "set_batch" -> ValidateBatch(req)
      [] OTHER                -> TRUE

---------------------------------------------------------------------------
LiveInit ==
    /\ parent = Present
    /\ name = [n \in Node |-> IF n \in Service THEN n ELSE "Part"]
    /\ marks = [i \in Inst |-> {}]
    /\ source = [i \in Inst |-> "none"]
    /\ turn = Nobody
    /\ client = [c \in Client |-> [pc |-> "screen", req |-> NoReq, at |-> 1,
                                   results |-> <<>>, made |-> Nowhere, exit |-> "none"]]
    /\ applied = [c \in Client |-> {}]
    /\ audited = {}
    /\ timeouts = 0

(* The user types a command.  A refusal opens no socket *)
Screen(c) ==
    /\ client[c].pc = "screen"
    /\ \E req \in Requests :
        client' = IF c \in Unscreened \/ Screened(req)
                  THEN [client EXCEPT ![c].req = req, ![c].pc = "sent"]
                  ELSE [client EXCEPT ![c].req = req, ![c].pc = "done", ![c].exit = "refused"]
    /\ UNCHANGED <<parent, name, marks, source, turn, applied, audited, timeouts>>

(* The command gives up on the answer; the plugin goes on *)
TimeOut(c) ==
    /\ client[c].pc \in {"sent", "running", "yielded", "answered"}
    /\ client[c].exit = "none"
    /\ timeouts < MaxTimeouts
    /\ timeouts' = timeouts + 1
    /\ client' = [client EXCEPT ![c].exit = "timeout"]
    /\ UNCHANGED <<parent, name, marks, source, turn, applied, audited>>

(* The plugin answers: [ok, failed, total] and the audit object *)
Answer(c, results, audit) ==
    /\ client' = [client EXCEPT ![c].pc = "answered", ![c].results = results]
    /\ turn' = Nobody
    /\ audited' = IF audit THEN audited \cup {c} ELSE audited

(* A handler starts: the guards that come before anything is touched *)
Start(c) ==
    /\ client[c].pc = "sent" /\ turn = Nobody
    /\ IF PreFlight(client[c].req)
       THEN /\ client' = [client EXCEPT ![c].pc = "running"]
            /\ turn' = c
            /\ UNCHANGED audited
       ELSE Answer(c, <<"error">>, FALSE)
    /\ UNCHANGED <<parent, name, marks, source, applied, timeouts>>

(* applyProperty, without Source: what it leaves the tree as, or nothing    *)
(* when the guard or the engine refuses (a Parent inside the instance)     *)
Applies(i, w) ==
    /\ CheckNameWrite(w.prop, w.value)
    /\ w.prop = "Parent" => \E p \in Resolve(w.value) : i \notin Above(p)

ApplyProperty(i, w) ==
    /\ name' = IF w.prop = "Name" THEN [name EXCEPT ![i] = w.value] ELSE name
    /\ IF w.prop = "Parent"
       THEN \E p \in Resolve(w.value) : i \notin Above(p) /\ parent' = [parent EXCEPT ![i] = p]
       ELSE parent' = parent
    /\ UNCHANGED marks

(* What follows entry k: the next one, or the answer.  An entry that failed *)
(* stops the batch unless it keeps going, and the rest are skipped         *)
EntryDone(c, ok) ==
    LET me == client[c]
        results == Append(me.results, IF ok THEN "ok" ELSE "error")
        left == Len(me.req.writes) - me.at
        stop == ~ok /\ ~me.req.keepGoing
        all == results \o (IF stop THEN [k \in 1..left |-> "skipped"] ELSE <<>>)
        took == applied[c] # {} \/ ok
    IN  IF stop \/ left = 0 THEN Answer(c, all, took)
        ELSE /\ client' = [client EXCEPT ![c].results = results, ![c].at = @ + 1, ![c].pc = "running"]
             /\ turn' = c
             /\ UNCHANGED audited

(* set and set_batch, one entry: resolve, decode, apply *)
SetEntry(c) ==
    LET me == client[c]
        w  == me.req.writes[me.at]
    IN  /\ me.pc = "running" /\ turn = c
        /\ me.req.op \in {"set", "set_batch"}
        /\ w.prop # "Source"
        /\ \/ /\ \E i \in Resolve(w.path) \cap Inst : Applies(i, w) /\ ApplyProperty(i, w)
              /\ applied' = [applied EXCEPT ![c] = @ \cup {me.at}]
              /\ EntryDone(c, TRUE)
           \/ /\ Resolve(w.path) \cap Inst = {} \/ \E i \in Resolve(w.path) \cap Inst : ~Applies(i, w)
              /\ EntryDone(c, FALSE)
              /\ UNCHANGED <<parent, name, marks, applied>>
        /\ UNCHANGED <<source, timeouts>>

(* UpdateSourceAsync yields between the lookup and the write; afterwards the *)
(* instance may be gone, which is a failed entry                           *)
SourceBegins(c) ==
    LET me == client[c]
        w  == me.req.writes[me.at]
    IN  /\ me.pc = "running" /\ turn = c
        /\ me.req.op \in {"set", "set_batch"} /\ w.prop = "Source"
        /\ \/ \E i \in Resolve(w.path) \cap Inst :
                /\ client' = [client EXCEPT ![c].pc = "yielded", ![c].made = i]
                /\ turn' = Nobody
                /\ UNCHANGED audited
           \/ /\ Resolve(w.path) \cap Inst = {}
              /\ EntryDone(c, FALSE)
        /\ UNCHANGED <<parent, name, marks, source, applied, timeouts>>

SourceEnds(c) ==
    LET me == client[c]
        w  == me.req.writes[me.at]
    IN  /\ me.pc = "yielded" /\ turn = Nobody
        /\ me.req.op \in {"set", "set_batch"}
        /\ IF InTree(me.made)
           THEN /\ source' = [source EXCEPT ![me.made] = w.value]
                /\ applied' = [applied EXCEPT ![c] = @ \cup {me.at}]
                /\ EntryDone(c, TRUE)
           ELSE EntryDone(c, FALSE) /\ UNCHANGED <<source, applied>>
        /\ UNCHANGED <<parent, name, marks, timeouts>>

(* new: properties first, then the parent, the source last.  A failure      *)
(* destroys the half-built instance                                        *)
New(c) ==
    LET me == client[c]
        ws == me.req.writes
        good == \A k \in DOMAIN ws : ws[k].prop # "Parent" /\ CheckNameWrite(ws[k].prop, ws[k].value)
        named == {k \in DOMAIN ws : ws[k].prop = "Name"}
    IN  /\ me.pc = "running" /\ turn = c /\ me.req.op = "new"
        /\ \/ \E p \in Resolve(ws[1].path), i \in {i \in Inst : parent[i] = Nowhere} :
                /\ good
                /\ parent' = [parent EXCEPT ![i] = p]
                /\ name' = IF named = {} THEN [name EXCEPT ![i] = "Part"]
                           ELSE [name EXCEPT ![i] = ws[CHOOSE k \in named : TRUE].value]
                /\ IF \E k \in DOMAIN ws : ws[k].prop = "Source"
                   THEN /\ client' = [client EXCEPT ![c].pc = "yielded", ![c].made = i]
                        /\ turn' = Nobody
                        /\ UNCHANGED <<audited, applied>>
                   ELSE /\ applied' = [applied EXCEPT ![c] = DOMAIN ws]
                        /\ Answer(c, [k \in DOMAIN ws |-> "ok"], TRUE)
           \/ /\ Resolve(ws[1].path) = {} \/ ~good
              /\ Answer(c, <<"error">>, FALSE)
              /\ UNCHANGED <<parent, name, applied>>
        /\ UNCHANGED <<marks, source, timeouts>>

Descendants(i) == {j \in Inst : i \in Above(j)}

NewSource(c) ==
    LET me == client[c]
        ws == me.req.writes
        s  == CHOOSE k \in DOMAIN ws : ws[k].prop = "Source"
    IN  /\ me.pc = "yielded" /\ turn = Nobody /\ me.req.op = "new"
        /\ IF InTree(me.made)
           THEN /\ source' = [source EXCEPT ![me.made] = ws[s].value]
                /\ applied' = [applied EXCEPT ![c] = DOMAIN ws]
                /\ Answer(c, [k \in DOMAIN ws |-> "ok"], TRUE)
                /\ UNCHANGED parent
           ELSE /\ Answer(c, <<"error">>, FALSE)
                /\ parent' = [j \in Inst |-> IF j \in Descendants(me.made) THEN Nowhere ELSE parent[j]]
                /\ UNCHANGED <<source, applied>>
        /\ UNCHANGED <<name, marks, timeouts>>

(* One instance is looked up and something is done to it *)
Single(c, op) ==
    client[c].pc = "running" /\ turn = c /\ client[c].req.op = op

Done(c) ==
    /\ applied' = [applied EXCEPT ![c] = DOMAIN client[c].req.writes]
    /\ Answer(c, <<"ok">>, TRUE)

Refused(c) == Answer(c, <<"error">>, FALSE) /\ UNCHANGED applied

Rm(c) ==
    LET path == client[c].req.writes[1].path IN
    /\ Single(c, "rm")
    /\ \/ \E i \in Resolve(path) \cap Inst :
            /\ parent' = [j \in Inst |-> IF j \in Descendants(i) THEN Nowhere ELSE parent[j]]
            /\ Done(c)
       \/ Resolve(path) \cap Inst = {} /\ Refused(c) /\ UNCHANGED parent
    /\ UNCHANGED <<name, marks, source, timeouts>>

(* The boundary is judged on the paths the two instances have now *)
Mv(c) ==
    LET w == client[c].req.writes[1]
        may(i, p) == /\ i \notin Above(p)
                     /\ client[c].req.force \/ ServiceOf(PathOf(i)) = ServiceOf(PathOf(p))
    IN  /\ Single(c, "mv")
        /\ \/ \E i \in Resolve(w.path) \cap Inst, p \in Resolve(w.value) :
                /\ may(i, p)
                /\ parent' = [parent EXCEPT ![i] = p]
                /\ Done(c)
           \/ /\ ~\E i \in Resolve(w.path) \cap Inst, p \in Resolve(w.value) : may(i, p)
              /\ Refused(c)
              /\ UNCHANGED parent
        /\ UNCHANGED <<name, marks, source, timeouts>>

(* One attribute or tag of one instance.  Adding a tag twice is a success   *)
(* that changes nothing and is not audited; taking away what is not there   *)
(* is NOT_FOUND                                                            *)
Found(c) == Resolve(client[c].req.writes[1].path) \cap Inst
Label(c) == client[c].req.writes[1].value

AttrSet(c) ==
    /\ Single(c, "set_attr")
    /\ \/ \E i \in Found(c) : marks' = [marks EXCEPT ![i] = @ \cup {<<"attr", Label(c)>>}] /\ Done(c)
       \/ Found(c) = {} /\ Refused(c) /\ UNCHANGED marks
    /\ UNCHANGED <<parent, name, source, timeouts>>

AttrRm(c) ==
    /\ Single(c, "rm_attr")
    /\ LET mine == {i \in Found(c) : <<"attr", Label(c)>> \in marks[i]} IN
       \/ \E i \in mine : marks' = [marks EXCEPT ![i] = @ \ {<<"attr", Label(c)>>}] /\ Done(c)
       \/ mine = {} /\ Refused(c) /\ UNCHANGED marks
    /\ UNCHANGED <<parent, name, source, timeouts>>

TagAdd(c) ==
    /\ Single(c, "add_tag")
    /\ \/ \E i \in Found(c) :
            \/ <<"tag", Label(c)>> \notin marks[i]
               /\ marks' = [marks EXCEPT ![i] = @ \cup {<<"tag", Label(c)>>}] /\ Done(c)
            \/ <<"tag", Label(c)>> \in marks[i] /\ Answer(c, <<"already">>, FALSE)
               /\ UNCHANGED <<marks, applied>>
       \/ Found(c) = {} /\ Refused(c) /\ UNCHANGED marks
    /\ UNCHANGED <<parent, name, source, timeouts>>

TagRm(c) ==
    /\ Single(c, "rm_tag")
    /\ LET mine == {i \in Found(c) : <<"tag", Label(c)>> \in marks[i]} IN
       \/ \E i \in mine : marks' = [marks EXCEPT ![i] = @ \ {<<"tag", Label(c)>>}] /\ Done(c)
       \/ mine = {} /\ Refused(c) /\ UNCHANGED marks
    /\ UNCHANGED <<parent, name, source, timeouts>>

(* call runs a method of one instance and eval any Luau: either may rename   *)
(* what it likes, to a name no path spells too (Paths.luau: Studio and eval  *)
(* are not checked), and raise afterwards; only an answer carries the audit *)
UserCode(c, i) ==
    /\ \E new \in {"Part", "Box", Empty, Slashed} : name' = [name EXCEPT ![i] = new]
    /\ applied' = [applied EXCEPT ![c] = {1}]
    /\ \/ Answer(c, <<"ok">>, TRUE)
       \/ Answer(c, <<"error">>, FALSE)

Call(c) ==
    /\ Single(c, "call")
    /\ \/ \E i \in Found(c) : UserCode(c, i)
       \/ Found(c) = {} /\ Refused(c) /\ UNCHANGED name
    /\ UNCHANGED <<parent, marks, source, timeouts>>

Eval(c) ==
    /\ Single(c, "eval")
    /\ \E i \in {i \in Inst : InTree(i)} : UserCode(c, i)
    /\ UNCHANGED <<parent, marks, source, timeouts>>

(* a mutant: a batch told to keep going ends well *)
FailedUnlessKept(req, results) ==
    IF req.keepGoing THEN 0 ELSE Cardinality({k \in DOMAIN results : results[k] = "error"})

(* apply_batch takes `failed` from the answer; the other commands fail when  *)
(* the answer is an error                                                  *)
Failed(req, results) == Cardinality({k \in DOMAIN results : results[k] = "error"})

Report(c) ==
    /\ client[c].pc = "answered"
    /\ client' = [client EXCEPT ![c].pc = "done",
                    ![c].exit = IF @ = "timeout" THEN @
                                ELSE IF Failed(client[c].req, client[c].results) = 0 THEN "ok" ELSE "failed"]
    /\ UNCHANGED <<parent, name, marks, source, turn, applied, audited, timeouts>>

Step(c) ==
    \/ Screen(c) \/ TimeOut(c) \/ Start(c) \/ SetEntry(c) \/ SourceBegins(c) \/ SourceEnds(c)
    \/ New(c) \/ NewSource(c) \/ Rm(c) \/ Mv(c) \/ AttrSet(c) \/ AttrRm(c)
    \/ TagAdd(c) \/ TagRm(c) \/ Call(c) \/ Eval(c) \/ Report(c)

LiveNext == \E c \in Client : Step(c)

LiveSpec == LiveInit /\ [][LiveNext]_liveVars

---------------------------------------------------------------------------
(* Properties *)

(* The exit status can be believed.  A command that ends well had every     *)
(* entry of its request applied, also when another command ran between two  *)
(* of them; one that was refused, or whose `new`, `rm`, `mv` or guard       *)
(* failed, changed nothing.                                                *)
ExitIsTrue ==
    \A c \in Client :
        LET me == client[c] IN
        /\ me.exit = "ok" => applied[c] = DOMAIN me.req.writes \/ me.results = <<"already">>
        /\ me.exit = "refused" => applied[c] = {}
        /\ me.exit = "failed" /\ me.req.op \notin {"set_batch", "call", "eval"} => applied[c] = {}
        /\ me.exit = "failed" => applied[c] # DOMAIN me.req.writes \/ me.req.op \in {"call", "eval"}

(* Every change a request made to Studio is audited ("every mutation tags   *)
(* its response meta with `mutation: true` plus a compact audit object",    *)
(* Handlers/Write.luau:17).  A call that raises after it wrote is not.     *)
ChangesAudited == \A c \in Client : client[c].pc \in {"answered", "done"} /\ applied[c] # {} => c \in audited
=============================================================================
