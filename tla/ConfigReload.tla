---------------------------- MODULE ConfigReload ----------------------------
(***************************************************************************)
(* Hot reload (New, Run, WatchConfigFile, loadConfig and applyRules in     *)
(* cosmoguard.go): one goroutine that reads the file and hands its rules   *)
(* to one proxy after the other, while the file is being edited.           *)
(* External: the editor and the notifications of fsnotify.                 *)
(***************************************************************************)
EXTENDS ConfigFile

\* the proxies in the order of applyRules
Base == <<"lcd", "grpc", "rpc", "jsonrpc">>
Evm  == <<"evmRpc", "evmJsonRpc", "evmJsonRpcWs">>
Order(c) == IF c.evm THEN Base \o Evm ELSE Base
Sections == {"lcd", "grpc", "rpc", "jsonrpc", "evmRpc", "evmJsonRpc", "evmJsonRpcWs"}

VARIABLES
    file,       \* the configuration file
    saving,     \* what the editor is in the middle of writing
    saves,      \* saves so far
    events,     \* notifications that WatchConfigFile has not received
    watching,   \* watcher.Add has been called
    pc,         \* the goroutine of Run
    cfg,        \* f.cfg
    built,      \* New has made the EVM proxies
    todo,       \* sections that applyRules has not reached
    installed,  \* rules and default action of each proxy
    missed      \* the file has changed unnoticed since it was read

editVars == <<file, saving, saves>>
vars == <<editVars, events, watching, pc, cfg, built, todo, installed, missed>>

TypeOK ==
    /\ file \in Config \cup {Unreadable}
    /\ saving \in Contents \cup {None}
    /\ saves \in 0..MaxSaves
    /\ events \in 0..(2 * MaxSaves)
    /\ watching \in BOOLEAN /\ built \in BOOLEAN /\ missed \in BOOLEAN
    /\ pc \in {"new", "apply", "wait", "load", "exited", "unwatched"}
    /\ cfg \in Config \cup {None}
    /\ todo \in Seq(Sections)
    /\ installed \in [Sections -> [rules : Seq(Rules), default : {"allow", "deny", ""}]]

Init ==
    /\ file \in Contents /\ saving = None /\ saves = 0
    /\ events = 0 /\ watching = FALSE
    /\ pc = "new" /\ cfg = None /\ built = FALSE /\ todo = <<>>
    /\ installed = [s \in Sections |-> Unset]
    /\ missed = FALSE

-----------------------------------------------------------------------------
(* External: the editor.  It replaces the file at once, or goes through a     *)
(* state in which the file is gone, empty or incomplete.                     *)

Notify == /\ events' = IF watching THEN events + 1 ELSE events
          /\ missed' = (missed \/ ~watching)

Save(c) ==
    /\ saving = None
    /\ saves < MaxSaves
    /\ saves' = saves + 1
    /\ \/ file' = c /\ UNCHANGED saving
       \/ \E x \in Partial : file' = x /\ saving' = c
    /\ Notify
    /\ UNCHANGED <<watching, pc, cfg, built, todo, installed>>

SaveEnds ==
    /\ saving # None
    /\ file' = saving
    /\ saving' = None
    /\ Notify
    /\ UNCHANGED <<saves, watching, pc, cfg, built, todo, installed>>

-----------------------------------------------------------------------------
(* The goroutine of Run *)

\* loadConfig in New, and on an event.  An error is returned from Run, and main
\* ends the process.
LoadConfig ==
    /\ pc \in {"new", "load"}
    /\ IF file = Unreadable
       THEN pc' = "exited" /\ cfg' = None /\ UNCHANGED <<built, todo, missed>>
       ELSE \E c \in ReadConfigFromFile(file) :
                /\ cfg' = c
                /\ built' = IF pc = "new" THEN c.evm ELSE built
                /\ todo' = Order(c)
                /\ missed' = FALSE
                /\ pc' = "apply"
    /\ UNCHANGED <<editVars, events, watching, installed>>

\* applyRules: SetRules of the next proxy; EVM proxies that New has not made are nil
ApplyRules ==
    /\ pc = "apply"
    /\ todo # <<>>
    /\ IF Head(todo) \in {"evmRpc", "evmJsonRpc", "evmJsonRpcWs"} /\ ~built
       THEN pc' = "exited" /\ UNCHANGED <<todo, installed>>
       ELSE /\ installed' = [installed EXCEPT ![Head(todo)] = Policy(cfg)]
            /\ todo' = Tail(todo)
            /\ UNCHANGED pc
    /\ UNCHANGED <<editVars, events, watching, cfg, built, missed>>

\* mutant: notifications that came during the reload are taken as served
WatchDrains ==
    /\ pc = "apply"
    /\ todo = <<>>
    /\ pc' = "wait"
    /\ watching' = TRUE
    /\ events' = 0
    /\ UNCHANGED <<editVars, cfg, built, todo, installed, missed>>

\* the loop of WatchConfigFile; the watcher starts after the first applyRules
Watch ==
    /\ pc = "apply"
    /\ todo = <<>>
    /\ pc' = "wait"
    /\ watching' = TRUE
    /\ UNCHANGED <<editVars, events, cfg, built, todo, installed, missed>>

Event ==
    /\ pc = "wait"
    /\ events > 0
    /\ events' = events - 1
    /\ pc' = "load"
    /\ UNCHANGED <<editVars, watching, cfg, built, todo, installed, missed>>

\* The watcher cannot be made, or reports an error: Run returns it as well.
WatchFails ==
    /\ pc = "wait" \/ (pc = "apply" /\ todo = <<>> /\ ~watching)
    /\ pc' = "unwatched"
    /\ UNCHANGED <<editVars, events, watching, cfg, built, todo, installed, missed>>

-----------------------------------------------------------------------------
\* Run has returned, or has panicked, and main has ended the process
Gone == pc \in {"exited", "unwatched"}

Stopped == (Gone \/ (pc = "wait" /\ events = 0 /\ saves = MaxSaves)) /\ UNCHANGED vars

Next ==
    \/ \E c \in Contents : Save(c)
    \/ SaveEnds \/ LoadConfig \/ ApplyRules \/ Watch \/ Event \/ WatchFails \/ Stopped

Spec == Init /\ [][Next]_vars

-----------------------------------------------------------------------------
(* Properties *)

InForce(c) ==
    \A i \in DOMAIN Order(c) :
        installed[Order(c)[i]] \in {Policy(r) : r \in ReadConfigFromFile(c)}

\* The watcher waits and no notification is on its way.  (A change between the
\* first read and watcher.Add goes unnoticed: missed.)
Settled == pc = "wait" /\ events = 0 /\ ~missed /\ file # Unreadable

\* Once settled, every proxy has the rules and the default action of the file as
\* it is now, however saves and reloads overlapped.
SettledOnFile == Settled => InForce(file)

\* README.md on rule prioritization: the rules of a proxy are in the order of their
\* priorities, lower numbers first.
PriorityOrder ==
    \A s \in Sections : \A i, j \in DOMAIN installed[s].rules :
        i < j => installed[s].rules[i].priority <= installed[s].rules[j].priority

\* A change of the file that was notified is followed by a state in which all
\* proxies have the rules of the file, unless the process has ended.
ChangesApply ==
    events > 0 ~> Gone \/ (file # Unreadable /\ InForce(file))

\* README.md: the configuration file can be updated without restarting.  Once the
\* watcher runs, no save of the file ends the process.
KeepsRunning == watching => pc # "exited"
=============================================================================
