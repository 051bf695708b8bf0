----------------------------- MODULE CosmoGuard -----------------------------
(***************************************************************************)
(* CosmoGuard as a whole (cosmoguard.go): the goroutine that reads the     *)
(* configuration and hands the rules to one proxy after the other, and the *)
(* proxies that serve requests meanwhile.  SetRules waits for the write    *)
(* lock of a proxy, that is, for the requests it is serving, and the       *)
(* reload of all later proxies with it.                                    *)
(*                                                                         *)
(* The LCD proxy and the gRPC proxy, first in the order of applyRules,     *)
(* have requests here.  The other HTTP proxies are like the first, and the *)
(* JSON-RPC handlers are those of JsonRpcHandler: SetRules of each is one  *)
(* step, which need not come: a request may keep the lock.                 *)
(***************************************************************************)
EXTENDS ConfigFile

CONSTANTS
    Workers, CacheMayFail,  \* see HttpProxy
    Calls                   \* see GrpcProxy

VARIABLES
    file, saving, saves, events, watching, run, cfg, built, todo, installed, missed,
    lcdSetting, cache, lcdPc, lcdKey, ruleCache, reply,
    grpcSetting, grpcPc, grpcKey

reloadVars == <<file, saving, saves, events, watching, run, cfg, built, todo, installed, missed>>
lcdVars    == <<lcdSetting, cache, lcdPc, lcdKey, ruleCache, reply>>
grpcVars   == <<grpcSetting, grpcPc, grpcKey>>
vars       == <<reloadVars, lcdVars, grpcVars>>

Reload == INSTANCE ConfigReload WITH pc <- run

Lcd == INSTANCE HttpProxy WITH
    rules <- installed["lcd"].rules, defaultAction <- installed["lcd"].default,
    setting <- lcdSetting, pc <- lcdPc, key <- lcdKey

Grpc == INSTANCE GrpcProxy WITH
    rules <- installed["grpc"].rules, defaultAction <- installed["grpc"].default,
    setting <- grpcSetting, pc <- grpcPc, key <- grpcKey

TypeOK == Reload!TypeOK /\ Lcd!TypeOK /\ Grpc!TypeOK

Init == Reload!Init /\ Lcd!Init /\ Grpc!Init

-----------------------------------------------------------------------------
(* applyRules *)

Turn(s) == run = "apply" /\ todo # <<>> /\ Head(todo) = s

\* SetRules is called; from here new requests wait
CallLcd ==
    /\ Turn("lcd")
    /\ UNCHANGED <<reloadVars, grpcVars>>
    /\ Lcd!SetRules

\* SetRules has the lock, assigns and returns
ReturnLcd ==
    /\ Turn("lcd")
    /\ Reload!ApplyRules
    /\ Lcd!Install(cfg.rules, cfg.default)
    /\ UNCHANGED grpcVars

CallGrpc ==
    /\ Turn("grpc")
    /\ UNCHANGED <<reloadVars, lcdVars>>
    /\ Grpc!SetRules

ReturnGrpc ==
    /\ Turn("grpc")
    /\ Reload!ApplyRules
    /\ Grpc!Install(cfg.rules, cfg.default)
    /\ UNCHANGED lcdVars

ApplyOthers ==
    /\ ~Turn("lcd") /\ ~Turn("grpc")
    /\ Reload!ApplyRules
    /\ UNCHANGED <<lcdVars, grpcVars>>

Watcher ==
    /\ Reload!LoadConfig \/ Reload!Watch \/ Reload!Event
    /\ UNCHANGED <<lcdVars, grpcVars>>

WatcherFails == Reload!WatchFails /\ UNCHANGED <<lcdVars, grpcVars>>

Step == CallLcd \/ ReturnLcd \/ CallGrpc \/ ReturnGrpc \/ Watcher

EditorEnds == Reload!SaveEnds /\ UNCHANGED <<lcdVars, grpcVars>>

Editor ==
    \/ EditorEnds
    \/ (\E c \in Contents : Reload!Save(c)) /\ UNCHANGED <<lcdVars, grpcVars>>

-----------------------------------------------------------------------------
(* Run starts the proxies after the first applyRules, before WatchConfigFile. *)

Serving == watching \/ (run = "apply" /\ todo = <<>>)
Running == Serving /\ ~Reload!Gone

LcdTraffic ==
    /\ Running
    /\ UNCHANGED <<reloadVars, grpcVars>>
    /\ Lcd!Traffic

GrpcTraffic ==
    /\ Running
    /\ UNCHANGED <<reloadVars, lcdVars>>
    /\ Grpc!Traffic

Stopped == UNCHANGED vars /\ Reload!Stopped

Next ==
    Step \/ ApplyOthers \/ WatcherFails \/ Editor \/ LcdTraffic \/ GrpcTraffic \/ Stopped

Spec == Init /\ [][Next]_vars

(* Goroutines that can run do.  Nothing is assumed of the node or the client  *)
(* of a request, which neither the server nor the reverse proxy gives a       *)
(* deadline, nor of SetRules of the proxies whose requests are not here.      *)
LcdServes(w)   == Running /\ UNCHANGED reloadVars /\ Lcd!Advance(w) /\ UNCHANGED grpcVars
GrpcHandles(c) == Running /\ UNCHANGED reloadVars /\ Grpc!Handle(c) /\ UNCHANGED lcdVars

FairSpec ==
    /\ Spec
    /\ WF_vars(Step) /\ WF_vars(EditorEnds)
    /\ \A w \in Workers : WF_vars(LcdServes(w))
    /\ \A c \in Calls : WF_vars(GrpcHandles(c))

-----------------------------------------------------------------------------
(* Properties *)

\* See ConfigReload: now with SetRules waiting for the requests of the two proxies.
SettledOnFile == Reload!SettledOnFile

\* SetRules of a proxy whose requests are not here
OthersTurn == run = "apply" /\ todo # <<>> /\ ~Turn("lcd") /\ ~Turn("grpc")

\* A change of the file that was notified is followed by a state in which all proxies
\* have the rules of the file, unless the process ends, or a request keeps the lock of
\* its rules for ever: in the LCD proxy only one that waits for ever for its node or
\* its client does, whatever requests come while SetRules waits.
ChangesApply ==
    (\A w \in Workers : []<>~Lcd!Waiting(w)) /\ []<>~OthersTurn => Reload!ChangesApply

\* See HttpProxy: the rules do not change under a request.
ServedUnderRules == Lcd!ServedUnderRules

\* Whatever enters the cache was let through, and is of a kind to be cached, by the
\* rules that are installed when it enters.
StoredAsRuled ==
    [][\A k \in Keys : cache'[k] \notin {None, cache[k]} =>
          LET p == installed["lcd"]
              c == CacheOf(p.rules, k, None)
          IN  /\ Allows(p.rules, p.default, k)
              /\ c # None /\ c.enable
              /\ cache'[k].kind = "error" => c.cacheError]_cache

\* Once the proxies have settled on the file, the LCD proxy has no request on its way
\* to the node, or to an answer from the cache, that the file does not allow.  (Calls
\* of the gRPC proxy and batches of JSON-RPC give up the lock and may go on.)
SettledTraffic ==
    Reload!Settled =>
        \E c \in ReadConfigFromFile(file) : \A w \in Workers :
            Lcd!Passed(w) => Allows(c.rules, c.default, lcdKey[w])

\* Both proxies are firewalls; the one for HTTP keeps its rules while it serves.
LcdImplementsFirewall  == Lcd!Rulebook!Spec
GrpcImplementsFirewall == Grpc!Rulebook!Spec
=============================================================================
