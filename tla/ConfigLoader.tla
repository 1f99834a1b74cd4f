---------------------------- MODULE ConfigLoader ----------------------------
(***************************************************************************)
(* pkg/config/loader.go composed with the Manager: the config file, the    *)
(* directory watcher with its debounce timer, and the reloads it starts.   *)
(* Each firing of the timer runs tryReload in a goroutine of its own, so   *)
(* two reloads may overlap when building one outlasts the debounce.        *)
(*                                                                         *)
(* A configuration that Load or Rebuild refuses for good, whatever the     *)
(* reason, has valid = FALSE; Broken is a file that does not parse (half   *)
(* written, say).                                                          *)
(***************************************************************************)
EXTENDS Manager, Naturals

CONSTANTS Broken,        \* content of a file that cannot be loaded
          MaxWrites      \* bound: changes of the file

ASSUME LoaderConstants == Broken \notin Configs /\ MaxWrites \in Nat

VARIABLES file,          \* content of the config file
          writes,        \* how often it changed
          watcher,       \* "off" until New has returned, "on", "done"
          event,         \* an unread file event
          timer,         \* the debounce timer is armed
          phase,         \* where each reload is
          loading,       \* the configuration each reload loaded
          current,       \* l.current
          news,          \* history: what became of the file's present content
          overlapped     \* history: of the reloads since none ran, some began
                         \* during another

fileVars == <<file, writes>>
watchVars == <<watcher, event, timer>>
reloadVars == <<phase, loading, current>>
ldrVars == <<mgrVars, fileVars, watchVars, reloadVars, news, overlapped>>

(***************************************************************************)
(* news: "silent" if the content was written when nobody watched, "heard"  *)
(* if the watcher was told and no reload has read it yet, "read" after,    *)
(* "refused" if the last reload that read it gave up.                      *)
(***************************************************************************)
LdrTypeOK ==
  /\ MgrTypeOK
  /\ file \in Configs \cup {Broken}
  /\ writes \in 0..MaxWrites
  /\ watcher \in {"off", "on", "done"}
  /\ event \in BOOLEAN
  /\ timer \in BOOLEAN
  /\ phase \in [Reloaders -> {"idle", "reading", "loaded", "built", "applied"}]
  /\ loading \in [Reloaders -> SUBSET Configs]
  /\ current \in SUBSET Configs
  /\ news \in {"silent", "heard", "read", "refused"}
  /\ overlapped \in BOOLEAN
  /\ \A p \in Reloaders :
       /\ phase[p] \in {"loaded", "built", "applied"} <=> loading[p] # {}
       /\ phase[p] = "built" <=> rebuild[p] # {}

LdrInit ==
  /\ MgrInit
  /\ file \in Configs \cup {Broken}
  /\ writes = 0
  /\ watcher = "off" /\ event = FALSE /\ timer = FALSE
  /\ phase = [p \in Reloaders |-> "idle"]
  /\ loading = [p \in Reloaders |-> {}]
  /\ current = {}
  /\ news = "silent"
  /\ overlapped = FALSE

AllIdle == \A p \in Reloaders : phase[p] = "idle"

Move(p, step, cfgs) ==
  /\ phase' = [phase EXCEPT ![p] = step]
  /\ loading' = [loading EXCEPT ![p] = cfgs]

-------------------------------------------------------------------------------
(* Somebody (the operator's ConfigMap, an editor) writes the file, with    *)
(* the same content perhaps.                                               *)
Write(content) ==
  /\ writes < MaxWrites
  /\ file' = content
  /\ writes' = writes + 1
  /\ event' = (event \/ watcher = "on")
  /\ news' = IF watcher = "on" THEN "heard" ELSE "silent"
  /\ UNCHANGED <<mgrVars, watcher, timer, reloadVars, overlapped>>

(* Watch: a file event (re)arms the timer.                                 *)
ArmUnlessReloading ==
  /\ watcher = "on" /\ event
  /\ event' = FALSE
  /\ timer' = (timer \/ AllIdle)
  /\ UNCHANGED <<mgrVars, fileVars, watcher, reloadVars, news, overlapped>>

Arm ==
  /\ watcher = "on" /\ event
  /\ event' = FALSE
  /\ timer' = TRUE
  /\ UNCHANGED <<mgrVars, fileVars, watcher, reloadVars, news, overlapped>>

(* The timer fires: tryReload starts in a goroutine p.                     *)
Fire(p) ==
  /\ timer
  /\ phase[p] = "idle"
  /\ timer' = FALSE
  /\ Move(p, "reading", {})
  /\ overlapped' = ~AllIdle
  /\ UNCHANGED <<mgrVars, fileVars, watcher, event, current, news>>

(* NewLoader, called by proxy.New: the first load, before Watch.           *)
NewLoader(p) ==
  /\ watcher = "off" /\ current = {}
  /\ AllIdle
  /\ Move(p, "reading", {})
  /\ UNCHANGED <<mgrVars, fileVars, watchVars, current, news, overlapped>>

(* Proxy.Start: the watcher starts once New has returned.                  *)
StartWatch ==
  /\ watcher = "off" /\ current # {}
  /\ watcher' = "on"
  /\ UNCHANGED <<mgrVars, fileVars, event, timer, reloadVars, news, overlapped>>

(* The context is cancelled (a watcher that cannot start ends like this).  *)
StopWatch ==
  /\ watcher = "on"
  /\ watcher' = "done" /\ timer' = FALSE
  /\ UNCHANGED <<mgrVars, fileVars, event, reloadVars, news, overlapped>>

(* The reload of p gives up; the first one takes the process with it.      *)
GiveUpRetry(p) ==
  /\ Move(p, IF current = {} THEN "idle" ELSE "reading", {})
  /\ watcher' = IF current = {} THEN "done" ELSE watcher
  /\ UNCHANGED <<mgrVars, fileVars, event, timer, current, overlapped>>

GiveUp(p) ==
  /\ Move(p, "idle", {})
  /\ watcher' = IF current = {} THEN "done" ELSE watcher
  /\ UNCHANGED <<mgrVars, fileVars, event, timer, current, overlapped>>

LoadFails(p) ==
  /\ phase[p] = "reading" /\ file = Broken
  /\ news' = IF news \in {"heard", "read"} THEN "refused" ELSE news
  /\ GiveUp(p)

Load(p) ==
  /\ phase[p] = "reading" /\ file # Broken
  /\ news' = IF news \in {"heard", "refused"} THEN "read" ELSE news
  /\ Move(p, "loaded", {file})
  /\ UNCHANGED <<mgrVars, fileVars, watchVars, current, overlapped>>

(***************************************************************************)
(* onLoad is Manager.Rebuild.  It may refuse any configuration: a spec     *)
(* that cannot be fetched now, a Redis that does not answer, or one that   *)
(* is invalid or makes two tools of one name.                              *)
(***************************************************************************)
RebuildFails(p) ==
  /\ phase[p] = "loaded"
  /\ news' = IF news = "read" THEN "refused" ELSE news
  /\ GiveUp(p)

Prepare(p, served) ==
  /\ phase[p] = "loaded"
  /\ \E cfg \in loading[p] : RebuildPrepare(p, cfg, served)
  /\ Move(p, "built", loading[p])
  /\ UNCHANGED <<fileVars, watchVars, current, news, overlapped>>

Commit(p) ==
  /\ phase[p] = "built"
  /\ RebuildCommit(p)
  /\ Move(p, "applied", loading[p])
  /\ UNCHANGED <<fileVars, watchVars, current, news, overlapped>>

StoreForgotten(p) ==
  /\ phase[p] = "applied"
  /\ current' = IF current = {} THEN loading[p] ELSE current
  /\ Move(p, "idle", {})
  /\ UNCHANGED <<mgrVars, fileVars, watchVars, news, overlapped>>

Store(p) ==
  /\ phase[p] = "applied"
  /\ current' = loading[p]
  /\ Move(p, "idle", {})
  /\ UNCHANGED <<mgrVars, fileVars, watchVars, news, overlapped>>

Reload(p) ==
  \/ LoadFails(p) \/ Load(p) \/ RebuildFails(p) \/ Commit(p) \/ Store(p)
  \/ \E served \in [Upstreams -> Revisions] : Prepare(p, served)

LdrNext ==
  \/ \E content \in Configs \cup {Broken} : Write(content)
  \/ Arm \/ StartWatch \/ StopWatch
  \/ \E p \in Reloaders : NewLoader(p) \/ Fire(p) \/ Reload(p)

(***************************************************************************)
(* The watcher goroutine reads its events, an armed timer fires, and a     *)
(* reload that was started runs on (its fetches have timeouts).            *)
(***************************************************************************)
LdrSpec == LdrInit /\ [][LdrNext]_ldrVars

LdrFairSpec ==
  /\ LdrSpec
  /\ WF_ldrVars(Arm)
  /\ WF_ldrVars(\E p \in Reloaders : Fire(p))
  /\ \A p \in Reloaders : WF_ldrVars(Reload(p))

-------------------------------------------------------------------------------
(***************************************************************************)
(* No change that the watcher was told of is forgotten, even if it comes   *)
(* while a reload is reading or building: until some reload has read the   *)
(* file after the change, one is on its way.                               *)
(***************************************************************************)
NothingMissed ==
  watcher = "on" /\ news = "heard" =>
    event \/ timer \/ \E p \in Reloaders : phase[p] = "reading"

AtRest == ~event /\ ~timer /\ AllIdle

Served(cfg) == configured = cfg.ups /\ groups = EffectiveGroups(cfg)

(***************************************************************************)
(* When everything has come to rest, the configuration in force (the       *)
(* Loader's and the Manager's) is the file's, unless the last reload that  *)
(* read the file gave up or the last reloads overlapped.  Two that overlap *)
(* may end with the older configuration, or with one in the Loader and the *)
(* other in the Manager (nothing orders the goroutines of loader.go:110);  *)
(* the next reload that runs alone and succeeds puts that right.           *)
(***************************************************************************)
SequentialReloadsConverge ==
  watcher = "on" /\ AtRest /\ news = "read" /\ ~overlapped =>
    file \in Configs /\ Served(file) /\ current = {file}

(***************************************************************************)
(* Once the file is left alone, the reloads come to rest, having read it:  *)
(* an invalid file is not retried for ever and no event is left waiting.   *)
(***************************************************************************)
ReloadsSettle == <>[](watcher = "on" => AtRest /\ news # "heard")

===============================================================================
