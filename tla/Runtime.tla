------------------------------ MODULE Runtime ------------------------------
(***************************************************************************)
(* The daemon process: runStart and its supervisor loop, the runtimes that *)
(* buildRuntime makes, reloads, the listeners' shutdown and the error      *)
(* channel (src/cmd/ductile/runtime.go, src/internal/api/server.go,        *)
(* management.go, src/internal/webhook/server.go).                         *)
(*                                                                         *)
(* A runtime is a record of its planes.  What a configuration file says is *)
(* kept as far as a step of the build or of a reload depends on it; the    *)
(* pipeline files are part of the disk, because every build reads them     *)
(* again.  Time: a timeout fires only when what it waits for cannot happen *)
(* without a client; the listener's goroutine and the build itself are     *)
(* quicker than ten seconds.                                               *)
(***************************************************************************)
EXTENDS Integers, Sequences, FiniteSets

CONSTANTS Disks,          \* what an operator may leave in the configuration directory
          FirstDisks,     \* what is there at first
          MaxRuntimes,    \* bound on the runtimes built
          MaxEdits        \* bound on the edits of the configuration

(* A configuration: planes it asks for, the tokens it names, the step of the
   build it fails in by itself, and its admission policy. *)
ConfigRecords ==
  [listen : {1, 2}, api : BOOLEAN, relay : BOOLEAN, vault : BOOLEAN,
   tokens : {"none", "good", "unknown_scope"}, hook : {"none", "good", "bad_size"},
   fault : {"none", "load", "preflight", "admission"}, strict : BOOLEAN]

ASSUME RuntimeAssumption ==
  /\ Disks \subseteq [cfg : ConfigRecords, pipelines : BOOLEAN, drift : BOOLEAN]
  /\ FirstDisks \subseteq Disks /\ Disks # {}
  /\ MaxRuntimes \in Nat /\ MaxEdits \in Nat

VARIABLES onDisk,     \* configuration, health of the pipeline files, drift from .checksums
          edits,      \* edits made
          rts,        \* the runtimes built so far, in order
          held,       \* requests in progress on each of them
          current,    \* the manager's runtime, 0 without one
          reload,     \* the reload that holds the manager's mutex
          answer,     \* what the last reload answered
          errs,       \* errors waiting on errCh
          gateway,    \* down, up, stopping (rm.Stop called), ending (its runtime stops)
          ending,     \* the runtime whose stop the process waits for
          asked       \* the process was told to stop

runtimeVars == <<onDisk, edits, rts, held, current, reload, answer, errs, gateway, ending, asked>>

(* make(chan error, 4) *)
ErrCap == 4

(* Mutant: an unbuffered spare. *)
ErrRoom_Few == errs < 1
ErrRoom == errs < ErrCap

AnyConfig == (CHOOSE d \in Disks : TRUE).cfg
Gone == [cfg |-> AnyConfig, sched |-> FALSE, disp |-> FALSE,
         api |-> "none", hook |-> "none", db |-> FALSE, stopping |-> FALSE]

DecideBootPosture(c) ==
  CASE ~c.api -> "closed"
    [] c.api /\ c.tokens = "none" /\ c.vault -> "management-only"
    [] OTHER -> "gateway"

Management(c) == DecideBootPosture(c) = "management-only"

(* The gateway's TCP address is taken by a listener that is still open. *)
PortTaken == \E r \in DOMAIN rts : rts[r].api = "up" /\ ~Management(rts[r].cfg)

---------------------------------------------------------------------------
(* buildRuntime.  The result of a build is the runtime as far as it got: what
   an aborted build has started is not stopped. *)

(* Everything before the database is opened, then everything before the
   trigger planes start: nothing is left but, from the second half, the open
   database.  VerifyIntegrityOnBoot takes the policy of the built configuration. *)
PreflightFails(c) == c.fault = "preflight" \/ (c.strict /\ onDisk.drift)
AdmissionFails(c) ==
  \/ c.fault = "admission" \/ ~onDisk.pipelines
  \/ c.api /\ c.tokens = "none" /\ ~Management(c)

(* Scheduler and dispatcher, not in the management posture. *)
StartTriggerPlanes(c) ==
  [Gone EXCEPT !.cfg = c, !.db = TRUE, !.sched = ~Management(c), !.disp = ~Management(c)]

(* Tokens, policy and margin, then the bind; the listener serves at once. *)
OpensAPI(c) == c.api \/ c.relay
APIFails(c) == OpensAPI(c) /\ ~Management(c) /\ (c.tokens = "unknown_scope" \/ PortTaken)
StartAPI(c, rt) == IF OpensAPI(c) THEN [rt EXCEPT !.api = "up"] ELSE rt

OpensWebhook(c) == ~Management(c) /\ c.hook # "none"
WebhookFails(c) == OpensWebhook(c) /\ c.hook = "bad_size"
StartWebhook(c, rt) == IF OpensWebhook(c) THEN [rt EXCEPT !.hook = "up"] ELSE rt

buildRuntime(c) ==
  LET planes == StartTriggerPlanes(c)
      served == StartAPI(c, planes)
      failed(rt) == [ok |-> FALSE, rt |-> rt]
  IN CASE PreflightFails(c) -> failed([Gone EXCEPT !.cfg = c])
       [] ~PreflightFails(c) /\ AdmissionFails(c) -> failed([Gone EXCEPT !.cfg = c, !.db = TRUE])
       [] OTHER -> IF APIFails(c) THEN failed(planes)
                   ELSE IF WebhookFails(c) THEN failed(served)
                   ELSE [ok |-> TRUE, rt |-> StartWebhook(c, served)]

Built(b) == rts' = Append(rts, b.rt) /\ held' = Append(held, {})

---------------------------------------------------------------------------
(* What a reload answers, and the configuration that runs afterwards. *)
Silent == [kind |-> "none", cfg |-> AnyConfig]
NoReload == [pc |-> "idle", by |-> 0, old |-> 0]
Says(kind, c) == answer' = [kind |-> kind, cfg |-> c]
Answered(kind, c) == Says(kind, c) /\ reload' = NoReload

(* runStart: configuration, PID lock, build; a failure ends the process, which
   takes everything it has started with it. *)
runStart ==
  /\ gateway = "down" /\ onDisk.cfg.fault # "load" /\ Len(rts) < MaxRuntimes
  /\ LET b == buildRuntime(onDisk.cfg)
     IN b.ok /\ Built(b)
  /\ current' = Len(rts) + 1 /\ gateway' = "up" /\ asked' = FALSE /\ answer' = Silent
  /\ UNCHANGED <<onDisk, edits, reload, errs, ending>>

MainIdle == gateway = "up" /\ ~(reload.pc # "idle" /\ reload.by = 0)

(* Reloads under way or accepted, each with the two builds it may need. *)
Booked == 2 * (Cardinality({r \in DOMAIN held : "reload" \in held[r]})
                 + IF reload.pc # "idle" /\ reload.by = 0 THEN 1 ELSE 0)

(* rm.Reload takes the mutex and reads the configuration, for SIGHUP (by = 0)
   or for a handler, whose request stays open until the reload answers. *)
ReloadLoads(by) ==
  /\ reload.pc = "idle"
  /\ IF by = 0 THEN gateway = "up" /\ Len(rts) + Booked + 2 <= MaxRuntimes ELSE "reload" \in held[by]
  /\ IF current = 0 \/ onDisk.cfg.fault = "load"
     THEN /\ Says(IF current = 0 THEN "unavailable" ELSE "rejected",
                  IF current = 0 THEN AnyConfig ELSE rts[current].cfg) /\ UNCHANGED reload
          /\ held' = IF by = 0 THEN held ELSE [held EXCEPT ![by] = @ \ {"reload"}]
     ELSE /\ reload' = [pc |-> "loaded", by |-> by, old |-> current, cfg |-> onDisk.cfg,
                        oldCfg |-> rts[current].cfg]
          /\ answer' = Silent /\ UNCHANGED held
  /\ UNCHANGED <<onDisk, edits, rts, current, errs, gateway, ending, asked>>

Release(h) == IF reload.by = 0 THEN h ELSE [h EXCEPT ![reload.by] = @ \ {"reload"}]

(* verifyReloadIntegrity under the running policy, validateReloadableFields. *)
verifyReloadIntegrity == ~(reload.oldCfg.strict /\ onDisk.drift)
validateReloadableFields ==
  /\ reload.oldCfg.listen = reload.cfg.listen
  /\ (reload.oldCfg.hook = "none") = (reload.cfg.hook = "none")

ReloadVerifies ==
  /\ reload.pc = "loaded"
  /\ IF verifyReloadIntegrity /\ validateReloadableFields
     THEN /\ reload' = [reload EXCEPT !.pc = "waiting"]
          /\ rts' = [rts EXCEPT ![reload.old].stopping = TRUE]
          /\ UNCHANGED <<held, answer>>
     ELSE Answered("rejected", reload.oldCfg) /\ held' = Release(held) /\ UNCHANGED rts
  /\ UNCHANGED <<onDisk, edits, current, errs, gateway, ending, asked>>

(* Mutant: the shutdown, not the listener, is waited for. *)
ListenersStopped_Drained(r) == rts[r].api \in {"none", "ended"} /\ rts[r].hook \in {"none", "ended"}
(* WaitListenersStopped: no new connection is accepted. *)
ListenersStopped(r) == rts[r].api # "up" /\ rts[r].hook # "up"

RestoredConfig == reload.oldCfg

ReloadBuilds ==
  /\ reload.pc = "waiting"
  /\ ListenersStopped(reload.old) \/ (rts[reload.old].api # "up" /\ rts[reload.old].hook # "up")
  /\ IF ~ListenersStopped(reload.old)
     THEN /\ current' = 0 /\ Answered("timeout", AnyConfig) /\ held' = Release(held) /\ UNCHANGED rts
     ELSE LET b == buildRuntime(reload.cfg)
          IN IF b.ok
             THEN /\ rts' = Append(rts, b.rt) /\ held' = Append(Release(held), {})
                  /\ current' = Len(rts) + 1 /\ Answered("ok", reload.cfg)
             ELSE /\ rts' = Append(rts, b.rt) /\ held' = Append(held, {})
                  /\ reload' = [reload EXCEPT !.pc = "restoring"]
                  /\ UNCHANGED <<current, answer>>
  /\ UNCHANGED <<onDisk, edits, errs, gateway, ending, asked>>

ReloadRestoresOld ==
  /\ reload.pc = "restoring"
  /\ LET b == buildRuntime(RestoredConfig)
     IN /\ rts' = Append(rts, b.rt) /\ held' = Append(Release(held), {})
        /\ IF b.ok THEN current' = Len(rts) + 1 /\ Answered("restored", reload.oldCfg)
                   ELSE current' = 0 /\ Answered("failed", AnyConfig)
  /\ UNCHANGED <<onDisk, edits, errs, gateway, ending, asked>>

---------------------------------------------------------------------------
(* Stop of a runtime: its context is cancelled, then the scheduler, the workers
   and the servers end on their own, and the database is closed last. *)

PlanesStop(r) ==
  /\ rts[r].stopping /\ (rts[r].sched \/ rts[r].disp)
  /\ rts' = [rts EXCEPT ![r].sched = FALSE, ![r].disp = FALSE]
  /\ UNCHANGED <<onDisk, edits, held, current, reload, answer, errs, gateway, ending, asked>>

ListenersClose(r) ==
  /\ rts[r].stopping /\ (rts[r].api = "up" \/ rts[r].hook = "up")
  /\ \/ rts[r].api = "up" /\ rts' = [rts EXCEPT ![r].api = "draining"]
     \/ rts[r].hook = "up" /\ rts' = [rts EXCEPT ![r].hook = "draining"]
  /\ UNCHANGED <<onDisk, edits, held, current, reload, answer, errs, gateway, ending, asked>>

(* Shutdown returns once no request is left, or after its timeout with an
   error, which goes to errCh and so waits for room there. *)
APIShutdown(r) ==
  /\ rts[r].api = "draining"
  /\ IF held[r] \ {"hook"} = {} THEN UNCHANGED errs
     ELSE "stream" \in held[r] /\ ErrRoom /\ errs' = errs + 1
  /\ rts' = [rts EXCEPT ![r].api = "ended"] /\ held' = [held EXCEPT ![r] = @ \ {"stream"}]
  /\ UNCHANGED <<onDisk, edits, current, reload, answer, gateway, ending, asked>>

WebhookShutdown(r) ==
  /\ rts[r].hook = "draining"
  /\ IF "hook" \notin held[r] THEN UNCHANGED errs ELSE ErrRoom /\ errs' = errs + 1
  /\ rts' = [rts EXCEPT ![r].hook = "ended"] /\ held' = [held EXCEPT ![r] = @ \ {"hook"}]
  /\ UNCHANGED <<onDisk, edits, current, reload, answer, gateway, ending, asked>>

WoundDown(r) ==
  /\ ~rts[r].sched /\ ~rts[r].disp
  /\ rts[r].api \in {"none", "ended"} /\ rts[r].hook \in {"none", "ended"}
DatabaseCloses(r) ==
  /\ rts[r].stopping /\ rts[r].db /\ WoundDown(r)
  /\ rts' = [rts EXCEPT ![r] = [Gone EXCEPT !.stopping = TRUE]]
  /\ UNCHANGED <<onDisk, edits, held, current, reload, answer, errs, gateway, ending, asked>>

(* Clients: an event stream or a synchronous request, which may stay as long
   as the client likes, a webhook delivery, POST /system/reload. *)
ClientOpens(r) ==
  /\ \/ rts[r].api = "up" /\ "stream" \notin held[r] /\ held' = [held EXCEPT ![r] = @ \union {"stream"}]
     \/ rts[r].hook = "up" /\ "hook" \notin held[r] /\ held' = [held EXCEPT ![r] = @ \union {"hook"}]
     \/ /\ rts[r].api = "up" /\ ~Management(rts[r].cfg) /\ "reload" \notin held[r]
        /\ Len(rts) + Booked + 2 <= MaxRuntimes
        /\ held' = [held EXCEPT ![r] = @ \union {"reload"}]
  /\ UNCHANGED <<onDisk, edits, rts, current, reload, answer, errs, gateway, ending, asked>>

ClientLeaves(r) ==
  /\ held[r] \ {"reload"} # {} /\ held' = [held EXCEPT ![r] = @ \intersect {"reload"}]
  /\ UNCHANGED <<onDisk, edits, rts, current, reload, answer, errs, gateway, ending, asked>>

---------------------------------------------------------------------------
(* The supervisor loop.  rm.Stop takes the mutex, so it waits for a reload. *)

ToldToStop ==
  /\ MainIdle /\ gateway' = "stopping" /\ asked' = TRUE
  /\ UNCHANGED <<onDisk, edits, rts, held, current, reload, answer, errs, ending>>

ComponentFailed ==
  /\ MainIdle /\ errs > 0 /\ errs' = errs - 1 /\ gateway' = "stopping"
  /\ UNCHANGED <<onDisk, edits, rts, held, current, reload, answer, ending, asked>>

ManagerStops ==
  /\ gateway = "stopping" /\ reload.pc = "idle"
  /\ gateway' = "ending" /\ ending' = current /\ current' = 0
  /\ rts' = [r \in DOMAIN rts |-> IF r = current THEN [rts[r] EXCEPT !.stopping = TRUE] ELSE rts[r]]
  /\ UNCHANGED <<onDisk, edits, held, reload, answer, errs, asked>>

(* The process returns when the manager's runtime has stopped, whatever the
   runtimes it no longer knows of are doing. *)
ProcessExits ==
  /\ gateway = "ending" /\ (ending = 0 \/ ending \in {r \in DOMAIN rts : rts[r].stopping /\ ~rts[r].db})
  /\ gateway' = "down" /\ ending' = 0 /\ errs' = 0 /\ answer' = Silent /\ reload' = NoReload
  /\ rts' = <<>> /\ held' = <<>>
  /\ UNCHANGED <<onDisk, edits, current, asked>>

(* An operator edits the configuration or the pipelines, and locks it or not. *)
Edit ==
  /\ edits < MaxEdits /\ edits' = edits + 1 /\ onDisk' \in Disks
  /\ UNCHANGED <<rts, held, current, reload, answer, errs, gateway, ending, asked>>

RuntimeInit ==
  /\ onDisk \in FirstDisks /\ edits = 0
  /\ rts = <<>> /\ held = <<>> /\ current = 0 /\ reload = NoReload
  /\ answer = Silent /\ errs = 0 /\ gateway = "down" /\ ending = 0 /\ asked = FALSE

(* The goroutines of a runtime that stops, the reload that runs, the main loop. *)
Winds(r) ==
  r \in DOMAIN rts /\ (PlanesStop(r) \/ ListenersClose(r) \/ APIShutdown(r)
                          \/ WebhookShutdown(r) \/ DatabaseCloses(r))
Reloads == ReloadVerifies \/ ReloadBuilds \/ ReloadRestoresOld
Supervises == ComponentFailed \/ ManagerStops \/ ProcessExits
Waits(r) == r \in DOMAIN rts /\ ReloadLoads(r)

RuntimeNext ==
  \/ \E r \in 1..MaxRuntimes : Winds(r) \/ Waits(r)
  \/ Reloads \/ Supervises \/ runStart \/ ReloadLoads(0) \/ ToldToStop \/ Edit
  \/ \E r \in DOMAIN rts : ClientOpens(r) \/ ClientLeaves(r)

RuntimeSpec == RuntimeInit /\ [][RuntimeNext]_runtimeVars

(* Every goroutine runs on; a mutex is handed to the one that waits longest. *)
RuntimeFairness ==
  /\ \A r \in 1..MaxRuntimes : WF_runtimeVars(Winds(r)) /\ SF_runtimeVars(Waits(r))
  /\ WF_runtimeVars(Reloads) /\ SF_runtimeVars(Supervises)

---------------------------------------------------------------------------
(* Type correctness; whatever works on a runtime's database, its planes or its
   open API, does so while the database is open (Stop closes it last). *)
RuntimeTypeOK ==
  /\ onDisk \in Disks /\ edits \in 0..MaxEdits
  /\ Len(rts) <= MaxRuntimes /\ DOMAIN held = DOMAIN rts
  /\ \A r \in DOMAIN rts :
       /\ rts[r].api \in {"none", "up", "draining", "ended"} /\ rts[r].hook \in {"none", "up", "draining", "ended"}
       /\ held[r] \subseteq {"stream", "hook", "reload"}
       /\ rts[r].sched \/ rts[r].disp \/ rts[r].api = "up" => rts[r].db
  /\ current \in 0..Len(rts) /\ ending \in 0..Len(rts) /\ errs \in 0..ErrCap
  /\ reload.pc \in {"idle", "loaded", "waiting", "restoring"}
  /\ answer.kind \in {"none", "unavailable", "ok", "rejected", "restored", "failed", "timeout"}
  /\ gateway \in {"down", "up", "stopping", "ending"} /\ asked \in BOOLEAN

Left(r) == rts[r].api = "up" /\ ~rts[r].stopping /\ r # reload.old
CannotBuild(c) == \/ PreflightFails(c) \/ AdmissionFails(c) \/ c.tokens = "unknown_scope" \/ WebhookFails(c)

(* What a reload answers is what runs: the new configuration after ok, the old
   one, with its listeners open again, after a rejection or a restore.  No
   reload gives up waiting for a listener, though the request it serves keeps
   the old server from shutting down. *)
AnswerTellsConfig ==
  /\ answer.kind # "timeout"
  /\ (gateway = "up" /\ reload.pc = "idle" /\ answer.kind \in {"ok", "rejected", "restored"}) =>
       /\ current # 0
       /\ rts[current].cfg = answer.cfg /\ ~rts[current].stopping
       /\ OpensAPI(answer.cfg) => rts[current].api = "up"

(* A reload is truthful, and what it starts or stops never works on a closed
   database meanwhile. *)
ReloadTruthful == RuntimeTypeOK /\ AnswerTellsConfig

(* A build in a reload fails only for a fault of its configuration or of the
   disk, or for the listener an earlier rejected build left behind: the runtime
   it replaces is never in its way. *)
PredecessorOutOfTheWay ==
  [][reload.pc = "waiting" /\ reload'.pc = "restoring" =>
       CannotBuild(reload.cfg) \/ \E r \in DOMAIN rts : Left(r)]_runtimeVars

(* Every reload asked for over the API is answered, whoever else reloads or
   stops the process meanwhile. *)
Asking(r) == r \in {q \in DOMAIN held : "reload" \in held[q]}
ReloadAnswers == \A r \in 1..MaxRuntimes : Asking(r) ~> ~Asking(r)

(* A process told to stop, or one of whose components failed, exits, although
   servers that cannot shut down in time report so on a channel that nobody
   reads any more. *)
StopEnds == gateway = "stopping" ~> gateway = "down"

(* Runtimes get out of each other's way: the request, its runtime, the listeners
   and the process each wait for another, and yet every reload and every stop
   comes to an end, none for want of what a predecessor still holds. *)
OutOfEachOthersWay == PredecessorOutOfTheWay /\ ReloadAnswers /\ StopEnds
=============================================================================
