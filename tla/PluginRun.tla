----------------------------- MODULE PluginRun ------------------------------
(***************************************************************************)
(* The attempts of one job of one plugin: spawnPlugin and the subprocess   *)
(* executor of internal/dispatch, the privilege account the process gets,  *)
(* and the retry decision.  One attempt is four goroutines or processes:   *)
(* the executor, the goroutine that waits for the process, the one that    *)
(* writes its stdin, and the plugin with a descendant that may hold its    *)
(* stdout open.  Dispatcher takes the outcome of an attempt as a choice;   *)
(* here is where it comes from.                                            *)
(***************************************************************************)
EXTENDS Integers

CONSTANTS
    MaxAttempts,   \* effectiveMaxAttempts of the job
    MaxStarts,     \* maxStartAttempts
    Hosts          \* host and configuration: see Host

Mode == {"unconfined", "confined", "credentialed"}
Names == {"default", "own", "untrusted"}    \* own: an account of another name

\* accounts gives the tier of each configured account, "none" if it is not.
Host == [capability: BOOLEAN, override: BOOLEAN,
         accounts: [Names -> {"none", "confined", "credentialed"}],
         grant: Names \cup {"none"},
         attested: BOOLEAN]    \* the plugin's bytes are those of its grant

ASSUME PluginRunAssumption ==
    /\ MaxAttempts \in Nat \ {0}
    /\ MaxStarts \in Nat \ {0}
    /\ Hosts \subseteq Host

Outputs == {"none", "ok", "error", "noretry", "garbage", "over"}
Codes == {0, 1, 78}

VARIABLES
    host,
    pc,        \* the executor
    attempt,
    starts,    \* cmd.Start calls of this attempt
    account,   \* the ResolvedAccount
    proc,      \* the plugin process: state, stdout so far, exit code, and
               \* the last signal sent to its group
    child,     \* a descendant that holds stdout
    writer,    \* the goroutine that writes stdin
    waitErr,   \* the goroutine that waits, and its channel
    timer, grace,
    verdict    \* what the last attempt came to

vars == <<host, pc, attempt, starts, account, proc, child, writer, waitErr, timer, grace, verdict>>

Account == [name: Names \cup {""}, mode: Mode]
Unconfined == [name |-> "", mode |-> "unconfined"]
Process == [state: {"none", "running", "exited"}, out: Outputs, code: Codes, signal: {"none", "term", "kill"}]
NoProcess == [state |-> "none", out |-> "none", code |-> 0, signal |-> "none"]

TypeOK ==
    /\ host \in Hosts
    /\ pc \in {"resolve", "start", "select", "precheck", "grace", "reap", "decode", "retry", "done"}
    /\ attempt \in 1 .. MaxAttempts
    /\ starts \in 0 .. MaxStarts
    /\ account \in Account
    /\ proc \in Process
    /\ child \in {"none", "group", "escaped"}
    /\ writer \in {"none", "writing", "done"}
    /\ waitErr \in {"none", "waiting", "full"}
    /\ timer \in {"armed", "fired"}
    /\ grace \in {"off", "armed", "fired"}
    /\ verdict \in {"none", "succeeded", "retryable", "permanent", "exhausted"}

-----------------------------------------------------------------------------
(* Accounts *)

\* evaluateBootGate
BootGate(h) ==
    LET configured == \E n \in Names : h.accounts[n] # "none"
    IN  CASE h.override -> "unconfined"
          [] ~h.override /\ h.capability /\ configured -> "enforce"
          [] ~h.override /\ ~h.capability /\ ~configured -> "unconfined"
          [] OTHER -> "refuse"

configuredAccount(n) == [name |-> n, mode |-> host.accounts[n]]

\* resolveAccount: the grant, the default tier, or none.
resolveAccount ==
    CASE host.grant = "none" /\ host.accounts["default"] # "none" -> configuredAccount("default")
      [] host.grant = "none" /\ host.accounts["default"] = "none" -> Unconfined
      [] OTHER -> configuredAccount(host.grant)

Undefined == host.grant # "none" /\ host.accounts[host.grant] = "none"

\* Mutant: with nothing to downgrade to, the grant is kept.
bindAccountToFingerprint_Keeps(granted) ==
    IF granted.mode = "unconfined" \/ host.attested \/ host.accounts["untrusted"] = "none"
    THEN {granted} ELSE {[name |-> "untrusted", mode |-> "confined"]}

\* The account a plugin of these bytes may have: none (an error), or one.
bindAccountToFingerprint(granted) ==
    CASE granted.mode = "unconfined" \/ host.attested -> {granted}
      [] OTHER -> IF host.accounts["untrusted"] = "none" THEN {}
                  ELSE {[name |-> "untrusted", mode |-> "confined"]}

Drops == account.mode # "unconfined"

-----------------------------------------------------------------------------
(* The end of an attempt *)

\* Mutant: the exit code is looked at only when there is no response.
decideRetryPolicy_ResponseFirst(out, code) ==
    CASE out = "noretry" -> "permanent"
      [] out # "error" /\ code = 78 -> "permanent"
      [] OTHER -> IF attempt >= MaxAttempts THEN "exhausted" ELSE "retryable"

\* Mutant: one attempt too many.
decideRetryPolicy_OffByOne(out, code) ==
    CASE code = 78 \/ out = "noretry" -> "permanent"
      [] OTHER -> IF attempt > MaxAttempts THEN "exhausted" ELSE "retryable"

decideRetryPolicy(out, code) ==
    CASE code = 78 -> "permanent"
      [] code # 78 /\ out = "noretry" -> "permanent"
      [] OTHER -> IF attempt >= MaxAttempts THEN "exhausted" ELSE "retryable"

\* executeJob goes on to failOrRetry or to routing with this verdict.
Return(v) ==
    /\ verdict' = v
    /\ pc' = IF v = "retryable" THEN "retry" ELSE "done"

-----------------------------------------------------------------------------
(* The executor *)

\* spawnPlugin: an undefined account is a spawn error like another; a swapped
\* plugin without a tier to run in is permanent.
Resolve ==
    /\ pc = "resolve"
    /\ LET bound == bindAccountToFingerprint(resolveAccount)
       IN  \/ /\ BootGate(host) # "enforce"
              /\ account' = Unconfined /\ pc' = "start" /\ UNCHANGED verdict
           \/ /\ BootGate(host) = "enforce" /\ Undefined
              /\ Return(decideRetryPolicy("none", 0)) /\ UNCHANGED account
           \/ /\ BootGate(host) = "enforce" /\ ~Undefined /\ bound = {}
              /\ Return("permanent") /\ UNCHANGED account
           \/ /\ BootGate(host) = "enforce" /\ ~Undefined
              /\ \E a \in bound : account' = a
              /\ pc' = "start" /\ UNCHANGED verdict
    /\ UNCHANGED <<host, attempt, starts, proc, child, writer, waitErr, timer, grace>>

\* cmd.Start succeeds; the two goroutines start.
Start ==
    /\ pc = "start"
    /\ starts < MaxStarts
    /\ starts' = starts + 1
    /\ proc' = [NoProcess EXCEPT !.state = "running"]
    /\ writer' = "writing"
    /\ waitErr' = "waiting"
    /\ pc' = "select"
    /\ UNCHANGED <<host, attempt, account, child, timer, grace, verdict>>

\* ETXTBSY, and attempts left.
StartBusy ==
    /\ pc = "start"
    /\ starts + 1 < MaxStarts
    /\ starts' = starts + 1
    /\ UNCHANGED <<host, pc, attempt, account, proc, child, writer, waitErr, timer, grace, verdict>>

\* Any other error: of a process that drops privileges it is a failed drop
\* unless the file is missing.
StartFails(missing) ==
    /\ pc = "start"
    /\ starts < MaxStarts
    /\ starts' = starts + 1
    /\ Return(IF Drops /\ ~missing THEN "permanent" ELSE decideRetryPolicy("none", 0))
    /\ UNCHANGED <<host, attempt, account, proc, child, writer, waitErr, timer, grace>>

\* The select takes either channel when both are ready.
SelectExit ==
    /\ pc = "select"
    /\ waitErr = "full"
    /\ waitErr' = "none"
    /\ pc' = "decode"
    /\ UNCHANGED <<host, attempt, starts, account, proc, child, writer, timer, grace, verdict>>

SelectTimeout ==
    /\ pc = "select"
    /\ timer = "fired"
    /\ pc' = "precheck"
    /\ UNCHANGED <<host, attempt, starts, account, proc, child, writer, waitErr, timer, grace, verdict>>

\* A result that is there already is preferred to the timeout; otherwise SIGTERM
\* goes to the process group.
Precheck ==
    /\ pc = "precheck"
    /\ IF waitErr = "full"
       THEN waitErr' = "none" /\ pc' = "decode" /\ UNCHANGED <<proc, grace>>
       ELSE /\ proc' = [proc EXCEPT !.signal = "term"]
            /\ grace' = "armed"
            /\ pc' = "grace"
            /\ UNCHANGED waitErr
    /\ UNCHANGED <<host, attempt, starts, account, child, writer, timer, verdict>>

\* Mutant: a response written in the grace period is taken.
ExitInGrace_Decodes ==
    /\ pc = "grace"
    /\ waitErr = "full"
    /\ waitErr' = "none"
    /\ pc' = "decode"
    /\ UNCHANGED <<host, attempt, starts, account, proc, child, writer, timer, grace, verdict>>

\* What ends in the grace period is a timeout whatever it wrote.
ExitInGrace ==
    /\ pc = "grace"
    /\ waitErr = "full"
    /\ waitErr' = "none"
    /\ Return(decideRetryPolicy("none", 0))
    /\ UNCHANGED <<host, attempt, starts, account, proc, child, writer, timer, grace>>

\* Mutant: SIGTERM a second time.
Kill_Term ==
    /\ pc = "grace"
    /\ grace = "fired"
    /\ pc' = "reap"
    /\ UNCHANGED <<host, attempt, starts, account, proc, child, writer, waitErr, timer, grace, verdict>>

\* SIGKILL to the group, whether or not the process itself is still there.
Kill ==
    /\ pc = "grace"
    /\ grace = "fired"
    /\ proc' = [proc EXCEPT !.signal = "kill"]
    /\ pc' = "reap"
    /\ UNCHANGED <<host, attempt, starts, account, child, writer, waitErr, timer, grace, verdict>>

\* Mutant: the killed process is not waited for.
Reap_NoWait ==
    /\ pc = "reap"
    /\ waitErr' = "none"
    /\ Return(decideRetryPolicy("none", 0))
    /\ UNCHANGED <<host, attempt, starts, account, proc, child, writer, timer, grace>>

Reap ==
    /\ pc = "reap"
    /\ waitErr = "full"
    /\ waitErr' = "none"
    /\ Return(decideRetryPolicy("none", 0))
    /\ UNCHANGED <<host, attempt, starts, account, proc, child, writer, timer, grace>>

\* decodeCompletion waits for the writer, then looks at the output limit, the
\* response and its status.  A valid response succeeds whatever the exit code.
Decode ==
    /\ pc = "decode"
    /\ writer = "done"
    /\ Return(IF proc.out = "ok" THEN "succeeded" ELSE decideRetryPolicy(proc.out, proc.code))
    /\ UNCHANGED <<host, attempt, starts, account, proc, child, writer, waitErr, timer, grace>>

\* failOrRetry: the job is claimed again later, for another attempt.
Again ==
    /\ pc = "retry"
    /\ attempt' = attempt + 1
    /\ pc' = "resolve"
    /\ starts' = 0
    /\ proc' = NoProcess
    /\ child' = "none"
    /\ writer' = "none"
    /\ waitErr' = "none"
    /\ timer' = "armed"
    /\ grace' = "off"
    /\ verdict' = "none"
    /\ UNCHANGED <<host, account>>

-----------------------------------------------------------------------------
(* The other goroutines, the clock and the plugin *)

\* cmd.Wait returns when the process has exited and nobody holds stdout.
WaitReturns ==
    /\ waitErr = "waiting"
    /\ proc.state = "exited"
    /\ child = "none"
    /\ waitErr' = "full"
    /\ UNCHANGED <<host, pc, attempt, starts, account, proc, child, writer, timer, grace, verdict>>

\* The request is written when the plugin reads it, or the pipe breaks when
\* the plugin and its descendants are gone.
WriterReads ==
    /\ writer = "writing"
    /\ proc.state = "running"
    /\ writer' = "done"
    /\ UNCHANGED <<host, pc, attempt, starts, account, proc, child, waitErr, timer, grace, verdict>>

WriterBroken ==
    /\ writer = "writing"
    /\ proc.state = "exited"
    /\ child = "none"
    /\ writer' = "done"
    /\ UNCHANGED <<host, pc, attempt, starts, account, proc, child, waitErr, timer, grace, verdict>>

\* The timer is made before the first start and runs through the attempts at
\* starting.
TimerFires ==
    /\ pc \in {"start", "select"}
    /\ timer = "armed"
    /\ timer' = "fired"
    /\ UNCHANGED <<host, pc, attempt, starts, account, proc, child, writer, waitErr, grace, verdict>>

GraceFires ==
    /\ grace = "armed"
    /\ grace' = "fired"
    /\ UNCHANGED <<host, pc, attempt, starts, account, proc, child, writer, waitErr, timer, verdict>>

\* What SIGKILL does, some time after it is sent.
Killed ==
    /\ proc.signal = "kill"
    /\ proc.state = "running" \/ child = "group"
    /\ proc' = IF proc.state = "running" THEN [proc EXCEPT !.state = "exited", !.code = 1] ELSE proc
    /\ child' = IF child = "group" THEN "none" ELSE child
    /\ UNCHANGED <<host, pc, attempt, starts, account, writer, waitErr, timer, grace, verdict>>

\* The plugin writes, starts a descendant that keeps its stdout, in its process
\* group or a new one, and exits, in any order and after SIGTERM too.
PluginWrites(o) ==
    /\ proc.state = "running"
    /\ proc.out = "none"
    /\ proc' = [proc EXCEPT !.out = o]
    /\ UNCHANGED <<host, pc, attempt, starts, account, child, writer, waitErr, timer, grace, verdict>>

PluginForks(kind) ==
    /\ proc.state = "running"
    /\ child = "none"
    /\ child' = kind
    /\ UNCHANGED <<host, pc, attempt, starts, account, proc, writer, waitErr, timer, grace, verdict>>

PluginExits(c) ==
    /\ proc.state = "running"
    /\ proc' = [proc EXCEPT !.state = "exited", !.code = c]
    /\ UNCHANGED <<host, pc, attempt, starts, account, child, writer, waitErr, timer, grace, verdict>>

ChildExits ==
    /\ child # "none"
    /\ child' = "none"
    /\ UNCHANGED <<host, pc, attempt, starts, account, proc, writer, waitErr, timer, grace, verdict>>

-----------------------------------------------------------------------------

Init ==
    /\ host \in {h \in Hosts : BootGate(h) # "refuse"}
    /\ pc = "resolve"
    /\ attempt = 1
    /\ starts = 0
    /\ account = Unconfined
    /\ proc = NoProcess
    /\ child = "none"
    /\ writer = "none"
    /\ waitErr = "none"
    /\ timer = "armed"
    /\ grace = "off"
    /\ verdict = "none"

Executor ==
    \/ Resolve \/ Start \/ StartBusy \/ (\E missing \in BOOLEAN : StartFails(missing))
    \/ SelectExit \/ SelectTimeout \/ Precheck \/ ExitInGrace \/ Kill \/ Reap \/ Decode

Plugin ==
    \/ WriterReads
    \/ \E o \in Outputs \ {"none"} : PluginWrites(o)
    \/ \E kind \in {"group", "escaped"} : PluginForks(kind)
    \/ \E c \in Codes : PluginExits(c)
    \/ ChildExits

Clocks == TimerFires \/ GraceFires

Next == Executor \/ Again \/ WaitReturns \/ WriterBroken \/ Killed \/ Clocks \/ Plugin

\* The gateway's goroutines, timers and SIGKILL go on; the plugin owes nothing: it may
\* neither read nor exit, and ignore SIGTERM.
Spec ==
    /\ Init /\ [][Next]_vars
    /\ WF_vars(Executor) /\ WF_vars(Again) /\ WF_vars(WaitReturns) /\ WF_vars(WriterBroken)
    /\ WF_vars(Killed) /\ WF_vars(TimerFires) /\ WF_vars(GraceFires)

-----------------------------------------------------------------------------
(* Properties *)

\* A job succeeds only with a valid response of a process that ended without
\* being told to: nothing written after the deadline counts.
ResultIsGenuine ==
    verdict = "succeeded" => proc.out = "ok" /\ proc.state = "exited" /\ proc.signal = "none"

\* What is permanent stays so: after a process that said, by exit code 78 or in
\* its response and before the deadline, that it is not to be retried, no
\* further attempt begins.
PermanentIsFinal ==
    [][attempt' # attempt =>
         ~(proc.state = "exited" /\ proc.signal = "none" /\ (proc.code = 78 \/ proc.out = "noretry"))]_vars

\* When an attempt is over neither its process nor one of its group that
\* holds its output runs: attempts of a job do not overlap.
AttemptsDoNotOverlap ==
    pc \in {"retry", "done"} => proc.state # "running" /\ child # "group"

\* Where accounts are enforced a process never runs above its tier: with an
\* account to use it never has the gateway's identity, and changed bytes
\* never run in a tier other than the most restricted.
RunsInItsTier ==
    proc.state = "running" /\ BootGate(host) = "enforce" =>
        /\ account.mode = "unconfined" => host.grant = "none" /\ host.accounts["default"] = "none"
        /\ Drops /\ ~host.attested => account = [name |-> "untrusted", mode |-> "confined"]

\* The worker gets its attempt back whatever the plugin does, if no descendant
\* leaves the process group with the plugin's stdout.
AttemptEnds ==
    pc \notin {"retry", "done"} ~> (pc \in {"retry", "done"} \/ [](child = "escaped"))
=============================================================================
