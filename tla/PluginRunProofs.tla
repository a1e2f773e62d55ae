-------------------------- MODULE PluginRunProofs ---------------------------
(***************************************************************************)
(* What PluginRun keeps for any number of attempts and starts and on every *)
(* host.  The invariant says, for each place the executor can be in, what  *)
(* is known of the process, the channel of the waiting goroutine and the   *)
(* account.                                                                *)
(***************************************************************************)
EXTENDS PluginRun, TLAPS

\* A place where no process was started yet.
Fresh == pc \in {"resolve", "start"} => proc = NoProcess /\ child = "none" /\ waitErr = "none"

\* cmd.Wait has returned only for a process that is gone with its output.
WaitInv == waitErr = "full" => proc.state = "exited" /\ child = "none"

\* Before the timeout is acted on no signal was sent.
SignalInv ==
    /\ pc \in {"select", "precheck", "decode"} => proc.signal = "none"
    /\ pc = "decode" => proc.state = "exited" /\ child = "none"
    /\ pc \in {"grace", "reap"} => proc.signal # "none"

\* What an attempt leaves behind.
OverInv ==
    /\ pc \in {"retry", "done"} => proc.state # "running" /\ child = "none"
    /\ verdict # "none" => pc \in {"retry", "done"}
    /\ pc = "retry" => /\ attempt < MaxAttempts
                       /\ proc.state = "exited" /\ proc.signal = "none"
                             => proc.code # 78 /\ proc.out # "noretry"

\* The account in hand is one the process may have.
TierOK ==
    BootGate(host) = "enforce" =>
        /\ account.mode = "unconfined" => host.grant = "none" /\ host.accounts["default"] = "none"
        /\ Drops /\ ~host.attested => account = [name |-> "untrusted", mode |-> "confined"]

TierInv == pc = "start" \/ proc.state # "none" => TierOK

Inv == TypeOK /\ Fresh /\ WaitInv /\ SignalInv /\ OverInv /\ ResultIsGenuine /\ TierInv

-----------------------------------------------------------------------------

\* The retry decision: a retryable verdict leaves an attempt, and is never given
\* to a process that asked not to be retried.
LEMMA DecideRetry ==
    ASSUME attempt \in 1 .. MaxAttempts, NEW out, NEW code
    PROVE  LET v == decideRetryPolicy(out, code)
           IN  /\ v \in {"retryable", "permanent", "exhausted"}
               /\ v = "retryable" => attempt < MaxAttempts /\ code # 78 /\ out # "noretry"
  BY PluginRunAssumption DEF decideRetryPolicy

\* The initial states satisfy the invariant.
LEMMA InitInv == Init => Inv
  <1> SUFFICES ASSUME Init PROVE Inv
    OBVIOUS
  <1>1. proc \in Process /\ account \in Account
    BY DEF Init, NoProcess, Process, Account, Unconfined, Mode, Outputs, Codes
  <1>2. host \in Hosts
    BY DEF Init
  <1>3. TypeOK
    BY <1>1, <1>2, PluginRunAssumption DEF Init, TypeOK
  <1>4. Fresh /\ WaitInv /\ SignalInv /\ OverInv /\ ResultIsGenuine /\ TierInv
    BY DEF Init, Fresh, WaitInv, SignalInv, OverInv, ResultIsGenuine, TierInv, NoProcess
  <1> QED BY <1>3, <1>4 DEF Inv

\* Accounts are resolved within their type.
LEMMA AccountTypes ==
    ASSUME host \in Hosts, ~Undefined
    PROVE  /\ resolveAccount \in Account
           /\ \A a \in bindAccountToFingerprint(resolveAccount) : a \in Account
  <1>1. host \in Host
    BY PluginRunAssumption
  <1>2. resolveAccount \in Account
    <2>1. CASE host.grant = "none"
      BY <1>1, <2>1 DEF Host, resolveAccount, configuredAccount, Account, Unconfined, Mode, Names
    <2>2. CASE host.grant # "none"
      <3>1. host.grant \in Names /\ host.accounts[host.grant] \in {"confined", "credentialed"}
        BY <1>1, <2>2 DEF Host, Undefined
      <3>2. resolveAccount = configuredAccount(host.grant)
        BY <2>2 DEF resolveAccount
      <3> QED BY <3>1, <3>2 DEF configuredAccount, Account, Mode
    <2> QED BY <2>1, <2>2
  <1>3. [name |-> "untrusted", mode |-> "confined"] \in Account
    BY DEF Account, Mode, Names
  <1> QED BY <1>2, <1>3 DEF bindAccountToFingerprint

\* Resolution never yields an account above the plugin's tier.
LEMMA ResolvedInTier ==
    ASSUME host \in Hosts, ~Undefined,
           NEW a \in bindAccountToFingerprint(resolveAccount)
    PROVE  /\ a.mode = "unconfined" => host.grant = "none" /\ host.accounts["default"] = "none"
           /\ a.mode # "unconfined" /\ ~host.attested
                => a = [name |-> "untrusted", mode |-> "confined"]
  <1>1. host \in Host
    BY PluginRunAssumption
  <1>2. CASE resolveAccount.mode = "unconfined" \/ host.attested
    <2>1. a = resolveAccount
      BY <1>2 DEF bindAccountToFingerprint
    <2>2. resolveAccount.mode = "unconfined" => host.grant = "none" /\ host.accounts["default"] = "none"
      BY <1>1 DEF Host, resolveAccount, configuredAccount, Unconfined, Undefined, Names
    <2> QED BY <1>2, <2>1, <2>2
  <1>3. CASE ~(resolveAccount.mode = "unconfined" \/ host.attested)
    <2>1. a = [name |-> "untrusted", mode |-> "confined"]
      BY <1>3 DEF bindAccountToFingerprint
    <2> QED BY <2>1
  <1> QED BY <1>2, <1>3

\* The parts of the invariant other than types.
Known == Fresh /\ WaitInv /\ SignalInv /\ OverInv /\ ResultIsGenuine /\ TierInv

\* A verdict of decideRetryPolicy is returned for a process that is gone, and
\* either was signalled, never ran, or is the one the decision is about.
LEMMA ReturnKeeps ==
    ASSUME Inv, NEW out, NEW code,
           Return(decideRetryPolicy(out, code)),
           proc.state # "running" /\ child = "none",
           proc.state = "exited" /\ proc.signal = "none" => out = proc.out /\ code = proc.code,
           waitErr' \in {"none", waitErr},
           UNCHANGED <<host, attempt, account, proc, child>>
    PROVE  Known' /\ pc' \in {"retry", "done"} /\ verdict' \in {"retryable", "permanent", "exhausted"}
  <1>1. attempt \in 1 .. MaxAttempts
    BY DEF Inv, TypeOK
  <1>2. /\ verdict' \in {"retryable", "permanent", "exhausted"}
        /\ verdict' = "retryable" => attempt < MaxAttempts /\ code # 78 /\ out # "noretry"
        /\ pc' = IF verdict' = "retryable" THEN "retry" ELSE "done"
    BY <1>1, DecideRetry DEF Return
  <1>3. Fresh' /\ SignalInv' /\ ResultIsGenuine'
    BY <1>2 DEF Fresh, SignalInv, ResultIsGenuine
  <1>4. WaitInv'
    BY DEF Inv, WaitInv
  <1>5. OverInv'
    BY <1>2 DEF OverInv
  <1>6. TierInv'
    BY <1>2 DEF Inv, TierInv, TierOK, Drops
  <1> QED BY <1>2, <1>3, <1>4, <1>5, <1>6 DEF Known

\* Resolving the account, and starting.
LEMMA SpawnKeeps == Inv /\ (Resolve \/ Start \/ StartBusy \/ \E m \in BOOLEAN : StartFails(m)) => Inv'
  <1> SUFFICES ASSUME Inv, Resolve \/ Start \/ StartBusy \/ \E m \in BOOLEAN : StartFails(m)
               PROVE  Inv'
    OBVIOUS
  <1>a. TypeOK /\ Known
    BY DEF Inv, Known
  <1>1. CASE Resolve
    <2>a. proc = NoProcess /\ child = "none" /\ waitErr = "none" /\ verdict = "none"
      BY <1>1, <1>a DEF Resolve, Known, Fresh, OverInv, TypeOK
    <2>1. CASE BootGate(host) # "enforce" /\ account' = Unconfined /\ pc' = "start" /\ UNCHANGED verdict
      <3>1. TypeOK'
        BY <1>a, <1>1, <2>1 DEF Resolve, TypeOK, Account, Unconfined, Mode
      <3>2. Known'
        BY <1>a, <1>1, <2>1, <2>a
           DEF Resolve, NoProcess, Known, Fresh, WaitInv, SignalInv, OverInv,
               ResultIsGenuine, TierInv, TierOK, Drops
      <3> QED BY <3>1, <3>2 DEF Inv, Known
    <2>2. CASE Return(decideRetryPolicy("none", 0)) /\ UNCHANGED account
      <3>1. Known' /\ pc' \in {"retry", "done"} /\ verdict' \in {"retryable", "permanent", "exhausted"}
        BY <1>1, <2>2, <2>a, ReturnKeeps DEF Resolve, NoProcess
      <3>2. TypeOK'
        BY <1>a, <1>1, <2>2, <3>1 DEF Resolve, TypeOK
      <3> QED BY <3>1, <3>2 DEF Inv, Known
    <2>3. CASE Return("permanent") /\ UNCHANGED account
      <3>1. TypeOK'
        BY <1>a, <1>1, <2>3 DEF Resolve, TypeOK, Return
      <3>2. Known'
        BY <1>a, <1>1, <2>3, <2>a
           DEF Resolve, Return, NoProcess, Known, Fresh, WaitInv, SignalInv, OverInv,
               ResultIsGenuine, TierInv, TierOK, Drops
      <3> QED BY <3>1, <3>2 DEF Inv, Known
    <2>4. CASE /\ ~Undefined
               /\ \E a \in bindAccountToFingerprint(resolveAccount) : account' = a
               /\ pc' = "start" /\ UNCHANGED verdict
      <3>1. host \in Hosts /\ host' = host
        BY <1>a, <1>1 DEF TypeOK, Resolve
      <3>2. account' \in Account
        BY <3>1, <2>4, AccountTypes
      <3>3. /\ account'.mode = "unconfined" => host.grant = "none" /\ host.accounts["default"] = "none"
            /\ account'.mode # "unconfined" /\ ~host.attested
                 => account' = [name |-> "untrusted", mode |-> "confined"]
        BY <3>1, <2>4, ResolvedInTier
      <3>4. TierInv'
        BY <3>1, <3>3 DEF TierInv, TierOK, Drops
      <3>5. TypeOK'
        BY <1>a, <1>1, <2>4, <3>2 DEF Resolve, TypeOK
      <3>6. Known'
        BY <1>a, <1>1, <2>4, <2>a, <3>4
           DEF Resolve, NoProcess, Known, Fresh, WaitInv, SignalInv, OverInv, ResultIsGenuine
      <3> QED BY <3>5, <3>6 DEF Inv, Known
    <2> QED BY <1>1, <2>1, <2>2, <2>3, <2>4 DEF Resolve
  <1>2. CASE Start
    <2>1. proc' \in Process /\ proc'.state = "running" /\ proc'.signal = "none"
      BY <1>2 DEF Start, NoProcess, Process, Outputs, Codes
    <2>2. TypeOK'
      BY <1>a, <1>2, <2>1, PluginRunAssumption DEF Start, TypeOK
    <2>3. Known'
      BY <1>a, <1>2, <2>1
         DEF Start, TypeOK, Known, Fresh, WaitInv, SignalInv, OverInv, ResultIsGenuine,
             TierInv, TierOK, Drops
    <2> QED BY <2>2, <2>3 DEF Inv, Known
  <1>3. CASE StartBusy
    <2>1. TypeOK'
      BY <1>a, <1>3, PluginRunAssumption DEF StartBusy, TypeOK
    <2>2. Known'
      BY <1>a, <1>3
         DEF StartBusy, Known, Fresh, WaitInv, SignalInv, OverInv, ResultIsGenuine,
             TierInv, TierOK, Drops
    <2> QED BY <2>1, <2>2 DEF Inv, Known
  <1>4. ASSUME NEW m \in BOOLEAN, StartFails(m) PROVE Inv'
    <2>a. proc = NoProcess /\ child = "none" /\ waitErr = "none"
      BY <1>4, <1>a DEF StartFails, Known, Fresh
    <2>b. starts' \in 0 .. MaxStarts
      BY <1>a, <1>4, PluginRunAssumption DEF StartFails, TypeOK
    <2>1. CASE Return(decideRetryPolicy("none", 0))
      <3>1. Known' /\ pc' \in {"retry", "done"} /\ verdict' \in {"retryable", "permanent", "exhausted"}
        BY <1>4, <2>1, <2>a, ReturnKeeps DEF StartFails, NoProcess
      <3>2. TypeOK'
        BY <1>a, <1>4, <2>b, <3>1 DEF StartFails, TypeOK
      <3> QED BY <3>1, <3>2 DEF Inv, Known
    <2>2. CASE Return("permanent")
      <3>1. TypeOK'
        BY <1>a, <1>4, <2>2, <2>b DEF StartFails, TypeOK, Return
      <3>2. Known'
        BY <1>a, <1>4, <2>2, <2>a
           DEF StartFails, Return, NoProcess, Known, Fresh, WaitInv, SignalInv, OverInv,
               ResultIsGenuine, TierInv, TierOK, Drops
      <3> QED BY <3>1, <3>2 DEF Inv, Known
    <2> QED BY <1>4, <2>1, <2>2 DEF StartFails
  <1> QED BY <1>1, <1>2, <1>3, <1>4

\* Waiting for the process or the deadline, and what follows either.
LEMMA WaitKeeps ==
    Inv /\ (SelectExit \/ SelectTimeout \/ Precheck \/ ExitInGrace \/ Kill \/ Reap \/ Decode) => Inv'
  <1> SUFFICES ASSUME Inv,
                      SelectExit \/ SelectTimeout \/ Precheck \/ ExitInGrace \/ Kill \/ Reap \/ Decode
               PROVE  Inv'
    OBVIOUS
  <1>a. TypeOK /\ Known
    BY DEF Inv, Known
  <1>1. CASE SelectExit
    <2>1. TypeOK'
      BY <1>a, <1>1 DEF SelectExit, TypeOK
    <2>2. Known'
      BY <1>a, <1>1
         DEF SelectExit, TypeOK, Process, Known, Fresh, WaitInv, SignalInv, OverInv,
             ResultIsGenuine, TierInv, TierOK, Drops
    <2> QED BY <2>1, <2>2 DEF Inv, Known
  <1>2. CASE SelectTimeout
    <2>1. TypeOK'
      BY <1>a, <1>2 DEF SelectTimeout, TypeOK
    <2>2. Known'
      BY <1>a, <1>2
         DEF SelectTimeout, TypeOK, Process, Known, Fresh, WaitInv, SignalInv, OverInv,
             ResultIsGenuine, TierInv, TierOK, Drops
    <2> QED BY <2>1, <2>2 DEF Inv, Known
  <1>3. CASE Precheck
    <2>1. TypeOK'
      BY <1>a, <1>3 DEF Precheck, TypeOK, Process
    <2>2. Known'
      BY <1>a, <1>3
         DEF Precheck, TypeOK, Process, Known, Fresh, WaitInv, SignalInv, OverInv,
             ResultIsGenuine, TierInv, TierOK, Drops
    <2> QED BY <2>1, <2>2 DEF Inv, Known
  <1>4. CASE ExitInGrace
    <2>1. Known' /\ pc' \in {"retry", "done"} /\ verdict' \in {"retryable", "permanent", "exhausted"}
      <3>1. proc.state = "exited" /\ child = "none" /\ proc.signal # "none"
        BY <1>a, <1>4 DEF ExitInGrace, Known, WaitInv, SignalInv
      <3> QED BY <1>4, <3>1, ReturnKeeps DEF ExitInGrace
    <2>2. TypeOK'
      BY <1>a, <1>4, <2>1 DEF ExitInGrace, TypeOK
    <2> QED BY <2>1, <2>2 DEF Inv, Known
  <1>5. CASE Kill
    <2>1. TypeOK'
      BY <1>a, <1>5 DEF Kill, TypeOK, Process
    <2>2. Known'
      BY <1>a, <1>5
         DEF Kill, TypeOK, Process, Known, Fresh, WaitInv, SignalInv, OverInv,
             ResultIsGenuine, TierInv, TierOK, Drops
    <2> QED BY <2>1, <2>2 DEF Inv, Known
  <1>6. CASE Reap
    <2>1. Known' /\ pc' \in {"retry", "done"} /\ verdict' \in {"retryable", "permanent", "exhausted"}
      <3>1. proc.state = "exited" /\ child = "none" /\ proc.signal # "none"
        BY <1>a, <1>6 DEF Reap, Known, WaitInv, SignalInv
      <3> QED BY <1>6, <3>1, ReturnKeeps DEF Reap
    <2>2. TypeOK'
      BY <1>a, <1>6, <2>1 DEF Reap, TypeOK
    <2> QED BY <2>1, <2>2 DEF Inv, Known
  <1>7. CASE Decode
    <2>a. proc.state = "exited" /\ child = "none" /\ proc.signal = "none"
      BY <1>a, <1>7 DEF Decode, Known, SignalInv
    <2>1. CASE proc.out = "ok"
      <3>1. verdict' = "succeeded" /\ pc' = "done"
        BY <1>7, <2>1 DEF Decode, Return
      <3>2. TypeOK'
        BY <1>a, <1>7, <3>1 DEF Decode, TypeOK
      <3>3. Known'
        BY <1>a, <1>7, <2>1, <2>a, <3>1
           DEF Decode, Known, Fresh, WaitInv, SignalInv, OverInv, ResultIsGenuine, TierInv,
               TierOK, Drops
      <3> QED BY <3>2, <3>3 DEF Inv, Known
    <2>2. CASE proc.out # "ok"
      <3>1. Known' /\ pc' \in {"retry", "done"} /\ verdict' \in {"retryable", "permanent", "exhausted"}
        BY <1>7, <2>2, <2>a, ReturnKeeps DEF Decode
      <3>2. TypeOK'
        BY <1>a, <1>7, <3>1 DEF Decode, TypeOK
      <3> QED BY <3>1, <3>2 DEF Inv, Known
    <2> QED BY <2>1, <2>2
  <1> QED BY <1>1, <1>2, <1>3, <1>4, <1>5, <1>6, <1>7

\* The next attempt.
LEMMA AgainKeeps == Inv /\ Again => Inv'
  <1> SUFFICES ASSUME Inv, Again PROVE Inv'
    OBVIOUS
  <1>1. attempt' \in 1 .. MaxAttempts
    BY PluginRunAssumption DEF Inv, TypeOK, OverInv, Again
  <1>2. proc' \in Process
    BY DEF Again, NoProcess, Process, Outputs, Codes
  <1>3. TypeOK'
    BY <1>1, <1>2, PluginRunAssumption DEF Inv, TypeOK, Again
  <1>4. Known'
    BY
       DEF Again, NoProcess, Known, Fresh, WaitInv, SignalInv, OverInv, ResultIsGenuine,
           TierInv, TierOK, Drops
  <1> QED BY <1>3, <1>4 DEF Inv, Known

\* The other goroutines and the clocks.
LEMMA OthersKeep ==
    Inv /\ (WaitReturns \/ WriterReads \/ WriterBroken \/ TimerFires \/ GraceFires) => Inv'
  <1> SUFFICES ASSUME Inv, WaitReturns \/ WriterReads \/ WriterBroken \/ TimerFires \/ GraceFires
               PROVE  Inv'
    OBVIOUS
  <1>a. TypeOK /\ Known
    BY DEF Inv, Known
  <1>1. CASE WaitReturns
    <2>1. TypeOK'
      BY <1>a, <1>1 DEF WaitReturns, TypeOK
    <2>2. Known'
      BY <1>a, <1>1
         DEF WaitReturns, TypeOK, Process, Known, Fresh, WaitInv, SignalInv, OverInv,
             ResultIsGenuine, TierInv, TierOK, Drops
    <2> QED BY <2>1, <2>2 DEF Inv, Known
  <1>2. CASE WriterReads
    <2>1. TypeOK'
      BY <1>a, <1>2 DEF WriterReads, TypeOK
    <2>2. Known'
      BY <1>a, <1>2
         DEF WriterReads, TypeOK, Process, Known, Fresh, WaitInv, SignalInv, OverInv,
             ResultIsGenuine, TierInv, TierOK, Drops
    <2> QED BY <2>1, <2>2 DEF Inv, Known
  <1>3. CASE WriterBroken
    <2>1. TypeOK'
      BY <1>a, <1>3 DEF WriterBroken, TypeOK
    <2>2. Known'
      BY <1>a, <1>3
         DEF WriterBroken, TypeOK, Process, Known, Fresh, WaitInv, SignalInv, OverInv,
             ResultIsGenuine, TierInv, TierOK, Drops
    <2> QED BY <2>1, <2>2 DEF Inv, Known
  <1>4. CASE TimerFires
    <2>1. TypeOK'
      BY <1>a, <1>4 DEF TimerFires, TypeOK
    <2>2. Known'
      BY <1>a, <1>4
         DEF TimerFires, TypeOK, Process, Known, Fresh, WaitInv, SignalInv, OverInv,
             ResultIsGenuine, TierInv, TierOK, Drops
    <2> QED BY <2>1, <2>2 DEF Inv, Known
  <1>5. CASE GraceFires
    <2>1. TypeOK'
      BY <1>a, <1>5 DEF GraceFires, TypeOK
    <2>2. Known'
      BY <1>a, <1>5
         DEF GraceFires, TypeOK, Process, Known, Fresh, WaitInv, SignalInv, OverInv,
             ResultIsGenuine, TierInv, TierOK, Drops
    <2> QED BY <2>1, <2>2 DEF Inv, Known
  <1> QED BY <1>1, <1>2, <1>3, <1>4, <1>5

\* The plugin exits.
LEMMA ExitKeeps == ASSUME Inv, NEW c \in Codes, PluginExits(c) PROVE Inv'
  <1>a. TypeOK /\ Known
    BY DEF Inv, Known
  <1>1. proc' \in Process /\ proc'.signal = proc.signal /\ proc'.state = "exited"
    BY <1>a DEF PluginExits, TypeOK, Process
  <1>2. TypeOK'
    BY <1>a, <1>1 DEF PluginExits, TypeOK
  <1>3. Known'
    BY <1>a, <1>1
       DEF PluginExits, TypeOK, Process, NoProcess, Known, Fresh, WaitInv, SignalInv,
           OverInv, ResultIsGenuine, TierInv, TierOK, Drops
  <1> QED BY <1>2, <1>3 DEF Inv, Known

\* The plugin, and SIGKILL.
LEMMA PluginKeeps ==
    Inv /\ (\/ Killed \/ ChildExits
            \/ \E o \in Outputs \ {"none"} : PluginWrites(o)
            \/ \E kind \in {"group", "escaped"} : PluginForks(kind)
            \/ \E c \in Codes : PluginExits(c)) => Inv'
  <1> SUFFICES ASSUME Inv,
                      \/ Killed \/ ChildExits
                      \/ \E o \in Outputs \ {"none"} : PluginWrites(o)
                      \/ \E kind \in {"group", "escaped"} : PluginForks(kind)
                      \/ \E c \in Codes : PluginExits(c)
               PROVE  Inv'
    OBVIOUS
  <1>a. TypeOK /\ Known
    BY DEF Inv, Known
  <1>1. CASE Killed
    <2>1. /\ proc' \in Process /\ proc'.signal = proc.signal
          /\ proc.state = "exited" => proc' = proc
          /\ proc.state # "none" => proc'.state = "exited"
          /\ proc.state = "none" => proc' = proc
      BY <1>a, <1>1 DEF Killed, TypeOK, Process, Codes
    <2>2. TypeOK'
      BY <1>a, <1>1, <2>1 DEF Killed, TypeOK
    <2>3. Known'
      BY <1>a, <1>1, <2>1 DEF Killed, TypeOK, Process, NoProcess, Known, Fresh, WaitInv,
             SignalInv, OverInv, ResultIsGenuine, TierInv, TierOK, Drops
    <2> QED BY <2>2, <2>3 DEF Inv, Known
  <1>2. CASE ChildExits
    <2>1. TypeOK'
      BY <1>a, <1>2 DEF ChildExits, TypeOK
    <2>2. Known'
      BY <1>a, <1>2
         DEF ChildExits, TypeOK, Process, Known, Fresh, WaitInv, SignalInv, OverInv,
             ResultIsGenuine, TierInv, TierOK, Drops
    <2> QED BY <2>1, <2>2 DEF Inv, Known
  <1>3. ASSUME NEW o \in Outputs \ {"none"}, PluginWrites(o) PROVE Inv'
    <2>1. TypeOK'
      BY <1>a, <1>3 DEF PluginWrites, TypeOK, Process
    <2>2. Known'
      BY <1>a, <1>3
         DEF PluginWrites, TypeOK, Process, NoProcess, Known, Fresh, WaitInv, SignalInv,
             OverInv, ResultIsGenuine, TierInv, TierOK, Drops
    <2> QED BY <2>1, <2>2 DEF Inv, Known
  <1>4. ASSUME NEW kind \in {"group", "escaped"}, PluginForks(kind) PROVE Inv'
    <2>1. TypeOK'
      BY <1>a, <1>4 DEF PluginForks, TypeOK, Process
    <2>2. Known'
      BY <1>a, <1>4
         DEF PluginForks, TypeOK, Process, NoProcess, Known, Fresh, WaitInv, SignalInv,
             OverInv, ResultIsGenuine, TierInv, TierOK, Drops
    <2> QED BY <2>1, <2>2 DEF Inv, Known
  <1>5. ASSUME NEW c \in Codes, PluginExits(c) PROVE Inv'
    BY <1>5, ExitKeeps
  <1> QED BY <1>1, <1>2, <1>3, <1>4, <1>5

-----------------------------------------------------------------------------

\* The invariant holds in every reachable state.
THEOREM RunInvariance == Spec => []Inv
  <1>1. Inv /\ [Next]_vars => Inv'
    <2> SUFFICES ASSUME Inv, [Next]_vars PROVE Inv'
      OBVIOUS
    <2>1. CASE Executor
      BY <2>1, SpawnKeeps, WaitKeeps DEF Executor
    <2>2. CASE Again
      BY <2>2, AgainKeeps
    <2>3. CASE WaitReturns \/ WriterBroken \/ Clocks
      BY <2>3, OthersKeep DEF Clocks
    <2>4. CASE Killed
      BY <2>4, PluginKeeps
    <2>5. CASE Plugin
      BY <2>5, PluginKeeps, OthersKeep DEF Plugin
    <2>6. CASE UNCHANGED vars
      BY <2>6
         DEF vars, Inv, TypeOK, Known, Fresh, WaitInv, SignalInv, OverInv, ResultIsGenuine,
             TierInv, TierOK, Drops
    <2> QED BY <2>1, <2>2, <2>3, <2>4, <2>5, <2>6 DEF Next
  <1> QED BY <1>1, InitInv, PTL DEF Spec

\* Whatever plugin, host and timing: a success is the response of a process
\* that ended before its deadline was acted on.
THEOREM GenuineResults == Spec => []ResultIsGenuine
  <1>1. Inv => ResultIsGenuine
    BY DEF Inv
  <1> QED BY <1>1, RunInvariance, PTL

\* Every piece of an attempt's state keeps its type, whatever the plugin,
\* the host and the clocks do.
THEOREM TypesKept == Spec => []TypeOK
  <1>1. Inv => TypeOK
    BY DEF Inv
  <1> QED BY <1>1, RunInvariance, PTL

\* Attempts of a job never overlap.
THEOREM SeparateAttempts == Spec => []AttemptsDoNotOverlap
  <1>1. Inv => AttemptsDoNotOverlap
    BY DEF Inv, OverInv, AttemptsDoNotOverlap
  <1> QED BY <1>1, RunInvariance, PTL

\* No process runs above its tier, on any host.
THEOREM TiersKept == Spec => []RunsInItsTier
  <1>1. Inv => RunsInItsTier
    BY DEF Inv, TierInv, TierOK, RunsInItsTier
  <1> QED BY <1>1, RunInvariance, PTL

\* A failure that is permanent is not retried.
THEOREM NoRetryOfPermanent == Spec => PermanentIsFinal
  <1>1. Inv /\ [Next]_vars =>
          [attempt' # attempt =>
             ~(proc.state = "exited" /\ proc.signal = "none" /\ (proc.code = 78 \/ proc.out = "noretry"))]_vars
    <2> SUFFICES ASSUME Inv, Next, attempt' # attempt
                 PROVE  ~(proc.state = "exited" /\ proc.signal = "none"
                            /\ (proc.code = 78 \/ proc.out = "noretry"))
      OBVIOUS
    <2>1. Again
      BY DEF Next, Executor, Clocks, Plugin, Resolve, Start, StartBusy, StartFails, SelectExit,
             SelectTimeout, Precheck, ExitInGrace, Kill, Reap, Decode, WaitReturns, WriterBroken,
             WriterReads, Killed, TimerFires, GraceFires, PluginWrites, PluginForks, PluginExits,
             ChildExits
    <2> QED BY <2>1 DEF Again, Inv, OverInv
  <1> QED BY <1>1, RunInvariance, PTL DEF Spec, PermanentIsFinal
=============================================================================
