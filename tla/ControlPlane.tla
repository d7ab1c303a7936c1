---------------------------- MODULE ControlPlane ----------------------------
(***************************************************************************)
(* Who decides whether the system trades and how much it risks: the web     *)
(* page (stores in Redis, then publishes), the Telegram bot, the board's    *)
(* policy governor, the circuit breaker (publishes and stores nothing), and *)
(* the kernel, which reads the stored pause when it boots and hears of      *)
(* changes once its control listener is subscribed.                         *)
(*                                                                         *)
(* Risk is in units of 0.01%.  Of the settings of the filter, which all go  *)
(* the same way, there is one.                                             *)
(***************************************************************************)
EXTENDS Integers, Sequences, FiniteSets

CONSTANTS
  WebUsers,
  RiskInputs,   \* what somebody types into the web page
  EnvRisk,      \* MAX_RISK
  MaxChanges,   \* bound: changes by anybody
  MaxBoots      \* bound: boots of the kernel

ASSUME ControlAssumption ==
  /\ RiskInputs \subseteq Nat /\ EnvRisk \in Nat
  /\ MaxChanges \in Nat /\ MaxBoots \in Nat

Keys == {"paused", "risk", "setting"}

VARIABLES
  stored,    \* polis:control and polis:settings, in Redis
  inUse,     \* policy.paused, policy.max_risk and the filter's setting
  tgPaused,  \* the Telegram bot's own pause
  phase,     \* of the kernel: "down", "booting", "listening", "away"
  todo,      \* steps each web request still has to take
  resolving, \* risks the governor has set and not stored yet
  wire,      \* messages on their way to the control listener
  changes, boots,
  doubt,     \* history: a change of the key was lost, or met another one
  asked      \* history: the last word on Telegram was /pause

controlVars == <<stored, inUse, tgPaused, phase, todo, resolving, wire, changes, boots,
                 doubt, asked>>

Controls == [paused : BOOLEAN, risk : Int, setting : {0, 1}]
FromEnv == [paused |-> FALSE, risk |-> EnvRisk, setting |-> 0]

ControlTypeOK ==
  /\ stored \in Controls /\ inUse \in Controls
  /\ tgPaused \in BOOLEAN /\ asked \in BOOLEAN
  /\ phase \in {"down", "booting", "listening", "away"}
  /\ \A u \in WebUsers : \A i \in DOMAIN todo[u] : todo[u][i].key \in Keys
  /\ \A i \in DOMAIN wire : wire[i].key \in Keys
  /\ resolving \in Seq(Int)
  /\ changes \in 0 .. MaxChanges /\ boots \in 0 .. MaxBoots
  /\ doubt \subseteq Keys

ControlInit ==
  /\ stored = FromEnv /\ inUse = FromEnv
  /\ tgPaused = FALSE /\ asked = FALSE
  /\ phase = "down" /\ boots = 0
  /\ todo = [u \in WebUsers |-> <<>>]
  /\ resolving = <<>> /\ wire = <<>>
  /\ changes = 0 /\ doubt = {}

----------------------------------------------------------------------------
Floor(r)   == IF r < 20 THEN 20 ELSE r
Ceiling(r) == IF r > 100 THEN 100 ELSE r
Clamp(r)   == Floor(Ceiling(r))

KeysOf(steps) == {steps[i].key : i \in DOMAIN steps}
Pending == {k \in Keys : \/ \E u \in WebUsers : k \in KeysOf(todo[u])
                         \/ k = "risk" /\ resolving # <<>>}

Change(keys, unsure) ==
  /\ changes < MaxChanges /\ changes' = changes + 1
  /\ doubt' = (doubt \ keys) \cup unsure

Set(k, v)  == [op |-> "hset", key |-> k, value |-> v]
Send(k, v) == [op |-> "publish", key |-> k, value |-> v]

Starts(u, steps) ==
  /\ todo[u] = <<>>
  /\ todo' = [todo EXCEPT ![u] = steps]
  /\ LET keys == KeysOf(steps)
         unstored == {k \in keys : ~\E i \in DOMAIN steps : steps[i].key = k /\ steps[i].op = "hset"}
     IN Change(keys, (keys \cap Pending) \cup unstored)
  /\ UNCHANGED <<stored, inUse, tgPaused, phase, resolving, wire, boots, asked>>

\* control_pause and control_resume; control_risk.
ControlPaused(u, p) == Starts(u, <<Set("paused", p), Send("paused", p)>>)

ControlRisk(u, r) == Starts(u, <<Set("risk", Clamp(r)), Send("risk", Clamp(r))>>)

\* post_settings: everything is stored before anything is sent.
PostSettings(u, v, r) ==
  Starts(u, <<Set("setting", v), Set("risk", Clamp(r)), Send("risk", Clamp(r)), Send("setting", v)>>)

\* apply_best_hours is heard by the filter and stored nowhere.
ApplyBestHours(u, v) == Starts(u, <<Send("setting", v)>>)

\* A publish that nobody is subscribed for is gone.
WebStep(u) ==
  /\ todo[u] # <<>>
  /\ todo' = [todo EXCEPT ![u] = Tail(@)]
  /\ LET s == todo[u][1] IN
       IF s.op = "hset"
         THEN stored' = [stored EXCEPT ![s.key] = s.value] /\ UNCHANGED <<wire, doubt>>
         ELSE /\ UNCHANGED stored
              /\ IF phase = "listening"
                   THEN wire' = Append(wire, s) /\ UNCHANGED doubt
                   ELSE doubt' = doubt \cup {s.key} /\ UNCHANGED wire
  /\ UNCHANGED <<inUse, tgPaused, phase, resolving, changes, boots, asked>>

----------------------------------------------------------------------------
\* _cmd_pause, _cmd_resume.
TelegramPause(p) ==
  /\ phase # "down"
  /\ tgPaused' = p /\ asked' = p
  /\ Change({}, {})
  /\ UNCHANGED <<stored, inUse, phase, todo, resolving, wire, boots>>

\* _cmd_risk: seven or thirteen tenths, rounded; the page is not told.
Tight(r) == Floor((r * 7 + 5) \div 10)
Loose(r) == Ceiling((r * 13 + 5) \div 10)

TelegramRisk(new) ==
  /\ phase # "down"
  /\ inUse' = [inUse EXCEPT !.risk = new]
  /\ Change({}, {"risk"})
  /\ UNCHANGED <<stored, tgPaused, phase, todo, resolving, wire, boots, asked>>

\* PolicyGovernor.handle: sets the risk, then awaits two writes.
Tighten(r) == Floor(r - 10)
Loosen(r)  == Ceiling(r + 10)

Resolve(new) ==
  /\ phase # "down" /\ resolving = <<>>
  /\ new # inUse.risk
  /\ inUse' = [inUse EXCEPT !.risk = new]
  /\ resolving' = <<new>>
  /\ Change({"risk"}, {"risk"} \cap (Pending \cup KeysOf(wire)))
  /\ UNCHANGED <<stored, tgPaused, phase, todo, wire, boots, asked>>

\* _publish_risk; its failure is only logged.
PublishRisk ==
  /\ resolving # <<>> /\ resolving' = <<>>
  /\ \/ stored' = [stored EXCEPT !.risk = resolving[1]] /\ UNCHANGED doubt
     \/ doubt' = doubt \cup {"risk"} /\ UNCHANGED stored
  /\ UNCHANGED <<inUse, tgPaused, phase, todo, wire, changes, boots, asked>>

----------------------------------------------------------------------------
\* What the breaker asks for: MAX_RISK again, a fifth more, or half of it, to be
\* rounded by the listener.
Boosted == (EnvRisk * 12 + 5) \div 10
Halves  == {EnvRisk \div 2, (EnvRisk + 1) \div 2}

\* Mutant: the boost of what is in use.
OverridesCompound == {EnvRisk, (inUse.risk * 12 + 5) \div 10} \cup Halves

Overrides == {EnvRisk, Boosted} \cup Halves

\* _publish_risk_override, to the kernel's own listener: the page is not told.
\* If the listener is away, or the publish fails, nothing happens.
Override(r) ==
  /\ phase = "listening"
  /\ wire' = Append(wire, Send("risk", r))
  /\ Change({}, {"risk"})
  /\ UNCHANGED <<stored, inUse, tgPaused, phase, todo, resolving, boots, asked>>

----------------------------------------------------------------------------
\* Mutant: the boot before it read the stored pause.
ForgetsPause == FALSE

RestoredPause == stored.paused

\* boot up to and with _sync_control_state: the pause is read, the risk is
\* stored; the filter's settings are not read.  Redis may fail before either.
Boot ==
  /\ phase = "down" /\ boots < MaxBoots
  /\ phase' = "booting" /\ boots' = boots + 1
  /\ tgPaused' = FALSE
  /\ \/ /\ inUse' = [FromEnv EXCEPT !.paused = RestoredPause]
        /\ stored' = [stored EXCEPT !.risk = EnvRisk]
        /\ doubt' = Pending \cup {"setting"}
     \/ /\ inUse' \in {FromEnv, [FromEnv EXCEPT !.paused = RestoredPause]}
        /\ doubt' = Keys
        /\ UNCHANGED stored
  /\ UNCHANGED <<todo, resolving, wire, changes, asked>>

\* The control listener subscribes, at first and after its connection broke.
Listens ==
  /\ phase \in {"booting", "away"} /\ phase' = "listening"
  /\ UNCHANGED <<stored, inUse, tgPaused, todo, resolving, wire, changes, boots, doubt, asked>>

Disconnects ==
  /\ phase = "listening" /\ phase' = "away"
  /\ wire' = <<>> /\ doubt' = doubt \cup KeysOf(wire)
  /\ UNCHANGED <<stored, inUse, tgPaused, todo, resolving, changes, boots, asked>>

\* _control_listener.
HearControl ==
  /\ wire # <<>> /\ wire' = Tail(wire)
  /\ inUse' = [inUse EXCEPT ![wire[1].key] = wire[1].value]
  /\ UNCHANGED <<stored, tgPaused, phase, todo, resolving, changes, boots, doubt, asked>>

KernelStops ==
  /\ phase # "down" /\ phase' = "down"
  /\ wire' = <<>> /\ resolving' = <<>>
  /\ UNCHANGED <<stored, inUse, tgPaused, todo, changes, boots, doubt, asked>>

ControlNext ==
  \/ \E u \in WebUsers :
       \/ WebStep(u)
       \/ \E p \in BOOLEAN : ControlPaused(u, p)
       \/ \E r \in RiskInputs : ControlRisk(u, r) \/ \E v \in {0, 1} : PostSettings(u, v, r)
       \/ \E v \in {0, 1} : ApplyBestHours(u, v)
  \/ \E p \in BOOLEAN : TelegramPause(p)
  \/ TelegramRisk(Tight(inUse.risk)) \/ TelegramRisk(Loose(inUse.risk))
  \/ Resolve(Tighten(inUse.risk)) \/ Resolve(Loosen(inUse.risk)) \/ PublishRisk
  \/ \E r \in Overrides : Override(r)
  \/ Boot \/ Listens \/ Disconnects \/ HearControl \/ KernelStops

----------------------------------------------------------------------------
(* Properties.                                                              *)

\* The band of 0.2% to 1% that page, Telegram and governor keep, as far as the
\* breaker's own values do not leave it.
Lowest  == IF EnvRisk \div 2 < 20 THEN EnvRisk \div 2 ELSE 20
Highest == IF Boosted > 100 THEN Boosted ELSE 100

\* Whoever changes the risk, in whatever order: in the kernel and on the page it
\* leaves the band only as far as half of MAX_RISK or its boost do.  No factor is
\* applied to another's outcome without a bound.
RiskInBand == {stored.risk, inUse.risk} \subseteq Lowest .. Highest

\* When the listener is connected and nothing is on its way, the kernel uses
\* what the page shows, unless a change of that key was lost, crossed another, or
\* was made where the page is not told, by the breaker or on Telegram: until the
\* next change by the page, the board or a boot.
KernelFollows ==
  phase = "listening" =>
    \A k \in Keys \ (doubt \cup Pending \cup KeysOf(wire)) : inUse[k] = stored[k]

\* What the bot answers to /pause: nothing is processed until /resume.
TgPauseHolds == phase # "down" /\ asked => tgPaused

=============================================================================
